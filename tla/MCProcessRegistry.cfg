SPECIFICATION RegFairSpec
CONSTANTS
  k1 = k1
  k2 = k2
  Keys = {k1, k2}
  NoKey = NoKey
  Instances = {i1}
  Workers = {w1, w2}
  Nil = Nil
  CapabilitySets <- MCCapabilitySets
  Watchers = {p1}
  MaxRegistrations = 3
INVARIANTS RegTypeOK MirrorConverges SnapshotThenUpdates
PROPERTIES RegisteredAtKept SilentWorkerForgotten
CHECK_DEADLOCK FALSE

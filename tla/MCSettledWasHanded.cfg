SPECIFICATION Spec
CONSTANTS
  k1 = k1
  Keys = {k1}
  NoKey = NoKey
  Instances = {i1}
  Strangers = {}
  Workers = {w1, w2}
  Nil = Nil
  Traffic <- MCTraffic
  FetchKeys <- MCFetchKeys
  Goroutines = {g1}
  MaxJobs = 2
  MaxOrphans = 0
  CipherFails = FALSE
  Subs = {}
  Posts <- PostErrorOnly
  EventBufferSize = 1
  CapabilitySets <- CancelOnly
  Watchers = {}
  MaxRegistrations = 1
INVARIANT SettledWasHanded
CHECK_DEADLOCK FALSE

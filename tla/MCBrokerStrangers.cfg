SPECIFICATION FairSpec
CONSTANTS
  k1 = k1
  Keys = {k1}
  NoKey = NoKey
  Instances = {i1, x1}
  Strangers = {x1}
  Workers = {w1}
  Nil = Nil
  Traffic <- MCTraffic
  FetchKeys <- FetchNothing
  Goroutines = {g1}
  MaxJobs = 1
  MaxOrphans = 0
  CipherFails = FALSE
  Subs = {s1}
  Posts <- PostErrorOnly
  EventBufferSize = 1
  CapabilitySets <- CancelAndTerminate
  Watchers = {p1}
  MaxRegistrations = 1
PROPERTIES RetentionEnds ShutdownCompletes
CHECK_DEADLOCK FALSE

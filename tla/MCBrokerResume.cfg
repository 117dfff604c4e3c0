SPECIFICATION QuietSpec
CONSTANTS
  k1 = k1
  Keys = {k1}
  NoKey = NoKey
  Instances = {i1}
  Strangers = {}
  Workers = {w1}
  Nil = Nil
  Traffic <- MCTraffic
  FetchKeys <- MCFetchKeys
  Goroutines = {g1}
  MaxJobs = 4
  MaxOrphans = 2
  CipherFails = FALSE
  Subs = {}
  Posts = {}
  EventBufferSize = 1
  CapabilitySets <- NoAllowance
  Watchers = {}
  MaxRegistrations = 1
PROPERTY ScheduledResumeComes
CHECK_DEADLOCK FALSE

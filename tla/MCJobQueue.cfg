SPECIFICATION JQSpec
CONSTANTS
  k1 = k1
  k2 = k2
  i1 = i1
  w1 = w1
  w2 = w2
  Keys = {k1, k2}
  NoKey = NoKey
  Instances = {i1}
  Workers = {w1, w2}
  Nil = Nil
  Traffic <- MCTraffic
  FetchKeys <- MCFetchKeys
  Goroutines = {g1}
  MaxJobs = 2
  MaxOrphans = 0
  CipherFails = TRUE
INVARIANTS JQTypeOK OnePlace IndexesAgree RedeliveryPending NoLostWakeup
PROPERTY NoJobVanishes
CHECK_DEADLOCK FALSE

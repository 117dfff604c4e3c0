SPECIFICATION JQFairSpec
CONSTANTS
  k1 = k1
  k2 = k2
  i1 = i1
  w1 = w1
  w2 = w2
  Keys = {k1}
  NoKey = NoKey
  Instances = {i1}
  Workers = {w1}
  Nil = Nil
  Traffic <- ResponsesOnly
  FetchKeys <- OneKey
  Goroutines = {g1}
  MaxJobs = 2
  MaxOrphans = 1
  CipherFails = TRUE
PROPERTIES PendingIsTaken InFlightEnds CloseEndsFetchers
CHECK_DEADLOCK FALSE

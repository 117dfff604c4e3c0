SPECIFICATION TopicSpec
CONSTANTS
  Keys = {k1}
  NoKey = NoKey
  Instances = {i1}
  Workers = {w1}
  Nil = Nil
  Subs = {s1, s2}
  Posts <- AllPosts
  EventBufferSize = 1
SYMMETRY SubSymmetry
INVARIANTS TopicTypeOK OpenIffRegistered BufferNeverOverflows GapsAreMarked NothingAfterTheEnd TerminalFitsOutcome
CHECK_DEADLOCK FALSE

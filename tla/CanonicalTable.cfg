SPECIFICATION AssistSpec
CONSTANTS
  Page = {p1}
  Report = {}
  Key = {k1}
  NoKey = NoKey
  Older <- Never
  ConfigChain <- NoChain
  Room = 2
  MaxId = 3
  Faulty = FALSE
CHECK_DEADLOCK FALSE
INVARIANT CanonicalTable

SPECIFICATION FairSpec
CONSTANTS
  Node = {1, 2, 3, 4}
  MaxConc = 2
  Graphs <- AcyclicGraphs
  NoNode = NoNode
INVARIANTS
  RunsAfterPredecessors
  FailureCascades
  EveryNodeReported
  StatusExplained
PROPERTIES Terminates ImplementsDagRun

SPECIFICATION Spec
CONSTANTS
  Node = {1, 2, 3}
  MaxConc = 2
  Graphs <- CyclicGraphs
  NoNode = NoNode
INVARIANT CycleRejected

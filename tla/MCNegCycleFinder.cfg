CONSTANTS
  Node <- Nodes
  NoNode = NoNode
  NoArc = NoArc
  Unreached = Unreached
  Source = 0
  Graphs <- AllGraphs
SPECIFICATION FairSpec
CHECK_DEADLOCK FALSE
INVARIANTS TypeOK TreeIsForest LabelsAreJustified NoArcIsForgotten CycleIsNegative NoneReachable
PROPERTIES Returns

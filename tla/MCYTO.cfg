CONSTANTS
  Node <- Nodes
  NoNode = NoNode
  NoArc = NoArc
  Graphs <- Classical
  FirstOf <- BySource
SPECIFICATION FairSpec
CHECK_DEADLOCK FALSE
INVARIANTS TypeOK TreeIsForest TreeIsTight KeysFresh TreeIsShortest ResultIsMinimum
PROPERTIES TransitNeverFalls Returns

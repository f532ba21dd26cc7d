\* The measurements alone: do the solvers of main() print the same period?
CONSTANTS
  Node <- Nodes
  NoNode = NoNode
  NoArc = NoArc
  Instances <- Measurements
  FirstOf <- BySource
  Eps <- Tolerance
SPECIFICATION MainSpec
CHECK_DEADLOCK FALSE
INVARIANTS PeriodsAgree

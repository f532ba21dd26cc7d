\* Howard and YTO one after the other on measured and hand-made graphs.
CONSTANTS
  Node <- Nodes
  NoNode = NoNode
  NoArc = NoArc
  Instances <- AllInstances
  FirstOf <- BySource
  Eps <- Tolerance
SPECIFICATION FairMain
\* main() ends once both solvers have returned.
CHECK_DEADLOCK FALSE
INVARIANTS TypeOK ResultIsMinimum PeriodIsOptimum YtoResultIsACycle SolversAgree DanglingIsUndefined
PROPERTIES NoWorseCycle MainReturns

CONSTANTS
  Reports <- AllReports
  FlipFlops = {"DFF1", "DFF2"}
SPECIFICATION Spec
CHECK_DEADLOCK FALSE
INVARIANTS TypeOK GraphIsMerge CyclesArePositive InitialPeriodIsFeasible ProgramAgreesWithGraph

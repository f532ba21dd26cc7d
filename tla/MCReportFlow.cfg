\* Both reports of the fastest run through the .out file into the delay graph.
CONSTANTS
  Reports <- AllReports
  ArrSize = 2
SPECIFICATION FlowSpec
\* Both programs end.
CHECK_DEADLOCK FALSE
INVARIANTS TypeOK TablesAreReports HoldPathsEnter AlignedIsExact FitsIsDefined

\* Does every path of the setup report arrive?
CONSTANTS
  Reports <- AllReports
  ArrSize = 2
SPECIFICATION UnsetSpec
\* Both programs end.
CHECK_DEADLOCK FALSE
INVARIANTS SetupPathsEnter

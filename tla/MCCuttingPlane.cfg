\* Two turns of the loop from every centre to every centre.
CONSTANTS
  DelayGraphs <- Files
  Grid <- Points
  MaxIt = 3
  Huge = 100
SPECIFICATION Spec
\* The loop ends.
CHECK_DEADLOCK FALSE
INVARIANTS NothingBetterIsLost BestIsFeasible

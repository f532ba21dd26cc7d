CONSTANTS
  Netlists <- All
  Iterations = 3
  PathDelays = {1}
SPECIFICATION Spec
CHECK_DEADLOCK FALSE
INVARIANT FirstMoveSucceeded

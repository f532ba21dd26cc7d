CONSTANTS
  Netlists <- Loops
  Iterations = 3
  PathDelays = {1}
SPECIFICATION Spec
CHECK_DEADLOCK FALSE
PROPERTY AnnouncedIsLegal

CONSTANTS
  Netlists <- All
  Iterations = 5
  PathDelays = {1, 2}
SPECIFICATION FairSpec
CHECK_DEADLOCK FALSE
INVARIANTS TypeOK NetIsRetimed ResultWasTimed
PROPERTIES Ends ForwardIsNoRetiming

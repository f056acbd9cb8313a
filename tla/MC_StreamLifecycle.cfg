\* Every thread ends.
SPECIFICATION StreamFairSpec
CHECK_DEADLOCK FALSE
INVARIANTS
  NothingOutlivesSession
  ConnectionInv
  StopReachesDecoder
PROPERTIES
  SessionEnds
  NextGetsItsTurn

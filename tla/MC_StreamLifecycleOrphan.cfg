\* Every thread ends.
SPECIFICATION StreamFairSpec
CHECK_DEADLOCK FALSE
PROPERTY StreamEnds

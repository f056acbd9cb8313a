\* A decoder may be stopped for good, or its process die.
SPECIFICATION FairSpec
CONSTANTS
  Balanced = FALSE
  MaxTries = 1
  MaxFaults = 2
  MaxHdr = 1
CHECK_DEADLOCK FALSE
PROPERTY StopCompletes

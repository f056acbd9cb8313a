\* A decoder may be stopped for good, or its process die.
SPECIFICATION Spec
CONSTANTS
  Balanced = TRUE
  MaxTries = 1
  MaxFaults = 2
  MaxHdr = 0
CHECK_DEADLOCK FALSE
INVARIANTS
  RecoverySound
  QuiescedWhileStreaming
  IdrBeforeFrames
PROPERTY ResetNotWeakened

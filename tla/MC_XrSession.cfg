SPECIFICATION FairSpec
CONSTANTS
 Rates = {72, 90}
 Streams = {90}
 Knobs = {100}
 Floor = 72
 MaxReasks = 1
 Starts = 2
 MaxMoves = 1
 MaxEvents = 1
CHECK_DEADLOCK FALSE
INVARIANTS SessionInv ReportIsOwn StepDownSticks OffIsSeenTo
PROPERTY ComingsAreTold

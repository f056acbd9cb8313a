SPECIFICATION FairSpec
CONSTANTS
 Grace = 4
 Mark = 2
 LaunchWait = 2
 MaxPosts = 3
CHECK_DEADLOCK FALSE
INVARIANT HoldInv
PROPERTIES ResumesRightly HoldEnds

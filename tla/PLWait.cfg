SPECIFICATION FairSpec
CONSTANTS
    MaxTid = 4
    NULL = NULL
CHECK_DEADLOCK FALSE
PROPERTY WaitEnds

SPECIFICATION Spec
CONSTANTS
    MaxTid = 5
    NULL = NULL
CHECK_DEADLOCK FALSE
INVARIANT NoUseAfterFree

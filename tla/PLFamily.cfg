SPECIFICATION MCSpec
CONSTANTS
    MaxTid = 5
    RecordsMaxTid = 4
    NULL = NULL
CHECK_DEADLOCK FALSE
INVARIANTS AwaitedNotFreed ReturnsSound FamilyConsistent OrphansReleased NoStraySleeper RecordsSound

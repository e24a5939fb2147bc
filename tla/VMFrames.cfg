SPECIFICATION FairSpec
CONSTANTS
    t1 = t1
    t2 = t2
    stack1 = stack1
    stack2 = stack2
    data1 = data1
    mmap1 = mmap1
    grow2 = grow2
    NULL = NULL
    Thread <- MCThread
    Page <- GrowPages
    Owner <- GrowOwner
    Kind <- GrowKind
    Value = {0}
    Stored = {}
    Strings = {grow2}
    NFrames = 2
    NSlots = 1
    Tries = 1
    DenyWrite = {}
    MapMayFail = TRUE
    MaxSpawns = 2
INVARIANTS Isolation FrameOwnership SlotOwnership NoAssertFails
PROPERTY KernelWorkEnds

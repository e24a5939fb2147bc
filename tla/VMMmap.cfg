SPECIFICATION Spec
CONSTANTS
    t1 = t1
    t2 = t2
    stack1 = stack1
    stack2 = stack2
    data1 = data1
    mmap1 = mmap1
    grow2 = grow2
    NULL = NULL
    Thread <- MCThread
    Page <- MmapPages
    Owner <- MmapOwner
    Kind <- MmapKind
    Value = {0, 1}
    Stored = {mmap1}
    Strings = {mmap1}
    NFrames = 2
    NSlots = 1
    Tries = 1
    DenyWrite = {}
    MapMayFail = FALSE
    MaxSpawns = 1
INVARIANT MunmapWritesBack
PROPERTY ImplementsUserMemory

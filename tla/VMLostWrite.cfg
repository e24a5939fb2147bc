SPECIFICATION Spec
CONSTANTS
    t1 = t1
    t2 = t2
    stack1 = stack1
    stack2 = stack2
    data1 = data1
    mmap1 = mmap1
    grow2 = grow2
    NULL = NULL
    Thread <- MCThread
    Page <- DataPages
    Owner <- DataOwner
    Kind <- DataKind
    Value = {0, 1}
    Stored = {data1}
    Strings = {stack1, data1, stack2}
    NFrames = 1
    NSlots = 1
    Tries = 1
    DenyWrite = {}
    MapMayFail = FALSE
    MaxSpawns = 1
PROPERTY ImplementsUserMemory

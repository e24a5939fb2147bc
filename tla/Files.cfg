SPECIFICATION Spec
CONSTANTS
    p1 = p1
    p2 = p2
    Process = {p1, p2}
    a = a
    b = b
    Name = {a, b}
    NSectors = 9
    NSlots = 2
    SECTOR_SIZE = 2
    Sizes = {1, 3}
    Offsets = {1}
    Buffers <- MCBuffers
    MaxFd = 2
    MaxCreates = 2
    MaxCrashes = 1
    None = None
INVARIANTS CrashSafe SectorsAccounted OpenCounts ReadsRight
PROPERTIES ExecutableUnchanged
SYMMETRY MCSymmetry
CHECK_DEADLOCK FALSE

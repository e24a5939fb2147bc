SPECIFICATION Spec
CONSTANTS
  ListKey <- MCListKey
  HashKey <- MCHashKey
  BEST_ELEMS_PER_BUCKET = 1
  MIN_BUCKETS = 1
  ELEM_BITS = 2
  PGSIZE = 12
  ArenaSize = 4
  MinBlock = 2
  free_pages = 6
  user_page_limit = 2
  Requests = {0, 2, 3, 5, 9}
  SIZE_BITS = 4
  MaxLive = 3
  Char = {1, 2}
  MaxText = 5
  WORD_BITS = 4
  BitCnt = 5
  Item = {1, 2, 3, 4}
  Payload = {1, 2}
  MaxItems = 4
  MaxValue = 3
  MaxArray = 4
  MaxN = 12
  HEADERS <- MCHEADERS
  KEYS <- MCKEYS
  Line <- MCLine
  PLine <- MCPLine
  MaxLearn = 3
  MaxPredict = 2
  CONSOLE_BUF = 4
  DIGITS_BUF = 16
  PER_LINE = 3
  KILO = 2
  Widths = {0, 3, 8}
  Precisions = {0, 2, 12}
  PAGE_BYTES = 16
  PHYS_BASE = 96
  ADDRESSES = 128
  PHDR_BYTES = 4
  load_pages = 4
  Programs <- MCPrograms
  NAME_LEN = 3
  OCTAL_LEN = 5
  ULONG_MAX = 1023
  INT_MAX = 255
  MaxName = 4
  SECTOR_BITS = 4
  DiskSize = 12
  BLOCK_SECTOR_SIZE = 2
  Machines <- MCMachines
  MaxRead = 4
  MaxActions = 3
  p1 = p1
  p2 = p2
  Process = {p1, p2}
  PD_CNT = 1
  PT_CNT = 1
  RAM_PAGES = 5
  Thread = {main, t2}
  Main = main
  main = main
  t2 = t2
  DiskSector = {0}
  Contents = {0, 1}
  Blank0 = 0
  DriveKinds <- MCDriveKinds
  MaxTransfers = 2
  MaxFaults = 1
  MaxSpurious = 1
  PAGE_CELLS = 4
  CODE_PAGE = 1
  KERNEL_PAGE = 4
  FRAME_CNT = 4
  FileData <- MCData
  MaxSize = 6
  MaxTyped = 1
  MaxHeld = 3
  Sleeper = {1, 2}
  TICK = 3
  DENOM = 2
  MaxTime = 7
  MaxSleep = 3
  TEST_BITS = 3
  MaxPower = 7
INVARIANTS KernelStructuresSound  CLibraryRight ExercisesRight StartsRight DevicesRight
SYMMETRY MCSymmetry
CHECK_DEADLOCK FALSE

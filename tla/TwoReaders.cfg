SPECIFICATION ConsoleSpec
CONSTANTS
    main = main
    idle = idle
    t1 = t1
    t2 = t2
    t3 = t3
    Threads = {main, idle, t1, t2}
    tid_lock = tid_lock
    mon = mon
    rx = rx
    tx = tx
    console_lock = console_lock
    Locks = {tid_lock, mon, rx, tx, console_lock}
    Workloads <- TwoReaders
    TIME_SLICE = 1
    MaxSleep = 1
    INTQ_BUFSIZE = 3
    MsgLen = 2
    MaxMsgs = 1
    NULL = NULL
INVARIANT NoPanic

SPECIFICATION FairSpec
CONSTANTS
    File <- MCFile
    lines_per_block = 2
    lazy_buffer_min_length = 1
    lazy_buffer_max_length = 2
    Client = {c1, c2}
    JobConf <- MCJobConf
    MAX_RUNNING_JOBS = 1
    MaxJobs = 2
    MaxFaults = 1
    None = None
INVARIANTS LinesOnce AnswersMatch ReduceExact
PROPERTIES JobEnds
CHECK_DEADLOCK FALSE

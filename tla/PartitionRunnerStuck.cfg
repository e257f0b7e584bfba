CONSTANTS
    N = 3
    MaxSessions = 1
    Buffer = 2
    BatchSize = 2
    MaxFailures = 0
SPECIFICATION FairSpec
CHECK_DEADLOCK FALSE
PROPERTY
    AllCommitted

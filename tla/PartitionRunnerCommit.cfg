CONSTANTS
    N = 3
    MaxSessions = 2
    Buffer = 2
    BatchSize = 2
    MaxFailures = 1
SPECIFICATION Spec
CHECK_DEADLOCK FALSE
INVARIANTS
    CommittedPrefixHandled
    HandledInOrder
PROPERTIES
    CommitNeverRewinds

SPECIFICATION TroubledSpec
CONSTANTS
    Jobs = {1, 2, 3}  Workers = {w1}  Kinds = {"CONTAINER"}
    MaxGeneration = 2  MaxFailures = 2  RetryLimit = 2  MaxNext = 3
    MaxCommands = 2  MaxFaults = 1  MaxTrouble = 1  Overlap = FALSE
INVARIANTS
    ChainAlive OneChain FailuresCountedOnce
CHECK_DEADLOCK FALSE

SPECIFICATION PipelineSpec
CONSTANTS
    Parts = {"outbox", "store", "overlap", "download", "dashboard",
             "events", "reads", "lines"}
    e1 = e1  e2 = e2  e3 = e3  k1 = k1  k2 = k2  Nobody = Nobody
    Events = {e1, e2, e3}  Keys = {k1, k2}  KeyOf <- TwoKeys  Created <- ByName
    Relays = {r1, r2}  MaxAttempts = 2  MaxLosses = 1
    Workflows = {"w1", "w2"}  Retaining = {"w1"}  Deletable = {"w1"}  NumLines = 1
    LogLanes = {"l1", "l2"}  LogBatchSize = 2  Retries = 2  MaxLogFaults = 1
    Rows <- LogRows  Before <- Upward  Limit = 1  NoCursor = Nobody  Arrivals <- Matches
    Readers = {"c1"}  Searchers = {"c1"}  Downloads = {"c1"}
INVARIANTS PublishedWasProduced KeyOrder LogsStoredOnce  CountedOnce
CHECK_DEADLOCK FALSE

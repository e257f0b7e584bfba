SPECIFICATION FairPipelineSpec
CONSTANTS
    Parts = {"outbox", "settle", "count"}
    e1 = e1  e2 = e2  e3 = e3  k1 = k1  k2 = k2  Nobody = Nobody
    Events = {e1, e2}  Keys = {k1, k2}  KeyOf <- TwoKeys  Created <- ByName
    Relays = {r1, r2}  MaxAttempts = 2  MaxLosses = 1
    Workflows = {"w1"}  Retaining = {"w1"}  Deletable = {"w1"}  NumLines = 2
    LogLanes = {"l1"}  LogBatchSize = 2  Retries = 2  MaxLogFaults = 1
    Rows <- LogRows  Before <- Upward  Limit = 1  NoCursor = Nobody  Arrivals <- Matches
    Readers = {"c1"}  Searchers = {"c1"}  Downloads = {"c1"}
PROPERTIES EverythingArrives
CHECK_DEADLOCK FALSE

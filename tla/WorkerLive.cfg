SPECIFICATION FairWorkerSpec
CONSTANTS
    Parts = {"gate", "pull", "cache", "request", "return", "agent", "runner"}
    t1 = t1  t2 = t2  t3 = t3  p1 = p1  p2 = p2  h1 = h1  h2 = h2  Nobody = Nobody  NoClient = NoClient  NoTask = NoTask
    Jobs = {j1, j2}  LaneIds = {l1, l2}  Concurrency = 1  Limit = 1  MaxEntries = 3  MaxFaults = 1
    Tasks = {t1, t2, t3}  Procs = {p1, p2}  Proc <- OneShared
    TTL = 2  WaitTimeout = 1  RenewInterval = 1  MaxLosses = 1
    Getters = {g1, g2}  Endpoints = {e1, e2}
    maxEntries = 1  idleTTL = 2  MaxClients = 3  MaxTime = 2
    MaxTimeout = 2  Redirects = 1  AnswerSize = 1
    Agents = {a1, a2}  MaxChanges = 2
PROPERTIES EveryRecordCommitted WorkEnds RunReturns NodeStatusTrue
CHECK_DEADLOCK FALSE

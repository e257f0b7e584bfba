SPECIFICATION WorkerSpec
CONSTANTS
    Parts = {"gate", "pull", "cache", "request", "nat64", "run", "replay", "agent"}
    t1 = t1  t2 = t2  t3 = t3  p1 = p1  p2 = p2  h1 = h1  h2 = h2  Nobody = Nobody  NoClient = NoClient  NoTask = NoTask
    Jobs = {j1, j2}  LaneIds = {l1, l2}  Concurrency = 2  Limit = 2  MaxEntries = 4  MaxFaults = 2
    Tasks = {t1, t2, t3}  Procs = {p1, p2}  Proc <- OneShared
    TTL = 3  WaitTimeout = 2  RenewInterval = 1  MaxLosses = 1
    Getters = {g1, g2}  Endpoints = {e1, e2, e3}
    maxEntries = 2  idleTTL = 2  MaxClients = 3  MaxTime = 3
    MaxTimeout = 2  Redirects = 1  AnswerSize = 2
    Agents = {a1, a2}  MaxChanges = 2
INVARIANTS HandoffsAccounted ClientsOwned RequestsConfined RunsAccounted
PROPERTIES PullsExclusive
CHECK_DEADLOCK FALSE

SPECIFICATION FairServicesSpec
CONSTANTS
    Parts = {"workflow", "user", "keys", "manual", "life"}
    Rows <- AllRows  Before <- Newer  Limit = 2  NoCursor = none  Readers = {r1, r2}
    WorkflowCallers = {g1}  UserCallers = {g1, g2}  Goroutines = {b1}  WorkflowCommits = 3  UserCommits = 1
    AskedKeys = {"workflow"}
    users = users  server = server  other = other
    Accounts = {u1, u2}  Inflight = {c1}
    a1 = a1  a2 = a2  a3 = a3  k1 = k1  k2 = k2  Nobody = Nobody
PROPERTIES EventuallyFresh EveryCallAnswered SignerRecovers EventsHandled
CHECK_DEADLOCK FALSE

SPECIFICATION ServicesSpec
CONSTANTS
    Parts = {"list", "workflow", "user", "browser", "again", "rotation", "keys", "access",
             "update", "notification", "register", "cancel", "overlap"}
    Rows <- AllRows  Before <- Newer  Limit = 2  NoCursor = none  Readers = {r1, r2}
    WorkflowCallers = {g1, g2}  UserCallers = {g1, g2}  Goroutines = {b1}  WorkflowCommits = 2  UserCommits = 2
    AskedKeys = {"workflow_by_id"}
    users = users  server = server  other = other
    Accounts = {u1, u2}  Inflight = {c1}
    a1 = a1  a2 = a2  a3 = a3  k1 = k1  k2 = k2  Nobody = Nobody
INVARIANTS NothingSkipped PagesAdvance ReadsHonest CredentialsHonoured CallsAuthorized CommandsOnce
CHECK_DEADLOCK FALSE

\* One CONTAINER job, two processes, which may crash, and one node: claims,
\* replays, expiry and recovery.
CONSTANTS
    j1 = j1  j2 = j2  w1 = w1  n1 = n1  p1 = p1  p2 = p2
    Jobs = {j1}
    Workflows = {w1}
    WorkflowOf <- OneWorkflow
    Rank <- ByName
    ContainerWorkflows = {w1}
    Nodes = {n1}
    MaxConcurrency <- OneSlot
    Processes = {p1, p2}
    NoNode = NoNode
    NoProcess = NoProcess
    MaxDispatch = 2
    SystemRetryLimit = 2
    MaxGrants = 1
SPECIFICATION FairSpec
INVARIANTS
    TypeOK
    OneOwner
    SlotsMatchRunningJobs
    AttemptsWithinLimit
PROPERTIES
    ImplementsLifecycle
    RunningJobEnds
CHECK_DEADLOCK FALSE

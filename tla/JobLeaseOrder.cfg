\* Two jobs of a HEARTBEAT workflow: order, defer, retry, cancel, recovery.
CONSTANTS
    j1 = j1  j2 = j2  w1 = w1  n1 = n1  p1 = p1  p2 = p2
    Jobs = {j1, j2}
    Workflows = {w1}
    WorkflowOf <- OneWorkflow
    Rank <- ByName
    ContainerWorkflows = {}
    Nodes = {}
    MaxConcurrency <- OneSlot
    Processes = {p1}
    NoNode = NoNode
    NoProcess = NoProcess
    MaxDispatch = 3
    SystemRetryLimit = 2
    MaxGrants = 2
SPECIFICATION Spec
CHECK_DEADLOCK FALSE
INVARIANTS
    OneActivePerWorkflow
    TerminalEventsMatchStatus
PROPERTIES
    TerminatedNotResurrected

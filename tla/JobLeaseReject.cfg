\* One CONTAINER job and a runtime node that registers while a claim is being
\* rejected.
CONSTANTS
    j1 = j1  j2 = j2  w1 = w1  n1 = n1  p1 = p1  p2 = p2
    Jobs = {j1}
    Workflows = {w1}
    WorkflowOf <- OneWorkflow
    Rank <- ByName
    ContainerWorkflows = {w1}
    Nodes = {n1}
    MaxConcurrency <- OneSlot
    Processes = {p1}
    NoNode = NoNode
    NoProcess = NoProcess
    MaxDispatch = 1
    SystemRetryLimit = 1
    MaxGrants = 1
SPECIFICATION Spec
CHECK_DEADLOCK FALSE
INVARIANTS
    RejectedDispatchIsOver

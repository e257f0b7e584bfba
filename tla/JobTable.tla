------------------------------ MODULE JobTable ------------------------------
(***************************************************************************)
(* The PostgreSQL rows that decide who may run a job (the jobs,            *)
(* runtime_nodes and workflows tables and the outbox rows inserted with    *)
(* them) and one action per transaction that changes them: the jobs        *)
(* repository (internal/repository/jobs), the scheduler                    *)
(* (internal/repository/scheduler) and the runtime-node repository         *)
(* (internal/repository/runtime).                                          *)
(*                                                                         *)
(* A transaction is one action: every update below is made under the row   *)
(* locks its statements take, so it is serialized with the others that     *)
(* write the same row.  ClaimJob is the exception: a claim that finds no   *)
(* row goes on, holding no lock, to classify the miss, so its statements   *)
(* are separate actions (see JobLease).                                    *)
(*                                                                         *)
(* Time is abstracted to what the statements compare: a lease is live or   *)
(* expired, a heartbeat is "fresh" (within RuntimeHeartbeatTTL), "stale"   *)
(* or "lost" (older than RuntimeLostAfter), a pending job is due or not.   *)
(* A lease token is the number of the grant that produced it: tokens are   *)
(* compared only together with the job they were issued for.               *)
(***************************************************************************)
EXTENDS Integers, FiniteSets

CONSTANTS
    Jobs,                \* job ids that may ever be inserted
    Workflows,
    WorkflowOf,          \* jobs.workflow_id
    Rank,                \* position of a job in (scheduled_at, created_at, id)
    ContainerWorkflows,  \* workflows whose kind is CONTAINER
    Nodes,               \* runtime node ids
    MaxConcurrency,      \* runtime_nodes.max_concurrency
    Processes,           \* execution-worker process instance ids
    NoNode, NoProcess,   \* NULL
    MaxDispatch          \* bound on jobs.dispatch_attempts

ASSUME JobTableAssumption ==
    /\ IsFiniteSet(Jobs)
    /\ WorkflowOf \in [Jobs -> Workflows]
    /\ Rank \in [Jobs -> Nat]
    /\ ContainerWorkflows \subseteq Workflows
    /\ MaxConcurrency \in [Nodes -> Nat]
    /\ NoNode \notin Nodes
    /\ NoProcess \notin Processes
    /\ MaxDispatch \in Nat

VARIABLES
    status, dispatchAttempts, attempts, due,         \* jobs
    leaseToken, grants, leasedBy, leaseLive,         \* jobs: the lease
    runtimeNode, containerId,                        \* jobs: the runtime owner
    nodeStatus, heartbeat, runningJobs,              \* runtime_nodes
    terminated, built,                               \* workflows
    dispatched, terminalEvents                       \* outbox

leaseVars == <<leaseToken, grants, leasedBy, leaseLive>>
nodeVars == <<nodeStatus, heartbeat, runningJobs>>
workflowVars == <<terminated, built>>
outboxVars == <<dispatched, terminalEvents>>
tableVars == <<status, dispatchAttempts, attempts, due, leaseVars, runtimeNode,
               containerId, nodeVars, workflowVars, outboxVars>>

Active == {"PENDING", "QUEUED", "RUNNING"}
Terminal == {"COMPLETED", "FAILED", "CANCELED"}
TerminalEvents == {"ANALYTICS", "JOB_COMPLETED", "JOB_FAILED"}

TableTypeOK ==
    /\ status \in [Jobs -> Active \cup Terminal \cup {"ABSENT"}]
    /\ dispatchAttempts \in [Jobs -> Nat]
    /\ attempts \in [Jobs -> Nat]
    /\ due \in [Jobs -> BOOLEAN]
    /\ leaseToken \in [Jobs -> Nat]
    /\ grants \in [Jobs -> Nat]
    /\ leasedBy \in [Jobs -> Processes \cup {NoProcess}]
    /\ leaseLive \in [Jobs -> BOOLEAN]
    /\ runtimeNode \in [Jobs -> Nodes \cup {NoNode}]
    /\ containerId \in [Jobs -> BOOLEAN]
    /\ nodeStatus \in [Nodes -> {"ABSENT", "READY", "DRAINING", "UNHEALTHY"}]
    /\ heartbeat \in [Nodes -> {"fresh", "stale", "lost"}]
    /\ runningJobs \in [Nodes -> Nat]
    /\ terminated \in [Workflows -> BOOLEAN]
    /\ built \in [Workflows -> BOOLEAN]
    /\ dispatched \subseteq Jobs \X Nat
    /\ terminalEvents \subseteq Jobs \X TerminalEvents

\* Empty tables; every workflow has been built once and no node is registered.
TableInit ==
    /\ status = [j \in Jobs |-> "ABSENT"]
    /\ dispatchAttempts = [j \in Jobs |-> 0]
    /\ attempts = [j \in Jobs |-> 0]
    /\ due = [j \in Jobs |-> FALSE]
    /\ leaseToken = [j \in Jobs |-> 0]
    /\ grants = [j \in Jobs |-> 0]
    /\ leasedBy = [j \in Jobs |-> NoProcess]
    /\ leaseLive = [j \in Jobs |-> FALSE]
    /\ runtimeNode = [j \in Jobs |-> NoNode]
    /\ containerId = [j \in Jobs |-> FALSE]
    /\ nodeStatus = [n \in Nodes |-> "ABSENT"]
    /\ heartbeat = [n \in Nodes |-> "lost"]
    /\ runningJobs = [n \in Nodes |-> 0]
    /\ terminated = [w \in Workflows |-> FALSE]
    /\ built = [w \in Workflows |-> TRUE]
    /\ dispatched = {}
    /\ terminalEvents = {}

-----------------------------------------------------------------------------
(* Conditions the statements share *)

SameWorkflow(j, k) == WorkflowOf[j] = WorkflowOf[k]

EarlierActive(j) ==
    \E k \in Jobs : /\ SameWorkflow(j, k)
                    /\ status[k] \in Active
                    /\ Rank[k] < Rank[j]

OtherRunning(j) ==
    \E k \in Jobs \ {j} : SameWorkflow(j, k) /\ status[k] = "RUNNING"

Blocked(j) == OtherRunning(j) \/ EarlierActive(j)

NeedsRuntime(j) == WorkflowOf[j] \in ContainerWorkflows

EligibleNodes == {n \in Nodes : /\ nodeStatus[n] = "READY"
                                /\ heartbeat[n] = "fresh"
                                /\ runningJobs[n] < MaxConcurrency[n]}

HoldsLease(j, t) == status[j] = "RUNNING" /\ leaseToken[j] = t

RunningOn(n) == {j \in Jobs : status[j] = "RUNNING" /\ runtimeNode[j] = n}

-----------------------------------------------------------------------------
(* Row updates the transactions share *)

\* Faulty variants, named "...Faulty", show that the properties notice a mistake.
ClearLeaseFaulty(j) ==
    /\ leaseToken' = [leaseToken EXCEPT ![j] = 0]
    /\ leaseLive' = [leaseLive EXCEPT ![j] = FALSE]
    /\ UNCHANGED <<grants, leasedBy>>

ClearLease(j) ==
    /\ leaseToken' = [leaseToken EXCEPT ![j] = 0]
    /\ leasedBy' = [leasedBy EXCEPT ![j] = NoProcess]
    /\ leaseLive' = [leaseLive EXCEPT ![j] = FALSE]
    /\ UNCHANGED grants

\* GREATEST(0, running_jobs - 1) on the node that owns the job, if any.
decrementRuntimeSlotForJob(j) ==
    runningJobs' = [n \in Nodes |->
        IF n = runtimeNode[j] /\ runningJobs[n] > 0 THEN runningJobs[n] - 1
                                                    ELSE runningJobs[n]]

\* A RUNNING job ends: its lease is cleared and its runtime slot given back.
\* The runtime owner and the container id stay on the row.
Finish(j, s) ==
    /\ status' = [status EXCEPT ![j] = s]
    /\ ClearLease(j)
    /\ decrementRuntimeSlotForJob(j)
    /\ UNCHANGED <<dispatchAttempts, attempts, due, runtimeNode, containerId,
                   nodeStatus, heartbeat, workflowVars, dispatched>>

insertTerminalJobOutboxEvents(j, action) ==
    terminalEvents' = terminalEvents \cup {<<j, "ANALYTICS">>, <<j, action>>}

-----------------------------------------------------------------------------
(* Scheduling and dispatch *)

ScheduleJob(j) ==
    /\ status[j] = "ABSENT"
    /\ ~terminated[WorkflowOf[j]] /\ built[WorkflowOf[j]]
    /\ status' = [status EXCEPT ![j] = "PENDING"]
    /\ \E b \in BOOLEAN : due' = [due EXCEPT ![j] = b]
    /\ UNCHANGED <<dispatchAttempts, attempts, leaseVars, runtimeNode,
                   containerId, nodeVars, workflowVars, outboxVars>>

\* Time reaches scheduled_at and next_attempt_at.
BecomeDue(j) ==
    /\ status[j] = "PENDING" /\ ~due[j]
    /\ due' = [due EXCEPT ![j] = TRUE]
    /\ UNCHANGED <<status, dispatchAttempts, attempts, leaseVars, runtimeNode,
                   containerId, nodeVars, workflowVars, outboxVars>>

DispatchableFaulty(j) ==
    /\ built[WorkflowOf[j]] /\ ~terminated[WorkflowOf[j]]
    /\ status[j] = "PENDING" /\ due[j]
    /\ ~EarlierActive(j)

Dispatchable(j) ==
    /\ built[WorkflowOf[j]] /\ ~terminated[WorkflowOf[j]]
    /\ \A k \in Jobs : SameWorkflow(j, k) => status[k] \notin {"QUEUED", "RUNNING"}
    /\ status[j] = "PENDING" /\ due[j]
    /\ ~EarlierActive(j)

\* One scheduler pass over the batch S: SKIP LOCKED and LIMIT leave any part of
\* the dispatchable jobs for the next pass.
SchedulerRun(S) ==
    /\ S # {} /\ \A j \in S : Dispatchable(j) /\ dispatchAttempts[j] < MaxDispatch
    /\ \A j, k \in S : j # k => ~SameWorkflow(j, k)
    /\ status' = [j \in Jobs |-> IF j \in S THEN "QUEUED" ELSE status[j]]
    /\ dispatchAttempts' = [j \in Jobs |->
           IF j \in S THEN dispatchAttempts[j] + 1 ELSE dispatchAttempts[j]]
    /\ dispatched' = dispatched \cup {<<j, dispatchAttempts[j] + 1>> : j \in S}
    /\ UNCHANGED <<attempts, due, leaseVars, runtimeNode, containerId, nodeVars,
                   workflowVars, terminalEvents>>

-----------------------------------------------------------------------------
(* Claims *)

Claimable(j, d) ==
    /\ status[j] = "QUEUED"
    /\ dispatchAttempts[j] = d
    /\ NeedsRuntime(j) => EligibleNodes # {}
    /\ ~Blocked(j)

\* The claim statement finds its row: RUNNING under a fresh token, on a runtime
\* slot taken in the same statement.  The node was the least loaded one in the
\* statement's snapshot, not necessarily when its row was locked.
ClaimJob(j, d, p) ==
    /\ Claimable(j, d)
    /\ status' = [status EXCEPT ![j] = "RUNNING"]
    /\ attempts' = [attempts EXCEPT ![j] = @ + 1]
    /\ leaseToken' = [leaseToken EXCEPT ![j] = grants[j] + 1]
    /\ grants' = [grants EXCEPT ![j] = @ + 1]
    /\ leasedBy' = [leasedBy EXCEPT ![j] = p]
    /\ leaseLive' = [leaseLive EXCEPT ![j] = TRUE]
    /\ \E n \in (IF NeedsRuntime(j) THEN EligibleNodes ELSE {NoNode}) :
          /\ runtimeNode' = [runtimeNode EXCEPT ![j] = n]
          /\ runningJobs' = [m \in Nodes |->
                 IF m = n THEN runningJobs[m] + 1 ELSE runningJobs[m]]
    /\ UNCHANGED <<dispatchAttempts, due, containerId, nodeStatus, heartbeat,
                   workflowVars, outboxVars>>

\* The first statement of rejectJobClaim.  It does not look at the dispatch
\* attempt the rejected claim was for.
DeferBlockedJob(j) ==
    /\ status[j] = "QUEUED" /\ Blocked(j)
    /\ status' = [status EXCEPT ![j] = "PENDING"]
    /\ UNCHANGED <<dispatchAttempts, attempts, due, leaseVars, runtimeNode,
                   containerId, nodeVars, workflowVars, outboxVars>>

-----------------------------------------------------------------------------
(* Lease-token-protected commands *)

AttachJobContainer(j, t, n) ==
    /\ HoldsLease(j, t) /\ runtimeNode[j] = n
    /\ containerId' = [containerId EXCEPT ![j] = TRUE]
    /\ UNCHANGED <<status, dispatchAttempts, attempts, due, leaseVars,
                   runtimeNode, nodeVars, workflowVars, outboxVars>>

CompleteJob(j, t) ==
    /\ HoldsLease(j, t)
    /\ Finish(j, "COMPLETED")
    /\ insertTerminalJobOutboxEvents(j, "JOB_COMPLETED")

FailJob(j, t) ==
    /\ HoldsLease(j, t)
    /\ Finish(j, "FAILED")
    /\ insertTerminalJobOutboxEvents(j, "JOB_FAILED")

CancelClaimedJobFaulty(j, t) ==
    /\ HoldsLease(j, t)
    /\ Finish(j, "CANCELED")
    /\ insertTerminalJobOutboxEvents(j, "JOB_FAILED")

\* ... with an event no consumer knows.
CancelClaimedJobUnknown(j, t) ==
    /\ HoldsLease(j, t)
    /\ Finish(j, "CANCELED")
    /\ insertTerminalJobOutboxEvents(j, "JOB_CANCELED")

CancelClaimedJob(j, t) ==
    /\ HoldsLease(j, t)
    /\ Finish(j, "CANCELED")
    /\ UNCHANGED terminalEvents

ReleaseJobForRetryFaulty(j, t) ==
    /\ HoldsLease(j, t)
    /\ status' = [status EXCEPT ![j] = "PENDING"]
    /\ due' = [due EXCEPT ![j] = FALSE]
    /\ runtimeNode' = [runtimeNode EXCEPT ![j] = NoNode]
    /\ containerId' = [containerId EXCEPT ![j] = FALSE]
    /\ ClearLease(j)
    /\ decrementRuntimeSlotForJob(j)
    /\ UNCHANGED <<dispatchAttempts, attempts, nodeStatus, heartbeat,
                   workflowVars, outboxVars>>

\* Back to PENDING, with no owner and a retry time ahead, unless the workflow
\* was terminated meanwhile.
ReleaseJobForRetry(j, t) ==
    /\ HoldsLease(j, t)
    /\ IF terminated[WorkflowOf[j]]
       THEN Finish(j, "CANCELED") /\ UNCHANGED terminalEvents
       ELSE /\ status' = [status EXCEPT ![j] = "PENDING"]
            /\ due' = [due EXCEPT ![j] = FALSE]
            /\ runtimeNode' = [runtimeNode EXCEPT ![j] = NoNode]
            /\ containerId' = [containerId EXCEPT ![j] = FALSE]
            /\ ClearLease(j)
            /\ decrementRuntimeSlotForJob(j)
            /\ UNCHANGED <<dispatchAttempts, attempts, nodeStatus, heartbeat,
                           workflowVars, outboxVars>>

CancelJobFaulty(j) ==
    /\ status[j] # "ABSENT"
    /\ status' = [status EXCEPT ![j] = "CANCELED"]
    /\ UNCHANGED <<dispatchAttempts, attempts, due, leaseVars, runtimeNode,
                   containerId, nodeVars, workflowVars, outboxVars>>

\* The workflow-driven cancellation: no lease token is asked for.
CancelJob(j) ==
    /\ status[j] \in Active
    /\ IF status[j] = "RUNNING"
       THEN Finish(j, "CANCELED")
       ELSE /\ status' = [status EXCEPT ![j] = "CANCELED"]
            /\ UNCHANGED <<dispatchAttempts, attempts, due, leaseVars, runtimeNode,
                           containerId, nodeVars, workflowVars, dispatched>>
    /\ UNCHANGED terminalEvents

-----------------------------------------------------------------------------
(* Lease expiry and recovery *)

RuntimeReachableFaulty(n) == \/ nodeStatus[n] \in {"UNHEALTHY", "DRAINING"}
                             \/ nodeStatus[n] = "READY" /\ heartbeat[n] = "fresh"

RuntimeReachable(n) == \/ nodeStatus[n] \in {"UNHEALTHY", "DRAINING"}
                       \/ nodeStatus[n] = "READY" /\ heartbeat[n] = "fresh"
                       \/ heartbeat[n] = "lost"

Recoverable(j) ==
    /\ status[j] = "RUNNING" /\ ~leaseLive[j]
    /\ runtimeNode[j] \in Nodes => RuntimeReachable(runtimeNode[j])

\* runtime_unavailable of the recovered row.
RuntimeUnavailable(j) ==
    /\ runtimeNode[j] \in Nodes
    /\ nodeStatus[runtimeNode[j]] = "UNHEALTHY" \/ heartbeat[runtimeNode[j]] = "lost"

RecoverExpiredJobLeasesFaulty(S, p) ==
    /\ S # {} /\ \A j \in S : Recoverable(j)
    /\ leasedBy' = [j \in Jobs |-> IF j \in S THEN p ELSE leasedBy[j]]
    /\ leaseLive' = [j \in Jobs |-> IF j \in S THEN TRUE ELSE leaseLive[j]]
    /\ UNCHANGED <<status, dispatchAttempts, attempts, due, leaseToken, grants,
                   runtimeNode, containerId, nodeVars, workflowVars, outboxVars>>

\* The batch S of expired leases moves to process p under fresh tokens.
RecoverExpiredJobLeases(S, p) ==
    /\ S # {} /\ \A j \in S : Recoverable(j)
    /\ leaseToken' = [j \in Jobs |-> IF j \in S THEN grants[j] + 1 ELSE leaseToken[j]]
    /\ grants' = [j \in Jobs |-> IF j \in S THEN grants[j] + 1 ELSE grants[j]]
    /\ leasedBy' = [j \in Jobs |-> IF j \in S THEN p ELSE leasedBy[j]]
    /\ leaseLive' = [j \in Jobs |-> IF j \in S THEN TRUE ELSE leaseLive[j]]
    /\ UNCHANGED <<status, dispatchAttempts, attempts, due, runtimeNode,
                   containerId, nodeVars, workflowVars, outboxVars>>

\* Time passes lease_expires_at before a renewal arrives.
LeaseExpires(j) ==
    /\ status[j] = "RUNNING" /\ leaseLive[j]
    /\ leaseLive' = [leaseLive EXCEPT ![j] = FALSE]
    /\ UNCHANGED <<status, dispatchAttempts, attempts, due, leaseToken, grants,
                   leasedBy, runtimeNode, containerId, nodeVars, workflowVars,
                   outboxVars>>

-----------------------------------------------------------------------------
(* Runtime nodes *)

jobVars == <<status, dispatchAttempts, attempts, due, leaseVars, runtimeNode,
             containerId>>

\* The upsert every runtime-agent report ends in: running_jobs is recounted from
\* the jobs table.  A report that does not refresh the heartbeat leaves an
\* existing one alone and gives a new row the epoch.
UpsertNode(n, s, refresh) ==
    /\ nodeStatus' = [nodeStatus EXCEPT ![n] = s]
    /\ heartbeat' = [heartbeat EXCEPT ![n] =
           CASE refresh -> "fresh"
             [] ~refresh /\ nodeStatus[n] = "ABSENT" -> "lost"
             [] OTHER -> @]
    /\ runningJobs' = [runningJobs EXCEPT ![n] = Cardinality(RunningOn(n))]
    /\ UNCHANGED <<jobVars, workflowVars, outboxVars>>

\* RegisterReady, and Heartbeat after it.
Heartbeat(n) == UpsertNode(n, "READY", TRUE)
MarkDraining(n) == UpsertNode(n, "DRAINING", TRUE)
MarkUnhealthy(n) == UpsertNode(n, "UNHEALTHY", FALSE)

\* Time passes RuntimeHeartbeatTTL, then RuntimeLostAfter, without a report.
HeartbeatAges(n) ==
    /\ nodeStatus[n] # "ABSENT" /\ heartbeat[n] # "lost"
    /\ heartbeat' = [heartbeat EXCEPT ![n] = IF @ = "fresh" THEN "stale" ELSE "lost"]
    /\ UNCHANGED <<jobVars, nodeStatus, runningJobs, workflowVars, outboxVars>>

-----------------------------------------------------------------------------
(* Workflows, as far as the job statements read them *)

TerminateWorkflow(w) ==
    /\ ~terminated[w]
    /\ terminated' = [terminated EXCEPT ![w] = TRUE]
    /\ UNCHANGED <<jobVars, nodeVars, built, outboxVars>>
-----------------------------------------------------------------------------
(* What every transaction keeps true of the tables *)

\* A job has a lease token and an owner exactly while it is RUNNING, and the
\* token is the newest one ever issued for it: none of the ways out of RUNNING
\* (complete, fail, cancel, release, termination) forgets part of the lease, and
\* no token comes back.
LeaseWhileRunning ==
    \A j \in Jobs :
        IF status[j] = "RUNNING"
        THEN leaseToken[j] = grants[j] /\ grants[j] > 0 /\ leasedBy[j] \in Processes
        ELSE leaseToken[j] = 0 /\ leasedBy[j] = NoProcess /\ ~leaseLive[j]

\* runtime_nodes.running_jobs counts exactly the RUNNING jobs placed on the node
\* and never exceeds max_concurrency: every claim takes one slot and every way
\* out of RUNNING returns it exactly once.
SlotsMatchRunningJobs ==
    \A n \in Nodes : /\ runningJobs[n] = Cardinality(RunningOn(n))
                     /\ runningJobs[n] <= MaxConcurrency[n]

\* A job's terminal events are the ones of its final status, inserted with it: a
\* late completion, a cancellation racing a failure or a recovered lease never
\* publishes an outcome the row does not have.
TerminalEventsMatchStatus ==
    \A j \in Jobs :
        {e \in TerminalEvents : <<j, e>> \in terminalEvents} =
            CASE status[j] = "COMPLETED" -> {"ANALYTICS", "JOB_COMPLETED"}
              [] status[j] = "FAILED" -> {"ANALYTICS", "JOB_FAILED"}
              [] OTHER -> {}
=============================================================================

------------------------------ MODULE JobLease ------------------------------
(***************************************************************************)
(* Execution workers running jobs under durable leases: dispatch records   *)
(* from Kafka, the ClaimJob transaction statement by statement, the leases *)
(* a process holds in memory, and the recovery of expired ones             *)
(* (internal/repository/executor, internal/repository/jobs/lease.go).      *)
(*                                                                         *)
(* A dispatch record may be delivered late, out of order and more than     *)
(* once, to any process; a reply of the jobs service may be lost; a        *)
(* process may crash.                                                      *)
(***************************************************************************)
EXTENDS JobTable

CONSTANTS
    SystemRetryLimit,  \* EXECUTION_WORKER_SYSTEM_RETRY_LIMIT
    MaxGrants          \* bound: up to this grant of a job a renewal may be late,
                       \* the reply that carries the token may be lost and its
                       \* process may give up without settling the job

ASSUME JobLeaseAssumption == SystemRetryLimit \in Nat \ {0} /\ MaxGrants \in Nat

VARIABLES
    alive,    \* processes that have not crashed
    held,     \* leases in the memory of a process: <<process, job, token, mode>>
    claims,   \* job.claim commands recorded in the ledger: <<process, job,
              \* dispatch attempt, token>>, token 0 for a recorded rejection
    claimTx   \* ClaimJob transactions past their first statement:
              \* <<process, job, dispatch attempt, next statement>>

vars == <<tableVars, alive, held, claims, claimTx>>
workerVars == <<alive, held, claims, claimTx>>

\* How a process came by a lease: a claim, or the recovery of an expired one
\* whose runtime answers or does not.  A claimed job that the process gave up
\* stays in its handoff registry, "awaiting" reconciliation.
Modes == {"claimed", "recovered", "unavailable", "awaiting"}
Statements == {"defer", "runtime", "status"}

TypeOK ==
    /\ TableTypeOK
    /\ alive \subseteq Processes
    /\ held \subseteq Processes \X Jobs \X Nat \X Modes
    /\ claims \subseteq Processes \X Jobs \X Nat \X Nat
    /\ claimTx \subseteq Processes \X Jobs \X Nat \X Statements

Init ==
    /\ TableInit
    /\ alive = Processes
    /\ held = {}
    /\ claims = {}
    /\ claimTx = {}

Recorded(p, j, d) == \E c \in claims : c[1] = p /\ c[2] = j /\ c[3] = d
\* validateClaimReplayQuery: the lease is still p's and has not expired.
ReplayValid(p, j) == status[j] = "RUNNING" /\ leasedBy[j] = p /\ leaseLive[j]
InClaimTx(p, j, d) == \E s \in Statements : <<p, j, d, s>> \in claimTx

-----------------------------------------------------------------------------
(* The ClaimJob transaction of process p for dispatch attempt d of job j *)

\* The command is new: reserve it and run the claim statement.  When it finds
\* its row the claim is recorded and committed; the reply may be lost.
ClaimStatement(p, j, d) ==
    /\ p \in alive /\ <<j, d>> \in dispatched
    /\ ~Recorded(p, j, d) /\ ~InClaimTx(p, j, d)
    /\ \/ /\ ClaimJob(j, d, p)
          /\ claims' = claims \cup {<<p, j, d, leaseToken'[j]>>}
          /\ \/ held' = held \cup {<<p, j, leaseToken'[j], "claimed">>}
             \/ grants[j] < MaxGrants /\ UNCHANGED held
          /\ UNCHANGED <<alive, claimTx>>
       \/ /\ ~Claimable(j, d)
          /\ claimTx' = claimTx \cup {<<p, j, d, "defer">>}
          /\ UNCHANGED <<tableVars, alive, held, claims>>

\* rejectJobClaim, one statement at a time; other transactions commit between
\* them and each statement sees what is committed when it starts.
DeferStatement(p, j, d) ==
    /\ <<p, j, d, "defer">> \in claimTx
    /\ \/ /\ DeferBlockedJob(j)
          /\ claims' = claims \cup {<<p, j, d, 0>>}
          /\ claimTx' = claimTx \ {<<p, j, d, "defer">>}
       \/ /\ ~(status[j] = "QUEUED" /\ Blocked(j))
          /\ claimTx' = (claimTx \ {<<p, j, d, "defer">>}) \cup {<<p, j, d, "runtime">>}
          /\ UNCHANGED <<tableVars, claims>>
    /\ UNCHANGED <<alive, held>>

\* No runtime: Unavailable, the transaction rolls back and the record stays
\* uncommitted for another attempt.
RuntimeStatement(p, j, d) ==
    /\ <<p, j, d, "runtime">> \in claimTx
    /\ claimTx' = (claimTx \ {<<p, j, d, "runtime">>}) \cup
           (IF /\ status[j] = "QUEUED" /\ dispatchAttempts[j] = d
               /\ NeedsRuntime(j) /\ EligibleNodes = {}
            THEN {} ELSE {<<p, j, d, "status">>})
    /\ UNCHANGED <<tableVars, alive, held, claims>>

\* The job is not QUEUED, or else its dispatch attempt is taken to differ: the
\* rejection is recorded, and the worker commits the record.
StatusStatement(p, j, d) ==
    /\ <<p, j, d, "status">> \in claimTx
    /\ claims' = claims \cup {<<p, j, d, 0>>}
    /\ claimTx' = claimTx \ {<<p, j, d, "status">>}
    /\ UNCHANGED <<tableVars, alive, held>>

\* The transaction is rolled back between two statements.
RollbackClaim(p, j, d) ==
    /\ InClaimTx(p, j, d)
    /\ claimTx' = {x \in claimTx : <<x[1], x[2], x[3]>> # <<p, j, d>>}
    /\ UNCHANGED <<tableVars, alive, held, claims>>

\* The record is delivered again after the reply was lost: the recorded claim is
\* returned while its lease is still this process's.  While the handoff registry
\* has the claim, a second delivery only waits for the first.
ReplayClaim(p, j, d) ==
    /\ p \in alive
    /\ <<p, j, d, leaseToken[j]>> \in claims /\ ReplayValid(p, j) /\ dispatchAttempts[j] = d
    /\ \A h \in held : ~(h[1] = p /\ h[2] = j /\ h[3] = leaseToken[j])
    /\ held' = held \cup {<<p, j, leaseToken[j], "claimed">>}
    /\ UNCHANGED <<tableVars, alive, claims, claimTx>>

-----------------------------------------------------------------------------
(* What a process does with a lease h = <<p, j, t, mode>> it holds *)

Drop(h) == held' = held \ {h}

\* The process gives the job up: a renewal finds the lease gone or expired, a
\* command is answered "job lease not held", or the runtime or a service fails it
\* with an error that leaves the row for another recovery.
AbandonLease(h) ==
    /\ h[4] # "awaiting"
    /\ ~(HoldsLease(h[2], h[3]) /\ leaseLive[h[2]]) \/ grants[h[2]] <= MaxGrants
    /\ held' = (held \ {h}) \cup
           (IF h[4] = "claimed" THEN {<<h[1], h[2], h[3], "awaiting">>} ELSE {})
    /\ UNCHANGED <<tableVars, alive, claims, claimTx>>

\* reconcileHandoffs replays the claim of an awaiting entry, and removes the entry
\* once the lease is no longer the one claimed.
ReconcileHandoff(h) ==
    /\ h[4] = "awaiting"
    /\ ~(ReplayValid(h[1], h[2]) /\ leaseToken[h[2]] = h[3])
    /\ Drop(h)
    /\ UNCHANGED <<tableVars, alive, claims, claimTx>>

AttachContainer(h) ==
    /\ h[4] = "claimed" /\ runtimeNode[h[2]] # NoNode
    /\ AttachJobContainer(h[2], h[3], runtimeNode[h[2]])
    /\ UNCHANGED workerVars

\* The execution succeeded, or a recovered container had exited with code 0.
FinishCompleted(h) ==
    /\ h[4] = "claimed" \/ (h[4] = "recovered" /\ containerId[h[2]])
    /\ CompleteJob(h[2], h[3])
    /\ Drop(h)
    /\ UNCHANGED <<alive, claims, claimTx>>

\* A user failure, or a recovered container that had exited with another code.
FinishUserFailed(h) ==
    /\ h[4] = "claimed" \/ (h[4] = "recovered" /\ containerId[h[2]])
    /\ FailJob(h[2], h[3])
    /\ Drop(h)
    /\ UNCHANGED <<alive, claims, claimTx>>

FinishSystemRetryFaulty(h) ==
    /\ h[4] # "awaiting"
    /\ IF attempts[h[2]] <= SystemRetryLimit
       THEN ReleaseJobForRetry(h[2], h[3])
       ELSE FailJob(h[2], h[3])
    /\ Drop(h)
    /\ UNCHANGED <<alive, claims, claimTx>>

\* A system failure, or a recovered job that has to run again: released below
\* the retry limit, failed at it.
FinishSystemRetry(h) ==
    /\ h[4] # "awaiting"
    /\ IF attempts[h[2]] < SystemRetryLimit
       THEN ReleaseJobForRetry(h[2], h[3])
       ELSE FailJob(h[2], h[3])
    /\ Drop(h)
    /\ UNCHANGED <<alive, claims, claimTx>>

\* The worker reads the workflow after its claim and finds it terminated.
FinishTerminated(h) ==
    /\ h[4] = "claimed" /\ terminated[WorkflowOf[h[2]]]
    /\ CancelClaimedJob(h[2], h[3])
    /\ Drop(h)
    /\ UNCHANGED <<alive, claims, claimTx>>

\* The recovery loop of process p takes over the batch S; the reply may be lost.
RecoverLeases(p, S) ==
    /\ p \in alive
    /\ RecoverExpiredJobLeases(S, p)
    /\ \/ held' = held \cup
             {<<p, j, leaseToken'[j],
                IF RuntimeUnavailable(j) THEN "unavailable" ELSE "recovered">> : j \in S}
       \/ (\A j \in S : grants[j] < MaxGrants) /\ UNCHANGED held
    /\ UNCHANGED <<alive, claims, claimTx>>

\* A process dies with all it held; the deployment keeps another one running.
Crash(p) ==
    /\ p \in alive /\ alive # {p}
    /\ alive' = alive \ {p}
    /\ held' = {h \in held : h[1] # p}
    /\ UNCHANGED <<tableVars, claims, claimTx>>

-----------------------------------------------------------------------------
\* The process that would renew the lease of j.
Renewed(j) == \E h \in held : h[2] = j /\ h[3] = leaseToken[j] /\ h[4] # "awaiting"

\* A lease nobody renews runs out; one that is renewed expires only when a
\* renewal is late, which MaxGrants bounds.
Expire(j) == /\ ~Renewed(j) \/ grants[j] <= MaxGrants
             /\ LeaseExpires(j)
             /\ UNCHANGED workerVars

JobStep(j) == (ScheduleJob(j) \/ BecomeDue(j) \/ CancelJob(j)) /\ UNCHANGED workerVars

NodeStep(n) ==
    (Heartbeat(n) \/ MarkDraining(n) \/ MarkUnhealthy(n) \/ HeartbeatAges(n))
    /\ UNCHANGED workerVars

ClaimStep(p, j, d) ==
    \/ ClaimStatement(p, j, d) \/ DeferStatement(p, j, d)
    \/ RuntimeStatement(p, j, d) \/ StatusStatement(p, j, d)
    \/ RollbackClaim(p, j, d) \/ ReplayClaim(p, j, d)

FinishLease(h) ==
    \/ FinishCompleted(h) \/ FinishUserFailed(h)
    \/ FinishSystemRetry(h) \/ FinishTerminated(h)

LeaseStep(h) ==
    AbandonLease(h) \/ ReconcileHandoff(h) \/ AttachContainer(h) \/ FinishLease(h)

Next ==
    \/ \E j \in Jobs : JobStep(j) \/ Expire(j)
    \/ \E S \in SUBSET Jobs : SchedulerRun(S) /\ UNCHANGED workerVars
    \/ \E w \in Workflows : TerminateWorkflow(w) /\ UNCHANGED workerVars
    \/ \E n \in Nodes : NodeStep(n)
    \/ \E p \in Processes, j \in Jobs, d \in 1..MaxDispatch : ClaimStep(p, j, d)
    \/ \E h \in held : LeaseStep(h)
    \/ \E p \in Processes, S \in SUBSET Jobs : RecoverLeases(p, S)
    \/ \E p \in Processes : Crash(p)

Spec == Init /\ [][Next]_vars

\* The clock runs, and an execution ends, at the latest by its timeout.  Every
\* live process polls for expired leases at an interval (15 s) below the time a
\* heartbeat stays fresh (30 s), so a lease that becomes recoverable again and
\* again is recovered: strong fairness.  Nothing is assumed of the runtime agents.
Fairness ==
    /\ \A j \in Jobs :
        /\ SF_vars(\E p \in Processes, S \in SUBSET Jobs : j \in S /\ RecoverLeases(p, S))
        /\ WF_vars(~Renewed(j) /\ Expire(j))
        /\ WF_vars(\E h \in held : h[2] = j /\ (AbandonLease(h) \/ FinishLease(h)))
    /\ \A n \in Nodes : WF_vars(HeartbeatAges(n) /\ UNCHANGED workerVars)

FairSpec == Spec /\ Fairness

-----------------------------------------------------------------------------
(* Safety *)

\* docs/architecture.md: "Durable job leases ensure only one execution worker
\* owns a running job at a time."  Two processes never both hold the token that
\* a RUNNING job currently accepts, whatever was recovered, replayed, delivered
\* twice or answered late.
OneOwner ==
    \A g, h \in held :
        /\ g[2] = h[2]
        /\ HoldsLease(g[2], g[3]) /\ HoldsLease(h[2], h[3])
        => g[1] = h[1]

\* The scheduler and the claim statement between them keep the jobs of one
\* workflow from being queued or run side by side.
OneActivePerWorkflow ==
    \A j, k \in Jobs :
        /\ j # k /\ SameWorkflow(j, k)
        /\ status[j] \in {"QUEUED", "RUNNING"}
        => status[k] \notin {"QUEUED", "RUNNING"}

\* docs/operations.md: "After exhaustion the job persists as terminal FAILED":
\* no job is ever claimed more often than SystemRetryLimit, counting claims whose
\* process crashed and leases that were recovered in between.
AttemptsWithinLimit ==
    \A j \in Jobs : /\ attempts[j] <= SystemRetryLimit
                    /\ status[j] \in {"PENDING", "QUEUED"} => attempts[j] < SystemRetryLimit

\* A rejection is recorded, and its dispatch record committed, only for a
\* dispatch attempt that is over ("dispatch attempt mismatch", lease.go:1337):
\* a QUEUED job is never left waiting for a record that was thrown away.
RejectedDispatchIsOver ==
    \A c \in claims :
        c[4] = 0 => ~(status[c[2]] = "QUEUED" /\ dispatchAttempts[c[2]] = c[3])

-----------------------------------------------------------------------------
(* What no step may do *)

\* ReleaseJobForRetry: "so scheduler never resurrects it".  Once its workflow is
\* terminated a running job is not put back in line, and a waiting one is not
\* dispatched.
TerminatedNotResurrected ==
    [][\A j \in Jobs : terminated[WorkflowOf[j]] =>
          /\ status[j] = "RUNNING" => status'[j] \notin {"PENDING", "QUEUED"}
          /\ status[j] = "PENDING" => status'[j] # "QUEUED"]_vars

-----------------------------------------------------------------------------
(* What a job promises *)

Lifecycle == INSTANCE JobLifecycle WITH
    RetryLimit <- SystemRetryLimit,
    job <- [j \in Jobs |-> [status |-> status[j], owner |-> leasedBy[j],
                            epoch |-> grants[j], runs |-> attempts[j]]]

\* Every step of every process, late, repeated or racing, is a step of the life
\* cycle of the jobs it touches: a terminal job never moves again, a job gets an
\* owner only together with a token never issued for it before, and it is put
\* back in line only while it has a run left.
ImplementsLifecycle == Lifecycle!Spec

-----------------------------------------------------------------------------
(* Liveness *)

\* docs/architecture.md: "Expired running leases are recovered by workers": no
\* job stays RUNNING for ever, whichever process crashes, whichever reply is lost
\* and whatever becomes of its runtime node.
RunningJobEnds == \A j \in Jobs : status[j] = "RUNNING" ~> status[j] # "RUNNING"
=============================================================================

-------------------------- MODULE WorkflowLifecycle --------------------------
(***************************************************************************)
(* One workflow from its creation to its deletion: the commands of the     *)
(* workflows service (internal/repository/workflows), the workflow worker  *)
(* that consumes its events (internal/repository/workflow) and the chain   *)
(* of automatic jobs in which every execution schedules the next one       *)
(* (internal/repository/executor, internal/repository/jobs).               *)
(*                                                                         *)
(* A command is one transaction.  A handler of the worker is a sequence of *)
(* calls, each a step: other commands, executions and, after a rebalance,  *)
(* a second handler of the same record run between any two of them.        *)
(* Leases, runtime nodes and dispatch attempts are those of JobTable; the  *)
(* events of the workflow reach the worker in the order of their insertion *)
(* (see OutboxRelay and PartitionRunner).                                  *)
(***************************************************************************)
EXTENDS Integers, FiniteSets, Sequences

CONSTANTS
    Jobs,            \* 1..n: rows that may be inserted, in that order
    Workers,         \* processes that may hold a handler
    Kinds,           \* subset of {"HEARTBEAT", "CONTAINER"}
    MaxGeneration,   \* bound on updates that start a new generation
    MaxFailures,     \* max_consecutive_job_failures_allowed
    RetryLimit,      \* SYSTEM_RETRY_LIMIT: attempts of a job
    MaxNext,         \* bound on the follow-ups that executions schedule
    MaxCommands,     \* bound on the commands of users after the creation
    MaxFaults,       \* bound on crashes, failed calls and expired locks
    Overlap          \* a rebalance may start a second handler of a record

LifecycleAssumption ==
    /\ Jobs \subseteq Nat \ {0} /\ IsFiniteSet(Jobs)
    /\ Kinds \subseteq {"HEARTBEAT", "CONTAINER"}
    /\ MaxFailures \in Nat \ {0}
    /\ RetryLimit \in Nat \ {0}
    /\ {MaxGeneration, MaxNext, MaxCommands, MaxFaults} \subseteq Nat
    /\ Overlap \in BOOLEAN

VARIABLES
    wf,          \* the workflows row
    status,      \* jobs.status
    origin,      \* jobs.idempotency_key, and the schedule command recorded under it
    jobGen,      \* jobs.workflow_generation
    root,        \* history: the generation whose event started the job's chain
    dispatched,  \* the generation in the job's last dispatch record
    attempts,    \* jobs.attempts
    stage,       \* how far the execution of a RUNNING job has come
    canceled,    \* the reason of the cancel command recorded for a job
    effect,      \* workflow_terminal_effects
    log,         \* events of the workflow, by insertion
    committed,   \* events the workflow worker has committed
    handler,     \* handlers in the memory of the workers
    locked,      \* Redis locks of the worker: actions
    deleting,    \* how far a DeleteWorkflow transaction has come
    commands, faults

jobVars == <<status, origin, jobGen, root, dispatched, attempts, stage, canceled, effect>>
workerVars == <<committed, handler, locked>>
vars == <<wf, jobVars, log, workerVars, deleting, commands, faults>>

Active == {"PENDING", "QUEUED", "RUNNING"}
Statuses == Active \cup {"NONE", "COMPLETED", "FAILED", "CANCELED", "DELETED"}
BuildStatuses == {"QUEUED", "STARTED", "COMPLETED", "FAILED"}
Actions == {"BUILD", "RESCHEDULE", "TERMINATE", "DELETE"}
Idle == [at |-> 0, pc |-> "idle", build |-> "QUEUED", sweep |-> 0, todo |-> {}]
NoKey == <<"NONE", 0, 0>>

WorkflowRows ==
    [state: {"ABSENT", "LIVE", "DELETED"}, kind: {"HEARTBEAT", "CONTAINER"}, generation: Nat,
     build: BuildStatuses, terminated: BOOLEAN, failures: Nat, interval: {0, 1}]
Keys == {"NONE", "MANUAL", "NEXT", "BUILD", "RESCHEDULE"} \X Nat \X {0, 1}
Events ==
    [action: Actions \cup {"COMPLETED", "FAILED"}, generation: Nat, job: Jobs \cup {0}]
HandlerStates ==
    [at: Nat, build: BuildStatuses, sweep: 0..4, todo: SUBSET Jobs,
     pc: {"idle", "load", "lock", "list", "cancel", "start", "build", "complete", "fail",
          "reload", "schedule", "again", "count", "notify", "end"}]

\* The types of the rows, the events and the handlers; a job has a stage while
\* it is RUNNING.
TypeOK ==
    /\ wf \in WorkflowRows
    /\ status \in [Jobs -> Statuses]
    /\ origin \in [Jobs -> Keys]
    /\ jobGen \in [Jobs -> Nat] /\ root \in [Jobs -> Nat]
    /\ dispatched \in [Jobs -> Nat] /\ attempts \in [Jobs -> Nat]
    /\ stage \in [Jobs -> {"none", "claimed", "loaded", "scheduled"}]
    /\ \A j \in Jobs : stage[j] # "none" <=> status[j] = "RUNNING"
    /\ canceled \in [Jobs -> {"none", "UPDATED", "TERMINATED"}]
    /\ effect \in [Jobs -> {"none", "COMPLETED", "FAILED"}]
    /\ log \in Seq(Events)
    /\ committed \in 0..Len(log)
    /\ handler \in [Workers -> HandlerStates]
    /\ locked \subseteq Actions
    /\ deleting \in {"no", "terminated", "idle"}
    /\ commands \in Nat /\ faults \in Nat

Init ==
    /\ wf = [state |-> "ABSENT", kind |-> "HEARTBEAT", generation |-> 0, build |-> "QUEUED",
             terminated |-> FALSE, failures |-> 0, interval |-> 0]
    /\ status = [j \in Jobs |-> "NONE"]
    /\ origin = [j \in Jobs |-> NoKey]
    /\ jobGen = [j \in Jobs |-> 0]
    /\ root = [j \in Jobs |-> 0]
    /\ dispatched = [j \in Jobs |-> 0]
    /\ attempts = [j \in Jobs |-> 0]
    /\ stage = [j \in Jobs |-> "none"]
    /\ canceled = [j \in Jobs |-> "none"]
    /\ effect = [j \in Jobs |-> "none"]
    /\ log = <<>> /\ committed = 0
    /\ handler = [w \in Workers |-> Idle]
    /\ locked = {}
    /\ deleting = "no"
    /\ commands = 0 /\ faults = 0

-----------------------------------------------------------------------------
(* The outbox: an event key names a workflow, an action and a generation,  *)
(* or a job and its outcome; a key that is already there is not inserted.  *)

Event(action, g) == [action |-> action, generation |-> g, job |-> 0]
JobEvent(action, j) == [action |-> action, generation |-> 0, job |-> j]

insertWorkflowOutboxEvent(e) ==
    log' = IF \E i \in DOMAIN log : log[i] = e THEN log ELSE Append(log, e)

-----------------------------------------------------------------------------
(* Commands of users. *)

CreateWorkflow(kind) ==
    /\ wf.state = "ABSENT"
    /\ wf' = [wf EXCEPT !.state = "LIVE", !.kind = kind, !.generation = 1]
    /\ insertWorkflowOutboxEvent(Event("BUILD", 1))
    /\ UNCHANGED <<jobVars, workerVars, deleting, commands, faults>>

Command ==
    /\ wf.state = "LIVE"
    /\ commands < MaxCommands
    /\ commands' = commands + 1

BuildRequiredFaulty(hashChanged) == hashChanged \/ wf.build \notin {"COMPLETED", "STARTED"}

(* decideWorkflowUpdateAction *)
BuildRequired(hashChanged) ==
    \/ hashChanged
    \/ wf.build \notin {"COMPLETED", "STARTED"}
    \/ wf.terminated

RescheduleRequired(hashChanged, intervalChanged) ==
    /\ ~BuildRequired(hashChanged)
    /\ intervalChanged
    /\ wf.build = "COMPLETED"

cancelStaleWorkflowJobsFaulty(automaticOnly) == status' = status

cancelStaleWorkflowJobsRunning(automaticOnly) ==
    status' = [j \in Jobs |-> IF status[j] \in Active THEN "CANCELED" ELSE status[j]]

cancelStaleWorkflowJobs(automaticOnly) ==
    status' = [j \in Jobs |->
        IF status[j] \in {"PENDING", "QUEUED"} /\ (automaticOnly => origin[j][1] # "MANUAL")
        THEN "CANCELED" ELSE status[j]]

UpdateWorkflow(hashChanged, intervalChanged) ==
    LET build == BuildRequired(hashChanged)
        resched == RescheduleRequired(hashChanged, intervalChanged)
    IN
    /\ Command
    /\ build \/ resched => wf.generation < MaxGeneration
    /\ wf' = [wf EXCEPT !.generation = IF build \/ resched THEN @ + 1 ELSE @,
                        !.build = IF build THEN "QUEUED" ELSE @,
                        !.interval = IF intervalChanged THEN 1 - @ ELSE @,
                        !.failures = 0,
                        !.terminated = FALSE]
    /\ IF build \/ resched
       THEN /\ cancelStaleWorkflowJobs(resched)
            /\ insertWorkflowOutboxEvent(Event(IF build THEN "BUILD" ELSE "RESCHEDULE", wf.generation + 1))
       ELSE UNCHANGED <<status, log>>
    /\ UNCHANGED <<origin, jobGen, root, dispatched, attempts, stage, canceled, effect, workerVars, deleting, faults>>

TerminateWorkflow ==
    /\ Command
    /\ wf' = [wf EXCEPT !.terminated = TRUE]
    /\ insertWorkflowOutboxEvent(Event("TERMINATE", wf.generation))
    /\ UNCHANGED <<jobVars, workerVars, deleting, faults>>

(* DeleteWorkflow reads the workflow, then its jobs, then deletes both. *)
DeleteReadsWorkflow ==
    /\ Command
    /\ deleting = "no" /\ wf.terminated
    /\ deleting' = "terminated"
    /\ UNCHANGED <<wf, jobVars, log, workerVars, faults>>

DeleteReadsJobs ==
    /\ deleting = "terminated"
    /\ deleting' = IF \E j \in Jobs : status[j] = "RUNNING" THEN "no" ELSE "idle"
    /\ UNCHANGED <<wf, jobVars, log, workerVars, commands, faults>>

DeleteWorkflow ==
    /\ deleting = "idle"
    /\ deleting' = "no"
    /\ IF wf.terminated
       THEN /\ wf' = [wf EXCEPT !.state = "DELETED"]
            /\ status' = [j \in Jobs |-> IF status[j] = "NONE" THEN "NONE" ELSE "DELETED"]
            /\ stage' = [j \in Jobs |-> "none"]
            /\ effect' = [j \in Jobs |-> "none"]
            /\ insertWorkflowOutboxEvent(Event("DELETE", 0))
       ELSE UNCHANGED <<wf, status, stage, effect, log>>
    /\ UNCHANGED <<origin, jobGen, root, dispatched, attempts, canceled, workerVars, commands, faults>>

-----------------------------------------------------------------------------
(* jobs.ScheduleJob: the command recorded under the key decides a repeat;  *)
(* a new command inserts the job if the guard on the workflow holds.       *)

automaticScheduleGuard(g) ==
    /\ wf.state = "LIVE"
    /\ ~wf.terminated
    /\ wf.build = "COMPLETED"
    /\ wf.generation = g

Recorded(key) == {j \in Jobs : origin[j] = key}

InsertJob(key, g) ==
    \E j \in Jobs :
        /\ status[j] = "NONE"
        /\ \A k \in Jobs : k < j => status[k] # "NONE"
        /\ status' = [status EXCEPT ![j] = "PENDING"]
        /\ origin' = [origin EXCEPT ![j] = key]
        /\ jobGen' = [jobGen EXCEPT ![j] = g]
        /\ root' = [root EXCEPT ![j] = IF key[1] = "NEXT" THEN root[key[2]] ELSE g]

validateStoredScheduleCommand(key, g) == \A j \in Recorded(key) : jobGen[j] = g

ScheduleJob(key, g) ==
    \/ /\ Recorded(key) # {} /\ validateStoredScheduleCommand(key, g)
       /\ UNCHANGED <<status, origin, jobGen, root>>
    \/ /\ Recorded(key) = {} /\ automaticScheduleGuard(g)
       /\ InsertJob(key, g)
    \/ /\ Recorded(key) = {} /\ ~automaticScheduleGuard(g)
       /\ UNCHANGED <<status, origin, jobGen, root>>

ScheduleManualJob ==
    /\ Command
    /\ automaticScheduleGuard(wf.generation)
    /\ InsertJob(<<"MANUAL", Cardinality({j \in Jobs : status[j] # "NONE"}), 0>>, 0)
    /\ UNCHANGED <<wf, dispatched, attempts, stage, canceled, effect, log, workerVars, deleting, faults>>

-----------------------------------------------------------------------------
(* Executions of jobs. *)

Dispatch(j) ==
    /\ automaticScheduleGuard(wf.generation)
    /\ status[j] = "PENDING"
    /\ \A k \in Jobs : status[k] \notin {"QUEUED", "RUNNING"}
    /\ status' = [status EXCEPT ![j] = "QUEUED"]
    /\ dispatched' = [dispatched EXCEPT ![j] = wf.generation]
    /\ UNCHANGED <<wf, origin, jobGen, root, attempts, stage, canceled, effect, log, workerVars, deleting, commands, faults>>

Claim(j) ==
    /\ status[j] = "QUEUED"
    /\ \A k \in Jobs : status[k] # "RUNNING"
    /\ status' = [status EXCEPT ![j] = "RUNNING"]
    /\ attempts' = [attempts EXCEPT ![j] = @ + 1]
    /\ stage' = [stage EXCEPT ![j] = "claimed"]
    /\ UNCHANGED <<wf, origin, jobGen, root, dispatched, canceled, effect, log, workerVars, deleting, commands, faults>>

(* A claim that meets another active job puts its own back. *)
deferBlockedJob(j) ==
    /\ status[j] = "QUEUED"
    /\ \E k \in Jobs \ {j} : status[k] \in Active
    /\ status' = [status EXCEPT ![j] = "PENDING"]
    /\ UNCHANGED <<wf, origin, jobGen, root, dispatched, attempts, stage, canceled, effect, log, workerVars, deleting, commands, faults>>

Leave(j, new) ==
    /\ status' = [status EXCEPT ![j] = new]
    /\ stage' = [stage EXCEPT ![j] = "none"]
    /\ IF new \in {"COMPLETED", "FAILED"} THEN insertWorkflowOutboxEvent(JobEvent(new, j)) ELSE UNCHANGED log
    /\ UNCHANGED <<wf, origin, jobGen, root, dispatched, attempts, canceled, effect, workerVars, deleting, commands, faults>>

(* By the execution itself or, once its lease has expired, by its recovery. *)
releaseClaimForSystemRetry(j) ==
    /\ status[j] = "RUNNING"
    /\ \/ attempts[j] >= RetryLimit /\ Leave(j, "FAILED")
       \/ attempts[j] < RetryLimit /\ Leave(j, IF wf.terminated THEN "CANCELED" ELSE "PENDING")

LoadWorkflow(j) ==
    /\ status[j] = "RUNNING" /\ stage[j] = "claimed"
    /\ \/ wf.terminated /\ Leave(j, "CANCELED")
       \/ /\ ~wf.terminated /\ wf.build = "COMPLETED"
          /\ stage' = [stage EXCEPT ![j] = IF origin[j][1] = "MANUAL" THEN "scheduled" ELSE "loaded"]
          /\ UNCHANGED <<wf, status, origin, jobGen, root, dispatched, attempts, canceled, effect, log, workerVars, deleting, commands, faults>>
       \/ ~wf.terminated /\ wf.build # "COMPLETED" /\ releaseClaimForSystemRetry(j)

NextKey(j) == <<"NEXT", j, wf.interval>>

scheduleNextAutomaticJob(j) ==
    /\ status[j] = "RUNNING" /\ stage[j] = "loaded"
    /\ Recorded(NextKey(j)) # {} \/ Cardinality({k \in Jobs : origin[k][1] = "NEXT"}) < MaxNext
    /\ ScheduleJob(NextKey(j), dispatched[j])
    /\ stage' = [stage EXCEPT ![j] = "scheduled"]
    /\ UNCHANGED <<wf, dispatched, attempts, canceled, effect, log, workerVars, deleting, commands, faults>>

Finish(j) ==
    /\ status[j] = "RUNNING" /\ stage[j] = "scheduled"
    /\ \E outcome \in {"COMPLETED", "FAILED"} : Leave(j, outcome)

Execution(j) ==
    \/ Claim(j) \/ deferBlockedJob(j) \/ LoadWorkflow(j)
    \/ scheduleNextAutomaticJob(j) \/ releaseClaimForSystemRetry(j) \/ Finish(j)

-----------------------------------------------------------------------------
(* The workflow worker. *)

Ev(w) == log[handler[w].at]
At(w, pc) == handler[w].pc = pc
Goto(w, pc) == handler' = [handler EXCEPT ![w].pc = pc]

(* The handler returns: its deferred unlock deletes the lock of its action, *)
(* whoever holds it by now, and its record is committed unless another     *)
(* member of the group has committed it.                                   *)
HoldsLock(w) == handler[w].pc \notin {"idle", "load", "lock", "again", "count", "notify"}
Unlock(w) == IF HoldsLock(w) THEN locked \ {Ev(w).action} ELSE locked

Return(w) ==
    /\ handler' = [handler EXCEPT ![w] = Idle]
    /\ locked' = Unlock(w)
    /\ committed' = IF committed + 1 = handler[w].at THEN committed + 1 ELSE committed

StayHeld == UNCHANGED <<committed, locked>>
OnlyWorker == UNCHANGED <<wf, jobVars, log, deleting, commands, faults>>

Poll(w) ==
    /\ At(w, "idle")
    /\ committed < Len(log)
    /\ Overlap \/ \A v \in Workers : At(v, "idle")
    /\ handler' = [handler EXCEPT ![w].at = committed + 1, ![w].pc = "load"]
    /\ StayHeld /\ OnlyWorker

isStaleWorkflowEvent(e) == e.generation # 0 /\ wf.generation # e.generation

isResumableWorkflowBuildStatusFaulty(build) == build = "QUEUED"

isResumableWorkflowBuildStatus(build) == build \in {"QUEUED", "STARTED"}

(* Each handler reads the workflow (GetWorkflowByID) and decides on the    *)
(* answer, which is not read again once the lock is taken.                 *)
Loaded(w, action) == At(w, "load") /\ Ev(w).action = action
LockNext(w) == handler' = [handler EXCEPT ![w].pc = "lock", ![w].build = wf.build] /\ StayHeld
Current(w) == wf.state = "LIVE" /\ ~isStaleWorkflowEvent(Ev(w))

buildWorkflow(w) ==
    LET open == Current(w) /\ ~wf.terminated IN
    /\ Loaded(w, "BUILD")
    /\ \/ open /\ wf.build = "COMPLETED" /\ Goto(w, "again") /\ StayHeld
       \/ open /\ isResumableWorkflowBuildStatus(wf.build) /\ LockNext(w)
       \/ /\ ~open \/ (wf.build # "COMPLETED" /\ ~isResumableWorkflowBuildStatus(wf.build))
          /\ Return(w)
    /\ OnlyWorker

rescheduleWorkflow(w) ==
    /\ Loaded(w, "RESCHEDULE")
    /\ IF Current(w) /\ ~wf.terminated /\ wf.build = "COMPLETED" THEN LockNext(w) ELSE Return(w)
    /\ OnlyWorker

terminateWorkflow(w) ==
    /\ Loaded(w, "TERMINATE")
    /\ IF Current(w) THEN LockNext(w) ELSE Return(w)
    /\ OnlyWorker

(* The rows are gone; the logs are deleted under the lock, by JobLogs. *)
deleteWorkflow(w) == Loaded(w, "DELETE") /\ LockNext(w) /\ OnlyWorker

loadWorkflowForTerminalJobEvent(w) ==
    /\ Loaded(w, "COMPLETED") \/ Loaded(w, "FAILED")
    /\ IF wf.state = "LIVE" THEN Goto(w, "count") /\ StayHeld ELSE Return(w)
    /\ OnlyWorker

runTargetWorkflow(w) ==
    \/ buildWorkflow(w) \/ rescheduleWorkflow(w) \/ terminateWorkflow(w)
    \/ deleteWorkflow(w) \/ loadWorkflowForTerminalJobEvent(w)

AcquireDistributedLock(w) ==
    LET a == Ev(w).action IN
    /\ At(w, "lock") /\ a \notin locked
    /\ locked' = locked \cup {a}
    /\ \/ a = "RESCHEDULE" /\ Goto(w, "schedule")
       \/ a = "DELETE" /\ Goto(w, "end")
       \/ /\ a \in {"BUILD", "TERMINATE"}
          /\ handler' = [handler EXCEPT ![w].pc = "list", ![w].sweep = 1]
    /\ UNCHANGED committed /\ OnlyWorker

(* Which jobs a handler cancels, in the order in which it lists them. *)
SweepOrder(action) ==
    IF action = "TERMINATE" THEN <<"RUNNING", "PENDING", "QUEUED">> ELSE <<"QUEUED", "PENDING">>

ListJobs(w) ==
    LET order == SweepOrder(Ev(w).action) i == handler[w].sweep IN
    /\ At(w, "list") /\ i <= Len(order)
    /\ handler' = [handler EXCEPT ![w].pc = "cancel", ![w].sweep = i + 1,
                                  ![w].todo = {j \in Jobs : status[j] = order[i]}]
    /\ StayHeld /\ OnlyWorker

Reason(w) == IF Ev(w).action = "TERMINATE" THEN "TERMINATED" ELSE "UPDATED"

(* CancelJob cancels whatever is active when it runs; a command already    *)
(* recorded for another reason is an error that ends the handler.          *)
CancelJob(w) ==
    \E j \in handler[w].todo :
        /\ At(w, "cancel")
        /\ \/ /\ canceled[j] \in {"none", Reason(w)}
              /\ canceled' = [canceled EXCEPT ![j] = IF status[j] = "DELETED" THEN @ ELSE Reason(w)]
              /\ IF canceled[j] = "none" /\ status[j] \in Active
                 THEN /\ status' = [status EXCEPT ![j] = "CANCELED"]
                      /\ stage' = [stage EXCEPT ![j] = "none"]
                 ELSE UNCHANGED <<status, stage>>
              /\ handler' = [handler EXCEPT ![w].todo = @ \ {j}]
              /\ StayHeld
           \/ /\ canceled[j] \notin {"none", Reason(w)}
              /\ Return(w)
              /\ UNCHANGED <<canceled, status, stage>>
        /\ UNCHANGED <<wf, origin, jobGen, root, dispatched, attempts, effect, log, deleting, commands, faults>>

(* The jobs of one listing are done: the next listing, or what follows. *)
Swept(w) ==
    /\ At(w, "cancel") /\ handler[w].todo = {}
    /\ \/ handler[w].sweep <= Len(SweepOrder(Ev(w).action)) /\ Goto(w, "list") /\ StayHeld
       \/ /\ handler[w].sweep > Len(SweepOrder(Ev(w).action))
          /\ \/ Ev(w).action = "TERMINATE" /\ Return(w)
             \/ /\ Ev(w).action = "BUILD" /\ StayHeld
                /\ Goto(w, IF wf.kind = "HEARTBEAT" THEN "complete"
                           ELSE IF handler[w].build = "QUEUED" THEN "start" ELSE "build")
    /\ OnlyWorker

workflowBuildTransitionAllowed(old, new) ==
    \/ old = "QUEUED" /\ new = "FAILED"
    \/ old = "QUEUED" /\ new = (IF wf.kind = "CONTAINER" THEN "STARTED" ELSE "COMPLETED")
    \/ old = "STARTED" /\ wf.kind = "CONTAINER" /\ new \in {"COMPLETED", "FAILED"}

(* UpdateWorkflowBuildStatus: continue at pc, or return when it is refused. *)
UpdateWorkflowBuildStatus(w, new, pc) ==
    LET current == wf.state = "LIVE" /\ wf.generation = Ev(w).generation IN
    /\ \/ /\ current /\ wf.build = new
          /\ Goto(w, pc) /\ StayHeld /\ UNCHANGED wf
       \/ /\ current /\ workflowBuildTransitionAllowed(wf.build, new)
          /\ wf' = [wf EXCEPT !.build = new]
          /\ Goto(w, pc) /\ StayHeld
       \/ /\ ~current \/ (wf.build # new /\ ~workflowBuildTransitionAllowed(wf.build, new))
          /\ Return(w) /\ UNCHANGED wf
    /\ UNCHANGED <<jobVars, log, deleting, commands, faults>>

StartBuild(w) == At(w, "start") /\ UpdateWorkflowBuildStatus(w, "STARTED", "build")

(* The image digest is resolved, or the build fails for good. *)
BuildImage(w) ==
    /\ At(w, "build")
    /\ \E pc \in {"complete", "fail"} : Goto(w, pc)
    /\ StayHeld /\ OnlyWorker

handleWorkflowBuildFailure(w) ==
    At(w, "fail") /\ UpdateWorkflowBuildStatus(w, "FAILED", "end")

completeWorkflowBuild(w) ==
    At(w, "complete") /\ UpdateWorkflowBuildStatus(w, "COMPLETED", "reload")

getSchedulableWorkflow(w) ==
    /\ At(w, "reload")
    /\ IF wf.state # "LIVE" \/ isStaleWorkflowEvent(Ev(w)) \/ wf.terminated
       THEN Return(w) ELSE Goto(w, "schedule") /\ StayHeld
    /\ OnlyWorker

ScheduleKey(e) == <<e.action, e.generation, 0>>

(* Also at "again", without the lock: the build was completed before. *)
scheduleAutomaticJob(w) ==
    /\ At(w, "schedule") \/ At(w, "again")
    /\ ScheduleJob(ScheduleKey(Ev(w)), Ev(w).generation)
    /\ Return(w)
    /\ UNCHANGED <<wf, dispatched, attempts, stage, canceled, effect, log, deleting, commands, faults>>

(* IncrementWorkflowConsecutiveJobFailuresCount and its reset: the effect  *)
(* of a job is recorded once, whatever the number of deliveries.           *)
CountedFaulty(j) == FALSE

Counted(j) == effect[j] # "none"

IncrementFailures(j) ==
    LET reached == wf.failures + 1 >= MaxFailures IN
    /\ effect' = [effect EXCEPT ![j] = "FAILED"]
    /\ IF wf.terminated THEN UNCHANGED <<wf, log>>
       ELSE /\ wf' = [wf EXCEPT !.failures = @ + 1, !.terminated = reached]
            /\ IF reached THEN insertWorkflowOutboxEvent(Event("TERMINATE", wf.generation)) ELSE UNCHANGED log

resetWorkflowFailureCount(j) ==
    /\ effect' = [effect EXCEPT ![j] = "COMPLETED"]
    /\ wf' = IF wf.terminated THEN wf ELSE [wf EXCEPT !.failures = 0]
    /\ UNCHANGED log

HandleTerminalJob(w) ==
    LET e == Ev(w) IN
    /\ At(w, "count")
    /\ Goto(w, "notify") /\ StayHeld
    /\ IF wf.state # "LIVE" \/ Counted(e.job) THEN UNCHANGED <<wf, effect, log>>
       ELSE IF e.action = "FAILED" THEN IncrementFailures(e.job) ELSE resetWorkflowFailureCount(e.job)
    /\ UNCHANGED <<status, origin, jobGen, root, dispatched, attempts, stage, canceled, deleting, commands, faults>>

(* The notifications are created, and the handler returns. *)
End(w) == (At(w, "end") \/ At(w, "notify")) /\ Return(w) /\ OnlyWorker

HandlerStep(w) ==
    \/ Poll(w) \/ runTargetWorkflow(w) \/ AcquireDistributedLock(w) \/ ListJobs(w) \/ CancelJob(w) \/ Swept(w)
    \/ StartBuild(w) \/ BuildImage(w) \/ handleWorkflowBuildFailure(w) \/ completeWorkflowBuild(w)
    \/ getSchedulableWorkflow(w) \/ scheduleAutomaticJob(w) \/ End(w) \/ HandleTerminalJob(w)

(* A call of the handler fails with a retryable error: the runner calls it *)
(* again.  Or the process dies, and its lock stays until it expires.       *)
Fault == faults < MaxFaults /\ faults' = faults + 1 /\ UNCHANGED <<wf, jobVars, log, committed, deleting, commands>>

RetryRecord(w) ==
    /\ Fault
    /\ handler[w].pc \notin {"idle", "load"}
    /\ locked' = Unlock(w)
    /\ handler' = [handler EXCEPT ![w] = [Idle EXCEPT !.at = handler[w].at, !.pc = "load"]]

Crash(w) ==
    /\ Fault
    /\ ~At(w, "idle")
    /\ handler' = [handler EXCEPT ![w] = Idle]
    /\ UNCHANGED locked

LockExpiresFaulty(a) == a \notin Actions /\ UNCHANGED vars

LockExpires(a) ==
    /\ a \in locked
    /\ locked' = locked \ {a}
    /\ \/ faults < MaxFaults /\ faults' = faults + 1   \* while its handler still runs
       \/ {w \in Workers : HoldsLock(w)} = {} /\ UNCHANGED faults
    /\ UNCHANGED <<wf, jobVars, log, committed, handler, deleting, commands>>

-----------------------------------------------------------------------------
UserCommand ==
    \/ \E kind \in Kinds : CreateWorkflow(kind)
    \/ \E h, i \in BOOLEAN : UpdateWorkflow(h, i)
    \/ TerminateWorkflow
    \/ DeleteReadsWorkflow \/ DeleteReadsJobs \/ DeleteWorkflow
    \/ ScheduleManualJob

Next ==
    \/ UserCommand
    \/ \E j \in Jobs : Dispatch(j) \/ Execution(j)
    \/ \E w \in Workers : HandlerStep(w) \/ RetryRecord(w) \/ Crash(w)
    \/ \E a \in Actions : LockExpires(a)

Spec == Init /\ [][Next]_vars

(* Workers go on polling and retrying, the scheduler and the executors go  *)
(* on running, locks have a TTL.                                           *)
Fairness ==
    /\ \A w \in Workers : WF_vars(HandlerStep(w))
    /\ \A j \in Jobs : WF_vars(Execution(j))
    /\ \A a \in Actions : WF_vars(LockExpires(a))

LiveSpec == Spec /\ Fairness

-----------------------------------------------------------------------------
Handled(e) == \E i \in 1..committed : log[i] = e
Automatic(j) == origin[j][1] \in {"NEXT", "BUILD", "RESCHEDULE"}
FollowsDirectly(k, j) == origin[k][1] = "NEXT" /\ origin[k][2] = j
Followed(j) == \E k \in Jobs : FollowsDirectly(k, j)
Chain == {j \in Jobs : Automatic(j) /\ status[j] \in Active}

(* A workflow that is built, runs: once the events of its generation are   *)
(* handled, one of its automatic jobs is waiting or running, whatever was  *)
(* redelivered, retried or updated in between (build_workflow.go:75-88).   *)
(* The chain may end in one way: its last job failed, after its retries,   *)
(* before it scheduled the next (executor.go:371).                         *)
ChainAlive ==
    /\ \A w \in Workers : At(w, "idle")
    /\ wf.state = "LIVE" /\ ~wf.terminated /\ wf.build = "COMPLETED"
    /\ \A a \in {"BUILD", "RESCHEDULE"} : LET e == Event(a, wf.generation) IN
          (\E i \in DOMAIN log : log[i] = e) => Handled(e)
    => \/ Chain # {}
       \/ \E j \in Jobs : Automatic(j) /\ status[j] = "FAILED" /\ ~Followed(j)

(* A job that an update overtook: it has been running since before it, or  *)
(* was put back by then to be tried again, or follows one that was.        *)
Leftover(j) ==
    \/ status[j] = "RUNNING" /\ dispatched[j] < wf.generation
    \/ status[j] # "RUNNING" /\ attempts[j] > 0
    \/ \E k \in Jobs : root[k] = root[j] /\ attempts[k] > 1

(* An active automatic job that has not scheduled its follow-up yet ends a *)
(* chain.  Each chain has one end, so nothing that is repeated, retried or *)
(* run at the same time forks it, and the other jobs of the chain have     *)
(* been executed.  An update ends the chain before it (workflows.go:1068,  *)
(* jobs.go:410), unless the job that was running then is put back and      *)
(* dispatched anew (lease.go:653): that is the only second chain, and     *)
(* there is no third.                                                      *)
Ends == {j \in Chain : Recorded(NextKey(j)) = {}}

OneChain ==
    /\ \A j, k \in Ends : root[j] = root[k] => j = k
    /\ \A j \in Chain : j \notin Ends => attempts[j] > 0
    /\ \A j \in Chain : root[j] # wf.generation => Leftover(j)
    /\ \A j, k \in Chain : wf.generation \notin {root[j], root[k]} => root[j] = root[k]

(* A job of an earlier generation does not extend the schedule of a later  *)
(* one: the generation guards stale scheduling (jobs.go:410).              *)
OldGenerationNeverSchedules ==
    \A k \in Jobs : origin[k][1] = "NEXT" => jobGen[k] = jobGen[origin[k][2]]

(* The failure count of a workflow is at most the number of jobs that      *)
(* failed, however often their events are delivered, and a workflow whose  *)
(* count has reached the limit is terminated (workflows.go:555).           *)
FailuresCountedOnce ==
    wf.state = "LIVE" =>
        /\ wf.failures <= Cardinality({j \in Jobs : status[j] = "FAILED" /\ effect[j] = "FAILED"})
        /\ wf.failures >= MaxFailures => wf.terminated

(* Once the termination of a workflow is handled none of its jobs is       *)
(* PENDING (terminate_workflow.go:451, lease.go:910).                      *)
NoOrphanPending ==
    wf.state = "LIVE" /\ wf.terminated /\ Handled(Event("TERMINATE", wf.generation))
        => \A j \in Jobs : status[j] # "PENDING"

(* A workflow is deleted only when none of its jobs is RUNNING             *)
(* (workflows.go:826).                                                     *)
NoRunningJobDeleted ==
    [][wf.state = "LIVE" /\ wf'.state = "DELETED" => \A j \in Jobs : status[j] # "RUNNING"]_vars

(* A termination that is repeated while jobs of the workflow are still     *)
(* active enqueues the cleanup of these jobs (workflows.go:750).           *)
RepeatedTerminationCleansUp ==
    [][TerminateWorkflow /\ (\E j \in Jobs : status[j] \in Active)
        => \E i \in DOMAIN log' : i > committed /\ log'[i] = Event("TERMINATE", wf.generation)]_vars

(* A build that was requested or started is completed, failed or given up  *)
(* with the workflow, also when a worker dies in its middle                *)
(* (build_workflow.go:91, workflow.go:117).                                *)
BuildSettles ==
    (wf.state = "LIVE" /\ wf.build \in {"QUEUED", "STARTED"})
        ~> (wf.state # "LIVE" \/ wf.terminated \/ wf.build \in {"COMPLETED", "FAILED"})

(* Every event of the workflow is handled in the end, also after a crash   *)
(* that left the lock of its action behind (delete_workflow.go:150).       *)
EventsHandled == []<>(committed = Len(log))
=============================================================================

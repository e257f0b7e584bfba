------------------------------ MODULE ImagePull ------------------------------
(***************************************************************************)
(* Making one image available on one runtime node: imagepull.Ensure, the   *)
(* Redis lock that serializes cold pulls between the workers that share    *)
(* the node's Docker daemon, and DockerWorkflow.Build with the             *)
(* singleflight group that shares a pull between the tasks of one process. *)
(* Node and image together name the lock, so other nodes and other images  *)
(* are independent.  A task is one call of Ensure: an execution worker     *)
(* before it runs a job, a workflow worker that resolves a digest, or its  *)
(* prefetch on another node.                                               *)
(*                                                                         *)
(* Time is counted down: what is left of the lock's TTL, of a task's wait  *)
(* and of its renewal interval.                                            *)
(***************************************************************************)
EXTENDS Naturals, FiniteSets

CONSTANTS
    Tasks, Procs,
    Proc,           \* Proc[t]: the process a task runs in
    TTL,            \* lock TTL
    WaitTimeout,    \* how long a task waits for the lock
    RenewInterval,  \* max(TTL / 3, minLockRenewInterval)
    MaxLosses,      \* bound on what Redis loses: a lock, a reply, a release
    NoTask

\* A pull of a process: the task whose context it runs under, the tasks that
\* share it, what it does next.
Pulls == [leader: Tasks, members: SUBSET Tasks, stage: {"inspect", "pull"}, canceled: BOOLEAN]

ASSUME PullAssumption ==
    /\ Proc \in [Tasks -> Procs]
    /\ {TTL, WaitTimeout, RenewInterval} \subseteq Nat \ {0}
    /\ MaxLosses \in Nat
    /\ NoTask \notin Tasks \cup Pulls

VARIABLES
    present,  \* the daemon has the image
    lock,     \* the Redis key: the token of the task that set it, and its TTL
    pulling,  \* per process, the pull its singleflight group is running
    task,
    losses

pullVars == <<present, lock, pulling, task, losses>>

-----------------------------------------------------------------------------
NoLock == [token |-> NoTask, left |-> 0]

Idle == [pc |-> "idle", wait |-> 0, renew |-> 0, result |-> NoTask]

\* Results: "ok"; "canceled" by the task's own context; "exhausted", the wait
\* or the lock's ownership ran out; "error" of Redis or an inspection; and
\* IMAGE_PULL_FAILED, because of the "registry" or because the pull that was
\* shared ended with the context of "another" task.
Results == {"ok", "canceled", "exhausted", "error", "registry", "another"}

PullInit ==
    /\ present = FALSE
    /\ lock = NoLock
    /\ pulling = [p \in Procs |-> NoTask]
    /\ task = [t \in Tasks |-> Idle]
    /\ losses = 0

Loss == losses < MaxLosses /\ losses' = losses + 1

ReleaseFaulty(T) ==
    /\ lock' = IF \E t \in T : task[t].pc \in {"recheck", "build"} THEN NoLock ELSE lock
    /\ UNCHANGED losses

\* buildWithLock's deferred release: only the owner's token deletes the key,
\* and an error of Redis is ignored.
Release(T) ==
    \/ /\ lock' = IF lock.token \in T THEN NoLock ELSE lock
       /\ UNCHANGED losses
    \/ /\ lock.token \in T
       /\ Loss
       /\ UNCHANGED lock

Ended(T, result) ==
    task' = [t \in Tasks |-> IF t \in T THEN [Idle EXCEPT !.pc = "done", !.result = result]
                             ELSE task[t]]

\* The tasks T return and release what they hold.
TaskReturns(T, result) == Ended(T, result) /\ Release(T)

\* The flights the tasks T lead go on with a canceled context.
CancelPulls(T) ==
    pulling' = [p \in Procs |->
                 IF pulling[p] # NoTask /\ pulling[p].leader \in T
                 THEN [pulling[p] EXCEPT !.canceled = TRUE] ELSE pulling[p]]

-----------------------------------------------------------------------------
Start(t) ==
    /\ task[t].pc = "idle"
    /\ task' = [task EXCEPT ![t].pc = "check"]
    /\ UNCHANGED <<present, lock, pulling, losses>>

\* Ensure's first look at the daemon: a warm image needs no lock.
ImageExists(t) ==
    /\ task[t].pc = "check"
    /\ IF present THEN Ended({t}, "ok")
       ELSE task' = [task EXCEPT ![t] = [@ EXCEPT !.pc = "acquire", !.wait = WaitTimeout]]
    /\ UNCHANGED <<present, lock, pulling, losses>>

InspectFails(t) ==
    /\ task[t].pc \in {"check", "recheck"}
    /\ TaskReturns({t}, "error")
    /\ UNCHANGED <<present, pulling>>

Acquire(t) ==
    /\ task[t].pc = "acquire"
    /\ task[t].wait > 0
    /\ lock = NoLock
    /\ lock' = [token |-> t, left |-> TTL]
    /\ task' = [task EXCEPT ![t].pc = "recheck"]
    /\ UNCHANGED <<present, pulling, losses>>

\* SETNX fails for the caller; Redis may have set the key all the same.
AcquireFails(t) ==
    /\ task[t].pc = "acquire"
    /\ Loss
    /\ \/ lock = NoLock /\ lock' = [token |-> t, left |-> TTL]
       \/ UNCHANGED lock
    /\ Ended({t}, "error")
    /\ UNCHANGED <<present, pulling>>

WaitTimesOutFaulty(t) == FALSE /\ UNCHANGED pullVars

WaitTimesOut(t) ==
    /\ task[t].pc = "acquire"
    /\ task[t].wait = 0
    /\ Ended({t}, "exhausted")
    /\ UNCHANGED <<present, lock, pulling, losses>>

\* DoChan: the process's flight is joined, or started with this task's context.
Joined(t) ==
    LET p == Proc[t] IN
    IF pulling[p] # NoTask THEN [pulling EXCEPT ![p].members = @ \cup {t}]
    ELSE [pulling EXCEPT ![p] = [leader |-> t, members |-> {t}, stage |-> "inspect",
                                canceled |-> FALSE]]

\* The lock is held: look again, then pull while the renewal runs.
Recheck(t) ==
    /\ task[t].pc = "recheck"
    /\ IF present THEN TaskReturns({t}, "ok") /\ UNCHANGED pulling
       ELSE /\ task' = [task EXCEPT ![t] = [@ EXCEPT !.pc = "build", !.renew = RenewInterval]]
            /\ pulling' = Joined(t)
            /\ UNCHANGED <<lock, losses>>
    /\ UNCHANGED present

RenewFaulty(t) ==
    /\ task[t].pc = "build"
    /\ task[t].renew = 0
    /\ task' = [task EXCEPT ![t].renew = RenewInterval]
    /\ UNCHANGED <<present, lock, pulling, losses>>

RenewAdds(t) ==
    /\ task[t].pc = "build"
    /\ task[t].renew = 0
    /\ lock.token = t
    /\ lock' = [lock EXCEPT !.left = @ + TTL]
    /\ task' = [task EXCEPT ![t].renew = RenewInterval]
    /\ UNCHANGED <<present, pulling, losses>>

\* A renewal: the TTL starts anew while the token still owns the key; a task
\* that lost it cancels its pull and gives up.
Renew(t) ==
    /\ task[t].pc = "build"
    /\ task[t].renew = 0
    /\ IF lock.token = t
       THEN /\ lock' = [lock EXCEPT !.left = TTL]
            /\ task' = [task EXCEPT ![t].renew = RenewInterval]
            /\ UNCHANGED <<pulling, losses>>
       ELSE /\ Ended({t}, "exhausted")
            /\ CancelPulls({t})
            /\ UNCHANGED <<lock, losses>>
    /\ UNCHANGED present

RenewFails(t) ==
    /\ task[t].pc = "build"
    /\ task[t].renew = 0
    /\ Loss
    /\ Ended({t}, "error")
    /\ lock' = IF lock.token = t THEN NoLock ELSE lock
    /\ CancelPulls({t})
    /\ UNCHANGED present

\* The task's context ends: a lost lease, a deadline, a shutdown.  Build
\* returns at once and leaves the shared pull to end on its own.
ContextEnds(t) ==
    /\ task[t].pc \in {"check", "acquire", "recheck", "build"}
    /\ TaskReturns({t}, "canceled")
    /\ CancelPulls({t})
    /\ UNCHANGED present

-----------------------------------------------------------------------------
(* The flight, in the goroutine singleflight started for it.               *)

\* The members still waiting get the flight's result.
FlightEnds(p, result) ==
    /\ TaskReturns({t \in pulling[p].members : task[t].pc = "build"}, result)
    /\ pulling' = [pulling EXCEPT ![p] = NoTask]

\* Build looks once more before it pulls.
FlightInspects(p) ==
    /\ pulling[p] # NoTask
    /\ pulling[p].stage = "inspect"
    /\ IF pulling[p].canceled THEN FlightEnds(p, "error")
       ELSE IF present THEN FlightEnds(p, "ok")
       ELSE /\ pulling' = [pulling EXCEPT ![p].stage = "pull"]
            /\ UNCHANGED <<lock, task, losses>>
    /\ UNCHANGED present

FlightPulls(p) ==
    /\ pulling[p] # NoTask
    /\ pulling[p].stage = "pull"
    /\ \/ /\ ~pulling[p].canceled
          /\ FlightEnds(p, "ok")
          /\ present' = TRUE
       \/ /\ ~pulling[p].canceled
          /\ FlightEnds(p, "registry")
          /\ UNCHANGED present
       \/ /\ pulling[p].canceled
          /\ FlightEnds(p, "another")
          /\ UNCHANGED present

-----------------------------------------------------------------------------
\* A failover loses the key.
RedisLosesLock ==
    /\ lock # NoLock
    /\ Loss
    /\ lock' = NoLock
    /\ UNCHANGED <<present, pulling, task>>

Less(n) == IF n = 0 THEN 0 ELSE n - 1

\* Timers that are due run before time goes on, and the second look at the
\* daemon, which nothing renews the lock for, leaves time for a renewal.
Prompt(t) ==
    /\ task[t].pc = "build" => task[t].renew > 0
    /\ task[t].pc = "acquire" => task[t].wait > 0 /\ lock # NoLock
    /\ task[t].pc = "recheck" /\ lock.token = t => lock.left > RenewInterval + 1

PullTick ==
    /\ \A t \in Tasks : Prompt(t)
    /\ lock' = IF lock.left <= 1 THEN NoLock ELSE [lock EXCEPT !.left = @ - 1]
    /\ task' = [t \in Tasks |-> [task[t] EXCEPT !.wait = Less(@), !.renew = Less(@)]]
    /\ UNCHANGED <<present, pulling, losses>>

TaskStep(t) ==
    ImageExists(t) \/ Acquire(t) \/ WaitTimesOut(t) \/ Recheck(t) \/ Renew(t)

PullNext ==
    \/ \E t \in Tasks : \/ Start(t) \/ ImageExists(t) \/ InspectFails(t) \/ Acquire(t)
                        \/ AcquireFails(t) \/ WaitTimesOut(t) \/ Recheck(t) \/ Renew(t)
                        \/ RenewFails(t) \/ ContextEnds(t)
    \/ \E p \in Procs : FlightInspects(p) \/ FlightPulls(p)
    \/ RedisLosesLock
    \/ PullTick

\* Goroutines run on, a pull ends, time passes.
PullFairness ==
    /\ \A t \in Tasks : WF_pullVars(TaskStep(t))
    /\ \A p \in Procs : WF_pullVars(FlightInspects(p) \/ FlightPulls(p))
    /\ WF_pullVars(PullTick)

PullSpec == PullInit /\ [][PullNext]_pullVars /\ PullFairness

-----------------------------------------------------------------------------
TaskStates ==
    [pc: {"idle", "check", "acquire", "recheck", "build", "done"},
     wait: 0..WaitTimeout, renew: 0..RenewInterval, result: Results \cup {NoTask}]

\* The types of the lock, the flights and the tasks.
PullTypeOK ==
    /\ present \in BOOLEAN
    /\ lock \in [token: Tasks \cup {NoTask}, left: 0..TTL]
    /\ pulling \in [Procs -> Pulls \cup {NoTask}]
    /\ task \in [Tasks -> TaskStates]
    /\ losses \in 0..MaxLosses

Pulling == {p \in Procs : pulling[p] # NoTask /\ pulling[p].stage = "pull" /\ ~pulling[p].canceled}

\* "Image pull locks prevent replicated workers that share a runtime daemon
\* from cold-pulling the same image concurrently" (docs/architecture.md:185):
\* while Redis keeps its keys, whatever tasks are canceled and however long a
\* pull takes, at most one process has a pull under way that is not being
\* torn down.
OnePull == losses = 0 => Cardinality(Pulling) <= 1

\* A lock ends with its owner's return, with its TTL or with a failure of
\* Redis.  A task that lost the lock and finishes later, when another one
\* holds it, neither deletes nor prolongs that one's key (the token scripts).
OnlyOwnerEndsLock ==
    [][\A t \in Tasks :
          lock.token = t /\ lock'.token # t =>
              \/ task[t].pc # "done" /\ task'[t].pc = "done"
              \/ lock.left = 1
              \/ losses' > losses]_pullVars

\* One cold pull of an image at a time on a node, while Redis keeps its keys,
\* and only its owner, its TTL or Redis ends an image-pull lock.
PullsExclusive == [](PullTypeOK /\ OnePull) /\ OnlyOwnerEndsLock

\* "ImagePullFailed indicates the workload image could not be pulled"
\* (terminalreason.go:24): a task that is told so was refused by the registry,
\* and did not merely share a pull with a task whose context ended.
PullFailureIsTheRegistrys == \A t \in Tasks : task[t].result # "another"

\* Ensure returns: the lock of a task that died or the key of a reply that
\* was lost expires, or the wait times out.
EnsureReturns == \A t \in Tasks : task[t].pc = "check" ~> task[t].pc = "done"
=============================================================================

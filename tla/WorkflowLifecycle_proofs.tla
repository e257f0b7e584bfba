----------------------- MODULE WorkflowLifecycle_proofs -----------------------
(***************************************************************************)
(* Proofs about WorkflowLifecycle for any jobs, workers, limits and bounds. *)
(***************************************************************************)
EXTENDS WorkflowLifecycle, FiniteSetTheorems, SequenceTheorems, TLAPS

\* The event that a handler has loaded is the one its step is about.
Named(h, L) ==
    h.pc # "idle" =>
        /\ h.at \in 1..Len(L)
        /\ h.pc = "lock" => L[h.at].action \in Actions
        /\ h.pc \in {"start", "build", "complete", "fail", "reload", "again"} => L[h.at].action = "BUILD"
        /\ h.pc = "schedule" => L[h.at].action \in {"BUILD", "RESCHEDULE"}
        /\ h.pc = "count" => L[h.at].action \in {"COMPLETED", "FAILED"}

HandlersNamed == \A w \in Workers : Named(handler[w], log)

JobsOK ==
    /\ status \in [Jobs -> Statuses]
    /\ origin \in [Jobs -> Keys]
    /\ jobGen \in [Jobs -> Nat] /\ root \in [Jobs -> Nat]
    /\ dispatched \in [Jobs -> Nat] /\ attempts \in [Jobs -> Nat]
    /\ stage \in [Jobs -> {"none", "claimed", "loaded", "scheduled"}]
    /\ \A j \in Jobs : stage[j] # "none" <=> status[j] = "RUNNING"
    /\ canceled \in [Jobs -> {"none", "UPDATED", "TERMINATED"}]
    /\ effect \in [Jobs -> {"none", "COMPLETED", "FAILED"}]

WorkerOK ==
    /\ committed \in 0..Len(log)
    /\ handler \in [Workers -> HandlerStates]
    /\ locked \subseteq Actions
    /\ HandlersNamed

RowOK == wf \in WorkflowRows /\ log \in Seq(Events)

RestOK == deleting \in {"no", "terminated", "idle"} /\ commands \in Nat /\ faults \in Nat

BaseInv == TypeOK /\ HandlersNamed

-----------------------------------------------------------------------------
LEMMA BaseParts == BaseInv <=> JobsOK /\ WorkerOK /\ RowOK /\ RestOK
  BY DEF BaseInv, TypeOK, JobsOK, WorkerOK, RowOK, RestOK

LEMMA BasePartsNext == BaseInv' <=> (JobsOK /\ WorkerOK /\ RowOK /\ RestOK)'
  BY DEF BaseInv, TypeOK, JobsOK, WorkerOK, RowOK, RestOK

\* What the outbox does: it keeps its events, and what it adds is the new one.
LogExtends(e) ==
    /\ Len(log') \in Nat /\ Len(log') >= Len(log)
    /\ \A i \in 1..Len(log) : log'[i] = log[i]
    /\ \A i \in 1..Len(log') : i \in 1..Len(log) \/ log'[i] = e
    /\ \E i \in 1..Len(log') : log'[i] = e

LEMMA OutboxGrows ==
    ASSUME log \in Seq(Events), NEW e \in Events, insertWorkflowOutboxEvent(e)
    PROVE  log' \in Seq(Events) /\ LogExtends(e)
  <1>1. CASE \E i \in DOMAIN log : log[i] = e
    BY <1>1 DEF insertWorkflowOutboxEvent, LogExtends
  <1>2. CASE ~\E i \in DOMAIN log : log[i] = e
    <2>1. log' = Append(log, e)
      BY <1>2 DEF insertWorkflowOutboxEvent
    <2>2. /\ log' \in Seq(Events) /\ Len(log') = Len(log) + 1 /\ Len(log) \in Nat
          /\ \A i \in 1..Len(log) : log'[i] = log[i]
          /\ log'[Len(log) + 1] = e
      BY <2>1
    <2> QED
      BY <2>2 DEF LogExtends
  <1> QED
    BY <1>1, <1>2

LEMMA EventsAreEvents ==
    ASSUME LifecycleAssumption
    PROVE  /\ \A a \in Actions, g \in Nat : Event(a, g) \in Events
           /\ \A a \in {"COMPLETED", "FAILED"}, j \in Jobs : JobEvent(a, j) \in Events
  BY DEF Event, JobEvent, Events, Actions, LifecycleAssumption

\* Handlers keep their events when the outbox grows or does not change.
LEMMA WorkerStays ==
    ASSUME BaseInv, UNCHANGED workerVars, log' \in Seq(Events),
           Len(log') >= Len(log), \A i \in 1..Len(log) : log'[i] = log[i]
    PROVE  WorkerOK'
  <1>0. Len(log) \in Nat /\ Len(log') \in Nat
    BY DEF BaseInv, TypeOK
  <1>1. HandlersNamed'
    <2> SUFFICES ASSUME NEW w \in Workers PROVE Named(handler[w], log')
      BY DEF HandlersNamed, workerVars
    <2>1. Named(handler[w], log)
      BY DEF BaseInv, HandlersNamed
    <2> QED
      BY <1>0, <2>1 DEF Named
  <1> QED
    BY <1>0, <1>1 DEF WorkerOK, workerVars, BaseInv, TypeOK

\* One worker moves to a state that has the event it is about.
LEMMA HandlerMoves ==
    ASSUME BaseInv, NEW w \in Workers, NEW h \in HandlerStates, Named(h, log),
           handler' = [handler EXCEPT ![w] = h],
           committed' \in 0..Len(log), locked' \subseteq Actions, UNCHANGED log
    PROVE  WorkerOK'
  <1>1. /\ handler' \in [Workers -> HandlerStates] /\ handler'[w] = h
        /\ \A v \in Workers \ {w} : handler'[v] = handler[v]
    BY DEF BaseInv, TypeOK
  <1>2. HandlersNamed'
    BY <1>1 DEF HandlersNamed, BaseInv
  <1> QED
    BY <1>1, <1>2 DEF WorkerOK

LEMMA ReturnMoves ==
    ASSUME BaseInv, NEW w \in Workers, handler[w].pc # "idle", Return(w), UNCHANGED log
    PROVE  WorkerOK'
  <1>1. Idle \in HandlerStates /\ Named(Idle, log)
    BY DEF Idle, HandlerStates, BuildStatuses, Named
  <1>2. committed' \in 0..Len(log)
    <2>1. /\ committed \in 0..Len(log) /\ Len(log) \in Nat
          /\ handler[w].at \in 1..Len(log)
      BY DEF BaseInv, TypeOK, HandlersNamed, Named
    <2> QED
      BY <2>1 DEF Return
  <1>3. locked' \subseteq Actions
    BY DEF Return, Unlock, BaseInv, TypeOK
  <1> QED
    BY <1>1, <1>2, <1>3, HandlerMoves DEF Return

LEMMA GotoMoves ==
    ASSUME BaseInv, NEW w \in Workers, NEW pc, Goto(w, pc), UNCHANGED <<log, committed>>,
           locked' \subseteq Actions,
           pc \in {"load", "lock", "list", "cancel", "start", "build", "complete", "fail",
                   "reload", "schedule", "again", "count", "notify", "end"},
           handler[w].pc # "idle",
           pc = "lock" => Ev(w).action \in Actions,
           pc \in {"start", "build", "complete", "fail", "reload", "again"} => Ev(w).action = "BUILD",
           pc = "schedule" => Ev(w).action \in {"BUILD", "RESCHEDULE"},
           pc = "count" => Ev(w).action \in {"COMPLETED", "FAILED"}
    PROVE  WorkerOK'
  <1> DEFINE h == [handler[w] EXCEPT !.pc = pc]
  <1>0. handler[w] \in HandlerStates
    BY DEF BaseInv, TypeOK
  <1>1. h \in HandlerStates /\ h.pc = pc /\ h.at = handler[w].at
    BY <1>0 DEF HandlerStates
  <1>2. Named(h, log)
    BY <1>1 DEF Named, BaseInv, HandlersNamed, Ev
  <1>3. handler' = [handler EXCEPT ![w] = h]
    BY DEF Goto, BaseInv, TypeOK
  <1>4. committed' \in 0..Len(log)
    BY DEF BaseInv, TypeOK
  <1> HIDE DEF h
  <1> QED
    BY <1>1, <1>2, <1>3, <1>4, HandlerMoves

-----------------------------------------------------------------------------
\* A poll, a crash and a retry of the record.
LEMMA PolledState ==
    ASSUME NEW g \in HandlerStates, NEW n \in Nat
    PROVE  LET h == [g EXCEPT !.at = n, !.pc = "load"]
           IN  h \in HandlerStates /\ h.pc = "load" /\ h.at = n
  BY DEF HandlerStates

LEMMA PollMoves ==
    ASSUME BaseInv, NEW w \in Workers, Poll(w)
    PROVE  WorkerOK'
  <1> DEFINE h == [handler[w] EXCEPT !.at = committed + 1, !.pc = "load"]
  <1>0. /\ handler[w] \in HandlerStates /\ committed + 1 \in 1..Len(log) /\ committed + 1 \in Nat
        /\ UNCHANGED <<log, committed, locked>>
    BY DEF Poll, BaseInv, TypeOK, StayHeld, OnlyWorker
  <1>1. h \in HandlerStates /\ h.pc = "load" /\ h.at = committed + 1
    BY <1>0, PolledState
  <1>2. Named(h, log)
    BY <1>0, <1>1 DEF Named
  <1>3. handler' = [handler EXCEPT ![w] = h]
    BY DEF Poll, BaseInv, TypeOK
  <1>4. committed' \in 0..Len(log) /\ locked' \subseteq Actions
    BY <1>0 DEF BaseInv, TypeOK
  <1> HIDE DEF h
  <1> QED
    BY <1>0, <1>1, <1>2, <1>3, <1>4, HandlerMoves

LEMMA FaultMoves ==
    ASSUME BaseInv, NEW w \in Workers, RetryRecord(w) \/ Crash(w)
    PROVE  WorkerOK'
  <1>0. /\ committed' \in 0..Len(log) /\ locked' \subseteq Actions /\ UNCHANGED log
        /\ handler[w].pc # "idle" /\ handler[w].at \in 1..Len(log) /\ handler[w].at \in Nat
    BY DEF RetryRecord, Crash, Fault, At, Unlock, BaseInv, TypeOK, HandlersNamed, Named
  <1>1. CASE RetryRecord(w)
    <2> DEFINE h == [Idle EXCEPT !.at = handler[w].at, !.pc = "load"]
    <2>1. h \in HandlerStates /\ h.pc = "load" /\ h.at = handler[w].at
      <3>1. Idle \in HandlerStates
        BY DEF Idle, HandlerStates, BuildStatuses
      <3> QED
        BY <1>0, <3>1, PolledState
    <2>2. Named(h, log)
      BY <1>0, <2>1 DEF Named
    <2>3. handler' = [handler EXCEPT ![w] = h]
      BY <1>1 DEF RetryRecord
    <2> HIDE DEF h
    <2> QED
      BY <1>0, <2>1, <2>2, <2>3, HandlerMoves
  <1>2. CASE Crash(w)
    <2>1. Idle \in HandlerStates /\ Named(Idle, log)
      BY DEF Idle, HandlerStates, BuildStatuses, Named
    <2> QED
      BY <1>0, <1>2, <2>1, HandlerMoves DEF Crash
  <1> QED
    BY <1>1, <1>2

\* What a handler does first: it loads the workflow and takes its lock, goes
\* on, or returns.
LEMMA LockNextMoves ==
    ASSUME BaseInv, NEW w \in Workers, LockNext(w), handler[w].pc # "idle", UNCHANGED log,
           Ev(w).action \in Actions
    PROVE  WorkerOK'
  <1> DEFINE h == [handler[w] EXCEPT !.pc = "lock", !.build = wf.build]
  <1>0. /\ handler[w] \in HandlerStates /\ wf.build \in BuildStatuses
        /\ UNCHANGED <<committed, locked>>
    BY DEF LockNext, StayHeld, BaseInv, TypeOK, WorkflowRows
  <1>1. h \in HandlerStates /\ h.pc = "lock" /\ h.at = handler[w].at
    BY <1>0 DEF HandlerStates
  <1>2. Named(h, log)
    BY <1>1 DEF Named, BaseInv, HandlersNamed, Ev
  <1>3. handler' = [handler EXCEPT ![w] = h]
    BY DEF LockNext, BaseInv, TypeOK
  <1>4. committed' \in 0..Len(log) /\ locked' \subseteq Actions
    BY <1>0 DEF BaseInv, TypeOK
  <1> HIDE DEF h
  <1> QED
    BY <1>1, <1>2, <1>3, <1>4, HandlerMoves

LEMMA LoadMoves ==
    ASSUME BaseInv, NEW w \in Workers, runTargetWorkflow(w)
    PROVE  WorkerOK'
  <1>0. /\ UNCHANGED log /\ handler[w].pc # "idle" /\ locked \subseteq Actions
        /\ {"BUILD", "RESCHEDULE", "TERMINATE", "DELETE"} \subseteq Actions
    BY DEF runTargetWorkflow, buildWorkflow, rescheduleWorkflow, terminateWorkflow, deleteWorkflow,
           loadWorkflowForTerminalJobEvent, OnlyWorker, Loaded, At, BaseInv, TypeOK, Actions
  <1>1. CASE Return(w)
    BY <1>0, <1>1, ReturnMoves
  <1>2. CASE LockNext(w) /\ Ev(w).action \in Actions
    BY <1>0, <1>2, LockNextMoves
  <1>3. CASE Goto(w, "again") /\ Ev(w).action = "BUILD" /\ StayHeld
    BY <1>0, <1>3, GotoMoves DEF StayHeld
  <1>4. CASE Goto(w, "count") /\ Ev(w).action \in {"COMPLETED", "FAILED"} /\ StayHeld
    BY <1>0, <1>4, GotoMoves DEF StayHeld
  <1> QED
    BY <1>0, <1>1, <1>2, <1>3, <1>4
       DEF runTargetWorkflow, buildWorkflow, rescheduleWorkflow, terminateWorkflow, deleteWorkflow,
           loadWorkflowForTerminalJobEvent, Loaded

LEMMA AcquireMoves ==
    ASSUME BaseInv, NEW w \in Workers, AcquireDistributedLock(w)
    PROVE  WorkerOK'
  <1>0. /\ handler[w].pc = "lock" /\ Ev(w).action \in Actions
        /\ locked' \subseteq Actions /\ UNCHANGED <<log, committed>>
    BY DEF AcquireDistributedLock, At, BaseInv, TypeOK, HandlersNamed, Named, Ev, OnlyWorker
  <1>1. CASE Ev(w).action = "RESCHEDULE" /\ Goto(w, "schedule")
    BY <1>0, <1>1, GotoMoves
  <1>2. CASE Ev(w).action = "DELETE" /\ Goto(w, "end")
    BY <1>0, <1>2, GotoMoves
  <1>3. CASE handler' = [handler EXCEPT ![w].pc = "list", ![w].sweep = 1]
    <2> DEFINE h == [handler[w] EXCEPT !.pc = "list", !.sweep = 1]
    <2>0. handler[w] \in HandlerStates /\ 1 \in 0..4
      BY DEF BaseInv, TypeOK
    <2>1. h \in HandlerStates /\ h.pc = "list" /\ h.at = handler[w].at
      BY <2>0 DEF HandlerStates
    <2>2. Named(h, log)
      BY <1>0, <2>1 DEF Named, BaseInv, HandlersNamed
    <2>3. handler' = [handler EXCEPT ![w] = h]
      BY <1>3 DEF BaseInv, TypeOK
    <2>4. committed' \in 0..Len(log)
      BY <1>0 DEF BaseInv, TypeOK
    <2> HIDE DEF h
    <2> QED
      BY <1>0, <2>1, <2>2, <2>3, <2>4, HandlerMoves
  <1> QED
    BY <1>1, <1>2, <1>3 DEF AcquireDistributedLock

LEMMA ListMoves ==
    ASSUME BaseInv, NEW w \in Workers, ListJobs(w)
    PROVE  WorkerOK'
  <1> DEFINE i == handler[w].sweep
             order == SweepOrder(Ev(w).action)
             S == {j \in Jobs : status[j] = order[i]}
             h == [handler[w] EXCEPT !.pc = "cancel", !.sweep = i + 1, !.todo = S]
  <1>0. /\ handler[w] \in HandlerStates /\ UNCHANGED <<log, committed, locked>>
        /\ handler[w].pc = "list" /\ i <= Len(order)
    BY DEF ListJobs, At, StayHeld, OnlyWorker, BaseInv, TypeOK
  <1>1. Len(order) <= 3
    BY DEF SweepOrder
  <1>2. i + 1 \in 0..4 /\ S \in SUBSET Jobs
    BY <1>0, <1>1 DEF HandlerStates
  <1>3. h \in HandlerStates /\ h.pc = "cancel" /\ h.at = handler[w].at
    <2> HIDE DEF S, i
    <2> QED
      BY <1>0, <1>2 DEF HandlerStates
  <1>4. Named(h, log)
    <2> HIDE DEF h
    <2> QED
      BY <1>0, <1>3 DEF Named, BaseInv, HandlersNamed
  <1>5. handler' = [handler EXCEPT ![w] = h]
    BY DEF ListJobs, BaseInv, TypeOK
  <1>6. committed' \in 0..Len(log) /\ locked' \subseteq Actions
    BY <1>0 DEF BaseInv, TypeOK
  <1> HIDE DEF h
  <1> QED
    BY <1>0, <1>3, <1>4, <1>5, <1>6, HandlerMoves

LEMMA SweptMoves ==
    ASSUME BaseInv, NEW w \in Workers, Swept(w)
    PROVE  WorkerOK'
  <1>0. /\ UNCHANGED log /\ handler[w].pc # "idle" /\ locked \subseteq Actions
    BY DEF Swept, OnlyWorker, At, BaseInv, TypeOK
  <1>1. CASE Return(w)
    BY <1>0, <1>1, ReturnMoves
  <1>2. CASE Goto(w, "list") /\ StayHeld
    BY <1>0, <1>2, GotoMoves DEF StayHeld
  <1>3. CASE /\ Ev(w).action = "BUILD" /\ StayHeld
             /\ \E pc \in {"complete", "start", "build"} : Goto(w, pc)
    BY <1>0, <1>3, GotoMoves DEF StayHeld
  <1> QED
    BY <1>1, <1>2, <1>3 DEF Swept

LEMMA OnwardMoves ==
    ASSUME BaseInv, NEW w \in Workers,
           BuildImage(w) \/ getSchedulableWorkflow(w) \/ End(w)
    PROVE  WorkerOK'
  <1>0. /\ UNCHANGED log /\ handler[w].pc # "idle" /\ locked \subseteq Actions
    BY DEF BuildImage, getSchedulableWorkflow, End, OnlyWorker, At, BaseInv, TypeOK
  <1>1. CASE Return(w)
    BY <1>0, <1>1, ReturnMoves
  <1>2. CASE BuildImage(w)
    <2>1. Ev(w).action = "BUILD"
      BY <1>2 DEF BuildImage, At, BaseInv, HandlersNamed, Named, Ev
    <2>2. PICK pc \in {"complete", "fail"} : Goto(w, pc)
      BY <1>2 DEF BuildImage
    <2> QED
      BY <1>0, <1>2, <2>1, <2>2, GotoMoves DEF BuildImage, StayHeld
  <1>3. CASE At(w, "reload") /\ Goto(w, "schedule") /\ StayHeld
    <2>1. Ev(w).action = "BUILD"
      BY <1>3 DEF At, BaseInv, HandlersNamed, Named, Ev
    <2> QED
      BY <1>0, <1>3, <2>1, GotoMoves DEF StayHeld
  <1> QED
    BY <1>1, <1>2, <1>3 DEF getSchedulableWorkflow, End

\* The steps of the worker that change nothing else.
WorkerOnly(w) ==
    \/ Poll(w) \/ runTargetWorkflow(w) \/ AcquireDistributedLock(w) \/ ListJobs(w) \/ Swept(w)
    \/ BuildImage(w) \/ getSchedulableWorkflow(w) \/ End(w) \/ RetryRecord(w) \/ Crash(w)

LEMMA WorkerOnlyBase ==
    ASSUME BaseInv, NEW w \in Workers, WorkerOnly(w)
    PROVE  BaseInv' /\ UNCHANGED <<wf, jobVars, log, deleting, commands>>
  <1>1. UNCHANGED <<wf, jobVars, log, deleting, commands>> /\ faults' \in Nat
    BY DEF WorkerOnly, Poll, runTargetWorkflow, buildWorkflow, rescheduleWorkflow, terminateWorkflow,
           deleteWorkflow, loadWorkflowForTerminalJobEvent, AcquireDistributedLock, ListJobs, Swept,
           BuildImage, getSchedulableWorkflow, End, RetryRecord, Crash, Fault, OnlyWorker,
           BaseInv, TypeOK
  <1>2. WorkerOK'
    BY PollMoves, LoadMoves, AcquireMoves, ListMoves, SweptMoves, OnwardMoves, FaultMoves
       DEF WorkerOnly
  <1>3. (JobsOK /\ RowOK /\ RestOK)'
    BY <1>1, BaseParts DEF JobsOK, RowOK, RestOK, jobVars
  <1> QED
    BY <1>1, <1>2, <1>3, BasePartsNext

LEMMA LockExpiresBase ==
    ASSUME BaseInv, NEW a \in Actions, LockExpires(a)
    PROVE  BaseInv' /\ UNCHANGED <<wf, jobVars, log, committed, handler, deleting, commands>>
  <1>1. /\ UNCHANGED <<wf, jobVars, log, committed, handler, deleting, commands>>
        /\ locked' \subseteq Actions /\ faults' \in Nat
    BY DEF LockExpires, BaseInv, TypeOK
  <1>2. WorkerOK'
    BY <1>1 DEF WorkerOK, HandlersNamed, BaseInv, TypeOK
  <1>3. (JobsOK /\ RowOK /\ RestOK)'
    BY <1>1, BaseParts DEF JobsOK, RowOK, RestOK, jobVars
  <1> QED
    BY <1>1, <1>2, <1>3, BasePartsNext

-----------------------------------------------------------------------------
\* The steps of a build: only the build status of the row may change.
BuildStep(w) == StartBuild(w) \/ handleWorkflowBuildFailure(w) \/ completeWorkflowBuild(w)

LEMMA BuildStepRow ==
    ASSUME BaseInv, NEW w \in Workers, BuildStep(w)
    PROVE  /\ Ev(w).action = "BUILD"
           /\ \/ UNCHANGED wf
              \/ \E new \in {"STARTED", "FAILED", "COMPLETED"} :
                    /\ wf.state = "LIVE" /\ wf.generation = Ev(w).generation
                    /\ wf.build # "COMPLETED" /\ wf' = [wf EXCEPT !.build = new]
           /\ UNCHANGED <<jobVars, log, deleting, commands, faults>>
  <1>1. Ev(w).action = "BUILD" /\ UNCHANGED <<jobVars, log, deleting, commands, faults>>
    BY DEF BuildStep, StartBuild, handleWorkflowBuildFailure, completeWorkflowBuild,
           UpdateWorkflowBuildStatus, At, Ev, BaseInv, HandlersNamed, Named
  <1>2. PICK new \in {"STARTED", "FAILED", "COMPLETED"} :
                \E pc : UpdateWorkflowBuildStatus(w, new, pc)
    BY DEF BuildStep, StartBuild, handleWorkflowBuildFailure, completeWorkflowBuild
  <1>3. \/ UNCHANGED wf
        \/ /\ wf.state = "LIVE" /\ wf.generation = Ev(w).generation
           /\ workflowBuildTransitionAllowed(wf.build, new) /\ wf' = [wf EXCEPT !.build = new]
    BY <1>2, Zenon DEF UpdateWorkflowBuildStatus
  <1>4. workflowBuildTransitionAllowed(wf.build, new) => wf.build # "COMPLETED"
    BY DEF workflowBuildTransitionAllowed
  <1> QED
    BY <1>1, <1>3, <1>4

LEMMA BuildStepBase ==
    ASSUME BaseInv, NEW w \in Workers, BuildStep(w)
    PROVE  BaseInv'
  <1>0. Ev(w).action = "BUILD" /\ UNCHANGED <<jobVars, log, deleting, commands, faults>>
    BY BuildStepRow
  <1>1. wf' \in WorkflowRows
    <2>0. wf \in WorkflowRows
      BY DEF BaseInv, TypeOK
    <2>1. CASE UNCHANGED wf
      BY <2>0, <2>1
    <2>2. ASSUME NEW new \in {"STARTED", "FAILED", "COMPLETED"}, wf' = [wf EXCEPT !.build = new]
          PROVE  wf' \in WorkflowRows
      BY <2>0, <2>2, Zenon DEF WorkflowRows, BuildStatuses
    <2> QED
      BY <2>1, <2>2, BuildStepRow
  <1>2. WorkerOK'
    <2>1. /\ handler[w].pc # "idle"
          /\ \/ Return(w)
             \/ \E pc \in {"build", "end", "reload"} : Goto(w, pc) /\ StayHeld
      BY DEF BuildStep, StartBuild, handleWorkflowBuildFailure, completeWorkflowBuild,
             UpdateWorkflowBuildStatus, At
    <2>2. CASE Return(w)
      BY <1>0, <2>1, <2>2, ReturnMoves
    <2>3. CASE \E pc \in {"build", "end", "reload"} : Goto(w, pc) /\ StayHeld
      <3>1. PICK pc \in {"build", "end", "reload"} : Goto(w, pc) /\ StayHeld
        BY <2>3
      <3>2. locked' \subseteq Actions /\ UNCHANGED committed
        BY <3>1 DEF StayHeld, BaseInv, TypeOK
      <3> QED
        BY <1>0, <2>1, <3>1, <3>2, GotoMoves
    <2> QED
      BY <2>1, <2>2, <2>3
  <1>3. (JobsOK /\ RowOK /\ RestOK)'
    BY <1>0, <1>1, BaseParts DEF JobsOK, RowOK, RestOK, jobVars
  <1> QED
    BY <1>2, <1>3, BasePartsNext

-----------------------------------------------------------------------------
\* A job moves to another status.
LEMMA JobMoves ==
    ASSUME JobsOK, NEW j \in Jobs, NEW s \in Statuses,
           NEW st \in {"none", "claimed", "loaded", "scheduled"}, st # "none" <=> s = "RUNNING",
           status' = [status EXCEPT ![j] = s], stage' = [stage EXCEPT ![j] = st],
           dispatched' \in [Jobs -> Nat], attempts' \in [Jobs -> Nat],
           canceled' \in [Jobs -> {"none", "UPDATED", "TERMINATED"}],
           UNCHANGED <<origin, jobGen, root, effect>>
    PROVE  JobsOK'
  BY DEF JobsOK

LEMMA CancelJobBase ==
    ASSUME BaseInv, NEW w \in Workers, CancelJob(w)
    PROVE  BaseInv' /\ UNCHANGED <<wf, log, deleting, commands, faults>>
  <1>0. PICK j \in handler[w].todo : CancelJob(w)!(j)
    BY DEF CancelJob
  <1>1. /\ UNCHANGED <<wf, origin, jobGen, root, dispatched, attempts, effect, log, deleting, commands, faults>>
        /\ handler[w].pc = "cancel" /\ handler[w] \in HandlerStates /\ j \in Jobs
    BY <1>0 DEF At, BaseInv, TypeOK, HandlerStates
  <1>2. Reason(w) \in {"UPDATED", "TERMINATED"}
    BY DEF Reason
  <1>3. CASE canceled[j] \in {"none", Reason(w)}
    <2>1. canceled' \in [Jobs -> {"none", "UPDATED", "TERMINATED"}]
      BY <1>0, <1>1, <1>2, <1>3 DEF BaseInv, TypeOK
    <2>2. JobsOK'
      <3>1. CASE canceled[j] = "none" /\ status[j] \in Active
        <4>1. status' = [status EXCEPT ![j] = "CANCELED"] /\ stage' = [stage EXCEPT ![j] = "none"]
          BY <1>0, <1>3, <3>1
        <4>2. dispatched' \in [Jobs -> Nat] /\ attempts' \in [Jobs -> Nat] /\ JobsOK
          BY <1>1, BaseParts DEF JobsOK
        <4> QED
          BY <1>1, <2>1, <4>1, <4>2, JobMoves DEF Statuses
      <3>2. CASE ~(canceled[j] = "none" /\ status[j] \in Active)
        BY <1>0, <1>1, <1>3, <2>1, <3>2, BaseParts DEF JobsOK
      <3> QED
        BY <3>1, <3>2
    <2>3. WorkerOK'
      <3> DEFINE S == handler[w].todo \ {j}
                 h == [handler[w] EXCEPT !.todo = S]
      <3>1. handler' = [handler EXCEPT ![w] = h] /\ UNCHANGED <<committed, locked>>
        BY <1>0, <1>3 DEF BaseInv, TypeOK, StayHeld
      <3>2. h \in HandlerStates /\ h.pc = "cancel" /\ h.at = handler[w].at
        <4>1. S \in SUBSET Jobs
          BY <1>1 DEF HandlerStates
        <4> HIDE DEF S
        <4> QED
          BY <1>1, <4>1 DEF HandlerStates
      <3>3. Named(h, log) /\ committed' \in 0..Len(log) /\ locked' \subseteq Actions
        <4> HIDE DEF h
        <4> QED
          BY <1>1, <3>1, <3>2 DEF Named, BaseInv, HandlersNamed, TypeOK
      <3> HIDE DEF h
      <3> QED
        BY <1>1, <3>1, <3>2, <3>3, HandlerMoves
    <2> QED
      BY <1>1, <2>2, <2>3, BaseParts, BasePartsNext DEF RowOK, RestOK
  <1>4. CASE canceled[j] \notin {"none", Reason(w)}
    <2>1. Return(w) /\ UNCHANGED <<canceled, status, stage>>
      BY <1>0, <1>4
    <2>2. WorkerOK'
      BY <1>1, <2>1, ReturnMoves
    <2> QED
      BY <1>1, <2>1, <2>2, BaseParts, BasePartsNext DEF JobsOK, RowOK, RestOK
  <1> QED
    BY <1>1, <1>3, <1>4

-----------------------------------------------------------------------------
\* Scheduling: a job is inserted, or nothing changes.
Inserts(j, key, g) ==
    /\ status[j] = "NONE"
    /\ status' = [status EXCEPT ![j] = "PENDING"]
    /\ origin' = [origin EXCEPT ![j] = key]
    /\ jobGen' = [jobGen EXCEPT ![j] = g]
    /\ root' = [root EXCEPT ![j] = IF key[1] = "NEXT" THEN root[key[2]] ELSE g]

Schedules(key, g) ==
    \/ UNCHANGED <<status, origin, jobGen, root>> /\ Recorded(key) # {}
    \/ UNCHANGED <<status, origin, jobGen, root>> /\ ~automaticScheduleGuard(g)
    \/ Recorded(key) = {} /\ automaticScheduleGuard(g) /\ \E j \in Jobs : Inserts(j, key, g)

LEMMA ScheduleJobSchedules ==
    ASSUME NEW key, NEW g, ScheduleJob(key, g)
    PROVE  Schedules(key, g)
  BY Zenon DEF ScheduleJob, InsertJob, Schedules, Inserts

LEMMA InsertsOK ==
    ASSUME JobsOK, NEW j \in Jobs, NEW key \in Keys, NEW g \in Nat, Inserts(j, key, g),
           key[1] = "NEXT" => key[2] \in Jobs,
           dispatched' \in [Jobs -> Nat], UNCHANGED <<stage, attempts, canceled, effect>>
    PROVE  JobsOK'
  <1>1. (IF key[1] = "NEXT" THEN root[key[2]] ELSE g) \in Nat
    BY DEF JobsOK
  <1> QED
    BY <1>1 DEF JobsOK, Inserts, Statuses, Active

LEMMA SchedulesOK ==
    ASSUME JobsOK, NEW key \in Keys, NEW g \in Nat, Schedules(key, g),
           key[1] = "NEXT" => key[2] \in Jobs,
           UNCHANGED <<stage, dispatched, attempts, canceled, effect>>
    PROVE  JobsOK'
  <1>1. CASE UNCHANGED <<status, origin, jobGen, root>>
    BY <1>1 DEF JobsOK
  <1>2. CASE \E j \in Jobs : Inserts(j, key, g)
    <2>1. PICK j \in Jobs : Inserts(j, key, g)
      BY <1>2
    <2>2. dispatched' \in [Jobs -> Nat]
      BY DEF JobsOK
    <2> QED
      BY <2>1, <2>2, InsertsOK
  <1> QED
    BY <1>1, <1>2 DEF Schedules

\* The event that a handler schedules for, and the key it schedules under.
LEMMA ScheduleStep ==
    ASSUME BaseInv, NEW w \in Workers, scheduleAutomaticJob(w)
    PROVE  /\ Ev(w).action \in {"BUILD", "RESCHEDULE"} /\ Ev(w).generation \in Nat
           /\ \E i \in 1..Len(log) : log[i] = Ev(w)
           /\ Schedules(ScheduleKey(Ev(w)), Ev(w).generation)
           /\ UNCHANGED <<wf, dispatched, attempts, stage, canceled, effect, log, deleting, commands, faults>>
           /\ Return(w) /\ handler[w].pc # "idle"
  <1>1. /\ handler[w].pc \in {"schedule", "again"} /\ Named(handler[w], log)
        /\ Return(w) /\ ScheduleJob(ScheduleKey(Ev(w)), Ev(w).generation)
        /\ UNCHANGED <<wf, dispatched, attempts, stage, canceled, effect, log, deleting, commands, faults>>
    BY DEF scheduleAutomaticJob, At, BaseInv, HandlersNamed
  <1>2. handler[w].at \in 1..Len(log) /\ Ev(w).action \in {"BUILD", "RESCHEDULE"}
    BY <1>1 DEF Named, Ev
  <1>3. Ev(w) \in Events
    BY <1>2 DEF BaseInv, TypeOK, Ev
  <1>4. Ev(w).generation \in Nat
    BY <1>3 DEF Events
  <1> QED
    BY <1>1, <1>2, <1>4, ScheduleJobSchedules DEF Ev

LEMMA ScheduleBase ==
    ASSUME BaseInv, NEW w \in Workers, scheduleAutomaticJob(w)
    PROVE  BaseInv'
  <1>1. /\ ScheduleKey(Ev(w)) \in Keys /\ Ev(w).generation \in Nat
        /\ ScheduleKey(Ev(w))[1] # "NEXT"
    BY ScheduleStep DEF ScheduleKey, Keys
  <1>2. JobsOK'
    BY <1>1, ScheduleStep, SchedulesOK, BaseParts
  <1>3. WorkerOK'
    BY ScheduleStep, ReturnMoves
  <1> QED
    BY <1>2, <1>3, ScheduleStep, BaseParts, BasePartsNext DEF RowOK, RestOK

-----------------------------------------------------------------------------
\* The count of a terminal event: what it does to the row, the effects and
\* the outbox.
Counts(e) ==
    \/ UNCHANGED <<wf, effect, log>>
    \/ /\ wf.state = "LIVE" /\ ~Counted(e.job)
       /\ \/ e.action = "FAILED" /\ IncrementFailures(e.job)
          \/ e.action = "COMPLETED" /\ resetWorkflowFailureCount(e.job)

LEMMA CountStep ==
    ASSUME BaseInv, NEW w \in Workers, HandleTerminalJob(w)
    PROVE  /\ Ev(w).action \in {"COMPLETED", "FAILED"} /\ Ev(w) \in Events
           /\ \E i \in 1..Len(log) : log[i] = Ev(w)
           /\ Counts(Ev(w))
           /\ UNCHANGED <<status, origin, jobGen, root, dispatched, attempts, stage, canceled, deleting,
                          commands, faults>>
           /\ Goto(w, "notify") /\ StayHeld /\ handler[w].pc # "idle"
  <1>1. handler[w].pc = "count" /\ Named(handler[w], log)
    BY DEF HandleTerminalJob, At, BaseInv, HandlersNamed
  <1>2. handler[w].at \in 1..Len(log) /\ Ev(w).action \in {"COMPLETED", "FAILED"}
    BY <1>1 DEF Named, Ev
  <1>3. Ev(w) \in Events
    BY <1>2 DEF BaseInv, TypeOK, Ev
  <1>4. Counts(Ev(w))
    BY <1>2, Zenon DEF HandleTerminalJob, Counts
  <1> QED
    BY <1>1, <1>2, <1>3, <1>4 DEF HandleTerminalJob, Ev

\* The row after a count.
LEMMA CountRow ==
    ASSUME BaseInv, LifecycleAssumption, NEW e \in Events, Counts(e)
    PROVE  /\ wf' \in WorkflowRows /\ log' \in Seq(Events)
           /\ effect' \in [Jobs -> {"none", "COMPLETED", "FAILED"}]
           /\ UNCHANGED log \/ LogExtends(Event("TERMINATE", wf.generation))
  <1>0. /\ wf \in WorkflowRows /\ log \in Seq(Events) /\ wf.generation \in Nat /\ wf.failures \in Nat
        /\ effect \in [Jobs -> {"none", "COMPLETED", "FAILED"}]
    BY DEF BaseInv, TypeOK, WorkflowRows
  <1>1. CASE UNCHANGED <<wf, effect, log>>
    BY <1>0, <1>1
  <1>2. CASE IncrementFailures(e.job)
    <2>1. effect' \in [Jobs -> {"none", "COMPLETED", "FAILED"}]
      BY <1>0, <1>2 DEF IncrementFailures
    <2>2. UNCHANGED log \/ insertWorkflowOutboxEvent(Event("TERMINATE", wf.generation))
      BY <1>2, Zenon DEF IncrementFailures
    <2>3. Event("TERMINATE", wf.generation) \in Events
      BY <1>0, EventsAreEvents DEF Actions
    <2>4. wf' \in WorkflowRows
      <3> DEFINE reached == wf.failures + 1 >= MaxFailures
      <3>1. CASE UNCHANGED wf
        BY <1>0, <3>1
      <3>2. CASE wf' = [wf EXCEPT !.failures = wf.failures + 1, !.terminated = reached]
        <4>1. wf.failures + 1 \in Nat /\ reached \in BOOLEAN
          BY <1>0
        <4> HIDE DEF reached
        <4> QED
          BY <1>0, <3>2, <4>1, Zenon DEF WorkflowRows
      <3> QED
        BY <1>2, <3>1, <3>2 DEF IncrementFailures
    <2> QED
      BY <1>0, <2>1, <2>2, <2>3, <2>4, OutboxGrows
  <1>3. CASE resetWorkflowFailureCount(e.job)
    <2>1. UNCHANGED log /\ effect' \in [Jobs -> {"none", "COMPLETED", "FAILED"}]
      BY <1>0, <1>3 DEF resetWorkflowFailureCount
    <2>2. wf' = wf \/ wf' = [wf EXCEPT !.failures = 0]
      BY <1>3, Zenon DEF resetWorkflowFailureCount
    <2>3. ASSUME wf' = [wf EXCEPT !.failures = 0] PROVE wf' \in WorkflowRows
      <3>1. 0 \in Nat
        OBVIOUS
      <3> QED
        BY <1>0, <2>3, <3>1, Zenon DEF WorkflowRows
    <2> QED
      BY <1>0, <2>1, <2>2, <2>3
  <1> QED
    BY <1>1, <1>2, <1>3 DEF Counts

LEMMA CountBase ==
    ASSUME BaseInv, LifecycleAssumption, NEW w \in Workers, HandleTerminalJob(w)
    PROVE  BaseInv'
  <1>0. /\ wf' \in WorkflowRows /\ log' \in Seq(Events)
        /\ effect' \in [Jobs -> {"none", "COMPLETED", "FAILED"}]
        /\ UNCHANGED log \/ LogExtends(Event("TERMINATE", wf.generation))
        /\ Goto(w, "notify") /\ UNCHANGED <<committed, locked>> /\ handler[w].pc # "idle"
        /\ UNCHANGED <<status, origin, jobGen, root, dispatched, attempts, stage, canceled, deleting,
                       commands, faults>>
    BY CountStep, CountRow DEF StayHeld
  <1>1. /\ Len(log) \in Nat /\ Len(log') \in Nat /\ Len(log') >= Len(log)
        /\ \A i \in 1..Len(log) : log'[i] = log[i]
    BY <1>0 DEF LogExtends, BaseInv, TypeOK
  <1>2. /\ handler' \in [Workers -> HandlerStates]
        /\ handler'[w].at = handler[w].at /\ handler'[w].pc = "notify"
        /\ \A v \in Workers \ {w} : handler'[v] = handler[v]
    <2> DEFINE h == [handler[w] EXCEPT !.pc = "notify"]
    <2>1. handler[w] \in HandlerStates /\ handler \in [Workers -> HandlerStates]
      BY DEF BaseInv, TypeOK
    <2>2. h \in HandlerStates /\ h.pc = "notify" /\ h.at = handler[w].at
      BY <2>1 DEF HandlerStates
    <2>3. handler' = [handler EXCEPT ![w] = h]
      BY <1>0 DEF Goto
    <2> HIDE DEF h
    <2> QED
      BY <2>1, <2>2, <2>3
  <1>3. HandlersNamed'
    <2> SUFFICES ASSUME NEW v \in Workers PROVE Named(handler'[v], log')
      BY DEF HandlersNamed
    <2>1. Named(handler[v], log)
      BY DEF BaseInv, HandlersNamed
    <2>2. CASE v = w
      BY <1>0, <1>1, <1>2, <2>1, <2>2 DEF Named
    <2>3. CASE v # w
      BY <1>1, <1>2, <2>1, <2>3 DEF Named
    <2> QED
      BY <2>2, <2>3
  <1>4. WorkerOK'
    BY <1>0, <1>1, <1>2, <1>3 DEF WorkerOK, BaseInv, TypeOK
  <1>5. JobsOK'
    BY <1>0, BaseParts DEF JobsOK
  <1> QED
    BY <1>0, <1>4, <1>5, BaseParts, BasePartsNext DEF RowOK, RestOK

-----------------------------------------------------------------------------
\* A running job leaves: it ends, is canceled or, with attempts left, waits
\* again.
Leaves(j, new) ==
    /\ status[j] = "RUNNING" /\ Leave(j, new)
    /\ \/ new \in {"COMPLETED", "FAILED"} /\ stage[j] = "scheduled"
       \/ new = "FAILED" /\ attempts[j] >= RetryLimit
       \/ new = "CANCELED" /\ wf.terminated
       \/ new = "PENDING" /\ attempts[j] < RetryLimit

\* The running job goes on with the workflow that it has loaded.
GoesOn(j) ==
    /\ status[j] = "RUNNING" /\ stage[j] = "claimed"
    /\ stage' = [stage EXCEPT ![j] = IF origin[j][1] = "MANUAL" THEN "scheduled" ELSE "loaded"]
    /\ UNCHANGED <<wf, status, origin, jobGen, root, dispatched, attempts, canceled, effect, log,
                   workerVars, deleting, commands, faults>>

LEMMA ExecutionSteps ==
    ASSUME NEW j \in Jobs, Execution(j)
    PROVE  \/ Claim(j) \/ deferBlockedJob(j) \/ GoesOn(j) \/ scheduleNextAutomaticJob(j)
           \/ \E new \in {"COMPLETED", "FAILED", "CANCELED", "PENDING"} : Leaves(j, new)
  <1>1. CASE releaseClaimForSystemRetry(j)
    BY <1>1, Zenon DEF releaseClaimForSystemRetry, Leaves
  <1>2. CASE LoadWorkflow(j)
    BY <1>1, <1>2, Zenon DEF LoadWorkflow, Leaves, GoesOn
  <1>3. CASE Finish(j)
    BY <1>3, Zenon DEF Finish, Leaves
  <1> QED
    BY <1>1, <1>2, <1>3 DEF Execution

LEMMA LeavesBase ==
    ASSUME BaseInv, LifecycleAssumption, NEW j \in Jobs,
           NEW new \in {"COMPLETED", "FAILED", "CANCELED", "PENDING"}, Leaves(j, new)
    PROVE  /\ BaseInv'
           /\ UNCHANGED log \/ (new \in {"COMPLETED", "FAILED"} /\ LogExtends(JobEvent(new, j)))
  <1>1. /\ status' = [status EXCEPT ![j] = new] /\ stage' = [stage EXCEPT ![j] = "none"]
        /\ UNCHANGED <<wf, origin, jobGen, root, dispatched, attempts, canceled, effect, workerVars,
                       deleting, commands, faults>>
        /\ \/ UNCHANGED log
           \/ new \in {"COMPLETED", "FAILED"} /\ insertWorkflowOutboxEvent(JobEvent(new, j))
    BY Zenon DEF Leaves, Leave
  <1>2. JobsOK'
    <2>1. /\ dispatched' \in [Jobs -> Nat] /\ attempts' \in [Jobs -> Nat]
          /\ canceled' \in [Jobs -> {"none", "UPDATED", "TERMINATED"}] /\ JobsOK
      BY <1>1, BaseParts DEF JobsOK
    <2> QED
      BY <1>1, <2>1, JobMoves DEF Statuses, Active
  <1>3. /\ log \in Seq(Events) /\ log' \in Seq(Events)
        /\ UNCHANGED log \/ (new \in {"COMPLETED", "FAILED"} /\ LogExtends(JobEvent(new, j)))
    <2>1. log \in Seq(Events)
      BY DEF BaseInv, TypeOK
    <2>2. new \in {"COMPLETED", "FAILED"} => JobEvent(new, j) \in Events
      BY EventsAreEvents
    <2> QED
      BY <1>1, <2>1, <2>2, OutboxGrows
  <1>4. WorkerOK'
    BY <1>1, <1>3, WorkerStays DEF LogExtends
  <1> QED
    BY <1>1, <1>2, <1>3, <1>4, BaseParts, BasePartsNext DEF RowOK, RestOK

LEMMA NextScheduled ==
    ASSUME BaseInv, LifecycleAssumption, NEW j \in Jobs, scheduleNextAutomaticJob(j)
    PROVE  /\ status[j] = "RUNNING" /\ stage[j] = "loaded"
           /\ NextKey(j) \in Keys /\ dispatched[j] \in Nat /\ Schedules(NextKey(j), dispatched[j])
           /\ stage' = [stage EXCEPT ![j] = "scheduled"]
           /\ UNCHANGED <<wf, dispatched, attempts, canceled, effect, log, workerVars, deleting,
                          commands, faults>>
  <1>1. wf.interval \in {0, 1} /\ j \in Nat /\ dispatched[j] \in Nat
    BY DEF BaseInv, TypeOK, WorkflowRows, LifecycleAssumption
  <1>2. NextKey(j) \in Keys
    BY <1>1 DEF NextKey, Keys
  <1> QED
    BY <1>1, <1>2, ScheduleJobSchedules DEF scheduleNextAutomaticJob

LEMMA DispatchBase ==
    ASSUME BaseInv, LifecycleAssumption, NEW j \in Jobs, Dispatch(j)
    PROVE  BaseInv'
  <1>1. /\ JobsOK /\ wf.generation \in Nat /\ status[j] = "PENDING"
        /\ status' = [status EXCEPT ![j] = "QUEUED"]
        /\ dispatched' = [dispatched EXCEPT ![j] = wf.generation]
        /\ UNCHANGED <<wf, origin, jobGen, root, attempts, stage, canceled, effect, log, workerVars,
                       deleting, commands, faults>>
    BY BaseParts DEF Dispatch, BaseInv, TypeOK, WorkflowRows
  <1>2. JobsOK'
    BY <1>1 DEF JobsOK, Statuses, Active
  <1>3. WorkerOK' /\ RowOK' /\ RestOK'
    BY <1>1, BaseParts DEF WorkerOK, RowOK, RestOK, workerVars, HandlersNamed
  <1> QED
    BY <1>2, <1>3, BasePartsNext

LEMMA ExecutionBase ==
    ASSUME BaseInv, LifecycleAssumption, NEW j \in Jobs, Execution(j)
    PROVE  BaseInv'
  <1>0. JobsOK /\ WorkerOK /\ RowOK /\ RestOK
    BY BaseParts
  <1>1. CASE Claim(j)
    <2>1. /\ attempts' \in [Jobs -> Nat] /\ dispatched' \in [Jobs -> Nat]
          /\ canceled' \in [Jobs -> {"none", "UPDATED", "TERMINATED"}]
          /\ status' = [status EXCEPT ![j] = "RUNNING"] /\ stage' = [stage EXCEPT ![j] = "claimed"]
          /\ UNCHANGED <<wf, origin, jobGen, root, effect, log, workerVars, deleting, commands, faults>>
      BY <1>0, <1>1 DEF Claim, JobsOK
    <2>2. JobsOK'
      BY <1>0, <2>1, JobMoves DEF Statuses, Active
    <2> QED
      BY <1>0, <2>1, <2>2, BasePartsNext DEF WorkerOK, RowOK, RestOK, workerVars, HandlersNamed
  <1>2. CASE deferBlockedJob(j)
    <2>1. /\ status[j] = "QUEUED" /\ status' = [status EXCEPT ![j] = "PENDING"]
          /\ UNCHANGED <<wf, origin, jobGen, root, dispatched, attempts, stage, canceled, effect, log,
                         workerVars, deleting, commands, faults>>
      BY <1>2 DEF deferBlockedJob
    <2>2. JobsOK'
      BY <1>0, <2>1 DEF JobsOK, Statuses, Active
    <2> QED
      BY <1>0, <2>1, <2>2, BasePartsNext DEF WorkerOK, RowOK, RestOK, workerVars, HandlersNamed
  <1>3. CASE GoesOn(j)
    <2>1. JobsOK'
      BY <1>0, <1>3 DEF JobsOK, GoesOn
    <2> QED
      BY <1>0, <1>3, <2>1, BasePartsNext DEF GoesOn, WorkerOK, RowOK, RestOK, workerVars, HandlersNamed
  <1>4. CASE scheduleNextAutomaticJob(j)
    <2>1. /\ status[j] = "RUNNING" /\ stage[j] = "loaded"
          /\ NextKey(j) \in Keys /\ dispatched[j] \in Nat /\ Schedules(NextKey(j), dispatched[j])
          /\ stage' = [stage EXCEPT ![j] = "scheduled"]
          /\ UNCHANGED <<wf, dispatched, attempts, canceled, effect, log, workerVars, deleting,
                         commands, faults>>
      BY <1>4, NextScheduled
    <2>2. JobsOK'
      <3>1. CASE UNCHANGED <<status, origin, jobGen, root>>
        BY <1>0, <2>1, <3>1 DEF JobsOK
      <3>2. ASSUME NEW k \in Jobs, Inserts(k, NextKey(j), dispatched[j])
            PROVE  JobsOK'
        <4>1. /\ k # j /\ stage'[k] = "none" /\ stage'[j] = "scheduled"
              /\ root' \in [Jobs -> Nat]
          BY <1>0, <2>1, <3>2 DEF Inserts, JobsOK, NextKey
        <4> QED
          BY <1>0, <2>1, <3>2, <4>1 DEF JobsOK, Inserts, Statuses, Active
      <3> QED
        BY <2>1, <3>1, <3>2 DEF Schedules
    <2> QED
      BY <1>0, <2>1, <2>2, BasePartsNext DEF WorkerOK, RowOK, RestOK, workerVars, HandlersNamed
  <1>5. CASE \E new \in {"COMPLETED", "FAILED", "CANCELED", "PENDING"} : Leaves(j, new)
    BY <1>5, LeavesBase
  <1> QED
    BY <1>1, <1>2, <1>3, <1>4, <1>5, ExecutionSteps

-----------------------------------------------------------------------------
\* The commands of users.
LEMMA CreateBase ==
    ASSUME BaseInv, LifecycleAssumption, NEW kind \in Kinds, CreateWorkflow(kind)
    PROVE  BaseInv' /\ LogExtends(Event("BUILD", 1))
  <1>0. /\ JobsOK /\ RowOK /\ RestOK /\ kind \in {"HEARTBEAT", "CONTAINER"} /\ 1 \in Nat
        /\ Event("BUILD", 1) \in Events
    BY BaseParts, EventsAreEvents DEF LifecycleAssumption, Actions
  <1>1. wf' \in WorkflowRows
    BY <1>0, Zenon DEF CreateWorkflow, RowOK, WorkflowRows
  <1>2. log' \in Seq(Events) /\ LogExtends(Event("BUILD", 1))
    BY <1>0, OutboxGrows DEF CreateWorkflow, RowOK
  <1>3. WorkerOK'
    BY <1>2, WorkerStays DEF CreateWorkflow, LogExtends
  <1>4. (JobsOK /\ RestOK)'
    BY <1>0 DEF CreateWorkflow, JobsOK, RestOK, jobVars
  <1> QED
    BY <1>1, <1>2, <1>3, <1>4, BasePartsNext DEF RowOK

\* What an update does to the row, to the jobs and to the outbox.
UpdateRow(resched, restarts, interval) ==
    wf' = [wf EXCEPT !.generation = IF restarts THEN @ + 1 ELSE @,
                     !.build = IF restarts /\ ~resched THEN "QUEUED" ELSE @,
                     !.interval = interval, !.failures = 0, !.terminated = FALSE]

Restarts(resched) ==
    /\ cancelStaleWorkflowJobs(resched)
    /\ insertWorkflowOutboxEvent(Event(IF resched THEN "RESCHEDULE" ELSE "BUILD", wf.generation + 1))

LEMMA UpdateSteps ==
    ASSUME BaseInv, NEW h \in BOOLEAN, NEW i \in BOOLEAN, UpdateWorkflow(h, i)
    PROVE  \E interval \in {0, 1} :
              /\ wf.state = "LIVE"
              /\ \/ /\ UpdateRow(FALSE, FALSE, interval)
                    /\ UNCHANGED <<status, log>>
                 \/ \E resched \in BOOLEAN : UpdateRow(resched, TRUE, interval) /\ Restarts(resched)
              /\ commands' \in Nat
              /\ UNCHANGED <<origin, jobGen, root, dispatched, attempts, stage, canceled, effect,
                             workerVars, deleting, faults>>
  <1> DEFINE build == BuildRequired(h)
             resched == RescheduleRequired(h, i)
             interval == IF i THEN 1 - wf.interval ELSE wf.interval
  <1>0. interval \in {0, 1} /\ wf \in WorkflowRows
    BY DEF BaseInv, TypeOK, WorkflowRows
  <1>1. /\ wf.state = "LIVE" /\ commands' \in Nat
        /\ UNCHANGED <<origin, jobGen, root, dispatched, attempts, stage, canceled, effect,
                       workerVars, deleting, faults>>
    BY DEF UpdateWorkflow, Command, BaseInv, TypeOK
  <1>2. ~(build /\ resched)
    BY Zenon DEF RescheduleRequired
  <1>3. wf' = [wf EXCEPT !.generation = IF build \/ resched THEN @ + 1 ELSE @,
                         !.build = IF build THEN "QUEUED" ELSE @,
                         !.interval = IF i THEN 1 - @ ELSE @,
                         !.failures = 0, !.terminated = FALSE]
    BY Zenon DEF UpdateWorkflow
  <1>4. CASE build
    <2>1. Restarts(FALSE)
      <3>1. /\ cancelStaleWorkflowJobs(resched) /\ ~resched
            /\ insertWorkflowOutboxEvent(Event("BUILD", wf.generation + 1))
        BY <1>2, <1>4, Zenon DEF UpdateWorkflow
      <3>2. cancelStaleWorkflowJobs(FALSE)
        <4> HIDE DEF resched
        <4> QED
          BY <3>1, Zenon DEF cancelStaleWorkflowJobs
      <3> QED
        BY <3>1, <3>2, Zenon DEF Restarts
    <2>2. UpdateRow(FALSE, TRUE, interval)
      BY <1>3, <1>4, Zenon DEF UpdateRow
    <2> QED
      BY <1>0, <1>1, <2>1, <2>2
  <1>5. CASE resched
    <2>1. Restarts(TRUE)
      BY <1>2, <1>5, Zenon DEF UpdateWorkflow, Restarts
    <2>2. UpdateRow(TRUE, TRUE, interval)
      BY <1>2, <1>3, <1>5, Zenon DEF UpdateRow
    <2> QED
      BY <1>0, <1>1, <2>1, <2>2
  <1>6. CASE ~build /\ ~resched
    <2>1. UNCHANGED <<status, log>>
      BY <1>6, Zenon DEF UpdateWorkflow
    <2>2. UpdateRow(FALSE, FALSE, interval)
      BY <1>3, <1>6, Zenon DEF UpdateRow
    <2> QED
      BY <1>0, <1>1, <2>1, <2>2
  <1> QED
    BY <1>4, <1>5, <1>6

\* An update that starts no generation keeps the interval or meets an open
\* build.
LEMMA UpdatedInterval ==
    ASSUME BaseInv, NEW h \in BOOLEAN, NEW i \in BOOLEAN, UpdateWorkflow(h, i),
           wf'.generation = wf.generation
    PROVE  wf'.interval = wf.interval \/ wf.build # "COMPLETED"
  <1> DEFINE restarts == BuildRequired(h) \/ RescheduleRequired(h, i)
             g == IF restarts THEN wf.generation + 1 ELSE wf.generation
             b == IF BuildRequired(h) THEN "QUEUED" ELSE wf.build
             interval == IF i THEN 1 - wf.interval ELSE wf.interval
  <1>1. wf' = [wf EXCEPT !.generation = g, !.build = b, !.interval = interval,
                         !.failures = 0, !.terminated = FALSE]
    BY Zenon DEF UpdateWorkflow
  <1>2. wf \in WorkflowRows /\ wf.generation \in Nat
    BY DEF BaseInv, TypeOK, WorkflowRows
  <1> HIDE DEF g, b, interval
  <1>3. wf'.generation = g /\ wf'.interval = interval
    BY <1>1, <1>2, Zenon DEF WorkflowRows
  <1> USE DEF g, interval
  <1>4. ~restarts
    BY <1>2, <1>3
  <1> QED
    BY <1>3, <1>4 DEF RescheduleRequired

LEMMA UpdatedRow ==
    ASSUME BaseInv, NEW resched \in BOOLEAN, NEW restarts \in BOOLEAN, NEW interval \in {0, 1},
           UpdateRow(resched, restarts, interval)
    PROVE  /\ wf' \in WorkflowRows
           /\ wf'.generation = (IF restarts THEN wf.generation + 1 ELSE wf.generation)
           /\ wf'.state = wf.state /\ wf'.failures = 0 /\ wf'.terminated = FALSE
           /\ wf'.build = (IF restarts /\ ~resched THEN "QUEUED" ELSE wf.build)
  <1> DEFINE g == IF restarts THEN wf.generation + 1 ELSE wf.generation
             b == IF restarts /\ ~resched THEN "QUEUED" ELSE wf.build
  <1>1. wf \in WorkflowRows /\ wf.generation \in Nat /\ wf.build \in BuildStatuses
    BY DEF BaseInv, TypeOK, WorkflowRows
  <1>2. g \in Nat /\ b \in BuildStatuses /\ 0 \in Nat
    BY <1>1 DEF BuildStatuses
  <1>3. wf' = [wf EXCEPT !.generation = g, !.build = b, !.interval = interval, !.failures = 0,
                         !.terminated = FALSE]
    BY Zenon DEF UpdateRow
  <1> HIDE DEF g, b
  <1>4. wf' \in WorkflowRows
    BY <1>1, <1>2, <1>3, Zenon DEF WorkflowRows
  <1>5. /\ wf'.generation = g /\ wf'.build = b /\ wf'.state = wf.state /\ wf'.failures = 0
        /\ wf'.terminated = FALSE
    BY <1>1, <1>3, Zenon DEF WorkflowRows
  <1> QED
    BY <1>4, <1>5 DEF g, b

LEMMA StaleCanceled ==
    ASSUME JobsOK, NEW resched \in BOOLEAN, cancelStaleWorkflowJobs(resched)
    PROVE  /\ status' \in [Jobs -> Statuses]
           /\ \A j \in Jobs : \/ status'[j] = status[j]
                              \/ status[j] \in {"PENDING", "QUEUED"} /\ status'[j] = "CANCELED"
           /\ \A j \in Jobs : origin[j][1] # "MANUAL" => status'[j] \notin {"PENDING", "QUEUED"}
           /\ ~resched => \A j \in Jobs : status'[j] \notin {"PENDING", "QUEUED"}
  BY DEF JobsOK, cancelStaleWorkflowJobs, Statuses, Active

LEMMA UpdateBase ==
    ASSUME BaseInv, LifecycleAssumption, NEW h \in BOOLEAN, NEW i \in BOOLEAN, UpdateWorkflow(h, i)
    PROVE  BaseInv'
  <1>0. JobsOK /\ WorkerOK /\ RowOK /\ RestOK
    BY BaseParts
  <1>1. PICK interval \in {0, 1} :
              /\ wf.state = "LIVE"
              /\ \/ /\ UpdateRow(FALSE, FALSE, interval)
                    /\ UNCHANGED <<status, log>>
                 \/ \E resched \in BOOLEAN : UpdateRow(resched, TRUE, interval) /\ Restarts(resched)
              /\ commands' \in Nat
              /\ UNCHANGED <<origin, jobGen, root, dispatched, attempts, stage, canceled, effect,
                             workerVars, deleting, faults>>
    BY UpdateSteps
  <1>2. CASE UpdateRow(FALSE, FALSE, interval) /\ UNCHANGED <<status, log>>
    <2>1. wf' \in WorkflowRows
      BY <1>2, UpdatedRow
    <2> QED
      BY <1>0, <1>1, <1>2, <2>1, BasePartsNext
         DEF JobsOK, WorkerOK, RowOK, RestOK, workerVars, HandlersNamed
  <1>3. ASSUME NEW resched \in BOOLEAN, UpdateRow(resched, TRUE, interval), Restarts(resched)
        PROVE  BaseInv'
    <2>1. wf' \in WorkflowRows
      BY <1>3, UpdatedRow
    <2>2. JobsOK'
      <3>1. /\ status' \in [Jobs -> Statuses]
            /\ \A j \in Jobs : \/ status'[j] = status[j]
                               \/ status[j] \in {"PENDING", "QUEUED"} /\ status'[j] = "CANCELED"
        BY <1>0, <1>3, StaleCanceled DEF Restarts
      <3> QED
        BY <1>0, <1>1, <3>1 DEF JobsOK
    <2>3. log' \in Seq(Events) /\ WorkerOK'
      <3> DEFINE e == Event(IF resched THEN "RESCHEDULE" ELSE "BUILD", wf.generation + 1)
      <3>1. wf.generation + 1 \in Nat /\ log \in Seq(Events)
        BY DEF BaseInv, TypeOK, WorkflowRows
      <3>2. e \in Events
        BY <3>1, EventsAreEvents DEF Actions
      <3>3. log' \in Seq(Events) /\ LogExtends(e)
        BY <1>3, <3>1, <3>2, OutboxGrows DEF Restarts
      <3> QED
        BY <1>1, <3>3, WorkerStays DEF LogExtends
    <2> QED
      BY <1>0, <1>1, <2>1, <2>2, <2>3, BasePartsNext DEF RowOK, RestOK
  <1> QED
    BY <1>1, <1>2, <1>3

LEMMA TerminateBase ==
    ASSUME BaseInv, LifecycleAssumption, TerminateWorkflow
    PROVE  BaseInv' /\ LogExtends(Event("TERMINATE", wf.generation))
  <1>0. /\ JobsOK /\ RowOK /\ RestOK
        /\ Event("TERMINATE", wf.generation) \in Events
    BY BaseParts, EventsAreEvents DEF RowOK, WorkflowRows, Actions
  <1>1. wf' \in WorkflowRows
    BY <1>0, Zenon DEF TerminateWorkflow, RowOK, WorkflowRows
  <1>2. log' \in Seq(Events) /\ LogExtends(Event("TERMINATE", wf.generation))
    BY <1>0, OutboxGrows DEF TerminateWorkflow, RowOK
  <1>3. WorkerOK'
    BY <1>2, WorkerStays DEF TerminateWorkflow, LogExtends
  <1>4. (JobsOK /\ RestOK)'
    BY <1>0 DEF TerminateWorkflow, Command, JobsOK, RestOK, jobVars
  <1> QED
    BY <1>1, <1>2, <1>3, <1>4, BasePartsNext DEF RowOK

\* The workflow and its jobs are gone.
Deletes ==
    /\ wf.terminated /\ wf' = [wf EXCEPT !.state = "DELETED"]
    /\ status' = [j \in Jobs |-> IF status[j] = "NONE" THEN "NONE" ELSE "DELETED"]
    /\ stage' = [j \in Jobs |-> "none"]
    /\ effect' = [j \in Jobs |-> "none"]
    /\ insertWorkflowOutboxEvent(Event("DELETE", 0))

LEMMA DeleteSteps ==
    ASSUME BaseInv, LifecycleAssumption, DeleteReadsWorkflow \/ DeleteReadsJobs \/ DeleteWorkflow
    PROVE  /\ BaseInv'
           /\ UNCHANGED <<origin, jobGen, root, dispatched, attempts, canceled, workerVars, faults>>
           /\ \/ UNCHANGED <<wf, jobVars, log>> /\ (deleting' \in {"no", deleting} \/ wf.state = "LIVE"
                                                    \/ deleting # "no")
              \/ Deletes /\ LogExtends(Event("DELETE", 0)) /\ deleting = "idle"
  <1>0. JobsOK /\ WorkerOK /\ RowOK /\ RestOK
    BY BaseParts
  <1>1. CASE DeleteReadsWorkflow \/ DeleteReadsJobs
    <2>1. /\ UNCHANGED <<wf, jobVars, log, workerVars, faults>>
          /\ deleting' \in {"no", "terminated", "idle"} /\ commands' \in Nat
          /\ wf.state = "LIVE" \/ deleting # "no"
      BY <1>0, <1>1 DEF DeleteReadsWorkflow, DeleteReadsJobs, Command, RestOK
    <2> QED
      BY <1>0, <2>1, BasePartsNext
         DEF JobsOK, WorkerOK, RowOK, RestOK, jobVars, workerVars, HandlersNamed
  <1>2. CASE DeleteWorkflow
    <2>1. /\ deleting = "idle" /\ deleting' = "no"
          /\ UNCHANGED <<origin, jobGen, root, dispatched, attempts, canceled, workerVars, commands, faults>>
          /\ UNCHANGED <<wf, status, stage, effect, log>> \/ Deletes
      BY <1>2, Zenon DEF DeleteWorkflow, Deletes
    <2>2. CASE UNCHANGED <<wf, status, stage, effect, log>>
      BY <1>0, <2>1, <2>2, BasePartsNext
         DEF JobsOK, WorkerOK, RowOK, RestOK, jobVars, workerVars, HandlersNamed
    <2>3. CASE Deletes
      <3>1. wf' \in WorkflowRows
        BY <1>0, <2>3, Zenon DEF Deletes, RowOK, WorkflowRows
      <3>2. Event("DELETE", 0) \in Events
        BY EventsAreEvents DEF Actions
      <3>3. log' \in Seq(Events) /\ LogExtends(Event("DELETE", 0))
        BY <1>0, <2>3, <3>2, OutboxGrows DEF Deletes, RowOK
      <3>4. WorkerOK'
        BY <2>1, <3>3, WorkerStays DEF LogExtends
      <3>5. JobsOK'
        BY <1>0, <2>1, <2>3 DEF JobsOK, Deletes, Statuses
      <3> QED
        BY <1>0, <2>1, <2>3, <3>1, <3>3, <3>4, <3>5, BasePartsNext DEF RowOK, RestOK
    <2> QED
      BY <2>1, <2>2, <2>3
  <1> QED
    BY <1>1, <1>2

LEMMA ManualSteps ==
    ASSUME BaseInv, LifecycleAssumption, ScheduleManualJob
    PROVE  /\ BaseInv'
           /\ wf.state = "LIVE"
           /\ \E j \in Jobs, n \in Nat : Inserts(j, <<"MANUAL", n, 0>>, 0)
           /\ UNCHANGED <<wf, dispatched, attempts, stage, canceled, effect, log, workerVars,
                          deleting, faults>>
  <1> DEFINE n == Cardinality({j \in Jobs : status[j] # "NONE"})
  <1>0. JobsOK /\ WorkerOK /\ RowOK /\ RestOK
    BY BaseParts
  <1>1. n \in Nat
    <2>1. {j \in Jobs : status[j] # "NONE"} \subseteq Jobs
      BY Zenon
    <2> QED
      BY <2>1, FS_Subset, FS_CardinalityType DEF LifecycleAssumption
  <1>2. /\ wf.state = "LIVE" /\ commands' \in Nat
        /\ UNCHANGED <<wf, dispatched, attempts, stage, canceled, effect, log, workerVars,
                       deleting, faults>>
    BY <1>0 DEF ScheduleManualJob, Command, RestOK
  <1>3. PICK j \in Jobs : Inserts(j, <<"MANUAL", n, 0>>, 0)
    BY Zenon DEF ScheduleManualJob, InsertJob, Inserts
  <1> HIDE DEF n
  <1>4. <<"MANUAL", n, 0>> \in Keys
    BY <1>1 DEF Keys
  <1>5. JobsOK'
    <2>1. dispatched' \in [Jobs -> Nat]
      BY <1>0, <1>2 DEF JobsOK
    <2> QED
      BY <1>0, <1>2, <1>3, <1>4, <2>1, InsertsOK
  <1> QED
    BY <1>0, <1>1, <1>2, <1>3, <1>5, BasePartsNext
       DEF WorkerOK, RowOK, RestOK, workerVars, HandlersNamed

-----------------------------------------------------------------------------
LEMMA InitBase ==
    ASSUME LifecycleAssumption, Init
    PROVE  BaseInv
  <1>1. wf \in WorkflowRows
    BY DEF Init, WorkflowRows, BuildStatuses
  <1>2. NoKey \in Keys
    BY DEF NoKey, Keys
  <1>3. JobsOK
    BY <1>2 DEF Init, JobsOK, Statuses
  <1>4. Idle \in HandlerStates /\ Idle.pc = "idle"
    BY DEF Idle, HandlerStates, BuildStatuses
  <1>5. WorkerOK
    BY <1>4 DEF Init, WorkerOK, HandlersNamed, Named
  <1>6. RestOK /\ log \in Seq(Events)
    BY DEF Init, RestOK
  <1> QED
    BY <1>1, <1>3, <1>5, <1>6, BaseParts DEF RowOK

\* The kinds of steps that the proofs distinguish.
LEMMA StepKinds ==
    ASSUME Next
    PROVE  \/ \E kind \in Kinds : CreateWorkflow(kind)
           \/ \E h, i \in BOOLEAN : UpdateWorkflow(h, i)
           \/ TerminateWorkflow
           \/ DeleteReadsWorkflow \/ DeleteReadsJobs \/ DeleteWorkflow
           \/ ScheduleManualJob
           \/ \E j \in Jobs : Dispatch(j) \/ Execution(j)
           \/ \E w \in Workers : \/ WorkerOnly(w) \/ CancelJob(w) \/ BuildStep(w)
                                 \/ scheduleAutomaticJob(w) \/ HandleTerminalJob(w)
           \/ \E a \in Actions : LockExpires(a)
  BY Zenon DEF Next, UserCommand, HandlerStep, WorkerOnly, BuildStep

LEMMA NextBase ==
    ASSUME BaseInv, LifecycleAssumption, [Next]_vars
    PROVE  BaseInv'
  <1>1. CASE Next
    <2>1. ASSUME NEW w \in Workers,
                 \/ WorkerOnly(w) \/ CancelJob(w) \/ BuildStep(w)
                 \/ scheduleAutomaticJob(w) \/ HandleTerminalJob(w)
          PROVE  BaseInv'
      BY <2>1, WorkerOnlyBase, CancelJobBase, BuildStepBase, ScheduleBase, CountBase
    <2>2. ASSUME NEW j \in Jobs, Dispatch(j) \/ Execution(j)
          PROVE  BaseInv'
      BY <2>2, DispatchBase, ExecutionBase
    <2> QED
      BY <1>1, <2>1, <2>2, StepKinds, CreateBase, UpdateBase, TerminateBase, DeleteSteps,
         ManualSteps, LockExpiresBase
  <1>2. CASE UNCHANGED vars
    BY <1>2, BaseParts, BasePartsNext
       DEF vars, jobVars, workerVars, JobsOK, WorkerOK, RowOK, RestOK, HandlersNamed
  <1> QED
    BY <1>1, <1>2

\* Every step keeps the rows, the outbox and the handlers of the worker well
\* formed, and a handler's step is about the event it has loaded
\* (workflow.go:117).
THEOREM TypeCorrect ==
    ASSUME LifecycleAssumption
    PROVE  Spec => []TypeOK
  <1>1. Init => BaseInv
    BY InitBase
  <1>2. BaseInv /\ [Next]_vars => BaseInv'
    BY NextBase
  <1>3. BaseInv => TypeOK
    BY DEF BaseInv
  <1> QED
    BY <1>1, <1>2, <1>3, PTL DEF Spec

-----------------------------------------------------------------------------
(* The failure count of a workflow. *)

CountedJobs == {j \in Jobs : status[j] = "FAILED" /\ effect[j] = "FAILED"}

\* An event about the end of a job is about a job that has ended that way.
TrueEvent(e, s) ==
    e.action \in {"COMPLETED", "FAILED"} =>
        e.job \in Jobs /\ (e.action = "FAILED" => s[e.job] \in {"FAILED", "DELETED"})

FailInv ==
    /\ \A i \in 1..Len(log) : TrueEvent(log[i], status)
    /\ \A j \in Jobs : effect[j] = "FAILED" => status[j] = "FAILED"
    /\ wf.state # "DELETED" => \A j \in Jobs : status[j] # "DELETED"
    /\ wf.state = "ABSENT" => wf.failures = 0
    /\ FailuresCountedOnce

LEMMA CountedFinite ==
    ASSUME LifecycleAssumption
    PROVE  /\ IsFiniteSet(CountedJobs) /\ Cardinality(CountedJobs) \in Nat
           /\ IsFiniteSet(CountedJobs') /\ Cardinality(CountedJobs') \in Nat
  <1>1. IsFiniteSet(Jobs)
    BY DEF LifecycleAssumption
  <1>2. CountedJobs \subseteq Jobs /\ CountedJobs' \subseteq Jobs
    BY Zenon DEF CountedJobs
  <1> QED
    BY <1>1, <1>2, FS_Subset, FS_CardinalityType

\* A step that counts no failure: failed jobs stay failed, the row keeps its
\* count or starts again at zero.
FailuresKept ==
    /\ UNCHANGED effect
    /\ \A j \in Jobs : status[j] \in {"FAILED", "DELETED"} => status'[j] = status[j]
    /\ \A j \in Jobs : status'[j] = "DELETED" => status[j] = "DELETED"
    /\ \A i \in 1..Len(log') :
          \/ i \in 1..Len(log) /\ log'[i] = log[i]
          \/ TrueEvent(log'[i], status')
    /\ \/ wf'.state = wf.state /\ wf'.failures = wf.failures /\ (wf.terminated => wf'.terminated)
       \/ wf.state # "DELETED" /\ wf'.state = "LIVE" /\ wf'.failures = 0

LEMMA FailKeeps ==
    ASSUME BaseInv, BaseInv', LifecycleAssumption, FailInv, FailuresKept
    PROVE  FailInv'
  <1>1. \A i \in 1..Len(log') : TrueEvent(log'[i], status')
    BY DEF FailInv, FailuresKept, TrueEvent
  <1>2. \A j \in Jobs : effect'[j] = "FAILED" => status'[j] = "FAILED"
    BY DEF FailInv, FailuresKept
  <1>3. wf'.state # "DELETED" => \A j \in Jobs : status'[j] # "DELETED"
    BY DEF FailInv, FailuresKept
  <1>4. wf'.state = "ABSENT" => wf'.failures = 0
    BY DEF FailInv, FailuresKept
  <1>5. FailuresCountedOnce'
    <2>1. CountedJobs \subseteq CountedJobs'
      BY DEF CountedJobs, FailuresKept
    <2>2. Cardinality(CountedJobs) <= Cardinality(CountedJobs')
      BY <2>1, CountedFinite, FS_Subset
    <2>3. /\ wf.failures \in Nat /\ wf'.failures \in Nat /\ MaxFailures \in Nat \ {0}
          /\ Cardinality(CountedJobs) \in Nat /\ Cardinality(CountedJobs') \in Nat
      BY CountedFinite DEF BaseInv, TypeOK, WorkflowRows, LifecycleAssumption
    <2>4. wf.state = "LIVE" =>
            wf.failures <= Cardinality(CountedJobs) /\ (wf.failures >= MaxFailures => wf.terminated)
      BY DEF FailInv, FailuresCountedOnce, CountedJobs
    <2>5. wf'.state = "LIVE" =>
            wf'.failures <= Cardinality(CountedJobs') /\ (wf'.failures >= MaxFailures => wf'.terminated)
      BY <2>2, <2>3, <2>4 DEF FailuresKept
    <2> QED
      BY <2>5 DEF FailuresCountedOnce, CountedJobs
  <1> QED
    BY <1>1, <1>2, <1>3, <1>4, <1>5 DEF FailInv

LEMMA OtherEventsTrue ==
    ASSUME NEW e, LogExtends(e), NEW s, TrueEvent(e, s)
    PROVE  \A i \in 1..Len(log') : \/ i \in 1..Len(log) /\ log'[i] = log[i]
                                   \/ TrueEvent(log'[i], s)
  BY DEF LogExtends

LEMMA WorkflowEventsTrue ==
    ASSUME NEW a \in Actions \cup {"DELETE"}, NEW g, NEW s
    PROVE  TrueEvent(Event(a, g), s)
  BY DEF TrueEvent, Event, Actions

LEMMA UserFailures ==
    ASSUME BaseInv, LifecycleAssumption, FailInv,
           \/ \E kind \in Kinds : CreateWorkflow(kind)
           \/ \E h, i \in BOOLEAN : UpdateWorkflow(h, i)
           \/ TerminateWorkflow \/ ScheduleManualJob
    PROVE  FailuresKept
  <1>0. JobsOK /\ RowOK /\ RestOK /\ wf \in WorkflowRows
    BY BaseParts DEF RowOK
  <1>1. ASSUME NEW kind \in Kinds, CreateWorkflow(kind)
        PROVE  FailuresKept
    <2>1. /\ wf.state = "ABSENT" /\ wf' = [wf EXCEPT !.state = "LIVE", !.kind = kind, !.generation = 1]
          /\ UNCHANGED <<status, effect>>
      BY <1>1 DEF CreateWorkflow, jobVars
    <2>2. wf'.state = "LIVE" /\ wf'.failures = wf.failures /\ wf.failures = 0
      BY <1>0, <2>1, Zenon DEF WorkflowRows, FailInv
    <2>3. LogExtends(Event("BUILD", 1)) /\ TrueEvent(Event("BUILD", 1), status')
      BY <1>1, CreateBase, WorkflowEventsTrue DEF Actions
    <2> QED
      BY <2>1, <2>2, <2>3, OtherEventsTrue DEF FailuresKept
  <1>2. ASSUME NEW h \in BOOLEAN, NEW i \in BOOLEAN, UpdateWorkflow(h, i)
        PROVE  FailuresKept
    <2>1. PICK interval \in {0, 1} :
              /\ wf.state = "LIVE"
              /\ \/ /\ UpdateRow(FALSE, FALSE, interval)
                    /\ UNCHANGED <<status, log>>
                 \/ \E resched \in BOOLEAN : UpdateRow(resched, TRUE, interval) /\ Restarts(resched)
              /\ commands' \in Nat
              /\ UNCHANGED <<origin, jobGen, root, dispatched, attempts, stage, canceled, effect,
                             workerVars, deleting, faults>>
      BY <1>2, UpdateSteps
    <2>2. CASE UpdateRow(FALSE, FALSE, interval) /\ UNCHANGED <<status, log>>
      <3>1. wf'.state = "LIVE" /\ wf'.failures = 0
        BY <2>1, <2>2, UpdatedRow
      <3> QED
        BY <2>1, <2>2, <3>1 DEF FailuresKept
    <2>3. ASSUME NEW resched \in BOOLEAN, UpdateRow(resched, TRUE, interval), Restarts(resched)
          PROVE  FailuresKept
      <3>1. wf'.state = "LIVE" /\ wf'.failures = 0
        BY <2>1, <2>3, UpdatedRow
      <3>2. \A j \in Jobs : \/ status'[j] = status[j]
                            \/ status[j] \in {"PENDING", "QUEUED"} /\ status'[j] = "CANCELED"
        BY <1>0, <2>3, StaleCanceled DEF Restarts
      <3> DEFINE a == IF resched THEN "RESCHEDULE" ELSE "BUILD"
                 e == Event(a, wf.generation + 1)
      <3>3. e \in Events /\ log \in Seq(Events) /\ a \in Actions \cup {"DELETE"}
        BY <1>0, EventsAreEvents DEF RowOK, WorkflowRows, Actions
      <3>4. LogExtends(e)
        BY <2>3, <3>3, OutboxGrows DEF Restarts
      <3>5. TrueEvent(e, status')
        <4> HIDE DEF a
        <4> QED
          BY <3>3, WorkflowEventsTrue
      <3>6. \A k \in 1..Len(log') : \/ k \in 1..Len(log) /\ log'[k] = log[k]
                                    \/ TrueEvent(log'[k], status')
        <4> HIDE DEF e
        <4> QED
          BY <3>4, <3>5, OtherEventsTrue
      <3> QED
        BY <2>1, <3>1, <3>2, <3>6 DEF FailuresKept
    <2> QED
      BY <2>1, <2>2, <2>3
  <1>3. CASE TerminateWorkflow
    <2>1. /\ wf' = [wf EXCEPT !.terminated = TRUE] /\ UNCHANGED <<status, effect>>
      BY <1>3 DEF TerminateWorkflow, jobVars
    <2>2. wf'.state = wf.state /\ wf'.failures = wf.failures /\ wf'.terminated
      BY <1>0, <2>1, Zenon DEF WorkflowRows
    <2>3. /\ LogExtends(Event("TERMINATE", wf.generation))
          /\ TrueEvent(Event("TERMINATE", wf.generation), status')
      BY <1>3, TerminateBase, WorkflowEventsTrue DEF Actions
    <2> QED
      BY <2>1, <2>2, <2>3, OtherEventsTrue DEF FailuresKept
  <1>4. CASE ScheduleManualJob
    <2>1. UNCHANGED <<wf, log, effect>> /\ \E j \in Jobs, n \in Nat : Inserts(j, <<"MANUAL", n, 0>>, 0)
      BY <1>4, ManualSteps
    <2> QED
      BY <1>0, <2>1 DEF FailuresKept, Inserts, JobsOK
  <1> QED
    BY <1>1, <1>2, <1>3, <1>4

LEMMA JobFailures ==
    ASSUME BaseInv, LifecycleAssumption, NEW j \in Jobs, Dispatch(j) \/ Execution(j)
    PROVE  FailuresKept
  <1>0. JobsOK
    BY BaseParts
  <1>1. CASE Dispatch(j) \/ Claim(j) \/ deferBlockedJob(j)
    BY <1>0, <1>1 DEF Dispatch, Claim, deferBlockedJob, FailuresKept, JobsOK
  <1>2. CASE GoesOn(j)
    BY <1>2 DEF GoesOn, FailuresKept
  <1>3. CASE scheduleNextAutomaticJob(j)
    <2>1. /\ Schedules(NextKey(j), dispatched[j])
          /\ UNCHANGED <<wf, dispatched, attempts, canceled, effect, log>>
      BY <1>3, NextScheduled
    <2>2. UNCHANGED status \/ \E k \in Jobs : Inserts(k, NextKey(j), dispatched[j])
      BY <2>1 DEF Schedules
    <2> QED
      BY <1>0, <2>1, <2>2 DEF FailuresKept, Inserts, JobsOK
  <1>4. ASSUME NEW new \in {"COMPLETED", "FAILED", "CANCELED", "PENDING"}, Leaves(j, new)
        PROVE  FailuresKept
    <2>1. /\ status[j] = "RUNNING" /\ status' = [status EXCEPT ![j] = new]
          /\ UNCHANGED <<wf, effect>>
      BY <1>4 DEF Leaves, Leave
    <2>2. /\ \A k \in Jobs : status[k] \in {"FAILED", "DELETED"} => status'[k] = status[k]
          /\ \A k \in Jobs : status'[k] = "DELETED" => status[k] = "DELETED"
      BY <1>0, <2>1 DEF JobsOK
    <2>3. CASE UNCHANGED log
      BY <2>1, <2>2, <2>3 DEF FailuresKept
    <2>4. CASE new \in {"COMPLETED", "FAILED"} /\ LogExtends(JobEvent(new, j))
      <3>1. TrueEvent(JobEvent(new, j), status')
        BY <1>0, <2>1 DEF TrueEvent, JobEvent, JobsOK
      <3> QED
        BY <2>1, <2>2, <2>4, <3>1, OtherEventsTrue DEF FailuresKept
    <2> QED
      BY <1>4, <2>3, <2>4, LeavesBase
  <1> QED
    BY <1>1, <1>2, <1>3, <1>4, ExecutionSteps

LEMMA WorkerFailures ==
    ASSUME BaseInv, LifecycleAssumption, NEW w \in Workers,
           WorkerOnly(w) \/ CancelJob(w) \/ BuildStep(w) \/ scheduleAutomaticJob(w)
    PROVE  FailuresKept
  <1>0. JobsOK
    BY BaseParts
  <1>1. CASE WorkerOnly(w)
    BY <1>1, WorkerOnlyBase DEF FailuresKept, jobVars
  <1>2. CASE CancelJob(w)
    <2>1. UNCHANGED <<wf, log>>
      BY <1>2, CancelJobBase
    <2>2. /\ UNCHANGED effect
          /\ \/ UNCHANGED status
             \/ \E j \in Jobs : status[j] \in Active /\ status' = [status EXCEPT ![j] = "CANCELED"]
      BY <1>2 DEF CancelJob, BaseInv, TypeOK, HandlerStates
    <2> QED
      BY <1>0, <2>1, <2>2 DEF FailuresKept, JobsOK, Active
  <1>3. CASE BuildStep(w)
    <2>1. UNCHANGED <<status, effect, log>> /\ wf \in WorkflowRows
      BY <1>3, BuildStepRow DEF jobVars, BaseInv, TypeOK
    <2>2. UNCHANGED wf \/ \E new \in {"STARTED", "FAILED", "COMPLETED"} : wf' = [wf EXCEPT !.build = new]
      BY <1>3, BuildStepRow
    <2>3. wf'.state = wf.state /\ wf'.failures = wf.failures /\ wf'.terminated = wf.terminated
      BY <2>1, <2>2, Zenon DEF WorkflowRows
    <2> QED
      BY <2>1, <2>3 DEF FailuresKept
  <1>4. CASE scheduleAutomaticJob(w)
    <2>1. /\ Schedules(ScheduleKey(Ev(w)), Ev(w).generation) /\ UNCHANGED <<wf, effect, log>>
      BY <1>4, ScheduleStep
    <2>2. UNCHANGED status \/ \E k \in Jobs : Inserts(k, ScheduleKey(Ev(w)), Ev(w).generation)
      BY <2>1 DEF Schedules
    <2> QED
      BY <1>0, <2>1, <2>2 DEF FailuresKept, Inserts, JobsOK
  <1> QED
    BY <1>1, <1>2, <1>3, <1>4

\* A counted failure is the failure of one more job.
LEMMA FailureCounted ==
    ASSUME BaseInv, LifecycleAssumption, NEW e, e.job \in Jobs, status[e.job] = "FAILED",
           wf.state = "LIVE", ~Counted(e.job), IncrementFailures(e.job), UNCHANGED status,
           FailuresCountedOnce
    PROVE  /\ FailuresCountedOnce' /\ wf'.state = "LIVE"
           /\ effect' = [effect EXCEPT ![e.job] = "FAILED"]
  <1>0. /\ wf \in WorkflowRows /\ wf.failures \in Nat /\ MaxFailures \in Nat \ {0}
        /\ effect \in [Jobs -> {"none", "COMPLETED", "FAILED"}] /\ effect[e.job] = "none"
    BY DEF BaseInv, TypeOK, WorkflowRows, LifecycleAssumption, Counted
  <1>1. effect' = [effect EXCEPT ![e.job] = "FAILED"]
    BY DEF IncrementFailures
  <1>2. Cardinality(CountedJobs') = Cardinality(CountedJobs) + 1
    <2>1. CountedJobs' = CountedJobs \cup {e.job} /\ e.job \notin CountedJobs
      BY <1>0, <1>1 DEF CountedJobs
    <2> QED
      BY <2>1, CountedFinite, FS_AddElement
  <1>3. /\ wf.failures <= Cardinality(CountedJobs) /\ (wf.failures >= MaxFailures => wf.terminated)
        /\ Cardinality(CountedJobs) \in Nat
    BY CountedFinite DEF FailuresCountedOnce, CountedJobs
  <1>4. CASE wf.terminated
    <2>1. UNCHANGED wf
      BY <1>4, Zenon DEF IncrementFailures
    <2>2. wf'.failures <= Cardinality(CountedJobs') /\ wf'.terminated
      BY <1>0, <1>2, <1>3, <1>4, <2>1
    <2> QED
      BY <1>1, <2>1, <2>2 DEF FailuresCountedOnce, CountedJobs
  <1>5. CASE ~wf.terminated
    <2> DEFINE reached == wf.failures + 1 >= MaxFailures
    <2>1. wf' = [wf EXCEPT !.failures = wf.failures + 1, !.terminated = reached]
      BY <1>5, Zenon DEF IncrementFailures
    <2>2. /\ wf'.failures = wf.failures + 1 /\ (wf'.terminated <=> reached) /\ wf'.state = "LIVE"
      <3> HIDE DEF reached
      <3> QED
        BY <1>0, <2>1, Zenon DEF WorkflowRows
    <2>3. wf'.failures <= Cardinality(CountedJobs') /\ (wf'.failures >= MaxFailures => wf'.terminated)
      BY <1>0, <1>2, <1>3, <2>2
    <2> QED
      BY <1>1, <2>2, <2>3 DEF FailuresCountedOnce, CountedJobs
  <1> QED
    BY <1>4, <1>5

LEMMA CountFailures ==
    ASSUME BaseInv, LifecycleAssumption, FailInv, NEW w \in Workers, HandleTerminalJob(w)
    PROVE  FailInv'
  <1> DEFINE e == Ev(w)
  <1>0. BaseInv'
    BY CountBase
  <1>1. /\ e.action \in {"COMPLETED", "FAILED"} /\ e \in Events /\ Counts(e)
        /\ \E i \in 1..Len(log) : log[i] = e
        /\ UNCHANGED status
    BY CountStep
  <1> HIDE DEF e
  <1>2. e.job \in Jobs /\ (e.action = "FAILED" => status[e.job] \in {"FAILED", "DELETED"})
    <2>1. TrueEvent(e, status)
      BY <1>1 DEF FailInv
    <2> QED
      BY <1>1, <2>1 DEF TrueEvent
  <1>3. \A i \in 1..Len(log') : TrueEvent(log'[i], status')
    <2>1. CASE UNCHANGED log
      BY <1>1, <2>1 DEF FailInv
    <2>2. CASE LogExtends(Event("TERMINATE", wf.generation))
      <3>1. TrueEvent(Event("TERMINATE", wf.generation), status')
        BY WorkflowEventsTrue DEF Actions
      <3>2. \A i \in 1..Len(log') : \/ i \in 1..Len(log) /\ log'[i] = log[i]
                                    \/ TrueEvent(log'[i], status')
        BY <2>2, <3>1, OtherEventsTrue
      <3> QED
        BY <1>1, <3>2 DEF FailInv
    <2> QED
      BY <1>1, <2>1, <2>2, CountRow
  <1>4. CASE UNCHANGED <<wf, effect, log>>
    BY <1>0, <1>1, <1>4, FailKeeps DEF FailuresKept
  <1>5. CASE e.action = "FAILED" /\ wf.state = "LIVE" /\ ~Counted(e.job) /\ IncrementFailures(e.job)
    <2>1. status[e.job] = "FAILED"
      BY <1>2, <1>5 DEF FailInv
    <2>2. /\ FailuresCountedOnce' /\ wf'.state = "LIVE"
          /\ effect' = [effect EXCEPT ![e.job] = "FAILED"]
      BY <1>1, <1>2, <1>5, <2>1, FailureCounted DEF FailInv
    <2>3. \A j \in Jobs : effect'[j] = "FAILED" => status'[j] = "FAILED"
      BY <1>1, <2>1, <2>2 DEF FailInv, BaseInv, TypeOK
    <2> QED
      BY <1>1, <1>3, <1>5, <2>2, <2>3 DEF FailInv
  <1>6. CASE /\ e.action = "COMPLETED" /\ wf.state = "LIVE" /\ ~Counted(e.job)
             /\ resetWorkflowFailureCount(e.job)
    <2>1. effect' = [effect EXCEPT ![e.job] = "COMPLETED"] /\ effect[e.job] = "none"
          /\ effect \in [Jobs -> {"none", "COMPLETED", "FAILED"}] /\ wf \in WorkflowRows
      BY <1>2, <1>6 DEF resetWorkflowFailureCount, Counted, BaseInv, TypeOK
    <2>2. CountedJobs' = CountedJobs
      BY <1>1, <2>1 DEF CountedJobs
    <2>3. wf' = wf \/ (~wf.terminated /\ wf' = [wf EXCEPT !.failures = 0])
      BY <1>6, Zenon DEF resetWorkflowFailureCount
    <2>4. /\ wf'.state = "LIVE" /\ (wf'.terminated <=> wf.terminated)
          /\ wf'.failures = wf.failures \/ wf'.failures = 0
      BY <1>6, <2>1, <2>3, Zenon DEF WorkflowRows
    <2>5. FailuresCountedOnce'
      <3>1. /\ Cardinality(CountedJobs') = Cardinality(CountedJobs)
            /\ Cardinality(CountedJobs) \in Nat /\ MaxFailures \in Nat \ {0}
        BY <2>2, CountedFinite DEF LifecycleAssumption
      <3>2. wf.failures <= Cardinality(CountedJobs) /\ (wf.failures >= MaxFailures => wf.terminated)
        BY <1>6 DEF FailInv, FailuresCountedOnce, CountedJobs
      <3>3. wf'.failures <= Cardinality(CountedJobs') /\ (wf'.failures >= MaxFailures => wf'.terminated)
        BY <2>4, <3>1, <3>2
      <3> QED
        BY <3>3 DEF FailuresCountedOnce, CountedJobs
    <2>6. \A j \in Jobs : effect'[j] = "FAILED" => status'[j] = "FAILED"
      BY <1>1, <2>1 DEF FailInv
    <2> QED
      BY <1>1, <1>3, <1>6, <2>4, <2>5, <2>6 DEF FailInv
  <1> QED
    BY <1>1, <1>4, <1>5, <1>6 DEF Counts

LEMMA DeleteFailures ==
    ASSUME BaseInv, LifecycleAssumption, FailInv,
           DeleteReadsWorkflow \/ DeleteReadsJobs \/ DeleteWorkflow
    PROVE  FailInv'
  <1>1. CASE UNCHANGED <<wf, jobVars, log>>
    BY <1>1, FailKeeps, DeleteSteps DEF FailuresKept, jobVars
  <1>2. CASE Deletes /\ LogExtends(Event("DELETE", 0))
    <2>1. wf'.state = "DELETED"
      BY <1>2, Zenon DEF Deletes, BaseInv, TypeOK, WorkflowRows
    <2>2. \A j \in Jobs : effect'[j] = "none"
      BY <1>2 DEF Deletes
    <2>3. \A e : TrueEvent(e, status) => TrueEvent(e, status')
      BY <1>2 DEF TrueEvent, Deletes
    <2>4. \A i \in 1..Len(log') : \/ i \in 1..Len(log) /\ log'[i] = log[i]
                                  \/ TrueEvent(log'[i], status')
      BY <1>2, OtherEventsTrue, WorkflowEventsTrue
    <2>5. \A i \in 1..Len(log') : TrueEvent(log'[i], status')
      BY <2>3, <2>4 DEF FailInv
    <2> QED
      BY <2>1, <2>2, <2>5 DEF FailInv, FailuresCountedOnce
  <1> QED
    BY <1>1, <1>2, DeleteSteps

LEMMA InitFailures ==
    ASSUME LifecycleAssumption, Init
    PROVE  FailInv
  BY DEF Init, FailInv, FailuresCountedOnce

LEMMA NextFailures ==
    ASSUME BaseInv, LifecycleAssumption, FailInv, [Next]_vars
    PROVE  FailInv'
  <1>0. BaseInv'
    BY NextBase
  <1>1. CASE FailuresKept
    BY <1>0, <1>1, FailKeeps
  <1>2. CASE UNCHANGED <<wf, jobVars, log>>
    BY <1>0, <1>2, FailKeeps DEF FailuresKept, jobVars
  <1>3. ASSUME NEW a \in Actions, LockExpires(a) PROVE FailInv'
    BY <1>2, <1>3, LockExpiresBase
  <1>4. CASE Next
    BY <1>1, <1>3, <1>4, StepKinds, UserFailures, JobFailures, WorkerFailures, CountFailures,
       DeleteFailures
  <1>5. CASE UNCHANGED vars
    BY <1>2, <1>5 DEF vars
  <1> QED
    BY <1>4, <1>5

\* The failures that a workflow counts are failures of distinct jobs, whatever
\* is redelivered, retried or delivered to two handlers at once, and the
\* workflow is terminated when they reach its limit (workflows.go:555).
THEOREM FailuresAreCountedOnce ==
    ASSUME LifecycleAssumption
    PROVE  Spec => []FailuresCountedOnce
  <1>1. Init => BaseInv /\ FailInv
    BY InitBase, InitFailures
  <1>2. BaseInv /\ FailInv /\ [Next]_vars => BaseInv' /\ FailInv'
    BY NextBase, NextFailures
  <1>3. FailInv => FailuresCountedOnce
    BY DEF FailInv
  <1> QED
    BY <1>1, <1>2, <1>3, PTL DEF Spec

-----------------------------------------------------------------------------
(* One chain of automatic jobs. *)

RootEvent(e) == e.action \in {"BUILD", "RESCHEDULE"}
Root(j) == origin[j][1] \in {"BUILD", "RESCHEDULE"}
Waiting == {"PENDING", "QUEUED"}

\* A generation is announced by one event, and nothing happens before the
\* workflow is created.
EventsInv ==
    /\ wf.state = "ABSENT" =>
          log = <<>> /\ deleting = "no" /\ wf.generation = 0 /\ \A j \in Jobs : status[j] = "NONE"
    /\ \A i \in 1..Len(log) : RootEvent(log[i]) => log[i].generation <= wf.generation
    /\ \A i, k \in 1..Len(log) :
          RootEvent(log[i]) /\ RootEvent(log[k]) /\ log[i].generation = log[k].generation
              => log[i].action = log[k].action

\* Where a job comes from: a chain starts with a job that an event scheduled,
\* and only a job that has been executed has a follow-up.
Lineage(j) ==
    /\ status[j] = "NONE" <=> origin[j][1] = "NONE"
    /\ Root(j) => \E i \in 1..Len(log) :
          RootEvent(log[i]) /\ origin[j] = ScheduleKey(log[i]) /\ root[j] = log[i].generation
    /\ Automatic(j) => \E r \in Jobs : Root(r) /\ root[r] = root[j]
    /\ dispatched[j] <= wf.generation
    /\ status[j] = "NONE" => attempts[j] = 0
    /\ status[j] = "RUNNING" => attempts[j] >= 1
    /\ stage[j] = "loaded" => Automatic(j)
    /\ \A k \in Jobs : FollowsDirectly(k, j) => attempts[j] >= 1

\* One job runs; before the build of a generation is complete it is the only
\* active one, so a change of the interval finds no other chain to fork.
RunsAlone == \A j, k \in Jobs : status[j] = "RUNNING" /\ status[k] = "RUNNING" => j = k
OneUnbuilt ==
    wf.build # "COMPLETED" =>
        \A j, k \in Jobs : status[j] \in Active /\ status[k] \in Active => j = k

OneEnd == \A j, k \in Ends : root[j] = root[k] => j = k
OthersOvertaken == \A j \in Chain : root[j] # wf.generation => Leftover(j)
OneOvertaken == \A j, k \in Chain : wf.generation \notin {root[j], root[k]} => root[j] = root[k]

ChainInv == RunsAlone /\ OneUnbuilt /\ OneEnd /\ OthersOvertaken /\ OneOvertaken

OriginInv == EventsInv /\ (\A j \in Jobs : Lineage(j)) /\ ChainInv

LEMMA OriginChain ==
    ASSUME BaseInv, OriginInv
    PROVE  OneChain
  <1>1. ASSUME NEW j \in Chain, j \notin Ends
        PROVE  attempts[j] > 0
    <2>1. PICK k \in Jobs : origin[k] = NextKey(j)
      BY <1>1 DEF Ends, Recorded
    <2>2. FollowsDirectly(k, j)
      BY <2>1 DEF FollowsDirectly, NextKey
    <2>3. j \in Jobs /\ attempts[j] \in Nat
      BY DEF Chain, BaseInv, TypeOK
    <2> QED
      BY <2>2, <2>3 DEF OriginInv, Lineage
  <1> QED
    BY <1>1 DEF OriginInv, ChainInv, OneEnd, OthersOvertaken, OneOvertaken, OneChain

\* A step that starts no generation.
NoNewGeneration ==
    /\ wf'.generation = wf.generation
    /\ \A i \in 1..Len(log') : (i \in 1..Len(log) /\ log'[i] = log[i]) \/ ~RootEvent(log'[i])
    /\ wf'.state = "ABSENT" => wf.state = "ABSENT" /\ UNCHANGED <<log, deleting, status>>

LEMMA EventsKeep ==
    ASSUME EventsInv, NoNewGeneration
    PROVE  EventsInv'
  <1>1. wf'.state = "ABSENT" =>
           log' = <<>> /\ deleting' = "no" /\ wf'.generation = 0 /\ \A j \in Jobs : status'[j] = "NONE"
    BY DEF EventsInv, NoNewGeneration
  <1>2. \A i \in 1..Len(log') : RootEvent(log'[i]) => i \in 1..Len(log) /\ log'[i] = log[i]
    BY DEF NoNewGeneration
  <1>3. \A i \in 1..Len(log') : RootEvent(log'[i]) => log'[i].generation <= wf'.generation
    BY <1>2 DEF EventsInv, NoNewGeneration
  <1>4. \A i, k \in 1..Len(log') :
          RootEvent(log'[i]) /\ RootEvent(log'[k]) /\ log'[i].generation = log'[k].generation
              => log'[i].action = log'[k].action
    <2> SUFFICES ASSUME NEW i \in 1..Len(log'), NEW k \in 1..Len(log'),
                        RootEvent(log'[i]), RootEvent(log'[k]), log'[i].generation = log'[k].generation
                 PROVE  log'[i].action = log'[k].action
      OBVIOUS
    <2>1. i \in 1..Len(log) /\ log'[i] = log[i] /\ k \in 1..Len(log) /\ log'[k] = log[k]
      BY <1>2
    <2> QED
      BY <2>1 DEF EventsInv
  <1> QED
    BY <1>1, <1>3, <1>4 DEF EventsInv

\* A generation starts with the event that announces it.
LEMMA EventsStart ==
    ASSUME EventsInv, BaseInv, NEW e, RootEvent(e), LogExtends(e), e.generation = wf.generation + 1,
           wf'.generation = wf.generation + 1, wf'.state # "ABSENT"
    PROVE  EventsInv'
  <1>0. wf.generation \in Nat
    BY DEF BaseInv, TypeOK, WorkflowRows
  <1>1. \A i \in 1..Len(log') :
           \/ log'[i] = e
           \/ i \in 1..Len(log) /\ log'[i] = log[i]
    BY DEF LogExtends
  <1>2. \A i \in 1..Len(log) : RootEvent(log[i]) => log[i].generation \in Nat /\ log[i].generation <= wf.generation
    <2>1. ASSUME NEW i \in 1..Len(log) PROVE log[i] \in Events
      BY DEF BaseInv, TypeOK
    <2>2. \A x \in Events : x.generation \in Nat
      BY DEF Events
    <2> QED
      BY <2>1, <2>2 DEF EventsInv
  <1>3. \A i \in 1..Len(log') : RootEvent(log'[i]) => log'[i].generation <= wf'.generation
    BY <1>0, <1>1, <1>2
  <1>4. ASSUME NEW i \in 1..Len(log'), NEW k \in 1..Len(log'),
               RootEvent(log'[i]), RootEvent(log'[k]), log'[i].generation = log'[k].generation
        PROVE  log'[i].action = log'[k].action
    <2>1. CASE log'[i] = e /\ log'[k] = e
      BY <2>1
    <2>2. CASE log'[i] # e /\ log'[k] = e
      BY <1>0, <1>1, <1>2, <1>4, <2>2
    <2>3. CASE log'[i] = e /\ log'[k] # e
      BY <1>0, <1>1, <1>2, <1>4, <2>3
    <2>4. CASE log'[i] # e /\ log'[k] # e
      <3>1. i \in 1..Len(log) /\ log'[i] = log[i] /\ k \in 1..Len(log) /\ log'[k] = log[k]
        BY <1>1, <2>4
      <3> QED
        BY <1>4, <3>1 DEF EventsInv
    <2> QED
      BY <2>1, <2>2, <2>3, <2>4
  <1> QED
    BY <1>3, <1>4 DEF EventsInv

-----------------------------------------------------------------------------
\* A step in which jobs move and none is inserted.
JobMovesOn(j) ==
    /\ status'[j] = "NONE" <=> status[j] = "NONE"
    /\ status'[j] \in Active => status[j] \in Active
    /\ status'[j] \in Waiting => status[j] \in Waiting \/ attempts[j] > 0
    /\ status'[j] = "RUNNING" => \/ status[j] = "RUNNING" /\ dispatched'[j] = dispatched[j]
                                 \/ attempts'[j] = attempts[j] + 1
    /\ attempts'[j] = attempts[j] \/ (status'[j] = "RUNNING" /\ attempts'[j] = attempts[j] + 1)
    /\ dispatched'[j] \in {dispatched[j], wf.generation}
    /\ stage'[j] = "loaded" => \/ stage[j] = "loaded"
                               \/ origin[j][1] # "MANUAL" /\ status[j] = "RUNNING"

\* The interval changes without a new generation only while the build is open.
RowStays ==
    /\ wf'.build = "COMPLETED" \/ wf.build # "COMPLETED"
    /\ wf'.interval = wf.interval \/ wf.build # "COMPLETED"

JobsMove ==
    /\ NoNewGeneration /\ RowStays /\ UNCHANGED <<origin, root>>
    /\ Len(log') >= Len(log) /\ \A i \in 1..Len(log) : log'[i] = log[i]
    /\ \A j \in Jobs : JobMovesOn(j)
    /\ RunsAlone'

LEMMA MoveLineage ==
    ASSUME BaseInv, BaseInv', OriginInv, JobsMove, NEW j \in Jobs
    PROVE  Lineage(j)'
  <1>0. /\ Lineage(j) /\ Len(log) \in Nat /\ Len(log') \in Nat /\ JobMovesOn(j)
        /\ origin[j][1] \in {"NONE", "MANUAL", "NEXT", "BUILD", "RESCHEDULE"}
        /\ attempts[j] \in Nat /\ dispatched[j] \in Nat /\ wf.generation \in Nat
        /\ wf'.generation = wf.generation /\ UNCHANGED <<origin, root>>
    BY SMTT(30) DEF OriginInv, BaseInv, TypeOK, Keys, JobsMove, NoNewGeneration, WorkflowRows
  <1>1. \A r \in Jobs : (Root(r)' <=> Root(r)) /\ (Automatic(r)' <=> Automatic(r))
    BY <1>0 DEF Root, Automatic
  <1>2. Root(j)' => \E i \in 1..Len(log') :
            RootEvent(log'[i]) /\ origin'[j] = ScheduleKey(log'[i]) /\ root'[j] = log'[i].generation
    <2> SUFFICES ASSUME Root(j)
                 PROVE  \E i \in 1..Len(log') : RootEvent(log'[i]) /\ origin[j] = ScheduleKey(log'[i])
                                                /\ root[j] = log'[i].generation
      BY <1>0, <1>1
    <2>1. PICK i \in 1..Len(log) : RootEvent(log[i]) /\ origin[j] = ScheduleKey(log[i])
                                                     /\ root[j] = log[i].generation
      BY <1>0 DEF Lineage
    <2>2. log'[i] = log[i] /\ i \in 1..Len(log')
      BY <1>0 DEF JobsMove
    <2> QED
      BY <2>1, <2>2
  <1>3. Automatic(j)' => \E r \in Jobs : Root(r)' /\ root'[r] = root'[j]
    BY <1>0, <1>1 DEF Lineage
  <1>4. dispatched'[j] <= wf'.generation
    BY <1>0 DEF Lineage, JobMovesOn
  <1>5. /\ status'[j] = "NONE" => attempts'[j] = 0
        /\ status'[j] = "RUNNING" => attempts'[j] >= 1
        /\ attempts'[j] \in {attempts[j], attempts[j] + 1}
    BY <1>0 DEF Lineage, JobMovesOn
  <1>6. stage'[j] = "loaded" => Automatic(j)'
    BY <1>0, <1>1 DEF Lineage, JobMovesOn, Automatic
  <1>7. \A k \in Jobs : FollowsDirectly(k, j)' => attempts'[j] >= 1
    <2>1. \A k \in Jobs : FollowsDirectly(k, j)' => attempts[j] >= 1
      BY <1>0 DEF Lineage, FollowsDirectly
    <2> QED
      BY <1>0, <1>5, <2>1
  <1>8. status'[j] = "NONE" <=> origin'[j][1] = "NONE"
    BY <1>0 DEF Lineage, JobMovesOn
  <1> QED
    BY <1>2, <1>3, <1>4, <1>5, <1>6, <1>7, <1>8 DEF Lineage

LEMMA MoveChain ==
    ASSUME BaseInv, OriginInv, JobsMove
    PROVE  ChainInv'
  <1>0. /\ wf'.generation = wf.generation /\ UNCHANGED <<origin, root>>
        /\ \A j \in Jobs : Lineage(j) /\ JobMovesOn(j) /\ attempts[j] \in Nat
        /\ \A j \in Jobs : status'[j] \in Active => status[j] \in Active
    BY DEF JobsMove, NoNewGeneration, OriginInv, BaseInv, TypeOK, JobMovesOn
  <1>1. \A j \in Chain' : j \in Chain /\ j \in Jobs /\ status'[j] \in Active
    BY <1>0 DEF Chain, Automatic
  <1>2. OneUnbuilt'
    BY <1>0 DEF OriginInv, ChainInv, OneUnbuilt, JobsMove, RowStays
  <1>3. OneEnd'
    <2> SUFFICES ASSUME NEW j \in Ends', NEW k \in Ends', root[j] = root[k] PROVE j = k
      BY <1>0 DEF OneEnd
    <2>0. j \in Chain' /\ k \in Chain'
      BY DEF Ends
    <2>1. CASE wf'.interval = wf.interval
      <3>1. \A i \in {j, k} : Recorded(NextKey(i))' = Recorded(NextKey(i))
        BY <1>0, <2>1 DEF Recorded, NextKey
      <3>2. j \in Ends /\ k \in Ends
        BY <1>1, <2>0, <3>1 DEF Ends
      <3> QED
        BY <3>2 DEF OriginInv, ChainInv, OneEnd
    <2>2. CASE wf.build # "COMPLETED"
      <3>1. status[j] \in Active /\ status[k] \in Active /\ j \in Jobs /\ k \in Jobs
        BY <1>1, <2>0 DEF Chain
      <3> QED
        BY <2>2, <3>1 DEF OriginInv, ChainInv, OneUnbuilt
    <2> QED
      BY <2>1, <2>2 DEF JobsMove, RowStays
  <1>4. OthersOvertaken'
    <2> SUFFICES ASSUME NEW j \in Chain', root[j] # wf.generation PROVE Leftover(j)'
      BY <1>0 DEF OthersOvertaken
    <2>0. Leftover(j) /\ j \in Jobs /\ status'[j] \in Active
      BY <1>1 DEF OriginInv, ChainInv, OthersOvertaken
    <2>1. Lineage(j) /\ JobMovesOn(j) /\ attempts[j] \in Nat
      BY <1>0, <2>0
    <2>2. CASE \E k \in Jobs : root[k] = root[j] /\ attempts[k] > 1
      <3>1. PICK k \in Jobs : root[k] = root[j] /\ attempts[k] > 1
        BY <2>2
      <3>2. attempts'[k] > 1
        BY <1>0, <3>1 DEF JobMovesOn
      <3> QED
        BY <1>0, <3>1, <3>2 DEF Leftover
    <2>3. CASE status'[j] \in Waiting
      <3>1. attempts[j] > 0 \/ \E k \in Jobs : root[k] = root[j] /\ attempts[k] > 1
        BY <2>0, <2>1, <2>3 DEF Leftover, JobMovesOn, Waiting
      <3>2. CASE attempts[j] > 0
        <4>1. attempts'[j] > 0 /\ status'[j] # "RUNNING"
          BY <2>1, <2>3, <3>2 DEF JobMovesOn, Waiting
        <4> QED
          BY <4>1 DEF Leftover
      <3> QED
        BY <2>2, <3>1, <3>2
    <2>4. CASE status'[j] = "RUNNING" /\ status[j] = "RUNNING" /\ dispatched'[j] = dispatched[j]
      BY <1>0, <2>0, <2>2, <2>4 DEF Leftover
    <2>5. CASE status'[j] = "RUNNING" /\ attempts'[j] = attempts[j] + 1
      <3>1. attempts[j] > 0 \/ \E k \in Jobs : root[k] = root[j] /\ attempts[k] > 1
        BY <2>0, <2>1 DEF Leftover, Lineage
      <3>2. CASE attempts[j] > 0
        <4>1. attempts'[j] > 1
          BY <2>1, <2>5, <3>2
        <4> QED
          BY <2>0, <4>1 DEF Leftover
      <3> QED
        BY <2>2, <3>1, <3>2
    <2> QED
      BY <2>0, <2>1, <2>3, <2>4, <2>5 DEF JobMovesOn, Active, Waiting
  <1>5. OneOvertaken'
    BY <1>0, <1>1 DEF OriginInv, ChainInv, OneOvertaken
  <1> QED
    BY <1>2, <1>3, <1>4, <1>5 DEF ChainInv, JobsMove

LEMMA MoveKeeps ==
    ASSUME BaseInv, BaseInv', OriginInv, JobsMove
    PROVE  OriginInv'
  <1>1. EventsInv'
    BY EventsKeep DEF JobsMove, OriginInv
  <1> QED
    BY <1>1, MoveLineage, MoveChain DEF OriginInv

\* A job is inserted: the root of a generation that has none yet, or the
\* follow-up of the running job.
Follows(key, p) ==
    /\ key = NextKey(p) /\ Automatic(p) /\ status[p] = "RUNNING" /\ Recorded(key) = {}
    /\ dispatched[p] = wf.generation

InsertsWell(n, key, g) ==
    /\ Inserts(n, key, g) /\ key[1] # "NONE"
    /\ UNCHANGED <<wf, log, deleting, dispatched, attempts>>
    /\ wf.state = "LIVE" /\ wf.build = "COMPLETED"
    /\ \A j \in Jobs : stage'[j] = stage[j] \/ (stage[j] = "loaded" /\ stage'[j] = "scheduled")
    /\ key[1] \in {"BUILD", "RESCHEDULE"} =>
          /\ g = wf.generation
          /\ \E i \in 1..Len(log) :
                RootEvent(log[i]) /\ key = ScheduleKey(log[i]) /\ g = log[i].generation
          /\ \A r \in Jobs : ~(Root(r) /\ root[r] = g)
    /\ key[1] = "NEXT" => \E p \in Jobs : Follows(key, p)

LEMMA InsertKeeps ==
    ASSUME BaseInv, BaseInv', OriginInv, NEW n \in Jobs, NEW key \in Keys, NEW g \in Nat,
           InsertsWell(n, key, g)
    PROVE  OriginInv'
  <1> DEFINE gen == wf.generation
  <1>0. /\ status[n] = "NONE" /\ status'[n] = "PENDING" /\ origin'[n] = key
        /\ root'[n] = (IF key[1] = "NEXT" THEN root[key[2]] ELSE g)
        /\ \A j \in Jobs \ {n} :
              status'[j] = status[j] /\ origin'[j] = origin[j] /\ root'[j] = root[j]
        /\ key[1] \in {"MANUAL", "NEXT", "BUILD", "RESCHEDULE"}
        /\ origin[n][1] = "NONE" /\ attempts[n] = 0
        /\ Len(log) \in Nat /\ wf.generation \in Nat
        /\ UNCHANGED <<wf, log, deleting, dispatched, attempts>>
    BY DEF InsertsWell, Inserts, BaseInv, TypeOK, OriginInv, Lineage, Keys, WorkflowRows
  <1>1. /\ \A j \in Jobs \ {n} : (Root(j)' <=> Root(j)) /\ (Automatic(j)' <=> Automatic(j))
        /\ Root(n)' <=> key[1] \in {"BUILD", "RESCHEDULE"}
        /\ Automatic(n)' <=> key[1] # "MANUAL"
        /\ ~Root(n) /\ ~Automatic(n)
    BY <1>0 DEF Root, Automatic
  <1>2. EventsInv'
    <2>1. NoNewGeneration
      BY DEF InsertsWell, NoNewGeneration
    <2> QED
      BY <2>1, EventsKeep DEF OriginInv
  \* The job that a follow-up follows.
  <1>3. ASSUME key[1] = "NEXT"
        PROVE  \E p \in Jobs : /\ p # n /\ Follows(key, p) /\ root'[n] = root[p] /\ key[2] = p
                               /\ p \in Ends /\ p \in Chain /\ Recorded(NextKey(p))' # {}
    <2>1. PICK p \in Jobs : Follows(key, p)
      BY <1>3 DEF InsertsWell
    <2>2. p # n /\ key[2] = p /\ root'[n] = root[p]
      BY <1>0, <1>3, <2>1 DEF Follows, NextKey
    <2>3. p \in Chain /\ p \in Ends
      BY <2>1 DEF Follows, Chain, Ends, Active
    <2>4. n \in Recorded(NextKey(p))'
      BY <1>0, <2>1 DEF Follows, Recorded, NextKey
    <2> QED
      BY <2>1, <2>2, <2>3, <2>4
  <1>4. \A j \in Jobs : Automatic(j) /\ j # n => \E r \in Jobs : Root(r)' /\ root'[r] = root'[j]
    <2> SUFFICES ASSUME NEW j \in Jobs, Automatic(j), j # n
                 PROVE  \E r \in Jobs : Root(r)' /\ root'[r] = root'[j]
      OBVIOUS
    <2>1. PICK r \in Jobs : Root(r) /\ root[r] = root[j]
      BY DEF OriginInv, Lineage
    <2>2. r # n
      BY <1>1, <2>1
    <2> QED
      BY <1>0, <1>1, <2>1, <2>2
  <1>5. ASSUME NEW j \in Jobs PROVE \A k \in Jobs : FollowsDirectly(k, j)' => attempts'[j] >= 1
    <2> SUFFICES ASSUME NEW k \in Jobs, FollowsDirectly(k, j)' PROVE attempts[j] >= 1
      BY <1>0
    <2>1. CASE k # n
      BY <1>0, <2>1 DEF OriginInv, Lineage, FollowsDirectly
    <2>2. CASE k = n
      <3>1. key[1] = "NEXT" /\ key[2] = j
        BY <1>0, <2>2 DEF FollowsDirectly
      <3>2. status[j] = "RUNNING"
        BY <1>3, <3>1 DEF Follows
      <3> QED
        BY <3>2 DEF OriginInv, Lineage
    <2> QED
      BY <2>1, <2>2
  <1>6. ASSUME NEW j \in Jobs \ {n} PROVE Lineage(j)'
    <2>0. Lineage(j) /\ (stage'[j] = stage[j] \/ stage'[j] = "scheduled")
      BY DEF OriginInv, InsertsWell
    <2> QED
      BY <1>0, <1>1, <1>4, <1>5, <2>0 DEF Lineage
  <1>7. Lineage(n)'
    <2>0. Lineage(n) /\ stage[n] = "none"
      BY <1>0 DEF OriginInv, BaseInv, TypeOK
    <2>1. Root(n)' => \E i \in 1..Len(log') :
              RootEvent(log'[i]) /\ origin'[n] = ScheduleKey(log'[i]) /\ root'[n] = log'[i].generation
      BY <1>0, <1>1 DEF InsertsWell
    <2>2. Automatic(n)' => \E r \in Jobs : Root(r)' /\ root'[r] = root'[n]
      <3>1. CASE key[1] = "NEXT"
        <4>1. PICK p \in Jobs : p # n /\ Automatic(p) /\ root'[n] = root[p]
          BY <1>3, <3>1 DEF Follows
        <4> QED
          BY <1>0, <1>4, <4>1
      <3> QED
        BY <1>0, <1>1, <3>1
    <2>3. stage'[n] # "loaded"
      BY <2>0 DEF InsertsWell
    <2> QED
      BY <1>0, <1>1, <1>5, <2>0, <2>1, <2>2, <2>3 DEF Lineage
  <1>8. RunsAlone' /\ OneUnbuilt'
    BY <1>0 DEF OriginInv, ChainInv, RunsAlone, OneUnbuilt, InsertsWell
  <1>9. \A j \in Chain' \ {n} : j \in Chain /\ j \in Jobs /\ root'[j] = root[j]
    BY <1>0, <1>1 DEF Chain
  <1>10. \A j \in Ends' \ {n} : j \in Ends
    <2> SUFFICES ASSUME NEW j \in Ends', j # n PROVE Recorded(NextKey(j)) = {}
      BY <1>9 DEF Ends
    <2>1. \A k \in Recorded(NextKey(j)) : k \in Recorded(NextKey(j))'
      BY <1>0 DEF Recorded, NextKey
    <2> QED
      BY <2>1 DEF Ends
  <1>11. ASSUME n \in Ends', NEW k \in Ends', k # n, root'[n] = root'[k]
         PROVE  FALSE
    <2>0. Automatic(n)' /\ k \in Ends /\ k \in Chain /\ k \in Jobs /\ root'[k] = root[k]
      BY <1>9, <1>10, <1>11 DEF Ends, Chain
    <2>1. CASE key[1] = "NEXT"
      <3>1. PICK p \in Jobs : root'[n] = root[p] /\ p \in Ends /\ Recorded(NextKey(p))' # {}
        BY <1>3, <2>1
      <3>2. k = p
        BY <1>11, <2>0, <3>1 DEF OriginInv, ChainInv, OneEnd
      <3> QED
        BY <1>11, <3>1, <3>2 DEF Ends
    <2>2. CASE key[1] \in {"BUILD", "RESCHEDULE"}
      <3>1. root'[n] = g /\ Automatic(k)
        BY <1>0, <2>0, <2>2 DEF Chain
      <3>2. PICK r \in Jobs : Root(r) /\ root[r] = root[k]
        BY <2>0, <3>1 DEF OriginInv, Lineage
      <3> QED
        BY <1>11, <2>0, <2>2, <3>1, <3>2 DEF InsertsWell
    <2> QED
      BY <1>0, <1>1, <2>0, <2>1, <2>2
  <1>12. OneEnd'
    <2> SUFFICES ASSUME NEW j \in Ends', NEW k \in Ends', root'[j] = root'[k] PROVE j = k
      BY DEF OneEnd
    <2>1. CASE j # n /\ k # n
      <3>1. j \in Ends /\ k \in Ends /\ root[j] = root[k]
        BY <1>9, <1>10, <2>1 DEF Ends
      <3> QED
        BY <3>1 DEF OriginInv, ChainInv, OneEnd
    <2> QED
      BY <1>11, <2>1
  <1>13. \A j, k \in Jobs : j # n /\ root[k] = root[j] /\ attempts[k] > 1
                                => root'[k] = root'[j] /\ attempts'[k] > 1
    BY <1>0
  <1>14. OthersOvertaken'
    <2> SUFFICES ASSUME NEW j \in Chain', root'[j] # wf.generation PROVE Leftover(j)'
      BY <1>0 DEF OthersOvertaken
    <2>1. CASE j # n
      <3>1. Leftover(j) /\ j \in Jobs
        BY <1>9, <2>1 DEF OriginInv, ChainInv, OthersOvertaken
      <3> QED
        BY <1>0, <1>13, <2>1, <3>1 DEF Leftover
    <2>2. CASE j = n
      <3>1. key[1] = "NEXT"
        BY <1>0, <1>1, <2>2 DEF Chain, InsertsWell
      <3>2. PICK p \in Jobs : p # n /\ Follows(key, p) /\ root'[n] = root[p] /\ p \in Chain
        BY <1>3, <3>1
      <3>3. Leftover(p)
        BY <2>2, <3>2 DEF OriginInv, ChainInv, OthersOvertaken
      <3>4. PICK k \in Jobs : root[k] = root[p] /\ attempts[k] > 1
        BY <1>0, <3>2, <3>3 DEF Leftover, Follows
      <3>5. root'[k] = root'[n] /\ attempts'[k] > 1
        BY <1>0, <1>13, <3>2, <3>4
      <3> QED
        BY <2>2, <3>5 DEF Leftover
    <2> QED
      BY <2>1, <2>2
  <1>15. OneOvertaken'
    \* A follow-up counts for the job that it follows.
    <2>1. ASSUME NEW j \in Chain', root'[j] # wf.generation
          PROVE  \E p \in Chain : root[p] = root'[j]
      <3>1. CASE j # n
        BY <1>9, <3>1
      <3>2. CASE j = n
        <4>1. key[1] = "NEXT"
          BY <1>0, <1>1, <2>1, <3>2 DEF Chain, InsertsWell
        <4> QED
          BY <1>3, <3>2, <4>1
      <3> QED
        BY <3>1, <3>2
    <2> QED
      BY <1>0, <2>1 DEF OriginInv, ChainInv, OneOvertaken
  <1> QED
    BY <1>2, <1>6, <1>7, <1>8, <1>12, <1>14, <1>15 DEF OriginInv, ChainInv

LEMMA CreateKeeps ==
    ASSUME BaseInv, BaseInv', LifecycleAssumption, OriginInv, NEW kind \in Kinds, CreateWorkflow(kind)
    PROVE  OriginInv'
  <1>0. /\ wf.state = "ABSENT" /\ wf' = [wf EXCEPT !.state = "LIVE", !.kind = kind, !.generation = 1]
        /\ UNCHANGED jobVars /\ LogExtends(Event("BUILD", 1)) /\ wf \in WorkflowRows
    BY CreateBase DEF CreateWorkflow, BaseInv, TypeOK
  <1>1. wf'.state = "LIVE" /\ wf'.generation = 1
    BY <1>0, Zenon DEF WorkflowRows
  <1>2. log = <<>> /\ wf.generation = 0 /\ \A j \in Jobs : Lineage(j) /\ status[j] = "NONE"
    BY <1>0 DEF OriginInv, EventsInv
  <1>3. /\ log = <<>> /\ wf.generation = 0
        /\ \A j \in Jobs : /\ status[j] = "NONE" /\ origin[j][1] = "NONE" /\ stage[j] # "loaded"
                           /\ dispatched[j] <= 1 /\ attempts[j] = 0
    BY <1>2 DEF Lineage, BaseInv, TypeOK
  <1>4. \A i \in 1..Len(log') : log'[i] = Event("BUILD", 1)
    BY <1>0, <1>3 DEF LogExtends
  <1>5. EventsInv'
    BY <1>1, <1>4 DEF EventsInv, Event
  <1>6. \A j \in Jobs : Lineage(j)'
    BY <1>0, <1>1, <1>3 DEF Lineage, Root, Automatic, FollowsDirectly, jobVars
  <1>7. ChainInv'
    <2>1. \A j \in Jobs : status'[j] = "NONE"
      BY <1>0, <1>3 DEF jobVars
    <2>2. Chain' = {}
      BY <2>1 DEF Chain, Active
    <2>3. Ends' = {}
      BY <2>2 DEF Ends
    <2> QED
      BY <2>1, <2>2, <2>3
         DEF ChainInv, RunsAlone, OneUnbuilt, OneEnd, OthersOvertaken, OneOvertaken, Active
  <1> QED
    BY <1>5, <1>6, <1>7 DEF OriginInv

\* An update that starts a generation leaves only the running job.
LEMMA RestartKeeps ==
    ASSUME BaseInv, BaseInv', LifecycleAssumption, OriginInv, NEW resched \in BOOLEAN,
           NEW interval \in {0, 1}, wf.state = "LIVE",
           UpdateRow(resched, TRUE, interval), Restarts(resched),
           UNCHANGED <<origin, jobGen, root, dispatched, attempts, stage>>
    PROVE  OriginInv'
  <1> DEFINE a == IF resched THEN "RESCHEDULE" ELSE "BUILD"
             e == Event(a, wf.generation + 1)
  <1>0. /\ wf'.generation = wf.generation + 1 /\ wf'.state = "LIVE" /\ wf.generation \in Nat
        /\ JobsOK /\ Len(log) \in Nat /\ Len(log') \in Nat
        /\ resched => wf'.build = wf.build
    <2>1. /\ wf'.generation = (IF TRUE THEN wf.generation + 1 ELSE wf.generation)
          /\ wf'.state = wf.state
          /\ wf'.build = (IF TRUE /\ ~resched THEN "QUEUED" ELSE wf.build)
      BY UpdatedRow
    <2>2. JobsOK /\ wf.generation \in Nat /\ log \in Seq(Events) /\ log' \in Seq(Events)
      BY BaseParts DEF BaseInv, TypeOK, WorkflowRows
    <2> QED
      BY <2>1, <2>2
  <1>1. /\ \A j \in Jobs : \/ status'[j] = status[j]
                           \/ status[j] \in {"PENDING", "QUEUED"} /\ status'[j] = "CANCELED"
        /\ \A j \in Jobs : origin[j][1] # "MANUAL" => status'[j] \notin {"PENDING", "QUEUED"}
        /\ ~resched => \A j \in Jobs : status'[j] \notin {"PENDING", "QUEUED"}
    BY <1>0, StaleCanceled DEF Restarts
  <1>2. LogExtends(e) /\ RootEvent(e) /\ e.generation = wf.generation + 1
    <2>1. e \in Events /\ log \in Seq(Events)
      BY <1>0, EventsAreEvents DEF Actions, BaseInv, TypeOK
    <2> QED
      BY <2>1, OutboxGrows DEF Restarts, RootEvent, Event
  <1> HIDE DEF a, e
  <1>3. EventsInv'
    BY <1>0, <1>2, EventsStart DEF OriginInv
  <1>4. \A j \in Jobs : (Root(j)' <=> Root(j)) /\ (Automatic(j)' <=> Automatic(j))
    BY DEF Root, Automatic
  <1>5. ASSUME NEW j \in Jobs PROVE Lineage(j)'
    <2>0. Lineage(j) /\ dispatched[j] \in Nat
      BY DEF OriginInv, BaseInv, TypeOK
    <2>1. Root(j)' => \E i \in 1..Len(log') :
              RootEvent(log'[i]) /\ origin'[j] = ScheduleKey(log'[i]) /\ root'[j] = log'[i].generation
      <3> SUFFICES ASSUME Root(j)
                   PROVE  \E i \in 1..Len(log') : RootEvent(log'[i]) /\ origin[j] = ScheduleKey(log'[i])
                                                  /\ root[j] = log'[i].generation
        BY <1>4
      <3>1. PICK i \in 1..Len(log) : RootEvent(log[i]) /\ origin[j] = ScheduleKey(log[i])
                                                       /\ root[j] = log[i].generation
        BY <2>0 DEF Lineage
      <3>2. log'[i] = log[i] /\ i \in 1..Len(log')
        BY <1>0, <1>2 DEF LogExtends
      <3> QED
        BY <3>1, <3>2
    <2>2. Automatic(j)' => \E r \in Jobs : Root(r)' /\ root'[r] = root'[j]
      BY <1>4, <2>0 DEF Lineage
    <2>3. dispatched'[j] <= wf'.generation
      BY <1>0, <2>0 DEF Lineage
    <2>4. /\ status'[j] = "NONE" <=> status[j] = "NONE"
          /\ status'[j] = "RUNNING" => status[j] = "RUNNING"
      BY <1>1
    <2> QED
      BY <1>4, <2>0, <2>1, <2>2, <2>3, <2>4 DEF Lineage, FollowsDirectly
  <1>6. /\ \A j \in Jobs : status'[j] \in Active => status[j] \in Active
        /\ \A j \in Jobs : status'[j] = "RUNNING" => status[j] = "RUNNING"
    BY <1>1 DEF Active
  <1>7. RunsAlone'
    BY <1>6 DEF OriginInv, ChainInv, RunsAlone
  <1>8. \A j \in Chain' : j \in Jobs /\ status'[j] = "RUNNING" /\ dispatched'[j] < wf'.generation
    <2> SUFFICES ASSUME NEW j \in Chain'
                 PROVE  j \in Jobs /\ status'[j] = "RUNNING" /\ dispatched'[j] < wf'.generation
      OBVIOUS
    <2>1. j \in Jobs /\ origin[j][1] # "MANUAL" /\ status'[j] \in Active
      BY <1>4 DEF Chain, Automatic
    <2>2. Lineage(j) /\ dispatched[j] \in Nat
      BY <2>1 DEF OriginInv, BaseInv, TypeOK
    <2> QED
      BY <1>0, <1>1, <2>1, <2>2 DEF Active, Lineage
  <1>9. \A j, k \in Chain' : j = k
    BY <1>7, <1>8 DEF RunsAlone
  <1>10. OneUnbuilt'
    <2>1. CASE resched
      BY <1>0, <1>6, <2>1 DEF OriginInv, ChainInv, OneUnbuilt
    <2>2. CASE ~resched
      <3>1. \A j \in Jobs : status'[j] \in Active => status'[j] = "RUNNING"
        BY <1>1, <2>2 DEF Active
      <3> QED
        BY <1>7, <3>1 DEF RunsAlone, OneUnbuilt
    <2> QED
      BY <2>1, <2>2
  <1>11. OneEnd' /\ OthersOvertaken' /\ OneOvertaken'
    BY <1>8, <1>9 DEF OneEnd, OthersOvertaken, OneOvertaken, Ends, Leftover
  <1> QED
    BY <1>3, <1>5, <1>7, <1>10, <1>11 DEF OriginInv, ChainInv

-----------------------------------------------------------------------------
\* The other steps move jobs or leave them alone.
LEMMA StillMoves ==
    ASSUME BaseInv, OriginInv, NoNewGeneration, RowStays,
           UNCHANGED <<status, origin, root, dispatched, attempts, stage>>,
           Len(log') >= Len(log), \A i \in 1..Len(log) : log'[i] = log[i]
    PROVE  JobsMove
  <1>1. RunsAlone'
    BY DEF OriginInv, ChainInv, RunsAlone
  <1> QED
    BY <1>1 DEF JobsMove, JobMovesOn

\* One job moves, and the outbox may get the event of its end.
MovesTo(j, s, st) ==
    /\ status[j] \in Active
    /\ status' = [status EXCEPT ![j] = s] /\ stage' = [stage EXCEPT ![j] = st]
    /\ st = "loaded" => origin[j][1] # "MANUAL" /\ status[j] = "RUNNING"
    /\ s = "RUNNING" => /\ \A k \in Jobs \ {j} : status[k] # "RUNNING"
                        /\ \/ status[j] = "RUNNING" /\ dispatched'[j] = dispatched[j]
                              /\ attempts'[j] = attempts[j]
                           \/ attempts'[j] = attempts[j] + 1
    /\ s # "RUNNING" => attempts'[j] = attempts[j]
    /\ dispatched'[j] \in {dispatched[j], wf.generation}
    /\ \A k \in Jobs \ {j} : dispatched'[k] = dispatched[k] /\ attempts'[k] = attempts[k]
    /\ UNCHANGED <<wf, origin, root, deleting>>

LEMMA OneMoves ==
    ASSUME BaseInv, OriginInv, NEW j \in Jobs, NEW s \in Statuses \ {"NONE"}, NEW st,
           MovesTo(j, s, st),
           \/ UNCHANGED log
           \/ \E e : LogExtends(e) /\ ~RootEvent(e)
    PROVE  JobsMove
  <1>0. /\ status'[j] = s /\ stage'[j] = st
        /\ \A k \in Jobs \ {j} : status'[k] = status[k] /\ stage'[k] = stage[k]
    BY DEF MovesTo, BaseInv, TypeOK
  <1>1. /\ NoNewGeneration /\ RowStays
        /\ Len(log') >= Len(log) /\ \A i \in 1..Len(log) : log'[i] = log[i]
    <2>1. wf.state # "ABSENT" /\ RowStays
      BY DEF OriginInv, EventsInv, Active, MovesTo, RowStays
    <2>2. Len(log) \in Nat
      BY DEF BaseInv, TypeOK
    <2>3. CASE UNCHANGED log
      BY <2>1, <2>2, <2>3 DEF NoNewGeneration, MovesTo
    <2>4. ASSUME NEW e, LogExtends(e), ~RootEvent(e)
          PROVE  /\ NoNewGeneration
                 /\ Len(log') >= Len(log) /\ \A i \in 1..Len(log) : log'[i] = log[i]
      BY <2>1, <2>4 DEF NoNewGeneration, MovesTo, LogExtends
    <2> QED
      BY <2>1, <2>3, <2>4
  <1>2. ASSUME NEW k \in Jobs PROVE JobMovesOn(k)
    <2>0. Lineage(k) /\ attempts[k] \in Nat
      BY DEF OriginInv, BaseInv, TypeOK
    <2>1. CASE k = j
      BY <1>0, <2>0, <2>1 DEF Active, Waiting, MovesTo, Lineage, JobMovesOn
    <2>2. CASE k # j
      BY <1>0, <2>2 DEF MovesTo, JobMovesOn
    <2> QED
      BY <2>1, <2>2
  <1>3. RunsAlone'
    BY <1>0 DEF OriginInv, ChainInv, RunsAlone, MovesTo
  <1> QED
    BY <1>1, <1>2, <1>3 DEF JobsMove, MovesTo

LEMMA ExecutionMoves ==
    ASSUME BaseInv, LifecycleAssumption, OriginInv, NEW j \in Jobs,
           \/ Dispatch(j) \/ Claim(j) \/ deferBlockedJob(j) \/ GoesOn(j)
           \/ \E new \in {"COMPLETED", "FAILED", "CANCELED", "PENDING"} : Leaves(j, new)
    PROVE  JobsMove
  <1>0. /\ JobsOK
        /\ status[j] # "RUNNING" => stage[j] = "none"
        /\ attempts[j] \in Nat /\ Lineage(j)
    BY BaseParts DEF JobsOK, OriginInv
  <1>1. CASE Dispatch(j)
    <2>1. stage' = [stage EXCEPT ![j] = "none"]
      BY <1>0, <1>1 DEF Dispatch, JobsOK
    <2>2. /\ status' = [status EXCEPT ![j] = "QUEUED"] /\ status[j] = "PENDING"
          /\ dispatched'[j] = wf.generation /\ attempts'[j] = attempts[j]
          /\ \A k \in Jobs \ {j} : dispatched'[k] = dispatched[k] /\ attempts'[k] = attempts[k]
          /\ UNCHANGED <<wf, origin, root, deleting, log>>
      BY <1>0, <1>1 DEF Dispatch, JobsOK
    <2>3. MovesTo(j, "QUEUED", "none")
      BY <2>1, <2>2 DEF MovesTo, Active
    <2> QED
      BY <2>2, <2>3, OneMoves DEF Statuses, Active
  <1>2. CASE Claim(j)
    <2>1. /\ status' = [status EXCEPT ![j] = "RUNNING"] /\ status[j] = "QUEUED"
          /\ stage' = [stage EXCEPT ![j] = "claimed"]
          /\ dispatched' = dispatched /\ attempts'[j] = attempts[j] + 1
          /\ \A k \in Jobs \ {j} : status[k] # "RUNNING" /\ attempts'[k] = attempts[k]
          /\ UNCHANGED <<wf, origin, root, deleting, log>>
      BY <1>0, <1>2 DEF Claim, JobsOK
    <2>2. MovesTo(j, "RUNNING", "claimed")
      BY <2>1 DEF MovesTo, Active
    <2> QED
      BY <2>1, <2>2, OneMoves DEF Statuses, Active
  <1>3. CASE deferBlockedJob(j)
    <2>1. stage' = [stage EXCEPT ![j] = "none"]
      BY <1>0, <1>3 DEF deferBlockedJob, JobsOK
    <2>2. /\ status' = [status EXCEPT ![j] = "PENDING"] /\ status[j] = "QUEUED"
          /\ UNCHANGED <<wf, origin, root, dispatched, attempts, deleting, log>>
      BY <1>3 DEF deferBlockedJob
    <2>3. MovesTo(j, "PENDING", "none")
      BY <2>1, <2>2 DEF MovesTo, Active
    <2> QED
      BY <2>2, <2>3, OneMoves DEF Statuses, Active
  <1>4. CASE GoesOn(j)
    <2> DEFINE st == IF origin[j][1] = "MANUAL" THEN "scheduled" ELSE "loaded"
    <2>1. status' = [status EXCEPT ![j] = "RUNNING"]
      BY <1>0, <1>4 DEF GoesOn, JobsOK
    <2>2. /\ status[j] = "RUNNING" /\ stage[j] = "claimed" /\ stage' = [stage EXCEPT ![j] = st]
          /\ UNCHANGED <<wf, origin, root, dispatched, attempts, deleting, log>>
      BY <1>4 DEF GoesOn
    <2>3. st = "loaded" => origin[j][1] # "MANUAL"
      OBVIOUS
    <2>4. \A k \in Jobs \ {j} : status[k] # "RUNNING"
      BY <2>2 DEF OriginInv, ChainInv, RunsAlone
    <2> HIDE DEF st
    <2>5. MovesTo(j, "RUNNING", st)
      BY <2>1, <2>2, <2>3, <2>4 DEF MovesTo, Active
    <2> QED
      BY <2>2, <2>5, OneMoves DEF Statuses, Active
  <1>5. ASSUME NEW new \in {"COMPLETED", "FAILED", "CANCELED", "PENDING"}, Leaves(j, new)
        PROVE  JobsMove
    <2>1. /\ status[j] = "RUNNING" /\ status' = [status EXCEPT ![j] = new]
          /\ stage' = [stage EXCEPT ![j] = "none"]
          /\ UNCHANGED <<wf, origin, root, dispatched, attempts, deleting>>
      BY <1>5 DEF Leaves, Leave
    <2>2. UNCHANGED log \/ (new \in {"COMPLETED", "FAILED"} /\ LogExtends(JobEvent(new, j)))
      BY <1>5, LeavesBase
    <2>3. ~RootEvent(JobEvent(new, j))
      BY DEF RootEvent, JobEvent
    <2>4. MovesTo(j, new, "none")
      BY <2>1 DEF MovesTo, Active
    <2> QED
      BY <2>2, <2>3, <2>4, OneMoves DEF Statuses, Active
  <1> QED
    BY <1>1, <1>2, <1>3, <1>4, <1>5

\* A running job schedules its follow-up only for the generation that it was
\* dispatched in, and once for an interval.
LEMMA NextKeeps ==
    ASSUME BaseInv, BaseInv', LifecycleAssumption, OriginInv, NEW j \in Jobs,
           scheduleNextAutomaticJob(j)
    PROVE  OriginInv'
  <1>0. /\ status[j] = "RUNNING" /\ stage[j] = "loaded"
        /\ NextKey(j) \in Keys /\ dispatched[j] \in Nat /\ Schedules(NextKey(j), dispatched[j])
        /\ stage' = [stage EXCEPT ![j] = "scheduled"]
        /\ UNCHANGED <<wf, dispatched, attempts, canceled, effect, log, workerVars, deleting,
                       commands, faults>>
    BY NextScheduled
  <1>1. Automatic(j) /\ attempts[j] >= 1
    BY <1>0 DEF OriginInv, Lineage
  <1>2. CASE UNCHANGED <<status, origin, jobGen, root>>
    <2>1. status' = [status EXCEPT ![j] = "RUNNING"] /\ Len(log) \in Nat
      BY <1>0, <1>2, BaseParts DEF JobsOK, RowOK
    <2>2. \A k \in Jobs \ {j} : status[k] # "RUNNING"
      BY <1>0 DEF OriginInv, ChainInv, RunsAlone
    <2>3. MovesTo(j, "RUNNING", "scheduled")
      BY <1>0, <1>1, <1>2, <2>1, <2>2 DEF MovesTo, Active
    <2>4. JobsMove
      BY <1>0, <2>3, OneMoves DEF Statuses, Active
    <2> QED
      BY <2>4, MoveKeeps
  <1>3. ASSUME NEW n \in Jobs, Inserts(n, NextKey(j), dispatched[j]), Recorded(NextKey(j)) = {},
               automaticScheduleGuard(dispatched[j])
        PROVE  OriginInv'
    <2>1. /\ wf.state = "LIVE" /\ wf.build = "COMPLETED" /\ dispatched[j] = wf.generation
          /\ NextKey(j)[1] = "NEXT"
      BY <1>3 DEF automaticScheduleGuard, NextKey
    <2>2. stage'[j] = "scheduled" /\ \A k \in Jobs \ {j} : stage'[k] = stage[k]
      BY <1>0 DEF BaseInv, TypeOK
    <2>3. Follows(NextKey(j), j)
      BY <1>0, <1>1, <1>3, <2>1 DEF Follows
    <2>4. InsertsWell(n, NextKey(j), dispatched[j])
      BY <1>0, <1>3, <2>1, <2>2, <2>3 DEF InsertsWell
    <2> QED
      BY <1>0, <2>4, InsertKeeps
  <1> QED
    BY <1>0, <1>2, <1>3 DEF Schedules

\* A handler inserts the root of its generation only if there is none.
LEMMA RootKeeps ==
    ASSUME BaseInv, BaseInv', OriginInv, NEW w \in Workers, scheduleAutomaticJob(w)
    PROVE  OriginInv'
  <1> DEFINE e == Ev(w)
  <1>0. /\ RootEvent(e) /\ e.generation \in Nat /\ \E i \in 1..Len(log) : log[i] = e
        /\ Schedules(ScheduleKey(e), e.generation)
        /\ UNCHANGED <<wf, dispatched, attempts, stage, canceled, effect, log, deleting, commands, faults>>
    BY ScheduleStep DEF RootEvent
  <1> HIDE DEF e
  <1>1. CASE UNCHANGED <<status, origin, jobGen, root>>
    <2>1. NoNewGeneration /\ RowStays /\ Len(log) \in Nat
      BY <1>0, <1>1 DEF NoNewGeneration, RowStays, BaseInv, TypeOK
    <2>2. JobsMove
      BY <1>0, <1>1, <2>1, StillMoves
    <2> QED
      BY <2>2, MoveKeeps
  <1>2. ASSUME NEW n \in Jobs, Inserts(n, ScheduleKey(e), e.generation),
               Recorded(ScheduleKey(e)) = {}, automaticScheduleGuard(e.generation)
        PROVE  OriginInv'
    <2>1. /\ wf.state = "LIVE" /\ wf.build = "COMPLETED" /\ e.generation = wf.generation
          /\ ScheduleKey(e) \in Keys /\ ScheduleKey(e)[1] \in {"BUILD", "RESCHEDULE"}
      BY <1>0, <1>2 DEF automaticScheduleGuard, ScheduleKey, Keys, RootEvent
    <2>2. ASSUME NEW r \in Jobs, Root(r), root[r] = e.generation
          PROVE  FALSE
      <3>1. PICK i \in 1..Len(log) :
                RootEvent(log[i]) /\ origin[r] = ScheduleKey(log[i]) /\ root[r] = log[i].generation
        BY <2>2 DEF OriginInv, Lineage
      <3>2. log[i].action = e.action
        BY <1>0, <2>2, <3>1 DEF OriginInv, EventsInv
      <3>3. origin[r] = ScheduleKey(e)
        BY <2>2, <3>1, <3>2 DEF ScheduleKey
      <3> QED
        BY <1>2, <3>3 DEF Recorded
    <2>3. InsertsWell(n, ScheduleKey(e), e.generation)
      BY <1>0, <1>2, <2>1, <2>2 DEF InsertsWell
    <2> QED
      BY <1>0, <2>1, <2>3, InsertKeeps
  <1> QED
    BY <1>0, <1>1, <1>2 DEF Schedules

LEMMA CancelMoves ==
    ASSUME BaseInv, OriginInv, NEW w \in Workers, CancelJob(w)
    PROVE  JobsMove
  <1>0. /\ UNCHANGED <<wf, log, deleting, origin, root, dispatched, attempts>>
        /\ \/ UNCHANGED <<status, stage>>
           \/ \E j \in Jobs : /\ status[j] \in Active
                              /\ status' = [status EXCEPT ![j] = "CANCELED"]
                              /\ stage' = [stage EXCEPT ![j] = "none"]
    BY DEF CancelJob, BaseInv, TypeOK, HandlerStates
  <1>1. CASE UNCHANGED <<status, stage>>
    <2>1. NoNewGeneration /\ RowStays /\ Len(log) \in Nat
      BY <1>0, <1>1 DEF NoNewGeneration, RowStays, BaseInv, TypeOK
    <2> QED
      BY <1>0, <1>1, <2>1, StillMoves
  <1>2. ASSUME NEW j \in Jobs, status[j] \in Active,
               status' = [status EXCEPT ![j] = "CANCELED"], stage' = [stage EXCEPT ![j] = "none"]
        PROVE  JobsMove
    <2>1. MovesTo(j, "CANCELED", "none")
      BY <1>0, <1>2 DEF MovesTo
    <2> QED
      BY <1>0, <2>1, OneMoves DEF Statuses, Active
  <1> QED
    BY <1>0, <1>1, <1>2

\* Steps that change no job.
LEMMA OtherMoves ==
    ASSUME BaseInv, LifecycleAssumption, OriginInv,
           \/ \E w \in Workers : WorkerOnly(w) \/ BuildStep(w) \/ HandleTerminalJob(w)
           \/ \E a \in Actions : LockExpires(a)
           \/ TerminateWorkflow
           \/ UNCHANGED vars
    PROVE  JobsMove
  <1>0. wf \in WorkflowRows /\ log \in Seq(Events) /\ Len(log) \in Nat
    BY DEF BaseInv, TypeOK
  <1>1. ASSUME UNCHANGED <<wf, jobVars, log, deleting>> PROVE JobsMove
    <2>1. NoNewGeneration /\ RowStays
      BY <1>1 DEF NoNewGeneration, RowStays, jobVars
    <2> QED
      BY <1>0, <1>1, <2>1, StillMoves DEF jobVars
  <1>2. ASSUME NEW w \in Workers, BuildStep(w) PROVE JobsMove
    <2>1. /\ UNCHANGED <<jobVars, log, deleting>>
          /\ UNCHANGED wf \/ \E new \in {"STARTED", "FAILED", "COMPLETED"} :
                                /\ wf.state = "LIVE" /\ wf.build # "COMPLETED"
                                /\ wf' = [wf EXCEPT !.build = new]
      BY <1>2, BuildStepRow
    <2>2. wf'.state = wf.state /\ wf'.generation = wf.generation
      BY <1>0, <2>1, Zenon DEF WorkflowRows
    <2>3. NoNewGeneration /\ RowStays
      BY <2>1, <2>2 DEF NoNewGeneration, RowStays, jobVars
    <2> QED
      BY <1>0, <2>1, <2>3, StillMoves DEF jobVars
  <1>3. ASSUME wf.state = "LIVE", wf'.state = "LIVE", wf'.generation = wf.generation, RowStays,
               UNCHANGED <<status, origin, root, dispatched, attempts, stage>>,
               UNCHANGED log \/ LogExtends(Event("TERMINATE", wf.generation))
        PROVE  JobsMove
    <2>1. /\ Len(log') >= Len(log) /\ \A i \in 1..Len(log) : log'[i] = log[i]
          /\ \A i \in 1..Len(log') : (i \in 1..Len(log) /\ log'[i] = log[i]) \/ ~RootEvent(log'[i])
      BY <1>0, <1>3 DEF LogExtends, RootEvent, Event
    <2>2. NoNewGeneration
      BY <1>3, <2>1 DEF NoNewGeneration
    <2> QED
      BY <1>3, <2>1, <2>2, StillMoves
  <1>4. ASSUME NEW w \in Workers, HandleTerminalJob(w) PROVE JobsMove
    <2>1. /\ Counts(Ev(w)) /\ Ev(w) \in Events
          /\ UNCHANGED <<status, origin, jobGen, root, dispatched, attempts, stage, canceled, deleting,
                         commands, faults>>
      BY <1>4, CountStep
    <2>2. CASE UNCHANGED <<wf, effect, log>>
      <3>1. NoNewGeneration /\ RowStays
        BY <2>1, <2>2 DEF NoNewGeneration, RowStays
      <3> QED
        BY <1>0, <2>1, <2>2, <3>1, StillMoves
    <2>3. CASE wf.state = "LIVE" /\ (IncrementFailures(Ev(w).job) \/ resetWorkflowFailureCount(Ev(w).job))
      <3> DEFINE reached == wf.failures + 1 >= MaxFailures
      <3>1. \/ wf' = wf
            \/ wf' = [wf EXCEPT !.failures = wf.failures + 1, !.terminated = reached]
            \/ wf' = [wf EXCEPT !.failures = 0]
        BY <2>3, Zenon DEF IncrementFailures, resetWorkflowFailureCount
      <3>2. /\ wf'.state = "LIVE" /\ wf'.generation = wf.generation
            /\ wf'.build = wf.build /\ wf'.interval = wf.interval
        <4> HIDE DEF reached
        <4> QED
          BY <1>0, <2>3, <3>1, Zenon DEF WorkflowRows
      <3>3. UNCHANGED log \/ LogExtends(Event("TERMINATE", wf.generation))
        BY <2>1, CountRow
      <3> QED
        BY <1>3, <2>1, <2>3, <3>2, <3>3 DEF RowStays
    <2> QED
      BY <2>1, <2>2, <2>3 DEF Counts
  <1>5. CASE TerminateWorkflow
    <2>1. /\ wf.state = "LIVE" /\ wf' = [wf EXCEPT !.terminated = TRUE] /\ UNCHANGED jobVars
          /\ LogExtends(Event("TERMINATE", wf.generation))
      BY <1>5, TerminateBase DEF TerminateWorkflow, Command
    <2>2. /\ wf'.state = "LIVE" /\ wf'.generation = wf.generation
          /\ wf'.build = wf.build /\ wf'.interval = wf.interval
      BY <1>0, <2>1, Zenon DEF WorkflowRows
    <2> QED
      BY <1>3, <2>1, <2>2 DEF jobVars, RowStays
  <1> QED
    BY <1>1, <1>2, <1>4, <1>5, WorkerOnlyBase, LockExpiresBase DEF vars

LEMMA UpdateKeeps ==
    ASSUME BaseInv, LifecycleAssumption, OriginInv, NEW h \in BOOLEAN, NEW i \in BOOLEAN,
           UpdateWorkflow(h, i)
    PROVE  OriginInv'
  <1>0. BaseInv'
    BY UpdateBase
  <1>1. PICK interval \in {0, 1} :
              /\ wf.state = "LIVE"
              /\ \/ /\ UpdateRow(FALSE, FALSE, interval)
                    /\ UNCHANGED <<status, log>>
                 \/ \E resched \in BOOLEAN : UpdateRow(resched, TRUE, interval) /\ Restarts(resched)
              /\ commands' \in Nat
              /\ UNCHANGED <<origin, jobGen, root, dispatched, attempts, stage, canceled, effect,
                             workerVars, deleting, faults>>
    BY UpdateSteps
  <1>2. CASE UpdateRow(FALSE, FALSE, interval) /\ UNCHANGED <<status, log>>
    <2>1. /\ wf'.generation = (IF FALSE THEN wf.generation + 1 ELSE wf.generation)
          /\ wf'.state = wf.state
          /\ wf'.build = (IF FALSE /\ ~FALSE THEN "QUEUED" ELSE wf.build)
      BY <1>2, UpdatedRow
    <2>2. NoNewGeneration /\ RowStays /\ Len(log) \in Nat
      BY <1>1, <1>2, <2>1, UpdatedInterval DEF NoNewGeneration, RowStays, BaseInv, TypeOK
    <2>3. JobsMove
      BY <1>1, <1>2, <2>2, StillMoves
    <2> QED
      BY <1>0, <2>3, MoveKeeps
  <1>3. ASSUME NEW resched \in BOOLEAN, UpdateRow(resched, TRUE, interval), Restarts(resched)
        PROVE  OriginInv'
    BY <1>0, <1>1, <1>3, RestartKeeps
  <1> QED
    BY <1>1, <1>2, <1>3

LEMMA DeleteKeeps ==
    ASSUME BaseInv, LifecycleAssumption, OriginInv,
           DeleteReadsWorkflow \/ DeleteReadsJobs \/ DeleteWorkflow
    PROVE  OriginInv'
  <1>0. BaseInv' /\ wf \in WorkflowRows /\ Len(log) \in Nat
    BY DeleteSteps DEF BaseInv, TypeOK
  <1>1. UNCHANGED <<origin, jobGen, root, dispatched, attempts>>
    BY DeleteSteps
  <1>2. CASE UNCHANGED <<wf, jobVars, log>>
    <2>1. wf.state = "ABSENT" => UNCHANGED deleting
      <3>1. wf.state = "ABSENT" => deleting = "no"
        BY DEF OriginInv, EventsInv
      <3> QED
        BY <3>1 DEF DeleteReadsWorkflow, DeleteReadsJobs, DeleteWorkflow, Command
    <2>2. NoNewGeneration /\ RowStays
      BY <1>2, <2>1 DEF NoNewGeneration, RowStays, jobVars
    <2>3. JobsMove
      BY <1>0, <1>2, <2>2, StillMoves DEF jobVars
    <2> QED
      BY <1>0, <2>3, MoveKeeps
  <1>3. CASE Deletes /\ LogExtends(Event("DELETE", 0))
    <2>1. /\ wf'.state = "DELETED" /\ wf'.generation = wf.generation
          /\ wf'.build = wf.build /\ wf'.interval = wf.interval
      BY <1>0, <1>3, Zenon DEF Deletes, WorkflowRows
    <2>2. /\ Len(log') >= Len(log) /\ \A i \in 1..Len(log) : log'[i] = log[i]
          /\ \A i \in 1..Len(log') : (i \in 1..Len(log) /\ log'[i] = log[i]) \/ ~RootEvent(log'[i])
      BY <1>0, <1>3 DEF LogExtends, RootEvent, Event
    <2>3. NoNewGeneration /\ RowStays
      BY <2>1, <2>2 DEF NoNewGeneration, RowStays
    <2>4. \A j \in Jobs : /\ status'[j] \in {"NONE", "DELETED"} /\ stage'[j] = "none"
                          /\ status'[j] = "NONE" <=> status[j] = "NONE"
      BY <1>3 DEF Deletes
    <2>5. JobsMove
      BY <1>1, <2>2, <2>3, <2>4 DEF JobsMove, JobMovesOn, RunsAlone, Active, Waiting
    <2> QED
      BY <1>0, <2>5, MoveKeeps
  <1> QED
    BY <1>2, <1>3, DeleteSteps

LEMMA ManualKeeps ==
    ASSUME BaseInv, LifecycleAssumption, OriginInv, ScheduleManualJob
    PROVE  OriginInv'
  <1>1. /\ BaseInv' /\ wf.state = "LIVE"
        /\ \E j \in Jobs, n \in Nat : Inserts(j, <<"MANUAL", n, 0>>, 0)
        /\ UNCHANGED <<wf, dispatched, attempts, stage, log, deleting>>
        /\ wf.build = "COMPLETED"
    BY ManualSteps DEF ScheduleManualJob, automaticScheduleGuard
  <1>2. PICK j \in Jobs, n \in Nat : Inserts(j, <<"MANUAL", n, 0>>, 0)
    BY <1>1
  <1> DEFINE key == <<"MANUAL", n, 0>>
  <1>3. key \in Keys /\ key[1] = "MANUAL" /\ 0 \in Nat
    BY DEF Keys
  <1>4. Inserts(j, key, 0)
    BY <1>2
  <1> HIDE DEF key
  <1>5. InsertsWell(j, key, 0)
    BY <1>1, <1>3, <1>4 DEF InsertsWell
  <1> QED
    BY <1>1, <1>3, <1>5, InsertKeeps

LEMMA InitOrigin ==
    ASSUME LifecycleAssumption, Init
    PROVE  OriginInv
  <1>1. EventsInv
    BY DEF Init, EventsInv
  <1>2. \A j \in Jobs : Lineage(j)
    BY DEF Init, Lineage, NoKey, Root, Automatic, FollowsDirectly
  <1>3. ChainInv
    BY DEF Init, ChainInv, RunsAlone, OneUnbuilt, OneEnd, OthersOvertaken, OneOvertaken, Ends, Chain, Active
  <1> QED
    BY <1>1, <1>2, <1>3 DEF OriginInv

LEMMA NextOrigin ==
    ASSUME BaseInv, LifecycleAssumption, OriginInv, [Next]_vars
    PROVE  OriginInv'
  <1>0. BaseInv'
    BY NextBase
  <1>1. CASE JobsMove
    BY <1>0, <1>1, MoveKeeps
  <1>2. ASSUME NEW j \in Jobs, Dispatch(j) \/ Execution(j) PROVE OriginInv'
    BY <1>0, <1>1, <1>2, ExecutionSteps, ExecutionMoves, NextKeeps
  <1>3. ASSUME NEW w \in Workers,
               \/ WorkerOnly(w) \/ CancelJob(w) \/ BuildStep(w)
               \/ scheduleAutomaticJob(w) \/ HandleTerminalJob(w)
        PROVE  OriginInv'
    BY <1>0, <1>1, <1>3, OtherMoves, CancelMoves, RootKeeps
  <1>4. CASE Next
    BY <1>0, <1>1, <1>2, <1>3, <1>4, StepKinds, CreateKeeps, UpdateKeeps, DeleteKeeps, ManualKeeps,
       OtherMoves
  <1> QED
    BY <1>1, <1>4, OtherMoves

\* The chain of automatic jobs has one end, whatever its handlers and its
\* executions repeat, retry or run at the same time and whenever the workflow
\* is updated (jobs.go:410, executor.go:371): a chain that an update has ended
\* goes on beside the new one only from a job that was put back to be tried
\* again (workflows.go:1068, lease.go:653), and there is one such chain.
THEOREM OneChainEach ==
    ASSUME LifecycleAssumption
    PROVE  Spec => []OneChain
  <1>1. Init => BaseInv /\ OriginInv
    BY InitBase, InitOrigin
  <1>2. BaseInv /\ OriginInv /\ [Next]_vars => BaseInv' /\ OriginInv'
    BY NextBase, NextOrigin
  <1>3. BaseInv /\ OriginInv => OneChain
    BY OriginChain
  <1> QED
    BY <1>1, <1>2, <1>3, PTL DEF Spec

-----------------------------------------------------------------------------
(* A chain that is built goes on, with one handler at a time.               *)

\* What the outbox says of the generations: each is started by one event, and
\* the current one is terminated if the outbox says so.
LogInv ==
    /\ wf.state = "ABSENT" <=> wf.generation = 0
    /\ wf.state = "ABSENT" => log = <<>> /\ ~wf.terminated /\ \A j \in Jobs : status[j] = "NONE"
    /\ \A i \in 1..Len(log) : RootEvent(log[i]) => log[i].generation <= wf.generation /\ log[i].job = 0
    /\ \A i, k \in 1..Len(log) :
          RootEvent(log[i]) /\ RootEvent(log[k]) /\ log[i].generation = log[k].generation => i = k
    /\ \A i \in 1..Len(log) : log[i].action = "TERMINATE" =>
          /\ log[i].generation \in 1..wf.generation
          /\ log[i].generation = wf.generation => wf.terminated
    /\ wf.state = "LIVE" =>
          \E i \in 1..Len(log) : RootEvent(log[i]) /\ log[i].generation = wf.generation

\* A step that starts no generation ...
LogQuiet ==
    /\ wf'.generation = wf.generation /\ (wf.terminated => wf'.terminated)
    /\ wf'.state = wf.state \/ (wf.state = "LIVE" /\ wf'.state = "DELETED")
    /\ wf.state = "ABSENT" => UNCHANGED <<wf, log, status>>
    /\ Len(log') \in Nat /\ Len(log') >= Len(log)
    /\ \A i \in 1..Len(log) : log'[i] = log[i]
    /\ \A i \in 1..Len(log') :
          \/ i \in 1..Len(log) /\ log'[i] = log[i]
          \/ /\ ~RootEvent(log'[i])
             /\ log'[i].action = "TERMINATE" =>
                   log'[i].generation = wf.generation /\ wf'.terminated /\ wf.state # "ABSENT"

\* ... and one that does.
Starts(e) ==
    /\ wf'.generation = wf.generation + 1 /\ wf'.state = "LIVE"
    /\ RootEvent(e) /\ e.generation = wf.generation + 1 /\ e.job = 0
    /\ log' = Append(log, e)

LEMMA QuietKeeps ==
    ASSUME BaseInv, LogInv, LogQuiet
    PROVE  LogInv'
  <1>0. wf.generation \in Nat /\ Len(log) \in Nat /\ wf'.generation = wf.generation
    BY DEF BaseInv, TypeOK, WorkflowRows, LogQuiet
  <1>1. /\ wf'.state = "ABSENT" <=> wf'.generation = 0
        /\ wf'.state = "ABSENT" => log' = <<>> /\ ~wf'.terminated /\ \A j \in Jobs : status'[j] = "NONE"
    BY DEF LogInv, LogQuiet
  <1>2. \A i \in 1..Len(log') : RootEvent(log'[i]) => i \in 1..Len(log) /\ log'[i] = log[i]
    BY DEF LogQuiet
  <1>3. \A i \in 1..Len(log') : RootEvent(log'[i]) => log'[i].generation <= wf'.generation /\ log'[i].job = 0
    BY <1>0, <1>2 DEF LogInv
  <1>4. \A i, k \in 1..Len(log') :
          RootEvent(log'[i]) /\ RootEvent(log'[k]) /\ log'[i].generation = log'[k].generation => i = k
    <2> SUFFICES ASSUME NEW i \in 1..Len(log'), NEW k \in 1..Len(log'),
                        RootEvent(log'[i]), RootEvent(log'[k]), log'[i].generation = log'[k].generation
                 PROVE  i = k
      OBVIOUS
    <2>1. i \in 1..Len(log) /\ log'[i] = log[i] /\ k \in 1..Len(log) /\ log'[k] = log[k]
      BY <1>2
    <2> QED
      BY <2>1 DEF LogInv
  <1>5. ASSUME NEW i \in 1..Len(log'), log'[i].action = "TERMINATE"
        PROVE  /\ log'[i].generation \in 1..wf'.generation
               /\ log'[i].generation = wf'.generation => wf'.terminated
    <2>1. CASE i \in 1..Len(log) /\ log'[i] = log[i]
      <3>1. /\ log[i].generation \in 1..wf.generation
            /\ log[i].generation = wf.generation => wf.terminated
        BY <1>5, <2>1 DEF LogInv
      <3> QED
        BY <1>0, <2>1, <3>1 DEF LogQuiet
    <2>2. CASE log'[i].generation = wf.generation /\ wf'.terminated /\ wf.state # "ABSENT"
      <3>1. wf.generation # 0
        BY <2>2 DEF LogInv
      <3> QED
        BY <1>0, <2>2, <3>1
    <2> QED
      BY <1>5, <2>1, <2>2 DEF LogQuiet
  <1>6. wf'.state = "LIVE" =>
          \E i \in 1..Len(log') : RootEvent(log'[i]) /\ log'[i].generation = wf'.generation
    <2> SUFFICES ASSUME wf'.state = "LIVE"
                 PROVE  \E i \in 1..Len(log') : RootEvent(log'[i]) /\ log'[i].generation = wf'.generation
      OBVIOUS
    <2>1. PICK i \in 1..Len(log) : RootEvent(log[i]) /\ log[i].generation = wf.generation
      BY DEF LogInv, LogQuiet
    <2>2. i \in 1..Len(log') /\ log'[i] = log[i]
      BY <1>0 DEF LogQuiet
    <2> QED
      BY <1>0, <2>1, <2>2
  <1> QED
    BY <1>1, <1>3, <1>4, <1>5, <1>6 DEF LogInv

LEMMA StartKeeps ==
    ASSUME BaseInv, LogInv, NEW e \in Events, Starts(e)
    PROVE  LogInv'
  <1>0. /\ wf.generation \in Nat /\ log \in Seq(Events) /\ Len(log) \in Nat
        /\ wf'.generation = wf.generation + 1 /\ wf'.state = "LIVE"
    BY DEF BaseInv, TypeOK, WorkflowRows, Starts
  <1>1. /\ Len(log') = Len(log) + 1 /\ log'[Len(log) + 1] = e
        /\ \A i \in 1..Len(log) : log'[i] = log[i]
    BY <1>0 DEF Starts
  <1>2. ASSUME NEW i \in 1..Len(log'), i # Len(log) + 1
        PROVE  i \in 1..Len(log) /\ log'[i] = log[i]
    BY <1>0, <1>1, <1>2
  <1>3. ASSUME NEW i \in 1..Len(log), RootEvent(log[i])
        PROVE  log[i].generation \in Nat /\ log[i].generation <= wf.generation /\ log[i].job = 0
    <2>1. log[i] \in Events
      BY <1>0
    <2> QED
      BY <1>3, <2>1 DEF LogInv, Events
  <1>4. \A i \in 1..Len(log') : RootEvent(log'[i]) => log'[i].generation <= wf'.generation /\ log'[i].job = 0
    <2> SUFFICES ASSUME NEW i \in 1..Len(log'), RootEvent(log'[i])
                 PROVE  log'[i].generation <= wf'.generation /\ log'[i].job = 0
      OBVIOUS
    <2>1. CASE i = Len(log) + 1
      BY <1>0, <1>1, <2>1 DEF Starts
    <2>2. CASE i # Len(log) + 1
      BY <1>0, <1>2, <1>3, <2>2
    <2> QED
      BY <2>1, <2>2
  <1>5. \A i, k \in 1..Len(log') :
          RootEvent(log'[i]) /\ RootEvent(log'[k]) /\ log'[i].generation = log'[k].generation => i = k
    <2> SUFFICES ASSUME NEW i \in 1..Len(log'), NEW k \in 1..Len(log'),
                        RootEvent(log'[i]), RootEvent(log'[k]), log'[i].generation = log'[k].generation
                 PROVE  i = k
      OBVIOUS
    <2>1. CASE i # Len(log) + 1 /\ k # Len(log) + 1
      <3>1. i \in 1..Len(log) /\ log'[i] = log[i] /\ k \in 1..Len(log) /\ log'[k] = log[k]
        BY <1>2, <2>1
      <3> QED
        BY <3>1 DEF LogInv
    <2>2. ASSUME NEW x \in 1..Len(log'), x # Len(log) + 1, RootEvent(log'[x]),
                 log'[x].generation = e.generation
          PROVE  FALSE
      BY <1>0, <1>2, <1>3, <2>2 DEF Starts
    <2> QED
      BY <1>1, <2>1, <2>2
  <1>6. ASSUME NEW i \in 1..Len(log'), log'[i].action = "TERMINATE"
        PROVE  /\ log'[i].generation \in 1..wf'.generation
               /\ log'[i].generation = wf'.generation => wf'.terminated
    <2>1. i # Len(log) + 1
      BY <1>1, <1>6 DEF Starts, RootEvent
    <2>2. log[i].generation \in 1..wf.generation /\ log'[i] = log[i]
      BY <1>2, <1>6, <2>1 DEF LogInv
    <2> QED
      BY <1>0, <2>2
  <1>7. \E i \in 1..Len(log') : RootEvent(log'[i]) /\ log'[i].generation = wf'.generation
    <2>1. Len(log) + 1 \in 1..Len(log')
      BY <1>0, <1>1
    <2> QED
      BY <1>0, <1>1, <2>1 DEF Starts
  <1>8. wf'.state # "ABSENT" /\ wf'.generation # 0
    BY <1>0
  <1> QED
    BY <1>4, <1>5, <1>6, <1>7, <1>8 DEF LogInv

-----------------------------------------------------------------------------
\* An update that finds the workflow terminated starts a build.
LEMMA TerminatedRebuilds ==
    ASSUME BaseInv, NEW h \in BOOLEAN, NEW i \in BOOLEAN, UpdateWorkflow(h, i), wf.terminated
    PROVE  wf'.generation = wf.generation + 1 /\ wf'.build = "QUEUED"
  <1> DEFINE interval == IF i THEN 1 - wf.interval ELSE wf.interval
  <1>1. BuildRequired(h)
    BY DEF BuildRequired
  <1>2. wf' = [wf EXCEPT !.generation = wf.generation + 1, !.build = "QUEUED",
                         !.interval = interval, !.failures = 0, !.terminated = FALSE]
    BY <1>1, Zenon DEF UpdateWorkflow
  <1>3. wf \in WorkflowRows
    BY DEF BaseInv, TypeOK
  <1> HIDE DEF interval
  <1> QED
    BY <1>2, <1>3 DEF WorkflowRows

\* A row that only some fields change of.
LEMMA RowFields ==
    ASSUME BaseInv
    PROVE  /\ wf' = [wf EXCEPT !.terminated = TRUE] =>
                 wf'.generation = wf.generation /\ wf'.state = wf.state /\ wf'.terminated
                 /\ wf'.build = wf.build
           /\ wf' = [wf EXCEPT !.state = "DELETED"] =>
                 wf'.generation = wf.generation /\ wf'.state = "DELETED"
                 /\ wf'.terminated = wf.terminated /\ wf'.build = wf.build
           /\ \A new : wf' = [wf EXCEPT !.build = new] =>
                 wf'.generation = wf.generation /\ wf'.state = wf.state
                 /\ wf'.terminated = wf.terminated /\ wf'.build = new
           /\ \A kind : wf' = [wf EXCEPT !.state = "LIVE", !.kind = kind, !.generation = 1] =>
                 wf'.generation = 1 /\ wf'.state = "LIVE"
                 /\ wf'.terminated = wf.terminated /\ wf'.build = wf.build
           /\ \A n, t : wf' = [wf EXCEPT !.failures = n, !.terminated = t] =>
                 wf'.generation = wf.generation /\ wf'.state = wf.state
                 /\ wf'.terminated = t /\ wf'.build = wf.build
           /\ \A n : wf' = [wf EXCEPT !.failures = n] =>
                 wf'.generation = wf.generation /\ wf'.state = wf.state
                 /\ wf'.terminated = wf.terminated /\ wf'.build = wf.build
  <1>1. wf \in WorkflowRows
    BY DEF BaseInv, TypeOK
  <1> QED
    BY <1>1 DEF WorkflowRows

\* A count leaves the build and the generation alone; it terminates the
\* workflow or leaves that alone too.
LEMMA CountedRow ==
    ASSUME BaseInv, LifecycleAssumption, NEW w \in Workers, HandleTerminalJob(w)
    PROVE  /\ wf'.generation = wf.generation /\ wf'.state = wf.state /\ wf'.build = wf.build
           /\ wf.terminated => wf'.terminated
           /\ \/ UNCHANGED log
              \/ LogExtends(Event("TERMINATE", wf.generation)) /\ wf'.terminated
  <1>0. Counts(Ev(w)) /\ Ev(w) \in Events /\ wf \in WorkflowRows /\ log \in Seq(Events)
    BY CountStep DEF BaseInv, TypeOK
  <1>1. CASE UNCHANGED <<wf, log>>
    BY <1>1
  <1>2. CASE IncrementFailures(Ev(w).job)
    <2> DEFINE reached == wf.failures + 1 >= MaxFailures
    <2>1. CASE UNCHANGED <<wf, log>>
      BY <2>1
    <2>2. CASE /\ ~wf.terminated
               /\ wf' = [wf EXCEPT !.failures = wf.failures + 1, !.terminated = reached]
               /\ IF reached THEN insertWorkflowOutboxEvent(Event("TERMINATE", wf.generation))
                             ELSE UNCHANGED log
      <3>1. /\ wf'.generation = wf.generation /\ wf'.state = wf.state /\ wf'.build = wf.build
            /\ wf'.terminated = reached
        <4> HIDE DEF reached
        <4> QED
          BY <2>2, RowFields
      <3>2. Event("TERMINATE", wf.generation) \in Events
        BY <1>0, EventsAreEvents DEF WorkflowRows, Actions
      <3>3. CASE reached
        BY <1>0, <2>2, <3>1, <3>2, <3>3, OutboxGrows
      <3>4. CASE ~reached
        BY <2>2, <3>1, <3>4
      <3> QED
        BY <3>3, <3>4
    <2> QED
      BY <1>2, <2>1, <2>2, Zenon DEF IncrementFailures
  <1>3. CASE resetWorkflowFailureCount(Ev(w).job)
    <2>1. wf' = wf \/ wf' = [wf EXCEPT !.failures = 0]
      BY <1>3, Zenon DEF resetWorkflowFailureCount
    <2> QED
      BY <1>3, <2>1, RowFields DEF resetWorkflowFailureCount
  <1> QED
    BY <1>0, <1>1, <1>2, <1>3 DEF Counts

\* Nothing is handled before the workflow is created.
LEMMA NothingBefore ==
    ASSUME BaseInv, LogInv, NEW w \in Workers, handler[w].pc # "idle"
    PROVE  wf.state # "ABSENT"
  <1>1. handler[w].at \in 1..Len(log)
    BY DEF BaseInv, HandlersNamed, Named
  <1> QED
    BY <1>1 DEF LogInv

\* What a step does to the row: within a generation it neither takes a build
\* back nor revives the workflow, and only the end of a build completes it.
RowMoves ==
    /\ wf'.generation = wf.generation =>
          /\ wf.build = "COMPLETED" => wf'.build = "COMPLETED"
          /\ wf.terminated => wf'.terminated
          /\ wf'.state = "LIVE" => wf.state = "LIVE"
    /\ wf.terminated => wf'.terminated \/ wf'.build # "COMPLETED"
    /\ wf'.build = "COMPLETED" =>
          wf.build = "COMPLETED" \/ \E w \in Workers : completeWorkflowBuild(w)

StepOK == RowMoves /\ (LogQuiet \/ \E e \in Events : Starts(e))

LEMMA StillOK ==
    ASSUME BaseInv, UNCHANGED <<wf, log>>, wf.state = "ABSENT" => UNCHANGED status
    PROVE  StepOK
  <1>1. Len(log) \in Nat
    BY DEF BaseInv, TypeOK
  <1> QED
    BY <1>1 DEF StepOK, RowMoves, LogQuiet

LEMMA AddedOK ==
    ASSUME BaseInv, NEW e, LogExtends(e) \/ UNCHANGED log, ~RootEvent(e), wf.state # "ABSENT",
           e.action = "TERMINATE" => e.generation = wf.generation /\ (UNCHANGED log \/ wf'.terminated),
           wf'.generation = wf.generation, wf'.build = wf.build, wf.terminated => wf'.terminated,
           wf'.state = wf.state \/ (wf.state = "LIVE" /\ wf'.state = "DELETED")
    PROVE  StepOK
  <1>1. Len(log) \in Nat
    BY DEF BaseInv, TypeOK
  <1>2. LogQuiet
    BY <1>1 DEF LogExtends, LogQuiet
  <1> QED
    BY <1>2 DEF StepOK, RowMoves

LEMMA UserOK ==
    ASSUME BaseInv, LifecycleAssumption, LogInv,
           \/ \E kind \in Kinds : CreateWorkflow(kind)
           \/ \E h, i \in BOOLEAN : UpdateWorkflow(h, i)
           \/ TerminateWorkflow
           \/ DeleteReadsWorkflow \/ DeleteReadsJobs \/ DeleteWorkflow
           \/ ScheduleManualJob
    PROVE  StepOK
  <1>0. /\ wf.generation \in Nat /\ log \in Seq(Events) /\ Len(log) \in Nat
        /\ {"BUILD", "RESCHEDULE", "TERMINATE"} \subseteq Actions \cup {"DELETE"}
    BY DEF BaseInv, TypeOK, WorkflowRows, Actions
  <1>1. ASSUME NEW e \in Events, RootEvent(e), e.generation = wf.generation + 1, e.job = 0,
               insertWorkflowOutboxEvent(e), wf'.generation = wf.generation + 1, wf'.state = "LIVE"
        PROVE  Starts(e)
    <2>1. \A i \in DOMAIN log : log[i] # e
      <3> SUFFICES ASSUME NEW i \in 1..Len(log), log[i] = e PROVE FALSE
        BY <1>0
      <3> QED
        BY <1>0, <1>1 DEF LogInv
    <2>2. log' = Append(log, e)
      BY <1>1, <2>1 DEF insertWorkflowOutboxEvent
    <2> QED
      BY <1>1, <2>2 DEF Starts
  <1>2. ASSUME NEW kind \in Kinds, CreateWorkflow(kind) PROVE StepOK
    <2>1. /\ wf.state = "ABSENT" /\ wf.generation = 0 /\ ~wf.terminated
          /\ wf' = [wf EXCEPT !.state = "LIVE", !.kind = kind, !.generation = 1]
          /\ insertWorkflowOutboxEvent(Event("BUILD", 1))
      BY <1>2 DEF CreateWorkflow, LogInv
    <2>2. wf'.generation = wf.generation + 1 /\ wf'.state = "LIVE" /\ wf'.build = wf.build
      <3>1. wf'.generation = 1 /\ wf'.state = "LIVE" /\ wf'.build = wf.build
        BY <2>1, RowFields, Zenon
      <3> QED
        BY <2>1, <3>1
    <2>3. /\ Event("BUILD", 1) \in Events /\ RootEvent(Event("BUILD", 1))
          /\ Event("BUILD", 1).generation = wf.generation + 1 /\ Event("BUILD", 1).job = 0
      BY <1>0, <2>1, EventsAreEvents DEF Event, RootEvent
    <2>4. Starts(Event("BUILD", 1))
      BY <1>1, <2>1, <2>2, <2>3
    <2> QED
      BY <1>0, <2>1, <2>2, <2>3, <2>4 DEF StepOK, RowMoves
  <1>3. ASSUME NEW h \in BOOLEAN, NEW i \in BOOLEAN, UpdateWorkflow(h, i) PROVE StepOK
    <2>1. PICK interval \in {0, 1} :
              /\ wf.state = "LIVE"
              /\ \/ /\ UpdateRow(FALSE, FALSE, interval)
                    /\ UNCHANGED <<status, log>>
                 \/ \E resched \in BOOLEAN : UpdateRow(resched, TRUE, interval) /\ Restarts(resched)
      BY <1>3, UpdateSteps
    <2>2. wf.terminated => wf'.generation = wf.generation + 1 /\ wf'.build = "QUEUED"
      BY <1>3, TerminatedRebuilds
    <2>3. CASE UpdateRow(FALSE, FALSE, interval) /\ UNCHANGED <<status, log>>
      <3>1. wf'.generation = wf.generation /\ wf'.state = wf.state /\ wf'.build = wf.build
        BY <2>3, UpdatedRow
      <3>2. ~wf.terminated
        BY <1>0, <2>2, <3>1
      <3> QED
        BY <1>0, <2>1, <2>3, <3>1, <3>2 DEF StepOK, RowMoves, LogQuiet
    <2>4. ASSUME NEW resched \in BOOLEAN, UpdateRow(resched, TRUE, interval), Restarts(resched)
          PROVE  StepOK
      <3> DEFINE a == IF resched THEN "RESCHEDULE" ELSE "BUILD"
                 e == Event(a, wf.generation + 1)
      <3>1. /\ wf'.generation = wf.generation + 1 /\ wf'.state = "LIVE"
            /\ wf'.build = "QUEUED" \/ wf'.build = wf.build
        BY <2>1, <2>4, UpdatedRow
      <3>2. /\ e \in Events /\ RootEvent(e) /\ e.generation = wf.generation + 1 /\ e.job = 0
        BY <1>0, EventsAreEvents DEF Event, RootEvent
      <3>3. Starts(e)
        BY <1>1, <2>4, <3>1, <3>2 DEF Restarts
      <3> QED
        BY <1>0, <2>2, <3>1, <3>2, <3>3 DEF StepOK, RowMoves
    <2> QED
      BY <2>1, <2>3, <2>4
  <1>4. CASE TerminateWorkflow
    <2>1. /\ wf.state = "LIVE" /\ wf' = [wf EXCEPT !.terminated = TRUE]
          /\ LogExtends(Event("TERMINATE", wf.generation))
      BY <1>4, TerminateBase DEF TerminateWorkflow, Command
    <2>2. /\ wf'.generation = wf.generation /\ wf'.state = wf.state /\ wf'.terminated
          /\ wf'.build = wf.build
      BY <2>1, RowFields
    <2>3. /\ ~RootEvent(Event("TERMINATE", wf.generation))
          /\ Event("TERMINATE", wf.generation).generation = wf.generation
      BY DEF RootEvent, Event
    <2> QED
      BY <2>1, <2>2, <2>3, AddedOK
  <1>5. CASE DeleteReadsWorkflow \/ DeleteReadsJobs \/ DeleteWorkflow
    <2>1. CASE UNCHANGED <<wf, jobVars, log>>
      BY <2>1, StillOK DEF jobVars
    <2>2. CASE Deletes /\ LogExtends(Event("DELETE", 0))
      <3>1. /\ wf'.generation = wf.generation /\ wf'.state = "DELETED" /\ wf'.terminated
            /\ wf'.build = wf.build /\ wf.state # "ABSENT"
        BY <2>2, RowFields DEF Deletes, LogInv
      <3>2. wf.state \in {"LIVE", "DELETED"}
        BY <3>1 DEF BaseInv, TypeOK, WorkflowRows
      <3>3. ~RootEvent(Event("DELETE", 0)) /\ Event("DELETE", 0).action # "TERMINATE"
        BY DEF RootEvent, Event
      <3> QED
        BY <2>2, <3>1, <3>2, <3>3, AddedOK
    <2> QED
      BY <1>5, <2>1, <2>2, DeleteSteps
  <1>6. CASE ScheduleManualJob
    BY <1>6, ManualSteps, StillOK
  <1> QED
    BY <1>2, <1>3, <1>4, <1>5, <1>6

\* A build status that is COMPLETED stays, and only completeWorkflowBuild
\* sets it.
LEMMA BuildRow ==
    ASSUME BaseInv, NEW w \in Workers, BuildStep(w)
    PROVE  /\ wf'.generation = wf.generation /\ wf'.state = wf.state
           /\ wf'.terminated = wf.terminated
           /\ wf.build = "COMPLETED" => wf'.build = "COMPLETED"
           /\ wf'.build = "COMPLETED" => wf.build = "COMPLETED" \/ completeWorkflowBuild(w)
  <1>1. ASSUME NEW new \in {"STARTED", "FAILED", "COMPLETED"}, NEW pc,
               UpdateWorkflowBuildStatus(w, new, pc)
        PROVE  \/ UNCHANGED wf
               \/ wf' = [wf EXCEPT !.build = new] /\ wf.build # "COMPLETED"
    BY <1>1 DEF UpdateWorkflowBuildStatus, workflowBuildTransitionAllowed
  <1>2. CASE completeWorkflowBuild(w)
    BY <1>1, <1>2, RowFields DEF completeWorkflowBuild
  <1>3. CASE StartBuild(w) \/ handleWorkflowBuildFailure(w)
    <2>1. \/ UNCHANGED wf
          \/ wf.build # "COMPLETED" /\ \E new \in {"STARTED", "FAILED"} : wf' = [wf EXCEPT !.build = new]
      BY <1>1, <1>3 DEF StartBuild, handleWorkflowBuildFailure
    <2> QED
      BY <2>1, RowFields
  <1> QED
    BY <1>2, <1>3 DEF BuildStep

LEMMA OtherOK ==
    ASSUME BaseInv, LifecycleAssumption, LogInv,
           \/ \E j \in Jobs : Dispatch(j) \/ Execution(j)
           \/ \E w \in Workers : WorkerOnly(w) \/ CancelJob(w) \/ BuildStep(w)
                                 \/ scheduleAutomaticJob(w) \/ HandleTerminalJob(w)
           \/ \E a \in Actions : LockExpires(a)
           \/ UNCHANGED vars
    PROVE  StepOK
  <1>1. ASSUME NEW j \in Jobs, Dispatch(j) \/ Execution(j) PROVE StepOK
    <2>1. /\ UNCHANGED wf /\ status[j] # "NONE"
          /\ UNCHANGED log \/ \E e : LogExtends(e) /\ ~RootEvent(e) /\ e.action # "TERMINATE"
      <3>1. CASE Dispatch(j) \/ Claim(j) \/ deferBlockedJob(j) \/ GoesOn(j)
        BY <3>1 DEF Dispatch, Claim, deferBlockedJob, GoesOn
      <3>2. CASE scheduleNextAutomaticJob(j)
        BY <3>2, NextScheduled
      <3>3. ASSUME NEW new \in {"COMPLETED", "FAILED", "CANCELED", "PENDING"}, Leaves(j, new)
            PROVE  /\ UNCHANGED wf /\ status[j] # "NONE"
                   /\ UNCHANGED log \/ \E e : LogExtends(e) /\ ~RootEvent(e) /\ e.action # "TERMINATE"
        <4>1. UNCHANGED wf /\ status[j] = "RUNNING"
          BY <3>3 DEF Leaves, Leave
        <4>2. UNCHANGED log \/ (new \in {"COMPLETED", "FAILED"} /\ LogExtends(JobEvent(new, j)))
          BY <3>3, LeavesBase
        <4>3. new \in {"COMPLETED", "FAILED"} =>
                 ~RootEvent(JobEvent(new, j)) /\ JobEvent(new, j).action # "TERMINATE"
          BY DEF JobEvent, RootEvent
        <4> QED
          BY <4>1, <4>2, <4>3
      <3> QED
        BY <1>1, <3>1, <3>2, <3>3, ExecutionSteps
    <2>2. wf.state # "ABSENT"
      BY <2>1 DEF LogInv
    <2>3. CASE UNCHANGED log
      BY <2>1, <2>2, <2>3, StillOK
    <2>4. ASSUME NEW e, LogExtends(e), ~RootEvent(e), e.action # "TERMINATE" PROVE StepOK
      BY <2>1, <2>2, <2>4, AddedOK
    <2> QED
      BY <2>1, <2>3, <2>4
  <1>2. ASSUME NEW w \in Workers, WorkerOnly(w) PROVE StepOK
    BY <1>2, WorkerOnlyBase, StillOK DEF jobVars
  <1>3. ASSUME NEW w \in Workers, CancelJob(w) \/ scheduleAutomaticJob(w) PROVE StepOK
    <2>1. UNCHANGED <<wf, log>> /\ handler[w].pc # "idle"
      BY <1>3, ScheduleStep DEF CancelJob, At
    <2> QED
      BY <2>1, NothingBefore, StillOK
  <1>4. ASSUME NEW w \in Workers, BuildStep(w) PROVE StepOK
    <2>1. /\ wf'.generation = wf.generation /\ wf'.state = wf.state
          /\ wf'.terminated = wf.terminated
          /\ wf.build = "COMPLETED" => wf'.build = "COMPLETED"
          /\ wf'.build = "COMPLETED" => wf.build = "COMPLETED" \/ completeWorkflowBuild(w)
      BY <1>4, BuildRow
    <2>2. UNCHANGED log /\ handler[w].pc # "idle" /\ Len(log) \in Nat
      BY <1>4, BuildStepRow
         DEF BuildStep, StartBuild, handleWorkflowBuildFailure, completeWorkflowBuild, At, BaseInv, TypeOK
    <2> QED
      BY <2>1, <2>2, NothingBefore DEF StepOK, RowMoves, LogQuiet
  <1>5. ASSUME NEW w \in Workers, HandleTerminalJob(w) PROVE StepOK
    <2>1. /\ wf'.generation = wf.generation /\ wf'.state = wf.state /\ wf'.build = wf.build
          /\ wf.terminated => wf'.terminated
          /\ \/ UNCHANGED log
             \/ LogExtends(Event("TERMINATE", wf.generation)) /\ wf'.terminated
      BY <1>5, CountedRow
    <2>2. wf.state # "ABSENT"
      BY <1>5, CountStep, NothingBefore
    <2>3. /\ ~RootEvent(Event("TERMINATE", wf.generation))
          /\ Event("TERMINATE", wf.generation).generation = wf.generation
      BY DEF RootEvent, Event
    <2> QED
      BY <2>1, <2>2, <2>3, AddedOK
  <1>6. ASSUME UNCHANGED vars \/ \E a \in Actions : LockExpires(a) PROVE StepOK
    BY <1>6, StillOK, LockExpiresBase DEF vars, jobVars
  <1> QED
    BY <1>1, <1>2, <1>3, <1>4, <1>5, <1>6

LEMMA NextOK ==
    ASSUME BaseInv, LifecycleAssumption, LogInv, [Next]_vars
    PROVE  StepOK /\ LogInv'
  <1>1. StepOK
    BY StepKinds, UserOK, OtherOK
  <1> QED
    BY <1>1, QuietKeeps, StartKeeps DEF StepOK

-----------------------------------------------------------------------------
\* A handler on its way to a build's end finds the build open; one that
\* cancels for a termination finds the workflow terminated or rebuilt.
Building == {"lock", "list", "cancel", "start", "build", "complete", "fail", "end"}

Phase(pc, e, row) ==
    /\ pc \in {"list", "cancel"} => e.action \in {"BUILD", "TERMINATE"}
    /\ pc = "end" => e.action \in {"BUILD", "DELETE"}
    /\ pc = "notify" => e.action \in {"COMPLETED", "FAILED"}
    /\ pc \in Building /\ e.action = "BUILD" => row.build # "COMPLETED"
    /\ pc \in Building /\ e.action = "TERMINATE" => row.terminated \/ row.build # "COMPLETED"

\* One handler runs at a time, on the next event.
HandlerInv ==
    \A w \in Workers : handler[w].pc # "idle" =>
        /\ \A v \in Workers \ {w} : handler[v].pc = "idle"
        /\ handler[w].at = committed + 1
        /\ Phase(handler[w].pc, log[handler[w].at], wf)

LEMMA LogKept ==
    ASSUME BaseInv, StepOK
    PROVE  \A i \in 1..Len(log) : i \in 1..Len(log') /\ log'[i] = log[i]
  <1>0. log \in Seq(Events) /\ Len(log) \in Nat
    BY DEF BaseInv, TypeOK
  <1>1. CASE LogQuiet
    BY <1>0, <1>1 DEF LogQuiet
  <1>2. ASSUME NEW e \in Events, log' = Append(log, e)
        PROVE  \A i \in 1..Len(log) : i \in 1..Len(log') /\ log'[i] = log[i]
    BY <1>0, <1>2
  <1> QED
    BY <1>1, <1>2 DEF StepOK, Starts

LEMMA HandlersStay ==
    ASSUME BaseInv, HandlerInv, StepOK, UNCHANGED <<handler, committed>>,
           wf'.build = "COMPLETED" => wf.build = "COMPLETED"
    PROVE  HandlerInv'
  <1> SUFFICES ASSUME NEW w \in Workers, handler[w].pc # "idle"
               PROVE  Phase(handler[w].pc, log'[handler[w].at], wf')
    BY DEF HandlerInv
  <1>1. handler[w].at \in 1..Len(log)
    BY DEF BaseInv, HandlersNamed, Named
  <1>2. log'[handler[w].at] = log[handler[w].at]
    BY <1>1, LogKept
  <1>3. Phase(handler[w].pc, log[handler[w].at], wf)
    BY DEF HandlerInv
  <1> QED
    BY <1>2, <1>3 DEF Phase, StepOK, RowMoves

\* One worker moves to h, in the step that it takes.
Turn(w, h) ==
    /\ handler' = [handler EXCEPT ![w] = h]
    /\ handler[w].pc = "idle" => \A v \in Workers : handler[v].pc = "idle"
    /\ \/ h.pc = "idle"
       \/ h.at = committed' + 1 /\ Phase(h.pc, log'[h.at], wf')

LEMMA TurnKeeps ==
    ASSUME BaseInv, HandlerInv, NEW w \in Workers, NEW h, Turn(w, h)
    PROVE  HandlerInv'
  <1>1. handler'[w] = h /\ \A v \in Workers \ {w} : handler'[v] = handler[v]
    BY DEF Turn, BaseInv, TypeOK
  <1>2. \A v \in Workers \ {w} : handler[v].pc = "idle"
    BY DEF HandlerInv, Turn
  <1> QED
    BY <1>1, <1>2 DEF HandlerInv, Turn

LEMMA ReturnTurns ==
    ASSUME BaseInv, HandlerInv, NEW w \in Workers, handler[w].pc # "idle",
           handler' = [handler EXCEPT ![w] = Idle]
    PROVE  HandlerInv'
  <1>1. Turn(w, Idle)
    BY DEF Turn, Idle
  <1> QED
    BY <1>1, TurnKeeps

\* A handler that does not return stays at its event.
LEMMA GoTurns ==
    ASSUME BaseInv, HandlerInv, NEW w \in Workers, NEW h, handler[w].pc # "idle",
           handler' = [handler EXCEPT ![w] = h], h.at = handler[w].at,
           UNCHANGED <<committed, log>>, Phase(h.pc, Ev(w), wf')
    PROVE  HandlerInv'
  <1>1. Turn(w, h)
    BY DEF Turn, HandlerInv, Ev
  <1> QED
    BY <1>1, TurnKeeps

LEMMA GotoTurns ==
    ASSUME BaseInv, HandlerInv, NEW w \in Workers, NEW pc, handler[w].pc # "idle",
           Goto(w, pc), UNCHANGED <<committed, log>>, Phase(pc, Ev(w), wf')
    PROVE  HandlerInv'
  <1> DEFINE h == [handler[w] EXCEPT !.pc = pc]
  <1>1. handler[w] \in HandlerStates
    BY DEF BaseInv, TypeOK
  <1>2. h.pc = pc /\ h.at = handler[w].at
    BY <1>1 DEF HandlerStates
  <1>3. handler' = [handler EXCEPT ![w] = h]
    BY DEF Goto, BaseInv, TypeOK
  <1> HIDE DEF h
  <1>4. Phase(h.pc, Ev(w), wf')
    BY <1>2 DEF Phase
  <1> QED
    BY <1>2, <1>3, <1>4, GoTurns

LEMMA LoadTurns ==
    ASSUME BaseInv, LogInv, HandlerInv, NEW w \in Workers, runTargetWorkflow(w)
    PROVE  HandlerInv'
  <1>0. /\ UNCHANGED <<wf, log>> /\ handler[w].pc = "load" /\ handler[w] \in HandlerStates
        /\ \E i \in 1..Len(log) : log[i] = Ev(w)
    BY DEF runTargetWorkflow, buildWorkflow, rescheduleWorkflow, terminateWorkflow, deleteWorkflow,
           loadWorkflowForTerminalJobEvent, OnlyWorker, Loaded, At, BaseInv, TypeOK, HandlersNamed, Named,
           Ev
  <1>1. CASE Return(w)
    BY <1>0, <1>1, ReturnTurns DEF Return
  <1>2. ASSUME LockNext(w), Phase("lock", Ev(w), wf)
        PROVE  HandlerInv'
    <2> DEFINE h == [handler[w] EXCEPT !.pc = "lock", !.build = wf.build]
    <2>1. h.pc = "lock" /\ h.at = handler[w].at
      BY <1>0 DEF HandlerStates
    <2>2. handler' = [handler EXCEPT ![w] = h] /\ UNCHANGED committed
      BY <1>2 DEF LockNext, StayHeld, BaseInv, TypeOK
    <2> HIDE DEF h
    <2> QED
      BY <1>0, <1>2, <2>1, <2>2, GoTurns
  <1>3. CASE LockNext(w) /\ Ev(w).action = "BUILD" /\ isResumableWorkflowBuildStatus(wf.build)
    BY <1>2, <1>3 DEF Phase, isResumableWorkflowBuildStatus
  <1>4. CASE LockNext(w) /\ Ev(w).action \in {"RESCHEDULE", "DELETE"}
    BY <1>2, <1>4 DEF Phase
  <1>5. CASE LockNext(w) /\ Ev(w).action = "TERMINATE" /\ Current(w)
    <2>1. /\ Ev(w).generation \in 1..wf.generation
          /\ Ev(w).generation = wf.generation => wf.terminated
      BY <1>0, <1>5 DEF LogInv
    <2>2. Ev(w).generation = wf.generation
      BY <1>5, <2>1 DEF Current, isStaleWorkflowEvent
    <2> QED
      BY <1>2, <1>5, <2>1, <2>2 DEF Phase
  <1>6. CASE (Goto(w, "again") \/ Goto(w, "count")) /\ StayHeld
    BY <1>0, <1>6, GotoTurns DEF StayHeld, Phase, Building
  <1> QED
    BY <1>0, <1>1, <1>3, <1>4, <1>5, <1>6
       DEF runTargetWorkflow, buildWorkflow, rescheduleWorkflow, terminateWorkflow, deleteWorkflow,
           loadWorkflowForTerminalJobEvent, Loaded

LEMMA SweepTurns ==
    ASSUME BaseInv, HandlerInv, NEW w \in Workers,
           AcquireDistributedLock(w) \/ ListJobs(w) \/ Swept(w) \/ CancelJob(w)
    PROVE  HandlerInv'
  <1>0. /\ UNCHANGED <<wf, log>> /\ handler[w].pc \in {"lock", "list", "cancel"}
        /\ handler[w] \in HandlerStates /\ Phase(handler[w].pc, Ev(w), wf)
        /\ handler[w].pc = "lock" => Ev(w).action \in Actions
    BY DEF AcquireDistributedLock, ListJobs, Swept, CancelJob, OnlyWorker, At, BaseInv, TypeOK,
           HandlersNamed, Named, HandlerInv, Ev
  <1>1. CASE Return(w)
    BY <1>0, <1>1, ReturnTurns DEF Return
  <1>2. ASSUME NEW h, handler' = [handler EXCEPT ![w] = h], h.at = handler[w].at,
               h.pc \in {"list", "cancel"}, UNCHANGED committed,
               Ev(w).action \in {"BUILD", "TERMINATE"}
        PROVE  HandlerInv'
    <2>1. Phase(h.pc, Ev(w), wf)
      BY <1>0, <1>2 DEF Phase, Building
    <2> QED
      BY <1>0, <1>2, <2>1, GoTurns
  <1>3. CASE AcquireDistributedLock(w)
    <2>1. CASE \/ Ev(w).action = "RESCHEDULE" /\ Goto(w, "schedule")
               \/ Ev(w).action = "DELETE" /\ Goto(w, "end")
      BY <1>0, <1>3, <2>1, GotoTurns DEF AcquireDistributedLock, Phase, Building
    <2>2. CASE /\ Ev(w).action \in {"BUILD", "TERMINATE"}
               /\ handler' = [handler EXCEPT ![w].pc = "list", ![w].sweep = 1]
      <3> DEFINE h == [handler[w] EXCEPT !.pc = "list", !.sweep = 1]
      <3>1. h.pc = "list" /\ h.at = handler[w].at
        BY <1>0 DEF HandlerStates
      <3>2. handler' = [handler EXCEPT ![w] = h] /\ UNCHANGED committed
        BY <1>3, <2>2 DEF AcquireDistributedLock, BaseInv, TypeOK
      <3> HIDE DEF h
      <3> QED
        BY <1>2, <2>2, <3>1, <3>2
    <2> QED
      BY <1>3, <2>1, <2>2 DEF AcquireDistributedLock
  <1>4. CASE ListJobs(w)
    <2> DEFINE S == {j \in Jobs : status[j] = SweepOrder(Ev(w).action)[handler[w].sweep]}
               n == handler[w].sweep + 1
               h == [handler[w] EXCEPT !.pc = "cancel", !.sweep = n, !.todo = S]
    <2>1. handler' = [handler EXCEPT ![w] = h] /\ UNCHANGED committed
      BY <1>4 DEF ListJobs, StayHeld, BaseInv, TypeOK
    <2>2. Ev(w).action \in {"BUILD", "TERMINATE"}
      BY <1>0, <1>4 DEF ListJobs, At, Phase
    <2>3. h.pc = "cancel" /\ h.at = handler[w].at
      <3> HIDE DEF S, n
      <3> QED
        BY <1>0 DEF HandlerStates
    <2> HIDE DEF h
    <2> QED
      BY <1>2, <2>1, <2>2, <2>3
  <1>5. CASE CancelJob(w)
    <2>1. PICK j \in handler[w].todo :
              Return(w) \/ (handler' = [handler EXCEPT ![w].todo = @ \ {j}] /\ StayHeld)
      BY <1>5 DEF CancelJob
    <2> DEFINE S == handler[w].todo \ {j}
               h == [handler[w] EXCEPT !.todo = S]
    <2>2. CASE handler' = [handler EXCEPT ![w].todo = @ \ {j}] /\ StayHeld
      <3>1. handler' = [handler EXCEPT ![w] = h] /\ UNCHANGED committed
        BY <2>2 DEF StayHeld, BaseInv, TypeOK
      <3>2. h.pc = "cancel" /\ h.at = handler[w].at
        <4>1. handler[w].pc = "cancel"
          BY <1>5 DEF CancelJob, At
        <4> HIDE DEF S
        <4> QED
          BY <1>0, <4>1 DEF HandlerStates
      <3>3. Ev(w).action \in {"BUILD", "TERMINATE"}
        BY <1>0, <1>5 DEF CancelJob, At, Phase
      <3> HIDE DEF h
      <3> QED
        BY <1>2, <3>1, <3>2, <3>3
    <2> QED
      BY <1>1, <2>1, <2>2
  <1>6. CASE Swept(w)
    <2>1. CASE \E pc \in {"list", "complete", "start", "build"} : Goto(w, pc) /\ StayHeld
      <3>1. PICK pc \in {"list", "complete", "start", "build"} : Goto(w, pc) /\ StayHeld
        BY <2>1
      <3>2. Phase(pc, Ev(w), wf)
        BY <1>0, <1>6, <3>1 DEF Swept, At, Phase, Building
      <3> QED
        BY <1>0, <3>1, <3>2, GotoTurns DEF StayHeld
    <2> QED
      BY <1>1, <1>6, <2>1 DEF Swept
  <1> QED
    BY <1>3, <1>4, <1>5, <1>6

LEMMA BuildTurns ==
    ASSUME BaseInv, HandlerInv, NEW w \in Workers,
           \/ StartBuild(w) \/ BuildImage(w) \/ handleWorkflowBuildFailure(w)
           \/ completeWorkflowBuild(w) \/ getSchedulableWorkflow(w)
    PROVE  HandlerInv'
  <1>0. /\ UNCHANGED log /\ handler[w].pc # "idle" /\ wf \in WorkflowRows
        /\ handler[w].pc = "build" => Ev(w).action = "BUILD"
        /\ handler[w].pc = "fail" => Ev(w).action = "BUILD"
        /\ handler[w].pc = "start" => Ev(w).action = "BUILD"
        /\ Phase(handler[w].pc, Ev(w), wf)
    BY DEF StartBuild, BuildImage, handleWorkflowBuildFailure, completeWorkflowBuild,
           getSchedulableWorkflow, UpdateWorkflowBuildStatus, OnlyWorker, At, BaseInv, TypeOK,
           HandlersNamed, Named, HandlerInv, Ev
  <1>1. CASE Return(w)
    BY <1>0, <1>1, ReturnTurns DEF Return
  <1>2. ASSUME NEW pc, Goto(w, pc), StayHeld, Phase(pc, Ev(w), wf')
        PROVE  HandlerInv'
    BY <1>0, <1>2, GotoTurns DEF StayHeld
  <1>3. CASE BuildImage(w)
    <2>1. PICK pc \in {"complete", "fail"} : Goto(w, pc)
      BY <1>3 DEF BuildImage
    <2>2. Phase(pc, Ev(w), wf') /\ StayHeld
      BY <1>0, <1>3, <2>1 DEF BuildImage, At, OnlyWorker, Phase, Building
    <2> QED
      BY <1>2, <2>1, <2>2
  <1>4. CASE getSchedulableWorkflow(w)
    <2>1. Phase("schedule", Ev(w), wf')
      BY DEF Phase, Building
    <2> QED
      BY <1>1, <1>2, <1>4, <2>1 DEF getSchedulableWorkflow
  <1>5. CASE completeWorkflowBuild(w)
    <2>1. Phase("reload", Ev(w), wf')
      BY DEF Phase, Building
    <2> QED
      BY <1>1, <1>2, <1>5, <2>1 DEF completeWorkflowBuild, UpdateWorkflowBuildStatus
  <1>6. ASSUME NEW new \in {"STARTED", "FAILED"}, NEW pc \in {"build", "end"},
               UpdateWorkflowBuildStatus(w, new, pc), Ev(w).action = "BUILD"
        PROVE  HandlerInv'
    <2>1. CASE Goto(w, pc) /\ StayHeld /\ (wf' = [wf EXCEPT !.build = new] \/ wf'.build = new)
      <3>1. wf'.build = new
        BY <1>0, <2>1 DEF WorkflowRows
      <3>2. Phase(pc, Ev(w), wf')
        BY <1>6, <3>1 DEF Phase
      <3> QED
        BY <1>2, <2>1, <3>2
    <2> QED
      BY <1>1, <1>6, <2>1 DEF UpdateWorkflowBuildStatus
  <1>7. CASE StartBuild(w) \/ handleWorkflowBuildFailure(w)
    BY <1>0, <1>6, <1>7 DEF StartBuild, handleWorkflowBuildFailure, At
  <1> QED
    BY <1>3, <1>4, <1>5, <1>7

LEMMA FaultTurns ==
    ASSUME BaseInv, HandlerInv, StepOK, ~Overlap, NEW w \in Workers,
           \/ Poll(w) \/ End(w) \/ scheduleAutomaticJob(w) \/ HandleTerminalJob(w)
           \/ RetryRecord(w) \/ Crash(w)
    PROVE  HandlerInv'
  <1>0. handler[w] \in HandlerStates /\ (UNCHANGED log \/ HandleTerminalJob(w))
    BY DEF Poll, End, scheduleAutomaticJob, RetryRecord, Crash, Fault, OnlyWorker, BaseInv, TypeOK
  <1>1. CASE Poll(w)
    <2> DEFINE h == [handler[w] EXCEPT !.at = committed + 1, !.pc = "load"]
    <2>1. h.pc = "load" /\ h.at = committed + 1
      BY <1>0, <1>1 DEF HandlerStates, BaseInv, TypeOK
    <2>2. /\ handler' = [handler EXCEPT ![w] = h] /\ UNCHANGED committed
          /\ \A v \in Workers : handler[v].pc = "idle"
      BY <1>1 DEF Poll, StayHeld, At, BaseInv, TypeOK
    <2> HIDE DEF h
    <2>3. Turn(w, h)
      BY <2>1, <2>2 DEF Turn, Phase, Building
    <2> QED
      BY <2>3, TurnKeeps
  <1>2. CASE End(w) \/ scheduleAutomaticJob(w) \/ Crash(w)
    BY <1>2, ReturnTurns DEF End, scheduleAutomaticJob, Crash, At, Return
  <1>3. CASE RetryRecord(w)
    <2> DEFINE h == [Idle EXCEPT !.at = handler[w].at, !.pc = "load"]
    <2>1. h.pc = "load" /\ h.at = handler[w].at
      BY DEF Idle
    <2>2. /\ handler' = [handler EXCEPT ![w] = h] /\ UNCHANGED <<committed, log>>
          /\ handler[w].pc # "idle"
      BY <1>3 DEF RetryRecord, Fault
    <2>3. Phase(h.pc, Ev(w), wf')
      BY <2>1 DEF Phase, Building
    <2> HIDE DEF h
    <2> QED
      BY <2>1, <2>2, <2>3, GoTurns
  <1>4. CASE HandleTerminalJob(w)
    <2> DEFINE h == [handler[w] EXCEPT !.pc = "notify"]
    <2>1. h.pc = "notify" /\ h.at = handler[w].at
      BY DEF BaseInv, TypeOK, HandlerStates
    <2>2. /\ handler' = [handler EXCEPT ![w] = h] /\ UNCHANGED committed
          /\ handler[w].pc # "idle" /\ Ev(w).action \in {"COMPLETED", "FAILED"}
      BY <1>4, CountStep DEF Goto, StayHeld, BaseInv, TypeOK
    <2> HIDE DEF h
    <2>3. log'[h.at] = Ev(w)
      <3>1. handler[w].at \in 1..Len(log)
        BY <2>2 DEF BaseInv, HandlersNamed, Named
      <3> QED
        BY <2>1, <3>1, LogKept DEF Ev
    <2>4. h.at = committed' + 1 /\ Phase(h.pc, Ev(w), wf')
      BY <2>1, <2>2 DEF HandlerInv, Phase, Building
    <2>5. Turn(w, h)
      BY <2>1, <2>2, <2>3, <2>4 DEF Turn
    <2> QED
      BY <2>5, TurnKeeps
  <1> QED
    BY <1>1, <1>2, <1>3, <1>4

LEMMA NextHandlers ==
    ASSUME BaseInv, LifecycleAssumption, LogInv, HandlerInv, ~Overlap, [Next]_vars
    PROVE  HandlerInv'
  <1>0. StepOK
    BY NextOK
  <1>1. ASSUME UNCHANGED <<handler, committed>> PROVE HandlerInv'
    <2>1. ASSUME NEW w \in Workers, completeWorkflowBuild(w) PROVE FALSE
      <3>1. Goto(w, "reload") \/ Return(w)
        BY <2>1 DEF completeWorkflowBuild, UpdateWorkflowBuildStatus
      <3>2. handler'[w].pc # "complete"
        BY <3>1 DEF Goto, Return, Idle, BaseInv, TypeOK, HandlerStates
      <3> QED
        BY <1>1, <2>1, <3>2 DEF completeWorkflowBuild, At
    <2>2. wf'.build = "COMPLETED" => wf.build = "COMPLETED"
      BY <1>0, <2>1 DEF StepOK, RowMoves
    <2> QED
      BY <1>0, <1>1, <2>2, HandlersStay
  <1>2. ASSUME \/ \E kind \in Kinds : CreateWorkflow(kind)
               \/ \E h, i \in BOOLEAN : UpdateWorkflow(h, i)
               \/ TerminateWorkflow
               \/ DeleteReadsWorkflow \/ DeleteReadsJobs \/ DeleteWorkflow
               \/ ScheduleManualJob
        PROVE  UNCHANGED <<handler, committed>>
    BY <1>2, Zenon
       DEF CreateWorkflow, UpdateWorkflow, TerminateWorkflow, DeleteReadsWorkflow, DeleteReadsJobs,
           DeleteWorkflow, ScheduleManualJob, workerVars
  <1>3. ASSUME NEW j \in Jobs, Dispatch(j) \/ Execution(j)
        PROVE  UNCHANGED <<handler, committed>>
    BY <1>3, Zenon
       DEF Dispatch, Execution, Claim, deferBlockedJob, LoadWorkflow, scheduleNextAutomaticJob,
           releaseClaimForSystemRetry, Finish, Leave, workerVars
  <1>4. ASSUME NEW w \in Workers,
               \/ WorkerOnly(w) \/ CancelJob(w) \/ BuildStep(w)
               \/ scheduleAutomaticJob(w) \/ HandleTerminalJob(w)
        PROVE  HandlerInv'
    BY <1>0, <1>4, LoadTurns, SweepTurns, BuildTurns, FaultTurns DEF WorkerOnly, BuildStep
  <1>5. ASSUME UNCHANGED vars \/ \E a \in Actions : LockExpires(a)
        PROVE  UNCHANGED <<handler, committed>>
    BY <1>5 DEF LockExpires, vars, workerVars
  <1> QED
    BY <1>1, <1>2, <1>3, <1>4, <1>5, StepKinds

-----------------------------------------------------------------------------
\* A job is of the generation that scheduled it and is dispatched in that or a
\* later one; a follow-up follows a job that exists.
Sound(j) ==
    /\ status[j] = "NONE" <=> origin[j][1] = "NONE"
    /\ origin[j][1] = "NEXT" => origin[j][2] \in Jobs /\ status[origin[j][2]] # "NONE"
    /\ Automatic(j) => jobGen[j] <= wf.generation
    /\ dispatched[j] <= wf.generation
    /\ Automatic(j) /\ status[j] \in {"QUEUED", "RUNNING"} => jobGen[j] <= dispatched[j]

\* An automatic job of the current generation.
Ours(j) == Automatic(j) /\ jobGen[j] = wf.generation

\* Its chain goes on with it, or with a job that follows it.
GoingOn(j) ==
    /\ \/ status[j] \in Active \cup {"FAILED"}
       \/ status[j] = "COMPLETED" /\ Followed(j)
    /\ status[j] = "RUNNING" /\ stage[j] = "scheduled" => Followed(j)

\* The jobs of the current generation are those of a workflow that is built,
\* each of them goes on until the workflow is terminated, and one is the last.
SuccessionInv ==
    /\ \A j \in Jobs : Sound(j)
    /\ wf.state = "LIVE" => \A j \in Jobs : Ours(j) =>
          wf.build = "COMPLETED" /\ (wf.terminated \/ GoingOn(j))
    /\ (\E j \in Jobs : Ours(j)) => \E j \in Jobs : Ours(j) /\ ~Followed(j)

\* A step that inserts no job.
KeepsSound ==
    /\ wf'.generation \in {wf.generation, wf.generation + 1}
    /\ UNCHANGED <<origin, jobGen, root>>
    /\ \A j \in Jobs :
          /\ status'[j] = "NONE" <=> status[j] = "NONE"
          /\ dispatched'[j] \in {dispatched[j], wf.generation}
          /\ status'[j] \in {"QUEUED", "RUNNING"} =>
                \/ status[j] \in {"QUEUED", "RUNNING"} /\ dispatched'[j] = dispatched[j]
                \/ dispatched'[j] = wf.generation

LEMMA SoundKeeps ==
    ASSUME BaseInv, SuccessionInv, KeepsSound
    PROVE  \A j \in Jobs : Sound(j)'
  <1> SUFFICES ASSUME NEW j \in Jobs PROVE Sound(j)'
    OBVIOUS
  <1>0. /\ wf.generation \in Nat /\ jobGen[j] \in Nat /\ dispatched[j] \in Nat
        /\ wf'.generation \in Nat /\ wf.generation <= wf'.generation
        /\ Sound(j) /\ origin'[j] = origin[j] /\ jobGen'[j] = jobGen[j]
        /\ Automatic(j)' <=> Automatic(j)
    BY DEF BaseInv, TypeOK, WorkflowRows, SuccessionInv, KeepsSound, Automatic
  <1>1. /\ status'[j] = "NONE" <=> origin'[j][1] = "NONE"
        /\ origin'[j][1] = "NEXT" => origin'[j][2] \in Jobs /\ status'[origin'[j][2]] # "NONE"
    BY <1>0 DEF Sound, KeepsSound
  <1>2. Automatic(j)' => jobGen'[j] <= wf'.generation
    BY <1>0 DEF Sound
  <1>3. dispatched'[j] <= wf'.generation
    BY <1>0 DEF Sound, KeepsSound
  <1>4. Automatic(j)' /\ status'[j] \in {"QUEUED", "RUNNING"} => jobGen'[j] <= dispatched'[j]
    BY <1>0 DEF Sound, KeepsSound
  <1> QED
    BY <1>1, <1>2, <1>3, <1>4 DEF Sound

\* A step within a generation that moves jobs ...
LEMMA MovesKeep ==
    ASSUME BaseInv, SuccessionInv, KeepsSound, RowMoves, wf'.generation = wf.generation,
           wf'.state = "LIVE" /\ ~wf'.terminated /\ wf'.build = "COMPLETED" =>
               \A j \in Jobs : Ours(j) /\ GoingOn(j) => GoingOn(j)'
    PROVE  SuccessionInv'
  <1>1. \A j \in Jobs : /\ Automatic(j)' <=> Automatic(j)
                        /\ Ours(j)' <=> Ours(j)
                        /\ Followed(j)' <=> Followed(j)
    BY DEF KeepsSound, Automatic, Ours, Followed, FollowsDirectly
  <1>2. (\E j \in Jobs : Ours(j)') => \E j \in Jobs : Ours(j)' /\ ~Followed(j)'
    BY <1>1 DEF SuccessionInv
  <1>3. wf'.state = "LIVE" => \A j \in Jobs : Ours(j)' =>
          wf'.build = "COMPLETED" /\ (wf'.terminated \/ GoingOn(j)')
    BY <1>1 DEF SuccessionInv, RowMoves
  <1> QED
    BY <1>2, <1>3, SoundKeeps DEF SuccessionInv

\* ... and one that starts a generation, which has no jobs yet.
LEMMA NewGenerationKeeps ==
    ASSUME BaseInv, SuccessionInv, KeepsSound, wf'.generation = wf.generation + 1
    PROVE  SuccessionInv'
  <1>1. \A j \in Jobs : ~Ours(j)'
    <2> SUFFICES ASSUME NEW j \in Jobs, Automatic(j), jobGen[j] = wf.generation + 1
                 PROVE  FALSE
      BY DEF Ours, Automatic, KeepsSound
    <2>1. jobGen[j] <= wf.generation /\ wf.generation \in Nat
      BY DEF SuccessionInv, Sound, BaseInv, TypeOK, WorkflowRows
    <2> QED
      BY <2>1
  <1> QED
    BY <1>1, SoundKeeps DEF SuccessionInv

\* A job is inserted: a manual one, the root of the current generation or the
\* follow-up of one of its jobs.
LEMMA NewJobKeeps ==
    ASSUME BaseInv, SuccessionInv, NEW n \in Jobs, NEW key \in Keys, NEW g \in Nat,
           Inserts(n, key, g), UNCHANGED <<wf, dispatched>>, key[1] # "NONE",
           key[1] # "MANUAL" => automaticScheduleGuard(g),
           key[1] = "NEXT" => key[2] \in Jobs /\ status[key[2]] # "NONE",
           \A j \in Jobs : stage'[j] = stage[j] \/ (key[1] = "NEXT" /\ key[2] = j)
    PROVE  SuccessionInv'
  <1>0. /\ status[n] = "NONE" /\ status'[n] = "PENDING" /\ origin'[n] = key /\ jobGen'[n] = g
        /\ \A j \in Jobs \ {n} : /\ status'[j] = status[j] /\ origin'[j] = origin[j]
                                 /\ jobGen'[j] = jobGen[j]
        /\ wf' = wf /\ dispatched' = dispatched /\ wf.generation \in Nat
        /\ origin[n][1] = "NONE"
    BY DEF Inserts, BaseInv, TypeOK, WorkflowRows, SuccessionInv, Sound
  <1>1. \A j \in Jobs : status[j] # "NONE" => j # n /\ status'[j] # "NONE"
    BY <1>0
  <1>2. Automatic(n)' => key[1] # "MANUAL" /\ g = wf.generation /\ wf.build = "COMPLETED"
    BY <1>0 DEF Automatic, automaticScheduleGuard
  <1>3. \A j \in Jobs \ {n} : Automatic(j)' <=> Automatic(j)
    BY <1>0 DEF Automatic
  <1>4. \A j \in Jobs : Sound(j)'
    <2>1. Sound(n)'
      BY <1>0, <1>1, <1>2 DEF Sound, SuccessionInv
    <2>2. ASSUME NEW j \in Jobs \ {n} PROVE Sound(j)'
      BY <1>0, <1>1, <1>3 DEF Sound, SuccessionInv
    <2> QED
      BY <2>1, <2>2
  <1>5. \A j \in Jobs : Followed(j) => Followed(j)'
    BY <1>0 DEF Followed, FollowsDirectly
  <1>6. \A j \in Jobs \ {n} : Ours(j)' <=> Ours(j)
    BY <1>0, <1>3 DEF Ours
  <1>7. ASSUME wf.state = "LIVE", NEW j \in Jobs, Ours(j)'
        PROVE  wf'.build = "COMPLETED" /\ (wf'.terminated \/ GoingOn(j)')
    <2>1. CASE j = n
      BY <1>0, <1>2, <1>7, <2>1 DEF Ours, GoingOn, Active
    <2>2. CASE j # n
      <3>1. wf.build = "COMPLETED" /\ (wf.terminated \/ GoingOn(j))
        BY <1>6, <1>7, <2>2 DEF SuccessionInv
      <3>2. stage'[j] = stage[j] \/ Followed(j)'
        BY <1>0 DEF Followed, FollowsDirectly
      <3>3. GoingOn(j) => GoingOn(j)'
        BY <1>0, <1>5, <2>2, <3>2 DEF GoingOn
      <3> QED
        BY <1>0, <3>1, <3>3
    <2> QED
      BY <2>1, <2>2
  <1>8. ~Followed(n)'
    <2> SUFFICES ASSUME NEW k \in Jobs, origin'[k][1] = "NEXT", origin'[k][2] = n PROVE FALSE
      BY DEF Followed, FollowsDirectly
    <2>1. k # n /\ origin[k][1] = "NEXT" /\ origin[k][2] = n
      BY <1>0
    <2> QED
      BY <1>0, <2>1 DEF SuccessionInv, Sound
  <1>9. (\E j \in Jobs : Ours(j)') => \E j \in Jobs : Ours(j)' /\ ~Followed(j)'
    <2>1. CASE Automatic(n)'
      BY <1>0, <1>2, <1>8, <2>1 DEF Ours
    <2>2. CASE ~Automatic(n)'
      <3>1. \A j \in Jobs : Followed(j)' => Followed(j)
        BY <1>0, <2>2 DEF Followed, FollowsDirectly, Automatic
      <3>2. ~Ours(n)' /\ ~Ours(n)
        BY <1>0, <2>2 DEF Ours, Automatic
      <3> QED
        BY <1>6, <3>1, <3>2 DEF SuccessionInv
    <2> QED
      BY <2>1, <2>2
  <1> QED
    BY <1>0, <1>4, <1>7, <1>9 DEF SuccessionInv

LEMMA SameJobsKeep ==
    ASSUME BaseInv, SuccessionInv, StepOK, wf'.generation = wf.generation,
           UNCHANGED <<status, origin, jobGen, root, dispatched, stage>>
    PROVE  SuccessionInv'
  <1>1. KeepsSound
    BY DEF KeepsSound
  <1>2. \A j \in Jobs : GoingOn(j) => GoingOn(j)'
    BY DEF GoingOn, Followed, FollowsDirectly
  <1> QED
    BY <1>1, <1>2, MovesKeep DEF StepOK

\* One job moves, and its chain goes on.
LEMMA OneJobKeeps ==
    ASSUME BaseInv, SuccessionInv, UNCHANGED <<wf, origin, jobGen, root>>, NEW j \in Jobs, NEW s, NEW st,
           status[j] # "NONE", s # "NONE",
           status' = [status EXCEPT ![j] = s], stage' = [stage EXCEPT ![j] = st],
           \A k \in Jobs \ {j} : dispatched'[k] = dispatched[k],
           dispatched'[j] \in {dispatched[j], wf.generation},
           s \in {"QUEUED", "RUNNING"} =>
               \/ status[j] \in {"QUEUED", "RUNNING"} /\ dispatched'[j] = dispatched[j]
               \/ dispatched'[j] = wf.generation,
           wf.state = "LIVE" /\ ~wf.terminated /\ wf.build = "COMPLETED" /\ Ours(j) /\ GoingOn(j) =>
               \/ s \in Active \cup {"FAILED"} /\ (s = "RUNNING" => st # "scheduled")
               \/ s = "COMPLETED" /\ Followed(j)
    PROVE  SuccessionInv'
  <1>0. /\ status'[j] = s /\ stage'[j] = st
        /\ \A k \in Jobs \ {j} : status'[k] = status[k] /\ stage'[k] = stage[k]
        /\ \A k \in Jobs : Followed(k)' <=> Followed(k)
    BY DEF BaseInv, TypeOK, Followed, FollowsDirectly
  <1>1. KeepsSound
    <2>1. ASSUME NEW k \in Jobs
          PROVE  /\ status'[k] = "NONE" <=> status[k] = "NONE"
                 /\ dispatched'[k] \in {dispatched[k], wf.generation}
                 /\ status'[k] \in {"QUEUED", "RUNNING"} =>
                       \/ status[k] \in {"QUEUED", "RUNNING"} /\ dispatched'[k] = dispatched[k]
                       \/ dispatched'[k] = wf.generation
      <3>1. CASE k = j
        BY <1>0, <3>1
      <3>2. CASE k # j
        BY <1>0, <3>2
      <3> QED
        BY <3>1, <3>2
    <2> QED
      BY <2>1 DEF KeepsSound
  <1>2. ASSUME wf.state = "LIVE", ~wf.terminated, wf.build = "COMPLETED",
               NEW k \in Jobs, Ours(k), GoingOn(k)
        PROVE  GoingOn(k)'
    <2>1. CASE k = j
      BY <1>0, <1>2, <2>1 DEF GoingOn, Active
    <2>2. CASE k # j
      BY <1>0, <1>2, <2>2 DEF GoingOn
    <2> QED
      BY <2>1, <2>2
  <1>3. RowMoves
    BY DEF RowMoves
  <1> QED
    BY <1>1, <1>2, <1>3, MovesKeep

LEMMA ExecutionSucceeds ==
    ASSUME BaseInv, LifecycleAssumption, SuccessionInv, NEW j \in Jobs,
           \/ Dispatch(j) \/ Claim(j) \/ deferBlockedJob(j) \/ GoesOn(j)
           \/ \E new \in {"COMPLETED", "FAILED", "CANCELED", "PENDING"} : Leaves(j, new)
    PROVE  SuccessionInv'
  <1>0. JobsOK
    BY BaseParts
  <1>1. CASE Dispatch(j)
    <2>1. /\ status[j] = "PENDING" /\ status' = [status EXCEPT ![j] = "QUEUED"]
          /\ dispatched' = [dispatched EXCEPT ![j] = wf.generation]
          /\ UNCHANGED <<wf, origin, jobGen, root, stage>>
      BY <1>1 DEF Dispatch
    <2>2. stage' = [stage EXCEPT ![j] = stage[j]]
      BY <1>0, <2>1 DEF JobsOK
    <2>3. dispatched'[j] = wf.generation /\ \A k \in Jobs \ {j} : dispatched'[k] = dispatched[k]
      BY <1>0, <2>1 DEF JobsOK
    <2> QED
      BY <2>1, <2>2, <2>3, OneJobKeeps DEF Active
  <1>2. CASE Claim(j)
    BY <1>2, OneJobKeeps DEF Claim, Active
  <1>3. CASE deferBlockedJob(j)
    <2>1. stage' = [stage EXCEPT ![j] = stage[j]]
      BY <1>0, <1>3 DEF deferBlockedJob, JobsOK
    <2> QED
      BY <1>3, <2>1, OneJobKeeps DEF deferBlockedJob, Active
  <1>4. CASE GoesOn(j)
    <2> DEFINE st == IF origin[j][1] = "MANUAL" THEN "scheduled" ELSE "loaded"
    <2>1. status' = [status EXCEPT ![j] = "RUNNING"] /\ stage' = [stage EXCEPT ![j] = st]
      BY <1>0, <1>4 DEF GoesOn, JobsOK
    <2>2. Ours(j) => st # "scheduled"
      BY DEF Ours, Automatic
    <2>3. /\ status[j] = "RUNNING" /\ UNCHANGED <<wf, origin, jobGen, root>>
          /\ \A k \in Jobs : dispatched'[k] = dispatched[k]
          /\ "RUNNING" \in Active
      BY <1>4 DEF GoesOn, Active
    <2> HIDE DEF st
    <2> QED
      BY <2>1, <2>2, <2>3, OneJobKeeps
  <1>5. ASSUME NEW new \in {"COMPLETED", "FAILED", "CANCELED", "PENDING"}, Leaves(j, new)
        PROVE  SuccessionInv'
    <2>1. /\ status[j] = "RUNNING" /\ status' = [status EXCEPT ![j] = new]
          /\ stage' = [stage EXCEPT ![j] = "none"]
          /\ UNCHANGED <<wf, origin, jobGen, root, dispatched>>
      BY <1>5 DEF Leaves, Leave
    <2>2. /\ new = "COMPLETED" => stage[j] = "scheduled"
          /\ new = "CANCELED" => wf.terminated
      BY <1>5 DEF Leaves
    <2>3. ~wf.terminated /\ GoingOn(j) =>
              new \in Active \cup {"FAILED"} \/ (new = "COMPLETED" /\ Followed(j))
      BY <2>1, <2>2 DEF GoingOn, Active
    <2>4. new # "NONE" /\ new \notin {"QUEUED", "RUNNING"}
      OBVIOUS
    <2>5. dispatched'[j] = dispatched[j] /\ \A k \in Jobs \ {j} : dispatched'[k] = dispatched[k]
      BY <2>1
    <2> QED
      BY <2>1, <2>3, <2>4, <2>5, OneJobKeeps
  <1> QED
    BY <1>1, <1>2, <1>3, <1>4, <1>5

\* A running job schedules its follow-up, or has one, while its generation is
\* the current one and not terminated.
LEMMA NextSucceeds ==
    ASSUME BaseInv, LifecycleAssumption, SuccessionInv, NEW j \in Jobs, scheduleNextAutomaticJob(j)
    PROVE  SuccessionInv'
  <1>0. /\ status[j] = "RUNNING" /\ JobsOK
        /\ NextKey(j) \in Keys /\ dispatched[j] \in Nat /\ Schedules(NextKey(j), dispatched[j])
        /\ stage' = [stage EXCEPT ![j] = "scheduled"]
        /\ UNCHANGED <<wf, dispatched>>
        /\ NextKey(j)[1] = "NEXT" /\ NextKey(j)[2] = j
    BY NextScheduled, BaseParts DEF NextKey
  <1>1. CASE UNCHANGED <<status, origin, jobGen, root>>
    <2>1. ASSUME Ours(j), wf.state = "LIVE", ~wf.terminated, wf.build = "COMPLETED"
          PROVE  Followed(j)
      <3>1. jobGen[j] <= dispatched[j] /\ dispatched[j] <= wf.generation /\ wf.generation \in Nat
        BY <1>0, <2>1 DEF SuccessionInv, Sound, Ours, BaseInv, TypeOK, WorkflowRows
      <3>2. automaticScheduleGuard(dispatched[j])
        BY <1>0, <2>1, <3>1 DEF automaticScheduleGuard, Ours
      <3>3. Recorded(NextKey(j)) # {}
        BY <1>0, <1>1, <3>2 DEF Schedules, Inserts, JobsOK
      <3>4. PICK k \in Jobs : origin[k] = NextKey(j)
        BY <3>3 DEF Recorded
      <3> QED
        BY <1>0, <3>4 DEF Followed, FollowsDirectly
    <2>2. KeepsSound
      BY <1>0, <1>1 DEF KeepsSound
    <2>3. RowMoves
      BY <1>0 DEF RowMoves
    <2>4. ASSUME NEW k \in Jobs, Ours(k), GoingOn(k), wf.state = "LIVE", ~wf.terminated,
                 wf.build = "COMPLETED"
          PROVE  GoingOn(k)'
      <3>1. CASE k = j
        BY <1>0, <1>1, <2>1, <2>4, <3>1 DEF GoingOn, Followed, FollowsDirectly
      <3>2. CASE k # j
        BY <1>0, <1>1, <2>4, <3>2 DEF GoingOn, Followed, FollowsDirectly, JobsOK
      <3> QED
        BY <3>1, <3>2
    <2> QED
      BY <1>0, <2>2, <2>3, <2>4, MovesKeep
  <1>2. ASSUME NEW n \in Jobs, Inserts(n, NextKey(j), dispatched[j]),
               automaticScheduleGuard(dispatched[j])
        PROVE  SuccessionInv'
    <2>1. \A k \in Jobs : stage'[k] = stage[k] \/ k = j
      BY <1>0 DEF JobsOK
    <2> QED
      BY <1>0, <1>2, <2>1, NewJobKeeps
  <1> QED
    BY <1>0, <1>1, <1>2 DEF Schedules

LEMMA WorkerSucceeds ==
    ASSUME BaseInv, LifecycleAssumption, LogInv, HandlerInv, SuccessionInv, StepOK, NEW w \in Workers,
           \/ WorkerOnly(w) \/ CancelJob(w) \/ BuildStep(w)
           \/ scheduleAutomaticJob(w) \/ HandleTerminalJob(w)
    PROVE  SuccessionInv'
  <1>1. CASE WorkerOnly(w)
    <2>1. UNCHANGED <<wf, jobVars>>
      BY <1>1, WorkerOnlyBase
    <2> QED
      BY <2>1, SameJobsKeep DEF jobVars
  <1>2. CASE BuildStep(w)
    <2>1. wf'.generation = wf.generation /\ UNCHANGED jobVars
      BY <1>2, BuildRow, BuildStepRow
    <2> QED
      BY <2>1, SameJobsKeep DEF jobVars
  <1>3. CASE HandleTerminalJob(w)
    <2>1. wf'.generation = wf.generation
      BY <1>3, CountedRow
    <2> QED
      BY <1>3, <2>1, CountStep, SameJobsKeep
  <1>4. CASE scheduleAutomaticJob(w)
    <2> DEFINE e == Ev(w)
    <2>1. /\ e.action \in {"BUILD", "RESCHEDULE"} /\ e.generation \in Nat
          /\ Schedules(ScheduleKey(e), e.generation)
          /\ UNCHANGED <<wf, dispatched, attempts, stage>>
      BY <1>4, ScheduleStep
    <2> HIDE DEF e
    <2>2. /\ ScheduleKey(e) \in Keys /\ ScheduleKey(e)[1] \in {"BUILD", "RESCHEDULE"}
      BY <2>1 DEF ScheduleKey, Keys
    <2>3. CASE UNCHANGED <<status, origin, jobGen, root>>
      BY <2>1, <2>3, SameJobsKeep
    <2>4. ASSUME NEW n \in Jobs, Inserts(n, ScheduleKey(e), e.generation),
                 automaticScheduleGuard(e.generation)
          PROVE  SuccessionInv'
      <3> DEFINE key == ScheduleKey(e)
                 g == e.generation
      <3>1. /\ key \in Keys /\ key[1] # "NONE" /\ key[1] # "NEXT" /\ g \in Nat
            /\ Inserts(n, key, g) /\ automaticScheduleGuard(g)
            /\ UNCHANGED <<wf, dispatched>> /\ \A k \in Jobs : stage'[k] = stage[k]
        BY <2>1, <2>2, <2>4
      <3> HIDE DEF key, g
      <3> QED
        BY <3>1, NewJobKeeps
    <2> QED
      BY <2>1, <2>3, <2>4 DEF Schedules
  <1>5. CASE CancelJob(w)
    <2>1. /\ UNCHANGED <<wf, log, deleting, origin, jobGen, root, dispatched, attempts>>
          /\ \/ UNCHANGED <<status, stage>>
             \/ \E j \in Jobs : /\ status[j] \in Active
                                /\ status' = [status EXCEPT ![j] = "CANCELED"]
                                /\ stage' = [stage EXCEPT ![j] = "none"]
      BY <1>5 DEF CancelJob, BaseInv, TypeOK, HandlerStates
    <2>2. handler[w].pc = "cancel"
      BY <1>5 DEF CancelJob, At
    <2>3. wf.terminated \/ wf.build # "COMPLETED"
      BY <2>2 DEF HandlerInv, Phase, Building
    <2>4. CASE UNCHANGED <<status, stage>>
      BY <2>1, <2>4, SameJobsKeep
    <2>5. ASSUME NEW j \in Jobs, status[j] \in Active,
                 status' = [status EXCEPT ![j] = "CANCELED"], stage' = [stage EXCEPT ![j] = "none"]
          PROVE  SuccessionInv'
      BY <2>1, <2>3, <2>5, OneJobKeeps DEF Active
    <2> QED
      BY <2>1, <2>4, <2>5
  <1> QED
    BY <1>1, <1>2, <1>3, <1>4, <1>5

LEMMA UserSucceeds ==
    ASSUME BaseInv, LifecycleAssumption, LogInv, SuccessionInv, StepOK,
           \/ \E kind \in Kinds : CreateWorkflow(kind)
           \/ \E h, i \in BOOLEAN : UpdateWorkflow(h, i)
           \/ TerminateWorkflow
           \/ DeleteReadsWorkflow \/ DeleteReadsJobs \/ DeleteWorkflow
           \/ ScheduleManualJob
    PROVE  SuccessionInv'
  <1>0. wf.generation \in Nat /\ JobsOK
    BY BaseParts DEF BaseInv, TypeOK, WorkflowRows
  <1>1. ASSUME UNCHANGED jobVars, wf'.generation \in {wf.generation, wf.generation + 1}
        PROVE  SuccessionInv'
    <2>1. KeepsSound
      BY <1>1 DEF KeepsSound, jobVars
    <2> QED
      BY <1>1, <2>1, SameJobsKeep, NewGenerationKeeps DEF jobVars
  <1>2. ASSUME NEW kind \in Kinds, CreateWorkflow(kind) PROVE SuccessionInv'
    <2>1. /\ wf.generation = 0 /\ UNCHANGED jobVars
          /\ wf' = [wf EXCEPT !.state = "LIVE", !.kind = kind, !.generation = 1]
      BY <1>2 DEF CreateWorkflow, LogInv
    <2>2. wf'.generation = 1
      BY <2>1, RowFields, Zenon
    <2> QED
      BY <1>1, <2>1, <2>2
  <1>3. ASSUME NEW h \in BOOLEAN, NEW i \in BOOLEAN, UpdateWorkflow(h, i) PROVE SuccessionInv'
    <2>1. PICK interval \in {0, 1} :
              /\ \/ /\ UpdateRow(FALSE, FALSE, interval)
                    /\ UNCHANGED <<status, log>>
                 \/ \E resched \in BOOLEAN : UpdateRow(resched, TRUE, interval) /\ Restarts(resched)
              /\ UNCHANGED <<origin, jobGen, root, dispatched, attempts, stage, canceled, effect>>
      BY <1>3, UpdateSteps
    <2>2. CASE UpdateRow(FALSE, FALSE, interval) /\ UNCHANGED <<status, log>>
      <3>1. wf'.generation = wf.generation
        BY <2>2, UpdatedRow
      <3> QED
        BY <1>1, <2>1, <2>2, <3>1 DEF jobVars
    <2>3. ASSUME NEW resched \in BOOLEAN, UpdateRow(resched, TRUE, interval), Restarts(resched)
          PROVE  SuccessionInv'
      <3>1. wf'.generation = wf.generation + 1
        BY <2>3, UpdatedRow
      <3>2. \A j \in Jobs : \/ status'[j] = status[j]
                            \/ status[j] \in {"PENDING", "QUEUED"} /\ status'[j] = "CANCELED"
        BY <1>0, <2>3, StaleCanceled DEF Restarts
      <3>3. KeepsSound
        BY <2>1, <3>1, <3>2 DEF KeepsSound
      <3> QED
        BY <3>1, <3>3, NewGenerationKeeps
    <2> QED
      BY <2>1, <2>2, <2>3
  <1>4. CASE TerminateWorkflow
    <2>1. wf' = [wf EXCEPT !.terminated = TRUE] /\ UNCHANGED jobVars
      BY <1>4 DEF TerminateWorkflow
    <2> QED
      BY <1>1, <2>1, RowFields
  <1>5. CASE DeleteReadsWorkflow \/ DeleteReadsJobs \/ DeleteWorkflow
    <2>1. UNCHANGED <<origin, jobGen, root, dispatched>>
      BY <1>5, DeleteSteps
    <2>2. CASE UNCHANGED <<wf, jobVars, log>>
      BY <1>1, <2>2
    <2>3. CASE Deletes
      <3>1. wf'.generation = wf.generation /\ wf'.state = "DELETED"
        BY <2>3, RowFields DEF Deletes
      <3>2. \A j \in Jobs : /\ status'[j] \in {"NONE", "DELETED"}
                            /\ status'[j] = "NONE" <=> status[j] = "NONE"
        BY <2>3 DEF Deletes
      <3>3. KeepsSound
        BY <2>1, <3>1, <3>2 DEF KeepsSound
      <3> QED
        BY <3>1, <3>3, MovesKeep DEF StepOK
    <2> QED
      BY <1>5, <2>2, <2>3, DeleteSteps
  <1>6. CASE ScheduleManualJob
    <2>1. /\ \E j \in Jobs, n \in Nat : Inserts(j, <<"MANUAL", n, 0>>, 0)
          /\ UNCHANGED <<wf, dispatched, stage>>
      BY <1>6, ManualSteps
    <2>2. PICK j \in Jobs, n \in Nat : Inserts(j, <<"MANUAL", n, 0>>, 0)
      BY <2>1
    <2> DEFINE key == <<"MANUAL", n, 0>>
    <2>3. key \in Keys /\ key[1] = "MANUAL" /\ 0 \in Nat /\ Inserts(j, key, 0)
      BY <2>2 DEF Keys
    <2>4. \A k \in Jobs : stage'[k] = stage[k]
      BY <2>1
    <2> HIDE DEF key
    <2> QED
      BY <2>1, <2>3, <2>4, NewJobKeeps
  <1> QED
    BY <1>2, <1>3, <1>4, <1>5, <1>6

LEMMA NextSuccession ==
    ASSUME BaseInv, LifecycleAssumption, LogInv, HandlerInv, SuccessionInv, [Next]_vars
    PROVE  SuccessionInv'
  <1>0. StepOK
    BY NextOK
  <1>1. ASSUME NEW j \in Jobs, Dispatch(j) \/ Execution(j) PROVE SuccessionInv'
    BY <1>1, ExecutionSteps, ExecutionSucceeds, NextSucceeds
  <1>2. ASSUME UNCHANGED vars \/ \E a \in Actions : LockExpires(a) PROVE SuccessionInv'
    <2>1. UNCHANGED <<wf, jobVars>>
      BY <1>2, LockExpiresBase DEF vars
    <2> QED
      BY <1>0, <2>1, SameJobsKeep DEF jobVars
  <1> QED
    BY <1>0, <1>1, <1>2, StepKinds, UserSucceeds, WorkerSucceeds

-----------------------------------------------------------------------------
\* A generation that is built has a job as soon as the event that started it
\* is handled.
RootHandled == \E i \in 1..committed : RootEvent(log[i]) /\ log[i].generation = wf.generation

RootScheduled ==
    wf.state = "LIVE" /\ ~wf.terminated /\ wf.build = "COMPLETED" /\ RootHandled
        => \E j \in Jobs : Ours(j)

\* The event of w has started the generation that is current and built.
Due(w) ==
    /\ wf.state = "LIVE" /\ ~wf.terminated /\ wf.build = "COMPLETED"
    /\ RootEvent(Ev(w)) /\ Ev(w).generation = wf.generation

\* A handler of such an event returns for good only from its scheduling.
LEMMA ReturnSteps ==
    ASSUME BaseInv, HandlerInv, NEW w \in Workers,
           \/ WorkerOnly(w) \/ CancelJob(w) \/ BuildStep(w)
           \/ scheduleAutomaticJob(w) \/ HandleTerminalJob(w)
    PROVE  \/ UNCHANGED committed
           \/ /\ Return(w) /\ handler[w].pc # "idle" /\ UNCHANGED <<wf, log>>
              /\ Due(w) => scheduleAutomaticJob(w)
  <1>0. handler[w].pc # "idle" => Phase(handler[w].pc, Ev(w), wf)
    BY DEF HandlerInv, Ev
  <1>1. CASE Poll(w) \/ AcquireDistributedLock(w) \/ ListJobs(w) \/ BuildImage(w) \/ RetryRecord(w)
             \/ Crash(w) \/ HandleTerminalJob(w)
    BY <1>1 DEF Poll, AcquireDistributedLock, ListJobs, BuildImage, RetryRecord, Crash, Fault,
                HandleTerminalJob, StayHeld
  <1>2. CASE runTargetWorkflow(w)
    BY <1>2 DEF runTargetWorkflow, buildWorkflow, rescheduleWorkflow, terminateWorkflow,
           deleteWorkflow, loadWorkflowForTerminalJobEvent, LockNext, StayHeld, Loaded, At, OnlyWorker,
           Due, RootEvent, Current, isStaleWorkflowEvent
  <1>3. CASE CancelJob(w)
    BY <1>0, <1>3 DEF CancelJob, StayHeld, At, Due, RootEvent, Phase, Building
  <1>4. CASE Swept(w)
    BY <1>4 DEF Swept, StayHeld, At, OnlyWorker, Due, RootEvent
  <1>5. CASE getSchedulableWorkflow(w)
    BY <1>5 DEF getSchedulableWorkflow, StayHeld, At, OnlyWorker, Due, isStaleWorkflowEvent
  <1>6. CASE End(w)
    BY <1>0, <1>6 DEF End, At, OnlyWorker, Due, RootEvent, Phase, Building
  <1>7. CASE BuildStep(w)
    <2>1. /\ handler[w].pc \in {"start", "fail", "complete"} /\ UNCHANGED log
          /\ \/ UNCHANGED committed
             \/ Return(w) /\ UNCHANGED wf
      BY <1>7 DEF BuildStep, StartBuild, handleWorkflowBuildFailure, completeWorkflowBuild,
             UpdateWorkflowBuildStatus, StayHeld, At
    <2>2. Ev(w).action = "BUILD"
      BY <1>7, BuildStepRow
    <2>3. ~Due(w)
      BY <1>0, <2>1, <2>2 DEF Due, Phase, Building
    <2> QED
      BY <2>1, <2>3
  <1>8. CASE scheduleAutomaticJob(w)
    BY <1>8, ScheduleStep
  <1> QED
    BY <1>1, <1>2, <1>3, <1>4, <1>5, <1>6, <1>7, <1>8 DEF WorkerOnly

\* The scheduling of a built generation finds its root or inserts it.
LEMMA RootGetsJob ==
    ASSUME BaseInv, NEW w \in Workers, scheduleAutomaticJob(w), Due(w)
    PROVE  \E j \in Jobs : Ours(j)'
  <1> DEFINE key == ScheduleKey(Ev(w))
             g == Ev(w).generation
  <1>0. /\ ScheduleJob(key, g) /\ UNCHANGED wf /\ g = wf.generation /\ JobsOK
        /\ automaticScheduleGuard(g) /\ key[1] \in {"BUILD", "RESCHEDULE"}
    BY BaseParts DEF scheduleAutomaticJob, Due, automaticScheduleGuard, ScheduleKey, RootEvent
  <1> HIDE DEF key, g
  <1>1. ASSUME NEW j \in Jobs, origin[j] = key, jobGen[j] = g, UNCHANGED <<origin, jobGen, root>>
        PROVE  Ours(j)'
    BY <1>0, <1>1 DEF Ours, Automatic
  <1>2. CASE Recorded(key) # {} /\ validateStoredScheduleCommand(key, g) /\ UNCHANGED <<origin, jobGen, root>>
    BY <1>1, <1>2 DEF Recorded, validateStoredScheduleCommand
  <1>3. CASE InsertJob(key, g)
    <2>1. PICK j \in Jobs : /\ origin' = [origin EXCEPT ![j] = key]
                            /\ jobGen' = [jobGen EXCEPT ![j] = g]
      BY <1>3 DEF InsertJob
    <2>2. origin'[j] = key /\ jobGen'[j] = g
      BY <1>0, <2>1 DEF JobsOK
    <2> QED
      BY <1>0, <2>2 DEF Ours, Automatic
  <1> QED
    BY <1>0, <1>2, <1>3 DEF ScheduleJob

\* A job keeps its key and its generation.
LEMMA KeysStay ==
    ASSUME BaseInv, LifecycleAssumption, SuccessionInv, [Next]_vars, NEW j \in Jobs,
           origin[j][1] # "NONE"
    PROVE  origin'[j] = origin[j] /\ jobGen'[j] = jobGen[j]
  <1>0. JobsOK /\ status[j] # "NONE"
    BY BaseParts DEF SuccessionInv, Sound
  <1>1. ASSUME NEW n \in Jobs, NEW key, NEW g, Inserts(n, key, g)
        PROVE  origin'[j] = origin[j] /\ jobGen'[j] = jobGen[j]
    BY <1>0, <1>1 DEF Inserts, JobsOK
  <1>2. ASSUME NEW i \in Jobs, Dispatch(i) \/ Execution(i)
        PROVE  origin'[j] = origin[j] /\ jobGen'[j] = jobGen[j]
    <2>1. CASE scheduleNextAutomaticJob(i)
      BY <1>1, <2>1, NextScheduled DEF Schedules
    <2>2. ASSUME NEW new, Leaves(i, new) PROVE UNCHANGED <<origin, jobGen, root>>
      BY <2>2 DEF Leaves, Leave
    <2>3. CASE Dispatch(i) \/ Claim(i) \/ deferBlockedJob(i) \/ GoesOn(i)
      BY <2>3 DEF Dispatch, Claim, deferBlockedJob, GoesOn
    <2> QED
      BY <1>2, <2>1, <2>2, <2>3, ExecutionSteps
  <1>3. ASSUME NEW w \in Workers,
               \/ WorkerOnly(w) \/ CancelJob(w) \/ BuildStep(w)
               \/ scheduleAutomaticJob(w) \/ HandleTerminalJob(w)
        PROVE  origin'[j] = origin[j] /\ jobGen'[j] = jobGen[j]
    <2>1. CASE scheduleAutomaticJob(w)
      BY <1>1, <2>1, ScheduleStep DEF Schedules
    <2>2. CASE WorkerOnly(w) \/ CancelJob(w) \/ BuildStep(w) \/ HandleTerminalJob(w)
      BY <2>2, WorkerOnlyBase, BuildStepRow, CountStep DEF CancelJob, jobVars
    <2> QED
      BY <1>3, <2>1, <2>2
  <1>4. ASSUME \/ \E kind \in Kinds : CreateWorkflow(kind)
               \/ \E h, i \in BOOLEAN : UpdateWorkflow(h, i)
               \/ TerminateWorkflow
               \/ DeleteReadsWorkflow \/ DeleteReadsJobs \/ DeleteWorkflow
               \/ \E a \in Actions : LockExpires(a)
               \/ UNCHANGED vars
        PROVE  UNCHANGED <<origin, jobGen, root>>
    BY <1>4, Zenon
       DEF CreateWorkflow, UpdateWorkflow, TerminateWorkflow, DeleteReadsWorkflow, DeleteReadsJobs,
           DeleteWorkflow, LockExpires, vars, jobVars
  <1>5. CASE ScheduleManualJob
    BY <1>1, <1>5, ManualSteps
  <1> QED
    BY <1>2, <1>3, <1>4, <1>5, StepKinds

\* A record is committed by the handler that returns.
LEMMA CommitSteps ==
    ASSUME BaseInv, LifecycleAssumption, HandlerInv, [Next]_vars
    PROVE  \/ UNCHANGED committed
           \/ \E w \in Workers : /\ Return(w) /\ handler[w].pc # "idle" /\ UNCHANGED <<wf, log>>
                                 /\ Due(w) => scheduleAutomaticJob(w)
  <1>1. ASSUME \/ \E kind \in Kinds : CreateWorkflow(kind)
               \/ \E h, i \in BOOLEAN : UpdateWorkflow(h, i)
               \/ TerminateWorkflow
               \/ DeleteReadsWorkflow \/ DeleteReadsJobs \/ DeleteWorkflow
               \/ ScheduleManualJob
               \/ \E a \in Actions : LockExpires(a)
               \/ UNCHANGED vars
        PROVE  UNCHANGED committed
    BY <1>1, Zenon
       DEF CreateWorkflow, UpdateWorkflow, TerminateWorkflow, DeleteReadsWorkflow, DeleteReadsJobs,
           DeleteWorkflow, ScheduleManualJob, LockExpires, vars, workerVars
  <1>2. ASSUME NEW j \in Jobs, Dispatch(j) \/ Execution(j)
        PROVE  UNCHANGED committed
    BY <1>2, Zenon
       DEF Dispatch, Execution, Claim, deferBlockedJob, LoadWorkflow, scheduleNextAutomaticJob,
           releaseClaimForSystemRetry, Finish, Leave, workerVars
  <1> QED
    BY <1>1, <1>2, StepKinds, ReturnSteps

LEMMA NextRoot ==
    ASSUME BaseInv, LifecycleAssumption, LogInv, HandlerInv, SuccessionInv, RootScheduled, [Next]_vars
    PROVE  RootScheduled'
  <1> SUFFICES ASSUME wf'.state = "LIVE", ~wf'.terminated, wf'.build = "COMPLETED", RootHandled'
               PROVE  \E j \in Jobs : Ours(j)'
    BY DEF RootScheduled
  <1>0. /\ StepOK /\ log \in Seq(Events) /\ Len(log) \in Nat /\ committed \in 0..Len(log)
        /\ wf.generation \in Nat
    BY NextOK DEF BaseInv, TypeOK, WorkflowRows
  <1>1. PICK i \in 1..committed' : RootEvent(log'[i]) /\ log'[i].generation = wf'.generation
    BY DEF RootHandled
  <1>2. ASSUME i \in 1..committed PROVE log'[i] = log[i] /\ i \in 1..Len(log)
    <2>1. i \in 1..Len(log)
      BY <1>0, <1>2
    <2> QED
      BY <1>0, <2>1, LogKept
  <1>3. ASSUME wf'.generation = wf.generation, NEW j \in Jobs, Ours(j) PROVE Ours(j)'
    <2>1. origin'[j] = origin[j] /\ jobGen'[j] = jobGen[j]
      BY <1>3, KeysStay DEF Ours, Automatic
    <2> QED
      BY <1>3, <2>1 DEF Ours, Automatic
  \* The event was handled before.
  <1>4. CASE i \in 1..committed
    <2>1. RootEvent(log[i]) /\ log[i].generation = wf'.generation /\ i \in 1..Len(log)
      BY <1>1, <1>2, <1>4
    <2>2. wf'.generation = wf.generation
      <3>1. log[i].generation <= wf.generation
        BY <2>1 DEF LogInv
      <3> QED
        BY <1>0, <2>1, <3>1 DEF StepOK, LogQuiet, Starts
    <2>3. wf.state = "LIVE" /\ ~wf.terminated /\ RootHandled
      BY <1>4, <2>1, <2>2, <1>0 DEF StepOK, RowMoves, RootHandled
    <2>4. CASE wf.build = "COMPLETED"
      BY <1>3, <2>2, <2>3, <2>4 DEF RootScheduled
    <2>5. ASSUME NEW w \in Workers, completeWorkflowBuild(w), wf.build # "COMPLETED"
          PROVE  FALSE
      <3>1. handler[w].pc = "complete" /\ handler[w].at = committed + 1
        BY <2>5 DEF completeWorkflowBuild, At, HandlerInv
      <3>2. Ev(w).generation = wf.generation
        BY <2>5 DEF completeWorkflowBuild, UpdateWorkflowBuildStatus
      <3>3. RootEvent(Ev(w)) /\ handler[w].at \in 1..Len(log)
        BY <3>1 DEF BaseInv, HandlersNamed, Named, Ev, RootEvent
      <3>4. handler[w].at = i
        BY <2>1, <2>2, <3>2, <3>3 DEF LogInv, Ev
      <3> QED
        BY <1>0, <1>4, <3>1, <3>4
    <2> QED
      BY <1>0, <2>4, <2>5 DEF StepOK, RowMoves
  \* It is handled in this step.
  <1>5. CASE i \notin 1..committed
    <2>1. PICK w \in Workers : /\ Return(w) /\ handler[w].pc # "idle" /\ UNCHANGED <<wf, log>>
                               /\ Due(w) => scheduleAutomaticJob(w)
      BY <1>1, <1>5, CommitSteps
    <2>2. committed' \in {committed, committed + 1} /\ handler[w].at = committed + 1
      BY <2>1 DEF Return, HandlerInv
    <2>3. i = committed + 1
      BY <1>0, <1>1, <1>5, <2>2
    <2>4. Due(w)
      BY <1>1, <2>1, <2>2, <2>3 DEF Due, Ev
    <2> QED
      BY <2>1, <2>4, RootGetsJob
  <1> QED
    BY <1>4, <1>5

-----------------------------------------------------------------------------
AliveInv == BaseInv /\ LogInv /\ HandlerInv /\ SuccessionInv /\ RootScheduled

LEMMA InitAlive ==
    ASSUME LifecycleAssumption, Init
    PROVE  AliveInv
  <1>1. BaseInv
    BY InitBase
  <1>2. LogInv
    BY DEF Init, LogInv
  <1>3. HandlerInv
    BY DEF Init, HandlerInv, Idle
  <1>4. \A j \in Jobs : ~Automatic(j)
    BY DEF Init, Automatic, NoKey
  <1>5. SuccessionInv
    BY <1>4 DEF Init, SuccessionInv, Sound, Ours, NoKey
  <1>6. RootScheduled
    BY DEF Init, RootScheduled
  <1> QED
    BY <1>1, <1>2, <1>3, <1>5, <1>6 DEF AliveInv

LEMMA AliveIsAlive ==
    ASSUME AliveInv
    PROVE  ChainAlive
  <1> SUFFICES ASSUME wf.state = "LIVE", ~wf.terminated, wf.build = "COMPLETED",
                      \A a \in {"BUILD", "RESCHEDULE"} :
                          (\E i \in DOMAIN log : log[i] = Event(a, wf.generation))
                              => Handled(Event(a, wf.generation))
               PROVE  \/ Chain # {}
                      \/ \E j \in Jobs : Automatic(j) /\ status[j] = "FAILED" /\ ~Followed(j)
    BY DEF ChainAlive
  <1>0. log \in Seq(Events) /\ wf.generation \in Nat
    BY DEF AliveInv, BaseInv, TypeOK, WorkflowRows
  <1>1. PICK i \in 1..Len(log) : RootEvent(log[i]) /\ log[i].generation = wf.generation
    BY DEF AliveInv, LogInv
  <1>2. log[i] = Event(log[i].action, wf.generation)
    <2>1. log[i] \in Events /\ log[i].job = 0
      BY <1>0, <1>1 DEF AliveInv, LogInv
    <2> QED
      BY <1>1, <2>1 DEF Events, Event
  <1>3. PICK a \in {"BUILD", "RESCHEDULE"} : log[i] = Event(a, wf.generation)
    BY <1>1, <1>2 DEF RootEvent
  <1>4. PICK k \in 1..committed : log[k] = Event(a, wf.generation)
    BY <1>0, <1>3 DEF Handled
  <1>5. RootHandled
    BY <1>4 DEF RootHandled, RootEvent, Event
  <1>6. PICK j \in Jobs : Ours(j) /\ ~Followed(j)
    BY <1>5 DEF AliveInv, RootScheduled, SuccessionInv
  <1>7. GoingOn(j)
    BY <1>6 DEF AliveInv, SuccessionInv
  <1> QED
    BY <1>6, <1>7 DEF GoingOn, Ours, Chain

\* A workflow that is built has an automatic job that waits, runs or has failed
\* for good, whatever is retried, crashes or is updated in between, as long as
\* one handler at a time works on a record (build_workflow.go:75-88,
\* executor.go:371).
THEOREM ChainGoesOn ==
    ASSUME LifecycleAssumption, ~Overlap
    PROVE  Spec => []ChainAlive
  <1>1. Init => AliveInv
    BY InitAlive
  <1>2. AliveInv /\ [Next]_vars => AliveInv'
    BY NextBase, NextOK, NextHandlers, NextSuccession, NextRoot DEF AliveInv
  <1>3. AliveInv => ChainAlive
    BY AliveIsAlive
  <1> QED
    BY <1>1, <1>2, <1>3, PTL DEF Spec
=============================================================================

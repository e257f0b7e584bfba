-------------------------- MODULE JobLease_proofs ---------------------------
(*************************************************************************)
(* Theorems about JobLease, for any finite set of jobs, any processes,   *)
(* nodes, workflows and bounds, and first what each transaction on the   *)
(* jobs and runtime_nodes tables preserves.                              *)
(*************************************************************************)
EXTENDS JobLease, FiniteSetTheorems, TLAPS

-----------------------------------------------------------------------------
(* JobTable: the transactions.                                           *)

TableInv ==
    /\ TableTypeOK
    /\ LeaseWhileRunning
    /\ SlotsMatchRunningJobs
    /\ TerminalEventsMatchStatus

-----------------------------------------------------------------------------
(* The running_jobs counter *)

\* A node's running jobs can be counted, with one added or removed.
LEMMA RunningOnFinite ==
  ASSUME NEW n \in Nodes
  PROVE  /\ IsFiniteSet(RunningOn(n))
         /\ Cardinality(RunningOn(n)) \in Nat
         /\ \A j \in Jobs \ RunningOn(n) :
              Cardinality(RunningOn(n) \cup {j}) = Cardinality(RunningOn(n)) + 1
         /\ \A j \in RunningOn(n) :
              /\ Cardinality(RunningOn(n) \ {j}) = Cardinality(RunningOn(n)) - 1
              /\ Cardinality(RunningOn(n)) > 0
<1>1. RunningOn(n) \subseteq Jobs
  BY DEF RunningOn
<1>2. IsFiniteSet(RunningOn(n))
  BY <1>1, FS_Subset, JobTableAssumption
<1>3. Cardinality(RunningOn(n)) \in Nat
  BY <1>2, FS_CardinalityType
<1>4. ASSUME NEW j \in RunningOn(n)
      PROVE  /\ Cardinality(RunningOn(n) \ {j}) = Cardinality(RunningOn(n)) - 1
             /\ Cardinality(RunningOn(n)) > 0
  <2>1. Cardinality(RunningOn(n) \ {j}) = Cardinality(RunningOn(n)) - 1
    BY <1>2, FS_RemoveElement
  <2>2. Cardinality(RunningOn(n)) # 0
    BY <1>2, <1>4, FS_EmptySet
  <2> QED
    BY <1>3, <2>1, <2>2
<1> QED
  BY <1>2, <1>3, <1>4, FS_AddElement

\* A step that moves no job into or out of RUNNING keeps the counters exact.
LEMMA SlotsKept ==
  ASSUME SlotsMatchRunningJobs,
         runningJobs' = runningJobs,
         \A n \in Nodes : RunningOn(n)' = RunningOn(n)
  PROVE  SlotsMatchRunningJobs'
BY DEF SlotsMatchRunningJobs

\* decrementRuntimeSlotForJob gives back exactly the slot of the job that leaves
\* RUNNING; the floor of zero is never what decides.
LEMMA SlotReturned ==
  ASSUME TableTypeOK, SlotsMatchRunningJobs,
         NEW j \in Jobs, status[j] = "RUNNING",
         NEW s, s # "RUNNING",
         status' = [status EXCEPT ![j] = s],
         \A k \in Jobs \ {j} : runtimeNode'[k] = runtimeNode[k],
         decrementRuntimeSlotForJob(j)
  PROVE  SlotsMatchRunningJobs'
<1> SUFFICES ASSUME NEW n \in Nodes
             PROVE  /\ runningJobs'[n] = Cardinality(RunningOn(n)')
                    /\ runningJobs'[n] <= MaxConcurrency[n]
  BY DEF SlotsMatchRunningJobs
<1>1. RunningOn(n)' = RunningOn(n) \ {j}
  BY DEF RunningOn, TableTypeOK
<1>2. /\ runningJobs[n] = Cardinality(RunningOn(n))
      /\ runningJobs[n] <= MaxConcurrency[n]
      /\ runningJobs[n] \in Nat /\ MaxConcurrency[n] \in Nat
  BY JobTableAssumption DEF SlotsMatchRunningJobs, TableTypeOK
<1>3. CASE runtimeNode[j] = n
  <2>1. j \in RunningOn(n)
    BY <1>3 DEF RunningOn
  <2>2. runningJobs'[n] = runningJobs[n] - 1
    BY <1>2, <1>3, <2>1, RunningOnFinite DEF decrementRuntimeSlotForJob
  <2> QED
    BY <1>1, <1>2, <2>1, <2>2, RunningOnFinite
<1>4. CASE runtimeNode[j] # n
  <2>1. RunningOn(n) \ {j} = RunningOn(n)
    BY <1>4 DEF RunningOn
  <2>2. runningJobs'[n] = runningJobs[n]
    BY <1>4 DEF decrementRuntimeSlotForJob
  <2> QED
    BY <1>1, <1>2, <2>1, <2>2
<1> QED
  BY <1>3, <1>4
-----------------------------------------------------------------------------
(* One lemma per transaction *)

\* The empty tables.
LEMMA TableInitInv == TableInit => TableInv
<1> SUFFICES ASSUME TableInit PROVE TableInv
  OBVIOUS
<1> USE JobTableAssumption DEF TableInit
<1>1. TableTypeOK
  BY DEF TableTypeOK, Active, Terminal
<1>2. LeaseWhileRunning
  BY DEF LeaseWhileRunning
<1>3. SlotsMatchRunningJobs
  <2> SUFFICES ASSUME NEW n \in Nodes
               PROVE  /\ runningJobs[n] = Cardinality(RunningOn(n))
                      /\ runningJobs[n] <= MaxConcurrency[n]
    BY DEF SlotsMatchRunningJobs
  <2>1. RunningOn(n) = {}
    BY DEF RunningOn
  <2> QED
    BY <2>1, FS_EmptySet
<1>4. TerminalEventsMatchStatus
  BY DEF TerminalEventsMatchStatus
<1> QED
  BY <1>1, <1>2, <1>3, <1>4 DEF TableInv

\* A job that ends leaves neither a lease nor a runtime slot behind, and the
\* outbox carries the events of its final status.
LEMMA FinishInv ==
  ASSUME TableInv, NEW j \in Jobs, status[j] = "RUNNING",
         NEW s \in Terminal, Finish(j, s),
         \/ s = "COMPLETED" /\ insertTerminalJobOutboxEvents(j, "JOB_COMPLETED")
         \/ s = "FAILED" /\ insertTerminalJobOutboxEvents(j, "JOB_FAILED")
         \/ s = "CANCELED" /\ UNCHANGED terminalEvents
  PROVE  TableInv'
<1> USE DEF TableInv, Finish, leaseVars, nodeVars, workflowVars, outboxVars
<1>1. TableTypeOK'
  BY DEF TableTypeOK, ClearLease, decrementRuntimeSlotForJob, Active, Terminal,
         insertTerminalJobOutboxEvents, TerminalEvents
<1>2. LeaseWhileRunning'
  BY DEF LeaseWhileRunning, ClearLease, TableTypeOK, Terminal
<1>3. SlotsMatchRunningJobs'
  BY SlotReturned DEF Terminal
<1>4. TerminalEventsMatchStatus'
  BY DEF TerminalEventsMatchStatus, insertTerminalJobOutboxEvents, TableTypeOK,
         TerminalEvents, Terminal
<1> QED
  BY <1>1, <1>2, <1>3, <1>4

\* CompleteJob, FailJob and CancelClaimedJob.
LEMMA TerminalCommandInv ==
  ASSUME TableInv, NEW j \in Jobs, NEW t,
         CompleteJob(j, t) \/ FailJob(j, t) \/ CancelClaimedJob(j, t)
  PROVE  TableInv'
BY FinishInv DEF CompleteJob, FailJob, CancelClaimedJob, HoldsLease, Terminal

\* The scheduler's inputs: a new row, or one that becomes due.
LEMMA ScheduleInv ==
  ASSUME TableInv, NEW j \in Jobs, ScheduleJob(j) \/ BecomeDue(j)
  PROVE  TableInv'
<1> USE DEF TableInv, ScheduleJob, BecomeDue, leaseVars, nodeVars, workflowVars, outboxVars
<1>1. TableTypeOK'
  BY ZenonT(60) DEF TableTypeOK, Active
<1>2. LeaseWhileRunning'
  BY DEF LeaseWhileRunning, TableTypeOK
<1>3. SlotsMatchRunningJobs'
  BY SlotsKept DEF RunningOn, TableTypeOK
<1>4. TerminalEventsMatchStatus'
  BY DEF TerminalEventsMatchStatus, TableTypeOK
<1> QED
  BY <1>1, <1>2, <1>3, <1>4

\* A scheduler pass.
LEMMA SchedulerRunInv ==
  ASSUME TableInv, NEW S \in SUBSET Jobs, SchedulerRun(S)
  PROVE  TableInv'
<1> USE DEF TableInv, SchedulerRun, Dispatchable, leaseVars, nodeVars, workflowVars
<1>1. TableTypeOK'
  BY DEF TableTypeOK, Active
<1>2. LeaseWhileRunning'
  BY DEF LeaseWhileRunning, TableTypeOK
<1>3. SlotsMatchRunningJobs'
  BY SlotsKept DEF RunningOn, TableTypeOK
<1>4. TerminalEventsMatchStatus'
  BY DEF TerminalEventsMatchStatus, TableTypeOK
<1> QED
  BY <1>1, <1>2, <1>3, <1>4

\* The claim statement takes one slot of a node that has one, and issues a token
\* that was never issued for the job.
LEMMA ClaimJobInv ==
  ASSUME TableInv, NEW j \in Jobs, NEW d, NEW p \in Processes, ClaimJob(j, d, p)
  PROVE  TableInv'
<1> USE DEF TableInv, ClaimJob, Claimable, leaseVars, workflowVars, outboxVars
<1>1. TableTypeOK'
  BY DEF TableTypeOK, Active, EligibleNodes
<1>2. LeaseWhileRunning'
  BY JobTableAssumption DEF LeaseWhileRunning, TableTypeOK
<1>3. SlotsMatchRunningJobs'
  <2>1. PICK m \in (IF NeedsRuntime(j) THEN EligibleNodes ELSE {NoNode}) :
          /\ runtimeNode' = [runtimeNode EXCEPT ![j] = m]
          /\ runningJobs' = [n \in Nodes |->
                 IF n = m THEN runningJobs[n] + 1 ELSE runningJobs[n]]
    OBVIOUS
  <2> SUFFICES ASSUME NEW n \in Nodes
               PROVE  /\ runningJobs'[n] = Cardinality(RunningOn(n)')
                      /\ runningJobs'[n] <= MaxConcurrency[n]
    BY DEF SlotsMatchRunningJobs
  <2>2. /\ runningJobs[n] = Cardinality(RunningOn(n))
        /\ runningJobs[n] <= MaxConcurrency[n]
        /\ runningJobs[n] \in Nat /\ MaxConcurrency[n] \in Nat
    BY JobTableAssumption DEF SlotsMatchRunningJobs, TableTypeOK
  <2>3. CASE n = m
    <3>1. RunningOn(n)' = RunningOn(n) \cup {j} /\ j \notin RunningOn(n)
      BY <2>1, <2>3 DEF RunningOn, TableTypeOK
    <3>2. runningJobs[n] < MaxConcurrency[n]
      BY <2>1, <2>3, JobTableAssumption DEF EligibleNodes
    <3> QED
      BY <2>1, <2>2, <2>3, <3>1, <3>2, RunningOnFinite
  <2>4. CASE n # m
    <3>1. RunningOn(n)' = RunningOn(n)
      BY <2>1, <2>4 DEF RunningOn, TableTypeOK
    <3> QED
      BY <2>1, <2>2, <2>4, <3>1
  <2> QED
    BY <2>3, <2>4
<1>4. TerminalEventsMatchStatus'
  BY DEF TerminalEventsMatchStatus, TableTypeOK
<1> QED
  BY <1>1, <1>2, <1>3, <1>4
\* A deferred job goes back in line.
LEMMA DeferBlockedJobInv ==
  ASSUME TableInv, NEW j \in Jobs, DeferBlockedJob(j)
  PROVE  TableInv'
<1> USE DEF TableInv, DeferBlockedJob, leaseVars, nodeVars, workflowVars, outboxVars
<1>1. TableTypeOK'
  BY DEF TableTypeOK, Active
<1>2. LeaseWhileRunning'
  BY DEF LeaseWhileRunning, TableTypeOK
<1>3. SlotsMatchRunningJobs'
  BY SlotsKept DEF RunningOn, TableTypeOK
<1>4. TerminalEventsMatchStatus'
  BY DEF TerminalEventsMatchStatus, TableTypeOK
<1> QED
  BY <1>1, <1>2, <1>3, <1>4

\* The attached container.
LEMMA AttachJobContainerInv ==
  ASSUME TableInv, NEW j \in Jobs, NEW t, NEW n, AttachJobContainer(j, t, n)
  PROVE  TableInv'
<1> USE DEF TableInv, AttachJobContainer, leaseVars, nodeVars, workflowVars, outboxVars
<1>1. TableTypeOK'
  BY DEF TableTypeOK
<1>2. LeaseWhileRunning'
  BY DEF LeaseWhileRunning, TableTypeOK
<1>3. SlotsMatchRunningJobs'
  BY SlotsKept DEF RunningOn, TableTypeOK
<1>4. TerminalEventsMatchStatus'
  BY DEF TerminalEventsMatchStatus, TableTypeOK
<1> QED
  BY <1>1, <1>2, <1>3, <1>4

\* A released job keeps neither its lease nor its slot, whether it goes back in
\* line or its workflow was terminated.
LEMMA ReleaseJobForRetryInv ==
  ASSUME TableInv, NEW j \in Jobs, NEW t, ReleaseJobForRetry(j, t)
  PROVE  TableInv'
<1>1. CASE terminated[WorkflowOf[j]]
  BY <1>1, FinishInv DEF ReleaseJobForRetry, HoldsLease, Terminal
<1>2. CASE ~terminated[WorkflowOf[j]]
  <2> USE <1>2 DEF TableInv, ReleaseJobForRetry, HoldsLease, workflowVars, outboxVars
  <2>1. TableTypeOK'
    <3>1. /\ status' \in [Jobs -> Active \cup Terminal \cup {"ABSENT"}]
          /\ due' \in [Jobs -> BOOLEAN] /\ containerId' \in [Jobs -> BOOLEAN]
          /\ runtimeNode' \in [Jobs -> Nodes \cup {NoNode}]
      BY DEF TableTypeOK, Active
    <3>2. /\ leaseToken' \in [Jobs -> Nat] /\ leaseLive' \in [Jobs -> BOOLEAN]
          /\ leasedBy' \in [Jobs -> Processes \cup {NoProcess}]
          /\ grants' \in [Jobs -> Nat]
      <4>1. ClearLease(j)
        OBVIOUS
      <4> HIDE DEF ReleaseJobForRetry
      <4> QED
        BY <4>1 DEF TableTypeOK, ClearLease
    <3>3. runningJobs' \in [Nodes -> Nat]
      BY DEF TableTypeOK, decrementRuntimeSlotForJob
    <3> QED
      BY <3>1, <3>2, <3>3 DEF TableTypeOK
  <2>2. LeaseWhileRunning'
    BY DEF LeaseWhileRunning, ClearLease, TableTypeOK
  <2>3. SlotsMatchRunningJobs'
    <3>1. \A k \in Jobs \ {j} : runtimeNode'[k] = runtimeNode[k]
      BY DEF TableTypeOK
    <3> QED
      BY <3>1, SlotReturned
  <2>4. TerminalEventsMatchStatus'
    BY DEF TerminalEventsMatchStatus, TableTypeOK
  <2> QED
    BY <2>1, <2>2, <2>3, <2>4
<1> QED
  BY <1>1, <1>2

\* A cancelled job, running or not.
LEMMA CancelJobInv ==
  ASSUME TableInv, NEW j \in Jobs, CancelJob(j)
  PROVE  TableInv'
<1>1. CASE status[j] = "RUNNING"
  BY <1>1, FinishInv DEF CancelJob, Terminal
<1>2. CASE status[j] # "RUNNING"
  <2> USE <1>2 DEF TableInv, CancelJob, leaseVars, nodeVars, workflowVars
  <2>1. TableTypeOK'
    BY DEF TableTypeOK, Active, Terminal
  <2>2. LeaseWhileRunning'
    BY DEF LeaseWhileRunning, TableTypeOK
  <2>3. SlotsMatchRunningJobs'
    BY SlotsKept DEF RunningOn, TableTypeOK
  <2>4. TerminalEventsMatchStatus'
    BY DEF TerminalEventsMatchStatus, TableTypeOK, Active
  <2> QED
    BY <2>1, <2>2, <2>3, <2>4
<1> QED
  BY <1>1, <1>2

\* Recovered leases change owner and token together.
LEMMA RecoverExpiredJobLeasesInv ==
  ASSUME TableInv, NEW S \in SUBSET Jobs, NEW p \in Processes, RecoverExpiredJobLeases(S, p)
  PROVE  TableInv'
<1> USE DEF TableInv, RecoverExpiredJobLeases, Recoverable, nodeVars, workflowVars, outboxVars
<1>1. TableTypeOK'
  <2>1. leaseLive' \in [Jobs -> BOOLEAN]
    <3>1. \A j \in Jobs : leaseLive[j] \in BOOLEAN
      BY DEF TableTypeOK
    <3> QED
      BY <3>1, Zenon
  <2>2. /\ leaseToken' \in [Jobs -> Nat] /\ grants' \in [Jobs -> Nat]
        /\ leasedBy' \in [Jobs -> Processes \cup {NoProcess}]
    BY DEF TableTypeOK
  <2> QED
    BY <2>1, <2>2 DEF TableTypeOK
<1>2. LeaseWhileRunning'
  BY JobTableAssumption DEF LeaseWhileRunning, TableTypeOK
<1>3. SlotsMatchRunningJobs'
  BY SlotsKept DEF RunningOn, TableTypeOK
<1>4. TerminalEventsMatchStatus'
  BY DEF TerminalEventsMatchStatus, TableTypeOK
<1> QED
  BY <1>1, <1>2, <1>3, <1>4

\* The clock.
LEMMA LeaseExpiresInv ==
  ASSUME TableInv, NEW j \in Jobs, LeaseExpires(j)
  PROVE  TableInv'
<1> USE DEF TableInv, LeaseExpires, nodeVars, workflowVars, outboxVars
<1>1. TableTypeOK'
  BY DEF TableTypeOK
<1>2. LeaseWhileRunning'
  BY DEF LeaseWhileRunning, TableTypeOK
<1>3. SlotsMatchRunningJobs'
  BY SlotsKept DEF RunningOn, TableTypeOK
<1>4. TerminalEventsMatchStatus'
  BY DEF TerminalEventsMatchStatus, TableTypeOK
<1> QED
  BY <1>1, <1>2, <1>3, <1>4

\* A runtime agent's report: the recount finds what the counter already says.
LEMMA UpsertNodeInv ==
  ASSUME TableInv, NEW n \in Nodes, NEW refresh \in BOOLEAN,
         NEW s \in {"READY", "DRAINING", "UNHEALTHY"}, UpsertNode(n, s, refresh)
  PROVE  TableInv'
<1> USE DEF TableInv, UpsertNode, jobVars, leaseVars, workflowVars, outboxVars
<1>1. runningJobs' = runningJobs
  BY DEF SlotsMatchRunningJobs, TableTypeOK
<1>2. TableTypeOK'
  BY <1>1 DEF TableTypeOK
<1>3. LeaseWhileRunning'
  BY DEF LeaseWhileRunning
<1>4. SlotsMatchRunningJobs'
  BY <1>1, SlotsKept DEF RunningOn
<1>5. TerminalEventsMatchStatus'
  BY DEF TerminalEventsMatchStatus
<1> QED
  BY <1>2, <1>3, <1>4, <1>5

\* Steps that touch neither a job nor a slot.
LEMMA ColumnsInv ==
  ASSUME TableInv, (\E n \in Nodes : HeartbeatAges(n)) \/ (\E w \in Workflows : TerminateWorkflow(w))
  PROVE  TableInv'
<1> USE DEF TableInv, HeartbeatAges, TerminateWorkflow, jobVars, leaseVars, nodeVars, workflowVars, outboxVars
<1>1. TableTypeOK'
  BY ZenonT(60) DEF TableTypeOK
<1>2. LeaseWhileRunning'
  BY DEF LeaseWhileRunning
<1>3. SlotsMatchRunningJobs'
  BY SlotsKept DEF RunningOn
<1>4. TerminalEventsMatchStatus'
  BY DEF TerminalEventsMatchStatus
<1> QED
  BY <1>1, <1>2, <1>3, <1>4

-----------------------------------------------------------------------------
(* JobLease: the processes.                                              *)

\* The step of a single job, in terms of the columns a life cycle is about.
To(j, s, p, g, a) == /\ status'[j] = s /\ leasedBy'[j] = p
                     /\ grants'[j] = g /\ attempts'[j] = a

Moves(j) ==
    \/ To(j, status[j], leasedBy[j], grants[j], attempts[j])
    \/ status[j] = "ABSENT" /\ To(j, "PENDING", leasedBy[j], grants[j], attempts[j])
    \/ status[j] = "PENDING" /\ To(j, "QUEUED", leasedBy[j], grants[j], attempts[j])
    \/ status[j] = "QUEUED" /\ To(j, "PENDING", leasedBy[j], grants[j], attempts[j])
    \/ /\ status[j] = "QUEUED"
       /\ \E p \in Processes : To(j, "RUNNING", p, grants[j] + 1, attempts[j] + 1)
    \/ /\ status[j] = "RUNNING"
       /\ \E p \in Processes : To(j, "RUNNING", p, grants[j] + 1, attempts[j])
    \/ /\ status[j] = "RUNNING" /\ attempts[j] < SystemRetryLimit
       /\ To(j, "PENDING", NoProcess, grants[j], attempts[j])
    \/ \E s \in Terminal :
          /\ status[j] = "RUNNING" \/ (s = "CANCELED" /\ status[j] \in {"PENDING", "QUEUED"})
          /\ To(j, s, NoProcess, grants[j], attempts[j])

-----------------------------------------------------------------------------
(* Every transaction moves each job along its life cycle *)

\* A job that ends.
LEMMA FinishMoves ==
  ASSUME TableInv, NEW j \in Jobs, status[j] = "RUNNING", NEW s \in Terminal, Finish(j, s)
  PROVE  \A k \in Jobs : Moves(k)
<1> USE DEF TableInv, TableTypeOK, Finish, ClearLease
<1> SUFFICES ASSUME NEW k \in Jobs PROVE Moves(k)
  OBVIOUS
<1>1. CASE k = j
  <2>1. To(k, s, NoProcess, grants[k], attempts[k])
    BY <1>1 DEF To
  <2> QED
    BY <1>1, <2>1 DEF Moves
<1>2. CASE k # j
  <2>1. To(k, status[k], leasedBy[k], grants[k], attempts[k])
    BY <1>2 DEF To
  <2> QED
    BY <2>1 DEF Moves
<1> QED
  BY <1>1, <1>2

\* The transactions that change no owner.
LEMMA WaitingMoves ==
  ASSUME TableInv,
         \/ \E j \in Jobs : ScheduleJob(j) \/ BecomeDue(j) \/ DeferBlockedJob(j)
         \/ \E S \in SUBSET Jobs : SchedulerRun(S)
  PROVE  \A k \in Jobs : Moves(k)
<1> USE DEF TableInv, TableTypeOK, leaseVars, Moves, To
<1>1. ASSUME NEW j \in Jobs, ScheduleJob(j) PROVE \A k \in Jobs : Moves(k)
  BY <1>1 DEF ScheduleJob
<1>2. ASSUME NEW j \in Jobs, BecomeDue(j) PROVE \A k \in Jobs : Moves(k)
  BY <1>2 DEF BecomeDue
<1>3. ASSUME NEW j \in Jobs, DeferBlockedJob(j) PROVE \A k \in Jobs : Moves(k)
  BY <1>3 DEF DeferBlockedJob
<1>4. ASSUME NEW S \in SUBSET Jobs, SchedulerRun(S) PROVE \A k \in Jobs : Moves(k)
  BY <1>4 DEF SchedulerRun, Dispatchable
<1> QED
  BY <1>1, <1>2, <1>3, <1>4

\* The transactions that give a job an owner.
LEMMA OwnerMoves ==
  ASSUME TableInv, NEW p \in Processes,
         \/ \E j \in Jobs, d \in Nat : ClaimJob(j, d, p)
         \/ \E S \in SUBSET Jobs : RecoverExpiredJobLeases(S, p)
  PROVE  \A k \in Jobs : Moves(k)
<1> USE DEF TableInv, TableTypeOK, Moves, To
<1>1. ASSUME NEW j \in Jobs, NEW d \in Nat, ClaimJob(j, d, p) PROVE \A k \in Jobs : Moves(k)
  BY <1>1 DEF ClaimJob, Claimable
<1>2. ASSUME NEW S \in SUBSET Jobs, RecoverExpiredJobLeases(S, p)
      PROVE  \A k \in Jobs : Moves(k)
  BY <1>2 DEF RecoverExpiredJobLeases, Recoverable
<1> QED
  BY <1>1, <1>2

\* The ways out of RUNNING.
LEMMA EndMoves ==
  ASSUME TableInv, NEW j \in Jobs,
         \/ CancelJob(j)
         \/ \E t \in Nat : CompleteJob(j, t) \/ FailJob(j, t) \/ CancelClaimedJob(j, t)
         \/ attempts[j] < SystemRetryLimit /\ \E t \in Nat : ReleaseJobForRetry(j, t)
  PROVE  \A k \in Jobs : Moves(k)
<1>1. CASE \E s \in Terminal : status[j] = "RUNNING" /\ Finish(j, s)
  BY <1>1, FinishMoves
<1>2. CASE status[j] # "RUNNING" /\ CancelJob(j)
  <2> SUFFICES ASSUME NEW k \in Jobs PROVE Moves(k)
    OBVIOUS
  <2> USE <1>2 DEF TableInv, TableTypeOK, CancelJob, leaseVars, To
  <2>1. CASE k = j
    <3>1. leasedBy[j] = NoProcess
      BY DEF LeaseWhileRunning
    <3>2. To(k, "CANCELED", NoProcess, grants[k], attempts[k])
      BY <2>1, <3>1
    <3> QED
      BY <2>1, <3>2 DEF Moves, Active, Terminal
  <2>2. CASE k # j
    BY <2>2 DEF Moves
  <2> QED
    BY <2>1, <2>2
<1>3. ASSUME NEW t \in Nat, ReleaseJobForRetry(j, t), attempts[j] < SystemRetryLimit,
             ~terminated[WorkflowOf[j]]
      PROVE  \A k \in Jobs : Moves(k)
  BY <1>3 DEF TableInv, TableTypeOK, ReleaseJobForRetry, HoldsLease, ClearLease, Moves, To
<1> QED
  BY <1>1, <1>2, <1>3
     DEF CancelJob, CompleteJob, FailJob, CancelClaimedJob, ReleaseJobForRetry,
         HoldsLease, Terminal

\* Steps that leave the four columns alone.
LEMMA ColumnMoves ==
  ASSUME UNCHANGED <<status, leasedBy, grants, attempts>>
  PROVE  \A k \in Jobs : Moves(k)
BY DEF Moves, To
-----------------------------------------------------------------------------
(* The inductive invariant *)

\* No process holds a token that is yet to be issued, and one that holds the token
\* a RUNNING job accepts is the process the row names.
HeldTokens ==
    \A h \in held : /\ h[3] <= grants[h[2]]
                    /\ HoldsLease(h[2], h[3]) => leasedBy[h[2]] = h[1]

\* A job that was never inserted has never run.
FreshJobs == \A j \in Jobs : status[j] = "ABSENT" => attempts[j] = 0

WorkerTypeOK ==
    /\ alive \subseteq Processes
    /\ held \subseteq Processes \X Jobs \X Nat \X Modes
    /\ claims \subseteq Processes \X Jobs \X Nat \X Nat
    /\ claimTx \subseteq Processes \X Jobs \X Nat \X Statements

LeaseInv ==
    /\ TableInv /\ WorkerTypeOK /\ HeldTokens
    /\ FreshJobs /\ AttemptsWithinLimit /\ OneActivePerWorkflow

\* What a step does to the tables, whoever takes it.
TableStep ==
    /\ TableInv'
    /\ \A k \in Jobs : Moves(k)
    /\ OneActivePerWorkflow'

\* What a step does to the workers' memory: a process learns a token only as the
\* owner its job has after the step.
WorkerStep ==
    /\ WorkerTypeOK'
    /\ \A h \in held' : \/ \E g \in held : g[1] = h[1] /\ g[2] = h[2] /\ g[3] = h[3]
                        \/ /\ h[3] = leaseToken'[h[2]] /\ h[1] = leasedBy'[h[2]]
                           /\ status'[h[2]] = "RUNNING"

\* A token that was issued before the step and is accepted after it is the token
\* that was accepted before it, and its owner is the same.
LEMMA TokensKept ==
  ASSUME LeaseInv, TableStep, WorkerStep
  PROVE  HeldTokens'
<1> SUFFICES ASSUME NEW h \in held'
             PROVE  /\ h[3] <= grants'[h[2]]
                    /\ HoldsLease(h[2], h[3])' => leasedBy'[h[2]] = h[1]
  BY DEF HeldTokens
<1>1. h[2] \in Jobs /\ h[3] \in Nat
  BY DEF WorkerStep, WorkerTypeOK
<1>2. /\ grants[h[2]] \in Nat /\ grants'[h[2]] \in Nat
      /\ status'[h[2]] = "RUNNING" => leaseToken'[h[2]] = grants'[h[2]]
  BY <1>1 DEF LeaseInv, TableStep, TableInv, TableTypeOK, LeaseWhileRunning
<1>3. CASE \E g \in held : g[1] = h[1] /\ g[2] = h[2] /\ g[3] = h[3]
  <2>1. /\ h[3] <= grants[h[2]]
        /\ HoldsLease(h[2], h[3]) => leasedBy[h[2]] = h[1]
    BY <1>3 DEF LeaseInv, HeldTokens
  <2>2. /\ grants[h[2]] <= grants'[h[2]]
        /\ status'[h[2]] = "RUNNING" /\ grants'[h[2]] = grants[h[2]] =>
             status[h[2]] = "RUNNING" /\ leasedBy'[h[2]] = leasedBy[h[2]]
    BY <1>1, <1>2 DEF TableStep, Moves, To, Terminal
  <2>3. status[h[2]] = "RUNNING" => leaseToken[h[2]] = grants[h[2]]
    BY <1>1 DEF LeaseInv, TableInv, LeaseWhileRunning
  <2> QED
    BY <1>1, <1>2, <2>1, <2>2, <2>3 DEF HoldsLease
<1>4. CASE ~(\E g \in held : g[1] = h[1] /\ g[2] = h[2] /\ g[3] = h[3])
  BY <1>1, <1>2, <1>4 DEF WorkerStep
<1> QED
  BY <1>3, <1>4

\* Attempts are counted along the life cycle.
LEMMA AttemptsKept ==
  ASSUME LeaseInv, TableStep
  PROVE  FreshJobs' /\ AttemptsWithinLimit'
<1> SUFFICES ASSUME NEW j \in Jobs
             PROVE  /\ status'[j] = "ABSENT" => attempts'[j] = 0
                    /\ attempts'[j] <= SystemRetryLimit
                    /\ status'[j] \in {"PENDING", "QUEUED"} => attempts'[j] < SystemRetryLimit
  BY DEF FreshJobs, AttemptsWithinLimit
<1>1. attempts[j] \in Nat /\ SystemRetryLimit \in Nat \ {0}
  BY JobLeaseAssumption DEF LeaseInv, TableInv, TableTypeOK
<1>2. Moves(j)
  BY DEF TableStep
<1> QED
  BY <1>1, <1>2 DEF LeaseInv, FreshJobs, AttemptsWithinLimit, Moves, To, Terminal

\* A step that queues or claims nothing keeps the jobs of a workflow apart.
LEMMA NoneActivated ==
  ASSUME OneActivePerWorkflow,
         \A k \in Jobs : status'[k] \in {"QUEUED", "RUNNING"} =>
                            status[k] \in {"QUEUED", "RUNNING"}
  PROVE  OneActivePerWorkflow'
BY DEF OneActivePerWorkflow, SameWorkflow
-----------------------------------------------------------------------------
(* Every step of the specification *)

\* The tables as they are.
LEMMA TableUnchanged ==
  ASSUME LeaseInv, UNCHANGED tableVars
  PROVE  TableStep
<1> USE DEF LeaseInv, tableVars, leaseVars, nodeVars, workflowVars, outboxVars
<1>1. TableInv'
  BY SlotsKept DEF TableInv, TableTypeOK, LeaseWhileRunning, TerminalEventsMatchStatus,
                   RunningOn
<1>2. OneActivePerWorkflow'
  BY DEF OneActivePerWorkflow, SameWorkflow
<1> QED
  BY <1>1, <1>2, ColumnMoves DEF TableStep

\* No process learns a token.
LEMMA NothingLearnt ==
  ASSUME LeaseInv, held' \subseteq held, alive' \subseteq alive,
         claims' \subseteq Processes \X Jobs \X Nat \X Nat,
         claimTx' \subseteq Processes \X Jobs \X Nat \X Statements
  PROVE  WorkerStep
BY DEF WorkerStep, WorkerTypeOK, LeaseInv

\* Steps of the environment: users, the clock, the scheduler, the runtime agents.
LEMMA EnvironmentStep ==
  ASSUME LeaseInv, UNCHANGED workerVars,
         \/ \E j \in Jobs : \/ ScheduleJob(j) \/ BecomeDue(j) \/ CancelJob(j)
                            \/ LeaseExpires(j)
         \/ \E S \in SUBSET Jobs : SchedulerRun(S)
         \/ \E w \in Workflows : TerminateWorkflow(w)
         \/ \E n \in Nodes : \/ Heartbeat(n) \/ MarkDraining(n)
                             \/ MarkUnhealthy(n) \/ HeartbeatAges(n)
  PROVE  TableStep /\ WorkerStep
<1>1. WorkerStep
  BY NothingLearnt DEF workerVars, LeaseInv, WorkerTypeOK
<1>2. TableInv'
  BY ScheduleInv, CancelJobInv, LeaseExpiresInv, SchedulerRunInv, UpsertNodeInv, ColumnsInv
     DEF LeaseInv, Heartbeat, MarkDraining, MarkUnhealthy
<1>3. \A k \in Jobs : Moves(k)
  BY WaitingMoves, EndMoves, ColumnMoves
     DEF LeaseInv, LeaseExpires, TerminateWorkflow, Heartbeat, MarkDraining,
         MarkUnhealthy, UpsertNode, HeartbeatAges, jobVars, leaseVars
<1>4. OneActivePerWorkflow'
  <2>1. ASSUME NEW S \in SUBSET Jobs, SchedulerRun(S) PROVE OneActivePerWorkflow'
    BY <2>1 DEF SchedulerRun, Dispatchable, OneActivePerWorkflow, SameWorkflow, LeaseInv
  <2>2. ASSUME NEW j \in Jobs, ScheduleJob(j) \/ BecomeDue(j) \/ CancelJob(j) \/ LeaseExpires(j)
        PROVE  OneActivePerWorkflow'
    <3>1. \A k \in Jobs : status'[k] \in {"QUEUED", "RUNNING"} =>
                             status[k] \in {"QUEUED", "RUNNING"}
      BY <2>2 DEF ScheduleJob, BecomeDue, CancelJob, Finish, LeaseExpires, LeaseInv,
                  TableInv, TableTypeOK
    <3> QED
      BY <3>1, NoneActivated DEF LeaseInv
  <2>3. ASSUME UNCHANGED status PROVE OneActivePerWorkflow'
    BY <2>3, NoneActivated DEF LeaseInv
  <2> QED
    BY <2>1, <2>2, <2>3
       DEF TerminateWorkflow, Heartbeat, MarkDraining, MarkUnhealthy, UpsertNode,
           HeartbeatAges, jobVars
<1> QED
  BY <1>1, <1>2, <1>3, <1>4 DEF TableStep

\* The statements of a claim.
LEMMA ClaimStepOK ==
  ASSUME LeaseInv, NEW p \in Processes, NEW j \in Jobs, NEW d \in 1..MaxDispatch,
         ClaimStep(p, j, d)
  PROVE  TableStep /\ WorkerStep
<1>0. d \in Nat
  BY JobTableAssumption
<1>1. CASE ClaimStatement(p, j, d) /\ ClaimJob(j, d, p)
  <2>1. TableInv'
    BY <1>1, ClaimJobInv DEF LeaseInv
  <2>2. \A k \in Jobs : Moves(k)
    BY <1>0, <1>1, OwnerMoves DEF LeaseInv
  <2>3. OneActivePerWorkflow'
    <3>1. \A k \in Jobs : status'[k] \in {"QUEUED", "RUNNING"} =>
                             status[k] \in {"QUEUED", "RUNNING"}
      BY <1>1 DEF ClaimJob, Claimable, LeaseInv, TableInv, TableTypeOK
    <3> QED
      BY <3>1, NoneActivated DEF LeaseInv
  <2>4. /\ leaseToken'[j] \in Nat /\ leasedBy'[j] = p /\ status'[j] = "RUNNING"
        /\ ~(~Claimable(j, d))
    BY <1>1 DEF ClaimJob, LeaseInv, TableInv, TableTypeOK
  <2>5. WorkerStep
    BY <1>0, <1>1, <2>4 DEF ClaimStatement, WorkerStep, WorkerTypeOK, LeaseInv, Modes
  <2> QED
    BY <2>1, <2>2, <2>3, <2>5 DEF TableStep
<1>2. CASE DeferStatement(p, j, d) /\ DeferBlockedJob(j)
  <2>1. TableInv'
    BY <1>2, DeferBlockedJobInv DEF LeaseInv
  <2>2. \A k \in Jobs : Moves(k)
    BY <1>2, WaitingMoves DEF LeaseInv
  <2>3. OneActivePerWorkflow'
    <3>1. \A k \in Jobs : status'[k] \in {"QUEUED", "RUNNING"} =>
                             status[k] \in {"QUEUED", "RUNNING"}
      BY <1>2 DEF DeferBlockedJob, LeaseInv, TableInv, TableTypeOK
    <3> QED
      BY <3>1, NoneActivated DEF LeaseInv
  <2>4. ~(~(status[j] = "QUEUED" /\ Blocked(j)))
    BY <1>2 DEF DeferBlockedJob
  <2>5. WorkerStep
    BY <1>0, <1>2, <2>4, NothingLearnt DEF DeferStatement, WorkerTypeOK, LeaseInv
  <2> QED
    BY <2>1, <2>2, <2>3, <2>5 DEF TableStep
<1>3. CASE UNCHANGED tableVars
  <2>1. TableStep
    BY <1>3, TableUnchanged
  <2>2. CASE ReplayClaim(p, j, d)
    <3>1. leaseToken'[j] = leaseToken[j] /\ leasedBy'[j] = p /\ status'[j] = "RUNNING"
          /\ leaseToken[j] \in Nat
      BY <1>3, <2>2 DEF ReplayClaim, ReplayValid, tableVars, leaseVars, LeaseInv, TableInv, TableTypeOK
    <3> QED
      BY <2>1, <2>2, <3>1 DEF ReplayClaim, WorkerStep, WorkerTypeOK, LeaseInv, Modes
  <2>3. CASE ~ReplayClaim(p, j, d)
    <3>1. /\ held' = held /\ alive' = alive
          /\ claims' \subseteq Processes \X Jobs \X Nat \X Nat
          /\ claimTx' \subseteq Processes \X Jobs \X Nat \X Statements
      BY <1>0, <1>3, <2>3
         DEF ClaimStep, ClaimStatement, ClaimJob, Claimable, DeferStatement,
             DeferBlockedJob, RuntimeStatement, StatusStatement, RollbackClaim,
             WorkerTypeOK, LeaseInv, Statements, tableVars, leaseVars, TableInv, TableTypeOK
    <3> QED
      BY <2>1, <3>1, NothingLearnt
  <2> QED
    BY <2>2, <2>3
<1> QED
  BY <1>1, <1>2, <1>3
     DEF ClaimStep, ClaimStatement, DeferStatement, RuntimeStatement, StatusStatement,
         RollbackClaim, ReplayClaim
\* What a process does with a lease it holds.
LEMMA LeaseStepOK ==
  ASSUME LeaseInv, NEW h \in held, LeaseStep(h)
  PROVE  TableStep /\ WorkerStep
<1>1. h[2] \in Jobs /\ h[3] \in Nat
  BY DEF LeaseInv, WorkerTypeOK
<1>2. WorkerStep
  <2>1. CASE AbandonLease(h)
    BY <2>1 DEF AbandonLease, WorkerStep, WorkerTypeOK, LeaseInv, Modes
  <2>2. CASE ~AbandonLease(h)
    BY <2>2, NothingLearnt
       DEF LeaseStep, ReconcileHandoff, AttachContainer, FinishLease, FinishCompleted,
           FinishUserFailed, FinishSystemRetry, FinishTerminated, Drop, workerVars,
           LeaseInv, WorkerTypeOK
  <2> QED
    BY <2>1, <2>2
<1>3. CASE AbandonLease(h) \/ ReconcileHandoff(h)
  BY <1>2, <1>3, TableUnchanged DEF AbandonLease, ReconcileHandoff
<1>4. CASE AttachContainer(h)
  <2>1. TableInv'
    BY <1>1, <1>4, AttachJobContainerInv DEF AttachContainer, LeaseInv
  <2>2. UNCHANGED <<status, leasedBy, grants, attempts>>
    BY <1>4 DEF AttachContainer, AttachJobContainer, leaseVars
  <2> QED
    BY <1>2, <2>1, <2>2, ColumnMoves, NoneActivated DEF TableStep, LeaseInv
<1>5. CASE FinishLease(h)
  <2>1. \/ CompleteJob(h[2], h[3]) \/ FailJob(h[2], h[3]) \/ CancelClaimedJob(h[2], h[3])
        \/ attempts[h[2]] < SystemRetryLimit /\ ReleaseJobForRetry(h[2], h[3])
    BY <1>5 DEF FinishLease, FinishCompleted, FinishUserFailed, FinishSystemRetry,
                FinishTerminated
  <2>2. TableInv'
    BY <1>1, <2>1, TerminalCommandInv, ReleaseJobForRetryInv DEF LeaseInv
  <2>3. \A k \in Jobs : Moves(k)
    BY <1>1, <2>1, EndMoves DEF LeaseInv
  <2>4. OneActivePerWorkflow'
    <3>1. \A k \in Jobs : status'[k] \in {"QUEUED", "RUNNING"} =>
                             status[k] \in {"QUEUED", "RUNNING"}
      BY <1>1, <2>1 DEF CompleteJob, FailJob, CancelClaimedJob, ReleaseJobForRetry, Finish,
                        LeaseInv, TableInv, TableTypeOK
    <3> QED
      BY <3>1, NoneActivated DEF LeaseInv
  <2> QED
    BY <1>2, <2>2, <2>3, <2>4 DEF TableStep
<1> QED
  BY <1>3, <1>4, <1>5 DEF LeaseStep

\* The recovery loop.
LEMMA RecoverLeasesOK ==
  ASSUME LeaseInv, NEW p \in Processes, NEW S \in SUBSET Jobs, RecoverLeases(p, S)
  PROVE  TableStep /\ WorkerStep
<1>1. RecoverExpiredJobLeases(S, p)
  BY DEF RecoverLeases
<1>2. TableInv'
  BY <1>1, RecoverExpiredJobLeasesInv DEF LeaseInv
<1>3. \A k \in Jobs : Moves(k)
  BY <1>1, OwnerMoves DEF LeaseInv
<1>4. OneActivePerWorkflow'
  BY <1>1, NoneActivated DEF RecoverExpiredJobLeases, LeaseInv
<1>5. \A j \in S : /\ leaseToken'[j] \in Nat /\ leasedBy'[j] = p
                   /\ status'[j] = "RUNNING"
  BY <1>1 DEF RecoverExpiredJobLeases, Recoverable, LeaseInv, TableInv, TableTypeOK
<1>6. WorkerStep
  BY <1>5 DEF RecoverLeases, WorkerStep, WorkerTypeOK, LeaseInv, Modes
<1> QED
  BY <1>2, <1>3, <1>4, <1>6 DEF TableStep

\* Every step, as it affects the tables and the workers' memory.
LEMMA NextOK ==
  ASSUME LeaseInv, [Next]_vars
  PROVE  TableStep /\ WorkerStep
<1>1. CASE UNCHANGED vars
  BY <1>1, TableUnchanged, NothingLearnt DEF vars, LeaseInv, WorkerTypeOK
<1>2. CASE \E j \in Jobs : JobStep(j) \/ Expire(j)
  BY <1>2, EnvironmentStep DEF JobStep, Expire
<1>3. CASE \E S \in SUBSET Jobs : SchedulerRun(S) /\ UNCHANGED workerVars
  BY <1>3, EnvironmentStep
<1>4. CASE \E w \in Workflows : TerminateWorkflow(w) /\ UNCHANGED workerVars
  BY <1>4, EnvironmentStep
<1>5. CASE \E n \in Nodes : NodeStep(n)
  BY <1>5, EnvironmentStep DEF NodeStep
<1>6. CASE \E p \in Processes, j \in Jobs, d \in 1..MaxDispatch : ClaimStep(p, j, d)
  BY <1>6, ClaimStepOK
<1>7. CASE \E h \in held : LeaseStep(h)
  BY <1>7, LeaseStepOK
<1>8. CASE \E p \in Processes, S \in SUBSET Jobs : RecoverLeases(p, S)
  BY <1>8, RecoverLeasesOK
<1>9. CASE \E p \in Processes : Crash(p)
  BY <1>9, TableUnchanged, NothingLearnt DEF Crash, LeaseInv, WorkerTypeOK
<1> QED
  BY <1>1, <1>2, <1>3, <1>4, <1>5, <1>6, <1>7, <1>8, <1>9 DEF Next

\* The inductive invariant holds at the start and after every step.
LEMMA LeaseInvHolds == Spec => []LeaseInv
<1>1. Init => LeaseInv
  <2> SUFFICES ASSUME Init PROVE LeaseInv
    OBVIOUS
  <2>1. TableInv
    BY TableInitInv DEF Init
  <2> QED
    BY <2>1, JobLeaseAssumption
       DEF Init, TableInit, LeaseInv, WorkerTypeOK, HeldTokens, FreshJobs,
           AttemptsWithinLimit, OneActivePerWorkflow
<1>2. LeaseInv /\ [Next]_vars => LeaseInv'
  BY NextOK, TokensKept, AttemptsKept DEF LeaseInv, TableStep, WorkerStep
<1> QED
  BY <1>1, <1>2, PTL DEF Spec

-----------------------------------------------------------------------------
(* The theorems *)

\* Every statement of the jobs, scheduler and runtime repositories keeps what it
\* writes in its domain; the running_jobs counter never goes below zero.
THEOREM TypeCorrect == Spec => []TypeOK
<1>1. LeaseInv => TypeOK
  BY DEF LeaseInv, TableInv, WorkerTypeOK, TypeOK
<1> QED
  BY <1>1, LeaseInvHolds, PTL

\* A job carries a lease exactly while it is RUNNING, and its token is the newest.
THEOREM LeaseOnlyWhileRunning == Spec => []LeaseWhileRunning
<1>1. LeaseInv => LeaseWhileRunning
  BY DEF LeaseInv, TableInv
<1> QED
  BY <1>1, LeaseInvHolds, PTL

\* Two processes never both hold the token a RUNNING job accepts.
THEOREM SingleOwner == Spec => []OneOwner
<1>1. LeaseInv => OneOwner
  BY DEF LeaseInv, HeldTokens, OneOwner
<1> QED
  BY <1>1, LeaseInvHolds, PTL

\* Every slot is returned exactly once: running_jobs is the number of RUNNING jobs
\* on the node and never exceeds max_concurrency.
THEOREM SlotsAccounted == Spec => []SlotsMatchRunningJobs
<1>1. LeaseInv => SlotsMatchRunningJobs
  BY DEF LeaseInv, TableInv
<1> QED
  BY <1>1, LeaseInvHolds, PTL

\* The outbox carries exactly the terminal events of a job's final status.
THEOREM EventsMatchStatus == Spec => []TerminalEventsMatchStatus
<1>1. LeaseInv => TerminalEventsMatchStatus
  BY DEF LeaseInv, TableInv
<1> QED
  BY <1>1, LeaseInvHolds, PTL

\* No job is claimed more often than the retry limit.
THEOREM AttemptsBounded == Spec => []AttemptsWithinLimit
<1>1. LeaseInv => AttemptsWithinLimit
  BY DEF LeaseInv
<1> QED
  BY <1>1, LeaseInvHolds, PTL

\* The jobs of one workflow are never queued or run side by side.
THEOREM WorkflowExclusion == Spec => []OneActivePerWorkflow
<1>1. LeaseInv => OneActivePerWorkflow
  BY DEF LeaseInv
<1> QED
  BY <1>1, LeaseInvHolds, PTL

\* A job's row, as the life cycle sees it.
Row(j) == [status |-> status[j], owner |-> leasedBy[j],
           epoch |-> grants[j], runs |-> attempts[j]]

\* Every move is a step of the life cycle, or leaves the row as it is.
LEMMA MovesImplementLifecycle ==
  ASSUME NEW j \in Jobs, TableInv, Moves(j)
  PROVE  Row(j)' = Row(j) \/ Lifecycle!JobStep(Row(j), Row(j)')
<1> DEFINE x == Row(j)
           y == Row(j)'
<1> USE DEF Row, To
<1>1. CASE To(j, status[j], leasedBy[j], grants[j], attempts[j])
  BY <1>1
<1>2. CASE status[j] = "ABSENT" /\ To(j, "PENDING", leasedBy[j], grants[j], attempts[j])
  <2>1. Lifecycle!Inserted(x, y)
    BY <1>2 DEF Lifecycle!Inserted
  <2> QED
    BY <2>1 DEF Lifecycle!JobStep
<1>3. CASE status[j] = "PENDING" /\ To(j, "QUEUED", leasedBy[j], grants[j], attempts[j])
  <2>1. Lifecycle!Dispatched(x, y)
    BY <1>3 DEF Lifecycle!Dispatched
  <2> QED
    BY <2>1 DEF Lifecycle!JobStep
<1>4. CASE status[j] = "QUEUED" /\ To(j, "PENDING", leasedBy[j], grants[j], attempts[j])
  <2>1. Lifecycle!Deferred(x, y)
    BY <1>4 DEF Lifecycle!Deferred
  <2> QED
    BY <2>1 DEF Lifecycle!JobStep
<1>5. ASSUME NEW p \in Processes, status[j] = "QUEUED",
             To(j, "RUNNING", p, grants[j] + 1, attempts[j] + 1)
      PROVE  Lifecycle!JobStep(x, y)
  <2>1. Lifecycle!Claimed(x, y)
    BY <1>5 DEF Lifecycle!Claimed
  <2> QED
    BY <2>1 DEF Lifecycle!JobStep
<1>6. ASSUME NEW p \in Processes, status[j] = "RUNNING",
             To(j, "RUNNING", p, grants[j] + 1, attempts[j])
      PROVE  Lifecycle!JobStep(x, y)
  <2>1. y = [status |-> "RUNNING", owner |-> p, epoch |-> x.epoch + 1, runs |-> x.runs]
    BY <1>6
  <2>2. x.status = "RUNNING"
    BY <1>6
  <2>3. Lifecycle!TakenOver(x, y)
    BY <2>1, <2>2, Zenon DEF Lifecycle!TakenOver
  <2> QED
    BY <2>3 DEF Lifecycle!JobStep
<1>7. CASE /\ status[j] = "RUNNING" /\ attempts[j] < SystemRetryLimit
           /\ To(j, "PENDING", NoProcess, grants[j], attempts[j])
  <2>1. /\ y = [status |-> "PENDING", owner |-> NoProcess, epoch |-> x.epoch, runs |-> x.runs]
        /\ x.status = "RUNNING" /\ x.runs < SystemRetryLimit
    BY <1>7
  <2>2. Lifecycle!Released(x, y)
    BY <2>1, Zenon DEF Lifecycle!Released
  <2> QED
    BY <2>2 DEF Lifecycle!JobStep
<1>8. ASSUME NEW s \in Terminal,
             status[j] = "RUNNING" \/ (s = "CANCELED" /\ status[j] \in {"PENDING", "QUEUED"}),
             To(j, s, NoProcess, grants[j], attempts[j])
      PROVE  Lifecycle!JobStep(x, y)
  <2>1. y = [status |-> s, owner |-> NoProcess, epoch |-> x.epoch, runs |-> x.runs]
    BY <1>8
  <2>2. x.status = "RUNNING" \/ (s = "CANCELED" /\ x.status \in Lifecycle!Waiting)
    BY <1>8 DEF Lifecycle!Waiting
  <2>3. s \in Lifecycle!Ended
    BY <1>8 DEF Lifecycle!Ended, Terminal
  <2>4. Lifecycle!Finished(x, y)
    BY <2>1, <2>2, <2>3, Zenon DEF Lifecycle!Finished
  <2> QED
    BY <2>4 DEF Lifecycle!JobStep
<1> QED
  BY <1>1, <1>2, <1>3, <1>4, <1>5, <1>6, <1>7, <1>8 DEF Moves

\* The workers and the tables implement the life cycle.
THEOREM LifecycleImplemented == Spec => ImplementsLifecycle
<1> DEFINE row == [j \in Jobs |-> Row(j)]
<1>1. Init => Lifecycle!Init
  BY DEF Init, TableInit, Lifecycle!Init
<1>2. LeaseInv /\ [Next]_vars => [Lifecycle!Next]_row
  <2> SUFFICES ASSUME LeaseInv, [Next]_vars PROVE Lifecycle!Next
    OBVIOUS
  <2>1. TableInv /\ TableInv' /\ \A j \in Jobs : Moves(j)
    BY NextOK DEF LeaseInv, TableStep
  <2>2. row' \in [Jobs -> Lifecycle!States]
    BY <2>1 DEF TableInv, TableTypeOK, Row, Lifecycle!States, Lifecycle!Waiting,
                Lifecycle!Ended, Active, Terminal
  <2>3. \A j \in Jobs : row'[j] = row[j] \/ Lifecycle!JobStep(row[j], row'[j])
    BY <2>1, MovesImplementLifecycle
  <2> QED
    BY <2>2, <2>3 DEF Lifecycle!Next, Row
<1> QED
  BY <1>1, <1>2, LeaseInvHolds, PTL DEF Spec, ImplementsLifecycle, Lifecycle!Spec, Row
-----------------------------------------------------------------------------
(* Termination *)

\* What TerminatedNotResurrected asks of one job.
Buried(j) ==
    terminated[WorkflowOf[j]] =>
        /\ status[j] = "RUNNING" => status'[j] \notin {"PENDING", "QUEUED"}
        /\ status[j] = "PENDING" => status'[j] # "QUEUED"

\* Ending a running job buries it.
LEMMA FinishBuried ==
  ASSUME TableTypeOK, NEW j \in Jobs, NEW k \in Jobs, NEW s \in Terminal,
         status[k] = "RUNNING", Finish(k, s)
  PROVE  Buried(j)
BY DEF TableTypeOK, Finish, Buried, Terminal

\* Of the waiting jobs of a terminated workflow none is dispatched.
LEMMA WaitingBuried ==
  ASSUME TableTypeOK, NEW j \in Jobs,
         \/ \E k \in Jobs : JobStep(k)
         \/ \E S \in SUBSET Jobs : SchedulerRun(S)
  PROVE  Buried(j)
<1>1. CASE \E S \in SUBSET Jobs : SchedulerRun(S)
  BY <1>1 DEF TableTypeOK, SchedulerRun, Dispatchable, Buried
<1>2. CASE \E k \in Jobs : ScheduleJob(k) \/ BecomeDue(k)
  BY <1>2 DEF TableTypeOK, ScheduleJob, BecomeDue, Buried
<1>3. CASE \E k \in Jobs : CancelJob(k)
  BY <1>3 DEF TableTypeOK, CancelJob, Finish, Buried
<1> QED
  BY <1>1, <1>2, <1>3 DEF JobStep

\* A claim moves a QUEUED job only.
LEMMA ClaimBuried ==
  ASSUME TableTypeOK, NEW j \in Jobs, NEW p \in Processes, NEW k \in Jobs,
         NEW d \in 1..MaxDispatch, ClaimStep(p, k, d)
  PROVE  Buried(j)
<1>1. CASE ClaimJob(k, d, p)
  BY <1>1 DEF TableTypeOK, ClaimJob, Claimable, Buried
<1>2. CASE DeferBlockedJob(k)
  BY <1>2 DEF TableTypeOK, DeferBlockedJob, Buried
<1>3. CASE UNCHANGED status
  BY <1>3 DEF Buried
<1> QED
  BY <1>1, <1>2, <1>3
     DEF ClaimStep, ClaimStatement, DeferStatement, RuntimeStatement,
         StatusStatement, RollbackClaim, ReplayClaim, tableVars

\* ReleaseJobForRetry reads terminated_at in its transaction.
LEMMA LeaseBuried ==
  ASSUME TableTypeOK, WorkerTypeOK, NEW j \in Jobs, NEW h \in held, LeaseStep(h)
  PROVE  Buried(j)
<1>0. h[2] \in Jobs
  BY DEF WorkerTypeOK
<1>1. CASE ReleaseJobForRetry(h[2], h[3])
  <2>1. CASE terminated[WorkflowOf[h[2]]]
    BY <1>0, <1>1, <2>1, FinishBuried DEF ReleaseJobForRetry, HoldsLease, Terminal
  <2>2. CASE ~terminated[WorkflowOf[h[2]]]
    BY <1>0, <1>1, <2>2 DEF TableTypeOK, ReleaseJobForRetry, HoldsLease, Buried
  <2> QED
    BY <2>1, <2>2
<1>2. CASE \E s \in Terminal : status[h[2]] = "RUNNING" /\ Finish(h[2], s)
  BY <1>0, <1>2, FinishBuried
<1>3. CASE UNCHANGED status
  BY <1>3 DEF Buried
<1>4. FinishLease(h) => \/ ReleaseJobForRetry(h[2], h[3])
                        \/ \E s \in Terminal : status[h[2]] = "RUNNING" /\ Finish(h[2], s)
  BY DEF FinishLease, FinishCompleted, FinishUserFailed, FinishSystemRetry,
         FinishTerminated, CompleteJob, FailJob, CancelClaimedJob, HoldsLease, Terminal
<1>5. AbandonLease(h) \/ ReconcileHandoff(h) \/ AttachContainer(h) => UNCHANGED status
  BY DEF AbandonLease, ReconcileHandoff, AttachContainer, AttachJobContainer, tableVars
<1> QED
  BY <1>1, <1>2, <1>3, <1>4, <1>5 DEF LeaseStep

\* Once a workflow is terminated none of its jobs goes back in line or is
\* dispatched, whichever release, claim or scheduler pass was under way.
THEOREM NoResurrection == Spec => TerminatedNotResurrected
<1>1. LeaseInv /\ [Next]_vars => [\A j \in Jobs : Buried(j)]_vars
  <2> SUFFICES ASSUME LeaseInv, Next, NEW j \in Jobs PROVE Buried(j)
    OBVIOUS
  <2>0. TableTypeOK /\ WorkerTypeOK
    BY DEF LeaseInv, TableInv
  <2>1. CASE \/ \E k \in Jobs : JobStep(k)
             \/ \E S \in SUBSET Jobs : SchedulerRun(S)
    BY <2>0, <2>1, WaitingBuried
  <2>2. CASE \E p \in Processes, k \in Jobs, d \in 1..MaxDispatch : ClaimStep(p, k, d)
    BY <2>0, <2>2, ClaimBuried
  <2>3. CASE \E h \in held : LeaseStep(h)
    BY <2>0, <2>3, LeaseBuried
  <2>4. CASE UNCHANGED status
    BY <2>4 DEF Buried
  <2>5. \/ \E k \in Jobs : Expire(k)
        \/ \E w \in Workflows : TerminateWorkflow(w)
        \/ \E n \in Nodes : NodeStep(n)
        \/ \E p \in Processes, S \in SUBSET Jobs : RecoverLeases(p, S)
        \/ \E p \in Processes : Crash(p)
        => UNCHANGED status
    BY DEF Expire, LeaseExpires, TerminateWorkflow, NodeStep, Heartbeat, MarkDraining,
           MarkUnhealthy, HeartbeatAges, UpsertNode, RecoverLeases,
           RecoverExpiredJobLeases, Crash, jobVars, tableVars
  <2> QED
    BY <2>1, <2>2, <2>3, <2>4, <2>5 DEF Next
<1> QED
  BY <1>1, LeaseInvHolds, PTL DEF Spec, TerminatedNotResurrected, Buried
=============================================================================

------------------------------ MODULE HandoffGate ------------------------------
(* The admission gate of one execution worker: execution slots and the handoff *)
(* registry (handoff_gate.go), as processRecord, the execution goroutines and  *)
(* reconcileHandoffs use them.  A record is delivered again after a rebalance  *)
(* while the lane that lost the partition is still inside processRecord.  The  *)
(* jobs service is reduced to what a claim command of this process is told:    *)
(* while the lease it granted is held the answer is "claimed", with the same   *)
(* lease token; afterwards it is "not claimed".                                *)
EXTENDS Naturals, FiniteSets

CONSTANTS
    Jobs,          \* one scheduled record, and one claim command, per job
    LaneIds,       \* partition lanes that may be inside processRecord at once
    Concurrency,   \* size of the slots channel
    Limit,         \* AwaitingReconciliationLimit
    MaxEntries,    \* bound: handoffEntries ever made
    MaxFaults      \* bound: failed calls and revoked partitions

ASSUME HandoffAssumption ==
    /\ IsFiniteSet(Jobs) /\ IsFiniteSet(LaneIds)
    /\ Concurrency \in Nat \ {0} /\ {MaxEntries, MaxFaults} \subseteq Nat
    /\ Limit \in Nat /\ Limit >= Concurrency     \* normalizeConfig refuses less

VARIABLES
    lane,       \* a lane in processRecord
    committed,  \* jobs whose record is committed
    slots,      \* tokens in the slots channel
    registry,   \* g.entries: the entries that are in the map
    entry,      \* every handoffEntry ever made, by its number
    made,       \* how many entries were made (the identity of an entry)
    exec,       \* the goroutine of each activated entry
    lease,      \* what the jobs service holds for the claim command of a job
    recon,      \* reconcileHandoffs
    faults

gateVars == <<slots, registry, entry, made>>
vars == <<lane, committed, slots, registry, entry, made, exec, lease, recon, faults>>

(* As a record makes a second entry only after a failed call or a revoke, the   *)
(* number of jobs and MaxFaults are enough for MaxEntries not to be reached.   *)
Ids == 1 .. MaxEntries
None == 0
IdleLane(j) == [pc |-> "idle", job |-> j, e |-> None, live |-> FALSE, answer |-> "none"]
NoJob == "none"
NewEntry(j) == [job |-> j, state |-> "claiming", done |-> FALSE, result |-> "ok"]
IdleRecon == [pc |-> "idle", todo |-> {}, e |-> None, removable |-> FALSE]

Init ==
    /\ lane = [l \in LaneIds |-> IdleLane(NoJob)]
    /\ committed = {}
    /\ slots = 0
    /\ registry = {}
    /\ entry = [e \in Ids |-> NewEntry(NoJob)]
    /\ made = 0
    /\ exec = [e \in Ids |-> "none"]
    /\ lease = [j \in Jobs |-> "none"]
    /\ recon = IdleRecon
    /\ faults = 0

Fault == faults < MaxFaults /\ faults' = faults + 1
NoFault == UNCHANGED faults
EntryOf(j) == {e \in registry : entry[e].job = j}
LaneAt(l, pc) == lane[l].pc = pc
(* processRecord returns: "ok" and "drop" are committed, "retry" (an error     *)
(* ShouldCommitOnError keeps) is repeated in place; a lane whose context ended *)
(* does neither.                                                               *)
Return(l, result) ==
    /\ lane' = [lane EXCEPT ![l] =
           IF lane[l].live /\ result = "retry" THEN [IdleLane(lane[l].job) EXCEPT !.pc = "slot", !.live = TRUE]
           ELSE IdleLane(NoJob)]
    /\ committed' = IF lane[l].live /\ result # "retry" THEN committed \cup {lane[l].job}
                    ELSE committed

-----------------------------------------------------------------------------
(* The partition is (re)assigned: its record goes into a lane of its own.      *)
Deliver(l, j) ==
    /\ LaneAt(l, "idle") /\ j \notin committed
    /\ \A k \in LaneIds : ~(lane[k].live /\ lane[k].job = j)
    /\ lane' = [lane EXCEPT ![l] = [IdleLane(j) EXCEPT !.pc = "slot", !.live = TRUE]]
    /\ UNCHANGED <<committed, gateVars, exec, lease, recon, faults>>

(* The partition is revoked: the lane's context ends, its call goes on.        *)
Revoke(l) ==
    /\ lane[l].live /\ Fault
    /\ lane' = [lane EXCEPT ![l].live = FALSE]
    /\ UNCHANGED <<committed, gateVars, exec, lease, recon>>

acquireExecutionSlot(l) ==
    /\ LaneAt(l, "slot") /\ NoFault
    /\ \/ /\ slots < Concurrency
          /\ slots' = slots + 1
          /\ lane' = [lane EXCEPT ![l].pc = "reserve"]
          /\ UNCHANGED committed
       \/ ~lane[l].live /\ Return(l, "retry") /\ UNCHANGED slots
    /\ UNCHANGED <<registry, entry, made, exec, lease, recon>>

releaseExecutionSlot == slots' = IF slots > 0 THEN slots - 1 ELSE slots

withAuthorizationFails(l) ==
    /\ LaneAt(l, "reserve") /\ Fault
    /\ releaseExecutionSlot
    /\ Return(l, "retry")
    /\ UNCHANGED <<registry, entry, made, exec, lease, recon>>

(* The caller that does not own the entry gives its slot back before it waits. *)
joinFaulty == UNCHANGED slots
join == releaseExecutionSlot

Full == Cardinality(registry) >= Limit

getOrReserve(l) ==
    /\ LaneAt(l, "reserve") /\ NoFault
    /\ \/ \E e \in EntryOf(lane[l].job) :
              /\ join
              /\ lane' = [lane EXCEPT ![l].pc = "wait", ![l].e = e]
              /\ UNCHANGED <<committed, registry, entry, made>>
       \/ /\ EntryOf(lane[l].job) = {} /\ Full
          /\ releaseExecutionSlot /\ Return(l, "retry")
          /\ UNCHANGED <<registry, entry, made>>
       \/ /\ EntryOf(lane[l].job) = {} /\ ~Full /\ made < MaxEntries
          /\ made' = made + 1
          /\ entry' = [entry EXCEPT ![made + 1] = NewEntry(lane[l].job)]
          /\ registry' = registry \cup {made + 1}
          /\ lane' = [lane EXCEPT ![l].pc = "claim", ![l].e = made + 1]
          /\ UNCHANGED <<committed, slots>>
    /\ UNCHANGED <<exec, lease, recon>>

(* ClaimJob at the service.  A lost answer leaves the lease granted; a job may *)
(* have been claimed by another worker, canceled or deleted before.            *)
ClaimJob(l) ==
    LET j == lane[l].job
        Answer(a) == lane' = [lane EXCEPT ![l].pc = "answered", ![l].answer = a]
        Grant == lease' = [lease EXCEPT ![j] = IF @ = "none" THEN "held" ELSE @]
    IN
    /\ LaneAt(l, "claim")
    /\ \/ Grant /\ NoFault /\ Answer(IF lease[j] = "over" THEN "refused" ELSE "claimed")
       \/ lease[j] = "none" /\ NoFault /\ lease' = [lease EXCEPT ![j] = "over"] /\ Answer("refused")
       \/ Grant /\ Fault /\ Answer("retry")
       \/ UNCHANGED lease /\ Fault /\ Answer("retry")
       \/ lease[j] # "held" /\ lease' = [lease EXCEPT ![j] = "over"] /\ Fault /\ Answer("drop")
    /\ UNCHANGED <<committed, gateVars, exec, recon>>

Claiming(e) == e \in registry /\ entry[e].state = "claiming"
resolveRemoved(e, result) ==
    IF Claiming(e)
    THEN /\ entry' = [entry EXCEPT ![e].result = result, ![e].done = TRUE]
         /\ registry' = registry \ {e}
    ELSE UNCHANGED <<entry, registry>>

RefusedResultFaulty(a) == "ok"
(* What the waiters of the entry are told: the error, or nil when refused.     *)
RefusedResult(a) == IF a = "refused" THEN "ok" ELSE a

ClaimFails(l) ==
    /\ LaneAt(l, "answered") /\ lane[l].answer # "claimed"
    /\ resolveRemoved(lane[l].e, RefusedResult(lane[l].answer))
    /\ releaseExecutionSlot
    /\ Return(l, IF lane[l].answer = "refused" THEN "ok" ELSE lane[l].answer)
    /\ UNCHANGED <<made, exec, lease, recon, faults>>

(* activate and the start of the execution, which keeps the slot.  An entry    *)
(* that is not claiming any more is an internal error, which is retried.       *)
activate(l) ==
    LET e == lane[l].e IN
    /\ LaneAt(l, "answered") /\ lane[l].answer = "claimed"
    /\ IF Claiming(e)
       THEN /\ entry' = [entry EXCEPT ![e].state = "active", ![e].done = TRUE]
            /\ exec' = [exec EXCEPT ![e] = "run"]
            /\ Return(l, "ok")
            /\ UNCHANGED slots
       ELSE releaseExecutionSlot /\ Return(l, "retry") /\ UNCHANGED <<entry, exec>>
    /\ UNCHANGED <<registry, made, lease, recon, faults>>

wait(l) ==
    /\ LaneAt(l, "wait")
    /\ \/ entry[lane[l].e].done /\ Return(l, entry[lane[l].e].result)
       \/ ~lane[l].live /\ Return(l, "retry")
    /\ UNCHANGED <<gateVars, exec, lease, recon, faults>>

-----------------------------------------------------------------------------
(* runClaimedWorkflow settles the job (complete, fail, cancel or release) ...  *)
Settle(e) ==
    /\ exec[e] = "run" /\ lease[entry[e].job] = "held"
    /\ lease' = [lease EXCEPT ![entry[e].job] = "over"]
    /\ \/ exec' = [exec EXCEPT ![e] = "settled"] /\ NoFault
       \/ exec' = [exec EXCEPT ![e] = "mark"] /\ Fault      \* the answer is lost
    /\ UNCHANGED <<lane, committed, gateVars, recon>>

(* ... or gives up with an error and leaves the lease to expire.               *)
GiveUp(e) ==
    /\ exec[e] = "run"
    /\ IF lease[entry[e].job] = "held" THEN Fault ELSE NoFault
    /\ exec' = [exec EXCEPT ![e] = "mark"]
    /\ UNCHANGED <<lane, committed, gateVars, lease, recon>>

(* consume finds the entry by its claim: job and lease token.                  *)
consume(e) ==
    /\ exec[e] = "settled"
    /\ registry' = registry \ {d \in EntryOf(entry[e].job) : entry[d].state # "claiming"}
    /\ exec' = [exec EXCEPT ![e] = "mark"]
    /\ UNCHANGED <<lane, committed, slots, entry, made, lease, recon, faults>>

MarkAnyFaulty(j) ==
    /\ entry' = [e \in Ids |->
           IF e \in EntryOf(j) THEN [entry[e] EXCEPT !.state = "awaiting"] ELSE entry[e]]
    /\ UNCHANGED registry
MarkFaulty(j) ==
    /\ registry' = registry \ {e \in EntryOf(j) : entry[e].state = "active"}
    /\ UNCHANGED entry
Mark(j) ==
    /\ entry' = [e \in Ids |->
           IF e \in EntryOf(j) /\ entry[e].state = "active"
           THEN [entry[e] EXCEPT !.state = "awaiting"] ELSE entry[e]]
    /\ UNCHANGED registry

(* markAwaiting by command id, and the deferred release of the slot.           *)
markAwaiting(e) ==
    /\ exec[e] = "mark"
    /\ Mark(entry[e].job)
    /\ releaseExecutionSlot
    /\ exec' = [exec EXCEPT ![e] = "done"]
    /\ UNCHANGED <<lane, committed, made, lease, recon, faults>>

(* The lease is not renewed in time, and recovered or taken by another worker. *)
LeaseEnds(j) ==
    /\ lease[j] = "held"
    /\ lease' = [lease EXCEPT ![j] = "over"]
    /\ UNCHANGED <<lane, committed, gateVars, exec, recon, faults>>

-----------------------------------------------------------------------------
(* reconcileHandoffs: the entries awaiting at the start of the pass ...        *)
awaiting ==
    /\ recon.pc = "idle"
    /\ \E e \in registry : entry[e].state = "awaiting"
    /\ recon' = [IdleRecon EXCEPT !.pc = "next",
                                  !.todo = {e \in registry : entry[e].state = "awaiting"}]
    /\ UNCHANGED <<lane, committed, gateVars, exec, lease, faults>>

RemovableFaulty(l) == FALSE
Removable(l) == l = "over"

(* ... are claimed again under their own command, one after the other.         *)
ReplayClaim ==
    /\ recon.pc = "next"
    /\ \/ \E e \in recon.todo :
              \/ NoFault /\ recon' = [recon EXCEPT !.pc = "answered", !.todo = @ \ {e}, !.e = e,
                                        !.removable = Removable(lease[entry[e].job])]
              \/ Fault /\ recon' = [recon EXCEPT !.todo = @ \ {e}]
       \/ Fault /\ recon' = IdleRecon            \* no authorization: the pass ends
       \/ recon.todo = {} /\ NoFault /\ recon' = IdleRecon
    /\ UNCHANGED <<lane, committed, gateVars, exec, lease>>

removeAwaiting ==
    /\ recon.pc = "answered"
    /\ registry' = IF recon.removable /\ entry[recon.e].state = "awaiting"
                   THEN registry \ {recon.e} ELSE registry
    /\ recon' = [recon EXCEPT !.pc = "next", !.e = None, !.removable = FALSE]
    /\ UNCHANGED <<lane, committed, slots, entry, made, exec, lease, faults>>

-----------------------------------------------------------------------------
LaneStep(l) ==
    \/ acquireExecutionSlot(l) \/ withAuthorizationFails(l) \/ getOrReserve(l)
    \/ ClaimJob(l) \/ ClaimFails(l) \/ activate(l) \/ wait(l)

ExecStep(e) == Settle(e) \/ GiveUp(e) \/ consume(e) \/ markAwaiting(e)
ReconcileStep == awaiting \/ ReplayClaim \/ removeAwaiting

Next ==
    \/ \E l \in LaneIds : LaneStep(l) \/ Revoke(l) \/ \E j \in Jobs : Deliver(l, j)
    \/ \E e \in Ids : ExecStep(e)
    \/ \E j \in Jobs : LeaseEnds(j)
    \/ ReconcileStep

Spec == Init /\ [][Next]_vars

(* Lanes, executions and the recovery ticker go on; a partition is assigned to *)
(* somebody; the slots channel serves its waiters in order (strong fairness);  *)
(* an execution ends, and a lease that nobody renews expires.                  *)
Fairness ==
    /\ \A l \in LaneIds : WF_vars(LaneStep(l)) /\ SF_vars(acquireExecutionSlot(l))
    /\ \A j \in Jobs : WF_vars(\E l \in LaneIds : Deliver(l, j)) /\ WF_vars(LeaseEnds(j))
    /\ \A e \in Ids : WF_vars(ExecStep(e))
    /\ WF_vars(ReconcileStep)

FairSpec == Spec /\ Fairness

-----------------------------------------------------------------------------
LaneStates ==
    [pc : {"idle", "slot", "reserve", "claim", "answered", "wait"}, job : Jobs \cup {NoJob},
     e : Ids \cup {None}, live : BOOLEAN,
     answer : {"none", "claimed", "refused", "retry", "drop"}]
EntryStates ==
    [job : Jobs \cup {NoJob}, state : {"claiming", "active", "awaiting"},
     done : BOOLEAN, result : {"ok", "retry", "drop"}]

TypeOK ==
    /\ lane \in [LaneIds -> LaneStates]
    /\ committed \subseteq Jobs
    /\ slots \in 0 .. Concurrency
    /\ registry \subseteq 1 .. made /\ Cardinality(registry) <= Limit
    /\ entry \in [Ids -> EntryStates]
    /\ made \in 0 .. MaxEntries
    /\ exec \in [Ids -> {"none", "run", "settled", "mark", "done"}]
    /\ lease \in [Jobs -> {"none", "held", "over"}]
    /\ recon \in [pc : {"idle", "next", "answered"}, todo : SUBSET Ids,
                  e : Ids \cup {None}, removable : BOOLEAN]
    /\ faults \in 0 .. MaxFaults

(* Who holds a slot: records between their slot and the answer to their claim, *)
(* and executions that are not over.                                           *)
Holders == {l \in LaneIds : lane[l].pc \in {"reserve", "claim", "answered"}}
Executing == {e \in Ids : exec[e] \in {"run", "settled", "mark"}}

(* The slots channel holds exactly one token for each of them:                 *)
(* releaseExecutionSlot never blocks and takes any token, so a release too     *)
(* many would silently admit an execution above the concurrency, and one too   *)
(* few would lose a slot.                                                      *)
SlotsMatchHolders == slots = Cardinality(Holders) + Cardinality(Executing)

(* A lease granted to this process is executed once: however often its record  *)
(* is delivered again and its claim replayed with "claimed", no second entry   *)
(* of the same command is activated, because the entry of an execution that    *)
(* ended without settling stays until the service says the lease is over.      *)
LeaseExecutedOnce ==
    \A d, e \in Ids : exec[d] # "none" /\ exec[e] # "none" /\ entry[d].job = entry[e].job => d = e

(* Between its reservation and the answer to its claim a lane's placeholder is *)
(* in the registry and claiming: the "ownership was lost" error of processRecord *)
(* never happens, although markAwaiting and consume look entries up by command  *)
(* and by claim, and may come late for a record that is already being claimed  *)
(* again.                                                                      *)
PlaceholderKept == \A l \in LaneIds : lane[l].pc \in {"claim", "answered"} => Claiming(lane[l].e)

(* A record is committed only when the service has decided its claim command:  *)
(* a lane that waits for another lane's entry must not take a failed claim for *)
(* an answer.                                                                  *)
CommittedOnlyDecided == \A j \in committed : lease[j] # "none"

(* A slot is held for each execution and for nothing else, a lease is executed *)
(* once, no lane loses its placeholder, and only decided records are committed. *)
HandoffsAccounted ==
    TypeOK /\ SlotsMatchHolders /\ LeaseExecutedOnce /\ PlaceholderKept /\ CommittedOnlyDecided

(* Every record is committed in the end: a registry full of awaiting entries   *)
(* and slots taken by executions give way to new claims.                       *)
RecordsCommitted == <>(committed = Jobs)
=============================================================================

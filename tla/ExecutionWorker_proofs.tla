----------------------- MODULE ExecutionWorker_proofs -----------------------
(*************************************************************************)
(* Proofs about three parts of the execution worker that share no state: *)
(* HandoffGate, for any jobs, lanes, concurrency, registry limit and     *)
(* bounds, EndpointCache, for any endpoints, callers, cache size, idle   *)
(* time and bounds, and ImagePull, for any tasks, processes, timeouts    *)
(* and bounds.                                                           *)
(*************************************************************************)
EXTENDS HandoffGate, EndpointCache, ImagePull, FiniteSetTheorems, TLAPS

-----------------------------------------------------------------------------
(* HandoffGate: dispatch records, the registry of executions and their slots. *)


Claimant(l) == lane[l].pc \in {"claim", "answered"}

\* A lane that is inside processRecord has a job, and from its reservation on
\* an entry of that job.
LanesNamed ==
    \A l \in LaneIds :
        /\ lane[l].pc = "idle" => ~lane[l].live
        /\ lane[l].pc # "idle" => lane[l].job \in Jobs
        /\ lane[l].pc \in {"claim", "answered", "wait"} =>
              lane[l].e \in 1 .. made /\ entry[lane[l].e].job = lane[l].job

\* The entries that were made belong to jobs, and the activated ones are those
\* that have or had an execution.
EntryNamed(e) ==
    /\ e <= made => entry[e].job \in Jobs
    /\ exec[e] # "none" => e <= made
    /\ exec[e] # "none" <=> entry[e].state # "claiming"
EntriesNamed == \A e \in Ids : EntryNamed(e)

\* The registry is a map by job, and a placeholder has one claimant.
RegistryByJob == \A d, e \in registry : entry[d].job = entry[e].job => d = e
OneClaimant ==
    \A k, l \in LaneIds : Claimant(k) /\ Claimant(l) /\ lane[k].e = lane[l].e => k = l

\* An activated entry leaves the registry only when its lease is over: this is
\* what keeps a lease from being executed again.
RemovedIsOver ==
    /\ \A e \in Ids : exec[e] # "none" /\ e \notin registry => lease[entry[e].job] = "over"
    /\ \A e \in Ids : exec[e] = "settled" => lease[entry[e].job] = "over"
    /\ recon.todo \subseteq 1 .. made
    /\ recon.pc = "answered" => /\ recon.e \in 1 .. made
                                /\ recon.removable => lease[entry[recon.e].job] = "over"

\* An answer other than "retry" is a decision of the service, and "claimed" is
\* answered only for a job that was never executed.
AnswerTrue(l) ==
    /\ lane[l].answer # "none"
    /\ lane[l].answer # "retry" => lease[lane[l].job] # "none"
    /\ lane[l].answer = "claimed" =>
          \A d \in Ids : exec[d] # "none" => entry[d].job # lane[l].job
AnswersTrue == \A l \in LaneIds : lane[l].pc = "answered" => AnswerTrue(l)

\* What an entry tells its waiters was decided by the service, or is "retry".
DoneIsDecided ==
    \A e \in Ids : e <= made /\ entry[e].done /\ entry[e].result # "retry" =>
        lease[entry[e].job] # "none"

HandoffInv ==
    /\ HandoffsAccounted
    /\ LanesNamed /\ EntriesNamed /\ RegistryByJob /\ OneClaimant
    /\ RemovedIsOver /\ AnswersTrue /\ DoneIsDecided
USE HandoffAssumption DEF Ids, None, NoJob

-----------------------------------------------------------------------------
(* The slots, counted.                                                       *)

LEMMA IdsFinite == IsFiniteSet(Ids)
  <1>1. MaxEntries \in Int
    OBVIOUS
  <1> QED
    BY <1>1, FS_Interval

\* Lanes and entries are finite, so their cardinalities are numbers.
LEMMA HoldersFinite ==
    /\ IsFiniteSet(Holders) /\ Cardinality(Holders) \in Nat
    /\ IsFiniteSet(Executing) /\ Cardinality(Executing) \in Nat
  <1>1. IsFiniteSet(Holders)
    BY FS_Subset DEF Holders
  <1>2. IsFiniteSet(Executing)
    BY FS_Subset, IdsFinite DEF Executing
  <1> QED
    BY <1>1, <1>2, FS_CardinalityType

\* The same for the next state.
LEMMA NextHoldersFinite ==
    /\ IsFiniteSet(Holders') /\ Cardinality(Holders') \in Nat
    /\ IsFiniteSet(Executing') /\ Cardinality(Executing') \in Nat
  <1>1. IsFiniteSet(Holders')
    BY FS_Subset DEF Holders
  <1>2. IsFiniteSet(Executing')
    BY FS_Subset, IdsFinite DEF Executing
  <1> QED
    BY <1>1, <1>2, FS_CardinalityType

\* A lane that gives its token back was a holder, so the channel has one.
LEMMA LaneReleases ==
    ASSUME TypeOK, SlotsMatchHolders, NEW l \in Holders,
           Holders' = Holders \ {l}, Executing' = Executing, releaseExecutionSlot
    PROVE  SlotsMatchHolders' /\ slots' \in 0 .. Concurrency
  <1>1. Cardinality(Holders') = Cardinality(Holders) - 1
    BY HoldersFinite, FS_RemoveElement
  <1>2. Cardinality(Holders) + Cardinality(Executing) = slots /\ slots \in 0 .. Concurrency
    BY DEF SlotsMatchHolders, TypeOK
  <1>3. slots' = Cardinality(Holders') + Cardinality(Executing')
    BY <1>1, <1>2, HoldersFinite, NextHoldersFinite DEF releaseExecutionSlot
  <1> QED
    BY <1>2, <1>3, HoldersFinite DEF releaseExecutionSlot, SlotsMatchHolders

\* What processRecord's return does to its lane and to the committed records.
LEMMA ReturnLane ==
    ASSUME TypeOK, LanesNamed, NEW l \in LaneIds, lane[l].pc # "idle", NEW r, Return(l, r)
    PROVE  /\ \A k \in LaneIds \ {l} : lane'[k] = lane[k]
           /\ lane'[l].pc \in {"idle", "slot"}
           /\ lane' \in [LaneIds -> LaneStates]
           /\ lane'[l].pc = "idle" => ~lane'[l].live
           /\ lane'[l].pc # "idle" => lane'[l].job \in Jobs
           /\ committed' \subseteq Jobs
           /\ \A j \in committed' : j \in committed \/ (r # "retry" /\ j = lane[l].job)
  BY DEF TypeOK, LaneStates, LanesNamed, Return, IdleLane

-----------------------------------------------------------------------------
LEMMA GateInitInv == Init => HandoffInv
  <1> SUFFICES ASSUME Init PROVE HandoffInv
    OBVIOUS
  <1>1. TypeOK
    BY FS_EmptySet DEF Init, TypeOK, LaneStates, EntryStates, IdleLane, NewEntry, IdleRecon
  <1>2. SlotsMatchHolders
    <2>1. Holders = {} /\ Executing = {}
      BY DEF Init, IdleLane, Holders, Executing
    <2> QED
      BY <2>1, FS_EmptySet DEF Init, SlotsMatchHolders
  <1>3. LeaseExecutedOnce /\ PlaceholderKept /\ CommittedOnlyDecided
    BY DEF Init, IdleLane, LeaseExecutedOnce, PlaceholderKept, CommittedOnlyDecided
  <1>4. LanesNamed /\ EntriesNamed /\ RegistryByJob /\ OneClaimant
    BY DEF Init, IdleLane, NewEntry, LanesNamed, EntriesNamed, EntryNamed, RegistryByJob, OneClaimant, Claimant
  <1>5. RemovedIsOver /\ AnswersTrue /\ DoneIsDecided
    BY DEF Init, IdleLane, NewEntry, IdleRecon, RemovedIsOver, AnswersTrue, AnswerTrue, DoneIsDecided
  <1> QED
    BY <1>1, <1>2, <1>3, <1>4, <1>5 DEF HandoffInv, HandoffsAccounted

-----------------------------------------------------------------------------
(* One lemma for each action.                                                *)

\* Deliver starts a lane, Revoke ends its context: both leave what the lane
\* holds alone.
LEMMA DeliverInv ==
    ASSUME HandoffInv, NEW l \in LaneIds, NEW j \in Jobs, Deliver(l, j)
    PROVE  HandoffInv'
  <1> USE DEF HandoffInv, HandoffsAccounted
  <1> /\ \A k \in LaneIds \ {l} : lane'[k] = lane[k]
      /\ lane'[l] = [IdleLane(j) EXCEPT !.pc = "slot", !.live = TRUE]
      /\ lane[l].pc = "idle"
    BY DEF Deliver, LaneAt, TypeOK
  <1>1. TypeOK'
    BY DEF TypeOK, LaneStates, Deliver, gateVars, IdleLane
  <1>2. SlotsMatchHolders'
    <2>1. Holders' = Holders /\ Executing' = Executing
      BY DEF Holders, Executing, Deliver, gateVars, IdleLane
    <2> QED
      BY <2>1 DEF SlotsMatchHolders, Deliver, gateVars
  <1>3. (LeaseExecutedOnce /\ CommittedOnlyDecided)'
    BY DEF Deliver, gateVars, LeaseExecutedOnce, CommittedOnlyDecided
  <1>4. (PlaceholderKept /\ LanesNamed /\ OneClaimant)'
    BY DEF Deliver, gateVars, IdleLane, PlaceholderKept, Claiming, LanesNamed, OneClaimant, Claimant
  <1>5. (EntriesNamed /\ RegistryByJob /\ RemovedIsOver /\ DoneIsDecided)'
    BY DEF Deliver, gateVars, EntriesNamed, EntryNamed, RegistryByJob, RemovedIsOver, DoneIsDecided
  <1>6. AnswersTrue'
    BY DEF Deliver, gateVars, IdleLane, AnswersTrue, AnswerTrue
  <1> QED
    BY <1>1, <1>2, <1>3, <1>4, <1>5, <1>6

LEMMA RevokeInv ==
    ASSUME HandoffInv, NEW l \in LaneIds, Revoke(l)
    PROVE  HandoffInv'
  <1> USE DEF HandoffInv, HandoffsAccounted
  <1>1. TypeOK'
    <2>1. lane'[l] = [lane[l] EXCEPT !.live = FALSE] /\ lane[l] \in LaneStates
      BY DEF TypeOK, Revoke
    <2>2. lane'[l] \in LaneStates
      BY Zenon, <2>1 DEF LaneStates
    <2>3. faults' \in 0 .. MaxFaults
      BY DEF TypeOK, Revoke, Fault
    <2> QED
      BY <2>2, <2>3 DEF TypeOK, Revoke, gateVars
  <1> /\ \A k \in LaneIds : /\ lane'[k].pc = lane[k].pc /\ lane'[k].job = lane[k].job
                            /\ lane'[k].e = lane[k].e /\ lane'[k].answer = lane[k].answer
                            /\ lane'[k].live => lane[k].live
    BY DEF Revoke, TypeOK
  <1>2. SlotsMatchHolders'
    <2>1. Holders' = Holders /\ Executing' = Executing
      BY DEF Holders, Executing, Revoke, gateVars
    <2> QED
      BY <2>1 DEF SlotsMatchHolders, Revoke, gateVars
  <1>3. (LeaseExecutedOnce /\ CommittedOnlyDecided)'
    BY DEF Revoke, gateVars, LeaseExecutedOnce, CommittedOnlyDecided
  <1>4. (PlaceholderKept /\ LanesNamed /\ OneClaimant)'
    BY DEF Revoke, gateVars, PlaceholderKept, Claiming, LanesNamed, OneClaimant, Claimant
  <1>5. (EntriesNamed /\ RegistryByJob /\ RemovedIsOver /\ DoneIsDecided)'
    BY DEF Revoke, gateVars, EntriesNamed, EntryNamed, RegistryByJob, RemovedIsOver, DoneIsDecided
  <1>6. AnswersTrue'
    BY DEF Revoke, gateVars, AnswersTrue, AnswerTrue
  <1> QED
    BY <1>1, <1>2, <1>3, <1>4, <1>5, <1>6

\* A lane that returns without an answer of its own leaves the registry, the
\* executions, the leases and the recovery alone.
LEMMA ReturnInv ==
    ASSUME HandoffInv, NEW l \in LaneIds, lane[l].pc # "idle",
           NEW r, Return(l, r), r # "retry" => lease[lane[l].job] # "none",
           slots' \in 0 .. Concurrency, SlotsMatchHolders', faults' \in 0 .. MaxFaults,
           UNCHANGED <<registry, entry, made, exec, lease, recon>>
    PROVE  HandoffInv'
  <1> USE DEF HandoffInv, HandoffsAccounted
  <1> USE ReturnLane
  <1>1. TypeOK'
    BY DEF TypeOK
  <1>2. (LeaseExecutedOnce /\ CommittedOnlyDecided)'
    BY DEF LeaseExecutedOnce, CommittedOnlyDecided
  <1>3. (PlaceholderKept /\ LanesNamed /\ OneClaimant)'
    BY DEF PlaceholderKept, Claiming, LanesNamed, OneClaimant, Claimant
  <1>4. (EntriesNamed /\ RegistryByJob /\ RemovedIsOver /\ DoneIsDecided)'
    BY DEF EntriesNamed, EntryNamed, RegistryByJob, RemovedIsOver, DoneIsDecided
  <1>5. AnswersTrue'
    BY DEF AnswersTrue, AnswerTrue
  <1> QED
    BY <1>1, <1>2, <1>3, <1>4, <1>5

LEMMA SlotAcquireInv ==
    ASSUME HandoffInv, NEW l \in LaneIds, acquireExecutionSlot(l)
    PROVE  HandoffInv'
  <1> USE DEF HandoffInv, HandoffsAccounted
  <1>1. CASE ~lane[l].live /\ Return(l, "retry") /\ UNCHANGED slots
    <2>1. Holders' = Holders /\ Executing' = Executing
      BY <1>1, ReturnLane DEF acquireExecutionSlot, LaneAt, Holders, Executing
    <2>2. SlotsMatchHolders' /\ slots' \in 0 .. Concurrency /\ faults' \in 0 .. MaxFaults
      BY <1>1, <2>1 DEF SlotsMatchHolders, TypeOK, acquireExecutionSlot, NoFault
    <2> QED
      BY <1>1, <2>2, ReturnInv DEF acquireExecutionSlot, LaneAt
  <1>2. CASE /\ slots < Concurrency /\ slots' = slots + 1
             /\ lane' = [lane EXCEPT ![l].pc = "reserve"]
             /\ UNCHANGED committed
    <2> /\ lane[l].pc = "slot"
        /\ UNCHANGED <<registry, entry, made, exec, lease, recon, faults>>
      BY DEF acquireExecutionSlot, LaneAt, NoFault
    <2> /\ \A k \in LaneIds \ {l} : lane'[k] = lane[k]
        /\ lane'[l].pc = "reserve" /\ lane'[l].job = lane[l].job
      BY <1>2 DEF TypeOK, LaneStates
    <2>1. TypeOK'
      <3>1. lane'[l] = [lane[l] EXCEPT !.pc = "reserve"] /\ lane[l] \in LaneStates
        BY <1>2 DEF TypeOK
      <3>2. lane'[l] \in LaneStates
        BY Zenon, <3>1 DEF LaneStates
      <3>3. lane' \in [LaneIds -> LaneStates]
        BY <1>2, <3>2 DEF TypeOK
      <3> QED
        BY <1>2, <3>3 DEF TypeOK
    <2>2. SlotsMatchHolders'
      <3>1. l \notin Holders /\ Holders' = Holders \cup {l} /\ Executing' = Executing
        BY DEF Holders, Executing
      <3>2. Cardinality(Holders') = Cardinality(Holders) + 1
        BY <3>1, HoldersFinite, FS_AddElement
      <3> QED
        BY <1>2, <3>1, <3>2, HoldersFinite DEF SlotsMatchHolders, TypeOK
    <2>3. (LeaseExecutedOnce /\ CommittedOnlyDecided)'
      BY <1>2 DEF LeaseExecutedOnce, CommittedOnlyDecided
    <2>4. (PlaceholderKept /\ LanesNamed /\ OneClaimant)'
      BY DEF PlaceholderKept, Claiming, LanesNamed, OneClaimant, Claimant
    <2>5. (EntriesNamed /\ RegistryByJob /\ RemovedIsOver /\ DoneIsDecided)'
      BY DEF EntriesNamed, EntryNamed, RegistryByJob, RemovedIsOver, DoneIsDecided
    <2>6. AnswersTrue'
      BY DEF AnswersTrue, AnswerTrue
    <2> QED
      BY <2>1, <2>2, <2>3, <2>4, <2>5, <2>6
  <1> QED
    BY <1>1, <1>2 DEF acquireExecutionSlot

LEMMA AuthorizationFailsInv ==
    ASSUME HandoffInv, NEW l \in LaneIds, withAuthorizationFails(l)
    PROVE  HandoffInv'
  <1> USE DEF HandoffInv, HandoffsAccounted
  <1>1. l \in Holders /\ Holders' = Holders \ {l} /\ Executing' = Executing
    BY ReturnLane DEF withAuthorizationFails, LaneAt, Holders, Executing
  <1>2. SlotsMatchHolders' /\ slots' \in 0 .. Concurrency
    BY <1>1, LaneReleases DEF withAuthorizationFails
  <1>3. faults' \in 0 .. MaxFaults
    BY DEF TypeOK, withAuthorizationFails, Fault
  <1> QED
    BY <1>2, <1>3, ReturnInv DEF withAuthorizationFails, LaneAt

\* A record that finds an entry of its job waits; one that finds the registry
\* full is told to retry; the others make the placeholder they will claim.
LEMMA ReserveInv ==
    ASSUME HandoffInv, NEW l \in LaneIds, getOrReserve(l)
    PROVE  HandoffInv'
  <1> USE DEF HandoffInv, HandoffsAccounted
  <1> /\ lane[l].pc = "reserve" /\ lane[l].job \in Jobs /\ l \in Holders
      /\ UNCHANGED <<exec, lease, recon, faults>>
    BY DEF getOrReserve, LaneAt, NoFault, LanesNamed, Holders
  <1>1. ASSUME NEW e \in EntryOf(lane[l].job), join,
               lane' = [lane EXCEPT ![l].pc = "wait", ![l].e = e],
               UNCHANGED <<committed, registry, entry, made>>
        PROVE  HandoffInv'
    <2> e \in registry /\ e \in 1 .. made /\ entry[e].job = lane[l].job /\ e \in Ids
      BY <1>1 DEF EntryOf, TypeOK
    <2> /\ \A k \in LaneIds \ {l} : lane'[k] = lane[k]
        /\ lane'[l].pc = "wait" /\ lane'[l].job = lane[l].job /\ lane'[l].e = e
      BY <1>1 DEF TypeOK, LaneStates
    <2>1. Holders' = Holders \ {l} /\ Executing' = Executing
      BY DEF Holders, Executing
    <2>2. SlotsMatchHolders' /\ slots' \in 0 .. Concurrency
      BY <1>1, <2>1, LaneReleases DEF join
    <2>3. TypeOK'
      <3>1. lane'[l] = [lane[l] EXCEPT !.pc = "wait", !.e = e] /\ lane[l] \in LaneStates
        BY <1>1 DEF TypeOK
      <3>2. lane'[l] \in LaneStates
        BY Zenon, <3>1 DEF LaneStates
      <3>3. lane' \in [LaneIds -> LaneStates]
        BY <1>1, <3>2 DEF TypeOK
      <3> QED
        BY <1>1, <2>2, <3>3 DEF TypeOK
    <2>4. (LeaseExecutedOnce /\ CommittedOnlyDecided)'
      BY <1>1 DEF LeaseExecutedOnce, CommittedOnlyDecided
    <2>5. (PlaceholderKept /\ LanesNamed)'
      BY ZenonT(60), <1>1 DEF PlaceholderKept, Claiming, LanesNamed
    <2>8. OneClaimant'
      BY DEF OneClaimant, Claimant
    <2>6. (EntriesNamed /\ RegistryByJob /\ RemovedIsOver /\ DoneIsDecided)'
      BY <1>1 DEF EntriesNamed, EntryNamed, RegistryByJob, RemovedIsOver, DoneIsDecided
    <2>7. AnswersTrue'
      <3> SUFFICES ASSUME NEW k \in LaneIds, lane'[k].pc = "answered"
                   PROVE  (AnswerTrue(k))'
        BY DEF AnswersTrue
      <3>1. k # l /\ lane'[k] = lane[k]
        OBVIOUS
      <3>2. AnswerTrue(k)
        BY <3>1 DEF AnswersTrue
      <3> QED
        BY <1>1, <3>1, <3>2 DEF AnswerTrue
    <2> QED
      BY <2>2, <2>3, <2>4, <2>5, <2>6, <2>7, <2>8
  <1>2. CASE /\ releaseExecutionSlot /\ Return(l, "retry")
             /\ UNCHANGED <<registry, entry, made>>
    <2>1. Holders' = Holders \ {l} /\ Executing' = Executing
      BY <1>2, ReturnLane DEF Holders, Executing
    <2>2. SlotsMatchHolders' /\ slots' \in 0 .. Concurrency /\ faults' \in 0 .. MaxFaults
      BY <1>2, <2>1, LaneReleases DEF TypeOK
    <2> QED
      BY <1>2, <2>2, ReturnInv
  <1>3. CASE /\ EntryOf(lane[l].job) = {} /\ ~Full /\ made < MaxEntries
             /\ made' = made + 1
             /\ entry' = [entry EXCEPT ![made + 1] = NewEntry(lane[l].job)]
             /\ registry' = registry \cup {made + 1}
             /\ lane' = [lane EXCEPT ![l].pc = "claim", ![l].e = made + 1]
             /\ UNCHANGED <<committed, slots>>
    <2> /\ \A k \in LaneIds \ {l} : lane'[k] = lane[k]
        /\ lane'[l].pc = "claim" /\ lane'[l].job = lane[l].job /\ lane'[l].e = made + 1
      BY <1>3 DEF TypeOK, LaneStates
    <2> made \in Nat /\ made + 1 \in Ids
      BY <1>3 DEF TypeOK
    <2> /\ \A e \in Ids \ {made + 1} : entry'[e] = entry[e]
        /\ entry'[made + 1] = NewEntry(lane[l].job)
      BY <1>3 DEF TypeOK
    <2>1. TypeOK'
      <3>1. Cardinality(registry') <= Limit
        <4>1. IsFiniteSet(registry) /\ Cardinality(registry) \in Nat
          <5>1. registry \in SUBSET Ids
            BY DEF TypeOK
          <5> QED
            BY <5>1, IdsFinite, FS_Subset, FS_CardinalityType
        <4>2. Cardinality(registry') <= Cardinality(registry) + 1
          <5>1. made + 1 \notin registry
            BY DEF TypeOK
          <5>2. Cardinality(registry') = Cardinality(registry) + 1
            BY <1>3, <4>1, <5>1, FS_AddElement
          <5> QED
            BY <4>1, <5>2
        <4>3. Cardinality(registry') \in Nat
          BY <1>3, <4>1, FS_AddElement, FS_CardinalityType
        <4> QED
          BY <1>3, <4>1, <4>2, <4>3 DEF Full
      <3>2. registry' \subseteq 1 .. made' /\ made' \in 0 .. MaxEntries
        BY <1>3 DEF TypeOK
      <3>3. lane' \in [LaneIds -> LaneStates]
        <4>1. /\ lane'[l] = [lane[l] EXCEPT !.pc = "claim", !.e = made + 1]
              /\ lane[l] \in LaneStates
          BY <1>3 DEF TypeOK
        <4>2. lane'[l] \in LaneStates
          BY Zenon, <4>1 DEF LaneStates
        <4> QED
          BY <1>3, <4>2 DEF TypeOK
      <3>4. NewEntry(lane[l].job) \in
                [job : Jobs \cup {NoJob}, state : {"claiming", "active", "awaiting"},
                 done : BOOLEAN, result : {"ok", "retry", "drop"}]
        BY DEF NewEntry
      <3> QED
        BY <1>3, <3>1, <3>2, <3>3, <3>4 DEF TypeOK, EntryStates
    <2>2. SlotsMatchHolders'
      <3>1. Holders' = Holders /\ Executing' = Executing
        BY DEF Holders, Executing
      <3> QED
        BY <1>3, <3>1 DEF SlotsMatchHolders
    <2>3. (LeaseExecutedOnce /\ CommittedOnlyDecided)'
      BY <1>3 DEF LeaseExecutedOnce, CommittedOnlyDecided, EntriesNamed, EntryNamed
    <2>4. PlaceholderKept'
      BY <1>3 DEF PlaceholderKept, Claiming, NewEntry, TypeOK
    <2>5. LanesNamed'
      BY <1>3 DEF LanesNamed, NewEntry, TypeOK
    <2>6. OneClaimant'
      <3>1. \A k \in LaneIds \ {l} : Claimant(k)' => Claimant(k) /\ lane'[k].e \in 1 .. made
        BY DEF Claimant, LanesNamed
      <3> QED
        BY <3>1 DEF OneClaimant, Claimant
    <2>7. EntriesNamed' /\ RegistryByJob'
      BY <1>3 DEF EntriesNamed, EntryNamed, RegistryByJob, NewEntry, EntryOf, TypeOK
    <2>8. RemovedIsOver'
      BY <1>3 DEF RemovedIsOver, EntriesNamed, EntryNamed, TypeOK
    <2>9. DoneIsDecided'
      BY <1>3 DEF DoneIsDecided, NewEntry
    <2>10. AnswersTrue'
      <3> SUFFICES ASSUME NEW k \in LaneIds, lane'[k].pc = "answered"
                   PROVE  (AnswerTrue(k))'
        BY DEF AnswersTrue
      <3>1. k # l /\ lane'[k] = lane[k]
        OBVIOUS
      <3>2. AnswerTrue(k)
        BY <3>1 DEF AnswersTrue
      <3>3. \A d \in Ids : exec'[d] # "none" => exec[d] # "none" /\ entry'[d] = entry[d]
        BY DEF EntriesNamed, EntryNamed
      <3> QED
        BY <3>1, <3>2, <3>3 DEF AnswerTrue
    <2> QED
      BY <2>1, <2>2, <2>3, <2>4, <2>5, <2>6, <2>7, <2>8, <2>9, <2>10
  <1> QED
    BY <1>1, <1>2, <1>3 DEF getOrReserve

\* The service answers "claimed" only while the lease is not over, and then no
\* entry of the job was activated: one that was would be in the registry, where
\* the placeholder is the job's only entry.
LEMMA ClaimJobInv ==
    ASSUME HandoffInv, NEW l \in LaneIds, ClaimJob(l)
    PROVE  HandoffInv'
  <1> USE DEF HandoffInv, HandoffsAccounted
  <1> DEFINE j == lane[l].job
  <1>0. /\ lane[l].pc = "claim" /\ j \in Jobs
        /\ UNCHANGED <<committed, slots, registry, entry, made, exec, recon>>
        /\ lane[l] \in LaneStates
    BY DEF ClaimJob, LaneAt, gateVars, LanesNamed, TypeOK
  <1>1. PICK a \in {"claimed", "refused", "retry", "drop"} :
            /\ lane' = [lane EXCEPT ![l].pc = "answered", ![l].answer = a]
            /\ a # "retry" => lease'[j] # "none"
            /\ a = "claimed" => lease[j] # "over"
    BY <1>0 DEF ClaimJob, TypeOK
  <1>2. /\ lease' \in [Jobs -> {"none", "held", "over"}]
        /\ \A i \in Jobs : /\ lease[i] # "none" => lease'[i] # "none"
                           /\ lease[i] = "over" => lease'[i] = "over"
    BY <1>0 DEF ClaimJob, TypeOK
  <1>3. faults' \in 0 .. MaxFaults
    BY DEF ClaimJob, TypeOK, Fault, NoFault
  <1>4. /\ \A k \in LaneIds \ {l} : lane'[k] = lane[k]
        /\ lane'[l].pc = "answered" /\ lane'[l].job = j /\ lane'[l].e = lane[l].e
        /\ lane'[l].answer = a /\ lane'[l].live = lane[l].live
    BY <1>1 DEF TypeOK, LaneStates
  <1>5. TypeOK'
    <2>1. lane'[l] = [lane[l] EXCEPT !.pc = "answered", !.answer = a]
      BY <1>1 DEF TypeOK
    <2>2. lane'[l] \in LaneStates
      BY Zenon, <1>0, <2>1 DEF LaneStates
    <2>3. lane' \in [LaneIds -> LaneStates]
      BY <1>1, <2>2 DEF TypeOK
    <2> QED
      BY <1>0, <1>2, <1>3, <2>3 DEF TypeOK
  <1>6. SlotsMatchHolders'
    <2>1. Holders' = Holders /\ Executing' = Executing
      BY <1>0, <1>4 DEF Holders, Executing
    <2> QED
      BY <1>0, <2>1 DEF SlotsMatchHolders
  <1>7. (LeaseExecutedOnce /\ CommittedOnlyDecided)'
    BY <1>0, <1>2 DEF LeaseExecutedOnce, CommittedOnlyDecided, TypeOK
  <1>8. (PlaceholderKept /\ LanesNamed)'
    BY <1>0, <1>4 DEF PlaceholderKept, Claiming, LanesNamed
  <1>9. OneClaimant'
    BY <1>0, <1>4 DEF OneClaimant, Claimant
  <1>10. (EntriesNamed /\ RegistryByJob)'
    BY <1>0 DEF EntriesNamed, EntryNamed, RegistryByJob
  <1>11. (RemovedIsOver /\ DoneIsDecided)'
    <2>0. made \in 0 .. MaxEntries /\ MaxEntries \in Nat
      BY HandoffAssumption DEF TypeOK
    <2>1. \A d \in 1 .. made : d \in Ids /\ entry[d].job \in Jobs
      <3>1. \A d \in 1 .. made : d \in Ids /\ d <= made
        BY <2>0 DEF Ids
      <3> QED BY <3>1 DEF EntriesNamed, EntryNamed
    <2>2. \A d \in Ids : exec[d] # "none" => d \in 1 .. made
      BY DEF EntriesNamed, EntryNamed, TypeOK
    <2>3. RemovedIsOver'
      BY <1>0, <1>2, <2>1, <2>2 DEF RemovedIsOver
    <2>4. DoneIsDecided'
      BY <1>0, <1>2, <2>1 DEF DoneIsDecided
    <2> QED
      BY <2>3, <2>4
  <1>12. AnswersTrue'
    <2> SUFFICES ASSUME NEW k \in LaneIds, lane'[k].pc = "answered"
                 PROVE  (AnswerTrue(k))'
      BY DEF AnswersTrue
    <2>1. CASE k = l
      <3>1. ASSUME a = "claimed", NEW d \in Ids, exec[d] # "none", entry[d].job = j
            PROVE  FALSE
        <4>1. d \in registry
          BY <1>1, <3>1 DEF RemovedIsOver
        <4>2. lane[l].e \in registry /\ entry[lane[l].e].job = j
          BY <1>0 DEF PlaceholderKept, Claiming, LanesNamed
        <4>3. d = lane[l].e
          BY <3>1, <4>1, <4>2 DEF RegistryByJob
        <4> QED
          BY <1>0, <3>1, <4>3 DEF PlaceholderKept, Claiming, EntriesNamed, EntryNamed
      <3> QED
        BY ZenonT(60), <1>0, <1>1, <1>4, <2>1, <3>1 DEF AnswerTrue
    <2>2. CASE k # l
      <3>1. lane'[k] = lane[k] /\ AnswerTrue(k) /\ lane[k].job \in Jobs
        BY <1>4, <2>2 DEF AnswersTrue, LanesNamed
      <3> QED
        BY <1>0, <1>2, <3>1 DEF AnswerTrue
    <2> QED
      BY <2>1, <2>2
  <1> QED
    BY <1>5, <1>6, <1>7, <1>8, <1>9, <1>10, <1>11, <1>12

LEMMA WaitInv ==
    ASSUME HandoffInv, NEW l \in LaneIds, wait(l)
    PROVE  HandoffInv'
  <1> USE DEF HandoffInv, HandoffsAccounted
  <1>0. lane[l].pc = "wait" /\ UNCHANGED <<slots, registry, entry, made, exec, lease, recon, faults>>
    BY DEF wait, LaneAt, gateVars
  <1>1. ASSUME NEW r, Return(l, r), r # "retry" => lease[lane[l].job] # "none"
        PROVE  HandoffInv'
    <2>1. Holders' = Holders /\ Executing' = Executing
      BY <1>0, <1>1, ReturnLane DEF Holders, Executing
    <2>2. SlotsMatchHolders' /\ slots' \in 0 .. Concurrency /\ faults' \in 0 .. MaxFaults
      BY <1>0, <2>1 DEF SlotsMatchHolders, TypeOK
    <2> QED
      BY <1>0, <1>1, <2>2, ReturnInv
  <1>2. CASE entry[lane[l].e].done /\ Return(l, entry[lane[l].e].result)
    <2>1. lane[l].e \in 1 .. made /\ entry[lane[l].e].job = lane[l].job /\ made \in 0 .. MaxEntries
      BY <1>0 DEF LanesNamed, TypeOK
    <2>2. entry[lane[l].e].result # "retry" => lease[lane[l].job] # "none"
      BY <1>2, <2>1 DEF DoneIsDecided
    <2> QED
      BY <1>1, <1>2, <2>2
  <1>3. CASE Return(l, "retry")
    BY <1>1, <1>3
  <1> QED
    BY <1>2, <1>3 DEF wait

\* What is left of the registry when entries go.
LEMMA RegistryShrinks ==
    ASSUME TypeOK, registry' \subseteq registry, UNCHANGED made
    PROVE  registry' \subseteq 1 .. made' /\ Cardinality(registry') <= Limit
  <1>1. registry \in SUBSET Ids /\ registry' \in SUBSET registry
    BY DEF TypeOK
  <1>2. IsFiniteSet(registry)
    BY <1>1, IdsFinite, FS_Subset
  <1>3. /\ Cardinality(registry') <= Cardinality(registry)
        /\ Cardinality(registry') \in Nat /\ Cardinality(registry) \in Nat
    BY <1>1, <1>2, FS_Subset, FS_CardinalityType
  <1> QED
    BY <1>1, <1>3 DEF TypeOK

LEMMA ClaimFailsInv ==
    ASSUME HandoffInv, NEW l \in LaneIds, ClaimFails(l)
    PROVE  HandoffInv'
  <1> USE DEF HandoffInv, HandoffsAccounted
  <1> DEFINE e == lane[l].e
             result == IF lane[l].answer = "refused" THEN "ok" ELSE lane[l].answer
  <1>0. /\ lane[l].pc = "answered" /\ lane[l].answer # "claimed" /\ lane[l].job \in Jobs
        /\ AnswerTrue(l)
        /\ e \in 1 .. made /\ e \in Ids /\ Claiming(e) /\ entry[e].job = lane[l].job
        /\ UNCHANGED <<made, exec, lease, recon, faults>>
    BY DEF ClaimFails, LaneAt, LanesNamed, AnswersTrue, PlaceholderKept, TypeOK
  <1>1. /\ result \in {"ok", "retry", "drop"}
        /\ result # "retry" => lease[lane[l].job] # "none"
    BY <1>0 DEF AnswerTrue, TypeOK, LaneStates
  <1>2. Return(l, result)
    BY DEF ClaimFails
  <1>3. registry' = registry \ {e} /\ entry' = [entry EXCEPT ![e].result = result, ![e].done = TRUE]
    BY <1>0 DEF ClaimFails, resolveRemoved, RefusedResult
  <1>4. /\ \A d \in Ids \ {e} : entry'[d] = entry[d]
        /\ entry'[e] = [entry[e] EXCEPT !.result = result, !.done = TRUE]
        /\ entry[e] \in EntryStates
    BY <1>0, <1>3 DEF TypeOK, EntryStates
  <1>5. /\ \A d \in Ids : entry'[d].job = entry[d].job /\ entry'[d].state = entry[d].state
        /\ entry'[e].result = result
    BY <1>0, <1>4 DEF EntryStates
  <1>6. TypeOK'
    <2>1. entry'[e] \in EntryStates
      BY Zenon, <1>1, <1>4 DEF EntryStates
    <2>2. entry' \in [Ids -> EntryStates]
      BY ZenonT(60), <1>3, <2>1 DEF TypeOK, EntryStates
    <2>3. slots' \in 0 .. Concurrency
      BY DEF ClaimFails, releaseExecutionSlot, TypeOK
    <2> QED
      BY <1>0, <1>2, <1>3, <2>2, <2>3, ReturnLane, RegistryShrinks DEF TypeOK, EntryStates
  <1>7. SlotsMatchHolders'
    <2>1. l \in Holders /\ Holders' = Holders \ {l} /\ Executing' = Executing
      BY <1>0, <1>2, ReturnLane DEF Holders, Executing
    <2> QED
      BY <2>1, LaneReleases DEF ClaimFails
  <1>8. LeaseExecutedOnce'
    BY <1>0, <1>5 DEF LeaseExecutedOnce
  <1>9. CommittedOnlyDecided'
    BY <1>0, <1>1, <1>2, ReturnLane DEF CommittedOnlyDecided
  <1>10. PlaceholderKept'
    <2> SUFFICES ASSUME NEW k \in LaneIds, lane'[k].pc \in {"claim", "answered"}
                 PROVE  (Claiming(lane[k].e))'
      BY DEF PlaceholderKept
    <2>1. k # l /\ lane'[k] = lane[k]
      BY <1>0, <1>2, ReturnLane
    <2>2. lane[k].e # e /\ Claiming(lane[k].e) /\ lane[k].e \in Ids
      BY <1>0, <2>1 DEF OneClaimant, Claimant, PlaceholderKept, LanesNamed, TypeOK
    <2> QED
      BY <1>3, <1>5, <2>1, <2>2 DEF Claiming
  <1>11. LanesNamed'
    <2>1. /\ \A k \in LaneIds \ {l} : lane'[k] = lane[k]
          /\ lane'[l].pc \in {"idle", "slot"}
          /\ lane'[l].pc = "idle" => ~lane'[l].live
          /\ lane'[l].pc # "idle" => lane'[l].job \in Jobs
      BY <1>0, <1>2, ReturnLane
    <2>2. \A d \in 1 .. made : entry'[d].job = entry[d].job
      BY <1>5 DEF TypeOK
    <2> QED
      BY <1>0, <2>1, <2>2 DEF LanesNamed
  <1>12. OneClaimant'
    BY <1>0, <1>2, ReturnLane DEF OneClaimant, Claimant
  <1>13. (EntriesNamed /\ RegistryByJob)'
    <2>1. registry' \subseteq registry /\ registry \subseteq Ids
      BY <1>3 DEF TypeOK
    <2>2. EntriesNamed'
      BY <1>0, <1>5 DEF EntriesNamed, EntryNamed
    <2>3. RegistryByJob'
      <3> SUFFICES ASSUME NEW c \in registry', NEW d \in registry', entry'[c].job = entry'[d].job
                   PROVE  c = d
        BY DEF RegistryByJob
      <3>1. c \in registry /\ d \in registry /\ c \in Ids /\ d \in Ids
        BY <2>1
      <3>2. entry[c].job = entry[d].job
        BY <1>5, <3>1
      <3> QED
        BY <3>1, <3>2 DEF RegistryByJob
    <2> QED
      BY <2>2, <2>3
  <1>14. RemovedIsOver'
    <2>1. exec[e] = "none"
      BY <1>0 DEF Claiming, EntriesNamed, EntryNamed
    <2>2. \A d \in Ids : exec[d] # "none" /\ d \notin registry' => d \notin registry
      BY <1>3, <2>1
    <2>3. /\ 1 .. made \subseteq Ids
          /\ \A d \in Ids : entry'[d].job = entry[d].job
      BY <1>5 DEF TypeOK
    <2> QED
      BY <1>0, <2>2, <2>3 DEF RemovedIsOver
  <1>15. DoneIsDecided'
    <2> SUFFICES ASSUME NEW d \in Ids, d <= made, entry'[d].done, entry'[d].result # "retry"
                 PROVE  lease[entry[d].job] # "none"
      BY <1>0, <1>5 DEF DoneIsDecided
    <2>1. CASE d = e
      BY <1>0, <1>1, <1>5, <2>1
    <2>2. CASE d # e
      BY <1>4, <2>2 DEF DoneIsDecided
    <2> QED
      BY <2>1, <2>2
  <1>16. AnswersTrue'
    <2> SUFFICES ASSUME NEW k \in LaneIds, lane'[k].pc = "answered"
                 PROVE  (AnswerTrue(k))'
      BY DEF AnswersTrue
    <2>1. lane'[k] = lane[k] /\ AnswerTrue(k)
      BY <1>0, <1>2, ReturnLane DEF AnswersTrue
    <2> QED
      BY <1>0, <1>5, <2>1 DEF AnswerTrue
  <1> QED
    BY <1>6, <1>7, <1>8, <1>9, <1>10, <1>11, <1>12, <1>13, <1>14, <1>15, <1>16

\* The execution takes over the slot of its record.  It is the first of its job,
\* as the answer says.
LEMMA ActivateInv ==
    ASSUME HandoffInv, NEW l \in LaneIds, activate(l)
    PROVE  HandoffInv'
  <1> USE DEF HandoffInv, HandoffsAccounted
  <1> DEFINE e == lane[l].e
  <1>0. /\ lane[l].pc = "answered" /\ lane[l].answer = "claimed" /\ lane[l].job \in Jobs
        /\ AnswerTrue(l)
        /\ e \in 1 .. made /\ e \in Ids /\ Claiming(e) /\ entry[e].job = lane[l].job
        /\ UNCHANGED <<registry, made, lease, recon, faults, slots>>
        /\ Return(l, "ok")
    BY DEF activate, LaneAt, LanesNamed, AnswersTrue, PlaceholderKept, TypeOK
  <1>1. /\ entry' = [entry EXCEPT ![e].state = "active", ![e].done = TRUE]
        /\ exec' = [exec EXCEPT ![e] = "run"]
    BY <1>0 DEF activate
  <1>2. lease[lane[l].job] # "none" /\ exec[e] = "none" /\ e \in registry
    BY <1>0 DEF AnswerTrue, EntriesNamed, EntryNamed, Claiming
  <1>3. /\ \A d \in Ids \ {e} : entry'[d] = entry[d] /\ exec'[d] = exec[d]
        /\ entry'[e] = [entry[e] EXCEPT !.state = "active", !.done = TRUE]
        /\ exec'[e] = "run"
        /\ entry[e] \in EntryStates
    BY <1>0, <1>1 DEF TypeOK, EntryStates
  <1>4. /\ \A d \in Ids : entry'[d].job = entry[d].job
        /\ entry'[e].state = "active"
    BY <1>0, <1>3 DEF EntryStates
  <1>5. TypeOK'
    <2>1. entry'[e] \in EntryStates
      BY Zenon, <1>3 DEF EntryStates
    <2>2. entry' \in [Ids -> EntryStates]
      BY ZenonT(60), <1>1, <2>1 DEF TypeOK, EntryStates
    <2> QED
      BY <1>0, <1>1, <2>2, ReturnLane DEF TypeOK, EntryStates
  <1>6. SlotsMatchHolders'
    <2>1. l \in Holders /\ Holders' = Holders \ {l}
      BY <1>0, ReturnLane DEF Holders
    <2>2. e \notin Executing /\ Executing' = Executing \cup {e}
      BY <1>0, <1>2, <1>3 DEF Executing
    <2>3. /\ Cardinality(Holders') = Cardinality(Holders) - 1
          /\ Cardinality(Executing') = Cardinality(Executing) + 1
      BY <2>1, <2>2, HoldersFinite, FS_RemoveElement, FS_AddElement
    <2> QED
      BY <1>0, <2>3, HoldersFinite DEF SlotsMatchHolders
  <1>7. LeaseExecutedOnce'
    <2>1. \A d \in Ids : exec[d] # "none" => entry[d].job # entry[e].job
      BY <1>0 DEF AnswerTrue
    <2> QED
      BY <1>0, <1>3, <1>4, <2>1 DEF LeaseExecutedOnce
  <1>8. CommittedOnlyDecided'
    BY <1>0, <1>2, ReturnLane DEF CommittedOnlyDecided
  <1>9. PlaceholderKept'
    <2> SUFFICES ASSUME NEW k \in LaneIds, lane'[k].pc \in {"claim", "answered"}
                 PROVE  (Claiming(lane[k].e))'
      BY DEF PlaceholderKept
    <2>1. k # l /\ lane'[k] = lane[k]
      BY <1>0, ReturnLane
    <2>2. lane[k].e # e /\ Claiming(lane[k].e) /\ lane[k].e \in Ids
      BY <1>0, <2>1 DEF OneClaimant, Claimant, PlaceholderKept, LanesNamed, TypeOK
    <2> QED
      BY <1>0, <1>3, <2>1, <2>2 DEF Claiming
  <1>10. LanesNamed'
    <2>1. \A k \in LaneIds : lane'[k].pc \in {"claim", "answered", "wait"} =>
             lane'[k] = lane[k] /\ lane[k].e \in Ids
      BY <1>0, ReturnLane DEF LanesNamed, TypeOK
    <2> QED
      BY <1>0, <1>4, <2>1, ReturnLane DEF LanesNamed
  <1>11. OneClaimant'
    BY <1>0, ReturnLane DEF OneClaimant, Claimant
  <1>12. EntriesNamed'
    <2> SUFFICES ASSUME NEW d \in Ids PROVE (EntryNamed(d))'
      BY DEF EntriesNamed
    <2>1. CASE d = e
      <3>1. made' = made /\ e <= made /\ entry'[e].job \in Jobs
        BY <1>0, <1>4
      <3>2. exec'[e] # "none" /\ entry'[e].state # "claiming"
        BY <1>3, <1>4
      <3> QED
        BY <2>1, <3>1, <3>2 DEF EntryNamed
    <2>2. CASE d # e
      BY <1>0, <1>3, <2>2 DEF EntriesNamed, EntryNamed
    <2> QED
      BY <2>1, <2>2
  <1>16. RegistryByJob'
    <2>1. registry \subseteq Ids
      BY DEF TypeOK
    <2> QED
      BY <1>0, <1>4, <2>1 DEF RegistryByJob
  <1>13. RemovedIsOver'
    BY <1>0, <1>2, <1>3, <1>4 DEF RemovedIsOver, TypeOK, EntryStates
  <1>14. DoneIsDecided'
    BY <1>0, <1>2, <1>3, <1>4 DEF DoneIsDecided
  <1>15. AnswersTrue'
    <2> SUFFICES ASSUME NEW k \in LaneIds, lane'[k].pc = "answered"
                 PROVE  (AnswerTrue(k))'
      BY DEF AnswersTrue
    <2>1. k # l /\ lane'[k] = lane[k] /\ AnswerTrue(k)
      BY <1>0, ReturnLane DEF AnswersTrue
    <2>2. lane[k].job # lane[l].job
      <3>1. lane[k].e \in registry /\ entry[lane[k].e].job = lane[k].job /\ lane[k].e # e
        BY <1>0, <2>1 DEF PlaceholderKept, Claiming, LanesNamed, OneClaimant, Claimant
      <3> QED
        BY <1>0, <1>2, <3>1 DEF RegistryByJob
    <2>3. \A d \in Ids \ {e} : exec'[d] = exec[d] /\ entry'[d].job = entry[d].job
      BY <1>3, <1>4
    <2> QED
      BY <1>0, <1>4, <2>1, <2>2, <2>3 DEF AnswerTrue
  <1> QED
    BY <1>5, <1>6, <1>7, <1>8, <1>9, <1>10, <1>11, <1>12, <1>13, <1>14, <1>15, <1>16

-----------------------------------------------------------------------------
\* A lease that ends stays ended, and nothing that was decided is undone.
LEMMA LeaseOverInv ==
    ASSUME HandoffInv, NEW j \in Jobs, lease' = [lease EXCEPT ![j] = "over"],
           faults' \in 0 .. MaxFaults, exec' \in [Ids -> {"none", "run", "settled", "mark", "done"}],
           \A e \in Ids : exec'[e] # exec[e] =>
               exec[e] = "run" /\ exec'[e] \in {"settled", "mark"} /\ entry[e].job = j,
           UNCHANGED <<lane, committed, slots, registry, entry, made, recon>>
    PROVE  HandoffInv'
  <1> USE DEF HandoffInv, HandoffsAccounted
  <1>0. /\ lease' \in [Jobs -> {"none", "held", "over"}]
        /\ \A i \in Jobs : /\ lease[i] # "none" => lease'[i] # "none"
                           /\ lease[i] = "over" => lease'[i] = "over"
        /\ lease'[j] = "over"
        /\ \A e \in Ids : exec'[e] # "none" <=> exec[e] # "none"
    BY DEF TypeOK
  <1>1. TypeOK'
    BY <1>0 DEF TypeOK
  <1>2. SlotsMatchHolders'
    <2>1. Holders' = Holders /\ Executing' = Executing
      BY DEF Holders, Executing
    <2> QED
      BY <2>1 DEF SlotsMatchHolders
  <1>3. (LeaseExecutedOnce /\ CommittedOnlyDecided)'
    BY <1>0 DEF LeaseExecutedOnce, CommittedOnlyDecided, TypeOK
  <1>4. (PlaceholderKept /\ LanesNamed /\ OneClaimant)'
    BY DEF PlaceholderKept, Claiming, LanesNamed, OneClaimant, Claimant
  <1>5. (EntriesNamed /\ RegistryByJob)'
    BY <1>0 DEF EntriesNamed, EntryNamed, RegistryByJob
  <1>6. (RemovedIsOver /\ DoneIsDecided)'
    BY <1>0 DEF RemovedIsOver, DoneIsDecided, EntriesNamed, EntryNamed, TypeOK
  <1>7. AnswersTrue'
    BY <1>0 DEF AnswersTrue, AnswerTrue, LanesNamed
  <1> QED
    BY <1>1, <1>2, <1>3, <1>4, <1>5, <1>6, <1>7

LEMMA LeaseEndsInv ==
    ASSUME HandoffInv, NEW j \in Jobs, LeaseEnds(j)
    PROVE  HandoffInv'
  <1>1. TypeOK
    BY DEF HandoffInv, HandoffsAccounted
  <1> QED
    BY <1>1, LeaseOverInv DEF LeaseEnds, TypeOK, gateVars

LEMMA SettleInv ==
    ASSUME HandoffInv, NEW e \in Ids, Settle(e)
    PROVE  HandoffInv'
  <1>1. TypeOK /\ EntriesNamed
    BY DEF HandoffInv, HandoffsAccounted
  <1>2. entry[e].job \in Jobs /\ faults' \in 0 .. MaxFaults
    BY <1>1 DEF Settle, EntriesNamed, EntryNamed, TypeOK, Fault, NoFault
  <1>3. /\ exec' \in [Ids -> {"none", "run", "settled", "mark", "done"}]
        /\ \A d \in Ids : exec'[d] # exec[d] =>
               exec[d] = "run" /\ exec'[d] \in {"settled", "mark"} /\ entry[d].job = entry[e].job
    BY <1>1 DEF Settle, TypeOK
  <1> QED
    BY <1>2, <1>3, LeaseOverInv DEF Settle, gateVars

LEMMA GiveUpInv ==
    ASSUME HandoffInv, NEW e \in Ids, GiveUp(e)
    PROVE  HandoffInv'
  <1> USE DEF HandoffInv, HandoffsAccounted
  <1>0. /\ UNCHANGED <<lane, committed, slots, registry, entry, made, lease, recon>>
        /\ exec' = [exec EXCEPT ![e] = "mark"] /\ exec[e] = "run"
        /\ \A d \in Ids : exec'[d] # "none" <=> exec[d] # "none"
    BY DEF GiveUp, gateVars, TypeOK
  <1>1. TypeOK'
    BY <1>0 DEF TypeOK, GiveUp, Fault, NoFault
  <1>2. SlotsMatchHolders'
    <2>1. Holders' = Holders /\ Executing' = Executing
      BY <1>0 DEF Holders, Executing, TypeOK
    <2> QED
      BY <1>0, <2>1 DEF SlotsMatchHolders
  <1>3. (LeaseExecutedOnce /\ CommittedOnlyDecided)'
    BY <1>0 DEF LeaseExecutedOnce, CommittedOnlyDecided
  <1>4. (PlaceholderKept /\ LanesNamed /\ OneClaimant)'
    BY <1>0 DEF PlaceholderKept, Claiming, LanesNamed, OneClaimant, Claimant
  <1>5. (EntriesNamed /\ RegistryByJob /\ DoneIsDecided)'
    BY <1>0 DEF EntriesNamed, EntryNamed, RegistryByJob, DoneIsDecided
  <1>6. RemovedIsOver'
    BY <1>0 DEF RemovedIsOver, TypeOK
  <1>7. AnswersTrue'
    BY <1>0 DEF AnswersTrue, AnswerTrue
  <1> QED
    BY <1>1, <1>2, <1>3, <1>4, <1>5, <1>6, <1>7

\* consume removes the entry of a lease that was settled.
LEMMA ConsumeInv ==
    ASSUME HandoffInv, NEW e \in Ids, consume(e)
    PROVE  HandoffInv'
  <1> USE DEF HandoffInv, HandoffsAccounted
  <1>0. /\ UNCHANGED <<lane, committed, slots, entry, made, lease, recon, faults>>
        /\ exec' = [exec EXCEPT ![e] = "mark"] /\ exec[e] = "settled"
        /\ \A d \in Ids : exec'[d] # "none" <=> exec[d] # "none"
        /\ \A d \in Ids : exec'[d] = "settled" => exec[d] = "settled"
    BY DEF consume, TypeOK
  <1>1. /\ registry' \subseteq registry
        /\ \A d \in registry : d \notin registry' => d = e
        /\ \A d \in registry : entry[d].state = "claiming" => d \in registry'
    <2>1. \A d \in registry : /\ d \in Ids
                              /\ exec[d] # "none" <=> entry[d].state # "claiming"
      BY DEF TypeOK, EntriesNamed, EntryNamed
    <2> QED
      BY <1>0, <2>1 DEF consume, EntryOf, LeaseExecutedOnce
  <1>2. TypeOK'
    BY <1>0, <1>1, RegistryShrinks DEF TypeOK
  <1>3. SlotsMatchHolders'
    <2>1. Holders' = Holders /\ Executing' = Executing
      BY <1>0 DEF Holders, Executing, TypeOK
    <2> QED
      BY <1>0, <2>1 DEF SlotsMatchHolders
  <1>4. (LeaseExecutedOnce /\ CommittedOnlyDecided)'
    BY <1>0 DEF LeaseExecutedOnce, CommittedOnlyDecided
  <1>5. (PlaceholderKept /\ LanesNamed /\ OneClaimant)'
    BY <1>0, <1>1 DEF PlaceholderKept, Claiming, LanesNamed, OneClaimant, Claimant
  <1>6. (EntriesNamed /\ RegistryByJob /\ DoneIsDecided)'
    BY <1>0, <1>1 DEF EntriesNamed, EntryNamed, RegistryByJob, DoneIsDecided
  <1>7. RemovedIsOver'
    BY <1>0, <1>1 DEF RemovedIsOver
  <1>8. AnswersTrue'
    BY <1>0 DEF AnswersTrue, AnswerTrue
  <1> QED
    BY <1>2, <1>3, <1>4, <1>5, <1>6, <1>7, <1>8

\* markAwaiting changes the entry of its own execution or none, and gives the
\* execution's slot back.
LEMMA MarkAwaitingInv ==
    ASSUME HandoffInv, NEW e \in Ids, markAwaiting(e)
    PROVE  HandoffInv'
  <1> USE DEF HandoffInv, HandoffsAccounted
  <1>0. /\ UNCHANGED <<lane, committed, registry, made, lease, recon, faults>>
        /\ exec' = [exec EXCEPT ![e] = "done"] /\ exec[e] = "mark"
        /\ \A d \in Ids : exec'[d] # "none" <=> exec[d] # "none"
        /\ \A d \in Ids : exec'[d] = "settled" => exec[d] = "settled"
    BY DEF markAwaiting, Mark, TypeOK
  <1>1. /\ entry' \in [Ids -> EntryStates]
        /\ \A d \in Ids : /\ entry'[d].job = entry[d].job /\ entry'[d].done = entry[d].done
                          /\ entry'[d].result = entry[d].result
                          /\ entry'[d].state = "claiming" <=> entry[d].state = "claiming"
    <2> SUFFICES ASSUME NEW d \in Ids
                 PROVE  /\ entry'[d] \in EntryStates
                        /\ entry'[d].job = entry[d].job /\ entry'[d].done = entry[d].done
                        /\ entry'[d].result = entry[d].result
                        /\ entry'[d].state = "claiming" <=> entry[d].state = "claiming"
      BY DEF markAwaiting, Mark
    <2>0. entry[d] \in EntryStates
      BY DEF TypeOK, EntryStates
    <2>1. CASE entry'[d] = entry[d]
      BY <2>0, <2>1
    <2>2. CASE entry[d].state = "active" /\ entry'[d] = [entry[d] EXCEPT !.state = "awaiting"]
      <3>1. entry'[d] \in EntryStates
        BY Zenon, <2>0, <2>2 DEF EntryStates
      <3> QED
        BY <2>0, <2>2, <3>1 DEF EntryStates
    <2> QED
      BY <2>1, <2>2 DEF markAwaiting, Mark
  <1>2. SlotsMatchHolders' /\ slots' \in 0 .. Concurrency
    <2>1. Holders' = Holders /\ e \in Executing /\ Executing' = Executing \ {e}
      BY <1>0 DEF Holders, Executing, TypeOK
    <2>2. Cardinality(Executing') = Cardinality(Executing) - 1
      BY <2>1, HoldersFinite, FS_RemoveElement
    <2>3. Cardinality(Executing) + Cardinality(Holders) = slots /\ slots \in 0 .. Concurrency
      BY HoldersFinite DEF SlotsMatchHolders, TypeOK
    <2>4. slots' = Cardinality(Holders') + Cardinality(Executing')
      BY <2>1, <2>2, <2>3, HoldersFinite, NextHoldersFinite DEF markAwaiting, releaseExecutionSlot
    <2> QED
      BY <2>3, <2>4 DEF markAwaiting, releaseExecutionSlot, SlotsMatchHolders
  <1>3. TypeOK'
    BY <1>0, <1>1, <1>2 DEF TypeOK, EntryStates
  <1>4. (LeaseExecutedOnce /\ CommittedOnlyDecided)'
    BY <1>0, <1>1 DEF LeaseExecutedOnce, CommittedOnlyDecided
  <1>5. (PlaceholderKept /\ LanesNamed /\ OneClaimant)'
    BY <1>0, <1>1 DEF PlaceholderKept, Claiming, LanesNamed, OneClaimant, Claimant, TypeOK, LaneStates, EntryStates
  <1>6. EntriesNamed' /\ DoneIsDecided'
    BY <1>0, <1>1 DEF EntriesNamed, EntryNamed, DoneIsDecided
  <1>9. RegistryByJob'
    <2>1. registry \subseteq Ids
      BY DEF TypeOK
    <2> QED
      BY <1>0, <1>1, <2>1 DEF RegistryByJob
  <1>7. RemovedIsOver'
    <2>1. recon.pc = "answered" => entry'[recon.e].job = entry[recon.e].job
      BY <1>1 DEF RemovedIsOver, TypeOK
    <2> QED
      BY <1>0, <1>1, <2>1 DEF RemovedIsOver
  <1>8. AnswersTrue'
    BY <1>0, <1>1 DEF AnswersTrue, AnswerTrue
  <1> QED
    BY <1>2, <1>3, <1>4, <1>5, <1>6, <1>7, <1>8, <1>9

-----------------------------------------------------------------------------
(* The recovery ticker.                                                      *)

\* The entries that are awaiting were made.
LEMMA AwaitingInv ==
    ASSUME HandoffInv, awaiting
    PROVE  HandoffInv'
  <1> USE DEF HandoffInv, HandoffsAccounted
  <1>0. /\ UNCHANGED <<lane, committed, slots, registry, entry, made, exec, lease, faults>>
        /\ recon' = [pc |-> "next", todo |-> {e \in registry : entry[e].state = "awaiting"},
                     e |-> None, removable |-> FALSE]
    BY DEF awaiting, IdleRecon, gateVars
  <1>1. TypeOK'
    <2>0. registry \subseteq Ids
      BY DEF TypeOK
    <2>1. {e \in registry : entry[e].state = "awaiting"} \in SUBSET Ids
      BY Zenon, <2>0
    <2>2. recon' \in [pc : {"idle", "next", "answered"}, todo : SUBSET Ids,
                      e : Ids \cup {None}, removable : BOOLEAN]
      BY <1>0, <2>1
    <2> QED
      BY <1>0, <2>2 DEF TypeOK
  <1>2. (SlotsMatchHolders /\ LeaseExecutedOnce /\ PlaceholderKept /\ CommittedOnlyDecided)'
    BY <1>0 DEF SlotsMatchHolders, Holders, Executing, LeaseExecutedOnce, PlaceholderKept,
                Claiming, CommittedOnlyDecided
  <1>3. (LanesNamed /\ EntriesNamed /\ RegistryByJob /\ OneClaimant)'
    BY <1>0 DEF LanesNamed, EntriesNamed, EntryNamed, RegistryByJob, OneClaimant, Claimant
  <1>4. (AnswersTrue /\ DoneIsDecided)'
    BY <1>0 DEF AnswersTrue, AnswerTrue, DoneIsDecided
  <1>5. RemovedIsOver'
    BY <1>0 DEF RemovedIsOver, TypeOK
  <1> QED
    BY <1>1, <1>2, <1>3, <1>4, <1>5

\* An entry is removable when the service says that its lease is over.
LEMMA ReplayClaimInv ==
    ASSUME HandoffInv, ReplayClaim
    PROVE  HandoffInv'
  <1> USE DEF HandoffInv, HandoffsAccounted
  <1>0. /\ UNCHANGED <<lane, committed, slots, registry, entry, made, exec, lease>>
        /\ faults' \in 0 .. MaxFaults
    <2>1. UNCHANGED <<lane, committed, slots, registry, entry, made, exec, lease>>
      BY DEF ReplayClaim, gateVars
    <2>2. NoFault \/ Fault
      BY DEF ReplayClaim
    <2>3. faults' \in 0 .. MaxFaults
      BY <2>2 DEF Fault, NoFault, TypeOK
    <2> QED
      BY <2>1, <2>3
  <1>1. /\ recon' \in [pc : {"idle", "next", "answered"}, todo : SUBSET Ids,
                       e : Ids \cup {None}, removable : BOOLEAN]
        /\ recon'.todo \subseteq 1 .. made
        /\ recon'.pc = "answered" => /\ recon'.e \in 1 .. made
                                     /\ recon'.removable => lease[entry[recon'.e].job] = "over"
    <2>0. recon.todo \subseteq 1 .. made /\ 1 .. made \subseteq Ids
      BY DEF RemovedIsOver, TypeOK
    <2>1. ASSUME NEW e \in recon.todo,
                 recon' = [recon EXCEPT !.pc = "answered", !.todo = @ \ {e}, !.e = e,
                              !.removable = Removable(lease[entry[e].job])]
          PROVE  <1>1!1 /\ <1>1!2 /\ <1>1!3
      <3>1. recon' = [pc |-> "answered", todo |-> recon.todo \ {e}, e |-> e,
                      removable |-> (lease[entry[e].job] = "over")]
        BY <2>1 DEF TypeOK, Removable
      <3> QED
        BY <2>0, <3>1
    <2>2. ASSUME NEW e \in recon.todo, recon' = [recon EXCEPT !.todo = @ \ {e}], recon.pc = "next"
          PROVE  <1>1!1 /\ <1>1!2 /\ <1>1!3
      <3>1. recon \in [pc : {"idle", "next", "answered"}, todo : SUBSET Ids,
                       e : Ids \cup {None}, removable : BOOLEAN]
        BY DEF TypeOK
      <3>2. recon.todo \ {e} \in SUBSET Ids
        BY <2>0
      <3>3. recon'.pc = "next" /\ recon'.todo = recon.todo \ {e}
        BY <2>2, <3>1
      <3>4. <1>1!1
        BY Zenon, <2>2, <3>1, <3>2
      <3> QED
        BY <2>0, <3>3, <3>4
    <2>3. CASE recon' = IdleRecon
      BY <2>3 DEF IdleRecon
    <2> QED
      BY <2>1, <2>2, <2>3 DEF ReplayClaim
  <1>2. TypeOK'
    BY <1>0, <1>1 DEF TypeOK
  <1>3. (SlotsMatchHolders /\ LeaseExecutedOnce /\ PlaceholderKept /\ CommittedOnlyDecided)'
    BY <1>0 DEF SlotsMatchHolders, Holders, Executing, LeaseExecutedOnce, PlaceholderKept,
                Claiming, CommittedOnlyDecided
  <1>4. (LanesNamed /\ EntriesNamed /\ RegistryByJob /\ OneClaimant)'
    BY <1>0 DEF LanesNamed, EntriesNamed, EntryNamed, RegistryByJob, OneClaimant, Claimant
  <1>5. (AnswersTrue /\ DoneIsDecided)'
    BY <1>0 DEF AnswersTrue, AnswerTrue, DoneIsDecided
  <1>6. RemovedIsOver'
    BY <1>0, <1>1 DEF RemovedIsOver
  <1> QED
    BY <1>2, <1>3, <1>4, <1>5, <1>6

LEMMA RemoveAwaitingInv ==
    ASSUME HandoffInv, removeAwaiting
    PROVE  HandoffInv'
  <1> USE DEF HandoffInv, HandoffsAccounted
  <1>0. /\ UNCHANGED <<lane, committed, slots, entry, made, exec, lease, faults>>
        /\ recon' = [recon EXCEPT !.pc = "next", !.e = None, !.removable = FALSE]
        /\ registry' \subseteq registry
        /\ \A d \in registry : d \notin registry' =>
              entry[d].state = "awaiting" /\ lease[entry[d].job] = "over"
    BY DEF removeAwaiting, RemovedIsOver
  <1>1. TypeOK'
    <2>1. recon \in [pc : {"idle", "next", "answered"}, todo : SUBSET Ids,
                     e : Ids \cup {None}, removable : BOOLEAN]
      BY DEF TypeOK
    <2>2. recon' \in [pc : {"idle", "next", "answered"}, todo : SUBSET Ids,
                      e : Ids \cup {None}, removable : BOOLEAN]
      BY Zenon, <1>0, <2>1
    <2> QED
      BY <1>0, <2>2, RegistryShrinks DEF TypeOK
  <1>2. recon'.pc = "next" /\ recon'.todo = recon.todo
    BY <1>0 DEF TypeOK
  <1>3. (SlotsMatchHolders /\ LeaseExecutedOnce /\ CommittedOnlyDecided)'
    BY <1>0 DEF SlotsMatchHolders, Holders, Executing, LeaseExecutedOnce, CommittedOnlyDecided
  <1>4. (PlaceholderKept /\ LanesNamed /\ OneClaimant)'
    BY <1>0 DEF PlaceholderKept, Claiming, LanesNamed, OneClaimant, Claimant
  <1>5. (EntriesNamed /\ RegistryByJob)'
    BY <1>0 DEF EntriesNamed, EntryNamed, RegistryByJob
  <1>6. (AnswersTrue /\ DoneIsDecided)'
    BY <1>0 DEF AnswersTrue, AnswerTrue, DoneIsDecided
  <1>7. RemovedIsOver'
    BY <1>0, <1>2 DEF RemovedIsOver
  <1> QED
    BY <1>1, <1>3, <1>4, <1>5, <1>6, <1>7

LEMMA StutterInv ==
    ASSUME HandoffInv, UNCHANGED vars
    PROVE  HandoffInv'
  <1> USE DEF HandoffInv, HandoffsAccounted, vars
  <1>1. (TypeOK /\ SlotsMatchHolders /\ LeaseExecutedOnce)'
    BY DEF TypeOK, SlotsMatchHolders, Holders, Executing, LeaseExecutedOnce
  <1>2. (PlaceholderKept /\ CommittedOnlyDecided /\ LanesNamed /\ EntriesNamed)'
    BY DEF PlaceholderKept, Claiming, CommittedOnlyDecided, LanesNamed, EntriesNamed, EntryNamed
  <1>3. (RegistryByJob /\ OneClaimant /\ RemovedIsOver /\ AnswersTrue /\ DoneIsDecided)'
    BY DEF RegistryByJob, OneClaimant, Claimant, RemovedIsOver, AnswersTrue, AnswerTrue,
           DoneIsDecided
  <1> QED
    BY <1>1, <1>2, <1>3

-----------------------------------------------------------------------------
\* The invariant of the admission gate holds in every reachable state.
THEOREM HandoffInvariant == Spec => []HandoffInv
  <1>1. HandoffInv /\ [Next]_vars => HandoffInv'
    <2> SUFFICES ASSUME HandoffInv, [Next]_vars PROVE HandoffInv'
      OBVIOUS
    <2>1. ASSUME NEW l \in LaneIds, LaneStep(l) PROVE HandoffInv'
      BY <2>1, SlotAcquireInv, AuthorizationFailsInv, ReserveInv, ClaimJobInv, ClaimFailsInv,
         ActivateInv, WaitInv DEF LaneStep
    <2>2. ASSUME NEW e \in Ids, ExecStep(e) PROVE HandoffInv'
      BY <2>2, SettleInv, GiveUpInv, ConsumeInv, MarkAwaitingInv DEF ExecStep
    <2>3. ASSUME ReconcileStep PROVE HandoffInv'
      BY <2>3, AwaitingInv, ReplayClaimInv, RemoveAwaitingInv DEF ReconcileStep
    <2> QED
      BY <2>1, <2>2, <2>3, DeliverInv, RevokeInv, LeaseEndsInv, StutterInv DEF Next
  <1> QED
    BY GateInitInv, <1>1, PTL DEF Spec

\* A slot of the worker (handoff_gate.go) is held by each record between its
\* slot and the answer to its claim and by each execution, and by nothing else;
\* a lease that was granted is executed once, whatever is redelivered, replayed
\* or revoked; a lane finds its placeholder claiming when the answer arrives;
\* and only records whose claim was decided are committed.
THEOREM HandoffsAreAccounted == Spec => []HandoffsAccounted
  <1>1. HandoffInv => HandoffsAccounted
    BY DEF HandoffInv
  <1> QED
    BY HandoffInvariant, <1>1, PTL

HIDE DEF Ids, None, NoJob

-----------------------------------------------------------------------------
(* EndpointCache: the cache of Docker clients.                           *)

\* The places that will close a client, one by one.
InCache(e, c) == e \in Cached /\ clients[e].client = c
Dropping(e, c) == e \in Flying /\ c \in getting[e].drop
Making(e, c) == e \in Installing /\ getting[e].client = c
Closing(c) == c \in closing

\* No two places will close the same client.
PlacesDisjoint ==
    \A c \in 1..MaxClients : \A e, f \in Endpoints :
        /\ InCache(e, c) /\ InCache(f, c) => e = f
        /\ Dropping(e, c) /\ Dropping(f, c) => e = f
        /\ Making(e, c) /\ Making(f, c) => e = f
        /\ ~(InCache(e, c) /\ Dropping(f, c))
        /\ ~(InCache(e, c) /\ Making(f, c))
        /\ ~(Dropping(e, c) /\ Making(f, c))
        /\ Closing(c) => ~InCache(e, c) /\ ~Dropping(e, c) /\ ~Making(e, c)

\* The open clients are those that some place will close.
OpenIsHeld ==
    \A c \in 1..MaxClients :
        c \in open <=> \/ Closing(c)
                       \/ \E e \in Endpoints : InCache(e, c) \/ Dropping(e, c) \/ Making(e, c)

\* A flight that looks up or installs has nothing left to close, and one that
\* constructs or installs is the only one to put its endpoint into the cache.
FlightsAlone ==
    \A e \in Flying : /\ getting[e].stage \in {"lookup", "install"} => getting[e].drop = {}
                      /\ getting[e].stage \in {"miss", "install"} => e \notin Cached
                      /\ getting[e].stage = "install" => getting[e].client \in 1..MaxClients

\* Close takes the entries once.
ClosedOnce == ~closed => closing = {}

CacheInv ==
    /\ CacheTypeOK /\ ClosedIsEmpty /\ Bounded
    /\ PlacesDisjoint /\ OpenIsHeld /\ FlightsAlone /\ ClosedOnce

USE CacheAssumption

-----------------------------------------------------------------------------
LEMMA FlightsAreFlights ==
    ASSUME NEW s \in {"lookup", "miss", "install", "hit"}, NEW t \in 0..MaxTime,
           NEW c \in 1..MaxClients \cup {NoClient}, NEW D \in SUBSET (1..MaxClients)
    PROVE  /\ Flight(s, t, c, D) \in Flights
           /\ Flight(s, t, c, D) # NoClient
           /\ Flight(s, t, c, D).stage = s /\ Flight(s, t, c, D).client = c
           /\ Flight(s, t, c, D).drop = D
  <1>1. Flight(s, t, c, D) \in Flights
    BY DEF Flight, Flights
  <1>2. Flight(s, t, c, D) # NoClient
    BY <1>1
  <1> QED
    BY <1>1, <1>2 DEF Flight

\* What the end of a flight does to the places, for a flight that installs
\* nothing.
LEMMA FlightReturnsPlaces ==
    ASSUME CacheTypeOK, NEW e \in Endpoints, FlightReturns(e), UNCHANGED <<clients, closing>>
    PROVE  /\ getting' \in [Endpoints -> Flights \cup {NoClient}]
           /\ waiting' \in [Getters -> Endpoints \cup {NoClient}]
           /\ e \notin Flying' /\ \A x \in Flying' : x \in Flying /\ getting'[x] = getting[x]
           /\ \A x \in Endpoints, c \in 1..MaxClients :
                 /\ InCache(x, c)' <=> InCache(x, c)
                 /\ Closing(c)' <=> Closing(c)
                 /\ Dropping(x, c)' <=> Dropping(x, c) /\ x # e
                 /\ Making(x, c)' <=> Making(x, c) /\ x # e
  <1>1. /\ getting' \in [Endpoints -> Flights \cup {NoClient}]
        /\ getting'[e] = NoClient
        /\ \A x \in Endpoints \ {e} : getting'[x] = getting[x]
    BY DEF CacheTypeOK, FlightReturns
  <1>2. waiting' \in [Getters -> Endpoints \cup {NoClient}]
    BY DEF CacheTypeOK, FlightReturns
  <1>3. e \notin Flying' /\ \A x \in Flying' : x \in Flying /\ getting'[x] = getting[x]
    BY <1>1 DEF Flying
  <1> QED
    BY <1>1, <1>2, <1>3 DEF InCache, Closing, Dropping, Making, Installing, Flying, Cached

LEMMA InitInv == CacheInit => CacheInv
  <1> SUFFICES ASSUME CacheInit PROVE CacheInv
    OBVIOUS
  <1>1. Cached = {} /\ Flying = {} /\ Installing = {}
    BY DEF CacheInit, Cached, Flying, Installing
  <1>2. CacheTypeOK
    <2>1. 0 \in 0..MaxClients /\ 0 \in 0..MaxTime
      OBVIOUS
    <2>2. /\ getting \in [Endpoints -> Flights \cup {NoClient}]
          /\ waiting \in [Getters -> Endpoints \cup {NoClient}]
      BY DEF CacheInit
    <2> QED
      BY <1>1, <2>1, <2>2 DEF CacheInit, CacheTypeOK
  <1>3. Bounded
    BY <1>1, FS_EmptySet DEF Bounded
  <1>4. ClosedIsEmpty /\ PlacesDisjoint /\ OpenIsHeld /\ FlightsAlone /\ ClosedOnce
    BY <1>1 DEF CacheInit, ClosedIsEmpty, PlacesDisjoint, OpenIsHeld, FlightsAlone, ClosedOnce,
                InCache, Closing, Dropping, Making
  <1> QED
    BY <1>2, <1>3, <1>4 DEF CacheInv

LEMMA GetInv ==
    ASSUME CacheInv, NEW g \in Getters, NEW e \in Endpoints, Get(g, e)
    PROVE  CacheInv'
  <1> USE DEF CacheInv
  <1>0. /\ UNCHANGED <<clients, closed, closing, open, constructed, clock>>
        /\ Cached' = Cached
    BY DEF Get, Cached
  <1>1. waiting' \in [Getters -> Endpoints \cup {NoClient}]
    BY DEF Get, CacheTypeOK
  <1>2. CASE getting' = getting
    <2>1. Flying' = Flying /\ Installing' = Installing
      BY <1>2 DEF Flying, Installing
    <2> QED
      BY <1>0, <1>1, <1>2, <2>1 DEF CacheTypeOK, ClosedIsEmpty, Bounded, PlacesDisjoint,
          OpenIsHeld, FlightsAlone, ClosedOnce, InCache, Closing, Dropping, Making
  <1>3. CASE /\ getting[e] = NoClient
             /\ getting' = [getting EXCEPT ![e] = Flight("lookup", clock, NoClient, {})]
    <2>0. /\ getting' \in [Endpoints -> Flights \cup {NoClient}]
          /\ \A x \in Endpoints \ {e} : getting'[x] = getting[x]
          /\ getting'[e].stage = "lookup" /\ getting'[e].drop = {}
      <3>1. clock \in 0..MaxTime /\ {} \in SUBSET (1..MaxClients)
        BY DEF CacheTypeOK
      <3>2. /\ Flight("lookup", clock, NoClient, {}) \in Flights
            /\ Flight("lookup", clock, NoClient, {}).stage = "lookup"
            /\ Flight("lookup", clock, NoClient, {}).drop = {}
        BY <3>1 DEF Flight, Flights
      <3> QED
        BY <1>3, <3>2 DEF CacheTypeOK
    <2>1. \A x \in Endpoints, c \in 1..MaxClients :
             /\ InCache(x, c)' <=> InCache(x, c)
             /\ Closing(c)' <=> Closing(c)
             /\ Dropping(x, c)' <=> Dropping(x, c)
             /\ Making(x, c)' <=> Making(x, c)
      BY <1>0, <1>3, <2>0 DEF InCache, Closing, Dropping, Making, Installing, Flying
    <2>2. CacheTypeOK'
      BY <1>0, <1>1, <2>0 DEF CacheTypeOK
    <2>3. (PlacesDisjoint /\ OpenIsHeld)'
      BY <1>0, <2>1 DEF PlacesDisjoint, OpenIsHeld
    <2>4. FlightsAlone'
      BY <1>0, <2>0 DEF FlightsAlone, Flying
    <2>5. (ClosedIsEmpty /\ Bounded /\ ClosedOnce)'
      BY <1>0 DEF ClosedIsEmpty, Bounded, ClosedOnce
    <2> QED
      BY <2>2, <2>3, <2>4, <2>5
  <1> QED
    BY <1>2, <1>3 DEF Get

\* A lookup moves what it evicts from the cache into its flight.
LEMMA LookupInv ==
    ASSUME CacheInv, NEW e \in Endpoints, Lookup(e)
    PROVE  CacheInv'
  <1> USE DEF CacheInv
  <1> DEFINE now == getting[e].now
             evicted == evictExpiredLocked(now)
             kept == Without(evicted)
  <1>0. /\ e \in Flying /\ getting[e].stage = "lookup" /\ getting[e].drop = {}
        /\ now \in 0..MaxTime
        /\ UNCHANGED <<closed, closing, open, constructed, clock>>
    BY DEF Lookup, Flying, FlightsAlone, CacheTypeOK, Flights
  <1>1. CASE closed
    <2>1. FlightReturns(e) /\ UNCHANGED clients
      BY <1>1 DEF Lookup
    <2>2. CacheTypeOK'
      BY <1>0, <2>1, FlightReturnsPlaces DEF CacheTypeOK, Cached
    <2>3. (PlacesDisjoint /\ OpenIsHeld)'
      <3>1. \A c \in 1..MaxClients : ~Dropping(e, c) /\ ~Making(e, c)
        BY <1>0 DEF Dropping, Making, Installing
      <3> QED
        BY <1>0, <2>1, <3>1, FlightReturnsPlaces DEF PlacesDisjoint, OpenIsHeld
    <2>4. FlightsAlone'
      <3>1. Cached' = Cached /\ \A x \in Flying' : x \in Flying /\ getting'[x] = getting[x]
        BY <1>0, <2>1, FlightReturnsPlaces DEF Cached
      <3> QED
        BY <3>1 DEF FlightsAlone
    <2>5. (ClosedIsEmpty /\ Bounded /\ ClosedOnce)'
      BY <1>0, <2>1 DEF ClosedIsEmpty, Bounded, ClosedOnce, Cached
    <2> QED
      BY <2>2, <2>3, <2>4, <2>5
  <1>2. CASE ~closed
    <2>0. /\ evicted \subseteq Cached /\ DOMAIN kept = Cached \ evicted
          /\ \A x \in Cached \ evicted : kept[x] = clients[x]
          /\ ClientsOf(evicted) \in SUBSET (1..MaxClients)
      BY DEF evictExpiredLocked, Without, ClientsOf, CacheTypeOK
    <2>1. /\ Cached' = Cached \ evicted
          /\ \A x \in Cached' : /\ clients'[x].client = clients[x].client
                                /\ clients'[x] \in [client: 1..MaxClients, lastUsed: 0..MaxTime]
      <3>1. CASE e \in DOMAIN kept /\ clients' = [kept EXCEPT ![e].lastUsed = now]
        BY <1>0, <2>0, <3>1 DEF Cached, CacheTypeOK, Without
      <3>2. CASE clients' = kept
        BY <2>0, <3>2 DEF Cached, CacheTypeOK
      <3> QED
        BY <1>2, <3>1, <3>2 DEF Lookup
    <2>2. PICK s \in {"hit", "miss"}, c \in 1..MaxClients \cup {NoClient} :
             /\ getting' = [getting EXCEPT ![e] = Flight(s, now, c, ClientsOf(evicted))]
             /\ s = "miss" => e \notin Cached'
      <3>1. CASE e \in DOMAIN kept
        <4>1. kept[e].client \in 1..MaxClients
          BY <2>0, <3>1 DEF CacheTypeOK
        <4> QED
          BY <1>2, <3>1, <4>1 DEF Lookup
      <3>2. CASE e \notin DOMAIN kept
        BY <1>2, <2>0, <2>1, <3>2 DEF Lookup
      <3> QED
        BY <3>1, <3>2
    <2>3. /\ getting' \in [Endpoints -> Flights \cup {NoClient}]
          /\ \A x \in Endpoints \ {e} : getting'[x] = getting[x]
          /\ getting'[e].stage = s /\ getting'[e].drop = ClientsOf(evicted) /\ e \in Flying'
      BY <1>0, <2>0, <2>2, FlightsAreFlights DEF CacheTypeOK, Flying
    <2>4. waiting' = waiting
      BY <1>2 DEF Lookup
    <2>5. \A x \in Endpoints, d \in 1..MaxClients :
             /\ InCache(x, d)' <=> InCache(x, d) /\ x \notin evicted
             /\ Closing(d)' <=> Closing(d)
             /\ Making(x, d)' <=> Making(x, d)
             /\ Dropping(x, d)' <=> \/ Dropping(x, d)
                                    \/ x = e /\ \E y \in evicted : InCache(y, d)
      <3>1. \A x \in Endpoints, d \in 1..MaxClients :
                /\ InCache(x, d)' <=> InCache(x, d) /\ x \notin evicted
                /\ Closing(d)' <=> Closing(d)
        BY <1>0, <2>0, <2>1 DEF InCache, Closing
      <3>2. \A x \in Endpoints, d \in 1..MaxClients : Making(x, d)' <=> Making(x, d)
        BY <1>0, <2>3 DEF Making, Installing, Flying
      <3>3. \A x \in Endpoints \ {e}, d \in 1..MaxClients : Dropping(x, d)' <=> Dropping(x, d)
        BY <2>3 DEF Dropping, Flying
      <3>4. \A d \in 1..MaxClients : d \in ClientsOf(evicted) <=> \E y \in evicted : InCache(y, d)
        BY <2>0 DEF ClientsOf, InCache
      <3>5. \A d \in 1..MaxClients : Dropping(e, d)' <=> \E y \in evicted : InCache(y, d)
        BY <2>3, <3>4 DEF Dropping
      <3>6. \A d \in 1..MaxClients : ~Dropping(e, d)
        BY <1>0 DEF Dropping
      <3> QED
        BY <3>1, <3>2, <3>3, <3>5, <3>6
    <2>6. evicted \subseteq Endpoints
      BY <2>0 DEF CacheTypeOK
    <2>7. CacheTypeOK'
      BY <1>0, <2>1, <2>3, <2>4 DEF CacheTypeOK
    <2>8. (PlacesDisjoint /\ OpenIsHeld)'
      <3> HIDE DEF evicted
      <3>1. PlacesDisjoint'
        BY <2>5, <2>6 DEF PlacesDisjoint
      <3>2. OpenIsHeld'
        BY <1>0, <2>5, <2>6 DEF OpenIsHeld
      <3> QED
        BY <3>1, <3>2
    <2>9. FlightsAlone'
      BY <2>1, <2>2, <2>3 DEF FlightsAlone, Flying
    <2>10. Bounded'
      <3>1. IsFiniteSet(Cached) /\ Cached' \in SUBSET Cached
        BY <2>1, FS_Subset DEF CacheTypeOK
      <3>2. /\ Cardinality(Cached') <= Cardinality(Cached)
            /\ Cardinality(Cached') \in Nat /\ Cardinality(Cached) \in Nat
        BY <3>1, FS_Subset, FS_CardinalityType
      <3> QED
        BY <3>2 DEF Bounded
    <2>11. (ClosedIsEmpty /\ ClosedOnce)'
      BY <1>0, <1>2 DEF ClosedIsEmpty, ClosedOnce
    <2> QED
      BY <2>7, <2>8, <2>9, <2>10, <2>11
  <1> QED
    BY <1>1, <1>2

\* A construction: what was evicted is closed, and the new client has the
\* flight that made it.
LEMMA NewClientInv ==
    ASSUME CacheInv, NEW e \in Endpoints, NewClient(e)
    PROVE  CacheInv'
  <1> USE DEF CacheInv
  <1>0. /\ e \in Flying /\ getting[e].stage = "miss" /\ e \notin Cached
        /\ getting[e].now \in 0..MaxTime
        /\ UNCHANGED <<clients, closed, closing, clock>> /\ Cached' = Cached
    BY DEF NewClient, Flying, FlightsAlone, CacheTypeOK, Flights, Cached
  <1>1. \A c \in 1..MaxClients : /\ ~Making(e, c)
                                 /\ Dropping(e, c) <=> c \in getting[e].drop
    BY <1>0 DEF Making, Dropping, Installing
  <1>2. (ClosedIsEmpty /\ Bounded /\ ClosedOnce)'
    BY <1>0 DEF ClosedIsEmpty, Bounded, ClosedOnce
  <1>3. CASE /\ FlightReturns(e) /\ open' = open \ getting[e].drop
             /\ UNCHANGED constructed
    <2>1. CacheTypeOK'
      BY <1>0, <1>3, FlightReturnsPlaces DEF CacheTypeOK
    <2>2. (PlacesDisjoint /\ OpenIsHeld)'
      <3>1. PlacesDisjoint'
        BY <1>0, <1>3, FlightReturnsPlaces DEF PlacesDisjoint
      <3>2. \A x \in Endpoints, c \in 1..MaxClients :
               /\ InCache(x, c)' <=> InCache(x, c)
               /\ Closing(c)' <=> Closing(c)
               /\ Dropping(x, c)' <=> Dropping(x, c) /\ x # e
               /\ Making(x, c)' <=> Making(x, c)
        BY <1>0, <1>1, <1>3, FlightReturnsPlaces
      <3>3. \A c \in 1..MaxClients : c \in open' <=> c \in open /\ ~Dropping(e, c)
        BY <1>1, <1>3
      <3>4. OpenIsHeld'
        BY <3>2, <3>3 DEF OpenIsHeld, PlacesDisjoint
      <3> QED
        BY <3>1, <3>4
    <2>3. FlightsAlone'
      <3>1. \A x \in Flying' : x \in Flying /\ getting'[x] = getting[x]
        BY <1>0, <1>3, FlightReturnsPlaces
      <3> QED
        BY <1>0, <3>1 DEF FlightsAlone
    <2> QED
      BY <1>2, <2>1, <2>2, <2>3
  <1>4. CASE /\ constructed < MaxClients
             /\ constructed' = constructed + 1
             /\ open' = (open \ getting[e].drop) \cup {constructed + 1}
             /\ getting' = [getting EXCEPT ![e] =
                              Flight("install", getting[e].now, constructed + 1, {})]
             /\ UNCHANGED waiting
    <2> DEFINE new == constructed + 1
    <2>1. new \in 1..MaxClients /\ new \notin open /\ open \subseteq 1..constructed
      BY <1>4 DEF CacheTypeOK
    <2>2. /\ getting' \in [Endpoints -> Flights \cup {NoClient}]
          /\ \A x \in Endpoints \ {e} : getting'[x] = getting[x]
          /\ getting'[e].stage = "install" /\ getting'[e].drop = {} /\ getting'[e].client = new
          /\ getting'[e] # NoClient
      <3>1. /\ Flight("install", getting[e].now, new, {}) \in Flights
            /\ Flight("install", getting[e].now, new, {}).stage = "install"
            /\ Flight("install", getting[e].now, new, {}).drop = {}
            /\ Flight("install", getting[e].now, new, {}).client = new
        BY <1>0, <2>1 DEF Flight, Flights
      <3> QED
        BY <1>4, <3>1 DEF CacheTypeOK
    <2>3. \A x \in Endpoints, c \in 1..MaxClients :
             /\ InCache(x, c)' <=> InCache(x, c)
             /\ Closing(c)' <=> Closing(c)
             /\ Dropping(x, c)' <=> Dropping(x, c) /\ x # e
             /\ Making(x, c)' <=> Making(x, c) \/ (x = e /\ c = new)
      <3>1. \A x \in Endpoints, c \in 1..MaxClients :
                /\ InCache(x, c)' <=> InCache(x, c)
                /\ Closing(c)' <=> Closing(c)
        BY <1>0 DEF InCache, Closing
      <3>2. \A x \in Endpoints \ {e}, c \in 1..MaxClients :
                /\ Dropping(x, c)' <=> Dropping(x, c)
                /\ Making(x, c)' <=> Making(x, c)
        BY <2>2 DEF Dropping, Making, Installing, Flying
      <3>3. \A c \in 1..MaxClients : ~Dropping(e, c)' /\ (Making(e, c)' <=> c = new)
        BY <2>2 DEF Dropping, Making, Installing, Flying
      <3> QED
        BY <1>1, <3>1, <3>2, <3>3
    <2>4. CacheTypeOK'
      <3>1. constructed' \in 0..MaxClients /\ open' \subseteq 1..constructed'
        <4>1. /\ constructed \in Nat /\ MaxClients \in Nat
              /\ constructed' = constructed + 1 /\ constructed < MaxClients
          BY <1>4 DEF CacheTypeOK
        <4>2. \A c \in open' : c \in 1..constructed \/ c = constructed + 1
          BY <1>4, <2>1
        <4> QED
          BY <4>1, <4>2
      <3>2. \A x \in Cached' : clients'[x] \in [client: 1..MaxClients, lastUsed: 0..MaxTime]
        BY <1>0 DEF CacheTypeOK
      <3> QED
        BY <1>0, <1>4, <2>2, <3>1, <3>2 DEF CacheTypeOK
    <2>5. /\ \A c \in 1..MaxClients :
                c \in open' <=> (c \in open /\ ~Dropping(e, c)) \/ c = new
          /\ \A x \in Endpoints : ~InCache(x, new) /\ ~Dropping(x, new) /\ ~Making(x, new)
          /\ ~Closing(new)
      BY <1>1, <1>4, <2>1 DEF OpenIsHeld
    <2>6. PlacesDisjoint'
      <3> HIDE DEF new
      <3> QED
        BY <2>3, <2>5 DEF PlacesDisjoint
    <2>7. OpenIsHeld'
      <3> HIDE DEF new
      <3> QED
        BY <2>3, <2>5 DEF OpenIsHeld, PlacesDisjoint
    <2>8. FlightsAlone'
      BY <1>0, <2>1, <2>2 DEF FlightsAlone, Flying
    <2> QED
      BY <1>2, <2>4, <2>6, <2>7, <2>8
  <1> QED
    BY <1>3, <1>4 DEF NewClient

\* An installation: the client goes from the flight that made it into the
\* cache, in the place of the least recently used one if the cache is full.
LEMMA InstallInv ==
    ASSUME CacheInv, NEW e \in Endpoints, Install(e)
    PROVE  CacheInv'
  <1> USE DEF CacheInv
  <1> DEFINE new == getting[e].client
  <1>0. /\ e \in Flying /\ getting[e].stage = "install" /\ e \notin Cached
        /\ getting[e].drop = {} /\ new \in 1..MaxClients
        /\ getting[e].now \in 0..MaxTime
        /\ UNCHANGED <<closed, closing, constructed, clock>>
    BY DEF Install, Flying, FlightsAlone, CacheTypeOK, Flights
  <1>1. \A c \in 1..MaxClients : /\ Making(e, c) <=> c = new
                                 /\ ~Dropping(e, c) /\ ~InCache(e, c)
    BY <1>0 DEF Making, Dropping, Installing, InCache
  <1>2. CASE closed
    <2>0. FlightReturns(e) /\ open' = open \ {new} /\ UNCHANGED clients /\ Cached' = Cached
      BY <1>2 DEF Install, Cached
    <2>1. CacheTypeOK'
      BY <1>0, <2>0, FlightReturnsPlaces DEF CacheTypeOK
    <2>2. PlacesDisjoint'
      BY <1>0, <2>0, FlightReturnsPlaces DEF PlacesDisjoint
    <2>3. OpenIsHeld'
      <3>1. \A x \in Endpoints, c \in 1..MaxClients :
               /\ InCache(x, c)' <=> InCache(x, c)
               /\ Closing(c)' <=> Closing(c)
               /\ Dropping(x, c)' <=> Dropping(x, c)
               /\ Making(x, c)' <=> Making(x, c) /\ x # e
        BY <1>0, <1>1, <2>0, FlightReturnsPlaces
      <3>2. \A c \in 1..MaxClients : c \in open' <=> c \in open /\ ~Making(e, c)
        BY <1>1, <2>0
      <3> QED
        BY <3>1, <3>2 DEF OpenIsHeld, PlacesDisjoint
    <2>4. FlightsAlone'
      <3>1. \A x \in Flying' : x \in Flying /\ getting'[x] = getting[x]
        BY <1>0, <2>0, FlightReturnsPlaces
      <3> QED
        BY <2>0, <3>1 DEF FlightsAlone
    <2>5. (ClosedIsEmpty /\ Bounded /\ ClosedOnce)'
      BY <1>0, <2>0 DEF ClosedIsEmpty, Bounded, ClosedOnce
    <2> QED
      BY <2>1, <2>2, <2>3, <2>4, <2>5
  <1>3. CASE ~closed
    <2>0. PICK E \in evictLRULocked :
             /\ clients' = [x \in (Cached \ E) \cup {e} |->
                              IF x = e THEN Entry(new, clock) ELSE clients[x]]
             /\ getting' = [getting EXCEPT ![e] =
                              Flight("hit", getting[e].now, new, ClientsOf(E))]
             /\ UNCHANGED <<waiting, open>>
      BY <1>3 DEF Install
    <2>1. E \subseteq Cached /\ e \notin E /\ E \subseteq Endpoints
      BY <1>0 DEF evictLRULocked, CacheTypeOK
    <2>2. /\ Cached' = (Cached \ E) \cup {e}
          /\ clients'[e] = [client |-> new, lastUsed |-> clock]
          /\ \A x \in Cached \ E : clients'[x] = clients[x]
      BY <1>0, <2>0 DEF Cached, Entry
    <2>3. ClientsOf(E) \in SUBSET (1..MaxClients)
      BY <2>1 DEF ClientsOf, CacheTypeOK
    <2>4. /\ getting' \in [Endpoints -> Flights \cup {NoClient}]
          /\ \A x \in Endpoints \ {e} : getting'[x] = getting[x]
          /\ getting'[e].stage = "hit" /\ getting'[e].drop = ClientsOf(E)
          /\ getting'[e] # NoClient
      <3>1. /\ Flight("hit", getting[e].now, new, ClientsOf(E)) \in Flights
            /\ Flight("hit", getting[e].now, new, ClientsOf(E)).stage = "hit"
            /\ Flight("hit", getting[e].now, new, ClientsOf(E)).drop = ClientsOf(E)
        BY <1>0, <2>3 DEF Flight, Flights
      <3> QED
        BY <2>0, <3>1 DEF CacheTypeOK
    <2>5. \A x \in Endpoints, c \in 1..MaxClients :
             /\ InCache(x, c)' <=> (x = e /\ c = new) \/ (InCache(x, c) /\ x \notin E)
             /\ Closing(c)' <=> Closing(c)
             /\ Dropping(x, c)' <=> \/ Dropping(x, c)
                                    \/ x = e /\ \E y \in E : InCache(y, c)
             /\ Making(x, c)' <=> Making(x, c) /\ x # e
      <3>1. \A x \in Endpoints, c \in 1..MaxClients :
                /\ InCache(x, c)' <=> (x = e /\ c = new) \/ (InCache(x, c) /\ x \notin E)
                /\ Closing(c)' <=> Closing(c)
        BY <1>0, <2>1, <2>2 DEF InCache, Closing
      <3>2. \A x \in Endpoints \ {e}, c \in 1..MaxClients :
                /\ Dropping(x, c)' <=> Dropping(x, c)
                /\ Making(x, c)' <=> Making(x, c)
        BY <2>4 DEF Dropping, Making, Installing, Flying
      <3>3. \A c \in 1..MaxClients : c \in ClientsOf(E) <=> \E y \in E : InCache(y, c)
        BY <2>1 DEF ClientsOf, InCache
      <3>4. \A c \in 1..MaxClients : /\ ~Making(e, c)'
                                     /\ Dropping(e, c)' <=> c \in ClientsOf(E)
        BY <2>4 DEF Dropping, Making, Installing, Flying
      <3> QED
        BY <1>1, <3>1, <3>2, <3>3, <3>4
    <2>6. CacheTypeOK'
      <3>1. \A x \in Cached' : clients'[x] \in [client: 1..MaxClients, lastUsed: 0..MaxTime]
        BY <1>0, <2>2 DEF CacheTypeOK
      <3> QED
        BY <1>0, <2>0, <2>1, <2>2, <2>4, <3>1 DEF CacheTypeOK
    <2>7. PlacesDisjoint'
      <3> HIDE DEF new
      <3> QED
        BY <1>1, <2>1, <2>5 DEF PlacesDisjoint
    <2>8. OpenIsHeld'
      <3> HIDE DEF new
      <3>1. \A c \in 1..MaxClients : c \in open' <=> c \in open
        BY <2>0
      <3> QED
        BY <1>1, <2>1, <2>5, <3>1 DEF OpenIsHeld
    <2>9. FlightsAlone'
      <3>1. \A x \in Flying' : x # e => x \in Flying /\ getting'[x] = getting[x]
        BY <2>4 DEF Flying
      <3> QED
        BY <2>2, <2>4, <3>1 DEF FlightsAlone
    <2>10. Bounded'
      <3>0. IsFiniteSet(Cached) /\ Cardinality(Cached) \in Nat
        BY FS_Subset, FS_CardinalityType DEF CacheTypeOK
      <3>1. CASE E = {}
        <4>1. Cardinality(Cached) < maxEntries
          BY <3>1 DEF evictLRULocked
        <4>2. Cardinality(Cached') = Cardinality(Cached) + 1
          BY ZenonT(60), <1>0, <2>2, <3>0, <3>1, FS_AddElement
        <4> QED
          BY <3>0, <4>1, <4>2 DEF Bounded
      <3>2. CASE E # {}
        <4>1. PICK x \in Cached : E = {x}
          BY <3>2 DEF evictLRULocked
        <4>2. /\ IsFiniteSet(Cached \ {x})
              /\ Cardinality(Cached \ {x}) = Cardinality(Cached) - 1
          BY <3>0, <4>1, FS_RemoveElement
        <4>3. Cached' = (Cached \ {x}) \cup {e} /\ e \notin Cached \ {x}
          BY <1>0, <2>2, <4>1
        <4>4. Cardinality((Cached \ {x}) \cup {e}) = Cardinality(Cached \ {x}) + 1
          BY <4>2, <4>3, FS_AddElement
        <4>5. Cardinality(Cached') = Cardinality(Cached)
          BY <3>0, <4>2, <4>3, <4>4
        <4> QED
          BY <4>5 DEF Bounded
      <3> QED
        BY <3>1, <3>2
    <2>11. (ClosedIsEmpty /\ ClosedOnce)'
      BY <1>0, <1>3 DEF ClosedIsEmpty, ClosedOnce
    <2> QED
      BY <2>6, <2>7, <2>8, <2>9, <2>10, <2>11
  <1> QED
    BY <1>2, <1>3

\* A hit: the flight closes what it took out and is over.
LEMMA HitInv ==
    ASSUME CacheInv, NEW e \in Endpoints, Hit(e)
    PROVE  CacheInv'
  <1> USE DEF CacheInv
  <1>0. /\ e \in Flying /\ getting[e].stage = "hit" /\ FlightReturns(e)
        /\ open' = open \ getting[e].drop
        /\ UNCHANGED <<clients, closed, closing, constructed, clock>> /\ Cached' = Cached
    BY DEF Hit, Flying, Cached
  <1>1. \A c \in 1..MaxClients : ~Making(e, c) /\ (Dropping(e, c) <=> c \in getting[e].drop)
    BY <1>0 DEF Making, Dropping, Installing
  <1>2. CacheTypeOK'
    BY <1>0, FlightReturnsPlaces DEF CacheTypeOK
  <1>3. PlacesDisjoint'
    BY <1>0, FlightReturnsPlaces DEF PlacesDisjoint
  <1>4. OpenIsHeld'
    <2>1. \A x \in Endpoints, c \in 1..MaxClients :
             /\ InCache(x, c)' <=> InCache(x, c)
             /\ Closing(c)' <=> Closing(c)
             /\ Dropping(x, c)' <=> Dropping(x, c) /\ x # e
             /\ Making(x, c)' <=> Making(x, c)
      BY <1>0, <1>1, FlightReturnsPlaces
    <2>2. \A c \in 1..MaxClients : c \in open' <=> c \in open /\ ~Dropping(e, c)
      BY <1>0, <1>1
    <2> QED
      BY <2>1, <2>2 DEF OpenIsHeld, PlacesDisjoint
  <1>5. FlightsAlone'
    <2>1. \A x \in Flying' : x \in Flying /\ getting'[x] = getting[x]
      BY <1>0, FlightReturnsPlaces
    <2> QED
      BY <1>0, <2>1 DEF FlightsAlone
  <1>6. (ClosedIsEmpty /\ Bounded /\ ClosedOnce)'
    BY <1>0 DEF ClosedIsEmpty, Bounded, ClosedOnce
  <1> QED
    BY <1>2, <1>3, <1>4, <1>5, <1>6

\* Close moves the cached clients to those it has to close.
LEMMA CloseInv ==
    ASSUME CacheInv, Close
    PROVE  CacheInv'
  <1> USE DEF CacheInv
  <1>0. /\ closed' = TRUE /\ Cached' = {} /\ closing = {}
        /\ UNCHANGED <<getting, waiting, open, constructed, clock>>
        /\ Flying' = Flying /\ Installing' = Installing
    BY DEF Close, Cached, ClosedOnce, Flying, Installing
  <1>1. \A c \in 1..MaxClients :
           /\ Closing(c)' <=> \E y \in Endpoints : InCache(y, c)
           /\ ~Closing(c)
           /\ \A x \in Endpoints : /\ ~InCache(x, c)'
                                   /\ Dropping(x, c)' <=> Dropping(x, c)
                                   /\ Making(x, c)' <=> Making(x, c)
    BY <1>0 DEF Close, ClientsOf, CacheTypeOK, InCache, Closing, Dropping, Making
  <1>2. CacheTypeOK'
    <2>1. closing' \subseteq 1..MaxClients
      BY DEF Close, ClientsOf, CacheTypeOK
    <2> QED
      BY <1>0, <2>1 DEF CacheTypeOK
  <1>3. PlacesDisjoint'
    BY <1>1 DEF PlacesDisjoint
  <1>4. OpenIsHeld'
    BY <1>0, <1>1 DEF OpenIsHeld
  <1>5. (FlightsAlone /\ ClosedIsEmpty /\ ClosedOnce)'
    BY <1>0 DEF FlightsAlone, ClosedIsEmpty, ClosedOnce
  <1>6. Bounded'
    BY <1>0, FS_EmptySet DEF Bounded
  <1> QED
    BY <1>2, <1>3, <1>4, <1>5, <1>6

LEMMA CloseClientsInv ==
    ASSUME CacheInv, CloseClients
    PROVE  CacheInv'
  <1> USE DEF CacheInv
  <1>0. /\ open' = open \ closing /\ closing' = {}
        /\ UNCHANGED <<clients, closed, getting, waiting, constructed, clock>>
        /\ Cached' = Cached /\ Flying' = Flying /\ Installing' = Installing
    BY DEF CloseClients, Cached, Flying, Installing
  <1>1. \A c \in 1..MaxClients :
           /\ ~Closing(c)'
           /\ \A x \in Endpoints : /\ InCache(x, c)' <=> InCache(x, c)
                                   /\ Dropping(x, c)' <=> Dropping(x, c)
                                   /\ Making(x, c)' <=> Making(x, c)
    BY <1>0 DEF InCache, Closing, Dropping, Making
  <1>2. \A c \in 1..MaxClients : c \in open' <=> c \in open /\ ~Closing(c)
    BY <1>0 DEF Closing
  <1>3. CacheTypeOK'
    BY <1>0 DEF CacheTypeOK
  <1>4. PlacesDisjoint'
    BY <1>1 DEF PlacesDisjoint
  <1>5. OpenIsHeld'
    BY <1>1, <1>2 DEF OpenIsHeld, PlacesDisjoint
  <1>6. (FlightsAlone /\ ClosedIsEmpty /\ ClosedOnce /\ Bounded)'
    BY <1>0 DEF FlightsAlone, ClosedIsEmpty, ClosedOnce, Bounded
  <1> QED
    BY <1>3, <1>4, <1>5, <1>6

\* The clock alone moves, or nothing does.
LEMMA ClockInv ==
    ASSUME CacheInv, UNCHANGED <<clients, closed, closing, getting, waiting, open, constructed>>,
           clock' \in 0..MaxTime
    PROVE  CacheInv'
  BY DEF CacheInv, CacheTypeOK, ClosedIsEmpty, Bounded, PlacesDisjoint, OpenIsHeld, FlightsAlone,
         ClosedOnce, InCache, Closing, Dropping, Making, Cached, Flying, Installing

LEMMA CacheNextInv ==
    ASSUME CacheInv, [CacheNext]_cacheVars
    PROVE  CacheInv'
  <1>1. CASE \E g \in Getters, e \in Endpoints : Get(g, e)
    BY <1>1, GetInv
  <1>2. CASE \E e \in Endpoints : Lookup(e)
    BY <1>2, LookupInv
  <1>3. CASE \E e \in Endpoints : NewClient(e)
    BY <1>3, NewClientInv
  <1>4. CASE \E e \in Endpoints : Install(e)
    BY <1>4, InstallInv
  <1>5. CASE \E e \in Endpoints : Hit(e)
    BY <1>5, HitInv
  <1>6. CASE Close
    BY <1>6, CloseInv
  <1>7. CASE CloseClients
    BY <1>7, CloseClientsInv
  <1>8. CASE CacheTick
    <2>1. clock' \in 0..MaxTime
      BY <1>8 DEF CacheTick, CacheInv, CacheTypeOK
    <2> QED
      BY <1>8, <2>1, ClockInv DEF CacheTick
  <1>9. CASE UNCHANGED cacheVars
    <2>1. clock' \in 0..MaxTime
      BY <1>9 DEF cacheVars, CacheInv, CacheTypeOK
    <2> QED
      BY <1>9, <2>1, ClockInv DEF cacheVars
  <1> QED
    BY <1>1, <1>2, <1>3, <1>4, <1>5, <1>6, <1>7, <1>8, <1>9 DEF CacheNext

\* A client is in at most one of the cache, the flights and Close's hands, and
\* the open ones are those that are somewhere: the inductive invariant of
\* EndpointCache's critical sections and of the constructions in between.
THEOREM CacheInvariant == CacheSpec => []CacheInv
  BY InitInv, CacheNextInv, PTL DEF CacheSpec

-----------------------------------------------------------------------------
LEMMA PlacesGiveOwners ==
    ASSUME CacheInv
    PROVE  OneOwner
  <1> USE DEF CacheInv
  <1> SUFFICES ASSUME NEW c \in 1..constructed
               PROVE  Cardinality(Owners(c)) = IF c \in open THEN 1 ELSE 0
    BY DEF OneOwner
  <1>0. c \in 1..MaxClients /\ Cached \subseteq Endpoints
    BY DEF CacheTypeOK
  <1>1. \A o \in Owners(c) :
           \/ \E e \in Endpoints : InCache(e, c) /\ o = <<"cache", e>>
           \/ Closing(c) /\ o = <<"close", NoClient>>
           \/ \E e \in Endpoints : Dropping(e, c) /\ o = <<"drop", e>>
           \/ \E e \in Endpoints : Making(e, c) /\ o = <<"made", e>>
    BY <1>0 DEF Owners, InCache, Closing, Dropping, Making, Flying, Installing
  <1>2. \A e \in Endpoints : /\ InCache(e, c) => <<"cache", e>> \in Owners(c)
                             /\ Dropping(e, c) => <<"drop", e>> \in Owners(c)
                             /\ Making(e, c) => <<"made", e>> \in Owners(c)
    BY DEF Owners, InCache, Dropping, Making
  <1>3. Closing(c) => <<"close", NoClient>> \in Owners(c)
    BY DEF Owners, Closing
  <1>4. CASE c \notin open
    <2>1. Owners(c) = {}
      BY <1>0, <1>1, <1>4 DEF OpenIsHeld
    <2> QED
      BY <1>4, <2>1, FS_EmptySet
  <1>5. CASE c \in open
    <2>1. PICK o : o \in Owners(c)
      BY <1>0, <1>2, <1>3, <1>5 DEF OpenIsHeld
    <2>2. \A p \in Owners(c) : p = o
      BY <1>0, <1>1, <2>1 DEF PlacesDisjoint
    <2>3. Owners(c) = {o}
      BY <2>1, <2>2
    <2> QED
      BY <1>5, <2>3, FS_Singleton
  <1> QED
    BY <1>4, <1>5

\* In every interleaving of Gets, constructions, evictions and Close, each open
\* Docker client of the worker has exactly one place that will close it, a
\* closed cache stays empty and the cache never exceeds maxEntries.
THEOREM ClientsAreOwned == CacheSpec => []ClientsOwned
  <1>1. CacheInv => ClientsOwned
    BY PlacesGiveOwners DEF ClientsOwned, CacheInv
  <1> QED
    BY <1>1, CacheInvariant, PTL

-----------------------------------------------------------------------------
(* ImagePull: the pulls of an image.                                     *)

\* A key that exists has time left.
LockLives == lock.token # NoTask => lock.left > 0

\* While Redis keeps its keys a task that looks again or builds owns the lock,
\* with time enough for its next renewal.
LockHeld ==
    losses = 0 =>
        \A t \in Tasks :
            /\ task[t].pc = "recheck" => lock.token = t /\ lock.left > RenewInterval
            /\ task[t].pc = "build" => lock.token = t /\ lock.left > task[t].renew

\* A flight belongs to its process, and its leader builds unless it was
\* canceled.
PullsLed ==
    \A p \in Procs : pulling[p] # NoTask =>
        /\ Proc[pulling[p].leader] = p
        /\ \A m \in pulling[p].members : Proc[m] = p
        /\ ~pulling[p].canceled => task[pulling[p].leader].pc = "build"

PullInv == PullTypeOK /\ LockLives /\ LockHeld /\ PullsLed

Owned(t) ==
    lock.token = t /\ lock'.token # t =>
        \/ task[t].pc # "done" /\ task'[t].pc = "done"
        \/ lock.left = 1
        \/ losses' > losses

USE PullAssumption

-----------------------------------------------------------------------------
LEMMA TimersStartInRange ==
    /\ 0 \in 0..WaitTimeout /\ WaitTimeout \in 0..WaitTimeout
    /\ 0 \in 0..RenewInterval /\ RenewInterval \in 0..RenewInterval
    /\ 0 \in 0..TTL /\ TTL \in 0..TTL /\ 0 \in 0..MaxLosses
  OBVIOUS

LEMMA EndStates ==
    /\ Idle \in TaskStates /\ Idle.pc = "idle"
    /\ \A r \in Results : /\ [Idle EXCEPT !.pc = "done", !.result = r] \in TaskStates
                          /\ [Idle EXCEPT !.pc = "done", !.result = r].pc = "done"
  BY TimersStartInRange DEF Idle, TaskStates

LEMMA PullInitInv == PullInit => PullInv
  <1> SUFFICES ASSUME PullInit PROVE PullInv
    OBVIOUS
  <1>1. PullTypeOK
    BY TimersStartInRange, EndStates DEF PullInit, PullTypeOK, NoLock
  <1>2. LockLives /\ LockHeld /\ PullsLed
    BY DEF PullInit, LockLives, LockHeld, PullsLed, Idle, NoLock
  <1> QED
    BY <1>1, <1>2 DEF PullInv

\* Tasks that return: what becomes of them, of the others and of the lock.
LEMMA TasksReturn ==
    ASSUME PullInv, NEW T \in SUBSET Tasks, NEW r \in Results, TaskReturns(T, r),
           \A t \in T : task[t].pc # "done"
    PROVE  /\ task' \in [Tasks -> TaskStates]
           /\ \A t \in T : task'[t].pc = "done"
           /\ \A t \in Tasks \ T : task'[t] = task[t]
           /\ lock' \in [token: Tasks \cup {NoTask}, left: 0..TTL]
           /\ losses' \in 0..MaxLosses
           /\ LockLives' /\ LockHeld'
           /\ \A t \in Tasks : Owned(t)
  <1> USE DEF PullInv
  <1>1. /\ task' \in [Tasks -> TaskStates]
        /\ \A t \in T : task'[t].pc = "done"
        /\ \A t \in Tasks \ T : task'[t] = task[t]
    BY EndStates DEF TaskReturns, Ended, PullTypeOK
  <1>2. CASE lock' = (IF lock.token \in T THEN NoLock ELSE lock) /\ UNCHANGED losses
    <2>1. /\ lock' \in [token: Tasks \cup {NoTask}, left: 0..TTL]
          /\ losses' \in 0..MaxLosses
      BY <1>2 DEF PullTypeOK, NoLock
    <2>2. LockLives'
      BY <1>2 DEF LockLives, NoLock
    <2>3. LockHeld'
      <3> SUFFICES ASSUME losses = 0, NEW t \in Tasks, task'[t].pc \in {"recheck", "build"}
                   PROVE  /\ lock'.token = t
                          /\ task'[t].pc = "recheck" => lock'.left > RenewInterval
                          /\ task'[t].pc = "build" => lock'.left > task'[t].renew
        BY <1>2 DEF LockHeld
      <3>1. t \notin T /\ task'[t] = task[t]
        BY <1>1
      <3> QED
        BY <1>2, <3>1 DEF LockHeld
    <2>4. \A t \in Tasks : Owned(t)
      BY <1>1, <1>2 DEF Owned
    <2> QED
      BY <1>1, <2>1, <2>2, <2>3, <2>4
  <1>3. CASE Loss /\ UNCHANGED lock
    <2>1. losses' \in 0..MaxLosses /\ losses' # 0
      BY <1>3 DEF Loss, PullTypeOK
    <2> QED
      BY <1>1, <1>3, <2>1 DEF PullTypeOK, LockLives, LockHeld, Owned
  <1> QED
    BY <1>2, <1>3 DEF TaskReturns, Release

\* A step of one task that is not building before and after it, and that
\* leaves the lock alone.
LEMMA TaskMoves ==
    ASSUME PullInv, NEW t \in Tasks, task[t].pc \in {"idle", "check", "acquire"},
           NEW s \in TaskStates, s.pc \in {"check", "acquire", "done"},
           task' = [task EXCEPT ![t] = s],
           UNCHANGED <<present, lock, pulling, losses>>
    PROVE  PullInv' /\ \A x \in Tasks : Owned(x)
  <1> USE DEF PullInv
  <1>1. /\ task' \in [Tasks -> TaskStates] /\ task'[t] = s
        /\ \A x \in Tasks \ {t} : task'[x] = task[x]
    BY DEF PullTypeOK
  <1>2. PullTypeOK' /\ LockLives' /\ \A x \in Tasks : Owned(x)
    BY <1>1 DEF PullTypeOK, LockLives, Owned
  <1>3. LockHeld'
    BY <1>1 DEF LockHeld
  <1>4. PullsLed'
    <2>1. \A p \in Procs : pulling[p] # NoTask => pulling[p].leader \in Tasks
      BY DEF PullTypeOK, Pulls
    <2> QED
      BY <1>1, <2>1 DEF PullsLed
  <1> QED
    BY <1>2, <1>3, <1>4

\* Tasks that are canceled while they build leave their flights canceled.
LEMMA CanceledPulls ==
    ASSUME PullInv, NEW T \in SUBSET Tasks, CancelPulls(T),
           \A t \in Tasks \ T : task'[t] = task[t]
    PROVE  pulling' \in [Procs -> Pulls \cup {NoTask}] /\ PullsLed'
  <1> USE DEF PullInv
  <1>1. ASSUME NEW p \in Procs
        PROVE  /\ pulling'[p] \in Pulls \cup {NoTask}
               /\ pulling'[p] # NoTask =>
                     /\ pulling[p] # NoTask /\ pulling'[p].leader = pulling[p].leader
                     /\ pulling'[p].members = pulling[p].members
                     /\ ~pulling'[p].canceled => /\ ~pulling[p].canceled
                                                 /\ pulling[p].leader \notin T
    <2>1. CASE pulling[p] # NoTask /\ pulling[p].leader \in T
      <3>1. pulling'[p] = [pulling[p] EXCEPT !.canceled = TRUE] /\ pulling[p] \in Pulls
        BY <2>1 DEF CancelPulls, PullTypeOK
      <3>2. pulling'[p] \in Pulls
        BY Zenon, <3>1 DEF Pulls
      <3>3. /\ pulling'[p].canceled /\ pulling'[p].leader = pulling[p].leader
            /\ pulling'[p].members = pulling[p].members
        BY Zenon, <3>1 DEF Pulls
      <3> QED
        BY <2>1, <3>2, <3>3
    <2>2. CASE ~(pulling[p] # NoTask /\ pulling[p].leader \in T)
      <3>1. pulling'[p] = pulling[p] /\ pulling[p] \in Pulls \cup {NoTask}
        BY <2>2 DEF CancelPulls, PullTypeOK
      <3> QED
        BY <2>2, <3>1
    <2> QED
      BY <2>1, <2>2
  <1>2. pulling' \in [Procs -> Pulls \cup {NoTask}]
    BY <1>1 DEF CancelPulls
  <1>3. PullsLed'
    <2>1. \A p \in Procs : pulling[p] # NoTask => pulling[p].leader \in Tasks
      BY DEF PullTypeOK, Pulls
    <2> QED
      BY <1>1, <2>1 DEF PullsLed
  <1> QED
    BY <1>2, <1>3

-----------------------------------------------------------------------------
LEMMA StartInv ==
    ASSUME PullInv, NEW t \in Tasks, Start(t)
    PROVE  PullInv' /\ \A x \in Tasks : Owned(x)
  <1>1. /\ [task[t] EXCEPT !.pc = "check"] \in TaskStates
        /\ [task[t] EXCEPT !.pc = "check"].pc = "check"
    BY DEF PullInv, PullTypeOK, TaskStates
  <1>2. task' = [task EXCEPT ![t] = [task[t] EXCEPT !.pc = "check"]]
    BY DEF Start, PullInv, PullTypeOK
  <1> QED
    BY <1>1, <1>2, TaskMoves DEF Start

LEMMA DoneState ==
    ASSUME PullTypeOK, NEW t \in Tasks, NEW r \in Results, Ended({t}, r)
    PROVE  \E s \in TaskStates : s.pc = "done" /\ task' = [task EXCEPT ![t] = s]
  <1> DEFINE s == [Idle EXCEPT !.pc = "done", !.result = r]
  <1>1. s \in TaskStates /\ s.pc = "done"
    BY EndStates
  <1>2. task' = [task EXCEPT ![t] = s]
    BY DEF Ended, PullTypeOK
  <1> QED
    BY <1>1, <1>2

LEMMA ImageExistsInv ==
    ASSUME PullInv, NEW t \in Tasks, ImageExists(t)
    PROVE  PullInv' /\ \A x \in Tasks : Owned(x)
  <1>1. CASE Ended({t}, "ok")
    BY <1>1, DoneState, TaskMoves DEF ImageExists, PullInv, Results
  <1>2. CASE task' = [task EXCEPT ![t] = [@ EXCEPT !.pc = "acquire", !.wait = WaitTimeout]]
    <2> DEFINE s == [task[t] EXCEPT !.pc = "acquire", !.wait = WaitTimeout]
    <2>0. task[t] \in TaskStates /\ WaitTimeout \in 0..WaitTimeout
      BY TimersStartInRange DEF PullInv, PullTypeOK
    <2>1. s \in TaskStates /\ s.pc = "acquire"
      BY <2>0 DEF TaskStates
    <2>2. task' = [task EXCEPT ![t] = s]
      BY <1>2 DEF PullInv, PullTypeOK
    <2> QED
      BY <2>1, <2>2, TaskMoves DEF ImageExists
  <1> QED
    BY <1>1, <1>2 DEF ImageExists

LEMMA WaitTimesOutInv ==
    ASSUME PullInv, NEW t \in Tasks, WaitTimesOut(t)
    PROVE  PullInv' /\ \A x \in Tasks : Owned(x)
  BY DoneState, TaskMoves DEF WaitTimesOut, PullInv, Results

LEMMA InspectFailsInv ==
    ASSUME PullInv, NEW t \in Tasks, InspectFails(t)
    PROVE  PullInv' /\ \A x \in Tasks : Owned(x)
  <1>1. /\ task[t].pc \in {"check", "recheck"} /\ TaskReturns({t}, "error")
        /\ UNCHANGED <<present, pulling>> /\ "error" \in Results
    BY DEF InspectFails, Results
  <1>2. /\ task' \in [Tasks -> TaskStates] /\ \A x \in Tasks \ {t} : task'[x] = task[x]
        /\ lock' \in [token: Tasks \cup {NoTask}, left: 0..TTL] /\ losses' \in 0..MaxLosses
        /\ LockLives' /\ LockHeld' /\ \A x \in Tasks : Owned(x)
    <2>1. {t} \in SUBSET Tasks /\ \A x \in {t} : task[x].pc # "done"
      BY <1>1
    <2> QED
      BY <1>1, <2>1, TasksReturn
  <1>3. PullsLed'
    <2>1. \A p \in Procs : pulling[p] # NoTask => pulling[p].leader \in Tasks
      BY DEF PullInv, PullTypeOK, Pulls
    <2> QED
      BY <1>1, <1>2, <2>1 DEF PullInv, PullsLed
  <1> QED
    BY <1>1, <1>2, <1>3 DEF PullInv, PullTypeOK

\* An acquisition starts a TTL on a free key, which nobody else can believe to
\* own.
LEMMA AcquireInv ==
    ASSUME RenewInterval < TTL, PullInv, NEW t \in Tasks, Acquire(t)
    PROVE  PullInv' /\ \A x \in Tasks : Owned(x)
  <1> USE DEF PullInv
  <1>1. /\ lock.token = NoTask /\ lock'.token = t /\ lock'.left = TTL
        /\ task[t].pc = "acquire" /\ task'[t] = [task[t] EXCEPT !.pc = "recheck"]
        /\ \A x \in Tasks \ {t} : task'[x] = task[x]
        /\ UNCHANGED <<present, pulling, losses>>
    BY DEF Acquire, NoLock, PullTypeOK
  <1>2. task'[t] \in TaskStates /\ task'[t].pc = "recheck"
    BY <1>1 DEF PullTypeOK, TaskStates
  <1>3. PullTypeOK'
    <2>1. task' \in [Tasks -> TaskStates]
      BY <1>1, <1>2 DEF Acquire, PullTypeOK
    <2>2. lock' \in [token: Tasks \cup {NoTask}, left: 0..TTL]
      BY TimersStartInRange DEF Acquire
    <2> QED
      BY <1>1, <2>1, <2>2 DEF PullTypeOK
  <1>4. LockLives' /\ \A x \in Tasks : Owned(x)
    BY <1>1 DEF LockLives, Owned
  <1>5. LockHeld'
    <2>1. losses = 0 => \A x \in Tasks : task[x].pc \notin {"recheck", "build"}
      BY <1>1 DEF LockHeld
    <2> QED
      BY ZenonT(60), <1>1, <1>2, <2>1 DEF LockHeld
  <1>6. PullsLed'
    <2>1. \A p \in Procs : pulling[p] # NoTask => pulling[p].leader \in Tasks
      BY DEF PullTypeOK, Pulls
    <2> QED
      BY <1>1, <2>1 DEF PullsLed
  <1> QED
    BY <1>3, <1>4, <1>5, <1>6

LEMMA AcquireFailsInv ==
    ASSUME PullInv, NEW t \in Tasks, AcquireFails(t)
    PROVE  PullInv' /\ \A x \in Tasks : Owned(x)
  <1> USE DEF PullInv
  <1>1. /\ task[t].pc = "acquire" /\ "error" \in Results /\ Ended({t}, "error")
        /\ losses' \in 0..MaxLosses /\ losses' > losses /\ losses' # 0
        /\ UNCHANGED <<present, pulling>>
    BY DEF AcquireFails, Loss, Results, PullTypeOK
  <1>2. PICK s \in TaskStates : s.pc = "done" /\ task' = [task EXCEPT ![t] = s]
    BY <1>1, DoneState
  <1>3. /\ lock' \in [token: Tasks \cup {NoTask}, left: 0..TTL]
        /\ LockLives'
    BY TimersStartInRange DEF AcquireFails, PullTypeOK, LockLives
  <1>4. PullTypeOK'
    BY <1>1, <1>2, <1>3 DEF PullTypeOK
  <1>5. LockHeld' /\ \A x \in Tasks : Owned(x)
    BY <1>1 DEF LockHeld, Owned
  <1>6. PullsLed'
    <2>1. \A p \in Procs : pulling[p] # NoTask => pulling[p].leader \in Tasks
      BY DEF PullTypeOK, Pulls
    <2> QED
      BY <1>1, <1>2, <2>1 DEF PullsLed, PullTypeOK
  <1> QED
    BY <1>3, <1>4, <1>5, <1>6

\* The second look: a task that finds the image returns; one that does not
\* builds, with the renewal due before the TTL ends.
LEMMA RecheckInv ==
    ASSUME PullInv, NEW t \in Tasks, Recheck(t)
    PROVE  PullInv' /\ \A x \in Tasks : Owned(x)
  <1> USE DEF PullInv
  <1>0. /\ task[t].pc = "recheck" /\ UNCHANGED present /\ "ok" \in Results
        /\ {t} \in SUBSET Tasks /\ \A x \in {t} : task[x].pc # "done"
        /\ \A p \in Procs : pulling[p] # NoTask => pulling[p].leader \in Tasks
    BY DEF Recheck, Results, PullTypeOK, Pulls
  <1>1. CASE TaskReturns({t}, "ok") /\ UNCHANGED pulling
    <2>1. /\ task' \in [Tasks -> TaskStates] /\ \A x \in Tasks \ {t} : task'[x] = task[x]
          /\ lock' \in [token: Tasks \cup {NoTask}, left: 0..TTL] /\ losses' \in 0..MaxLosses
          /\ LockLives' /\ LockHeld' /\ \A x \in Tasks : Owned(x)
      BY <1>0, <1>1, TasksReturn
    <2>2. PullsLed'
      BY <1>0, <1>1, <2>1 DEF PullsLed
    <2> QED
      BY <1>0, <1>1, <2>1, <2>2 DEF PullTypeOK
  <1>2. CASE /\ task' = [task EXCEPT ![t] = [@ EXCEPT !.pc = "build", !.renew = RenewInterval]]
             /\ pulling' = Joined(t)
             /\ UNCHANGED <<lock, losses>>
    <2>0. task'[t] = [task[t] EXCEPT !.pc = "build", !.renew = RenewInterval]
      BY <1>2 DEF PullTypeOK
    <2>1. /\ task'[t] \in TaskStates /\ task'[t].pc = "build" /\ task'[t].renew = RenewInterval
          /\ \A x \in Tasks \ {t} : task'[x] = task[x]
          /\ task' \in [Tasks -> TaskStates]
      <3>1. task[t] \in TaskStates
        BY DEF PullTypeOK
      <3>2. /\ task'[t] \in TaskStates /\ task'[t].pc = "build"
            /\ task'[t].renew = RenewInterval
        BY <2>0, <3>1, TimersStartInRange DEF TaskStates
      <3> QED
        BY <1>2, <3>2 DEF PullTypeOK
    <2>2. /\ LockLives' /\ LockHeld' /\ \A x \in Tasks : Owned(x)
      BY <1>0, <1>2, <2>1 DEF LockLives, LockHeld, Owned
    <2>3. ASSUME NEW p \in Procs
          PROVE  /\ pulling'[p] \in Pulls \cup {NoTask}
                 /\ pulling'[p] # NoTask =>
                       /\ \/ pulling'[p].leader = t /\ Proc[t] = p
                          \/ /\ pulling[p] # NoTask
                             /\ pulling'[p].leader = pulling[p].leader
                             /\ pulling'[p].canceled = pulling[p].canceled
                       /\ \A m \in pulling'[p].members :
                             Proc[m] = p \/ (pulling[p] # NoTask /\ m \in pulling[p].members)
      <3>0. pulling[p] \in Pulls \cup {NoTask}
        BY DEF PullTypeOK
      <3>1. CASE p = Proc[t] /\ pulling[p] # NoTask
        <4>1. /\ pulling'[p] = [pulling[p] EXCEPT !.members = pulling[p].members \cup {t}]
              /\ pulling[p] \in Pulls
          BY <1>2, <3>0, <3>1 DEF Joined, PullTypeOK
        <4>2. pulling[p].members \cup {t} \in SUBSET Tasks
          BY <4>1 DEF Pulls
        <4>3. /\ pulling'[p] \in Pulls
              /\ pulling'[p].leader = pulling[p].leader
              /\ pulling'[p].canceled = pulling[p].canceled
              /\ pulling'[p].members = pulling[p].members \cup {t}
          BY Zenon, <4>1, <4>2 DEF Pulls
        <4> QED
          BY <3>1, <4>3
      <3>2. CASE p = Proc[t] /\ pulling[p] = NoTask
        <4>1. pulling'[p] = [leader |-> t, members |-> {t}, stage |-> "inspect", canceled |-> FALSE]
          BY <1>2, <3>2 DEF Joined, PullTypeOK
        <4>2. /\ pulling'[p] \in Pulls
              /\ pulling'[p].leader = t /\ pulling'[p].members = {t}
          BY <4>1 DEF Pulls
        <4> QED
          BY <3>2, <4>2
      <3>3. CASE p # Proc[t]
        <4>1. pulling'[p] = pulling[p]
          BY <1>2, <3>3 DEF Joined, PullTypeOK
        <4>2. pulling[p] # NoTask =>
                  /\ pulling'[p].leader = pulling[p].leader
                  /\ pulling'[p].canceled = pulling[p].canceled
                  /\ pulling'[p].members = pulling[p].members
          BY <4>1
        <4> QED
          BY <3>0, <4>1, <4>2
      <3> QED
        BY <3>1, <3>2, <3>3
    <2>4. pulling' \in [Procs -> Pulls \cup {NoTask}]
      BY <1>2, <2>3 DEF Joined, PullTypeOK
    <2>5. PullsLed'
      <3> SUFFICES ASSUME NEW p \in Procs, pulling'[p] # NoTask
                   PROVE  /\ Proc[pulling'[p].leader] = p
                          /\ \A m \in pulling'[p].members : Proc[m] = p
                          /\ ~pulling'[p].canceled => task'[pulling'[p].leader].pc = "build"
        BY DEF PullsLed
      <3>1. CASE pulling'[p].leader = t /\ Proc[t] = p
        BY <2>1, <2>3, <3>1 DEF PullsLed
      <3>2. CASE /\ pulling[p] # NoTask
                 /\ pulling'[p].leader = pulling[p].leader
                 /\ pulling'[p].canceled = pulling[p].canceled
        BY <1>0, <2>1, <2>3, <3>2 DEF PullsLed
      <3> QED
        BY <2>3, <3>1, <3>2
    <2> QED
      BY <1>0, <1>2, <2>1, <2>2, <2>4, <2>5 DEF PullTypeOK
  <1> QED
    BY <1>1, <1>2 DEF Recheck

\* A renewal starts the TTL anew, or the task gives up and cancels its pull.
LEMMA RenewInv ==
    ASSUME RenewInterval < TTL, PullInv, NEW t \in Tasks, Renew(t)
    PROVE  PullInv' /\ \A x \in Tasks : Owned(x)
  <1> USE DEF PullInv
  <1>0. /\ task[t].pc = "build" /\ UNCHANGED present /\ "exhausted" \in Results
        /\ {t} \in SUBSET Tasks
        /\ \A p \in Procs : pulling[p] # NoTask => pulling[p].leader \in Tasks
    BY DEF Renew, Results, PullTypeOK, Pulls
  <1>1. CASE /\ lock.token = t
             /\ lock' = [lock EXCEPT !.left = TTL]
             /\ task' = [task EXCEPT ![t].renew = RenewInterval]
             /\ UNCHANGED <<pulling, losses>>
    <2>1. /\ task'[t] \in TaskStates /\ task'[t].pc = "build" /\ task'[t].renew = RenewInterval
          /\ \A x \in Tasks \ {t} : task'[x] = task[x]
          /\ task' \in [Tasks -> TaskStates]
      <3>1. task[t] \in TaskStates /\ task \in [Tasks -> TaskStates]
            /\ RenewInterval \in 0..RenewInterval
        BY TimersStartInRange DEF PullTypeOK
      <3>2. [task[t] EXCEPT !.renew = RenewInterval] \in TaskStates
        BY <3>1 DEF TaskStates
      <3> QED
        BY <1>0, <1>1, <3>1, <3>2
    <2>2. /\ lock' \in [token: Tasks \cup {NoTask}, left: 0..TTL]
          /\ lock'.token = t /\ lock'.left = TTL
      BY <1>1, TimersStartInRange DEF PullTypeOK
    <2>3. LockLives' /\ \A x \in Tasks : Owned(x)
      BY <1>1, <2>2 DEF LockLives, Owned
    <2>4. LockHeld'
      BY <1>1, <2>1, <2>2 DEF LockHeld
    <2>5. PullsLed'
      BY <1>0, <1>1, <2>1 DEF PullsLed
    <2> QED
      BY <1>0, <1>1, <2>1, <2>2, <2>3, <2>4, <2>5 DEF PullTypeOK
  <1>2. CASE /\ lock.token # t
             /\ Ended({t}, "exhausted")
             /\ CancelPulls({t})
             /\ UNCHANGED <<lock, losses>>
    <2>1. TaskReturns({t}, "exhausted")
      BY <1>2 DEF TaskReturns, Release
    <2>2. /\ task' \in [Tasks -> TaskStates] /\ \A x \in Tasks \ {t} : task'[x] = task[x]
          /\ lock' \in [token: Tasks \cup {NoTask}, left: 0..TTL] /\ losses' \in 0..MaxLosses
          /\ LockLives' /\ LockHeld' /\ \A x \in Tasks : Owned(x)
      BY <1>0, <2>1, TasksReturn
    <2>3. pulling' \in [Procs -> Pulls \cup {NoTask}] /\ PullsLed'
      BY <1>0, <1>2, <2>2, CanceledPulls
    <2> QED
      BY <1>0, <2>2, <2>3 DEF PullTypeOK
  <1> QED
    BY <1>1, <1>2 DEF Renew

LEMMA RenewFailsInv ==
    ASSUME PullInv, NEW t \in Tasks, RenewFails(t)
    PROVE  PullInv' /\ \A x \in Tasks : Owned(x)
  <1> USE DEF PullInv
  <1>1. /\ task[t].pc = "build" /\ "error" \in Results /\ Ended({t}, "error")
        /\ CancelPulls({t}) /\ {t} \in SUBSET Tasks
        /\ losses' \in 0..MaxLosses /\ losses' > losses /\ losses' # 0
        /\ UNCHANGED present
    BY DEF RenewFails, Loss, Results, PullTypeOK
  <1>2. PICK s \in TaskStates : s.pc = "done" /\ task' = [task EXCEPT ![t] = s]
    BY <1>1, DoneState
  <1>3. /\ lock' \in [token: Tasks \cup {NoTask}, left: 0..TTL]
        /\ LockLives'
    BY TimersStartInRange DEF RenewFails, PullTypeOK, LockLives, NoLock
  <1>4. task' \in [Tasks -> TaskStates] /\ \A x \in Tasks \ {t} : task'[x] = task[x]
    BY <1>2 DEF PullTypeOK
  <1>5. pulling' \in [Procs -> Pulls \cup {NoTask}] /\ PullsLed'
    BY <1>1, <1>4, CanceledPulls
  <1>6. PullTypeOK'
    BY <1>1, <1>3, <1>4, <1>5 DEF PullTypeOK
  <1>7. LockHeld' /\ \A x \in Tasks : Owned(x)
    BY <1>1 DEF LockHeld, Owned
  <1> QED
    BY <1>3, <1>5, <1>6, <1>7

LEMMA ContextEndsInv ==
    ASSUME PullInv, NEW t \in Tasks, ContextEnds(t)
    PROVE  PullInv' /\ \A x \in Tasks : Owned(x)
  <1> USE DEF PullInv
  <1>1. /\ TaskReturns({t}, "canceled") /\ CancelPulls({t}) /\ "canceled" \in Results
        /\ UNCHANGED present
        /\ {t} \in SUBSET Tasks /\ \A x \in {t} : task[x].pc # "done"
    BY DEF ContextEnds, Results
  <1>2. /\ task' \in [Tasks -> TaskStates] /\ \A x \in Tasks \ {t} : task'[x] = task[x]
        /\ lock' \in [token: Tasks \cup {NoTask}, left: 0..TTL] /\ losses' \in 0..MaxLosses
        /\ LockLives' /\ LockHeld' /\ \A x \in Tasks : Owned(x)
    BY <1>1, TasksReturn
  <1>3. pulling' \in [Procs -> Pulls \cup {NoTask}] /\ PullsLed'
    BY <1>1, <1>2, CanceledPulls
  <1> QED
    BY <1>1, <1>2, <1>3 DEF PullTypeOK

-----------------------------------------------------------------------------
\* A flight that ends takes its process's waiting members with it, which lead
\* no other process's flight.
LEMMA FlightEndsInv ==
    ASSUME PullInv, NEW p \in Procs, pulling[p] # NoTask, NEW r \in Results, FlightEnds(p, r),
           present' \in BOOLEAN
    PROVE  PullInv' /\ \A x \in Tasks : Owned(x)
  <1> USE DEF PullInv
  <1> DEFINE T == {t \in pulling[p].members : task[t].pc = "build"}
  <1>0. /\ T \in SUBSET Tasks /\ \A t \in T : task[t].pc # "done" /\ Proc[t] = p
        /\ TaskReturns(T, r) /\ pulling' = [pulling EXCEPT ![p] = NoTask]
    BY DEF FlightEnds, PullTypeOK, Pulls, PullsLed
  <1>1. /\ task' \in [Tasks -> TaskStates] /\ \A x \in Tasks \ T : task'[x] = task[x]
        /\ lock' \in [token: Tasks \cup {NoTask}, left: 0..TTL] /\ losses' \in 0..MaxLosses
        /\ LockLives' /\ LockHeld' /\ \A x \in Tasks : Owned(x)
    <2> HIDE DEF T
    <2> QED
      BY <1>0, TasksReturn
  <1>2. /\ pulling' \in [Procs -> Pulls \cup {NoTask}] /\ pulling'[p] = NoTask
        /\ \A q \in Procs \ {p} : pulling'[q] = pulling[q]
    BY <1>0 DEF PullTypeOK
  <1>3. \A q \in Procs : pulling[q] # NoTask => pulling[q].leader \in Tasks
    BY DEF PullTypeOK, Pulls
  <1>4. PullsLed'
    <2> SUFFICES ASSUME NEW q \in Procs, pulling'[q] # NoTask
                 PROVE  /\ Proc[pulling'[q].leader] = q
                        /\ \A m \in pulling'[q].members : Proc[m] = q
                        /\ ~pulling'[q].canceled => task'[pulling'[q].leader].pc = "build"
      BY DEF PullsLed
    <2>1. q # p /\ pulling'[q] = pulling[q] /\ pulling[q].leader \in Tasks
      BY <1>2, <1>3
    <2>2. pulling[q].leader \notin T
      BY <1>0, <2>1 DEF PullsLed
    <2> QED
      BY <1>1, <2>1, <2>2 DEF PullsLed
  <1> QED
    BY <1>1, <1>2, <1>4 DEF PullTypeOK

LEMMA FlightInspectsInv ==
    ASSUME PullInv, NEW p \in Procs, FlightInspects(p)
    PROVE  PullInv' /\ \A x \in Tasks : Owned(x)
  <1> USE DEF PullInv
  <1>0. pulling[p] # NoTask /\ pulling[p] \in Pulls /\ UNCHANGED present /\ present' \in BOOLEAN
    BY DEF FlightInspects, PullTypeOK
  <1>1. CASE FlightEnds(p, "error") \/ FlightEnds(p, "ok")
    BY <1>0, <1>1, FlightEndsInv DEF Results
  <1>2. CASE pulling' = [pulling EXCEPT ![p].stage = "pull"] /\ UNCHANGED <<lock, task, losses>>
    <2>1. pulling'[p] = [pulling[p] EXCEPT !.stage = "pull"]
      BY <1>2 DEF PullTypeOK
    <2>2. /\ pulling'[p] \in Pulls /\ pulling'[p].leader = pulling[p].leader
          /\ pulling'[p].members = pulling[p].members
          /\ pulling'[p].canceled = pulling[p].canceled
      BY Zenon, <1>0, <2>1 DEF Pulls
    <2>3. /\ pulling' \in [Procs -> Pulls \cup {NoTask}]
          /\ \A q \in Procs \ {p} : pulling'[q] = pulling[q]
      BY <1>2, <2>2 DEF PullTypeOK
    <2>4. PullsLed'
      BY <1>0, <1>2, <2>2, <2>3 DEF PullsLed
    <2>5. PullTypeOK' /\ LockLives' /\ LockHeld' /\ \A x \in Tasks : Owned(x)
      BY <1>0, <1>2, <2>3 DEF PullTypeOK, LockLives, LockHeld, Owned
    <2> QED
      BY <2>4, <2>5
  <1> QED
    BY <1>1, <1>2 DEF FlightInspects

LEMMA FlightPullsInv ==
    ASSUME PullInv, NEW p \in Procs, FlightPulls(p)
    PROVE  PullInv' /\ \A x \in Tasks : Owned(x)
  <1>1. pulling[p] # NoTask /\ present' \in BOOLEAN
    BY DEF FlightPulls, PullInv, PullTypeOK
  <1>2. PICK r \in Results : FlightEnds(p, r)
    BY DEF FlightPulls, Results
  <1> QED
    BY <1>1, <1>2, FlightEndsInv

LEMMA RedisLosesLockInv ==
    ASSUME PullInv, RedisLosesLock
    PROVE  PullInv' /\ \A x \in Tasks : Owned(x)
  <1>1. losses' \in 0..MaxLosses /\ losses' > losses /\ losses' # 0
    BY DEF RedisLosesLock, Loss, PullInv, PullTypeOK
  <1>2. lock' = NoLock /\ lock' \in [token: Tasks \cup {NoTask}, left: 0..TTL]
    BY TimersStartInRange DEF RedisLosesLock, NoLock
  <1> QED
    BY <1>1, <1>2 DEF RedisLosesLock, PullInv, PullTypeOK, LockLives, LockHeld, PullsLed, Owned, NoLock

\* Time goes on: a renewal that is due runs first, so that a key whose owner
\* builds has time left.
LEMMA PullTickInv ==
    ASSUME PullInv, PullTick
    PROVE  PullInv' /\ \A x \in Tasks : Owned(x)
  <1> USE DEF PullInv
  <1>1. ASSUME NEW t \in Tasks
        PROVE  /\ task'[t] \in TaskStates /\ task'[t].pc = task[t].pc
               /\ task'[t].renew = Less(task[t].renew)
    <2>1. task'[t] = [task[t] EXCEPT !.wait = Less(task[t].wait), !.renew = Less(task[t].renew)]
      BY DEF PullTick
    <2>2. task[t] \in TaskStates
      BY DEF PullTypeOK
    <2>3. Less(task[t].wait) \in 0..WaitTimeout /\ Less(task[t].renew) \in 0..RenewInterval
      BY <2>2 DEF TaskStates, Less
    <2> QED
      BY <2>1, <2>2, <2>3 DEF TaskStates
  <1>2. task' \in [Tasks -> TaskStates]
    BY <1>1 DEF PullTick
  <1>3. /\ lock' \in [token: Tasks \cup {NoTask}, left: 0..TTL]
        /\ lock.left > 1 => lock'.token = lock.token /\ lock'.left = lock.left - 1
        /\ lock.left <= 1 => lock' = NoLock
        /\ lock.left \in Nat
    <2>1. lock.left \in 0..TTL /\ lock.token \in Tasks \cup {NoTask} /\ TTL \in Nat
      BY DEF PullTypeOK
    <2>0. lock' = IF lock.left <= 1 THEN NoLock ELSE [lock EXCEPT !.left = lock.left - 1]
      BY Zenon DEF PullTick
    <2>2. CASE lock.left <= 1
      BY <2>0, <2>1, <2>2, TimersStartInRange DEF NoLock
    <2>3. CASE lock.left > 1
      <3>1. lock' = [lock EXCEPT !.left = lock.left - 1]
        BY <2>0, <2>1, <2>3
      <3>2. lock.left - 1 \in 0..TTL
        BY <2>1, <2>3
      <3> QED
        BY <2>1, <2>3, <3>1, <3>2 DEF PullTypeOK
    <2> QED
      BY <2>1, <2>2, <2>3
  <1>4. LockLives'
    BY <1>3 DEF LockLives, NoLock
  <1>5. LockHeld'
    <2> SUFFICES ASSUME losses = 0, NEW t \in Tasks, task[t].pc \in {"recheck", "build"}
                 PROVE  /\ lock'.token = t
                        /\ task[t].pc = "recheck" => lock'.left > RenewInterval
                        /\ task[t].pc = "build" => lock'.left > task'[t].renew
      BY ZenonT(60), <1>1 DEF LockHeld, PullTick
    <2>1. CASE task[t].pc = "recheck"
      <3>1. lock.token = t /\ lock.left > RenewInterval + 1
        BY <2>1 DEF LockHeld, PullTick, Prompt
      <3> QED
        BY <1>3, <2>1, <3>1
    <2>2. CASE task[t].pc = "build"
      <3>1. lock.token = t /\ lock.left > task[t].renew /\ task[t].renew > 0
        BY <2>2 DEF LockHeld, PullTick, Prompt
      <3>2. task[t].renew \in Nat /\ task'[t].renew = task[t].renew - 1
        BY <1>1, <3>1 DEF Less, PullTypeOK, TaskStates
      <3> QED
        BY <1>3, <2>2, <3>1, <3>2
    <2> QED
      BY <2>1, <2>2
  <1>6. PullsLed'
    <2>1. \A p \in Procs : pulling[p] # NoTask => pulling[p].leader \in Tasks
      BY DEF PullTypeOK, Pulls
    <2> QED
      BY <1>1, <2>1 DEF PullsLed, PullTick
  <1>7. \A x \in Tasks : Owned(x)
    BY <1>3 DEF Owned, LockLives
  <1> QED
    BY <1>2, <1>3, <1>4, <1>5, <1>6, <1>7 DEF PullTypeOK, PullTick

LEMMA PullNextInv ==
    ASSUME RenewInterval < TTL, PullInv, [PullNext]_pullVars
    PROVE  PullInv' /\ \A x \in Tasks : Owned(x)
  <1>1. CASE \E t \in Tasks : \/ Start(t) \/ ImageExists(t) \/ InspectFails(t) \/ Acquire(t)
                              \/ AcquireFails(t)
    BY <1>1, StartInv, ImageExistsInv, InspectFailsInv, AcquireInv, AcquireFailsInv
  <1>2. CASE \E t \in Tasks : \/ WaitTimesOut(t) \/ Recheck(t) \/ Renew(t)
                              \/ RenewFails(t) \/ ContextEnds(t)
    BY <1>2, WaitTimesOutInv, RecheckInv, RenewInv, RenewFailsInv, ContextEndsInv
  <1>3. CASE \E p \in Procs : FlightInspects(p) \/ FlightPulls(p)
    BY <1>3, FlightInspectsInv, FlightPullsInv
  <1>4. CASE RedisLosesLock
    BY <1>4, RedisLosesLockInv
  <1>5. CASE PullTick
    BY <1>5, PullTickInv
  <1>6. CASE UNCHANGED pullVars
    BY <1>6 DEF pullVars, PullInv, PullTypeOK, LockLives, LockHeld, PullsLed, Owned
  <1> QED
    BY <1>1, <1>2, <1>3, <1>4, <1>5, <1>6 DEF PullNext

\* The lock outlives the interval between two renewals (a TTL of more than
\* minLockRenewInterval, imagepull.go:126): then a task that builds owns the
\* key until it returns, loses it only with Redis, and the flights that are
\* not being torn down have leaders that build.
THEOREM PullInvariant ==
    ASSUME RenewInterval < TTL
    PROVE  PullSpec => []PullInv
  BY PullInitInv, PullNextInv, PTL DEF PullSpec

LEMMA OwnersPullAlone ==
    ASSUME PullInv
    PROVE  OnePull
  <1> SUFFICES ASSUME losses = 0 PROVE Cardinality(Pulling) <= 1
    BY DEF OnePull
  <1>1. \A p \in Pulling : /\ p \in Procs /\ lock.token = pulling[p].leader
                           /\ Proc[pulling[p].leader] = p
    BY DEF PullInv, PullTypeOK, Pulls, Pulling, PullsLed, LockHeld
  <1>2. CASE Pulling = {}
    <2>1. Cardinality(Pulling) = 0
      BY <1>2, FS_EmptySet
    <2> QED
      BY <2>1
  <1>3. CASE Pulling # {}
    <2>1. PICK p \in Pulling : TRUE
      BY <1>3
    <2>2. \A q \in Pulling : q = p
      BY <1>1, <2>1
    <2>3. Pulling = {p}
      BY <2>1, <2>2
    <2>4. Cardinality(Pulling) = 1
      BY <2>3, FS_Singleton
    <2> QED
      BY <2>4
  <1> QED
    BY <1>2, <1>3

\* imagepull.Ensure, for any number of workers and tasks: while Redis keeps
\* its keys at most one process pulls the image, and a lock ends only with its
\* owner's return, with its TTL or with a failure of Redis.
THEOREM PullsAreExclusive ==
    ASSUME RenewInterval < TTL
    PROVE  PullSpec => PullsExclusive
  <1>1. PullInv => PullTypeOK /\ OnePull
    BY OwnersPullAlone DEF PullInv
  <1>2. PullInv /\ [PullNext]_pullVars =>
            [\A t \in Tasks :
                lock.token = t /\ lock'.token # t =>
                    \/ task[t].pc # "done" /\ task'[t].pc = "done"
                    \/ lock.left = 1
                    \/ losses' > losses]_pullVars
    BY PullNextInv DEF Owned
  <1> QED
    BY <1>1, <1>2, PullInvariant, PTL DEF PullSpec, PullsExclusive, OnlyOwnerEndsLock
=============================================================================

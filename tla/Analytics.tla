------------------------------- MODULE Analytics -------------------------------
(* The analytics table: the analytics-processor that counts the events of the  *)
(* analytics topic, the log transactions of the joblogs-processor that add to  *)
(* the same rows, the cleanup of processed_events and the reads of the         *)
(* analytics-service.  Records are delivered at least once: they are produced  *)
(* twice, handled again after a rebalance, and an UPSERT may take effect       *)
(* although its caller sees an error.                                          *)
EXTENDS Naturals, Sequences, FiniteSets, FiniteSetsExt, SequencesExt

CONSTANTS
    Workflows, Jobs, JobWorkflow, Duration,  \* terminal jobs, [Jobs -> Workflows], [Jobs -> Nat]
    Kind,          \* [Workflows -> kinds]
    Legacy,        \* workflows with a LOGS event without a key in the topic, from older releases
    Invalid,       \* workflows with an event whose data cannot be decoded
    LogKeys, LogWorkflow,     \* log lines (naturals, in key order), [LogKeys -> Workflows]
    Processors, Batch,        \* lanes of the joblogs-processor, [Processors -> Seq(LogKeys)]
    Consumers,     \* analytics-processor instances
    Readers,       \* calls of GetUserAnalytics
    CleanupBatch, TopLimit,
    MaxDup, MaxFaults         \* bounds: records produced twice; rebalances and lost answers

AnalyticsAssumption ==
    /\ LogKeys \subseteq Nat /\ LogWorkflow \in [LogKeys -> Workflows]
    /\ JobWorkflow \in [Jobs -> Workflows] /\ Duration \in [Jobs -> Nat]
    /\ Batch \in [Processors -> Seq(LogKeys)]
    /\ CleanupBatch \in Nat \ {0} /\ TopLimit \in Nat /\ MaxDup \in Nat /\ MaxFaults \in Nat

VARIABLES
    topic, committed, owner,  \* the partition, its committed offset and its consumer
    consumer,                 \* [pc, off, own]: the record each analytics-processor works on
    rows,                     \* the analytics table
    processed,                \* processed_events: keys of both consumers
    aged,                     \* keys whose row is older than the retention
    tx, queue,                \* the log transaction of each joblogs lane; who waits for a row
    reader,                   \* GetUserAnalytics
    dups, faults

streamVars == <<topic, committed, owner, consumer, dups>>
vars == <<streamVars, rows, processed, aged, tx, queue, reader, faults>>

(* Events: a key identifies what happened, and is empty in legacy records.     *)
Event(type, key, w, n) == [type |-> type, key |-> key, w |-> w, n |-> n]
WorkflowEvent(w) == Event("WORKFLOWS", <<"w", w>>, w, 0)
JobEvent(j) == Event("JOBS", <<"j", j>>, JobWorkflow[j], Duration[j])
CountedEvents == {WorkflowEvent(w) : w \in Workflows} \cup {JobEvent(j) : j \in Jobs}
OldEvents == {Event("LOGS", <<>>, w, 1) : w \in Legacy}
             \cup {Event("INVALID", <<"i", w>>, w, 0) : w \in Invalid}

NoRow == [exists |-> FALSE, kind |-> "", jobs |-> 0, duration |-> 0, logs |-> 0]
IdleConsumer == [pc |-> "idle", off |-> 0, own |-> FALSE]
NoTx == [pc |-> "idle", todo |-> {}, new |-> {}, left |-> {}, next |-> {}, locked |-> {}]
IdleReader == [pc |-> "start", snap |-> [w \in Workflows |-> NoRow],
               totals |-> <<0, 0>>, kinds |-> <<0, 0>>, top |-> 0]

Init ==
    /\ topic = SetToSeq(OldEvents) /\ committed = 0 /\ dups = 0 /\ faults = 0
    /\ owner \in Consumers
    /\ consumer = [c \in Consumers |-> IdleConsumer]
    /\ rows = [w \in Workflows |-> NoRow]
    /\ processed = {} /\ aged = {}
    /\ tx = [p \in Processors |-> NoTx]
    /\ queue = [w \in Workflows |-> <<>>]
    /\ reader = [r \in Readers |-> IdleReader]

Fault == faults < MaxFaults /\ faults' = faults + 1
NoFault == UNCHANGED faults

-----------------------------------------------------------------------------
(* The producers: the build publishes the workflow's event before it schedules *)
(* a job, the outbox relay the one of a terminal job.                          *)
Publish(e) ==
    /\ e \notin Range(topic)
    /\ e.type = "JOBS" => WorkflowEvent(e.w) \in Range(topic)
    /\ topic' = Append(topic, e)
    /\ UNCHANGED <<committed, owner, consumer, dups, rows, processed, aged, tx, queue, reader, faults>>

(* A build that runs again, or a relay whose ProduceSync failed after all:     *)
(* within the replay window, so while the retention of the key has not passed. *)
Republish(e) ==
    /\ e \in Range(topic) /\ e.key \notin aged
    /\ dups < MaxDup
    /\ dups' = dups + 1
    /\ topic' = Append(topic, e)
    /\ UNCHANGED <<committed, owner, consumer, rows, processed, aged, tx, queue, reader, faults>>

Poll(c) ==
    /\ owner = c /\ consumer[c].pc = "idle" /\ committed < Len(topic)
    /\ consumer' = [consumer EXCEPT ![c] = [pc |-> "process", off |-> committed + 1, own |-> TRUE]]
    /\ UNCHANGED <<topic, committed, owner, dups, rows, processed, aged, tx, queue, reader, faults>>

(* The three UPSERTs, on the row of the event's workflow, and their dispatch.  *)
processWorkflowsEvent(row, e) == [row EXCEPT !.exists = TRUE, !.kind = Kind[e.w]]
processJobsEvent(row, e) == [row EXCEPT !.exists = TRUE, !.jobs = @ + 1, !.duration = @ + e.n]
processLogsEvent(row, e) == [row EXCEPT !.exists = TRUE, !.logs = @ + e.n]
Upsert(e) == [rows EXCEPT ![e.w] =
    CASE e.type = "WORKFLOWS" -> processWorkflowsEvent(@, e)
      [] e.type = "JOBS" -> processJobsEvent(@, e)
      [] e.type = "LOGS" -> processLogsEvent(@, e)]

(* The row of processed_events is inserted by the same statement: an event     *)
(* with a key counts only when its key was not there.                          *)
IsNew(e) == e.type # "INVALID" /\ (e.key = <<>> \/ e.key \notin processed)

RowFree(w) == \A p \in Processors : w \notin tx[p].locked

(* processRecord: the statement waits for the row, is atomic, and is repeated  *)
(* in place when it fails, whether or not it took effect.  Undecodable data is *)
(* an error that is committed.                                                 *)
processRecord(c) ==
    LET e == topic[consumer[c].off] IN
    /\ consumer[c].pc = "process"
    /\ IsNew(e) => RowFree(e.w)
    /\ rows' = IF IsNew(e) THEN Upsert(e) ELSE rows
    /\ processed' = IF IsNew(e) /\ e.key # <<>> THEN processed \cup {e.key} ELSE processed
    /\ \/ NoFault /\ consumer' = [consumer EXCEPT ![c].pc = "commit"]
       \/ Fault /\ e.type # "INVALID" /\ UNCHANGED consumer
    /\ UNCHANGED <<topic, committed, owner, dups, aged, tx, queue, reader>>

CommitOffset(c) == consumer[c].off

Commit(c) ==
    /\ consumer[c].pc = "commit"
    /\ committed' = IF consumer[c].own THEN CommitOffset(c) ELSE committed
    /\ consumer' = [consumer EXCEPT ![c] = IdleConsumer]
    /\ UNCHANGED <<topic, owner, dups, rows, processed, aged, tx, queue, reader, faults>>

(* The partition goes to another instance while this one is in processRecord.  *)
Rebalance(c) ==
    /\ owner # c /\ Fault
    /\ owner' = c
    /\ consumer' = [consumer EXCEPT ![owner].own = FALSE]
    /\ UNCHANGED <<topic, committed, dups, rows, processed, aged, tx, queue, reader>>

-----------------------------------------------------------------------------
(* processLogsAnalytics of the joblogs-processor: one transaction per batch.   *)
(* Its keys and rows are locked until it ends; what it adds is visible then.   *)
TxOnly == UNCHANGED <<streamVars, reader, aged>>
NoTableChange == UNCHANGED <<rows, processed>>

BeginTx(p) ==
    /\ tx[p].pc = "idle"
    /\ tx' = [tx EXCEPT ![p] = [NoTx EXCEPT !.pc = "insert", !.todo = Range(Batch[p])]]
    /\ UNCHANGED queue /\ TxOnly /\ NoTableChange /\ NoFault

NextKeyFaulty(p) == Batch[p][Min({i \in DOMAIN Batch[p] : Batch[p][i] \in tx[p].todo})]
(* collectLogAnalyticsEvents sorts the keys, and INSERT takes them in order.   *)
NextKey(p) == Min(tx[p].todo)
KeyHeld(p, k) == {q \in Processors \ {p} : k \in tx[q].new}
RowsOf(keys) == {LogWorkflow[k] : k \in keys}

insertProcessedLogAnalyticsEvents(p) ==
    /\ tx[p].pc = "insert" /\ NoFault
    /\ IF tx[p].todo = {}
       THEN tx' = [tx EXCEPT ![p].pc = "update", ![p].left = RowsOf(tx[p].new)]
       ELSE LET k == NextKey(p) IN
            /\ KeyHeld(p, k) = {}              \* ON CONFLICT waits for the other insert
            /\ tx' = [tx EXCEPT ![p].todo = @ \ {k},
                                ![p].new = IF <<"log", k>> \in processed THEN @ ELSE @ \cup {k}]
    /\ UNCHANGED queue /\ TxOnly /\ NoTableChange

(* The transactions that hold a row or wait for it since longer.               *)
RowHeld(p, w) ==
    {q \in Processors \ {p} :
        \/ w \in tx[q].locked
        \/ \E i, j \in DOMAIN queue[w] : i < j /\ queue[w][i] = q /\ queue[w][j] = p}

(* updatePartitionLogCounts goes through a map, in any order, ...              *)
NextRow(p, w) ==
    /\ tx[p].pc = "update" /\ tx[p].next = {} /\ w \in tx[p].left
    /\ tx' = [tx EXCEPT ![p].next = {w}]
    /\ queue' = [queue EXCEPT ![w] = Append(@, p)]
    /\ TxOnly /\ NoTableChange /\ NoFault

(* ... and waits for each row in the order of arrival.                         *)
updatePartitionLogCounts(p) ==
    /\ tx[p].pc = "update" /\ NoFault
    /\ \E w \in tx[p].next :
           /\ RowHeld(p, w) = {}
           /\ tx' = [tx EXCEPT ![p].next = {}, ![p].left = @ \ {w}, ![p].locked = @ \cup {w}]
           /\ queue' = [queue EXCEPT ![w] = Tail(@)]
    /\ TxOnly /\ NoTableChange

CountOf(w, keys) == Cardinality({k \in keys : LogWorkflow[k] = w})
CommittedKeysFaulty(p) == {}
CommittedKeys(p) == {<<"log", k>> : k \in tx[p].new}

(* tx.Commit; when its answer is lost the batch is repeated.                   *)
CommitTx(p) ==
    /\ tx[p].pc = "update" /\ tx[p].left = {} /\ tx[p].next = {}
    /\ rows' = [w \in Workflows |->
           IF w \in tx[p].locked THEN [rows[w] EXCEPT !.exists = TRUE, !.logs = @ + CountOf(w, tx[p].new)]
           ELSE rows[w]]
    /\ processed' = processed \cup CommittedKeys(p)
    /\ \/ NoFault /\ tx' = [tx EXCEPT ![p] = [NoTx EXCEPT !.pc = "done"]]
       \/ Fault /\ tx' = [tx EXCEPT ![p] = NoTx]
    /\ UNCHANGED queue /\ TxOnly

WaitsFor(p, q) ==
    \/ tx[p].pc = "insert" /\ tx[p].todo # {} /\ q \in KeyHeld(p, NextKey(p))
    \/ tx[p].pc = "update" /\ \E w \in tx[p].next : q \in RowHeld(p, w)

AfterRollbackFaulty == [NoTx EXCEPT !.pc = "done"]
(* The error of a rolled back transaction keeps the batch from being committed. *)
AfterRollback == NoTx

(* PostgreSQL rolls back one transaction of a cycle; the batch is retried.     *)
DeadlockVictim(p) ==
    /\ \E q \in Processors : WaitsFor(p, q) /\ WaitsFor(q, p)
    /\ tx' = [tx EXCEPT ![p] = AfterRollback]
    /\ queue' = [w \in Workflows |-> SelectSeq(queue[w], LAMBDA q : q # p)]
    /\ TxOnly /\ NoTableChange /\ NoFault

-----------------------------------------------------------------------------
(* The retention of a key passes.  It is configured to outlive every replay of *)
(* the key, so no record of it is left to be handled.                          *)
Replayable(k) ==
    \/ \E i \in (committed + 1) .. Len(topic) : topic[i].key = k
    \/ \E c \in Consumers : consumer[c].pc # "idle" /\ topic[consumer[c].off].key = k
    \/ \E p \in Processors : tx[p].pc # "done" /\ \E i \in DOMAIN Batch[p] : k = <<"log", Batch[p][i]>>

RetentionPasses(k) ==
    /\ k \in processed \ aged /\ ~Replayable(k)
    /\ aged' = aged \cup {k}
    /\ UNCHANGED <<streamVars, rows, processed, tx, queue, reader, faults>>

ExpiredFaulty == processed
Expired == processed \cap aged

(* CleanupProcessedEvents: a bounded batch of the expired rows.                *)
CleanupProcessedEvents ==
    /\ \E d \in SUBSET Expired :
           /\ d # {} /\ Cardinality(d) <= CleanupBatch
           /\ processed' = processed \ d
    /\ UNCHANGED <<streamVars, rows, aged, tx, queue, reader, faults>>

-----------------------------------------------------------------------------
(* GetUserAnalytics: three queries in one REPEATABLE READ transaction.         *)
Existing(v) == {w \in Workflows : v[w].exists}
KindsIn(v) == {v[w].kind : w \in Existing(v)}
JobsIn(v, ws) == MapThenSumSet(LAMBDA w : v[w].jobs, ws)
QueryTotals(v) == <<Cardinality(Existing(v)), JobsIn(v, Existing(v))>>
OfKind(v, k) == {w \in Existing(v) : v[w].kind = k}
(* The groups, added up again: their workflows and their jobs.                 *)
QueryKinds(v) == <<MapThenSumSet(LAMBDA k : Cardinality(OfKind(v, k)), KindsIn(v)),
                   MapThenSumSet(LAMBDA k : JobsIn(v, OfKind(v, k)), KindsIn(v))>>
Ranked(v) == {w \in Existing(v) : v[w].jobs > 0}
TopWorkflows(v) == CHOOSE t \in SUBSET Ranked(v) :
    /\ Cardinality(t) = Min({TopLimit, Cardinality(Ranked(v))})
    /\ \A a \in t, b \in Ranked(v) \ t : v[a].jobs >= v[b].jobs

ViewFaulty(r) == rows
(* The snapshot is taken by the first statement.                               *)
View(r) == IF reader[r].pc = "start" THEN rows ELSE reader[r].snap

GetUserAnalytics(r) ==
    /\ \/ /\ reader[r].pc = "start"
          /\ reader' = [reader EXCEPT ![r].pc = "kinds", ![r].snap = View(r),
                                      ![r].totals = QueryTotals(View(r))]
       \/ /\ reader[r].pc = "kinds"
          /\ reader' = [reader EXCEPT ![r].pc = "top", ![r].kinds = QueryKinds(View(r))]
       \/ /\ reader[r].pc = "top"
          /\ reader' = [reader EXCEPT ![r].pc = "done",
                                      ![r].top = JobsIn(View(r), TopWorkflows(View(r)))]
    /\ UNCHANGED <<streamVars, rows, processed, aged, tx, queue, faults>>

-----------------------------------------------------------------------------
ConsumerStep(c) == Poll(c) \/ processRecord(c) \/ Commit(c)
TxStep(p) ==
    \/ BeginTx(p) \/ insertProcessedLogAnalyticsEvents(p) \/ updatePartitionLogCounts(p)
    \/ CommitTx(p) \/ DeadlockVictim(p) \/ \E w \in Workflows : NextRow(p, w)

Next ==
    \/ \E e \in CountedEvents : Publish(e) \/ Republish(e)
    \/ \E c \in Consumers : ConsumerStep(c) \/ Rebalance(c)
    \/ \E p \in Processors : TxStep(p)
    \/ \E k \in processed : RetentionPasses(k)
    \/ CleanupProcessedEvents
    \/ \E r \in Readers : GetUserAnalytics(r)

Spec == Init /\ [][Next]_vars

(* Events are produced, lanes run on, PostgreSQL detects deadlocks; a statement *)
(* that waits for a row time and again gets it (strong fairness).              *)
Fairness ==
    /\ \A e \in CountedEvents : WF_vars(Publish(e))
    /\ \A c \in Consumers : WF_vars(ConsumerStep(c)) /\ SF_vars(processRecord(c))
    /\ \A p \in Processors : WF_vars(TxStep(p))
FairSpec == Spec /\ Fairness

-----------------------------------------------------------------------------
JobsBefore(w, n) == {j \in Jobs : JobWorkflow[j] = w /\ \E i \in 1 .. n : topic[i] = JobEvent(j)}
DurationOf(js) == MapThenSumSet(LAMBDA j : Duration[j], js)
LinesOf(w, ps) == {k \in LogKeys : LogWorkflow[k] = w /\ \E p \in ps : k \in Range(Batch[p])}

TypeOK ==
    /\ Range(topic) \subseteq CountedEvents \cup OldEvents /\ committed \in 0 .. Len(topic) /\ owner \in Consumers
    /\ consumer \in [Consumers -> [pc : {"idle", "process", "commit"},
                                   off : 0 .. Len(topic), own : BOOLEAN]]
    /\ rows \in [Workflows -> [exists : BOOLEAN, kind : {""} \cup Range(Kind),
                               jobs : Nat, duration : Nat, logs : Nat]]
    /\ processed \subseteq {e.key : e \in Range(topic)} \cup {<<"log", k>> : k \in LogKeys}
    /\ \A p \in Processors : tx[p].pc \in {"idle", "insert", "update", "done"}
    /\ queue \in [Workflows -> Seq(Processors)]
    /\ \A w \in Workflows : ~rows[w].exists => rows[w] = NoRow

(* Each terminal job of a workflow is counted once, with its duration: however *)
(* often its record is produced and handled, the counters lie between what the *)
(* committed records and what the produced records say.  processed_events may  *)
(* lose a key only after the last replay of it.                                *)
JobsCountedOnce ==
    \A w \in Workflows :
        /\ Cardinality(JobsBefore(w, committed)) <= rows[w].jobs
        /\ rows[w].jobs <= Cardinality(JobsBefore(w, Len(topic)))
        /\ DurationOf(JobsBefore(w, committed)) <= rows[w].duration
        /\ rows[w].duration <= DurationOf(JobsBefore(w, Len(topic)))

(* The lines of the batches that are done are counted once per workflow, also  *)
(* those that two lanes hold in their batches at the same time; a legacy event *)
(* without a key adds at least once (docs/architecture.md).                    *)
LinesCountedOnce ==
    \A w \in Workflows :
        LET done == LinesOf(w, {p \in Processors : tx[p].pc = "done"}) IN
        /\ Cardinality(done) <= rows[w].logs
        /\ w \notin Legacy => rows[w].logs <= Cardinality(LinesOf(w, Processors))

(* Lanes never wait in a cycle for the keys they insert: only the order in     *)
(* which the rows are updated is left to PostgreSQL's deadlock detection.      *)
KeysNeverDeadlock ==
    \A p, q \in Processors : tx[p].pc = "insert" => ~(WaitsFor(p, q) /\ WaitsFor(q, p))

(* The parts of one answer fit together, whatever is counted between its       *)
(* queries: the workflow kinds add up to the totals, and so do the jobs of the *)
(* top workflows when the answer lists every workflow that has jobs.           *)
AnswersAddUp ==
    \A r \in Readers : reader[r].pc = "done" =>
        /\ reader[r].totals = reader[r].kinds
        /\ reader[r].top <= reader[r].totals[2]
        /\ Cardinality(Workflows) <= TopLimit => reader[r].top = reader[r].totals[2]

(* In the end every terminal job, every line and every kind is in the table:   *)
(* failed statements, rebalances and deadlock victims lose nothing.            *)
EverythingCounted ==
    <>[](\A w \in Workflows :
           /\ rows[w].jobs = Cardinality({j \in Jobs : JobWorkflow[j] = w})
           /\ rows[w].logs >= Cardinality(LinesOf(w, Processors))
           /\ rows[w].kind = Kind[w])
=============================================================================

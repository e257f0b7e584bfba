------------------------------ MODULE JobLogs ------------------------------
(***************************************************************************)
(* The durable path of the job logs: the execution worker batches the      *)
(* lines of a container and publishes them to the job_logs topic, the      *)
(* joblogs processor stores the retained ones in ClickHouse and in         *)
(* Meilisearch and counts all of them, and the workflow worker removes     *)
(* the logs of a deleted workflow from both stores.                        *)
(*                                                                         *)
(* One partition of the topic and one job per workflow.  A log line is     *)
(* <<w, i>>, the i-th line of w's job; that is also its event key, which   *)
(* is the same when the line is published again: the jobs here write to    *)
(* one stream, see ContainerRun for two.  A lane is one assignment         *)
(* of the partition to a processor (see PartitionRunner): a revoked lane   *)
(* is canceled and not waited for, so a call it has in flight can still    *)
(* take effect after the next lane started.                                *)
(***************************************************************************)
EXTENDS Naturals, Sequences, FiniteSets, SequencesExt

CONSTANTS
    Workflows,    \* workflows with one job each
    Retaining,    \* those with log_retention
    Deletable,    \* bound: those their users may delete
    NumLines,     \* lines a job writes
    LogLanes,     \* assignments of the partition to a processor
    LogBatchSize, \* JobLogBatchSize, and the processor's batch size
    Retries,      \* JobLogPublishRetries
    MaxLogFaults  \* bound: failed calls, timeouts and crashes

ASSUME JobLogsAssumption ==
    /\ Retaining \subseteq Workflows /\ Deletable \subseteq Workflows
    /\ NumLines \in Nat /\ MaxLogFaults \in Nat
    /\ LogBatchSize \in Nat \ {0} /\ Retries \in Nat \ {0}

VARIABLES
    workflow,    \* the workflows table: LIVE or DELETED
    worker,      \* publishContainerLogs or replayContainerLogs of each job
    topic,       \* the records of the partition: event keys
    logOffset,   \* the committed offset
    owner,       \* the lane the partition is assigned to
    lane,        \* what each lane is doing
    clickhouse,  \* event ids with a row in ClickHouse
    search,      \* event ids with a document in Meilisearch
    tasks,       \* Meilisearch's task queue
    processed,   \* event keys of the processor in processed_events
    logsCount,   \* analytics.logs_count
    deletion,    \* handling of the workflow's DELETE event
    logFaults

logVars == <<workflow, worker, topic, logOffset, owner, lane, clickhouse, search,
             tasks, processed, logsCount, deletion, logFaults>>
storeVars == <<clickhouse, search, tasks, processed, logsCount>>
processorVars == <<owner, lane>>

Logs == Workflows \X (1 .. NumLines)
Retained == {l \in Logs : l[1] \in Retaining}

IdleLane == [pc |-> "idle", batch |-> <<>>, active |-> {}, skipped |-> {},
             second |-> FALSE, task |-> 0, canceled |-> FALSE]

LogsInit ==
    /\ workflow = [w \in Workflows |-> "LIVE"]
    /\ worker = [w \in Workflows |-> [state |-> "RUNNING", line |-> 0,
                                      records |-> <<>>, failed |-> 0]]
    /\ topic = <<>> /\ logOffset = 0
    /\ owner \in LogLanes
    /\ lane = [c \in LogLanes |-> IdleLane]
    /\ clickhouse = {} /\ search = {} /\ tasks = <<>>
    /\ processed = {} /\ logsCount = [w \in Workflows |-> 0]
    /\ deletion = [w \in Workflows |-> [pc |-> "none", task |-> 0]]
    /\ logFaults = 0

Fault == logFaults < MaxLogFaults /\ logFaults' = logFaults + 1

-----------------------------------------------------------------------------
(* The execution worker.                                                   *)

\* A replayed line is published on its own.
WorkerBatch(w) == IF worker[w].state = "REPLAY" THEN 1 ELSE LogBatchSize

\* The goroutine of publishContainerLogs receives the next line.  It does not
\* while it publishes a batch, and a full batch is published at once.
ReceiveLine(w) ==
    LET e == worker[w] IN
    /\ e.state # "ENDED" /\ e.line < NumLines
    /\ e.failed = 0 /\ Len(e.records) < WorkerBatch(w)
    /\ worker' = [worker EXCEPT ![w].line = e.line + 1,
                                ![w].records = Append(@, <<w, e.line + 1>>)]
    /\ UNCHANGED <<workflow, topic, logOffset, deletion, logFaults>>
    /\ UNCHANGED <<storeVars, processorVars>>

\* One ProduceSync of a batch, for a full batch, the ticker or the end of the
\* logs.  A call that fails may have appended some of the records, or all; it
\* is repeated with all of them, and after the last attempt they are dropped.
publishJobLogBatch(w) ==
    LET e == worker[w] IN
    /\ e.records # <<>>
    /\ \/ /\ topic' = topic \o e.records
          /\ worker' = [worker EXCEPT ![w].records = <<>>, ![w].failed = 0]
          /\ UNCHANGED logFaults
       \/ /\ Fault
          /\ \E n \in 0 .. Len(e.records) : topic' = topic \o SubSeq(e.records, 1, n)
          /\ worker' = IF e.failed + 1 < Retries
                       THEN [worker EXCEPT ![w].failed = @ + 1]
                       ELSE [worker EXCEPT ![w].records = <<>>, ![w].failed = 0]
    /\ UNCHANGED <<workflow, logOffset, deletion>>
    /\ UNCHANGED <<storeVars, processorVars>>

\* The log channel is closed and the last batch is flushed.
EndLogs(w) ==
    LET e == worker[w] IN
    /\ e.state # "ENDED" /\ e.line = NumLines /\ e.records = <<>>
    /\ worker' = [worker EXCEPT ![w].state = "ENDED"]
    /\ UNCHANGED <<workflow, topic, logOffset, deletion, logFaults>>
    /\ UNCHANGED <<storeVars, processorVars>>

\* The worker dies with its batch; lease recovery replays the container's logs
\* from the first line, with the same event keys.
replayContainerLogs(w) ==
    /\ worker[w].state # "ENDED" /\ Fault
    /\ worker' = [worker EXCEPT ![w] = [state |-> "REPLAY", line |-> 0,
                                        records |-> <<>>, failed |-> 0]]
    /\ UNCHANGED <<workflow, topic, logOffset, deletion>>
    /\ UNCHANGED <<storeVars, processorVars>>

-----------------------------------------------------------------------------
(* Meilisearch applies its tasks one at a time in the order of their        *)
(* arrival; a task may fail.                                                *)

NextTask == CHOOSE i \in DOMAIN tasks :
    /\ tasks[i].status = "enqueued"
    /\ \A j \in 1 .. i - 1 : tasks[j].status # "enqueued"

MeilisearchTask ==
    /\ \E i \in DOMAIN tasks : tasks[i].status = "enqueued"
    /\ LET i == NextTask  t == tasks[i] IN
       \/ /\ search' = CASE t.op = "add" -> search \cup t.logs
                         [] t.op = "delete" -> search \ t.logs
          /\ tasks' = [tasks EXCEPT ![i].status = "succeeded"]
          /\ UNCHANGED logFaults
       \/ /\ Fault
          /\ tasks' = [tasks EXCEPT ![i].status = "failed"]
          /\ UNCHANGED search
    /\ UNCHANGED <<workflow, worker, topic, logOffset, clickhouse, processed, logsCount, deletion>>
    /\ UNCHANGED processorVars

\* How a wait tells that a task is done: any end of it would do.
TaskDoneFaulty(t) == t.status # "enqueued"

\* A wait returns nil only for a task that succeeded.
TaskDone(t) == t.status = "succeeded"

Enqueue(op, logs) == Append(tasks, [op |-> op, logs |-> logs, status |-> "enqueued"])

-----------------------------------------------------------------------------
(* The joblogs processor: one lane per assignment.                          *)

\* The logs that are stored: dedupeLogsInBatch leaves one per event key.
retainedLogsFromBatch(logs) == logs \cap Retained

BatchLogs(c) == ToSet(lane[c].batch)

\* A step leaves its lane in r.  A canceled lane ends with the call it was in:
\* retry.Do and the runner look at the context before they go on.
Go(c, r) ==
    [lane EXCEPT ![c] = IF @.canceled THEN [IdleLane EXCEPT !.canceled = TRUE] ELSE r]

\* processLogsBatch returns an error: retry.Do, and then the runner, start it
\* again with all the records of the batch.
Again(c) == Go(c, [IdleLane EXCEPT !.pc = "filter", !.batch = lane[c].batch])

LaneOnly == UNCHANGED <<workflow, worker, topic, logOffset, owner, deletion>>

\* The owner takes the next records, up to a batch.
PollBatch(c) ==
    /\ owner = c /\ lane[c].pc = "idle" /\ logOffset < Len(topic)
    /\ \E n \in 1 .. LogBatchSize :
        /\ logOffset + n <= Len(topic)
        /\ lane' = [lane EXCEPT ![c].pc = "filter",
                                ![c].batch = SubSeq(topic, logOffset + 1, logOffset + n)]
    /\ LaneOnly /\ UNCHANGED <<storeVars, logFaults>>

\* What follows a filter once the logs it skipped are cleaned up.
AfterFilter(second, active) ==
    IF active = {} THEN "commit" ELSE IF second THEN "analytics" ELSE "insert"

\* The second filter takes the logs out of the batch and leaves them stored.
SkippedLogsFaulty(second, logs) == IF second THEN {} ELSE retainedLogsFromBatch(logs)

SkippedLogs(second, logs) == retainedLogsFromBatch(logs)

\* The logs whose workflow is still in the workflows table.
fetchActiveWorkflowLogPairs(logs) == {k \in logs : workflow[k[1]] = "LIVE"}

\* The batch without its logs of deleted workflows; the retained ones of those
\* are removed from both stores.  Once before the inserts and once after.
filterActiveWorkflowLogs(c) ==
    LET l == lane[c]
        from == IF l.second THEN l.active ELSE BatchLogs(c)
        active == fetchActiveWorkflowLogPairs(from)
        skipped == SkippedLogs(l.second, from \ active)
        pc == IF skipped # {} THEN "cleanup" ELSE AfterFilter(l.second, active)
    IN
    /\ l.pc = "filter"
    /\ \/ /\ lane' = Go(c, [l EXCEPT !.pc = pc, !.active = active, !.skipped = skipped])
          /\ UNCHANGED logFaults
       \/ Fault /\ lane' = Again(c)
    /\ LaneOnly /\ UNCHANGED storeVars

\* cleanupRetainedLogs: the ClickHouse mutation is waited for.
deleteLogsFromClickHouseByEventID(c) ==
    LET l == lane[c]  rest == clickhouse \ l.skipped IN
    /\ l.pc = "cleanup"
    /\ \/ clickhouse' = rest /\ lane' = Go(c, [l EXCEPT !.pc = "cleanupSearch"]) /\ UNCHANGED logFaults
       \/ Fault /\ lane' = Again(c) /\ clickhouse' \in {clickhouse, rest}
    /\ LaneOnly /\ UNCHANGED <<search, tasks, processed, logsCount>>

deleteLogsFromMeiliSearchByID(c) ==
    LET l == lane[c]  queued == Enqueue("delete", l.skipped) IN
    /\ l.pc = "cleanupSearch"
    /\ \/ /\ tasks' = queued /\ UNCHANGED logFaults
          /\ lane' = Go(c, [l EXCEPT !.pc = "waitCleanup", !.task = Len(queued)])
       \/ Fault /\ lane' = Again(c) /\ tasks' \in {tasks, queued}
    /\ LaneOnly /\ UNCHANGED <<clickhouse, search, processed, logsCount>>

insertLogsBatchToClickhouse(c) ==
    LET l == lane[c]  rows == clickhouse \cup retainedLogsFromBatch(l.active) IN
    /\ l.pc = "insert"
    /\ \/ clickhouse' = rows /\ lane' = Go(c, [l EXCEPT !.pc = "addDocuments"]) /\ UNCHANGED logFaults
       \/ Fault /\ lane' = Again(c) /\ clickhouse' \in {clickhouse, rows}
    /\ LaneOnly /\ UNCHANGED <<search, tasks, processed, logsCount>>

\* Without retained logs there is nothing to add, and the second filter follows.
insertLogsDocumentsToMeiliSearch(c) ==
    LET l == lane[c]
        logs == retainedLogsFromBatch(l.active)
        queued == Enqueue("add", logs)
    IN
    /\ l.pc = "addDocuments"
    /\ \/ /\ logs = {} /\ lane' = Go(c, [l EXCEPT !.pc = "filter", !.second = TRUE])
          /\ UNCHANGED <<tasks, logFaults>>
       \/ /\ logs # {} /\ tasks' = queued /\ UNCHANGED logFaults
          /\ lane' = Go(c, [l EXCEPT !.pc = "waitDocuments", !.task = Len(queued)])
       \/ logs # {} /\ Fault /\ lane' = Again(c) /\ tasks' \in {tasks, queued}
    /\ LaneOnly /\ UNCHANGED <<clickhouse, search, processed, logsCount>>

\* The wait ends with the task, or with the operation timeout while the task
\* is still queued.
waitForMeiliSearchTask(c) ==
    LET l == lane[c]  t == tasks[l.task] IN
    /\ l.pc \in {"waitCleanup", "waitDocuments"}
    /\ \/ /\ TaskDone(t) /\ UNCHANGED logFaults
          /\ lane' = Go(c, IF l.pc = "waitCleanup"
                           THEN [l EXCEPT !.pc = AfterFilter(l.second, l.active)]
                           ELSE [l EXCEPT !.pc = "filter", !.second = TRUE])
       \/ t.status = "failed" /\ ~TaskDone(t) /\ lane' = Again(c) /\ UNCHANGED logFaults
       \/ t.status = "enqueued" /\ Fault /\ lane' = Again(c)
    /\ LaneOnly /\ UNCHANGED storeVars

\* Every key of the batch, also one that is in processed_events.
insertProcessedLogAnalyticsEventsFaulty(events) == events

\* INSERT ... ON CONFLICT DO NOTHING RETURNING event_key.
insertProcessedLogAnalyticsEvents(events) == events \ processed

\* The event keys of the active logs, retained or not, each one once.
collectLogAnalyticsEvents(c) == lane[c].active

updatePartitionLogCounts(new) ==
    [w \in Workflows |-> logsCount[w] + Cardinality({k \in new : k[1] = w})]

\* One transaction: the keys that are new to processed_events are counted.
processLogsAnalytics(c) ==
    LET new == insertProcessedLogAnalyticsEvents(collectLogAnalyticsEvents(c))
        counted == updatePartitionLogCounts(new)
    IN
    /\ lane[c].pc = "analytics"
    /\ \/ /\ processed' = processed \cup new /\ logsCount' = counted
          /\ lane' = Go(c, [lane[c] EXCEPT !.pc = "commit"]) /\ UNCHANGED logFaults
       \/ /\ Fault /\ lane' = Again(c)
          /\ \/ processed' = processed \cup new /\ logsCount' = counted
             \/ UNCHANGED <<processed, logsCount>>
    /\ LaneOnly /\ UNCHANGED <<clickhouse, search, tasks>>

\* The runner commits the batch.
CommitBatch(c) ==
    /\ lane[c].pc = "commit" /\ ~lane[c].canceled
    /\ logOffset' = logOffset + Len(lane[c].batch)
    /\ lane' = [lane EXCEPT ![c] = IdleLane]
    /\ UNCHANGED <<workflow, worker, topic, owner, deletion, logFaults>> /\ UNCHANGED storeVars

\* A canceled lane returns without the effect of the call it was in.
Abandon(c) ==
    /\ lane[c].canceled /\ lane[c].pc # "idle"
    /\ lane' = Again(c)
    /\ LaneOnly /\ UNCHANGED <<storeVars, logFaults>>

\* The partition moves to another lane; the old one, if it is at work, is
\* canceled and may still finish the call it has started.
Rebalance(c) ==
    /\ owner # c /\ lane[c] = IdleLane
    /\ owner' = c
    /\ lane' = [lane EXCEPT ![owner].canceled = TRUE]
    /\ UNCHANGED <<workflow, worker, topic, logOffset, deletion, logFaults>> /\ UNCHANGED storeVars

\* The processor dies and comes back: the batch is read again.
CrashProcessor(c) ==
    /\ owner = c /\ lane[c].pc # "idle" /\ Fault
    /\ lane' = [lane EXCEPT ![c] = IdleLane]
    /\ LaneOnly /\ UNCHANGED storeVars

-----------------------------------------------------------------------------
(* Deletion: the row goes with the DELETE event; the workflow worker then   *)
(* removes the logs, and its runner repeats the record until that worked.   *)

DeleteWorkflow(w) ==
    /\ w \in Deletable /\ workflow[w] = "LIVE"
    /\ workflow' = [workflow EXCEPT ![w] = "DELETED"]
    /\ deletion' = [deletion EXCEPT ![w].pc = "clickhouse"]
    /\ UNCHANGED <<worker, topic, logOffset, logFaults>>
    /\ UNCHANGED <<storeVars, processorVars>>

LogsOf(w) == {l \in Logs : l[1] = w}

DeletionOnly == UNCHANGED <<workflow, worker, topic, logOffset, processed, logsCount, processorVars>>

deleteWorkflowLogsFromClickHouse(w) ==
    /\ deletion[w].pc = "clickhouse"
    /\ \/ /\ clickhouse' = clickhouse \ LogsOf(w) /\ UNCHANGED logFaults
          /\ deletion' = [deletion EXCEPT ![w].pc = "search"]
       \/ /\ Fault /\ UNCHANGED deletion
          /\ clickhouse' \in {clickhouse, clickhouse \ LogsOf(w)}
    /\ DeletionOnly /\ UNCHANGED <<search, tasks>>

deleteWorkflowLogsFromMeiliSearch(w) ==
    /\ deletion[w].pc = "search"
    /\ \/ /\ tasks' = Enqueue("delete", LogsOf(w)) /\ UNCHANGED logFaults
          /\ deletion' = [deletion EXCEPT ![w] = [pc |-> "wait", task |-> Len(tasks')]]
       \/ /\ Fault
          /\ deletion' = [deletion EXCEPT ![w].pc = "clickhouse"]
          /\ tasks' \in {tasks, Enqueue("delete", LogsOf(w))}
    /\ DeletionOnly /\ UNCHANGED <<clickhouse, search>>

waitForMeiliSearchDeleteTask(w) ==
    LET t == tasks[deletion[w].task] IN
    /\ deletion[w].pc = "wait"
    /\ \/ /\ TaskDone(t) /\ UNCHANGED logFaults
          /\ deletion' = [deletion EXCEPT ![w] = [pc |-> "done", task |-> 0]]
       \/ /\ ~TaskDone(t)
          /\ IF t.status = "failed" THEN UNCHANGED logFaults ELSE Fault
          /\ deletion' = [deletion EXCEPT ![w] = [pc |-> "clickhouse", task |-> 0]]
    /\ DeletionOnly /\ UNCHANGED <<clickhouse, search, tasks>>

-----------------------------------------------------------------------------
WorkerStep(w) == ReceiveLine(w) \/ publishJobLogBatch(w) \/ EndLogs(w)

LaneStep(c) ==
    \/ PollBatch(c) \/ filterActiveWorkflowLogs(c)
    \/ deleteLogsFromClickHouseByEventID(c) \/ deleteLogsFromMeiliSearchByID(c)
    \/ insertLogsBatchToClickhouse(c) \/ insertLogsDocumentsToMeiliSearch(c)
    \/ waitForMeiliSearchTask(c) \/ processLogsAnalytics(c) \/ CommitBatch(c) \/ Abandon(c)

DeletionStep(w) ==
    \/ deleteWorkflowLogsFromClickHouse(w)
    \/ deleteWorkflowLogsFromMeiliSearch(w)
    \/ waitForMeiliSearchDeleteTask(w)

LogsNext ==
    \/ \E w \in Workflows :
        WorkerStep(w) \/ replayContainerLogs(w) \/ DeleteWorkflow(w) \/ DeletionStep(w)
    \/ \E c \in LogLanes : LaneStep(c) \/ Rebalance(c) \/ CrashProcessor(c)
    \/ MeilisearchTask

LogsSpec == LogsInit /\ [][LogsNext]_logVars

\* Goroutines run, Meilisearch works off its queue, and a call that fails is
\* repeated; failures are finitely many.
LogsFairness ==
    /\ \A w \in Workflows : WF_logVars(WorkerStep(w)) /\ WF_logVars(DeletionStep(w))
    /\ \A c \in LogLanes : WF_logVars(LaneStep(c))
    /\ WF_logVars(MeilisearchTask)

LogsFairSpec == LogsSpec /\ LogsFairness

-----------------------------------------------------------------------------
CommittedLogs == {topic[i] : i \in 1 .. logOffset}
Pending(l) ==
    \/ \E i \in logOffset + 1 .. Len(topic) : topic[i] = l
    \/ \E c \in LogLanes : l \in BatchLogs(c)
    \/ \E i \in DOMAIN tasks : tasks[i].status = "enqueued" /\ l \in tasks[i].logs

LogsTypeOK ==
    /\ workflow \in [Workflows -> {"LIVE", "DELETED"}]
    /\ worker \in [Workflows -> [state : {"RUNNING", "REPLAY", "ENDED"}, line : 0 .. NumLines,
                                 records : BoundedSeq(Logs, LogBatchSize), failed : 0 .. Retries - 1]]
    /\ topic \in Seq(Logs) /\ logOffset \in 0 .. Len(topic)
    /\ owner \in LogLanes
    /\ \A c \in LogLanes : BatchLogs(c) \subseteq Logs /\ lane[c].active \subseteq BatchLogs(c)
    /\ clickhouse \subseteq Retained /\ search \subseteq Retained
    /\ processed \subseteq Logs /\ logsCount \in [Workflows -> Nat]
    /\ logFaults \in 0 .. MaxLogFaults

(* deleteWorkflow "completes the deletion of a workflow by removing all    *)
(* associated logs": when the DELETE event is handled, neither store keeps *)
(* a log of the workflow whose records are all committed and that no lane  *)
(* and no Meilisearch task is working on.                                  *)
DeletedLogsGone ==
    \A l \in Logs :
        workflow[l[1]] = "DELETED" /\ deletion[l[1]].pc = "done" /\ ~Pending(l)
            => l \notin clickhouse \cup search

(* An offset is committed only when the retained logs before it are in     *)
(* both stores, or their workflow is gone: processRecordsBatch has no way   *)
(* past a failed insert, task or timeout.                                  *)
CommittedLogsStored ==
    \A l \in CommittedLogs \cap Retained :
        workflow[l[1]] = "LIVE" => l \in clickhouse /\ l \in search

(* processLogsAnalytics counts each line of a live workflow once, however  *)
(* often it was published or delivered, and whether or not it is retained. *)
EachLineCountedOnce ==
    \A w \in Workflows :
        LET lines(S) == Cardinality({l \in S : l[1] = w}) IN
        /\ logsCount[w] <= lines(ToSet(topic))
        /\ workflow[w] = "LIVE" => lines(CommittedLogs) <= logsCount[w]

(* Together: the logs below the committed offset are stored, a line counts *)
(* once, however often it is delivered, and those of a deleted workflow    *)
(* are gone from both stores as long as the partition has kept its owner.  *)
LogsStoredOnce ==
    /\ LogsTypeOK /\ CommittedLogsStored /\ EachLineCountedOnce
    /\ (\A c \in LogLanes : ~lane[c].canceled) => DeletedLogsGone

(* Every record of the topic is committed in the end, and the logs of a    *)
(* deleted workflow are gone for good once its job has ended.              *)
LogsSettle ==
    /\ <>[](logOffset = Len(topic))
    /\ \A w \in Workflows :
        [](workflow[w] = "DELETED" => <>[](LogsOf(w) \cap (clickhouse \cup search) = {}))
=============================================================================

----------------------------- MODULE MCPipeline -----------------------------
(* The way of events and logs: the outbox relay, the job log pipeline, log   *)
(* reads, and analytics.  Each is modelled with what it sees of the others,  *)
(* so a property of one of them holds in all behaviours if it holds in those *)
(* in which the others never move: part says which one moves.                *)
EXTENDS OutboxRelay, JobLogs, LogReads, TLC

CONSTANTS
    Parts,                                               \* the parts of a run
    e1, e2, e3, k1, k2, Nobody

VARIABLES
    part,
    eventLog, offset, assignee, counting, counts, counted, aged, tx, queue, asking, dups,
    countFaults

-----------------------------------------------------------------------------
\* e1 before e2 under one key, e3 under another.
TwoKeys == [e \in Events |-> IF e = e3 THEN k2 ELSE k1]
ByName == [e \in Events |-> CASE e = e1 -> 1 [] e = e2 -> 2 [] OTHER -> 3]

-----------------------------------------------------------------------------
(* Job logs: two workflows, one of which keeps its logs; one workflow and a  *)
(* partition that is assigned to one lane after another; two lines in one    *)
(* batch.                                                                    *)
LogParts == {"store", "overlap", "settle"}

(* Log reads: what a search matches of the logs of two attempts is read and  *)
(* downloaded upward, walk after walk, or the logs are listed downward in    *)
(* the dashboard, which does not see how far behind Meilisearch is.  In      *)
(* either order the row of the retry goes in between the rows of a page that *)
(* may be cached and of the next one.                                        *)
Row(s, a) == [seq |-> s, attempt |-> a]
OneAttempt == <<Row(0, 1), Row(1, 1), Row(2, 1)>>
Matches == Append(OneAttempt, Row(2, 2))
Lines == Append(OneAttempt, Row(0, 2))
LogRows == UNION {{s[i] : i \in DOMAIN s} : s \in {Matches, Lines}}
EventBefore(a, b) == a.attempt > 1 /\ (b.attempt = 1 \/ a.attempt < b.attempt)
Upward(a, b) == a.seq < b.seq \/ (a.seq = b.seq /\ EventBefore(a, b))
Downward(a, b) == a.seq > b.seq \/ (a.seq = b.seq /\ EventBefore(a, b))
Dashboard == INSTANCE LogReads WITH
    Arrivals <- Lines, Before <- Downward, Searchers <- {}, Downloads <- {}

(* Analytics: two jobs, of one workflow or of two, whose events are consumed *)
(* by two processors, or read by a call; two log lanes that share lines   *)
(* 1 and 2, which arrived in different orders.                               *)
CountParts == {"events", "reads", "lines", "count"}
LaneBatch(p) ==
    CASE p = "lines" -> [p1 |-> <<1, 2>>, p2 |-> <<2, 1, 3, 4>>]
      [] p = "count" -> [p1 |-> <<1, 2>>, p2 |-> <<4, 3>>]
      [] OTHER -> <<>>
JobsOf(p) ==
    CASE p = "events" -> [j1 |-> "w1", j2 |-> "w1"]
      [] p = "reads" -> [j1 |-> "w1", j2 |-> "w2"]
      [] p = "lines" -> [j1 |-> "w1"]
      [] OTHER -> <<>>
LinesOf(p) == IF p \in {"lines", "count"} THEN [k \in 1 .. 4 |-> IF k % 2 = 1 THEN "w1" ELSE "w2"] ELSE <<>>
Count(p) == INSTANCE Analytics WITH
    Workflows <- {"w1", "w2"}, Kind <- [w1 |-> "CONTAINER", w2 |-> "HEARTBEAT"],
    Jobs <- DOMAIN JobsOf(p), JobWorkflow <- JobsOf(p),
    Duration <- [j \in DOMAIN JobsOf(p) |-> IF j = "j1" THEN 1 ELSE 2],
    Legacy <- (IF p = "reads" THEN {"w2"} ELSE {}),
    Invalid <- (IF p = "reads" THEN {"w2"} ELSE {}),
    LogKeys <- DOMAIN LinesOf(p), LogWorkflow <- LinesOf(p),
    Processors <- DOMAIN LaneBatch(p), Batch <- LaneBatch(p),
    Consumers <- (IF p = "events" THEN {"c1", "c2"} ELSE {"c1"}),
    Readers <- (IF p = "reads" THEN {"r1"} ELSE {}),
    CleanupBatch <- 1, TopLimit <- 2,
    MaxDup <- (IF p = "events" THEN 1 ELSE 0),
    MaxFaults <- (IF p \in {"events", "lines"} THEN 1 ELSE 0),
    topic <- eventLog, committed <- offset, owner <- assignee, consumer <- counting,
    rows <- counts, processed <- counted, reader <- asking, faults <- countFaults

ASSUME PipelineAssumption ==
    /\ \A p \in CountParts : Count(p)!AnalyticsAssumption
    /\ LogReadsAssumption /\ Dashboard!LogReadsAssumption

-----------------------------------------------------------------------------
countVars == <<eventLog, offset, assignee, counting, counts, counted, aged, tx, queue, asking,
               dups, countFaults>>
allVars == <<part, relayVars, logVars, readsVars, countVars>>

\* A part that does not move has one initial state; lanes and consumers are
\* interchangeable, so any may own its partition first.
PipelineInit ==
    /\ part \in Parts
    /\ RelayInit
    /\ LogsInit /\ owner = "l1"
    /\ ReadsInit
    /\ \E p \in CountParts : p = (IF part \in CountParts THEN part ELSE "count") /\ Count(p)!Init
    /\ assignee = "c1"

PipelineNext ==
    \/ part = "outbox" /\ RelayNext /\ UNCHANGED <<part, logVars, readsVars, countVars>>
    \/ /\ part \in LogParts /\ LogsNext
       /\ part = "store" => owner' = owner
       /\ part = "overlap" => worker'["w2"] = worker["w2"]
       /\ UNCHANGED <<part, relayVars, readsVars, countVars>>
    \/ part = "download" /\ ReadsNext /\ UNCHANGED <<part, relayVars, logVars, countVars>>
    \/ /\ part = "dashboard" /\ Dashboard!ReadsNext /\ (indexed = rows \/ indexed' = rows)
       /\ UNCHANGED <<part, relayVars, logVars, countVars>>
    \/ /\ \E p \in CountParts : part = p /\ Count(p)!Next
       /\ UNCHANGED <<part, relayVars, logVars, readsVars>>

PipelineSpec == PipelineInit /\ [][PipelineNext]_allVars

\* The fairness of each part, in the behaviours in which it moves.
PipelineFairness ==
    /\ \A e \in Events :
          /\ WF_relayVars(part = "outbox" /\ \E r \in Relays, S \in SUBSET Events : e \in S /\ Claim(r, S))
          /\ WF_relayVars(part = "outbox" /\ ~Claimed(e) /\ LockExpires(e))
    /\ \A r \in Relays : WF_relayVars(part = "outbox" /\ \E b \in claims : b[1] = r /\ publishEvent(b))
    /\ WF_logVars(part = "settle" /\ WorkerStep("w1"))
    /\ WF_logVars(part = "settle" /\ DeletionStep("w1"))
    /\ WF_logVars(part = "settle" /\ LaneStep("l1"))
    /\ WF_logVars(part = "settle" /\ MeilisearchTask)
    /\ \A e \in Count("count")!CountedEvents : WF_countVars(part = "count" /\ Count("count")!Publish(e))
    /\ WF_countVars(part = "count" /\ Count("count")!ConsumerStep("c1"))
    /\ SF_countVars(part = "count" /\ Count("count")!processRecord("c1"))
    /\ \A p \in {"p1", "p2"} : WF_countVars(part = "count" /\ Count("count")!TxStep(p))

FairPipelineSpec == PipelineSpec /\ PipelineFairness

-----------------------------------------------------------------------------
\* A job counts once, and so does a line that two lanes have, whose
\* transactions never wait for each other's keys; the answers of
\* GetUserAnalytics add up.
CountedOnce ==
    /\ \A p \in CountParts : part = p => Count(p)!TypeOK /\ Count(p)!JobsCountedOnce
    /\ part = "reads" => Count("reads")!AnswersAddUp
    /\ part = "lines" => Count("lines")!LinesCountedOnce /\ Count("lines")!KeysNeverDeadlock

\* Every committed outbox row is published in the end, every event and line
\* is counted, and the logs of every job are stored or gone with their workflow.
EverythingArrives ==
    /\ part = "outbox" => EventPublished
    /\ part = "count" => Count("count")!EverythingCounted
    /\ part = "settle" => LogsSettle
=============================================================================

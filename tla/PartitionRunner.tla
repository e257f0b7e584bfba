--------------------------- MODULE PartitionRunner ---------------------------
(***************************************************************************)
(* One Kafka partition and a runner that consumes it                       *)
(* (internal/pkg/kafka/partition_runner.go), which every worker is built   *)
(* on.  Three kinds of goroutines meet on the state of the runner: Run,    *)
(* which polls and dispatches; the lanes, which process and commit; and    *)
(* the rebalance callbacks of the Kafka client.                            *)
(*                                                                         *)
(* assign creates no lane and revoke deletes the lane of the partition, so *)
(* there is at most one lane per assignment: a lane is named by the number *)
(* of the assignment (session) it was created in.  A lane of an earlier    *)
(* session may still be inside the processor.                              *)
(*                                                                         *)
(* A process that crashes is a revoked session whose goroutines take no    *)
(* further step.                                                           *)
(***************************************************************************)
EXTENDS Integers, Sequences

CONSTANTS
    N,            \* records of the partition, at offsets 1 .. N
    MaxSessions,  \* bound on the assignments of the partition to this runner
    Buffer,       \* ChannelBuffer
    BatchSize,
    MaxFailures   \* bound on retryable processing errors and commit errors

ASSUME RunnerAssumption ==
    /\ N \in Nat /\ MaxSessions \in Nat /\ MaxFailures \in Nat
    /\ Buffer \in Nat \ {0} /\ BatchSize \in Nat \ {0}

Offsets == 1 .. N
Lanes == 1 .. MaxSessions
Run == 0    \* the goroutine of Run, as a caller of setPaused
Callers == Lanes \cup {Run}

VARIABLES
    committed,                    \* the group's offset: next record to read
    fenced,                       \* another member has the partition since the revoke
    handled,                      \* records whose processing is settled
    session, assigned,            \* the runner's assignments
    position, paused,             \* the client's fetch position; fetch paused
    step, polled, target,         \* Run: where it is, what it polled, its lane
    pollSession,                  \* history: the assignment the poll read under
    strayed,                      \* history: records put into the lane of a later one
    ctl, queue, batch,            \* the lanes
    backlogPaused, retryPaused,
    call,                         \* client call that setPaused has yet to make
    failures

groupVars == <<committed, fenced, handled>>
clientVars == <<session, assigned, position, paused>>
strayVars == <<pollSession, strayed>>
runVars == <<step, polled, target, strayVars>>
pauseVars == <<backlogPaused, retryPaused, call>>
vars == <<groupVars, clientVars, runVars, ctl, queue, batch, pauseVars, failures>>

Steps == {"poll", "dispatch", "enqueue", "backlog", "stopped"}
Ctls == {"none", "idle", "gather", "resume", "process", "working", "commit", "committing",
         "done"}
Calls == {"none", "wantPause", "wantResume", "pause", "resume"}

TypeOK ==
    /\ committed \in 1 .. N + 1
    /\ fenced \in BOOLEAN
    /\ handled \subseteq Offsets
    /\ session \in 0 .. MaxSessions
    /\ assigned \in BOOLEAN
    /\ position \in 0 .. N + 1
    /\ paused \in BOOLEAN
    /\ step \in Steps
    /\ polled \in Seq(Offsets)
    /\ target \in 0 .. MaxSessions
    /\ pollSession \in 0 .. MaxSessions
    /\ strayed \subseteq Offsets
    /\ ctl \in [Lanes -> Ctls]
    /\ queue \in [Lanes -> Seq(Offsets)]
    /\ batch \in [Lanes -> Seq(Offsets)]
    /\ backlogPaused \in [Lanes -> BOOLEAN]
    /\ retryPaused \in [Lanes -> BOOLEAN]
    /\ call \in [Callers -> Calls]
    /\ failures \in 0 .. MaxFailures

Init ==
    /\ committed = 1
    /\ fenced = TRUE
    /\ handled = {}
    /\ session = 0
    /\ assigned = FALSE
    /\ position = 0
    /\ paused = FALSE
    /\ step = "poll"
    /\ polled = <<>>
    /\ target = 0
    /\ pollSession = 0
    /\ strayed = {}
    /\ ctl = [l \in Lanes |-> "none"]
    /\ queue = [l \in Lanes |-> <<>>]
    /\ batch = [l \in Lanes |-> <<>>]
    /\ backlogPaused = [l \in Lanes |-> FALSE]
    /\ retryPaused = [l \in Lanes |-> FALSE]
    /\ call = [c \in Callers |-> "none"]
    /\ failures = 0

Min2(a, b) == IF a < b THEN a ELSE b
Elements(s) == {s[i] : i \in DOMAIN s}
LastOffset(s) == s[Len(s)]

CanceledFaulty(l) == FALSE

\* The context of the lane: revoke and stopAll cancel it.
Canceled(l) == l # session \/ ~assigned \/ step = "stopped"

\* Whether the runner's map still holds the lane.
ownsLane(l) == l = session /\ assigned /\ ctl[l] # "none" /\ step # "stopped"

-----------------------------------------------------------------------------
(* The consumer group and the client's callbacks *)

\* OnPartitionsAssigned.  The client reads on from the group's offset.
assign ==
    /\ ~assigned /\ session < MaxSessions /\ step # "stopped"
    /\ session' = session + 1
    /\ assigned' = TRUE
    /\ position' = committed
    /\ paused' = FALSE
    /\ fenced' = FALSE
    /\ UNCHANGED <<committed, handled, runVars, ctl, queue, batch, pauseVars, failures>>

\* OnPartitionsRevoked and OnPartitionsLost.  The client is built without
\* BlockRebalanceOnPoll: the callbacks run at any moment, between a poll and the
\* dispatch of its records too.
revoke ==
    /\ assigned
    /\ assigned' = FALSE
    /\ position' = 0
    /\ paused' = FALSE
    /\ UNCHANGED <<groupVars, session, runVars, ctl, queue, batch, pauseVars, failures>>

\* While the partition is not assigned here, another member consumes it; the group
\* has then moved on to another generation.
OtherMember ==
    /\ ~assigned /\ committed <= N
    /\ fenced' = TRUE
    /\ handled' = handled \cup {committed}
    /\ committed' = committed + 1
    /\ UNCHANGED <<clientVars, runVars, ctl, queue, batch, pauseVars, failures>>

-----------------------------------------------------------------------------
(* setPaused: the flags change under the lane's mutex; whether the lane is  *)
(* still owned is looked up under the runner's; the client is called under  *)
(* neither.                                                                 *)

setPaused(c, l, backlog, retry) ==
    LET was == backlogPaused[l] \/ retryPaused[l]
        is  == backlog \/ retry
    IN  /\ backlogPaused' = [backlogPaused EXCEPT ![l] = backlog]
        /\ retryPaused' = [retryPaused EXCEPT ![l] = retry]
        /\ call' = [call EXCEPT ![c] =
                        IF was = is THEN "none"
                        ELSE IF is THEN "wantPause" ELSE "wantResume"]

LaneOf(c) == IF c = Run THEN target ELSE c

CheckOwner(c) ==
    /\ call[c] \in {"wantPause", "wantResume"}
    /\ call' = [call EXCEPT ![c] =
                    IF ~ownsLane(LaneOf(c)) THEN "none"
                    ELSE IF call[c] = "wantPause" THEN "pause" ELSE "resume"]
    /\ UNCHANGED <<groupVars, clientVars, runVars, ctl, queue, batch,
                   backlogPaused, retryPaused, failures>>

\* PauseFetchPartitions, ResumeFetchPartitions.
CallClient(c) ==
    /\ call[c] \in {"pause", "resume"}
    /\ paused' = (call[c] = "pause")
    /\ call' = [call EXCEPT ![c] = "none"]
    /\ UNCHANGED <<groupVars, session, assigned, position, runVars, ctl, queue, batch,
                   backlogPaused, retryPaused, failures>>

-----------------------------------------------------------------------------
(* Run *)

\* PollFetches returns some of the records from the fetch position on.
Poll(n) ==
    /\ step = "poll" /\ call[Run] = "none"
    /\ assigned /\ ~paused
    /\ position + n <= N + 1
    /\ polled' = [i \in 1 .. n |-> position + i - 1]
    /\ position' = position + n
    /\ step' = "dispatch"
    /\ pollSession' = session
    /\ UNCHANGED <<groupVars, session, assigned, paused, target, strayed, ctl, queue, batch,
                   pauseVars, failures>>

\* laneFor: the records of an unassigned partition are skipped; a lane is created
\* if the map holds none.  Nothing tells a partition that was revoked and assigned
\* again since the poll from one that was not.
dispatchPartition ==
    /\ step = "dispatch"
    /\ IF assigned
       THEN /\ target' = session
            /\ ctl' = [ctl EXCEPT ![session] = IF @ = "none" THEN "idle" ELSE @]
            /\ step' = "enqueue"
            /\ strayed' = IF pollSession = session THEN strayed
                                                  ELSE strayed \cup Elements(polled)
            /\ UNCHANGED polled
       ELSE /\ step' = "poll"
            /\ polled' = <<>>
            /\ UNCHANGED <<target, ctl, strayed>>
    /\ UNCHANGED <<groupVars, clientVars, pollSession, queue, batch, pauseVars, failures>>

enqueueFaulty ==
    /\ step = "enqueue"
    /\ queue' = [queue EXCEPT ![target] = polled \o @]
    /\ polled' = <<>>
    /\ step' = IF Len(queue'[target]) >= Buffer THEN "backlog" ELSE "poll"
    /\ UNCHANGED <<groupVars, clientVars, target, strayVars, ctl, batch, pauseVars, failures>>

enqueue ==
    /\ step = "enqueue"
    /\ queue' = [queue EXCEPT ![target] = @ \o polled]
    /\ polled' = <<>>
    /\ step' = IF Len(queue'[target]) >= Buffer THEN "backlog" ELSE "poll"
    /\ UNCHANGED <<groupVars, clientVars, target, strayVars, ctl, batch, pauseVars, failures>>

\* The queue was full when the records were added.
PauseBacklog ==
    /\ step = "backlog"
    /\ step' = "poll"
    /\ setPaused(Run, target, TRUE, retryPaused[target])
    /\ UNCHANGED <<groupVars, clientVars, polled, target, strayVars, ctl, queue, batch, failures>>

\* Run's context is done: it polls and dispatches no more and cancels the lanes.
stopAll ==
    /\ step \in {"poll", "dispatch"} /\ call[Run] = "none"
    /\ step' = "stopped"
    /\ polled' = <<>>
    /\ UNCHANGED <<groupVars, clientVars, target, strayVars, ctl, queue, batch, pauseVars,
                   failures>>

-----------------------------------------------------------------------------
(* A lane *)

\* pop, and the records already queued behind the first one.
popBatch(l) ==
    /\ ctl[l] = "idle" /\ queue[l] # <<>>
    /\ LET n == Min2(BatchSize, Len(queue[l]))
       IN  /\ batch' = [batch EXCEPT ![l] = SubSeq(queue[l], 1, n)]
           /\ queue' = [queue EXCEPT ![l] = SubSeq(@, n + 1, Len(@))]
    /\ ctl' = [ctl EXCEPT ![l] = "gather"]
    /\ UNCHANGED <<groupVars, clientVars, runVars, pauseVars, failures>>

\* Records that arrive during the batch interval.
drain(l) ==
    /\ ctl[l] = "gather" /\ ~Canceled(l)
    /\ queue[l] # <<>> /\ Len(batch[l]) < BatchSize
    /\ LET n == Min2(BatchSize - Len(batch[l]), Len(queue[l]))
       IN  /\ batch' = [batch EXCEPT ![l] = @ \o SubSeq(queue[l], 1, n)]
           /\ queue' = [queue EXCEPT ![l] = SubSeq(@, n + 1, Len(@))]
    /\ UNCHANGED <<groupVars, clientVars, runVars, ctl, pauseVars, failures>>

\* The batch is full or its interval is over: the length of the queue is read ...
resumeBacklogIfReady(l) ==
    /\ ctl[l] = "gather"
    /\ ctl' = [ctl EXCEPT ![l] =
                   IF Len(queue[l]) <= Buffer \div 2 THEN "resume" ELSE "process"]
    /\ UNCHANGED <<groupVars, clientVars, runVars, queue, batch, pauseVars, failures>>

\* ... and acted upon, when it may have changed.
ResumeBacklog(l) ==
    /\ ctl[l] = "resume"
    /\ ctl' = [ctl EXCEPT ![l] = "process"]
    /\ setPaused(l, l, FALSE, retryPaused[l])
    /\ UNCHANGED <<groupVars, clientVars, runVars, queue, batch, failures>>

\* The loops of processAndCommit and commit check the context; a canceled lane
\* stops, waiting or between two calls, and its pause for retries ends.
StopLane(l) ==
    /\ ctl[l] \in {"idle", "gather", "process", "commit"} /\ Canceled(l)
    /\ ctl' = [ctl EXCEPT ![l] = "done"]
    /\ setPaused(l, l, backlogPaused[l], FALSE)
    /\ UNCHANGED <<groupVars, clientVars, runVars, queue, batch, failures>>

CallProcessor(l) ==
    /\ ctl[l] = "process" /\ ~Canceled(l)
    /\ ctl' = [ctl EXCEPT ![l] = "working"]
    /\ UNCHANGED <<groupVars, clientVars, runVars, queue, batch, pauseVars, failures>>

\* The processor succeeded, or failed with a code that ShouldCommitOnError lets
\* through; the lane may have been canceled meanwhile.
Processed(l) ==
    /\ ctl[l] = "working"
    /\ handled' = handled \cup Elements(batch[l])
    /\ ctl' = [ctl EXCEPT ![l] = "commit"]
    /\ UNCHANGED <<committed, fenced, clientVars, runVars, queue, batch, pauseVars, failures>>

\* The processor gave up because its context is canceled: whatever error it returns,
\* the next check of the context stops the lane.
Aborted(l) ==
    /\ ctl[l] = "working" /\ Canceled(l)
    /\ ctl' = [ctl EXCEPT ![l] = "process"]
    /\ UNCHANGED <<groupVars, clientVars, runVars, queue, batch, pauseVars, failures>>

RetryFaulty(l) ==
    /\ ctl[l] = "working" /\ failures < MaxFailures
    /\ failures' = failures + 1
    /\ ctl' = [ctl EXCEPT ![l] = "idle"]
    /\ batch' = [batch EXCEPT ![l] = <<>>]
    /\ setPaused(l, l, backlogPaused[l], TRUE)
    /\ UNCHANGED <<groupVars, clientVars, runVars, queue>>

\* A retryable error: the fetch is paused and the same records are tried again.
Retry(l) ==
    /\ ctl[l] = "working" /\ failures < MaxFailures
    /\ failures' = failures + 1
    /\ ctl' = [ctl EXCEPT ![l] = "process"]
    /\ setPaused(l, l, backlogPaused[l], TRUE)
    /\ UNCHANGED <<groupVars, clientVars, runVars, queue, batch>>

CheckCommit(l) ==
    /\ ctl[l] = "commit" /\ ~Canceled(l)
    /\ ctl' = [ctl EXCEPT ![l] = IF ownsLane(l) THEN "committing" ELSE "done"]
    /\ UNCHANGED <<groupVars, clientVars, runVars, queue, batch, pauseVars, failures>>

\* CommitRecords runs under the lane's context.  A request already sent when the
\* context is canceled carries the generation of the revoked assignment.
Accepted(l) == ~Canceled(l) \/ (l = session /\ ~fenced)

CommittedFaulty(l) ==
    /\ ctl[l] = "committing" /\ Accepted(l)
    /\ committed' = LastOffset(batch[l]) + 1
    /\ batch' = [batch EXCEPT ![l] = <<>>]
    /\ ctl' = [ctl EXCEPT ![l] = "idle"]
    /\ UNCHANGED <<fenced, handled, clientVars, runVars, queue, pauseVars, failures>>

\* The commit is acknowledged; a pause for retries ends.
Committed(l) ==
    /\ ctl[l] = "committing" /\ Accepted(l)
    /\ committed' = LastOffset(batch[l]) + 1
    /\ batch' = [batch EXCEPT ![l] = <<>>]
    /\ ctl' = [ctl EXCEPT ![l] = "idle"]
    /\ setPaused(l, l, backlogPaused[l], FALSE)
    /\ UNCHANGED <<fenced, handled, clientVars, runVars, queue, failures>>

\* CommitRecords failed, or only its answer was lost; a canceled lane does not try
\* again.
CommitFailed(l) ==
    /\ ctl[l] = "committing"
    /\ \/ UNCHANGED committed
       \/ Accepted(l) /\ committed' = LastOffset(batch[l]) + 1
    /\ IF Canceled(l)
       THEN /\ ctl' = [ctl EXCEPT ![l] = "done"]
            /\ setPaused(l, l, backlogPaused[l], FALSE)
            /\ UNCHANGED failures
       ELSE /\ failures < MaxFailures
            /\ failures' = failures + 1
            /\ ctl' = [ctl EXCEPT ![l] = "commit"]
            /\ setPaused(l, l, backlogPaused[l], TRUE)
    /\ UNCHANGED <<fenced, handled, clientVars, runVars, queue, batch>>

-----------------------------------------------------------------------------
processAndCommit(l) ==
    \/ CallProcessor(l) \/ Processed(l) \/ Aborted(l) \/ Retry(l)
    \/ CheckCommit(l) \/ Committed(l) \/ CommitFailed(l)

runLane(l) ==
    /\ call[l] = "none"
    /\ popBatch(l) \/ drain(l) \/ resumeBacklogIfReady(l) \/ ResumeBacklog(l)
         \/ StopLane(l) \/ processAndCommit(l)

RunLoop == (\E n \in 1 .. N : Poll(n)) \/ dispatchPartition \/ enqueue \/ PauseBacklog

Next ==
    \/ assign \/ revoke \/ OtherMember
    \/ RunLoop \/ stopAll
    \/ \E c \in Callers : CheckOwner(c) \/ CallClient(c)
    \/ \E l \in Lanes : runLane(l)

Spec == Init /\ [][Next]_vars

\* Goroutines are scheduled, processors and commits answer (they fail retryably
\* at most MaxFailures times), the group has other members, and a worker that
\* shuts down leaves it.  Neither rebalances nor a shutdown are assumed to happen.
Fairness ==
    /\ WF_vars(RunLoop)
    /\ WF_vars(OtherMember)
    /\ WF_vars(step = "stopped" /\ revoke)
    /\ \A c \in Callers : WF_vars(CheckOwner(c) \/ CallClient(c))
    /\ \A l \in Lanes : WF_vars(runLane(l))

FairSpec == Spec /\ Fairness

-----------------------------------------------------------------------------
(* Safety *)

\* The code lets one case break the order of the partition: the partition is revoked
\* and assigned again between a poll and the dispatch of its records, which then
\* enter the lane of the new assignment ahead of what it reads again.  A record with
\* such a stray behind it may be overtaken; every other one is held to what follows.
Excused(p) == \E s \in strayed : p < s

\* The group's offset never passes a record whose processing is not settled, so
\* that none is skipped: not after retryable errors, not when a lane is revoked
\* in the middle of its work, not when the partition comes back while a lane of
\* an earlier assignment is still inside the processor.  Only a stray can carry
\* the offset past records before it.
CommittedPrefixHandled == \A o \in 1 .. committed - 1 : o \in handled \/ Excused(o)

\* docs/architecture.md:196: "Partition-aware Kafka workers preserve per-partition
\* ordering": a record is settled only after every record before it, through every
\* rebalance, retry and late answer.  A stray is the one exception, which the
\* sentence does not make.
HandledInOrder == \A o \in handled : \A p \in 1 .. o - 1 : p \in handled \/ Excused(p)

(* What no step may do *)

\* A rebalance, a late commit or a retried one never moves the group's offset
\* back, unless to a record that a stray came after: the stray was committed, and
\* the records before it are read and committed again; or another member went
\* further, and the stray is committed last.
CommitNeverRewinds ==
    [][committed' >= committed \/ \E s \in strayed : committed' <= s + 1]_vars

\* The offset moves only because another member has the partition, or because the
\* lane of the last assignment commits its batch: never because of a lane of an
\* earlier assignment, however late its processor returns.
StaleLaneNeverCommits ==
    [][committed' # committed =>
        \/ fenced'
        \/ ctl[session] = "committing" /\ committed' = LastOffset(batch[session]) + 1]_vars

(* Liveness *)

\* Whatever is retried, revoked or paused on the way, the whole partition is read,
\* settled and committed, here or by another member.
AllCommitted == <>(committed = N + 1)
==============================================================================

---------------------------- MODULE Kafka_proofs ----------------------------
(***************************************************************************)
(* Proofs about both ends of a Kafka topic, and about the logs of jobs,    *)
(* from the topic into the stores and from there to their readers.         *)
(*                                                                         *)
(* PartitionRunner, which drains one partition of it: the group's offset   *)
(* skips no record, records are settled in order and the offset does not   *)
(* go back, but for the strays of a rebalance that overtakes a poll.       *)
(* Neither property is inductive.  What is: the records on their way       *)
(* through a lane - batch, then queue, then what Run has polled - are each *)
(* preceded by every smaller offset that is neither settled nor excused,   *)
(* and everything below the fetch position is settled or on its way; and   *)
(* each record on its way is compared with all that follow it (Chained).   *)
(*                                                                         *)
(* OutboxRelay, which fills it, for any number of events, keys and relays  *)
(* and any bounds: a claim in memory was counted on its row, and a row is  *)
(* claimed only when the earlier ones of its key are out.                  *)
(*                                                                         *)
(* JobLogs, for any number of workflows, lines, lanes and faults: the      *)
(* logs below the committed offset are stored, a line counts once, and     *)
(* the deletion of a workflow leaves none of its logs behind.  What is     *)
(* inductive: how far each lane has come with its batch (LaneInv), what    *)
(* Meilisearch's queue still holds (QueueInv), and, for the deletion, that *)
(* nothing brings back a log that it has passed (CleanInv).                *)
(*                                                                         *)
(* LogReads, for any rows in any order of arrival, any readers and any     *)
(* page size.  Both stores hold the first so many arrivals (StoresInv), so *)
(* a row that came after the table a cached page was read from, and falls  *)
(* into that page, was stored in between earlier rows (PageInv, LaterRow). *)
(***************************************************************************)
EXTENDS OutboxRelay, PartitionRunner, JobLogs, LogReads, FiniteSetTheorems, SequenceTheorems, TLAPS

-----------------------------------------------------------------------------
(* The partition runner.                                                   *)

Occupied == {"gather", "resume", "process", "working", "commit", "committing"}

PolledLane == IF step = "dispatch" THEN session ELSE target

\* Settled, or excused from it by a stray behind.
Cleared == handled \cup {p \in Offsets : Excused(p)}

\* The polled records belong to the lane that they are in or about to enter.
Fresh == step = "enqueue" \/ (step = "dispatch" /\ pollSession = session)

InLane(l, p) == p \in Cleared \/ p \in Elements(batch[l]) \/ p \in Elements(queue[l])

LaneShape(l) ==
    /\ (l > session \/ ctl[l] = "none")
         => ctl[l] = "none" /\ queue[l] = <<>> /\ batch[l] = <<>>
    /\ ctl[l] \in Occupied => batch[l] # <<>>
    /\ ctl[l] = "idle" => batch[l] = <<>>
    /\ ctl[l] \in {"commit", "committing"} => Elements(batch[l]) \subseteq handled

Shape ==
    /\ assigned => session >= 1 /\ position >= 1
    /\ pollSession <= session
    /\ step = "dispatch" => session >= 1
    /\ step \in {"enqueue", "backlog"} => target \in Lanes
    /\ step = "enqueue" => target <= session /\ ctl[target] # "none"
    /\ \A l \in Lanes : LaneShape(l)

BatchOrder(l) ==
    \A o \in Elements(batch[l]) : \A p \in 1 .. o - 1 :
        p \in Cleared \/ p \in Elements(batch[l])

QueueOrder(l) ==
    \A i \in DOMAIN queue[l] : \A p \in 1 .. queue[l][i] - 1 :
        p \in Cleared \/ p \in Elements(batch[l]) \/ \E j \in 1 .. i - 1 : queue[l][j] = p

PolledOrder ==
    Fresh =>
        \A i \in DOMAIN polled : \A p \in 1 .. polled[i] - 1 :
            InLane(PolledLane, p) \/ \E j \in 1 .. i - 1 : polled[j] = p

PositionOrder ==
    assigned /\ step # "stopped" =>
        \A p \in 1 .. position - 1 :
            \/ InLane(session, p)
            \/ step \in {"dispatch", "enqueue"} /\ PolledLane = session /\ p \in Elements(polled)

Orders ==
    /\ \A l \in Lanes : BatchOrder(l) /\ QueueOrder(l)
    /\ PolledOrder
    /\ PositionOrder

IndInv == TypeOK /\ Shape /\ Orders /\ CommittedPrefixHandled /\ HandledInOrder

-----------------------------------------------------------------------------
(* Sequences of offsets *)

\* A sequence cut after its first n elements, as popBatch and drain cut a queue.
LEMMA Cut ==
    ASSUME NEW s \in Seq(Offsets), NEW n \in 0 .. Len(s)
    PROVE  /\ SubSeq(s, 1, n) \in Seq(Offsets)
           /\ Len(SubSeq(s, 1, n)) = n
           /\ \A i \in 1 .. n : SubSeq(s, 1, n)[i] = s[i]
           /\ SubSeq(s, n + 1, Len(s)) \in Seq(Offsets)
           /\ Len(SubSeq(s, n + 1, Len(s))) = Len(s) - n
           /\ \A i \in 1 .. Len(s) - n : SubSeq(s, n + 1, Len(s))[i] = s[n + i]
<1>1. Len(s) \in Nat /\ \A i \in 1 .. Len(s) : s[i] \in Offsets
  BY LenProperties
<1>2. /\ SubSeq(s, 1, n) \in Seq(Offsets)
      /\ Len(SubSeq(s, 1, n)) = IF 1 <= n THEN n - 1 + 1 ELSE 0
      /\ \A i \in 1 .. n - 1 + 1 : SubSeq(s, 1, n)[i] = s[1 + i - 1]
  <2>1. \A i \in 1 .. n : s[i] \in Offsets
    BY <1>1
  <2>. QED  BY <2>1, SubSeqProperties
<1>3. /\ SubSeq(s, n + 1, Len(s)) \in Seq(Offsets)
      /\ Len(SubSeq(s, n + 1, Len(s))) =
            IF n + 1 <= Len(s) THEN Len(s) - (n + 1) + 1 ELSE 0
      /\ \A i \in 1 .. Len(s) - (n + 1) + 1 :
            SubSeq(s, n + 1, Len(s))[i] = s[(n + 1) + i - 1]
  <2>1. \A i \in n + 1 .. Len(s) : s[i] \in Offsets
    BY <1>1
  <2>. QED  BY <1>1, <2>1, SubSeqProperties
<1>. QED  BY <1>1, <1>2, <1>3

\* The elements of two sequences in a row, as enqueue and drain append.
LEMMA Join ==
    ASSUME NEW s \in Seq(Offsets), NEW t \in Seq(Offsets)
    PROVE  /\ s \o t \in Seq(Offsets)
           /\ Elements(s \o t) = Elements(s) \cup Elements(t)
           /\ Len(s \o t) = Len(s) + Len(t)
           /\ \A i \in 1 .. Len(s) : (s \o t)[i] = s[i]
           /\ \A i \in 1 .. Len(t) : (s \o t)[Len(s) + i] = t[i]
<1>1. /\ Len(s) \in Nat /\ DOMAIN s = 1 .. Len(s)
      /\ Len(t) \in Nat /\ DOMAIN t = 1 .. Len(t)
  BY LenProperties
<1>2. /\ s \o t \in Seq(Offsets)
      /\ Len(s \o t) = Len(s) + Len(t)
      /\ \A i \in 1 .. Len(s) + Len(t) :
            (s \o t)[i] = IF i <= Len(s) THEN s[i] ELSE t[i - Len(s)]
  BY ConcatProperties
<1>3. DOMAIN (s \o t) = 1 .. Len(s) + Len(t)
  BY <1>2, LenProperties
<1>4. \A i \in 1 .. Len(s) : (s \o t)[i] = s[i]
  BY <1>1, <1>2
<1>5. \A i \in 1 .. Len(t) : (s \o t)[Len(s) + i] = t[i]
  BY <1>1, <1>2
<1>6. Elements(s \o t) \subseteq Elements(s) \cup Elements(t)
  <2>. SUFFICES ASSUME NEW i \in 1 .. Len(s) + Len(t)
                PROVE  (s \o t)[i] \in Elements(s) \cup Elements(t)
    BY <1>3 DEF Elements
  <2>1. CASE i <= Len(s)
    BY <2>1, <1>1, <1>2 DEF Elements
  <2>2. CASE i > Len(s)
    <3>1. i - Len(s) \in DOMAIN t /\ (s \o t)[i] = t[i - Len(s)]
      BY <2>2, <1>1, <1>2
    <3>. QED  BY <3>1 DEF Elements
  <2>. QED  BY <2>1, <2>2, <1>1
<1>7. Elements(s) \subseteq Elements(s \o t)
  BY <1>1, <1>3, <1>4 DEF Elements
<1>8. Elements(t) \subseteq Elements(s \o t)
  <2>1. \A i \in 1 .. Len(t) : Len(s) + i \in 1 .. Len(s) + Len(t)
    BY <1>1
  <2>. QED  BY <2>1, <1>1, <1>3, <1>5 DEF Elements
<1>. QED  BY <1>2, <1>4, <1>5, <1>6, <1>7, <1>8

\* r is q without its first n elements.
Without(r, q, n) ==
    Len(r) = Len(q) - n /\ \A i \in 1 .. Len(q) - n : r[i] = q[n + i]

\* The first n elements of the first of two sequences in a row, dropped.
LEMMA Drop ==
    ASSUME NEW q \in Seq(Offsets), NEW p \in Seq(Offsets), NEW n \in 0 .. Len(q),
           NEW r \in Seq(Offsets), Without(r, q, n)
    PROVE  /\ q \o p \in Seq(Offsets) /\ r \o p \in Seq(Offsets)
           /\ Len(q \o p) >= Len(q)
           /\ \A i \in 1 .. Len(q) : (q \o p)[i] = q[i]
           /\ Without(r \o p, q \o p, n)
<1>1. Len(q) \in Nat /\ Len(p) \in Nat
  BY LenProperties
<1>2. /\ Len(r) = Len(q) - n /\ n \in Nat /\ n <= Len(q)
      /\ \A i \in 1 .. Len(q) - n : r[i] = q[n + i]
  BY <1>1 DEF Without
<1>3. /\ q \o p \in Seq(Offsets) /\ Len(q \o p) = Len(q) + Len(p)
      /\ \A i \in 1 .. Len(q) : (q \o p)[i] = q[i]
      /\ \A i \in 1 .. Len(p) : (q \o p)[Len(q) + i] = p[i]
  BY Join
<1>4. /\ r \o p \in Seq(Offsets) /\ Len(r \o p) = Len(r) + Len(p)
      /\ \A i \in 1 .. Len(r) : (r \o p)[i] = r[i]
      /\ \A i \in 1 .. Len(p) : (r \o p)[Len(r) + i] = p[i]
  BY Join
<1>5. ASSUME NEW i \in 1 .. Len(q \o p) - n PROVE (r \o p)[i] = (q \o p)[n + i]
  <2>0. i \in Int /\ 1 <= i /\ i <= Len(q) + Len(p) - n
    BY <1>1, <1>2, <1>3
  <2>1. CASE i <= Len(q) - n
    <3>1. i \in 1 .. Len(r) /\ i \in 1 .. Len(q) - n /\ n + i \in 1 .. Len(q)
      BY <1>1, <1>2, <2>0, <2>1
    <3>. QED  BY <1>2, <1>3, <1>4, <3>1
  <2>2. CASE i > Len(q) - n
    <3>0. i - (Len(q) - n) \in 1 .. Len(p)
      BY <1>1, <1>2, <2>0, <2>2
    <3>1. PICK k \in 1 .. Len(p) : k = i - (Len(q) - n)
      BY <3>0
    <3>2. i = Len(r) + k /\ n + i = Len(q) + k
      BY <1>1, <1>2, <2>0, <3>1
    <3>. QED  BY <1>3, <1>4, <3>2
  <2>. QED  BY <1>1, <1>2, <2>0, <2>1, <2>2
<1>6. Len(q \o p) >= Len(q) /\ Len(r \o p) = Len(q \o p) - n
  BY <1>1, <1>2, <1>3, <1>4
<1>. QED  BY <1>3, <1>4, <1>5, <1>6 DEF Without

-----------------------------------------------------------------------------
(* Types *)

LEMMA InitType == Init => TypeOK
<1>. SUFFICES ASSUME Init PROVE TypeOK
  OBVIOUS
<1>1. /\ committed \in 1 .. N + 1 /\ session \in 0 .. MaxSessions
      /\ position \in 0 .. N + 1 /\ target \in 0 .. MaxSessions
      /\ pollSession \in 0 .. MaxSessions /\ strayed \subseteq Offsets
      /\ failures \in 0 .. MaxFailures
  BY RunnerAssumption DEF Init
<1>2. <<>> \in Seq(Offsets)
  BY EmptySeq
<1>. QED  BY <1>1, <1>2 DEF Init, TypeOK, Steps, Ctls, Calls

LEMMA SetPausedType ==
    ASSUME TypeOK, NEW c \in Callers, NEW l \in Lanes, NEW b \in BOOLEAN, NEW r \in BOOLEAN,
           setPaused(c, l, b, r)
    PROVE  /\ backlogPaused' \in [Lanes -> BOOLEAN]
           /\ retryPaused' \in [Lanes -> BOOLEAN]
           /\ call' \in [Callers -> Calls]
  BY DEF TypeOK, setPaused, Calls

\* The batch that is being committed ends with an offset.
LEMMA BatchEnds ==
    ASSUME TypeOK, Shape, NEW l \in Lanes, ctl[l] = "committing"
    PROVE  LastOffset(batch[l]) \in Offsets /\ LastOffset(batch[l]) \in Elements(batch[l])
<1>1. batch[l] \in Seq(Offsets) /\ batch[l] # <<>>
  BY DEF TypeOK, Shape, LaneShape, Occupied
<1>2. Len(batch[l]) \in DOMAIN batch[l]
  BY <1>1, EmptySeq, LenProperties
<1>. QED  BY <1>1, <1>2, LenProperties DEF LastOffset, Elements

\* Every step of a lane keeps the types.
LEMMA LaneType ==
    ASSUME TypeOK, Shape, NEW l \in Lanes, runLane(l)
    PROVE  TypeOK'
<1>. USE RunnerAssumption DEF Offsets
<1>0. /\ queue[l] \in Seq(Offsets) /\ batch[l] \in Seq(Offsets)
      /\ Len(queue[l]) \in Nat /\ Len(batch[l]) \in Nat
      /\ ctl[l] \in Ctls
      /\ backlogPaused[l] \in BOOLEAN /\ retryPaused[l] \in BOOLEAN
      /\ l \in Callers
  BY LenProperties DEF TypeOK, Callers
<1>1. CASE popBatch(l)
  <2>. DEFINE n == Min2(BatchSize, Len(queue[l]))
  <2>1. n \in 0 .. Len(queue[l])
    BY <1>0 DEF Min2
  <2>2. /\ SubSeq(queue[l], 1, n) \in Seq(Offsets)
        /\ SubSeq(queue[l], n + 1, Len(queue[l])) \in Seq(Offsets)
    BY <1>0, <2>1, Cut
  <2>. QED  BY <1>1, <2>2 DEF popBatch, TypeOK, Ctls, groupVars, clientVars, runVars, strayVars, pauseVars
<1>2. CASE drain(l)
  <2>. DEFINE n == Min2(BatchSize - Len(batch[l]), Len(queue[l]))
  <2>1. n \in 0 .. Len(queue[l])
    BY <1>0, <1>2 DEF Min2, drain
  <2>2. /\ SubSeq(queue[l], 1, n) \in Seq(Offsets)
        /\ SubSeq(queue[l], n + 1, Len(queue[l])) \in Seq(Offsets)
    BY <1>0, <2>1, Cut
  <2>3. batch[l] \o SubSeq(queue[l], 1, n) \in Seq(Offsets)
    BY <1>0, <2>2, Join
  <2>. QED  BY <1>2, <2>2, <2>3 DEF drain, TypeOK, groupVars, clientVars, runVars, strayVars, pauseVars
<1>3. CASE resumeBacklogIfReady(l)
  BY <1>3 DEF resumeBacklogIfReady, TypeOK, Ctls, groupVars, clientVars, runVars, strayVars, pauseVars
<1>11. CASE ResumeBacklog(l)
  <2>1. /\ backlogPaused' \in [Lanes -> BOOLEAN]
        /\ retryPaused' \in [Lanes -> BOOLEAN]
        /\ call' \in [Callers -> Calls]
    BY <1>0, <1>11, SetPausedType DEF ResumeBacklog
  <2>. QED  BY <1>11, <2>1 DEF ResumeBacklog, TypeOK, Ctls, groupVars, clientVars, runVars, strayVars
<1>4. CASE StopLane(l)
  <2>1. /\ backlogPaused' \in [Lanes -> BOOLEAN]
        /\ retryPaused' \in [Lanes -> BOOLEAN]
        /\ call' \in [Callers -> Calls]
    BY <1>0, <1>4, SetPausedType DEF StopLane
  <2>. QED  BY <1>4, <2>1 DEF StopLane, TypeOK, Ctls, groupVars, clientVars, runVars, strayVars
<1>5. CASE CallProcessor(l)
  BY <1>5 DEF CallProcessor, TypeOK, Ctls, groupVars, clientVars, runVars, strayVars, pauseVars
<1>6. CASE Processed(l)
  <2>1. Elements(batch[l]) \subseteq Offsets
    BY <1>0, LenProperties DEF Elements
  <2>. QED  BY <1>6, <2>1 DEF Processed, TypeOK, Ctls, clientVars, runVars, strayVars, pauseVars
<1>12. CASE Aborted(l)
  BY <1>12 DEF Aborted, TypeOK, Ctls, groupVars, clientVars, runVars, strayVars, pauseVars
<1>7. CASE Retry(l)
  <2>1. /\ backlogPaused' \in [Lanes -> BOOLEAN]
        /\ retryPaused' \in [Lanes -> BOOLEAN]
        /\ call' \in [Callers -> Calls]
    BY <1>0, <1>7, SetPausedType DEF Retry
  <2>2. failures' \in 0 .. MaxFailures
    BY <1>7 DEF Retry, TypeOK
  <2>. QED  BY <1>7, <2>1, <2>2 DEF Retry, TypeOK, Ctls, groupVars, clientVars, runVars, strayVars
<1>8. CASE CheckCommit(l)
  BY <1>8 DEF CheckCommit, TypeOK, Ctls, groupVars, clientVars, runVars, strayVars, pauseVars
<1>9. CASE Committed(l)
  <2>1. /\ backlogPaused' \in [Lanes -> BOOLEAN]
        /\ retryPaused' \in [Lanes -> BOOLEAN]
        /\ call' \in [Callers -> Calls]
    BY <1>0, <1>9, SetPausedType DEF Committed
  <2>2. committed' \in 1 .. N + 1
    BY <1>9, BatchEnds DEF Committed
  <2>3. batch' \in [Lanes -> Seq(Offsets)]
    BY <1>9, EmptySeq DEF Committed, TypeOK
  <2>. QED  BY <1>9, <2>1, <2>2, <2>3 DEF Committed, TypeOK, Ctls, clientVars, runVars, strayVars
<1>10. CASE CommitFailed(l)
  <2>1. /\ backlogPaused' \in [Lanes -> BOOLEAN]
        /\ retryPaused' \in [Lanes -> BOOLEAN]
        /\ call' \in [Callers -> Calls]
    BY <1>0, <1>10, SetPausedType DEF CommitFailed
  <2>2. committed' \in 1 .. N + 1
    BY <1>10, BatchEnds DEF CommitFailed, TypeOK
  <2>3. failures' \in 0 .. MaxFailures
    <3>1. CASE Canceled(l)
      BY <1>10, <3>1 DEF CommitFailed, TypeOK
    <3>2. CASE ~Canceled(l)
      BY <1>10, <3>2 DEF CommitFailed, TypeOK
    <3>. QED  BY <3>1, <3>2
  <2>4. ctl' \in [Lanes -> Ctls]
    BY <1>10 DEF CommitFailed, TypeOK, Ctls
  <2>. QED  BY <1>10, <2>1, <2>2, <2>3, <2>4 DEF CommitFailed, TypeOK, clientVars, runVars, strayVars
<1>. QED
  BY <1>1, <1>2, <1>3, <1>4, <1>5, <1>6, <1>7, <1>8, <1>9, <1>10, <1>11, <1>12
  DEF runLane, processAndCommit

LEMMA TypeStep == TypeOK /\ Shape /\ [Next]_vars => TypeOK'
<1>. SUFFICES ASSUME TypeOK, Shape, [Next]_vars PROVE TypeOK'
  OBVIOUS
<1>. USE RunnerAssumption
<1>1. CASE assign
  <2>1. session' \in 0 .. MaxSessions /\ position' \in 0 .. N + 1
    BY <1>1 DEF assign, TypeOK
  <2>. QED  BY <1>1, <2>1 DEF assign, TypeOK, groupVars, runVars, strayVars, pauseVars
<1>2. CASE revoke
  <2>1. position' \in 0 .. N + 1
    BY <1>2 DEF revoke
  <2>. QED  BY <1>2, <2>1 DEF revoke, TypeOK, groupVars, runVars, strayVars, pauseVars
<1>3. CASE OtherMember
  BY <1>3 DEF OtherMember, TypeOK, Offsets, clientVars, runVars, strayVars, pauseVars
<1>4. ASSUME NEW n \in 1 .. N, Poll(n) PROVE TypeOK'
  <2>1. position \in 1 .. N + 1 /\ position + n <= N + 1
    BY <1>4 DEF Poll, TypeOK, Shape
  <2>2. polled' \in Seq(Offsets)
    <3>1. \A i \in 1 .. n : position + i - 1 \in Offsets
      BY <2>1 DEF Offsets
    <3>. QED  BY <1>4, <3>1 DEF Poll
  <2>. QED  BY <1>4, <2>1, <2>2 DEF Poll, TypeOK, Steps, groupVars, pauseVars
<1>5. CASE dispatchPartition
  <2>1. Elements(polled) \subseteq Offsets
    BY LenProperties DEF TypeOK, Elements
  <2>. QED
    BY <1>5, <2>1, EmptySeq
    DEF dispatchPartition, TypeOK, Steps, Ctls, groupVars, clientVars, pauseVars
<1>6. CASE enqueue
  <2>1. target \in Lanes /\ queue[target] \in Seq(Offsets) /\ polled \in Seq(Offsets)
    BY <1>6 DEF enqueue, Shape, TypeOK
  <2>2. queue[target] \o polled \in Seq(Offsets)
    BY <2>1, Join
  <2>. QED  BY <1>6, <2>2, EmptySeq DEF enqueue, TypeOK, Steps, strayVars, groupVars, clientVars, pauseVars
<1>7. CASE PauseBacklog
  <2>1. target \in Lanes /\ retryPaused[target] \in BOOLEAN /\ Run \in Callers
    BY <1>7 DEF PauseBacklog, Shape, TypeOK, Callers
  <2>2. /\ backlogPaused' \in [Lanes -> BOOLEAN]
        /\ retryPaused' \in [Lanes -> BOOLEAN]
        /\ call' \in [Callers -> Calls]
    BY <1>7, <2>1, SetPausedType DEF PauseBacklog
  <2>. QED  BY <1>7, <2>2 DEF PauseBacklog, TypeOK, Steps, strayVars, groupVars, clientVars
<1>8. CASE stopAll
  BY <1>8, EmptySeq DEF stopAll, TypeOK, Steps, strayVars, groupVars, clientVars, pauseVars
<1>9. ASSUME NEW c \in Callers, CheckOwner(c) \/ CallClient(c) PROVE TypeOK'
  BY <1>9 DEF CheckOwner, CallClient, TypeOK, Calls, groupVars, clientVars, runVars, strayVars
<1>10. ASSUME NEW l \in Lanes, runLane(l) PROVE TypeOK'
  BY <1>10, LaneType
<1>11. CASE UNCHANGED vars
  BY <1>11 DEF vars, TypeOK, groupVars, clientVars, runVars, strayVars, pauseVars
<1>. QED
  BY <1>1, <1>2, <1>3, <1>4, <1>5, <1>6, <1>7, <1>8, <1>9, <1>10, <1>11 DEF Next, RunLoop

-----------------------------------------------------------------------------
(* Shape *)

\* Every step of a lane keeps the shape of the lanes.
LEMMA LaneShapeStep ==
    ASSUME TypeOK, Shape, NEW l \in Lanes, runLane(l)
    PROVE  Shape'
<1>. USE RunnerAssumption
<1>0. /\ queue[l] \in Seq(Offsets) /\ batch[l] \in Seq(Offsets)
      /\ Len(queue[l]) \in Nat /\ Len(batch[l]) \in Nat
      /\ ctl[l] \in Ctls /\ l \in Int /\ session \in Int
  BY LenProperties DEF TypeOK, Lanes
<1>1. /\ UNCHANGED <<session, assigned, position, step, target, pollSession>>
      /\ handled \subseteq handled'
      /\ ctl' = [ctl EXCEPT ![l] = ctl'[l]]
      /\ \A m \in Lanes \ {l} : queue'[m] = queue[m] /\ batch'[m] = batch[m] /\ ctl'[m] = ctl[m]
  BY DEF runLane, popBatch, drain, resumeBacklogIfReady, ResumeBacklog, StopLane,
         processAndCommit, CallProcessor, Processed, Aborted, Retry, CheckCommit, Committed,
         CommitFailed, groupVars, clientVars, runVars, strayVars, TypeOK
<1>2. ~(l > session) /\ l <= session /\ ctl[l] # "none" /\ ctl'[l] # "none"
  <2>1. ctl[l] # "none" /\ ctl'[l] # "none"
    BY <1>0 DEF runLane, popBatch, drain, resumeBacklogIfReady, ResumeBacklog, StopLane,
           processAndCommit, CallProcessor, Processed, Aborted, Retry, CheckCommit, Committed,
           CommitFailed, TypeOK
  <2>. QED  BY <1>0, <2>1 DEF Shape, LaneShape
<1>3. LaneShape(l)'
  <2>1. CASE popBatch(l)
    <3>. DEFINE n == Min2(BatchSize, Len(queue[l]))
    <3>1. n \in 1 .. Len(queue[l])
      BY <1>0, <2>1, EmptySeq DEF Min2, popBatch
    <3>2. Len(SubSeq(queue[l], 1, n)) # 0
      BY <1>0, <3>1, Cut
    <3>3. SubSeq(queue[l], 1, n) # <<>>
      BY <3>2, EmptySeq
    <3>4. batch'[l] # <<>> /\ ctl'[l] = "gather"
      BY <2>1, <3>3 DEF popBatch, TypeOK
    <3>. QED  BY <1>1, <1>2, <3>4 DEF LaneShape
  <2>2. CASE drain(l)
    <3>. DEFINE n == Min2(BatchSize - Len(batch[l]), Len(queue[l]))
    <3>1. n \in 0 .. Len(queue[l])
      BY <1>0, <2>2 DEF Min2, drain
    <3>2. Len(SubSeq(queue[l], 1, n)) \in Nat /\ SubSeq(queue[l], 1, n) \in Seq(Offsets)
      BY <1>0, <3>1, Cut
    <3>3. batch[l] # <<>>
      BY <2>2 DEF drain, Shape, LaneShape, Occupied
    <3>4. Len(batch[l]) # 0
      BY <1>0, <3>3, EmptySeq
    <3>5. Len(batch[l] \o SubSeq(queue[l], 1, n)) # 0
      BY <1>0, <3>2, <3>4, Join
    <3>6. batch[l] \o SubSeq(queue[l], 1, n) # <<>>
      BY <3>5, EmptySeq
    <3>7. batch'[l] # <<>> /\ ctl'[l] = "gather"
      BY <2>2, <3>6 DEF drain, TypeOK
    <3>. QED  BY <1>1, <1>2, <3>7 DEF LaneShape
  <2>3. CASE resumeBacklogIfReady(l)
    BY <1>1, <1>2, <2>3 DEF resumeBacklogIfReady, Shape, LaneShape, TypeOK, Occupied
  <2>4. CASE ResumeBacklog(l)
    BY <1>1, <1>2, <2>4 DEF ResumeBacklog, Shape, LaneShape, TypeOK, Occupied
  <2>5. CASE StopLane(l)
    BY <1>1, <1>2, <2>5 DEF StopLane, Shape, LaneShape, TypeOK, Occupied
  <2>6. CASE CallProcessor(l)
    BY <1>1, <1>2, <2>6 DEF CallProcessor, Shape, LaneShape, TypeOK, Occupied
  <2>7. CASE Processed(l)
    BY <1>1, <1>2, <2>7 DEF Processed, Shape, LaneShape, TypeOK, Occupied
  <2>12. CASE Aborted(l)
    BY <1>1, <1>2, <2>12 DEF Aborted, Shape, LaneShape, TypeOK, Occupied
  <2>8. CASE Retry(l)
    BY <1>1, <1>2, <2>8 DEF Retry, Shape, LaneShape, TypeOK, Occupied
  <2>9. CASE CheckCommit(l)
    BY <1>1, <1>2, <2>9 DEF CheckCommit, Shape, LaneShape, TypeOK, Occupied, groupVars
  <2>10. CASE Committed(l)
    BY <1>1, <1>2, <2>10 DEF Committed, Shape, LaneShape, TypeOK, Occupied
  <2>11. CASE CommitFailed(l)
    BY <1>1, <1>2, <2>11 DEF CommitFailed, Shape, LaneShape, TypeOK, Occupied
  <2>. QED
    BY <2>1, <2>2, <2>3, <2>4, <2>5, <2>6, <2>7, <2>8, <2>9, <2>10, <2>11, <2>12
    DEF runLane, processAndCommit
<1>4. \A m \in Lanes : LaneShape(m)'
  BY <1>1, <1>3 DEF Shape, LaneShape
<1>. QED  BY <1>1, <1>2, <1>4 DEF Shape

LEMMA ShapeStep ==
    ASSUME TypeOK, Shape, [Next]_vars
    PROVE  Shape'
<1>. USE RunnerAssumption
<1>0. session \in Nat /\ pollSession \in Nat /\ \A l \in Lanes : l \in Nat
  BY DEF TypeOK, Lanes
<1>1. CASE assign
  <2>1. session' = session + 1 /\ session' >= 1 /\ position' >= 1
    BY <1>1 DEF assign, TypeOK
  <2>2. ASSUME NEW l \in Lanes PROVE LaneShape(l)'
    <3>1. l > session' => l > session
      BY <1>0, <2>1, <2>2
    <3>. QED  BY <1>1, <3>1 DEF assign, Shape, LaneShape
  <2>3. step' = "enqueue" => target' <= session' /\ ctl'[target'] # "none"
    BY <1>0, <1>1, <2>1 DEF assign, Shape, TypeOK, Lanes, runVars
  <2>4. pollSession' <= session' /\ (step' = "dispatch" => session' >= 1)
    BY <1>0, <1>1, <2>1 DEF assign, Shape, runVars, strayVars
  <2>. QED  BY <1>1, <2>1, <2>2, <2>3, <2>4 DEF assign, Shape, runVars
<1>2. CASE revoke
  BY <1>2 DEF revoke, Shape, LaneShape, groupVars, runVars, strayVars
<1>3. CASE OtherMember
  BY <1>3 DEF OtherMember, Shape, LaneShape, clientVars, runVars, strayVars
<1>4. ASSUME NEW n \in 1 .. N, Poll(n) PROVE Shape'
  <2>1. position' >= 1
    BY <1>4 DEF Poll, TypeOK, Shape
  <2>. QED  BY <1>0, <1>4, <2>1 DEF Poll, Shape, LaneShape, groupVars
<1>5. CASE dispatchPartition
  <2>0. CASE ~assigned
    <3>1. /\ step' = "poll"
          /\ UNCHANGED <<handled, session, assigned, position, queue, batch, target, ctl,
                         pollSession>>
      BY <1>5, <2>0 DEF dispatchPartition, groupVars, clientVars
    <3>. QED  BY <3>1 DEF Shape, LaneShape
  <2>. SUFFICES ASSUME assigned PROVE Shape'
    BY <2>0
  <2>1. session >= 1 /\ session \in Lanes
    BY DEF Shape, TypeOK, Lanes
  <2>2. /\ target' = session /\ step' = "enqueue"
        /\ ctl' = [ctl EXCEPT ![session] = IF @ = "none" THEN "idle" ELSE @]
        /\ UNCHANGED <<handled, session, assigned, position, queue, batch, pollSession>>
    BY <1>5, <2>1 DEF dispatchPartition, groupVars, clientVars
  <2>3. ASSUME NEW l \in Lanes PROVE LaneShape(l)'
    <3>1. CASE l = session /\ ctl[l] = "none"
      BY <1>0, <2>2, <3>1 DEF Shape, LaneShape, TypeOK, Occupied
    <3>2. CASE ~(l = session /\ ctl[l] = "none")
      BY <1>0, <2>2, <3>2 DEF Shape, LaneShape, TypeOK
    <3>. QED  BY <3>1, <3>2
  <2>4. ctl'[target'] # "none" /\ target' <= session' /\ target' \in Lanes
    BY <1>0, <2>1, <2>2 DEF TypeOK
  <2>. QED  BY <2>1, <2>2, <2>3, <2>4 DEF Shape
<1>6. CASE enqueue
  <2>1. target \in Lanes /\ target <= session /\ ctl[target] # "none"
    BY <1>6 DEF enqueue, Shape
  <2>2. ASSUME NEW l \in Lanes PROVE LaneShape(l)'
    <3>1. l # target => queue'[l] = queue[l]
      BY <1>6 DEF enqueue, TypeOK
    <3>. QED  BY <1>0, <1>6, <2>1, <3>1 DEF enqueue, Shape, LaneShape, groupVars, clientVars
  <2>3. step' \in {"backlog", "poll"}
    BY <1>6 DEF enqueue
  <2>. QED  BY <1>6, <2>1, <2>2, <2>3 DEF enqueue, Shape, clientVars, strayVars
<1>7. CASE PauseBacklog
  BY <1>7 DEF PauseBacklog, Shape, LaneShape, groupVars, clientVars, strayVars
<1>8. CASE stopAll
  BY <1>8 DEF stopAll, Shape, LaneShape, groupVars, clientVars, strayVars
<1>9. ASSUME NEW c \in Callers, CheckOwner(c) \/ CallClient(c) PROVE Shape'
  BY <1>9 DEF CheckOwner, CallClient, Shape, LaneShape, groupVars, clientVars, runVars, strayVars
<1>10. ASSUME NEW l \in Lanes, runLane(l) PROVE Shape'
  BY <1>10, LaneShapeStep
<1>11. CASE UNCHANGED vars
  BY <1>11 DEF vars, Shape, LaneShape, groupVars, clientVars, runVars, strayVars
<1>. QED
  BY <1>1, <1>2, <1>3, <1>4, <1>5, <1>6, <1>7, <1>8, <1>9, <1>10, <1>11 DEF Next, RunLoop

-----------------------------------------------------------------------------
(* Orders *)

\* A step that settles records, or none, and moves nothing.
LEMMA SettledKept ==
    ASSUME Orders, Cleared \subseteq Cleared',
           UNCHANGED <<batch, queue, polled, step, target, session, assigned, position,
                       pollSession>>
    PROVE  Orders'
<1>1. \A l \in Lanes : BatchOrder(l)'
  BY DEF Orders, BatchOrder
<1>2. \A l \in Lanes : QueueOrder(l)'
  BY DEF Orders, QueueOrder
<1>3. PolledLane' = PolledLane /\ \A l, p : InLane(l, p) => InLane(l, p)'
  BY DEF PolledLane, InLane
<1>4. PolledOrder'
  BY <1>3 DEF Orders, PolledOrder, Fresh
<1>5. PositionOrder'
  BY <1>3 DEF Orders, PositionOrder
<1>. QED  BY <1>1, <1>2, <1>4, <1>5 DEF Orders

\* A step that changes the batch and the queue of one lane, neither losing a record
\* that is not settled nor disturbing the order.
LEMMA Move ==
    ASSUME Orders, NEW l \in Lanes,
           Cleared' = Cleared,
           UNCHANGED <<polled, step, target, session, assigned, position, pollSession>>,
           \A m \in Lanes \ {l} : batch'[m] = batch[m] /\ queue'[m] = queue[m],
           BatchOrder(l)', QueueOrder(l)',
           \A p : InLane(l, p) => InLane(l, p)',
           PolledLane \in Lanes \/ step \notin {"dispatch", "enqueue"},
           session \in Lanes \/ ~assigned
    PROVE  Orders'
<1>1. \A m \in Lanes : BatchOrder(m)'
  BY DEF Orders, BatchOrder
<1>2. \A m \in Lanes : QueueOrder(m)'
  BY DEF Orders, QueueOrder
<1>3. PolledLane' = PolledLane /\ \A m \in Lanes : \A p : InLane(m, p) => InLane(m, p)'
  BY DEF PolledLane, InLane
<1>4. PolledOrder'
  BY <1>3 DEF Orders, PolledOrder, Fresh
<1>5. PositionOrder'
  BY <1>3 DEF Orders, PositionOrder
<1>. QED  BY <1>1, <1>2, <1>4, <1>5 DEF Orders

\* popBatch and drain: the first n records of the queue join the batch.
LEMMA Take ==
    ASSUME TypeOK, Orders, NEW l \in Lanes, NEW n \in 0 .. Len(queue[l]),
           Cleared' = Cleared,
           Elements(batch'[l]) = Elements(batch[l]) \cup Elements(SubSeq(queue[l], 1, n)),
           queue'[l] = SubSeq(queue[l], n + 1, Len(queue[l]))
    PROVE  /\ BatchOrder(l)' /\ QueueOrder(l)'
           /\ \A p : InLane(l, p) => InLane(l, p)'
<1>. DEFINE q == queue[l]
            q1 == SubSeq(q, 1, n)
            q2 == queue'[l]
<1>0. q \in Seq(Offsets)
  BY DEF TypeOK
<1>1. /\ Len(q) \in Nat /\ DOMAIN q = 1 .. Len(q) /\ n \in 0 .. Len(q)
      /\ \A i \in 1 .. Len(q) : q[i] \in Nat
  <2>1. n \in 0 .. Len(q)
    OBVIOUS
  <2>. HIDE DEF q
  <2>2. Len(q) \in Nat /\ DOMAIN q = 1 .. Len(q)
    BY <1>0, LenProperties
  <2>3. \A i \in 1 .. Len(q) : q[i] \in Nat
    BY <1>0, <2>2, ElementOfSeq, RunnerAssumption DEF Offsets
  <2>. QED  BY <2>1, <2>2, <2>3
<1>9. queue[l] = q /\ queue'[l] = q2 /\ Elements(batch'[l]) = Elements(batch[l]) \cup Elements(q1)
  OBVIOUS
<1>2. /\ DOMAIN q1 = 1 .. n /\ \A i \in 1 .. n : q1[i] = q[i]
      /\ DOMAIN q2 = 1 .. Len(q) - n /\ \A i \in 1 .. Len(q) - n : q2[i] = q[n + i]
  BY <1>0, <1>1, Cut, LenProperties
<1>10. \A i \in DOMAIN q : \A p \in 1 .. q[i] - 1 :
         p \in Cleared \/ p \in Elements(batch[l]) \/ \E j \in 1 .. i - 1 : q[j] = p
  BY DEF Orders, QueueOrder
<1>11. ASSUME \A i \in DOMAIN q2 : \A p \in 1 .. q2[i] - 1 :
                \/ p \in Cleared \/ p \in Elements(batch'[l])
                \/ \E j \in 1 .. i - 1 : q2[j] = p
       PROVE  QueueOrder(l)'
  BY <1>11 DEF QueueOrder
<1>. HIDE DEF q, q1, q2
<1>3. \A i \in 1 .. n : q[i] \in Elements(batch'[l])
  BY <1>2, <1>9 DEF Elements
<1>4. \A i \in 1 .. Len(q) : i > n => i - n \in 1 .. Len(q) - n /\ q2[i - n] = q[i]
  <2>. SUFFICES ASSUME NEW i \in 1 .. Len(q), i > n
                PROVE  i - n \in 1 .. Len(q) - n /\ q2[i - n] = q[i]
    OBVIOUS
  <2>1. Len(q) \in Nat /\ n \in Nat
    BY <1>1
  <2>2. i - n \in 1 .. Len(q) - n /\ n + (i - n) = i
    BY <2>1
  <2>3. q2[i - n] = q[n + (i - n)]
    BY <1>2, <2>2
  <2>. QED  BY <2>2, <2>3
<1>5. \A i \in 1 .. Len(q) : i <= n \/ q[i] \in Elements(q2)
  <2>1. \A k \in 1 .. Len(q) - n : q2[k] \in Elements(q2)
    BY <1>2 DEF Elements
  <2>. SUFFICES ASSUME NEW i \in 1 .. Len(q), ~(i <= n) PROVE q[i] \in Elements(q2)
    OBVIOUS
  <2>2. i > n
    BY <1>1
  <2>3. i - n \in 1 .. Len(q) - n /\ q2[i - n] = q[i]
    BY <1>4, <2>2
  <2>. QED  BY <2>1, <2>3
<1>6. BatchOrder(l)'
  <2>. SUFFICES ASSUME NEW o \in Elements(batch'[l]), NEW p \in 1 .. o - 1
                PROVE  p \in Cleared \/ p \in Elements(batch'[l])
    BY DEF BatchOrder
  <2>1. CASE o \in Elements(batch[l])
    BY <1>9, <2>1 DEF Orders, BatchOrder
  <2>2. CASE o \in Elements(q1)
    <3>1. PICK i \in 1 .. n : o = q[i]
      BY <2>2, <1>2 DEF Elements
    <3>2. p \in Cleared \/ p \in Elements(batch[l]) \/ \E j \in 1 .. i - 1 : q[j] = p
      <4>1. i \in DOMAIN q
        BY <1>1, <3>1
      <4>2. p \in 1 .. q[i] - 1
        BY <3>1
      <4>. QED  BY <1>10, <4>1, <4>2, Zenon
    <3>3. \A j \in 1 .. i - 1 : j \in 1 .. n
      BY <1>1
    <3>. QED  BY <1>3, <1>9, <3>2, <3>3
  <2>. QED  BY <1>9, <2>1, <2>2
<1>7. QueueOrder(l)'
  <2>. SUFFICES ASSUME NEW i \in 1 .. Len(q) - n, NEW p \in 1 .. q2[i] - 1
                PROVE  \/ p \in Cleared \/ p \in Elements(batch'[l])
                       \/ \E j \in 1 .. i - 1 : q2[j] = p
    BY <1>2, <1>11
  <2>1. n + i \in 1 .. Len(q) /\ q2[i] = q[n + i]
    BY SMTT(30), <1>1, <1>2
  <2>2. p \in Cleared \/ p \in Elements(batch[l]) \/ \E j \in 1 .. n + i - 1 : q[j] = p
    <3>1. PICK k \in DOMAIN q : k = n + i
      BY <1>1, <2>1
    <3>2. p \in 1 .. q[k] - 1
      BY <2>1, <3>1
    <3>3. p \in Cleared \/ p \in Elements(batch[l]) \/ \E j \in 1 .. k - 1 : q[j] = p
      BY <1>10, <3>2, Zenon
    <3>. QED  BY <3>1, <3>3
  <2>3. ASSUME NEW j \in 1 .. n + i - 1, q[j] = p
        PROVE  p \in Elements(batch'[l]) \/ \E k \in 1 .. i - 1 : q2[k] = p
    <3>1. CASE j <= n
      BY <1>1, <1>3, <2>3, <3>1
    <3>2. CASE j > n
      <4>1. j \in 1 .. Len(q) /\ j - n \in 1 .. i - 1
        BY <1>1, <2>1, <3>2
      <4>. QED  BY <1>4, <2>3, <3>2, <4>1
    <3>. QED  BY <3>1, <3>2, <1>1
  <2>. QED  BY <1>9, <2>2, <2>3
<1>8. \A p : InLane(l, p) => InLane(l, p)'
  <2>1. \A p \in Elements(q) : p \in Elements(batch'[l]) \/ p \in Elements(q2)
    BY <1>1, <1>3, <1>5 DEF Elements
  <2>. QED  BY <1>9, <2>1 DEF InLane
<1>. QED  BY <1>6, <1>7, <1>8

LEMMA LaneOrders ==
    ASSUME TypeOK, Shape, Orders, NEW l \in Lanes, runLane(l)
    PROVE  Orders'
<1>. USE RunnerAssumption
<1>0. /\ queue[l] \in Seq(Offsets) /\ batch[l] \in Seq(Offsets)
      /\ Len(queue[l]) \in Nat /\ Len(batch[l]) \in Nat
  BY LenProperties DEF TypeOK
<1>1. /\ PolledLane \in Lanes \/ step \notin {"dispatch", "enqueue"}
      /\ session \in Lanes \/ ~assigned
  BY DEF PolledLane, Shape, TypeOK, Lanes
<1>2. CASE popBatch(l)
  <2>. DEFINE n == Min2(BatchSize, Len(queue[l]))
  <2>1. n \in 0 .. Len(queue[l])
    BY <1>0 DEF Min2
  <2>2. batch[l] = <<>>
    BY <1>2 DEF popBatch, Shape, LaneShape
  <2>3. Elements(batch[l]) = {}
    BY <2>2, EmptySeq, LenProperties DEF Elements
  <2>4. /\ batch'[l] = SubSeq(queue[l], 1, n)
        /\ queue'[l] = SubSeq(queue[l], n + 1, Len(queue[l]))
        /\ \A m \in Lanes \ {l} : batch'[m] = batch[m] /\ queue'[m] = queue[m]
        /\ Cleared' = Cleared
        /\ UNCHANGED <<polled, step, target, session, assigned, position, pollSession>>
    BY <1>2 DEF popBatch, TypeOK, groupVars, clientVars, runVars, strayVars, Cleared, Excused
  <2>5. /\ BatchOrder(l)' /\ QueueOrder(l)'
        /\ \A p : InLane(l, p) => InLane(l, p)'
    BY <2>1, <2>3, <2>4, Take
  <2>. QED  BY <1>1, <2>4, <2>5, Move
<1>3. CASE drain(l)
  <2>. DEFINE n == Min2(BatchSize - Len(batch[l]), Len(queue[l]))
  <2>1. n \in 0 .. Len(queue[l])
    BY <1>0, <1>3 DEF Min2, drain
  <2>2. /\ batch'[l] = batch[l] \o SubSeq(queue[l], 1, n)
        /\ queue'[l] = SubSeq(queue[l], n + 1, Len(queue[l]))
        /\ \A m \in Lanes \ {l} : batch'[m] = batch[m] /\ queue'[m] = queue[m]
        /\ Cleared' = Cleared
        /\ UNCHANGED <<polled, step, target, session, assigned, position, pollSession>>
    BY <1>3 DEF drain, TypeOK, groupVars, clientVars, runVars, strayVars, Cleared, Excused
  <2>3. SubSeq(queue[l], 1, n) \in Seq(Offsets)
    BY <1>0, <2>1, Cut
  <2>4. Elements(batch'[l]) = Elements(batch[l]) \cup Elements(SubSeq(queue[l], 1, n))
    <3>1. Elements(batch[l] \o SubSeq(queue[l], 1, n))
            = Elements(batch[l]) \cup Elements(SubSeq(queue[l], 1, n))
      BY <1>0, <2>3, Join
    <3>. QED  BY <2>2, <3>1, Zenon
  <2>5. /\ BatchOrder(l)' /\ QueueOrder(l)'
        /\ \A p : InLane(l, p) => InLane(l, p)'
    BY <2>1, <2>2, <2>4, Take
  <2>. QED  BY <1>1, <2>2, <2>5, Move
<1>4. CASE Committed(l)
  <2>1. Elements(batch[l]) \subseteq Cleared
    BY <1>4 DEF Committed, Shape, LaneShape, Cleared
  <2>2. /\ batch'[l] = <<>> /\ queue' = queue
        /\ \A m \in Lanes \ {l} : batch'[m] = batch[m]
        /\ Cleared' = Cleared
        /\ UNCHANGED <<polled, step, target, session, assigned, position, pollSession>>
    BY <1>4 DEF Committed, TypeOK, clientVars, runVars, strayVars, Cleared, Excused
  <2>3. Elements(batch'[l]) = {}
    BY <2>2, EmptySeq, LenProperties DEF Elements
  <2>4. BatchOrder(l)'
    BY <2>3 DEF BatchOrder
  <2>5. QueueOrder(l)'
    BY <2>1, <2>2 DEF Orders, QueueOrder
  <2>6. \A p : InLane(l, p) => InLane(l, p)'
    BY <2>1, <2>2 DEF InLane
  <2>. QED  BY <1>1, <2>2, <2>4, <2>5, <2>6, Move
<1>5. CASE ~(popBatch(l) \/ drain(l) \/ Committed(l))
  <2>1. /\ handled \subseteq handled' /\ strayed' = strayed
        /\ UNCHANGED <<batch, queue, polled, step, target, session, assigned, position,
                       pollSession>>
    BY <1>5 DEF runLane, resumeBacklogIfReady, ResumeBacklog, StopLane, processAndCommit,
                CallProcessor, Processed, Aborted, Retry, CheckCommit, CommitFailed,
                groupVars, clientVars, runVars, strayVars
  <2>2. Cleared \subseteq Cleared'
    BY <2>1 DEF Cleared, Excused
  <2>. QED  BY <2>1, <2>2, SettledKept
<1>. QED  BY <1>2, <1>3, <1>4, <1>5

\* Run reads on where the queue of the lane ends.
LEMMA PollOrders ==
    ASSUME TypeOK, Shape, Orders, NEW n \in 1 .. N, Poll(n)
    PROVE  Orders'
<1>. USE RunnerAssumption
<1>1. /\ position \in 1 .. N + 1 /\ step = "poll" /\ step' = "dispatch" /\ assigned
      /\ polled' = [i \in 1 .. n |-> position + i - 1] /\ position' = position + n
      /\ Cleared' = Cleared
      /\ UNCHANGED <<session, assigned, queue, batch>>
  BY DEF Poll, Shape, TypeOK, groupVars, Cleared, Excused
<1>2. PolledLane' = session /\ \A l, p : InLane(l, p) => InLane(l, p)'
  BY <1>1 DEF PolledLane, InLane
<1>3. \A p \in 1 .. position - 1 : InLane(session, p)'
  BY <1>1, <1>2 DEF Orders, PositionOrder
<1>4. DOMAIN polled' = 1 .. n /\ \A i \in 1 .. n : polled'[i] = position + i - 1
  BY <1>1
<1>5. PolledOrder'
  <2>0. \A p : InLane(session, p)' => InLane(PolledLane, p)'
    BY <1>1, <1>2 DEF InLane
  <2>. SUFFICES ASSUME NEW i \in 1 .. n, NEW p \in 1 .. polled'[i] - 1
                PROVE  InLane(session, p)' \/ \E j \in 1 .. i - 1 : polled'[j] = p
    BY <1>4, <2>0 DEF PolledOrder
  <2>1. CASE p <= position - 1
    BY <1>1, <1>3, <2>1
  <2>2. CASE p > position - 1
    <3>1. p - position + 1 \in 1 .. i - 1 /\ polled'[p - position + 1] = p
      BY <1>1, <1>4, <2>2
    <3>. QED  BY <3>1
  <2>3. p \in Int /\ position \in Int
    BY <1>1
  <2>. QED  BY <2>1, <2>2, <2>3
<1>6. PositionOrder'
  <2>. SUFFICES ASSUME NEW p \in 1 .. position + n - 1
                PROVE  InLane(session, p)' \/ p \in Elements(polled')
    BY <1>1, <1>2 DEF PositionOrder
  <2>1. CASE p <= position - 1
    BY <1>1, <1>3, <2>1
  <2>2. CASE p > position - 1
    <3>1. p - position + 1 \in DOMAIN polled' /\ polled'[p - position + 1] = p
      BY <1>1, <1>4, <2>2
    <3>. QED  BY <3>1 DEF Elements
  <2>. QED  BY <1>1, <2>1, <2>2
<1>7. \A l \in Lanes : BatchOrder(l)' /\ QueueOrder(l)'
  BY <1>1 DEF Orders, BatchOrder, QueueOrder
<1>. QED  BY <1>5, <1>6, <1>7 DEF Orders

\* The records Run has polled follow those of the queue.
LEMMA EnqueueOrders ==
    ASSUME TypeOK, Shape, Orders, enqueue
    PROVE  Orders'
<1>0. PICK t \in Lanes : t = target
  BY DEF enqueue, Shape
<1>. DEFINE q == queue[t]
            q2 == queue'[t]
<1>1. /\ step = "enqueue" /\ step' \notin {"dispatch", "enqueue"} /\ target = t
      /\ PolledLane = t
      /\ q2 = q \o polled
      /\ \A l \in Lanes \ {t} : queue'[l] = queue[l]
      /\ Cleared' = Cleared
      /\ UNCHANGED <<session, assigned, position, batch, target>>
  BY <1>0 DEF enqueue, TypeOK, PolledLane, groupVars, clientVars, strayVars, Cleared, Excused
<1>2. /\ q \in Seq(Offsets) /\ polled \in Seq(Offsets)
      /\ Len(q) \in Nat /\ DOMAIN q = 1 .. Len(q)
      /\ Len(polled) \in Nat /\ DOMAIN polled = 1 .. Len(polled)
  BY <1>1, LenProperties DEF TypeOK
<1>3. /\ DOMAIN q2 = 1 .. Len(q) + Len(polled)
      /\ \A i \in 1 .. Len(q) : q2[i] = q[i]
      /\ \A i \in 1 .. Len(polled) : q2[Len(q) + i] = polled[i]
  BY <1>1, <1>2, Join, LenProperties
<1>4. Elements(q2) = Elements(q) \cup Elements(polled)
  <2>1. Elements(q \o polled) = Elements(q) \cup Elements(polled)
    BY <1>2, Join
  <2>. QED  BY <1>1, <2>1
<1>5. \A l \in Lanes : \A p : InLane(l, p) => InLane(l, p)'
  <2>1. \A p : InLane(t, p) => InLane(t, p)'
    BY <1>1, <1>4 DEF InLane
  <2>. QED  BY <1>1, <2>1 DEF InLane
<1>6. \A i \in DOMAIN q : \A p \in 1 .. q[i] - 1 :
         p \in Cleared \/ p \in Elements(batch[t]) \/ \E j \in 1 .. i - 1 : q[j] = p
  BY <1>1 DEF Orders, QueueOrder
<1>7. \A i \in DOMAIN polled : \A p \in 1 .. polled[i] - 1 :
        \/ p \in Cleared \/ p \in Elements(batch[t]) \/ p \in Elements(q)
        \/ \E j \in 1 .. i - 1 : polled[j] = p
  BY <1>1 DEF Orders, PolledOrder, Fresh, InLane
<1>8. QueueOrder(t)'
  <2>1. SUFFICES \A i \in DOMAIN q2 : \A p \in 1 .. q2[i] - 1 :
            p \in Cleared \/ p \in Elements(batch[t]) \/ \E j \in 1 .. i - 1 : q2[j] = p
    BY <1>1 DEF QueueOrder
  <2>. HIDE DEF q, q2
  <2>. SUFFICES ASSUME NEW i \in DOMAIN q2, NEW p \in 1 .. q2[i] - 1,
                       p \notin Cleared, p \notin Elements(batch[t])
                PROVE  \E j \in 1 .. i - 1 : q2[j] = p
    OBVIOUS
  <2>2. CASE i \in 1 .. Len(q)
    <3>1. i \in DOMAIN q /\ q2[i] = q[i]
      BY <1>2, <1>3, <2>2
    <3>2. PICK j \in 1 .. i - 1 : q[j] = p
      BY <1>6, <3>1, Zenon
    <3>3. j \in 1 .. Len(q)
      BY <1>2, <2>2
    <3>. QED  BY <1>3, <3>2, <3>3
  <2>3. CASE i \notin 1 .. Len(q)
    <3>1. PICK k \in DOMAIN polled : i = Len(q) + k
      <4>1. i - Len(q) \in DOMAIN polled /\ i = Len(q) + (i - Len(q))
        BY <1>2, <1>3, <2>3
      <4>. QED  BY <4>1
    <3>2. p \in 1 .. polled[k] - 1
      BY <1>2, <1>3, <3>1
    <3>3. p \in Elements(q) \/ \E j \in 1 .. k - 1 : polled[j] = p
      BY <1>7, <3>2, Zenon
    <3>4. ASSUME p \in Elements(q) PROVE \E j \in 1 .. i - 1 : q2[j] = p
      <4>1. PICK j \in DOMAIN q : q[j] = p
        BY <3>4 DEF Elements
      <4>2. j \in 1 .. i - 1 /\ q2[j] = p
        BY <1>2, <1>3, <3>1, <4>1
      <4>. QED  BY <4>2
    <3>5. ASSUME NEW j \in 1 .. k - 1, polled[j] = p PROVE \E m \in 1 .. i - 1 : q2[m] = p
      <4>1. Len(q) + j \in 1 .. i - 1 /\ q2[Len(q) + j] = p
        BY <1>2, <1>3, <3>1, <3>5
      <4>. QED  BY <4>1
    <3>. QED  BY <3>3, <3>4, <3>5
  <2>. QED  BY <2>2, <2>3
<1>9. ASSUME NEW l \in Lanes PROVE BatchOrder(l)' /\ QueueOrder(l)'
  <2>1. BatchOrder(l)'
    BY <1>1 DEF Orders, BatchOrder
  <2>2. CASE l # t
    BY SMTT(30), <1>1, <2>1, <2>2 DEF Orders, QueueOrder
  <2>. QED  BY <1>8, <2>1, <2>2
<1>10. PolledOrder'
  BY <1>1 DEF PolledOrder, Fresh
<1>11. PositionOrder'
  <2>. SUFFICES ASSUME assigned, NEW p \in 1 .. position - 1
                PROVE  InLane(session, p)'
    BY <1>1 DEF PositionOrder
  <2>1. session \in Lanes
    BY RunnerAssumption DEF Shape, TypeOK, Lanes
  <2>2. InLane(session, p) \/ (t = session /\ p \in Elements(polled))
    BY <1>1 DEF Orders, PositionOrder
  <2>3. CASE t = session /\ p \in Elements(polled)
    BY <1>1, <1>4, <2>3 DEF InLane
  <2>4. CASE InLane(session, p)
    BY <1>1, <1>5, <2>1, <2>4 DEF InLane
  <2>. QED  BY <2>2, <2>3, <2>4
<1>. QED  BY <1>9, <1>10, <1>11 DEF Orders

\* Whoever the polled records belong to by now, they are put into a lane or skipped.
LEMMA DispatchOrders ==
    ASSUME TypeOK, Shape, Orders, dispatchPartition
    PROVE  Orders'
<1>. USE RunnerAssumption
<1>1. /\ step = "dispatch" /\ strayed \subseteq strayed'
      /\ UNCHANGED <<handled, batch, queue, session, assigned, position, pollSession>>
  BY DEF dispatchPartition, groupVars, clientVars
<1>2. Cleared \subseteq Cleared' /\ \A l, p : InLane(l, p) => InLane(l, p)'
  BY <1>1 DEF Cleared, Excused, InLane
<1>3. \A l \in Lanes : BatchOrder(l)' /\ QueueOrder(l)'
  BY <1>1, <1>2 DEF Orders, BatchOrder, QueueOrder
<1>4. CASE ~assigned
  BY <1>1, <1>3, <1>4 DEF dispatchPartition, Orders, PolledOrder, PositionOrder, Fresh
<1>5. CASE assigned
  <2>1. step' = "enqueue" /\ target' = session /\ polled' = polled
    BY <1>5 DEF dispatchPartition
  <2>2. PolledLane = session /\ PolledLane' = session
    BY <1>1, <2>1 DEF PolledLane
  <2>3. \A p : InLane(session, p) => InLane(PolledLane, p)'
    BY <1>1, <1>2, <2>2 DEF InLane
  <2>4. CASE pollSession = session
    <3>1. PolledOrder'
      BY <1>1, <2>1, <2>2, <2>3, <2>4 DEF Orders, PolledOrder, Fresh
    <3>. QED
      BY <1>1, <1>2, <1>3, <2>1, <2>2, <2>3, <3>1 DEF Orders, PositionOrder
  <2>5. CASE pollSession # session
    <3>1. strayed' = strayed \cup Elements(polled)
      BY <1>5, <2>5 DEF dispatchPartition
    <3>2. /\ \A i \in DOMAIN polled : polled[i] \in strayed'
          /\ \A i \in DOMAIN polled : polled[i] \in 1 .. N
      BY <3>1, LenProperties DEF Elements, TypeOK, Offsets
    <3>3. ASSUME NEW i \in DOMAIN polled, NEW p \in 1 .. polled[i] - 1 PROVE p \in Cleared'
      <4>1. polled[i] \in strayed' /\ polled[i] \in 1 .. N
        BY <3>2
      <4>2. p < polled[i] /\ p \in Offsets
        BY <4>1 DEF Offsets
      <4>. QED  BY <4>1, <4>2 DEF Cleared, Excused
    <3>4. PolledOrder'
      BY <2>1, <3>3 DEF PolledOrder, InLane
    <3>. QED
      BY <1>1, <1>2, <1>3, <2>1, <2>2, <2>3, <3>4 DEF Orders, PositionOrder
  <2>. QED  BY <2>4, <2>5
<1>. QED  BY <1>4, <1>5

\* All that the group has passed is settled or excused.
LEMMA PrefixSettled ==
    ASSUME TypeOK
    PROVE  CommittedPrefixHandled <=> \A o \in 1 .. committed - 1 : o \in Cleared
  BY RunnerAssumption DEF TypeOK, CommittedPrefixHandled, Cleared, Offsets

LEMMA OrdersStep ==
    ASSUME IndInv, [Next]_vars
    PROVE  Orders'
<1>. USE RunnerAssumption
<1>0. TypeOK /\ Shape /\ Orders
  BY DEF IndInv
<1>1. CASE assign
  <2>1. /\ ~assigned /\ position' = committed /\ session' = session + 1
        /\ Cleared' = Cleared
        /\ UNCHANGED <<batch, queue, polled, step, target, pollSession>>
    BY <1>0, <1>1 DEF assign, runVars, strayVars, Cleared, Excused
  <2>2. \A l \in Lanes : BatchOrder(l)' /\ QueueOrder(l)'
    BY <1>0, <2>1 DEF Orders, BatchOrder, QueueOrder
  <2>3. step = "enqueue" =>
          PolledLane' = PolledLane /\ \A p : InLane(PolledLane, p) => InLane(PolledLane, p)'
    BY <2>1 DEF PolledLane, InLane
  <2>4. PolledOrder'
    <3>1. pollSession # session'
      BY <1>0, <2>1 DEF TypeOK, Shape
    <3>2. Fresh' => step = "enqueue" /\ step' = "enqueue"
      BY <2>1, <3>1 DEF Fresh
    <3>. QED  BY <1>0, <2>1, <2>3, <3>2 DEF Orders, PolledOrder, Fresh
  <2>5. PositionOrder'
    <3>1. \A p \in 1 .. committed - 1 : p \in Cleared
      BY <1>0, PrefixSettled DEF IndInv
    <3>. QED  BY <2>1, <3>1 DEF PositionOrder, InLane
  <2>. QED  BY <2>2, <2>4, <2>5 DEF Orders
<1>2. CASE revoke
  <2>1. /\ ~assigned' /\ Cleared' = Cleared
        /\ UNCHANGED <<batch, queue, polled, step, target, session, pollSession>>
    BY <1>2 DEF revoke, groupVars, runVars, strayVars, Cleared, Excused
  <2>2. \A l \in Lanes : BatchOrder(l)' /\ QueueOrder(l)'
    BY <1>0, <2>1 DEF Orders, BatchOrder, QueueOrder
  <2>3. PolledLane' = PolledLane /\ \A p : InLane(PolledLane, p) => InLane(PolledLane, p)'
    BY <2>1 DEF PolledLane, InLane
  <2>4. PolledOrder'
    BY <1>0, <2>1, <2>3 DEF Orders, PolledOrder, Fresh
  <2>. QED  BY <2>1, <2>2, <2>4 DEF Orders, PositionOrder
<1>3. CASE OtherMember
  <2>1. Cleared \subseteq Cleared'
    BY <1>3 DEF OtherMember, runVars, strayVars, Cleared, Excused
  <2>. QED
    BY <1>0, <1>3, <2>1, SettledKept DEF OtherMember, clientVars, runVars, strayVars
<1>4. ASSUME NEW n \in 1 .. N, Poll(n) PROVE Orders'
  BY <1>0, <1>4, PollOrders
<1>5. CASE dispatchPartition
  BY <1>0, <1>5, DispatchOrders
<1>6. CASE enqueue
  BY <1>0, <1>6, EnqueueOrders
<1>7. CASE PauseBacklog
  <2>1. /\ step = "backlog" /\ step' = "poll" /\ Cleared' = Cleared
        /\ UNCHANGED <<batch, queue, polled, target, session, assigned, position>>
    BY <1>7 DEF PauseBacklog, groupVars, clientVars, strayVars, Cleared, Excused
  <2>2. \A l \in Lanes : BatchOrder(l)' /\ QueueOrder(l)'
    BY <1>0, <2>1 DEF Orders, BatchOrder, QueueOrder
  <2>3. PositionOrder'
    BY <1>0, <2>1 DEF Orders, PositionOrder, InLane
  <2>. QED  BY <2>1, <2>2, <2>3 DEF Orders, PolledOrder, Fresh
<1>8. CASE stopAll
  <2>1. step' = "stopped" /\ Cleared' = Cleared /\ UNCHANGED <<batch, queue>>
    BY <1>8 DEF stopAll, groupVars, strayVars, Cleared, Excused
  <2>2. \A l \in Lanes : BatchOrder(l)' /\ QueueOrder(l)'
    BY <1>0, <2>1 DEF Orders, BatchOrder, QueueOrder
  <2>. QED  BY <2>1, <2>2 DEF Orders, PolledOrder, PositionOrder, Fresh
<1>9. ASSUME (\E c \in Callers : CheckOwner(c) \/ CallClient(c)) \/ UNCHANGED vars
      PROVE  Orders'
  <2>1. /\ Cleared' = Cleared
        /\ UNCHANGED <<batch, queue, polled, step, target, session, assigned, position,
                       pollSession>>
    BY <1>9 DEF CheckOwner, CallClient, vars, groupVars, clientVars, runVars, strayVars,
                Cleared, Excused
  <2>. QED  BY <1>0, <2>1, SettledKept
<1>10. ASSUME NEW l \in Lanes, runLane(l) PROVE Orders'
  BY <1>0, <1>10, LaneOrders
<1>. QED
  BY <1>1, <1>2, <1>3, <1>4, <1>5, <1>6, <1>7, <1>8, <1>9, <1>10 DEF Next, RunLoop

-----------------------------------------------------------------------------
(* What is settled and what is committed *)

\* A commit of the batch of a lane passes only settled records.
LEMMA CommitSettled ==
    ASSUME TypeOK, Shape, Orders, NEW l \in Lanes, ctl[l] = "committing",
           Cleared' = Cleared, TypeOK', committed' = LastOffset(batch[l]) + 1
    PROVE  CommittedPrefixHandled'
<1>1. /\ LastOffset(batch[l]) \in Elements(batch[l]) /\ Elements(batch[l]) \subseteq handled
      /\ LastOffset(batch[l]) \in Nat
  BY BatchEnds, RunnerAssumption DEF Shape, LaneShape, Offsets
<1>2. \A p \in 1 .. LastOffset(batch[l]) - 1 : p \in Cleared
  BY <1>1 DEF Orders, BatchOrder, Cleared
<1>3. \A p \in 1 .. committed' - 1 : p \in Cleared'
  BY <1>1, <1>2 DEF Cleared
<1>4. ASSUME NEW p \in 1 .. committed' - 1 PROVE p \in handled' \/ Excused(p)'
  BY <1>3 DEF Cleared
<1>. QED  BY <1>4 DEF CommittedPrefixHandled

LEMMA HandledStep ==
    ASSUME IndInv, [Next]_vars
    PROVE  CommittedPrefixHandled' /\ HandledInOrder'
<1>. USE RunnerAssumption
<1>0. TypeOK /\ TypeOK' /\ Shape /\ Orders /\ CommittedPrefixHandled /\ HandledInOrder
  BY TypeStep DEF IndInv
<1>1. CASE OtherMember
  <2>1. /\ handled' = handled \cup {committed} /\ committed' = committed + 1
        /\ strayed' = strayed /\ committed \in Nat
    BY <1>0, <1>1 DEF OtherMember, TypeOK, runVars, strayVars
  <2>2. CommittedPrefixHandled'
    BY <1>0, <2>1 DEF CommittedPrefixHandled, Excused
  <2>3. HandledInOrder'
    BY <1>0, <2>1 DEF CommittedPrefixHandled, HandledInOrder, Excused
  <2>. QED  BY <2>2, <2>3
<1>2. ASSUME NEW l \in Lanes, Processed(l)
      PROVE  CommittedPrefixHandled' /\ HandledInOrder'
  <2>1. /\ handled' = handled \cup Elements(batch[l])
        /\ committed' = committed /\ strayed' = strayed
    BY <1>2 DEF Processed, runVars, strayVars
  <2>2. CommittedPrefixHandled'
    BY <1>0, <2>1 DEF CommittedPrefixHandled, Excused
  <2>3. \A o \in Elements(batch[l]) : \A p \in 1 .. o - 1 : p \in handled' \/ Excused(p)'
    BY <1>0, <2>1 DEF Orders, BatchOrder, Cleared, Excused
  <2>4. HandledInOrder'
    BY <1>0, <2>1, <2>3 DEF HandledInOrder, Excused
  <2>. QED  BY <2>2, <2>4
<1>3. ASSUME NEW l \in Lanes, Committed(l) \/ CommitFailed(l)
      PROVE  CommittedPrefixHandled' /\ HandledInOrder'
  <2>1. /\ ctl[l] = "committing" /\ handled' = handled /\ strayed' = strayed
        /\ committed' = committed \/ committed' = LastOffset(batch[l]) + 1
    BY <1>3 DEF Committed, CommitFailed, runVars, strayVars
  <2>2. HandledInOrder' /\ Cleared' = Cleared
    BY <1>0, <2>1 DEF HandledInOrder, Cleared, Excused
  <2>3. CASE committed' = committed
    BY <1>0, <2>1, <2>2, <2>3 DEF CommittedPrefixHandled, Excused
  <2>4. CASE committed' = LastOffset(batch[l]) + 1
    BY <1>0, <2>1, <2>2, <2>4, CommitSettled
  <2>. QED  BY <2>1, <2>2, <2>3, <2>4
<1>4. CASE UNCHANGED <<handled, committed>> /\ strayed \subseteq strayed'
  BY <1>0, <1>4 DEF CommittedPrefixHandled, HandledInOrder, Excused
<1>5. ASSUME NEW l \in Lanes, runLane(l), ~Processed(l), ~Committed(l), ~CommitFailed(l)
      PROVE  UNCHANGED <<handled, committed, strayed>>
  BY <1>5 DEF runLane, popBatch, drain, resumeBacklogIfReady, ResumeBacklog, StopLane,
         processAndCommit, CallProcessor, Aborted, Retry, CheckCommit, groupVars, runVars,
         strayVars
<1>6. ASSUME \/ assign \/ revoke \/ RunLoop \/ stopAll
             \/ \E c \in Callers : CheckOwner(c) \/ CallClient(c)
             \/ UNCHANGED vars
      PROVE  UNCHANGED <<handled, committed>> /\ strayed \subseteq strayed'
  BY <1>6 DEF assign, revoke, RunLoop, Poll, dispatchPartition, enqueue, PauseBacklog, stopAll,
              CheckOwner, CallClient, vars, groupVars, runVars, strayVars
<1>. QED  BY <1>1, <1>2, <1>3, <1>4, <1>5, <1>6 DEF Next

LEMMA InitInd == Init => IndInv
<1>. SUFFICES ASSUME Init PROVE IndInv
  OBVIOUS
<1>1. TypeOK
  BY InitType
<1>2. /\ ~assigned /\ step = "poll" /\ committed = 1 /\ handled = {}
      /\ pollSession = 0 /\ session = 0
      /\ \A l \in Lanes : ctl[l] = "none" /\ queue[l] = <<>> /\ batch[l] = <<>>
  BY DEF Init
<1>3. \A l \in Lanes : DOMAIN queue[l] = {} /\ Elements(batch[l]) = {}
  BY <1>2, EmptySeq, LenProperties DEF Elements
<1>4. Shape
  BY <1>2 DEF Shape, LaneShape, Occupied
<1>5. Orders
  BY <1>2, <1>3 DEF Orders, BatchOrder, QueueOrder, PolledOrder, PositionOrder, Fresh
<1>. QED  BY <1>1, <1>2, <1>4, <1>5 DEF IndInv, CommittedPrefixHandled, HandledInOrder

LEMMA Inductive == Spec => []IndInv
<1>1. IndInv /\ [Next]_vars => IndInv'
  <2>. SUFFICES ASSUME IndInv, [Next]_vars PROVE IndInv'
    OBVIOUS
  <2>1. TypeOK'
    BY TypeStep DEF IndInv
  <2>2. Shape'
    BY ShapeStep DEF IndInv
  <2>3. Orders'
    BY OrdersStep
  <2>. QED  BY <2>1, <2>2, <2>3, HandledStep DEF IndInv
<1>. QED  BY <1>1, InitInd, PTL DEF Spec

\* The group's offset passes no record that is not settled, unless a stray behind the
\* record carries it there (processAndCommit, commit, dispatchPartition), for any
\* number of records, assignments and failures and any sizes of buffer and batch.
THEOREM NothingSkipped == Spec => []CommittedPrefixHandled
<1>1. IndInv => CommittedPrefixHandled
  BY DEF IndInv
<1>. QED  BY <1>1, Inductive, PTL

\* The records of the partition are settled in order (dispatchPartition, popBatch,
\* processAndCommit), over all assignments to this runner and those to the other
\* members of the group: only a stray overtakes records before it.
THEOREM SettledInOrder == Spec => []HandledInOrder
<1>1. IndInv => HandledInOrder
  BY DEF IndInv
<1>. QED  BY <1>1, Inductive, PTL

-----------------------------------------------------------------------------
(* The offset of the group never moves back *)

\* What the lane of the last assignment has yet to take: its queue and, until they
\* are added to it, the records that Run has polled.
Incoming ==
    IF Fresh /\ PolledLane = session THEN queue[session] \o polled ELSE queue[session]

\* Where the group will be once the lane has committed its batch.
BatchEnd == IF batch[session] = <<>> THEN {} ELSE {LastOffset(batch[session])}

\* What the client will fetch.
Beyond == IF assigned THEN {y \in Nat : y >= position} ELSE {}

\* x does not come after y, or y is no further than one of the strays.
Low(strays, x, y) == x <= y \/ \E s \in strays : y <= s

\* Each comes before all that follow it: the last record committed (c), the end of the
\* batch (p), the incoming records, what is beyond.  Low is not transitive, so that a
\* neighbour does not vouch for the next one.
Chained(strays, c, p, in, beyond) ==
    /\ \A x \in p : Low(strays, c, x)
    /\ \A i \in DOMAIN in : \A x \in {c} \cup p : Low(strays, x, in[i])
    /\ \A i, j \in DOMAIN in : i < j => Low(strays, in[i], in[j])
    /\ \A y \in beyond :
          /\ \A x \in {c} \cup p : Low(strays, x, y)
          /\ \A i \in DOMAIN in : Low(strays, in[i], y)

\* As long as a commit of the lane can be accepted, its batch, its incoming records
\* and the fetch position follow each other, from the group's offset on.
Forward ==
    assigned \/ ~fenced => Chained(strayed, committed - 1, BatchEnd, Incoming, Beyond)

SessionInv ==
    /\ (assigned \/ ~fenced) => session \in Lanes
    /\ assigned => ~fenced

LEMMA SessionStep ==
    ASSUME TypeOK, SessionInv, [Next]_vars
    PROVE  SessionInv'
<1>. USE RunnerAssumption DEF SessionInv
<1>1. CASE assign
  <2>1. session' = session + 1 /\ session + 1 \in Lanes /\ fenced' = FALSE
    BY <1>1 DEF assign, TypeOK, Lanes
  <2>. QED  BY <2>1
<1>2. CASE revoke \/ OtherMember
  BY <1>2 DEF revoke, OtherMember, groupVars, clientVars
<1>3. CASE UNCHANGED <<session, assigned, fenced>>
  BY <1>3
<1>4. ASSUME RunLoop \/ stopAll \/ \E c \in Callers : CheckOwner(c) \/ CallClient(c)
      PROVE  UNCHANGED <<session, assigned, fenced>>
  BY <1>4 DEF RunLoop, Poll, dispatchPartition, enqueue, PauseBacklog, stopAll, CheckOwner,
              CallClient, groupVars, clientVars
<1>5. ASSUME NEW l \in Lanes, runLane(l) PROVE UNCHANGED <<session, assigned, fenced>>
  BY <1>5 DEF runLane, popBatch, drain, resumeBacklogIfReady, ResumeBacklog, StopLane,
              processAndCommit, CallProcessor, Processed, Aborted, Retry, CheckCommit,
              Committed, CommitFailed, groupVars, clientVars
<1>. QED  BY <1>1, <1>2, <1>3, <1>4, <1>5 DEF Next, vars, groupVars, clientVars

\* The sequences in question are sequences of offsets.
LEMMA IncomingType ==
    ASSUME TypeOK, session \in Lanes
    PROVE  /\ queue[session] \in Seq(Offsets) /\ polled \in Seq(Offsets)
           /\ Incoming \in Seq(Offsets)
           /\ DOMAIN Incoming = 1 .. Len(Incoming) /\ Len(Incoming) \in Nat
           /\ \A i \in DOMAIN Incoming : Incoming[i] \in Int
<1>1. queue[session] \in Seq(Offsets) /\ polled \in Seq(Offsets)
  BY DEF TypeOK
<1>2. queue[session] \o polled \in Seq(Offsets)
  BY <1>1, Join
<1>3. Incoming \in Seq(Offsets)
  BY <1>1, <1>2 DEF Incoming
<1>. QED  BY <1>1, <1>3, LenProperties, RunnerAssumption DEF Offsets

LEMMA PendingType ==
    ASSUME TypeOK, session \in Lanes
    PROVE  BatchEnd \subseteq Int /\ committed - 1 \in Int /\ Beyond \subseteq Int
<1>1. batch[session] \in Seq(Offsets)
  BY DEF TypeOK
<1>2. batch[session] # <<>> => LastOffset(batch[session]) \in Offsets
  BY <1>1, EmptySeq, LenProperties DEF LastOffset
<1>. QED  BY <1>2, RunnerAssumption DEF BatchEnd, Beyond, TypeOK, Offsets

-----------------------------------------------------------------------------
(* Chains: what the steps do to them *)

\* The end of the incoming records, the batch or the assignment is given up.
LEMMA ChainLess ==
    ASSUME NEW strays, NEW c, NEW p, NEW in, NEW beyond, Chained(strays, c, p, in, beyond),
           NEW strays2, strays \subseteq strays2, NEW p2, p2 \subseteq p,
           NEW beyond2, beyond2 \subseteq beyond,
           NEW in2, \A i \in DOMAIN in2 : i \in DOMAIN in /\ in2[i] = in[i]
    PROVE  Chained(strays2, c, p2, in2, beyond2)
<1>1. \A x, y : Low(strays, x, y) => Low(strays2, x, y)
  BY DEF Low
<1>2. \A x \in p2 : Low(strays2, c, x)
  BY <1>1 DEF Chained
<1>3. \A i \in DOMAIN in2 : \A x \in {c} \cup p2 : Low(strays2, x, in2[i])
  BY <1>1 DEF Chained
<1>4. \A i, j \in DOMAIN in2 : i < j => Low(strays2, in2[i], in2[j])
  BY <1>1 DEF Chained
<1>5. ASSUME NEW y \in beyond2
      PROVE  /\ \A x \in {c} \cup p2 : Low(strays2, x, y)
             /\ \A i \in DOMAIN in2 : Low(strays2, in2[i], y)
  BY <1>1 DEF Chained
<1>. QED  BY <1>2, <1>3, <1>4, <1>5 DEF Chained

\* popBatch and drain: the first n incoming records become the end of the batch.
LEMMA ChainTake ==
    ASSUME NEW strays, NEW c, NEW p, NEW in, NEW beyond, Chained(strays, c, p, in, beyond),
           NEW n \in DOMAIN in, NEW in2, n \in Nat,
           \A i \in DOMAIN in2 : i \in Nat \ {0} /\ n + i \in DOMAIN in /\ in2[i] = in[n + i]
    PROVE  Chained(strays, c, {in[n]}, in2, beyond)
<1>1. Low(strays, c, in[n])
  BY DEF Chained
<1>2. \A i \in DOMAIN in2 : Low(strays, c, in2[i]) /\ Low(strays, in[n], in2[i])
  <2>1. \A i \in DOMAIN in2 : n < n + i
    OBVIOUS
  <2>. QED  BY <2>1 DEF Chained
<1>3. \A i, j \in DOMAIN in2 : i < j => Low(strays, in2[i], in2[j])
  <2>1. \A i, j \in DOMAIN in2 : i < j => n + i < n + j
    OBVIOUS
  <2>. QED  BY <2>1 DEF Chained
<1>4. \A y \in beyond : Low(strays, c, y) /\ Low(strays, in[n], y)
  BY DEF Chained
<1>5. \A y \in beyond : \A i \in DOMAIN in2 : Low(strays, in2[i], y)
  BY DEF Chained
<1>. QED  BY <1>1, <1>2, <1>3, <1>4, <1>5 DEF Chained

\* The batch is committed; its answer may be lost.
LEMMA ChainCommit ==
    ASSUME NEW strays, NEW c, NEW x \in Int, NEW in, NEW beyond,
           Chained(strays, c, {x}, in, beyond), NEW p \in SUBSET {x}
    PROVE  Chained(strays, x, p, in, beyond)
<1>1. Low(strays, x, x)
  BY DEF Low
<1>. QED  BY <1>1 DEF Chained

\* Records are added that come, in their order, from beyond.
LEMMA ChainPoll ==
    ASSUME NEW strays, NEW c, NEW p, NEW in, NEW beyond, Chained(strays, c, p, in, beyond),
           NEW beyond2, beyond2 \subseteq beyond, NEW in2,
           \A i \in DOMAIN in2 :
              \/ i \in DOMAIN in /\ in2[i] = in[i]
              \/ /\ in2[i] \in beyond
                 /\ \A j \in DOMAIN in2 : i < j => in2[i] <= in2[j]
                 /\ \A y \in beyond2 : in2[i] <= y
    PROVE  Chained(strays, c, p, in2, beyond2)
<1>1. \A i \in DOMAIN in2 : \A x \in {c} \cup p : Low(strays, x, in2[i])
  BY DEF Chained
<1>2. ASSUME NEW i \in DOMAIN in2, NEW j \in DOMAIN in2, i < j
      PROVE  Low(strays, in2[i], in2[j])
  <2>1. CASE i \in DOMAIN in /\ in2[i] = in[i]
    <3>1. CASE j \in DOMAIN in /\ in2[j] = in[j]
      BY <1>2, <2>1, <3>1 DEF Chained
    <3>2. CASE in2[j] \in beyond
      BY <2>1, <3>2 DEF Chained
    <3>. QED  BY <3>1, <3>2
  <2>2. CASE \A k \in DOMAIN in2 : i < k => in2[i] <= in2[k]
    BY <1>2, <2>2 DEF Low
  <2>. QED  BY <2>1, <2>2
<1>3. ASSUME NEW y \in beyond2, NEW i \in DOMAIN in2 PROVE Low(strays, in2[i], y)
  BY DEF Chained, Low
<1>4. \A y \in beyond2 : \A x \in {c} \cup p : Low(strays, x, y)
  BY DEF Chained
<1>5. \A x \in p : Low(strays, c, x)
  BY DEF Chained
<1>. QED  BY <1>1, <1>2, <1>3, <1>4, <1>5 DEF Chained

\* Strays are added.
LEMMA ChainStray ==
    ASSUME NEW strays, NEW c \in Int, NEW p \in SUBSET Int, NEW in, NEW beyond \in SUBSET Int,
           Chained(strays, c, p, in, beyond),
           NEW strays2 \in SUBSET Int, strays \subseteq strays2, NEW in2,
           \A i \in DOMAIN in2 :
              in2[i] \in Int /\ (in2[i] \in strays2 \/ (i \in DOMAIN in /\ in2[i] = in[i]))
    PROVE  Chained(strays2, c, p, in2, beyond)
<1>1. \A x, y : Low(strays, x, y) => Low(strays2, x, y)
  BY DEF Low
<1>2. \A s \in strays2 : \A x \in Int : Low(strays2, x, s) /\ Low(strays2, s, x)
  BY DEF Low
<1>3. \A x \in p : Low(strays2, c, x)
  BY <1>1 DEF Chained
<1>4. \A i \in DOMAIN in2 : \A x \in {c} \cup p : Low(strays2, x, in2[i])
  BY <1>1, <1>2 DEF Chained
<1>5. \A i, j \in DOMAIN in2 : i < j => Low(strays2, in2[i], in2[j])
  BY <1>1, <1>2 DEF Chained
<1>6. \A y \in beyond : \A i \in DOMAIN in2 : Low(strays2, in2[i], y)
  BY <1>1, <1>2 DEF Chained
<1>7. \A y \in beyond : \A x \in {c} \cup p : Low(strays2, x, y)
  BY <1>1 DEF Chained
<1>. QED  BY <1>3, <1>4, <1>5, <1>6, <1>7 DEF Chained

-----------------------------------------------------------------------------
(* The steps keep the chain *)

\* The queue of the last lane is cut after its first n records.
LEMMA IncomingCut ==
    ASSUME TypeOK, session \in Lanes, NEW n \in 0 .. Len(queue[session]),
           UNCHANGED <<session, step, polled, target, pollSession>>,
           queue'[session] = SubSeq(queue[session], n + 1, Len(queue[session]))
    PROVE  /\ \A i \in DOMAIN Incoming' :
                 i \in Nat \ {0} /\ n + i \in DOMAIN Incoming /\ Incoming'[i] = Incoming[n + i]
           /\ n # 0 => n \in DOMAIN Incoming /\ Incoming[n] = queue[session][n]
<1>. DEFINE q == queue[session]
            q2 == queue'[session]
            in == Incoming
            in2 == Incoming'
<1>1. /\ q \in Seq(Offsets) /\ polled \in Seq(Offsets) /\ in \in Seq(Offsets)
      /\ DOMAIN in = 1 .. Len(in) /\ Len(in) \in Nat
  BY IncomingType
<1>2. Len(q) \in Nat /\ Len(polled) \in Nat /\ n \in 0 .. Len(q)
  BY <1>1, LenProperties
<1>3. /\ q2 \in Seq(Offsets) /\ Len(q2) = Len(q) - n
      /\ \A i \in 1 .. Len(q) - n : q2[i] = q[n + i]
  BY <1>1, Cut
<1>4. \/ in = q /\ in2 = q2
      \/ in = q \o polled /\ in2 = q2 \o polled
  BY DEF Incoming, PolledLane, Fresh
<1>5. /\ Len(in) >= Len(q) /\ \A i \in 1 .. Len(q) : in[i] = q[i]
      /\ DOMAIN in2 = 1 .. Len(in) - n
      /\ \A i \in 1 .. Len(in) - n : in2[i] = in[n + i]
  <2>1. CASE in = q /\ in2 = q2
    <3>1. DOMAIN q2 = 1 .. Len(q2)
      BY <1>3, LenProperties
    <3>. HIDE DEF q, q2, in, in2
    <3>. QED  BY <1>2, <1>3, <2>1, <3>1
  <2>2. CASE in = q \o polled /\ in2 = q2 \o polled
    <3>1. /\ q \o polled \in Seq(Offsets) /\ q2 \o polled \in Seq(Offsets)
          /\ Len(q \o polled) >= Len(q)
          /\ \A i \in 1 .. Len(q) : (q \o polled)[i] = q[i]
          /\ Without(q2 \o polled, q \o polled, n)
      <4>. HIDE DEF q, q2
      <4>1. Without(q2, q, n)
        BY <1>3 DEF Without
      <4>. QED  BY <1>1, <1>2, <1>3, <4>1, Drop
    <3>. QED  BY <1>2, <2>2, <3>1, LenProperties DEF Without
  <2>. QED  BY <1>4, <2>1, <2>2
<1>6. n # 0 => n \in DOMAIN in /\ in[n] = q[n]
  <2>. HIDE DEF in, in2, q, q2
  <2>. QED  BY <1>1, <1>2, <1>5
<1>7. ASSUME NEW i \in DOMAIN in2
      PROVE  i \in Nat \ {0} /\ n + i \in DOMAIN in /\ in2[i] = in[n + i]
  <2>. HIDE DEF in, in2, q, q2
  <2>. QED  BY <1>1, <1>2, <1>5
<1>. QED  BY <1>6, <1>7

\* A step that takes n records from the queue of the last lane into its batch.
LEMMA ForwardTake ==
    ASSUME TypeOK, SessionInv, Forward, NEW n \in 0 .. Len(queue[session]),
           UNCHANGED <<committed, fenced, session, assigned, position, step, polled, target,
                       strayVars>>,
           queue'[session] = SubSeq(queue[session], n + 1, Len(queue[session])),
           BatchEnd' = IF n = 0 THEN BatchEnd ELSE {queue[session][n]}
    PROVE  Forward'
<1>. SUFFICES ASSUME assigned \/ ~fenced PROVE Forward'
  BY DEF Forward
<1>. DEFINE in == Incoming
            in2 == Incoming'
<1>0. session \in Lanes /\ UNCHANGED <<pollSession, strayed>>
  BY DEF SessionInv, strayVars
<1>1. Chained(strayed, committed - 1, BatchEnd, in, Beyond) /\ Beyond' = Beyond
  BY DEF Forward, Beyond
<1>2. /\ \A i \in DOMAIN in2 :
            i \in Nat \ {0} /\ n + i \in DOMAIN in /\ in2[i] = in[n + i]
      /\ n # 0 => n \in DOMAIN in /\ in[n] = queue[session][n]
  BY <1>0, IncomingCut
<1>3. Chained(strayed, committed - 1, BatchEnd', in2, Beyond)
  <2>. HIDE DEF in, in2
  <2>1. CASE n = 0
    <3>1. \A i \in DOMAIN in2 : i \in DOMAIN in /\ in2[i] = in[i]
      BY <1>2, <2>1
    <3>. QED  BY <1>1, <2>1, <3>1, ChainLess
  <2>2. CASE n # 0
    <3>1. n \in Nat /\ n \in DOMAIN in /\ BatchEnd' = {in[n]}
      <4>1. queue[session] \in Seq(Offsets)
        BY <1>0 DEF TypeOK
      <4>. QED  BY <1>2, <2>2, <4>1, LenProperties
    <3>2. Chained(strayed, committed - 1, {in[n]}, in2, Beyond)
      BY <1>1, <1>2, <3>1, ChainTake
    <3>. QED  BY <3>1, <3>2
  <2>. QED  BY <2>1, <2>2
<1>. QED  BY <1>0, <1>1, <1>3 DEF Forward

\* A step that leaves the batch of the last lane and the offset, and gives up at most the
\* assignment, the polled records or what they belong to.
LEMMA ForwardKept ==
    ASSUME Forward, BatchEnd' = BatchEnd, committed' = committed,
           (assigned \/ ~fenced)' => assigned \/ ~fenced, Beyond' \subseteq Beyond,
           strayed' = strayed,
           (assigned \/ ~fenced)' =>
              \A i \in DOMAIN Incoming' : i \in DOMAIN Incoming /\ Incoming'[i] = Incoming[i]
    PROVE  Forward'
<1>. SUFFICES ASSUME (assigned \/ ~fenced)' PROVE Forward'
  BY DEF Forward
<1>. DEFINE in == Incoming
            in2 == Incoming'
            b == Beyond
            b2 == Beyond'
<1>1. Chained(strayed, committed - 1, BatchEnd, in, b)
  BY DEF Forward
<1>2. b2 \subseteq b /\ \A i \in DOMAIN in2 : i \in DOMAIN in /\ in2[i] = in[i]
  OBVIOUS
<1>3. Chained(strayed, committed - 1, BatchEnd, in2, b2)
  <2>. HIDE DEF in, in2, b, b2
  <2>. QED  BY <1>1, <1>2, ChainLess
<1>. QED  BY <1>3 DEF Forward

LEMMA ForwardLane ==
    ASSUME TypeOK, Shape, SessionInv, Forward, NEW l \in Lanes, runLane(l)
    PROVE  Forward'
<1>. USE RunnerAssumption
<1>1. UNCHANGED <<session, assigned, fenced, position, step, polled, target, strayVars,
                  pollSession, strayed>>
  BY DEF runLane, popBatch, drain, resumeBacklogIfReady, ResumeBacklog, StopLane,
         processAndCommit, CallProcessor, Processed, Aborted, Retry, CheckCommit,
         Committed, CommitFailed, groupVars, clientVars, runVars, strayVars
<1>. SUFFICES ASSUME assigned \/ ~fenced PROVE Forward'
  BY <1>1 DEF Forward
<1>2. session \in Lanes
  BY DEF SessionInv
<1>3. /\ queue[l] \in Seq(Offsets) /\ batch[l] \in Seq(Offsets)
      /\ Len(queue[l]) \in Nat /\ Len(batch[l]) \in Nat
  BY LenProperties DEF TypeOK
<1>5. ASSUME queue'[session] = queue[session] PROVE Incoming' = Incoming
  BY <1>1, <1>5 DEF Incoming, PolledLane, Fresh
<1>10. Beyond' = Beyond
  BY <1>1 DEF Beyond
<1>11. ASSUME queue'[session] = queue[session], batch'[session] = batch[session],
              committed' = committed
       PROVE  Forward'
  <2>1. Incoming' = Incoming /\ BatchEnd' = BatchEnd
    BY <1>1, <1>5, <1>11 DEF BatchEnd, LastOffset
  <2>. QED  BY <1>1, <1>10, <1>11, <2>1, ForwardKept
<1>6. CASE popBatch(l)
  <2>. DEFINE n == Min2(BatchSize, Len(queue[l]))
  <2>1. /\ batch' = [batch EXCEPT ![l] = SubSeq(queue[l], 1, n)]
        /\ queue' = [queue EXCEPT ![l] = SubSeq(queue[l], n + 1, Len(queue[l]))]
        /\ committed' = committed /\ queue[l] # <<>> /\ batch[l] = <<>>
    BY <1>6 DEF popBatch, groupVars, Shape, LaneShape, TypeOK
  <2>2. n \in 1 .. Len(queue[l])
    BY <1>3, <2>1, EmptySeq DEF Min2
  <2>3. CASE l # session
    <3>1. queue'[session] = queue[session] /\ batch'[session] = batch[session]
      BY <1>2, <2>1, <2>3 DEF TypeOK
    <3>. QED  BY <1>11, <2>1, <3>1
  <2>4. CASE l = session
    <3>1. /\ batch'[session] = SubSeq(queue[session], 1, n)
          /\ queue'[session] = SubSeq(queue[session], n + 1, Len(queue[session]))
      BY <1>2, <2>1, <2>4 DEF TypeOK
    <3>2. /\ Len(SubSeq(queue[session], 1, n)) = n
          /\ SubSeq(queue[session], 1, n)[n] = queue[session][n]
      BY <1>3, <2>2, <2>4, Cut
    <3>3. SubSeq(queue[session], 1, n) # <<>>
      <4>1. n # 0
        BY <1>3, <2>2
      <4>2. \A s : Len(s) = n => s # <<>>
        <5>. HIDE DEF n
        <5>. QED  BY <4>1, EmptySeq
      <4>. QED  BY <3>2, <4>2, Zenon
    <3>4. BatchEnd' = {queue[session][n]}
      BY <1>1, <3>1, <3>2, <3>3 DEF BatchEnd, LastOffset
    <3>5. n \in 0 .. Len(queue[session]) /\ n # 0
      BY <2>2, <2>4
    <3>. HIDE DEF n
    <3>. QED  BY <1>1, <2>1, <3>1, <3>4, <3>5, ForwardTake
  <2>. QED  BY <2>3, <2>4
<1>7. CASE drain(l)
  <2>. DEFINE n == Min2(BatchSize - Len(batch[l]), Len(queue[l]))
              b2 == batch[l] \o SubSeq(queue[l], 1, n)
  <2>1. /\ batch' = [batch EXCEPT ![l] = b2]
        /\ queue' = [queue EXCEPT ![l] = SubSeq(queue[l], n + 1, Len(queue[l]))]
        /\ committed' = committed /\ batch[l] # <<>>
    BY <1>7 DEF drain, groupVars, Shape, LaneShape, Occupied, TypeOK
  <2>2. n \in 0 .. Len(queue[l])
    BY <1>3, <1>7 DEF Min2, drain
  <2>3. CASE l # session
    <3>1. queue'[session] = queue[session] /\ batch'[session] = batch[session]
      BY <1>2, <2>1, <2>3 DEF TypeOK
    <3>. QED  BY <1>11, <2>1, <3>1
  <2>4. CASE l = session
    <3>1. /\ batch'[session] = b2
          /\ queue'[session] = SubSeq(queue[session], n + 1, Len(queue[session]))
      BY <1>2, <2>1, <2>4 DEF TypeOK
    <3>2. /\ SubSeq(queue[l], 1, n) \in Seq(Offsets)
          /\ Len(SubSeq(queue[l], 1, n)) = n
          /\ \A i \in 1 .. n : SubSeq(queue[l], 1, n)[i] = queue[l][i]
      BY <1>3, <2>2, Cut
    <3>3. /\ Len(b2) = Len(batch[l]) + n
          /\ \A i \in 1 .. Len(batch[l]) : b2[i] = batch[l][i]
          /\ \A i \in 1 .. n : b2[Len(batch[l]) + i] = queue[l][i]
      <4>. DEFINE pre == SubSeq(queue[l], 1, n)
      <4>1. /\ pre \in Seq(Offsets) /\ Len(pre) = n
            /\ \A i \in 1 .. n : pre[i] = queue[l][i]
            /\ b2 = batch[l] \o pre
        BY <3>2
      <4>. HIDE DEF n, b2, pre
      <4>. QED  BY <1>3, <4>1, Join
    <3>4. Len(batch[l]) # 0
      BY <1>3, <2>1, EmptySeq
    <3>5. b2 # <<>>
      BY <1>3, <2>2, <3>3, <3>4, EmptySeq
    <3>6. b2[Len(b2)] = IF n = 0 THEN batch[l][Len(batch[l])] ELSE queue[l][n]
      <4>. HIDE DEF n, b2
      <4>. QED  BY <1>3, <2>2, <3>3, <3>4
    <3>7. BatchEnd' = {b2[Len(b2)]} /\ BatchEnd = {batch[l][Len(batch[l])]}
      BY <1>1, <2>1, <2>4, <3>1, <3>5 DEF BatchEnd, LastOffset
    <3>8. BatchEnd' = IF n = 0 THEN BatchEnd ELSE {queue[session][n]}
      BY <2>4, <3>6, <3>7
    <3>9. n \in 0 .. Len(queue[session])
      BY <2>2, <2>4
    <3>. HIDE DEF n, b2
    <3>. QED  BY <1>1, <2>1, <3>1, <3>8, <3>9, ForwardTake
  <2>. QED  BY <2>3, <2>4
<1>8. CASE Committed(l) \/ CommitFailed(l)
  <2>1. /\ ctl[l] = "committing" /\ batch[l] # <<>> /\ queue' = queue
        /\ batch' \in {batch, [batch EXCEPT ![l] = <<>>]}
        /\ \/ committed' = committed /\ batch' = batch
           \/ Accepted(l) /\ committed' = LastOffset(batch[l]) + 1
    BY <1>8 DEF Committed, CommitFailed, Shape, LaneShape, Occupied
  <2>2. CASE committed' = committed /\ batch' = batch
    BY <1>11, <2>1, <2>2
  <2>3. CASE Accepted(l) /\ committed' = LastOffset(batch[l]) + 1
    <3>1. l = session
      BY <2>3 DEF Accepted, Canceled
    <3>. DEFINE x == LastOffset(batch[session])
    <3>2. x \in Int /\ BatchEnd = {x}
      BY <2>1, <3>1, BatchEnds, RunnerAssumption DEF BatchEnd, Offsets
    <3>3. batch'[session] = <<>> \/ batch'[session] = batch[session]
      BY <1>2, <2>1, <3>1 DEF TypeOK
    <3>4. BatchEnd' \subseteq {x}
      BY <1>1, <3>3 DEF BatchEnd, LastOffset
    <3>5. committed' - 1 = x
      BY <2>3, <3>1, <3>2
    <3>6. Chained(strayed, committed - 1, {x}, Incoming, Beyond)
      BY <3>2 DEF Forward
    <3>7. Chained(strayed, x, BatchEnd', Incoming, Beyond)
      <4>. HIDE DEF x
      <4>. QED  BY <3>2, <3>4, <3>6, ChainCommit
    <3>8. Incoming' = Incoming
      BY <1>5, <2>1
    <3>. QED  BY <1>1, <1>10, <3>5, <3>7, <3>8 DEF Forward
  <2>. QED  BY <2>1, <2>2, <2>3
<1>9. CASE ~(popBatch(l) \/ drain(l) \/ Committed(l) \/ CommitFailed(l))
  <2>1. UNCHANGED <<committed, queue, batch>>
    BY <1>9 DEF runLane, resumeBacklogIfReady, ResumeBacklog, StopLane, processAndCommit,
                CallProcessor, Processed, Aborted, Retry, CheckCommit, groupVars
  <2>. QED  BY <1>11, <2>1
<1>. QED  BY <1>6, <1>7, <1>8, <1>9

\* Run reads on from the fetch position, which is beyond all that is incoming.
LEMMA ForwardPoll ==
    ASSUME TypeOK, SessionInv, Shape, Forward, NEW n \in 1 .. N, Poll(n)
    PROVE  Forward'
<1>. USE RunnerAssumption
<1>1. /\ step = "poll" /\ step' = "dispatch" /\ assigned
      /\ polled' = [i \in 1 .. n |-> position + i - 1] /\ position' = position + n
      /\ pollSession' = session /\ strayed' = strayed
      /\ UNCHANGED <<committed, fenced, session, assigned, queue, batch>>
  BY DEF Poll, groupVars
<1>2. session \in Lanes /\ position \in Nat /\ position >= 1 /\ n \in Nat
  BY <1>1 DEF SessionInv, Shape, TypeOK
<1>. DEFINE q == queue[session]
            in2 == Incoming'
            beyond == {y \in Nat : y >= position}
            beyond2 == {y \in Nat : y >= position + n}
<1>3. Incoming = q /\ in2 = q \o polled' /\ BatchEnd' = BatchEnd
  BY <1>1 DEF Incoming, PolledLane, Fresh, BatchEnd, LastOffset
<1>4. Beyond = beyond /\ Beyond' = beyond2
  BY <1>1 DEF Beyond
<1>5. /\ q \in Seq(Offsets) /\ DOMAIN q = 1 .. Len(q) /\ Len(q) \in Nat
  BY <1>2, <1>3, IncomingType
<1>6. polled' \in Seq(Offsets) /\ Len(polled') = n /\ \A i \in 1 .. n : polled'[i] = position + i - 1
  <2>1. position + n <= N + 1
    BY DEF Poll
  <2>. QED  BY <1>1, <1>2, <2>1 DEF Offsets
<1>7. /\ DOMAIN in2 = 1 .. Len(q) + n
      /\ \A i \in 1 .. Len(q) : in2[i] = q[i]
      /\ \A i \in 1 .. n : in2[Len(q) + i] = position + i - 1
  <2>1. /\ q \o polled' \in Seq(Offsets) /\ Len(q \o polled') = Len(q) + n
        /\ \A i \in 1 .. Len(q) : (q \o polled')[i] = q[i]
        /\ \A i \in 1 .. n : (q \o polled')[Len(q) + i] = polled'[i]
    BY <1>5, <1>6, Join
  <2>. QED  BY <1>3, <1>6, <2>1, LenProperties
<1>. HIDE DEF q, in2
<1>8. \A i \in DOMAIN in2 : i \in Nat /\ i <= Len(q) + n
  BY <1>2, <1>5, <1>7
<1>9. \A i \in DOMAIN in2 :
        \/ i \in DOMAIN q /\ in2[i] = q[i]
        \/ i > Len(q) /\ in2[i] = position + i - Len(q) - 1
  <2>. SUFFICES ASSUME NEW i \in 1 .. Len(q) + n, i > Len(q)
                PROVE  in2[i] = position + i - Len(q) - 1
    BY <1>5, <1>7
  <2>1. i - Len(q) \in 1 .. n /\ i = Len(q) + (i - Len(q))
    BY <1>5
  <2>2. in2[Len(q) + (i - Len(q))] = position + (i - Len(q)) - 1
    BY <1>7, <2>1
  <2>. QED  BY <1>2, <1>5, <2>1, <2>2
<1>10. ASSUME NEW i \in DOMAIN in2, i > Len(q)
       PROVE  /\ in2[i] \in beyond
              /\ \A j \in DOMAIN in2 : i < j => in2[i] <= in2[j]
              /\ \A y \in beyond2 : in2[i] <= y
  <2>1. in2[i] = position + i - Len(q) - 1 /\ i \in Nat /\ i <= Len(q) + n
    BY <1>5, <1>8, <1>9, <1>10
  <2>2. in2[i] \in beyond /\ \A y \in beyond2 : in2[i] <= y
    BY <1>2, <1>5, <1>10, <2>1
  <2>3. ASSUME NEW j \in DOMAIN in2, i < j PROVE in2[i] <= in2[j]
    <3>1. j \in Nat /\ j > Len(q)
      BY <1>5, <1>8, <1>10, <2>1, <2>3
    <3>2. in2[j] = position + j - Len(q) - 1
      BY <1>5, <1>9, <3>1
    <3>. QED  BY <1>2, <1>5, <2>1, <2>3, <3>1, <3>2
  <2>. QED  BY <2>2, <2>3
<1>11. \A i \in DOMAIN in2 :
         \/ i \in DOMAIN q /\ in2[i] = q[i]
         \/ /\ in2[i] \in beyond
            /\ \A j \in DOMAIN in2 : i < j => in2[i] <= in2[j]
            /\ \A y \in beyond2 : in2[i] <= y
  <2>. HIDE DEF beyond, beyond2
  <2>. QED  BY <1>9, <1>10
<1>12. beyond2 \subseteq beyond
  BY <1>2
<1>13. Chained(strayed, committed - 1, BatchEnd, q, beyond)
  BY <1>1, <1>3, <1>4 DEF Forward
<1>14. Chained(strayed, committed - 1, BatchEnd, in2, beyond2)
  <2>. HIDE DEF beyond, beyond2
  <2>. QED  BY <1>11, <1>12, <1>13, ChainPoll
<1>. QED  BY <1>1, <1>3, <1>4, <1>14 DEF Forward, in2

\* Fresh records stay where they were in the order; the others become strays.
LEMMA ForwardDispatch ==
    ASSUME TypeOK, Shape, SessionInv, Forward, dispatchPartition
    PROVE  Forward'
<1>. USE RunnerAssumption
<1>. SUFFICES ASSUME assigned \/ ~fenced PROVE Forward'
  BY DEF dispatchPartition, Forward, groupVars, clientVars
<1>1. /\ step = "dispatch" /\ session \in Lanes
      /\ UNCHANGED <<committed, fenced, session, assigned, position, queue, batch, pollSession>>
  BY DEF dispatchPartition, SessionInv, groupVars, clientVars
<1>2. BatchEnd' = BatchEnd /\ Beyond' = Beyond
  BY <1>1 DEF BatchEnd, LastOffset, Beyond
<1>. DEFINE q == queue[session]
<1>3. /\ q \in Seq(Offsets) /\ polled \in Seq(Offsets)
      /\ Len(q) \in Nat /\ Len(polled) \in Nat
      /\ DOMAIN q = 1 .. Len(q) /\ DOMAIN polled = 1 .. Len(polled)
      /\ q \o polled \in Seq(Offsets)
      /\ DOMAIN (q \o polled) = 1 .. Len(q) + Len(polled)
      /\ \A i \in 1 .. Len(q) : (q \o polled)[i] = q[i]
      /\ \A i \in 1 .. Len(polled) : (q \o polled)[Len(q) + i] = polled[i]
  <2>1. q \in Seq(Offsets) /\ polled \in Seq(Offsets)
    BY <1>1, IncomingType
  <2>. HIDE DEF q
  <2>. QED  BY <2>1, Join, LenProperties
<1>4. CASE ~assigned
  <2>1. step' = "poll" /\ strayed' = strayed
    BY <1>1, <1>4 DEF dispatchPartition
  <2>2. Incoming' = q /\ Incoming \in {q, q \o polled}
    BY <1>1, <2>1 DEF Incoming, Fresh
  <2>3. \A i \in DOMAIN Incoming' : i \in DOMAIN Incoming /\ Incoming'[i] = Incoming[i]
    <3>1. \A i \in DOMAIN q : i \in DOMAIN (q \o polled) /\ q[i] = (q \o polled)[i]
      <4>. HIDE DEF q
      <4>. QED  BY <1>3
    <3>. QED  BY <2>2, <3>1
  <2>. QED  BY <1>1, <1>2, <2>1, <2>3, ForwardKept
<1>5. CASE assigned
  <2>1. step' = "enqueue" /\ target' = session /\ polled' = polled
    BY <1>5 DEF dispatchPartition
  <2>2. Incoming' = q \o polled
    BY <1>1, <2>1 DEF Incoming, PolledLane, Fresh
  <2>3. CASE pollSession = session
    <3>1. Incoming = q \o polled /\ strayed' = strayed
      BY <1>1, <1>5, <2>3 DEF Incoming, PolledLane, Fresh, dispatchPartition
    <3>. QED  BY <1>1, <1>2, <2>2, <3>1, ForwardKept
  <2>4. CASE pollSession # session
    <3>1. Incoming = q /\ strayed' = strayed \cup Elements(polled)
      BY <1>1, <1>5, <2>4 DEF Incoming, PolledLane, Fresh, dispatchPartition
    <3>2. /\ strayed' \in SUBSET Int /\ strayed \subseteq strayed'
          /\ \A i \in DOMAIN polled : polled[i] \in strayed'
      <4>. HIDE DEF q
      <4>1. \A i \in DOMAIN polled : polled[i] \in Offsets
        BY <1>3, ElementOfSeq
      <4>2. Elements(polled) \subseteq Offsets /\ strayed \subseteq Offsets
        BY <4>1 DEF Elements, TypeOK
      <4>3. Offsets \subseteq Int
        BY DEF Offsets
      <4>. QED  BY <3>1, <4>2, <4>3 DEF Elements
    <3>3. BatchEnd \in SUBSET Int /\ committed - 1 \in Int /\ Beyond \in SUBSET Int
      BY <1>1, PendingType
    <3>. DEFINE in2 == q \o polled
    <3>4. \A i \in DOMAIN in2 :
            in2[i] \in Int /\ (in2[i] \in strayed' \/ (i \in DOMAIN q /\ in2[i] = q[i]))
      <4>. HIDE DEF q
      <4>1. \A i \in DOMAIN in2 : in2[i] \in Offsets
        BY <1>3, ElementOfSeq, LenProperties
      <4>5. \A i \in DOMAIN q : in2[i] = q[i]
        BY <1>3
      <4>6. Offsets \subseteq Int
        BY DEF Offsets
      <4>. HIDE DEF in2
      <4>. SUFFICES ASSUME NEW i \in DOMAIN in2, i \notin DOMAIN q PROVE in2[i] \in strayed'
        BY <4>1, <4>5, <4>6
      <4>. USE DEF in2
      <4>2. i - Len(q) \in 1 .. Len(polled) /\ i = Len(q) + (i - Len(q))
        BY <1>3
      <4>3. in2[Len(q) + (i - Len(q))] = polled[i - Len(q)]
        BY <1>3, <4>2
      <4>. QED  BY <1>3, <3>2, <4>2, <4>3
    <3>5. Chained(strayed, committed - 1, BatchEnd, q, Beyond)
      BY <3>1 DEF Forward
    <3>6. Chained(strayed', committed - 1, BatchEnd, in2, Beyond)
      <4>. HIDE DEF q, in2
      <4>. QED  BY <3>2, <3>3, <3>4, <3>5, ChainStray
    <3>. QED  BY <1>1, <1>2, <2>2, <3>6 DEF Forward
  <2>. QED  BY <2>3, <2>4
<1>. QED  BY <1>4, <1>5

LEMMA ForwardStep ==
    ASSUME TypeOK, Shape, SessionInv, Forward, [Next]_vars
    PROVE  Forward'
<1>. USE RunnerAssumption
<1>1. CASE assign
  <2>1. /\ ~assigned /\ session' = session + 1 /\ position' = committed
        /\ UNCHANGED <<committed, queue, batch, polled, step, target, pollSession, strayed>>
    BY <1>1 DEF assign, runVars, strayVars
  <2>2. session' \in Lanes /\ session' > session
    BY <1>1, <2>1 DEF assign, TypeOK, Lanes
  <2>3. queue[session'] = <<>> /\ batch[session'] = <<>>
    BY <2>2 DEF Shape, LaneShape
  <2>4. ~(Fresh' /\ PolledLane' = session')
    <3>1. pollSession # session' /\ (step = "enqueue" => target # session')
      BY <2>1, <2>2 DEF Shape, TypeOK, Lanes
    <3>. QED  BY <2>1, <3>1 DEF PolledLane, Fresh
  <2>5. Incoming' = <<>> /\ BatchEnd' = {} /\ committed \in Int
    BY <2>1, <2>3, <2>4 DEF Incoming, BatchEnd, TypeOK
  <2>6. DOMAIN Incoming' = {}
    BY <2>5, EmptySeq, LenProperties
  <2>7. \A y \in Beyond' : Low(strayed', committed' - 1, y)
    BY <2>1, <2>5 DEF Beyond, Low
  <2>. QED  BY <2>5, <2>6, <2>7 DEF Forward, Chained
<1>2. CASE revoke
  <2>1. /\ assigned /\ ~assigned'
        /\ UNCHANGED <<committed, fenced, queue, batch, polled, step, target, session,
                       pollSession, strayed>>
    BY <1>2 DEF revoke, groupVars, runVars, strayVars
  <2>2. Incoming' = Incoming /\ BatchEnd' = BatchEnd /\ Beyond' = {}
    BY <2>1 DEF Incoming, BatchEnd, LastOffset, PolledLane, Fresh, Beyond
  <2>. QED  BY <2>1, <2>2, ForwardKept
<1>3. CASE OtherMember
  BY <1>3 DEF OtherMember, Forward, clientVars
<1>4. ASSUME NEW n \in 1 .. N, Poll(n) PROVE Forward'
  BY <1>4, ForwardPoll
<1>5. ASSUME UNCHANGED <<committed, fenced, session, assigned, position, batch, strayed>>,
             assigned \/ ~fenced => Incoming' = Incoming
      PROVE  Forward'
  <2>1. BatchEnd' = BatchEnd /\ Beyond' = Beyond
    BY <1>5 DEF BatchEnd, LastOffset, Beyond
  <2>. QED  BY <1>5, <2>1, ForwardKept
<1>6. CASE dispatchPartition
  BY <1>6, ForwardDispatch
<1>7. CASE enqueue
  <2>1. /\ step = "enqueue" /\ step' \notin {"dispatch", "enqueue"} /\ target \in Lanes
        /\ queue' = [queue EXCEPT ![target] = queue[target] \o polled]
        /\ UNCHANGED <<committed, fenced, session, assigned, position, batch, strayed>>
    BY <1>7 DEF enqueue, Shape, groupVars, clientVars, strayVars
  <2>2. ASSUME assigned \/ ~fenced PROVE Incoming' = Incoming
    <3>1. session \in Lanes
      BY <2>2 DEF SessionInv
    <3>2. Incoming' = queue'[session]
      BY <2>1 DEF Incoming, Fresh
    <3>3. CASE target = session
      BY <2>1, <3>1, <3>2, <3>3 DEF Incoming, PolledLane, Fresh, TypeOK
    <3>4. CASE target # session
      BY <2>1, <3>1, <3>2, <3>4 DEF Incoming, PolledLane, Fresh, TypeOK
    <3>. QED  BY <3>3, <3>4
  <2>. QED  BY <1>5, <2>1, <2>2
<1>8. CASE PauseBacklog
  <2>1. /\ step = "backlog" /\ step' = "poll"
        /\ UNCHANGED <<committed, fenced, session, assigned, position, queue, batch, strayed>>
    BY <1>8 DEF PauseBacklog, groupVars, clientVars, strayVars
  <2>2. Incoming' = Incoming
    BY <2>1 DEF Incoming, Fresh
  <2>. QED  BY <1>5, <2>1, <2>2
<1>9. CASE stopAll
  <2>1. /\ step' = "stopped"
        /\ UNCHANGED <<committed, fenced, session, assigned, position, queue, batch, strayed>>
    BY <1>9 DEF stopAll, groupVars, clientVars, strayVars
  <2>2. BatchEnd' = BatchEnd /\ Beyond' = Beyond
    BY <2>1 DEF BatchEnd, LastOffset, Beyond
  <2>3. ASSUME assigned \/ ~fenced, NEW i \in DOMAIN Incoming'
        PROVE  i \in DOMAIN Incoming /\ Incoming'[i] = Incoming[i]
    <3>. DEFINE q == queue[session]
    <3>1. session \in Lanes
      BY <2>3 DEF SessionInv
    <3>2. Incoming' = q /\ Incoming \in {q, q \o polled}
      BY <2>1 DEF Incoming, Fresh
    <3>3. q \in Seq(Offsets) /\ polled \in Seq(Offsets)
      BY <3>1, IncomingType
    <3>4. \A k \in DOMAIN q : k \in DOMAIN (q \o polled) /\ q[k] = (q \o polled)[k]
      <4>. HIDE DEF q
      <4>1. /\ Len(q) \in Nat /\ Len(polled) \in Nat /\ DOMAIN q = 1 .. Len(q)
            /\ DOMAIN (q \o polled) = 1 .. Len(q \o polled)
            /\ Len(q \o polled) = Len(q) + Len(polled)
            /\ \A k \in 1 .. Len(q) : (q \o polled)[k] = q[k]
        BY <3>3, Join, LenProperties
      <4>. QED  BY <4>1
    <3>. QED  BY <3>2, <3>4
  <2>. QED  BY <2>1, <2>2, <2>3, ForwardKept
<1>10. ASSUME (\E c \in Callers : CheckOwner(c) \/ CallClient(c)) \/ UNCHANGED vars
       PROVE  Forward'
  <2>1. UNCHANGED <<committed, fenced, session, assigned, position, queue, batch, step, polled,
                    target, pollSession, strayed>>
    BY <1>10 DEF CheckOwner, CallClient, vars, groupVars, clientVars, runVars, strayVars
  <2>2. Incoming' = Incoming
    BY <2>1 DEF Incoming, PolledLane, Fresh
  <2>. QED  BY <1>5, <2>1, <2>2
<1>11. ASSUME NEW l \in Lanes, runLane(l) PROVE Forward'
  BY <1>11, ForwardLane
<1>. QED
  BY <1>1, <1>2, <1>3, <1>4, <1>6, <1>7, <1>8, <1>9, <1>10, <1>11 DEF Next, RunLoop

LEMMA InitForward == Init => SessionInv /\ Forward
  BY DEF Init, SessionInv, Forward

\* A commit that is acknowledged, or whose answer is lost, is one of the last
\* assignment and follows what the group has passed.
LEMMA CommitStep ==
    ASSUME TypeOK, Shape, SessionInv, Forward, [Next]_vars
    PROVE  \/ committed' = committed
           \/ fenced' /\ committed' = committed + 1
           \/ /\ ctl[session] = "committing"
              /\ committed' = LastOffset(batch[session]) + 1
              /\ strayed' = strayed /\ Low(strayed, committed - 1, committed' - 1)
<1>1. CASE OtherMember
  BY <1>1 DEF OtherMember
<1>2. ASSUME NEW l \in Lanes, Committed(l) \/ CommitFailed(l), committed' # committed
      PROVE  /\ ctl[session] = "committing"
             /\ committed' = LastOffset(batch[session]) + 1
             /\ strayed' = strayed /\ Low(strayed, committed - 1, committed' - 1)
  <2>1. /\ ctl[l] = "committing" /\ batch[l] # <<>> /\ Accepted(l) /\ strayed' = strayed
        /\ committed' = LastOffset(batch[l]) + 1
    BY <1>2 DEF Committed, CommitFailed, Shape, LaneShape, Occupied, runVars, strayVars
  <2>2. l = session /\ (assigned \/ ~fenced)
    BY <2>1 DEF Accepted, Canceled
  <2>3. LastOffset(batch[l]) \in BatchEnd
    BY <2>1, <2>2 DEF BatchEnd
  <2>4. Low(strayed, committed - 1, LastOffset(batch[l]))
    BY <2>2, <2>3 DEF Forward, Chained
  <2>5. LastOffset(batch[l]) = committed' - 1
    BY <2>1, BatchEnds, RunnerAssumption DEF Offsets
  <2>. QED  BY <2>1, <2>2, <2>4, <2>5
<1>3. ASSUME NEW l \in Lanes, runLane(l), ~Committed(l), ~CommitFailed(l)
      PROVE  committed' = committed
  BY <1>3 DEF runLane, popBatch, drain, resumeBacklogIfReady, ResumeBacklog, StopLane,
         processAndCommit, CallProcessor, Processed, Aborted, Retry, CheckCommit, groupVars
<1>4. ASSUME \/ assign \/ revoke \/ RunLoop \/ stopAll
             \/ \E c \in Callers : CheckOwner(c) \/ CallClient(c)
             \/ UNCHANGED vars
      PROVE  committed' = committed
  BY <1>4 DEF assign, revoke, RunLoop, Poll, dispatchPartition, enqueue, PauseBacklog, stopAll,
              CheckOwner, CallClient, vars, groupVars
<1>. QED  BY <1>1, <1>2, <1>3, <1>4 DEF Next

LEMMA ForwardAlways == Spec => [](IndInv /\ SessionInv /\ Forward)
<1>1. IndInv /\ SessionInv /\ Forward /\ [Next]_vars => (SessionInv /\ Forward)'
  BY SessionStep, ForwardStep DEF IndInv
<1>2. Init => SessionInv /\ Forward
  BY InitForward
<1>. QED  BY <1>1, <1>2, Inductive, PTL DEF Spec

LEMMA LowNext ==
    ASSUME NEW strays \in SUBSET Int, NEW x \in Int, NEW y \in Int, Low(strays, x - 1, y - 1)
    PROVE  y >= x \/ \E s \in strays : y <= s + 1
<1>1. CASE x - 1 <= y - 1
  BY <1>1
<1>2. ASSUME NEW s \in strays, y - 1 <= s PROVE y <= s + 1
  BY <1>2
<1>. QED  BY <1>1, <1>2 DEF Low

\* No rebalance, no late or repeated commit and no answer that is lost moves the
\* group's offset back (commit, CommitRecords), for any number of records,
\* assignments and failures and any sizes of buffer and batch: if it does go back,
\* then no further than past a stray (dispatchPartition).
THEOREM OffsetNeverRewinds == Spec => CommitNeverRewinds
<1>1. /\ IndInv /\ SessionInv /\ Forward /\ [Next]_vars
      => [committed' >= committed \/ \E s \in strayed : committed' <= s + 1]_vars
  <2>. SUFFICES ASSUME IndInv, SessionInv, Forward, [Next]_vars, committed' # committed
                PROVE  committed' >= committed \/ \E s \in strayed : committed' <= s + 1
    BY RunnerAssumption DEF IndInv, TypeOK
  <2>1. committed \in Int /\ committed' \in Int /\ strayed \subseteq Int
    BY TypeStep, RunnerAssumption DEF IndInv, TypeOK, Offsets
  <2>2. CASE committed' = committed + 1
    BY <2>1, <2>2
  <2>3. CASE Low(strayed, committed - 1, committed' - 1)
    BY <2>1, <2>3, LowNext
  <2>. QED  BY <2>2, <2>3, CommitStep DEF IndInv
<1>. QED  BY <1>1, ForwardAlways, PTL DEF Spec, CommitNeverRewinds

\* Only another member of the group, or the lane of the last assignment, moves the
\* group's offset (commit, ownsLane): a lane of an earlier assignment never does,
\* however late its processor returns and whichever records strayed into it.
THEOREM StaleLanesNeverCommit == Spec => StaleLaneNeverCommits
<1>1. /\ IndInv /\ SessionInv /\ Forward /\ [Next]_vars
      => [committed' # committed =>
            \/ fenced'
            \/ ctl[session] = "committing" /\ committed' = LastOffset(batch[session]) + 1]_vars
  BY CommitStep DEF IndInv
<1>. QED  BY <1>1, ForwardAlways, PTL DEF Spec, StaleLaneNeverCommits

-----------------------------------------------------------------------------
(* The outbox relay.                                                       *)

\* A claim in memory was counted on its row, and its record was handed over if
\* it is waiting for the outcome.
BatchCounted ==
    \A b \in claims : /\ attempts[b[2]] > 0
                      /\ b[4] = "sent" => b[2] \in sent

\* Only claimed rows are sent and only sent records reach the log.
SentCounted == /\ \A e \in sent : attempts[e] > 0
               /\ produced \subseteq sent

\* Once a row has been claimed the earlier rows of its key are out: the log does
\* not show this, for a claimed row may not have been sent yet.
ClaimedInOrder ==
    \A e, f \in Events :
        /\ Earlier(e, f) /\ attempts[f] > 0
        /\ rowStatus[e] # "ABSENT" /\ e \notin late
        => rowStatus[e] \in Gone

OutboxInv == /\ RelayTypeOK
             /\ BatchCounted
             /\ SentCounted
             /\ PublishedWasProduced
             /\ ClaimedInOrder

USE OutboxAssumption

LEMMA RelayInitially == RelayInit => OutboxInv
  <1> SUFFICES ASSUME RelayInit PROVE OutboxInv
    OBVIOUS
  <1>1. RelayTypeOK
    BY DEF RelayInit, RelayTypeOK, Statuses
  <1>2. BatchCounted /\ SentCounted
    BY DEF RelayInit, BatchCounted, SentCounted
  <1>3. PublishedWasProduced
    BY DEF RelayInit, PublishedWasProduced, Gone
  <1>4. ClaimedInOrder
    BY DEF RelayInit, ClaimedInOrder
  <1> QED
    BY <1>1, <1>2, <1>3, <1>4 DEF OutboxInv

LEMMA InsertInv ==
    ASSUME OutboxInv, NEW e \in Events, InsertTx(e) PROVE OutboxInv'
  <1> USE DEF OutboxInv
  <1>1. RelayTypeOK'
    BY DEF RelayTypeOK, InsertTx, Statuses
  <1>2. (BatchCounted /\ SentCounted)'
    BY DEF InsertTx, BatchCounted, SentCounted
  <1>3. PublishedWasProduced'
    BY DEF RelayTypeOK, InsertTx, PublishedWasProduced, Gone
  <1>4. ClaimedInOrder'
    <2> SUFFICES ASSUME NEW x \in Events, NEW f \in Events, Earlier(x, f),
                        attempts[f] > 0, rowStatus'[x] # "ABSENT", x \notin late'
                 PROVE rowStatus'[x] \in Gone
      BY DEF InsertTx, ClaimedInOrder, Earlier
    <2>1. CASE x = e
      BY <2>1 DEF InsertTx
    <2>2. CASE x # e
      BY <2>2 DEF RelayTypeOK, InsertTx, ClaimedInOrder
    <2> QED
      BY <2>1, <2>2
  <1> QED
    BY <1>1, <1>2, <1>3, <1>4

LEMMA ClaimInv ==
    ASSUME OutboxInv, NEW r \in Relays, NEW S \in SUBSET Events, Claim(r, S)
    PROVE OutboxInv'
  <1> USE DEF OutboxInv
  <1>1. RelayTypeOK'
    <2>1. claims' \subseteq Relays \X Events \X Nat \X Stages
      <3>1. \A e \in S : <<r, e, attempts[e] + 1, "claimed">> \in Relays \X Events \X Nat \X Stages
        BY DEF RelayTypeOK, Stages
      <3> QED
        BY <3>1 DEF RelayTypeOK, Claim
    <2>2. /\ rowStatus' \in [Events -> Statuses]
          /\ attempts' \in [Events -> Nat]
          /\ lockedBy' \in [Events -> Nat]
      BY DEF RelayTypeOK, Claim, Statuses
    <2>3. lockExpired' \in [Events -> BOOLEAN]
      BY Zenon DEF RelayTypeOK, Claim
    <2> QED
      BY <2>1, <2>2, <2>3 DEF RelayTypeOK, Claim
  <1>2. BatchCounted'
    <2> SUFFICES ASSUME NEW b \in claims'
                 PROVE attempts'[b[2]] > 0 /\ (b[4] = "sent" => b[2] \in sent')
      BY DEF BatchCounted
    <2>1. CASE b \in claims
      <3>1. b[2] \in Events
        BY <2>1 DEF RelayTypeOK
      <3> QED
        BY <2>1, <3>1 DEF RelayTypeOK, Claim, BatchCounted
    <2>2. CASE \E e \in S : b = <<r, e, attempts[e] + 1, "claimed">>
      BY <2>2 DEF RelayTypeOK, Claim
    <2> QED
      BY <2>1, <2>2 DEF Claim
  <1>3. SentCounted'
    BY DEF RelayTypeOK, Claim, SentCounted
  <1>4. PublishedWasProduced'
    BY DEF RelayTypeOK, Claim, PublishedWasProduced, Gone
  <1>5. ClaimedInOrder'
    <2> SUFFICES ASSUME NEW e \in Events, NEW f \in Events, Earlier(e, f),
                        attempts'[f] > 0, rowStatus'[e] # "ABSENT", e \notin late'
                 PROVE rowStatus'[e] \in Gone
      BY DEF ClaimedInOrder, Earlier
    <2>1. e \notin late
      BY DEF Claim
    <2>2. rowStatus[e] # "ABSENT"
      BY DEF RelayTypeOK, Claim, Claimable
    <2>3. rowStatus[e] \in Gone
      <3>1. CASE f \in S
        BY <2>2, <3>1 DEF Claim, Claimable
      <3>2. CASE f \notin S
        BY <2>1, <2>2, <3>2 DEF RelayTypeOK, Claim, ClaimedInOrder
      <3> QED
        BY <3>1, <3>2
    <2>4. e \notin S
      BY <2>3 DEF Claim, Claimable, Gone
    <2> QED
      BY <2>3, <2>4 DEF Claim
  <1> QED
    BY <1>1, <1>2, <1>3, <1>4, <1>5

LEMMA ProduceInv ==
    ASSUME OutboxInv, NEW b \in claims, Produce(b) PROVE OutboxInv'
  <1> USE DEF OutboxInv
  <1>1. b[1] \in Relays /\ b[2] \in Events /\ b[3] \in Nat
    BY DEF RelayTypeOK
  <1>2. RelayTypeOK'
    BY <1>1 DEF RelayTypeOK, Produce, rowVars, Stages
  <1>3. (BatchCounted /\ SentCounted)'
    BY <1>1 DEF RelayTypeOK, Produce, rowVars, BatchCounted, SentCounted
  <1>4. PublishedWasProduced' /\ ClaimedInOrder'
    BY DEF Produce, rowVars, PublishedWasProduced, ClaimedInOrder, Earlier
  <1> QED
    BY <1>2, <1>3, <1>4

LEMMA AppendInv ==
    ASSUME OutboxInv, NEW e \in Events, BrokerAppends(e) PROVE OutboxInv'
  BY DEF OutboxInv, RelayTypeOK, BrokerAppends, rowVars, BatchCounted, SentCounted,
         PublishedWasProduced, ClaimedInOrder, Earlier

\* The row update shared by markPublished and markFailed.
LEMMA SettleInv ==
    ASSUME OutboxInv, NEW b \in claims,
           NEW s \in {"PUBLISHED", "FAILED", "DEAD"}, Settle(b, s),
           s = "PUBLISHED" => b[2] \in produced
    PROVE OutboxInv'
  <1> USE DEF OutboxInv
  <1>1. b[2] \in Events
    BY DEF RelayTypeOK
  <1>2. RelayTypeOK'
    <2>1. claims' \subseteq claims
      BY DEF Settle
    <2>2. /\ rowStatus' \in [Events -> Statuses]
          /\ lockedBy' \in [Events -> Nat]
      BY <1>1 DEF RelayTypeOK, Settle, Statuses, Gone
    <2>3. lockExpired' \in [Events -> BOOLEAN]
      BY <1>1 DEF RelayTypeOK, Settle
    <2> QED
      BY <2>1, <2>2, <2>3 DEF RelayTypeOK, Settle
  <1>3. (BatchCounted /\ SentCounted)'
    BY DEF Settle, BatchCounted, SentCounted
  <1>4. PublishedWasProduced'
    BY <1>1 DEF RelayTypeOK, Settle, PublishedWasProduced, Gone
  <1>5. ClaimedInOrder'
    <2> SUFFICES ASSUME NEW e \in Events, NEW f \in Events, Earlier(e, f),
                        attempts[f] > 0, rowStatus'[e] # "ABSENT", e \notin late
                 PROVE rowStatus'[e] \in Gone
      BY DEF Settle, ClaimedInOrder, Earlier
    <2>1. rowStatus[e] \in Gone
      BY <1>1 DEF RelayTypeOK, Settle, HoldsRow, ClaimedInOrder
    <2> QED
      BY <1>1, <2>1 DEF RelayTypeOK, Settle, HoldsRow, Gone
  <1> QED
    BY <1>2, <1>3, <1>4, <1>5

LEMMA LoseInv ==
    ASSUME OutboxInv, NEW r \in Relays, LoseBatch(r) PROVE OutboxInv'
  BY DEF OutboxInv, RelayTypeOK, LoseBatch, rowVars, BatchCounted, SentCounted,
         PublishedWasProduced, ClaimedInOrder, Earlier

LEMMA ExpireInv ==
    ASSUME OutboxInv, NEW e \in Events, LockExpires(e) PROVE OutboxInv'
  BY DEF OutboxInv, RelayTypeOK, LockExpires, BatchCounted, SentCounted,
         PublishedWasProduced, ClaimedInOrder, Earlier

LEMMA CleanupInv ==
    ASSUME OutboxInv, NEW S \in SUBSET Events, CleanupPublishedEvents(S)
    PROVE OutboxInv'
  <1> USE DEF OutboxInv
  <1>1. RelayTypeOK'
    BY DEF RelayTypeOK, CleanupPublishedEvents, Statuses, Gone
  <1>2. (BatchCounted /\ SentCounted)'
    BY DEF CleanupPublishedEvents, BatchCounted, SentCounted
  <1>3. PublishedWasProduced'
    BY DEF RelayTypeOK, CleanupPublishedEvents, PublishedWasProduced, Gone
  <1>4. ClaimedInOrder'
    BY DEF RelayTypeOK, CleanupPublishedEvents, ClaimedInOrder, Earlier, Gone
  <1> QED
    BY <1>1, <1>2, <1>3, <1>4

LEMMA RelayStep == OutboxInv /\ [RelayNext]_relayVars => OutboxInv'
  <1> SUFFICES ASSUME OutboxInv, [RelayNext]_relayVars PROVE OutboxInv'
    OBVIOUS
  <1>1. CASE \E e \in Events : InsertTx(e) \/ BrokerAppends(e) \/ LockExpires(e)
    BY <1>1, InsertInv, AppendInv, ExpireInv
  <1>2. CASE \E r \in Relays, S \in SUBSET Events : Claim(r, S)
    BY <1>2, ClaimInv
  <1>3. CASE \E b \in claims : publishEvent(b)
    <2> PICK b \in claims : publishEvent(b)
      BY <1>3
    <2>1. CASE Produce(b)
      BY <2>1, ProduceInv
    <2>2. CASE markPublished(b)
      BY <2>2, SettleInv DEF markPublished
    <2>3. CASE markFailed(b)
      BY <2>3, SettleInv DEF markFailed
    <2> QED
      BY <2>1, <2>2, <2>3 DEF publishEvent
  <1>4. CASE \E r \in Relays : LoseBatch(r)
    BY <1>4, LoseInv
  <1>5. CASE \E S \in SUBSET Events : CleanupPublishedEvents(S)
    BY <1>5, CleanupInv
  <1>6. CASE UNCHANGED relayVars
    BY <1>6 DEF OutboxInv, relayVars, rowVars, RelayTypeOK, BatchCounted, SentCounted,
                PublishedWasProduced, ClaimedInOrder, Earlier
  <1> QED
    BY <1>1, <1>2, <1>3, <1>4, <1>5, <1>6 DEF RelayNext

LEMMA RelayInvariant == RelaySpec => []OutboxInv
  BY RelayInitially, RelayStep, PTL DEF RelaySpec

-----------------------------------------------------------------------------
\* Every row marked PUBLISHED, or deleted after that, has its record in the log,
\* for any relays, leases, failures and losses.
THEOREM PublishedRowsProduced == RelaySpec => []PublishedWasProduced
  <1>1. OutboxInv => PublishedWasProduced
    BY DEF OutboxInv
  <1> QED
    BY <1>1, RelayInvariant, PTL

\* The records of a key first reach the log in the order of their rows.
THEOREM PerKeyOrder == RelaySpec => []KeyOrder
  <1>1. OutboxInv => KeyOrder
    BY DEF OutboxInv, SentCounted, PublishedWasProduced, ClaimedInOrder, KeyOrder
  <1> QED
    BY <1>1, RelayInvariant, PTL

\* A relay whose claim was taken over changes nothing of the row.
THEOREM ClaimsGuardRows == RelaySpec => ClaimGuardsRow
  <1> DEFINE Kept(e) ==
        /\ rowStatus[e] = "PUBLISHED" => rowStatus'[e] \in Gone
        /\ (lockedBy[e] > 0 /\ lockedBy'[e] = 0)
             => \E b \in claims \ claims' : b[2] = e /\ b[3] = lockedBy[e]
  <1>1. OutboxInv /\ [RelayNext]_relayVars => [\A e \in Events : Kept(e)]_relayVars
    <2> SUFFICES ASSUME OutboxInv, RelayNext, NEW e \in Events PROVE Kept(e)
      OBVIOUS
    <2> USE DEF OutboxInv, Gone
    <2>1. CASE \E x \in Events : InsertTx(x) \/ BrokerAppends(x) \/ LockExpires(x)
      BY <2>1 DEF RelayTypeOK, InsertTx, BrokerAppends, LockExpires, rowVars
    <2>2. CASE \E r \in Relays, S \in SUBSET Events : Claim(r, S)
      BY <2>2 DEF RelayTypeOK, Claim, Claimable
    <2>3. CASE \E b \in claims : publishEvent(b)
      <3> PICK b \in claims : publishEvent(b)
        BY <2>3
      <3>1. CASE Produce(b)
        BY <3>1 DEF Produce, rowVars
      <3>2. CASE \E s \in {"PUBLISHED", "FAILED", "DEAD"} : Settle(b, s)
        <4>1. CASE HoldsRow(b) /\ b[2] = e
          BY <3>2, <4>1 DEF RelayTypeOK, Settle, HoldsRow
        <4>2. CASE ~(HoldsRow(b) /\ b[2] = e)
          BY <3>2, <4>2 DEF RelayTypeOK, Settle
        <4> QED
          BY <4>1, <4>2
      <3> QED
        BY <3>1, <3>2 DEF publishEvent, markPublished, markFailed
    <2>4. CASE \E r \in Relays : LoseBatch(r)
      BY <2>4 DEF LoseBatch, rowVars
    <2>5. CASE \E S \in SUBSET Events : CleanupPublishedEvents(S)
      BY <2>5 DEF RelayTypeOK, CleanupPublishedEvents
    <2> QED
      BY <2>1, <2>2, <2>3, <2>4, <2>5 DEF RelayNext
  <1> QED
    BY <1>1, RelayInvariant, PTL DEF RelaySpec, ClaimGuardsRow

-----------------------------------------------------------------------------
(* The job logs: types, and what a lane works on.                            *)

LaneStates == {"idle", "filter", "cleanup", "cleanupSearch", "waitCleanup", "insert",
               "addDocuments", "waitDocuments", "analytics", "commit"}
LaneRecords == [pc : LaneStates, batch : Seq(Logs), active : SUBSET Logs, skipped : SUBSET Logs,
                second : BOOLEAN, task : Nat, canceled : BOOLEAN]
SearchTasks == [op : {"add", "delete"}, logs : SUBSET Logs,
                status : {"enqueued", "succeeded", "failed"}]
DeletionStates == [pc : {"none", "clickhouse", "search", "wait", "done"}, task : Nat]

Live(l) == workflow[l[1]] = "LIVE"

\* What holds of a lane r by itself.
Shaped(r) ==
    /\ r \in LaneRecords /\ r.active \subseteq ToSet(r.batch)
    /\ r.pc = "idle" => r.batch = <<>> /\ r.active = {} /\ r.skipped = {} /\ ~r.second
    /\ r.pc = "filter" /\ ~r.second => r.active = {} /\ r.skipped = {}

StoreTypes ==
    /\ clickhouse \subseteq Retained /\ search \subseteq Retained
    /\ processed \subseteq Logs /\ logsCount \in [Workflows -> Nat]
    /\ tasks \in Seq(SearchTasks) /\ logFaults \in 0 .. MaxLogFaults

\* The owner, and only the owner, works on what follows the committed offset;
\* a canceled lane may still work on a batch it had taken.
BatchInv ==
    /\ StoreTypes
    /\ topic \in Seq(Logs) /\ logOffset \in 0 .. Len(topic)
    /\ owner \in LogLanes /\ ~lane[owner].canceled
    /\ lane \in [LogLanes -> LaneRecords]
    /\ \A c \in LogLanes :
          /\ Shaped(lane[c])
          /\ ToSet(lane[c].batch) \subseteq ToSet(topic)
          /\ lane[c].pc # "idle" /\ ~lane[c].canceled =>
                /\ owner = c /\ logOffset + Len(lane[c].batch) <= Len(topic)
                /\ \A i \in 1 .. Len(lane[c].batch) : lane[c].batch[i] = topic[logOffset + i]

WorkersInv ==
    /\ workflow \in [Workflows -> {"LIVE", "DELETED"}]
    /\ worker \in [Workflows -> [state : {"RUNNING", "REPLAY", "ENDED"}, line : 0 .. NumLines,
                                 records : BoundedSeq(Logs, LogBatchSize), failed : 0 .. Retries - 1]]
    /\ deletion \in [Workflows -> DeletionStates]

\* Meilisearch applies its tasks in order; a task that deletes is about deleted
\* workflows, and one that added has put what is live into the index.
QueueInv ==
    /\ \E n \in 0 .. Len(tasks) : \A i \in DOMAIN tasks : tasks[i].status = "enqueued" <=> i > n
    /\ \A i \in DOMAIN tasks :
          /\ tasks[i].op = "delete" => \A l \in tasks[i].logs : ~Live(l)
          /\ tasks[i].op = "add" => tasks[i].logs \subseteq Retained
          /\ tasks[i].op = "add" /\ tasks[i].status = "succeeded" =>
                \A l \in tasks[i].logs : Live(l) => l \in search

Deletes(k, logs) == k \in DOMAIN tasks /\ tasks[k].op = "delete" /\ tasks[k].logs = logs
Adds(k, logs) == k \in DOMAIN tasks /\ tasks[k].op = "add" /\ tasks[k].logs = logs

\* A workflow is deleted before its logs are, and a deletion waits for its task.
DeletionInv ==
    \A w \in Workflows :
        /\ deletion[w].pc # "none" => workflow[w] = "DELETED"
        /\ deletion[w].pc = "wait" => Deletes(deletion[w].task, LogsOf(w))

\* How far a lane r has come: it waits for its own task; the logs it dropped are
\* of deleted workflows; those it keeps are stored step by step.
LaneInv(r) ==
    /\ r.pc = "waitCleanup" => Deletes(r.task, r.skipped)
    /\ r.pc = "waitDocuments" => Adds(r.task, retainedLogsFromBatch(r.active))
    /\ r.pc # "idle" /\ (r.pc # "filter" \/ r.second) =>
          \A l \in ToSet(r.batch) : Live(l) => l \in r.active
    /\ r.pc \in {"insert", "addDocuments", "waitDocuments"} => ~r.second
    /\ r.pc = "analytics" => r.second
    /\ r.pc = "commit" => (r.second \/ r.active = {}) /\ r.active \subseteq processed
    /\ \A l \in r.skipped : l \in Retained /\ ~Live(l)
    /\ \A l \in r.active \cap Retained : Live(l) =>
          /\ r.second \/ r.pc \in {"addDocuments", "waitDocuments"} => l \in clickhouse
          /\ r.second => l \in search

\* The counters against processed_events, and both against the topic.
CountInv ==
    /\ processed \subseteq ToSet(topic)
    /\ \A w \in Workflows : logsCount[w] = Cardinality({k \in processed : k[1] = w})
    /\ \A l \in CommittedLogs : Live(l) => l \in processed

LogsInv == /\ BatchInv /\ WorkersInv /\ QueueInv /\ DeletionInv /\ CountInv /\ CommittedLogsStored
           /\ \A c \in LogLanes : LaneInv(lane[c])

-----------------------------------------------------------------------------
(* The logs of a deleted workflow.                                           *)

OneAssignment == \A c \in LogLanes : ~lane[c].canceled

\* The logs that the batch of a lane r may still bring into the stores, or that
\* it has yet to remove from them.
Unsettled(r) ==
    CASE r.pc = "filter" /\ ~r.second -> ToSet(r.batch)
      [] r.pc = "filter" /\ r.second -> r.active
      [] r.pc \in {"cleanup", "cleanupSearch", "waitCleanup"} ->
             IF r.second THEN r.skipped ELSE r.active \cup r.skipped
      [] r.pc \in {"insert", "addDocuments", "waitDocuments"} -> r.active
      [] OTHER -> {}

Awaited(l) == \E i \in logOffset + 1 .. Len(topic) : topic[i] = l
Adding(l, i) == tasks[i].op = "add" /\ l \in tasks[i].logs
Coming(l) == l \in search \/ \E i \in DOMAIN tasks : tasks[i].status = "enqueued" /\ Adding(l, i)

\* Nothing of l comes into the stores behind the back of the deletion: it has
\* not got there yet, or it waits for a task that follows every addition of l,
\* or l is in neither and on no way into either.
RowSettled(l) == l \in clickhouse => deletion[l[1]].pc = "clickhouse"
DeletesAfter(l, k) ==
    /\ k \in DOMAIN tasks /\ tasks[k].op = "delete" /\ l \in tasks[k].logs
    /\ \A i \in DOMAIN tasks : Adding(l, i) => i < k
    /\ tasks[k].status = "succeeded" => l \notin search
DocumentSettled(l) ==
    \/ deletion[l[1]].pc \in {"clickhouse", "search"}
    \/ deletion[l[1]].pc = "wait" /\ DeletesAfter(l, deletion[l[1]].task)
    \/ ~Coming(l)
Settled(l) == RowSettled(l) /\ DocumentSettled(l)

CleanLane(r) ==
    /\ \A l \in ToSet(r.batch) : l \notin Unsettled(r) /\ ~Live(l) => Settled(l)
    /\ r.pc \in {"cleanupSearch", "waitCleanup"} => \A l \in r.skipped : RowSettled(l)
    /\ r.pc = "waitCleanup" => \A l \in r.skipped : DeletesAfter(l, r.task)

CleanInv ==
    OneAssignment =>
        /\ \A l \in Logs : ~Live(l) /\ ~Awaited(l) => Settled(l)
        /\ \A c \in LogLanes : CleanLane(lane[c])

-----------------------------------------------------------------------------
(* What a step of a lane leaves as it was.                                   *)

\* Live logs stay stored, what was counted stays counted, and a task that was
\* enqueued stays what it is.
Kept ==
    /\ \A l \in Logs : Live(l)' =>
          Live(l) /\ (l \in clickhouse => l \in clickhouse') /\ (l \in search => l \in search')
    /\ processed \subseteq processed'
    /\ DOMAIN tasks \subseteq DOMAIN tasks'
    /\ \A i \in DOMAIN tasks : tasks'[i].op = tasks[i].op /\ tasks'[i].logs = tasks[i].logs

LEMMA LogsTyped ==
    /\ \A l \in Logs : l[1] \in Workflows
    /\ \A w : LogsOf(w) \subseteq Logs
    /\ Retained \subseteq Logs
BY DEF Logs, LogsOf, Retained

LEMMA BatchTyped ==
    ASSUME NEW S, NEW s \in Seq(S)
    PROVE  /\ ToSet(s) \subseteq S
           /\ \A i \in 1 .. Len(s) : s[i] \in ToSet(s)
           /\ \A x \in ToSet(s) : \E i \in 1 .. Len(s) : s[i] = x
<1>1. DOMAIN s = 1 .. Len(s)
  BY LenProperties
<1>2. \A i \in 1 .. Len(s) : s[i] \in S
  BY ElementOfSeq
<1> QED BY <1>1, <1>2 DEF ToSet

LEMMA NoBatch == ToSet(<<>>) = {}
BY DEF ToSet

LEMMA ShapedSets ==
    ASSUME NEW r, Shaped(r)
    PROVE  /\ r.batch \in Seq(Logs) /\ ToSet(r.batch) \subseteq Logs
           /\ r.active \subseteq Logs /\ r.skipped \subseteq Logs /\ r.active \subseteq ToSet(r.batch)
<1>1. r.batch \in Seq(Logs) /\ r.skipped \subseteq Logs
  BY DEF Shaped, LaneRecords
<1> QED BY <1>1, BatchTyped DEF Shaped

\* A lane that does not move.
LEMMA LaneStays ==
    ASSUME NEW r, Shaped(r), LaneInv(r), Kept
    PROVE  LaneInv(r)'
<1> DEFINE own == retainedLogsFromBatch(r.active)
<1>1. r.active \subseteq Logs /\ r.skipped \subseteq Logs /\ ToSet(r.batch) \subseteq Logs
  BY ShapedSets
<1>2. /\ r.pc = "waitCleanup" => Deletes(r.task, r.skipped)'
      /\ r.pc = "waitDocuments" => Adds(r.task, own)'
  BY DEF LaneInv, Kept, Deletes, Adds
<1>3. /\ r.pc # "idle" /\ (r.pc # "filter" \/ r.second) =>
            \A l \in ToSet(r.batch) : Live(l)' => l \in r.active
      /\ \A l \in r.skipped : l \in Retained /\ ~Live(l)'
  BY <1>1 DEF LaneInv, Kept
<1>4. \A l \in r.active \cap Retained : Live(l)' =>
          /\ r.second \/ r.pc \in {"addDocuments", "waitDocuments"} => l \in clickhouse'
          /\ r.second => l \in search'
  BY <1>1 DEF LaneInv, Kept
<1>5. r.pc = "commit" => (r.second \/ r.active = {}) /\ r.active \subseteq processed'
  BY DEF LaneInv, Kept
<1>6. retainedLogsFromBatch(r.active)' = own
  BY DEF retainedLogsFromBatch
<1> HIDE DEF own
<1> QED BY <1>2, <1>3, <1>4, <1>5, <1>6 DEF LaneInv

Halted == [IdleLane EXCEPT !.canceled = TRUE]
Restarted(c) == [IdleLane EXCEPT !.pc = "filter", !.batch = lane[c].batch]

\* A lane that was canceled, and one that starts its batch again, have nothing
\* to answer for.
LEMMA BareLane ==
    ASSUME NEW r, r.active = {}, r.skipped = {}, ~r.second, r.pc \in {"idle", "filter"}
    PROVE  LaneInv(r)'
BY DEF LaneInv

LEMMA LaneMoves ==
    ASSUME LogsInv, NEW c \in LogLanes, lane[c].pc # "idle",
           NEW r, lane' = [lane EXCEPT ![c] = r],
           Shaped(r), r.canceled = lane[c].canceled, r.pc = "idle" \/ r.batch = lane[c].batch,
           LaneOnly, StoreTypes', QueueInv', CountInv', Kept, LaneInv(r)'
    PROVE  LogsInv'
<1>1. /\ BatchInv /\ WorkersInv /\ DeletionInv /\ CommittedLogsStored
      /\ \A d \in LogLanes : LaneInv(lane[d])
  BY DEF LogsInv
<1>2. /\ lane \in [LogLanes -> LaneRecords] /\ lane' \in [LogLanes -> LaneRecords]
      /\ \A d \in LogLanes : lane'[d] = IF d = c THEN r ELSE lane[d]
  BY <1>1 DEF BatchInv, Shaped
<1>3. BatchInv'
  <2>1. /\ ~lane'[owner].canceled /\ owner \in LogLanes
        /\ topic \in Seq(Logs) /\ logOffset \in 0 .. Len(topic)
    BY <1>1, <1>2 DEF BatchInv
  <2>2. ASSUME NEW d \in LogLanes
        PROVE  /\ Shaped(lane'[d])
               /\ ToSet(lane'[d].batch) \subseteq ToSet(topic)
               /\ lane'[d].pc # "idle" /\ ~lane'[d].canceled =>
                     /\ owner = d /\ logOffset + Len(lane'[d].batch) <= Len(topic)
                     /\ \A i \in 1 .. Len(lane'[d].batch) : lane'[d].batch[i] = topic[logOffset + i]
    <3>1. CASE d # c
      BY <1>1, <1>2, <3>1 DEF BatchInv
    <3>2. CASE d = c /\ r.pc = "idle"
      <4>1. lane'[d] = r /\ r.batch = <<>>
        BY <1>2, <3>2 DEF Shaped
      <4> QED BY <3>2, <4>1, NoBatch
    <3>3. CASE d = c /\ r.pc # "idle"
      <4>1. lane'[d] = r /\ r.batch = lane[c].batch /\ r.canceled = lane[c].canceled
        BY <1>2, <3>3
      <4> QED BY <1>1, <3>3, <4>1 DEF BatchInv
    <3> QED BY <3>1, <3>2, <3>3
  <2>3. topic' = topic /\ logOffset' = logOffset /\ owner' = owner
    BY DEF LaneOnly
  <2> QED BY <1>2, <2>1, <2>2, <2>3 DEF BatchInv, Shaped
<1>4. WorkersInv'
  BY <1>1 DEF WorkersInv, LaneOnly
<1>5. DeletionInv'
  BY <1>1 DEF DeletionInv, LaneOnly, Kept, Deletes
<1>6. CommittedLogsStored'
  <2>1. CommittedLogs' = CommittedLogs /\ CommittedLogs \subseteq Logs
    BY <1>1, BatchTyped DEF CommittedLogs, LaneOnly, BatchInv
  <2> QED BY <1>1, <2>1 DEF CommittedLogsStored, Kept, Live
<1>7. \A d \in LogLanes : LaneInv(lane[d])'
  <2>1. ASSUME NEW d \in LogLanes, d # c PROVE LaneInv(lane[d])'
    <3>1. Shaped(lane[d]) /\ LaneInv(lane[d]) /\ lane'[d] = lane[d]
      BY <1>1, <1>2, <2>1 DEF BatchInv
    <3> QED BY <3>1, LaneStays
  <2>2. LaneInv(lane[c])'
    BY <1>2
  <2> QED BY <2>1, <2>2
<1> QED BY <1>3, <1>4, <1>5, <1>6, <1>7 DEF LogsInv

LEMMA QueueGrows ==
    ASSUME tasks \in Seq(SearchTasks), QueueInv, NEW op \in {"add", "delete"},
           NEW logs \in SUBSET Logs, tasks' = Enqueue(op, logs),
           workflow' = workflow, search' = search,
           op = "delete" => \A l \in logs : ~Live(l),
           op = "add" => logs \subseteq Retained
    PROVE  /\ tasks' \in Seq(SearchTasks) /\ QueueInv'
           /\ DOMAIN tasks = 1 .. Len(tasks) /\ DOMAIN tasks' = 1 .. Len(tasks')
           /\ Len(tasks) \in Nat /\ Len(tasks') = Len(tasks) + 1
           /\ \A i \in DOMAIN tasks : tasks'[i] = tasks[i]
           /\ tasks'[Len(tasks')] = [op |-> op, logs |-> logs, status |-> "enqueued"]
<1> DEFINE t == [op |-> op, logs |-> logs, status |-> "enqueued"]
<1>1. t \in SearchTasks /\ tasks' = Append(tasks, t)
  BY DEF SearchTasks, Enqueue
<1>2. t.op = op /\ t.logs = logs /\ t.status = "enqueued"
  OBVIOUS
<1> HIDE DEF t
<1>3. /\ tasks' \in Seq(SearchTasks) /\ Len(tasks') = Len(tasks) + 1
      /\ Len(tasks) \in Nat /\ DOMAIN tasks = 1 .. Len(tasks) /\ DOMAIN tasks' = 1 .. Len(tasks')
      /\ \A i \in 1 .. Len(tasks) : tasks'[i] = tasks[i]
      /\ tasks'[Len(tasks) + 1] = t
  BY <1>1, AppendProperties, LenProperties
<1>4. QueueInv'
  <2>1. \E n \in 0 .. Len(tasks') : \A i \in DOMAIN tasks' : tasks'[i].status = "enqueued" <=> i > n
    <3>1. PICK n \in 0 .. Len(tasks) : \A i \in DOMAIN tasks : tasks[i].status = "enqueued" <=> i > n
      BY DEF QueueInv
    <3>2. n \in 0 .. Len(tasks') /\ \A i \in DOMAIN tasks' : tasks'[i].status = "enqueued" <=> i > n
      BY <1>2, <1>3, <3>1
    <3> QED BY <3>2
  <2>2. ASSUME NEW i \in DOMAIN tasks'
        PROVE  /\ tasks'[i].op = "delete" => \A l \in tasks'[i].logs : ~Live(l)
               /\ tasks'[i].op = "add" => tasks'[i].logs \subseteq Retained
               /\ tasks'[i].op = "add" /\ tasks'[i].status = "succeeded" =>
                     \A l \in tasks'[i].logs : Live(l) => l \in search
    <3>1. CASE i \in DOMAIN tasks
      BY <1>3, <3>1 DEF QueueInv
    <3>2. CASE i \notin DOMAIN tasks
      <4>1. tasks'[i] = t
        BY <1>3, <3>2
      <4> QED BY <1>2, <4>1
    <3> QED BY <3>1, <3>2
  <2> QED BY <2>1, <2>2 DEF QueueInv, Live
<1> QED BY <1>1, <1>3, <1>4 DEF t

\* A lane goes on with r, unless it was canceled.
LEMMA LaneGoes ==
    ASSUME LogsInv, NEW c \in LogLanes, lane[c].pc # "idle", NEW r, lane' = Go(c, r),
           LaneOnly, StoreTypes', QueueInv', CountInv', Kept,
           ~lane[c].canceled =>
               Shaped(r) /\ ~r.canceled /\ r.batch = lane[c].batch /\ LaneInv(r)'
    PROVE  LogsInv'
<1>1. lane[c].canceled \in BOOLEAN /\ lane \in [LogLanes -> LaneRecords]
  BY DEF LogsInv, BatchInv, LaneRecords
<1>2. CASE lane[c].canceled
  <2>1. lane' = [lane EXCEPT ![c] = Halted]
    BY <1>1, <1>2 DEF Go, Halted
  <2>2. Shaped(Halted) /\ Halted.pc = "idle" /\ Halted.canceled /\ Halted.active = {}
        /\ Halted.skipped = {} /\ ~Halted.second
    <3>1. /\ Halted.pc = "idle" /\ Halted.canceled /\ Halted.active = {} /\ Halted.batch = <<>>
          /\ Halted.skipped = {} /\ ~Halted.second
      BY DEF Halted, IdleLane
    <3>2. Halted \in LaneRecords
      <4>1. <<>> \in Seq(Logs) /\ "idle" \in LaneStates
        BY EmptySeq DEF LaneStates
      <4> QED BY <4>1 DEF Halted, IdleLane, LaneRecords
    <3> QED BY <3>1, <3>2 DEF Shaped
  <2>3. LaneInv(Halted)'
    BY <2>2, BareLane
  <2> HIDE DEF Halted
  <2> QED BY <1>2, <2>1, <2>2, <2>3, LaneMoves
<1>3. CASE ~lane[c].canceled
  <2>1. lane' = [lane EXCEPT ![c] = r]
    BY <1>1, <1>3 DEF Go
  <2>2. r.canceled = lane[c].canceled
    BY <1>1, <1>3 DEF Shaped, LaneRecords
  <2> QED BY <1>3, <2>1, <2>2, LaneMoves
<1> QED BY <1>2, <1>3

LEMMA LaneStartsAgain ==
    ASSUME LogsInv, NEW c \in LogLanes, lane[c].pc # "idle", lane' = Again(c),
           LaneOnly, StoreTypes', QueueInv', CountInv', Kept
    PROVE  LogsInv'
<1>1. PICK r : r = Restarted(c)
  OBVIOUS
<1>2. lane[c] \in LaneRecords
  BY DEF LogsInv, BatchInv
<1>3. /\ r.pc = "filter" /\ r.batch = lane[c].batch /\ r.active = {} /\ r.skipped = {}
      /\ ~r.second /\ ~r.canceled /\ r \in LaneRecords
  BY <1>1, <1>2 DEF Restarted, IdleLane, LaneRecords, LaneStates
<1>4. Shaped(r) /\ lane' = Go(c, r)
  BY <1>1, <1>3 DEF Shaped, Again, Restarted
<1>5. LaneInv(r)'
  BY <1>3, BareLane
<1> QED BY <1>3, <1>4, <1>5, LaneGoes

\* What a call of a lane may do to the stores: nothing that Kept forbids, and
\* nothing to the counters.
LEMMA CountStays ==
    ASSUME CountInv, processed' = processed, logsCount' = logsCount, topic' = topic,
           logOffset' = logOffset, workflow' = workflow
    PROVE  CountInv'
BY DEF CountInv, CommittedLogs, Live

-----------------------------------------------------------------------------
(* The steps of a lane.                                                      *)

LEMMA LaneFacts ==
    ASSUME LogsInv, NEW c \in LogLanes
    PROVE  /\ lane[c] \in LaneRecords /\ Shaped(lane[c]) /\ LaneInv(lane[c])
           /\ lane[c].batch \in Seq(Logs) /\ lane[c].active \subseteq Logs
           /\ ToSet(lane[c].batch) \subseteq Logs /\ lane[c].skipped \subseteq Logs
           /\ lane[c].active \subseteq ToSet(lane[c].batch)
           /\ StoreTypes /\ QueueInv /\ CountInv /\ logFaults \in 0 .. MaxLogFaults
           /\ lane \in [LogLanes -> LaneRecords]
BY ShapedSets DEF LogsInv, BatchInv, StoreTypes

LEMMA FaultTyped ==
    ASSUME StoreTypes, Fault \/ logFaults' = logFaults
    PROVE  logFaults' \in 0 .. MaxLogFaults
BY JobLogsAssumption DEF StoreTypes, Fault

\* A call that leaves the stores alone, or only changes ClickHouse.
LEMMA RowsChange ==
    ASSUME StoreTypes, QueueInv, CountInv, UNCHANGED <<workflow, topic, logOffset>>, NEW kept \in SUBSET Retained,
           \A l \in Logs : Live(l) /\ l \in clickhouse => l \in kept,
           clickhouse' = kept, Fault \/ logFaults' = logFaults,
           UNCHANGED <<search, tasks, processed, logsCount>>
    PROVE  StoreTypes' /\ QueueInv' /\ CountInv' /\ Kept
<1>1. logFaults' \in 0 .. MaxLogFaults
  BY FaultTyped
<1>2. StoreTypes'
  BY <1>1 DEF StoreTypes
<1>3. QueueInv'
  BY DEF QueueInv, Live
<1>4. CountInv'
  BY CountStays
<1>5. Kept
  BY DEF Kept, Live
<1> QED BY <1>2, <1>3, <1>4, <1>5

\* A call that enqueues a task, or fails before it did.
LEMMA TasksChange ==
    ASSUME StoreTypes, QueueInv, CountInv, UNCHANGED <<workflow, topic, logOffset>>,
           NEW op \in {"add", "delete"}, NEW logs \in SUBSET Logs,
           op = "delete" => \A l \in logs : ~Live(l),
           op = "add" => logs \subseteq Retained,
           tasks' \in {tasks, Enqueue(op, logs)}, Fault \/ logFaults' = logFaults,
           UNCHANGED <<clickhouse, search, processed, logsCount>>
    PROVE  StoreTypes' /\ QueueInv' /\ CountInv' /\ Kept
<1>0. tasks \in Seq(SearchTasks) /\ logFaults' \in 0 .. MaxLogFaults
  BY FaultTyped DEF StoreTypes
<1>1. tasks' \in Seq(SearchTasks) /\ QueueInv'
  <2>1. CASE tasks' = tasks
    BY <1>0, <2>1 DEF QueueInv, Live
  <2>2. CASE tasks' = Enqueue(op, logs)
    BY <1>0, <2>2, QueueGrows
  <2> QED BY <2>1, <2>2
<1>2. DOMAIN tasks \subseteq DOMAIN tasks' /\ \A i \in DOMAIN tasks : tasks'[i] = tasks[i]
  <2>1. CASE tasks' = tasks
    BY <2>1
  <2>2. CASE tasks' = Enqueue(op, logs)
    <3>1. /\ DOMAIN tasks = 1 .. Len(tasks) /\ DOMAIN tasks' = 1 .. Len(tasks')
          /\ Len(tasks) \in Nat /\ Len(tasks') = Len(tasks) + 1
          /\ \A i \in DOMAIN tasks : tasks'[i] = tasks[i]
      BY <1>0, <2>2, QueueGrows
    <3> QED BY <3>1
  <2> QED BY <2>1, <2>2
<1>3. StoreTypes'
  BY <1>0, <1>1 DEF StoreTypes
<1>4. CountInv'
  BY CountStays
<1>5. Kept
  BY <1>2 DEF Kept, Live
<1> QED BY <1>1, <1>3, <1>4, <1>5

LEMMA FilterStep ==
    ASSUME LogsInv, NEW c \in LogLanes, filterActiveWorkflowLogs(c)
    PROVE  LogsInv'
<1>0. lane[c].pc = "filter" /\ LaneOnly /\ UNCHANGED storeVars /\ (Fault \/ logFaults' = logFaults)
  BY DEF filterActiveWorkflowLogs
<1>1. StoreTypes' /\ QueueInv' /\ CountInv' /\ Kept
  <2>1. clickhouse \in SUBSET Retained
    BY LaneFacts DEF StoreTypes
  <2> QED BY <1>0, <2>1, LaneFacts, RowsChange DEF storeVars, LaneOnly
<1>2. CASE lane' = Again(c)
  BY <1>0, <1>1, <1>2, LaneStartsAgain
<1>3. CASE lane' # Again(c)
  <2>1. PICK from, active, skipped, pc, r :
            /\ from = IF lane[c].second THEN lane[c].active ELSE BatchLogs(c)
            /\ active = fetchActiveWorkflowLogPairs(from)
            /\ skipped = SkippedLogs(lane[c].second, from \ active)
            /\ pc = IF skipped # {} THEN "cleanup" ELSE AfterFilter(lane[c].second, active)
            /\ r = [lane[c] EXCEPT !.pc = pc, !.active = active, !.skipped = skipped]
            /\ lane' = Go(c, r)
    BY <1>3 DEF filterActiveWorkflowLogs
  <2>2. /\ from \subseteq ToSet(lane[c].batch) /\ active \subseteq from /\ from \subseteq Logs
        /\ \A l \in from : l \in active <=> Live(l)
        /\ skipped = (from \ active) \cap Retained
    BY <2>1, LaneFacts DEF fetchActiveWorkflowLogPairs, Live, SkippedLogs, retainedLogsFromBatch, BatchLogs
  <2>3. /\ pc \in {"cleanup", "commit", "analytics", "insert"}
        /\ pc = "commit" => active = {} /\ skipped = {}
        /\ pc = "analytics" => lane[c].second
        /\ pc = "insert" => ~lane[c].second
    BY <2>1 DEF AfterFilter
  <2>4. /\ r.pc = pc /\ r.active = active /\ r.skipped = skipped /\ r.batch = lane[c].batch
        /\ r.second = lane[c].second /\ r.canceled = lane[c].canceled /\ r \in LaneRecords
    <3>1. lane[c] \in LaneRecords /\ pc \in LaneStates /\ active \in SUBSET Logs /\ skipped \in SUBSET Logs
      BY <2>2, <2>3, LaneFacts DEF LaneStates
    <3>2. r \in LaneRecords
      <4>1. PICK k : k = lane[c] /\ r = [k EXCEPT !.pc = pc, !.active = active, !.skipped = skipped]
        BY <2>1
      <4>2. k \in LaneRecords
        BY <3>1, <4>1
      <4>3. [k EXCEPT !.pc = pc] \in LaneRecords
        BY <3>1, <4>2 DEF LaneRecords
      <4>4. [k EXCEPT !.pc = pc, !.active = active] \in LaneRecords
        BY <3>1, <4>3 DEF LaneRecords
      <4>5. [k EXCEPT !.pc = pc, !.active = active, !.skipped = skipped] \in LaneRecords
        BY <3>1, <4>4 DEF LaneRecords
      <4> QED BY <4>1, <4>5
    <3> QED BY <2>1, <3>1, <3>2 DEF LaneRecords
  <2>5. Shaped(r)
    BY <2>2, <2>3, <2>4 DEF Shaped
  <2>6. \A l \in active : Live(l) /\ l \in Retained /\ lane[c].second => l \in clickhouse /\ l \in search
    BY <2>1, LaneFacts, <2>2 DEF LaneInv
  <2>7. \A l \in ToSet(lane[c].batch) : Live(l) => l \in active
    <3>1. \A l \in ToSet(lane[c].batch) : Live(l) => l \in from
      BY <2>1, LaneFacts, <1>0 DEF LaneInv, BatchLogs
    <3> QED BY <2>2, <3>1
  <2>8. workflow' = workflow /\ clickhouse' = clickhouse /\ search' = search
    BY <1>0 DEF LaneOnly, storeVars
  <2>9. LaneInv(r)'
    BY <2>2, <2>3, <2>4, <2>6, <2>7, <2>8 DEF LaneInv, Live
  <2> QED BY <1>0, <1>1, <2>1, <2>4, <2>5, <2>9, LaneGoes
<1> QED BY <1>2, <1>3


\* A lane that goes on with the same logs.
LEMMA LaneGoesOn ==
    ASSUME LogsInv, NEW c \in LogLanes, lane[c].pc # "idle", NEW r, lane' = Go(c, r),
           LaneOnly, StoreTypes', QueueInv', CountInv', Kept,
           r \in LaneRecords, r.batch = lane[c].batch, r.active = lane[c].active,
           r.canceled = lane[c].canceled, r.pc # "idle", r.pc # "filter" \/ r.second, LaneInv(r)'
    PROVE  LogsInv'
<1>1. Shaped(r)
  BY LaneFacts DEF Shaped
<1> QED BY <1>1, LaneGoes

\* What a lane knows of its own state after a step of the stores.
LEMMA LaneKnows ==
    ASSUME LogsInv, NEW c \in LogLanes, Kept, NEW l, l = lane[c]
    PROVE  /\ l \in LaneRecords /\ Shaped(l) /\ LaneInv(l) /\ LaneInv(l)'
           /\ ToSet(l.batch) \subseteq Logs /\ l.active \subseteq Logs /\ l.skipped \subseteq Logs
BY LaneFacts, LaneStays

LEMMA CleanRowsStep ==
    ASSUME LogsInv, NEW c \in LogLanes, deleteLogsFromClickHouseByEventID(c)
    PROVE  LogsInv'
<1>0. /\ lane[c].pc = "cleanup" /\ LaneOnly /\ (Fault \/ logFaults' = logFaults)
      /\ UNCHANGED <<search, tasks, processed, logsCount>>
      /\ clickhouse' \in {clickhouse, clickhouse \ lane[c].skipped}
      /\ lane' = Again(c) \/ lane' = Go(c, [lane[c] EXCEPT !.pc = "cleanupSearch"])
  BY DEF deleteLogsFromClickHouseByEventID
<1>1. StoreTypes' /\ QueueInv' /\ CountInv' /\ Kept
  <2>1. clickhouse' \in SUBSET Retained
    BY <1>0, LaneFacts DEF StoreTypes
  <2>2. \A l \in Logs : Live(l) /\ l \in clickhouse => l \in clickhouse'
    BY <1>0, LaneFacts DEF LaneInv
  <2> QED BY <1>0, <2>1, <2>2, LaneFacts, RowsChange DEF LaneOnly
<1>2. CASE lane' = Again(c)
  BY <1>0, <1>1, <1>2, LaneStartsAgain
<1>3. CASE lane' = Go(c, [lane[c] EXCEPT !.pc = "cleanupSearch"])
  <2>1. PICK l, r : l = lane[c] /\ r = [l EXCEPT !.pc = "cleanupSearch"] /\ lane' = Go(c, r)
    BY <1>3
  <2>2. l \in LaneRecords /\ LaneInv(l)'
    BY <1>1, <2>1, LaneKnows
  <2>3. /\ r.pc = "cleanupSearch" /\ r.active = l.active /\ r.skipped = l.skipped /\ r.task = l.task
        /\ r.batch = l.batch /\ r.second = l.second /\ r.canceled = l.canceled
    BY <2>1, <2>2 DEF LaneRecords
  <2>4. r \in LaneRecords
    BY <2>1, <2>2 DEF LaneRecords, LaneStates
  <2>5. LaneInv(r)'
    BY <1>0, <2>1, <2>2, <2>3 DEF LaneInv
  <2> QED BY <1>0, <1>1, <2>1, <2>3, <2>4, <2>5, LaneGoesOn
<1> QED BY <1>0, <1>2, <1>3

LEMMA CleanDocumentsStep ==
    ASSUME LogsInv, NEW c \in LogLanes, deleteLogsFromMeiliSearchByID(c)
    PROVE  LogsInv'
<1> DEFINE queued == Enqueue("delete", lane[c].skipped)
<1>0. /\ lane[c].pc = "cleanupSearch" /\ LaneOnly /\ (Fault \/ logFaults' = logFaults)
      /\ UNCHANGED <<clickhouse, search, processed, logsCount>>
      /\ tasks' \in {tasks, queued}
      /\ \/ lane' = Again(c)
         \/ tasks' = queued /\ lane' = Go(c, [lane[c] EXCEPT !.pc = "waitCleanup", !.task = Len(queued)])
  BY DEF deleteLogsFromMeiliSearchByID
<1>01. /\ lane[c].skipped \in SUBSET Logs /\ \A l \in lane[c].skipped : ~Live(l)
       /\ tasks \in Seq(SearchTasks) /\ StoreTypes /\ QueueInv /\ CountInv
  BY LaneFacts DEF LaneInv, StoreTypes
<1>1. StoreTypes' /\ QueueInv' /\ CountInv' /\ Kept
  BY <1>0, <1>01, TasksChange DEF LaneOnly
<1>2. CASE lane' = Again(c)
  BY <1>0, <1>1, <1>2, LaneStartsAgain
<1>3. CASE tasks' = queued /\ lane' = Go(c, [lane[c] EXCEPT !.pc = "waitCleanup", !.task = Len(queued)])
  <2>1. PICK l, r : l = lane[c] /\ r = [l EXCEPT !.pc = "waitCleanup", !.task = Len(tasks')] /\ lane' = Go(c, r)
    BY <1>3
  <2>2. l \in LaneRecords /\ LaneInv(l)'
    BY <1>1, <2>1, LaneKnows
  <2>3. /\ Len(tasks') \in Nat /\ Len(tasks') \in DOMAIN tasks'
        /\ tasks'[Len(tasks')] = [op |-> "delete", logs |-> lane[c].skipped, status |-> "enqueued"]
    BY <1>0, <1>01, <1>3, QueueGrows DEF LaneOnly
  <2>4. /\ r.pc = "waitCleanup" /\ r.active = l.active /\ r.skipped = l.skipped /\ r.task = Len(tasks')
        /\ r.batch = l.batch /\ r.second = l.second /\ r.canceled = l.canceled
    BY <2>1, <2>2 DEF LaneRecords
  <2>5. r \in LaneRecords
    BY <2>1, <2>2, <2>3 DEF LaneRecords, LaneStates
  <2>6. Deletes(r.task, r.skipped)'
    BY <2>1, <2>3, <2>4 DEF Deletes
  <2>7. LaneInv(r)'
    BY <1>0, <2>1, <2>2, <2>4, <2>6 DEF LaneInv
  <2> QED BY <1>0, <1>1, <2>1, <2>4, <2>5, <2>7, LaneGoesOn
<1> QED BY <1>0, <1>2, <1>3

LEMMA InsertRowsStep ==
    ASSUME LogsInv, NEW c \in LogLanes, insertLogsBatchToClickhouse(c)
    PROVE  LogsInv'
<1> DEFINE kept == clickhouse \cup retainedLogsFromBatch(lane[c].active)
<1>0. /\ lane[c].pc = "insert" /\ LaneOnly /\ (Fault \/ logFaults' = logFaults)
      /\ UNCHANGED <<search, tasks, processed, logsCount>>
      /\ clickhouse' \in {clickhouse, kept}
      /\ \/ lane' = Again(c)
         \/ clickhouse' = kept /\ lane' = Go(c, [lane[c] EXCEPT !.pc = "addDocuments"])
  BY DEF insertLogsBatchToClickhouse
<1>1. StoreTypes' /\ QueueInv' /\ CountInv' /\ Kept
  <2>1. clickhouse' \in SUBSET Retained
    BY <1>0, LaneFacts DEF StoreTypes, retainedLogsFromBatch
  <2>2. \A l \in Logs : Live(l) /\ l \in clickhouse => l \in clickhouse'
    BY <1>0
  <2> QED BY <1>0, <2>1, <2>2, LaneFacts, RowsChange DEF LaneOnly
<1>2. CASE lane' = Again(c)
  BY <1>0, <1>1, <1>2, LaneStartsAgain
<1>3. CASE clickhouse' = kept /\ lane' = Go(c, [lane[c] EXCEPT !.pc = "addDocuments"])
  <2>1. PICK l, r : l = lane[c] /\ r = [l EXCEPT !.pc = "addDocuments"] /\ lane' = Go(c, r)
    BY <1>3
  <2>2. l \in LaneRecords /\ LaneInv(l)'
    BY <1>1, <2>1, LaneKnows
  <2>3. /\ r.pc = "addDocuments" /\ r.active = l.active /\ r.skipped = l.skipped /\ r.task = l.task
        /\ r.batch = l.batch /\ r.second = l.second /\ r.canceled = l.canceled
    BY <2>1, <2>2 DEF LaneRecords
  <2>4. r \in LaneRecords
    BY <2>1, <2>2 DEF LaneRecords, LaneStates
  <2>5. \A k \in r.active \cap Retained : k \in clickhouse'
    BY <1>3, <2>1, <2>3 DEF retainedLogsFromBatch
  <2>6. LaneInv(r)'
    BY <1>0, <2>1, <2>2, <2>3, <2>5 DEF LaneInv
  <2> QED BY <1>0, <1>1, <2>1, <2>3, <2>4, <2>6, LaneGoesOn
<1> QED BY <1>0, <1>2, <1>3

LEMMA AddDocumentsStep ==
    ASSUME LogsInv, NEW c \in LogLanes, insertLogsDocumentsToMeiliSearch(c)
    PROVE  LogsInv'
<1> DEFINE logs == retainedLogsFromBatch(lane[c].active)
           queued == Enqueue("add", logs)
<1>0. /\ lane[c].pc = "addDocuments" /\ LaneOnly /\ (Fault \/ logFaults' = logFaults)
      /\ UNCHANGED <<clickhouse, search, processed, logsCount>>
      /\ tasks' \in {tasks, queued}
      /\ \/ lane' = Again(c)
         \/ logs = {} /\ lane' = Go(c, [lane[c] EXCEPT !.pc = "filter", !.second = TRUE])
         \/ tasks' = queued /\ lane' = Go(c, [lane[c] EXCEPT !.pc = "waitDocuments", !.task = Len(queued)])
  BY DEF insertLogsDocumentsToMeiliSearch
<1>01. /\ logs \in SUBSET Logs /\ logs \subseteq Retained
       /\ tasks \in Seq(SearchTasks) /\ StoreTypes /\ QueueInv /\ CountInv
  BY LaneFacts DEF retainedLogsFromBatch, StoreTypes
<1>1. StoreTypes' /\ QueueInv' /\ CountInv' /\ Kept
  BY <1>0, <1>01, TasksChange DEF LaneOnly
<1>2. CASE lane' = Again(c)
  BY <1>0, <1>1, <1>2, LaneStartsAgain
<1>3. CASE tasks' = queued /\ lane' = Go(c, [lane[c] EXCEPT !.pc = "waitDocuments", !.task = Len(queued)])
  <2>1. PICK l, r : l = lane[c] /\ r = [l EXCEPT !.pc = "waitDocuments", !.task = Len(tasks')] /\ lane' = Go(c, r)
    BY <1>3
  <2>2. l \in LaneRecords /\ LaneInv(l)'
    BY <1>1, <2>1, LaneKnows
  <2>3. /\ Len(tasks') \in Nat /\ Len(tasks') \in DOMAIN tasks'
        /\ tasks'[Len(tasks')] = [op |-> "add", logs |-> logs, status |-> "enqueued"]
    BY <1>0, <1>01, <1>3, QueueGrows DEF LaneOnly
  <2>4. /\ r.pc = "waitDocuments" /\ r.active = l.active /\ r.skipped = l.skipped /\ r.task = Len(tasks')
        /\ r.batch = l.batch /\ r.second = l.second /\ r.canceled = l.canceled
    BY <2>1, <2>2 DEF LaneRecords
  <2>5. r \in LaneRecords
    BY <2>1, <2>2, <2>3 DEF LaneRecords, LaneStates
  <2>6. Adds(r.task, retainedLogsFromBatch(r.active))'
    BY <2>1, <2>3, <2>4 DEF Adds, retainedLogsFromBatch
  <2>7. LaneInv(r)'
    BY <1>0, <2>1, <2>2, <2>4, <2>6 DEF LaneInv
  <2> QED BY <1>0, <1>1, <2>1, <2>4, <2>5, <2>7, LaneGoesOn
<1>4. CASE logs = {} /\ lane' = Go(c, [lane[c] EXCEPT !.pc = "filter", !.second = TRUE])
  <2>1. PICK l, r : l = lane[c] /\ r = [l EXCEPT !.pc = "filter", !.second = TRUE] /\ lane' = Go(c, r)
    BY <1>4
  <2>2. l \in LaneRecords /\ LaneInv(l)'
    BY <1>1, <2>1, LaneKnows
  <2>3. /\ r.pc = "filter" /\ r.active = l.active /\ r.skipped = l.skipped /\ r.task = l.task
        /\ r.batch = l.batch /\ r.second /\ r.canceled = l.canceled
    BY <2>1, <2>2 DEF LaneRecords
  <2>4. r \in LaneRecords
    BY <2>1, <2>2 DEF LaneRecords, LaneStates
  <2>5. r.active \cap Retained = {}
    BY <1>4, <2>1, <2>3 DEF retainedLogsFromBatch
  <2>6. LaneInv(r)'
    BY <1>0, <2>1, <2>2, <2>3, <2>5 DEF LaneInv
  <2> QED BY <1>0, <1>1, <2>1, <2>3, <2>4, <2>6, LaneGoesOn
<1> HIDE DEF logs, queued
<1> QED BY <1>0, <1>2, <1>3, <1>4

LEMMA WaitStep ==
    ASSUME LogsInv, NEW c \in LogLanes, waitForMeiliSearchTask(c)
    PROVE  LogsInv'
<1>0. /\ lane[c].pc \in {"waitCleanup", "waitDocuments"} /\ LaneOnly /\ (Fault \/ logFaults' = logFaults)
      /\ UNCHANGED storeVars
      /\ \/ lane' = Again(c)
         \/ /\ tasks[lane[c].task].status = "succeeded"
            /\ lane' = Go(c, IF lane[c].pc = "waitCleanup"
                             THEN [lane[c] EXCEPT !.pc = AfterFilter(lane[c].second, lane[c].active)]
                             ELSE [lane[c] EXCEPT !.pc = "filter", !.second = TRUE])
  BY DEF waitForMeiliSearchTask, TaskDone
<1>1. StoreTypes' /\ QueueInv' /\ CountInv' /\ Kept
  <2>1. clickhouse \in SUBSET Retained
    BY LaneFacts DEF StoreTypes
  <2> QED BY <1>0, <2>1, LaneFacts, RowsChange DEF storeVars, LaneOnly
<1>2. CASE lane' = Again(c)
  BY <1>0, <1>1, <1>2, LaneStartsAgain
<1>3. CASE /\ lane[c].pc = "waitCleanup"
           /\ lane' = Go(c, [lane[c] EXCEPT !.pc = AfterFilter(lane[c].second, lane[c].active)])
  <2>1. PICK l, r, pc : /\ l = lane[c] /\ pc = AfterFilter(l.second, l.active)
                        /\ r = [l EXCEPT !.pc = pc] /\ lane' = Go(c, r)
    BY <1>3
  <2>2. l \in LaneRecords /\ LaneInv(l)'
    BY <1>1, <2>1, LaneKnows
  <2>3. /\ pc \in {"commit", "analytics", "insert"} /\ pc \in LaneStates
        /\ pc = "commit" => l.active = {}
        /\ pc = "analytics" => l.second
        /\ pc = "insert" => ~l.second
    BY <2>1 DEF AfterFilter, LaneStates
  <2>4. /\ r.pc = pc /\ r.active = l.active /\ r.skipped = l.skipped /\ r.task = l.task
        /\ r.batch = l.batch /\ r.second = l.second /\ r.canceled = l.canceled
    BY <2>1, <2>2 DEF LaneRecords
  <2>5. r \in LaneRecords
    BY <2>1, <2>2, <2>3 DEF LaneRecords
  <2>6. LaneInv(r)'
    BY <1>3, <2>1, <2>2, <2>3, <2>4 DEF LaneInv
  <2> QED BY <1>0, <1>1, <2>1, <2>3, <2>4, <2>5, <2>6, LaneGoesOn
<1>4. CASE /\ lane[c].pc = "waitDocuments" /\ tasks[lane[c].task].status = "succeeded"
           /\ lane' = Go(c, [lane[c] EXCEPT !.pc = "filter", !.second = TRUE])
  <2>1. PICK l, r : l = lane[c] /\ r = [l EXCEPT !.pc = "filter", !.second = TRUE] /\ lane' = Go(c, r)
    BY <1>4
  <2>2. l \in LaneRecords /\ LaneInv(l) /\ LaneInv(l)'
    BY <1>1, <2>1, LaneKnows
  <2>3. /\ r.pc = "filter" /\ r.active = l.active /\ r.skipped = l.skipped /\ r.task = l.task
        /\ r.batch = l.batch /\ r.second /\ r.canceled = l.canceled
    BY <2>1, <2>2 DEF LaneRecords
  <2>4. r \in LaneRecords
    BY <2>1, <2>2 DEF LaneRecords, LaneStates
  <2>5. /\ \A k \in l.active \cap Retained : Live(k) => k \in search
        /\ UNCHANGED <<search, workflow>>
    <3>1. Adds(l.task, retainedLogsFromBatch(l.active)) /\ QueueInv
      BY <1>4, <2>1, <2>2, LaneFacts DEF LaneInv
    <3> QED BY <1>0, <1>4, <2>1, <3>1 DEF Adds, QueueInv, retainedLogsFromBatch, storeVars, LaneOnly
  <2>6. \A k \in l.active \cap Retained : Live(k)' => k \in search'
    BY <2>5 DEF Live
  <2>7. LaneInv(r)'
    BY <1>4, <2>1, <2>2, <2>3, <2>6 DEF LaneInv
  <2> QED BY <1>0, <1>1, <2>1, <2>3, <2>4, <2>7, LaneGoesOn
<1> QED BY <1>0, <1>2, <1>3, <1>4

LEMMA TopicFinite ==
    ASSUME NEW s \in Seq(Logs), NEW S \in SUBSET ToSet(s)
    PROVE  IsFiniteSet(S) /\ Cardinality(S) \in Nat
<1>1. Len(s) \in Nat /\ s \in [1 .. Len(s) -> Logs] /\ DOMAIN s = 1 .. Len(s)
  BY LenProperties
<1>2. s \in Surjection(1 .. Len(s), ToSet(s))
  BY <1>1, BatchTyped DEF Surjection
<1>3. IsFiniteSet(1 .. Len(s))
  BY <1>1, FS_Interval
<1>4. IsFiniteSet(ToSet(s))
  BY <1>2, <1>3, FS_Surjection
<1> QED BY <1>4, FS_Subset, FS_CardinalityType

\* Keys that are new to processed_events are counted with it.
LEMMA CountGrows ==
    ASSUME StoreTypes, CountInv, topic \in Seq(Logs), LaneOnly,
           NEW new \in SUBSET ToSet(topic), new \cap processed = {},
           processed' = processed \cup new, logsCount' = updatePartitionLogCounts(new)
    PROVE  /\ CountInv' /\ processed' \subseteq Logs /\ logsCount' \in [Workflows -> Nat]
<1>1. topic' = topic /\ logOffset' = logOffset /\ workflow' = workflow
  BY DEF LaneOnly
<1>2. ASSUME NEW w \in Workflows
      PROVE  /\ logsCount'[w] = Cardinality({k \in processed' : k[1] = w})
             /\ logsCount'[w] \in Nat
  <2> DEFINE old == {k \in processed : k[1] = w}
             more == {k \in new : k[1] = w}
  <2>1. old \in SUBSET ToSet(topic) /\ more \in SUBSET ToSet(topic) /\ old \cap more = {}
    BY DEF CountInv
  <2>2. /\ IsFiniteSet(old) /\ IsFiniteSet(more)
        /\ Cardinality(old) \in Nat /\ Cardinality(more) \in Nat
    <3> HIDE DEF old, more
    <3> QED BY <2>1, TopicFinite
  <2>3. Cardinality(old \cup more) = Cardinality(old) + Cardinality(more) - Cardinality(old \cap more)
    <3> HIDE DEF old, more
    <3> QED BY <2>2, FS_Union
  <2>4. Cardinality(old \cap more) = 0
    BY <2>1, FS_EmptySet
  <2>5. {k \in processed' : k[1] = w} = old \cup more
    OBVIOUS
  <2>6. logsCount'[w] = logsCount[w] + Cardinality(more) /\ logsCount[w] = Cardinality(old)
    BY DEF updatePartitionLogCounts, CountInv
  <2>7. logsCount'[w] = Cardinality(old \cup more) /\ logsCount'[w] \in Nat
    <3> HIDE DEF old, more
    <3> QED BY <2>2, <2>3, <2>4, <2>6
  <2> QED BY <2>5, <2>7
<1>3. logsCount' = [w \in Workflows |-> logsCount'[w]]
  BY DEF updatePartitionLogCounts
<1>4. processed' \subseteq ToSet(topic) /\ ToSet(topic) \subseteq Logs
  BY BatchTyped DEF CountInv
<1>5. \A l \in CommittedLogs' : Live(l)' => l \in processed'
  BY <1>1 DEF CountInv, CommittedLogs, Live
<1> QED BY <1>1, <1>2, <1>3, <1>4, <1>5 DEF CountInv

LEMMA AnalyticsStep ==
    ASSUME LogsInv, NEW c \in LogLanes, processLogsAnalytics(c)
    PROVE  LogsInv'
<1> DEFINE new == lane[c].active \ processed
<1>0. /\ lane[c].pc = "analytics" /\ LaneOnly /\ (Fault \/ logFaults' = logFaults)
      /\ UNCHANGED <<clickhouse, search, tasks>>
      /\ \/ processed' = processed \cup new /\ logsCount' = updatePartitionLogCounts(new)
         \/ UNCHANGED <<processed, logsCount>>
      /\ \/ lane' = Again(c)
         \/ processed' = processed \cup new /\ lane' = Go(c, [lane[c] EXCEPT !.pc = "commit"])
  BY DEF processLogsAnalytics, insertProcessedLogAnalyticsEvents, collectLogAnalyticsEvents
<1>1. StoreTypes' /\ QueueInv' /\ CountInv' /\ Kept
  <2>1. /\ StoreTypes /\ QueueInv /\ CountInv /\ topic \in Seq(Logs) /\ new \in SUBSET ToSet(topic)
        /\ logFaults' \in 0 .. MaxLogFaults
    <3>1. logFaults' \in 0 .. MaxLogFaults
      BY <1>0, LaneFacts, FaultTyped
    <3> QED BY <3>1, LaneFacts DEF LogsInv, BatchInv
  <2>2. CountInv' /\ processed' \subseteq Logs /\ logsCount' \in [Workflows -> Nat]
    <3>1. CASE processed' = processed \cup new /\ logsCount' = updatePartitionLogCounts(new)
      BY <1>0, <2>1, <3>1, CountGrows
    <3>2. CASE UNCHANGED <<processed, logsCount>>
      <4>1. CountInv'
        BY <1>0, <2>1, <3>2, CountStays DEF LaneOnly
      <4> QED BY <2>1, <3>2, <4>1 DEF StoreTypes
    <3> QED BY <1>0, <3>1, <3>2
  <2>3. StoreTypes'
    BY <1>0, <2>1, <2>2 DEF StoreTypes
  <2>4. QueueInv'
    BY <1>0, <2>1 DEF QueueInv, Live, LaneOnly
  <2>5. processed \subseteq processed'
    BY <1>0
  <2>6. Kept
    BY <1>0, <2>5 DEF Kept, Live, LaneOnly
  <2> QED BY <2>2, <2>3, <2>4, <2>6
<1>2. CASE lane' = Again(c)
  BY <1>0, <1>1, <1>2, LaneStartsAgain
<1>3. CASE processed' = processed \cup new /\ lane' = Go(c, [lane[c] EXCEPT !.pc = "commit"])
  <2>1. PICK l, r : l = lane[c] /\ r = [l EXCEPT !.pc = "commit"] /\ lane' = Go(c, r)
    BY <1>3
  <2>2. l \in LaneRecords /\ LaneInv(l)'
    BY <1>1, <2>1, LaneKnows
  <2>3. /\ r.pc = "commit" /\ r.active = l.active /\ r.skipped = l.skipped /\ r.task = l.task
        /\ r.batch = l.batch /\ r.second = l.second /\ r.canceled = l.canceled
    BY <2>1, <2>2 DEF LaneRecords
  <2>4. r \in LaneRecords
    BY <2>1, <2>2 DEF LaneRecords, LaneStates
  <2>5. r.active \subseteq processed'
    BY <1>3, <2>1, <2>3
  <2>6. LaneInv(r)'
    BY <1>0, <2>1, <2>2, <2>3, <2>5 DEF LaneInv
  <2> QED BY <1>0, <1>1, <2>1, <2>3, <2>4, <2>6, LaneGoesOn
<1> HIDE DEF new
<1> QED BY <1>0, <1>2, <1>3

LEMMA AbandonStep ==
    ASSUME LogsInv, NEW c \in LogLanes, Abandon(c)
    PROVE  LogsInv'
<1>1. /\ lane[c].pc # "idle" /\ LaneOnly /\ UNCHANGED storeVars /\ logFaults' = logFaults
      /\ lane' = Again(c)
  BY DEF Abandon
<1>2. StoreTypes' /\ QueueInv' /\ CountInv' /\ Kept
  <2>1. clickhouse \in SUBSET Retained
    BY LaneFacts DEF StoreTypes
  <2> QED BY <1>1, <2>1, LaneFacts, RowsChange DEF storeVars, LaneOnly
<1> QED BY <1>1, <1>2, LaneStartsAgain

-----------------------------------------------------------------------------
(* The partition: what is read, committed and assigned.                      *)

LEMMA IdleLaneShaped == Shaped(IdleLane) /\ IdleLane.pc = "idle" /\ ~IdleLane.canceled
<1>1. <<>> \in Seq(Logs) /\ "idle" \in LaneStates
  BY EmptySeq DEF LaneStates
<1> QED BY <1>1, NoBatch DEF Shaped, IdleLane, LaneRecords

LEMMA StoresStay ==
    ASSUME LogsInv, UNCHANGED <<workflow, worker, topic, deletion>>, UNCHANGED storeVars,
           Fault \/ logFaults' = logFaults
    PROVE  StoreTypes' /\ QueueInv' /\ WorkersInv' /\ DeletionInv' /\ Kept
<1>1. StoreTypes /\ QueueInv /\ WorkersInv /\ DeletionInv /\ logFaults' \in 0 .. MaxLogFaults
  BY FaultTyped DEF LogsInv, BatchInv
<1>2. StoreTypes'
  BY <1>1 DEF StoreTypes, storeVars
<1>3. QueueInv' /\ DeletionInv'
  BY <1>1 DEF QueueInv, DeletionInv, Deletes, Live, storeVars
<1>4. WorkersInv'
  BY <1>1 DEF WorkersInv
<1>5. Kept
  BY DEF Kept, Live, storeVars
<1> QED BY <1>2, <1>3, <1>4, <1>5

LEMMA CommitBatchStep ==
    ASSUME LogsInv, NEW c \in LogLanes, CommitBatch(c)
    PROVE  LogsInv'
<1>0. PICK l : /\ l = lane[c] /\ l.pc = "commit" /\ ~l.canceled
               /\ logOffset' = logOffset + Len(l.batch)
               /\ lane' = [lane EXCEPT ![c] = IdleLane]
               /\ UNCHANGED <<workflow, worker, topic, owner, deletion, logFaults>> /\ UNCHANGED storeVars
  BY DEF CommitBatch
<1>1. StoreTypes' /\ QueueInv' /\ WorkersInv' /\ DeletionInv' /\ Kept
  BY <1>0, StoresStay
<1>2. /\ BatchInv /\ CountInv /\ CommittedLogsStored /\ Shaped(l) /\ LaneInv(l) /\ l.batch \in Seq(Logs)
      /\ topic \in Seq(Logs) /\ logOffset \in 0 .. Len(topic) /\ Len(l.batch) \in Nat /\ Len(topic) \in Nat
      /\ owner = c /\ logOffset + Len(l.batch) <= Len(topic)
      /\ \A i \in 1 .. Len(l.batch) : l.batch[i] = topic[logOffset + i]
  <2>1. BatchInv /\ CountInv /\ CommittedLogsStored /\ Shaped(l) /\ LaneInv(l) /\ l.batch \in Seq(Logs)
    BY <1>0, LaneFacts DEF LogsInv
  <2>2. topic \in Seq(Logs) /\ Len(l.batch) \in Nat /\ Len(topic) \in Nat
    BY <2>1, LenProperties DEF BatchInv
  <2> QED BY <1>0, <2>1, <2>2 DEF BatchInv
<1>3. \A k \in CommittedLogs' : k \in CommittedLogs \/ k \in ToSet(l.batch)
  <2>1. ASSUME NEW i \in 1 .. logOffset' PROVE topic[i] \in CommittedLogs \/ topic[i] \in ToSet(l.batch)
    <3>1. CASE i <= logOffset
      <4>1. i \in 1 .. logOffset
        BY <1>0, <1>2, <3>1
      <4> QED BY <4>1 DEF CommittedLogs
    <3>2. CASE i > logOffset
      <4>1. i - logOffset \in 1 .. Len(l.batch) /\ logOffset + (i - logOffset) = i
        BY <1>0, <1>2, <3>2
      <4>2. l.batch[i - logOffset] = topic[i]
        BY <1>2, <4>1
      <4> QED BY <1>2, <4>1, <4>2, BatchTyped
    <3> QED BY <1>0, <1>2, <3>1, <3>2
  <2> QED BY <1>0, <2>1 DEF CommittedLogs
<1>4. \A k \in ToSet(l.batch) : Live(k) =>
          k \in processed /\ (k \in Retained => k \in clickhouse /\ k \in search)
  BY <1>0, <1>2 DEF LaneInv
<1>5. CountInv' /\ CommittedLogsStored'
  <2>1. UNCHANGED <<workflow, topic, processed, logsCount, clickhouse, search>>
    BY <1>0 DEF storeVars
  <2>2. \A k \in CommittedLogs' : Live(k) => k \in processed
    BY <1>2, <1>3, <1>4 DEF CountInv
  <2>3. \A k \in CommittedLogs' \cap Retained : Live(k) => k \in clickhouse /\ k \in search
    BY <1>2, <1>3, <1>4 DEF CommittedLogsStored, Live
  <2>4. CountInv'
    BY <1>2, <2>1, <2>2 DEF CountInv, Live
  <2> QED BY <2>1, <2>3, <2>4 DEF CommittedLogsStored, Live
<1>6. /\ lane' \in [LogLanes -> LaneRecords]
      /\ \A d \in LogLanes : lane'[d] = IF d = c THEN IdleLane ELSE lane[d]
  BY <1>0, <1>2, IdleLaneShaped DEF BatchInv, Shaped
<1>7. BatchInv'
  <2>1. logOffset' \in 0 .. Len(topic)
    BY <1>0, <1>2
  <2>2. ASSUME NEW d \in LogLanes
        PROVE  /\ Shaped(lane'[d]) /\ ToSet(lane'[d].batch) \subseteq ToSet(topic)
               /\ lane'[d].pc = "idle" \/ lane'[d].canceled
    <3>1. CASE d = c
      BY <1>6, <3>1, IdleLaneShaped, NoBatch DEF Shaped
    <3>2. CASE d # c
      BY <1>2, <1>6, <3>2 DEF BatchInv
    <3> QED BY <3>1, <3>2
  <2>3. ~lane'[owner].canceled /\ owner \in LogLanes
    BY <1>2, <1>6, IdleLaneShaped DEF BatchInv
  <2>4. owner' = owner /\ topic' = topic
    BY <1>0
  <2> QED BY <1>1, <1>2, <1>6, <2>1, <2>2, <2>3, <2>4 DEF BatchInv, Shaped
<1>8. ASSUME NEW d \in LogLanes PROVE LaneInv(lane[d])'
  <2>1. CASE d = c
    <3>1. PICK r : r = IdleLane
      OBVIOUS
    <3>2. LaneInv(r)'
      BY <3>1, BareLane DEF IdleLane
    <3> QED BY <1>6, <2>1, <3>1, <3>2
  <2>2. CASE d # c
    <3>1. PICK r : r = lane[d]
      OBVIOUS
    <3>2. LaneInv(r)'
      BY <1>1, <3>1, LaneKnows
    <3> QED BY <1>6, <2>2, <3>1, <3>2
  <2> QED BY <2>1, <2>2
<1> QED BY <1>1, <1>5, <1>7, <1>8 DEF LogsInv

\* The lanes that a step of the partition leaves.
Assigned(d) ==
    /\ Shaped(lane[d]) /\ ToSet(lane[d].batch) \subseteq ToSet(topic)
    /\ lane[d].pc # "idle" /\ ~lane[d].canceled =>
          /\ owner = d /\ logOffset + Len(lane[d].batch) <= Len(topic)
          /\ \A i \in 1 .. Len(lane[d].batch) : lane[d].batch[i] = topic[logOffset + i]

LEMMA PartitionMoves ==
    ASSUME LogsInv, UNCHANGED <<workflow, worker, topic, logOffset, deletion>>, UNCHANGED storeVars,
           Fault \/ logFaults' = logFaults,
           lane' \in [LogLanes -> LaneRecords], owner' \in LogLanes, ~lane'[owner'].canceled,
           \A d \in LogLanes : Assigned(d)' /\ LaneInv(lane[d])'
    PROVE  LogsInv'
<1>1. StoreTypes' /\ QueueInv' /\ WorkersInv' /\ DeletionInv'
  BY StoresStay
<1>2. topic \in Seq(Logs) /\ logOffset \in 0 .. Len(topic) /\ CountInv /\ CommittedLogsStored
  BY DEF LogsInv, BatchInv
<1>3. BatchInv'
  BY <1>1, <1>2 DEF BatchInv, Assigned
<1>4. CountInv'
  BY <1>2, CountStays DEF storeVars
<1>5. CommittedLogsStored'
  BY <1>2 DEF CommittedLogsStored, CommittedLogs, storeVars
<1> QED BY <1>1, <1>3, <1>4, <1>5 DEF LogsInv

LEMMA LanesAre ==
    ASSUME LogsInv
    PROVE  /\ owner \in LogLanes /\ ~lane[owner].canceled /\ lane \in [LogLanes -> LaneRecords]
           /\ topic \in Seq(Logs) /\ logOffset \in 0 .. Len(topic)
           /\ \A d \in LogLanes : Assigned(d) /\ LaneInv(lane[d])
BY DEF LogsInv, BatchInv, Assigned

LEMMA PollStep ==
    ASSUME LogsInv, NEW c \in LogLanes, PollBatch(c)
    PROVE  LogsInv'
<1>0. PICK n, l, r :
          /\ n \in 1 .. LogBatchSize
          /\ owner = c /\ l = lane[c] /\ l.pc = "idle" /\ logOffset + n <= Len(topic)
          /\ lane' = [lane EXCEPT ![c] = r] /\ r.batch = SubSeq(topic, logOffset + 1, logOffset + n)
          /\ r = [l EXCEPT !.pc = "filter", !.batch = SubSeq(topic, logOffset + 1, logOffset + n)]
  <2>1. PICK n \in 1 .. LogBatchSize :
          /\ owner = c /\ lane[c].pc = "idle" /\ logOffset + n <= Len(topic)
          /\ lane' = [lane EXCEPT ![c].pc = "filter",
                                  ![c].batch = SubSeq(topic, logOffset + 1, logOffset + n)]
    BY DEF PollBatch
  <2>2. PICK l, r : /\ l = lane[c]
                    /\ r = [l EXCEPT !.pc = "filter", !.batch = SubSeq(topic, logOffset + 1, logOffset + n)]
    OBVIOUS
  <2>3. lane \in [LogLanes -> LaneRecords] /\ lane[c] \in LaneRecords
    BY LaneFacts
  <2>4. lane' = [lane EXCEPT ![c] = r]
    BY <2>1, <2>2, <2>3 DEF LaneRecords
  <2>5. r.batch = SubSeq(topic, logOffset + 1, logOffset + n)
    BY <2>2, <2>3 DEF LaneRecords
  <2> QED BY <2>1, <2>2, <2>4, <2>5
<1>1. LaneOnly /\ UNCHANGED storeVars /\ logFaults' = logFaults
  BY DEF PollBatch
<1>2. /\ l \in LaneRecords /\ Shaped(l) /\ lane \in [LogLanes -> LaneRecords] /\ ~l.canceled
      /\ topic \in Seq(Logs) /\ Len(topic) \in Nat /\ logOffset \in Nat /\ n \in Nat /\ n >= 1
  BY <1>0, LanesAre, LaneFacts, LenProperties, JobLogsAssumption
<1>3. /\ r.batch \in Seq(Logs) /\ Len(r.batch) = n
      /\ \A i \in 1 .. n : r.batch[i] = topic[logOffset + i]
  <2>1. \A i \in logOffset + 1 .. logOffset + n : topic[i] \in Logs
    BY <1>0, <1>2, ElementOfSeq
  <2>2. PICK a, b : a = logOffset + 1 /\ b = logOffset + n
    OBVIOUS
  <2>3. a \in Int /\ b \in Int /\ \A i \in a .. b : topic[i] \in Logs
    BY <1>2, <2>1, <2>2
  <2>4. /\ SubSeq(topic, a, b) \in Seq(Logs)
        /\ Len(SubSeq(topic, a, b)) = IF a <= b THEN b - a + 1 ELSE 0
        /\ \A i \in 1 .. b - a + 1 : SubSeq(topic, a, b)[i] = topic[a + i - 1]
    BY <2>3, SubSeqProperties
  <2>5. r.batch = SubSeq(topic, a, b)
    BY <1>0, <2>2
  <2>6. b - a + 1 = n /\ a <= b /\ \A i \in 1 .. n : a + i - 1 = logOffset + i
    <3>1. b - a + 1 = n
      BY <1>2, <2>2
    <3>2. a <= b
      BY <1>2, <2>2
    <3>3. \A i \in 1 .. n : a + i - 1 = logOffset + i
      BY <1>2, <2>2
    <3> QED BY <3>1, <3>2, <3>3
  <2> QED BY <2>4, <2>5, <2>6
<1>4. ToSet(r.batch) \subseteq ToSet(topic)
  <2>1. \A i \in 1 .. n : topic[logOffset + i] \in ToSet(topic)
    <3>1. \A i \in 1 .. n : logOffset + i \in 1 .. Len(topic)
      BY <1>0, <1>2
    <3> QED BY <1>2, <3>1, BatchTyped
  <2> QED BY <1>3, <2>1, BatchTyped
<1>5. /\ r.pc = "filter" /\ r.active = {} /\ r.skipped = {} /\ ~r.second /\ ~r.canceled
      /\ r \in LaneRecords
  <2>1. l.active = {} /\ l.skipped = {} /\ ~l.second
    BY <1>0, <1>2 DEF Shaped
  <2>2. r \in LaneRecords
    BY <1>0, <1>2, <1>3 DEF LaneRecords, LaneStates
  <2> QED BY <1>0, <1>2, <2>1, <2>2 DEF LaneRecords
<1>6. Shaped(r) /\ LaneInv(r)'
  BY <1>5, BareLane DEF Shaped
<1>7. /\ lane' \in [LogLanes -> LaneRecords]
      /\ \A d \in LogLanes : lane'[d] = IF d = c THEN r ELSE lane[d]
  BY <1>0, <1>2, <1>5
<1>8. /\ UNCHANGED <<workflow, worker, topic, logOffset, deletion>> /\ owner' = owner /\ owner \in LogLanes
      /\ ~lane'[owner].canceled
  BY <1>0, <1>1, <1>5, <1>7 DEF LaneOnly
<1>9. ASSUME NEW d \in LogLanes PROVE Assigned(d)' /\ LaneInv(lane[d])'
  <2>1. CASE d = c
    <3>1. lane'[d] = r /\ owner' = d /\ topic' = topic /\ logOffset' = logOffset
      BY <1>0, <1>7, <1>8, <2>1
    <3>2. logOffset + Len(r.batch) <= Len(topic)
      BY <1>0, <1>3
    <3>3. \A i \in 1 .. Len(r.batch) : r.batch[i] = topic[logOffset + i]
      BY <1>3
    <3>4. Assigned(d)'
      BY <1>4, <1>6, <3>1, <3>2, <3>3 DEF Assigned, Shaped
    <3> QED BY <1>6, <3>1, <3>4
  <2>2. CASE d # c
    <3>1. PICK k : k = lane[d]
      OBVIOUS
    <3>2. LaneInv(k)'
      BY <1>1, <1>8, <3>1, StoresStay, LaneKnows
    <3> QED BY <1>7, <1>8, <2>2, <3>1, <3>2, LanesAre DEF Assigned, Shaped
  <2> QED BY <2>1, <2>2
<1> QED BY <1>1, <1>7, <1>8, <1>9, PartitionMoves

LEMMA RebalanceStep ==
    ASSUME LogsInv, NEW c \in LogLanes, Rebalance(c)
    PROVE  LogsInv'
<1>0. PICK l, r :
          /\ owner # c /\ lane[c] = IdleLane /\ owner' = c /\ l = lane[owner]
          /\ r = [l EXCEPT !.canceled = TRUE] /\ lane' = [lane EXCEPT ![owner] = r]
          /\ UNCHANGED <<workflow, worker, topic, logOffset, deletion, logFaults>> /\ UNCHANGED storeVars
  BY LanesAre DEF Rebalance, LaneRecords
<1>1. /\ l \in LaneRecords /\ Shaped(l) /\ lane \in [LogLanes -> LaneRecords] /\ owner \in LogLanes
      /\ Assigned(owner) /\ Kept /\ LaneInv(l)'
  BY <1>0, LanesAre, LaneFacts, StoresStay, LaneKnows
<1>2. /\ r.pc = l.pc /\ r.batch = l.batch /\ r.active = l.active /\ r.skipped = l.skipped
      /\ r.second = l.second /\ r.task = l.task /\ r.canceled
  BY <1>0, <1>1 DEF LaneRecords
<1>3. r \in LaneRecords
  BY <1>0, <1>1 DEF LaneRecords
<1>4. Shaped(r) /\ LaneInv(r)'
  BY <1>1, <1>2, <1>3 DEF Shaped, LaneInv
<1>5. /\ lane' \in [LogLanes -> LaneRecords]
      /\ \A d \in LogLanes : lane'[d] = IF d = owner THEN r ELSE lane[d]
  BY <1>0, <1>1, <1>3
<1>6. ~lane'[owner'].canceled
  BY <1>0, <1>5, IdleLaneShaped
<1>7. ASSUME NEW d \in LogLanes PROVE Assigned(d)' /\ LaneInv(lane[d])'
  <2>1. CASE d = owner
    BY <1>0, <1>1, <1>2, <1>4, <1>5, <2>1 DEF Assigned, Shaped
  <2>2. CASE d # owner
    <3>1. PICK k : k = lane[d]
      OBVIOUS
    <3>2. LaneInv(k)'
      BY <1>1, <3>1, LaneKnows
    <3>3. Assigned(d) /\ (lane[d].pc = "idle" \/ lane[d].canceled)
      BY <2>2, LanesAre DEF Assigned
    <3> QED BY <1>0, <1>5, <2>2, <3>1, <3>2, <3>3 DEF Assigned, Shaped
  <2> QED BY <2>1, <2>2
<1> QED BY <1>0, <1>5, <1>6, <1>7, PartitionMoves

LEMMA CrashStep ==
    ASSUME LogsInv, NEW c \in LogLanes, CrashProcessor(c)
    PROVE  LogsInv'
<1>0. /\ owner = c /\ Fault /\ lane' = [lane EXCEPT ![c] = IdleLane] /\ LaneOnly /\ UNCHANGED storeVars
  BY DEF CrashProcessor
<1>1. /\ UNCHANGED <<workflow, worker, topic, logOffset, deletion>> /\ owner' = owner /\ owner \in LogLanes
      /\ lane' \in [LogLanes -> LaneRecords]
      /\ \A d \in LogLanes : lane'[d] = IF d = c THEN IdleLane ELSE lane[d]
  BY <1>0, LanesAre, IdleLaneShaped DEF LaneOnly, Shaped
<1>2. ~lane'[owner].canceled
  BY <1>0, <1>1, IdleLaneShaped
<1>3. ASSUME NEW d \in LogLanes PROVE Assigned(d)' /\ LaneInv(lane[d])'
  <2>1. CASE d = c
    <3>1. PICK k : k = IdleLane
      OBVIOUS
    <3>2. LaneInv(k)'
      BY <3>1, BareLane DEF IdleLane
    <3>3. Shaped(k) /\ k.pc = "idle" /\ k.batch = <<>> /\ lane'[d] = k
      BY <1>1, <2>1, <3>1, IdleLaneShaped DEF Shaped
    <3> QED BY <3>2, <3>3, NoBatch DEF Assigned, Shaped
  <2>2. CASE d # c
    <3>1. PICK k : k = lane[d]
      OBVIOUS
    <3>2. LaneInv(k)'
      BY <1>0, <1>1, <3>1, StoresStay, LaneKnows
    <3> QED BY <1>1, <2>2, <3>1, <3>2, LanesAre DEF Assigned, Shaped
  <2> QED BY <2>1, <2>2
<1> QED BY <1>0, <1>1, <1>2, <1>3, PartitionMoves

-----------------------------------------------------------------------------
(* The worker's lines.                                                       *)

LEMMA BoundedIs ==
    ASSUME NEW S, NEW n \in Nat, NEW s
    PROVE  s \in BoundedSeq(S, n) <=> s \in Seq(S) /\ Len(s) <= n
<1>1. ASSUME s \in BoundedSeq(S, n) PROVE s \in Seq(S) /\ Len(s) <= n
  <2>1. PICK m \in 0 .. n : s \in [1 .. m -> S]
    BY <1>1 DEF BoundedSeq, SeqOf
  <2>2. s \in Seq(S)
    BY <2>1, SeqDef
  <2>3. Len(s) \in Nat /\ 1 .. Len(s) = 1 .. m
    BY <2>1, <2>2, LenProperties
  <2>4. Len(s) <= n
    BY <2>1, <2>3
  <2> QED BY <2>2, <2>4
<1>2. ASSUME s \in Seq(S), Len(s) <= n PROVE s \in BoundedSeq(S, n)
  <2>1. Len(s) \in 0 .. n /\ s \in [1 .. Len(s) -> S]
    BY <1>2, LenProperties
  <2> QED BY <2>1 DEF BoundedSeq, SeqOf
<1> QED BY <1>1, <1>2

WorkerRecords == [state : {"RUNNING", "REPLAY", "ENDED"}, line : 0 .. NumLines,
                  records : BoundedSeq(Logs, LogBatchSize), failed : 0 .. Retries - 1]

LEMMA NoRecords == <<>> \in BoundedSeq(Logs, LogBatchSize) /\ <<>> \in Seq(Logs)
<1>1. <<>> \in Seq(Logs) /\ Len(<<>>) = 0
  BY EmptySeq
<1>2. LogBatchSize \in Nat /\ Len(<<>>) <= LogBatchSize
  BY <1>1, JobLogsAssumption
<1> QED BY <1>1, <1>2, BoundedIs

LEMMA WorkersAre ==
    ASSUME LogsInv, NEW w \in Workflows
    PROVE  /\ worker \in [Workflows -> WorkerRecords] /\ worker[w] \in WorkerRecords
           /\ worker[w].records \in Seq(Logs) /\ Len(worker[w].records) <= LogBatchSize
           /\ Len(worker[w].records) \in Nat
<1>1. worker \in [Workflows -> WorkerRecords] /\ worker[w] \in WorkerRecords
  BY DEF LogsInv, WorkersInv, WorkerRecords
<1>2. worker[w].records \in BoundedSeq(Logs, LogBatchSize)
  BY <1>1 DEF WorkerRecords
<1>3. worker[w].records \in Seq(Logs) /\ Len(worker[w].records) <= LogBatchSize
  BY <1>2, BoundedIs, JobLogsAssumption
<1> QED BY <1>1, <1>3, LenProperties

\* Records are appended to the topic, or none are.
LEMMA TopicGrows ==
    ASSUME LogsInv, NEW s \in Seq(Logs), topic' = topic \o s, WorkersInv',
           UNCHANGED <<workflow, logOffset, deletion>>, UNCHANGED storeVars, UNCHANGED processorVars,
           Fault \/ logFaults' = logFaults
    PROVE  LogsInv'
<1>0. /\ topic \in Seq(Logs) /\ logOffset \in 0 .. Len(topic) /\ CountInv /\ CommittedLogsStored
      /\ StoreTypes /\ QueueInv /\ DeletionInv /\ logFaults' \in 0 .. MaxLogFaults
  BY FaultTyped DEF LogsInv, BatchInv
<1>1. StoreTypes' /\ QueueInv' /\ DeletionInv' /\ Kept
  <2>1. StoreTypes'
    BY <1>0 DEF StoreTypes, storeVars
  <2>2. QueueInv'
    BY <1>0 DEF QueueInv, Live, storeVars
  <2>3. DeletionInv'
    BY <1>0 DEF DeletionInv, Deletes, storeVars
  <2>4. Kept
    BY DEF Kept, Live, storeVars
  <2> QED BY <2>1, <2>2, <2>3, <2>4
<1>2. /\ topic' \in Seq(Logs) /\ Len(topic') = Len(topic) + Len(s)
      /\ Len(topic) \in Nat /\ Len(s) \in Nat /\ Len(topic') >= Len(topic)
      /\ \A i \in 1 .. Len(topic) : topic'[i] = topic[i]
  <2>1. Len(topic) \in Nat /\ Len(s) \in Nat
    BY <1>0, LenProperties
  <2>2. /\ topic' \in Seq(Logs) /\ Len(topic') = Len(topic) + Len(s)
        /\ \A i \in 1 .. Len(topic) + Len(s) :
              topic'[i] = IF i <= Len(topic) THEN topic[i] ELSE s[i - Len(topic)]
    BY <1>0, ConcatProperties
  <2> QED BY <2>1, <2>2
<1>3. ToSet(topic) \subseteq ToSet(topic')
  <2>1. ASSUME NEW x \in ToSet(topic) PROVE x \in ToSet(topic')
    <3>1. PICK i \in 1 .. Len(topic) : topic[i] = x
      BY <1>0, BatchTyped
    <3>2. i \in 1 .. Len(topic') /\ topic'[i] = x
      BY <1>2, <3>1
    <3> QED BY <1>2, <3>2, BatchTyped
  <2> QED BY <2>1
<1>4. CommittedLogs' = CommittedLogs
  BY <1>0, <1>2 DEF CommittedLogs
<1>5. CountInv' /\ CommittedLogsStored'
  BY <1>0, <1>3, <1>4 DEF CountInv, CommittedLogsStored, Live, storeVars
<1>6. lane' = lane /\ owner' = owner /\ logOffset' = logOffset
  BY DEF processorVars
<1>7. ASSUME NEW d \in LogLanes PROVE Assigned(d)' /\ LaneInv(lane[d])'
  <2>1. PICK k : k = lane[d]
    OBVIOUS
  <2>2. LaneInv(k)' /\ Assigned(d)
    BY <1>1, <2>1, LaneKnows, LanesAre
  <2>3. k.batch \in Seq(Logs) /\ Len(k.batch) \in Nat
    BY <2>1, LaneFacts, LenProperties
  <2>4. Assigned(d)'
    <3>1. Shaped(k) /\ ToSet(k.batch) \subseteq ToSet(topic')
      BY <1>3, <2>1, <2>2 DEF Assigned
    <3>2. k.pc # "idle" /\ ~k.canceled =>
              /\ owner = d /\ logOffset + Len(k.batch) <= Len(topic')
              /\ \A i \in 1 .. Len(k.batch) : k.batch[i] = topic'[logOffset + i]
      <4>1. SUFFICES ASSUME k.pc # "idle", ~k.canceled
                     PROVE  /\ owner = d /\ logOffset + Len(k.batch) <= Len(topic')
                            /\ \A i \in 1 .. Len(k.batch) : k.batch[i] = topic'[logOffset + i]
        OBVIOUS
      <4>2. /\ owner = d /\ logOffset + Len(k.batch) <= Len(topic)
            /\ \A i \in 1 .. Len(k.batch) : k.batch[i] = topic[logOffset + i]
        BY <2>1, <2>2, <4>1 DEF Assigned
      <4>3. \A i \in 1 .. Len(k.batch) : logOffset + i \in 1 .. Len(topic)
        BY <1>0, <1>2, <2>3, <4>2
      <4>4. logOffset + Len(k.batch) <= Len(topic')
        BY <1>0, <1>2, <2>3, <4>2
      <4> QED BY <1>2, <4>2, <4>3, <4>4
    <3> QED BY <1>6, <2>1, <3>1, <3>2 DEF Assigned, Shaped
  <2> QED BY <1>6, <2>1, <2>2, <2>4
<1>8. BatchInv'
  <2>1. logOffset' \in 0 .. Len(topic')
    BY <1>0, <1>2, <1>6
  <2> QED BY <1>1, <1>2, <1>6, <1>7, <2>1, LanesAre DEF BatchInv, Assigned
<1> QED BY <1>1, <1>5, <1>7, <1>8 DEF LogsInv

LEMMA NothingAppended ==
    ASSUME LogsInv, WorkersInv', UNCHANGED <<workflow, topic, logOffset, deletion>>,
           UNCHANGED storeVars, UNCHANGED processorVars, Fault \/ logFaults' = logFaults
    PROVE  LogsInv'
<1>1. <<>> \in Seq(Logs) /\ topic \in Seq(Logs)
  BY LanesAre, EmptySeq
<1>2. topic' = topic \o <<>>
  BY <1>1, ConcatEmptySeq
<1> QED BY <1>1, <1>2, TopicGrows

\* A step of one worker.
LEMMA WorkerMoves ==
    ASSUME LogsInv, NEW w \in Workflows, NEW e \in WorkerRecords, worker' = [worker EXCEPT ![w] = e],
           UNCHANGED <<workflow, deletion>>
    PROVE  WorkersInv'
BY WorkersAre DEF LogsInv, WorkersInv, WorkerRecords

LEMMA ReceiveStep ==
    ASSUME LogsInv, NEW w \in Workflows, ReceiveLine(w)
    PROVE  LogsInv'
<1>0. PICK e, r, s :
          /\ e = worker[w] /\ s = Append(e.records, <<w, e.line + 1>>)
          /\ e.line < NumLines /\ Len(e.records) < WorkerBatch(w)
          /\ r = [e EXCEPT !.line = e.line + 1, !.records = s] /\ worker' = [worker EXCEPT ![w] = r]
          /\ UNCHANGED <<workflow, topic, logOffset, deletion, logFaults>>
          /\ UNCHANGED storeVars /\ UNCHANGED processorVars
  BY WorkersAre DEF ReceiveLine, WorkerRecords
<1>1. /\ e \in WorkerRecords /\ e.records \in Seq(Logs) /\ Len(e.records) \in Nat
      /\ e.line \in 0 .. NumLines /\ NumLines \in Nat /\ LogBatchSize \in Nat \ {0}
  BY <1>0, WorkersAre, JobLogsAssumption DEF WorkerRecords
<1>2. <<w, e.line + 1>> \in Logs
  BY <1>0, <1>1 DEF Logs
<1>3. s \in BoundedSeq(Logs, LogBatchSize)
  <2>1. s \in Seq(Logs) /\ Len(s) = Len(e.records) + 1
    BY <1>0, <1>1, <1>2, AppendProperties
  <2>2. Len(s) <= LogBatchSize
    BY <1>0, <1>1, <2>1 DEF WorkerBatch
  <2> QED BY <1>1, <2>1, <2>2, BoundedIs
<1>4. e.line + 1 \in 0 .. NumLines
  BY <1>0, <1>1
<1>5. r \in WorkerRecords
  BY <1>0, <1>1, <1>3, <1>4 DEF WorkerRecords
<1> QED BY <1>0, <1>5, WorkerMoves, NothingAppended

LEMMA PublishStep ==
    ASSUME LogsInv, NEW w \in Workflows, publishJobLogBatch(w)
    PROVE  LogsInv'
<1>0. PICK e, r, s :
          /\ e = worker[w] /\ topic' = topic \o s
          /\ s = e.records \/ \E n \in 0 .. Len(e.records) : s = SubSeq(e.records, 1, n)
          /\ \/ e.failed + 1 < Retries /\ r = [e EXCEPT !.failed = e.failed + 1]
             \/ r = [e EXCEPT !.records = <<>>, !.failed = 0]
          /\ worker' = [worker EXCEPT ![w] = r] /\ (Fault \/ logFaults' = logFaults)
          /\ UNCHANGED <<workflow, logOffset, deletion>>
          /\ UNCHANGED storeVars /\ UNCHANGED processorVars
  <2>1. PICK e : e = worker[w]
    OBVIOUS
  <2>2. PICK s : /\ topic' = topic \o s
                 /\ s = e.records \/ \E n \in 0 .. Len(e.records) : s = SubSeq(e.records, 1, n)
    BY <2>1 DEF publishJobLogBatch
  <2>3. /\ \/ /\ e.failed + 1 < Retries
              /\ worker' = [worker EXCEPT ![w].failed = e.failed + 1]
           \/ worker' = [worker EXCEPT ![w].records = <<>>, ![w].failed = 0]
        /\ Fault \/ logFaults' = logFaults
        /\ UNCHANGED <<workflow, logOffset, deletion>> /\ UNCHANGED storeVars /\ UNCHANGED processorVars
    BY <2>1 DEF publishJobLogBatch
  <2>4. worker \in [Workflows -> WorkerRecords] /\ e \in WorkerRecords
    BY <2>1, WorkersAre
  <2>5. \E r : /\ \/ e.failed + 1 < Retries /\ r = [e EXCEPT !.failed = e.failed + 1]
                  \/ r = [e EXCEPT !.records = <<>>, !.failed = 0]
               /\ worker' = [worker EXCEPT ![w] = r]
    BY <2>1, <2>3, <2>4 DEF WorkerRecords
  <2> QED BY <2>1, <2>2, <2>3, <2>5
<1>1. /\ e \in WorkerRecords /\ e.records \in Seq(Logs) /\ Len(e.records) \in Nat
      /\ e.failed \in 0 .. Retries - 1 /\ Retries \in Nat \ {0} /\ LogBatchSize \in Nat \ {0}
  BY <1>0, WorkersAre, JobLogsAssumption DEF WorkerRecords
<1>2. s \in Seq(Logs)
  <2>1. ASSUME NEW n \in 0 .. Len(e.records), s = SubSeq(e.records, 1, n) PROVE s \in Seq(Logs)
    <3>1. n \in Int /\ \A i \in 1 .. n : e.records[i] \in Logs
      BY <1>1, ElementOfSeq
    <3> QED BY <2>1, <3>1, SubSeqProperties
  <2> QED BY <1>0, <1>1, <2>1
<1>3. r \in WorkerRecords
  <2>1. CASE e.failed + 1 < Retries /\ r = [e EXCEPT !.failed = e.failed + 1]
    <3>1. e.failed + 1 \in 0 .. Retries - 1
      BY <1>1, <2>1
    <3> QED BY <1>1, <2>1, <3>1 DEF WorkerRecords
  <2>2. CASE r = [e EXCEPT !.records = <<>>, !.failed = 0]
    <3>1. <<>> \in BoundedSeq(Logs, LogBatchSize)
      BY NoRecords
    <3>2. 0 \in 0 .. Retries - 1
      BY <1>1
    <3> QED BY <1>1, <2>2, <3>1, <3>2 DEF WorkerRecords
  <2> QED BY <1>0, <2>1, <2>2
<1> QED BY <1>0, <1>2, <1>3, WorkerMoves, TopicGrows

LEMMA EndStep ==
    ASSUME LogsInv, NEW w \in Workflows, EndLogs(w)
    PROVE  LogsInv'
<1>0. PICK e, r :
          /\ e = worker[w] /\ r = [e EXCEPT !.state = "ENDED"] /\ worker' = [worker EXCEPT ![w] = r]
          /\ UNCHANGED <<workflow, topic, logOffset, deletion, logFaults>>
          /\ UNCHANGED storeVars /\ UNCHANGED processorVars
  BY WorkersAre DEF EndLogs, WorkerRecords
<1>1. r \in WorkerRecords
  BY <1>0, WorkersAre DEF WorkerRecords
<1> QED BY <1>0, <1>1, WorkerMoves, NothingAppended

LEMMA ReplayStep ==
    ASSUME LogsInv, NEW w \in Workflows, replayContainerLogs(w)
    PROVE  LogsInv'
<1>0. PICK r :
          /\ r = [state |-> "REPLAY", line |-> 0, records |-> <<>>, failed |-> 0]
          /\ worker' = [worker EXCEPT ![w] = r] /\ Fault
          /\ UNCHANGED <<workflow, topic, logOffset, deletion>>
          /\ UNCHANGED storeVars /\ UNCHANGED processorVars
  BY DEF replayContainerLogs
<1>1. <<>> \in BoundedSeq(Logs, LogBatchSize)
  BY NoRecords
<1>2. 0 \in 0 .. NumLines /\ 0 \in 0 .. Retries - 1
  BY JobLogsAssumption
<1>3. r \in WorkerRecords
  BY <1>0, <1>1, <1>2 DEF WorkerRecords
<1> QED BY <1>0, <1>3, WorkerMoves, NothingAppended

-----------------------------------------------------------------------------
(* Meilisearch, and the deletion of a workflow.                              *)

LEMMA StoresMove ==
    ASSUME LogsInv, StoreTypes', QueueInv', CountInv', WorkersInv', DeletionInv', Kept,
           UNCHANGED <<topic, logOffset, owner, lane>>
    PROVE  LogsInv'
<1>1. BatchInv'
  BY DEF LogsInv, BatchInv, Shaped
<1>2. CommittedLogsStored'
  <2>1. CommittedLogs' = CommittedLogs /\ CommittedLogs \subseteq Logs
    BY BatchTyped DEF CommittedLogs, LogsInv, BatchInv
  <2> QED BY <2>1 DEF LogsInv, CommittedLogsStored, Kept, Live
<1>3. ASSUME NEW d \in LogLanes PROVE LaneInv(lane[d])'
  <2>1. PICK k : k = lane[d]
    OBVIOUS
  <2>2. LaneInv(k)'
    BY <2>1, LaneKnows
  <2> QED BY <2>1, <2>2
<1> QED BY <1>1, <1>2, <1>3 DEF LogsInv

\* The next task is the first one that is enqueued.
LEMMA NextIs ==
    ASSUME tasks \in Seq(SearchTasks), NEW n \in 0 .. Len(tasks),
           \A i \in DOMAIN tasks : tasks[i].status = "enqueued" <=> i > n,
           \E i \in DOMAIN tasks : tasks[i].status = "enqueued"
    PROVE  NextTask = n + 1 /\ n + 1 \in DOMAIN tasks /\ tasks[n + 1].status = "enqueued"
<1> DEFINE P(i) == /\ tasks[i].status = "enqueued"
                   /\ \A j \in 1 .. i - 1 : tasks[j].status # "enqueued"
<1>1. DOMAIN tasks = 1 .. Len(tasks) /\ Len(tasks) \in Nat
  BY LenProperties
<1>2. n + 1 \in DOMAIN tasks /\ tasks[n + 1].status = "enqueued"
  BY <1>1
<1>3. P(n + 1)
  <2>1. \A j \in 1 .. n + 1 - 1 : j \in DOMAIN tasks /\ ~(j > n)
    BY <1>1
  <2> QED BY <1>2, <2>1
<1>4. NextTask \in DOMAIN tasks /\ P(NextTask)
  <2>1. \E i \in DOMAIN tasks : P(i)
    BY <1>2, <1>3
  <2>2. NextTask = CHOOSE i \in DOMAIN tasks : P(i)
    BY DEF NextTask
  <2> HIDE DEF P
  <2> QED BY <2>1, <2>2
<1>5. NextTask \in 1 .. Len(tasks) /\ NextTask > n
  BY <1>1, <1>4
<1>6. ~(NextTask > n + 1)
  <2>1. SUFFICES ASSUME NextTask > n + 1 PROVE FALSE
    OBVIOUS
  <2>2. n + 1 \in 1 .. NextTask - 1
    BY <1>5, <2>1
  <2> QED BY <1>2, <1>4, <2>2
<1> QED BY <1>2, <1>5, <1>6

LEMMA TaskEnds ==
    ASSUME tasks \in Seq(SearchTasks), NEW i \in DOMAIN tasks, NEW s \in {"succeeded", "failed"},
           tasks' = [tasks EXCEPT ![i].status = s]
    PROVE  /\ tasks' \in Seq(SearchTasks) /\ Len(tasks') = Len(tasks) /\ DOMAIN tasks' = DOMAIN tasks
           /\ DOMAIN tasks = 1 .. Len(tasks) /\ Len(tasks) \in Nat
           /\ \A k \in DOMAIN tasks :
                 /\ tasks'[k].op = tasks[k].op /\ tasks'[k].logs = tasks[k].logs
                 /\ tasks'[k].status = IF k = i THEN s ELSE tasks[k].status
<1>1. DOMAIN tasks = 1 .. Len(tasks) /\ Len(tasks) \in Nat
  BY LenProperties
<1>2. PICK t : t = [tasks[i] EXCEPT !.status = s]
  OBVIOUS
<1>3. tasks[i] \in SearchTasks
  BY <1>1, ElementOfSeq
<1>4. t \in SearchTasks /\ t.op = tasks[i].op /\ t.logs = tasks[i].logs /\ t.status = s
  BY <1>2, <1>3 DEF SearchTasks
<1>5. tasks' = [tasks EXCEPT ![i] = t]
  BY <1>2
<1>6. /\ tasks' \in Seq(SearchTasks) /\ Len(tasks') = Len(tasks)
      /\ \A k \in 1 .. Len(tasks) : tasks'[k] = IF k = i THEN t ELSE tasks[k]
  <2>1. i \in 1 .. Len(tasks)
    BY <1>1
  <2>2. /\ [tasks EXCEPT ![i] = t] \in Seq(SearchTasks)
        /\ Len([tasks EXCEPT ![i] = t]) = Len(tasks)
        /\ \A k \in 1 .. Len(tasks) : [tasks EXCEPT ![i] = t][k] = IF k = i THEN t ELSE tasks[k]
    BY <1>4, <2>1, ExceptSeq
  <2> QED BY <1>5, <2>2
<1>7. DOMAIN tasks' = DOMAIN tasks
  BY <1>1, <1>6, LenProperties
<1> QED BY <1>1, <1>4, <1>6, <1>7

\* Meilisearch takes the task i, the first one that is enqueued: it ends with s.
Takes(i, t, s) ==
    /\ i \in 1 .. Len(tasks) /\ t = tasks[i] /\ t.status = "enqueued" /\ s \in {"succeeded", "failed"}
    /\ \A k \in DOMAIN tasks : tasks[k].status = "enqueued" <=> k >= i
    /\ tasks' \in Seq(SearchTasks) /\ Len(tasks') = Len(tasks) /\ DOMAIN tasks' = DOMAIN tasks
    /\ DOMAIN tasks = 1 .. Len(tasks) /\ Len(tasks) \in Nat
    /\ \A k \in DOMAIN tasks :
          /\ tasks'[k].op = tasks[k].op /\ tasks'[k].logs = tasks[k].logs
          /\ tasks'[k].status = IF k = i THEN s ELSE tasks[k].status
    /\ t.op \in {"add", "delete"} /\ t.logs \in SUBSET Logs
    /\ t.op = "delete" => \A l \in t.logs : ~Live(l)
    /\ t.op = "add" => t.logs \subseteq Retained
    /\ s = "succeeded" /\ t.op = "add" => search' = search \cup t.logs
    /\ s = "succeeded" /\ t.op = "delete" => search' = search \ t.logs
    /\ s = "failed" => search' = search

LEMMA SearchTakes ==
    ASSUME LogsInv, MeilisearchTask
    PROVE  \E i, t, s : Takes(i, t, s)
<1>0. /\ tasks \in Seq(SearchTasks) /\ StoreTypes /\ QueueInv /\ CountInv /\ WorkersInv /\ DeletionInv
      /\ Fault \/ logFaults' = logFaults
      /\ UNCHANGED <<workflow, worker, topic, logOffset, clickhouse, processed, logsCount, deletion>>
      /\ UNCHANGED <<owner, lane>>
  BY DEF LogsInv, BatchInv, StoreTypes, MeilisearchTask, processorVars
<1>1. PICK n \in 0 .. Len(tasks) : \A i \in DOMAIN tasks : tasks[i].status = "enqueued" <=> i > n
  BY <1>0 DEF QueueInv
<1>2. NextTask = n + 1 /\ n + 1 \in DOMAIN tasks /\ tasks[n + 1].status = "enqueued"
  BY <1>0, <1>1, NextIs DEF MeilisearchTask
<1>3. PICK i, t, s, applied :
          /\ i = n + 1 /\ t = tasks[i] /\ s \in {"succeeded", "failed"}
          /\ tasks' = [tasks EXCEPT ![i].status = s]
          /\ search' = IF s = "succeeded" THEN applied ELSE search
          /\ t.op = "add" => applied = search \cup t.logs
          /\ t.op = "delete" => applied = search \ t.logs
  <2>1. PICK i, t, applied :
            /\ i = n + 1 /\ t = tasks[i]
            /\ applied = CASE t.op = "add" -> search \cup t.logs
                           [] t.op = "delete" -> search \ t.logs
    OBVIOUS
  <2>2. \/ tasks' = [tasks EXCEPT ![i].status = "succeeded"] /\ search' = applied
        \/ tasks' = [tasks EXCEPT ![i].status = "failed"] /\ search' = search
    BY <1>2, <2>1 DEF MeilisearchTask
  <2>3. /\ t.op = "add" => applied = search \cup t.logs
        /\ t.op = "delete" => applied = search \ t.logs
    BY <2>1
  <2>4. i = n + 1 /\ t = tasks[i]
    BY <2>1
  <2>5. \E s : /\ s \in {"succeeded", "failed"}
              /\ tasks' = [tasks EXCEPT ![i].status = s]
              /\ search' = IF s = "succeeded" THEN applied ELSE search
    BY <2>2
  <2> QED BY <2>3, <2>4, <2>5
<1>4. /\ tasks' \in Seq(SearchTasks) /\ Len(tasks') = Len(tasks) /\ DOMAIN tasks' = DOMAIN tasks
      /\ DOMAIN tasks = 1 .. Len(tasks) /\ Len(tasks) \in Nat
      /\ \A k \in DOMAIN tasks :
            /\ tasks'[k].op = tasks[k].op /\ tasks'[k].logs = tasks[k].logs
            /\ tasks'[k].status = IF k = i THEN s ELSE tasks[k].status
  <2>1. tasks \in Seq(SearchTasks)
    BY <1>0
  <2>2. i \in DOMAIN tasks /\ s \in {"succeeded", "failed"} /\ tasks' = [tasks EXCEPT ![i].status = s]
    BY <1>2, <1>3
  <2> QED BY <2>1, <2>2, TaskEnds
<1>5. /\ t.op \in {"add", "delete"} /\ t.logs \in SUBSET Logs
      /\ t.op = "delete" => \A l \in t.logs : ~Live(l)
      /\ t.op = "add" => t.logs \subseteq Retained
  <2>1. t \in SearchTasks
    BY <1>0, <1>2, <1>3, <1>4, ElementOfSeq
  <2>2. t.op \in {"add", "delete"} /\ t.logs \in SUBSET Logs
    BY <2>1 DEF SearchTasks
  <2> QED BY <1>0, <1>2, <1>3, <2>2 DEF QueueInv
<1>6. /\ s = "succeeded" /\ t.op = "add" => search' = search \cup t.logs
      /\ s = "succeeded" /\ t.op = "delete" => search' = search \ t.logs
  BY <1>3, <1>5
<1>7. s = "failed" => search' = search
  BY <1>3
<1>8. \A k \in DOMAIN tasks : tasks[k].status = "enqueued" <=> k >= i
  BY <1>1, <1>3, <1>4
<1>9. i \in 1 .. Len(tasks) /\ t = tasks[i] /\ t.status = "enqueued" /\ s \in {"succeeded", "failed"}
  BY <1>2, <1>3, <1>4
<1>10. Takes(i, t, s)
  BY <1>4, <1>5, <1>6, <1>7, <1>8, <1>9 DEF Takes
<1> QED BY <1>10

LEMMA SearchStep ==
    ASSUME LogsInv, MeilisearchTask
    PROVE  LogsInv'
<1>0. /\ tasks \in Seq(SearchTasks) /\ StoreTypes /\ QueueInv /\ CountInv /\ WorkersInv /\ DeletionInv
      /\ Fault \/ logFaults' = logFaults
      /\ UNCHANGED <<workflow, worker, topic, logOffset, clickhouse, processed, logsCount, deletion>>
      /\ UNCHANGED <<owner, lane>>
  BY DEF LogsInv, BatchInv, StoreTypes, MeilisearchTask, processorVars
<1>1. PICK i, t, s : Takes(i, t, s)
  BY SearchTakes
<1>7. search' \subseteq Retained /\ \A l \in search : Live(l) => l \in search'
  BY <1>0, <1>1 DEF StoreTypes, Takes
<1>8. StoreTypes'
  BY <1>0, <1>1, <1>7, FaultTyped DEF StoreTypes, Takes
<1>9. QueueInv'
  <2>1. \E m \in 0 .. Len(tasks') : \A k \in DOMAIN tasks' : tasks'[k].status = "enqueued" <=> k > m
    <3>1. i \in 0 .. Len(tasks')
      BY <1>1 DEF Takes
    <3>2. \A k \in DOMAIN tasks' : tasks'[k].status = "enqueued" <=> k > i
      <4>1. ASSUME NEW k \in DOMAIN tasks PROVE tasks'[k].status = "enqueued" <=> k > i
        <5>1. CASE k = i
          BY <1>1, <4>1, <5>1 DEF Takes
        <5>2. CASE k # i
          BY <1>1, <4>1, <5>2 DEF Takes
        <5> QED BY <5>1, <5>2
      <4> QED BY <1>1, <4>1 DEF Takes
    <3> QED BY <3>1, <3>2
  <2>2. ASSUME NEW k \in DOMAIN tasks'
        PROVE  /\ tasks'[k].op = "delete" => \A l \in tasks'[k].logs : ~Live(l)
               /\ tasks'[k].op = "add" => tasks'[k].logs \subseteq Retained
               /\ tasks'[k].op = "add" /\ tasks'[k].status = "succeeded" =>
                     \A l \in tasks'[k].logs : Live(l) => l \in search'
    <3>1. CASE k = i
      BY <1>1, <3>1 DEF Takes
    <3>2. CASE k # i
      BY <1>0, <1>1, <1>7, <3>2 DEF QueueInv, Takes
    <3> QED BY <3>1, <3>2
  <2> QED BY <1>0, <2>1, <2>2 DEF QueueInv, Live
<1>10. CountInv' /\ WorkersInv' /\ DeletionInv' /\ Kept
  <2>1. CountInv' /\ WorkersInv'
    BY <1>0, CountStays DEF WorkersInv
  <2>2. Kept
    BY <1>0, <1>1, <1>7 DEF Kept, Live, Takes
  <2>3. DeletionInv'
    <3>1. \A k, logs : Deletes(k, logs) => Deletes(k, logs)'
      BY <1>1 DEF Deletes, Takes
    <3>2. DeletionInv /\ UNCHANGED <<workflow, deletion>>
      BY <1>0
    <3>3. \A w \in Workflows : LogsOf(w)' = LogsOf(w)
      BY DEF LogsOf
    <3> QED BY <3>1, <3>2, <3>3 DEF DeletionInv
  <2> QED BY <2>1, <2>2, <2>3
<1> QED BY <1>0, <1>8, <1>9, <1>10, StoresMove

LEMMA DeleteStep ==
    ASSUME LogsInv, NEW w \in Workflows, DeleteWorkflow(w)
    PROVE  LogsInv'
<1>0. /\ StoreTypes /\ QueueInv /\ CountInv /\ WorkersInv /\ DeletionInv
      /\ workflow' = [workflow EXCEPT ![w] = "DELETED"]
      /\ deletion' = [deletion EXCEPT ![w].pc = "clickhouse"]
      /\ UNCHANGED <<worker, topic, logOffset, logFaults>>
      /\ UNCHANGED storeVars /\ UNCHANGED <<owner, lane>>
  BY DEF LogsInv, BatchInv, DeleteWorkflow, processorVars
<1>1. \A l \in Logs : Live(l)' => Live(l)
  BY <1>0, LogsTyped DEF Live, WorkersInv
<1>2. StoreTypes' /\ Kept
  BY <1>0, <1>1 DEF StoreTypes, Kept, storeVars
<1>3. QueueInv'
  <2>1. \A i \in DOMAIN tasks : tasks[i].logs \subseteq Logs
    <3>1. tasks \in Seq(SearchTasks)
      BY <1>0 DEF StoreTypes
    <3>2. \A i \in DOMAIN tasks : tasks[i] \in SearchTasks
      BY <3>1, ElementOfSeq, LenProperties
    <3> QED BY <3>2 DEF SearchTasks
  <2> QED BY <1>0, <1>1, <2>1 DEF QueueInv, storeVars
<1>4. CountInv'
  <2>1. CommittedLogs' = CommittedLogs /\ CommittedLogs \subseteq Logs
    BY <1>0, LanesAre, BatchTyped DEF CommittedLogs
  <2> QED BY <1>0, <1>1, <2>1 DEF CountInv, storeVars
<1>5. WorkersInv'
  BY <1>0 DEF WorkersInv, DeletionStates
<1>6. DeletionInv'
  <2>1. deletion \in [Workflows -> DeletionStates] /\ workflow \in [Workflows -> {"LIVE", "DELETED"}]
    BY <1>0 DEF WorkersInv
  <2>2. ASSUME NEW x \in Workflows
        PROVE  /\ deletion'[x].pc # "none" => workflow'[x] = "DELETED"
               /\ deletion'[x].pc = "wait" => Deletes(deletion'[x].task, LogsOf(x))
    BY <1>0, <2>1 DEF DeletionInv, DeletionStates
  <2> QED BY <1>0, <2>2 DEF DeletionInv, Deletes, storeVars
<1> QED BY <1>0, <1>2, <1>3, <1>4, <1>5, <1>6, StoresMove

\* A step of the handling of a DELETE event.
LEMMA DeletionMoves ==
    ASSUME LogsInv, NEW w \in Workflows, NEW e \in DeletionStates, deletion' = [deletion EXCEPT ![w] = e],
           workflow[w] = "DELETED", e.pc = "wait" => Deletes(e.task, LogsOf(w))',
           DeletionOnly, StoreTypes', QueueInv', CountInv', Kept
    PROVE  LogsInv'
<1>1. WorkersInv /\ DeletionInv /\ deletion \in [Workflows -> DeletionStates]
  BY DEF LogsInv, WorkersInv
<1>2. WorkersInv'
  BY <1>1 DEF WorkersInv, DeletionOnly
<1>3. ASSUME NEW x \in Workflows
      PROVE  /\ deletion'[x].pc # "none" => workflow'[x] = "DELETED"
             /\ deletion'[x].pc = "wait" => Deletes(deletion[x].task, LogsOf(x))'
  <2>1. CASE x = w
    BY <1>1, <2>1 DEF DeletionOnly, Deletes
  <2>2. CASE x # w
    <3>1. deletion'[x] = deletion[x] /\ workflow' = workflow
      BY <1>1, <2>2 DEF DeletionOnly
    <3> QED BY <1>1, <3>1 DEF DeletionInv, Deletes, Kept
  <2> QED BY <2>1, <2>2
<1>4. DeletionInv'
  BY <1>3 DEF DeletionInv
<1> QED BY <1>2, <1>4, StoresMove DEF DeletionOnly, processorVars

LEMMA DeleteRowsStep ==
    ASSUME LogsInv, NEW w \in Workflows, deleteWorkflowLogsFromClickHouse(w)
    PROVE  LogsInv'
<1>0. /\ deletion[w].pc = "clickhouse" /\ DeletionOnly /\ UNCHANGED <<search, tasks>>
      /\ Fault \/ logFaults' = logFaults
      /\ clickhouse' \in {clickhouse, clickhouse \ LogsOf(w)}
      /\ deletion' = [deletion EXCEPT ![w].pc = "search"] \/ deletion' = deletion
  BY DEF deleteWorkflowLogsFromClickHouse
<1>1. /\ StoreTypes /\ QueueInv /\ CountInv /\ WorkersInv /\ DeletionInv /\ workflow[w] = "DELETED"
      /\ deletion \in [Workflows -> DeletionStates] /\ deletion[w] \in DeletionStates
  BY <1>0 DEF LogsInv, BatchInv, DeletionInv, WorkersInv
<1>2. \A l \in LogsOf(w) : ~Live(l)
  BY <1>1 DEF LogsOf, Live
<1>3. StoreTypes' /\ QueueInv' /\ CountInv' /\ Kept
  <2>1. clickhouse' \in SUBSET Retained
    BY <1>0, <1>1 DEF StoreTypes
  <2>2. \A l \in Logs : Live(l) /\ l \in clickhouse => l \in clickhouse'
    BY <1>0, <1>2
  <2> QED BY <1>0, <1>1, <2>1, <2>2, RowsChange DEF DeletionOnly
<1>4. PICK e : /\ e \in DeletionStates /\ e.pc # "wait" /\ deletion' = [deletion EXCEPT ![w] = e]
  <2>1. CASE deletion' = deletion
    BY <1>0, <1>1, <2>1
  <2>2. CASE deletion' = [deletion EXCEPT ![w].pc = "search"]
    <3>1. PICK e : e = [deletion[w] EXCEPT !.pc = "search"]
      OBVIOUS
    <3>2. e \in DeletionStates /\ e.pc = "search"
      BY <1>1, <3>1 DEF DeletionStates
    <3>3. deletion' = [deletion EXCEPT ![w] = e]
      BY <2>2, <3>1
    <3> QED BY <3>2, <3>3
  <2> QED BY <1>0, <2>1, <2>2
<1> QED BY <1>0, <1>1, <1>3, <1>4, DeletionMoves

LEMMA DeleteDocumentsStep ==
    ASSUME LogsInv, NEW w \in Workflows, deleteWorkflowLogsFromMeiliSearch(w)
    PROVE  LogsInv'
<1>0. /\ deletion[w].pc = "search" /\ DeletionOnly /\ UNCHANGED <<clickhouse, search>>
      /\ Fault \/ logFaults' = logFaults
      /\ tasks' \in {tasks, Enqueue("delete", LogsOf(w))}
      /\ \/ /\ tasks' = Enqueue("delete", LogsOf(w))
            /\ deletion' = [deletion EXCEPT ![w] = [pc |-> "wait", task |-> Len(tasks')]]
         \/ deletion' = [deletion EXCEPT ![w].pc = "clickhouse"]
  BY DEF deleteWorkflowLogsFromMeiliSearch
<1>1. /\ StoreTypes /\ QueueInv /\ CountInv /\ WorkersInv /\ DeletionInv /\ workflow[w] = "DELETED"
      /\ deletion \in [Workflows -> DeletionStates] /\ deletion[w] \in DeletionStates
      /\ tasks \in Seq(SearchTasks) /\ LogsOf(w) \in SUBSET Logs
  BY <1>0, LogsTyped DEF LogsInv, BatchInv, DeletionInv, WorkersInv, StoreTypes
<1>2. \A l \in LogsOf(w) : ~Live(l)
  BY <1>1 DEF LogsOf, Live
<1>3. StoreTypes' /\ QueueInv' /\ CountInv' /\ Kept
  BY <1>0, <1>1, <1>2, TasksChange DEF DeletionOnly
<1>4. PICK e : /\ e \in DeletionStates /\ deletion' = [deletion EXCEPT ![w] = e]
               /\ e.pc = "wait" => Deletes(e.task, LogsOf(w))'
  <2>1. CASE deletion' = [deletion EXCEPT ![w].pc = "clickhouse"]
    <3>1. PICK e : e = [deletion[w] EXCEPT !.pc = "clickhouse"]
      OBVIOUS
    <3>2. e \in DeletionStates /\ e.pc = "clickhouse"
      BY <1>1, <3>1 DEF DeletionStates
    <3>3. deletion' = [deletion EXCEPT ![w] = e]
      BY <2>1, <3>1
    <3> QED BY <3>2, <3>3
  <2>2. CASE /\ tasks' = Enqueue("delete", LogsOf(w))
             /\ deletion' = [deletion EXCEPT ![w] = [pc |-> "wait", task |-> Len(tasks')]]
    <3>1. PICK e : e = [pc |-> "wait", task |-> Len(tasks')]
      OBVIOUS
    <3>2. /\ DOMAIN tasks' = 1 .. Len(tasks') /\ Len(tasks') \in Nat /\ Len(tasks') \in DOMAIN tasks'
          /\ tasks'[Len(tasks')] = [op |-> "delete", logs |-> LogsOf(w), status |-> "enqueued"]
      BY <1>0, <1>1, <1>2, <2>2, QueueGrows DEF DeletionOnly
    <3>3. e \in DeletionStates /\ e.pc = "wait" /\ e.task = Len(tasks')
      BY <3>1, <3>2 DEF DeletionStates
    <3>4. Deletes(e.task, LogsOf(w))'
      BY <3>2, <3>3 DEF Deletes, LogsOf
    <3> QED BY <2>2, <3>1, <3>3, <3>4
  <2> QED BY <1>0, <2>1, <2>2
<1> QED BY <1>0, <1>1, <1>3, <1>4, DeletionMoves

LEMMA DeleteWaitStep ==
    ASSUME LogsInv, NEW w \in Workflows, waitForMeiliSearchDeleteTask(w)
    PROVE  LogsInv'
<1>0. PICK e :
          /\ deletion[w].pc = "wait" /\ DeletionOnly /\ UNCHANGED <<clickhouse, search, tasks>>
          /\ Fault \/ logFaults' = logFaults
          /\ e.pc \in {"done", "clickhouse"} /\ e \in DeletionStates
          /\ deletion' = [deletion EXCEPT ![w] = e]
  <2>1. PICK s \in {"done", "clickhouse"} : deletion' = [deletion EXCEPT ![w] = [pc |-> s, task |-> 0]]
    BY DEF waitForMeiliSearchDeleteTask
  <2>2. PICK e : e = [pc |-> s, task |-> 0]
    OBVIOUS
  <2>3. e.pc = s /\ e \in DeletionStates
    BY <2>2 DEF DeletionStates
  <2>4. /\ deletion[w].pc = "wait" /\ DeletionOnly /\ UNCHANGED <<clickhouse, search, tasks>>
        /\ Fault \/ logFaults' = logFaults
    BY DEF waitForMeiliSearchDeleteTask
  <2> QED BY <2>1, <2>2, <2>3, <2>4
<1>1. /\ StoreTypes /\ QueueInv /\ CountInv /\ DeletionInv /\ workflow[w] = "DELETED"
  BY <1>0 DEF LogsInv, BatchInv, DeletionInv
<1>2. StoreTypes' /\ QueueInv' /\ CountInv' /\ Kept
  <2>1. clickhouse \in SUBSET Retained
    BY <1>1 DEF StoreTypes
  <2> QED BY <1>0, <1>1, <2>1, RowsChange DEF DeletionOnly
<1> QED BY <1>0, <1>1, <1>2, DeletionMoves

-----------------------------------------------------------------------------
LEMMA LogsInitially == LogsInit => LogsInv
<1> SUFFICES ASSUME LogsInit PROVE LogsInv
  OBVIOUS
<1>1. /\ topic = <<>> /\ topic \in Seq(Logs) /\ Len(topic) = 0 /\ ToSet(topic) = {}
      /\ tasks = <<>> /\ tasks \in Seq(SearchTasks) /\ Len(tasks) = 0 /\ DOMAIN tasks = {}
  <2>1. topic = <<>> /\ tasks = <<>>
    BY DEF LogsInit
  <2>2. topic \in Seq(Logs) /\ tasks \in Seq(SearchTasks) /\ Len(topic) = 0 /\ Len(tasks) = 0
    BY <2>1, EmptySeq
  <2> QED BY <2>1, <2>2, NoBatch
<1>2. /\ logOffset = 0 /\ owner \in LogLanes /\ lane = [c \in LogLanes |-> IdleLane]
      /\ clickhouse = {} /\ search = {} /\ processed = {} /\ logFaults = 0
      /\ logsCount = [w \in Workflows |-> 0] /\ workflow = [w \in Workflows |-> "LIVE"]
      /\ deletion = [w \in Workflows |-> [pc |-> "none", task |-> 0]]
  BY DEF LogsInit
<1>3. StoreTypes
  BY <1>1, <1>2, JobLogsAssumption DEF StoreTypes
<1>4. BatchInv
  <2>1. \A c \in LogLanes : lane[c] = IdleLane
    BY <1>2
  <2>2. Shaped(IdleLane) /\ IdleLane \in LaneRecords /\ IdleLane.batch = <<>> /\ IdleLane.pc = "idle"
        /\ ~IdleLane.canceled
    BY IdleLaneShaped DEF Shaped
  <2>3. lane \in [LogLanes -> LaneRecords]
    BY <1>2, <2>2
  <2> QED BY <1>1, <1>2, <1>3, <2>1, <2>2, <2>3, NoBatch DEF BatchInv
<1>5. WorkersInv
  <2>1. <<>> \in BoundedSeq(Logs, LogBatchSize) /\ 0 \in 0 .. NumLines /\ 0 \in 0 .. Retries - 1
    BY NoRecords, JobLogsAssumption
  <2>2. worker \in [Workflows -> WorkerRecords]
    BY <2>1 DEF LogsInit, WorkerRecords
  <2>3. deletion \in [Workflows -> DeletionStates]
    BY <1>2 DEF DeletionStates
  <2> QED BY <1>2, <2>2, <2>3 DEF WorkersInv, WorkerRecords
<1>6. QueueInv
  BY <1>1 DEF QueueInv
<1>7. DeletionInv
  BY <1>2 DEF DeletionInv
<1>8. CommittedLogs = {}
  BY <1>2 DEF CommittedLogs
<1>9. CountInv /\ CommittedLogsStored
  <2>1. ASSUME NEW w \in Workflows PROVE logsCount[w] = Cardinality({k \in processed : k[1] = w})
    <3>1. {k \in processed : k[1] = w} = {}
      BY <1>2
    <3> QED BY <1>2, <3>1, FS_EmptySet
  <2> QED BY <1>2, <1>8, <2>1 DEF CountInv, CommittedLogsStored
<1>10. ASSUME NEW c \in LogLanes PROVE LaneInv(lane[c])
  BY <1>2 DEF LaneInv, IdleLane
<1> QED BY <1>4, <1>5, <1>6, <1>7, <1>9, <1>10 DEF LogsInv

LEMMA LogsInvStep ==
    ASSUME LogsInv, [LogsNext]_logVars
    PROVE  LogsInv'
<1>1. CASE UNCHANGED logVars
  <2>1. /\ UNCHANGED <<workflow, worker, topic, logOffset, deletion>> /\ UNCHANGED storeVars
        /\ UNCHANGED processorVars /\ logFaults' = logFaults
    BY <1>1 DEF logVars, storeVars, processorVars
  <2>2. WorkersInv'
    BY <2>1 DEF LogsInv, WorkersInv
  <2> QED BY <2>1, <2>2, NothingAppended
<1>2. CASE LogsNext
  <2>1. ASSUME NEW w \in Workflows,
               WorkerStep(w) \/ replayContainerLogs(w) \/ DeleteWorkflow(w) \/ DeletionStep(w)
        PROVE  LogsInv'
    BY <2>1, ReceiveStep, PublishStep, EndStep, ReplayStep, DeleteStep, DeleteRowsStep,
       DeleteDocumentsStep, DeleteWaitStep DEF WorkerStep, DeletionStep
  <2>2. ASSUME NEW c \in LogLanes, LaneStep(c) \/ Rebalance(c) \/ CrashProcessor(c)
        PROVE  LogsInv'
    BY <2>2, PollStep, FilterStep, CleanRowsStep, CleanDocumentsStep, InsertRowsStep, AddDocumentsStep,
       WaitStep, AnalyticsStep, CommitBatchStep, AbandonStep, RebalanceStep, CrashStep DEF LaneStep
  <2> QED BY <1>2, <2>1, <2>2, SearchStep DEF LogsNext
<1> QED BY <1>1, <1>2

-----------------------------------------------------------------------------
(* The logs of a deleted workflow stay settled.                              *)

\* A step brings l into no store: not at once, and not by a task.
Quiet(l) ==
    /\ l \in clickhouse' => l \in clickhouse
    /\ Coming(l)' => Coming(l)
    /\ \A k : DeletesAfter(l, k) => DeletesAfter(l, k)'

\* What is settled stays settled.
Holds(l) ==
    /\ RowSettled(l) => RowSettled(l)'
    /\ Settled(l) => Settled(l)'
    /\ \A k : DeletesAfter(l, k) => DeletesAfter(l, k)'
    /\ ~Live(l)' => ~Live(l) \/ Settled(l)'

LEMMA QuietHolds ==
    ASSUME NEW l, Quiet(l), workflow'[l[1]] = workflow[l[1]], deletion'[l[1]] = deletion[l[1]]
    PROVE  Holds(l)
<1>1. RowSettled(l) => RowSettled(l)'
  BY DEF RowSettled, Quiet
<1>2. DocumentSettled(l) => DocumentSettled(l)'
  BY DEF DocumentSettled, Quiet
<1>3. \A k : DeletesAfter(l, k) => DeletesAfter(l, k)'
  BY DEF Quiet
<1>4. Live(l)' <=> Live(l)
  BY DEF Live
<1> QED BY <1>1, <1>2, <1>3, <1>4 DEF Holds, Settled

LEMMA TasksStay ==
    ASSUME NEW l, UNCHANGED <<tasks, search>>, l \in clickhouse' => l \in clickhouse
    PROVE  Quiet(l)
<1>1. Coming(l)' => Coming(l)
  BY DEF Coming, Adding
<1>2. \A k : DeletesAfter(l, k) => DeletesAfter(l, k)'
  BY DEF DeletesAfter, Adding
<1> QED BY <1>1, <1>2 DEF Quiet

\* A task that adds other logs, or deletes.
LEMMA TasksGrow ==
    ASSUME tasks \in Seq(SearchTasks), NEW l, NEW op \in {"add", "delete"}, NEW logs \in SUBSET Logs,
           tasks' = Enqueue(op, logs), search' = search, ~(op = "add" /\ l \in logs),
           l \in clickhouse' => l \in clickhouse
    PROVE  Quiet(l)
<1>1. PICK t : t = [op |-> op, logs |-> logs, status |-> "enqueued"]
  OBVIOUS
<1>2. t \in SearchTasks /\ tasks' = Append(tasks, t) /\ t.op = op /\ t.logs = logs
  BY <1>1 DEF SearchTasks, Enqueue
<1>3. /\ DOMAIN tasks = 1 .. Len(tasks) /\ DOMAIN tasks' = 1 .. Len(tasks) + 1 /\ Len(tasks) \in Nat
      /\ \A i \in DOMAIN tasks : tasks'[i] = tasks[i]
      /\ tasks'[Len(tasks) + 1] = t
  BY <1>2, AppendProperties, LenProperties
<1>4. \A i \in DOMAIN tasks' : Adding(l, i)' => i \in DOMAIN tasks /\ Adding(l, i)
  BY <1>2, <1>3 DEF Adding
<1>5. Coming(l)' => Coming(l)
  BY <1>3, <1>4 DEF Coming
<1>6. ASSUME NEW k, DeletesAfter(l, k) PROVE DeletesAfter(l, k)'
  BY <1>3, <1>4, <1>6 DEF DeletesAfter
<1> QED BY <1>5, <1>6 DEF Quiet

\* A task that comes to its end.
LEMMA TaskQuiet ==
    ASSUME LogsInv, MeilisearchTask, NEW l
    PROVE  Quiet(l)
<1>1. PICK i, t, s : Takes(i, t, s)
  BY SearchTakes
<1>2. clickhouse' = clickhouse
  BY DEF MeilisearchTask
<1>3. \A k \in DOMAIN tasks : Adding(l, k)' <=> Adding(l, k)
  BY <1>1 DEF Takes, Adding
<1>4. Coming(l)' => Coming(l)
  <2>1. SUFFICES ASSUME Coming(l)' PROVE Coming(l)
    OBVIOUS
  <2>2. CASE l \in search' /\ l \notin search
    <3>1. t.op = "add" /\ l \in t.logs /\ i \in DOMAIN tasks
      BY <1>1, <2>2 DEF Takes
    <3> QED BY <1>1, <3>1 DEF Takes, Coming, Adding
  <2>3. CASE l \in search
    BY <2>3 DEF Coming
  <2>4. CASE l \notin search'
    <3>1. PICK k \in DOMAIN tasks' : tasks'[k].status = "enqueued" /\ Adding(l, k)'
      BY <2>1, <2>4 DEF Coming
    <3>2. k \in DOMAIN tasks /\ tasks[k].status = "enqueued"
      BY <1>1, <3>1 DEF Takes
    <3> QED BY <1>3, <3>1, <3>2 DEF Coming
  <2> QED BY <2>2, <2>3, <2>4
<1>5. ASSUME NEW k, DeletesAfter(l, k) PROVE DeletesAfter(l, k)'
  <2>1. /\ k \in DOMAIN tasks /\ tasks[k].op = "delete" /\ l \in tasks[k].logs
        /\ \A j \in DOMAIN tasks : Adding(l, j) => j < k
        /\ tasks[k].status = "succeeded" => l \notin search
    BY <1>5 DEF DeletesAfter
  <2>2. k \in DOMAIN tasks' /\ tasks'[k].op = "delete" /\ l \in tasks'[k].logs
    BY <1>1, <2>1 DEF Takes
  <2>3. \A j \in DOMAIN tasks' : Adding(l, j)' => j < k
    BY <1>1, <1>3, <2>1 DEF Takes
  <2>4. ASSUME tasks'[k].status = "succeeded" PROVE l \notin search'
    <3>1. CASE k = i
      BY <1>1, <2>1, <2>4, <3>1 DEF Takes
    <3>2. CASE k # i
      <4>1. tasks[k].status = "succeeded" /\ l \notin search
        BY <1>1, <2>1, <2>4, <3>2 DEF Takes
      <4>2. i \in DOMAIN tasks /\ k \in Nat /\ i \in Nat /\ ~(k >= i)
        BY <1>1, <2>1, <4>1 DEF Takes
      <4>3. ~Adding(l, i)
        BY <2>1, <4>2
      <4> QED BY <1>1, <4>1, <4>3 DEF Takes, Adding
    <3> QED BY <3>1, <3>2
  <2> QED BY <2>2, <2>3, <2>4 DEF DeletesAfter
<1> QED BY <1>2, <1>4, <1>5 DEF Quiet

\* Once a task that follows all additions of l has succeeded, l is gone for good.
LEMMA DeletedForGood ==
    ASSUME QueueInv, tasks \in Seq(SearchTasks), NEW l, NEW k, DeletesAfter(l, k),
           tasks[k].status = "succeeded"
    PROVE  ~Coming(l)
<1>1. PICK n \in 0 .. Len(tasks) : \A i \in DOMAIN tasks : tasks[i].status = "enqueued" <=> i > n
  BY DEF QueueInv
<1>2. DOMAIN tasks = 1 .. Len(tasks) /\ Len(tasks) \in Nat
  BY LenProperties
<1>3. /\ k \in DOMAIN tasks /\ \A i \in DOMAIN tasks : Adding(l, i) => i < k
      /\ l \notin search
  BY DEF DeletesAfter
<1>4. ~(k > n)
  BY <1>1, <1>3
<1>5. \A i \in DOMAIN tasks : tasks[i].status = "enqueued" => ~Adding(l, i)
  BY <1>1, <1>2, <1>3, <1>4
<1> QED BY <1>3, <1>5 DEF Coming

\* Nothing comes of a log without retention.
LEMMA NotRetained ==
    ASSUME LogsInv, NEW l, l \notin Retained
    PROVE  Settled(l)
<1>1. clickhouse \subseteq Retained /\ search \subseteq Retained /\ QueueInv
  BY DEF LogsInv, BatchInv, StoreTypes
<1>2. ~Coming(l)
  BY <1>1 DEF Coming, Adding, QueueInv
<1> QED BY <1>1, <1>2 DEF Settled, RowSettled, DocumentSettled

LEMMA CleanLaneStays ==
    ASSUME NEW r, Shaped(r), CleanLane(r), \A l \in Logs : Holds(l)
    PROVE  CleanLane(r)'
<1>1. ToSet(r.batch) \subseteq Logs /\ r.skipped \subseteq Logs
  BY ShapedSets
<1>2. \A l \in ToSet(r.batch) : l \notin Unsettled(r) /\ ~Live(l)' => Settled(l)'
  BY <1>1 DEF CleanLane, Holds
<1>3. r.pc \in {"cleanupSearch", "waitCleanup"} => \A l \in r.skipped : RowSettled(l)'
  BY <1>1 DEF CleanLane, Holds
<1>4. r.pc = "waitCleanup" => \A l \in r.skipped : DeletesAfter(l, r.task)'
  BY <1>1 DEF CleanLane, Holds
<1>5. Unsettled(r)' = Unsettled(r)
  BY DEF Unsettled
<1> QED BY <1>2, <1>3, <1>4, <1>5 DEF CleanLane

\* The lanes do not move.
LEMMA CleanStays ==
    ASSUME LogsInv, CleanInv, lane' = lane,
           \A l \in Logs : Holds(l) /\ (Awaited(l) => Awaited(l)')
    PROVE  CleanInv'
<1>1. SUFFICES ASSUME OneAssignment'
               PROVE  /\ \A l \in Logs : ~Live(l)' /\ ~Awaited(l)' => Settled(l)'
                      /\ \A c \in LogLanes : CleanLane(lane[c])'
  BY DEF CleanInv
<1>2. OneAssignment
  BY <1>1 DEF OneAssignment
<1>3. \A l \in Logs : ~Live(l)' /\ ~Awaited(l)' => Settled(l)'
  BY <1>2 DEF CleanInv, Holds
<1>4. ASSUME NEW c \in LogLanes PROVE CleanLane(lane[c])'
  <2>1. PICK r : r = lane[c]
    OBVIOUS
  <2>2. Shaped(r) /\ CleanLane(r)
    BY <1>2, <2>1, LaneFacts DEF CleanInv
  <2>3. CleanLane(r)'
    BY <2>2, CleanLaneStays
  <2> QED BY <2>1, <2>3
<1> QED BY <1>3, <1>4

\* A lane with no batch, and one that starts its batch again.
LEMMA BareClean ==
    ASSUME NEW r, r.skipped = {}, r.batch = <<>> \/ (r.pc = "filter" /\ ~r.second)
    PROVE  CleanLane(r)'
<1>1. \A l \in ToSet(r.batch) : l \in Unsettled(r)
  BY NoBatch DEF Unsettled
<1> QED BY <1>1 DEF CleanLane, Unsettled

\* The lane of the partition moves to r, and what it is not working on holds.
LEMMA CleanMoves ==
    ASSUME LogsInv, CleanInv, NEW c \in LogLanes, lane[c].pc # "idle", NEW r,
           lane' = [lane EXCEPT ![c] = r], r.canceled = lane[c].canceled,
           LaneOnly, \A l \in Logs : l \notin ToSet(lane[c].batch) => Holds(l),
           OneAssignment => CleanLane(r)'
    PROVE  CleanInv'
<1>1. SUFFICES ASSUME OneAssignment'
               PROVE  /\ \A l \in Logs : ~Live(l)' /\ ~Awaited(l)' => Settled(l)'
                      /\ \A d \in LogLanes : CleanLane(lane[d])'
  BY DEF CleanInv
<1>2. /\ lane \in [LogLanes -> LaneRecords]
      /\ \A d \in LogLanes : lane'[d] = IF d = c THEN r ELSE lane[d]
  BY LanesAre
<1>3. OneAssignment
  BY <1>1, <1>2 DEF OneAssignment
<1>4. /\ owner = c /\ \A d \in LogLanes : d # c => lane[d].pc = "idle"
      /\ logOffset + Len(lane[c].batch) <= Len(topic)
      /\ \A i \in 1 .. Len(lane[c].batch) : lane[c].batch[i] = topic[logOffset + i]
  BY <1>3, LanesAre DEF Assigned, OneAssignment
<1>5. \A l \in ToSet(lane[c].batch) : Awaited(l)
  <2>1. ASSUME NEW l \in ToSet(lane[c].batch) PROVE Awaited(l)
    <3>1. lane[c].batch \in Seq(Logs) /\ Len(lane[c].batch) \in Nat
      BY LaneFacts, LenProperties
    <3>2. PICK i \in 1 .. Len(lane[c].batch) : lane[c].batch[i] = l
      BY <3>1, BatchTyped
    <3>3. logOffset \in Nat /\ Len(topic) \in Nat
      BY LanesAre, LenProperties
    <3>4. logOffset + i \in logOffset + 1 .. Len(topic) /\ topic[logOffset + i] = l
      BY <1>4, <3>1, <3>2, <3>3
    <3> QED BY <3>4 DEF Awaited
  <2> QED BY <2>1
<1>6. \A l \in Logs : ~Live(l)' /\ ~Awaited(l)' => Settled(l)'
  <2>1. \A l \in Logs : Awaited(l)' <=> Awaited(l)
    BY DEF Awaited, LaneOnly
  <2>2. \A l \in Logs : Live(l)' <=> Live(l)
    BY DEF Live, LaneOnly
  <2> QED BY <1>3, <1>5, <2>1, <2>2 DEF CleanInv, Holds
<1>7. ASSUME NEW d \in LogLanes PROVE CleanLane(lane[d])'
  <2>1. CASE d = c
    BY <1>2, <1>3, <2>1
  <2>2. CASE d # c
    <3>1. PICK k : k = lane[d]
      OBVIOUS
    <3>2. k.skipped = {} /\ k.batch = <<>>
      BY <1>4, <2>2, <3>1, LanesAre DEF Assigned, Shaped
    <3>3. CleanLane(k)'
      BY <3>2, BareClean
    <3> QED BY <1>2, <2>2, <3>1, <3>3
  <2> QED BY <2>1, <2>2
<1> QED BY <1>6, <1>7

LEMMA CleanGoes ==
    ASSUME LogsInv, CleanInv, NEW c \in LogLanes, lane[c].pc # "idle", NEW r, lane' = Go(c, r),
           r.canceled = lane[c].canceled,
           LaneOnly, \A l \in Logs : l \notin ToSet(lane[c].batch) => Holds(l),
           OneAssignment => CleanLane(r)'
    PROVE  CleanInv'
<1>1. CASE lane[c].canceled
  <2>1. lane' = [lane EXCEPT ![c] = Halted]
    BY <1>1, LanesAre DEF Go, Halted
  <2>2. Halted.canceled = lane[c].canceled
    BY <1>1, LaneFacts DEF Halted, IdleLane, LaneRecords
  <2>3. ~OneAssignment
    BY <1>1 DEF OneAssignment
  <2> HIDE DEF Halted
  <2> QED BY <2>1, <2>2, <2>3, CleanMoves
<1>2. CASE ~lane[c].canceled
  <2>1. lane' = [lane EXCEPT ![c] = r]
    BY <1>2, LanesAre DEF Go
  <2> QED BY <2>1, CleanMoves
<1> QED BY <1>1, <1>2

LEMMA CleanAgain ==
    ASSUME LogsInv, CleanInv, NEW c \in LogLanes, lane[c].pc # "idle", lane' = Again(c),
           LaneOnly, \A l \in Logs : l \notin ToSet(lane[c].batch) => Holds(l)
    PROVE  CleanInv'
<1>1. CASE lane[c].canceled
  <2>1. lane' = [lane EXCEPT ![c] = Halted]
    BY <1>1, LanesAre DEF Again, Go, Halted
  <2>2. Halted.canceled = lane[c].canceled
    BY <1>1, LaneFacts DEF Halted, IdleLane, LaneRecords
  <2>3. ~OneAssignment
    BY <1>1 DEF OneAssignment
  <2> HIDE DEF Halted
  <2> QED BY <2>1, <2>2, <2>3, CleanMoves
<1>2. CASE ~lane[c].canceled
  <2>1. PICK r : r = Restarted(c)
    OBVIOUS
  <2>2. lane' = [lane EXCEPT ![c] = r]
    BY <1>2, <2>1, LanesAre DEF Again, Go, Restarted
  <2>3. /\ r.pc = "filter" /\ r.skipped = {} /\ ~r.second /\ r.canceled = lane[c].canceled
    BY <1>2, <2>1, LaneFacts DEF Restarted, IdleLane, LaneRecords
  <2>4. CleanLane(r)'
    BY <2>3, BareClean
  <2> QED BY <2>2, <2>3, <2>4, CleanMoves
<1> QED BY <1>1, <1>2

\* What a lane keeps to after a step that changes nothing for its logs.
LEMMA CleanKnows ==
    ASSUME LogsInv, CleanInv, OneAssignment, NEW c \in LogLanes, NEW k, k = lane[c],
           \A l \in Logs : Holds(l)
    PROVE  /\ CleanLane(k) /\ CleanLane(k)' /\ k \in LaneRecords /\ Shaped(k) /\ LaneInv(k)
           /\ ToSet(k.batch) \subseteq Logs /\ k.active \subseteq Logs /\ k.skipped \subseteq Logs
<1>1. Shaped(k) /\ CleanLane(k) /\ k \in LaneRecords /\ LaneInv(k)
  BY LaneFacts DEF CleanInv
<1> QED BY <1>1, CleanLaneStays, ShapedSets

\* A call that leaves the stores as they are, or only removes rows.
LEMMA NothingAdded ==
    ASSUME UNCHANGED <<workflow, deletion>>, clickhouse' \subseteq clickhouse, UNCHANGED <<search, tasks>>
    PROVE  \A l \in Logs : Holds(l)
<1>1. ASSUME NEW l \in Logs PROVE Holds(l)
  <2>1. Quiet(l)
    BY TasksStay
  <2> QED BY <2>1, QuietHolds
<1> QED BY <1>1

LEMMA FilterClean ==
    ASSUME LogsInv, CleanInv, NEW c \in LogLanes, filterActiveWorkflowLogs(c)
    PROVE  CleanInv'
<1>0. lane[c].pc = "filter" /\ LaneOnly /\ UNCHANGED storeVars
  BY DEF filterActiveWorkflowLogs
<1>1. \A l \in Logs : Holds(l)
  BY <1>0, NothingAdded DEF LaneOnly, storeVars
<1>2. CASE lane' = Again(c)
  BY <1>0, <1>1, <1>2, CleanAgain
<1>3. CASE lane' # Again(c)
  <2>1. PICK k, from, active, skipped, pc, r :
            /\ k = lane[c] /\ from = IF k.second THEN k.active ELSE BatchLogs(c)
            /\ active = fetchActiveWorkflowLogPairs(from)
            /\ skipped = SkippedLogs(k.second, from \ active)
            /\ pc = IF skipped # {} THEN "cleanup" ELSE AfterFilter(k.second, active)
            /\ r = [k EXCEPT !.pc = pc, !.active = active, !.skipped = skipped]
            /\ lane' = Go(c, r)
    BY <1>3 DEF filterActiveWorkflowLogs
  <2>2. /\ k \in LaneRecords /\ from \subseteq ToSet(k.batch) /\ active \subseteq from /\ from \subseteq Logs
        /\ \A l \in from : l \in active <=> Live(l)
        /\ skipped = (from \ active) \cap Retained
    BY <2>1, LaneFacts DEF fetchActiveWorkflowLogPairs, Live, SkippedLogs, retainedLogsFromBatch, BatchLogs
  <2>3. /\ skipped # {} => pc = "cleanup"
        /\ skipped = {} => pc \in {"commit", "analytics", "insert"}
        /\ pc = "analytics" => k.second
        /\ pc = "insert" => ~k.second
        /\ pc = "commit" => active = {}
    BY <2>1 DEF AfterFilter
  <2>4. /\ r.pc = pc /\ r.active = active /\ r.skipped = skipped /\ r.batch = k.batch
        /\ r.second = k.second /\ r.canceled = k.canceled
    BY <2>1, <2>2 DEF LaneRecords
  <2>5. ASSUME OneAssignment PROVE CleanLane(r)'
    <3>1. /\ CleanLane(k)' /\ ToSet(k.batch) \subseteq Logs
      BY <1>1, <2>1, <2>5, CleanKnows
    <3>2. Unsettled(k)' = from /\ k.pc = "filter"
      BY <1>0, <2>1 DEF Unsettled, BatchLogs
    <3>3. ASSUME NEW l \in ToSet(k.batch), l \notin Unsettled(r)', ~Live(l)' PROVE Settled(l)'
      <4>1. CASE l \notin from
        BY <3>1, <3>2, <3>3, <4>1 DEF CleanLane
      <4>2. CASE l \in from
        <5>1. ~Live(l)
          BY <1>0, <3>3 DEF Live, LaneOnly
        <5>2. l \notin active /\ l \notin skipped
          <6>1. l \notin active
            BY <2>2, <4>2, <5>1
          <6>2. l \in skipped => pc = "cleanup"
            BY <2>3
          <6> QED BY <2>4, <3>3, <6>1, <6>2 DEF Unsettled
        <5>3. l \notin Retained
          BY <2>2, <4>2, <5>2
        <5>4. Settled(l)
          BY <5>3, NotRetained
        <5> QED BY <1>1, <3>1, <5>4 DEF Holds
      <4> QED BY <4>1, <4>2
    <3>4. pc \notin {"cleanupSearch", "waitCleanup"}
      BY <2>3
    <3> QED BY <2>4, <3>3, <3>4 DEF CleanLane
  <2> QED BY <1>0, <1>1, <2>1, <2>4, <2>5, CleanGoes
<1> QED BY <1>2, <1>3

LEMMA CleanRowsClean ==
    ASSUME LogsInv, CleanInv, NEW c \in LogLanes, deleteLogsFromClickHouseByEventID(c)
    PROVE  CleanInv'
<1>0. /\ lane[c].pc = "cleanup" /\ LaneOnly /\ UNCHANGED <<search, tasks>>
      /\ clickhouse' \subseteq clickhouse
      /\ \/ lane' = Again(c)
         \/ /\ clickhouse' = clickhouse \ lane[c].skipped
            /\ lane' = Go(c, [lane[c] EXCEPT !.pc = "cleanupSearch"])
  BY DEF deleteLogsFromClickHouseByEventID
<1>1. \A l \in Logs : Holds(l)
  BY <1>0, NothingAdded DEF LaneOnly
<1>2. CASE lane' = Again(c)
  BY <1>0, <1>1, <1>2, CleanAgain
<1>3. CASE /\ clickhouse' = clickhouse \ lane[c].skipped
           /\ lane' = Go(c, [lane[c] EXCEPT !.pc = "cleanupSearch"])
  <2>1. PICK k, r : k = lane[c] /\ r = [k EXCEPT !.pc = "cleanupSearch"] /\ lane' = Go(c, r)
    BY <1>3
  <2>2. /\ r.pc = "cleanupSearch" /\ r.active = k.active /\ r.skipped = k.skipped /\ r.task = k.task
        /\ r.batch = k.batch /\ r.second = k.second /\ r.canceled = k.canceled
    BY <2>1, LaneFacts DEF LaneRecords
  <2>3. ASSUME OneAssignment PROVE CleanLane(r)'
    <3>1. CleanLane(k)'
      BY <1>1, <2>1, <2>3, CleanKnows
    <3>2. Unsettled(r)' = Unsettled(k)'
      BY <1>0, <2>1, <2>2 DEF Unsettled
    <3>3. \A l \in r.skipped : RowSettled(l)'
      BY <1>3, <2>1, <2>2 DEF RowSettled
    <3> QED BY <2>2, <3>1, <3>2, <3>3 DEF CleanLane
  <2> QED BY <1>0, <1>1, <2>1, <2>2, <2>3, CleanGoes
<1> QED BY <1>0, <1>2, <1>3

LEMMA CleanDocumentsClean ==
    ASSUME LogsInv, CleanInv, NEW c \in LogLanes, deleteLogsFromMeiliSearchByID(c)
    PROVE  CleanInv'
<1> DEFINE queued == Enqueue("delete", lane[c].skipped)
<1>0. /\ lane[c].pc = "cleanupSearch" /\ LaneOnly /\ UNCHANGED <<clickhouse, search>>
      /\ tasks' \in {tasks, queued}
      /\ \/ lane' = Again(c)
         \/ tasks' = queued /\ lane' = Go(c, [lane[c] EXCEPT !.pc = "waitCleanup", !.task = Len(queued)])
  BY DEF deleteLogsFromMeiliSearchByID
<1>01. /\ lane[c].skipped \in SUBSET Logs /\ \A l \in lane[c].skipped : ~Live(l)
       /\ tasks \in Seq(SearchTasks) /\ QueueInv
  BY LaneFacts DEF LaneInv, StoreTypes
<1>1. \A l \in Logs : Holds(l)
  <2>1. ASSUME NEW l \in Logs PROVE Holds(l)
    <3>1. Quiet(l)
      BY <1>0, <1>01, TasksStay, TasksGrow
    <3> QED BY <1>0, <3>1, QuietHolds DEF LaneOnly
  <2> QED BY <2>1
<1>2. CASE lane' = Again(c)
  BY <1>0, <1>1, <1>2, CleanAgain
<1>3. CASE tasks' = queued /\ lane' = Go(c, [lane[c] EXCEPT !.pc = "waitCleanup", !.task = Len(queued)])
  <2>1. PICK k, r : k = lane[c] /\ r = [k EXCEPT !.pc = "waitCleanup", !.task = Len(tasks')] /\ lane' = Go(c, r)
    BY <1>3
  <2>2. /\ r.pc = "waitCleanup" /\ r.active = k.active /\ r.skipped = k.skipped /\ r.task = Len(tasks')
        /\ r.batch = k.batch /\ r.second = k.second /\ r.canceled = k.canceled
    BY <2>1, LaneFacts DEF LaneRecords
  <2>3. ASSUME OneAssignment PROVE CleanLane(r)'
    <3>1. CleanLane(k)' /\ k.pc = "cleanupSearch"
      BY <1>0, <1>1, <2>1, <2>3, CleanKnows
    <3>2. Unsettled(r)' = Unsettled(k)'
      BY <2>2, <3>1 DEF Unsettled
    <3>3. /\ DOMAIN tasks' = 1 .. Len(tasks') /\ Len(tasks) \in Nat /\ Len(tasks') = Len(tasks) + 1
          /\ tasks'[Len(tasks')] = [op |-> "delete", logs |-> lane[c].skipped, status |-> "enqueued"]
      BY <1>0, <1>01, <1>3, QueueGrows DEF LaneOnly
    <3>4. ASSUME NEW l \in r.skipped PROVE DeletesAfter(l, r.task)'
      <4>1. /\ r.task \in DOMAIN tasks' /\ tasks'[r.task].op = "delete" /\ l \in tasks'[r.task].logs
            /\ tasks'[r.task].status = "enqueued"
        BY <2>1, <2>2, <3>3
      <4>2. \A i \in DOMAIN tasks' : Adding(l, i)' => i < r.task
        BY <2>2, <3>3, <4>1 DEF Adding
      <4> QED BY <4>1, <4>2 DEF DeletesAfter
    <3> QED BY <2>2, <3>1, <3>2, <3>4 DEF CleanLane
  <2> QED BY <1>0, <1>1, <2>1, <2>2, <2>3, CleanGoes
<1> QED BY <1>0, <1>2, <1>3

LEMMA InsertRowsClean ==
    ASSUME LogsInv, CleanInv, NEW c \in LogLanes, insertLogsBatchToClickhouse(c)
    PROVE  CleanInv'
<1>0. /\ lane[c].pc = "insert" /\ LaneOnly /\ UNCHANGED <<search, tasks>>
      /\ clickhouse' \subseteq clickhouse \cup lane[c].active
      /\ \/ lane' = Again(c)
         \/ lane' = Go(c, [lane[c] EXCEPT !.pc = "addDocuments"])
  BY DEF insertLogsBatchToClickhouse, retainedLogsFromBatch
<1>1. \A l \in Logs : l \notin lane[c].active => Holds(l)
  <2>1. ASSUME NEW l \in Logs, l \notin lane[c].active PROVE Holds(l)
    <3>1. Quiet(l)
      BY <1>0, <2>1, TasksStay
    <3> QED BY <1>0, <3>1, QuietHolds DEF LaneOnly
  <2> QED BY <2>1
<1>2. \A l \in Logs : l \notin ToSet(lane[c].batch) => Holds(l)
  BY <1>1, LaneFacts
<1>3. CASE lane' = Again(c)
  BY <1>0, <1>2, <1>3, CleanAgain
<1>4. CASE lane' = Go(c, [lane[c] EXCEPT !.pc = "addDocuments"])
  <2>1. PICK k, r : k = lane[c] /\ r = [k EXCEPT !.pc = "addDocuments"] /\ lane' = Go(c, r)
    BY <1>4
  <2>2. /\ r.pc = "addDocuments" /\ r.active = k.active /\ r.batch = k.batch /\ r.canceled = k.canceled
    BY <2>1, LaneFacts DEF LaneRecords
  <2>3. ASSUME OneAssignment PROVE CleanLane(r)'
    <3>1. CleanLane(k) /\ ToSet(k.batch) \subseteq Logs
      BY <2>1, <2>3, LaneFacts DEF CleanInv
    <3>2. Unsettled(r)' = k.active /\ Unsettled(k) = k.active
      BY <1>0, <2>1, <2>2 DEF Unsettled
    <3>3. ASSUME NEW l \in ToSet(r.batch), l \notin k.active, ~Live(l)' PROVE Settled(l)'
      <4>1. Holds(l) /\ l \in ToSet(k.batch)
        BY <1>1, <2>1, <2>2, <3>1, <3>3
      <4> QED BY <3>1, <3>2, <3>3, <4>1 DEF CleanLane, Holds
    <3> QED BY <2>2, <3>2, <3>3 DEF CleanLane
  <2> QED BY <1>0, <1>2, <2>1, <2>2, <2>3, CleanGoes
<1> QED BY <1>0, <1>3, <1>4

LEMMA AddDocumentsClean ==
    ASSUME LogsInv, CleanInv, NEW c \in LogLanes, insertLogsDocumentsToMeiliSearch(c)
    PROVE  CleanInv'
<1> DEFINE logs == retainedLogsFromBatch(lane[c].active)
           queued == Enqueue("add", logs)
<1>0. /\ lane[c].pc = "addDocuments" /\ LaneOnly /\ UNCHANGED <<clickhouse, search>>
      /\ tasks' \in {tasks, queued}
      /\ \/ lane' = Again(c)
         \/ lane' = Go(c, [lane[c] EXCEPT !.pc = "filter", !.second = TRUE])
         \/ lane' = Go(c, [lane[c] EXCEPT !.pc = "waitDocuments", !.task = Len(queued)])
  BY DEF insertLogsDocumentsToMeiliSearch
<1>01. logs \in SUBSET Logs /\ logs \subseteq lane[c].active /\ tasks \in Seq(SearchTasks)
  BY LaneFacts DEF retainedLogsFromBatch, StoreTypes
<1>1. \A l \in Logs : l \notin lane[c].active => Holds(l)
  <2>1. ASSUME NEW l \in Logs, l \notin lane[c].active PROVE Holds(l)
    <3>1. Quiet(l)
      <4> HIDE DEF logs
      <4>1. CASE tasks' = tasks
        BY <1>0, <4>1, TasksStay
      <4>2. CASE tasks' = queued
        BY <1>0, <1>01, <2>1, <4>2, TasksGrow
      <4> QED BY <1>0, <4>1, <4>2
    <3> QED BY <1>0, <3>1, QuietHolds DEF LaneOnly
  <2> QED BY <2>1
<1>2. \A l \in Logs : l \notin ToSet(lane[c].batch) => Holds(l)
  BY <1>1, LaneFacts
<1>3. CASE lane' = Again(c)
  BY <1>0, <1>2, <1>3, CleanAgain
<1>4. CASE \/ lane' = Go(c, [lane[c] EXCEPT !.pc = "filter", !.second = TRUE])
           \/ lane' = Go(c, [lane[c] EXCEPT !.pc = "waitDocuments", !.task = Len(queued)])
  <2>1. PICK k, r : /\ k = lane[c] /\ lane' = Go(c, r)
                    /\ \/ r = [k EXCEPT !.pc = "filter", !.second = TRUE]
                       \/ r = [k EXCEPT !.pc = "waitDocuments", !.task = Len(queued)]
    BY <1>4
  <2>2. /\ r.active = k.active /\ r.batch = k.batch /\ r.canceled = k.canceled
        /\ (r.pc = "filter" /\ r.second) \/ r.pc = "waitDocuments"
    <3>1. k \in LaneRecords
      BY <2>1, LaneFacts
    <3> QED BY <2>1, <3>1 DEF LaneRecords
  <2>3. ASSUME OneAssignment PROVE CleanLane(r)'
    <3>1. CleanLane(k) /\ ToSet(k.batch) \subseteq Logs
      BY <2>1, <2>3, LaneFacts DEF CleanInv
    <3>2. Unsettled(r)' = k.active /\ Unsettled(k) = k.active
      BY <1>0, <2>1, <2>2 DEF Unsettled
    <3>3. ASSUME NEW l \in ToSet(r.batch), l \notin k.active, ~Live(l)' PROVE Settled(l)'
      <4>1. Holds(l) /\ l \in ToSet(k.batch)
        BY <1>1, <2>1, <2>2, <3>1, <3>3
      <4> QED BY <3>1, <3>2, <3>3, <4>1 DEF CleanLane, Holds
    <3> QED BY <2>2, <3>2, <3>3 DEF CleanLane
  <2> QED BY <1>0, <1>2, <2>1, <2>2, <2>3, CleanGoes
<1> HIDE DEF logs, queued
<1> QED BY <1>0, <1>3, <1>4

LEMMA WaitClean ==
    ASSUME LogsInv, CleanInv, NEW c \in LogLanes, waitForMeiliSearchTask(c)
    PROVE  CleanInv'
<1>0. /\ lane[c].pc \in {"waitCleanup", "waitDocuments"} /\ LaneOnly /\ UNCHANGED storeVars
      /\ \/ lane' = Again(c)
         \/ /\ tasks[lane[c].task].status = "succeeded"
            /\ lane' = Go(c, IF lane[c].pc = "waitCleanup"
                             THEN [lane[c] EXCEPT !.pc = AfterFilter(lane[c].second, lane[c].active)]
                             ELSE [lane[c] EXCEPT !.pc = "filter", !.second = TRUE])
  BY DEF waitForMeiliSearchTask, TaskDone
<1>1. \A l \in Logs : Holds(l)
  BY <1>0, NothingAdded DEF LaneOnly, storeVars
<1>2. CASE lane' = Again(c)
  BY <1>0, <1>1, <1>2, CleanAgain
<1>3. CASE /\ lane[c].pc = "waitCleanup" /\ tasks[lane[c].task].status = "succeeded"
           /\ lane' = Go(c, [lane[c] EXCEPT !.pc = AfterFilter(lane[c].second, lane[c].active)])
  <2>1. PICK k, r, pc : /\ k = lane[c] /\ pc = AfterFilter(k.second, k.active)
                        /\ r = [k EXCEPT !.pc = pc] /\ lane' = Go(c, r)
    BY <1>3
  <2>2. /\ pc \in {"commit", "analytics", "insert"}
        /\ pc = "commit" => k.active = {}
        /\ pc = "analytics" => k.second
        /\ pc = "insert" => ~k.second
    BY <2>1 DEF AfterFilter
  <2>3. /\ r.pc = pc /\ r.active = k.active /\ r.skipped = k.skipped
        /\ r.batch = k.batch /\ r.second = k.second /\ r.canceled = k.canceled
    BY <2>1, LaneFacts DEF LaneRecords
  <2>4. ASSUME OneAssignment PROVE CleanLane(r)'
    <3>1. /\ CleanLane(k) /\ CleanLane(k)' /\ ToSet(k.batch) \subseteq Logs /\ k.pc = "waitCleanup"
          /\ k.skipped \subseteq Logs
      BY <1>1, <1>3, <2>1, <2>4, CleanKnows
    <3>2. ASSUME NEW l \in k.skipped PROVE Settled(l)'
      <4>1. DeletesAfter(l, k.task) /\ RowSettled(l) /\ tasks[k.task].status = "succeeded"
        BY <1>3, <2>1, <3>1 DEF CleanLane
      <4>2. QueueInv /\ tasks \in Seq(SearchTasks)
        BY LaneFacts DEF StoreTypes
      <4>3. ~Coming(l)
        BY <4>1, <4>2, DeletedForGood
      <4>4. Settled(l)
        BY <4>1, <4>3 DEF Settled, DocumentSettled
      <4> QED BY <1>1, <3>1, <4>4 DEF Holds
    <3>3. ASSUME NEW l \in ToSet(k.batch), l \notin Unsettled(r)', ~Live(l)' PROVE Settled(l)'
      <4>1. CASE l \in k.skipped
        BY <3>2, <4>1
      <4>2. CASE l \notin k.skipped
        <5>1. l \notin k.active \/ k.second
          BY <2>2, <2>3, <3>3 DEF Unsettled
        <5>2. l \notin Unsettled(k)'
          BY <3>1, <4>2, <5>1 DEF Unsettled
        <5> QED BY <3>1, <3>3, <5>2 DEF CleanLane
      <4> QED BY <4>1, <4>2
    <3> QED BY <2>2, <2>3, <3>3 DEF CleanLane
  <2> QED BY <1>0, <1>1, <2>1, <2>3, <2>4, CleanGoes
<1>4. CASE lane[c].pc = "waitDocuments" /\ lane' = Go(c, [lane[c] EXCEPT !.pc = "filter", !.second = TRUE])
  <2>1. PICK k, r : k = lane[c] /\ r = [k EXCEPT !.pc = "filter", !.second = TRUE] /\ lane' = Go(c, r)
    BY <1>4
  <2>2. /\ r.pc = "filter" /\ r.active = k.active /\ r.batch = k.batch /\ r.second /\ r.canceled = k.canceled
    BY <2>1, LaneFacts DEF LaneRecords
  <2>3. ASSUME OneAssignment PROVE CleanLane(r)'
    <3>1. CleanLane(k)' /\ k.pc = "waitDocuments"
      BY <1>1, <1>4, <2>1, <2>3, CleanKnows
    <3>2. Unsettled(r)' = Unsettled(k)'
      BY <2>2, <3>1 DEF Unsettled
    <3> QED BY <2>2, <3>1, <3>2 DEF CleanLane
  <2> QED BY <1>0, <1>1, <2>1, <2>2, <2>3, CleanGoes
<1> QED BY <1>0, <1>2, <1>3, <1>4

LEMMA AnalyticsClean ==
    ASSUME LogsInv, CleanInv, NEW c \in LogLanes, processLogsAnalytics(c)
    PROVE  CleanInv'
<1>0. /\ lane[c].pc = "analytics" /\ LaneOnly /\ UNCHANGED <<clickhouse, search, tasks>>
      /\ lane' = Again(c) \/ lane' = Go(c, [lane[c] EXCEPT !.pc = "commit"])
  BY DEF processLogsAnalytics
<1>1. \A l \in Logs : Holds(l)
  BY <1>0, NothingAdded DEF LaneOnly
<1>2. CASE lane' = Again(c)
  BY <1>0, <1>1, <1>2, CleanAgain
<1>3. CASE lane' = Go(c, [lane[c] EXCEPT !.pc = "commit"])
  <2>1. PICK k, r : k = lane[c] /\ r = [k EXCEPT !.pc = "commit"] /\ lane' = Go(c, r)
    BY <1>3
  <2>2. r.pc = "commit" /\ r.batch = k.batch /\ r.canceled = k.canceled
    BY <2>1, LaneFacts DEF LaneRecords
  <2>3. ASSUME OneAssignment PROVE CleanLane(r)'
    <3>1. CleanLane(k)' /\ k.pc = "analytics"
      BY <1>0, <1>1, <2>1, <2>3, CleanKnows
    <3>2. Unsettled(r)' = Unsettled(k)'
      BY <2>2, <3>1 DEF Unsettled
    <3> QED BY <2>2, <3>1, <3>2 DEF CleanLane
  <2> QED BY <1>0, <1>1, <2>1, <2>2, <2>3, CleanGoes
<1> QED BY <1>0, <1>2, <1>3

LEMMA AbandonClean ==
    ASSUME LogsInv, CleanInv, NEW c \in LogLanes, Abandon(c)
    PROVE  CleanInv'
<1>0. lane[c].pc # "idle" /\ LaneOnly /\ UNCHANGED storeVars /\ lane' = Again(c)
  BY DEF Abandon
<1>1. \A l \in Logs : Holds(l)
  BY <1>0, NothingAdded DEF LaneOnly, storeVars
<1> QED BY <1>0, <1>1, CleanAgain

-----------------------------------------------------------------------------
(* The partition, the topic, and the deletion itself.                        *)

\* The lane that has the partition has no batch, or starts with it.
LEMMA LanesBare ==
    ASSUME LogsInv', OneAssignment', NEW r, r = lane'[owner'], r.skipped = {},
           r.batch = <<>> \/ (r.pc = "filter" /\ ~r.second)
    PROVE  \A d \in LogLanes : CleanLane(lane[d])'
<1>1. ASSUME NEW d \in LogLanes PROVE CleanLane(lane[d])'
  <2>1. PICK k : k = lane'[d]
    OBVIOUS
  <2>2. k.skipped = {} /\ (k.batch = <<>> \/ (k.pc = "filter" /\ ~k.second))
    <3>1. CASE d = owner'
      BY <2>1, <3>1
    <3>2. CASE d # owner'
      BY <2>1, <3>2 DEF LogsInv, BatchInv, Shaped, OneAssignment
    <3> QED BY <3>1, <3>2
  <2>3. CleanLane(k)'
    BY <2>2, BareClean
  <2> QED BY <2>1, <2>3
<1> QED BY <1>1

LEMMA PollClean ==
    ASSUME LogsInv, CleanInv, NEW c \in LogLanes, PollBatch(c)
    PROVE  CleanInv'
<1>0. PICK s : /\ owner = c /\ lane[c].pc = "idle" /\ LaneOnly /\ UNCHANGED storeVars
               /\ lane' = [lane EXCEPT ![c].pc = "filter", ![c].batch = s]
  BY DEF PollBatch
<1>1. \A l \in Logs : Holds(l)
  BY <1>0, NothingAdded DEF LaneOnly, storeVars
<1>2. PICK k, r : k = lane[c] /\ r = lane'[c]
  OBVIOUS
<1>3. /\ r.pc = "filter" /\ r.skipped = {} /\ ~r.second /\ r.canceled = k.canceled
      /\ \A d \in LogLanes : d # c => lane'[d] = lane[d]
  <2>1. k \in LaneRecords /\ Shaped(k) /\ lane \in [LogLanes -> LaneRecords]
    BY <1>2, LaneFacts
  <2>2. r = [k EXCEPT !.pc = "filter", !.batch = s] /\ \A d \in LogLanes : d # c => lane'[d] = lane[d]
    BY <1>0, <1>2, <2>1
  <2>3. k.skipped = {} /\ ~k.second
    BY <1>0, <1>2, <2>1 DEF Shaped
  <2> QED BY <2>1, <2>2, <2>3 DEF LaneRecords
<1>4. SUFFICES ASSUME OneAssignment'
               PROVE  /\ \A l \in Logs : ~Live(l)' /\ ~Awaited(l)' => Settled(l)'
                      /\ \A d \in LogLanes : CleanLane(lane[d])'
  BY DEF CleanInv
<1>5. OneAssignment
  BY <1>2, <1>3, <1>4 DEF OneAssignment
<1>6. \A l \in Logs : ~Live(l)' /\ ~Awaited(l)' => Settled(l)'
  <2>1. \A l \in Logs : (Awaited(l)' <=> Awaited(l)) /\ (Live(l)' <=> Live(l))
    BY <1>0 DEF Awaited, Live, LaneOnly
  <2> QED BY <1>1, <1>5, <2>1 DEF CleanInv, Holds
<1>7. LogsInv' /\ r = lane'[owner']
  BY <1>0, <1>2, PollStep DEF LaneOnly
<1>8. \A d \in LogLanes : CleanLane(lane[d])'
  BY <1>3, <1>4, <1>7, LanesBare
<1> QED BY <1>6, <1>8

LEMMA CrashClean ==
    ASSUME LogsInv, CleanInv, NEW c \in LogLanes, CrashProcessor(c)
    PROVE  CleanInv'
<1>0. owner = c /\ lane' = [lane EXCEPT ![c] = IdleLane] /\ LaneOnly /\ UNCHANGED storeVars
  BY DEF CrashProcessor
<1>1. \A l \in Logs : Holds(l)
  BY <1>0, NothingAdded DEF LaneOnly, storeVars
<1>2. PICK r : r = IdleLane
  OBVIOUS
<1>3. /\ r.batch = <<>> /\ r.skipped = {} /\ ~r.canceled
      /\ \A d \in LogLanes : lane'[d] = IF d = c THEN r ELSE lane[d]
  BY <1>0, <1>2, LanesAre DEF IdleLane
<1>4. SUFFICES ASSUME OneAssignment'
               PROVE  /\ \A l \in Logs : ~Live(l)' /\ ~Awaited(l)' => Settled(l)'
                      /\ \A d \in LogLanes : CleanLane(lane[d])'
  BY DEF CleanInv
<1>5. OneAssignment
  BY <1>0, <1>3, <1>4, LanesAre DEF OneAssignment
<1>6. \A l \in Logs : ~Live(l)' /\ ~Awaited(l)' => Settled(l)'
  <2>1. \A l \in Logs : (Awaited(l)' <=> Awaited(l)) /\ (Live(l)' <=> Live(l))
    BY <1>0 DEF Awaited, Live, LaneOnly
  <2> QED BY <1>1, <1>5, <2>1 DEF CleanInv, Holds
<1>7. LogsInv' /\ r = lane'[owner']
  BY <1>0, <1>3, CrashStep DEF LaneOnly
<1>8. \A d \in LogLanes : CleanLane(lane[d])'
  BY <1>3, <1>4, <1>7, LanesBare
<1> QED BY <1>6, <1>8

LEMMA CommitClean ==
    ASSUME LogsInv, CleanInv, NEW c \in LogLanes, CommitBatch(c)
    PROVE  CleanInv'
<1>0. PICK k : /\ k = lane[c] /\ k.pc = "commit" /\ ~k.canceled
               /\ logOffset' = logOffset + Len(k.batch)
               /\ lane' = [lane EXCEPT ![c] = IdleLane]
               /\ UNCHANGED <<workflow, topic, owner, deletion>> /\ UNCHANGED storeVars
  BY DEF CommitBatch
<1>1. \A l \in Logs : Holds(l)
  BY <1>0, NothingAdded DEF storeVars
<1>2. PICK r : r = IdleLane
  OBVIOUS
<1>3. /\ r.batch = <<>> /\ r.skipped = {} /\ ~r.canceled
      /\ \A d \in LogLanes : lane'[d] = IF d = c THEN r ELSE lane[d]
  BY <1>0, <1>2, LanesAre DEF IdleLane
<1>4. SUFFICES ASSUME OneAssignment'
               PROVE  /\ \A l \in Logs : ~Live(l)' /\ ~Awaited(l)' => Settled(l)'
                      /\ \A d \in LogLanes : CleanLane(lane[d])'
  BY DEF CleanInv
<1>5. OneAssignment
  BY <1>0, <1>3, <1>4 DEF OneAssignment
<1>6. /\ owner = c /\ CleanLane(k) /\ k.batch \in Seq(Logs) /\ Len(k.batch) \in Nat
      /\ logOffset \in Nat /\ Len(topic) \in Nat
      /\ \A i \in 1 .. Len(k.batch) : k.batch[i] = topic[logOffset + i]
  <2>1. Assigned(c) /\ k.batch \in Seq(Logs) /\ CleanLane(k)
    BY <1>0, <1>5, LaneFacts, LanesAre DEF CleanInv
  <2>2. Len(k.batch) \in Nat /\ logOffset \in Nat /\ Len(topic) \in Nat
    BY <2>1, LanesAre, LenProperties
  <2> QED BY <1>0, <2>1, <2>2 DEF Assigned
<1>7. ASSUME NEW l \in Logs, ~Live(l)', ~Awaited(l)' PROVE Settled(l)'
  <2>1. ~Live(l)
    BY <1>0, <1>7 DEF Live
  <2>2. CASE ~Awaited(l)
    BY <1>1, <1>5, <2>1, <2>2 DEF CleanInv, Holds
  <2>3. CASE Awaited(l)
    <3>1. PICK i \in logOffset + 1 .. Len(topic) : topic[i] = l
      BY <2>3 DEF Awaited
    <3>2. ~(i \in logOffset' + 1 .. Len(topic))
      BY <1>0, <1>7, <3>1 DEF Awaited
    <3>3. i - logOffset \in 1 .. Len(k.batch) /\ logOffset + (i - logOffset) = i
      <4>1. /\ logOffset' = logOffset + Len(k.batch) /\ Len(k.batch) \in Nat /\ logOffset \in Nat
            /\ Len(topic) \in Nat
        BY <1>0, <1>6
      <4>2. i \in Nat /\ i > logOffset /\ i <= Len(topic)
        BY <3>1, <4>1
      <4>3. i <= logOffset + Len(k.batch)
        BY <3>2, <4>1, <4>2
      <4> QED BY <4>1, <4>2, <4>3
    <3>4. k.batch[i - logOffset] = l
      BY <1>6, <3>1, <3>3
    <3>5. l \in ToSet(k.batch)
      BY <1>6, <3>3, <3>4, BatchTyped
    <3>6. l \notin Unsettled(k)
      BY <1>0 DEF Unsettled
    <3>7. Settled(l)
      BY <1>6, <2>1, <3>5, <3>6 DEF CleanLane
    <3> QED BY <1>1, <3>7 DEF Holds
  <2> QED BY <2>2, <2>3
<1>8. LogsInv' /\ r = lane'[owner']
  BY <1>0, <1>3, <1>6, CommitBatchStep
<1>9. \A d \in LogLanes : CleanLane(lane[d])'
  BY <1>3, <1>4, <1>8, LanesBare
<1> QED BY <1>7, <1>9

LEMMA RebalanceClean ==
    ASSUME LogsInv, NEW c \in LogLanes, Rebalance(c)
    PROVE  CleanInv'
<1>1. lane' = [lane EXCEPT ![owner].canceled = TRUE]
  BY DEF Rebalance
<1>2. lane'[owner].canceled /\ owner \in LogLanes
  BY <1>1, LanesAre DEF LaneRecords
<1> QED BY <1>2 DEF CleanInv, OneAssignment

LEMMA TopicClean ==
    ASSUME LogsInv, CleanInv, NEW s \in Seq(Logs), topic' = topic \o s \/ topic' = topic,
           UNCHANGED <<workflow, logOffset, deletion>>, UNCHANGED storeVars, UNCHANGED processorVars
    PROVE  CleanInv'
<1>1. \A l \in Logs : Holds(l)
  BY NothingAdded DEF storeVars
<1>2. ASSUME NEW l \in Logs, Awaited(l) PROVE Awaited(l)'
  <2>1. CASE topic' = topic
    BY <1>2, <2>1 DEF Awaited
  <2>2. CASE topic' = topic \o s
    <3>1. PICK i \in logOffset + 1 .. Len(topic) : topic[i] = l
      BY <1>2 DEF Awaited
    <3>2. topic \in Seq(Logs) /\ Len(topic) \in Nat /\ Len(s) \in Nat /\ logOffset \in Nat
      BY LanesAre, LenProperties
    <3>3. /\ Len(topic') = Len(topic) + Len(s)
          /\ \A j \in 1 .. Len(topic) + Len(s) :
                topic'[j] = IF j <= Len(topic) THEN topic[j] ELSE s[j - Len(topic)]
      BY <2>2, <3>2, ConcatProperties
    <3>4. i \in logOffset + 1 .. Len(topic') /\ i \in 1 .. Len(topic) + Len(s) /\ i <= Len(topic)
      BY <3>1, <3>2, <3>3
    <3>5. topic'[i] = l
      BY <3>1, <3>3, <3>4
    <3> QED BY <3>4, <3>5 DEF Awaited
  <2> QED BY <2>1, <2>2
<1>3. lane' = lane
  BY DEF processorVars
<1> QED BY <1>1, <1>2, <1>3, CleanStays

LEMMA WorkerClean ==
    ASSUME LogsInv, CleanInv, NEW w \in Workflows, WorkerStep(w) \/ replayContainerLogs(w)
    PROVE  CleanInv'
<1>1. /\ UNCHANGED <<workflow, logOffset, deletion>> /\ UNCHANGED storeVars /\ UNCHANGED processorVars
      /\ \/ topic' = topic
         \/ topic' = topic \o worker[w].records
         \/ \E n \in 0 .. Len(worker[w].records) : topic' = topic \o SubSeq(worker[w].records, 1, n)
  BY DEF WorkerStep, ReceiveLine, publishJobLogBatch, EndLogs, replayContainerLogs
<1>2. worker[w].records \in Seq(Logs) /\ Len(worker[w].records) \in Nat
  BY WorkersAre
<1>3. PICK s : s \in Seq(Logs) /\ (topic' = topic \o s \/ topic' = topic)
  <2>1. ASSUME NEW n \in 0 .. Len(worker[w].records) PROVE SubSeq(worker[w].records, 1, n) \in Seq(Logs)
    <3>1. n \in Int /\ \A i \in 1 .. n : worker[w].records[i] \in Logs
      BY <1>2, ElementOfSeq
    <3> QED BY <3>1, SubSeqProperties
  <2> QED BY <1>1, <1>2, <2>1
<1> QED BY <1>1, <1>3, TopicClean

LEMMA SearchClean ==
    ASSUME LogsInv, CleanInv, MeilisearchTask
    PROVE  CleanInv'
<1>1. UNCHANGED <<workflow, topic, logOffset, deletion, lane>>
  BY DEF MeilisearchTask, processorVars
<1>2. \A l \in Logs : Holds(l)
  BY <1>1, TaskQuiet, QuietHolds
<1>3. \A l \in Logs : Awaited(l) => Awaited(l)'
  BY <1>1 DEF Awaited
<1> QED BY <1>1, <1>2, <1>3, CleanStays

LEMMA DeleteClean ==
    ASSUME LogsInv, CleanInv, NEW w \in Workflows, DeleteWorkflow(w)
    PROVE  CleanInv'
<1>0. /\ workflow' = [workflow EXCEPT ![w] = "DELETED"]
      /\ deletion' = [deletion EXCEPT ![w].pc = "clickhouse"]
      /\ UNCHANGED <<topic, logOffset, lane>> /\ UNCHANGED storeVars
  BY DEF DeleteWorkflow, processorVars
<1>1. deletion \in [Workflows -> DeletionStates] /\ workflow \in [Workflows -> {"LIVE", "DELETED"}]
  BY DEF LogsInv, WorkersInv
<1>2. ASSUME NEW l \in Logs PROVE Holds(l)
  <2>1. Quiet(l) /\ l[1] \in Workflows
    BY <1>0, TasksStay, LogsTyped DEF storeVars
  <2>2. CASE l[1] = w
    <3>1. deletion'[l[1]].pc = "clickhouse"
      BY <1>0, <1>1, <2>2 DEF DeletionStates
    <3>2. RowSettled(l)' /\ Settled(l)'
      BY <3>1 DEF Settled, RowSettled, DocumentSettled
    <3> QED BY <2>1, <3>2 DEF Holds, Quiet
  <2>3. CASE l[1] # w
    <3>1. workflow'[l[1]] = workflow[l[1]] /\ deletion'[l[1]] = deletion[l[1]]
      BY <1>0, <1>1, <2>1, <2>3
    <3> QED BY <2>1, <3>1, QuietHolds
  <2> QED BY <2>2, <2>3
<1>3. \A l \in Logs : Awaited(l) => Awaited(l)'
  BY <1>0 DEF Awaited
<1> QED BY <1>0, <1>2, <1>3, CleanStays

\* A step of the handling of a DELETE event: what is left to show is about the
\* logs of its workflow.
LEMMA DeletionClean ==
    ASSUME LogsInv, CleanInv, NEW w \in Workflows, NEW e, deletion' = [deletion EXCEPT ![w] = e],
           DeletionOnly, \A l \in Logs : Quiet(l),
           \A l \in Logs : l[1] = w => /\ RowSettled(l) => RowSettled(l)'
                                       /\ Settled(l) => DocumentSettled(l)'
    PROVE  CleanInv'
<1>1. UNCHANGED <<workflow, topic, logOffset, lane>> /\ deletion \in [Workflows -> DeletionStates]
  BY DEF DeletionOnly, processorVars, LogsInv, WorkersInv
<1>2. ASSUME NEW l \in Logs PROVE Holds(l)
  <2>1. l[1] \in Workflows
    BY LogsTyped
  <2>2. CASE l[1] = w
    <3>1. (RowSettled(l) => RowSettled(l)') /\ (Settled(l) => Settled(l)')
      BY <2>2 DEF Settled
    <3>2. ~Live(l)' => ~Live(l)
      BY <1>1 DEF Live
    <3> QED BY <3>1, <3>2 DEF Holds, Quiet
  <2>3. CASE l[1] # w
    <3>1. workflow'[l[1]] = workflow[l[1]] /\ deletion'[l[1]] = deletion[l[1]]
      BY <1>1, <2>1, <2>3
    <3> QED BY <3>1, QuietHolds
  <2> QED BY <2>2, <2>3
<1>3. \A l \in Logs : Awaited(l) => Awaited(l)'
  BY <1>1 DEF Awaited
<1> QED BY <1>1, <1>2, <1>3, CleanStays

LEMMA DeleteRowsClean ==
    ASSUME LogsInv, CleanInv, NEW w \in Workflows, deleteWorkflowLogsFromClickHouse(w)
    PROVE  CleanInv'
<1>0. /\ DeletionOnly /\ UNCHANGED <<search, tasks>> /\ clickhouse' \subseteq clickhouse
      /\ deletion[w].pc = "clickhouse"
      /\ \/ /\ clickhouse' = clickhouse \ LogsOf(w)
            /\ deletion' = [deletion EXCEPT ![w].pc = "search"]
         \/ deletion' = deletion
  BY DEF deleteWorkflowLogsFromClickHouse
<1>1. deletion \in [Workflows -> DeletionStates] /\ \A l \in Logs : Quiet(l)
  BY <1>0, TasksStay DEF LogsInv, WorkersInv
<1>2. PICK e : e = deletion'[w]
  OBVIOUS
<1>3. /\ deletion' = [deletion EXCEPT ![w] = e]
      /\ e.pc = "clickhouse" \/ (e.pc = "search" /\ clickhouse' = clickhouse \ LogsOf(w))
  BY <1>0, <1>1, <1>2 DEF DeletionStates
<1>4. ASSUME NEW l \in Logs, l[1] = w PROVE RowSettled(l)' /\ DocumentSettled(l)'
  <2>1. l \in LogsOf(w) /\ deletion'[l[1]] = e
    BY <1>2, <1>4 DEF LogsOf
  <2> QED BY <1>3, <2>1 DEF RowSettled, DocumentSettled
<1> QED BY <1>0, <1>1, <1>3, <1>4, DeletionClean

LEMMA DeleteDocumentsClean ==
    ASSUME LogsInv, CleanInv, NEW w \in Workflows, deleteWorkflowLogsFromMeiliSearch(w)
    PROVE  CleanInv'
<1>0. /\ DeletionOnly /\ UNCHANGED <<clickhouse, search>> /\ deletion[w].pc = "search"
      /\ tasks' \in {tasks, Enqueue("delete", LogsOf(w))}
      /\ \/ /\ tasks' = Enqueue("delete", LogsOf(w))
            /\ deletion' = [deletion EXCEPT ![w] = [pc |-> "wait", task |-> Len(tasks')]]
         \/ deletion' = [deletion EXCEPT ![w].pc = "clickhouse"]
  BY DEF deleteWorkflowLogsFromMeiliSearch
<1>1. /\ deletion \in [Workflows -> DeletionStates] /\ tasks \in Seq(SearchTasks) /\ QueueInv
      /\ LogsOf(w) \in SUBSET Logs /\ workflow[w] = "DELETED"
  BY <1>0, LogsTyped DEF LogsInv, BatchInv, StoreTypes, WorkersInv, DeletionInv
<1>2. \A l \in Logs : Quiet(l)
  BY <1>0, <1>1, TasksStay, TasksGrow
<1>3. PICK e : e = deletion'[w]
  OBVIOUS
<1>4. /\ deletion' = [deletion EXCEPT ![w] = e]
      /\ \/ e.pc = "clickhouse"
         \/ e.pc = "wait" /\ e.task = Len(tasks') /\ tasks' = Enqueue("delete", LogsOf(w))
  <2>1. CASE deletion' = [deletion EXCEPT ![w].pc = "clickhouse"]
    BY <1>1, <1>3, <2>1 DEF DeletionStates
  <2>2. CASE /\ tasks' = Enqueue("delete", LogsOf(w))
             /\ deletion' = [deletion EXCEPT ![w] = [pc |-> "wait", task |-> Len(tasks')]]
    <3>1. e = [pc |-> "wait", task |-> Len(tasks')]
      BY <1>1, <1>3, <2>2
    <3> QED BY <2>2, <3>1
  <2> QED BY <1>0, <2>1, <2>2
<1>5. ASSUME NEW l \in Logs, l[1] = w
      PROVE  (RowSettled(l) => RowSettled(l)') /\ DocumentSettled(l)'
  <2>1. l \in LogsOf(w) /\ deletion'[l[1]] = e /\ deletion[l[1]].pc = "search"
    BY <1>0, <1>3, <1>5 DEF LogsOf
  <2>2. RowSettled(l) => RowSettled(l)'
    BY <1>0, <2>1 DEF RowSettled
  <2>3. CASE e.pc = "clickhouse"
    BY <2>1, <2>2, <2>3 DEF DocumentSettled
  <2>4. CASE e.pc = "wait" /\ e.task = Len(tasks') /\ tasks' = Enqueue("delete", LogsOf(w))
    <3>1. \A k \in LogsOf(w) : ~Live(k)
      BY <1>1 DEF LogsOf, Live
    <3>2. /\ DOMAIN tasks' = 1 .. Len(tasks') /\ Len(tasks) \in Nat /\ Len(tasks') = Len(tasks) + 1
          /\ tasks'[Len(tasks')] = [op |-> "delete", logs |-> LogsOf(w), status |-> "enqueued"]
      BY <1>0, <1>1, <2>4, <3>1, QueueGrows DEF DeletionOnly
    <3>3. /\ e.task \in DOMAIN tasks' /\ tasks'[e.task].op = "delete" /\ l \in tasks'[e.task].logs
          /\ tasks'[e.task].status = "enqueued"
      BY <2>1, <2>4, <3>2
    <3>4. \A i \in DOMAIN tasks' : Adding(l, i)' => i < e.task
      BY <2>4, <3>2, <3>3 DEF Adding
    <3>5. DeletesAfter(l, e.task)'
      BY <3>3, <3>4 DEF DeletesAfter
    <3> QED BY <2>1, <2>2, <2>4, <3>5 DEF DocumentSettled
  <2> QED BY <1>4, <2>3, <2>4
<1> QED BY <1>0, <1>2, <1>4, <1>5, DeletionClean

LEMMA DeleteWaitClean ==
    ASSUME LogsInv, CleanInv, NEW w \in Workflows, waitForMeiliSearchDeleteTask(w)
    PROVE  CleanInv'
<1>0. /\ DeletionOnly /\ UNCHANGED <<clickhouse, search, tasks>> /\ deletion[w].pc = "wait"
      /\ \/ /\ tasks[deletion[w].task].status = "succeeded"
            /\ deletion' = [deletion EXCEPT ![w] = [pc |-> "done", task |-> 0]]
         \/ deletion' = [deletion EXCEPT ![w] = [pc |-> "clickhouse", task |-> 0]]
  BY DEF waitForMeiliSearchDeleteTask, TaskDone
<1>1. /\ deletion \in [Workflows -> DeletionStates] /\ tasks \in Seq(SearchTasks) /\ QueueInv
      /\ \A l \in Logs : Quiet(l)
  BY <1>0, TasksStay DEF LogsInv, BatchInv, StoreTypes, WorkersInv
<1>2. PICK e : e = deletion'[w]
  OBVIOUS
<1>3. /\ deletion' = [deletion EXCEPT ![w] = e]
      /\ e.pc = "clickhouse" \/ (e.pc = "done" /\ tasks[deletion[w].task].status = "succeeded")
  BY <1>0, <1>1, <1>2
<1>4. ASSUME NEW l \in Logs, l[1] = w
      PROVE  (RowSettled(l) => RowSettled(l)') /\ (Settled(l) => DocumentSettled(l)')
  <2>1. deletion'[l[1]] = e /\ deletion[l[1]].pc = "wait"
    BY <1>0, <1>2, <1>4
  <2>2. RowSettled(l) => RowSettled(l)'
    BY <1>0, <2>1 DEF RowSettled
  <2>3. CASE e.pc = "clickhouse"
    BY <2>1, <2>2, <2>3 DEF DocumentSettled
  <2>4. CASE e.pc = "done" /\ tasks[deletion[w].task].status = "succeeded"
    <3>1. SUFFICES ASSUME Settled(l) PROVE ~Coming(l)'
      BY <2>2 DEF DocumentSettled
    <3>2. ~Coming(l)
      BY <1>1, <1>4, <2>1, <2>4, <3>1, DeletedForGood DEF Settled, DocumentSettled
    <3> QED BY <1>1, <3>2 DEF Quiet
  <2> QED BY <1>3, <2>3, <2>4
<1> QED BY <1>0, <1>1, <1>3, <1>4, DeletionClean

LEMMA CleanInitially == LogsInit => CleanInv
<1> SUFFICES ASSUME LogsInit PROVE CleanInv
  OBVIOUS
<1>1. \A l \in Logs : Live(l)
  BY LogsTyped DEF LogsInit, Live
<1>2. ASSUME NEW c \in LogLanes PROVE CleanLane(lane[c])
  <2>1. /\ lane[c].batch = <<>> /\ lane[c].skipped = {} /\ lane[c].pc = "idle"
    BY DEF LogsInit, IdleLane
  <2> QED BY <2>1, NoBatch DEF CleanLane
<1> QED BY <1>1, <1>2 DEF CleanInv

LEMMA CleanInvStep ==
    ASSUME LogsInv, CleanInv, [LogsNext]_logVars
    PROVE  CleanInv'
<1>1. CASE UNCHANGED logVars
  <2>1. <<>> \in Seq(Logs)
    BY NoRecords
  <2> QED BY <1>1, <2>1, TopicClean DEF logVars, storeVars, processorVars
<1>2. CASE LogsNext
  <2>1. ASSUME NEW w \in Workflows,
               WorkerStep(w) \/ replayContainerLogs(w) \/ DeleteWorkflow(w) \/ DeletionStep(w)
        PROVE  CleanInv'
    BY <2>1, WorkerClean, DeleteClean, DeleteRowsClean, DeleteDocumentsClean, DeleteWaitClean
       DEF DeletionStep
  <2>2. ASSUME NEW c \in LogLanes, LaneStep(c) \/ Rebalance(c) \/ CrashProcessor(c)
        PROVE  CleanInv'
    BY <2>2, PollClean, FilterClean, CleanRowsClean, CleanDocumentsClean, InsertRowsClean, AddDocumentsClean,
       WaitClean, AnalyticsClean, CommitClean, AbandonClean, RebalanceClean, CrashClean DEF LaneStep
  <2> QED BY <1>2, <2>1, <2>2, SearchClean DEF LogsNext
<1> QED BY <1>1, <1>2

LEMMA LogsTypesHold == LogsInv => LogsTypeOK
<1> SUFFICES ASSUME LogsInv PROVE LogsTypeOK
  OBVIOUS
<1>1. \A c \in LogLanes : BatchLogs(c) \subseteq Logs /\ lane[c].active \subseteq BatchLogs(c)
  BY LaneFacts DEF BatchLogs
<1> QED BY <1>1 DEF LogsTypeOK, LogsInv, BatchInv, StoreTypes, WorkersInv

LEMMA LinesCountedOnce == LogsInv => EachLineCountedOnce
<1> SUFFICES ASSUME LogsInv PROVE EachLineCountedOnce
  OBVIOUS
<1>1. topic \in Seq(Logs) /\ CountInv
  BY LanesAre DEF LogsInv
<1>2. CommittedLogs \subseteq ToSet(topic) /\ CommittedLogs \subseteq Logs
  <2>1. \A i \in 1 .. logOffset : i \in 1 .. Len(topic)
    BY LanesAre, LenProperties
  <2> QED BY <1>1, <2>1, BatchTyped DEF CommittedLogs
<1>3. ASSUME NEW w \in Workflows
      PROVE  /\ logsCount[w] <= Cardinality({l \in ToSet(topic) : l[1] = w})
             /\ workflow[w] = "LIVE" => Cardinality({l \in CommittedLogs : l[1] = w}) <= logsCount[w]
  <2> DEFINE counted == {l \in processed : l[1] = w}
             published == {l \in ToSet(topic) : l[1] = w}
             settled == {l \in CommittedLogs : l[1] = w}
  <2>1. /\ published \in SUBSET ToSet(topic) /\ counted \in SUBSET published
        /\ workflow[w] = "LIVE" => settled \in SUBSET counted
    BY <1>1, <1>2 DEF CountInv, Live
  <2>2. logsCount[w] = Cardinality(counted)
    BY <1>1 DEF CountInv
  <2>3. /\ Cardinality(counted) <= Cardinality(published)
        /\ workflow[w] = "LIVE" => Cardinality(settled) <= Cardinality(counted)
    <3> HIDE DEF counted, published, settled
    <3>1. IsFiniteSet(published) /\ IsFiniteSet(counted)
      BY <1>1, <2>1, TopicFinite
    <3> QED BY <2>1, <3>1, FS_Subset
  <2> QED BY <2>2, <2>3
<1> QED BY <1>3 DEF EachLineCountedOnce

LEMMA DeletedAreGone == LogsInv /\ CleanInv /\ OneAssignment => DeletedLogsGone
<1> SUFFICES ASSUME LogsInv, CleanInv, OneAssignment,
                    NEW l \in Logs, workflow[l[1]] = "DELETED", deletion[l[1]].pc = "done", ~Pending(l)
             PROVE  l \notin clickhouse \cup search
  BY DEF DeletedLogsGone
<1>1. ~Live(l) /\ ~Awaited(l)
  BY DEF Live, Awaited, Pending
<1>2. Settled(l)
  BY <1>1 DEF CleanInv
<1> QED BY <1>2 DEF Settled, RowSettled, DocumentSettled, Coming

(* The job logs, for every number of workflows, lines, lanes and faults:     *)
(* what processRecordsBatch committed is in both stores, each line counts    *)
(* once, and after the handling of a DELETE event the logs of the workflow   *)
(* are in neither store, as long as the partition has kept its owner.        *)
THEOREM JobLogsSafe == LogsSpec => []LogsStoredOnce
<1>1. LogsInit => LogsInv /\ CleanInv
  BY LogsInitially, CleanInitially
<1>2. LogsInv /\ CleanInv /\ [LogsNext]_logVars => (LogsInv /\ CleanInv)'
  BY LogsInvStep, CleanInvStep
<1>3. LogsInv /\ CleanInv => LogsStoredOnce
  <2>1. LogsInv /\ CleanInv => LogsTypeOK /\ EachLineCountedOnce /\ CommittedLogsStored
    BY LogsTypesHold, LinesCountedOnce DEF LogsInv
  <2> QED BY <2>1, DeletedAreGone DEF LogsStoredOnce, OneAssignment
<1> QED BY <1>1, <1>2, <1>3, PTL DEF LogsSpec

-----------------------------------------------------------------------------
(* The reads of the job logs.                                              *)

Over == job = "SETTLED"
Stored(n) == {Arrivals[i] : i \in 1 .. n}
Prefix(table) ==
    /\ IsFiniteSet(table) /\ Cardinality(table) \in 0 .. Len(Arrivals)
    /\ table = Stored(Cardinality(table))

\* Both stores have the first rows, Meilisearch no more than ClickHouse.  A row
\* that was stored in between earlier ones is untimely, and so is one that was not
\* found yet when the buffer passed.
StoresInv ==
    /\ Prefix(rows) /\ Prefix(indexed) /\ Cardinality(indexed) <= Cardinality(rows)
    /\ job \in {"RUNNING", "DONE", "SETTLED"}
    /\ \A i \in 1 .. Cardinality(rows) :
          Between(Arrivals[i], Stored(i - 1)) => Arrivals[i] \in untimely
    /\ Over => Rows \ indexed \subseteq untimely

Answers == [logs : BOOLEAN, table : SUBSET Rows, status : {"none", "running", "terminal"}]
ReaderStates ==
    [pc : {"idle", "read", "fetch", "end"}, cursor : Rows \cup {NoCursor},
     got : SUBSET Rows, owed : SUBSET Rows, behind : SUBSET Rows, answer : Answers]

\* The answer to a query of a store, as old as it may be; over says whether the
\* buffer has passed, waived which rows are untimely.
AnswerInv(over, waived, r, store) ==
    r.answer.logs =>
        /\ Prefix(r.answer.table) /\ r.answer.table \subseteq store
        /\ r.owed \subseteq r.answer.table /\ r.cursor \in r.answer.table \cup {NoCursor}
        /\ over => Rows \ r.answer.table \subseteq waived

\* A row that a reader need not get any more.
Quits(waived, r, x) == x \in r.got \/ (x \in r.behind /\ x \in waived)

\* What a reader is owed was there when it started; what is behind its cursor
\* has been given to it, or was untimely.
ReaderInv(over, waived, r, store) ==
    /\ r.owed \subseteq store /\ r.cursor \in store \cup {NoCursor}
    /\ r.cursor # NoCursor => \A x \in r.owed : Before(x, r.cursor) => Quits(waived, r, x)
    /\ r.pc = "end" => \A x \in r.owed : Quits(waived, r, x)
    /\ r.answer.status = "terminal" => over
    /\ AnswerInv(over, waived, r, store)

\* A page at k has the rows of its table from k on, up to the next cursor.
Covers(table, k, page, next) ==
    \A x \in table : (k = NoCursor \/ x = k \/ Before(k, x)) /\ (next = NoCursor \/ Before(x, next))
                        => x \in page

\* A cached page keeps what it was read from in sight: rows that are not in its
\* table came later, and after a page without a successor they came late.
PageInv(over, waived, store, k, p) ==
    /\ Prefix(p.table) /\ p.table \subseteq store /\ p.page \subseteq Rows
    /\ k \in p.table /\ p.next \in p.table \cup {NoCursor}
    /\ Covers(p.table, k, p.page, p.next)
    /\ p.next = NoCursor => over /\ Rows \ p.table \subseteq waived

CacheInv ==
    /\ cache \in [Endpoints \X Rows -> Pages]
    /\ \A e \in Endpoints, k \in Rows : cache[<<e, k>>].cached =>
          PageInv(Over, untimely, Store(e), k, cache[<<e, k>>])
    /\ sets \subseteq [key : Endpoints \X Rows, page : SUBSET Rows, next : Rows \cup {NoCursor},
                       table : SUBSET Rows]
    /\ \A s \in sets : PageInv(Over, untimely, Store(s.key[1]), s.key[2], s)

ReadersInv ==
    /\ reader \in [Readers -> ReaderStates]
    /\ \A c \in Readers : ReaderInv(Over, untimely, reader[c], Store(Endpoint(c)))

LogReadsInv == StoresInv /\ ReadersInv /\ CacheInv

-----------------------------------------------------------------------------
(* The stores.                                                               *)

LEMMA PrefixRows ==
    ASSUME LogReadsAssumption, NEW table, Prefix(table) PROVE table \subseteq Rows
<1>1. \A i \in 1 .. Len(Arrivals) : Arrivals[i] \in Rows
  BY DEF LogReadsAssumption
<1> QED BY <1>1 DEF Prefix, Stored

LEMMA PrefixWithin ==
    ASSUME LogReadsAssumption, NEW small, NEW large, Prefix(small), Prefix(large),
           Cardinality(small) <= Cardinality(large)
    PROVE  small \subseteq large
<1>1. Len(Arrivals) \in Nat
  BY DEF LogReadsAssumption
<1> DEFINE m == Cardinality(small)
           n == Cardinality(large)
<1>2. m \in 0 .. Len(Arrivals) /\ n \in 0 .. Len(Arrivals) /\ m <= n
  BY DEF Prefix
<1>3. small = Stored(m) /\ large = Stored(n)
  BY DEF Prefix
<1> HIDE DEF m, n
<1>4. 1 .. m \subseteq 1 .. n
  BY <1>1, <1>2
<1> QED BY <1>3, <1>4 DEF Stored

\* The next arrival is a new row.
LEMMA NextArrival ==
    ASSUME LogReadsAssumption, NEW table, Prefix(table), ~AllArrived(table),
           NEW x, x = Arrivals[Cardinality(table) + 1]
    PROVE  /\ Prefix(table \cup {x}) /\ Cardinality(table \cup {x}) = Cardinality(table) + 1
           /\ x \in Rows
<1> DEFINE n == Cardinality(table)
<1>1. Len(Arrivals) \in Nat /\ n \in 0 .. Len(Arrivals) /\ n # Len(Arrivals) /\ table = Stored(n)
      /\ IsFiniteSet(table) /\ x = Arrivals[n + 1]
  BY DEF Prefix, LogReadsAssumption, AllArrived
<1>2. /\ \A i \in 1 .. Len(Arrivals) : Arrivals[i] \in Rows
      /\ \A i, j \in 1 .. Len(Arrivals) : i # j => Arrivals[i] # Arrivals[j]
  BY DEF LogReadsAssumption
<1> HIDE DEF n
<1>3. n + 1 \in 1 .. Len(Arrivals) /\ \A i \in 1 .. n : i \in 1 .. Len(Arrivals) /\ i # n + 1
  BY <1>1
<1>4. x \in Rows /\ x \notin table
  BY <1>1, <1>2, <1>3 DEF Stored
<1>5. IsFiniteSet(table \cup {x}) /\ Cardinality(table \cup {x}) = n + 1
  BY <1>1, <1>4, FS_AddElement DEF n
<1>6. table \cup {x} = Stored(n + 1)
  <2>1. 1 .. n + 1 = 1 .. n \cup {n + 1}
    BY <1>1
  <2> QED BY <1>1, <2>1 DEF Stored
<1>7. Prefix(table \cup {x})
  <2>1. n + 1 \in 0 .. Len(Arrivals)
    BY <1>1, <1>3
  <2> QED BY <1>5, <1>6, <2>1 DEF Prefix
<1> QED BY <1>4, <1>5, <1>7 DEF n

LEMMA StoresRows ==
    ASSUME LogReadsAssumption, StoresInv
    PROVE  /\ indexed \subseteq rows /\ rows \subseteq Rows
           /\ \A e : /\ Store(e) \subseteq rows /\ indexed \subseteq Store(e)
                     /\ Store(e) \subseteq Rows /\ Prefix(Store(e))
<1>1. indexed \subseteq rows /\ rows \subseteq Rows
  BY PrefixWithin, PrefixRows DEF StoresInv
<1> QED BY <1>1 DEF StoresInv, Store

\* A row that came after a snapshot and lies in between its rows is untimely.
LEMMA LaterRow ==
    ASSUME LogReadsAssumption, StoresInv, NEW table, Prefix(table), NEW x \in rows, x \notin table,
           NEW a \in table, NEW b \in table, Before(a, x), Before(x, b)
    PROVE  x \in untimely
<1> DEFINE m == Cardinality(table)
           n == Cardinality(rows)
<1>1. m \in 0 .. Len(Arrivals) /\ n \in 0 .. Len(Arrivals) /\ Len(Arrivals) \in Nat
      /\ table = Stored(m) /\ rows = Stored(n)
  BY DEF Prefix, LogReadsAssumption, StoresInv
<1>2. \A i \in 1 .. n : Between(Arrivals[i], Stored(i - 1)) => Arrivals[i] \in untimely
  BY DEF StoresInv
<1> HIDE DEF m, n
<1>3. PICK i \in 1 .. n : x = Arrivals[i]
  BY <1>1 DEF Stored
<1>4. i \notin 1 .. m
  BY <1>1, <1>3 DEF Stored
<1>5. 1 .. m \subseteq 1 .. i - 1
  BY <1>1, <1>4
<1>6. table \subseteq Stored(i - 1)
  BY <1>1, <1>5 DEF Stored
<1> QED BY <1>2, <1>3, <1>6 DEF Between

-----------------------------------------------------------------------------
(* A row arrives, or turns out to be late.                                     *)

LEMMA PageStays ==
    ASSUME NEW over, NEW waived, NEW store, NEW after, NEW more, NEW larger, over => after,
           waived \subseteq more, store \subseteq larger,
           NEW k, NEW p, PageInv(over, waived, store, k, p)
    PROVE  PageInv(after, more, larger, k, p)
BY DEF PageInv

LEMMA AnswerStays ==
    ASSUME NEW over, NEW waived, NEW more, NEW r, NEW store, NEW larger,
           AnswerInv(over, waived, r, store), waived \subseteq more, store \subseteq larger
    PROVE  AnswerInv(over, more, r, larger)
BY DEF AnswerInv

LEMMA ReaderStays ==
    ASSUME NEW over, NEW waived, NEW more, NEW r, NEW store, NEW larger,
           ReaderInv(over, waived, r, store), waived \subseteq more, store \subseteq larger
    PROVE  ReaderInv(over, more, r, larger)
BY AnswerStays DEF ReaderInv, Quits

LEMMA PagesStay ==
    ASSUME LogReadsInv, UNCHANGED <<cache, sets>>, untimely \subseteq untimely', Over => Over',
           \A e \in Endpoints : Store(e) \subseteq Store(e)'
    PROVE  CacheInv'
<1>1. \A e \in Endpoints : \A k, p :
         PageInv(Over, untimely, Store(e), k, p) => PageInv(Over', untimely', Store(e)', k, p)
  BY PageStays
<1>2. \A s \in sets : s.key[1] \in Endpoints
  BY DEF LogReadsInv, CacheInv
<1> QED BY <1>1, <1>2 DEF LogReadsInv, CacheInv

LEMMA StoreGrows ==
    ASSUME LogReadsInv, Over' = Over, UNCHANGED <<cache, sets, reader>>, StoresInv',
           untimely \subseteq untimely', \A e \in Endpoints : Store(e) \subseteq Store(e)'
    PROVE  LogReadsInv'
<1>1. \A c \in Readers : Endpoint(c) \in Endpoints
  BY DEF Endpoint, Endpoints
<1>2. ReadersInv'
  <2> SUFFICES ASSUME NEW c \in Readers
               PROVE  ReaderInv(Over, untimely', reader[c], Store(Endpoint(c))')
    BY DEF LogReadsInv, ReadersInv
  <2>1. ReaderInv(Over, untimely, reader[c], Store(Endpoint(c)))
    BY DEF LogReadsInv, ReadersInv
  <2> QED BY <1>1, <2>1, ReaderStays
<1> QED BY <1>2, PagesStay DEF LogReadsInv

LEMMA StoreRowKeeps ==
    ASSUME LogReadsAssumption, LogReadsInv, StoreRow PROVE LogReadsInv'
<1> DEFINE n == Cardinality(rows)
           x == Arrivals[n + 1]
<1>1. /\ job' = job /\ UNCHANGED <<indexed, cache, sets, reader>> /\ rows' = rows \cup {x}
      /\ untimely' = IF Between(x, rows) THEN untimely \cup {x} ELSE untimely
  BY DEF StoreRow
<1>2. /\ Prefix(rows \cup {x}) /\ Cardinality(rows \cup {x}) = n + 1 /\ x \in Rows
  BY NextArrival DEF LogReadsInv, StoresInv, StoreRow
<1>3. n \in Nat /\ rows = Stored(n)
  BY DEF LogReadsInv, StoresInv, Prefix
<1>4. \A i \in 1 .. n : Between(Arrivals[i], Stored(i - 1)) => Arrivals[i] \in untimely
  BY DEF LogReadsInv, StoresInv
<1> HIDE DEF n
<1>5. StoresInv'
  <2>1. Cardinality(indexed) <= n + 1
    BY <1>3 DEF LogReadsInv, StoresInv, Prefix, n
  <2>2. Prefix(rows') /\ Cardinality(rows') = n + 1
    BY <1>1, <1>2
  <2>3. ASSUME NEW i \in 1 .. n + 1, Between(Arrivals[i], Stored(i - 1))
        PROVE  Arrivals[i] \in untimely'
    <3>1. CASE i = n + 1
      <4>1. i - 1 = n
        BY <1>3, <3>1
      <4> QED BY <1>1, <1>3, <2>3, <3>1, <4>1
    <3>2. CASE i \in 1 .. n
      BY <1>1, <1>4, <2>3, <3>2
    <3> QED BY <1>3, <3>1, <3>2
  <2>4. Over' = Over /\ untimely \subseteq untimely'
    BY <1>1 DEF Over
  <2>5. \A i \in 1 .. Cardinality(rows') : Between(Arrivals[i], Stored(i - 1)) => Arrivals[i] \in untimely'
    BY <2>2, <2>3
  <2> HIDE DEF x
  <2> QED BY <1>1, <2>1, <2>2, <2>4, <2>5 DEF LogReadsInv, StoresInv
<1>6. \A e \in Endpoints : Store(e) \subseteq Store(e)'
  BY <1>1 DEF Store
<1>7. Over' = Over /\ untimely \subseteq untimely'
  BY <1>1 DEF Over
<1> QED BY <1>1, <1>5, <1>6, <1>7, StoreGrows

LEMMA IndexRowKeeps ==
    ASSUME LogReadsAssumption, LogReadsInv, IndexRow PROVE LogReadsInv'
<1> DEFINE x == Arrivals[Cardinality(indexed) + 1]
<1>1. job' = job /\ UNCHANGED <<rows, cache, sets, reader, untimely>> /\ indexed' = indexed \cup {x}
  BY DEF IndexRow
<1>2. Cardinality(indexed) < Cardinality(rows) /\ Cardinality(rows) <= Len(Arrivals)
  <2>1. /\ rows = Stored(Cardinality(rows)) /\ indexed = Stored(Cardinality(indexed))
        /\ rows # indexed
    BY DEF LogReadsInv, StoresInv, IndexRow, Prefix
  <2>2. Cardinality(rows) # Cardinality(indexed)
    BY <2>1
  <2> QED BY <2>2 DEF LogReadsInv, StoresInv, Prefix
<1>3. ~AllArrived(indexed)
  BY <1>2 DEF AllArrived, LogReadsInv, StoresInv, Prefix, LogReadsAssumption
<1>4. Prefix(indexed \cup {x}) /\ Cardinality(indexed \cup {x}) = Cardinality(indexed) + 1
  BY <1>3, NextArrival DEF LogReadsInv, StoresInv
<1> HIDE DEF x
<1>5. Over' = Over
  BY <1>1 DEF Over
<1>6. StoresInv'
  <2>1. Prefix(indexed') /\ Cardinality(indexed') = Cardinality(indexed) + 1
    BY <1>1, <1>4
  <2>2. Cardinality(indexed) + 1 <= Cardinality(rows)
    BY <1>2 DEF LogReadsInv, StoresInv, Prefix
  <2>3. indexed \subseteq indexed'
    BY <1>1
  <2> QED BY <1>1, <1>5, <2>1, <2>2, <2>3 DEF LogReadsInv, StoresInv
<1>7. \A e \in Endpoints : Store(e) \subseteq Store(e)'
  BY <1>1 DEF Store
<1> QED BY <1>1, <1>5, <1>6, <1>7, StoreGrows

-----------------------------------------------------------------------------
(* The job ends.                                                             *)

LEMMA CompleteKeeps == ASSUME LogReadsInv, Complete PROVE LogReadsInv'
<1>1. ~Over /\ ~Over' /\ job' = "DONE" /\ UNCHANGED <<rows, indexed, cache, sets, reader, untimely>>
  BY DEF Complete, Over
<1>2. Over' = Over /\ \A e : Store(e)' = Store(e)
  BY <1>1 DEF Store, Over
<1>3. StoresInv'
  BY <1>1 DEF LogReadsInv, StoresInv
<1> QED BY <1>1, <1>2, <1>3, StoreGrows

LEMMA BufferPassesKeeps == ASSUME LogReadsInv, BufferPasses PROVE LogReadsInv'
<1>1. /\ Over' /\ job' = "SETTLED" /\ UNCHANGED <<rows, indexed, cache, sets, reader>>
      /\ untimely \subseteq untimely' /\ Rows \ indexed \subseteq untimely'
      /\ \A c \in Readers : reader[c].answer.logs => Rows \ reader[c].answer.table \subseteq untimely'
  BY DEF BufferPasses, Over
<1>2. \A e : Store(e)' = Store(e)
  BY <1>1 DEF Store
<1>3. StoresInv'
  BY <1>1 DEF LogReadsInv, StoresInv
<1>4. ReadersInv'
  <2> SUFFICES ASSUME NEW c \in Readers
               PROVE  ReaderInv(TRUE, untimely', reader[c], Store(Endpoint(c)))
    BY <1>1, <1>2 DEF LogReadsInv, ReadersInv
  <2>1. ReaderInv(Over, untimely', reader[c], Store(Endpoint(c)))
    BY <1>1, ReaderStays DEF LogReadsInv, ReadersInv
  <2>2. AnswerInv(TRUE, untimely', reader[c], Store(Endpoint(c)))
    BY <1>1, <2>1 DEF ReaderInv, AnswerInv
  <2> QED BY <2>1, <2>2 DEF ReaderInv
<1>5. CacheInv'
  BY <1>1, <1>2, PagesStay
<1> QED BY <1>3, <1>4, <1>5 DEF LogReadsInv

-----------------------------------------------------------------------------
(* A reader moves.                                                           *)

LEMMA ReaderMoves ==
    ASSUME LogReadsInv, NEW c \in Readers, NEW r \in ReaderStates,
           ReaderInv(Over, untimely, r, Store(Endpoint(c))),
           reader' = [reader EXCEPT ![c] = r], UNCHANGED <<rows, indexed, job, untimely>>
    PROVE  StoresInv' /\ ReadersInv' /\ Over' = Over /\ \A e : Store(e)' = Store(e)
<1>1. Over' = Over /\ \A e : Store(e)' = Store(e)
  BY DEF Over, Store
<1>2. StoresInv'
  BY DEF LogReadsInv, StoresInv, Over
<1>3. reader \in [Readers -> ReaderStates]
  BY DEF LogReadsInv, ReadersInv
<1>4. \A d \in Readers : ReaderInv(Over, untimely, reader[d], Store(Endpoint(d)))
  BY DEF LogReadsInv, ReadersInv
<1>5. reader' \in [Readers -> ReaderStates]
  BY <1>3
<1>6. \A d \in Readers : ReaderInv(Over, untimely, reader'[d], Store(Endpoint(d)))
  BY <1>3, <1>4
<1> QED BY <1>1, <1>2, <1>5, <1>6 DEF ReadersInv

LEMMA CacheStays ==
    ASSUME LogReadsInv, UNCHANGED <<cache, sets>>, Over' = Over, untimely' = untimely, \A e : Store(e)' = Store(e)
    PROVE  CacheInv'
BY DEF LogReadsInv, CacheInv

LEMMA ReaderOnly ==
    ASSUME LogReadsInv, NEW c \in Readers, NEW r \in ReaderStates,
           ReaderInv(Over, untimely, r, Store(Endpoint(c))),
           reader' = [reader EXCEPT ![c] = r], UNCHANGED <<rows, indexed, job, cache, sets, untimely>>
    PROVE  LogReadsInv'
BY ReaderMoves, CacheStays DEF LogReadsInv

LEMMA ReaderIs ==
    ASSUME LogReadsInv, NEW c \in Readers
    PROVE  /\ reader[c] \in ReaderStates /\ ReaderInv(Over, untimely, reader[c], Store(Endpoint(c)))
           /\ reader \in [Readers -> ReaderStates]
BY DEF LogReadsInv, ReadersInv

LEMMA IdleFits ==
    /\ IdleReader \in ReaderStates
    /\ NoAnswer \in Answers
    /\ \A over, waived, store : ReaderInv(over, waived, IdleReader, store)
<1>1. ~NoAnswer.logs /\ NoAnswer.status = "none"
  BY DEF NoAnswer
<1>2. /\ IdleReader.owed = {} /\ IdleReader.cursor = NoCursor /\ IdleReader.pc = "idle"
      /\ IdleReader.answer = NoAnswer
  BY DEF IdleReader
<1> QED BY <1>1, <1>2 DEF ReaderInv, AnswerInv, Quits, IdleReader, ReaderStates, NoAnswer, Answers

LEMMA OpenKeeps ==
    ASSUME LogReadsAssumption, LogReadsInv, NEW c \in Readers, Open(c) PROVE LogReadsInv'
<1> DEFINE r == [IdleReader EXCEPT !.pc = "read", !.owed = Store(Endpoint(c))]
<1>1. reader' = [reader EXCEPT ![c] = r] /\ UNCHANGED <<rows, indexed, job, cache, sets, untimely>>
  BY DEF Open
<1>2. Store(Endpoint(c)) \subseteq Rows
  BY StoresRows DEF LogReadsInv
<1>3. r \in ReaderStates
  BY <1>2 DEF IdleReader, ReaderStates, NoAnswer, Answers
<1>4. /\ r.pc = "read" /\ r.owed = Store(Endpoint(c)) /\ r.cursor = NoCursor
      /\ ~r.answer.logs /\ r.answer.status = "none"
  BY DEF IdleReader, NoAnswer
<1> HIDE DEF r
<1>5. ReaderInv(Over, untimely, r, Store(Endpoint(c)))
  BY <1>4 DEF ReaderInv, AnswerInv, Quits
<1> QED BY <1>1, <1>3, <1>5, ReaderOnly

LEMMA MissKeeps == ASSUME LogReadsInv, NEW c \in Readers, Miss(c) PROVE LogReadsInv'
<1> DEFINE r == [reader[c] EXCEPT !.pc = "fetch"]
<1>1. reader' = [reader EXCEPT ![c] = r] /\ UNCHANGED <<rows, indexed, job, cache, sets, untimely>>
  BY DEF Miss
<1>2. r \in ReaderStates
  BY ReaderIs DEF ReaderStates, Answers
<1>3. /\ r.pc = "fetch" /\ r.owed = reader[c].owed /\ r.cursor = reader[c].cursor
      /\ r.got = reader[c].got /\ r.behind = reader[c].behind /\ r.answer = reader[c].answer
  BY ReaderIs DEF ReaderStates, Answers
<1> HIDE DEF r
<1>4. ReaderInv(Over, untimely, r, Store(Endpoint(c)))
  BY <1>3, ReaderIs DEF ReaderInv, AnswerInv, Quits
<1> QED BY <1>1, <1>2, <1>4, ReaderOnly

LEMMA FailKeeps == ASSUME LogReadsInv, NEW c \in Readers, Fail(c) PROVE LogReadsInv'
BY IdleFits, ReaderOnly DEF Fail

LEMMA QueryLogsKeeps ==
    ASSUME LogReadsAssumption, LogReadsInv, NEW c \in Readers, QueryLogs(c, Endpoint(c))
    PROVE  LogReadsInv'
<1> DEFINE table == Store(Endpoint(c))
           r == [reader[c] EXCEPT !.answer.logs = TRUE, !.answer.table = table]
<1>1. reader' = [reader EXCEPT ![c] = r] /\ UNCHANGED <<rows, indexed, job, cache, sets, untimely>>
  BY ReaderIs DEF QueryLogs
<1>2. table \subseteq Rows /\ Prefix(table)
  BY StoresRows DEF LogReadsInv
<1>3. Over => Rows \ table \subseteq untimely
  BY StoresRows DEF LogReadsInv, StoresInv
<1> HIDE DEF table
<1>4. r \in ReaderStates
  <2>1. /\ reader[c] \in ReaderStates
        /\ reader[c].answer \in Answers
    BY ReaderIs DEF ReaderStates, Answers
  <2>2. [[reader[c].answer EXCEPT !.logs = TRUE] EXCEPT !.table = table] \in Answers
    BY <1>2, <2>1 DEF Answers
  <2>3. r = [reader[c] EXCEPT
                !.answer = [[reader[c].answer EXCEPT !.logs = TRUE] EXCEPT !.table = table]]
    BY <2>1 DEF ReaderStates
  <2> HIDE DEF r
  <2> QED BY <2>1, <2>2, <2>3 DEF ReaderStates
<1>5. /\ r.pc = reader[c].pc /\ r.owed = reader[c].owed /\ r.cursor = reader[c].cursor
      /\ r.got = reader[c].got /\ r.behind = reader[c].behind /\ r.answer.status = reader[c].answer.status
      /\ r.answer.table = table
  BY ReaderIs DEF ReaderStates, Answers
<1> HIDE DEF r
<1>6. ReaderInv(Over, untimely, reader[c], table)
  BY ReaderIs DEF table
<1>7. AnswerInv(Over, untimely, r, table)
  BY <1>2, <1>3, <1>5, <1>6 DEF ReaderInv, AnswerInv, Quits
<1>8. ReaderInv(Over, untimely, r, table)
  BY <1>5, <1>6, <1>7 DEF ReaderInv, Quits
<1> QED BY <1>1, <1>4, <1>8, ReaderOnly DEF table

LEMMA QueryStatusKeeps ==
    ASSUME LogReadsInv, NEW c \in Readers, QueryStatus(c) PROVE LogReadsInv'
<1> DEFINE status == IF job = "SETTLED" THEN "terminal" ELSE "running"
           r == [reader[c] EXCEPT !.answer.status = status]
<1>1. reader' = [reader EXCEPT ![c] = r] /\ UNCHANGED <<rows, indexed, job, cache, sets, untimely>>
  BY DEF QueryStatus
<1>2. status \in {"running", "terminal"} /\ (status = "terminal" => Over)
  BY DEF Over
<1> HIDE DEF status
<1>3. r \in ReaderStates
  <2>1. reader[c] \in ReaderStates /\ reader[c].answer \in Answers
    BY ReaderIs DEF ReaderStates, Answers
  <2>2. [reader[c].answer EXCEPT !.status = status] \in Answers
    BY <1>2, <2>1 DEF Answers
  <2>3. r = [reader[c] EXCEPT !.answer = [reader[c].answer EXCEPT !.status = status]]
    BY <2>1 DEF ReaderStates
  <2> HIDE DEF r
  <2> QED BY <2>1, <2>2, <2>3 DEF ReaderStates
<1>4. /\ r.pc = reader[c].pc /\ r.owed = reader[c].owed /\ r.cursor = reader[c].cursor
      /\ r.got = reader[c].got /\ r.behind = reader[c].behind /\ r.answer.status = status
      /\ r.answer.table = reader[c].answer.table /\ r.answer.logs = reader[c].answer.logs
  BY ReaderIs DEF ReaderStates, Answers
<1> HIDE DEF r
<1>5. ReaderInv(Over, untimely, r, Store(Endpoint(c)))
  BY <1>2, <1>4, ReaderIs DEF ReaderInv, AnswerInv, Quits
<1> QED BY <1>1, <1>3, <1>5, ReaderOnly

-----------------------------------------------------------------------------
(* A page is delivered.                                                      *)

\* Whatever page a reader takes must have all that it is owed, from its cursor up
\* to the next one, but for untimely rows that the page's table does not have.
LEMMA DeliverFits ==
    ASSUME LogReadsAssumption, LogReadsInv, NEW c \in Readers, NEW page \in SUBSET Rows,
           NEW next \in Rows \cup {NoCursor}, next \in Store(Endpoint(c)) \cup {NoCursor},
           NEW table, Covers(reader[c].owed \ (untimely \ table), reader[c].cursor, page, next),
           Deliver(c, page, next, table)
    PROVE  \E r \in ReaderStates : /\ ReaderInv(Over, untimely, r, Store(Endpoint(c)))
                                   /\ reader' = [reader EXCEPT ![c] = r]
<1> DEFINE pc == IF next = NoCursor THEN "end" ELSE "read"
           r == [pc |-> pc, cursor |-> next, got |-> reader[c].got \cup page,
                 owed |-> reader[c].owed, behind |-> reader[c].behind \cup (reader[c].owed \ table),
                 answer |-> NoAnswer]
<1>1. reader' = [reader EXCEPT ![c] = r]
  BY ReaderIs DEF Deliver
<1>2. /\ reader[c].got \subseteq Rows /\ reader[c].owed \subseteq Rows /\ reader[c].behind \subseteq Rows
      /\ reader[c].cursor \in Rows \cup {NoCursor}
  BY ReaderIs DEF ReaderStates
<1>3. pc \in {"idle", "read", "fetch", "end"} /\ (pc = "end" => next = NoCursor)
  OBVIOUS
<1>4. /\ reader[c].owed \subseteq Store(Endpoint(c))
      /\ reader[c].cursor # NoCursor =>
            \A x \in reader[c].owed : Before(x, reader[c].cursor) => Quits(untimely, reader[c], x)
  BY ReaderIs DEF ReaderInv
<1> HIDE DEF pc
<1>5. r \in ReaderStates
  BY <1>2, <1>3, IdleFits DEF ReaderStates
<1>6. /\ r.pc = pc /\ r.owed = reader[c].owed /\ r.cursor = next
      /\ r.got = reader[c].got \cup page /\ ~r.answer.logs /\ r.answer.status = "none"
      /\ r.behind = reader[c].behind \cup (reader[c].owed \ table)
  BY DEF NoAnswer
<1> HIDE DEF r
<1>7. ASSUME NEW x \in reader[c].owed, next = NoCursor \/ Before(x, next)
      PROVE  Quits(untimely, r, x)
  <2>1. CASE reader[c].cursor # NoCursor /\ Before(x, reader[c].cursor)
    BY <1>4, <1>6, <2>1 DEF Quits
  <2>2. CASE x \in untimely \ table
    BY <1>6, <2>2 DEF Quits
  <2>3. CASE x \in page
    BY <1>6, <2>3 DEF Quits
  <2>4. x \in Rows /\ (reader[c].cursor = NoCursor \/ x = reader[c].cursor
           \/ Before(reader[c].cursor, x) \/ Before(x, reader[c].cursor))
    BY <1>2, BeforeAssumption
  <2> QED BY <1>7, <2>1, <2>2, <2>3, <2>4 DEF Covers
<1>8. ReaderInv(Over, untimely, r, Store(Endpoint(c)))
  BY <1>3, <1>4, <1>6, <1>7 DEF ReaderInv, AnswerInv
<1> QED BY <1>1, <1>5, <1>8

LEMMA ReadCachedKeeps ==
    ASSUME LogReadsAssumption, LogReadsInv, NEW c \in Readers, ReadCached(c) PROVE LogReadsInv'
<1> DEFINE k == reader[c].cursor
           p == CachedPage(c)
<1>1. k # NoCursor /\ p.cached /\ Deliver(c, p.page, p.next, p.table)
      /\ UNCHANGED <<rows, indexed, job, cache, sets, untimely>>
  BY DEF ReadCached, Hit
<1>2. k \in Rows /\ Endpoint(c) \in Endpoints
  BY <1>1, ReaderIs DEF ReaderStates, Endpoint, Endpoints
<1>3. PageInv(Over, untimely, Store(Endpoint(c)), k, p)
  BY <1>1, <1>2 DEF LogReadsInv, CacheInv, CachedPage
<1>4. p \in Pages
  BY <1>2 DEF LogReadsInv, CacheInv, CachedPage
<1>5. reader[c].owed \subseteq rows
  BY ReaderIs, StoresRows DEF ReaderInv, LogReadsInv
<1>6. p.page \in SUBSET Rows /\ p.next \in Rows \cup {NoCursor}
      /\ p.next \in Store(Endpoint(c)) \cup {NoCursor}
  BY <1>3, <1>4 DEF PageInv, Pages
<1> HIDE DEF p, k
<1>7. ASSUME NEW x \in reader[c].owed, x \notin p.table, x = k \/ Before(k, x),
             p.next = NoCursor \/ Before(x, p.next)
      PROVE  x \in untimely
  <2>1. x \in Rows /\ k \in p.table /\ Prefix(p.table) /\ x \in rows
    BY <1>3, <1>5, <1>7, StoresRows DEF PageInv, LogReadsInv
  <2>2. CASE p.next = NoCursor
    BY <1>3, <1>7, <2>1, <2>2 DEF PageInv
  <2>3. CASE p.next # NoCursor
    <3>1. p.next \in p.table /\ Before(k, x) /\ Before(x, p.next)
      BY <1>3, <1>7, <2>1, <2>3 DEF PageInv
    <3> QED BY <1>7, <2>1, <3>1, LaterRow DEF LogReadsInv
  <2> QED BY <2>2, <2>3
<1>8. Covers(reader[c].owed \ (untimely \ p.table), k, p.page, p.next)
  BY <1>1, <1>3, <1>7 DEF PageInv, Covers
<1>9. PICK r \in ReaderStates : /\ ReaderInv(Over, untimely, r, Store(Endpoint(c)))
                                /\ reader' = [reader EXCEPT ![c] = r]
  BY <1>1, <1>6, <1>8, DeliverFits DEF k
<1> QED BY <1>1, <1>9, ReaderOnly

\* What Trim and TrimWithCursor return of a table.
LEMMA TrimmedPage ==
    ASSUME NEW table \in SUBSET Rows, NEW k \in Rows \cup {NoCursor},
           NEW page \in SUBSET FromCursor(table, k), NEW next \in Rows \cup {NoCursor},
           IsPage(page, FromCursor(table, k)), IsNextCursor(next, page, FromCursor(table, k))
    PROVE  /\ page \in SUBSET Rows /\ next \in table \cup {NoCursor}
           /\ Covers(table, k, page, next)
<1> DEFINE selected == FromCursor(table, k)
<1>1. selected \subseteq table
      /\ \A x \in table : k = NoCursor \/ x = k \/ Before(k, x) => x \in selected
  BY DEF FromCursor
<1> HIDE DEF selected
<1>2. CASE page = selected
  BY <1>1, <1>2 DEF IsNextCursor, Covers, selected
<1>3. CASE page # selected
  <2>1. next \in selected \ page /\ \A q \in selected \ page : q = next \/ Before(next, q)
    BY <1>3 DEF IsNextCursor, selected
  <2>2. next # NoCursor
    BY <1>1, <2>1, PagingAssumption
  <2>3. \A x \in selected : Before(x, next) => x \in page
    BY <1>1, <2>1, BeforeAssumption
  <2> QED BY <1>1, <2>1, <2>2, <2>3 DEF Covers, selected
<1> QED BY <1>2, <1>3

LEMMA RespondKeeps ==
    ASSUME LogReadsAssumption, LogReadsInv, NEW c \in Readers, Respond(c)
    PROVE  LogReadsInv'
<1> DEFINE a == reader[c].answer
           k == reader[c].cursor
           e == Endpoint(c)
<1>1. PICK page \in SUBSET FromCursor(a.table, k), next \in Rows \cup {NoCursor} :
         /\ IsPage(page, FromCursor(a.table, k)) /\ IsNextCursor(next, page, FromCursor(a.table, k))
         /\ Deliver(c, page, next, a.table)
         /\ sets' = IF Cacheable(k, next, a.status)
                    THEN sets \cup {[key |-> <<e, k>>, page |-> page, next |-> next, table |-> a.table]}
                    ELSE sets
  BY DEF Respond
<1>2. a.logs /\ UNCHANGED <<rows, indexed, job, cache, untimely>>
  BY DEF Respond
<1>3. /\ k \in Rows \cup {NoCursor} /\ a.table \in SUBSET Rows /\ e \in Endpoints
      /\ reader[c].owed \subseteq a.table /\ a.table \subseteq Store(e) /\ Prefix(a.table)
      /\ k \in a.table \cup {NoCursor} /\ (Over => Rows \ a.table \subseteq untimely)
      /\ a.status = "terminal" => Over
  BY <1>2, ReaderIs DEF ReaderStates, Answers, ReaderInv, AnswerInv, Endpoint, Endpoints
<1> HIDE DEF a, k, e
<1>4. /\ page \in SUBSET Rows /\ next \in a.table \cup {NoCursor}
      /\ Covers(a.table, k, page, next)
  BY <1>1, <1>3, TrimmedPage
<1>5. PICK r \in ReaderStates : /\ ReaderInv(Over, untimely, r, Store(e))
                                /\ reader' = [reader EXCEPT ![c] = r]
  <2>1. Covers(reader[c].owed \ (untimely \ a.table), k, page, next)
    BY <1>3, <1>4 DEF Covers
  <2>2. next \in Store(e) \cup {NoCursor}
    BY <1>3, <1>4
  <2> QED BY <1>1, <1>4, <2>1, <2>2, DeliverFits DEF k, e
<1>6. StoresInv' /\ ReadersInv' /\ Over' = Over /\ \A f : Store(f)' = Store(f)
  BY <1>2, <1>5, ReaderMoves DEF e
<1>7. CASE ~Cacheable(k, next, a.status)
  BY <1>1, <1>2, <1>6, <1>7, CacheStays DEF LogReadsInv
<1>8. CASE Cacheable(k, next, a.status)
  <2> DEFINE s == [key |-> <<e, k>>, page |-> page, next |-> next, table |-> a.table]
  <2>1. k # NoCursor /\ (next # NoCursor \/ Over)
    BY <1>3, <1>8 DEF Cacheable
  <2>2. sets' = sets \cup {s}
    BY <1>1, <1>8
  <2>3. /\ s.page = page /\ s.next = next /\ s.table = a.table
        /\ s.key[1] = e /\ s.key[2] = k
    OBVIOUS
  <2>4. s \in [key : Endpoints \X Rows, page : SUBSET Rows, next : Rows \cup {NoCursor},
              table : SUBSET Rows]
    BY <1>3, <1>4, <2>1
  <2> HIDE DEF s
  <2>5. PageInv(Over, untimely, Store(e), k, s)
    BY <1>3, <1>4, <2>1, <2>3 DEF PageInv
  <2>6. CacheInv'
    BY <1>2, <1>6, <2>2, <2>3, <2>4, <2>5 DEF LogReadsInv, CacheInv
  <2> QED BY <1>6, <2>6 DEF LogReadsInv
<1> QED BY <1>7, <1>8

-----------------------------------------------------------------------------
(* The cache.                                                                *)

LEMMA CacheOnly ==
    ASSUME LogReadsInv, UNCHANGED <<rows, indexed, job, reader, untimely>>
    PROVE  StoresInv' /\ ReadersInv' /\ Over' = Over /\ \A e : Store(e)' = Store(e)
<1>1. Over' = Over /\ \A e : Store(e)' = Store(e)
  BY DEF Over, Store
<1> QED BY <1>1 DEF LogReadsInv, StoresInv, ReadersInv

LEMMA SetPageKeeps == ASSUME LogReadsInv, NEW s \in sets, SetPage(s) PROVE LogReadsInv'
<1> DEFINE p == [page |-> s.page, next |-> s.next, table |-> s.table, cached |-> TRUE]
<1>1. /\ sets' \subseteq sets /\ UNCHANGED <<rows, indexed, job, reader, untimely>>
      /\ cache' = [cache EXCEPT ![s.key] = p] \/ cache' = cache
  BY DEF SetPage
<1>2. StoresInv' /\ ReadersInv' /\ Over' = Over /\ \A e : Store(e)' = Store(e)
  BY <1>1, CacheOnly
<1>3. /\ s.key \in Endpoints \X Rows /\ s.page \subseteq Rows /\ s.next \in Rows \cup {NoCursor}
      /\ s.table \subseteq Rows
      /\ PageInv(Over, untimely, Store(s.key[1]), s.key[2], s)
      /\ cache \in [Endpoints \X Rows -> Pages]
  BY DEF LogReadsInv, CacheInv
<1>4. p \in Pages /\ p.page = s.page /\ p.next = s.next /\ p.table = s.table
  BY <1>3 DEF Pages
<1> HIDE DEF p
<1>5. cache' \in [Endpoints \X Rows -> Pages]
  BY <1>1, <1>3, <1>4
<1>6. ASSUME NEW e \in Endpoints, NEW k \in Rows, cache'[<<e, k>>].cached
      PROVE  PageInv(Over, untimely, Store(e), k, cache'[<<e, k>>])
  <2>1. <<e, k>> \in Endpoints \X Rows
    OBVIOUS
  <2>2. CASE cache'[<<e, k>>] = cache[<<e, k>>]
    BY <1>6, <2>2 DEF LogReadsInv, CacheInv
  <2>3. CASE cache'[<<e, k>>] # cache[<<e, k>>]
    <3>1. s.key = <<e, k>> /\ cache'[<<e, k>>] = p
      BY <1>1, <1>3, <2>1, <2>3
    <3>2. s.key[1] = e /\ s.key[2] = k
      BY <3>1
    <3>3. PageInv(Over, untimely, Store(e), k, p)
      BY <1>3, <1>4, <3>2 DEF PageInv
    <3> QED BY <3>1, <3>3
  <2> QED BY <2>2, <2>3
<1>7. CacheInv'
  BY <1>1, <1>2, <1>5, <1>6 DEF LogReadsInv, CacheInv
<1> QED BY <1>2, <1>7 DEF LogReadsInv

LEMMA ExpireKeeps ==
    ASSUME LogReadsInv, NEW k \in Endpoints \X Rows, Expire(k) PROVE LogReadsInv'
<1>1. cache' = [cache EXCEPT ![k] = NoPage] /\ UNCHANGED <<rows, indexed, job, sets, reader, untimely>>
  BY DEF Expire
<1>2. StoresInv' /\ ReadersInv' /\ Over' = Over /\ \A e : Store(e)' = Store(e)
  BY <1>1, CacheOnly
<1>3. NoPage \in Pages /\ ~NoPage.cached
  BY DEF NoPage, Pages
<1>4. cache \in [Endpoints \X Rows -> Pages]
  BY DEF LogReadsInv, CacheInv
<1>5. cache' \in [Endpoints \X Rows -> Pages]
  BY <1>1, <1>3, <1>4
<1>6. ASSUME NEW e \in Endpoints, NEW i \in Rows, cache'[<<e, i>>].cached
      PROVE  PageInv(Over, untimely, Store(e), i, cache'[<<e, i>>])
  <2>1. <<e, i>> \in Endpoints \X Rows
    OBVIOUS
  <2>2. cache'[<<e, i>>] = cache[<<e, i>>]
    BY <1>1, <1>3, <1>4, <1>6, <2>1
  <2> QED BY <1>6, <2>2 DEF LogReadsInv, CacheInv
<1>7. CacheInv'
  BY <1>1, <1>2, <1>5, <1>6 DEF LogReadsInv, CacheInv
<1> QED BY <1>2, <1>7 DEF LogReadsInv

-----------------------------------------------------------------------------
(* Every step.                                                               *)

LEMMA LogReadsInitially == ASSUME LogReadsAssumption, ReadsInit PROVE LogReadsInv
<1>1. Prefix({}) /\ Len(Arrivals) \in Nat
  BY FS_EmptySet DEF Prefix, Stored, LogReadsAssumption
<1>2. StoresInv
  <2>1. rows = {} /\ indexed = {} /\ job = "RUNNING" /\ Cardinality({}) = 0
    BY FS_EmptySet DEF ReadsInit
  <2> QED BY <1>1, <2>1 DEF StoresInv, Over
<1>3. ReadersInv
  BY IdleFits DEF ReadsInit, ReadersInv
<1>4. CacheInv
  <2>1. NoPage \in Pages /\ ~NoPage.cached
    BY DEF NoPage, Pages
  <2>2. \A e \in Endpoints, k \in Rows : cache[<<e, k>>] = NoPage
    BY DEF ReadsInit
  <2> QED BY <2>1, <2>2 DEF ReadsInit, CacheInv
<1> QED BY <1>2, <1>3, <1>4 DEF LogReadsInv

LEMMA LogReadsStep ==
    ASSUME LogReadsAssumption, LogReadsInv, [ReadsNext]_readsVars
    PROVE  LogReadsInv'
<1>1. ASSUME NEW c \in Readers, GetJobLogs(c) \/ SearchJobLogs(c) PROVE LogReadsInv'
  BY <1>1, QueryLogsKeeps DEF GetJobLogs, SearchJobLogs, Endpoint
<1>2. CASE UNCHANGED readsVars
  <2>1. UNCHANGED <<rows, indexed, job, cache, sets, reader, untimely>>
    BY <1>2 DEF readsVars
  <2> QED BY <2>1, CacheOnly, CacheStays DEF LogReadsInv
<1> QED BY <1>1, <1>2, StoreRowKeeps, IndexRowKeeps, CompleteKeeps, BufferPassesKeeps, OpenKeeps,
           ReadCachedKeeps, MissKeeps, QueryStatusKeeps, RespondKeeps, FailKeeps, SetPageKeeps,
           ExpireKeeps DEF ReadsNext

LEMMA LogReadsPromises ==
    ASSUME LogReadsAssumption, LogReadsInv PROVE ReaderSeesStoredRows
<1>1. \A c \in Readers : reader[c].pc = "end" =>
         reader[c].owed \ reader[c].got \subseteq reader[c].behind \cap untimely
  BY ReaderIs DEF ReaderInv, Quits
<1>2. ReadsTypeOK
  <2>1. \A s \in sets : s.next = NoCursor => job = "SETTLED"
    BY DEF LogReadsInv, CacheInv, PageInv, Over
  <2>2. \A c \in Readers : /\ reader[c].pc \in {"idle", "read", "fetch", "end"}
                           /\ reader[c].got \subseteq Rows /\ reader[c].answer.table \subseteq Rows
    BY ReaderIs DEF ReaderStates, Answers
  <2>3. indexed \subseteq rows /\ rows \subseteq Rows
    BY StoresRows DEF LogReadsInv
  <2> QED BY <2>1, <2>2, <2>3 DEF ReadsTypeOK, LogReadsInv, StoresInv, CacheInv
<1> QED BY <1>1, <1>2 DEF ReaderSeesStoredRows

\* A reader of the logs of a job that reached the last page, through the cache
\* of GetJobLogs and SearchJobLogs or past it, has seen every row that was stored
\* when it started, for whatever number of attempts and in whatever order their
\* rows arrive, but for untimely ones that a page it was given was read too early
\* for: those stored in between earlier rows or after their job was taken to be over.
THEOREM ReadersSeeStoredRows ==
    ASSUME LogReadsAssumption
    PROVE  ReadsSpec => []ReaderSeesStoredRows
<1>1. ReadsInit => LogReadsInv
  BY LogReadsInitially
<1>2. LogReadsInv /\ [ReadsNext]_readsVars => LogReadsInv'
  BY LogReadsStep
<1>3. LogReadsInv => ReaderSeesStoredRows
  BY LogReadsPromises
<1> QED BY <1>1, <1>2, <1>3, PTL DEF ReadsSpec
=============================================================================

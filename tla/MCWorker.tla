------------------------------ MODULE MCWorker ------------------------------
(* The parts of a worker's process and of a runtime node: the handoff gate,  *)
(* image pulls, the cache of Docker clients, heartbeat requests, container   *)
(* runs, the runtime agents and the partition runner.  They share no state   *)
(* in these models, so a property of one of them holds in all behaviours if  *)
(* it holds in those in which the others never move: part says which moves.  *)
EXTENDS HandoffGate, EndpointCache, ImagePull, TLC

CONSTANTS
    Parts,                                             \* the parts of a run
    MaxTimeout, Redirects, AnswerSize,                               \* request
    Agents, MaxChanges,                                              \* agent
    t1, t2, t3, p1, p2, h1, h2, Nobody

VARIABLES
    part,
    prefixes, request, left, dialLeft, todo, errs, hops, conns, reached, ctxOver, result,
    network, container, unknown, output, execution, retried, ctx, stream, streamErrs, consumer,
    replay, events, runFaults,
    agent, healthy, node, changes, agentFaults,
    offset, fenced, handled, session, assigned, position, paused, step, polled, target,
    pollSession, strayed, ctl, queue, batch, backlogPaused, retryPaused, call, failures

-----------------------------------------------------------------------------
\* Two tasks of one process and one of another.
OneShared == (t1 :> p1) @@ (t2 :> p1) @@ (t3 :> p2)

Agent == INSTANCE RuntimeAgent WITH faults <- agentFaults

\* A buffer that holds the partition, retryable failures.
Runner == INSTANCE PartitionRunner WITH
    N <- 3, MaxSessions <- 1, Buffer <- 4, BatchSize <- 2, MaxFailures <- 2,
    committed <- offset

-----------------------------------------------------------------------------
(* Public, protected and translated addresses, and the layouts of RFC 6052. *)
V4(a, b, c, d) == [i \in 0..3 |-> <<a, b, c, d>>[i + 1]]
Public == V4(8, 4, 2, 1)
Private == V4(10, 1, 2, 3)
Anycast == V4(192, 0, 0, 9)
SharedSpace == V4(100, 64, 0, 1)
WellKnownPrefix == [net |-> [i \in 0..11 |-> <<0, 100, 255, 155, 0, 0, 0, 0, 0, 0, 0, 0>>[i + 1]], bits |-> 96]
LocalUsePrefix == [net |-> [i \in 0..5 |-> <<0, 100, 255, 155, 0, 1>>[i + 1]], bits |-> 48]

\* The address that embeds v4 under a prefix, with byte 8 set to u.
Embed(p, v4, u) ==
    LET n == p.bits \div 8
        pos(k) == IF p.bits < 96 /\ n + k >= 8 THEN n + k + 1 ELSE n + k
    IN [i \in 0..15 |->
          IF i < n THEN p.net[i]
          ELSE IF p.bits < 96 /\ i = 8 THEN u
          ELSE IF \E k \in 0..3 : pos(k) = i THEN v4[CHOOSE k \in 0..3 : pos(k) = i]
          ELSE 0]

Prefix(first, bits) ==
    [net |-> [i \in 0..(bits \div 8 - 1) |-> IF i = 0 THEN 32 ELSE IF i = 1 THEN first ELSE 0],
     bits |-> bits]

\* A nested pair of prefixes and one that is not valid; and every layout, with
\* a byte 8 that is zero or not.
Nested == {Prefix(1, 32), Prefix(1, 64), [Prefix(2, 96) EXCEPT !.net[8] = 1]}
Targets == {Public, Private, Anycast, SharedSpace, Embed(WellKnownPrefix, Private, 0),
            Embed(LocalUsePrefix, Public, 0), Embed(Prefix(1, 64), Private, 0)}
Layouts == {Prefix(b \div 8, b) : b \in {32, 40, 48, 56, 64, 96}}
Embedded == {Embed(p, v4, u) : p \in Layouts, v4 \in {Public, Private}, u \in {0, 1}}

Request == INSTANCE HeartBeat WITH
    Hosts <- {h1, h2}, Addresses <- Targets, Specs <- Nested, MaxDial <- 1, None <- Nobody,
    Reserved <- {Private}, SpecialUse <- {SharedSpace, Anycast}, Exceptions <- {Anycast},
    WellKnown <- WellKnownPrefix, LocalUse <- LocalUsePrefix
NAT64 == INSTANCE HeartBeat WITH
    Hosts <- {h1}, Addresses <- Embedded, Specs <- Layouts, MaxDial <- 1, None <- Nobody,
    MaxTimeout <- 1, Redirects <- 0, AnswerSize <- 1,
    Reserved <- {Private}, SpecialUse <- {SharedSpace, Anycast}, Exceptions <- {Anycast},
    WellKnown <- WellKnownPrefix, LocalUse <- LocalUsePrefix

-----------------------------------------------------------------------------
(* Container runs: two streams, with an oversized line in one of them; a     *)
(* stream with a blank line that is replayed; a stream of two lines.         *)
RunParts == {"run", "replay", "return"}
ScriptOf(p) ==
    CASE p = "run" -> [stdout |-> <<"text">>, stderr |-> <<"long", "text">>]
      [] p = "replay" -> [stdout |-> <<"blank", "text">>]
      [] OTHER -> [stdout |-> <<"text", "text">>]
Run(p) == INSTANCE ContainerRun WITH
    Streams <- DOMAIN ScriptOf(p), Script <- ScriptOf(p),
    ExitCodes <- (IF p = "return" THEN {0} ELSE {0, 1}),
    LossyCreate <- (p = "run"), Replays <- (p = "replay"), MaxFaults <- 1,
    exec <- execution, errs <- streamErrs, faults <- runFaults

ASSUME WorkerAssumption ==
    /\ Agent!AgentAssumption
    /\ Request!HeartBeatAssumption /\ NAT64!HeartBeatAssumption
    /\ \A p \in RunParts : Run(p)!ContainerRunAssumption

-----------------------------------------------------------------------------
requestVars == <<prefixes, request, left, dialLeft, todo, errs, hops, conns, reached, ctxOver, result>>
runVars == <<network, container, unknown, output, execution, retried, ctx, stream, streamErrs,
             consumer, replay, events, runFaults>>
agentVars == <<agent, healthy, node, changes, agentFaults>>
runnerVars == <<offset, fenced, handled, session, assigned, position, paused, step, polled,
                target, pollSession, strayed, ctl, queue, batch, backlogPaused, retryPaused, call, failures>>
allVars == <<part, vars, pullVars, cacheVars, requestVars, runVars, agentVars, runnerVars>>

\* A part that does not move has one initial state.
WorkerInit ==
    /\ part \in Parts
    /\ Init /\ PullInit /\ CacheInit /\ Agent!Init /\ Runner!Init
    /\ IF part = "nat64" THEN NAT64!Init ELSE Request!Init
    /\ \E p \in RunParts : p = (IF part \in RunParts THEN part ELSE "return") /\ Run(p)!Init
    /\ network = "absent" \/ part \in RunParts
    /\ part \in {"request", "nat64"} \/ (prefixes = {} /\ left = 1 /\ request.host = h1)
    /\ part = "agent" \/ healthy = [c \in Agent!Checks |-> TRUE]

WorkerNext ==
    \/ /\ part = "gate" /\ Next
       /\ UNCHANGED <<part, pullVars, cacheVars, requestVars, runVars, agentVars, runnerVars>>
    \/ /\ part = "pull" /\ PullNext
       /\ UNCHANGED <<part, vars, cacheVars, requestVars, runVars, agentVars, runnerVars>>
    \/ /\ part = "cache" /\ CacheNext
       /\ UNCHANGED <<part, vars, pullVars, requestVars, runVars, agentVars, runnerVars>>
    \/ /\ \/ part = "request" /\ Request!Next
          \/ part = "nat64" /\ NAT64!Next
       /\ UNCHANGED <<part, vars, pullVars, cacheVars, runVars, agentVars, runnerVars>>
    \/ /\ \E p \in RunParts : part = p /\ Run(p)!Next
       /\ UNCHANGED <<part, vars, pullVars, cacheVars, requestVars, agentVars, runnerVars>>
    \/ /\ part = "agent" /\ Agent!Next
       /\ UNCHANGED <<part, vars, pullVars, cacheVars, requestVars, runVars, runnerVars>>
    \/ /\ part = "runner" /\ Runner!Next
       /\ UNCHANGED <<part, vars, pullVars, cacheVars, requestVars, runVars, agentVars>>

WorkerSpec == WorkerInit /\ [][WorkerNext]_allVars

\* The fairness of each part, in the behaviours in which it moves.
WorkerFairness ==
    /\ \A l \in LaneIds : /\ WF_vars(part = "gate" /\ LaneStep(l))
                        /\ SF_vars(part = "gate" /\ acquireExecutionSlot(l))
    /\ \A j \in Jobs : /\ WF_vars(part = "gate" /\ \E l \in LaneIds : Deliver(l, j))
                       /\ WF_vars(part = "gate" /\ LeaseEnds(j))
    /\ \A e \in Ids : WF_vars(part = "gate" /\ ExecStep(e))
    /\ WF_vars(part = "gate" /\ ReconcileStep)
    /\ \A t \in Tasks : WF_pullVars(part = "pull" /\ TaskStep(t))
    /\ \A p \in Procs : WF_pullVars(part = "pull" /\ (FlightInspects(p) \/ FlightPulls(p)))
    /\ WF_pullVars(part = "pull" /\ PullTick)
    /\ \A e \in Endpoints : WF_cacheVars(part = "cache" /\ FlightStep(e))
    /\ WF_cacheVars(part = "cache" /\ CloseClients)
    /\ WF_requestVars(part = "request" /\ Request!Tick)
    /\ WF_requestVars(part = "request" /\ Request!ClientTimesOut)
    /\ WF_requestVars(part = "request" /\ Request!Canceled)
    /\ WF_requestVars(part = "request" /\ Request!DialTimesOut)
    /\ WF_runVars(part = "return" /\ Run("return")!Execute)
    /\ WF_runVars(part = "return" /\ Run("return")!Consumer)
    /\ WF_runVars(part = "return" /\ Run("return")!EndContext("deadline"))
    /\ WF_runVars(part = "return" /\ Run("return")!OpenLogs("live"))
    /\ WF_runVars(part = "return" /\ Run("return")!StdCopyEnd("live"))
    /\ WF_runVars(part = "return" /\ Run("return")!DeliverLine("live"))
    /\ WF_runVars(part = "return" /\ Run("return")!ForwardError("live"))
    /\ WF_runVars(part = "return" /\ Run("return")!ForwardEnd("live"))
    /\ WF_runVars(part = "return" /\ Run("return")!StdCopy("live"))
    /\ WF_runVars(part = "return" /\ Run("return")!ReceiveLine("live", "stdout"))
    /\ WF_runVars(part = "return" /\ Run("return")!ScanEnd("live", "stdout"))
    /\ WF_runnerVars(part = "runner" /\ Runner!RunLoop)
    /\ WF_runnerVars(part = "runner" /\ Runner!OtherMember)
    /\ WF_runnerVars(part = "runner" /\ step = "stopped" /\ Runner!revoke)
    /\ \A c \in Runner!Callers :
          WF_runnerVars(part = "runner" /\ (Runner!CheckOwner(c) \/ Runner!CallClient(c)))
    /\ \A l \in Runner!Lanes : WF_runnerVars(part = "runner" /\ Runner!runLane(l))
    /\ \A a \in Agents : WF_agentVars(part = "agent" /\ Agent!AgentStep(a))

FairWorkerSpec == WorkerSpec /\ WorkerFairness

-----------------------------------------------------------------------------
\* No hop of a heartbeat request connects to a protected address, whatever
\* the names resolve to and however NAT64 embeds the address; a run that only
\* the egress policy stopped is not retried; no connection outlives its run.
RequestsConfined ==
    /\ part = "nat64" => NAT64!OnlyPublicReached
    /\ part = "request" => /\ Request!TypeOK /\ Request!OnlyPublicReached
                           /\ Request!PolicyIsPermanent /\ Request!NothingLeftOpen

\* The result of a run tells how the container ended; a run whose log was
\* drained has published every line; a replay gives a line the key it had.
RunsAccounted ==
    /\ \A p \in RunParts :
          part = p => Run(p)!TypeOK /\ Run(p)!DrainedLogsComplete /\ Run(p)!ResultTellsTheEnd
    /\ part = "replay" => Run("replay")!ReplayKeepsKeys

\* Every dispatch record is committed although the registry and the slots may
\* be full; a partition is read, settled and committed to its end.
EveryRecordCommitted ==
    /\ part = "gate" => RecordsCommitted
    /\ part = "runner" => Runner!AllCommitted

\* Ensure returns, whatever happened to the owner of the lock; after Close
\* every client is closed; a heartbeat ends though nobody answers.
WorkEnds ==
    /\ EnsureReturns /\ CloseClosesAll
    /\ part = "request" => Request!ExecuteReturns

\* Execute's caller is given a result, whatever the daemon does.
RunReturns == part = "return" => Run("return")!RunReturns

\* The node's status follows its health while an agent keeps serving, and the
\* node is draining once every agent has shut down gracefully.
NodeStatusTrue ==
    [](Agent!TypeOK /\ Agent!DrainedAfterShutdown) /\ Agent!StatusFollowsHealth
=============================================================================

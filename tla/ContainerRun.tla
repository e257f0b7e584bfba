---------------------------- MODULE ContainerRun ----------------------------
(***************************************************************************)
(* One container job on a Docker daemon: DockerWorkflow.Execute with its   *)
(* goroutines (the wait, the log demultiplexer, a scanner per stream and   *)
(* the forwarder that numbers the lines), the executor that drains the     *)
(* two channels, and the replay of the retained logs (DockerWorkflow.Logs) *)
(* by lease recovery or by the cleanup of a canceled job.                  *)
(*                                                                         *)
(* A line is <<s, i>>, the i-th line the workload writes to stream s;      *)
(* Script says what kind of line it is.  The daemon retains the lines in   *)
(* the order it received them.  A line is published under the event key    *)
(* made of its stream and its sequence number, here [line, seq] with the   *)
(* stream inside the line.                                                 *)
(***************************************************************************)
EXTENDS Naturals, Sequences, FiniteSets

CONSTANTS
    Streams,      \* stdout and stderr, or one of them
    Script,       \* [Streams -> Seq({"text", "blank", "long"})]
    ExitCodes,    \* exit codes the workload may end with
    LossyCreate,  \* the answer to a create request may be lost
    Replays,      \* whether the job is canceled or its lease recovered
    MaxFaults     \* bound: failed daemon calls, prunes, crashes

ContainerRunAssumption ==
    /\ Script \in [Streams -> Seq({"text", "blank", "long"})]
    /\ ExitCodes \subseteq Nat /\ LossyCreate \in BOOLEAN
    /\ Replays \in BOOLEAN /\ MaxFaults \in Nat

VARIABLES
    network,    \* the workload network on the daemon
    container,  \* [state, code] of the job's container
    unknown,    \* containers created whose id nobody received
    output,     \* lines the daemon retains, in its order
    exec,       \* where Execute, then its goroutine, stands
    retried,    \* Execute is in its one repetition of the create
    ctx,        \* the context of the live stream and of the replay
    stream,     \* streamContainerLogs, live and replay
    errs,       \* the live errs channel: buffered results
    consumer,   \* the executor: [pc, result]
    replay,     \* lease recovery or cleanup of the canceled job
    events,     \* [line, seq] of every line published
    faults

vars == <<network, container, unknown, output, exec, retried, ctx, stream,
          errs, consumer, replay, events, faults>>
daemonVars == <<network, container, unknown, output>>
runVars == <<exec, retried, errs, consumer>>

Modes == {"live", "replay"}
Lines == {<<s, i>> : s \in Streams, i \in 1 .. 3} \* bound: three lines a stream
Kind(l) == Script[l[1]][l[2]]

IdleStream == [pc |-> "idle", pos |-> 0, demux |-> "ended", seq |-> 0,
               err |-> FALSE, hold |-> <<>>, seen |-> <<>>,
               scan |-> [s \in Streams |-> "done"],
               line |-> [s \in Streams |-> <<>>]]
OpeningStreamFaulty == [IdleStream EXCEPT !.pc = "open", !.seq = Cardinality(events)]
OpeningStream == [IdleStream EXCEPT !.pc = "open"]

Init ==
    /\ network \in {"absent", "isolated", "unsafe"}
    /\ container = [state |-> "none", code |-> 0] /\ unknown = 0 /\ output = <<>>
    /\ exec = "health" /\ retried = FALSE
    /\ ctx = [m \in Modes |-> "live"]
    /\ stream = [m \in Modes |-> IdleStream]
    /\ errs = <<>> /\ consumer = [pc |-> "call", result |-> "none"]
    /\ replay = "none" /\ events = {} /\ faults = 0

Fault == faults < MaxFaults /\ faults' = faults + 1
Ended(m) == ctx[m] # "live"

-----------------------------------------------------------------------------
(* The daemon and the workload.                                            *)

\* Lines of stream s the daemon has retained.
Written(s) == Cardinality({i \in DOMAIN output : output[i][1] = s})

WriteLine(s) ==
    /\ container.state = "running" /\ Written(s) < Len(Script[s])
    /\ output' = Append(output, <<s, Written(s) + 1>>)
    /\ UNCHANGED <<network, container, unknown, ctx, stream, replay, events, faults>>
    /\ UNCHANGED runVars

Exit ==
    /\ container.state = "running"
    /\ \A s \in Streams : Written(s) = Len(Script[s])
    /\ \E c \in ExitCodes : container' = [state |-> "exited", code |-> c]
    /\ UNCHANGED <<network, unknown, output, ctx, stream, replay, events, faults>>
    /\ UNCHANGED runVars

\* Another process prunes the unused network, or creates one of that name.
PruneNetwork ==
    /\ network = "isolated" /\ container.state # "running" /\ Fault
    /\ network' = "absent"
    /\ UNCHANGED <<container, unknown, output, ctx, stream, replay, events>>
    /\ UNCHANGED runVars

PeerCreatesNetwork ==
    /\ network = "absent" /\ Fault
    /\ network' \in {"isolated", "unsafe"}
    /\ UNCHANGED <<container, unknown, output, ctx, stream, replay, events>>
    /\ UNCHANGED runVars

-----------------------------------------------------------------------------
(* Execute, up to the started container.                                   *)

Fail(result) ==
    /\ exec' = "failed"
    /\ consumer' = [pc |-> "returned", result |-> result]

Step(pc) == exec' = pc /\ UNCHANGED consumer

healthCheck ==
    /\ exec = "health"
    /\ \/ Step("inspect") /\ UNCHANGED faults
       \/ Fault /\ Fail("Internal")
    /\ UNCHANGED <<retried, errs, ctx, stream, replay, events>> /\ UNCHANGED daemonVars

\* One validated inspection: an existing network must be the isolated one.
validateWorkloadNetwork(missing) ==
    \/ network = "isolated" /\ Step("create") /\ UNCHANGED faults
    \/ network = "unsafe" /\ Fail("Internal") /\ UNCHANGED faults
    \/ /\ network = "absent" /\ UNCHANGED faults
       /\ IF missing = "failed" THEN Fail("Internal") ELSE Step(missing)
    \/ Fault /\ Fail("Internal")

\* ensureWorkloadNetwork: inspect, create when missing, inspect again.  A
\* create that fails because a peer won the race is decided by the inspection.
InspectNetwork ==
    /\ exec = "inspect"
    /\ validateWorkloadNetwork("netcreate")
    /\ UNCHANGED <<retried, errs, ctx, stream, replay, events>> /\ UNCHANGED daemonVars

CreateNetwork ==
    /\ exec = "netcreate" /\ Step("verify")
    /\ network' = IF network = "absent" THEN "isolated" ELSE network
    /\ UNCHANGED <<container, unknown, output, retried, errs, ctx, stream, replay,
                   events, faults>>

VerifyNetwork ==
    /\ exec = "verify"
    /\ validateWorkloadNetwork("failed")
    /\ UNCHANGED <<retried, errs, ctx, stream, replay, events>> /\ UNCHANGED daemonVars

\* ContainerCreate.  The daemon refuses a container whose network is missing;
\* an answer that is lost leaves a container whose id nobody has.
ContainerCreate ==
    /\ exec = "create"
    /\ \/ /\ network # "absent"
          /\ container' = [container EXCEPT !.state = "created"]
          /\ Step("start") /\ UNCHANGED <<unknown, faults>>
       \/ /\ network = "absent" /\ Step("missing")
          /\ UNCHANGED <<container, unknown, faults>>
       \/ /\ network # "absent" /\ Fault
          /\ unknown' \in {unknown, IF LossyCreate THEN unknown + 1 ELSE unknown}
          /\ Step("missing") /\ UNCHANGED container
    /\ UNCHANGED <<network, output, retried, errs, ctx, stream, replay, events>>

\* After a failed create: workloadNetworkMissing allows one repetition.
MayRetry == ~retried /\ network = "absent"

RetryCreate ==
    /\ exec = "missing"
    /\ IF MayRetry THEN Step("inspect") /\ retried' = TRUE
                   ELSE Fail("FailedPrecondition") /\ UNCHANGED retried
    /\ UNCHANGED <<errs, ctx, stream, replay, events, faults>> /\ UNCHANGED daemonVars

\* ContainerStart, the channels and the two goroutines.  The caller then
\* attaches the container to the job before it drains them.
ContainerStart ==
    /\ exec = "start"
    /\ \/ /\ container' = [container EXCEPT !.state = "running"]
          /\ exec' = "select" /\ consumer' = [consumer EXCEPT !.pc = "attach"]
          /\ stream' = [stream EXCEPT !["live"] = OpeningStream]
          /\ UNCHANGED faults
       \/ /\ Fault /\ Fail("Aborted")
          /\ UNCHANGED <<container, stream>>
    /\ UNCHANGED <<network, unknown, output, retried, errs, ctx, replay, events>>

-----------------------------------------------------------------------------
(* streamContainerLogs, for the live stream and for the replay.            *)

\* publishContainerLogError on the channel of mode m, only while m is live.
Report(m, e) ==
    IF Ended(m) THEN UNCHANGED <<errs, replay>>
    ELSE IF m = "live" THEN errs' = Append(errs, e) /\ UNCHANGED replay
    ELSE replay' = (IF e = "NotFound" THEN "done" ELSE "failed") /\ UNCHANGED errs

OpenLogs(m) ==
    /\ stream[m].pc = "open"
    /\ \/ /\ container.state # "removed" /\ ~Ended(m)
          /\ stream' = [stream EXCEPT ![m] =
                [@ EXCEPT !.pc = "select", !.demux = "copying",
                          !.scan = [s \in Streams |-> "read"]]]
          /\ UNCHANGED <<errs, replay, faults>>
       \/ /\ container.state = "removed"
          /\ stream' = [stream EXCEPT ![m].pc = "done"]
          /\ Report(m, "NotFound") /\ UNCHANGED faults
       \/ /\ Ended(m) \/ faults < MaxFaults
          /\ faults' = IF Ended(m) THEN faults ELSE faults + 1
          /\ stream' = [stream EXCEPT ![m].pc = "done"]
          /\ Report(m, "Aborted")
    /\ UNCHANGED <<exec, retried, consumer, ctx, events>> /\ UNCHANGED daemonVars

\* What a scanner does with a line it has read: it skips a blank one, and an
\* oversized one is its last.
Scanned(k) == CASE k = "text" -> "send" [] k = "long" -> "sendlast" [] OTHER -> "read"

\* StdCopy writes the next frame to the pipe of its stream, when the scanner
\* of that stream reads (or discards) again.
StdCopy(m) ==
    LET st == stream[m]  l == output[st.pos + 1]  s == l[1] IN
    /\ st.demux = "copying" /\ ~Ended(m) /\ st.pos < Len(output)
    /\ st.scan[s] \in {"read", "discard"}
    /\ stream' = [stream EXCEPT ![m] = [st EXCEPT !.pos = @ + 1,
            !.scan[s] = IF @ = "read" THEN Scanned(Kind(l)) ELSE @,
            !.line[s] = l]]
    /\ UNCHANGED <<ctx, replay, events, faults>> /\ UNCHANGED daemonVars
    /\ UNCHANGED runVars

\* The end of the daemon's stream, a canceled context, or a read failure,
\* which the forwarder reports.
StdCopyEnd(m) ==
    LET st == stream[m] IN
    /\ st.demux = "copying"
    /\ \/ /\ \/ Ended(m) \/ container.state = "removed"
             \/ st.pos = Len(output) /\ (m = "replay" \/ container.state # "running")
          /\ stream' = [stream EXCEPT ![m].demux = "ended"] /\ UNCHANGED faults
       \/ /\ ~Ended(m) /\ Fault
          /\ stream' = [stream EXCEPT ![m].demux = "ended", ![m].err = TRUE]
    /\ UNCHANGED <<ctx, replay, events>> /\ UNCHANGED daemonVars /\ UNCHANGED runVars

\* A scanner that stops early keeps reading to the void: closing its pipe
\* instead would end the other stream too.
AfterSendFaulty(st, s) ==
    IF st.scan[s] = "sendlast"
    THEN [st EXCEPT !.scan[s] = "done", !.demux = "ended"]
    ELSE [st EXCEPT !.scan[s] = "read"]
AfterSend(st, s) ==
    [st EXCEPT !.scan[s] = IF @ = "sendlast" THEN "discard" ELSE "read"]

\* The forwarder receives a line of one of the scanners.
ReceiveLine(m, s) ==
    LET st == stream[m] IN
    /\ st.pc = "select" /\ st.scan[s] \in {"send", "sendlast"}
    /\ stream' = [stream EXCEPT ![m] =
            [AfterSend(st, s) EXCEPT !.pc = "hold", !.hold = st.line[s]]]
    /\ UNCHANGED <<ctx, replay, events, faults>> /\ UNCHANGED daemonVars
    /\ UNCHANGED runVars

\* publishContainerLogLine gives up on a canceled context.
ScannerCanceledFaulty(m, s) == FALSE
ScannerCanceled(m, s) == Ended(m) /\ stream[m].scan[s] \in {"send", "sendlast"}

ScanEnd(m, s) ==
    /\ stream[m].pc # "open"
    /\ \/ ScannerCanceled(m, s) /\ stream' = [stream EXCEPT ![m].scan[s] = "discard"]
       \/ /\ stream[m].demux = "ended" /\ stream[m].scan[s] \in {"read", "discard"}
          /\ stream' = [stream EXCEPT ![m].scan[s] = "done"]
    /\ UNCHANGED <<ctx, replay, events, faults>> /\ UNCHANGED daemonVars
    /\ UNCHANGED runVars

Receiving(m) == IF m = "live" THEN consumer.pc = "drain" ELSE replay = "reading"

\* The forwarder hands the line over with the next sequence number, and the
\* receiver publishes it.
DeliverLine(m) ==
    LET st == stream[m] IN
    /\ st.pc = "hold" /\ Receiving(m)
    /\ stream' = [stream EXCEPT ![m] =
            [st EXCEPT !.pc = "select", !.seq = @ + 1, !.hold = <<>>,
                       !.seen = Append(@, st.hold)]]
    /\ events' = events \cup {[line |-> st.hold, seq |-> st.seq]}
    /\ UNCHANGED <<ctx, replay, faults>> /\ UNCHANGED daemonVars /\ UNCHANGED runVars

ForwardError(m) ==
    /\ stream[m].pc = "select" /\ stream[m].err
    /\ stream' = [stream EXCEPT ![m].err = FALSE]
    /\ Report(m, "Aborted")
    /\ UNCHANGED <<exec, retried, consumer, ctx, events, faults>>
    /\ UNCHANGED daemonVars

ProducersDone(m) ==
    stream[m].demux = "ended" /\ \A s \in Streams : stream[m].scan[s] = "done"

ForwardEnd(m) ==
    LET st == stream[m] IN
    /\ \/ st.pc \in {"select", "hold"} /\ Ended(m)
       \/ st.pc = "select" /\ ProducersDone(m) /\ ~st.err
    /\ stream' = [stream EXCEPT ![m].pc = "done", ![m].hold = <<>>]
    /\ UNCHANGED <<ctx, replay, events, faults>> /\ UNCHANGED daemonVars
    /\ UNCHANGED runVars

-----------------------------------------------------------------------------
(* The goroutine of Execute.                                               *)

\* The deadline of timeoutCtx, or the caller's cancellation: it lost its
\* lease, or it returned.
EndContext(reason) ==
    /\ exec \in {"select", "drain", "join"} /\ ~Ended("live")
    /\ ctx' = [ctx EXCEPT !["live"] = reason]
    /\ UNCHANGED <<stream, replay, events, faults>> /\ UNCHANGED daemonVars
    /\ UNCHANGED runVars

\* publishExecutionFailure: the cause is published, then a canceled or late
\* container is stopped; that call may fail.
publishExecutionFailure ==
    /\ errs' = Append(errs, CASE ctx["live"] = "deadline" -> "DeadlineExceeded"
                              [] ctx["live"] = "canceled" -> "Canceled"
                              [] OTHER -> "WaitError")
    /\ \/ /\ Ended("live")
          /\ container' = IF container.state = "running"
                          THEN [state |-> "exited", code |-> 137] ELSE container
       \/ UNCHANGED container

\* After it has published a failure the goroutine stops the stream and ends.
AfterFailureFaulty == "select"
AfterFailure == "join"

\* The select of the goroutine: the context, the wait's error, the exit.
SelectContext ==
    /\ exec = "select" /\ Ended("live")
    /\ publishExecutionFailure /\ exec' = AfterFailure
    /\ UNCHANGED <<network, unknown, output, retried, ctx, stream, consumer, replay,
                   events, faults>>

SelectWaitError ==
    /\ exec = "select"
    /\ \/ container.state = "removed" /\ UNCHANGED <<errs, container, faults>>
       \/ Fault /\ publishExecutionFailure
    /\ exec' = AfterFailure
    /\ ctx' = [ctx EXCEPT !["live"] = IF Ended("live") THEN @ ELSE "stopped"]
    /\ UNCHANGED <<network, unknown, output, retried, stream, consumer, replay, events>>

SelectExit ==
    /\ exec = "select" /\ container.state \in {"exited", "removed"}
    /\ exec' = "drain"
    /\ UNCHANGED <<retried, errs, ctx, stream, consumer, replay, events, faults>>
    /\ UNCHANGED daemonVars

\* The exit code is published whatever became of the context.
ExitFailedFaulty == exec = "drain" /\ ~Ended("live") /\ container.code # 0
ExitFailed == exec = "drain" /\ container.code # 0

\* The channels are closed only after the forwarder returned.
Drained == stream["live"].pc = "done"

CloseChannels ==
    /\ exec \in {"drain", "join"} /\ Drained
    /\ errs' = IF ExitFailed THEN Append(errs, "NonZeroExit") ELSE errs
    /\ ctx' = [ctx EXCEPT !["live"] = IF Ended("live") THEN @ ELSE "stopped"]
    /\ exec' = "closed"
    /\ UNCHANGED <<retried, stream, consumer, replay, events, faults>>
    /\ UNCHANGED daemonVars

-----------------------------------------------------------------------------
(* executeContainerWorkflow and processContainerExecution.                 *)

\* A container that cannot be attached to the job is given up; its channels
\* are never read.
attachJobContainer ==
    /\ consumer.pc = "attach"
    /\ \/ consumer' = [consumer EXCEPT !.pc = "drain"] /\ UNCHANGED faults
       \/ Fault /\ consumer' = [pc |-> "returned", result |-> "Unattached"]
    /\ UNCHANGED <<exec, retried, errs, ctx, stream, replay, events>>
    /\ UNCHANGED daemonVars

\* The first error is the result of the execution.
ReceiveError ==
    /\ consumer.pc = "drain" /\ errs # <<>>
    /\ consumer' = [consumer EXCEPT !.result = IF @ = "none" THEN Head(errs) ELSE @]
    /\ errs' = Tail(errs)
    /\ UNCHANGED <<exec, retried, ctx, stream, replay, events, faults>>
    /\ UNCHANGED daemonVars

ReturnResult ==
    /\ consumer.pc = "drain" /\ exec = "closed" /\ errs = <<>>
    /\ consumer' = [consumer EXCEPT !.pc = "returned"]
    /\ UNCHANGED <<exec, retried, errs, ctx, stream, replay, events, faults>>
    /\ UNCHANGED daemonVars

\* The worker dies; the container does not.
Crash ==
    /\ exec \in {"select", "drain", "join"} /\ Fault
    /\ exec' = "crashed" /\ errs' = <<>>
    /\ consumer' = [pc |-> "returned", result |-> "Crashed"]
    /\ stream' = [stream EXCEPT !["live"] = IdleStream]
    /\ UNCHANGED <<retried, ctx, replay, events>> /\ UNCHANGED daemonVars

-----------------------------------------------------------------------------
(* Lease recovery, and the cleanup of a canceled job: terminate what still  *)
(* runs, replay its logs, remove it.  A failed replay is repeated.          *)

\* What the daemon says of the container.
Inspect == container.state

Terminate ==
    /\ Replays /\ replay \in {"none", "failed"}
    /\ Inspect \in {"running", "exited"}
    /\ consumer.pc \in {"drain", "returned"}
    /\ container' = IF Inspect = "running"
                    THEN [state |-> "exited", code |-> 137] ELSE container
    /\ replay' = "reading"
    /\ ctx' = [ctx EXCEPT !["replay"] = "live"]
    /\ stream' = [stream EXCEPT !["replay"] = OpeningStream]
    /\ UNCHANGED <<network, unknown, output, events, faults>> /\ UNCHANGED runVars

\* replayContainerLogs drains both channels, or runs into its timeout; its
\* deferred cancel ends the stream.
replayContainerLogs ==
    /\ \/ /\ replay = "reading" /\ stream["replay"].pc = "done" /\ ~Ended("replay")
          /\ replay' = "done" /\ UNCHANGED <<ctx, faults>>
       \/ /\ replay = "reading" /\ Fault
          /\ replay' = "failed" /\ ctx' = [ctx EXCEPT !["replay"] = "deadline"]
       \/ /\ replay \in {"done", "failed"} /\ ~Ended("replay")
          /\ ctx' = [ctx EXCEPT !["replay"] = "canceled"] /\ UNCHANGED <<replay, faults>>
    /\ UNCHANGED <<stream, events>> /\ UNCHANGED daemonVars /\ UNCHANGED runVars

Remove ==
    /\ container.state = "exited" /\ replay = "done"
    /\ container' = [container EXCEPT !.state = "removed"]
    /\ UNCHANGED <<network, unknown, output, ctx, stream, replay, events, faults>>
    /\ UNCHANGED runVars

-----------------------------------------------------------------------------
Execute == healthCheck \/ InspectNetwork \/ CreateNetwork \/ VerifyNetwork
           \/ ContainerCreate \/ RetryCreate \/ ContainerStart
           \/ SelectContext \/ SelectWaitError \/ SelectExit \/ CloseChannels
Consumer == attachJobContainer \/ ReceiveError \/ ReturnResult
Streamer(m) ==
    \/ OpenLogs(m) \/ StdCopy(m) \/ StdCopyEnd(m) \/ DeliverLine(m)
    \/ ForwardError(m) \/ ForwardEnd(m)
    \/ \E s \in Streams : ReceiveLine(m, s) \/ ScanEnd(m, s)
Cleanup == Terminate \/ replayContainerLogs \/ Remove

Next ==
    \/ \E s \in Streams : WriteLine(s)
    \/ Exit \/ PruneNetwork \/ PeerCreatesNetwork
    \/ Execute \/ Consumer \/ Crash \/ Cleanup
    \/ \E m \in Modes : Streamer(m)
    \/ \E r \in {"deadline", "canceled"} : EndContext(r)

Spec == Init /\ [][Next]_vars

\* Every goroutine runs on, and the deadline of an execution arrives.
Fairness ==
    /\ WF_vars(Execute) /\ WF_vars(Consumer) /\ WF_vars(EndContext("deadline"))
    /\ WF_vars(replayContainerLogs)
    /\ \A m \in Modes :
          /\ WF_vars(OpenLogs(m)) /\ WF_vars(StdCopyEnd(m)) /\ WF_vars(DeliverLine(m))
          /\ WF_vars(ForwardError(m)) /\ WF_vars(ForwardEnd(m)) /\ WF_vars(StdCopy(m))
          /\ \A s \in Streams : WF_vars(ReceiveLine(m, s)) /\ WF_vars(ScanEnd(m, s))
FairSpec == Spec /\ Fairness

-----------------------------------------------------------------------------
Results == {"none", "Internal", "FailedPrecondition", "Aborted", "NotFound",
            "DeadlineExceeded", "Canceled", "WaitError", "NonZeroExit",
            "Unattached", "Crashed"}

\* Type invariant; errs never outgrows the buffer Execute gives it (three
\* stream failures and one terminal result), so no publisher blocks on it.
TypeOK ==
    /\ network \in {"absent", "isolated", "unsafe"}
    /\ container.state \in {"none", "created", "running", "exited", "removed"}
    /\ container.code \in Nat /\ unknown \in 0 .. 2
    /\ output \in Seq(Lines)
    /\ exec \in {"health", "inspect", "netcreate", "verify", "create", "missing",
                 "start", "select", "drain", "join", "closed", "failed", "crashed"}
    /\ ctx \in [Modes -> {"live", "deadline", "canceled", "stopped"}]
    /\ Len(errs) <= 4
    /\ consumer.pc \in {"call", "attach", "drain", "returned"}
    /\ consumer.result \in Results
    /\ replay \in {"none", "reading", "done", "failed"}
    /\ events \subseteq [line : Lines, seq : 0 .. 5]

\* The lines of stream s a reader is owed: the nonblank ones up to and with
\* the first oversized one.
Carried(s) ==
    {<<s, i>> : i \in {j \in 1 .. Len(Script[s]) :
        /\ Script[s][j] # "blank"
        /\ \A k \in 1 .. j - 1 : Script[s][k] # "long"}}

\* docker.go, streamContainerLogs and scanContainerLogStream: an execution
\* that drained its stream to the end, with its context intact, has delivered
\* every line the two streams carry, the lines of a stream in their order,
\* whatever the interleaving and even if one stream ended on an oversized line.
DrainedLogsComplete ==
    exec = "drain" /\ stream["live"].pc = "done" /\ ~Ended("live")
            /\ errs = <<>> /\ consumer.result = "none" /\ container.code # 137
            /\ container.state # "removed" =>
        LET seen == stream["live"].seen IN
        /\ {seen[i] : i \in DOMAIN seen} = UNION {Carried(s) : s \in Streams}
        /\ \A i, j \in DOMAIN seen :
              i < j => seen[i] # seen[j] /\ (seen[i][1] = seen[j][1] => seen[i][2] < seen[j][2])

\* container_executor.go, processContainerExecution: the executor learns how
\* the container ended.  It returns success only for a container that exited
\* with 0, or that somebody removed under it; NonZeroExit, DeadlineExceeded
\* and Canceled only for their own causes.
ResultTellsTheEnd ==
    consumer.pc = "returned" =>
        /\ consumer.result = "none" =>
              \/ container.state = "exited" /\ container.code = 0
              \/ container.state = "removed"
        /\ consumer.result = "NonZeroExit" => container.code # 0
        /\ consumer.result = "DeadlineExceeded" => ctx["live"] = "deadline"
        /\ consumer.result = "Canceled" => ctx["live"] = "canceled"

\* docker.go, Execute: "a missing network proves no container was created, so
\* one retry is safe": an execution creates one container at most.
OneContainer ==
    unknown + (IF container.state = "none" THEN 0 ELSE 1) <= 1

\* docs/architecture.md: replayed log events have the event keys of the first
\* publication, so that they are neither counted nor stored twice.  A line has
\* one sequence number, and a number stands for one line of its stream.
ReplayKeepsKeys ==
    \A a, b \in events :
        a.line[1] = b.line[1] => (a.line = b.line <=> a.seq = b.seq)

\* docker.go, Execute: "wait for it here and let the deferred cancel follow
\* the drain": a successful execution has delivered all lines it carries.
SuccessHasAllLogs ==
    consumer.pc = "returned" /\ consumer.result = "none" /\ container.code = 0
            /\ container.state = "exited" =>
        UNION {Carried(s) : s \in Streams} \subseteq
            {stream["live"].seen[i] : i \in DOMAIN stream["live"].seen}

\* docker.go, Execute and streamContainerLogs ("so it always returns"): a
\* started execution returns a result, and no goroutine of it or of a replay
\* is left behind, also when its channels are never read.
RunReturns ==
    exec = "select" ~>
        /\ consumer.pc = "returned" /\ exec \in {"closed", "crashed"}
        /\ \A m \in Modes : ProducersDone(m) /\ stream[m].pc \in {"idle", "done"}
=============================================================================

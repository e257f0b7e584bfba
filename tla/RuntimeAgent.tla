----------------------------- MODULE RuntimeAgent -----------------------------
(* The runtime agent of one node (cmd/runtime-agent) and the row it reports to *)
(* (repository/runtime): the first health check, registration, the health      *)
(* checked heartbeats and the drain at shutdown.  During a rolling restart two *)
(* agents report for the same node.                                            *)
EXTENDS Naturals, FiniteSets

CONSTANTS
    Agents,      \* agent processes of the node, each started once
    MaxChanges,  \* bound: changes of the health of Docker or the firewall marker
    MaxFaults    \* bound: failed database calls and crashes

AgentAssumption == MaxChanges \in Nat /\ MaxFaults \in Nat

VARIABLES
    agent,       \* [pc, canceled, report]
    healthy,     \* what the Docker ping and the firewall marker say now
    node,        \* runtime_nodes.status
    changes, faults

vars == <<agent, healthy, node, changes, faults>>
Checks == {"docker", "firewall"}

Init ==
    /\ agent = [a \in Agents |-> [pc |-> "off", canceled |-> FALSE, report |-> "none"]]
    /\ healthy \in [Checks -> BOOLEAN]
    /\ node = "ABSENT" /\ changes = 0 /\ faults = 0

Fault == faults < MaxFaults /\ faults' = faults + 1
NoFault == UNCHANGED faults
At(a, pc) == agent[a].pc = pc
Go(a, pc) == agent' = [agent EXCEPT ![a].pc = pc]
EnvOnly == UNCHANGED <<healthy, changes>>

Start(a) == At(a, "off") /\ Go(a, "docker") /\ EnvOnly /\ UNCHANGED <<node, faults>>

(* The signal that ends svcpkg.Init's context.                                 *)
Cancel(a) ==
    /\ agent[a].pc \notin {"off", "exited", "failed"} /\ ~agent[a].canceled
    /\ agent' = [agent EXCEPT ![a].canceled = TRUE]
    /\ EnvOnly /\ UNCHANGED <<node, faults>>

Crash(a) ==
    /\ agent[a].pc \notin {"off", "exited", "failed"} /\ Fault
    /\ Go(a, "failed")
    /\ EnvOnly /\ UNCHANGED node

HealthChanges(c) ==
    /\ changes < MaxChanges /\ changes' = changes + 1
    /\ healthy' = [healthy EXCEPT ![c] = ~@]
    /\ UNCHANGED <<agent, node, faults>>

-----------------------------------------------------------------------------
(* run: an error ends the process at once unless the context has ended, in     *)
(* which case the node is drained first.                                       *)
AfterErrorFaulty(a) == IF agent[a].canceled THEN "exited" ELSE "failed"
AfterError(a) == IF agent[a].canceled THEN "drain" ELSE "failed"

Report(a, r) == agent' = [agent EXCEPT ![a].pc = "report", ![a].report = r]

(* combinedHealthChecker asks Docker, then the firewall marker.  The check     *)
(* before the registration reports nothing when it fails; a later one marks    *)
(* the node unhealthy.  Docker's answer is an error once the context has ended. *)
Healthy(a, c) ==
    /\ At(a, c)
    /\ IF healthy[c] /\ ~(c = "docker" /\ agent[a].canceled)
       THEN IF c = "docker" THEN Go(a, "firewall") ELSE Report(a, "READY")
       ELSE IF agent[a].report = "none" \/ agent[a].canceled THEN Go(a, AfterError(a))
            ELSE Report(a, "UNHEALTHY")
    /\ EnvOnly /\ UNCHANGED <<node, faults>>

HeartbeatFaulty(status) == IF status = "READY" /\ node # "ABSENT" THEN node ELSE status
(* RegisterReady, Heartbeat and MarkUnhealthy all set the status.              *)
Heartbeat(status) == status

(* The report's transaction: done, failed, or failed in the eyes of the agent. *)
(* A commit still on its way holds the row's lock, so the drain comes after it. *)
SendReport(a) ==
    /\ At(a, "report")
    /\ \/ NoFault /\ node' = Heartbeat(agent[a].report) /\ Go(a, "wait")
       \/ Fault /\ node' \in {node, Heartbeat(agent[a].report)} /\ Go(a, AfterError(a))
       \/ agent[a].canceled /\ NoFault /\ node' \in {node, Heartbeat(agent[a].report)}
          /\ Go(a, AfterError(a))
    /\ EnvOnly

(* The ticker, or the end of the context; both may be ready.                   *)
Tick(a) == At(a, "wait") /\ Go(a, "docker") /\ EnvOnly /\ UNCHANGED <<node, faults>>
ContextDone(a) ==
    /\ At(a, "wait") /\ agent[a].canceled
    /\ Go(a, AfterError(a))
    /\ EnvOnly /\ UNCHANGED <<node, faults>>

(* MarkDraining with a context of its own; a failure is only logged, and the   *)
(* agent then ends undrained ("failed") although its exit code says otherwise. *)
MarkDraining(a) ==
    /\ At(a, "drain")
    /\ \/ NoFault /\ node' = "DRAINING" /\ Go(a, "exited")
       \/ Fault /\ node' \in {node, "DRAINING"} /\ Go(a, "failed")
    /\ EnvOnly

-----------------------------------------------------------------------------
AgentStep(a) ==
    \/ \E c \in Checks : Healthy(a, c)
    \/ SendReport(a) \/ Tick(a) \/ ContextDone(a) \/ MarkDraining(a)

Next ==
    \/ \E a \in Agents : Start(a) \/ Cancel(a) \/ Crash(a) \/ AgentStep(a)
    \/ \E c \in Checks : HealthChanges(c)

Spec == Init /\ [][Next]_vars

(* A started agent goes on.                                                    *)
FairSpec == Spec /\ \A a \in Agents : WF_vars(AgentStep(a))

-----------------------------------------------------------------------------
(* The agents' steps and reports, and the values of runtime_node_status.       *)
TypeOK ==
    /\ agent \in [Agents -> [pc : {"off", "docker", "firewall", "report", "wait", "drain",
                                   "exited", "failed"},
                             canceled : BOOLEAN, report : {"none", "READY", "UNHEALTHY"}]]
    /\ healthy \in [Checks -> BOOLEAN]
    /\ node \in {"ABSENT", "READY", "DRAINING", "UNHEALTHY"}

(* When every agent that was started has shut down gracefully, the node takes  *)
(* no new jobs: no report that was on its way at the signal undoes the drain.  *)
DrainedAfterShutdown ==
    (/\ \A a \in Agents : agent[a].pc \in {"off", "exited"}
     /\ \E a \in Agents : agent[a].pc = "exited") => node = "DRAINING"

Serving(a) == agent[a].report # "none" /\ agent[a].pc \in {"docker", "firewall", "report", "wait"}
AllHealthy == \A c \in Checks : healthy[c]

(* While an agent keeps serving, the node's status follows its health in the   *)
(* end, although the agent it replaces may drain the node after the new one    *)
(* registered, or report what it saw before.                                   *)
StatusFollowsHealth ==
    /\ \A a \in Agents : <>[](Serving(a) /\ ~agent[a].canceled /\ AllHealthy) => <>[](node = "READY")
    /\ \A a \in Agents : <>[](Serving(a) /\ ~agent[a].canceled /\ ~AllHealthy) => <>[](node = "UNHEALTHY")
=============================================================================

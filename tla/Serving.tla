------------------------------- MODULE Serving -------------------------------
(***************************************************************************)
(* What a request meets on its way through the server: the checks of its   *)
(* route and the tokens of its calls (Access), the lists (Listing) and the *)
(* reads through the cache of the two services that have one, the          *)
(* workflows-service (WorkflowReads) and the users-service (UserReads).    *)
(***************************************************************************)
EXTENDS Listing

CONSTANTS
    WorkflowCallers, UserCallers, Goroutines,
    WorkflowCommits, UserCommits, AskedKeys,
    Accounts, Inflight

VARIABLES
    commits, state, cache, flight, bg, caller, sign, update,
    conn, answered

CachedKeys == {"workflow", "workflows", "user"}
Workflow == INSTANCE WorkflowReads WITH
    Callers <- WorkflowCallers, Keys <- CachedKeys \cup {"workflow_by_id"}, Asked <- AskedKeys,
    Cached <- CachedKeys, MaxCommits <- WorkflowCommits
User == INSTANCE UserReads WITH
    Callers <- UserCallers, Keys <- CachedKeys \cup {"workflow_by_id"}, Asked <- {"user"},
    Cached <- CachedKeys, MaxCommits <- UserCommits

Gateway == INSTANCE Access WITH Users <- Accounts, Connections <- Inflight, last <- answered

ASSUME ServingAssumption == Workflow!ReadThroughAssumption /\ User!ReadThroughAssumption

readVars == <<commits, state, cache, flight, bg, caller>>
userVars == <<sign, update>>
accessVars == <<conn, answered>>
=============================================================================

------------------------------- MODULE Access -------------------------------
(***************************************************************************)
(* Who may call what: the routes of the HTTP server with the checks in     *)
(* front of each handler (internal/server/server.go, middlewares.go), the  *)
(* tokens the server and the other services attach to their calls, and the *)
(* interceptors of the five gRPC services (internal/app, grpc/middlewares).*)
(*                                                                         *)
(* A route is the checks it is wrapped in and the calls its handler makes, *)
(* in order.  The cookies, their lifetimes and the session store are in    *)
(* Sessions; here the outcome of each check is a choice.                   *)
(***************************************************************************)
EXTENDS Sequences

CONSTANTS
    Users,        \* accounts
    Connections   \* HTTP requests handled at the same time

None == "none"

\* runs: the sequences of calls the handler may make.
Route(csrf, session, aud, runs) ==
    [csrf |-> csrf, session |-> session, aud |-> aud, runs |-> runs]

\* A GET route, and one that changes state, of an authenticated user.
Get(aud, runs) == Route(FALSE, TRUE, aud, runs)
Change(aud, runs) == Route(TRUE, TRUE, aud, runs)

AuthRoutes ==
    [ register |-> Route(FALSE, FALSE, None, {<<"RegisterUser">>}),
      login    |-> Route(FALSE, FALSE, None, {<<"LoginUser">>}),
      logout   |-> Route(TRUE, TRUE, None, {<<>>}),
      validate |-> Route(TRUE, TRUE, None, {<<>>}),
      csrf     |-> Route(FALSE, TRUE, None, {<<>>}) ]

UserRoutes ==
    [ getUser    |-> Get("users", {<<"GetUser">>}),
      updateUser |-> Change("users", {<<"UpdateUser">>}) ]

WorkflowRoutesFaulty ==
    [ listWorkflows     |-> Get("workflows", {<<"ListWorkflows">>}),
      createWorkflow    |-> Change("workflows", {<<"CreateWorkflow">>}),
      getWorkflow       |-> Get("workflows", {<<"GetWorkflow">>}),
      updateWorkflow    |-> Change("workflows", {<<"UpdateWorkflow">>}),
      terminateWorkflow |-> Change("workflows", {<<"TerminateWorkflow">>}),
      deleteWorkflow    |-> Get("workflows", {<<"DeleteWorkflow">>}) ]

WorkflowRoutes ==
    [ listWorkflows     |-> Get("workflows", {<<"ListWorkflows">>}),
      createWorkflow    |-> Change("workflows", {<<"CreateWorkflow">>}),
      getWorkflow       |-> Get("workflows", {<<"GetWorkflow">>}),
      updateWorkflow    |-> Change("workflows", {<<"UpdateWorkflow">>}),
      terminateWorkflow |-> Change("workflows", {<<"TerminateWorkflow">>}),
      deleteWorkflow    |-> Change("workflows", {<<"DeleteWorkflow">>}) ]

JobRoutes ==
    [ listJobs        |-> Get("jobs", {<<"ListJobs">>}),
      scheduleJob     |-> Change("jobs", {<<"ScheduleJob">>}),
      getJob          |-> Get("jobs", {<<"GetJob">>}),
      getJobLogs      |-> Get("jobs", {<<"GetJobLogs">>}),
      searchJobLogs   |-> Get("jobs", {<<"GetJobLogs">>, <<"SearchJobLogs">>}),
      downloadJobLogs |-> Get("jobs", {<<"GetJob", "GetJobLogs">>,
                                       <<"GetJob", "SearchJobLogs">>}),
      jobEvents       |-> Get("jobs", {<<>>, <<"StreamJobLogs">>}) ]

OtherRoutes ==
    [ listNotifications    |-> Get("notifications", {<<"ListNotifications">>}),
      markRead             |-> Change("notifications", {<<"MarkNotificationsRead">>}),
      getUserAnalytics     |-> Get("analytics", {<<"GetUserAnalytics">>}),
      getWorkflowAnalytics |-> Get("analytics", {<<"GetWorkflowAnalytics">>}) ]

RouteTables == {AuthRoutes, UserRoutes, WorkflowRoutes, JobRoutes, OtherRoutes}
Routes ==
    [r \in UNION {DOMAIN t : t \in RouteTables} |->
        (CHOOSE t \in RouteTables : r \in DOMAIN t)[r]]

(***************************************************************************)
(* The services: the methods anyone with a token for the service may call, *)
(* the internal ones, and the two that need no token.  Every handler gives *)
(* its context the service's deadline and calls the service once.          *)
(***************************************************************************)
UsersHandlers == {"RegisterUser", "LoginUser", "GetUser", "UpdateUser"}

WorkflowsHandlers ==
    {"CreateWorkflow", "UpdateWorkflow", "UpdateWorkflowBuildStatus",
     "GetWorkflow"}
WorkflowsOtherHandlers ==
    {"GetWorkflowByID", "IncrementWorkflowConsecutiveJobFailuresCount",
     "ResetWorkflowConsecutiveJobFailuresCount", "TerminateWorkflow",
     "DeleteWorkflow", "ListWorkflows"}

JobsCommandHandlers ==
    {"ScheduleJob", "CancelJob", "ClaimJob", "GetReadyRuntimeNode",
     "ListReadyRuntimeNodes", "RenewJobLease", "AttachJobContainer"}
JobsLeaseHandlers ==
    {"CompleteJob", "FailJob", "CancelClaimedJob", "ReleaseJobForRetry",
     "RecoverExpiredJobLeases"}
JobsReadHandlers == {"GetJob", "GetJobByID", "GetJobLogs"}
JobsListHandlers == {"StreamJobLogs", "SearchJobLogs", "ListJobs"}

NotificationsHandlers ==
    {"CreateNotification", "MarkNotificationsRead", "ListNotifications"}
AnalyticsHandlers == {"GetUserAnalytics", "GetWorkflowAnalytics"}

Server(method) ==
    CASE method \in UsersHandlers -> "users"
      [] method \in WorkflowsHandlers \cup WorkflowsOtherHandlers -> "workflows"
      [] method \in NotificationsHandlers -> "notifications"
      [] method \in AnalyticsHandlers -> "analytics"
      [] OTHER -> "jobs"

JobsInternal ==
    {"CancelJob", "ClaimJob", "GetReadyRuntimeNode", "ListReadyRuntimeNodes",
     "RenewJobLease", "AttachJobContainer", "CompleteJob", "FailJob",
     "CancelClaimedJob", "ReleaseJobForRetry", "RecoverExpiredJobLeases",
     "GetJobByID"}
WorkflowsInternal ==
    {"UpdateWorkflowBuildStatus", "GetWorkflowByID",
     "IncrementWorkflowConsecutiveJobFailuresCount",
     "ResetWorkflowConsecutiveJobFailuresCount"}
NotificationsInternal == {"CreateNotification"}

isInternalAPI(method) ==
    method \in JobsInternal \cup WorkflowsInternal \cup NotificationsInternal
isAuthRequired(method) == method \notin {"RegisterUser", "LoginUser"}

(***************************************************************************)
(* The callers behind the gateway, with the audiences of the token each    *)
(* one issues for itself and the calls it makes.                           *)
(***************************************************************************)
ExecutorCalls ==
    [aud |-> {"jobs", "workflows"},
     calls |-> {"ClaimJob", "RecoverExpiredJobLeases", "AttachJobContainer",
                "GetWorkflowByID", "ScheduleJob", "RenewJobLease",
                "CancelClaimedJob", "ReleaseJobForRetry", "FailJob",
                "CompleteJob"}]

WorkflowWorkerCallsFaulty ==
    [aud |-> {"workflows", "jobs"},
     calls |-> {"GetWorkflowByID", "ScheduleJob", "UpdateWorkflowBuildStatus",
                "ListReadyRuntimeNodes", "GetReadyRuntimeNode", "CancelJob",
                "ListJobs", "CreateNotification",
                "ResetWorkflowConsecutiveJobFailuresCount",
                "IncrementWorkflowConsecutiveJobFailuresCount"}]

WorkflowWorkerCalls ==
    [aud |-> {"workflows", "jobs", "notifications"},
     calls |-> {"GetWorkflowByID", "ScheduleJob", "UpdateWorkflowBuildStatus",
                "ListReadyRuntimeNodes", "GetReadyRuntimeNode", "CancelJob",
                "ListJobs", "CreateNotification",
                "ResetWorkflowConsecutiveJobFailuresCount",
                "IncrementWorkflowConsecutiveJobFailuresCount"}]

JobsServiceCalls == [aud |-> {"workflows"}, calls |-> {"GetWorkflow"}]
NotificationsServiceCalls == [aud |-> {"users"}, calls |-> {"GetUser"}]

Internal == {ExecutorCalls, WorkflowWorkerCalls, JobsServiceCalls,
             NotificationsServiceCalls}

-----------------------------------------------------------------------------
VARIABLES
    conn,     \* connection -> the request it is serving
    last      \* the call a service answered last, and how

vars == <<conn, last>>

NoToken == [role |-> None, sub |-> None, aud |-> {}]
IdleConn == [route |-> None, user |-> None, checked |-> {},
             token |-> NoToken, todo |-> <<>>]
NoCall == [method |-> None, role |-> None, sub |-> None, by |-> None,
           csrf |-> FALSE, code |-> None]

Init ==
    /\ conn = [c \in Connections |-> IdleConn]
    /\ last = NoCall

Busy(c) == conn[c].route # None

\* A request of a browser in which u is signed in.
Arrive(c, r, u) ==
    /\ ~Busy(c)
    /\ \E run \in Routes[r].runs :
          conn' = [conn EXCEPT ![c] = [IdleConn EXCEPT !.route = r, !.user = u,
                                                       !.todo = run]]
    /\ UNCHANGED last

Reject(c) == conn' = [conn EXCEPT ![c] = IdleConn] /\ UNCHANGED last

withVerifyCSRFMiddleware(c) ==
    /\ Busy(c) /\ Routes[conn[c].route].csrf /\ conn[c].checked = {}
    /\ \/ conn' = [conn EXCEPT ![c].checked = {"csrf"}] /\ UNCHANGED last
       \/ Reject(c)

withVerifySessionMiddleware(c) ==
    /\ Busy(c) /\ Routes[conn[c].route].session
    /\ "session" \notin conn[c].checked
    /\ Routes[conn[c].route].csrf => "csrf" \in conn[c].checked
    /\ \/ conn' = [conn EXCEPT ![c].checked = @ \cup {"session"}]
          /\ UNCHANGED last
       \/ Reject(c)

AttachFaulty(c) ==
    LET aud == Routes[conn[c].route].aud IN
    /\ Busy(c) /\ "session" \in conn[c].checked
    /\ aud # None /\ conn[c].token = NoToken
    /\ conn' = [conn EXCEPT ![c].token =
                  [role |-> "admin", sub |-> conn[c].user, aud |-> {aud}]]
    /\ UNCHANGED last

\* The server signs a token of its own for one service and the session's user.
withAttachAuthorizationTokenInMetadataHeaderMiddleware(c) ==
    LET aud == Routes[conn[c].route].aud IN
    /\ Busy(c) /\ "session" \in conn[c].checked
    /\ aud # None /\ conn[c].token = NoToken
    /\ conn' = [conn EXCEPT ![c].token =
                  [role |-> "user", sub |-> conn[c].user, aud |-> {aud}]]
    /\ UNCHANGED last

Ready(c) ==
    LET r == Routes[conn[c].route] IN
    /\ Busy(c)
    /\ r.csrf => "csrf" \in conn[c].checked
    /\ r.session => "session" \in conn[c].checked
    /\ r.aud # None => conn[c].token # NoToken

(***************************************************************************)
(* The interceptors of the called service: the token must name the service *)
(* among its audiences, and an internal method needs the admin role.       *)
(* Signing up and in need no token and run with the user role.             *)
(***************************************************************************)
authTokenInterceptor(token, method) ==
    IF ~isAuthRequired(method) THEN [NoToken EXCEPT !.role = "user"]
    ELSE IF Server(method) \in token.aud THEN token
    ELSE NoToken

RoleInterceptor(token, method) ==
    /\ token.role # None
    /\ isInternalAPI(method) => token.role = "admin"

Answer(token, method, by, csrf) ==
    LET valid == authTokenInterceptor(token, method) IN
    last' = [method |-> method, role |-> valid.role, sub |-> valid.sub,
             by |-> by, csrf |-> csrf,
             code |-> IF valid.role = None THEN "Unauthenticated"
                      ELSE IF RoleInterceptor(valid, method) THEN "OK"
                      ELSE "PermissionDenied"]

\* The handler makes its next call; when it fails the request ends.
Call(c) ==
    /\ Ready(c) /\ conn[c].todo # <<>>
    /\ Answer(conn[c].token, Head(conn[c].todo), conn[c].user,
              "csrf" \in conn[c].checked)
    /\ conn' = [conn EXCEPT ![c] =
                  IF last'.code = "OK" THEN [conn[c] EXCEPT !.todo = Tail(conn[c].todo)]
                  ELSE IdleConn]

Respond(c) ==
    /\ Ready(c) /\ conn[c].todo = <<>>
    /\ Reject(c)

WithInternalServiceAuthorization(aud) ==
    [role |-> "admin", sub |-> "internal", aud |-> aud]

InternalCall ==
    \E i \in Internal : \E method \in i.calls :
        /\ Answer(WithInternalServiceAuthorization(i.aud), method, "internal",
                  FALSE)
        /\ UNCHANGED conn

Next ==
    \/ \E c \in Connections :
          \/ \E r \in DOMAIN Routes, u \in Users : Arrive(c, r, u)
          \/ withVerifyCSRFMiddleware(c)
          \/ withVerifySessionMiddleware(c)
          \/ withAttachAuthorizationTokenInMetadataHeaderMiddleware(c)
          \/ Call(c)
          \/ Respond(c)
    \/ InternalCall

Spec == Init /\ [][Next]_vars

-----------------------------------------------------------------------------
ChangesState ==
    {"UpdateUser", "CreateWorkflow", "UpdateWorkflow", "TerminateWorkflow",
     "DeleteWorkflow", "ScheduleJob", "MarkNotificationsRead"}

\* Every call the gateway, a worker or a service makes is admitted by the
\* service it is made to: the route's audience is the service of each call its
\* handler makes, no route leads to an internal method, and a caller's token
\* names every service the caller calls (auth.go:176 asks for it).
NoCallRefused == last.code \in {None, "OK"}

\* An internal method is executed for services only, and a method executed for
\* a browser runs for the user of that browser's session, with the user role
\* (RegisterUser and LoginUser before there is a session).
ExecutedAsCaller ==
    last.code = "OK" =>
        /\ isInternalAPI(last.method) => last.by = "internal"
        /\ last.by # "internal" /\ isAuthRequired(last.method)
              => last.role = "user" /\ last.sub = last.by

\* A browser changes something in a service only after its CSRF token was
\* verified (docs/api.md:8), whichever route the call came through.
ChangesAreVerified ==
    last.code = "OK" /\ last.by # "internal" /\ last.method \in ChangesState
        => last.csrf
=============================================================================

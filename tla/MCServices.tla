----------------------------- MODULE MCServices -----------------------------
(* The services behind the HTTP server and the server itself: lists, cached  *)
(* reads, sessions and signing keys, routes and authorization, idempotent    *)
(* commands, the life of a workflow.  These models share no state, so a      *)
(* property of one of them holds in all behaviours if it holds in those in   *)
(* which the others never move: part says which one moves.  A component that *)
(* has proofs is instantiated with them, for Services_proofs to cite.        *)
EXTENDS Serving, TLC

CONSTANTS
    Parts,                                               \* the parts of a run
    users, server, other,                                         \* sessions
    a1, a2, a3, k1, k2, Nobody                                      \* ledger

VARIABLES
    part,
    now, disk, trusted, bundle, up, signing, step, since,
    store, minted, jar, tab, known, gone,
    ledger, identities, lock, call, rows, job, clock, faults,
    wf, status, origin, jobGen, root, dispatched, attempts, stage, canceled, effect, log,
    committed, handler, locked, deleting, commands, failures

-----------------------------------------------------------------------------
\* Rows are listed by (created_at, id) downward.
AllRows == [at : 1 .. 2, id : 1 .. 2]
Newer(a, b) == a.at > b.at \/ (a.at = b.at /\ a.id > b.id)

-----------------------------------------------------------------------------
(* Sessions: tabs that share a browser, where a session expires or is        *)
(* replaced by another, and one tab while the users service's key is         *)
(* rotated.  A session outlives tokens and the grace period, as by default   *)
(* (2h against 15m).  Keys alone: two verifiers, two rotations.              *)
Browser == INSTANCE Sessions_proofs WITH
    Signer <- users, Verifiers <- {server}, Server <- server, Tabs <- {"t1", "t2"},
    Rotations <- 0, TokenLife <- 1, Grace <- 2, MaxTime <- 2,
    Logins <- 1, SessionLife <- 2, CsrfLife <- 2
Again == INSTANCE Sessions_proofs WITH
    Signer <- users, Verifiers <- {server}, Server <- server, Tabs <- {"t1", "t2"},
    Rotations <- 0, TokenLife <- 1, Grace <- 2, MaxTime <- 0,
    Logins <- 2, SessionLife <- 2, CsrfLife <- 2
Rotation == INSTANCE Sessions_proofs WITH
    Signer <- users, Verifiers <- {server, other}, Server <- server, Tabs <- {"t1"},
    Rotations <- 1, TokenLife <- 1, Grace <- 1, MaxTime <- 3,
    Logins <- 1, SessionLife <- 3, CsrfLife <- 3
Signing == INSTANCE Sessions_proofs WITH
    Signer <- users, Verifiers <- {server, other}, Server <- server, Tabs <- {},
    Rotations <- 2, TokenLife <- 1, Grace <- 1, MaxTime <- 3,
    Logins <- 0, SessionLife <- 1, CsrfLife <- 1

-----------------------------------------------------------------------------
(* Commands.                                                                 *)
Command(k, spelling, class, text, path) ==
    [key |-> k, spelling |-> spelling, class |-> class, text |-> text, path |-> path]

\* One key: a command, the same one in another spelling of its key, JSON and
\* UUIDs, another command under the key, and a key that is refused.
OneKeyCommands ==
    {Command(k1, "plain", 1, 1, "canonical"), Command(k1, "padded", 1, 2, "raw"),
     Command(k1, "plain", 2, 1, "canonical"), Command(k1, "invalid", 1, 1, "canonical")}

\* Registrations: one email under two keys and two passwords, another email
\* under the first key.
Registrations ==
    {Command(k1, "plain", 1, 1, "canonical"), Command(k1, "plain", 1, 2, "canonical"),
     Command(k2, "plain", 1, 1, "canonical"), Command(k1, "plain", 2, 1, "canonical")}

\* The cancellation of one job: its command ID is derived from the job's.
Cancellation == {Command(k1, "plain", 1, 1, "canonical")}

\* A command that was there before migration 11.
MigratedPadded == Command(k1, "padded", 1, 2, "raw")

Update == INSTANCE CommandLedger_proofs WITH
    Kind <- "update", Keys <- {k1}, Calls <- {a1, a2, a3}, Commands <- OneKeyCommands,
    Migrated <- MigratedPadded, Retention <- 2, MaxTime <- 3, MaxFaults <- 2,
    None <- Nobody, now <- clock
Notification == INSTANCE CommandLedger_proofs WITH
    Kind <- "notification", Keys <- {k1}, Calls <- {a1, a2, a3}, Commands <- OneKeyCommands,
    Migrated <- MigratedPadded, Retention <- 2, MaxTime <- 3, MaxFaults <- 2,
    None <- Nobody, now <- clock
Register == INSTANCE CommandLedger_proofs WITH
    Kind <- "register", Keys <- {k1, k2}, Calls <- {a1, a2}, Commands <- Registrations,
    Migrated <- Nobody, Retention <- 2, MaxTime <- 3, MaxFaults <- 2,
    None <- Nobody, now <- clock
Cancel == INSTANCE CommandLedger_proofs WITH
    Kind <- "cancel", Keys <- {k1}, Calls <- {a1, a2, a3}, Commands <- Cancellation,
    Migrated <- Nobody, Retention <- 2, MaxTime <- 4, MaxFaults <- 3,
    None <- Nobody, now <- clock
Manual == INSTANCE CommandLedger_proofs WITH
    Kind <- "manual", Keys <- {k1}, Calls <- {a1, a2}, Commands <- OneKeyCommands,
    Migrated <- Nobody, Retention <- 2, MaxTime <- 2, MaxFaults <- 2,
    None <- Nobody, now <- clock

(* A workflow with three jobs, a command after its creation and one failure. *)
Lifecycle == INSTANCE WorkflowLifecycle WITH
    Jobs <- 1 .. 3, Workers <- {users}, Kinds <- {"HEARTBEAT", "CONTAINER"},
    MaxGeneration <- 2, MaxFailures <- 2, RetryLimit <- 1, MaxNext <- 0,
    MaxCommands <- 1, MaxFaults <- 1, Overlap <- FALSE, faults <- failures

(* Two workflow workers that handle one record at the same time.             *)
Overlap == INSTANCE WorkflowLifecycle_proofs WITH
    Jobs <- 1 .. 2, Workers <- {users, server}, Kinds <- {"HEARTBEAT"},
    MaxGeneration <- 2, MaxFailures <- 2, RetryLimit <- 2, MaxNext <- 0,
    MaxCommands <- 1, MaxFaults <- 0, Overlap <- TRUE, faults <- failures

ASSUME ServicesAssumption ==
    /\ Lifecycle!LifecycleAssumption /\ Overlap!LifecycleAssumption
    /\ Browser!AuthKeysAssumption /\ Browser!SessionsAssumption
    /\ Again!AuthKeysAssumption /\ Again!SessionsAssumption
    /\ Rotation!AuthKeysAssumption /\ Rotation!SessionsAssumption /\ Signing!AuthKeysAssumption
    /\ Update!LedgerAssumption /\ Notification!LedgerAssumption /\ Register!LedgerAssumption
    /\ Cancel!LedgerAssumption /\ Manual!LedgerAssumption

-----------------------------------------------------------------------------
keyVars == <<now, disk, trusted, bundle, up, signing, step, since>>
sessionVars == <<store, minted, jar, tab, known, gone>>
ledgerVars == <<ledger, identities, lock, call, rows, job, clock, faults>>
lifeVars == <<wf, status, origin, jobGen, root, dispatched, attempts, stage, canceled, effect,
              log, committed, handler, locked, deleting, commands, failures>>
allVars == <<part, vars, readVars, userVars, keyVars, sessionVars, accessVars, ledgerVars, lifeVars>>

\* A part that does not move has one initial state.
ServicesInit ==
    /\ part \in Parts
    /\ Init /\ (part = "list" \/ table = {})
    /\ User!SignInit
    /\ IF part = "workflow" THEN Workflow!Init ELSE User!ReadInit("absent")
    /\ CASE part = "rotation" -> Rotation!SessionsInit
         [] part = "again" -> Again!SessionsInit
         [] OTHER -> Browser!SessionsInit
    /\ CASE part = "rotation" -> Rotation!KeysInit
         [] part = "keys" -> Signing!KeysInit
         [] OTHER -> Browser!KeysInit
    /\ Gateway!Init
    /\ IF part = "overlap" THEN Overlap!Init ELSE Lifecycle!Init
    /\ CASE part = "update" -> Update!Init
         [] part = "notification" -> Notification!Init
         [] part = "register" -> Register!Init
         [] part = "manual" -> Manual!Init
         [] OTHER -> Cancel!Init

ServicesNext ==
    \/ /\ part = "list" /\ Next
       /\ UNCHANGED <<part, readVars, userVars, keyVars, sessionVars, accessVars, ledgerVars, lifeVars>>
    \/ /\ part = "workflow" /\ Workflow!Next
       /\ UNCHANGED <<part, vars, userVars, keyVars, sessionVars, accessVars, ledgerVars, lifeVars>>
    \/ /\ part = "user" /\ User!Next
       /\ UNCHANGED <<part, vars, keyVars, sessionVars, accessVars, ledgerVars, lifeVars>>
    \/ /\ part = "browser" /\ Browser!Next
       /\ UNCHANGED <<part, vars, readVars, userVars, accessVars, ledgerVars, lifeVars>>
    \/ /\ part = "again" /\ Again!Next
       /\ UNCHANGED <<part, vars, readVars, userVars, accessVars, ledgerVars, lifeVars>>
    \/ /\ part = "rotation" /\ Rotation!Next
       /\ UNCHANGED <<part, vars, readVars, userVars, accessVars, ledgerVars, lifeVars>>
    \/ /\ part = "keys" /\ (Signing!Tick \/ Signing!KeysNext)
       /\ UNCHANGED <<part, vars, readVars, userVars, sessionVars, accessVars, ledgerVars, lifeVars>>
    \/ /\ part = "access" /\ Gateway!Next
       /\ UNCHANGED <<part, vars, readVars, userVars, keyVars, sessionVars, ledgerVars, lifeVars>>
    \/ /\ \/ part = "update" /\ Update!Next
          \/ part = "notification" /\ Notification!Next
          \/ part = "register" /\ Register!Next
          \/ part = "cancel" /\ Cancel!Next
          \/ part = "manual" /\ Manual!Next
       /\ UNCHANGED <<part, vars, readVars, userVars, keyVars, sessionVars, accessVars, lifeVars>>
    \/ /\ part = "life" /\ Lifecycle!Next
       /\ UNCHANGED <<part, vars, readVars, userVars, keyVars, sessionVars, accessVars, ledgerVars>>
    \/ /\ part = "overlap" /\ Overlap!Next
       /\ UNCHANGED <<part, vars, readVars, userVars, keyVars, sessionVars, accessVars, ledgerVars>>

ServicesSpec == ServicesInit /\ [][ServicesNext]_allVars

\* The fairness of each part, in the behaviours in which it moves.
ServicesFairness ==
    /\ \A g \in Goroutines : /\ WF_readVars(part = "workflow" /\ Workflow!Background(g))
                            /\ WF_readVars(part = "user" /\ User!Background(g))
    /\ \A k \in {"workflow", "workflows"} : WF_readVars(part = "workflow" /\ Workflow!Expire(k))
    /\ WF_readVars(part = "user" /\ User!Expire("user"))
    /\ \A c \in WorkflowCallers :
          WF_readVars(part = "workflow" /\ (Workflow!CacheGet(c) \/ Workflow!Join(c)))
    /\ \A c \in UserCallers : WF_readVars(part = "user" /\ (User!CacheGet(c) \/ User!Join(c)))
    /\ SF_readVars(part = "workflow" /\ Workflow!GetWorkflow)
    /\ SF_readVars(part = "workflow" /\ Workflow!ListWorkflows)
    /\ SF_readVars(part = "workflow" /\ Workflow!GetWorkflowByID)
    /\ SF_readVars(part = "user" /\ User!GetUser)
    /\ SF_<<readVars, userVars>>(part = "user" /\ (User!RegisterUser \/ User!LoginUser))
    /\ WF_<<readVars, userVars>>(part = "user" /\ User!UpdateUserReturns)
    /\ WF_keyVars(part = "keys" /\ Signing!Tick)
    /\ WF_keyVars(part = "keys" /\ Signing!InstallPrivate)
    /\ WF_keyVars(part = "keys" /\ Signing!InstallPublic)
    /\ WF_keyVars(part = "keys" /\ Signing!Publish)
    /\ WF_keyVars(part = "keys" /\ Signing!RestartVerifiers)
    /\ WF_keyVars(part = "keys" /\ Signing!RestartSigner)
    /\ WF_keyVars(part = "keys" /\ Signing!Prune)
    /\ WF_keyVars(part = "keys" /\ Signing!RestartAll)
    /\ SF_keyVars(part = "keys" /\ users \notin up /\ Signing!Restart(users))
    /\ WF_lifeVars(part = "life" /\ Lifecycle!HandlerStep(users))
    /\ \A j \in 1 .. 3 : WF_lifeVars(part = "life" /\ Lifecycle!Execution(j))
    /\ \A a \in Lifecycle!Actions : WF_lifeVars(part = "life" /\ Lifecycle!LockExpires(a))
    /\ \A c \in {a1, a2} : WF_ledgerVars(part = "manual" /\ Manual!Step(c))

FairServicesSpec == ServicesSpec /\ ServicesFairness

-----------------------------------------------------------------------------
\* A read without a cache answers with what its query saw, and once UpdateUser
\* returned success the cache holds no older preference.
ReadsHonest ==
    /\ part = "workflow" => Workflow!ReadTypeOK /\ Workflow!UncachedReadsQuery
    /\ part = "user" => User!TypeOK /\ User!AckedUpdateVisible

\* No request sent after a confirmed logout passes the session check; tabs of
\* one browser are told one CSRF token of a session; through a rotation a token
\* and a stored session are accepted, unless the token is as old as the grace
\* period or the signer was restarted ahead of the verifier; a kid means one key
\* in all bundles, and the signer signs with that key.
CredentialsHonoured ==
    /\ part = "browser" => Browser!TypeOK /\ Browser!LoggedOutStaysOut /\ Browser!TabsShareToken
    /\ part = "again" => Again!TypeOK /\ Again!LoggedOutStaysOut /\ Again!TabsShareToken
    /\ part = "rotation" => Rotation!TypeOK /\ Rotation!TokensHonoured /\ Rotation!SessionAccepted
    /\ part = "keys" => Signing!KeysTypeOK /\ Signing!OneKeyPerKid /\ Signing!SignsWithItsKid

\* Every call the gateway, a worker or a service makes is admitted; internal
\* methods run for services only, the others for the session's user; a browser
\* changes something only after its CSRF token was verified.
CallsAuthorized ==
    Gateway!NoCallRefused /\ Gateway!ExecutedAsCaller /\ Gateway!ChangesAreVerified

\* A command takes effect once, no committed row is in progress, and a call is
\* only ever answered with a resource its own request made; rolling migration
\* 11 back finds the identities of every workflow command, and every retained
\* answer of CancelJob reports what the job was before it; the outcome of a job
\* counts once for the consecutive failures, though two workers handle its event.
CommandsOnce ==
    /\ part = "update" => /\ Update!TypeOK /\ Update!OneEffect /\ Update!NothingInProgress
                          /\ Update!AnswersOwnRequest /\ Update!RollbackIdentities
    /\ part = "notification" => /\ Notification!TypeOK /\ Notification!OneEffect
                                /\ Notification!NothingInProgress /\ Notification!AnswersOwnRequest
    /\ part = "register" => /\ Register!TypeOK /\ Register!OneEffect
                            /\ Register!NothingInProgress /\ Register!AnswersOwnRequest
    /\ part = "cancel" => /\ Cancel!TypeOK /\ Cancel!OneEffect /\ Cancel!NothingInProgress
                          /\ Cancel!AnswersOwnRequest /\ Cancel!CancelReportsTheRun
    /\ part = "manual" => /\ Manual!TypeOK /\ Manual!OneEffect
                          /\ Manual!NothingInProgress /\ Manual!AnswersOwnRequest
    /\ part = "overlap" => Overlap!FailuresCountedOnce

\* Once the writes are over the cache ends up with the last value or none.
EventuallyFresh == part = "workflow" => Workflow!EventuallyFresh

\* Every read returns, every command that was sent is answered for good.
EveryCallAnswered ==
    /\ \A c \in UserCallers :
          part = "user" /\ caller[c].pc # "idle" ~> part = "user" /\ caller[c].pc = "idle"
    /\ part = "manual" => Manual!EveryCallAnswered

\* A signer that refused to start in the middle of a rotation starts again.
SignerRecovers == part = "keys" => Signing!SignerRecovers

\* A build that was requested or started settles, and every event of a
\* workflow is handled in the end.
EventsHandled == part = "life" => Lifecycle!BuildSettles /\ Lifecycle!EventsHandled
=============================================================================

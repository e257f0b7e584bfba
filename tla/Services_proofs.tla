-------------------------- MODULE Services_proofs ---------------------------
(***************************************************************************)
(* Proofs about the services together.  The parts of MCServices share no   *)
(* state, and part names the one that moves: a behaviour of the services   *)
(* in which a part moves is a behaviour of its component, so what was      *)
(* proved of the component holds here too.                                 *)
(***************************************************************************)
EXTENDS MCServices, Serving_proofs

-----------------------------------------------------------------------------
(* The part that moves is chosen once.                                     *)

LEMMA PartFixed == [ServicesNext]_allVars => part' = part
BY DEF ServicesNext, allVars

LEMMA BrowserMoves == ServicesSpec /\ part = "browser" => Browser!Spec
<1>1. part = "browser" /\ ServicesInit => Browser!Init
  BY DEF ServicesInit, Browser!Init
<1>2. part = "browser" /\ [ServicesNext]_allVars => [Browser!Next]_(Browser!vars) /\ (part = "browser")'
  BY DEF ServicesNext, allVars, keyVars, sessionVars, Browser!vars, Browser!keyVars, Browser!sessVars
<1> QED BY <1>1, <1>2, PTL DEF ServicesSpec, Browser!Spec

LEMMA AgainMoves == ServicesSpec /\ part = "again" => Again!Spec
<1>1. part = "again" /\ ServicesInit => Again!Init
  BY DEF ServicesInit, Again!Init, Browser!KeysInit, Again!KeysInit, Browser!Loaded, Again!Loaded,
         Browser!Gens, Again!Gens, Browser!Services, Again!Services, Browser!File, Again!File,
         Browser!NoKey, Again!NoKey
<1>2. part = "again" /\ [ServicesNext]_allVars => [Again!Next]_(Again!vars) /\ (part = "again")'
  BY DEF ServicesNext, allVars, keyVars, sessionVars, Again!vars, Again!keyVars, Again!sessVars
<1> QED BY <1>1, <1>2, PTL DEF ServicesSpec, Again!Spec

LEMMA RotationMoves == ServicesSpec /\ part = "rotation" => Rotation!Spec
<1>1. part = "rotation" /\ ServicesInit => Rotation!Init
  BY DEF ServicesInit, Rotation!Init
<1>2. part = "rotation" /\ [ServicesNext]_allVars => [Rotation!Next]_(Rotation!vars) /\ (part = "rotation")'
  BY DEF ServicesNext, allVars, keyVars, sessionVars, Rotation!vars, Rotation!keyVars, Rotation!sessVars
<1> QED BY <1>1, <1>2, PTL DEF ServicesSpec, Rotation!Spec

LEMMA UpdateMoves == ServicesSpec => [](part = "update" => Update!LedgerInv)
<1>1. Update!LedgerAssumption
  BY ServicesAssumption
<1>2. ServicesInit /\ part = "update" => Update!LedgerInv
  BY <1>1, Update!InitInv DEF ServicesInit
<1>3. part = "update" /\ [ServicesNext]_allVars => [Update!Next]_(Update!vars)
  BY DEF ServicesNext, allVars, ledgerVars, Update!vars
<1>4. (part = "update" => Update!LedgerInv) /\ [ServicesNext]_allVars => (part = "update" => Update!LedgerInv)'
  BY <1>1, <1>3, PartFixed, Update!NextInv
<1> QED BY <1>2, <1>4, PTL DEF ServicesSpec

LEMMA NotificationMoves == ServicesSpec => [](part = "notification" => Notification!LedgerInv)
<1>1. Notification!LedgerAssumption
  BY ServicesAssumption
<1>2. ServicesInit /\ part = "notification" => Notification!LedgerInv
  BY <1>1, Notification!InitInv DEF ServicesInit
<1>3. part = "notification" /\ [ServicesNext]_allVars => [Notification!Next]_(Notification!vars)
  BY DEF ServicesNext, allVars, ledgerVars, Notification!vars
<1>4. (part = "notification" => Notification!LedgerInv) /\ [ServicesNext]_allVars => (part = "notification" => Notification!LedgerInv)'
  BY <1>1, <1>3, PartFixed, Notification!NextInv
<1> QED BY <1>2, <1>4, PTL DEF ServicesSpec

LEMMA RegisterMoves == ServicesSpec => [](part = "register" => Register!LedgerInv)
<1>1. Register!LedgerAssumption
  BY ServicesAssumption
<1>2. ServicesInit /\ part = "register" => Register!LedgerInv
  BY <1>1, Register!InitInv DEF ServicesInit
<1>3. part = "register" /\ [ServicesNext]_allVars => [Register!Next]_(Register!vars)
  BY DEF ServicesNext, allVars, ledgerVars, Register!vars
<1>4. (part = "register" => Register!LedgerInv) /\ [ServicesNext]_allVars => (part = "register" => Register!LedgerInv)'
  BY <1>1, <1>3, PartFixed, Register!NextInv
<1> QED BY <1>2, <1>4, PTL DEF ServicesSpec

LEMMA CancelMoves == ServicesSpec => [](part = "cancel" => Cancel!LedgerInv)
<1>1. Cancel!LedgerAssumption
  BY ServicesAssumption
<1>2. ServicesInit /\ part = "cancel" => Cancel!LedgerInv
  BY <1>1, Cancel!InitInv DEF ServicesInit
<1>3. part = "cancel" /\ [ServicesNext]_allVars => [Cancel!Next]_(Cancel!vars)
  BY DEF ServicesNext, allVars, ledgerVars, Cancel!vars
<1>4. (part = "cancel" => Cancel!LedgerInv) /\ [ServicesNext]_allVars => (part = "cancel" => Cancel!LedgerInv)'
  BY <1>1, <1>3, PartFixed, Cancel!NextInv
<1> QED BY <1>2, <1>4, PTL DEF ServicesSpec

LEMMA ManualMoves == ServicesSpec => [](part = "manual" => Manual!LedgerInv)
<1>1. Manual!LedgerAssumption
  BY ServicesAssumption
<1>2. ServicesInit /\ part = "manual" => Manual!LedgerInv
  BY <1>1, Manual!InitInv DEF ServicesInit
<1>3. part = "manual" /\ [ServicesNext]_allVars => [Manual!Next]_(Manual!vars)
  BY DEF ServicesNext, allVars, ledgerVars, Manual!vars
<1>4. (part = "manual" => Manual!LedgerInv) /\ [ServicesNext]_allVars => (part = "manual" => Manual!LedgerInv)'
  BY <1>1, <1>3, PartFixed, Manual!NextInv
<1> QED BY <1>2, <1>4, PTL DEF ServicesSpec

LEMMA OverlapMoves == ServicesSpec /\ part = "overlap" => Overlap!Spec
<1>1. part = "overlap" /\ ServicesInit => Overlap!Init
  BY DEF ServicesInit
<1>2. part = "overlap" /\ [ServicesNext]_allVars => [Overlap!Next]_(Overlap!vars) /\ (part = "overlap")'
  BY DEF ServicesNext, allVars, lifeVars, Overlap!vars, Overlap!jobVars, Overlap!workerVars
<1> QED BY <1>1, <1>2, PTL DEF ServicesSpec, Overlap!Spec

-----------------------------------------------------------------------------
(* What the services promise together.                                       *)

\* Whichever of its five commands a service executes, and with any calls,
\* spellings, faults and expiries, the command takes effect once, no committed
\* row is in progress and a call is answered with what its own request made;
\* migration 11 finds every identity when it is rolled back, CancelJob reports
\* what the job was, and a failed job counts once though two workers handle its
\* event (internal/repository/idempotency, workflows.go's failure count).
THEOREM CommandsTakeEffectOnce == ServicesSpec => []CommandsOnce
<1>1. Overlap!Spec => []Overlap!FailuresCountedOnce
  BY ServicesAssumption, Overlap!FailuresAreCountedOnce
<1>2. ~(part = "overlap") /\ [ServicesNext]_allVars => ~(part = "overlap")'
  BY PartFixed
<1>3. ServicesSpec => [](part = "overlap" => Overlap!FailuresCountedOnce)
  BY <1>1, <1>2, OverlapMoves, PTL DEF ServicesSpec
<1>4. /\ Update!LedgerInv => /\ Update!TypeOK /\ Update!OneEffect /\ Update!NothingInProgress
                             /\ Update!AnswersOwnRequest /\ Update!RollbackIdentities
      /\ Notification!LedgerInv =>
            /\ Notification!TypeOK /\ Notification!OneEffect
            /\ Notification!NothingInProgress /\ Notification!AnswersOwnRequest
      /\ Register!LedgerInv => /\ Register!TypeOK /\ Register!OneEffect
                               /\ Register!NothingInProgress /\ Register!AnswersOwnRequest
      /\ Cancel!LedgerInv => /\ Cancel!TypeOK /\ Cancel!OneEffect /\ Cancel!NothingInProgress
                             /\ Cancel!AnswersOwnRequest /\ Cancel!CancelReportsTheRun
      /\ Manual!LedgerInv => /\ Manual!TypeOK /\ Manual!OneEffect
                             /\ Manual!NothingInProgress /\ Manual!AnswersOwnRequest
  BY Update!LedgerPromises, Notification!LedgerPromises, Register!LedgerPromises,
     Cancel!LedgerPromises, Manual!LedgerPromises
<1>5. /\ part = "update" => Update!LedgerInv
      /\ part = "notification" => Notification!LedgerInv
      /\ part = "register" => Register!LedgerInv
      /\ part = "cancel" => Cancel!LedgerInv
      /\ part = "manual" => Manual!LedgerInv
      /\ part = "overlap" => Overlap!FailuresCountedOnce
      => CommandsOnce
  BY <1>4 DEF CommandsOnce
<1> QED
  BY <1>3, <1>5, UpdateMoves, NotificationMoves, RegisterMoves, CancelMoves, ManualMoves, PTL

\* Sessions and keys together: a confirmed logout holds in every tab, tabs of a
\* browser are told one CSRF token, stored sessions and tokens pass the checks at
\* every stage of a key rotation unless they are as old as the grace period or
\* the signer was restarted ahead of the verifier, and a kid means one key in
\* every bundle (server/middlewares.go, pkg/auth).
THEOREM CredentialsAreHonoured == ServicesSpec => []CredentialsHonoured
<1>1. Browser!Spec => [](Browser!TypeOK /\ Browser!LoggedOutStaysOut /\ Browser!TabsShareToken)
  <2>1. Browser!AuthKeysAssumption /\ Browser!SessionsAssumption /\ 2 >= 2
    BY ServicesAssumption
  <2>2. /\ Browser!Spec => []Browser!TypeOK
        /\ Browser!Spec => []Browser!LoggedOutStaysOut
        /\ Browser!Spec => []Browser!TabsShareToken
    BY <2>1, Browser!SessionsTypeCorrect, Browser!ConfirmedLogoutHolds, Browser!TabsAgree
  <2> QED BY <2>2, PTL
<1>2. Again!Spec => [](Again!TypeOK /\ Again!LoggedOutStaysOut /\ Again!TabsShareToken)
  <2>1. Again!AuthKeysAssumption /\ Again!SessionsAssumption /\ 2 >= 2
    BY ServicesAssumption
  <2>2. /\ Again!Spec => []Again!TypeOK
        /\ Again!Spec => []Again!LoggedOutStaysOut
        /\ Again!Spec => []Again!TabsShareToken
    BY <2>1, Again!SessionsTypeCorrect, Again!ConfirmedLogoutHolds, Again!TabsAgree
  <2> QED BY <2>2, PTL
<1>3. Rotation!Spec => [](Rotation!TypeOK /\ Rotation!TokensHonoured /\ Rotation!SessionAccepted)
  <2>1. Rotation!AuthKeysAssumption /\ Rotation!SessionsAssumption
    BY ServicesAssumption
  <2>2. /\ Rotation!Spec => []Rotation!TypeOK
        /\ Rotation!Spec => [](Rotation!TokensHonoured /\ Rotation!SessionAccepted)
    BY <2>1, Rotation!SessionsTypeCorrect, Rotation!TokensOutliveRotations
  <2> QED BY <2>2, PTL
<1>4. ServicesSpec => [](part = "keys" => Signing!KeysInv)
  <2>1. Signing!AuthKeysAssumption
    BY ServicesAssumption
  <2>2. ServicesInit /\ part = "keys" => Signing!KeysInv
    BY <2>1, Signing!KeysInitial DEF ServicesInit
  <2>3. part = "keys" /\ [ServicesNext]_allVars
           => [Signing!Tick \/ Signing!KeysNext]_<<now, Signing!keyVars>>
    BY DEF ServicesNext, allVars, keyVars, Signing!keyVars
  <2>4. (part = "keys" => Signing!KeysInv) /\ [ServicesNext]_allVars
           => (part = "keys" => Signing!KeysInv)'
    BY <2>1, <2>3, PartFixed, Signing!KeysStep
  <2> QED BY <2>2, <2>4, PTL DEF ServicesSpec
<1>5. Signing!KeysInv => Signing!KeysTypeOK /\ Signing!OneKeyPerKid /\ Signing!SignsWithItsKid
  BY Signing!KeysPromises
<1>6. /\ ~(part = "browser") /\ [ServicesNext]_allVars => ~(part = "browser")'
      /\ ~(part = "again") /\ [ServicesNext]_allVars => ~(part = "again")'
      /\ ~(part = "rotation") /\ [ServicesNext]_allVars => ~(part = "rotation")'
  BY PartFixed
<1>7. /\ part = "browser" => Browser!TypeOK /\ Browser!LoggedOutStaysOut /\ Browser!TabsShareToken
      /\ part = "again" => Again!TypeOK /\ Again!LoggedOutStaysOut /\ Again!TabsShareToken
      /\ part = "rotation" => Rotation!TypeOK /\ Rotation!TokensHonoured /\ Rotation!SessionAccepted
      /\ part = "keys" => Signing!KeysInv
      => CredentialsHonoured
  BY <1>5 DEF CredentialsHonoured
<1>a. ServicesSpec => [](part = "browser" => Browser!TypeOK /\ Browser!LoggedOutStaysOut /\ Browser!TabsShareToken)
  BY <1>1, <1>6, BrowserMoves, PTL DEF ServicesSpec
<1>b. ServicesSpec => [](part = "again" => Again!TypeOK /\ Again!LoggedOutStaysOut /\ Again!TabsShareToken)
  BY <1>2, <1>6, AgainMoves, PTL DEF ServicesSpec
<1>c. ServicesSpec => [](part = "rotation" => Rotation!TypeOK /\ Rotation!TokensHonoured /\ Rotation!SessionAccepted)
  BY <1>3, <1>6, RotationMoves, PTL DEF ServicesSpec
<1> QED BY <1>4, <1>7, <1>a, <1>b, <1>c, PTL

\* A read that bypasses the cache answers with what the row was after it was
\* asked (GetWorkflowByID), and the cache holds no user older than an UpdateUser
\* that returned with no other writer of the entry under way.
THEOREM ReadsAreHonest == ServicesSpec => []ReadsHonest
<1> DEFINE key == CHOOSE k \in AskedKeys : TRUE
<1>1. ServicesInit /\ part = "workflow" => WorkflowInv
  <2> SUFFICES ASSUME ServicesInit, part = "workflow" PROVE WorkflowInv
    OBVIOUS
  <2>1. key \in AskedKeys /\ AskedKeys \in SUBSET ReadKeys /\ WorkflowCommits \in Nat
    BY ServingAssumption DEF Workflow!ReadThroughAssumption, ReadKeys
  <2>2. Workflow!ReadInit("absent")
    BY DEF ServicesInit, Workflow!Init
  <2>3. caller = [c \in WorkflowCallers |->
                    [pc |-> "idle", key |-> key, since |-> 0,
                     answer |-> [ok |-> FALSE, v |-> 0, floor |-> 0]]]
    BY <2>2 DEF Workflow!ReadInit, Workflow!NoAnswer
  <2> HIDE DEF key
  <2> QED BY <2>1, <2>2, <2>3, ReadsInitially
          DEF WorkflowInv, Workflow!ReadInit, Workflow!NoEntry, Workflow!NoFlight, NotFlying, ReadKeys
<1>2. ServicesInit /\ part = "user" => UserInv
  <2> SUFFICES ASSUME ServicesInit, part = "user" PROVE UserInv
    OBVIOUS
  <2>1. "user" \in {"user"} /\ {"user"} \in SUBSET ReadKeys /\ UserCommits \in Nat
    BY ServingAssumption DEF User!ReadThroughAssumption, ReadKeys
  <2>2. User!ReadInit("absent") /\ User!SignInit
    BY DEF ServicesInit
  <2>3. caller = [c \in UserCallers |->
                    [pc |-> "idle", key |-> "user", since |-> 0,
                     answer |-> [ok |-> FALSE, v |-> 0, floor |-> 0]]]
    BY <2>2 DEF User!ReadInit, User!NoAnswer
  <2>4. CacheInv(UserCommits) /\ FlightInv(UserCallers, {"user"})
    BY <2>1, <2>2, <2>3, ReadsInitially
       DEF User!ReadInit, User!NoEntry, User!NoFlight, NotFlying, ReadKeys
  <2>5. /\ sign \in [op : {"none", "login", "register"}, v : 0 .. commits] /\ sign.op = "none"
        /\ update \in [pc : {"idle", "delete"}, acked : 0 .. commits, alone : BOOLEAN]
        /\ update.acked = 0
    BY <2>2 DEF User!ReadInit, User!SignInit
  <2>6. Fresh(0)
    BY <2>2 DEF Fresh, User!ReadInit, User!NoEntry, User!NoFlight, CachedKeys, ReadKeys
  <2> QED BY <2>4, <2>5, <2>6 DEF UserInv
<1>3. part = "workflow" /\ [ServicesNext]_allVars => [Workflow!Next]_readVars
  BY DEF ServicesNext, allVars
<1>4. part = "user" /\ [ServicesNext]_allVars => [User!Next]_<<readVars, sign, update>>
  BY DEF ServicesNext, allVars, userVars
<1>5. (part = "workflow" => WorkflowInv) /\ [ServicesNext]_allVars => (part = "workflow" => WorkflowInv)'
  BY <1>3, PartFixed, WorkflowStep
<1>6. (part = "user" => UserInv) /\ [ServicesNext]_allVars => (part = "user" => UserInv)'
  BY <1>4, PartFixed, UserStep
<1>7. (part = "workflow" => WorkflowInv) /\ (part = "user" => UserInv) => ReadsHonest
  BY WorkflowPromises, UserPromises DEF ReadsHonest
<1> QED BY <1>1, <1>2, <1>5, <1>6, <1>7, PTL DEF ServicesSpec

\* No call that the server, a worker or a service makes is refused, internal
\* methods run for services only and the others for the user of the session,
\* and a browser changes nothing before its CSRF token was verified (server.go's
\* routes, the interceptors of internal/pkg/grpc/middlewares).
THEOREM CallsAreAuthorized == ServicesSpec => []CallsAuthorized
<1>1. ServicesInit => AccessInv
  BY AccessInitially DEF ServicesInit
<1>2. [ServicesNext]_allVars => [Gateway!Next]_<<conn, answered>>
  BY DEF ServicesNext, allVars, accessVars
<1>3. AccessInv /\ [ServicesNext]_allVars => AccessInv'
  BY <1>2, AccessStep
<1>4. AccessInv => CallsAuthorized
  BY DEF AccessInv, CallsAuthorized
<1> QED BY <1>1, <1>3, <1>4, PTL DEF ServicesSpec
=============================================================================

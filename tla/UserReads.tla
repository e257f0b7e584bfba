------------------------------ MODULE UserReads -----------------------------
(***************************************************************************)
(* The users-service: GetUser is cached; UpdateUser, which sets the        *)
(* notification preference, deletes the entry before it returns; LoginUser *)
(* and RegisterUser cache the row they read in a goroutine.                *)
(***************************************************************************)
EXTENDS ReadThrough

VARIABLES
    sign,    \* the LoginUser or RegisterUser in progress and the row it read
    update   \* the UpdateUser in progress, and the last that succeeded

allVars == <<vars, sign, update>>

user == "user"

SignInit ==
    /\ sign = [op |-> "none", v |-> 0]
    /\ update = [pc |-> "idle", acked |-> 0, alone |-> TRUE]

Init == ReadInit("absent") /\ SignInit

-----------------------------------------------------------------------------
\* The repository: RegisterUser creates the user, a replay of it and LoginUser
\* read the row.  A wrong password, or a token that cannot be issued, ends in
\* an error.
RegisterRow ==
    /\ sign.op = "none"
    /\ \/ /\ state = "absent" /\ commits < MaxCommits
          /\ commits' = commits + 1 /\ state' = "active"
          /\ sign' = [op |-> "register", v |-> commits + 1]
       \/ /\ state = "active" /\ sign' = [op |-> "register", v |-> commits]
          /\ UNCHANGED <<commits, state>>
    /\ UNCHANGED <<cache, flight, bg, caller, update>>
LoginRow ==
    /\ sign.op = "none" /\ state = "active"
    /\ sign' = [op |-> "login", v |-> commits]
    /\ UNCHANGED <<vars, update>>

\* The service caches the row in a goroutine.
CacheUser ==
    /\ sign' = [op |-> "none", v |-> 0]
    /\ Spawn(<<Fill(user, sign.v)>>) \/ UNCHANGED bg
    /\ UNCHANGED <<commits, state, cache, flight, caller, update>>
RegisterUser == sign.op = "register" /\ CacheUser
LoginUser == sign.op = "login" /\ CacheUser

-----------------------------------------------------------------------------
\* The repository's UpdateUser: a preference that is already set is success.
UpdateRowFaulty ==
    /\ update.pc = "idle" /\ state = "active"
    /\ \/ commits < MaxCommits /\ commits' = commits + 1 /\ update' = [update EXCEPT !.pc = "delete"]
       \/ UNCHANGED commits /\ update' = [update EXCEPT !.acked = commits]
    /\ UNCHANGED <<state, cache, flight, bg, caller, sign>>
UpdateRow ==
    /\ update.pc = "idle" /\ state = "active"
    /\ \/ commits < MaxCommits /\ commits' = commits + 1
       \/ UNCHANGED commits
    /\ update' = [update EXCEPT !.pc = "delete"]
    /\ UNCHANGED <<state, cache, flight, bg, caller, sign>>

\* No read of the user is on its way into the cache.
Alone == sign.op = "none" /\ flight[user].step = "none" /\ \A g \in Goroutines : bg[g] = <<>>

\* cache.Delete fails UpdateUser, whose caller may ask again, or succeeds.
UpdateUserReturns ==
    /\ update.pc = "delete"
    /\ \/ /\ cache' = [cache EXCEPT ![user] = NoEntry]
          /\ update' = [pc |-> "idle", acked |-> commits, alone |-> Alone]
       \/ update' = [update EXCEPT !.pc = "idle"] /\ UNCHANGED cache
    /\ UNCHANGED <<commits, state, flight, bg, caller, sign>>

GetUser ==
    /\ Query(user, state # "absent") \/ Land(user, <<Fill(user, flight[user].v)>>)
    /\ UNCHANGED <<sign, update>>

Next ==
    \/ ReadNext /\ UNCHANGED <<sign, update>>
    \/ RegisterRow \/ LoginRow \/ RegisterUser \/ LoginUser
    \/ UpdateRow \/ UpdateUserReturns \/ GetUser

Spec == Init /\ [][Next]_allVars

\* As in WorkflowReads; a sign-in and an update go on as well.
Fairness ==
    /\ ReadFairness /\ SF_allVars(GetUser)
    /\ SF_allVars(RegisterUser \/ LoginUser) /\ WF_allVars(UpdateUserReturns)
FairSpec == Spec /\ Fairness

-----------------------------------------------------------------------------
\* Type invariant.
TypeOK ==
    /\ ReadTypeOK
    /\ sign \in [op : {"none", "login", "register"}, v : 0 .. commits]
    /\ update \in [pc : {"idle", "delete"}, acked : 0 .. commits, alone : BOOLEAN]

\* UpdateUser: once it returned success the cache holds no older preference,
\* also when an earlier try committed and failed to delete the entry; only a
\* read that was in progress can still bring one back.
AckedUpdateVisible ==
    update.alone /\ cache[user].has => cache[user].v >= update.acked
=============================================================================

----------------------------- MODULE ReadThrough ----------------------------
(***************************************************************************)
(* The reads of the domain services: a look-up in Redis, one query of the  *)
(* repository shared by concurrent callers (singleflight), and background  *)
(* goroutines that fill and invalidate the cache.  The module models one   *)
(* replica and one resource, whose value is the number of the commit that  *)
(* made it; WorkflowReads and UserReads add the writes of their service.   *)
(***************************************************************************)
EXTENDS Naturals, Sequences

CONSTANTS
    Callers,
    Keys,        \* what is read: the cache keys and the keys of the flights
    Asked,       \* the keys that the callers of an instance ask for
    Cached,      \* the keys that are kept in Redis
    Goroutines,  \* bound on the background goroutines at a time
    MaxCommits   \* bound on the writes

ReadThroughAssumption ==
    Asked # {} /\ Asked \subseteq Keys /\ Cached \subseteq Keys /\ MaxCommits \in Nat

VARIABLES
    commits,  \* the number of the last committed write
    state,    \* "absent", "active" or "terminated"
    cache,    \* [has, v] of each cached key
    flight,   \* the query in progress of each key
    bg,       \* what each background goroutine has left to do
    caller    \* [pc, key, since, answer] of each caller; the last two, the last
              \* commit at the call and the answer, of reads without a cache

vars == <<commits, state, cache, flight, bg, caller>>

NoEntry == [has |-> FALSE, v |-> 0]
\* step: "none", "open" before the query, "done" after it; ok: it succeeded;
\* began: the last commit when the flight was opened; ctx: its leader's
\* context is alive.
NoFlight == [step |-> "none", leader |-> {}, waiters |-> {}, ctx |-> TRUE,
             ok |-> FALSE, v |-> 0, began |-> 0]
NoAnswer == [ok |-> FALSE, v |-> 0, floor |-> 0]

ReadInit(s) ==
    /\ commits = 0 /\ state = s
    /\ cache = [k \in Cached |-> NoEntry]
    /\ flight = [k \in Keys |-> NoFlight]
    /\ bg = [g \in Goroutines |-> <<>>]
    /\ caller = [c \in Callers |-> [pc |-> "idle", key |-> CHOOSE k \in Asked : TRUE,
                                    since |-> 0, answer |-> NoAnswer]]

-----------------------------------------------------------------------------
(* Background goroutines: each operation may fail, which is only logged.   *)

Del(k) == [op |-> "del", key |-> k, v |-> 0]
Fill(k, v) == [op |-> "set", key |-> k, v |-> v]

Spawn(ops) == \E g \in Goroutines : bg[g] = <<>> /\ bg' = [bg EXCEPT ![g] = ops]

Apply(o) == cache' = [cache EXCEPT ![o.key] =
                IF o.op = "set" THEN [has |-> TRUE, v |-> o.v] ELSE NoEntry]

Background(g) ==
    /\ bg[g] # <<>>
    /\ bg' = [bg EXCEPT ![g] = Tail(@)]
    /\ Apply(Head(bg[g])) \/ UNCHANGED cache
    /\ UNCHANGED <<commits, state, flight, caller>>

\* Every key has a positive time to live, which a read does not renew.
Expire(k) ==
    /\ cache[k].has
    /\ cache' = [cache EXCEPT ![k] = NoEntry]
    /\ UNCHANGED <<commits, state, flight, bg, caller>>

-----------------------------------------------------------------------------
(* Reads                                                                   *)

Call(c, k) ==
    /\ caller[c].pc = "idle"
    /\ caller' = [caller EXCEPT ![c] = [pc |-> IF k \in Cached THEN "get" ELSE "join",
                                        key |-> k, since |-> IF k \in Cached THEN 0 ELSE commits,
                                        answer |-> NoAnswer]]
    /\ UNCHANGED <<commits, state, cache, flight, bg>>

\* cache.Get: the entry, or a miss or an error, after which the read goes on.
CacheGet(c) ==
    /\ caller[c].pc = "get"
    /\ \/ cache[caller[c].key].has /\ caller' = [caller EXCEPT ![c].pc = "idle"]
       \/ caller' = [caller EXCEPT ![c].pc = "join"]
    /\ UNCHANGED <<commits, state, cache, flight, bg>>

\* sf.DoChan: the first caller leads, the others wait for its result.
Join(c) ==
    LET k == caller[c].key
        f == IF flight[k].step = "none"
             THEN [NoFlight EXCEPT !.step = "open", !.leader = {c}, !.waiters = {c},
                                   !.began = commits]
             ELSE [flight[k] EXCEPT !.waiters = @ \cup {c}]
    IN
    /\ caller[c].pc = "join"
    /\ caller' = [caller EXCEPT ![c].pc = "wait"]
    /\ flight' = [flight EXCEPT ![k] = f]
    /\ UNCHANGED <<commits, state, cache, bg>>

\* The query runs under the leader's context and may fail.
Query(k, found) ==
    LET f == flight[k] IN
    /\ f.step = "open"
    /\ \E ok \in BOOLEAN :
          /\ ok => f.ctx /\ found
          /\ flight' = [flight EXCEPT ![k].step = "done", ![k].ok = ok, ![k].v = commits]
    /\ UNCHANGED <<commits, state, cache, bg, caller>>

Result(k) == IF k \in Cached \/ ~flight[k].ok THEN NoAnswer
             ELSE [ok |-> TRUE, v |-> flight[k].v, floor |-> flight[k].began]

AnswerFaulty(k) == [c \in Callers |-> IF c \in flight[k].leader
    THEN [caller[c] EXCEPT !.pc = "idle", !.answer = Result(k)] ELSE caller[c]]
\* The result of a flight goes to everyone who still waits for it.
Answer(k) == [c \in Callers |-> IF c \in flight[k].waiters
    THEN [caller[c] EXCEPT !.pc = "idle", !.answer = Result(k)] ELSE caller[c]]

\* The flight ends; a successful one leaves ops to a goroutine.
Land(k, ops) ==
    LET f == flight[k] IN
    /\ f.step = "done"
    /\ caller' = Answer(k)
    /\ flight' = [flight EXCEPT ![k] = NoFlight]
    /\ IF f.ok /\ ops # <<>> THEN Spawn(ops) ELSE UNCHANGED bg
    /\ UNCHANGED <<commits, state, cache>>

\* The caller's context ends: WaitSingleflightResult returns, and with the
\* leader the context of its query ends.
Cancel(c) ==
    LET k == caller[c].key IN
    /\ caller[c].pc # "idle"
    /\ caller' = [caller EXCEPT ![c].pc = "idle"]
    /\ flight' = [flight EXCEPT ![k].waiters = @ \ {c}, ![k].leader = @ \ {c},
                                ![k].ctx = @ /\ c \notin flight[k].leader]
    /\ UNCHANGED <<commits, state, cache, bg>>

ReadNext ==
    \/ \E g \in Goroutines : Background(g)
    \/ \E k \in Cached : Expire(k)
    \/ \E c \in Callers : CacheGet(c) \/ Join(c) \/ Cancel(c)
    \/ \E c \in Callers, k \in Asked : Call(c, k)

\* Goroutines run on, keys expire; callers need not call.
ReadFairness ==
    /\ \A g \in Goroutines : WF_vars(Background(g))
    /\ \A k \in Cached : WF_vars(Expire(k))
    /\ \A c \in Callers : WF_vars(CacheGet(c) \/ Join(c))

-----------------------------------------------------------------------------
\* Type invariant; who waits is known to the flight he waits for.
ReadTypeOK ==
    /\ commits \in 0 .. MaxCommits /\ state \in {"absent", "active", "terminated"}
    /\ cache \in [Cached -> [has : BOOLEAN, v : 0 .. commits]]
    /\ \A k \in Keys : flight[k].step \in {"none", "open", "done"} /\ flight[k].v <= commits
    /\ \A g \in Goroutines : \A i \in DOMAIN bg[g] : bg[g][i].key \in Cached
    /\ \A c \in Callers : caller[c].pc \in {"idle", "get", "join", "wait"}
    /\ \A c \in Callers : caller[c].pc = "wait" <=> c \in flight[caller[c].key].waiters

\* GetWorkflowByID ("we don't want the cached workflow details") and the other
\* reads without a cache: the answer is as new as the last commit when the
\* flight that gave it was opened.
UncachedReadsQuery ==
    \A c \in Callers : caller[c].answer.ok /\ caller[c].key \notin Cached
        => caller[c].answer.v >= caller[c].answer.floor

\* The same with the last commit when the caller called.
UncachedReadsFresh ==
    \A c \in Callers : caller[c].answer.ok /\ caller[c].key \notin Cached
        => caller[c].answer.v >= caller[c].since

\* Once the writes are over every cached read ends up with the last value: a
\* Set that lost the race against an invalidation, an invalidation that
\* failed and a replayed command are all undone by the expiry.
EventuallyFresh ==
    <>[](\A k \in Cached : cache[k].has => cache[k].v = commits)

\* Every call returns: no follower waits for a flight that forgot him.
CallReturns ==
    \A c \in Callers : caller[c].pc # "idle" ~> caller[c].pc = "idle"
=============================================================================

---------------------------- MODULE EndpointCache ----------------------------
(***************************************************************************)
(* container.EndpointCache: the Docker clients of a worker process, one    *)
(* per runtime endpoint, shared by the goroutines that run jobs, recover   *)
(* leases and resolve images.  A Get runs under singleflight; the cache is *)
(* guarded by a mutex that is released while a client is constructed, so   *)
(* Close and the Gets of other endpoints run in between.  An empty         *)
(* endpoint is refused before any of this.                                 *)
(***************************************************************************)
EXTENDS Naturals, FiniteSets

CONSTANTS
    Getters, Endpoints,
    maxEntries, idleTTL,
    MaxClients,     \* bound on the clients ever constructed
    MaxTime,        \* bound on the clock
    NoClient

\* A flight: what it does next, the time it read, the client it has found or
\* made, and the clients it took out of the cache and still has to close.
Flights == [stage: {"lookup", "miss", "install", "hit"}, now: 0..MaxTime,
            client: 1..MaxClients \cup {NoClient}, drop: SUBSET (1..MaxClients)]
Flight(stage, t, c, drop) == [stage |-> stage, now |-> t, client |-> c, drop |-> drop]

ASSUME CacheAssumption ==
    /\ IsFiniteSet(Endpoints)
    /\ {maxEntries, idleTTL} \subseteq Nat \ {0}
    /\ {MaxClients, MaxTime} \subseteq Nat
    /\ NoClient \notin Endpoints \cup 1..MaxClients \cup Flights

VARIABLES
    clients,  \* the cached entries, by endpoint
    closed,
    closing,  \* what Close has taken out and not closed yet
    getting,  \* per endpoint, the Get that singleflight is running
    waiting,  \* the endpoint a caller is waiting for
    open,     \* the clients constructed and not closed
    constructed,  \* how many were
    clock

cacheVars == <<clients, closed, closing, getting, waiting, open, constructed, clock>>

-----------------------------------------------------------------------------
Cached == DOMAIN clients

Entry(c, t) == [client |-> c, lastUsed |-> t]

ClientsOf(E) == {clients[e].client : e \in E}

Without(E) == [e \in Cached \ E |-> clients[e]]

CacheInit ==
    /\ clients = [e \in {} |-> NoClient]
    /\ closed = FALSE
    /\ closing = {}
    /\ getting = [e \in Endpoints |-> NoClient]
    /\ waiting = [g \in Getters |-> NoClient]
    /\ open = {}
    /\ constructed = 0
    /\ clock = 0

\* The flight of e ends, and with it the Get of everybody who waits for e.
FlightReturns(e) ==
    /\ getting' = [getting EXCEPT ![e] = NoClient]
    /\ waiting' = [g \in Getters |-> IF waiting[g] = e THEN NoClient ELSE waiting[g]]

-----------------------------------------------------------------------------
GetFaulty(g, e) ==
    /\ waiting[g] = NoClient
    /\ waiting' = [waiting EXCEPT ![g] = e]
    /\ getting' = [getting EXCEPT ![e] = Flight("lookup", clock, NoClient, {})]
    /\ UNCHANGED <<clients, closed, closing, open, constructed, clock>>

\* A Get joins the flight of its endpoint, or starts one, which first reads
\* the clock.
Get(g, e) ==
    /\ waiting[g] = NoClient
    /\ waiting' = [waiting EXCEPT ![g] = e]
    /\ getting' = IF getting[e] # NoClient THEN getting
                 ELSE [getting EXCEPT ![e] = Flight("lookup", clock, NoClient, {})]
    /\ UNCHANGED <<clients, closed, closing, open, constructed, clock>>

evictExpiredLocked(now) == {e \in Cached : now >= clients[e].lastUsed + idleTTL}

\* The first critical section of a flight.
Lookup(e) ==
    /\ getting[e] # NoClient
    /\ getting[e].stage = "lookup"
    /\ IF closed THEN FlightReturns(e) /\ UNCHANGED clients
       ELSE LET now == getting[e].now
                evicted == evictExpiredLocked(now)
                kept == Without(evicted)
            IN /\ IF e \in DOMAIN kept
                  THEN /\ clients' = [kept EXCEPT ![e].lastUsed = now]
                       /\ getting' = [getting EXCEPT ![e] =
                                       Flight("hit", now, kept[e].client, ClientsOf(evicted))]
                  ELSE /\ clients' = kept
                       /\ getting' = [getting EXCEPT ![e] =
                                       Flight("miss", now, NoClient, ClientsOf(evicted))]
               /\ UNCHANGED waiting
    /\ UNCHANGED <<closed, closing, open, constructed, clock>>

\* A miss: the flight closes what it evicted, then constructs a client, which
\* fails when the daemon does not answer; then it has been closed already.
NewClient(e) ==
    /\ getting[e] # NoClient
    /\ getting[e].stage = "miss"
    /\ \/ /\ FlightReturns(e)
          /\ open' = open \ getting[e].drop
          /\ UNCHANGED constructed
       \/ /\ constructed < MaxClients
          /\ constructed' = constructed + 1
          /\ open' = (open \ getting[e].drop) \cup {constructed + 1}
          /\ getting' = [getting EXCEPT ![e] = Flight("install", getting[e].now, constructed + 1, {})]
          /\ UNCHANGED waiting
    /\ UNCHANGED <<clients, closed, closing, clock>>

\* The entry used longest ago, when the cache is full.
evictLRULocked ==
    IF Cardinality(Cached) < maxEntries THEN {{}}
    ELSE {{e} : e \in {x \in Cached : \A y \in Cached : clients[x].lastUsed <= clients[y].lastUsed}}

InstallLate(e) ==
    /\ getting[e] # NoClient
    /\ getting[e].stage = "install"
    /\ \E evicted \in evictLRULocked :
          /\ clients' = [x \in (Cached \ evicted) \cup {e} |->
                           IF x = e THEN Entry(getting[e].client, clock) ELSE clients[x]]
          /\ getting' = [getting EXCEPT ![e] =
                          Flight("hit", getting[e].now, getting[e].client, ClientsOf(evicted))]
    /\ UNCHANGED <<closed, closing, waiting, open, constructed, clock>>

InstallUnbounded(e) ==
    /\ getting[e] # NoClient
    /\ getting[e].stage = "install"
    /\ IF closed
       THEN /\ FlightReturns(e)
            /\ open' = open \ {getting[e].client}
            /\ UNCHANGED clients
       ELSE /\ clients' = [x \in Cached \cup {e} |->
                             IF x = e THEN Entry(getting[e].client, clock) ELSE clients[x]]
            /\ getting' = [getting EXCEPT ![e] = Flight("hit", getting[e].now, getting[e].client, {})]
            /\ UNCHANGED <<waiting, open>>
    /\ UNCHANGED <<closed, closing, constructed, clock>>

\* The second critical section: a cache that was closed meanwhile takes no
\* more clients.
Install(e) ==
    /\ getting[e] # NoClient
    /\ getting[e].stage = "install"
    /\ IF closed
       THEN /\ FlightReturns(e)
            /\ open' = open \ {getting[e].client}
            /\ UNCHANGED clients
       ELSE /\ \E evicted \in evictLRULocked :
                  /\ clients' = [x \in (Cached \ evicted) \cup {e} |->
                                   IF x = e THEN Entry(getting[e].client, clock) ELSE clients[x]]
                  /\ getting' = [getting EXCEPT ![e] =
                                  Flight("hit", getting[e].now, getting[e].client, ClientsOf(evicted))]
            /\ UNCHANGED <<waiting, open>>
    /\ UNCHANGED <<closed, closing, constructed, clock>>

\* closeEndpointClients, then the flight returns its client.
Hit(e) ==
    /\ getting[e] # NoClient
    /\ getting[e].stage = "hit"
    /\ open' = open \ getting[e].drop
    /\ FlightReturns(e)
    /\ UNCHANGED <<clients, closed, closing, constructed, clock>>

\* Close: the entries are taken out under the mutex and closed after it.
Close ==
    /\ ~closed
    /\ closed' = TRUE
    /\ closing' = ClientsOf(Cached)
    /\ clients' = [e \in {} |-> NoClient]
    /\ UNCHANGED <<getting, waiting, open, constructed, clock>>

CloseClients ==
    /\ closing # {}
    /\ open' = open \ closing
    /\ closing' = {}
    /\ UNCHANGED <<clients, closed, getting, waiting, constructed, clock>>

CacheTick ==
    /\ clock < MaxTime
    /\ clock' = clock + 1
    /\ UNCHANGED <<clients, closed, closing, getting, waiting, open, constructed>>

FlightStep(e) == Lookup(e) \/ NewClient(e) \/ Install(e) \/ Hit(e)

CacheNext ==
    \/ \E g \in Getters, e \in Endpoints : Get(g, e)
    \/ \E e \in Endpoints : Lookup(e) \/ NewClient(e) \/ Install(e) \/ Hit(e)
    \/ Close
    \/ CloseClients
    \/ CacheTick

\* A flight's goroutine runs on, its construction is bounded by the health
\* check's timeout, and Close does not stop half way.
CacheFairness ==
    /\ \A e \in Endpoints : WF_cacheVars(FlightStep(e))
    /\ WF_cacheVars(CloseClients)

CacheSpec == CacheInit /\ [][CacheNext]_cacheVars /\ CacheFairness

-----------------------------------------------------------------------------
\* The types of the entries, the flights and the callers' waits.
CacheTypeOK ==
    /\ Cached \subseteq Endpoints
    /\ \A e \in Cached : clients[e] \in [client: 1..MaxClients, lastUsed: 0..MaxTime]
    /\ closed \in BOOLEAN
    /\ closing \subseteq 1..MaxClients
    /\ getting \in [Endpoints -> Flights \cup {NoClient}]
    /\ waiting \in [Getters -> Endpoints \cup {NoClient}]
    /\ open \subseteq 1..constructed
    /\ constructed \in 0..MaxClients
    /\ clock \in 0..MaxTime

Flying == {e \in Endpoints : getting[e] # NoClient}

Installing == {e \in Flying : getting[e].stage = "install"}

\* Who has to close client c one day: the cache, Close, a flight that took it
\* out, or the flight that made it.
Owners(c) ==
    {<<"cache", e>> : e \in {x \in Cached : clients[x].client = c}}
    \cup (IF c \in closing THEN {<<"close", NoClient>>} ELSE {})
    \cup {<<"drop", e>> : e \in {x \in Flying : c \in getting[x].drop}}
    \cup {<<"made", e>> : e \in {x \in Installing : getting[x].client = c}}

\* No connection leaks and none is closed twice: in every interleaving of
\* constructions, evictions and Close, each open client has exactly one place
\* that will close it, and a closed one has none.
OneOwner ==
    \A c \in 1..constructed : Cardinality(Owners(c)) = IF c \in open THEN 1 ELSE 0

\* The cache never holds more than maxEntries clients, although a full cache
\* makes room only when a construction that began earlier ends.
Bounded == Cardinality(Cached) <= maxEntries

\* "Close closes all cached clients" (endpoint_cache.go:159) for good: the
\* construction that was under way installs nothing afterwards.
ClosedIsEmpty == closed => Cached = {}

\* Every open Docker client has one place that will close it; the cache is
\* empty after Close and never holds more than its limit, however many
\* constructions began before it was full.
ClientsOwned == CacheTypeOK /\ OneOwner /\ ClosedIsEmpty /\ Bounded

\* After Close every client ends closed, the one under construction too.
CloseClosesAll == closed ~> open = {}
=============================================================================

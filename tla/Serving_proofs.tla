--------------------------- MODULE Serving_proofs ---------------------------
(***************************************************************************)
(* Proofs about what a request meets.                                      *)
(*                                                                         *)
(* Listing, for every table, every total order of its rows, every limit    *)
(* and every set of readers: what is behind a reader's cursor has been     *)
(* given to it, and nothing else (BehindCursor).                           *)
(*                                                                         *)
(* The cached reads, for any callers, goroutines and number of writes:     *)
(* nothing in the cache, in a goroutine or in a flight is newer than the   *)
(* last commit, a flight knows exactly those who wait for it, and after an *)
(* UpdateUser that met nobody nothing older is on its way into the cache.  *)
(*                                                                         *)
(* The routes, for any users and connections: every call a handler has     *)
(* left to make is one its route may make.                                 *)
(***************************************************************************)
EXTENDS Serving, FiniteSetTheorems, SequenceTheorems, TLAPS

-----------------------------------------------------------------------------
(* Lists.                                                                    *)

\* The variables keep their types, and no page exceeds the limit.
THEOREM ListingTypeCorrect == Spec => []TypeOK
<1>1. Init => TypeOK
  BY FS_EmptySet, PagingAssumption DEF Init, TypeOK
<1>2. TypeOK /\ [Next]_vars => TypeOK'
  <2> SUFFICES ASSUME TypeOK, [Next]_vars
               PROVE  TypeOK'
      OBVIOUS
  <2>1. ASSUME NEW r \in Rows, Appear(r) \/ Disappear(r)
        PROVE  TypeOK'
    BY <2>1 DEF TypeOK, Appear, Disappear
  <2>2. ASSUME NEW c \in Readers, Start(c)
        PROVE  TypeOK'
    BY <2>2, FS_EmptySet, PagingAssumption DEF TypeOK, Start
  <2>3. ASSUME NEW c \in Readers, List(c)
        PROVE  TypeOK'
    <3> DEFINE selected == FromCursor(table, cursor[c])
    <3>1. PICK page \in SUBSET selected, next \in Rows \cup {NoCursor} :
             /\ IsPage(page, selected)
             /\ got' = [got EXCEPT ![c] = @ \cup last[c]]
             /\ last' = [last EXCEPT ![c] = page]
             /\ cursor' = [cursor EXCEPT ![c] = next]
             /\ reading' = [reading EXCEPT ![c] = page # selected]
      BY <2>3 DEF List
    <3>2. selected \subseteq Rows
      BY DEF FromCursor, TypeOK
    <3>3. Cardinality(page) <= Limit
      BY <3>1, PagingAssumption DEF IsPage
    <3> HIDE DEF selected
    <3>4. \A d \in Readers : Cardinality(last'[d]) <= Limit
      BY <3>1, <3>3 DEF TypeOK
    <3>5. QED BY <2>3, <3>1, <3>2, <3>4 DEF TypeOK, List
  <2>4. CASE UNCHANGED vars
    BY <2>4 DEF TypeOK, vars
  <2>5. QED BY <2>1, <2>2, <2>3, <2>4 DEF Next
<1>3. QED BY <1>1, <1>2, PTL DEF Spec

\* What one page does to a reader whose cursor separates what it was given
\* from what it is still owed.
LEMMA PageKeepsBehind ==
    ASSUME TypeOK, BehindCursor, NEW c \in Readers, List(c)
    PROVE  /\ \A g \in Given(c), r \in last'[c] : Before(g, r)
           /\ cursor'[c] = NoCursor <=> ~reading'[c]
           /\ cursor'[c] # NoCursor =>
                 /\ \A r \in stable[c] : Before(r, cursor'[c]) => r \in Given(c) \cup last'[c]
                 /\ \A g \in Given(c) \cup last'[c] : Before(g, cursor'[c])
           /\ ~reading'[c] => stable[c] \subseteq Given(c) \cup last'[c]
<1> DEFINE selected == FromCursor(table, cursor[c])
<1>1. PICK page \in SUBSET selected, next \in Rows \cup {NoCursor} :
         /\ IsPage(page, selected) /\ IsNextCursor(next, page, selected)
         /\ last' = [last EXCEPT ![c] = page]
         /\ cursor' = [cursor EXCEPT ![c] = next]
         /\ reading' = [reading EXCEPT ![c] = page # selected]
  BY DEF List
<1>2. /\ last'[c] = page /\ cursor'[c] = next
      /\ reading'[c] = (page # selected) /\ reading[c]
  BY <1>1 DEF TypeOK, List
<1>3. /\ selected \subseteq Rows /\ stable[c] \subseteq Rows /\ Given(c) \subseteq Rows
      /\ table \subseteq Rows /\ stable[c] \subseteq table
  BY DEF TypeOK, FromCursor, Given, BehindCursor
<1>4. \A g \in Given(c), r \in selected : Before(g, r)
  <2>1. CASE cursor[c] = NoCursor
    BY <2>1, <1>2 DEF BehindCursor
  <2>2. CASE cursor[c] # NoCursor
    <3>1. cursor[c] \in Rows
      BY <2>2 DEF TypeOK
    <3>2. \A g \in Given(c) : Before(g, cursor[c])
      BY <2>2 DEF BehindCursor
    <3>3. \A r \in selected : r = cursor[c] \/ Before(cursor[c], r)
      BY <2>2 DEF FromCursor
    <3> HIDE DEF selected
    <3>4. QED BY <1>3, <3>1, <3>2, <3>3, BeforeAssumption
  <2>3. QED BY <2>1, <2>2
<1>5. stable[c] \subseteq Given(c) \cup selected
  <2> SUFFICES ASSUME NEW r \in stable[c], r \notin selected
               PROVE  r \in Given(c)
      OBVIOUS
  <2>1. cursor[c] # NoCursor /\ ~(r = cursor[c]) /\ ~Before(cursor[c], r)
    BY <1>3 DEF FromCursor
  <2>2. Before(r, cursor[c])
    BY <1>3, <2>1, BeforeAssumption DEF TypeOK
  <2>3. QED BY <2>1, <2>2 DEF BehindCursor
<1> HIDE DEF selected
<1>6. next = NoCursor <=> page = selected
  BY <1>1, <1>3, PagingAssumption DEF IsNextCursor
<1>7. CASE page = selected
  BY <1>2, <1>4, <1>5, <1>6, <1>7
<1>8. CASE page # selected
  <2>1. next \in selected \ page /\ \A q \in selected \ page : q = next \/ Before(next, q)
    BY <1>1, <1>8 DEF IsNextCursor
  <2>2. \A r \in selected : Before(r, next) => r \in page
    BY <1>3, <2>1, BeforeAssumption
  <2>3. \A p \in page : Before(p, next)
    BY <1>1, <2>1 DEF IsPage
  <2>4. QED BY <1>2, <1>3, <1>4, <1>5, <1>6, <1>8, <2>1, <2>2, <2>3
<1>9. QED BY <1>7, <1>8

\* The inductive invariant behind the two theorems below.
IInv == TypeOK /\ BehindCursor /\ NothingSkipped /\ PagesAdvance

LEMMA IInvInductive == IInv /\ TypeOK' /\ [Next]_vars => IInv'
<1> SUFFICES ASSUME IInv, TypeOK', [Next]_vars
             PROVE  IInv'
    OBVIOUS
<1>1. ASSUME NEW r \in Rows, Appear(r)
      PROVE  IInv'
  BY <1>1 DEF IInv, Appear, BehindCursor, NothingSkipped, PagesAdvance, Given
<1>2. ASSUME NEW r \in Rows, Disappear(r)
      PROVE  IInv'
  <2>1. \A c \in Readers : stable'[c] \subseteq stable[c] /\ r \notin stable'[c]
    BY <1>2 DEF Disappear
  <2>2. UNCHANGED <<reading, cursor, got, last>> /\ table' = table \ {r}
    BY <1>2 DEF Disappear
  <2>3. QED BY <2>1, <2>2 DEF IInv, BehindCursor, NothingSkipped, PagesAdvance, Given
<1>3. ASSUME NEW c \in Readers, Start(c)
      PROVE  IInv'
  <2>1. \A d \in Readers \ {c} :
           /\ reading'[d] = reading[d] /\ cursor'[d] = cursor[d] /\ got'[d] = got[d]
           /\ last'[d] = last[d] /\ stable'[d] = stable[d]
    BY <1>3 DEF Start, IInv, TypeOK
  <2>2. /\ reading'[c] = TRUE /\ cursor'[c] = NoCursor /\ got'[c] = {} /\ last'[c] = {}
        /\ stable'[c] = table /\ table' = table
    BY <1>3 DEF Start, IInv, TypeOK
  <2>3. QED BY <2>1, <2>2 DEF IInv, BehindCursor, NothingSkipped, PagesAdvance, Given
<1>4. ASSUME NEW c \in Readers, List(c)
      PROVE  IInv'
  <2>1. \A d \in Readers \ {c} :
           /\ reading'[d] = reading[d] /\ cursor'[d] = cursor[d] /\ got'[d] = got[d]
           /\ last'[d] = last[d]
    BY <1>4 DEF List, IInv, TypeOK
  <2>2. UNCHANGED <<table, stable>> /\ got'[c] = Given(c)
    BY <1>4 DEF List, IInv, TypeOK, Given
  <2>3. Given(c)' = Given(c) \cup last'[c]
    BY <2>2 DEF Given
  <2>4. /\ \A g \in Given(c), r \in last'[c] : Before(g, r)
        /\ cursor'[c] = NoCursor <=> ~reading'[c]
        /\ cursor'[c] # NoCursor =>
              /\ \A r \in stable[c] : Before(r, cursor'[c]) => r \in Given(c) \cup last'[c]
              /\ \A g \in Given(c) \cup last'[c] : Before(g, cursor'[c])
        /\ ~reading'[c] => stable[c] \subseteq Given(c) \cup last'[c]
    BY <1>4, PageKeepsBehind DEF IInv
  <2>5. \A d \in Readers \ {c} : Given(d)' = Given(d)
    BY <2>1 DEF Given
  <2>6. BehindCursor'
    BY <2>1, <2>2, <2>3, <2>4, <2>5 DEF IInv, BehindCursor
  <2>7. NothingSkipped'
    BY <2>1, <2>2, <2>3, <2>4, <2>5 DEF IInv, NothingSkipped
  <2>8. PagesAdvance'
    BY <2>1, <2>2, <2>4 DEF IInv, PagesAdvance
  <2>9. QED BY <2>6, <2>7, <2>8 DEF IInv
<1>5. CASE UNCHANGED vars
  BY <1>5 DEF IInv, vars, BehindCursor, NothingSkipped, PagesAdvance, Given
<1>6. QED BY <1>1, <1>2, <1>3, <1>4, <1>5 DEF Next

LEMMA IInvInvariant == Spec => []IInv
<1>1. Init => BehindCursor /\ NothingSkipped /\ PagesAdvance
  BY DEF Init, BehindCursor, NothingSkipped, PagesAdvance, Given
<1>2. Init /\ TypeOK => IInv
  BY <1>1 DEF IInv
<1>3. QED BY <1>2, IInvInductive, ListingTypeCorrect, PTL DEF Spec

\* A reader that went through all pages of a list was given every row that
\* matched the filters from its first page to its last.
THEOREM ListingComplete == Spec => []NothingSkipped
<1>1. IInv => NothingSkipped
  BY DEF IInv
<1>2. QED BY <1>1, IInvInvariant, PTL

\* No row is given twice, and the pages follow the order of the list.
THEOREM ListingOrdered == Spec => []PagesAdvance
<1>1. IInv => PagesAdvance
  BY DEF IInv
<1>2. QED BY <1>1, IInvInvariant, PTL

-----------------------------------------------------------------------------
(* Reads through the cache: one invariant for both services, about the       *)
(* callers, the keys they ask for and the number of writes of each.          *)

ReadKeys == CachedKeys \cup {"workflow_by_id"}
Entries == [has : BOOLEAN, v : Nat]
Operations == [op : {"del", "set"}, key : CachedKeys, v : Nat]
Answers == [ok : BOOLEAN, v : Nat, floor : Nat]
ReadCallers(asked) ==
    [pc : {"idle", "get", "join", "wait"}, key : asked, since : Nat, answer : Answers]
Flights(callers) ==
    [step : {"none", "open", "done"}, leader : SUBSET callers, waiters : SUBSET callers,
     ctx : BOOLEAN, ok : BOOLEAN, v : Nat, began : Nat]

\* Nothing in the cache or on its way to it is newer than the last commit.
CacheInv(max) ==
    /\ commits \in 0 .. max /\ state \in {"absent", "active", "terminated"}
    /\ cache \in [CachedKeys -> Entries] /\ bg \in [Goroutines -> Seq(Operations)]
    /\ \A k \in CachedKeys : cache[k].v <= commits
    /\ \A g \in Goroutines : \A i \in 1 .. Len(bg[g]) : bg[g][i].v <= commits

\* A flight knows exactly those who wait for it, and what it found is as new as
\* the last commit at its start.
FlightInv(callers, asked) ==
    /\ flight \in [ReadKeys -> Flights(callers)] /\ caller \in [callers -> ReadCallers(asked)]
    /\ \A k \in ReadKeys : flight[k].v <= commits /\ flight[k].began <= commits
    /\ \A k \in ReadKeys : flight[k].step = "none" => flight[k].waiters = {}
    /\ \A k \in ReadKeys, c \in callers :
          c \in flight[k].waiters <=> caller[c].pc = "wait" /\ caller[c].key = k
    /\ \A k \in ReadKeys : flight[k].step = "done" /\ flight[k].ok => flight[k].v >= flight[k].began
    /\ \A c \in callers : caller[c].answer.ok => caller[c].answer.v >= caller[c].answer.floor

\* What a step may do to the cache and its goroutines.
Works(g) ==
    /\ bg[g] # <<>> /\ bg' = [bg EXCEPT ![g] = Tail(@)]
    /\ \/ cache' = cache
       \/ cache' = [cache EXCEPT ![Head(bg[g]).key] =
                       IF Head(bg[g]).op = "set" THEN [has |-> TRUE, v |-> Head(bg[g]).v]
                       ELSE [has |-> FALSE, v |-> 0]]

Leaves(ops) == bg' = bg \/ \E g \in Goroutines : bg[g] = <<>> /\ bg' = [bg EXCEPT ![g] = ops]

LEMMA WorksKeepsCache ==
    ASSUME NEW max \in Nat, CacheInv(max), NEW g \in Goroutines, Works(g),
           commits' = commits, state' = state
    PROVE  CacheInv(max)'
<1>1. bg[g] \in Seq(Operations) /\ bg[g] # <<>>
  BY DEF CacheInv, Works
<1>2. /\ Head(bg[g]) \in Operations /\ Tail(bg[g]) \in Seq(Operations)
      /\ Head(bg[g]) = bg[g][1] /\ 1 \in 1 .. Len(bg[g]) /\ Len(Tail(bg[g])) = Len(bg[g]) - 1
      /\ \A i \in 1 .. Len(Tail(bg[g])) : Tail(bg[g])[i] = bg[g][i + 1] /\ i + 1 \in 1 .. Len(bg[g])
  BY <1>1, HeadTailProperties, LenProperties, EmptySeq
<1> DEFINE h == Head(bg[g])
           t == Tail(bg[g])
<1>3. h.v <= commits /\ h.key \in CachedKeys /\ h.v \in Nat
  BY <1>2 DEF CacheInv, Operations
<1>4. \A i \in 1 .. Len(t) : t[i].v <= commits
  BY <1>2 DEF CacheInv
<1>5. bg' \in [Goroutines -> Seq(Operations)] /\ bg' = [bg EXCEPT ![g] = t]
  BY <1>2 DEF CacheInv, Works
<1>6. \A q \in Goroutines : \A i \in 1 .. Len(bg'[q]) : bg'[q][i].v <= commits
  <2> HIDE DEF t
  <2> SUFFICES ASSUME NEW q \in Goroutines, NEW i \in 1 .. Len(bg'[q]) PROVE bg'[q][i].v <= commits
    OBVIOUS
  <2>1. CASE q = g
    <3>1. bg'[q] = t
      BY <1>5, <2>1 DEF CacheInv
    <3> QED BY <1>4, <3>1
  <2>2. CASE q # g
    <3>1. bg'[q] = bg[q]
      BY <1>5, <2>2 DEF CacheInv
    <3> QED BY <3>1 DEF CacheInv
  <2> QED BY <2>1, <2>2
<1>7. cache' \in [CachedKeys -> Entries] /\ \A k \in CachedKeys : cache'[k].v <= commits
  <2> HIDE DEF h
  <2>1. PICK e \in Entries : e.v <= commits /\ (cache' = cache \/ cache' = [cache EXCEPT ![h.key] = e])
    <3>1. commits \in Nat
      BY DEF CacheInv
    <3>2. [has |-> TRUE, v |-> h.v] \in Entries /\ [has |-> FALSE, v |-> 0] \in Entries
      BY <1>3 DEF Entries
    <3> QED BY <1>3, <3>1, <3>2 DEF Works, h
  <2> QED BY <2>1, <1>3 DEF CacheInv
<1> QED BY <1>5, <1>6, <1>7 DEF CacheInv

\* A write, or a flight that landed, leaves work to a goroutine.
LEMMA LeavesKeepsCache ==
    ASSUME NEW max \in Nat, CacheInv(max), NEW ops \in Seq(Operations), Leaves(ops),
           commits' \in commits .. max, state' \in {"absent", "active", "terminated"},
           cache' = cache, \A i \in 1 .. Len(ops) : ops[i].v <= commits'
    PROVE  CacheInv(max)'
<1>1. commits \in Nat /\ commits' \in 0 .. max /\ commits <= commits'
  BY DEF CacheInv
<1>2. \A k \in CachedKeys : cache'[k].v <= commits' /\ cache \in [CachedKeys -> Entries]
  BY <1>1 DEF CacheInv, Entries
<1>3. \A q \in Goroutines : bg[q] \in Seq(Operations) /\ \A i \in 1 .. Len(bg[q]) : bg[q][i].v <= commits'
  <2> SUFFICES ASSUME NEW q \in Goroutines, NEW i \in 1 .. Len(bg[q]) PROVE bg[q][i].v <= commits'
    BY DEF CacheInv
  <2>1. bg[q] \in Seq(Operations) /\ bg[q][i].v <= commits
    BY DEF CacheInv
  <2>2. bg[q][i].v \in Nat
    <3>1. bg[q][i] \in Operations
      BY <2>1, ElementOfSeq
    <3> QED BY <3>1 DEF Operations
  <2> QED BY <1>1, <2>1, <2>2
<1>4. \A q \in Goroutines : bg'[q] = bg[q] \/ bg'[q] = ops
  BY DEF CacheInv, Leaves
<1>5. bg' \in [Goroutines -> Seq(Operations)]
  BY DEF CacheInv, Leaves
<1>6. \A q \in Goroutines : \A i \in 1 .. Len(bg'[q]) : bg'[q][i].v <= commits'
  <2> SUFFICES ASSUME NEW q \in Goroutines PROVE \A i \in 1 .. Len(bg'[q]) : bg'[q][i].v <= commits'
    OBVIOUS
  <2> QED BY <1>3, <1>4
<1> QED BY <1>1, <1>2, <1>5, <1>6 DEF CacheInv

\* An entry is dropped, or nothing happens to the cache.
LEMMA DropKeepsCache ==
    ASSUME NEW max \in Nat, CacheInv(max), UNCHANGED <<commits, state, bg>>,
           cache' = cache \/ \E k \in CachedKeys : cache' = [cache EXCEPT ![k] = [has |-> FALSE, v |-> 0]]
    PROVE  CacheInv(max)'
<1> DEFINE e == [has |-> FALSE, v |-> 0]
<1>1. e \in Entries /\ e.v = 0 /\ commits \in Nat /\ 0 <= commits
  BY DEF Entries, CacheInv
<1> HIDE DEF e
<1>2. ASSUME NEW k \in CachedKeys, cache' = [cache EXCEPT ![k] = e]
      PROVE  cache' \in [CachedKeys -> Entries] /\ \A q \in CachedKeys : cache'[q].v <= commits
  BY <1>1, <1>2 DEF CacheInv
<1>3. cache' \in [CachedKeys -> Entries] /\ \A k \in CachedKeys : cache'[k].v <= commits
  <2>1. CASE cache' = cache
    BY <2>1 DEF CacheInv
  <2>2. CASE \E k \in CachedKeys : cache' = [cache EXCEPT ![k] = e]
    BY <1>2, <2>2
  <2> QED BY <2>1, <2>2 DEF e
<1> QED BY <1>3 DEF CacheInv

\* Only the number of commits moves.
LEMMA CommitKeepsFlights ==
    ASSUME NEW callers, NEW asked, FlightInv(callers, asked), commits \in Nat, commits' \in Nat,
           commits <= commits', UNCHANGED <<flight, caller>>
    PROVE  FlightInv(callers, asked)'
<1>1. \A k \in ReadKeys : flight[k].v \in Nat /\ flight[k].began \in Nat
  BY DEF FlightInv, Flights
<1>2. \A k \in ReadKeys : flight'[k].v <= commits' /\ flight'[k].began <= commits'
  BY <1>1 DEF FlightInv
<1> QED BY <1>2 DEF FlightInv

\* What a step may do to the callers and the flights: a caller that does not
\* wait moves on, or joins the flight of its key; a query ends; a flight lands;
\* a caller gives up.
NotFlying == [step |-> "none", leader |-> {}, waiters |-> {}, ctx |-> TRUE, ok |-> FALSE,
              v |-> 0, began |-> 0]

Turns(asked, c) ==
    /\ caller[c].pc # "wait" /\ flight' = flight
    /\ \E r \in ReadCallers(asked) :
          /\ r.pc # "wait" /\ (r.answer.ok => r.answer.v >= r.answer.floor)
          /\ caller' = [caller EXCEPT ![c] = r]

Joins(c) ==
    LET k == caller[c].key
        f == IF flight[k].step = "none"
             THEN [NotFlying EXCEPT !.step = "open", !.leader = {c}, !.waiters = {c},
                                    !.began = commits]
             ELSE [flight[k] EXCEPT !.waiters = @ \cup {c}]
    IN
    /\ caller[c].pc = "join" /\ caller' = [caller EXCEPT ![c].pc = "wait"]
    /\ flight' = [flight EXCEPT ![k] = f]

Finds(k) ==
    /\ flight[k].step = "open" /\ caller' = caller
    /\ \E ok \in BOOLEAN :
          flight' = [flight EXCEPT ![k].step = "done", ![k].ok = ok, ![k].v = commits]

Lands(callers, k) ==
    /\ flight' = [flight EXCEPT ![k] = NotFlying]
    /\ \E a \in Answers :
          /\ a.ok => a.v >= a.floor
          /\ caller' = [c \in callers |-> IF c \in flight[k].waiters
                           THEN [caller[c] EXCEPT !.pc = "idle", !.answer = a] ELSE caller[c]]

GivesUp(c) ==
    LET k == caller[c].key IN
    /\ caller' = [caller EXCEPT ![c].pc = "idle"]
    /\ flight' = [flight EXCEPT ![k].waiters = @ \ {c}, ![k].leader = @ \ {c},
                                ![k].ctx = @ /\ c \notin flight[k].leader]

\* A step that changes flight k to f and does to the callers what f says of them.
MovesTo(callers, asked, k, f) ==
    /\ commits' = commits /\ flight' = [flight EXCEPT ![k] = f]
    /\ caller' \in [callers -> ReadCallers(asked)]
    /\ f.v <= commits /\ f.began <= commits
    /\ f.step = "none" => f.waiters = {}
    /\ f.step = "done" /\ f.ok => f.v >= f.began
    /\ \A c \in callers : c \in f.waiters <=> caller'[c].pc = "wait" /\ caller'[c].key = k
    /\ \A c \in callers, q \in ReadKeys : q # k =>
          (caller'[c].pc = "wait" /\ caller'[c].key = q <=> caller[c].pc = "wait" /\ caller[c].key = q)
    /\ \A c \in callers : caller'[c].answer.ok => caller'[c].answer.v >= caller'[c].answer.floor

LEMMA FlightMoves ==
    ASSUME NEW callers, NEW asked, FlightInv(callers, asked),
           NEW k \in ReadKeys, NEW f \in Flights(callers), MovesTo(callers, asked, k, f)
    PROVE  FlightInv(callers, asked)'
<1> USE DEF MovesTo
<1>1. flight' \in [ReadKeys -> Flights(callers)]
  BY DEF FlightInv
<1>2. flight'[k] = f /\ \A q \in ReadKeys : q # k => flight'[q] = flight[q]
  BY DEF FlightInv
<1>3. \A q \in ReadKeys : /\ flight'[q].v <= commits /\ flight'[q].began <= commits
                          /\ flight'[q].step = "none" => flight'[q].waiters = {}
                          /\ flight'[q].step = "done" /\ flight'[q].ok => flight'[q].v >= flight'[q].began
  BY <1>2 DEF FlightInv
<1>4. \A q \in ReadKeys, c \in callers :
         c \in flight'[q].waiters <=> caller'[c].pc = "wait" /\ caller'[c].key = q
  BY <1>2 DEF FlightInv
<1> QED BY <1>1, <1>3, <1>4 DEF FlightInv

LEMMA TurnsKeepsFlights ==
    ASSUME NEW callers, NEW asked, FlightInv(callers, asked), commits' = commits,
           NEW c \in callers, Turns(asked, c)
    PROVE  FlightInv(callers, asked)'
<1>1. PICK r \in ReadCallers(asked) :
         /\ r.pc # "wait" /\ (r.answer.ok => r.answer.v >= r.answer.floor)
         /\ caller' = [caller EXCEPT ![c] = r]
  BY DEF Turns
<1>2. caller' \in [callers -> ReadCallers(asked)] /\ caller'[c] = r
      /\ \A d \in callers : d # c => caller'[d] = caller[d]
  BY <1>1 DEF FlightInv
<1>3. \A k \in ReadKeys, d \in callers :
         d \in flight[k].waiters <=> caller'[d].pc = "wait" /\ caller'[d].key = k
  BY <1>1, <1>2 DEF FlightInv, Turns
<1>4. \A d \in callers : caller'[d].answer.ok => caller'[d].answer.v >= caller'[d].answer.floor
  BY <1>1, <1>2 DEF FlightInv
<1> QED BY <1>2, <1>3, <1>4 DEF FlightInv, Turns

LEMMA JoinsKeepsFlights ==
    ASSUME NEW callers, NEW asked \in SUBSET ReadKeys, FlightInv(callers, asked), commits' = commits,
           commits \in Nat, NEW c \in callers, Joins(c)
    PROVE  FlightInv(callers, asked)'
<1> DEFINE k == caller[c].key
           new == [NotFlying EXCEPT !.step = "open", !.leader = {c}, !.waiters = {c},
                                    !.began = commits]
           f == IF flight[k].step = "none" THEN new
                ELSE [flight[k] EXCEPT !.waiters = @ \cup {c}]
<1>1. caller \in [callers -> ReadCallers(asked)] /\ caller[c] \in ReadCallers(asked)
      /\ k \in ReadKeys /\ caller[c].pc = "join"
  BY DEF FlightInv, Joins, ReadCallers
<1>2. /\ flight[k] \in Flights(callers) /\ new \in Flights(callers)
      /\ new.step = "open" /\ new.waiters = {c} /\ new.began = commits /\ new.v = 0
  BY <1>1 DEF FlightInv, Flights, NotFlying
<1> HIDE DEF new
<1>3. f \in Flights(callers)
  BY <1>2 DEF Flights
<1>4. /\ c \in f.waiters /\ \A d \in callers : d # c => (d \in f.waiters <=> d \in flight[k].waiters)
      /\ f.v <= commits /\ f.began <= commits /\ (f.step = "done" /\ f.ok => f.v >= f.began)
      /\ f.step # "none"
  <2>1. CASE flight[k].step = "none"
    <3>1. f = new
      BY <2>1
    <3>2. \A d \in callers : d \notin flight[k].waiters
      BY <1>1, <2>1 DEF FlightInv
    <3> HIDE DEF f
    <3> QED BY <1>2, <3>1, <3>2
  <2>2. CASE flight[k].step # "none"
    <3>1. f = [flight[k] EXCEPT !.waiters = @ \cup {c}]
      BY <2>2
    <3> HIDE DEF f
    <3>2. f.step = flight[k].step /\ f.v = flight[k].v /\ f.began = flight[k].began
          /\ f.ok = flight[k].ok /\ f.waiters = flight[k].waiters \cup {c}
      BY <1>2, <3>1 DEF Flights
    <3> QED BY <1>1, <2>2, <3>2 DEF FlightInv
  <2> HIDE DEF f
  <2> QED BY <2>1, <2>2
<1>5. flight' = [flight EXCEPT ![k] = f]
  BY DEF Joins, new
<1> HIDE DEF f
<1> DEFINE r == [caller[c] EXCEPT !.pc = "wait"]
<1>6. r \in ReadCallers(asked) /\ r.pc = "wait" /\ r.key = k /\ r.answer = caller[c].answer
  BY <1>1 DEF ReadCallers
<1>7. caller' = [caller EXCEPT ![c] = r]
  BY <1>1 DEF Joins
<1> HIDE DEF r
<1>8. caller' \in [callers -> ReadCallers(asked)] /\ caller'[c] = r
      /\ \A d \in callers : d # c => caller'[d] = caller[d]
  BY <1>1, <1>6, <1>7
<1>9. /\ \A d \in callers : d \in f.waiters <=> caller'[d].pc = "wait" /\ caller'[d].key = k
      /\ \A d \in callers, q \in ReadKeys : q # k =>
            (caller'[d].pc = "wait" /\ caller'[d].key = q
               <=> caller[d].pc = "wait" /\ caller[d].key = q)
      /\ \A d \in callers : caller'[d].answer.ok => caller'[d].answer.v >= caller'[d].answer.floor
  BY <1>1, <1>4, <1>6, <1>8 DEF FlightInv
<1> HIDE DEF k
<1>10. MovesTo(callers, asked, k, f)
  BY <1>4, <1>5, <1>8, <1>9 DEF MovesTo
<1> QED BY <1>1, <1>3, <1>10, FlightMoves

LEMMA FindsKeepsFlights ==
    ASSUME NEW callers, NEW asked, FlightInv(callers, asked), commits' = commits,
           commits \in Nat, NEW k \in ReadKeys, Finds(k)
    PROVE  FlightInv(callers, asked)'
<1>1. PICK ok \in BOOLEAN :
         flight' = [flight EXCEPT ![k].step = "done", ![k].ok = ok, ![k].v = commits]
  BY DEF Finds
<1> DEFINE f == [flight[k] EXCEPT !.step = "done", !.ok = ok, !.v = commits]
<1>2. flight[k] \in Flights(callers) /\ caller \in [callers -> ReadCallers(asked)]
      /\ flight[k].began <= commits
  BY DEF FlightInv
<1>3. f \in Flights(callers)
  BY <1>2 DEF Flights
<1>4. f.waiters = flight[k].waiters /\ f.began = flight[k].began /\ f.v = commits /\ f.step = "done"
  BY <1>2 DEF Flights
<1>5. flight' = [flight EXCEPT ![k] = f]
  BY <1>1 DEF FlightInv
<1> HIDE DEF f
<1>6. f.began \in Nat /\ f.v <= commits /\ f.began <= commits /\ f.v >= f.began
  BY <1>2, <1>3, <1>4 DEF Flights
<1>7. caller' = caller
  BY DEF Finds
<1>8. /\ \A d \in callers : d \in f.waiters <=> caller'[d].pc = "wait" /\ caller'[d].key = k
      /\ \A d \in callers : caller'[d].answer.ok => caller'[d].answer.v >= caller'[d].answer.floor
  BY <1>4, <1>7 DEF FlightInv
<1>9. MovesTo(callers, asked, k, f)
  BY <1>2, <1>4, <1>5, <1>6, <1>7, <1>8 DEF MovesTo
<1> QED BY <1>3, <1>9, FlightMoves

LEMMA LandsKeepsFlights ==
    ASSUME NEW callers, NEW asked, FlightInv(callers, asked), commits' = commits,
           commits \in Nat, NEW k \in ReadKeys, Lands(callers, k)
    PROVE  FlightInv(callers, asked)'
<1>1. PICK a \in Answers :
         /\ a.ok => a.v >= a.floor
         /\ caller' = [c \in callers |-> IF c \in flight[k].waiters
                          THEN [caller[c] EXCEPT !.pc = "idle", !.answer = a] ELSE caller[c]]
  BY DEF Lands
<1>2. /\ NotFlying \in Flights(callers) /\ NotFlying.waiters = {} /\ NotFlying.step = "none"
      /\ NotFlying.v <= commits /\ NotFlying.began <= commits
      /\ flight' = [flight EXCEPT ![k] = NotFlying]
  <2>1. NotFlying \in Flights(callers)
    BY DEF NotFlying, Flights
  <2>2. NotFlying.v = 0 /\ NotFlying.began = 0 /\ NotFlying.waiters = {} /\ NotFlying.step = "none"
    BY DEF NotFlying
  <2>3. flight' = [flight EXCEPT ![k] = NotFlying]
    BY DEF Lands
  <2>4. 0 <= commits
    OBVIOUS
  <2> QED BY <2>1, <2>2, <2>3, <2>4
<1>3. ASSUME NEW c \in callers, c \in flight[k].waiters
      PROVE  caller'[c] \in ReadCallers(asked) /\ caller'[c].pc = "idle" /\ caller'[c].answer = a
  <2>1. caller[c] \in ReadCallers(asked) /\ caller'[c] = [caller[c] EXCEPT !.pc = "idle", !.answer = a]
    BY <1>1, <1>3 DEF FlightInv
  <2> QED BY <2>1 DEF ReadCallers
<1>4. \A c \in callers : c \notin flight[k].waiters => caller'[c] = caller[c]
  BY <1>1
<1>5. caller' \in [callers -> ReadCallers(asked)]
  <2>1. \A c \in callers : caller'[c] \in ReadCallers(asked)
    BY <1>3, <1>4 DEF FlightInv
  <2>2. caller' = [c \in callers |-> caller'[c]]
    BY <1>1
  <2> QED BY <2>1, <2>2
<1>6. /\ \A d \in callers : ~(caller'[d].pc = "wait" /\ caller'[d].key = k)
      /\ \A d \in callers, q \in ReadKeys : q # k =>
            (caller'[d].pc = "wait" /\ caller'[d].key = q
               <=> caller[d].pc = "wait" /\ caller[d].key = q)
      /\ \A d \in callers : caller'[d].answer.ok => caller'[d].answer.v >= caller'[d].answer.floor
  <2>1. ASSUME NEW d \in callers
        PROVE  d \in flight[k].waiters <=> caller[d].pc = "wait" /\ caller[d].key = k
    BY DEF FlightInv
  <2>2. ASSUME NEW d \in callers
        PROVE  caller[d].answer.ok => caller[d].answer.v >= caller[d].answer.floor
    BY DEF FlightInv
  <2>3. a.ok => a.v >= a.floor
    BY <1>1
  <2>4. ASSUME NEW d \in callers
        PROVE  /\ ~(caller'[d].pc = "wait" /\ caller'[d].key = k)
               /\ \A q \in ReadKeys : q # k =>
                     (caller'[d].pc = "wait" /\ caller'[d].key = q
                        <=> caller[d].pc = "wait" /\ caller[d].key = q)
               /\ caller'[d].answer.ok => caller'[d].answer.v >= caller'[d].answer.floor
    <3>1. CASE d \in flight[k].waiters
      BY <1>3, <2>1, <2>3, <3>1
    <3>2. CASE d \notin flight[k].waiters
      BY <1>4, <2>1, <2>2, <3>2
    <3> QED BY <3>1, <3>2
  <2> QED BY <2>4
<1>7. MovesTo(callers, asked, k, NotFlying)
  BY <1>2, <1>5, <1>6 DEF MovesTo
<1> QED BY <1>2, <1>7, FlightMoves

LEMMA GivesUpKeepsFlights ==
    ASSUME NEW callers, NEW asked \in SUBSET ReadKeys, FlightInv(callers, asked), commits' = commits,
           NEW c \in callers, GivesUp(c)
    PROVE  FlightInv(callers, asked)'
<1> DEFINE k == caller[c].key
           f == [flight[k] EXCEPT !.waiters = @ \ {c}, !.leader = @ \ {c},
                                  !.ctx = @ /\ c \notin flight[k].leader]
           r == [caller[c] EXCEPT !.pc = "idle"]
<1>1. caller \in [callers -> ReadCallers(asked)] /\ caller[c] \in ReadCallers(asked) /\ k \in ReadKeys
  BY DEF FlightInv, ReadCallers
<1>2. flight[k] \in Flights(callers)
  BY <1>1 DEF FlightInv
<1>3. f \in Flights(callers)
  <2>1. (flight[k].ctx /\ c \notin flight[k].leader) \in BOOLEAN
    OBVIOUS
  <2> QED BY <1>2, <2>1 DEF Flights
<1>4. f.waiters = flight[k].waiters \ {c} /\ f.began = flight[k].began /\ f.v = flight[k].v
      /\ f.step = flight[k].step /\ f.ok = flight[k].ok
  <2>1. f.waiters = flight[k].waiters \ {c}
    BY <1>2 DEF Flights
  <2>2. f.began = flight[k].began /\ f.v = flight[k].v
    BY <1>2 DEF Flights
  <2>3. f.step = flight[k].step /\ f.ok = flight[k].ok
    BY <1>2 DEF Flights
  <2> HIDE DEF f
  <2> QED BY <2>1, <2>2, <2>3
<1>5. flight' = [flight EXCEPT ![k] = f] /\ caller' = [caller EXCEPT ![c] = r]
  <2>1. flight \in [ReadKeys -> Flights(callers)]
    BY DEF FlightInv
  <2>2. flight' = [flight EXCEPT ![k] = f]
    BY <1>1, <2>1 DEF GivesUp
  <2>3. caller' = [caller EXCEPT ![c] = r]
    BY <1>1 DEF GivesUp
  <2> QED BY <2>2, <2>3
<1>6. r \in ReadCallers(asked) /\ r.pc = "idle" /\ r.answer = caller[c].answer
  BY <1>1 DEF ReadCallers
<1> HIDE DEF f, r
<1>7. caller' \in [callers -> ReadCallers(asked)] /\ caller'[c] = r
      /\ \A d \in callers : d # c => caller'[d] = caller[d]
  BY <1>1, <1>5, <1>6
<1>8. /\ \A d \in callers : d \in f.waiters <=> caller'[d].pc = "wait" /\ caller'[d].key = k
      /\ \A d \in callers, q \in ReadKeys : q # k =>
            (caller'[d].pc = "wait" /\ caller'[d].key = q
               <=> caller[d].pc = "wait" /\ caller[d].key = q)
      /\ \A d \in callers : caller'[d].answer.ok => caller'[d].answer.v >= caller'[d].answer.floor
  BY <1>1, <1>4, <1>6, <1>7 DEF FlightInv
<1>9. /\ f.v <= commits /\ f.began <= commits /\ (f.step = "done" /\ f.ok => f.v >= f.began)
      /\ f.step = "none" => f.waiters = {}
  BY <1>1, <1>4 DEF FlightInv
<1> HIDE DEF k
<1>10. MovesTo(callers, asked, k, f)
  BY <1>5, <1>7, <1>8, <1>9 DEF MovesTo
<1> QED BY <1>1, <1>3, <1>10, FlightMoves

\* A step of a goroutine, of the expiry, or of a caller.
ReadStep(callers, asked) ==
    \/ \E g \in Goroutines : Works(g) /\ UNCHANGED <<commits, state, flight, caller>>
    \/ \E k \in CachedKeys : /\ cache' = [cache EXCEPT ![k] = [has |-> FALSE, v |-> 0]]
                             /\ UNCHANGED <<commits, state, flight, bg, caller>>
    \/ \E c \in callers : /\ Turns(asked, c) \/ Joins(c) \/ GivesUp(c)
                          /\ UNCHANGED <<commits, state, cache, bg>>

LEMMA ReadStepKeeps ==
    ASSUME NEW callers, NEW asked \in SUBSET ReadKeys, NEW max \in Nat,
           CacheInv(max), FlightInv(callers, asked), ReadStep(callers, asked)
    PROVE  CacheInv(max)' /\ FlightInv(callers, asked)'
<1>0. commits \in Nat
  BY DEF CacheInv
<1>1. ASSUME NEW g \in Goroutines, Works(g), UNCHANGED <<commits, state, flight, caller>>
      PROVE  CacheInv(max)' /\ FlightInv(callers, asked)'
  BY <1>0, <1>1, WorksKeepsCache, CommitKeepsFlights
<1>2. ASSUME NEW k \in CachedKeys, cache' = [cache EXCEPT ![k] = [has |-> FALSE, v |-> 0]],
             UNCHANGED <<commits, state, flight, bg, caller>>
      PROVE  CacheInv(max)' /\ FlightInv(callers, asked)'
  <2>1. CacheInv(max)'
    BY <1>2, DropKeepsCache
  <2> QED BY <1>0, <1>2, <2>1, CommitKeepsFlights
<1>3. ASSUME NEW c \in callers, Turns(asked, c) \/ Joins(c) \/ GivesUp(c),
             UNCHANGED <<commits, state, cache, bg>>
      PROVE  CacheInv(max)' /\ FlightInv(callers, asked)'
  <2>1. CacheInv(max)'
    BY <1>3, DropKeepsCache
  <2>2. FlightInv(callers, asked)'
    BY <1>0, <1>3, TurnsKeepsFlights, JoinsKeepsFlights, GivesUpKeepsFlights
  <2> QED BY <2>1, <2>2
<1> QED BY <1>1, <1>2, <1>3 DEF ReadStep

LEMMA FindsKeeps ==
    ASSUME NEW callers, NEW asked, NEW max \in Nat, CacheInv(max), FlightInv(callers, asked),
           NEW k \in ReadKeys, Finds(k), UNCHANGED <<commits, state, cache, bg>>
    PROVE  CacheInv(max)' /\ FlightInv(callers, asked)'
<1>1. commits \in Nat
  BY DEF CacheInv
<1> QED BY <1>1, DropKeepsCache, FindsKeepsFlights

LEMMA LandsKeeps ==
    ASSUME NEW callers, NEW asked, NEW max \in Nat, CacheInv(max), FlightInv(callers, asked),
           NEW k \in ReadKeys, Lands(callers, k), NEW ops \in Seq(Operations), Leaves(ops),
           \A i \in 1 .. Len(ops) : ops[i].v <= commits, UNCHANGED <<commits, state, cache>>
    PROVE  CacheInv(max)' /\ FlightInv(callers, asked)'
<1>1. commits \in commits .. max /\ commits \in Nat /\ state \in {"absent", "active", "terminated"}
  BY DEF CacheInv
<1>2. CacheInv(max)'
  BY <1>1, LeavesKeepsCache
<1> QED BY <1>1, <1>2, LandsKeepsFlights

\* The types that both services state.
LEMMA ReadsTyped ==
    ASSUME NEW callers, NEW asked \in SUBSET ReadKeys, NEW max \in Nat,
           CacheInv(max), FlightInv(callers, asked)
    PROVE  /\ commits \in 0 .. max /\ state \in {"absent", "active", "terminated"}
           /\ cache \in [CachedKeys -> [has : BOOLEAN, v : 0 .. commits]]
           /\ \A k \in ReadKeys : flight[k].step \in {"none", "open", "done"} /\ flight[k].v <= commits
           /\ \A g \in Goroutines : \A i \in DOMAIN bg[g] : bg[g][i].key \in CachedKeys
           /\ \A c \in callers : caller[c].pc \in {"idle", "get", "join", "wait"}
           /\ \A c \in callers : caller[c].pc = "wait" <=> c \in flight[caller[c].key].waiters
<1>1. cache \in [CachedKeys -> [has : BOOLEAN, v : 0 .. commits]]
  <2>1. ASSUME NEW k \in CachedKeys PROVE cache[k] \in [has : BOOLEAN, v : 0 .. commits]
    <3>1. cache[k] \in [has : BOOLEAN, v : Nat] /\ cache[k].v <= commits /\ commits \in Nat
      BY DEF CacheInv, Entries
    <3>2. cache[k].v \in 0 .. commits
      BY <3>1
    <3> QED BY <3>1, <3>2
  <2> QED BY <2>1 DEF CacheInv
<1>2. ASSUME NEW g \in Goroutines, NEW i \in DOMAIN bg[g] PROVE bg[g][i].key \in CachedKeys
  <2>1. bg[g] \in Seq(Operations) /\ i \in 1 .. Len(bg[g])
    BY LenProperties DEF CacheInv
  <2>2. bg[g][i] \in Operations
    BY <2>1, ElementOfSeq
  <2> QED BY <2>2 DEF Operations
<1>3. \A k \in ReadKeys : flight[k].step \in {"none", "open", "done"} /\ flight[k].v <= commits
  BY DEF FlightInv, Flights
<1>4. \A c \in callers : caller[c].pc \in {"idle", "get", "join", "wait"} /\ caller[c].key \in asked
  BY DEF FlightInv, ReadCallers
<1>5. \A c \in callers : caller[c].pc = "wait" <=> c \in flight[caller[c].key].waiters
  BY <1>4 DEF FlightInv
<1>6. commits \in 0 .. max /\ state \in {"absent", "active", "terminated"}
  BY DEF CacheInv
<1> QED BY <1>1, <1>2, <1>3, <1>4, <1>5, <1>6

\* Both start with an empty cache and nobody waiting.
LEMMA ReadsInitially ==
    ASSUME NEW callers, NEW asked \in SUBSET ReadKeys, NEW max \in Nat, NEW key \in asked,
           commits = 0, state = "absent", cache = [k \in CachedKeys |-> [has |-> FALSE, v |-> 0]],
           flight = [k \in ReadKeys |-> NotFlying], bg = [g \in Goroutines |-> <<>>],
           caller = [c \in callers |-> [pc |-> "idle", key |-> key, since |-> 0,
                                        answer |-> [ok |-> FALSE, v |-> 0, floor |-> 0]]]
    PROVE  CacheInv(max) /\ FlightInv(callers, asked)
<1>1. CacheInv(max)
  BY DEF CacheInv, Entries
<1>2. NotFlying \in Flights(callers)
  BY DEF NotFlying, Flights
<1>3. \A c \in callers : caller[c] \in ReadCallers(asked)
  BY DEF ReadCallers, Answers
<1>4. caller \in [callers -> ReadCallers(asked)]
  <2>1. caller = [c \in callers |-> caller[c]]
    OBVIOUS
  <2> QED BY <1>3, <2>1
<1>5. /\ \A k \in ReadKeys : /\ flight[k] = NotFlying /\ flight[k].waiters = {} /\ flight[k].v = 0
                             /\ flight[k].began = 0 /\ flight[k].step = "none"
      /\ \A c \in callers : caller[c].pc = "idle" /\ ~caller[c].answer.ok
  BY DEF NotFlying
<1>6. flight \in [ReadKeys -> Flights(callers)]
  BY <1>2
<1>7. /\ \A k \in ReadKeys : flight[k].v <= commits /\ flight[k].began <= commits
      /\ \A k \in ReadKeys, c \in callers :
            c \in flight[k].waiters <=> caller[c].pc = "wait" /\ caller[c].key = k
  BY <1>5
<1> QED BY <1>1, <1>4, <1>5, <1>6, <1>7 DEF FlightInv

-----------------------------------------------------------------------------
(* The workflows-service.                                                    *)

WorkflowInv == CacheInv(WorkflowCommits) /\ FlightInv(WorkflowCallers, AskedKeys)

LEMMA WorkflowAssumption == WorkflowCommits \in Nat /\ AskedKeys \subseteq ReadKeys
BY ServingAssumption DEF Workflow!ReadThroughAssumption, ReadKeys

LEMMA WorkflowReadStep ==
    ASSUME CacheInv(WorkflowCommits), FlightInv(WorkflowCallers, AskedKeys), Workflow!ReadNext
    PROVE  ReadStep(WorkflowCallers, AskedKeys)
<1>1. ASSUME NEW g \in Goroutines, Workflow!Background(g) PROVE ReadStep(WorkflowCallers, AskedKeys)
  BY <1>1 DEF Workflow!Background, Workflow!Apply, Workflow!NoEntry, Works, ReadStep
<1>2. ASSUME NEW k \in CachedKeys, Workflow!Expire(k) PROVE ReadStep(WorkflowCallers, AskedKeys)
  BY <1>2 DEF Workflow!Expire, Workflow!NoEntry, ReadStep
<1>3. ASSUME NEW c \in WorkflowCallers, Workflow!CacheGet(c) PROVE ReadStep(WorkflowCallers, AskedKeys)
  <2>1. caller[c] \in ReadCallers(AskedKeys) /\ (caller[c].answer.ok => caller[c].answer.v >= caller[c].answer.floor)
    BY DEF FlightInv
  <2>2. ASSUME NEW pc \in {"idle", "join"}
        PROVE  /\ [caller[c] EXCEPT !.pc = pc] \in ReadCallers(AskedKeys)
               /\ [caller[c] EXCEPT !.pc = pc].pc = pc
               /\ [caller[c] EXCEPT !.pc = pc].answer = caller[c].answer
    BY <2>1 DEF ReadCallers
  <2>3. PICK pc \in {"idle", "join"} : caller' = [caller EXCEPT ![c] = [caller[c] EXCEPT !.pc = pc]]
    BY <1>3 DEF Workflow!CacheGet
  <2>4. Turns(AskedKeys, c) /\ UNCHANGED <<commits, state, cache, bg>>
    BY <1>3, <2>1, <2>2, <2>3 DEF Workflow!CacheGet, Turns
  <2> QED BY <2>4 DEF ReadStep
<1>4. ASSUME NEW c \in WorkflowCallers, Workflow!Join(c) PROVE ReadStep(WorkflowCallers, AskedKeys)
  <2>1. Joins(c) /\ UNCHANGED <<commits, state, cache, bg>>
    BY <1>4 DEF Workflow!Join, Workflow!NoFlight, Joins, NotFlying
  <2> QED BY <2>1 DEF ReadStep
<1>5. ASSUME NEW c \in WorkflowCallers, Workflow!Cancel(c) PROVE ReadStep(WorkflowCallers, AskedKeys)
  <2>1. GivesUp(c) /\ UNCHANGED <<commits, state, cache, bg>>
    BY <1>5 DEF Workflow!Cancel, GivesUp
  <2> QED BY <2>1 DEF ReadStep
<1>6. ASSUME NEW c \in WorkflowCallers, NEW k \in AskedKeys, Workflow!Call(c, k) PROVE ReadStep(WorkflowCallers, AskedKeys)
  <2> DEFINE r == [pc |-> IF k \in CachedKeys THEN "get" ELSE "join", key |-> k,
                   since |-> IF k \in CachedKeys THEN 0 ELSE commits,
                   answer |-> [ok |-> FALSE, v |-> 0, floor |-> 0]]
  <2>1. r \in ReadCallers(AskedKeys) /\ r.pc # "wait" /\ ~r.answer.ok
    BY DEF CacheInv, ReadCallers, Answers
  <2>2. /\ caller[c].pc # "wait" /\ caller' = [caller EXCEPT ![c] = r]
        /\ UNCHANGED <<commits, state, cache, flight, bg>>
    BY <1>6 DEF Workflow!Call, Workflow!NoAnswer
  <2> HIDE DEF r
  <2>3. Turns(AskedKeys, c)
    BY <2>1, <2>2 DEF Turns
  <2> QED BY <2>2, <2>3 DEF ReadStep
<1> QED BY <1>1, <1>2, <1>3, <1>4, <1>5, <1>6 DEF Workflow!ReadNext

LEMMA WorkflowFinds ==
    ASSUME NEW k, NEW found, Workflow!Query(k, found)
    PROVE  Finds(k) /\ UNCHANGED <<commits, state, cache, bg>>
BY DEF Workflow!Query, Finds

LEMMA WorkflowLands ==
    ASSUME FlightInv(WorkflowCallers, AskedKeys), NEW k \in ReadKeys, NEW ops, Workflow!Land(k, ops)
    PROVE  /\ Lands(WorkflowCallers, k) /\ UNCHANGED <<commits, state, cache>>
           /\ bg' = bg \/ (flight[k].step = "done" /\ flight[k].ok /\ Leaves(ops))
<1>1. flight[k].step = "done" /\ (bg' = bg \/ (flight[k].ok /\ Leaves(ops)))
  BY DEF Workflow!Land, Workflow!Spawn, Leaves
<1>2. Workflow!Result(k) \in Answers /\ (Workflow!Result(k).ok => Workflow!Result(k).v >= Workflow!Result(k).floor)
  <2>1. flight[k] \in Flights(WorkflowCallers) /\ (flight[k].ok => flight[k].v >= flight[k].began)
    BY <1>1 DEF FlightInv
  <2>2. flight[k].v \in Nat /\ flight[k].began \in Nat
    BY <2>1 DEF Flights
  <2>3. CASE k \in CachedKeys \/ ~flight[k].ok
    BY <2>3 DEF Workflow!Result, Workflow!NoAnswer, Answers
  <2>4. CASE ~(k \in CachedKeys \/ ~flight[k].ok)
    BY <2>1, <2>2, <2>4 DEF Workflow!Result, Answers
  <2> QED BY <2>3, <2>4
<1>3. Lands(WorkflowCallers, k)
  BY <1>2 DEF Workflow!Land, Workflow!Answer, Workflow!NoFlight, Lands, NotFlying
<1> QED BY <1>1, <1>3 DEF Workflow!Land

\* What the service leaves to its goroutines.
LEMMA WorkflowLeaves ==
    ASSUME NEW v \in Nat
    PROVE  /\ <<Workflow!Del("workflow"), Workflow!Del("workflows")>> \in Seq(Operations)
           /\ <<Workflow!Del("workflows"), Workflow!Fill("workflow", v)>> \in Seq(Operations)
           /\ <<Workflow!Del("workflows")>> \in Seq(Operations)
           /\ <<Workflow!Fill("workflows", v)>> \in Seq(Operations)
           /\ <<>> \in Seq(Operations)
           /\ Workflow!Del("workflow").v = 0 /\ Workflow!Del("workflows").v = 0
           /\ Workflow!Fill("workflow", v).v = v /\ Workflow!Fill("workflows", v).v = v
<1>1. Workflow!Del("workflow") \in Operations /\ Workflow!Del("workflows") \in Operations
  BY DEF Workflow!Del, Operations, CachedKeys
<1>2. Workflow!Fill("workflow", v) \in Operations /\ Workflow!Fill("workflows", v) \in Operations
  BY DEF Workflow!Fill, Operations, CachedKeys
<1>3. /\ Workflow!Del("workflow").v = 0 /\ Workflow!Del("workflows").v = 0
      /\ Workflow!Fill("workflow", v).v = v /\ Workflow!Fill("workflows", v).v = v
  BY DEF Workflow!Del, Workflow!Fill
<1> QED BY <1>1, <1>2, <1>3

LEMMA WorkflowWrite ==
    ASSUME WorkflowInv, NEW from, NEW to \in {"absent", "active", "terminated"},
           NEW ops \in Seq(Operations), \A i \in 1 .. Len(ops) : ops[i].v <= commits + 1,
           Workflow!Write(from, to, ops)
    PROVE  WorkflowInv'
<1>1. /\ commits \in Nat /\ commits' = commits + 1 /\ commits' \in Nat /\ commits <= commits'
      /\ commits' \in commits .. WorkflowCommits
  BY WorkflowAssumption DEF Workflow!Write, WorkflowInv, CacheInv
<1>2. state' = to /\ Leaves(ops) /\ UNCHANGED <<cache, flight, caller>>
  BY DEF Workflow!Write, Workflow!Spawn, Leaves
<1>3. CacheInv(WorkflowCommits)'
  BY <1>1, <1>2, WorkflowAssumption, LeavesKeepsCache DEF WorkflowInv
<1>4. FlightInv(WorkflowCallers, AskedKeys)'
  BY <1>1, <1>2, CommitKeepsFlights DEF WorkflowInv
<1> QED BY <1>3, <1>4 DEF WorkflowInv

LEMMA WorkflowStep == WorkflowInv /\ [Workflow!Next]_readVars => WorkflowInv'
<1> SUFFICES ASSUME WorkflowInv, [Workflow!Next]_readVars PROVE WorkflowInv'
  OBVIOUS
<1> USE DEF Workflow!item, Workflow!list, Workflow!byId
<1>0. commits \in Nat /\ 0 <= commits /\ WorkflowCommits \in Nat /\ AskedKeys \subseteq ReadKeys
      /\ "workflow" \in ReadKeys /\ "workflows" \in ReadKeys /\ "workflow_by_id" \in ReadKeys
  BY WorkflowAssumption DEF WorkflowInv, CacheInv, ReadKeys, CachedKeys
<1> DEFINE invalidate == <<Workflow!Del("workflow"), Workflow!Del("workflows")>>
           first == <<Workflow!Del("workflows"), Workflow!Fill("workflow", 1)>>
           clear == <<Workflow!Del("workflows")>>
           refresh == <<Workflow!Del("workflows"),
                        Workflow!Fill("workflow", flight["workflow"].v)>>
           page == <<Workflow!Fill("workflows", flight["workflows"].v)>>
<1>1. /\ invalidate \in Seq(Operations) /\ first \in Seq(Operations) /\ clear \in Seq(Operations)
      /\ \A i \in 1 .. Len(invalidate) : invalidate[i].v = 0
      /\ \A i \in 1 .. Len(first) : first[i].v <= 1
      /\ \A i \in 1 .. Len(clear) : clear[i].v = 0
  BY WorkflowLeaves
<1>2. /\ refresh \in Seq(Operations) /\ page \in Seq(Operations)
      /\ \A i \in 1 .. Len(refresh) : refresh[i].v <= commits
      /\ \A i \in 1 .. Len(page) : page[i].v <= commits
  <2>1. /\ flight["workflow"].v \in Nat /\ flight["workflows"].v \in Nat
        /\ flight["workflow"].v <= commits /\ flight["workflows"].v <= commits
    BY <1>0 DEF WorkflowInv, FlightInv, Flights
  <2> QED BY <1>0, <2>1, WorkflowLeaves
<1> HIDE DEF invalidate, first, clear, refresh, page
<1>3. CASE Workflow!ReadNext
  BY <1>0, <1>3, WorkflowReadStep, ReadStepKeeps DEF WorkflowInv
<1>4. ASSUME NEW from, NEW to \in {"absent", "active", "terminated"},
             Workflow!Write(from, to, invalidate)
      PROVE  WorkflowInv'
  <2>1. \A i \in 1 .. Len(invalidate) : invalidate[i].v <= commits + 1
    BY <1>0, <1>1
  <2> QED BY <1>1, <1>4, <2>1, WorkflowWrite
<1>5. CASE Workflow!CreateWorkflow
  <2>1. CASE Workflow!Write("absent", "active", first)
    <3>1. \A i \in 1 .. Len(first) : first[i].v <= commits + 1
      <4> SUFFICES ASSUME NEW i \in 1 .. Len(first) PROVE first[i].v <= commits + 1
        OBVIOUS
      <4>1. first[i].v \in Nat
        <5>1. first[i] \in Operations
          BY <1>1, ElementOfSeq
        <5> QED BY <5>1 DEF Operations
      <4> QED BY <1>0, <1>1, <4>1
    <3> QED BY <1>1, <2>1, <3>1, WorkflowWrite
  <2>2. CASE Workflow!CreateReplay
    <3>1. Leaves(clear) /\ UNCHANGED <<commits, state, cache, flight, caller>>
      BY <2>2 DEF Workflow!CreateReplay, Workflow!Spawn, Leaves, clear
    <3>2. commits' \in commits .. WorkflowCommits /\ state' \in {"absent", "active", "terminated"}
      BY <1>0, <3>1 DEF WorkflowInv, CacheInv
    <3>3. \A i \in 1 .. Len(clear) : clear[i].v <= commits'
      BY <1>0, <1>1, <3>1
    <3>4. CacheInv(WorkflowCommits)'
      BY <1>0, <1>1, <3>1, <3>2, <3>3, LeavesKeepsCache DEF WorkflowInv
    <3> QED BY <1>0, <3>1, <3>4, CommitKeepsFlights DEF WorkflowInv
  <2> QED BY <1>5, <2>1, <2>2 DEF Workflow!CreateWorkflow, first
<1>6. CASE \/ Workflow!UpdateWorkflow \/ Workflow!UpdateWorkflowBuildStatus
           \/ Workflow!IncrementWorkflowConsecutiveJobFailuresCount
           \/ Workflow!ResetWorkflowConsecutiveJobFailuresCount
           \/ Workflow!TerminateWorkflow \/ Workflow!DeleteWorkflow
  BY <1>4, <1>6 DEF Workflow!UpdateWorkflow, Workflow!UpdateWorkflowBuildStatus,
     Workflow!IncrementWorkflowConsecutiveJobFailuresCount,
     Workflow!ResetWorkflowConsecutiveJobFailuresCount,
     Workflow!TerminateWorkflow, Workflow!DeleteWorkflow, Workflow!Invalidate, invalidate
<1>7. CASE Workflow!GetWorkflow \/ Workflow!ListWorkflows \/ Workflow!GetWorkflowByID
  <2>1. ASSUME NEW k \in ReadKeys, NEW found, Workflow!Query(k, found) PROVE WorkflowInv'
    BY <1>0, <2>1, WorkflowFinds, FindsKeeps DEF WorkflowInv
  <2>2. ASSUME NEW k \in ReadKeys, NEW ops \in Seq(Operations),
               \A i \in 1 .. Len(ops) : ops[i].v <= commits, Workflow!Land(k, ops)
        PROVE  WorkflowInv'
    <3>1. Lands(WorkflowCallers, k) /\ UNCHANGED <<commits, state, cache>> /\ Leaves(ops)
      BY <2>2, WorkflowLands DEF WorkflowInv, Leaves
    <3> QED BY <1>0, <2>2, <3>1, LandsKeeps DEF WorkflowInv
  <2>3. <<>> \in Seq(Operations) /\ \A i \in 1 .. Len(<<>>) : <<>>[i].v <= commits
    OBVIOUS
  <2> QED BY <1>0, <1>2, <1>7, <2>1, <2>2, <2>3
          DEF Workflow!GetWorkflow, Workflow!ListWorkflows, Workflow!GetWorkflowByID, refresh, page
<1>8. CASE UNCHANGED readVars
  BY <1>8 DEF readVars, WorkflowInv, CacheInv, FlightInv
<1> QED BY <1>3, <1>5, <1>6, <1>7, <1>8 DEF Workflow!Next

LEMMA WorkflowPromises == WorkflowInv => Workflow!ReadTypeOK /\ Workflow!UncachedReadsQuery
<1>1. WorkflowInv => Workflow!ReadTypeOK
  BY WorkflowAssumption, ReadsTyped DEF WorkflowInv, Workflow!ReadTypeOK, ReadKeys
<1>2. WorkflowInv => Workflow!UncachedReadsQuery
  BY DEF WorkflowInv, FlightInv, Workflow!UncachedReadsQuery
<1> QED BY <1>1, <1>2

-----------------------------------------------------------------------------
(* The users-service.                                                         *)

LEMMA UserReadStep ==
    ASSUME CacheInv(UserCommits), FlightInv(UserCallers, {"user"}), User!ReadNext
    PROVE  ReadStep(UserCallers, {"user"})
<1>1. ASSUME NEW g \in Goroutines, User!Background(g) PROVE ReadStep(UserCallers, {"user"})
  BY <1>1 DEF User!Background, User!Apply, User!NoEntry, Works, ReadStep
<1>2. ASSUME NEW k \in CachedKeys, User!Expire(k) PROVE ReadStep(UserCallers, {"user"})
  BY <1>2 DEF User!Expire, User!NoEntry, ReadStep
<1>3. ASSUME NEW c \in UserCallers, User!CacheGet(c) PROVE ReadStep(UserCallers, {"user"})
  <2>1. caller[c] \in ReadCallers({"user"}) /\ (caller[c].answer.ok => caller[c].answer.v >= caller[c].answer.floor)
    BY DEF FlightInv
  <2>2. ASSUME NEW pc \in {"idle", "join"}
        PROVE  /\ [caller[c] EXCEPT !.pc = pc] \in ReadCallers({"user"})
               /\ [caller[c] EXCEPT !.pc = pc].pc = pc
               /\ [caller[c] EXCEPT !.pc = pc].answer = caller[c].answer
    BY <2>1 DEF ReadCallers
  <2>3. PICK pc \in {"idle", "join"} : caller' = [caller EXCEPT ![c] = [caller[c] EXCEPT !.pc = pc]]
    BY <1>3 DEF User!CacheGet
  <2>4. Turns({"user"}, c) /\ UNCHANGED <<commits, state, cache, bg>>
    BY <1>3, <2>1, <2>2, <2>3 DEF User!CacheGet, Turns
  <2> QED BY <2>4 DEF ReadStep
<1>4. ASSUME NEW c \in UserCallers, User!Join(c) PROVE ReadStep(UserCallers, {"user"})
  <2>1. Joins(c) /\ UNCHANGED <<commits, state, cache, bg>>
    BY <1>4 DEF User!Join, User!NoFlight, Joins, NotFlying
  <2> QED BY <2>1 DEF ReadStep
<1>5. ASSUME NEW c \in UserCallers, User!Cancel(c) PROVE ReadStep(UserCallers, {"user"})
  <2>1. GivesUp(c) /\ UNCHANGED <<commits, state, cache, bg>>
    BY <1>5 DEF User!Cancel, GivesUp
  <2> QED BY <2>1 DEF ReadStep
<1>6. ASSUME NEW c \in UserCallers, NEW k \in {"user"}, User!Call(c, k) PROVE ReadStep(UserCallers, {"user"})
  <2> DEFINE r == [pc |-> IF k \in CachedKeys THEN "get" ELSE "join", key |-> k,
                   since |-> IF k \in CachedKeys THEN 0 ELSE commits,
                   answer |-> [ok |-> FALSE, v |-> 0, floor |-> 0]]
  <2>1. r \in ReadCallers({"user"}) /\ r.pc # "wait" /\ ~r.answer.ok
    BY DEF CacheInv, ReadCallers, Answers
  <2>2. /\ caller[c].pc # "wait" /\ caller' = [caller EXCEPT ![c] = r]
        /\ UNCHANGED <<commits, state, cache, flight, bg>>
    BY <1>6 DEF User!Call, User!NoAnswer
  <2> HIDE DEF r
  <2>3. Turns({"user"}, c)
    BY <2>1, <2>2 DEF Turns
  <2> QED BY <2>2, <2>3 DEF ReadStep
<1> QED BY <1>1, <1>2, <1>3, <1>4, <1>5, <1>6 DEF User!ReadNext

LEMMA UserFinds ==
    ASSUME NEW k, NEW found, User!Query(k, found)
    PROVE  Finds(k) /\ UNCHANGED <<commits, state, cache, bg>>
BY DEF User!Query, Finds

LEMMA UserLands ==
    ASSUME FlightInv(UserCallers, {"user"}), NEW k \in ReadKeys, NEW ops, User!Land(k, ops)
    PROVE  /\ Lands(UserCallers, k) /\ UNCHANGED <<commits, state, cache>>
           /\ bg' = bg \/ (flight[k].step = "done" /\ flight[k].ok /\ Leaves(ops))
<1>1. flight[k].step = "done" /\ (bg' = bg \/ (flight[k].ok /\ Leaves(ops)))
  BY DEF User!Land, User!Spawn, Leaves
<1>2. User!Result(k) \in Answers /\ (User!Result(k).ok => User!Result(k).v >= User!Result(k).floor)
  <2>1. flight[k] \in Flights(UserCallers) /\ (flight[k].ok => flight[k].v >= flight[k].began)
    BY <1>1 DEF FlightInv
  <2>2. flight[k].v \in Nat /\ flight[k].began \in Nat
    BY <2>1 DEF Flights
  <2>3. CASE k \in CachedKeys \/ ~flight[k].ok
    BY <2>3 DEF User!Result, User!NoAnswer, Answers
  <2>4. CASE ~(k \in CachedKeys \/ ~flight[k].ok)
    BY <2>1, <2>2, <2>4 DEF User!Result, Answers
  <2> QED BY <2>3, <2>4
<1>3. Lands(UserCallers, k)
  BY <1>2 DEF User!Land, User!Answer, User!NoFlight, Lands, NotFlying
<1> QED BY <1>1, <1>3 DEF User!Land

\* Whatever is in the cache or sets out for it saw the commit f.
Fresh(f) ==
    /\ cache["user"].has => cache["user"].v >= f
    /\ flight["user"].step = "done" /\ flight["user"].ok => flight["user"].v >= f
    /\ \A g \in Goroutines : \A i \in 1 .. Len(bg[g]) : bg[g][i].op = "set" => bg[g][i].v >= f

\* Once an UpdateUser returned with nobody on his way into the cache, whoever
\* sets out read the row after it.
UserInv ==
    /\ CacheInv(UserCommits) /\ FlightInv(UserCallers, {"user"})
    /\ sign \in [op : {"none", "login", "register"}, v : 0 .. commits]
    /\ update \in [pc : {"idle", "delete"}, acked : 0 .. commits, alone : BOOLEAN]
    /\ update.alone => Fresh(update.acked) /\ (sign.op # "none" => sign.v >= update.acked)

LEMMA LeavesKeepsFresh ==
    ASSUME NEW f, Fresh(f), CacheInv(UserCommits), NEW ops, Leaves(ops),
           \A i \in 1 .. Len(ops) : ops[i].op = "set" => ops[i].v >= f,
           UNCHANGED cache, flight' = flight \/ flight'["user"].step # "done"
    PROVE  Fresh(f)'
<1>1. \A g \in Goroutines : bg'[g] = bg[g] \/ bg'[g] = ops
  BY DEF CacheInv, Leaves
<1>2. \A g \in Goroutines : \A i \in 1 .. Len(bg'[g]) : bg'[g][i].op = "set" => bg'[g][i].v >= f
  <2> SUFFICES ASSUME NEW g \in Goroutines
               PROVE  \A i \in 1 .. Len(bg'[g]) : bg'[g][i].op = "set" => bg'[g][i].v >= f
    OBVIOUS
  <2> QED BY <1>1 DEF Fresh
<1> QED BY <1>2 DEF Fresh

LEMMA ReadStepKeepsFresh ==
    ASSUME NEW f, Fresh(f), CacheInv(UserCommits), FlightInv(UserCallers, {"user"}),
           ReadStep(UserCallers, {"user"})
    PROVE  Fresh(f)'
<1>0. "user" \in CachedKeys /\ "user" \in ReadKeys
  BY DEF CachedKeys, ReadKeys
<1>1. ASSUME NEW g \in Goroutines, Works(g), UNCHANGED <<commits, state, flight, caller>>
      PROVE  Fresh(f)'
  <2>1. bg[g] \in Seq(Operations) /\ bg[g] # <<>>
    BY <1>1 DEF CacheInv, Works
  <2>2. /\ Head(bg[g]) = bg[g][1] /\ 1 \in 1 .. Len(bg[g])
        /\ \A i \in 1 .. Len(Tail(bg[g])) : Tail(bg[g])[i] = bg[g][i + 1] /\ i + 1 \in 1 .. Len(bg[g])
    BY <2>1, HeadTailProperties, LenProperties, EmptySeq
  <2> DEFINE h == Head(bg[g])
             t == Tail(bg[g])
  <2>3. /\ h.op = "set" => h.v >= f
        /\ \A i \in 1 .. Len(t) : t[i].op = "set" => t[i].v >= f
    BY <2>2 DEF Fresh
  <2>4. bg' = [bg EXCEPT ![g] = t]
    BY <1>1 DEF Works
  <2>5. cache'["user"] = cache["user"] \/ (h.op = "set" /\ cache'["user"] = [has |-> TRUE, v |-> h.v])
        \/ cache'["user"] = [has |-> FALSE, v |-> 0]
    BY <1>0, <1>1 DEF Works, CacheInv
  <2> HIDE DEF h, t
  <2>6. cache'["user"].has => cache'["user"].v >= f
    BY <2>3, <2>5 DEF Fresh
  <2>7. \A q \in Goroutines : \A i \in 1 .. Len(bg'[q]) : bg'[q][i].op = "set" => bg'[q][i].v >= f
    <3> SUFFICES ASSUME NEW q \in Goroutines
                 PROVE  \A i \in 1 .. Len(bg'[q]) : bg'[q][i].op = "set" => bg'[q][i].v >= f
      OBVIOUS
    <3>1. bg'[q] = IF q = g THEN t ELSE bg[q]
      BY <2>4 DEF CacheInv
    <3> QED BY <2>3, <3>1 DEF Fresh
  <2> QED BY <1>1, <2>6, <2>7 DEF Fresh
<1>2. ASSUME NEW k \in CachedKeys, cache' = [cache EXCEPT ![k] = [has |-> FALSE, v |-> 0]],
             UNCHANGED <<commits, state, flight, bg, caller>>
      PROVE  Fresh(f)'
  <2>1. cache'["user"] = cache["user"] \/ cache'["user"] = [has |-> FALSE, v |-> 0]
    BY <1>0, <1>2 DEF CacheInv
  <2> QED BY <1>2, <2>1 DEF Fresh
<1>3. ASSUME NEW c \in UserCallers, Turns({"user"}, c) \/ Joins(c) \/ GivesUp(c),
             UNCHANGED <<commits, state, cache, bg>>
      PROVE  Fresh(f)'
  <2>1. /\ flight \in [ReadKeys -> Flights(UserCallers)] /\ caller[c].key = "user"
        /\ flight["user"] \in Flights(UserCallers)
    BY <1>0 DEF FlightInv, ReadCallers
  <2>2. CASE Turns({"user"}, c)
    BY <1>3, <2>2 DEF Turns, Fresh
  <2>3. CASE Joins(c)
    <3>1. flight'["user"].step = "open"
          \/ /\ flight'["user"].step = flight["user"].step /\ flight'["user"].ok = flight["user"].ok
             /\ flight'["user"].v = flight["user"].v
      BY <1>0, <2>1, <2>3 DEF Joins, NotFlying, Flights
    <3> QED BY <1>3, <3>1 DEF Fresh
  <2>4. CASE GivesUp(c)
    <3>1. /\ flight'["user"].step = flight["user"].step /\ flight'["user"].ok = flight["user"].ok
          /\ flight'["user"].v = flight["user"].v
      BY <1>0, <2>1, <2>4 DEF GivesUp, Flights
    <3> QED BY <1>3, <3>1 DEF Fresh
  <2> QED BY <1>3, <2>2, <2>3, <2>4
<1> QED BY <1>1, <1>2, <1>3 DEF ReadStep

\* Everybody is gone but the update itself.
LEMMA UpdateReturns == ASSUME UserInv, User!UpdateUserReturns PROVE UserInv'
<1> USE DEF User!user
<1>0. /\ commits \in Nat /\ UserCommits \in Nat /\ "user" \in CachedKeys /\ "user" \in ReadKeys
      /\ UNCHANGED <<commits, state, flight, bg, caller, sign>>
  BY ServingAssumption DEF UserInv, CacheInv, User!ReadThroughAssumption, CachedKeys, ReadKeys,
     User!UpdateUserReturns
<1>1. CacheInv(UserCommits)'
  BY <1>0, DropKeepsCache DEF UserInv, User!UpdateUserReturns, User!NoEntry
<1>2. FlightInv(UserCallers, {"user"})'
  BY <1>0, CommitKeepsFlights DEF UserInv
<1>3. CASE /\ cache' = [cache EXCEPT !["user"] = User!NoEntry]
           /\ update' = [pc |-> "idle", acked |-> commits, alone |-> User!Alone]
  <2>1. User!Alone \in BOOLEAN
    BY DEF User!Alone
  <2>2. update' \in [pc : {"idle", "delete"}, acked : 0 .. commits, alone : BOOLEAN]
        /\ update'.alone = User!Alone /\ update'.acked = commits
    BY <1>0, <1>3, <2>1
  <2>3. ~cache'["user"].has
    BY <1>0, <1>3 DEF UserInv, CacheInv, User!NoEntry
  <2>4. User!Alone => /\ sign.op = "none" /\ flight["user"].step = "none"
                      /\ \A g \in Goroutines : Len(bg[g]) = 0
    BY DEF User!Alone
  <2>5. User!Alone => Fresh(commits)'
    BY <1>0, <2>3, <2>4 DEF Fresh
  <2> QED BY <1>0, <1>1, <1>2, <2>2, <2>4, <2>5 DEF UserInv, Fresh
<1>4. CASE update' = [update EXCEPT !.pc = "idle"] /\ UNCHANGED cache
  <2>1. update' \in [pc : {"idle", "delete"}, acked : 0 .. commits, alone : BOOLEAN]
        /\ update'.alone = update.alone /\ update'.acked = update.acked
    BY <1>4 DEF UserInv
  <2> QED BY <1>0, <1>1, <1>2, <1>4, <2>1 DEF UserInv, Fresh
<1> QED BY <1>3, <1>4 DEF User!UpdateUserReturns

\* RegisterRow, LoginRow and UpdateRow: the row is read or written.
LEMMA RowMoves ==
    ASSUME UserInv, commits' \in {commits, commits + 1}, commits' <= UserCommits,
           state' \in {"absent", "active", "terminated"}, UNCHANGED <<cache, flight, bg, caller>>,
           update' = update \/ update' = [update EXCEPT !.pc = "delete"],
           sign' = sign \/ sign' \in [op : {"login", "register"}, v : {commits'}]
    PROVE  UserInv'
<1>1. /\ commits \in Nat /\ commits' \in Nat /\ commits <= commits' /\ UserCommits \in Nat
      /\ commits' \in commits .. UserCommits /\ commits' \in 0 .. UserCommits
  BY ServingAssumption DEF User!ReadThroughAssumption, UserInv, CacheInv
<1>2. /\ <<>> \in Seq(Operations) /\ Leaves(<<>>)
      /\ \A i \in 1 .. Len(<<>>) : <<>>[i].v <= commits'
  BY DEF Leaves
<1>3. CacheInv(UserCommits)'
  <2>1. CacheInv(UserCommits)
    BY DEF UserInv
  <2> QED BY <1>1, <1>2, <2>1, LeavesKeepsCache
<1>4. FlightInv(UserCallers, {"user"})'
  BY <1>1, CommitKeepsFlights DEF UserInv
<1>5. /\ update.acked \in 0 .. commits /\ sign.v \in 0 .. commits
      /\ update'.alone = update.alone /\ update'.acked = update.acked
      /\ update' \in [pc : {"idle", "delete"}, acked : 0 .. commits', alone : BOOLEAN]
  BY <1>1 DEF UserInv
<1>6. sign' \in [op : {"none", "login", "register"}, v : 0 .. commits']
      /\ (sign' = sign \/ sign'.v >= update.acked)
  BY <1>1, <1>5 DEF UserInv
<1>7. PICK f : f = update.acked
  OBVIOUS
<1>8. update'.alone => Fresh(f)' /\ (sign'.op # "none" => sign'.v >= f)
  BY <1>1, <1>5, <1>6, <1>7 DEF UserInv, Fresh
<1> QED BY <1>3, <1>4, <1>5, <1>6, <1>7, <1>8 DEF UserInv, Fresh

\* The row is cached by a goroutine.
LEMMA UserCached == ASSUME UserInv, User!CacheUser, sign.op # "none" PROVE UserInv'
<1> DEFINE ops == <<User!Fill("user", sign.v)>>
<1>1. /\ sign.v \in Nat /\ sign.v <= commits /\ commits \in Nat /\ UserCommits \in Nat
      /\ commits \in commits .. UserCommits /\ state \in {"absent", "active", "terminated"}
  BY ServingAssumption DEF User!ReadThroughAssumption, UserInv, CacheInv
<1>2. ops \in Seq(Operations) /\ \A i \in 1 .. Len(ops) : ops[i].v = sign.v
  <2>1. User!Fill("user", sign.v) \in Operations /\ User!Fill("user", sign.v).v = sign.v
    BY <1>1 DEF User!Fill, Operations, CachedKeys
  <2> QED BY <2>1
<1>3. Leaves(ops) /\ UNCHANGED <<commits, state, cache, flight, caller, update>>
      /\ sign' = [op |-> "none", v |-> 0]
  BY DEF User!CacheUser, User!Spawn, Leaves, User!user
<1> HIDE DEF ops
<1>4. \A i \in 1 .. Len(ops) : ops[i].v <= commits
  BY <1>1, <1>2
<1>5. CacheInv(UserCommits)'
  BY <1>1, <1>2, <1>3, <1>4, LeavesKeepsCache DEF UserInv
<1>6. FlightInv(UserCallers, {"user"})'
  BY <1>1, <1>3, CommitKeepsFlights DEF UserInv
<1>7. PICK f : f = update.acked
  OBVIOUS
<1>8. update.alone => Fresh(f)'
  <2>1. update.alone => \A i \in 1 .. Len(ops) : ops[i].op = "set" => ops[i].v >= f
    BY <1>2, <1>7 DEF UserInv
  <2> QED BY <1>3, <1>7, <2>1, LeavesKeepsFresh DEF UserInv
<1>9. sign' \in [op : {"none", "login", "register"}, v : 0 .. commits'] /\ sign'.op = "none"
  BY <1>1, <1>3
<1> QED BY <1>3, <1>5, <1>6, <1>7, <1>8, <1>9 DEF UserInv, Fresh

LEMMA UserStep == UserInv /\ [User!Next]_<<readVars, sign, update>> => UserInv'
<1> SUFFICES ASSUME UserInv, [User!Next]_<<readVars, sign, update>> PROVE UserInv'
  OBVIOUS
<1> USE DEF User!user
<1>0. /\ commits \in Nat /\ 0 <= commits /\ UserCommits \in Nat /\ {"user"} \in SUBSET ReadKeys
      /\ "user" \in ReadKeys /\ commits <= UserCommits
      /\ state \in {"absent", "active", "terminated"} /\ update.acked \in Nat /\ update.acked <= commits
  BY ServingAssumption DEF User!ReadThroughAssumption, UserInv, CacheInv, ReadKeys, CachedKeys
<1>f. PICK f : f = update.acked
  OBVIOUS
<1>1. ASSUME CacheInv(UserCommits)' /\ FlightInv(UserCallers, {"user"})',
             UNCHANGED <<commits, sign, update>>, update.alone => Fresh(f)'
      PROVE  UserInv'
  BY <1>1, <1>f DEF UserInv, Fresh
<1>2. CASE User!ReadNext /\ UNCHANGED <<sign, update>>
  <2>1. ReadStep(UserCallers, {"user"})
    BY <1>2, UserReadStep DEF UserInv
  <2>2. CacheInv(UserCommits)' /\ FlightInv(UserCallers, {"user"})'
    BY <1>0, <2>1, ReadStepKeeps DEF UserInv
  <2>3. update.alone => Fresh(f)'
    BY <1>f, <2>1, ReadStepKeepsFresh DEF UserInv
  <2>4. commits' = commits
    BY <2>1 DEF ReadStep
  <2> QED BY <1>1, <1>2, <2>2, <2>3, <2>4
<1>3. CASE User!RegisterRow \/ User!LoginRow \/ User!UpdateRow
  <2>1. /\ commits' \in {commits, commits + 1} /\ commits' <= UserCommits
        /\ state' \in {"absent", "active", "terminated"} /\ UNCHANGED <<cache, flight, bg, caller>>
        /\ update' = update \/ update' = [update EXCEPT !.pc = "delete"]
        /\ sign' = sign \/ sign' \in [op : {"login", "register"}, v : {commits'}]
    BY <1>0, <1>3 DEF User!RegisterRow, User!LoginRow, User!UpdateRow, User!vars
  <2> QED BY <2>1, RowMoves
<1>4. CASE User!RegisterUser \/ User!LoginUser
  BY <1>4, UserCached DEF User!RegisterUser, User!LoginUser
<1>5. CASE User!UpdateUserReturns
  BY <1>5, UpdateReturns
<1>6. CASE User!GetUser
  <2>1. ASSUME NEW found, User!Query("user", found) PROVE UserInv'
    <3>1. Finds("user") /\ UNCHANGED <<commits, state, cache, bg, sign, update>>
      BY <1>6, <2>1, UserFinds DEF User!GetUser
    <3>2. CacheInv(UserCommits)' /\ FlightInv(UserCallers, {"user"})'
      BY <1>0, <3>1, FindsKeeps DEF UserInv
    <3>3. flight'["user"].v = commits
      <4>1. flight \in [ReadKeys -> Flights(UserCallers)] /\ flight["user"] \in Flights(UserCallers)
        BY <1>0 DEF UserInv, FlightInv
      <4> QED BY <1>0, <3>1, <4>1 DEF Finds, Flights
    <3>4. update.alone => Fresh(f)'
      BY <1>0, <1>f, <3>1, <3>3 DEF UserInv, Fresh
    <3> QED BY <1>1, <3>1, <3>2, <3>4
  <2>2. CASE User!Land("user", <<User!Fill("user", flight["user"].v)>>)
    <3> DEFINE ops == <<User!Fill("user", flight["user"].v)>>
    <3>1. ops \in Seq(Operations) /\ \A i \in 1 .. Len(ops) : ops[i].v = flight["user"].v
      <4>1. flight["user"].v \in Nat
        BY <1>0 DEF UserInv, FlightInv, Flights
      <4>2. User!Fill("user", flight["user"].v) \in Operations
            /\ User!Fill("user", flight["user"].v).v = flight["user"].v
        BY <4>1 DEF User!Fill, Operations, CachedKeys
      <4> QED BY <4>2
    <3>2. /\ Lands(UserCallers, "user") /\ UNCHANGED <<commits, state, cache, sign, update>>
          /\ bg' = bg \/ (flight["user"].step = "done" /\ flight["user"].ok /\ Leaves(ops))
      BY <1>0, <1>6, <2>2, UserLands DEF UserInv, User!GetUser
    <3> HIDE DEF ops
    <3>3. Leaves(ops) /\ \A i \in 1 .. Len(ops) : ops[i].v <= commits
      BY <1>0, <3>1, <3>2 DEF Leaves, UserInv, FlightInv
    <3>4. CacheInv(UserCommits)' /\ FlightInv(UserCallers, {"user"})'
      BY <1>0, <3>1, <3>2, <3>3, LandsKeeps DEF UserInv
    <3>5. flight'["user"].step = "none"
      <4>1. flight \in [ReadKeys -> Flights(UserCallers)] /\ "user" \in ReadKeys
        BY <1>0 DEF UserInv, FlightInv, ReadKeys
      <4>2. flight' = [flight EXCEPT !["user"] = NotFlying]
        BY <3>2 DEF Lands
      <4> QED BY <4>1, <4>2 DEF NotFlying
    <3>6. update.alone => Fresh(f)'
      <4>1. CASE bg' = bg
        BY <1>f, <3>2, <3>5, <4>1 DEF UserInv, Fresh
      <4>2. CASE flight["user"].step = "done" /\ flight["user"].ok
        <5>1. update.alone => \A i \in 1 .. Len(ops) : ops[i].op = "set" => ops[i].v >= f
          BY <1>f, <3>1, <4>2 DEF UserInv, Fresh
        <5> QED BY <1>f, <3>2, <3>3, <3>5, <5>1, LeavesKeepsFresh DEF UserInv
      <4> QED BY <3>2, <4>1, <4>2
    <3> QED BY <1>1, <3>2, <3>4, <3>6
  <2> QED BY <1>6, <2>1, <2>2 DEF User!GetUser
<1>7. CASE UNCHANGED <<readVars, sign, update>>
  BY <1>7 DEF readVars, UserInv, CacheInv, FlightInv, Fresh
<1> QED BY <1>2, <1>3, <1>4, <1>5, <1>6, <1>7 DEF User!Next

LEMMA UserPromises == UserInv => User!TypeOK /\ User!AckedUpdateVisible
<1> SUFFICES ASSUME UserInv PROVE User!TypeOK /\ User!AckedUpdateVisible
  OBVIOUS
<1>1. User!ReadTypeOK
  <2>1. {"user"} \in SUBSET ReadKeys /\ UserCommits \in Nat
    BY ServingAssumption DEF User!ReadThroughAssumption, ReadKeys, CachedKeys
  <2> QED BY <2>1, ReadsTyped DEF UserInv, User!ReadTypeOK, ReadKeys
<1> QED BY <1>1 DEF UserInv, Fresh, User!TypeOK, User!AckedUpdateVisible, User!user

-----------------------------------------------------------------------------
(* Routes, calls and the interceptors.                                       *)

\* A call that a handler behind a route may make: it is of no internal method,
\* needs no token or is to the service that the route's token is for, and
\* changes nothing unverified.
MayCall(csrf, aud, method) ==
    /\ ~Gateway!isInternalAPI(method)
    /\ Gateway!isAuthRequired(method) => aud # "none" /\ Gateway!Server(method) = aud
    /\ method \in Gateway!ChangesState => csrf

RouteFits(route) ==
    \A run \in route.runs : /\ \E methods : run \in Seq(methods)
                            /\ \A i \in 1 .. Len(run) : MayCall(route.csrf, route.aud, run[i])

LEMMA RunsFit ==
    ASSUME NEW csrf, NEW session, NEW aud, NEW methods, NEW runs \in SUBSET Seq(methods),
           \A m \in methods : MayCall(csrf, aud, m)
    PROVE  RouteFits(Gateway!Route(csrf, session, aud, runs))
<1>1. ASSUME NEW run \in runs
      PROVE  run \in Seq(methods) /\ \A i \in 1 .. Len(run) : run[i] \in methods
  <2>1. run \in Seq(methods)
    OBVIOUS
  <2> QED BY <2>1, ElementOfSeq
<1>2. Gateway!Route(csrf, session, aud, runs).runs = runs
      /\ Gateway!Route(csrf, session, aud, runs).csrf = csrf
      /\ Gateway!Route(csrf, session, aud, runs).aud = aud
  BY DEF Gateway!Route
<1> QED BY <1>1, <1>2 DEF RouteFits

LEMMA OneCallFits ==
    ASSUME NEW csrf, NEW session, NEW aud, NEW m, MayCall(csrf, aud, m)
    PROVE  RouteFits(Gateway!Route(csrf, session, aud, {<<m>>}))
<1> DEFINE methods == {m}
           runs == {<<m>>}
<1>1. runs \in SUBSET Seq(methods) /\ \A x \in methods : MayCall(csrf, aud, x)
  OBVIOUS
<1> HIDE DEF methods
<1>2. PICK r : r = runs
  OBVIOUS
<1>3. RouteFits(Gateway!Route(csrf, session, aud, r))
  <2> HIDE DEF runs
  <2> QED BY <1>1, <1>2, RunsFit
<1> QED BY <1>2, <1>3

\* The calls of the handlers.
LEMMA HandlersMayCall ==
    /\ MayCall(FALSE, "none", "RegisterUser")
    /\ MayCall(FALSE, "none", "LoginUser")
    /\ MayCall(FALSE, "users", "GetUser")
    /\ MayCall(TRUE, "users", "UpdateUser")
    /\ MayCall(FALSE, "workflows", "ListWorkflows")
    /\ MayCall(TRUE, "workflows", "CreateWorkflow")
    /\ MayCall(FALSE, "workflows", "GetWorkflow")
    /\ MayCall(TRUE, "workflows", "UpdateWorkflow")
    /\ MayCall(TRUE, "workflows", "TerminateWorkflow")
    /\ MayCall(TRUE, "workflows", "DeleteWorkflow")
    /\ MayCall(FALSE, "jobs", "ListJobs")
    /\ MayCall(TRUE, "jobs", "ScheduleJob")
    /\ MayCall(FALSE, "jobs", "GetJob")
    /\ MayCall(FALSE, "jobs", "GetJobLogs")
    /\ MayCall(FALSE, "notifications", "ListNotifications")
    /\ MayCall(TRUE, "notifications", "MarkNotificationsRead")
    /\ MayCall(FALSE, "analytics", "GetUserAnalytics")
    /\ MayCall(FALSE, "analytics", "GetWorkflowAnalytics")
    /\ MayCall(FALSE, "jobs", "SearchJobLogs")
    /\ MayCall(FALSE, "jobs", "StreamJobLogs")
BY DEF MayCall, Gateway!Server, Gateway!UsersHandlers, Gateway!WorkflowsHandlers,
   Gateway!WorkflowsOtherHandlers, Gateway!NotificationsHandlers, Gateway!AnalyticsHandlers,
   Gateway!isInternalAPI, Gateway!JobsInternal, Gateway!WorkflowsInternal,
   Gateway!NotificationsInternal, Gateway!isAuthRequired, Gateway!ChangesState

LEMMA RoutesFit == \A t \in Gateway!RouteTables : \A r \in DOMAIN t : RouteFits(t[r])
<1> USE DEF Gateway!Get, Gateway!Change, Gateway!None
<1>1. \A r \in DOMAIN Gateway!AuthRoutes : RouteFits(Gateway!AuthRoutes[r])
  <2>0. ASSUME NEW csrf PROVE RouteFits(Gateway!Route(csrf, TRUE, "none", {<<>>}))
    <3> DEFINE methods == {}
               runs == {<<>>}
    <3>1. runs \in SUBSET Seq(methods) /\ \A x \in methods : MayCall(csrf, "none", x)
      OBVIOUS
    <3>2. PICK r : r = runs
      OBVIOUS
    <3>3. RouteFits(Gateway!Route(csrf, TRUE, "none", r))
      <4> HIDE DEF runs, methods
      <4> QED BY <3>1, <3>2, RunsFit
    <3> QED BY <3>2, <3>3
  <2>1. RouteFits(Gateway!AuthRoutes.register)
    BY HandlersMayCall, OneCallFits DEF Gateway!AuthRoutes
  <2>2. RouteFits(Gateway!AuthRoutes.login)
    BY HandlersMayCall, OneCallFits DEF Gateway!AuthRoutes
  <2>3. RouteFits(Gateway!AuthRoutes.logout)
    BY <2>0 DEF Gateway!AuthRoutes
  <2>4. RouteFits(Gateway!AuthRoutes.validate)
    BY <2>0 DEF Gateway!AuthRoutes
  <2>5. RouteFits(Gateway!AuthRoutes.csrf)
    BY <2>0 DEF Gateway!AuthRoutes
  <2>6. DOMAIN Gateway!AuthRoutes = {"register", "login", "logout", "validate", "csrf"}
    BY DEF Gateway!AuthRoutes
  <2> QED BY <2>1, <2>2, <2>3, <2>4, <2>5, <2>6
<1>2. \A r \in DOMAIN Gateway!UserRoutes : RouteFits(Gateway!UserRoutes[r])
  <2>1. RouteFits(Gateway!UserRoutes.getUser)
    BY HandlersMayCall, OneCallFits DEF Gateway!UserRoutes
  <2>2. RouteFits(Gateway!UserRoutes.updateUser)
    BY HandlersMayCall, OneCallFits DEF Gateway!UserRoutes
  <2>3. DOMAIN Gateway!UserRoutes = {"getUser", "updateUser"}
    BY DEF Gateway!UserRoutes
  <2> QED BY <2>1, <2>2, <2>3
<1>3. \A r \in DOMAIN Gateway!WorkflowRoutes : RouteFits(Gateway!WorkflowRoutes[r])
  <2>1. RouteFits(Gateway!WorkflowRoutes.listWorkflows)
    BY HandlersMayCall, OneCallFits DEF Gateway!WorkflowRoutes
  <2>2. RouteFits(Gateway!WorkflowRoutes.createWorkflow)
    BY HandlersMayCall, OneCallFits DEF Gateway!WorkflowRoutes
  <2>3. RouteFits(Gateway!WorkflowRoutes.getWorkflow)
    BY HandlersMayCall, OneCallFits DEF Gateway!WorkflowRoutes
  <2>4. RouteFits(Gateway!WorkflowRoutes.updateWorkflow)
    BY HandlersMayCall, OneCallFits DEF Gateway!WorkflowRoutes
  <2>5. RouteFits(Gateway!WorkflowRoutes.terminateWorkflow)
    BY HandlersMayCall, OneCallFits DEF Gateway!WorkflowRoutes
  <2>6. RouteFits(Gateway!WorkflowRoutes.deleteWorkflow)
    BY HandlersMayCall, OneCallFits DEF Gateway!WorkflowRoutes
  <2>7. DOMAIN Gateway!WorkflowRoutes = {"listWorkflows", "createWorkflow", "getWorkflow",
                                      "updateWorkflow", "terminateWorkflow", "deleteWorkflow"}
    BY DEF Gateway!WorkflowRoutes
  <2> QED BY <2>1, <2>2, <2>3, <2>4, <2>5, <2>6, <2>7
<1>4. \A r \in DOMAIN Gateway!JobRoutes : RouteFits(Gateway!JobRoutes[r])
  <2> DEFINE reads == {"GetJob", "GetJobLogs", "SearchJobLogs", "StreamJobLogs"}
  <2>0. ASSUME NEW runs \in SUBSET Seq(reads)
        PROVE  RouteFits(Gateway!Route(FALSE, TRUE, "jobs", runs))
    <3>1. \A m \in reads : MayCall(FALSE, "jobs", m)
      BY HandlersMayCall
    <3> HIDE DEF reads
    <3> QED BY <3>1, RunsFit
  <2>1. RouteFits(Gateway!JobRoutes.listJobs)
    BY HandlersMayCall, OneCallFits DEF Gateway!JobRoutes
  <2>2. RouteFits(Gateway!JobRoutes.scheduleJob)
    BY HandlersMayCall, OneCallFits DEF Gateway!JobRoutes
  <2>3. RouteFits(Gateway!JobRoutes.getJob)
    BY HandlersMayCall, OneCallFits DEF Gateway!JobRoutes
  <2>4. RouteFits(Gateway!JobRoutes.getJobLogs)
    BY HandlersMayCall, OneCallFits DEF Gateway!JobRoutes
  <2>5. RouteFits(Gateway!JobRoutes.searchJobLogs)
    <3>1. {<<"GetJobLogs">>, <<"SearchJobLogs">>} \in SUBSET Seq(reads)
      OBVIOUS
    <3> QED BY <2>0, <3>1 DEF Gateway!JobRoutes
  <2>6. RouteFits(Gateway!JobRoutes.downloadJobLogs)
    <3>1. {<<"GetJob", "GetJobLogs">>, <<"GetJob", "SearchJobLogs">>} \in SUBSET Seq(reads)
      OBVIOUS
    <3> QED BY <2>0, <3>1 DEF Gateway!JobRoutes
  <2>7. RouteFits(Gateway!JobRoutes.jobEvents)
    <3>1. {<<>>, <<"StreamJobLogs">>} \in SUBSET Seq(reads)
      OBVIOUS
    <3> QED BY <2>0, <3>1 DEF Gateway!JobRoutes
  <2>8. DOMAIN Gateway!JobRoutes = {"listJobs", "scheduleJob", "getJob", "getJobLogs",
                                      "searchJobLogs", "downloadJobLogs", "jobEvents"}
    BY DEF Gateway!JobRoutes
  <2> QED BY <2>1, <2>2, <2>3, <2>4, <2>5, <2>6, <2>7, <2>8
<1>5. \A r \in DOMAIN Gateway!OtherRoutes : RouteFits(Gateway!OtherRoutes[r])
  <2>1. RouteFits(Gateway!OtherRoutes.listNotifications)
    BY HandlersMayCall, OneCallFits DEF Gateway!OtherRoutes
  <2>2. RouteFits(Gateway!OtherRoutes.markRead)
    BY HandlersMayCall, OneCallFits DEF Gateway!OtherRoutes
  <2>3. RouteFits(Gateway!OtherRoutes.getUserAnalytics)
    BY HandlersMayCall, OneCallFits DEF Gateway!OtherRoutes
  <2>4. RouteFits(Gateway!OtherRoutes.getWorkflowAnalytics)
    BY HandlersMayCall, OneCallFits DEF Gateway!OtherRoutes
  <2>5. DOMAIN Gateway!OtherRoutes = {"listNotifications", "markRead", "getUserAnalytics",
                                      "getWorkflowAnalytics"}
    BY DEF Gateway!OtherRoutes
  <2> QED BY <2>1, <2>2, <2>3, <2>4, <2>5
<1> QED BY <1>1, <1>2, <1>3, <1>4, <1>5 DEF Gateway!RouteTables

LEMMA RouteOf == \A r \in DOMAIN Gateway!Routes : RouteFits(Gateway!Routes[r])
<1> SUFFICES ASSUME NEW r \in DOMAIN Gateway!Routes PROVE RouteFits(Gateway!Routes[r])
  OBVIOUS
<1>1. PICK t \in Gateway!RouteTables : r \in DOMAIN t /\ Gateway!Routes[r] = t[r]
  BY DEF Gateway!Routes
<1> QED BY <1>1, RoutesFit

\* A token a service issues for itself names the services it calls.
LEMMA InternalFits ==
    \A i \in Gateway!Internal : \A m \in i.calls :
        Gateway!Server(m) \in i.aud /\ Gateway!isAuthRequired(m)
<1> USE DEF Gateway!Server, Gateway!UsersHandlers, Gateway!WorkflowsHandlers,
       Gateway!WorkflowsOtherHandlers, Gateway!NotificationsHandlers, Gateway!AnalyticsHandlers,
       Gateway!isAuthRequired
<1>1. \A m \in Gateway!ExecutorCalls.calls :
         Gateway!Server(m) \in Gateway!ExecutorCalls.aud /\ Gateway!isAuthRequired(m)
  BY DEF Gateway!ExecutorCalls
<1>2. \A m \in Gateway!WorkflowWorkerCalls.calls :
         Gateway!Server(m) \in Gateway!WorkflowWorkerCalls.aud /\ Gateway!isAuthRequired(m)
  BY DEF Gateway!WorkflowWorkerCalls
<1>3. \A m \in Gateway!JobsServiceCalls.calls :
         Gateway!Server(m) \in Gateway!JobsServiceCalls.aud /\ Gateway!isAuthRequired(m)
  BY DEF Gateway!JobsServiceCalls
<1>4. \A m \in Gateway!NotificationsServiceCalls.calls :
         Gateway!Server(m) \in Gateway!NotificationsServiceCalls.aud /\ Gateway!isAuthRequired(m)
  BY DEF Gateway!NotificationsServiceCalls
<1> QED BY <1>1, <1>2, <1>3, <1>4 DEF Gateway!Internal

\* What a service answers to a call it admits.
LEMMA AnswerAdmits ==
    ASSUME NEW token, NEW method, NEW by, NEW csrf, Gateway!Answer(token, method, by, csrf),
           Gateway!isAuthRequired(method) => Gateway!Server(method) \in token.aud /\ token.role # "none",
           Gateway!isInternalAPI(method) => Gateway!isAuthRequired(method) /\ token.role = "admin"
    PROVE  /\ answered'.method = method /\ answered'.by = by /\ answered'.csrf = csrf
           /\ answered'.code = "OK"
           /\ Gateway!isAuthRequired(method) => answered'.role = token.role /\ answered'.sub = token.sub
<1> DEFINE valid == Gateway!authTokenInterceptor(token, method)
<1>1. CASE Gateway!isAuthRequired(method)
  <2>1. valid = token
    BY <1>1 DEF Gateway!authTokenInterceptor
  <2> HIDE DEF valid
  <2> QED BY <1>1, <2>1 DEF Gateway!Answer, Gateway!RoleInterceptor, Gateway!None, valid
<1>2. CASE ~Gateway!isAuthRequired(method)
  <2>1. valid.role = "user"
    BY <1>2 DEF Gateway!authTokenInterceptor, Gateway!NoToken, Gateway!None
  <2> HIDE DEF valid
  <2> QED BY <1>2, <2>1 DEF Gateway!Answer, Gateway!RoleInterceptor, Gateway!None, valid
<1> QED BY <1>1, <1>2

\* A request has only calls of its route left to make, a check it passed was
\* required, and its token is of its user for the service of its route.
RequestInv(q) ==
    q = Gateway!IdleConn \/
        LET r == Gateway!Routes[q.route] IN
        /\ q.route \in DOMAIN Gateway!Routes
        /\ \E methods : q.todo \in Seq(methods)
        /\ \A i \in 1 .. Len(q.todo) : MayCall(r.csrf, r.aud, q.todo[i])
        /\ q.token # Gateway!NoToken =>
              /\ r.aud # "none"
              /\ q.token = [role |-> "user", sub |-> q.user, aud |-> {r.aud}]

AccessInv ==
    /\ conn = [c \in Inflight |-> conn[c]]
    /\ \A c \in Inflight : /\ conn[c] = [route |-> conn[c].route, user |-> conn[c].user,
                                         checked |-> conn[c].checked, token |-> conn[c].token,
                                         todo |-> conn[c].todo]
                           /\ RequestInv(conn[c])
    /\ Gateway!NoCallRefused /\ Gateway!ExecutedAsCaller /\ Gateway!ChangesAreVerified

LEMMA AccessInitially == Gateway!Init => AccessInv
<1> SUFFICES ASSUME Gateway!Init PROVE AccessInv
  OBVIOUS
<1>1. \A c \in Inflight : conn[c] = Gateway!IdleConn
  BY DEF Gateway!Init
<1>2. \A c \in Inflight : RequestInv(conn[c])
  BY <1>1 DEF RequestInv
<1>3. \A c \in Inflight :
         conn[c] = [route |-> conn[c].route, user |-> conn[c].user, checked |-> conn[c].checked,
                    token |-> conn[c].token, todo |-> conn[c].todo]
  BY <1>1 DEF Gateway!IdleConn
<1>4. conn = [c \in Inflight |-> conn[c]]
  BY DEF Gateway!Init
<1>5. Gateway!NoCallRefused /\ Gateway!ExecutedAsCaller /\ Gateway!ChangesAreVerified
  BY DEF Gateway!Init, Gateway!NoCall, Gateway!None, Gateway!NoCallRefused,
     Gateway!ExecutedAsCaller, Gateway!ChangesAreVerified
<1> QED BY <1>2, <1>3, <1>4, <1>5 DEF AccessInv

\* A step of one request, which leaves the last answer alone.
LEMMA RequestMoves ==
    ASSUME AccessInv, NEW c \in Inflight, NEW route, NEW user, NEW checked, NEW token, NEW todo,
           conn' = [conn EXCEPT ![c] = [route |-> route, user |-> user, checked |-> checked,
                                        token |-> token, todo |-> todo]],
           RequestInv(conn'[c])
    PROVE  /\ conn' = [d \in Inflight |-> conn'[d]]
           /\ \A d \in Inflight : /\ conn'[d] = [route |-> conn'[d].route, user |-> conn'[d].user,
                                                 checked |-> conn'[d].checked,
                                                 token |-> conn'[d].token, todo |-> conn'[d].todo]
                                  /\ RequestInv(conn'[d])
<1>1. conn'[c] = [route |-> route, user |-> user, checked |-> checked, token |-> token, todo |-> todo]
  BY DEF AccessInv
<1>2. \A d \in Inflight : d # c => conn'[d] = conn[d]
  BY DEF AccessInv
<1>3. conn' = [d \in Inflight |-> conn'[d]]
  BY DEF AccessInv
<1> QED BY <1>1, <1>2, <1>3 DEF AccessInv

\* A request with another value of one field.
LEMMA OneFieldMoves ==
    ASSUME NEW route, NEW user, NEW checked, NEW token, NEW todo, NEW q, NEW new,
           q = [route |-> route, user |-> user, checked |-> checked, token |-> token, todo |-> todo]
    PROVE  /\ [q EXCEPT !.checked = new]
                 = [route |-> route, user |-> user, checked |-> new, token |-> token, todo |-> todo]
           /\ [q EXCEPT !.token = new]
                 = [route |-> route, user |-> user, checked |-> checked, token |-> new, todo |-> todo]
           /\ [q EXCEPT !.todo = new]
                 = [route |-> route, user |-> user, checked |-> checked, token |-> token, todo |-> new]
OBVIOUS

LEMMA AccessStep == AccessInv /\ [Gateway!Next]_<<conn, answered>> => AccessInv'
<1> SUFFICES ASSUME AccessInv, [Gateway!Next]_<<conn, answered>> PROVE AccessInv'
  OBVIOUS
<1> USE DEF Gateway!None
<1>1. ASSUME NEW c \in Inflight, NEW route, NEW user, NEW checked, NEW token, NEW todo,
             conn' = [conn EXCEPT ![c] = [route |-> route, user |-> user, checked |-> checked,
                                          token |-> token, todo |-> todo]],
             RequestInv([route |-> route, user |-> user, checked |-> checked,
                         token |-> token, todo |-> todo]),
             answered' = answered
      PROVE  AccessInv'
  <2>1. conn'[c] = [route |-> route, user |-> user, checked |-> checked, token |-> token, todo |-> todo]
    BY <1>1 DEF AccessInv
  <2> QED BY <1>1, <2>1, RequestMoves DEF AccessInv, Gateway!NoCallRefused, Gateway!ExecutedAsCaller,
          Gateway!ChangesAreVerified
<1>2. ASSUME NEW c \in Inflight
      PROVE  /\ conn[c] = [route |-> conn[c].route, user |-> conn[c].user, checked |-> conn[c].checked,
                           token |-> conn[c].token, todo |-> conn[c].todo]
             /\ RequestInv(conn[c])
  BY DEF AccessInv
<1>3. \A c \in Inflight : Gateway!Busy(c) => conn[c] # Gateway!IdleConn
  BY DEF Gateway!Busy, Gateway!IdleConn
<1>4. ASSUME NEW c \in Inflight, Gateway!Reject(c) PROVE AccessInv'
  <2>1. conn' = [conn EXCEPT ![c] = [route |-> "none", user |-> "none", checked |-> {},
                                     token |-> Gateway!NoToken, todo |-> <<>>]]
        /\ answered' = answered
    BY <1>4 DEF Gateway!Reject, Gateway!IdleConn
  <2>2. RequestInv([route |-> "none", user |-> "none", checked |-> {},
                    token |-> Gateway!NoToken, todo |-> <<>>])
    BY DEF RequestInv, Gateway!IdleConn
  <2> QED BY <1>1, <2>1, <2>2
<1>5. ASSUME NEW c \in Inflight, NEW r \in DOMAIN Gateway!Routes, NEW u \in Accounts,
             Gateway!Arrive(c, r, u)
      PROVE  AccessInv'
  <2>1. PICK run \in Gateway!Routes[r].runs :
           conn' = [conn EXCEPT ![c] = [route |-> r, user |-> u, checked |-> {},
                                        token |-> Gateway!NoToken, todo |-> run]]
    BY <1>5 DEF Gateway!Arrive, Gateway!IdleConn
  <2>2. RequestInv([route |-> r, user |-> u, checked |-> {}, token |-> Gateway!NoToken, todo |-> run])
    BY RouteOf DEF RequestInv, RouteFits
  <2> QED BY <1>1, <1>5, <2>1, <2>2 DEF Gateway!Arrive
<1>6. ASSUME NEW c \in Inflight, NEW checked, Gateway!Busy(c), answered' = answered,
             conn' = [conn EXCEPT ![c] = [conn[c] EXCEPT !.checked = checked]]
      PROVE  AccessInv'
  <2>1. PICK route, user, before, token, todo :
           /\ route = conn[c].route /\ user = conn[c].user /\ token = conn[c].token
           /\ todo = conn[c].todo /\ before = conn[c].checked
    OBVIOUS
  <2>2. conn[c] = [route |-> route, user |-> user, checked |-> before, token |-> token, todo |-> todo]
    BY <1>2, <2>1
  <2>3. [conn[c] EXCEPT !.checked = checked]
           = [route |-> route, user |-> user, checked |-> checked, token |-> token, todo |-> todo]
    BY <2>2, OneFieldMoves
  <2>4. RequestInv([route |-> route, user |-> user, checked |-> checked, token |-> token, todo |-> todo])
    BY <1>2, <1>3, <1>6, <2>1 DEF RequestInv
  <2> QED BY <1>1, <1>6, <2>3, <2>4
<1>7. ASSUME NEW c \in Inflight, Gateway!withVerifyCSRFMiddleware(c) PROVE AccessInv'
  <2>1. CASE conn' = [conn EXCEPT ![c].checked = {"csrf"}] /\ answered' = answered
    BY <1>6, <1>7, <2>1 DEF Gateway!withVerifyCSRFMiddleware
  <2> QED BY <1>4, <1>7, <2>1 DEF Gateway!withVerifyCSRFMiddleware
<1>8. ASSUME NEW c \in Inflight, Gateway!withVerifySessionMiddleware(c) PROVE AccessInv'
  <2>1. CASE conn' = [conn EXCEPT ![c].checked = @ \cup {"session"}] /\ answered' = answered
    <3>1. PICK checked : checked = conn[c].checked \cup {"session"}
      OBVIOUS
    <3> QED BY <1>6, <1>8, <2>1, <3>1 DEF Gateway!withVerifySessionMiddleware
  <2> QED BY <1>4, <1>8, <2>1 DEF Gateway!withVerifySessionMiddleware
<1>9. ASSUME NEW c \in Inflight,
             Gateway!withAttachAuthorizationTokenInMetadataHeaderMiddleware(c)
      PROVE  AccessInv'
  <2>1. PICK route, user, checked, todo, before, token :
           /\ route = conn[c].route /\ user = conn[c].user /\ checked = conn[c].checked
           /\ todo = conn[c].todo /\ before = conn[c].token
           /\ token = [role |-> "user", sub |-> conn[c].user, aud |-> {Gateway!Routes[conn[c].route].aud}]
    OBVIOUS
  <2>2. conn' = [conn EXCEPT ![c] = [conn[c] EXCEPT !.token = token]] /\ answered' = answered
        /\ Gateway!Busy(c) /\ Gateway!Routes[route].aud # "none"
    BY <1>9, <2>1 DEF Gateway!withAttachAuthorizationTokenInMetadataHeaderMiddleware
  <2>3. conn[c] = [route |-> route, user |-> user, checked |-> checked, token |-> before, todo |-> todo]
    BY <1>2, <2>1
  <2>4. [conn[c] EXCEPT !.token = token]
           = [route |-> route, user |-> user, checked |-> checked, token |-> token, todo |-> todo]
    BY <2>3, OneFieldMoves
  <2>5. RequestInv([route |-> route, user |-> user, checked |-> checked, token |-> token, todo |-> todo])
    BY <1>2, <1>3, <2>1, <2>2 DEF RequestInv
  <2> QED BY <1>1, <2>2, <2>4, <2>5
<1>10. ASSUME NEW c \in Inflight, Gateway!Call(c) PROVE AccessInv'
  <2>1. PICK route, user, checked, todo, token :
           /\ route = conn[c].route /\ user = conn[c].user /\ checked = conn[c].checked
           /\ todo = conn[c].todo /\ token = conn[c].token
    OBVIOUS
  <2>2. PICK r : r = Gateway!Routes[route]
    OBVIOUS
  <2>3. /\ Gateway!Busy(c) /\ todo # <<>>
        /\ r.csrf => "csrf" \in checked
        /\ r.aud # "none" => token # Gateway!NoToken
    BY <1>10, <2>1, <2>2 DEF Gateway!Call, Gateway!Ready
  <2>4. /\ route \in DOMAIN Gateway!Routes
        /\ \E methods : todo \in Seq(methods)
        /\ \A i \in 1 .. Len(todo) : MayCall(r.csrf, r.aud, todo[i])
        /\ token # Gateway!NoToken => /\ r.aud # "none"
                                     /\ token = [role |-> "user", sub |-> user, aud |-> {r.aud}]
    BY <1>2, <1>3, <2>1, <2>2, <2>3 DEF RequestInv
  <2>5. PICK method : method = Head(todo)
    OBVIOUS
  <2>6. PICK methods : todo \in Seq(methods)
    BY <2>4
  <2>7. /\ method = todo[1] /\ 1 \in 1 .. Len(todo) /\ Tail(todo) \in Seq(methods)
        /\ \A i \in 1 .. Len(Tail(todo)) : Tail(todo)[i] = todo[i + 1] /\ i + 1 \in 1 .. Len(todo)
    BY <2>3, <2>5, <2>6, HeadTailProperties, LenProperties, EmptySeq
  <2>8. MayCall(r.csrf, r.aud, method)
    BY <2>4, <2>7
  <2>9. Gateway!Answer(token, method, user, "csrf" \in checked)
    BY <1>10, <2>1, <2>5 DEF Gateway!Call
  <2>10. /\ ~Gateway!isInternalAPI(method)
         /\ Gateway!isAuthRequired(method) =>
               /\ Gateway!Server(method) \in token.aud /\ token.role = "user" /\ token.sub = user
         /\ method \in Gateway!ChangesState => "csrf" \in checked
    BY <2>3, <2>4, <2>8 DEF MayCall
  <2>11. /\ answered'.method = method /\ answered'.by = user
         /\ answered'.csrf = ("csrf" \in checked) /\ answered'.code = "OK"
         /\ Gateway!isAuthRequired(method) => answered'.role = token.role /\ answered'.sub = token.sub
    BY <2>9, <2>10, AnswerAdmits
  <2>12. (Gateway!NoCallRefused /\ Gateway!ExecutedAsCaller /\ Gateway!ChangesAreVerified)'
    BY <2>10, <2>11 DEF Gateway!NoCallRefused, Gateway!ExecutedAsCaller, Gateway!ChangesAreVerified
  <2>13. PICK rest : rest = Tail(todo)
    OBVIOUS
  <2>14. conn' = [conn EXCEPT ![c] = [conn[c] EXCEPT !.todo = rest]]
    BY <1>10, <2>1, <2>11, <2>13 DEF Gateway!Call
  <2>15. conn[c] = [route |-> route, user |-> user, checked |-> checked, token |-> token, todo |-> todo]
    BY <1>2, <2>1
  <2>16. [conn[c] EXCEPT !.todo = rest]
            = [route |-> route, user |-> user, checked |-> checked, token |-> token, todo |-> rest]
    BY <2>15, OneFieldMoves
  <2>17. RequestInv([route |-> route, user |-> user, checked |-> checked, token |-> token, todo |-> rest])
    BY <2>2, <2>4, <2>7, <2>13 DEF RequestInv
  <2>18. conn'[c] = [route |-> route, user |-> user, checked |-> checked, token |-> token, todo |-> rest]
    BY <2>14, <2>16 DEF AccessInv
  <2> QED BY <2>12, <2>14, <2>16, <2>17, <2>18, RequestMoves DEF AccessInv
<1>11. ASSUME NEW c \in Inflight, Gateway!Respond(c) PROVE AccessInv'
  BY <1>4, <1>11 DEF Gateway!Respond
<1>12. CASE Gateway!InternalCall
  <2>1. PICK i \in Gateway!Internal :
           \E method \in i.calls :
              /\ Gateway!Answer([role |-> "admin", sub |-> "internal", aud |-> i.aud],
                                method, "internal", FALSE)
              /\ conn' = conn
    BY <1>12 DEF Gateway!InternalCall, Gateway!WithInternalServiceAuthorization
  <2>2. PICK method \in i.calls :
           /\ Gateway!Answer([role |-> "admin", sub |-> "internal", aud |-> i.aud],
                             method, "internal", FALSE)
           /\ conn' = conn
    BY <2>1
  <2>3. PICK token : token = [role |-> "admin", sub |-> "internal", aud |-> i.aud]
    OBVIOUS
  <2>4. Gateway!Server(method) \in token.aud /\ token.role = "admin" /\ Gateway!isAuthRequired(method)
    BY <2>3, InternalFits
  <2>5. answered'.by = "internal" /\ answered'.code = "OK"
    BY <2>2, <2>3, <2>4, AnswerAdmits
  <2> QED BY <2>2, <2>5 DEF AccessInv, Gateway!NoCallRefused, Gateway!ExecutedAsCaller,
          Gateway!ChangesAreVerified
<1>13. CASE UNCHANGED <<conn, answered>>
  BY <1>13 DEF AccessInv, Gateway!NoCallRefused, Gateway!ExecutedAsCaller, Gateway!ChangesAreVerified
<1> QED BY <1>5, <1>7, <1>8, <1>9, <1>10, <1>11, <1>12, <1>13 DEF Gateway!Next
=============================================================================

------------------------------ MODULE Listing -------------------------------
(***************************************************************************)
(* The lists of jobs, workflows and notifications: clients, and the        *)
(* worker's own sweeps over a workflow's jobs, page through a table that   *)
(* other requests change between two pages.                                *)
(***************************************************************************)
EXTENDS Paging

CONSTANT Readers

VARIABLES
    table,    \* committed rows that match the filters of the list
    reading,  \* whether a reader is between its first and its last page
    cursor,   \* the cursor of its next page
    got,      \* the rows it was given before the last page
    last,     \* the last page it was given
    stable    \* the rows that matched from its start on

vars == <<table, reading, cursor, got, last, stable>>

Init ==
    /\ table \in SUBSET Rows
    /\ reading = [c \in Readers |-> FALSE]
    /\ cursor = [c \in Readers |-> NoCursor]
    /\ got = [c \in Readers |-> {}]
    /\ last = [c \in Readers |-> {}]
    /\ stable = [c \in Readers |-> {}]

\* A row is committed, or comes to match the filters.
Appear(r) ==
    /\ r \notin table
    /\ table' = table \cup {r}
    /\ UNCHANGED <<reading, cursor, got, last, stable>>

\* A row is deleted, marked read, or its status leaves the filter.
Disappear(r) ==
    /\ r \in table
    /\ table' = table \ {r}
    /\ stable' = [c \in Readers |-> stable[c] \ {r}]
    /\ UNCHANGED <<reading, cursor, got, last>>

\* A client asks for the first page.
Start(c) ==
    /\ ~reading[c]
    /\ reading' = [reading EXCEPT ![c] = TRUE]
    /\ cursor' = [cursor EXCEPT ![c] = NoCursor]
    /\ got' = [got EXCEPT ![c] = {}]
    /\ last' = [last EXCEPT ![c] = {}]
    /\ stable' = [stable EXCEPT ![c] = table]
    /\ UNCHANGED table

\* ListJobs, ListWorkflows and ListNotifications: one page.  A query that
\* fails leaves the cursor with the client, who may ask again.
List(c) ==
    /\ reading[c]
    /\ LET selected == FromCursor(table, cursor[c]) IN
       \E page \in SUBSET selected, next \in Rows \cup {NoCursor} :
          /\ IsPage(page, selected) /\ IsNextCursor(next, page, selected)
          /\ got' = [got EXCEPT ![c] = @ \cup last[c]]
          /\ last' = [last EXCEPT ![c] = page]
          /\ cursor' = [cursor EXCEPT ![c] = next]
          /\ reading' = [reading EXCEPT ![c] = page # selected]
    /\ UNCHANGED <<table, stable>>

Next ==
    \/ \E r \in Rows : Appear(r) \/ Disappear(r)
    \/ \E c \in Readers : Start(c) \/ List(c)

Spec == Init /\ [][Next]_vars

-----------------------------------------------------------------------------
\* Type invariant; a page never exceeds the limit.
TypeOK ==
    /\ table \subseteq Rows
    /\ reading \in [Readers -> BOOLEAN]
    /\ cursor \in [Readers -> Rows \cup {NoCursor}]
    /\ got \in [Readers -> SUBSET Rows]
    /\ last \in [Readers -> SUBSET Rows]
    /\ stable \in [Readers -> SUBSET Rows]
    /\ \A c \in Readers : Cardinality(last[c]) <= Limit

Given(c) == got[c] \cup last[c]

\* The rows behind the cursor have been given, if they were there all along,
\* and everything given is behind the cursor.
BehindCursor ==
    \A c \in Readers :
        /\ stable[c] \subseteq table
        /\ reading[c] /\ cursor[c] = NoCursor => Given(c) = {}
        /\ cursor[c] # NoCursor =>
              /\ reading[c]
              /\ \A r \in stable[c] : Before(r, cursor[c]) => r \in Given(c)
              /\ \A g \in Given(c) : Before(g, cursor[c])

\* ListJobs, ListWorkflows, ListNotifications: a reader that went through all
\* pages was given every row that matched from its first page to its last.
\* The termination sweep relies on it to reach every job it lists.
NothingSkipped ==
    \A c \in Readers : ~reading[c] => stable[c] \subseteq Given(c)

\* The rows of a page come after all rows given before: no row is given
\* twice and the list is in order, whatever was inserted or removed between.
PagesAdvance ==
    \A c \in Readers : \A g \in got[c], r \in last[c] : Before(g, r)
=============================================================================

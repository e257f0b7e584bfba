------------------------------- MODULE Paging -------------------------------
(***************************************************************************)
(* Keyset pagination, as every list and log endpoint does it: a query      *)
(* fetches Limit + 1 rows in a total order from the cursor on, returns the *)
(* first Limit of them, and the cursor of the next page is the first row   *)
(* that was not returned.  Before is that order: (created_at, id) downward *)
(* for the lists, (sequence_num, stream, event_id) for the logs.           *)
(***************************************************************************)
EXTENDS Naturals, FiniteSets

CONSTANTS
    Rows,             \* rows the table may hold
    Before(_, _),     \* the order of the query
    Limit,            \* FetchLimit, LogsFetchLimit
    NoCursor          \* the empty cursor

ASSUME BeforeAssumption ==
    /\ \A a, b \in Rows : Before(a, b) \in BOOLEAN
    /\ \A a \in Rows : ~Before(a, a)
    /\ \A a, b \in Rows : a = b \/ Before(a, b) \/ Before(b, a)
    /\ \A a, b, c \in Rows : Before(a, b) /\ Before(b, c) => Before(a, c)

ASSUME PagingAssumption == Limit \in Nat \ {0} /\ NoCursor \notin Rows

\* The rows a query with cursor c selects: the cursor is inclusive.
FromCursorFaulty(table, c) ==
    IF c = NoCursor THEN table ELSE {r \in table : Before(c, r)}
FromCursor(table, c) ==
    IF c = NoCursor THEN table ELSE {r \in table : r = c \/ Before(c, r)}

IsPageFaulty(page, selected) ==
    /\ page \subseteq selected
    /\ \A p \in page, r \in selected \ page : Before(p, r)
    /\ Cardinality(page) = Limit + 1 \/ page = selected

\* Trim: page is the first Limit of the selected rows, or all of them.
IsPage(page, selected) ==
    /\ page \subseteq selected
    /\ \A p \in page, r \in selected \ page : Before(p, r)
    /\ IF page = selected THEN Cardinality(page) <= Limit
                          ELSE Cardinality(page) = Limit

\* TrimWithCursor: c is the first row not returned, or no cursor.
IsNextCursorFaulty(c, page, selected) ==
    IF page = selected THEN c = NoCursor
    ELSE c \in page /\ \A q \in page : q = c \/ Before(q, c)
IsNextCursor(c, page, selected) ==
    IF page = selected THEN c = NoCursor
    ELSE c \in selected \ page /\ \A q \in selected \ page : q = c \/ Before(c, q)
=============================================================================

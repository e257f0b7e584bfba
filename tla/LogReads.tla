------------------------------ MODULE LogReads ------------------------------
(***************************************************************************)
(* Reading the retained logs of one job while they still arrive: pages of  *)
(* GetJobLogs (ClickHouse) and SearchJobLogs (Meilisearch), their cache in *)
(* Redis, of which the browser keeps a part, and the download, which walks *)
(* all pages.                                                              *)
(*                                                                         *)
(* A row is [seq, attempt] of one stream.  Rows are ordered by sequence    *)
(* number, in the direction of the reader, then by event id: the event     *)
(* ids of later attempts ("log:j:attempt:2:...") sort before those of the  *)
(* first ("log:j:stdout:...").  Each attempt numbers its lines from 0, so  *)
(* those of a retry are stored in between the earlier ones.                *)
(***************************************************************************)
EXTENDS Paging, Sequences

CONSTANTS
    Arrivals,    \* the rows in the order in which they are stored
    Readers,
    Searchers,   \* the readers that search; the others list
    Downloads    \* the readers that download the whole log

LogReadsAssumption ==
    /\ Arrivals \in Seq(Rows)
    /\ \A i, j \in DOMAIN Arrivals : i # j => Arrivals[i] # Arrivals[j]
    /\ Searchers \subseteq Readers /\ Downloads \subseteq Readers

VARIABLES
    rows,     \* the rows stored in ClickHouse
    indexed,  \* the rows Meilisearch finds
    job,      \* "RUNNING", "DONE", or "SETTLED" once the buffer has passed
    cache,    \* cached pages, by endpoint and request cursor
    sets,     \* pages on their way into the cache
    reader,   \* the state of each reader
    untimely  \* history: the rows stored in between others, or late

readsVars == <<rows, indexed, job, cache, sets, reader, untimely>>

Endpoints == {"get", "search"}
Endpoint(c) == IF c \in Searchers THEN "search" ELSE "get"
Store(e) == IF e = "search" THEN indexed ELSE rows

\* table is the one a page was read from.
NoPage == [page |-> {}, next |-> NoCursor, table |-> {}, cached |-> FALSE]
\* The answers of a request's two concurrent queries.
NoAnswer == [logs |-> FALSE, table |-> {}, status |-> "none"]
\* A reader is owed what it would have found at its start; behind is what it is owed
\* and a cached page was read too early for.
IdleReader == [pc |-> "idle", cursor |-> NoCursor, got |-> {}, owed |-> {}, behind |-> {},
               answer |-> NoAnswer]

ReadsInit ==
    /\ rows = {} /\ indexed = {} /\ job = "RUNNING"
    /\ cache = [k \in Endpoints \X Rows |-> NoPage]
    /\ sets = {}
    /\ reader = [c \in Readers |-> IdleReader]
    /\ untimely = {}

AllArrived(table) == Cardinality(table) = Len(Arrivals)

Between(x, table) == \E a, b \in table : Before(a, x) /\ Before(x, b)

\* The joblogs processor stores the next row, and Meilisearch's task makes it
\* searchable.  The topic may lag behind the job, whatever has become of it.
StoreRow ==
    /\ ~AllArrived(rows)
    /\ LET x == Arrivals[Cardinality(rows) + 1]
       IN  /\ rows' = rows \cup {x}
           /\ untimely' = IF Between(x, rows) THEN untimely \cup {x} ELSE untimely
    /\ UNCHANGED <<indexed, job, cache, sets, reader>>
IndexRow ==
    /\ indexed # rows
    /\ indexed' = indexed \cup {Arrivals[Cardinality(indexed) + 1]}
    /\ UNCHANGED <<rows, job, cache, sets, reader, untimely>>

\* The job completes; its logs may lag behind.
Complete ==
    /\ job = "RUNNING" /\ job' = "DONE"
    /\ UNCHANGED <<rows, indexed, cache, sets, reader, untimely>>

\* jobStatusUpdateBuffer after its completion the reads no longer report the
\* job as RUNNING, wherever its logs are by now.
BufferPasses ==
    /\ job = "DONE" /\ job' = "SETTLED"
    /\ untimely' = untimely \cup
           {x \in Rows : x \notin indexed \/ \E c \in Readers :
                             reader[c].answer.logs /\ x \notin reader[c].answer.table}
    /\ UNCHANGED <<rows, indexed, cache, sets, reader>>

\* ensureJobLogsDownloadReady: a download needs a job in a terminal status,
\* which GetJob reports without the buffer.
DownloadReady == job # "RUNNING"

\* A reader opens the logs at their first page.
Open(c) ==
    /\ c \in Downloads => DownloadReady
    /\ reader[c].pc \in {"idle", "end"}
    /\ reader' = [reader EXCEPT ![c] =
            [IdleReader EXCEPT !.pc = "read", !.owed = Store(Endpoint(c))]]
    /\ UNCHANGED <<rows, indexed, job, cache, sets, untimely>>

\* Only a page asked for with a cursor is cached, and only when another page
\* follows or the job is over.
Cacheable(c, next, status) == c # NoCursor /\ (next # NoCursor \/ status = "terminal")

\* The client takes the page, which was read from table, and follows its cursor
\* until there is none.
Deliver(c, page, next, table) ==
    reader' = [reader EXCEPT ![c] =
        [pc |-> IF next = NoCursor THEN "end" ELSE "read", cursor |-> next,
         got |-> @.got \cup page, owed |-> @.owed,
         behind |-> @.behind \cup (@.owed \ table), answer |-> NoAnswer]]

CachedPage(c) == cache[<<Endpoint(c), reader[c].cursor>>]
Hit(c) == reader[c].cursor # NoCursor /\ CachedPage(c).cached

\* GetJobLogs and SearchJobLogs of the service: the page from the cache,
ReadCached(c) ==
    /\ reader[c].pc = "read" /\ Hit(c)
    /\ LET p == CachedPage(c) IN Deliver(c, p.page, p.next, p.table)
    /\ UNCHANGED <<rows, indexed, job, cache, sets, untimely>>

\* or from the repository, which runs two queries at a time:
Miss(c) ==
    /\ reader[c].pc = "read" /\ ~Hit(c)
    /\ reader' = [reader EXCEPT ![c].pc = "fetch"]
    /\ UNCHANGED <<rows, indexed, job, cache, sets, untimely>>

\* the one for the logs,
QueryLogs(c, e) ==
    /\ reader[c].pc = "fetch" /\ ~reader[c].answer.logs
    /\ reader' = [reader EXCEPT ![c].answer.logs = TRUE, ![c].answer.table = Store(e)]
    /\ UNCHANGED <<rows, indexed, job, cache, sets, untimely>>
GetJobLogs(c) == c \notin Searchers /\ QueryLogs(c, "get")
SearchJobLogs(c) == c \in Searchers /\ QueryLogs(c, "search")

\* and the one for the status, RUNNING within the buffer.
QueryStatus(c) ==
    /\ reader[c].pc = "fetch" /\ reader[c].answer.status = "none"
    /\ reader' = [reader EXCEPT ![c].answer.status =
            IF job = "SETTLED" THEN "terminal" ELSE "running"]
    /\ UNCHANGED <<rows, indexed, job, cache, sets, untimely>>

\* Both answered: the page goes to the reader, and a goroutine may cache it.
Respond(c) ==
    LET a == reader[c].answer
        k == reader[c].cursor
        selected == FromCursor(a.table, k) IN
    /\ a.logs /\ a.status # "none"
    /\ \E page \in SUBSET selected, next \in Rows \cup {NoCursor} :
          /\ IsPage(page, selected) /\ IsNextCursor(next, page, selected)
          /\ Deliver(c, page, next, a.table)
          /\ sets' = IF Cacheable(k, next, a.status)
                     THEN sets \cup {[key |-> <<Endpoint(c), k>>, page |-> page, next |-> next,
                                      table |-> a.table]}
                     ELSE sets
    /\ UNCHANGED <<rows, indexed, job, cache, untimely>>

\* A query fails: the client gives up, a download ends with an error.
Fail(c) ==
    /\ reader[c].pc = "fetch"
    /\ reader' = [reader EXCEPT ![c] = IdleReader]
    /\ UNCHANGED <<rows, indexed, job, cache, sets, untimely>>

\* The goroutine's Set takes effect, or fails.
SetPage(s) ==
    /\ sets' = sets \ {s}
    /\ \/ cache' = [cache EXCEPT ![s.key] =
                [page |-> s.page, next |-> s.next, table |-> s.table, cached |-> TRUE]]
       \/ UNCHANGED cache
    /\ UNCHANGED <<rows, indexed, job, reader, untimely>>

Expire(k) ==
    /\ cache[k].cached /\ cache' = [cache EXCEPT ![k] = NoPage]
    /\ UNCHANGED <<rows, indexed, job, sets, reader, untimely>>

ReadsNext ==
    \/ StoreRow \/ IndexRow \/ Complete \/ BufferPasses
    \/ \E c \in Readers : \/ Open(c) \/ ReadCached(c) \/ Miss(c) \/ GetJobLogs(c)
                          \/ SearchJobLogs(c) \/ QueryStatus(c) \/ Respond(c) \/ Fail(c)
    \/ \E s \in sets : SetPage(s)
    \/ \E k \in Endpoints \X Rows : Expire(k)

ReadsSpec == ReadsInit /\ [][ReadsNext]_readsVars

-----------------------------------------------------------------------------
Pages == [page : SUBSET Rows, next : Rows \cup {NoCursor}, table : SUBSET Rows, cached : BOOLEAN]

\* Type invariant; the page without a successor is never on its way into the
\* cache while the logs of the job may still arrive.
ReadsTypeOK ==
    /\ rows \subseteq Rows /\ indexed \subseteq rows /\ job \in {"RUNNING", "DONE", "SETTLED"}
    /\ cache \in [Endpoints \X Rows -> Pages]
    /\ \A s \in sets : s.key \in Endpoints \X Rows /\ s.page \subseteq Rows
                       /\ (s.next = NoCursor => job = "SETTLED")
    /\ \A c \in Readers : reader[c].pc \in {"idle", "read", "fetch", "end"}
                          /\ reader[c].got \subseteq Rows /\ reader[c].answer.table \subseteq Rows

\* service/jobs, GetJobLogs ("Cache only stable cursor pages"): a reader that
\* reached the last page has seen every row stored before it started, from the
\* cache or not.  The pages are not as stable as that: what it has missed are rows
\* that a cached page was read too early for, and no others than the ones that were
\* stored in between earlier rows, as those of a retry are, or after their job was
\* taken to be over.  A row stored in order and in time is never missed.
ReaderSeesStoredRows ==
    /\ ReadsTypeOK
    /\ \A c \in Readers : reader[c].pc = "end" =>
          reader[c].owed \ reader[c].got \subseteq reader[c].behind \cap untimely
=============================================================================

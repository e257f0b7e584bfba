---------------------------- MODULE CommandLedger ----------------------------
(***************************************************************************)
(* The command ledger (commandidempotency.Reserve, SyncLegacyIdentities,   *)
(* Complete) together with the transactions that run a command under it:   *)
(* one transaction reserves the key, carries out the command, completes    *)
(* the reservation and commits.  Kind says which command:                  *)
(*                                                                         *)
(*   "create"        a workflow, "update" a workflow's fields;             *)
(*   "manual"        a manual job;                                         *)
(*   "automatic"     an automatic job, whose row keeps its key for good;   *)
(*   "notification"  a notification, whose row keeps its key for good;     *)
(*   "register"      a user: the class of the command is the email, its    *)
(*                   text the password, which the request hash leaves out; *)
(*   "cancel"        a job's cancellation, answered with the job's state   *)
(*                   before it.                                            *)
(*                                                                         *)
(* A call is one handler in one service process.  Several calls carry the  *)
(* same command: the gRPC client retries, Kafka redelivers, the dashboard  *)
(* resends, and an attempt whose caller has given up may still be running. *)
(* A call can fail at any point of its transaction, and so can the report  *)
(* of its commit and its reply.                                            *)
(*                                                                         *)
(* PostgreSQL at READ COMMITTED: the INSERT ... ON CONFLICT DO UPDATE of   *)
(* Reserve waits for a transaction that has written or locked the key's    *)
(* row, and holds the row until its own transaction ends, also when its    *)
(* WHERE clause leaves the row as it is.  Writes become visible at commit. *)
(***************************************************************************)
EXTENDS Naturals, Sequences, FiniteSets

CONSTANTS
    Kind,       \* which command
    Calls,      \* the handlers that may run
    Keys,       \* normalized idempotency keys, of one scope and operation
    Commands,   \* the commands that are sent: see CommandType
    Migrated,   \* the command of a row migration 11 carried over, or None
    Retention,  \* how long a completed row answers for its command
    MaxTime,    \* bound on the clock
    MaxFaults,  \* bound on failures, lost reports and lost replies
    None

(***************************************************************************)
(* A command: its key and how the caller spelled it, the class of its      *)
(* content (equal canonical JSON), the text the class is written in, and   *)
(* whether its UUIDs are spelled canonically.                              *)
(***************************************************************************)
CommandType == [key: Keys, spelling: {"plain", "padded", "invalid"},
                class: Nat, text: Nat, path: {"canonical", "raw"}]

VARIABLES
    ledger,      \* committed rows of command_idempotency_keys, by key
    identities,  \* committed rows of command_idempotency_legacy_identities
    lock,        \* the call whose transaction holds the key's row, or None
    call,        \* the calls
    rows,        \* the resources the commands made, in commit order
    job,         \* status of the job a "cancel" is about
    now, faults

vars == <<ledger, identities, lock, call, rows, job, now, faults>>

-----------------------------------------------------------------------------
(* Identity of a command.                                                  *)

\* A workflow's command is also known by the hash older binaries computed,
\* over the text as written.
Workflow == Kind \in {"create", "update"}

\* The job row or notification row keeps the key for good.
KeepsKey == Kind \in {"automatic", "notification"}

RequestHash(cmd) == [of |-> "canonical", class |-> cmd.class, text |-> 0, path |-> "canonical"]

LegacyHash(cmd, path) == [of |-> "legacy", class |-> cmd.class, text |-> cmd.text, path |-> path]

CompatibleHashes(cmd) ==
    IF Workflow THEN {LegacyHash(cmd, "canonical"), LegacyHash(cmd, cmd.path)} ELSE {}

\* The operations the command had before the ledger: an update's names the
\* workflow as the caller spelled it.
LegacyOperations(cmd) ==
    IF Kind = "update" THEN {"canonical", cmd.path} ELSE {"canonical"}

requestHashMatches(row, cmd) ==
    (row.aliases \cup {row.hash}) \cap (CompatibleHashes(cmd) \cup {RequestHash(cmd)}) # {}

\* Refused before any row is read: a key that is blank, too long or has
\* control characters, and a payload that is not a JSON object.
Valid(cmd) == cmd.spelling # "invalid"

NoIdentity == [path \in {"canonical", "raw"} |-> None]

-----------------------------------------------------------------------------
Paths == {"canonical", "raw"}

Hashes == [of: {"canonical", "legacy"}, class: Nat, text: Nat, path: Paths]

RowType == [hash: Hashes, aliases: SUBSET Hashes, status: {"PROCESSING", "COMPLETED"},
            resource: Nat \cup {None}, expires: Nat \cup {None}]

ResourceType == [key: Keys, spelling: {"plain", "padded"}, class: Nat, text: Nat,
                 before: {"PENDING", "RUNNING", "COMPLETED", "CANCELED"}, at: Nat]

IdentityType == [Paths -> Hashes \cup {None}]

AnswerType == [outcome: {"ok", "conflict", "aborted", "invalid", "error"},
               resource: Nat \cup {None}]

CallType == [pc: {"idle", "reserve", "execute", "commit", "done"}, cmd: Commands \cup {None},
             row: RowType \cup {None}, ids: IdentityType, new: ResourceType \cup {None},
             answer: AnswerType \cup {None}]

(***************************************************************************)
(* Migration 11 carried over only keys the older binaries had accepted, of *)
(* workflows, jobs and notifications.  The key of a cancellation is made   *)
(* from the job's ID, so that all cancellations of a job have one key.     *)
(***************************************************************************)
LedgerAssumption ==
    /\ Kind \in {"create", "update", "manual", "automatic", "notification",
                 "register", "cancel"}
    /\ Commands \subseteq CommandType
    /\ Migrated \in Commands \cup {None}
    /\ Migrated # None => Valid(Migrated) /\ Kind \notin {"register", "cancel"}
    /\ Kind = "cancel" => \A a, b \in Commands : a.key = b.key
    /\ Retention \in Nat \ {0} /\ MaxTime \in Nat /\ MaxFaults \in Nat
    /\ None \notin Calls /\ None \notin Commands /\ None \notin Nat
    /\ None \notin Hashes /\ None \notin RowType /\ None \notin ResourceType
    /\ None \notin AnswerType

-----------------------------------------------------------------------------
Idle == [pc |-> "idle", cmd |-> None, row |-> None, ids |-> NoIdentity,
         new |-> None, answer |-> None]

Row(hash, aliases, resource, expires) ==
    [hash |-> hash, aliases |-> aliases, status |-> "COMPLETED",
     resource |-> resource, expires |-> expires]

Processing(cmd) ==
    [hash |-> RequestHash(cmd), aliases |-> CompatibleHashes(cmd),
     status |-> "PROCESSING", resource |-> None, expires |-> None]

Resource(cmd, before) ==
    [key |-> cmd.key, spelling |-> cmd.spelling, class |-> cmd.class,
     text |-> cmd.text, before |-> before, at |-> now]

\* What migration 11 leaves of an earlier command: a resource, and for a
\* workflow or a manual job a completed row.  A key-keeping row has none.
HasMigratedRow(k) ==
    /\ Migrated # None
    /\ Migrated.key = k
    /\ Workflow \/ Kind = "manual"

Init ==
    /\ now = 0
    /\ rows = IF Migrated = None THEN <<>> ELSE <<Resource(Migrated, "PENDING")>>
    /\ ledger = [k \in Keys |->
                   IF ~HasMigratedRow(k) THEN None
                   ELSE IF Workflow
                        THEN Row(LegacyHash(Migrated, "canonical"), CompatibleHashes(Migrated), 1, Retention)
                        ELSE Row(RequestHash(Migrated), {}, 1, Retention)]
    /\ identities = [k \in Keys |->
                       [p \in {"canonical", "raw"} |->
                          IF /\ HasMigratedRow(k)
                             /\ Workflow
                             /\ p \in LegacyOperations(Migrated)
                          THEN LegacyHash(Migrated, p) ELSE None]]
    /\ lock = [k \in Keys |-> None]
    /\ call = [c \in Calls |-> Idle]
    /\ job = "PENDING"
    /\ faults = 0

-----------------------------------------------------------------------------
Key(c) == call[c].cmd.key

\* The call has its answer; its transaction is over.
Answered(c, answer) ==
    call' = [call EXCEPT ![c] = [Idle EXCEPT !.pc = "done", !.cmd = call[c].cmd, !.answer = answer]]

Answer(outcome, resource) == [outcome |-> outcome, resource |-> resource]

Unlock(k) == lock' = [lock EXCEPT ![k] = None]

Send(c, cmd) ==
    /\ call[c].pc = "idle"
    /\ call' = [call EXCEPT ![c] =
                  IF Valid(cmd) THEN [Idle EXCEPT !.pc = "reserve", !.cmd = cmd]
                  ELSE [Idle EXCEPT !.pc = "done", !.cmd = cmd, !.answer = Answer("invalid", None)]]
    /\ UNCHANGED <<ledger, identities, lock, rows, job, now, faults>>

SyncLegacyIdentitiesFaulty(cmd, fresh) ==
    [p \in {"canonical", "raw"} |->
       IF identities[cmd.key][p] = None /\ p \in LegacyOperations(cmd)
       THEN LegacyHash(cmd, p) ELSE identities[cmd.key][p]]

\* SyncLegacyIdentities.  A fresh reservation drops what an expired key left;
\* an identity already there is kept as it is.
SyncLegacyIdentities(cmd, fresh) ==
    [p \in {"canonical", "raw"} |->
       IF fresh \/ identities[cmd.key][p] = None
       THEN IF p \in LegacyOperations(cmd) THEN LegacyHash(cmd, p) ELSE None
       ELSE identities[cmd.key][p]]

SyncedIdentities(cmd, fresh) ==
    IF Workflow THEN SyncLegacyIdentities(cmd, fresh) ELSE NoIdentity

FreshFaulty(row) == row # None => row.expires # None /\ row.expires <= now + 1

\* The insert takes the key: there is no row, or its retention is over.
Fresh(row) == row # None => row.expires # None /\ row.expires <= now

CredentialsMatchFaulty(cmd, row) == TRUE

\* RegisterUser compares the password when it replays.
CredentialsMatch(cmd, row) == Kind = "register" => rows[row.resource].text = cmd.text

Reserve(c) ==
    LET cmd == call[c].cmd
        k == cmd.key
        row == ledger[k]
    IN  /\ call[c].pc = "reserve"
        /\ lock[k] = None
        /\ \/ /\ Fresh(row)
              /\ lock' = [lock EXCEPT ![k] = c]
              /\ call' = [call EXCEPT ![c] = [@ EXCEPT !.pc = "execute", !.row = Processing(cmd),
                                                       !.ids = SyncedIdentities(cmd, TRUE)]]
           \/ /\ ~Fresh(row)
              /\ ~requestHashMatches(row, cmd)
              /\ Answered(c, Answer("conflict", None))
              /\ UNCHANGED lock
           \/ /\ ~Fresh(row)
              /\ requestHashMatches(row, cmd)
              /\ IF row.status # "COMPLETED"
                 THEN Answered(c, Answer("aborted", None)) /\ UNCHANGED lock
                 ELSE IF ~CredentialsMatch(cmd, row)
                 THEN Answered(c, Answer("conflict", None)) /\ UNCHANGED lock
                 ELSE /\ lock' = [lock EXCEPT ![k] = c]
                      /\ call' = [call EXCEPT ![c] = [@ EXCEPT !.pc = "commit", !.row = row,
                                                               !.ids = SyncedIdentities(cmd, FALSE)]]
        /\ UNCHANGED <<ledger, identities, rows, job, now, faults>>

-----------------------------------------------------------------------------
(* The command itself, in the transaction that holds the key.              *)

KeptRowsFaulty(k) ==
    IF KeepsKey THEN {i \in DOMAIN rows : rows[i].key = k /\ rows[i].spelling = "plain"} ELSE {}

\* Rows of this command's key, the ones whose key was stored with spaces too.
KeptRows(k) == IF KeepsKey THEN {i \in DOMAIN rows : rows[i].key = k} ELSE {}

\* The email is taken by a committed user, or by an insert still open.
EmailTaken(cmd) == Kind = "register" /\ \E i \in DOMAIN rows : rows[i].class = cmd.class

EmailPending(cmd) ==
    /\ Kind = "register"
    /\ \E d \in Calls : call[d].new # None /\ call[d].new.class = cmd.class

\* Complete: compare-and-set of the call's own PROCESSING row.
Complete(row, resource) ==
    [row EXCEPT !.status = "COMPLETED", !.resource = resource, !.expires = now + Retention]

AdoptFaulty(c) ==
    LET cmd == call[c].cmd IN
    /\ call[c].pc = "execute"
    /\ \E i \in KeptRows(cmd.key) :
          call' = [call EXCEPT ![c] = [@ EXCEPT !.pc = "commit", !.row.resource = i]]
    /\ UNCHANGED <<ledger, identities, lock, rows, job, now, faults>>

\* The key's row from before the ledger, or from a reservation that has
\* expired, stands for the command: adopt it.  The row must be the request's.
Adopt(c) ==
    LET cmd == call[c].cmd IN
    /\ call[c].pc = "execute"
    /\ \E i \in KeptRows(cmd.key) :
          IF rows[i].class = cmd.class
          THEN /\ call' = [call EXCEPT ![c] = [@ EXCEPT !.pc = "commit", !.row = Complete(call[c].row, i)]]
               /\ UNCHANGED lock
          ELSE Answered(c, Answer("conflict", None)) /\ Unlock(cmd.key)
    /\ UNCHANGED <<ledger, identities, rows, job, now, faults>>

\* The insert (or the cancellation's update), then Complete.  The new row is
\* the next one to be committed; a "cancel" reads the job under its row lock.
Execute(c) ==
    LET cmd == call[c].cmd IN
    /\ call[c].pc = "execute"
    /\ KeptRows(cmd.key) = {}
    /\ ~EmailPending(cmd)
    /\ IF EmailTaken(cmd)
       THEN Answered(c, Answer("conflict", None)) /\ Unlock(cmd.key)
       ELSE /\ call' = [call EXCEPT ![c] =
                 [@ EXCEPT !.pc = "commit",
                           !.new = [Resource(cmd, job) EXCEPT !.spelling = "plain"],
                           !.row = Complete(call[c].row, None)]]
            /\ UNCHANGED lock
    /\ UNCHANGED <<ledger, identities, rows, job, now, faults>>

-----------------------------------------------------------------------------
\* A row completed by Execute names the resource committed with it.
CommittedRow(c) ==
    IF call[c].new = None THEN call[c].row
    ELSE [call[c].row EXCEPT !.resource = Len(rows) + 1]

Committed(c) ==
    /\ ledger' = [ledger EXCEPT ![Key(c)] = CommittedRow(c)]
    /\ identities' = [identities EXCEPT ![Key(c)] = call[c].ids]
    /\ rows' = IF call[c].new = None THEN rows ELSE Append(rows, call[c].new)
    /\ job' = IF /\ Kind = "cancel"
                 /\ call[c].new # None
                 /\ job \in {"PENDING", "RUNNING"}
              THEN "CANCELED" ELSE job
    /\ Unlock(Key(c))

Commit(c) ==
    /\ call[c].pc = "commit"
    /\ Committed(c)
    /\ Answered(c, Answer("ok", CommittedRow(c).resource))
    /\ UNCHANGED <<now, faults>>

Fault == faults < MaxFaults /\ faults' = faults + 1

\* The commit took effect and its report did not arrive.
CommitUnreported(c) ==
    /\ call[c].pc = "commit"
    /\ Fault
    /\ Committed(c)
    /\ Answered(c, Answer("error", None))
    /\ UNCHANGED now

FailFaulty(c) ==
    /\ call[c].pc \in {"reserve", "execute", "commit"}
    /\ Fault
    /\ Answered(c, Answer("error", None))
    /\ UNCHANGED <<ledger, identities, lock, rows, job, now>>

\* Any error, timeout or crash before the commit: the transaction rolls back.
Fail(c) ==
    /\ call[c].pc \in {"reserve", "execute", "commit"}
    /\ Fault
    /\ Answered(c, Answer("error", None))
    /\ lock' = IF lock[Key(c)] = c THEN [lock EXCEPT ![Key(c)] = None] ELSE lock
    /\ UNCHANGED <<ledger, identities, rows, job, now>>

\* The handler has answered; the caller never hears of it.
LoseReply(c) ==
    /\ call[c].pc = "done"
    /\ call[c].answer.outcome \in {"ok", "conflict"}
    /\ Fault
    /\ call' = [call EXCEPT ![c].answer = Answer("error", None)]
    /\ UNCHANGED <<ledger, identities, lock, rows, job, now>>

\* A caller that got no final answer sends its command again, as it was.
Resend(c) ==
    /\ call[c].pc = "done"
    /\ call[c].answer.outcome \in {"error", "aborted"}
    /\ call' = [call EXCEPT ![c] = [Idle EXCEPT !.pc = "reserve", !.cmd = call[c].cmd]]
    /\ UNCHANGED <<ledger, identities, lock, rows, job, now, faults>>

\* The outbox relay's sweep: FOR UPDATE SKIP LOCKED, identities cascade.
CleanupCommandIdempotencyKeys(k) ==
    /\ lock[k] = None
    /\ ledger[k] # None
    /\ ledger[k].expires # None /\ ledger[k].expires <= now
    /\ ledger' = [ledger EXCEPT ![k] = None]
    /\ identities' = [identities EXCEPT ![k] = NoIdentity]
    /\ UNCHANGED <<lock, call, rows, job, now, faults>>

\* The job a "cancel" is about moves on, unless its row is locked.
JobMoves ==
    /\ Kind = "cancel"
    /\ \A c \in Calls : call[c].new = None
    /\ \/ job = "PENDING" /\ job' = "RUNNING"
       \/ job = "RUNNING" /\ job' = "COMPLETED"
    /\ UNCHANGED <<ledger, identities, lock, call, rows, now, faults>>

Tick ==
    /\ now < MaxTime
    /\ now' = now + 1
    /\ UNCHANGED <<ledger, identities, lock, call, rows, job, faults>>

Step(c) == Reserve(c) \/ Adopt(c) \/ Execute(c) \/ Commit(c) \/ Resend(c)

Next ==
    \/ \E c \in Calls, cmd \in Commands : Send(c, cmd)
    \/ \E c \in Calls : \/ Reserve(c) \/ Adopt(c) \/ Execute(c) \/ Commit(c)
                        \/ CommitUnreported(c) \/ Fail(c) \/ LoseReply(c) \/ Resend(c)
    \/ \E k \in Keys : CleanupCommandIdempotencyKeys(k)
    \/ JobMoves
    \/ Tick

\* A call runs on, and a caller without an answer retries.
Fairness == \A c \in Calls : WF_vars(Step(c))

Spec == Init /\ [][Next]_vars /\ Fairness

-----------------------------------------------------------------------------
\* The types of the tables, with the CHECK that a row has an expiry exactly
\* when it is not PROCESSING, of the locks and of the calls.
TypeOK ==
    /\ ledger \in [Keys -> RowType \cup {None}]
    /\ \A k \in Keys : ledger[k] # None =>
          (ledger[k].status = "PROCESSING") = (ledger[k].expires = None)
    /\ identities \in [Keys -> IdentityType]
    /\ lock \in [Keys -> Calls \cup {None}]
    /\ call \in [Calls -> CallType]
    /\ \A c \in Calls : call[c].pc # "idle" => call[c].cmd # None
    /\ rows \in Seq(ResourceType)
    /\ job \in {"PENDING", "RUNNING", "COMPLETED", "CANCELED"}
    /\ now \in 0..MaxTime /\ faults \in 0..MaxFaults

\* A command takes effect once.  However its calls are retried, duplicated,
\* interleaved or cut short, a job or notification row that keeps its key is
\* the only one of its key for good, through expiry, the sweep and keys stored
\* with spaces; any other command is carried out again only when the row of
\* the first time has expired (Reserve's ON CONFLICT ... WHERE expires_at).
OneEffect ==
    \A i, j \in DOMAIN rows :
        i < j /\ rows[i].key = rows[j].key =>
            ~KeepsKey /\ rows[j].at >= rows[i].at + Retention

\* A call is only ever answered with a resource its own request made: a key
\* used again with other content is refused (requestHashMatches, and the
\* hashes of older binaries match nothing of another class), and a replayed
\* registration, which yields a token, needs the account's password.
AnswersOwnRequest ==
    \A c \in Calls :
        call[c].pc = "done" /\ call[c].answer.outcome = "ok" =>
            LET res == rows[call[c].answer.resource] IN
            /\ res.key = call[c].cmd.key
            /\ res.class = call[c].cmd.class
            /\ Kind = "register" => res.text = call[c].cmd.text

\* "callers must never commit a PROCESSING row" (Reserve): no committed row
\* is PROCESSING or lacks the resource it answers with, so no caller is ever
\* told that its command is still processing.
NothingInProgress ==
    /\ \A k \in Keys : ledger[k] # None =>
          /\ ledger[k].status = "COMPLETED"
          /\ ledger[k].resource \in DOMAIN rows
    /\ \A c \in Calls : call[c].pc = "done" => call[c].answer.outcome # "aborted"

\* Rolling migration 11 back finds, for every row of a workflow command, the
\* identity older binaries look it up by, and none of another request's: an
\* identity left by an expired use of the key would make them refuse the
\* command the row stands for, or answer it for another one.
RollbackIdentities ==
    Workflow => \A k \in Keys : ledger[k] # None =>
        /\ identities[k]["canonical"] # None
        /\ \A p \in {"canonical", "raw"} :
              identities[k][p] # None => identities[k][p].class = ledger[k].hash.class

\* The worker that terminates a workflow learns from CancelJob whether there
\* is a container to stop.  While the cancellation's row is retained, every
\* answer reports the state the job was in before it, not CANCELED.
CancelReportsTheRun ==
    Kind = "cancel" =>
        \A c \in Calls :
            /\ call[c].pc = "done"
            /\ call[c].answer.outcome = "ok"
            /\ rows[call[c].answer.resource].before = "CANCELED"
            => \E i \in 1..(call[c].answer.resource - 1) :
                  rows[i].at + Retention <= rows[call[c].answer.resource].at

\* Every command that was sent is eventually answered for good: no call waits
\* for ever for a key whose holder failed, and retries come to an end.
EveryCallAnswered ==
    \A c \in Calls :
        call[c].pc = "reserve" ~>
            (call[c].pc = "done" /\ call[c].answer.outcome \in {"ok", "conflict"})
=============================================================================

------------------------ MODULE CommandLedger_proofs ------------------------
(***************************************************************************)
(* A command takes effect once, and a call is only answered with what its  *)
(* own request made: for every kind of command, any number of calls, keys  *)
(* and commands, and any number of failures.                               *)
(*                                                                         *)
(* None of it is inductive.  What is: a transaction between Reserve and    *)
(* its commit holds the row of its key, and the row is still as Reserve    *)
(* found it; a resource is either older than the retention or answered for *)
(* by a row that expires no sooner (LedgerInv).                            *)
(***************************************************************************)
EXTENDS CommandLedger, SequenceTheorems, TLAPS

\* The identities of one request, the one older binaries look up first among them.
IdsOf(ids, class) ==
    /\ ids["canonical"] # None
    /\ \A p \in Paths : ids[p] # None => ids[p].class = class

OfClass(row, class) == \A h \in row.aliases \cup {row.hash} : h.class = class

\* The resource was made by a command like this one.
Own(cmd, r) ==
    /\ r \in DOMAIN rows
    /\ rows[r].key = cmd.key /\ rows[r].class = cmd.class
    /\ Kind = "register" => rows[r].text = cmd.text

\* The retention of a resource is over at t.
Over(i, t) == rows[i].at + Retention <= t

\* A call about to commit a resource ...
Inserting(c) ==
    LET s == call[c] IN
    /\ s.new.key = s.cmd.key /\ s.new.class = s.cmd.class /\ s.new.text = s.cmd.text
    /\ s.new.at <= now /\ s.row.expires = s.new.at + Retention
    /\ \A i \in DOMAIN rows : rows[i].key = s.new.key => ~KeepsKey /\ Over(i, s.new.at)
    /\ Kind = "cancel" /\ s.new.before = "CANCELED" => rows # <<>>

\* ... and one that replays an earlier command, or adopts its resource.
Replaying(c) ==
    LET s == call[c] IN
    /\ Own(s.cmd, s.row.resource)
    /\ KeepsKey \/ s.row = ledger[Key(c)]

CallInv(c) ==
    LET s == call[c] IN
    /\ s.pc # "commit" => s.new = None
    /\ s.pc \in {"execute", "commit"} =>
         lock[Key(c)] = c /\ (Workflow => IdsOf(s.ids, s.cmd.class))
    /\ s.pc = "execute" => Fresh(ledger[Key(c)]) /\ s.row = Processing(s.cmd)
    /\ s.pc = "commit" =>
         /\ s.row # None /\ s.row.status = "COMPLETED" /\ s.row.expires # None
         /\ OfClass(s.row, s.cmd.class)
         /\ s.new = None => Replaying(c)
         /\ s.new # None => Inserting(c)
    /\ s.pc = "done" =>
         /\ s.answer # None /\ s.answer.outcome # "aborted"
         /\ s.answer.outcome = "ok" => Own(s.cmd, s.answer.resource)

KeyInv(k) ==
    ledger[k] # None =>
        /\ ledger[k].status = "COMPLETED" /\ ledger[k].resource \in DOMAIN rows
        /\ rows[ledger[k].resource].key = k
        /\ OfClass(ledger[k], rows[ledger[k].resource].class)
        /\ Workflow => IdsOf(identities[k], rows[ledger[k].resource].class)

RowInv(i) ==
    /\ \E cmd \in Commands : rows[i].key = cmd.key
    /\ rows[i].at <= now
    /\ \/ KeepsKey
       \/ Over(i, now)
       \/ ledger[rows[i].key] # None /\ Over(i, ledger[rows[i].key].expires)
    /\ Kind = "cancel" /\ rows[i].before = "CANCELED" =>
         \E j \in 1 .. i - 1 : Over(j, rows[i].at)

JobInv == Kind = "cancel" /\ job = "CANCELED" => rows # <<>>

LedgerInv ==
    /\ TypeOK
    /\ OneEffect
    /\ JobInv
    /\ \A c \in Calls : CallInv(c)
    /\ \A k \in Keys : KeyInv(k)
    /\ \A i \in DOMAIN rows : RowInv(i)

-----------------------------------------------------------------------------
(* Records *)

\* What TypeOK says of one call.
LEMMA CallTypes ==
    ASSUME LedgerAssumption, TypeOK, NEW c \in Calls
    PROVE  /\ call[c] \in CallType
           /\ call[c].row # None => call[c].row \in RowType
           /\ call[c].new # None => call[c].new \in ResourceType
           /\ call[c].pc # "idle" =>
                /\ call[c].cmd \in Commands /\ call[c].cmd \in CommandType
                /\ Key(c) = call[c].cmd.key /\ Key(c) \in Keys
<1>1. call[c] \in CallType /\ (call[c].pc # "idle" => call[c].cmd # None)
  BY DEF TypeOK
<1>2. /\ call[c].row \in RowType \cup {None} /\ call[c].new \in ResourceType \cup {None}
      /\ call[c].cmd \in Commands \cup {None}
  BY <1>1 DEF CallType
<1>3. \A cmd \in Commands : cmd \in CommandType /\ cmd.key \in Keys
  BY DEF LedgerAssumption, CommandType
<1>. QED  BY <1>1, <1>2, <1>3 DEF Key

LEMMA HashTypes ==
    ASSUME NEW cmd \in CommandType
    PROVE  /\ RequestHash(cmd) \in Hashes /\ RequestHash(cmd).class = cmd.class
           /\ \A p \in Paths : LegacyHash(cmd, p) \in Hashes /\ LegacyHash(cmd, p).class = cmd.class
           /\ CompatibleHashes(cmd) \in SUBSET Hashes
           /\ \A h \in CompatibleHashes(cmd) : h.class = cmd.class
<1>1. cmd.class \in Nat /\ cmd.text \in Nat /\ cmd.path \in Paths /\ "canonical" \in Paths
  BY DEF CommandType, Paths
<1>2. RequestHash(cmd) \in Hashes /\ RequestHash(cmd).class = cmd.class
  BY <1>1 DEF RequestHash, Hashes
<1>3. \A p \in Paths : LegacyHash(cmd, p) \in Hashes /\ LegacyHash(cmd, p).class = cmd.class
  BY <1>1 DEF LegacyHash, Hashes
<1>. QED  BY <1>1, <1>2, <1>3 DEF CompatibleHashes

\* A row that Reserve inserts.
LEMMA ProcessingType ==
    ASSUME NEW cmd \in CommandType
    PROVE  /\ Processing(cmd) \in RowType
           /\ OfClass(Processing(cmd), cmd.class)
<1>1. RequestHash(cmd) \in Hashes /\ CompatibleHashes(cmd) \in SUBSET Hashes
  BY HashTypes
<1>2. Processing(cmd) \in RowType
  BY <1>1 DEF Processing, RowType
<1>3. Processing(cmd).aliases = CompatibleHashes(cmd) /\ Processing(cmd).hash = RequestHash(cmd)
  BY DEF Processing
<1>. QED  BY <1>2, <1>3, HashTypes DEF OfClass

LEMMA CompleteType ==
    ASSUME LedgerAssumption, NEW row \in RowType, NEW r \in Nat \cup {None}, now \in Nat
    PROVE  /\ Complete(row, r) \in RowType
           /\ Complete(row, r).status = "COMPLETED" /\ Complete(row, r).resource = r
           /\ Complete(row, r).expires = now + Retention /\ Complete(row, r).expires \in Nat
           /\ \A class : OfClass(row, class) => OfClass(Complete(row, r), class)
<1>1. now + Retention \in Nat
  BY DEF LedgerAssumption
<1>2. Complete(row, r) \in RowType
  BY <1>1 DEF Complete, RowType
<1>3. /\ Complete(row, r).hash = row.hash /\ Complete(row, r).aliases = row.aliases
      /\ Complete(row, r).status = "COMPLETED" /\ Complete(row, r).resource = r
      /\ Complete(row, r).expires = now + Retention
  BY DEF Complete, RowType
<1>. QED  BY <1>1, <1>2, <1>3 DEF OfClass

LEMMA NoIdentityType == NoIdentity \in IdentityType
  BY DEF NoIdentity, IdentityType, Paths

\* SyncLegacyIdentities leaves the identities of the request that reserves the key.
LEMMA SyncType ==
    ASSUME LedgerAssumption, TypeOK, NEW cmd \in CommandType, NEW fresh \in BOOLEAN,
           fresh \/ (Workflow => IdsOf(identities[cmd.key], cmd.class))
    PROVE  /\ SyncedIdentities(cmd, fresh) \in IdentityType
           /\ Workflow => IdsOf(SyncedIdentities(cmd, fresh), cmd.class)
<1>. DEFINE old == identities[cmd.key]
            ids == SyncLegacyIdentities(cmd, fresh)
<1>1. cmd.key \in Keys /\ old \in IdentityType
  BY DEF CommandType, TypeOK
<1>2. \A p \in Paths : old[p] \in Hashes \cup {None}
  BY <1>1 DEF IdentityType
<1>3. /\ \A p \in Paths : LegacyHash(cmd, p) \in Hashes /\ LegacyHash(cmd, p).class = cmd.class
      /\ \A p \in Paths : LegacyHash(cmd, p) # None
  BY HashTypes DEF LedgerAssumption
<1>4. ids = [p \in Paths |->
               IF fresh \/ old[p] = None
               THEN IF p \in LegacyOperations(cmd) THEN LegacyHash(cmd, p) ELSE None
               ELSE old[p]]
  BY DEF SyncLegacyIdentities, Paths
<1>5. ids \in IdentityType
  BY <1>2, <1>3, <1>4 DEF IdentityType
<1>6. "canonical" \in LegacyOperations(cmd) /\ "canonical" \in Paths
  BY DEF LegacyOperations, Paths
<1>7. ASSUME Workflow PROVE IdsOf(ids, cmd.class)
  <2>1. fresh \/ IdsOf(old, cmd.class)
    BY <1>7
  <2>2. ids["canonical"] # None
    BY <1>3, <1>4, <1>6, <2>1 DEF IdsOf
  <2>3. ASSUME NEW p \in Paths, ids[p] # None PROVE ids[p].class = cmd.class
    BY <1>3, <1>4, <2>1, <2>3 DEF IdsOf
  <2>. QED  BY <2>2, <2>3 DEF IdsOf
<1>. QED  BY <1>5, <1>7, NoIdentityType DEF SyncedIdentities

-----------------------------------------------------------------------------
(* How the calls change *)

\* Call c is now t; the others are as they were.
Becomes(c, t) ==
    /\ call' = [call EXCEPT ![c] = t]
    /\ t \in CallType /\ (t.pc # "idle" => t.cmd # None)

LEMMA BecomesType ==
    ASSUME TypeOK, NEW c \in Calls, NEW t, Becomes(c, t)
    PROVE  /\ call' \in [Calls -> CallType]
           /\ \A d \in Calls : call'[d].pc # "idle" => call'[d].cmd # None
           /\ call'[c] = t
           /\ \A d \in Calls \ {c} : call'[d] = call[d]
  BY DEF Becomes, TypeOK

LEMMA IdleType == Idle \in CallType /\ Idle.new = None
  BY NoIdentityType DEF Idle, CallType

\* Answered, and a resource or none with the answer.
LEMMA AnsweredCall ==
    ASSUME LedgerAssumption, TypeOK, NEW c \in Calls, call[c].pc # "idle",
           NEW a \in AnswerType, Answered(c, a)
    PROVE  /\ Becomes(c, call'[c])
           /\ call'[c].pc = "done" /\ call'[c].cmd = call[c].cmd
           /\ call'[c].new = None /\ call'[c].answer = a
<1>1. PICK s \in CallType : s = Idle /\ s.new = None
  BY IdleType
<1>2. PICK cmd \in Commands : cmd = call[c].cmd /\ cmd # None
  BY CallTypes DEF LedgerAssumption
<1>3. PICK t : t = [s EXCEPT !.pc = "done", !.cmd = cmd, !.answer = a]
  OBVIOUS
<1>4. /\ t \in CallType
      /\ t.pc = "done" /\ t.cmd = cmd /\ t.answer = a /\ t.new = s.new
  BY <1>3 DEF CallType
<1>5. call' = [call EXCEPT ![c] = t]
  BY <1>1, <1>2, <1>3, Zenon DEF Answered
<1>6. call'[c] = t
  BY <1>5 DEF TypeOK
<1>. QED  BY <1>1, <1>2, <1>4, <1>5, <1>6 DEF Becomes

LEMMA AnswerTypes ==
    ASSUME NEW o \in {"ok", "conflict", "aborted", "invalid", "error"}, NEW r \in Nat \cup {None}
    PROVE  /\ Answer(o, r) \in AnswerType
           /\ Answer(o, r).outcome = o /\ Answer(o, r).resource = r
  BY DEF Answer, AnswerType

-----------------------------------------------------------------------------
(* What a step leaves as it was *)

\* Rows are never changed, only added.
RowsGrow ==
    /\ rows \in Seq(ResourceType) /\ rows' \in Seq(ResourceType)
    /\ DOMAIN rows \subseteq DOMAIN rows'
    /\ \A i \in DOMAIN rows : rows'[i] = rows[i]
    /\ now \in Nat /\ now' \in Nat /\ now <= now'

\* A call that takes no part in a step: what it holds stays as it is, and no
\* resource of its key is added.
Aside(d) ==
    /\ call'[d] = call[d]
    /\ call[d].pc \in {"execute", "commit"} =>
         /\ lock'[Key(d)] = d /\ ledger'[Key(d)] = ledger[Key(d)]
         /\ \A i \in DOMAIN rows' \ DOMAIN rows : rows'[i].key # Key(d)

LEMMA OwnKept ==
    ASSUME RowsGrow, NEW cmd, NEW r, Own(cmd, r)
    PROVE  Own(cmd, r)'
  BY DEF RowsGrow, Own

LEMMA CallKept ==
    ASSUME LedgerAssumption, TypeOK, NEW d \in Calls, CallInv(d), RowsGrow, Aside(d)
    PROVE  CallInv(d)'
<1>1. Key(d)' = Key(d) /\ call'[d] = call[d]
  BY DEF Aside, Key
<1>2. /\ call[d].pc # "idle" => Key(d) \in Keys
      /\ call[d].new # None => call[d].new \in ResourceType
  BY CallTypes
<1>3. \A r : Own(call[d].cmd, r) => Own(call[d].cmd, r)'
  BY <1>1, OwnKept DEF Own, RowsGrow
<1>4. ASSUME call[d].pc = "execute" PROVE Fresh(ledger[Key(d)])'
  <2>1. Key(d) \in Keys /\ Fresh(ledger[Key(d)]) /\ ledger'[Key(d)] = ledger[Key(d)]
    BY <1>2, <1>4 DEF CallInv, Aside
  <2>2. ledger[Key(d)] # None => ledger[Key(d)].expires \in Nat \cup {None}
    BY <2>1 DEF TypeOK, RowType
  <2>. QED  BY <1>1, <2>1, <2>2 DEF Fresh, RowsGrow
<1>5. ASSUME call[d].pc = "commit", call[d].new = None PROVE Replaying(d)'
  <2>1. Replaying(d)
    BY <1>5 DEF CallInv
  <2>2. ledger'[Key(d)] = ledger[Key(d)]
    BY <1>5 DEF Aside
  <2>. QED  BY <1>1, <1>3, <2>1, <2>2 DEF Replaying
<1>6. ASSUME call[d].pc = "commit", call[d].new # None PROVE Inserting(d)'
  <2>1. Inserting(d)
    BY <1>6 DEF CallInv
  <2>2. call[d].new \in ResourceType /\ call[d].new.key = Key(d)
    BY <1>2, <1>6, <2>1 DEF Inserting, Key
  <2>3. \A i \in DOMAIN rows' : rows'[i].key = call[d].new.key =>
            ~KeepsKey /\ rows'[i].at + Retention <= call[d].new.at
    BY <1>6, <2>1, <2>2 DEF Inserting, Over, Aside, RowsGrow
  <2>4. rows # <<>> => rows' # <<>>
    BY EmptySeq, LenProperties DEF RowsGrow
  <2>5. call[d].new.at <= now'
    BY <2>1, <2>2 DEF Inserting, RowsGrow, ResourceType
  <2>. QED  BY <1>1, <2>1, <2>3, <2>4, <2>5 DEF Inserting, Over
<1>7. call[d].pc \in {"execute", "commit"} => lock'[Key(d)] = d
  BY DEF Aside
<1>. QED  BY <1>1, <1>3, <1>4, <1>5, <1>6, <1>7 DEF CallInv

LEMMA KeyKept ==
    ASSUME RowsGrow, NEW k \in Keys, KeyInv(k),
           ledger'[k] = ledger[k], identities'[k] = identities[k]
    PROVE  KeyInv(k)'
<1>1. ledger[k] # None =>
        /\ ledger[k].resource \in DOMAIN rows
        /\ rows'[ledger[k].resource] = rows[ledger[k].resource]
  BY DEF KeyInv, RowsGrow
<1>. QED  BY <1>1 DEF KeyInv, RowsGrow

\* The row of the key is as it was, or the retention of the resource is over.
LEMMA RowKept ==
    ASSUME LedgerAssumption, RowsGrow, NEW i \in DOMAIN rows, RowInv(i),
           \/ KeepsKey \/ Over(i, now)
           \/ ledger'[rows[i].key] = ledger[rows[i].key]
    PROVE  RowInv(i)'
<1>1. /\ rows'[i] = rows[i] /\ rows[i] \in ResourceType
      /\ i \in Nat /\ DOMAIN rows = 1 .. Len(rows) /\ Len(rows) \in Nat
  BY LenProperties DEF RowsGrow
<1>2. rows[i].at \in Nat /\ Retention \in Nat
  BY <1>1 DEF ResourceType, LedgerAssumption
<1>3. \A t : Over(i, t) => (rows'[i].at + Retention <= t)
  BY <1>1 DEF Over
<1>4. Over(i, now) => Over(i, now)'
  BY <1>1, <1>2 DEF Over, RowsGrow
<1>5. \/ KeepsKey \/ Over(i, now)'
      \/ ledger'[rows'[i].key] # None /\ rows'[i].at + Retention <= ledger'[rows'[i].key].expires
  BY <1>1, <1>3, <1>4 DEF RowInv
<1>6. \A j \in 1 .. i - 1 : rows'[j] = rows[j]
  BY <1>1 DEF RowsGrow
<1>7. rows[i].at <= now'
  BY <1>2 DEF RowInv, RowsGrow
<1>. QED  BY <1>1, <1>5, <1>6, <1>7 DEF RowInv, Over

-----------------------------------------------------------------------------
(* Steps that change one call, and no table *)

\* The other calls keep the keys they hold.
LocksKept(c) ==
    /\ lock' \in [Keys -> Calls \cup {None}]
    /\ \A d \in Calls \ {c} : call[d].pc \in {"execute", "commit"} => lock'[Key(d)] = d

\* Call c takes the key, or gives it back.
LEMMA LockMoves ==
    ASSUME LedgerAssumption, LedgerInv, NEW c \in Calls, NEW k \in Keys, lock[k] \in {None, c},
           NEW v \in Calls \cup {None}, lock' = [lock EXCEPT ![k] = v]
    PROVE  LocksKept(c)
<1>1. lock \in [Keys -> Calls \cup {None}]
  BY DEF LedgerInv, TypeOK
<1>2. ASSUME NEW d \in Calls \ {c}, call[d].pc \in {"execute", "commit"} PROVE lock'[Key(d)] = d
  <2>1. lock[Key(d)] = d /\ Key(d) \in Keys
    BY <1>2, CallTypes DEF LedgerInv, CallInv
  <2>2. Key(d) # k
    BY <2>1 DEF LedgerAssumption
  <2>. QED  BY <1>1, <2>1, <2>2
<1>. QED  BY <1>1, <1>2 DEF LocksKept

LEMMA LockStays ==
    ASSUME LedgerInv, NEW c \in Calls, UNCHANGED lock
    PROVE  LocksKept(c)
  BY DEF LocksKept, LedgerInv, TypeOK, CallInv

LEMMA CallStep ==
    ASSUME LedgerAssumption, LedgerInv, NEW c \in Calls, NEW t, Becomes(c, t),
           UNCHANGED <<ledger, identities, rows, job, now>>,
           LocksKept(c), faults' \in 0 .. MaxFaults, CallInv(c)'
    PROVE  LedgerInv'
<1>0. TypeOK
  BY DEF LedgerInv
<1>1. /\ call' \in [Calls -> CallType]
      /\ \A d \in Calls : call'[d].pc # "idle" => call'[d].cmd # None
      /\ \A d \in Calls \ {c} : call'[d] = call[d]
  BY <1>0, BecomesType
<1>2. TypeOK'
  BY <1>0, <1>1 DEF TypeOK, LocksKept
<1>3. RowsGrow
  BY <1>0 DEF RowsGrow, TypeOK
<1>4. ASSUME NEW d \in Calls PROVE CallInv(d)'
  <2>1. CASE d # c
    <3>1. Aside(d)
      BY <1>1, <2>1 DEF Aside, LocksKept
    <3>. QED  BY <1>0, <1>3, <3>1, CallKept DEF LedgerInv
  <2>. QED  BY <2>1
<1>5. \A k \in Keys : KeyInv(k)'
  BY DEF LedgerInv, KeyInv
<1>6. \A i \in DOMAIN rows : RowInv(i)'
  BY DEF LedgerInv, RowInv, Over
<1>7. OneEffect' /\ JobInv'
  BY DEF LedgerInv, OneEffect, JobInv
<1>. QED  BY <1>2, <1>4, <1>5, <1>6, <1>7 DEF LedgerInv

\* A call that starts, or is answered other than with a resource.
LEMMA Apart ==
    ASSUME LedgerAssumption, TypeOK, NEW c \in Calls, NEW t, Becomes(c, t), t.new = None,
           \/ t.pc = "reserve"
           \/ t.pc = "done" /\ t.answer \in AnswerType /\ t.answer.outcome \notin {"ok", "aborted"}
    PROVE  CallInv(c)'
<1>1. call'[c] = t /\ None \notin AnswerType
  BY BecomesType DEF LedgerAssumption
<1>. QED  BY <1>1 DEF CallInv

LEMMA NoResource ==
    \A o \in {"conflict", "error", "invalid"} :
        \E a \in AnswerType : a = Answer(o, None) /\ a.outcome = o
<1> SUFFICES ASSUME NEW o \in {"conflict", "error", "invalid"}
             PROVE  Answer(o, None) \in AnswerType /\ Answer(o, None).outcome = o
  OBVIOUS
<1>. QED  BY DEF Answer, AnswerType

LEMMA FaultCounted == ASSUME TypeOK, LedgerAssumption, Fault PROVE faults' \in 0 .. MaxFaults
  BY DEF TypeOK, Fault, LedgerAssumption

LEMMA SendInv ==
    ASSUME LedgerAssumption, LedgerInv, NEW c \in Calls, NEW cmd \in Commands, Send(c, cmd)
    PROVE  LedgerInv'
<1>0. TypeOK /\ UNCHANGED <<ledger, identities, lock, rows, job, now, faults>>
  BY DEF LedgerInv, Send
<1>1. PICK s \in CallType : s = Idle /\ s.new = None
  BY IdleType
<1>2. PICK a \in AnswerType : a = Answer("invalid", None) /\ a.outcome = "invalid"
  BY NoResource
<1>3. cmd # None
  BY DEF LedgerAssumption
<1>4. PICK t : /\ \/ t = [s EXCEPT !.pc = "reserve", !.cmd = cmd]
                  \/ t = [s EXCEPT !.pc = "done", !.cmd = cmd, !.answer = a]
               /\ call' = [call EXCEPT ![c] = t]
  BY <1>1, <1>2, Zenon DEF Send
<1>5. /\ t \in CallType /\ t.cmd = cmd /\ t.new = s.new
      /\ t.pc = "reserve" \/ (t.pc = "done" /\ t.answer = a)
  BY <1>4 DEF CallType
<1>6. Becomes(c, t)
  BY <1>3, <1>4, <1>5 DEF Becomes
<1>7. CallInv(c)'
  BY <1>0, <1>1, <1>2, <1>5, <1>6, Apart
<1>8. faults' \in 0 .. MaxFaults
  BY <1>0 DEF TypeOK
<1>. QED  BY <1>0, <1>6, <1>7, <1>8, CallStep, LockStays

LEMMA ResendInv ==
    ASSUME LedgerAssumption, LedgerInv, NEW c \in Calls, Resend(c)
    PROVE  LedgerInv'
<1>0. /\ TypeOK /\ UNCHANGED <<ledger, identities, lock, rows, job, now, faults>>
      /\ call[c].pc = "done"
  BY DEF LedgerInv, Resend
<1>1. PICK s \in CallType : s = Idle /\ s.new = None
  BY IdleType
<1>2. PICK cmd \in Commands : cmd = call[c].cmd /\ cmd # None
  BY <1>0, CallTypes DEF LedgerAssumption
<1>3. PICK t : t = [s EXCEPT !.pc = "reserve", !.cmd = cmd] /\ call' = [call EXCEPT ![c] = t]
  BY <1>1, <1>2, Zenon DEF Resend
<1>4. t \in CallType /\ t.cmd = cmd /\ t.new = s.new /\ t.pc = "reserve"
  BY <1>3 DEF CallType
<1>5. Becomes(c, t)
  BY <1>2, <1>3, <1>4 DEF Becomes
<1>6. CallInv(c)'
  BY <1>0, <1>1, <1>4, <1>5, Apart
<1>7. faults' \in 0 .. MaxFaults
  BY <1>0 DEF TypeOK
<1>. QED  BY <1>0, <1>5, <1>6, <1>7, CallStep, LockStays

LEMMA LoseReplyInv ==
    ASSUME LedgerAssumption, LedgerInv, NEW c \in Calls, LoseReply(c)
    PROVE  LedgerInv'
<1>0. /\ TypeOK /\ UNCHANGED <<ledger, identities, lock, rows, job, now>>
      /\ call[c].pc = "done" /\ call[c].new = None /\ faults' \in 0 .. MaxFaults
  BY FaultCounted DEF LedgerInv, LoseReply, CallInv
<1>1. PICK s \in CallType : s = call[c] /\ s.cmd # None
  BY <1>0 DEF TypeOK
<1>2. PICK a \in AnswerType : a = Answer("error", None) /\ a.outcome = "error"
  BY NoResource
<1>3. PICK t : t = [s EXCEPT !.answer = a]
  OBVIOUS
<1>4. t \in CallType /\ t.cmd = s.cmd /\ t.new = s.new /\ t.pc = s.pc /\ t.answer = a
  BY <1>3 DEF CallType
<1>5. call' = [call EXCEPT ![c] = t]
  BY <1>1, <1>2, <1>3, Zenon DEF LoseReply
<1>6. Becomes(c, t)
  BY <1>1, <1>4, <1>5 DEF Becomes
<1>7. CallInv(c)'
  BY <1>0, <1>1, <1>2, <1>4, <1>6, Apart
<1>. QED  BY <1>0, <1>6, <1>7, CallStep, LockStays

\* The transaction rolls back, or the request is refused.
LEMMA RefusedInv ==
    ASSUME LedgerAssumption, LedgerInv, NEW c \in Calls, call[c].pc # "idle",
           NEW o \in {"conflict", "error"}, Answered(c, Answer(o, None)),
           UNCHANGED <<ledger, identities, rows, job, now>>,
           LocksKept(c), faults' \in 0 .. MaxFaults
    PROVE  LedgerInv'
<1>1. PICK a \in AnswerType : a = Answer(o, None) /\ a.outcome = o
  BY NoResource
<1>2. TypeOK
  BY DEF LedgerInv
<1>3. PICK t : /\ t = call'[c] /\ Becomes(c, t)
               /\ t.pc = "done" /\ t.new = None /\ t.answer = a
  BY <1>1, <1>2, AnsweredCall
<1>4. CallInv(c)'
  BY <1>1, <1>2, <1>3, Apart
<1>. QED  BY <1>3, <1>4, CallStep

LEMMA FailInv ==
    ASSUME LedgerAssumption, LedgerInv, NEW c \in Calls, Fail(c)
    PROVE  LedgerInv'
<1>0. /\ TypeOK /\ UNCHANGED <<ledger, identities, rows, job, now>>
      /\ call[c].pc # "idle" /\ faults' \in 0 .. MaxFaults
      /\ Answered(c, Answer("error", None))
  BY FaultCounted DEF LedgerInv, Fail
<1>1. Key(c) \in Keys
  BY <1>0, CallTypes
<1>2. lock' = IF lock[Key(c)] = c THEN [lock EXCEPT ![Key(c)] = None] ELSE lock
  BY Zenon DEF Fail
<1>3. LocksKept(c)
  <2>1. CASE lock[Key(c)] = c
    BY <1>1, <1>2, <2>1, LockMoves
  <2>2. CASE lock[Key(c)] # c
    BY <1>2, <2>2, LockStays
  <2>. QED  BY <2>1, <2>2
<1>. QED  BY <1>0, <1>3, RefusedInv

-----------------------------------------------------------------------------
(* Reserve *)

\* A row that answers for the request was made by one of the same class.
LEMMA MatchingRow ==
    ASSUME LedgerAssumption, NEW cmd \in CommandType, NEW row, NEW class,
           OfClass(row, class), requestHashMatches(row, cmd)
    PROVE  class = cmd.class
<1>1. PICK h \in row.aliases \cup {row.hash} : h \in CompatibleHashes(cmd) \cup {RequestHash(cmd)}
  BY DEF requestHashMatches
<1>2. h.class = class
  BY <1>1 DEF OfClass
<1>3. h.class = cmd.class
  BY <1>1, HashTypes
<1>. QED  BY <1>2, <1>3

\* The insert took the key.
LEMMA TakenInv ==
    ASSUME LedgerAssumption, LedgerInv, NEW c \in Calls, call[c].pc = "reserve",
           lock[Key(c)] = None, Fresh(ledger[Key(c)]),
           lock' = [lock EXCEPT ![Key(c)] = c],
           call' = [call EXCEPT ![c] = [@ EXCEPT !.pc = "execute", !.row = Processing(call[c].cmd),
                                                 !.ids = SyncedIdentities(call[c].cmd, TRUE)]],
           UNCHANGED <<ledger, identities, rows, job, now, faults>>
    PROVE  LedgerInv'
<1>0. TypeOK /\ CallInv(c) /\ faults' \in 0 .. MaxFaults
  BY DEF LedgerInv, TypeOK
<1>1. PICK cmd \in CommandType : cmd = call[c].cmd /\ cmd # None /\ Key(c) = cmd.key /\ cmd.key \in Keys
  BY <1>0, CallTypes DEF LedgerAssumption
<1>2. PICK s \in CallType : s = call[c] /\ s.new = None
  BY <1>0 DEF TypeOK, CallInv
<1>3. PICK row \in RowType : row = Processing(cmd)
  BY ProcessingType
<1>4. PICK ids \in IdentityType : /\ ids = SyncedIdentities(cmd, TRUE)
                                  /\ Workflow => IdsOf(ids, cmd.class)
  BY <1>0, SyncType
<1>5. PICK t : t = [s EXCEPT !.pc = "execute", !.row = row, !.ids = ids]
  OBVIOUS
<1>6. /\ t \in CallType /\ t.pc = "execute" /\ t.cmd = s.cmd /\ t.row = row /\ t.ids = ids
      /\ t.new = s.new
  BY <1>5 DEF CallType
<1>7. call' = [call EXCEPT ![c] = t]
  BY <1>0, <1>1, <1>2, <1>3, <1>4, <1>5 DEF TypeOK
<1>8. Becomes(c, t) /\ call'[c] = t
  BY <1>0, <1>1, <1>2, <1>6, <1>7 DEF Becomes, TypeOK
<1>9. LocksKept(c)
  BY <1>1, LockMoves
<1>10. lock'[cmd.key] = c /\ Key(c)' = cmd.key
  BY <1>0, <1>1, <1>2, <1>6, <1>8 DEF TypeOK, Key
<1>11. Fresh(ledger[cmd.key])'
  BY <1>1 DEF Fresh
<1>12. CallInv(c)'
  BY <1>1, <1>2, <1>3, <1>4, <1>6, <1>8, <1>10, <1>11 DEF CallInv, Processing
<1>. QED  BY <1>0, <1>8, <1>9, <1>12, CallStep

\* The row of an earlier command of the same content answers.
LEMMA ReplayedInv ==
    ASSUME LedgerAssumption, LedgerInv, NEW c \in Calls, call[c].pc = "reserve",
           lock[Key(c)] = None, ledger[Key(c)] # None,
           requestHashMatches(ledger[Key(c)], call[c].cmd),
           CredentialsMatch(call[c].cmd, ledger[Key(c)]),
           lock' = [lock EXCEPT ![Key(c)] = c],
           call' = [call EXCEPT ![c] = [@ EXCEPT !.pc = "commit", !.row = ledger[Key(c)],
                                                 !.ids = SyncedIdentities(call[c].cmd, FALSE)]],
           UNCHANGED <<ledger, identities, rows, job, now, faults>>
    PROVE  LedgerInv'
<1>0. TypeOK /\ CallInv(c) /\ faults' \in 0 .. MaxFaults
  BY DEF LedgerInv, TypeOK
<1>1. PICK cmd \in CommandType : cmd = call[c].cmd /\ cmd # None /\ Key(c) = cmd.key /\ cmd.key \in Keys
  BY <1>0, CallTypes DEF LedgerAssumption
<1>2. PICK s \in CallType : s = call[c] /\ s.new = None
  BY <1>0 DEF TypeOK, CallInv
<1>3. PICK row \in RowType : row = ledger[cmd.key] /\ row # None
  BY <1>0, <1>1 DEF TypeOK
<1>4. /\ row.status = "COMPLETED" /\ row.resource \in DOMAIN rows
      /\ rows[row.resource].key = cmd.key
      /\ OfClass(row, rows[row.resource].class)
      /\ Workflow => IdsOf(identities[cmd.key], rows[row.resource].class)
      /\ row.expires # None
  BY <1>0, <1>1, <1>3 DEF LedgerInv, KeyInv, TypeOK
<1>5. rows[row.resource].class = cmd.class
  BY <1>1, <1>3, <1>4, MatchingRow
<1>6. Own(cmd, row.resource)
  BY <1>1, <1>3, <1>4, <1>5 DEF Own, CredentialsMatch
<1>7. PICK ids \in IdentityType : /\ ids = SyncedIdentities(cmd, FALSE)
                                  /\ Workflow => IdsOf(ids, cmd.class)
  BY <1>0, <1>4, <1>5, SyncType
<1>8. PICK t : t = [s EXCEPT !.pc = "commit", !.row = row, !.ids = ids]
  OBVIOUS
<1>9. /\ t \in CallType /\ t.pc = "commit" /\ t.cmd = s.cmd /\ t.row = row /\ t.ids = ids
      /\ t.new = s.new
  BY <1>8 DEF CallType
<1>10. call' = [call EXCEPT ![c] = t]
  BY <1>0, <1>1, <1>2, <1>3, <1>7, <1>8 DEF TypeOK
<1>11. Becomes(c, t) /\ call'[c] = t
  BY <1>0, <1>1, <1>2, <1>9, <1>10 DEF Becomes, TypeOK
<1>12. LocksKept(c)
  BY <1>1, LockMoves
<1>13. lock'[cmd.key] = c /\ Key(c)' = cmd.key
  BY <1>0, <1>1, <1>2, <1>9, <1>11 DEF TypeOK, Key
<1>14. OfClass(row, cmd.class)
  BY <1>4, <1>5
<1>15. Replaying(c)'
  BY <1>1, <1>2, <1>3, <1>6, <1>9, <1>11, <1>13 DEF Replaying, Own
<1>16. CallInv(c)'
  BY <1>1, <1>2, <1>3, <1>4, <1>7, <1>9, <1>11, <1>13, <1>14, <1>15 DEF CallInv, OfClass
<1>. QED  BY <1>0, <1>11, <1>12, <1>16, CallStep

LEMMA ReserveInv ==
    ASSUME LedgerAssumption, LedgerInv, NEW c \in Calls, Reserve(c)
    PROVE  LedgerInv'
<1>. DEFINE cmd == call[c].cmd
            row == ledger[Key(c)]
<1>0. /\ TypeOK /\ UNCHANGED <<ledger, identities, rows, job, now, faults>>
      /\ call[c].pc = "reserve" /\ lock[Key(c)] = None /\ faults' \in 0 .. MaxFaults
  BY DEF LedgerInv, TypeOK, Reserve, Key
<1>1. Key(c) \in Keys
  BY <1>0, CallTypes
<1>2. row # None => row.status = "COMPLETED"
  BY <1>1 DEF LedgerInv, KeyInv
<1>3. \/ /\ Fresh(row)
         /\ lock' = [lock EXCEPT ![Key(c)] = c]
         /\ call' = [call EXCEPT ![c] = [@ EXCEPT !.pc = "execute", !.row = Processing(cmd),
                                                  !.ids = SyncedIdentities(cmd, TRUE)]]
      \/ Answered(c, Answer("conflict", None)) /\ UNCHANGED lock
      \/ /\ row # None /\ requestHashMatches(row, cmd) /\ CredentialsMatch(cmd, row)
         /\ lock' = [lock EXCEPT ![Key(c)] = c]
         /\ call' = [call EXCEPT ![c] = [@ EXCEPT !.pc = "commit", !.row = row,
                                                  !.ids = SyncedIdentities(cmd, FALSE)]]
  <2>1. ~Fresh(row) => row # None /\ row.status = "COMPLETED"
    BY <1>2 DEF Fresh
  <2>. QED  BY <2>1, Zenon DEF Reserve, Key
<1>. QED  BY <1>0, <1>3, TakenInv, ReplayedInv, RefusedInv, LockStays

-----------------------------------------------------------------------------
(* The command *)

LEMMA AdoptInv ==
    ASSUME LedgerAssumption, LedgerInv, NEW c \in Calls, Adopt(c)
    PROVE  LedgerInv'
<1>0. /\ TypeOK /\ CallInv(c) /\ UNCHANGED <<ledger, identities, rows, job, now, faults>>
      /\ call[c].pc = "execute" /\ faults' \in 0 .. MaxFaults
  BY DEF LedgerInv, TypeOK, Adopt
<1>1. PICK cmd \in CommandType : cmd = call[c].cmd /\ cmd # None /\ Key(c) = cmd.key /\ cmd.key \in Keys
  BY <1>0, CallTypes DEF LedgerAssumption
<1>2. lock[cmd.key] = c
  BY <1>0, <1>1 DEF CallInv
<1>3. PICK i \in KeptRows(cmd.key) :
        \/ /\ rows[i].class = cmd.class
           /\ call' = [call EXCEPT ![c] = [@ EXCEPT !.pc = "commit", !.row = Complete(call[c].row, i)]]
           /\ UNCHANGED lock
        \/ Answered(c, Answer("conflict", None)) /\ Unlock(cmd.key)
  BY <1>1, Zenon DEF Adopt
<1>4. CASE Answered(c, Answer("conflict", None)) /\ Unlock(cmd.key)
  <2>1. LocksKept(c)
    BY <1>1, <1>2, <1>4, LockMoves DEF Unlock
  <2>. QED  BY <1>0, <1>4, <2>1, RefusedInv
<1>5. CASE /\ rows[i].class = cmd.class
           /\ call' = [call EXCEPT ![c] = [@ EXCEPT !.pc = "commit", !.row = Complete(call[c].row, i)]]
           /\ UNCHANGED lock
  <2>1. KeepsKey /\ i \in DOMAIN rows /\ rows[i].key = cmd.key /\ i \in Nat
    BY <1>0, <1>3 DEF KeptRows, TypeOK
  <2>2. Own(cmd, i)
    BY <1>5, <2>1 DEF Own, KeepsKey
  <2>3. PICK s \in CallType : /\ s = call[c] /\ s.new = None /\ s.row = Processing(cmd)
                              /\ Workflow => IdsOf(s.ids, cmd.class)
    BY <1>0, <1>1 DEF TypeOK, CallInv
  <2>4. s.row \in RowType /\ OfClass(s.row, cmd.class) /\ now \in Nat
    BY <1>0, <2>3, ProcessingType DEF TypeOK
  <2>5. PICK row \in RowType : /\ row = Complete(s.row, i)
                               /\ row.status = "COMPLETED" /\ row.resource = i /\ row.expires \in Nat
                               /\ OfClass(row, cmd.class)
    BY <2>1, <2>4, CompleteType
  <2>6. row # None /\ row.expires # None
    BY <2>5 DEF LedgerAssumption
  <2>7. PICK t : t = [s EXCEPT !.pc = "commit", !.row = row]
    OBVIOUS
  <2>8. t \in CallType /\ t.pc = "commit" /\ t.cmd = s.cmd /\ t.row = row /\ t.ids = s.ids /\ t.new = s.new
    BY <2>7 DEF CallType
  <2>9. call' = [call EXCEPT ![c] = t]
    BY <1>0, <1>5, <2>3, <2>5, <2>7 DEF TypeOK
  <2>10. Becomes(c, t) /\ call'[c] = t
    BY <1>0, <1>1, <2>3, <2>8, <2>9 DEF Becomes, TypeOK
  <2>11. Key(c)' = cmd.key /\ lock'[cmd.key] = c
    BY <1>1, <1>2, <1>5, <2>3, <2>8, <2>10 DEF Key
  <2>12. Replaying(c)'
    BY <1>0, <1>1, <2>1, <2>2, <2>3, <2>5, <2>8, <2>10 DEF Replaying, Own
  <2>13. CallInv(c)'
    BY <1>1, <2>3, <2>5, <2>6, <2>8, <2>10, <2>11, <2>12 DEF CallInv, OfClass
  <2>. QED  BY <1>0, <1>5, <2>10, <2>13, CallStep, LockStays
<1>. QED  BY <1>3, <1>4, <1>5

\* An earlier resource of a fresh key is over, if it does not keep its key.
LEMMA EarlierOver ==
    ASSUME LedgerAssumption, LedgerInv, NEW k \in Keys, Fresh(ledger[k]), KeptRows(k) = {},
           NEW i \in DOMAIN rows, rows[i].key = k
    PROVE  ~KeepsKey /\ Over(i, now)
<1>1. ~KeepsKey
  BY DEF KeptRows
<1>2. TypeOK /\ RowInv(i)
  BY DEF LedgerInv
<1>3. rows[i].at \in Nat /\ Retention \in Nat /\ now \in Nat
  <2>1. rows \in Seq(ResourceType) /\ now \in Nat
    BY <1>2 DEF TypeOK
  <2>2. rows[i] \in ResourceType
    BY <2>1
  <2>. QED  BY <2>1, <2>2 DEF ResourceType, LedgerAssumption
<1>4. ASSUME ledger[k] # None, Over(i, ledger[k].expires) PROVE Over(i, now)
  <2>1. ledger[k].expires \in Nat /\ ledger[k].expires <= now
    BY <1>2, <1>4 DEF Fresh, TypeOK, RowType
  <2>. QED  BY <1>3, <1>4, <2>1 DEF Over
<1>. QED  BY <1>1, <1>2, <1>4 DEF RowInv

LEMMA ExecuteInv ==
    ASSUME LedgerAssumption, LedgerInv, NEW c \in Calls, Execute(c)
    PROVE  LedgerInv'
<1>0. /\ TypeOK /\ CallInv(c) /\ UNCHANGED <<ledger, identities, rows, job, now, faults>>
      /\ call[c].pc = "execute" /\ KeptRows(Key(c)) = {} /\ faults' \in 0 .. MaxFaults
  BY DEF LedgerInv, TypeOK, Execute, Key
<1>1. PICK cmd \in CommandType : cmd = call[c].cmd /\ cmd # None /\ Key(c) = cmd.key /\ cmd.key \in Keys
  BY <1>0, CallTypes DEF LedgerAssumption
<1>2. lock[cmd.key] = c /\ Fresh(ledger[cmd.key])
  BY <1>0, <1>1 DEF CallInv
<1>3. \/ Answered(c, Answer("conflict", None)) /\ Unlock(cmd.key)
      \/ /\ call' = [call EXCEPT ![c] =
                       [@ EXCEPT !.pc = "commit",
                                 !.new = [Resource(cmd, job) EXCEPT !.spelling = "plain"],
                                 !.row = Complete(call[c].row, None)]]
         /\ UNCHANGED lock
  BY <1>1, Zenon DEF Execute
<1>4. CASE Answered(c, Answer("conflict", None)) /\ Unlock(cmd.key)
  <2>1. LocksKept(c)
    BY <1>1, <1>2, <1>4, LockMoves DEF Unlock
  <2>. QED  BY <1>0, <1>4, <2>1, RefusedInv
<1>5. CASE /\ call' = [call EXCEPT ![c] =
                         [@ EXCEPT !.pc = "commit",
                                   !.new = [Resource(cmd, job) EXCEPT !.spelling = "plain"],
                                   !.row = Complete(call[c].row, None)]]
           /\ UNCHANGED lock
  <2>1. job \in {"PENDING", "RUNNING", "COMPLETED", "CANCELED"} /\ now \in Nat
    BY <1>0 DEF TypeOK
  <2>0. PICK new : new = [Resource(cmd, job) EXCEPT !.spelling = "plain"]
    OBVIOUS
  <2>2. /\ new \in ResourceType
        /\ new.key = cmd.key /\ new.class = cmd.class /\ new.text = cmd.text
        /\ new.at = now /\ new.before = job
    <3>1. cmd.key \in Keys /\ cmd.class \in Nat /\ cmd.text \in Nat
      BY DEF CommandType
    <3>2. new = [key |-> cmd.key, spelling |-> "plain", class |-> cmd.class,
                 text |-> cmd.text, before |-> job, at |-> now]
      BY <2>0 DEF Resource
    <3>. QED  BY ONLY <2>1, <3>1, <3>2 DEF ResourceType
  <2>3. PICK s \in CallType : /\ s = call[c] /\ s.row = Processing(cmd)
                              /\ Workflow => IdsOf(s.ids, cmd.class)
    BY <1>0, <1>1 DEF TypeOK, CallInv
  <2>4. s.row \in RowType /\ OfClass(s.row, cmd.class)
    BY <2>3, ProcessingType
  <2>5. PICK row \in RowType : /\ row = Complete(s.row, None)
                               /\ row.status = "COMPLETED"
                               /\ row.expires = now + Retention /\ row.expires \in Nat
                               /\ OfClass(row, cmd.class)
    <3>1. /\ Complete(s.row, None) \in RowType
          /\ Complete(s.row, None).status = "COMPLETED"
          /\ Complete(s.row, None).expires = now + Retention /\ Complete(s.row, None).expires \in Nat
          /\ OfClass(Complete(s.row, None), cmd.class)
      BY <2>1, <2>4, CompleteType
    <3>. QED  BY <3>1
  <2>6. row # None /\ row.expires # None /\ new # None
    BY <2>2, <2>5 DEF LedgerAssumption
  <2>7. PICK t : t = [s EXCEPT !.pc = "commit", !.new = new, !.row = row]
    OBVIOUS
  <2>8. t \in CallType /\ t.pc = "commit" /\ t.cmd = s.cmd /\ t.row = row /\ t.ids = s.ids /\ t.new = new
    BY <2>2, <2>7 DEF CallType
  <2>9. call' = [call EXCEPT ![c] = t]
    BY <1>0, <1>5, <2>0, <2>3, <2>5, <2>7 DEF TypeOK
  <2>10. Becomes(c, t) /\ call'[c] = t
    BY <1>0, <1>1, <2>3, <2>8, <2>9 DEF Becomes, TypeOK
  <2>11. Key(c)' = cmd.key /\ lock'[cmd.key] = c
    BY <1>1, <1>2, <1>5, <2>3, <2>8, <2>10 DEF Key
  <2>12. \A i \in DOMAIN rows : rows[i].key = cmd.key => ~KeepsKey /\ Over(i, now)
    BY <1>0, <1>1, <1>2, EarlierOver
  <2>13. Kind = "cancel" /\ job = "CANCELED" => rows # <<>>
    BY DEF LedgerInv, JobInv
  <2>14. now' = now /\ rows' = rows /\ now <= now
    BY <1>0, <2>1
  <2>15. Inserting(c)'
    <3>1. /\ call'[c].new = new /\ call'[c].cmd = cmd
          /\ call'[c].row.expires = new.at + Retention
      BY <1>1, <2>2, <2>3, <2>5, <2>8, <2>10
    <3>2. \A i \in DOMAIN rows' : rows'[i].key = new.key => ~KeepsKey /\ Over(i, new.at)'
      BY <2>2, <2>12, <2>14 DEF Over
    <3>3. new.at <= now'
      BY <2>2, <2>14
    <3>. QED  BY <2>2, <2>13, <2>14, <3>1, <3>2, <3>3 DEF Inserting, Over
  <2>16. CallInv(c)'
    BY <1>1, <2>3, <2>5, <2>6, <2>8, <2>10, <2>11, <2>15 DEF CallInv, OfClass
  <2>. QED  BY <1>0, <1>5, <2>10, <2>16, CallStep, LockStays
<1>. QED  BY <1>3, <1>4, <1>5

-----------------------------------------------------------------------------
(* Commit *)

NewRowsOf(k) == \A i \in DOMAIN rows' \ DOMAIN rows : rows'[i].key = k

\* The transaction that holds a key ends: its call is answered.
Ends(c, row) ==
    /\ call[c].pc = "commit"
    /\ ledger' = [ledger EXCEPT ![Key(c)] = row]
    /\ identities' = [identities EXCEPT ![Key(c)] = call[c].ids]
    /\ lock' = [lock EXCEPT ![Key(c)] = None]
    /\ \E a \in AnswerType :
          /\ a.outcome = "error" \/ (a.outcome = "ok" /\ a.resource = row.resource)
          /\ Answered(c, a)
    /\ now' = now /\ faults' \in 0 .. MaxFaults

LEMMA EndsInv ==
    ASSUME LedgerAssumption, LedgerInv, NEW c \in Calls, NEW row \in RowType, Ends(c, row),
           row.status = "COMPLETED", row.expires # None, OfClass(row, call[c].cmd.class),
           RowsGrow, NewRowsOf(Key(c)), Own(call[c].cmd, row.resource)',
           job' \in {"PENDING", "RUNNING", "COMPLETED", "CANCELED"}
    PROVE  TypeOK' /\ (\A d \in Calls : CallInv(d)') /\ (\A k \in Keys : KeyInv(k)')
<1>0. TypeOK /\ call[c].pc = "commit" /\ CallInv(c)
  BY DEF LedgerInv, Ends
<1>1. PICK a \in AnswerType : /\ a.outcome = "error" \/ (a.outcome = "ok" /\ a.resource = row.resource)
                              /\ Answered(c, a)
  BY DEF Ends
<1>2. PICK k \in Keys : k = Key(c) /\ k = call[c].cmd.key
  BY <1>0, CallTypes
<1>3. PICK t : /\ t = call'[c] /\ Becomes(c, t)
               /\ t.pc = "done" /\ t.cmd = call[c].cmd /\ t.new = None /\ t.answer = a
  BY <1>0, <1>1, AnsweredCall
<1>4. /\ call' \in [Calls -> CallType]
      /\ \A d \in Calls : call'[d].pc # "idle" => call'[d].cmd # None
      /\ \A d \in Calls \ {c} : call'[d] = call[d]
  BY <1>0, <1>3, BecomesType
<1>5. call[c].ids \in IdentityType
  BY <1>0 DEF TypeOK, CallType
<1>6. /\ ledger'[k] = row /\ \A x \in Keys \ {k} : ledger'[x] = ledger[x]
      /\ ledger' \in [Keys -> RowType \cup {None}]
  BY <1>0, <1>2 DEF Ends, TypeOK
<1>7. /\ identities'[k] = call[c].ids /\ \A x \in Keys \ {k} : identities'[x] = identities[x]
      /\ identities' \in [Keys -> IdentityType]
  BY <1>0, <1>2, <1>5 DEF Ends, TypeOK
<1>8. /\ \A x \in Keys \ {k} : lock'[x] = lock[x]
      /\ lock' \in [Keys -> Calls \cup {None}]
  BY <1>0, <1>2 DEF Ends, TypeOK
<1>9. TypeOK'
  <2>1. \A x \in Keys : ledger'[x] # None =>
            (ledger'[x].status = "PROCESSING") = (ledger'[x].expires = None)
    <3>. TAKE x \in Keys
    <3>1. CASE x = k
      BY <1>6, <3>1
    <3>2. CASE x # k
      BY <1>0, <1>6, <3>2 DEF TypeOK
    <3>. QED  BY <3>1, <3>2
  <2>2. rows' \in Seq(ResourceType) /\ now' \in 0 .. MaxTime /\ faults' \in 0 .. MaxFaults
    BY <1>0 DEF RowsGrow, Ends, TypeOK
  <2>. QED  BY <1>4, <1>6, <1>7, <1>8, <2>1, <2>2 DEF TypeOK
<1>10. ASSUME NEW d \in Calls PROVE CallInv(d)'
  <2>1. CASE d = c
    <3>1. a # None
      BY DEF LedgerAssumption
    <3>. QED  BY <1>1, <1>3, <2>1, <3>1 DEF CallInv, Own
  <2>2. CASE d # c
    <3>1. ASSUME call[d].pc \in {"execute", "commit"} PROVE Key(d) \in Keys \ {k} /\ lock[Key(d)] = d
      <4>1. lock[Key(d)] = d /\ Key(d) \in Keys
        BY <1>0, <3>1, CallTypes DEF LedgerInv, CallInv
      <4>2. lock[k] = c
        BY <1>0, <1>2 DEF CallInv
      <4>. QED  BY <2>2, <4>1, <4>2
    <3>2. Aside(d)
      BY <1>2, <1>4, <1>6, <1>8, <2>2, <3>1 DEF Aside, NewRowsOf
    <3>. QED  BY <1>0, <3>2, CallKept DEF LedgerInv
  <2>. QED  BY <2>1, <2>2
<1>11. ASSUME NEW x \in Keys PROVE KeyInv(x)'
  <2>1. CASE x = k
    <3>1. /\ row.resource \in DOMAIN rows'
          /\ rows'[row.resource].key = k /\ rows'[row.resource].class = call[c].cmd.class
      BY <1>2, <1>3 DEF Own
    <3>2. Workflow => IdsOf(call[c].ids, call[c].cmd.class)
      BY <1>0 DEF CallInv
    <3>. QED  BY <1>6, <1>7, <2>1, <3>1, <3>2 DEF KeyInv
  <2>2. CASE x # k
    BY <1>6, <1>7, <2>2, KeyKept DEF LedgerInv
  <2>. QED  BY <2>1, <2>2
<1>. QED  BY <1>9, <1>10, <1>11

\* A command carried out again, or a resource adopted: nothing is added.
LEMMA ReplayCommitted ==
    ASSUME LedgerAssumption, LedgerInv, NEW c \in Calls, call[c].new = None,
           Ends(c, call[c].row), UNCHANGED <<rows, job>>
    PROVE  LedgerInv'
<1>0. TypeOK /\ call[c].pc = "commit" /\ CallInv(c)
  BY DEF LedgerInv, Ends
<1>1. PICK row \in RowType : /\ row = call[c].row /\ row.status = "COMPLETED" /\ row.expires # None
                             /\ OfClass(row, call[c].cmd.class)
  BY <1>0, CallTypes DEF CallInv
<1>2. Own(call[c].cmd, row.resource) /\ (KeepsKey \/ row = ledger[Key(c)])
  BY <1>0, <1>1 DEF CallInv, Replaying
<1>3. RowsGrow /\ NewRowsOf(Key(c))
  BY <1>0 DEF RowsGrow, NewRowsOf, Ends, TypeOK
<1>4. call'[c].cmd = call[c].cmd
  BY <1>0, AnsweredCall DEF Ends
<1>5. Own(call[c].cmd, row.resource)'
  BY <1>2, <1>4 DEF Own
<1>6. TypeOK' /\ (\A d \in Calls : CallInv(d)') /\ (\A k \in Keys : KeyInv(k)')
  BY <1>0, <1>1, <1>3, <1>5, EndsInv DEF TypeOK
<1>7. ASSUME NEW i \in DOMAIN rows PROVE RowInv(i)'
  <2>1. KeepsKey \/ ledger' = ledger
    BY <1>0, <1>1, <1>2 DEF Ends, TypeOK
  <2>. QED  BY <1>3, <2>1, RowKept DEF LedgerInv
<1>8. OneEffect' /\ JobInv'
  BY DEF LedgerInv, OneEffect, JobInv
<1>. QED  BY <1>6, <1>7, <1>8 DEF LedgerInv

\* A command carried out: its resource is the next one.
LEMMA InsertCommitted ==
    ASSUME LedgerAssumption, LedgerInv, NEW c \in Calls, call[c].new # None,
           Ends(c, [call[c].row EXCEPT !.resource = Len(rows) + 1]),
           rows' = Append(rows, call[c].new),
           job' \in {"PENDING", "RUNNING", "COMPLETED", "CANCELED"}
    PROVE  LedgerInv'
<1>0. TypeOK /\ call[c].pc = "commit" /\ CallInv(c)
  BY DEF LedgerInv, Ends
<1>1. /\ call[c].row \in RowType /\ call[c].row.status = "COMPLETED" /\ call[c].row.expires # None
      /\ OfClass(call[c].row, call[c].cmd.class)
  BY <1>0, CallTypes DEF CallInv
<1>2. PICK new \in ResourceType : new = call[c].new
  BY CallTypes, <1>0
<1>3. PICK cmd \in CommandType : cmd = call[c].cmd /\ cmd \in Commands /\ cmd.key = Key(c) /\ Key(c) \in Keys
  BY <1>0, CallTypes
<1>4. PICK n \in Nat : n = Len(rows) + 1
  BY <1>0, LenProperties DEF TypeOK
<1>5. PICK row : row = [call[c].row EXCEPT !.resource = n]
  OBVIOUS
<1>6. /\ row \in RowType /\ row.status = "COMPLETED" /\ row.resource = n
      /\ row.expires = call[c].row.expires
      /\ row.hash = call[c].row.hash /\ row.aliases = call[c].row.aliases
  BY <1>1, <1>5 DEF RowType
<1>7. OfClass(row, cmd.class) /\ row.expires # None
  BY <1>1, <1>3, <1>6 DEF OfClass
<1>8. /\ new.key = cmd.key /\ new.class = cmd.class /\ new.text = cmd.text
      /\ new.at <= now /\ row.expires = new.at + Retention
      /\ \A i \in DOMAIN rows : rows[i].key = cmd.key => ~KeepsKey /\ Over(i, new.at)
      /\ Kind = "cancel" /\ new.before = "CANCELED" => rows # <<>>
  BY <1>0, <1>2, <1>3, <1>6 DEF CallInv, Inserting
<1>9. /\ rows \in Seq(ResourceType) /\ rows' \in Seq(ResourceType)
      /\ DOMAIN rows = 1 .. n - 1 /\ DOMAIN rows' = 1 .. n
      /\ \A i \in 1 .. n - 1 : rows'[i] = rows[i]
      /\ rows'[n] = new
  BY <1>0, <1>2, <1>4, AppendProperties, LenProperties DEF TypeOK
<1>10. RowsGrow
  BY <1>0, <1>4, <1>9 DEF RowsGrow, Ends, TypeOK
<1>11. Ends(c, row)
  BY <1>4, <1>5
<1>12. NewRowsOf(Key(c))
  BY <1>3, <1>4, <1>8, <1>9 DEF NewRowsOf
<1>13. call'[c].cmd = call[c].cmd
  BY <1>0, AnsweredCall DEF Ends
<1>14. Own(call[c].cmd, row.resource)'
  BY <1>3, <1>4, <1>6, <1>8, <1>9, <1>13 DEF Own
<1>15. TypeOK' /\ (\A d \in Calls : CallInv(d)') /\ (\A k \in Keys : KeyInv(k)')
  BY <1>3, <1>6, <1>7, <1>10, <1>11, <1>12, <1>14, EndsInv
<1>16. /\ ledger'[cmd.key] = row /\ \A k \in Keys \ {cmd.key} : ledger'[k] = ledger[k]
       /\ now' = now /\ now \in Nat
  BY <1>0, <1>3, <1>11 DEF Ends, TypeOK
<1>17. new.at \in Nat /\ Retention \in Nat
  BY DEF ResourceType, LedgerAssumption
<1>18. ASSUME NEW i \in DOMAIN rows PROVE RowInv(i)'
  <2>0. rows[i] \in ResourceType
    BY <1>9
  <2>1. rows[i].key \in Keys /\ rows[i].at \in Nat
    BY <2>0 DEF ResourceType
  <2>2. CASE rows[i].key = cmd.key
    <3>1. Over(i, now)
      BY <1>8, <1>16, <1>17, <2>1, <2>2 DEF Over
    <3>. QED  BY <1>10, <3>1, RowKept DEF LedgerInv
  <2>3. CASE rows[i].key # cmd.key
    BY <1>10, <1>16, <2>1, <2>3, RowKept DEF LedgerInv
  <2>. QED  BY <2>2, <2>3
<1>19. RowInv(n)'
  <2>1. new.key = cmd.key /\ new.at <= now' /\ new.at + Retention <= row.expires
    BY <1>8, <1>16, <1>17
  <2>2. ledger'[rows'[n].key] # None /\ Over(n, ledger[rows[n].key].expires)'
    BY <1>6, <1>8, <1>9, <1>16, <2>1 DEF Over, LedgerAssumption
  <2>3. ASSUME Kind = "cancel", new.before = "CANCELED" PROVE \E i \in 1 .. n - 1 : Over(i, new.at)'
    <3>1. 1 \in DOMAIN rows /\ 1 \in 1 .. n - 1
      BY <1>4, <1>8, <1>9, <2>3, EmptySeq
    <3>2. rows[1].key = cmd.key
      BY <1>3, <2>3, <3>1 DEF LedgerInv, RowInv, LedgerAssumption
    <3>3. Over(1, new.at)'
      BY <1>8, <1>9, <3>1, <3>2 DEF Over
    <3>. QED  BY <3>1, <3>3
  <2>. QED  BY <1>3, <1>9, <2>1, <2>2, <2>3 DEF RowInv, Over
<1>20. OneEffect'
  <2>. SUFFICES ASSUME NEW i \in 1 .. n, NEW j \in 1 .. n, i < j, rows'[i].key = rows'[j].key
                PROVE  ~KeepsKey /\ rows'[j].at >= rows'[i].at + Retention
    BY <1>9 DEF OneEffect
  <2>1. i \in 1 .. n - 1
    BY <1>4
  <2>2. CASE j = n
    <3>1. ~KeepsKey /\ Over(i, new.at)
      BY <1>8, <1>9, <2>1, <2>2
    <3>2. rows[i] \in ResourceType
      BY <1>9, <2>1
    <3>3. rows[i].at \in Nat
      BY <3>2 DEF ResourceType
    <3>. QED  BY <1>9, <1>17, <2>1, <2>2, <3>1, <3>3 DEF Over
  <2>3. CASE j # n
    <3>1. j \in 1 .. n - 1
      BY <1>4, <2>3
    <3>. QED  BY <1>9, <2>1, <3>1 DEF LedgerInv, OneEffect
  <2>. QED  BY <2>2, <2>3
<1>21. JobInv'
  <2>1. Len(rows') # 0
    BY <1>4, <1>9, LenProperties
  <2>. QED  BY <2>1 DEF JobInv
<1>22. \A i \in DOMAIN rows' : RowInv(i)'
  <2>. TAKE i \in DOMAIN rows'
  <2>1. i = n \/ i \in DOMAIN rows
    BY <1>4, <1>9
  <2>. QED  BY <1>18, <1>19, <2>1
<1>. QED  BY <1>15, <1>20, <1>21, <1>22 DEF LedgerInv

\* Commit, with the report of its outcome or without.
LEMMA CommitInv ==
    ASSUME LedgerAssumption, LedgerInv, NEW c \in Calls, Commit(c) \/ CommitUnreported(c)
    PROVE  LedgerInv'
<1>0. /\ TypeOK /\ call[c].pc = "commit" /\ CallInv(c) /\ Committed(c)
      /\ now' = now /\ faults' \in 0 .. MaxFaults
      /\ \/ Answered(c, Answer("ok", CommittedRow(c).resource))
         \/ Answered(c, Answer("error", None))
  BY FaultCounted DEF LedgerInv, TypeOK, Commit, CommitUnreported
<1>1. PICK row : row = CommittedRow(c)
  OBVIOUS
<1>2. call[c].row \in RowType /\ Len(rows) + 1 \in Nat
  BY <1>0, CallTypes, LenProperties DEF CallInv, TypeOK
<1>3. row.resource \in Nat \cup {None}
  BY <1>1, <1>2 DEF CommittedRow, RowType
<1>4. \E a \in AnswerType : /\ a.outcome = "error" \/ (a.outcome = "ok" /\ a.resource = row.resource)
                            /\ Answered(c, a)
  <2>1. CASE Answered(c, Answer("ok", row.resource))
    <3>1. /\ Answer("ok", row.resource) \in AnswerType
          /\ Answer("ok", row.resource).outcome = "ok"
          /\ Answer("ok", row.resource).resource = row.resource
      BY <1>3 DEF Answer, AnswerType
    <3>. QED  BY <2>1, <3>1
  <2>2. CASE Answered(c, Answer("error", None))
    BY <2>2, NoResource
  <2>. QED  BY <1>0, <1>1, <2>1, <2>2
<1>5. Ends(c, row)
  BY <1>0, <1>1, <1>4 DEF Ends, Committed, Unlock
<1>6. CASE call[c].new = None
  <2>1. row = call[c].row /\ UNCHANGED <<rows, job>>
    BY <1>0, <1>1, <1>6 DEF CommittedRow, Committed
  <2>. QED  BY <1>5, <1>6, <2>1, ReplayCommitted
<1>7. CASE call[c].new # None
  <2>1. row = [call[c].row EXCEPT !.resource = Len(rows) + 1] /\ rows' = Append(rows, call[c].new)
    BY <1>0, <1>1, <1>7 DEF CommittedRow, Committed
  <2>2. job' \in {"PENDING", "RUNNING", "COMPLETED", "CANCELED"}
    BY <1>0 DEF Committed, TypeOK
  <2>. QED  BY <1>5, <1>7, <2>1, <2>2, InsertCommitted
<1>. QED  BY <1>6, <1>7

-----------------------------------------------------------------------------
(* The sweep, the job and the clock *)

LEMMA CleanupInv ==
    ASSUME LedgerAssumption, LedgerInv, NEW k \in Keys, CleanupCommandIdempotencyKeys(k)
    PROVE  LedgerInv'
<1>0. /\ TypeOK /\ UNCHANGED <<lock, call, rows, job, now, faults>>
      /\ lock[k] = None /\ ledger[k] # None /\ ledger[k].expires # None /\ ledger[k].expires <= now
  BY DEF LedgerInv, CleanupCommandIdempotencyKeys
<1>1. /\ ledger'[k] = None /\ \A x \in Keys \ {k} : ledger'[x] = ledger[x]
      /\ identities'[k] = NoIdentity /\ \A x \in Keys \ {k} : identities'[x] = identities[x]
      /\ ledger' \in [Keys -> RowType \cup {None}] /\ identities' \in [Keys -> IdentityType]
  BY <1>0, NoIdentityType DEF CleanupCommandIdempotencyKeys, TypeOK
<1>2. RowsGrow
  BY <1>0 DEF RowsGrow, TypeOK
<1>3. TypeOK'
  <2>1. \A x \in Keys : ledger'[x] # None =>
            (ledger'[x].status = "PROCESSING") = (ledger'[x].expires = None)
    BY <1>0, <1>1 DEF TypeOK
  <2>. QED  BY <1>0, <1>1, <2>1 DEF TypeOK
<1>4. ASSUME NEW d \in Calls PROVE CallInv(d)'
  <2>1. ASSUME call[d].pc \in {"execute", "commit"} PROVE Key(d) \in Keys \ {k} /\ lock[Key(d)] = d
    BY <1>0, <2>1, CallTypes DEF LedgerInv, CallInv, LedgerAssumption
  <2>2. Aside(d)
    BY <1>0, <1>1, <2>1 DEF Aside
  <2>. QED  BY <1>0, <1>2, <2>2, CallKept DEF LedgerInv
<1>5. ASSUME NEW x \in Keys PROVE KeyInv(x)'
  <2>1. CASE x = k
    BY <1>1, <2>1 DEF KeyInv
  <2>2. CASE x # k
    BY <1>1, <1>2, <2>2, KeyKept DEF LedgerInv
  <2>. QED  BY <2>1, <2>2
<1>6. ASSUME NEW i \in DOMAIN rows PROVE RowInv(i)'
  <2>0. rows[i] \in ResourceType
    BY <1>0 DEF TypeOK
  <2>1. rows[i].at \in Nat /\ rows[i].key \in Keys /\ Retention \in Nat
    BY <2>0 DEF ResourceType, LedgerAssumption
  <2>2. CASE rows[i].key = k
    <3>1. ledger[k].expires \in Nat /\ now \in Nat
      BY <1>0 DEF TypeOK, RowType
    <3>2. KeepsKey \/ Over(i, now)
      BY <1>0, <2>1, <2>2, <3>1 DEF LedgerInv, RowInv, Over
    <3>. QED  BY <1>2, <3>2, RowKept DEF LedgerInv
  <2>3. CASE rows[i].key # k
    BY <1>1, <1>2, <2>1, <2>3, RowKept DEF LedgerInv
  <2>. QED  BY <2>2, <2>3
<1>7. OneEffect' /\ JobInv'
  BY <1>0 DEF LedgerInv, OneEffect, JobInv
<1>. QED  BY <1>0, <1>3, <1>4, <1>5, <1>6, <1>7 DEF LedgerInv

\* Steps that change neither a call nor a table.
LEMMA OutsideInv ==
    ASSUME LedgerAssumption, LedgerInv,
           UNCHANGED <<ledger, identities, lock, call, rows, faults>>,
           now' \in 0 .. MaxTime, now <= now',
           job' \in {"PENDING", "RUNNING", "COMPLETED", "CANCELED"},
           job' = "CANCELED" => job = "CANCELED"
    PROVE  LedgerInv'
<1>0. TypeOK /\ TypeOK'
  BY DEF LedgerInv, TypeOK
<1>1. RowsGrow
  BY <1>0 DEF RowsGrow, TypeOK
<1>2. ASSUME NEW d \in Calls PROVE CallInv(d)'
  <2>1. Aside(d)
    BY DEF Aside, LedgerInv, CallInv
  <2>. QED  BY <1>0, <1>1, <2>1, CallKept DEF LedgerInv
<1>3. \A k \in Keys : KeyInv(k)'
  BY DEF LedgerInv, KeyInv
<1>4. \A i \in DOMAIN rows : RowInv(i)'
  BY <1>1, RowKept DEF LedgerInv
<1>5. OneEffect' /\ JobInv'
  BY DEF LedgerInv, OneEffect, JobInv
<1>. QED  BY <1>0, <1>2, <1>3, <1>4, <1>5 DEF LedgerInv

-----------------------------------------------------------------------------
\* What migration 11 leaves in the ledger.
LEMMA RowRecord ==
    ASSUME LedgerAssumption, NEW hash \in Hashes, NEW aliases \in SUBSET Hashes
    PROVE  /\ Row(hash, aliases, 1, Retention) \in RowType
           /\ Row(hash, aliases, 1, Retention).status = "COMPLETED"
           /\ Row(hash, aliases, 1, Retention).resource = 1
           /\ Row(hash, aliases, 1, Retention).expires = Retention
           /\ Row(hash, aliases, 1, Retention).hash = hash
           /\ Row(hash, aliases, 1, Retention).aliases = aliases
<1>1. Retention \in Nat
  BY DEF LedgerAssumption
<1>. QED  BY <1>1 DEF Row, RowType

LEMMA InitInv == ASSUME LedgerAssumption, Init PROVE LedgerInv
<1>1. Migrated # None => Migrated \in Commands /\ Migrated \in CommandType /\ Valid(Migrated)
  BY DEF LedgerAssumption
<1>2. PICK res : res = Resource(Migrated, "PENDING")
  OBVIOUS
<1>3. now = 0 /\ Retention \in Nat \ {0}
  BY DEF Init, LedgerAssumption
<1>4. Migrated # None =>
        /\ res \in ResourceType /\ res.key = Migrated.key /\ res.class = Migrated.class
        /\ res.at = 0 /\ res.before = "PENDING"
  <2>1. ASSUME Migrated # None
        PROVE  /\ Migrated.key \in Keys /\ Migrated.class \in Nat /\ Migrated.text \in Nat
               /\ Migrated.spelling \in {"plain", "padded"}
    BY <1>1, <2>1 DEF CommandType, Valid
  <2>. QED  BY <1>2, <1>3, <2>1 DEF Resource, ResourceType
<1>5. rows = IF Migrated = None THEN <<>> ELSE <<res>>
  BY <1>2 DEF Init
<1>6. /\ rows \in Seq(ResourceType)
      /\ \A i \in DOMAIN rows : i = 1 /\ rows[i] = res /\ Migrated # None
      /\ Migrated # None => 1 \in DOMAIN rows
  BY <1>4, <1>5
<1>7. ASSUME NEW k \in Keys, HasMigratedRow(k)
      PROVE  /\ ledger[k] \in RowType /\ ledger[k].status = "COMPLETED"
             /\ ledger[k].resource = 1 /\ ledger[k].expires = Retention
             /\ OfClass(ledger[k], Migrated.class)
             /\ identities[k] \in IdentityType
             /\ Workflow => IdsOf(identities[k], Migrated.class)
  <2>1. Migrated # None /\ Migrated \in CommandType
    BY <1>1, <1>7 DEF HasMigratedRow
  <2>2. PICK hash \in Hashes, aliases \in SUBSET Hashes :
          /\ ledger[k] = Row(hash, aliases, 1, Retention)
          /\ hash.class = Migrated.class /\ \A h \in aliases : h.class = Migrated.class
    <3>1. /\ LegacyHash(Migrated, "canonical") \in Hashes
          /\ LegacyHash(Migrated, "canonical").class = Migrated.class
          /\ RequestHash(Migrated) \in Hashes /\ RequestHash(Migrated).class = Migrated.class
          /\ CompatibleHashes(Migrated) \in SUBSET Hashes
          /\ \A h \in CompatibleHashes(Migrated) : h.class = Migrated.class
      BY <2>1, HashTypes DEF Paths
    <3>2. ledger[k] = IF Workflow
                      THEN Row(LegacyHash(Migrated, "canonical"), CompatibleHashes(Migrated), 1, Retention)
                      ELSE Row(RequestHash(Migrated), {}, 1, Retention)
      BY <1>7 DEF Init
    <3>3. CASE Workflow
      BY <3>1, <3>2, <3>3
    <3>4. CASE ~Workflow
      BY <3>1, <3>2, <3>4
    <3>. QED  BY <3>3, <3>4
  <2>3. identities[k] = [p \in Paths |-> IF Workflow /\ p \in LegacyOperations(Migrated)
                                         THEN LegacyHash(Migrated, p) ELSE None]
    BY <1>7 DEF Init, Paths
  <2>4. /\ \A p \in Paths : LegacyHash(Migrated, p) \in Hashes
        /\ \A p \in Paths : LegacyHash(Migrated, p).class = Migrated.class
        /\ \A p \in Paths : LegacyHash(Migrated, p) # None
    BY <2>1, HashTypes DEF LedgerAssumption
  <2>5. identities[k] \in IdentityType
    BY <2>3, <2>4 DEF IdentityType
  <2>6. Workflow => IdsOf(identities[k], Migrated.class)
    <3>1. "canonical" \in LegacyOperations(Migrated) /\ "canonical" \in Paths
      BY DEF LegacyOperations, Paths
    <3>. QED  BY <2>3, <2>4, <3>1 DEF IdsOf
  <2>. QED  BY <2>2, <2>5, <2>6, RowRecord DEF OfClass
<1>8. ASSUME NEW k \in Keys, ~HasMigratedRow(k)
      PROVE  ledger[k] = None /\ identities[k] = NoIdentity
  BY <1>8 DEF Init, NoIdentity
<1>9. TypeOK
  <2>1. ledger \in [Keys -> RowType \cup {None}]
    <3>1. \A k \in Keys : ledger[k] \in RowType \cup {None}
      BY <1>7, <1>8
    <3>. QED  BY <3>1 DEF Init
  <2>2. identities \in [Keys -> IdentityType]
    <3>1. \A k \in Keys : identities[k] \in IdentityType
      BY <1>7, <1>8, NoIdentityType
    <3>. QED  BY <3>1 DEF Init
  <2>3. \A k \in Keys : ledger[k] # None => (ledger[k].status = "PROCESSING") = (ledger[k].expires = None)
    BY <1>7, <1>8 DEF LedgerAssumption
  <2>4. call \in [Calls -> CallType] /\ \A c \in Calls : call[c].pc = "idle"
    <3>1. Idle.pc = "idle"
      BY DEF Idle
    <3>. QED  BY <3>1, IdleType DEF Init
  <2>5. lock \in [Keys -> Calls \cup {None}] /\ job = "PENDING" /\ faults = 0
    BY DEF Init
  <2>. QED  BY <1>3, <1>6, <2>1, <2>2, <2>3, <2>4, <2>5 DEF TypeOK, LedgerAssumption
<1>10. ASSUME NEW c \in Calls PROVE CallInv(c)
  <2>1. call[c].pc = "idle" /\ call[c].new = None
    BY DEF Init, Idle
  <2>. QED  BY <2>1 DEF CallInv
<1>11. ASSUME NEW k \in Keys PROVE KeyInv(k)
  <2>1. CASE HasMigratedRow(k)
    <3>1. Migrated # None /\ Migrated.key = k
      BY <2>1 DEF HasMigratedRow
    <3>2. 1 \in DOMAIN rows /\ rows[1].key = k /\ rows[1].class = Migrated.class
      BY <1>4, <1>6, <3>1
    <3>. QED  BY <1>7, <2>1, <3>2 DEF KeyInv
  <2>2. CASE ~HasMigratedRow(k)
    BY <1>8, <2>2 DEF KeyInv
  <2>. QED  BY <2>1, <2>2
<1>12. ASSUME NEW i \in DOMAIN rows PROVE RowInv(i)
  <2>1. rows[i] = res /\ Migrated # None /\ Migrated.key \in Keys
    BY <1>1, <1>6 DEF CommandType
  <2>2. KeepsKey \/ HasMigratedRow(Migrated.key)
    BY <2>1 DEF LedgerAssumption, HasMigratedRow, KeepsKey, Workflow
  <2>3. KeepsKey \/ (ledger[rows[i].key] # None /\ Over(i, ledger[rows[i].key].expires))
    BY <1>3, <1>4, <1>7, <2>1, <2>2 DEF Over, LedgerAssumption
  <2>. QED  BY <1>1, <1>3, <1>4, <2>1, <2>3 DEF RowInv
<1>13. OneEffect
  BY <1>6 DEF OneEffect
<1>14. JobInv
  BY DEF Init, JobInv
<1>. QED  BY <1>9, <1>10, <1>11, <1>12, <1>13, <1>14 DEF LedgerInv

LEMMA NextInv == ASSUME LedgerAssumption, LedgerInv, [Next]_vars PROVE LedgerInv'
<1>0. now \in 0 .. MaxTime /\ now \in Nat /\ faults \in 0 .. MaxFaults
      /\ job \in {"PENDING", "RUNNING", "COMPLETED", "CANCELED"}
  BY DEF LedgerInv, TypeOK
<1>1. ASSUME NEW c \in Calls, NEW cmd \in Commands, Send(c, cmd) PROVE LedgerInv'
  BY <1>1, SendInv
<1>2. ASSUME NEW c \in Calls, Reserve(c) PROVE LedgerInv'
  BY <1>2, ReserveInv
<1>3. ASSUME NEW c \in Calls, Adopt(c) PROVE LedgerInv'
  BY <1>3, AdoptInv
<1>4. ASSUME NEW c \in Calls, Execute(c) PROVE LedgerInv'
  BY <1>4, ExecuteInv
<1>5. ASSUME NEW c \in Calls, Commit(c) \/ CommitUnreported(c) PROVE LedgerInv'
  BY <1>5, CommitInv
<1>6. ASSUME NEW c \in Calls, Fail(c) PROVE LedgerInv'
  BY <1>6, FailInv
<1>7. ASSUME NEW c \in Calls, LoseReply(c) PROVE LedgerInv'
  BY <1>7, LoseReplyInv
<1>8. ASSUME NEW c \in Calls, Resend(c) PROVE LedgerInv'
  BY <1>8, ResendInv
<1>9. ASSUME NEW k \in Keys, CleanupCommandIdempotencyKeys(k) PROVE LedgerInv'
  BY <1>9, CleanupInv
<1>10. CASE JobMoves
  BY <1>0, <1>10, OutsideInv DEF JobMoves
<1>11. CASE Tick
  <2>1. MaxTime \in Nat /\ now' = now + 1 /\ now < MaxTime
    BY <1>11 DEF Tick, LedgerAssumption
  <2>2. now' \in 0 .. MaxTime /\ now <= now'
    BY <1>0, <2>1
  <2>. QED  BY <1>0, <1>11, <2>2, OutsideInv DEF Tick
<1>12. CASE UNCHANGED vars
  BY <1>0, <1>12, OutsideInv DEF vars
<1>. QED  BY <1>1, <1>2, <1>3, <1>4, <1>5, <1>6, <1>7, <1>8, <1>9, <1>10, <1>11, <1>12 DEF Next

-----------------------------------------------------------------------------
\* The invariant the results below rest on: every transaction past its
\* Reserve holds its key, every key's row is of one request, and every
\* resource keeps its key, is older than the retention, or is answered for.
THEOREM LedgerInvariant == ASSUME LedgerAssumption PROVE Spec => []LedgerInv
<1>1. Init => LedgerInv
  BY InitInv
<1>2. LedgerInv /\ [Next]_vars => LedgerInv'
  BY NextInv
<1>. QED  BY <1>1, <1>2, PTL DEF Spec

\* What the invariant says of the ledger.
LEMMA LedgerPromises ==
    ASSUME LedgerInv
    PROVE  /\ TypeOK /\ OneEffect /\ NothingInProgress /\ AnswersOwnRequest
           /\ RollbackIdentities /\ CancelReportsTheRun
<1>1. TypeOK /\ OneEffect
  BY DEF LedgerInv
<1>2. NothingInProgress
  BY DEF LedgerInv, KeyInv, CallInv, NothingInProgress
<1>3. AnswersOwnRequest
  BY DEF LedgerInv, CallInv, Own, AnswersOwnRequest
<1>4. RollbackIdentities
  <2>. SUFFICES ASSUME Workflow, NEW k \in Keys, ledger[k] # None
                PROVE  /\ identities[k]["canonical"] # None
                       /\ \A p \in Paths : identities[k][p] # None =>
                             identities[k][p].class = ledger[k].hash.class
    BY DEF RollbackIdentities, Paths
  <2>1. /\ OfClass(ledger[k], rows[ledger[k].resource].class)
        /\ IdsOf(identities[k], rows[ledger[k].resource].class)
    BY DEF LedgerInv, KeyInv
  <2>2. ledger[k].hash.class = rows[ledger[k].resource].class
    BY <2>1 DEF OfClass
  <2>. QED  BY <2>1, <2>2 DEF IdsOf
<1>5. CancelReportsTheRun
  <2>. SUFFICES ASSUME Kind = "cancel", NEW c \in Calls,
                       call[c].pc = "done", call[c].answer.outcome = "ok",
                       rows[call[c].answer.resource].before = "CANCELED"
                PROVE  \E i \in 1 .. call[c].answer.resource - 1 :
                          rows[i].at + Retention <= rows[call[c].answer.resource].at
    BY DEF CancelReportsTheRun
  <2>1. call[c].answer.resource \in DOMAIN rows
    BY DEF LedgerInv, CallInv, Own
  <2>. QED  BY <2>1 DEF LedgerInv, RowInv, Over
<1>. QED  BY <1>1, <1>2, <1>3, <1>4, <1>5

\* A command takes effect once while its row is retained, and for good when
\* its resource keeps the key: however many calls carry it, and however they
\* are interleaved, cut short, retried or answered late.
THEOREM CommandTakesEffectOnce == ASSUME LedgerAssumption PROVE Spec => []OneEffect
<1>1. LedgerInv => OneEffect
  BY LedgerPromises
<1>. QED  BY <1>1, LedgerInvariant, PTL

\* No transaction commits a row that is still PROCESSING, and no caller is
\* told that its command is (Reserve's ErrCommandProcessing is never seen).
THEOREM NothingLeftInProgress == ASSUME LedgerAssumption PROVE Spec => []NothingInProgress
<1>1. LedgerInv => NothingInProgress
  BY LedgerPromises
<1>. QED  BY <1>1, LedgerInvariant, PTL

\* A call that succeeds is answered with a resource made by its own request.
THEOREM AnswersAreOwn == ASSUME LedgerAssumption PROVE Spec => []AnswersOwnRequest
<1>1. LedgerInv => AnswersOwnRequest
  BY LedgerPromises
<1>. QED  BY <1>1, LedgerInvariant, PTL

\* Every row of a workflow command is found by the identity that the older
\* binaries look it up by, and by no other request's.
THEOREM IdentitiesFollowRows == ASSUME LedgerAssumption PROVE Spec => []RollbackIdentities
<1>1. LedgerInv => RollbackIdentities
  BY LedgerPromises
<1>. QED  BY <1>1, LedgerInvariant, PTL

\* While a cancellation is retained, every answer to it reports the state the
\* job was in before it.
THEOREM CancellationsReportTheRun == ASSUME LedgerAssumption PROVE Spec => []CancelReportsTheRun
<1>1. LedgerInv => CancelReportsTheRun
  BY LedgerPromises
<1>. QED  BY <1>1, LedgerInvariant, PTL

=============================================================================

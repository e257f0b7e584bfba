----------------------------- MODULE OutboxRelay -----------------------------
(***************************************************************************)
(* The transactional outbox of one topic and the relay processes that copy *)
(* it to Kafka (internal/repository/outboxrelay, internal/pkg/outbox).     *)
(*                                                                         *)
(* A relay claims a batch in one transaction, then publishes its events    *)
(* one at a time, each in three steps: hand the record to the Kafka        *)
(* client, wait for the outcome, update the row.  Other relays, the clock  *)
(* and the writers of the outbox run between any two of them.              *)
(*                                                                         *)
(* Every claim of a row increments its attempts, so the value a claim      *)
(* returned names the claim, as its random token does.                     *)
(***************************************************************************)
EXTENDS Integers, FiniteSets

CONSTANTS
    Events,        \* rows that may be inserted, by event_key
    Keys, KeyOf,   \* kafka_key
    Created,       \* position in (created_at, id)
    Relays,
    MaxAttempts,   \* OUTBOX_RELAY_MAX_ATTEMPTS
    MaxLosses      \* bound on batches lost and on leases outrun by their relay

ASSUME OutboxAssumption ==
    /\ KeyOf \in [Events -> Keys]
    /\ Created \in [Events -> Nat]
    /\ MaxAttempts \in Nat
    /\ MaxLosses \in Nat

VARIABLES
    rowStatus, attempts, lockedBy, lockExpired,  \* outbox_events
    late,       \* events committed after a later event of their key was claimed
    claims,     \* claims in the memory of relays: <<relay, event, claim, stage>>
    sent,       \* records handed to a Kafka client
    produced,   \* records in the Kafka log
    losses

rowVars == <<rowStatus, attempts, lockedBy, lockExpired>>
relayVars == <<rowVars, late, claims, sent, produced, losses>>

Gone == {"PUBLISHED", "DELETED"}
Statuses == {"ABSENT", "PENDING", "PROCESSING", "FAILED", "DEAD"} \cup Gone
Stages == {"claimed", "sent"}

RelayTypeOK ==
    /\ rowStatus \in [Events -> Statuses]
    /\ attempts \in [Events -> Nat]
    /\ lockedBy \in [Events -> Nat]
    /\ lockExpired \in [Events -> BOOLEAN]
    /\ late \subseteq Events
    /\ claims \subseteq Relays \X Events \X Nat \X Stages
    /\ sent \subseteq Events
    /\ produced \subseteq Events
    /\ losses \in Nat

RelayInit ==
    /\ rowStatus = [e \in Events |-> "ABSENT"]
    /\ attempts = [e \in Events |-> 0]
    /\ lockedBy = [e \in Events |-> 0]
    /\ lockExpired = [e \in Events |-> FALSE]
    /\ late = {}
    /\ claims = {}
    /\ sent = {}
    /\ produced = {}
    /\ losses = 0

Earlier(e, f) == KeyOf[e] = KeyOf[f] /\ Created[e] < Created[f]

-----------------------------------------------------------------------------
\* A transaction that inserted e commits.  created_at is the start of that
\* transaction, so rows appear in any order of (created_at, id).
InsertTx(e) ==
    /\ rowStatus[e] = "ABSENT"
    /\ rowStatus' = [rowStatus EXCEPT ![e] = "PENDING"]
    /\ late' = late \cup {x \in {e} : \E f \in Events : Earlier(x, f) /\ attempts[f] > 0}
    /\ UNCHANGED <<attempts, lockedBy, lockExpired, claims, sent, produced, losses>>

ClaimableFaulty(e) ==
    /\ rowStatus[e] \in {"PENDING", "FAILED"}
    /\ \A f \in Events : Earlier(f, e) => rowStatus[f] \in Gone \cup {"ABSENT"}

ClaimableOutOfOrder(e) ==
    /\ \/ rowStatus[e] \in {"PENDING", "FAILED"}
       \/ rowStatus[e] = "PROCESSING" /\ lockExpired[e]
    /\ \A f \in Events :
           Earlier(f, e) => rowStatus[f] \in Gone \cup {"ABSENT", "PROCESSING"}

\* Only the oldest unpublished row of a key, when it is waiting or when the
\* processing lease of the relay that claimed it has run out.
Claimable(e) ==
    /\ \/ rowStatus[e] \in {"PENDING", "FAILED"}
       \/ rowStatus[e] = "PROCESSING" /\ lockExpired[e]
    /\ \A f \in Events : Earlier(f, e) => rowStatus[f] \in Gone \cup {"ABSENT"}

Busy(r) == \E b \in claims : b[1] = r

\* SKIP LOCKED and LIMIT leave any part of the claimable rows for another claim;
\* next_attempt_at has passed.
Claim(r, S) ==
    /\ ~Busy(r)
    /\ S # {} /\ \A e \in S : Claimable(e)
    /\ rowStatus' = [e \in Events |-> IF e \in S THEN "PROCESSING" ELSE rowStatus[e]]
    /\ attempts' = [e \in Events |-> IF e \in S THEN attempts[e] + 1 ELSE attempts[e]]
    /\ lockedBy' = [e \in Events |-> IF e \in S THEN attempts[e] + 1 ELSE lockedBy[e]]
    /\ lockExpired' = [e \in Events |-> IF e \in S THEN FALSE ELSE lockExpired[e]]
    /\ claims' = claims \cup {<<r, e, attempts[e] + 1, "claimed">> : e \in S}
    /\ UNCHANGED <<late, sent, produced, losses>>

-----------------------------------------------------------------------------
(* Publishing the batch; b = <<relay, event, claim, stage>> *)

\* ProduceSync hands the record over.  From here on it may reach the log at any
\* time, also after the call has returned an error.
Produce(b) ==
    /\ b[4] = "claimed"
    /\ \A c \in claims : c[1] = b[1] => c[4] = "claimed"
    /\ claims' = (claims \ {b}) \cup {<<b[1], b[2], b[3], "sent">>}
    /\ sent' = sent \cup {b[2]}
    /\ UNCHANGED <<rowVars, late, produced, losses>>

\* The broker appends the record.
BrokerAppends(e) ==
    /\ e \in sent \ produced
    /\ produced' = produced \cup {e}
    /\ UNCHANGED <<rowVars, late, claims, sent, losses>>

HoldsRow(b) == rowStatus[b[2]] = "PROCESSING" /\ lockedBy[b[2]] = b[3]

SettleFaulty(b, s) ==
    /\ claims' = claims \ {b}
    /\ rowStatus' = [rowStatus EXCEPT ![b[2]] = s]
    /\ lockedBy' = [lockedBy EXCEPT ![b[2]] = 0]
    /\ lockExpired' = [lockExpired EXCEPT ![b[2]] = FALSE]
    /\ UNCHANGED <<attempts, late, sent, produced, losses>>

\* The update of the row, guarded by the claim; if the claim was lost, the relay
\* gives up the rest of its batch.
Settle(b, s) ==
    /\ IF HoldsRow(b)
       THEN /\ claims' = claims \ {b}
            /\ rowStatus' = [rowStatus EXCEPT ![b[2]] = s]
            /\ lockedBy' = [lockedBy EXCEPT ![b[2]] = 0]
            /\ lockExpired' = [lockExpired EXCEPT ![b[2]] = FALSE]
       ELSE /\ claims' = {c \in claims : c[1] # b[1]}
            /\ UNCHANGED <<rowStatus, lockedBy, lockExpired>>
    /\ UNCHANGED <<attempts, late, sent, produced, losses>>

markPublishedFaulty(b) == b[4] = "sent" /\ Settle(b, "PUBLISHED")

\* ProduceSync succeeded: the record is in the log.
markPublished(b) == b[4] = "sent" /\ b[2] \in produced /\ Settle(b, "PUBLISHED")

\* ProduceSync failed, which says nothing of the log.
markFailed(b) ==
    /\ b[4] = "sent"
    /\ Settle(b, IF b[3] >= MaxAttempts THEN "DEAD" ELSE "FAILED")

\* The relay crashes, its context times out or PostgreSQL fails it: what is left
\* of the batch is forgotten.
LoseBatch(r) ==
    /\ Busy(r) /\ losses < MaxLosses
    /\ losses' = losses + 1
    /\ claims' = {b \in claims : b[1] # r}
    /\ UNCHANGED <<rowVars, late, sent, produced>>

Claimed(e) == \E b \in claims : b[2] = e /\ b[3] = lockedBy[e]

\* Time passes the processing lease of a claimed row.
LockExpires(e) ==
    /\ rowStatus[e] = "PROCESSING" /\ ~lockExpired[e]
    /\ \/ ~Claimed(e) /\ UNCHANGED losses
       \/ Claimed(e) /\ losses < MaxLosses /\ losses' = losses + 1
    /\ lockExpired' = [lockExpired EXCEPT ![e] = TRUE]
    /\ UNCHANGED <<rowStatus, attempts, lockedBy, late, claims, sent, produced>>

\* Published rows past their retention are deleted.
CleanupPublishedEvents(S) ==
    /\ S # {} /\ \A e \in S : rowStatus[e] = "PUBLISHED"
    /\ rowStatus' = [e \in Events |-> IF e \in S THEN "DELETED" ELSE rowStatus[e]]
    /\ UNCHANGED <<attempts, lockedBy, lockExpired, late, claims, sent, produced, losses>>

publishEvent(b) == Produce(b) \/ markPublished(b) \/ markFailed(b)

RelayNext ==
    \/ \E e \in Events : InsertTx(e) \/ BrokerAppends(e) \/ LockExpires(e)
    \/ \E r \in Relays, S \in SUBSET Events : Claim(r, S)
    \/ \E b \in claims : publishEvent(b)
    \/ \E r \in Relays : LoseBatch(r)
    \/ \E S \in SUBSET Events : CleanupPublishedEvents(S)

RelaySpec == RelayInit /\ [][RelayNext]_relayVars

\* The relays poll (PollInterval), oldest rows first; every call they make has a
\* deadline; time passes.  Nothing is assumed of the brokers.
RelayFairness ==
    /\ \A e \in Events :
        /\ WF_relayVars(\E r \in Relays, S \in SUBSET Events : e \in S /\ Claim(r, S))
        /\ WF_relayVars(~Claimed(e) /\ LockExpires(e))
    /\ \A r \in Relays : WF_relayVars(\E b \in claims : b[1] = r /\ publishEvent(b))

RelayFairSpec == RelaySpec /\ RelayFairness

-----------------------------------------------------------------------------
(* Safety *)

\* docs/architecture.md: the outbox "prevents state changes from being committed
\* without their matching Kafka event".  A row marked PUBLISHED, or cleaned up
\* after that, has its record in the log, whichever relay marked it, whichever
\* produce call failed and whichever lease ran out in between.
PublishedWasProduced == \A e \in Events : rowStatus[e] \in Gone => e \in produced

\* The records of one Kafka key first reach the log in the order of their rows:
\* a relay that outlives its lease, a retry or a second relay never overtakes an
\* earlier row.  Only a row committed after a later row of its key was claimed
\* (created_at is the start of its transaction) can come after it.
KeyOrder ==
    \A e, f \in Events :
        /\ Earlier(e, f) /\ f \in produced
        /\ rowStatus[e] # "ABSENT" /\ e \notin late
        => e \in produced

(* What no step may do *)

\* A late markFailed or markPublished of a relay whose claim was taken over does
\* not change the row: once PUBLISHED, a row stays so until it is cleaned up, and
\* a row under another claim is left to that claim.
ClaimGuardsRow ==
    [][\A e \in Events :
        /\ rowStatus[e] = "PUBLISHED" => rowStatus'[e] \in Gone
        /\ (lockedBy[e] > 0 /\ lockedBy'[e] = 0)
             => \E b \in claims \ claims' : b[2] = e /\ b[3] = lockedBy[e]]_relayVars

(* Liveness *)

\* "Failed publication attempts are retried with backoff and eventually marked
\* dead": every committed event reaches the log, is marked DEAD, or waits behind
\* a DEAD event of its key.
EventPublished ==
    \A e \in Events :
        rowStatus[e] = "PENDING" ~>
            \/ e \in produced
            \/ rowStatus[e] = "DEAD"
            \/ \E f \in Events : Earlier(f, e) /\ rowStatus[f] = "DEAD"
==============================================================================

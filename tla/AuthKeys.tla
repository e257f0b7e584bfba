------------------------------ MODULE AuthKeys ------------------------------
(***************************************************************************)
(* The Ed25519 key of one token issuer, its rotation with                  *)
(* scripts/compose/rotate-auth-key.sh, and the tokens it signs             *)
(* (internal/pkg/auth/auth.go, bundle.go).                                 *)
(*                                                                         *)
(* Every service reads the key files and the trusted bundle once, when it  *)
(* starts, and keeps what it read.  A rotation therefore goes through many *)
(* states in which the files, the signer and the verifiers disagree.  Key  *)
(* g is the g-th key pair of the issuer; kid g is the bundle entry written *)
(* for it.  An entry holds the public key itself or names the file, whose  *)
(* content changes under it.                                               *)
(***************************************************************************)
EXTENDS Integers, FiniteSets

CONSTANTS
    Signer,       \* the issuer whose key is rotated
    Verifiers,    \* the services that accept its tokens
    Rotations,    \* bound: how often the key is rotated
    TokenLife,    \* auth.Expiry, in ticks
    Grace,        \* how long the operator waits before pruning old kids
    MaxTime       \* bound: the clock

AuthKeysAssumption ==
    /\ Rotations \in Nat /\ TokenLife \in Nat \ {0} /\ Grace \in Nat
    /\ MaxTime \in Nat /\ Signer \notin Verifiers

Gens == 0..Rotations
Services == Verifiers \cup {Signer}
NoKey == -1
File == -2                    \* the entry's pub is the path of the key file

VARIABLES
    now,       \* the clock
    disk,      \* auth.ed and auth.ed.pub of the issuer
    trusted,   \* trusted.json: kid -> inline key, File or NoKey
    bundle,    \* service -> the bundle it loaded: kid -> key or NoKey
    up,        \* the services that are running
    signing,   \* the signer's loaded private key and the kid it stamps
    step,      \* where the rotation script and its operator are
    since      \* when the signer was last restarted by the operator

keyVars == <<disk, trusted, bundle, up, signing, step, since>>

Loaded == [k \in Gens |-> IF trusted[k] = File THEN disk.pub ELSE trusted[k]]

KeysInit ==
    /\ now = 0 /\ since = 0
    /\ disk = [priv |-> 0, pub |-> 0]
    /\ trusted = [k \in Gens |-> IF k = 0 THEN File ELSE NoKey]
    /\ bundle = [s \in Services |-> Loaded]
    /\ up = Services
    /\ signing = [key |-> 0, kid |-> 0]
    /\ step = "idle"

Tick ==
    /\ now < MaxTime
    /\ now' = now + 1
    /\ UNCHANGED keyVars

(***************************************************************************)
(* newWithPaths.  A service whose own key pair does not match, or whose    *)
(* public key is not in the bundle, refuses to start; only the issuer      *)
(* under rotation can be in that situation.  A kid is chosen among all     *)
(* entries of the issuer with the same key (map iteration order).          *)
(***************************************************************************)
findBundleKid(b, key) == {k \in Gens : b[k] = key}

newWithPathsFaulty(s) ==
    \/ /\ s # Signer
       /\ bundle' = [bundle EXCEPT ![s] = Loaded]
       /\ up' = up \cup {s}
       /\ UNCHANGED signing
    \/ /\ s = Signer
       /\ \E k \in findBundleKid(Loaded, disk.pub) :
             signing' = [key |-> disk.priv, kid |-> k]
       /\ bundle' = [bundle EXCEPT ![s] = Loaded]
       /\ up' = up \cup {s}

newWithPaths(s) ==
    \/ /\ s # Signer
       /\ bundle' = [bundle EXCEPT ![s] = Loaded]
       /\ up' = up \cup {s}
       /\ UNCHANGED signing
    \/ /\ s = Signer
       /\ disk.priv = disk.pub
       /\ \E k \in findBundleKid(Loaded, disk.pub) :
             signing' = [key |-> disk.priv, kid |-> k]
       /\ bundle' = [bundle EXCEPT ![s] = Loaded]
       /\ up' = up \cup {s}
    \/ /\ s = Signer
       /\ \/ disk.priv # disk.pub
          \/ findBundleKid(Loaded, disk.pub) = {}
       /\ up' = up \ {s}
       /\ UNCHANGED <<bundle, signing>>

(***************************************************************************)
(* The script, one file operation at a time: the old kid keeps its key     *)
(* inline, the private and then the public file are replaced, the new kid  *)
(* is added.  When the public file cannot be installed the private one is  *)
(* put back and the script ends.  It may be run again before the old kids  *)
(* of the last rotation were pruned.                                       *)
(***************************************************************************)
NextGen == disk.priv + 1

PreserveFaulty ==
    /\ step \in {"idle", "grace"} /\ NextGen <= Rotations
    /\ step' = "preserved"
    /\ UNCHANGED <<now, disk, trusted, bundle, up, signing, since>>

Preserve ==
    /\ step \in {"idle", "grace"} /\ NextGen <= Rotations
    /\ trusted' = [k \in Gens |->
                     IF trusted[k] = File THEN disk.pub ELSE trusted[k]]
    /\ step' = "preserved"
    /\ UNCHANGED <<now, disk, bundle, up, signing, since>>

InstallPrivate ==
    /\ step = "preserved"
    /\ disk' = [disk EXCEPT !.priv = NextGen]
    /\ step' = "half"
    /\ UNCHANGED <<now, trusted, bundle, up, signing, since>>

InstallPublic ==
    /\ step = "half"
    /\ disk' = [disk EXCEPT !.pub = disk.priv]
    /\ step' = "installed"
    /\ UNCHANGED <<now, trusted, bundle, up, signing, since>>

InstallPublicFails ==
    /\ step = "half"
    /\ disk' = [disk EXCEPT !.priv = disk.pub]
    /\ step' = "idle"
    /\ UNCHANGED <<now, trusted, bundle, up, signing, since>>

PublishFaulty ==
    /\ step = "installed"
    /\ step' = "published"
    /\ UNCHANGED <<now, disk, trusted, bundle, up, signing, since>>

Publish ==
    /\ step = "installed"
    /\ trusted' = [trusted EXCEPT ![disk.pub] = File]
    /\ step' = "published"
    /\ UNCHANGED <<now, disk, bundle, up, signing, since>>

(***************************************************************************)
(* "Next steps (verifier-first)": the operator restarts the verifiers,     *)
(* then the signer, waits, prunes every kid of the issuer that is not      *)
(* backed by the file, and restarts everything.                            *)
(***************************************************************************)
RestartVerifiers ==
    /\ step = "published"
    /\ bundle' = [s \in Services |->
                    IF s \in Verifiers THEN Loaded ELSE bundle[s]]
    /\ up' = up \cup Verifiers
    /\ step' = "verifiers"
    /\ UNCHANGED <<now, disk, trusted, signing, since>>

RestartSignerFaulty ==
    /\ step = "published"
    /\ newWithPaths(Signer)
    /\ step' = "grace"
    /\ since' = now
    /\ UNCHANGED <<now, disk, trusted>>

RestartSigner ==
    /\ step = "verifiers"
    /\ newWithPaths(Signer)
    /\ step' = "grace"
    /\ since' = now
    /\ UNCHANGED <<now, disk, trusted>>

Prune ==
    /\ step = "grace"
    /\ now >= since + Grace
    /\ trusted' = [k \in Gens |->
                     IF trusted[k] = File THEN File ELSE NoKey]
    /\ step' = "pruned"
    /\ UNCHANGED <<now, disk, bundle, up, signing, since>>

RestartAll ==
    /\ step = "pruned"
    /\ bundle' = [s \in Services |-> Loaded]
    /\ up' = Services
    /\ \E k \in findBundleKid(Loaded, disk.pub) :
          signing' = [key |-> disk.priv, kid |-> k]
    /\ step' = "idle"
    /\ UNCHANGED <<now, disk, trusted, since>>

\* A service, the signer too, is restarted by its supervisor, whatever the
\* operator is doing.
Restart(s) ==
    /\ newWithPaths(s)
    /\ UNCHANGED <<now, disk, trusted, step, since>>

KeysNext ==
    \/ Preserve \/ InstallPrivate \/ InstallPublic \/ InstallPublicFails
    \/ Publish \/ RestartVerifiers \/ RestartSigner \/ Prune \/ RestartAll
    \/ \E s \in Services : Restart(s)

(***************************************************************************)
(* A token is what IssueToken signs: the key and the kid of its issuer and *)
(* the time of its expiry.  ValidateToken looks the kid up in the bundle   *)
(* of the verifier and checks the signature with the key found there; an   *)
(* expired token that is otherwise in order is reported as such.           *)
(***************************************************************************)
IssueToken(sub) ==
    [key |-> signing.key, kid |-> signing.kid, sub |-> sub,
     exp |-> now + TokenLife]

ValidateToken(v, token) ==
    IF bundle[v][token.kid] # token.key THEN "invalid"
    ELSE IF now > token.exp THEN "expired"
    ELSE "ok"

\* The script and its operator finish what they started; a stopped service is
\* started again by its supervisor, which tries many times before an operator
\* runs the script once more (hence the strong fairness).
KeysFairness ==
    /\ WF_<<now, keyVars>>(Tick)
    /\ WF_<<now, keyVars>>(InstallPrivate) /\ WF_<<now, keyVars>>(InstallPublic)
    /\ WF_<<now, keyVars>>(Publish) /\ WF_<<now, keyVars>>(RestartVerifiers)
    /\ WF_<<now, keyVars>>(RestartSigner) /\ WF_<<now, keyVars>>(Prune)
    /\ WF_<<now, keyVars>>(RestartAll)
    /\ SF_<<now, keyVars>>(Signer \notin up /\ Restart(Signer))

KeysSpec ==
    KeysInit /\ [][Tick \/ KeysNext]_<<now, keyVars>> /\ KeysFairness

-----------------------------------------------------------------------------
KeysTypeOK ==
    /\ now \in 0..MaxTime /\ since \in 0..MaxTime
    /\ disk \in [priv : Gens, pub : Gens]
    /\ trusted \in [Gens -> Gens \cup {File, NoKey}]
    /\ bundle \in [Services -> [Gens -> Gens \cup {NoKey}]]
    /\ up \subseteq Services
    /\ signing \in [key : Gens, kid : Gens]
    /\ step \in {"idle", "preserved", "half", "installed", "published",
                 "verifiers", "grace", "pruned"}

\* A kid means one key: two services that both have an entry for a kid have the
\* same key for it, whenever each of them read the files.  The script keeps the
\* old kid's key inline for this; a kid naming the file would change its key.
OneKeyPerKid ==
    \A s, t \in Services, k \in Gens :
        bundle[s][k] # NoKey /\ bundle[t][k] # NoKey => bundle[s][k] = bundle[t][k]

\* The running signer signs with the key its kid stands for in its own bundle
\* (auth.go:308: the signer's key must be present in the bundle).
SignsWithItsKid ==
    Signer \in up => bundle[Signer][signing.kid] = signing.key

\* A signer that refused to start in the middle of a rotation starts again.
SignerRecovers == Signer \notin up ~> Signer \in up
=============================================================================

---------------------------- MODULE Sessions_proofs -----------------------------
(***************************************************************************)
(* Proofs about the keys of a token issuer (AuthKeys) and the sessions of  *)
(* the HTTP server (Sessions): any number of rotations, verifiers, tabs    *)
(* and logins.  KeysInv says what the files, the bundles and the signer    *)
(* agree on at each step of the rotation script, TabsInv what a tab, a     *)
(* reply and the browser know of a session.  Kept and TokenInv are about   *)
(* what a rotation leaves verifiable, TellInv about the CSRF token of a    *)
(* session.                                                                *)
(***************************************************************************)
EXTENDS Sessions, TLAPS

-----------------------------------------------------------------------------
(* Keys.                                                                   *)

\* The private file is one generation ahead between the two installations.
FilesInv ==
    /\ step = "half" => disk.priv = disk.pub + 1
    /\ step # "half" => disk.priv = disk.pub
    /\ step = "preserved" => disk.pub < Rotations

\* An entry holds its own key, or names the file while the file has that key.
TrustedInv ==
    \A k \in Gens :
        /\ trusted[k] \in {k, File, NoKey}
        /\ trusted[k] = File =>
              k = disk.pub /\ step \notin {"preserved", "half", "installed"}

BundlesInv == \A s \in Services, k \in Gens : bundle[s][k] \in {k, NoKey}

SignerInv ==
    /\ signing.key = signing.kid
    /\ bundle[Signer][signing.kid] = signing.kid

KeysInv == KeysTypeOK /\ FilesInv /\ TrustedInv /\ BundlesInv /\ SignerInv

\* Every verifier has the key of k, and so has one that starts now.
Kept(k) == Loaded[k] = k /\ \A v \in Verifiers : bundle[v][k] = k

\* The key of k was published and the verifiers are yet to be restarted.
Early(k) == step = "published" /\ k = disk.pub

\* Where the signer's key is between the script's steps: the next key reaches
\* the verifiers before it, unless the signer is restarted ahead of them.
VerifierFirst ==
    /\ step = "installed" => signing.kid = disk.pub - 1
    /\ step \in {"published", "verifiers"} => signing.kid \in {disk.pub - 1, disk.pub}
    /\ step \notin {"installed", "published", "verifiers"} => signing.kid = disk.pub
    /\ Kept(signing.kid) \/ Early(signing.kid)
    /\ step = "verifiers" => Kept(disk.pub)
    /\ step \in {"published", "verifiers", "grace", "pruned"} => trusted[disk.pub] = File
    /\ \A k \in Gens : k > disk.pub \/ (step = "installed" /\ k = disk.pub) => trusted[k] = NoKey

-----------------------------------------------------------------------------
(* Sessions.                                                               *)

Ops == {"login", "logout", "csrf", "read", "mutate"}
SessionIds == {0} \cup Ids
Csrfs == [s : SessionIds, ts : 0 .. MaxTime]
Replies == [session : SessionIds \cup {Keep}, csrf : Csrfs \cup {KeepCsrf}, ack : BOOLEAN]
Requests == [op : Ops \cup {"none"}, at : {"idle", "sent", "token", "csrf", "session", "reply"},
             s : SessionIds, c : Csrfs, h : Csrfs, dead : BOOLEAN, reply : Replies]
Tokens == [key : Gens, kid : Gens, sub : Ids, exp : Nat]

SessionsTypeOK ==
    /\ store \in [Ids -> 0 .. (MaxTime + SessionLife)]
    /\ minted \in [Ids -> Tokens \cup {NoToken}]
    /\ jar \in [s : SessionIds, sexp : Nat, c : Csrfs, cexp : Nat]
    /\ tab \in [Tabs -> Requests]
    /\ known \in [Tabs -> Csrfs]
    /\ gone \subseteq Ids

\* A session that is signed in but not stored is known to its own tab only.
Storing(t) == tab[t].at = "token"
Hidden(s) ==
    /\ minted[s] # NoToken /\ store[s] = 0 /\ s \notin gone
    /\ jar.s # s
    /\ \A u \in Tabs : tab[u].at = "reply" => tab[u].reply.session # s
    /\ \A u \in Tabs : tab[u].at # "idle" /\ tab[u].op # "login" => tab[u].s # s
TabInv(t) ==
    /\ Storing(t) => tab[t].op = "login" /\ tab[t].s \in Ids /\ Hidden(tab[t].s)
    /\ tab[t].at # "idle" /\ tab[t].op # "login" => tab[t].s \in Ids /\ minted[tab[t].s] # NoToken
    /\ tab[t].at = "reply" /\ tab[t].reply.session \in Ids => minted[tab[t].reply.session] # NoToken
TabsInv ==
    /\ \A t \in Tabs : TabInv(t)
    /\ \A t, u \in Tabs : Storing(t) /\ Storing(u) /\ tab[t].s = tab[u].s => t = u
    /\ jar.s # 0 => minted[jar.s] # NoToken
    /\ \A s \in Ids : store[s] # 0 => minted[s] # NoToken
    /\ \A s \in gone : store[s] = 0 /\ minted[s] # NoToken

\* A request with the cookie of a session whose logout was confirmed before.
DeadInv ==
    /\ \A t \in Tabs : tab[t].dead /\ tab[t].op # "login" => tab[t].s \in gone
    /\ LoggedOutStaysOut

\* A token has the key of its kid.
MintedInv ==
    /\ \A s \in Ids : minted[s] # NoToken =>
          minted[s].key = minted[s].kid /\ minted[s].exp <= now + TokenLife
    /\ \A t \in Tabs : Storing(t) => minted[tab[t].s].exp = now + TokenLife

\* What may be known of a token's kid: it is verifiable, or about to be, or its
\* key was replaced and the token is as old as the grace period.  A kid that
\* will be pruned has signed no token after the signer's restart.
TokenKept(token) == Kept(token.kid) \/ Early(token.kid) \/ Outdated(token)
TokenInv ==
    \A s \in Ids : minted[s] # NoToken =>
        /\ minted[s].kid <= disk.pub
        /\ TokenKept(minted[s])
        /\ step = "grace" /\ minted[s].kid # disk.pub => minted[s].exp <= since + TokenLife

\* A CSRF token is the one its session was signed in with: a tab behind the
\* session check presents one that has not expired, which the handler reuses.
Told(c) == c # NoCsrf => c.s \in Ids /\ minted[c.s] # NoToken /\ c.ts + TokenLife = minted[c.s].exp
TellStore ==
    \A s \in Ids : minted[s] # NoToken => store[s] + TokenLife <= minted[s].exp + SessionLife
TellJar == Told(jar.c) /\ (jar.s # 0 => jar.c.s = jar.s /\ jar.sexp <= jar.cexp)
TellReply(r) ==
    /\ r.session = Keep => r.csrf = KeepCsrf
    /\ r.session # Keep => r.csrf # KeepCsrf /\ Told(r.csrf) /\ r.csrf.s = r.session
TellTab(t) ==
    /\ Told(known[t]) /\ Told(tab[t].c)
    /\ tab[t].at # "idle" /\ tab[t].op # "login" => tab[t].c.s = tab[t].s
    /\ tab[t].at = "session" /\ tab[t].op # "login" =>
          now + TokenLife < minted[tab[t].s].exp + SessionLife
    /\ tab[t].at = "reply" => TellReply(tab[t].reply)
TellInv == TellStore /\ TellJar /\ \A t \in Tabs : TellTab(t)

-----------------------------------------------------------------------------
(* The keys: every step keeps KeysInv.                                     *)

\* What newWithPaths loads of a sound bundle.
LEMMA LoadedKeys ==
    ASSUME KeysInv
    PROVE  /\ Loaded \in [Gens -> Gens \cup {NoKey}]
           /\ \A k \in Gens : Loaded[k] \in {k, NoKey}
<1>1. \A k \in Gens : Loaded[k] = (IF trusted[k] = File THEN disk.pub ELSE trusted[k])
  BY DEF Loaded
<1>2. \A k \in Gens : Loaded[k] \in {k, NoKey}
  BY <1>1 DEF KeysInv, TrustedInv
<1> QED BY <1>1, <1>2 DEF Loaded

LEMMA KeysInitial == ASSUME AuthKeysAssumption, KeysInit PROVE KeysInv
<1>1. 0 \in Gens
  BY AuthKeysAssumption DEF AuthKeysAssumption, Gens
<1>2. \A k \in Gens : Loaded[k] = (IF k = 0 THEN 0 ELSE NoKey)
  BY DEF KeysInit, Loaded, File, NoKey
<1>3. Loaded \in [Gens -> Gens \cup {NoKey}]
  BY <1>1, <1>2 DEF Loaded
<1>4. KeysTypeOK
  BY <1>1, <1>3, AuthKeysAssumption DEF KeysInit, KeysTypeOK, AuthKeysAssumption
<1>5. FilesInv /\ TrustedInv
  BY DEF KeysInit, FilesInv, TrustedInv, File, NoKey
<1>6. BundlesInv
  BY <1>2 DEF KeysInit, BundlesInv
<1>7. SignerInv
  BY <1>1, <1>2 DEF KeysInit, SignerInv, Services
<1> QED BY <1>4, <1>5, <1>6, <1>7 DEF KeysInv

\* A service that starts, or refuses to.
LEMMA StartKeeps ==
    ASSUME AuthKeysAssumption, KeysInv, NEW s \in Services, newWithPaths(s)
    PROVE  /\ bundle' \in [Services -> [Gens -> Gens \cup {NoKey}]]
           /\ up' \subseteq Services
           /\ signing' \in [key : Gens, kid : Gens]
           /\ BundlesInv' /\ SignerInv'
<1>1. Signer \in Services /\ Signer \notin Verifiers
  BY AuthKeysAssumption DEF AuthKeysAssumption, Services
<1>2. Loaded \in [Gens -> Gens \cup {NoKey}] /\ \A k \in Gens : Loaded[k] \in {k, NoKey}
  BY LoadedKeys
<1>3. CASE bundle' = [bundle EXCEPT ![s] = Loaded] /\ up' = up \cup {s} /\ UNCHANGED signing
           /\ s # Signer
  BY <1>1, <1>2, <1>3 DEF KeysInv, KeysTypeOK, BundlesInv, SignerInv
<1>4. CASE /\ s = Signer /\ disk.priv = disk.pub
           /\ \E k \in findBundleKid(Loaded, disk.pub) : signing' = [key |-> disk.priv, kid |-> k]
           /\ bundle' = [bundle EXCEPT ![s] = Loaded] /\ up' = up \cup {s}
  <2>1. PICK k \in Gens : Loaded[k] = disk.pub /\ signing' = [key |-> disk.priv, kid |-> k]
    BY <1>4 DEF findBundleKid
  <2>2. disk.pub \in Gens /\ k = disk.pub
    BY <2>1, <1>2 DEF KeysInv, KeysTypeOK, Gens, NoKey
  <2>3. bundle' \in [Services -> [Gens -> Gens \cup {NoKey}]] /\ up' \subseteq Services
    BY <1>1, <1>2, <1>4 DEF KeysInv, KeysTypeOK
  <2>4. BundlesInv'
    BY <1>2, <1>4 DEF KeysInv, KeysTypeOK, BundlesInv
  <2>5. signing' \in [key : Gens, kid : Gens]
    BY <2>1, <2>2, <1>4
  <2>6. SignerInv'
    BY <2>1, <2>2, <1>1, <1>4 DEF KeysInv, KeysTypeOK, SignerInv
  <2> QED BY <2>3, <2>4, <2>5, <2>6
<1>5. CASE up' = up \ {s} /\ UNCHANGED <<bundle, signing>>
  BY <1>5 DEF KeysInv, KeysTypeOK, BundlesInv, SignerInv
<1> QED BY <1>3, <1>4, <1>5 DEF newWithPaths

LEMMA KeysStep ==
    ASSUME AuthKeysAssumption, KeysInv, [Tick \/ KeysNext]_<<now, keyVars>>
    PROVE  KeysInv'
<1> USE DEF AuthKeysAssumption
<1>0. disk \in [priv : Gens, pub : Gens] /\ disk.priv \in Gens /\ disk.pub \in Gens
  BY DEF KeysInv, KeysTypeOK
<1>a. Loaded \in [Gens -> Gens \cup {NoKey}] /\ \A k \in Gens : Loaded[k] \in {k, NoKey}
  BY LoadedKeys
<1>1. CASE Tick
  BY <1>1 DEF Tick, keyVars, KeysInv, KeysTypeOK, FilesInv, TrustedInv, BundlesInv, SignerInv
<1>2. CASE Preserve
  <2>1. trusted' = Loaded /\ step' = "preserved"
    BY <1>2 DEF Preserve, Loaded
  <2>2. TrustedInv' /\ trusted' \in [Gens -> Gens \cup {File, NoKey}]
    BY <2>1, <1>a, <1>0 DEF TrustedInv, File, NoKey, Gens
  <2>3. FilesInv'
    BY <1>2, <1>0 DEF Preserve, KeysInv, FilesInv, NextGen, Gens
  <2>4. KeysTypeOK' /\ BundlesInv' /\ SignerInv'
    BY <1>2, <2>2 DEF Preserve, KeysInv, KeysTypeOK, BundlesInv, SignerInv
  <2> QED BY <2>2, <2>3, <2>4 DEF KeysInv
<1>3. CASE InstallPrivate
  <2>1. disk.priv = disk.pub /\ disk.pub < Rotations
    BY <1>3 DEF InstallPrivate, KeysInv, FilesInv
  <2>2. disk'.priv = disk.pub + 1 /\ disk'.pub = disk.pub /\ disk' \in [priv : Gens, pub : Gens]
    BY <1>3, <1>0, <2>1 DEF InstallPrivate, NextGen, Gens
  <2>3. TrustedInv'
    BY <1>3, <2>2 DEF InstallPrivate, KeysInv, TrustedInv
  <2>4. FilesInv'
    BY <1>3, <2>2 DEF InstallPrivate, FilesInv
  <2>5. KeysTypeOK' /\ BundlesInv' /\ SignerInv'
    BY <1>3, <2>2 DEF InstallPrivate, KeysInv, KeysTypeOK, BundlesInv, SignerInv
  <2> QED BY <2>3, <2>4, <2>5 DEF KeysInv
<1>4. CASE InstallPublic
  <2>1. disk'.pub = disk.priv /\ disk'.priv = disk.priv /\ disk' \in [priv : Gens, pub : Gens]
    BY <1>4, <1>0 DEF InstallPublic
  <2>2. TrustedInv'
    BY <1>4 DEF InstallPublic, KeysInv, TrustedInv
  <2>3. FilesInv'
    BY <1>4, <2>1 DEF InstallPublic, FilesInv
  <2>4. KeysTypeOK' /\ BundlesInv' /\ SignerInv'
    BY <1>4, <2>1 DEF InstallPublic, KeysInv, KeysTypeOK, BundlesInv, SignerInv
  <2> QED BY <2>2, <2>3, <2>4 DEF KeysInv
<1>5. CASE InstallPublicFails
  <2>1. disk'.pub = disk.pub /\ disk'.priv = disk.pub /\ disk' \in [priv : Gens, pub : Gens]
    BY <1>5, <1>0 DEF InstallPublicFails
  <2>2. TrustedInv'
    BY <1>5, <2>1 DEF InstallPublicFails, KeysInv, TrustedInv
  <2>3. FilesInv'
    BY <1>5, <2>1 DEF InstallPublicFails, FilesInv
  <2>4. KeysTypeOK' /\ BundlesInv' /\ SignerInv'
    BY <1>5, <2>1 DEF InstallPublicFails, KeysInv, KeysTypeOK, BundlesInv, SignerInv
  <2> QED BY <2>2, <2>3, <2>4 DEF KeysInv
<1>6. CASE Publish
  <2>1. TrustedInv' /\ trusted' \in [Gens -> Gens \cup {File, NoKey}]
    BY <1>6, <1>0 DEF Publish, KeysInv, KeysTypeOK, TrustedInv
  <2>2. FilesInv'
    BY <1>6 DEF Publish, KeysInv, FilesInv
  <2>3. KeysTypeOK' /\ BundlesInv' /\ SignerInv'
    BY <1>6, <2>1 DEF Publish, KeysInv, KeysTypeOK, BundlesInv, SignerInv
  <2> QED BY <2>1, <2>2, <2>3 DEF KeysInv
<1>7. CASE RestartVerifiers
  <2>1. bundle' \in [Services -> [Gens -> Gens \cup {NoKey}]] /\ BundlesInv'
    BY <1>7, <1>a DEF RestartVerifiers, KeysInv, KeysTypeOK, BundlesInv
  <2>2. SignerInv'
    BY <1>7 DEF RestartVerifiers, KeysInv, KeysTypeOK, SignerInv, Services
  <2>3. TrustedInv' /\ FilesInv'
    BY <1>7 DEF RestartVerifiers, KeysInv, TrustedInv, FilesInv
  <2>4. KeysTypeOK'
    BY <1>7, <2>1 DEF RestartVerifiers, KeysInv, KeysTypeOK, Services
  <2> QED BY <2>1, <2>2, <2>3, <2>4 DEF KeysInv
<1>8. CASE RestartSigner
  <2>1. /\ bundle' \in [Services -> [Gens -> Gens \cup {NoKey}]]
        /\ up' \subseteq Services
        /\ signing' \in [key : Gens, kid : Gens]
        /\ BundlesInv' /\ SignerInv'
    BY <1>8, StartKeeps DEF RestartSigner, Services
  <2>2. TrustedInv' /\ FilesInv'
    BY <1>8 DEF RestartSigner, KeysInv, TrustedInv, FilesInv
  <2>3. KeysTypeOK'
    BY <1>8, <2>1 DEF RestartSigner, KeysInv, KeysTypeOK
  <2> QED BY <2>1, <2>2, <2>3 DEF KeysInv
<1>9. CASE Prune
  <2>0. trusted' = [k \in Gens |-> IF trusted[k] = File THEN File ELSE NoKey]
    BY <1>9 DEF Prune
  <2>1. TrustedInv' /\ trusted' \in [Gens -> Gens \cup {File, NoKey}]
    BY <2>0, <1>9 DEF Prune, KeysInv, TrustedInv, File, NoKey
  <2>2. FilesInv' /\ KeysTypeOK' /\ BundlesInv' /\ SignerInv'
    BY <1>9, <2>1 DEF Prune, KeysInv, FilesInv, KeysTypeOK, BundlesInv, SignerInv
  <2> QED BY <2>1, <2>2 DEF KeysInv
<1>10. CASE RestartAll
  <2>1. PICK k \in Gens : Loaded[k] = disk.pub /\ signing' = [key |-> disk.priv, kid |-> k]
    BY <1>10 DEF RestartAll, findBundleKid
  <2>2. disk.priv = disk.pub /\ k = disk.pub
    BY <2>1, <1>0, <1>a, <1>10 DEF RestartAll, KeysInv, FilesInv, Gens, NoKey
  <2>3. bundle' \in [Services -> [Gens -> Gens \cup {NoKey}]] /\ BundlesInv'
    BY <1>10, <1>a DEF RestartAll, BundlesInv
  <2>4. SignerInv' /\ signing' \in [key : Gens, kid : Gens]
    BY <1>10, <2>1, <2>2, <1>0 DEF RestartAll, SignerInv, Services
  <2>5. TrustedInv' /\ FilesInv'
    BY <1>10 DEF RestartAll, KeysInv, TrustedInv, FilesInv
  <2>6. KeysTypeOK'
    BY <1>10, <2>3, <2>4 DEF RestartAll, KeysInv, KeysTypeOK
  <2> QED BY <2>3, <2>4, <2>5, <2>6 DEF KeysInv
<1>11. ASSUME NEW s \in Services, Restart(s) PROVE KeysInv'
  <2>1. /\ bundle' \in [Services -> [Gens -> Gens \cup {NoKey}]]
        /\ up' \subseteq Services
        /\ signing' \in [key : Gens, kid : Gens]
        /\ BundlesInv' /\ SignerInv'
    BY <1>11, StartKeeps DEF Restart
  <2>2. TrustedInv' /\ FilesInv' /\ KeysTypeOK'
    BY <1>11, <2>1 DEF Restart, KeysInv, TrustedInv, FilesInv, KeysTypeOK
  <2> QED BY <2>1, <2>2 DEF KeysInv
<1>12. CASE UNCHANGED <<now, keyVars>>
  BY <1>12 DEF keyVars, KeysInv, KeysTypeOK, FilesInv, TrustedInv, BundlesInv, SignerInv
<1> QED BY <1>1, <1>2, <1>3, <1>4, <1>5, <1>6, <1>7, <1>8, <1>9, <1>10, <1>11, <1>12 DEF KeysNext

LEMMA KeysPromises ==
    ASSUME KeysInv PROVE KeysTypeOK /\ OneKeyPerKid /\ SignsWithItsKid
BY DEF KeysInv, BundlesInv, SignerInv, OneKeyPerKid, SignsWithItsKid

\* For the issuer alone: a kid means one key in all bundles whenever each was
\* read (the inline key that rotate-auth-key.sh keeps for an old kid), and the
\* signer signs with the key its kid stands for (auth.go:308).
THEOREM KidsMeanOneKey ==
    ASSUME AuthKeysAssumption
    PROVE  KeysSpec => [](KeysTypeOK /\ OneKeyPerKid /\ SignsWithItsKid)
<1>1. KeysInit => KeysInv
  BY KeysInitial
<1>2. KeysInv /\ [Tick \/ KeysNext]_<<now, keyVars>> => KeysInv'
  BY KeysStep
<1>3. KeysInv => KeysTypeOK /\ OneKeyPerKid /\ SignsWithItsKid
  BY KeysPromises
<1> QED BY <1>1, <1>2, <1>3, PTL DEF KeysSpec


-----------------------------------------------------------------------------
(* Keys that stay verifiable: a rotation takes a key away only by pruning   *)
(* it, and the signer's key is never pruned.                                *)

\* The bundles of the verifiers change to what the files say, or not at all.
LEMMA VerifiersLoad ==
    ASSUME AuthKeysAssumption, KeysInv, [Tick \/ KeysNext]_<<now, keyVars>>,
           NEW v \in Verifiers, NEW k \in Gens
    PROVE  bundle'[v][k] \in {bundle[v][k], Loaded[k]}
<1>0. v \in Services /\ v # Signer /\ bundle \in [Services -> [Gens -> Gens \cup {NoKey}]]
  BY DEF AuthKeysAssumption, Services, KeysInv, KeysTypeOK
<1>1. CASE RestartVerifiers \/ RestartAll
  BY <1>0, <1>1 DEF RestartVerifiers, RestartAll
<1>2. ASSUME NEW s \in Services, newWithPaths(s) PROVE bundle'[v][k] \in {bundle[v][k], Loaded[k]}
  <2>1. bundle' = [bundle EXCEPT ![s] = Loaded] \/ bundle' = bundle
    BY <1>2 DEF newWithPaths
  <2> QED BY <2>1, <1>0
<1>3. CASE UNCHANGED bundle
  BY <1>3
<1>4. CASE RestartSigner \/ \E s \in Services : Restart(s)
  BY <1>2, <1>4 DEF RestartSigner, Restart, Services
<1>5. CASE Tick \/ Preserve \/ InstallPrivate \/ InstallPublic \/ InstallPublicFails \/ Publish \/ Prune
           \/ UNCHANGED <<now, keyVars>>
  BY <1>5, <1>3 DEF Tick, Preserve, InstallPrivate, InstallPublic, InstallPublicFails, Publish, Prune, keyVars
<1> QED BY <1>1, <1>4, <1>5 DEF KeysNext

LEMMA FilesKeep ==
    ASSUME AuthKeysAssumption, KeysInv, [Tick \/ KeysNext]_<<now, keyVars>>,
           NEW k \in Gens, Loaded[k] = k, ~(Prune /\ trusted[k] # File)
    PROVE  (Loaded[k] = k)'
<1>0. disk \in [priv : Gens, pub : Gens] /\ disk.pub \in Gens /\ \A j \in Gens : j # File /\ j # NoKey
  BY DEF KeysInv, KeysTypeOK, Gens, File, NoKey
<1>1. Loaded[k] = (IF trusted[k] = File THEN disk.pub ELSE trusted[k])
  BY DEF Loaded
<1>2. (Loaded[k] = k)' <=> (IF trusted'[k] = File THEN disk'.pub ELSE trusted'[k]) = k
  BY DEF Loaded
<1>3. CASE UNCHANGED <<disk, trusted>>
  BY <1>1, <1>2, <1>3
<1>4. CASE Preserve
  BY <1>0, <1>1, <1>2, <1>4 DEF Preserve
<1>5. CASE InstallPrivate
  BY <1>0, <1>1, <1>2, <1>5 DEF InstallPrivate
<1>6. CASE InstallPublic \/ InstallPublicFails
  <2>1. trusted[k] # File /\ trusted' = trusted
    BY <1>6 DEF InstallPublic, InstallPublicFails, KeysInv, TrustedInv
  <2> QED BY <2>1, <1>1, <1>2
<1>7. CASE Publish
  <2>1. trusted' = [trusted EXCEPT ![disk.pub] = File] /\ disk' = disk
    BY <1>7 DEF Publish
  <2>2. trusted[k] # File
    BY <1>7 DEF Publish, KeysInv, TrustedInv
  <2>3. trusted \in [Gens -> Gens \cup {File, NoKey}]
    BY DEF KeysInv, KeysTypeOK
  <2> QED BY <2>1, <2>2, <2>3, <1>0, <1>1, <1>2
<1>8. CASE Prune
  <2>1. trusted[k] = File /\ trusted'[k] = File /\ disk' = disk
    BY <1>8 DEF Prune
  <2> QED BY <2>1, <1>1, <1>2
<1>9. CASE Tick \/ RestartVerifiers \/ RestartSigner \/ RestartAll \/ (\E s \in Services : Restart(s))
           \/ UNCHANGED <<now, keyVars>>
  BY <1>9, <1>3 DEF Tick, RestartVerifiers, RestartSigner, RestartAll, Restart, keyVars
<1> QED BY <1>4, <1>5, <1>6, <1>7, <1>8, <1>9 DEF KeysNext

LEMMA KeptStays ==
    ASSUME AuthKeysAssumption, KeysInv, [Tick \/ KeysNext]_<<now, keyVars>>,
           NEW k \in Gens, Kept(k), ~(Prune /\ trusted[k] # File)
    PROVE  Kept(k)'
<1>1. Loaded[k] = k /\ \A v \in Verifiers : bundle[v][k] = k
  BY DEF Kept
<1>2. (Loaded[k] = k)'
  BY <1>1, FilesKeep
<1>3. \A v \in Verifiers : bundle'[v][k] = k
  BY <1>1, VerifiersLoad
<1> QED BY <1>2, <1>3 DEF Kept

\* The signer takes up the key in the files, which is the one the script put
\* there last.
LEMMA SignerTakes ==
    ASSUME AuthKeysAssumption, KeysInv, newWithPaths(Signer), disk.priv = disk.pub,
           Loaded[disk.pub] = disk.pub
    PROVE  signing'.kid = disk.pub
<1>0. disk.pub \in Gens /\ Loaded \in [Gens -> Gens \cup {NoKey}] /\ \A k \in Gens : Loaded[k] \in {k, NoKey}
  BY LoadedKeys DEF KeysInv, KeysTypeOK
<1>1. disk.pub \in findBundleKid(Loaded, disk.pub)
  BY <1>0 DEF findBundleKid
<1>2. PICK k \in findBundleKid(Loaded, disk.pub) : signing' = [key |-> disk.priv, kid |-> k]
  BY <1>1 DEF newWithPaths
<1>3. k = disk.pub
  BY <1>0, <1>2 DEF findBundleKid, Gens, NoKey
<1> QED BY <1>2, <1>3

LEMMA VerifierFirstInitial == ASSUME AuthKeysAssumption, KeysInit PROVE VerifierFirst
<1>1. 0 \in Gens
  BY DEF AuthKeysAssumption, Gens
<1>2. Loaded[0] = 0
  BY <1>1 DEF KeysInit, Loaded
<1>3. Kept(0)
  BY <1>2 DEF KeysInit, Kept, Services
<1>4. \A k \in Gens : k > 0 => trusted[k] = NoKey
  BY DEF KeysInit, Gens
<1> QED BY <1>3, <1>4 DEF KeysInit, VerifierFirst

\* A signer that starts reads the key in the files, if the bundle lists it.
LEMMA SignerStarts ==
    ASSUME AuthKeysAssumption, KeysInv, VerifierFirst, newWithPaths(Signer)
    PROVE  signing' = signing \/ (signing'.kid = disk.pub /\ step # "installed")
<1>0. /\ disk.pub \in Gens /\ disk.pub \in Nat /\ trusted[disk.pub] \in {disk.pub, File, NoKey}
      /\ Loaded \in [Gens -> Gens \cup {NoKey}] /\ \A k \in Gens : Loaded[k] \in {k, NoKey}
  BY LoadedKeys DEF KeysInv, KeysTypeOK, TrustedInv, Gens
<1>1. CASE UNCHANGED signing
  BY <1>1
<1>2. CASE \E k \in findBundleKid(Loaded, disk.pub) : signing' = [key |-> disk.priv, kid |-> k]
  <2>1. PICK k \in Gens : Loaded[k] = disk.pub /\ signing' = [key |-> disk.priv, kid |-> k]
    BY <1>2 DEF findBundleKid
  <2>2. k = disk.pub
    BY <2>1, <1>0 DEF Gens, NoKey
  <2>3. Loaded[disk.pub] = (IF trusted[disk.pub] = File THEN disk.pub ELSE trusted[disk.pub])
    BY <1>0 DEF Loaded
  <2>4. trusted[disk.pub] # NoKey
    BY <1>0, <2>1, <2>2, <2>3 DEF NoKey, File
  <2> QED BY <1>0, <2>1, <2>2, <2>4 DEF VerifierFirst
<1> QED BY <1>1, <1>2, AuthKeysAssumption DEF newWithPaths

\* The entries of keys that were not published are absent, at every step.
LEMMA UnpublishedStep ==
    ASSUME AuthKeysAssumption, KeysInv, VerifierFirst, [Tick \/ KeysNext]_<<now, keyVars>>,
           NEW k \in Gens, k > disk'.pub \/ (step' = "installed" /\ k = disk'.pub)
    PROVE  trusted'[k] = NoKey
<1>0. /\ disk \in [priv : Gens, pub : Gens] /\ disk.pub \in Nat /\ k \in Nat
      /\ trusted \in [Gens -> Gens \cup {File, NoKey}]
      /\ k > disk.pub \/ (step = "installed" /\ k = disk.pub) => trusted[k] = NoKey
      /\ NoKey # File
  BY DEF KeysInv, KeysTypeOK, Gens, VerifierFirst, NoKey, File
<1>1. CASE Preserve
  BY <1>0, <1>1 DEF Preserve
<1>2. CASE InstallPrivate \/ InstallPublicFails
  BY <1>0, <1>2 DEF InstallPrivate, InstallPublicFails
<1>3. CASE InstallPublic
  <2>1. disk'.pub = disk.pub + 1 /\ trusted' = trusted
    BY <1>3, <1>0 DEF InstallPublic, KeysInv, KeysTypeOK, FilesInv
  <2> QED BY <1>0, <2>1
<1>4. CASE Publish
  <2>1. disk' = disk /\ step' = "published" /\ trusted' = [trusted EXCEPT ![disk.pub] = File]
    BY <1>4 DEF Publish
  <2>2. k # disk.pub /\ k > disk.pub
    BY <1>0, <2>1
  <2> QED BY <1>0, <2>1, <2>2
<1>5. CASE Prune
  BY <1>0, <1>5 DEF Prune
<1>6. CASE Tick \/ RestartVerifiers \/ RestartSigner \/ RestartAll \/ (\E s \in Services : Restart(s))
           \/ UNCHANGED <<now, keyVars>>
  BY <1>0, <1>6 DEF Tick, RestartVerifiers, RestartSigner, RestartAll, Restart, keyVars
<1> QED BY <1>1, <1>2, <1>3, <1>4, <1>5, <1>6 DEF KeysNext

\* The key the signer signs with is verifiable by every service at every step of
\* a rotation, but while a signer that restarted early is ahead of them.
LEMMA VerifierFirstStep ==
    ASSUME AuthKeysAssumption, KeysInv, VerifierFirst,
           [Tick \/ KeysNext]_<<now, keyVars>>
    PROVE  VerifierFirst'
<1>0. /\ disk \in [priv : Gens, pub : Gens] /\ disk.pub \in Gens /\ signing.kid \in Gens
      /\ disk.pub \in Nat /\ trusted \in [Gens -> Gens \cup {File, NoKey}]
  BY DEF KeysInv, KeysTypeOK, Gens
<1>u. \A k \in Gens : k > disk'.pub \/ (step' = "installed" /\ k = disk'.pub) => trusted'[k] = NoKey
  BY UnpublishedStep
<1>s. step # "published" => Kept(signing.kid)
  BY DEF VerifierFirst, Early
<1>1. CASE UNCHANGED <<disk, step, signing, trusted>> /\ ~Prune
  <2>1. Kept(signing.kid) => Kept(signing.kid)'
    BY <1>0, <1>1, KeptStays
  <2>2. step = "verifiers" => Kept(disk.pub)'
    BY <1>0, <1>1, KeptStays DEF VerifierFirst
  <2>3. Kept(signing.kid)' \/ Early(signing.kid)'
    BY <1>1, <2>1 DEF VerifierFirst, Early
  <2> QED BY <1>1, <1>u, <2>2, <2>3 DEF VerifierFirst, Kept, Loaded
<1>2. CASE Preserve \/ InstallPrivate \/ InstallPublicFails \/ InstallPublic \/ Publish
  <2>1. signing' = signing /\ ~Prune /\ step' # "verifiers" /\ step # "published"
    BY <1>2 DEF Preserve, InstallPrivate, InstallPublicFails, InstallPublic, Publish, Prune
  <2>2. Kept(signing.kid)'
    BY <1>0, <1>s, <2>1, KeptStays
  <2>3. CASE Preserve \/ InstallPrivate \/ InstallPublicFails
    BY <2>1, <2>2, <2>3, <1>0, <1>u DEF Preserve, InstallPrivate, InstallPublicFails, VerifierFirst
  <2>4. CASE InstallPublic
    <3>1. disk'.pub = disk.pub + 1 /\ step = "half" /\ step' = "installed"
      BY <2>4, <1>0 DEF InstallPublic, KeysInv, FilesInv
    <3> QED BY <3>1, <2>1, <2>2, <1>0, <1>u DEF VerifierFirst
  <2>5. CASE Publish
    BY <2>1, <2>2, <2>5, <1>0, <1>u DEF Publish, VerifierFirst
  <2> QED BY <1>2, <2>3, <2>4, <2>5
<1>3. CASE RestartVerifiers
  <2>1. /\ signing' = signing /\ ~Prune /\ disk' = disk /\ trusted' = trusted
        /\ step = "published" /\ step' = "verifiers"
    BY <1>3 DEF RestartVerifiers, Prune
  <2>3. trusted[disk.pub] = File
    BY <2>1 DEF VerifierFirst
  <2>4. Loaded[disk.pub] = disk.pub /\ (Loaded[disk.pub] = disk.pub)'
    BY <2>1, <2>3, <1>0 DEF Loaded
  <2>5. \A v \in Verifiers : bundle'[v][disk.pub] = disk.pub
    BY <1>3, <2>4 DEF RestartVerifiers, Services
  <2>6. Kept(disk.pub)'
    BY <2>1, <2>4, <2>5 DEF Kept
  <2>7. Kept(signing.kid)'
    <3>1. CASE Kept(signing.kid)
      BY <1>0, <2>1, <3>1, KeptStays
    <3>2. CASE signing.kid = disk.pub
      BY <2>1, <2>6, <3>2 DEF Kept, Loaded
    <3> QED BY <3>1, <3>2 DEF VerifierFirst, Early
  <2> QED BY <2>1, <2>3, <2>6, <2>7, <1>u DEF VerifierFirst
<1>4. CASE RestartSigner
  <2>1. /\ step = "verifiers" /\ step' = "grace" /\ disk' = disk /\ trusted' = trusted
        /\ disk.priv = disk.pub /\ Kept(disk.pub) /\ trusted[disk.pub] = File
    BY <1>4 DEF RestartSigner, KeysInv, FilesInv, VerifierFirst
  <2>2. signing'.kid = disk.pub
    BY <1>4, <2>1, SignerTakes DEF RestartSigner, Kept
  <2>3. ~Prune
    BY <2>1 DEF Prune
  <2>4. Kept(disk.pub)'
    BY <2>1, <2>3, <1>0, KeptStays
  <2>5. Kept(signing.kid)'
    BY <2>1, <2>2, <2>4 DEF Kept, Loaded
  <2> QED BY <2>1, <2>2, <2>4, <2>5, <1>u DEF VerifierFirst
<1>5. CASE Prune
  <2>1. /\ step = "grace" /\ step' = "pruned" /\ disk' = disk /\ signing' = signing
        /\ signing.kid = disk.pub /\ trusted[disk.pub] = File /\ trusted'[disk.pub] = File
    BY <1>5, <1>0 DEF Prune, VerifierFirst
  <2>2. Kept(disk.pub)'
    BY <2>1, <1>0, <1>s, KeptStays
  <2>3. Kept(signing.kid)'
    BY <2>1, <2>2 DEF Kept, Loaded
  <2> QED BY <2>1, <2>2, <2>3, <1>u DEF VerifierFirst
<1>6. CASE RestartAll
  <2>1. /\ step = "pruned" /\ step' = "idle" /\ disk' = disk /\ trusted' = trusted
        /\ disk.priv = disk.pub /\ Kept(disk.pub)
    BY <1>6, <1>s DEF RestartAll, KeysInv, FilesInv, VerifierFirst
  <2>2. PICK k \in Gens : Loaded[k] = disk.pub /\ signing' = [key |-> disk.priv, kid |-> k]
    BY <1>6 DEF RestartAll, findBundleKid
  <2>3. k = disk.pub
    BY <2>2, <1>0, LoadedKeys DEF Gens, NoKey
  <2>4. ~Prune
    BY <2>1 DEF Prune
  <2>5. Kept(disk.pub)'
    BY <2>1, <2>4, <1>0, KeptStays
  <2>6. Kept(signing.kid)'
    BY <2>1, <2>2, <2>3, <2>5 DEF Kept, Loaded
  <2> QED BY <2>1, <2>2, <2>3, <2>6, <1>u DEF VerifierFirst
<1>7. ASSUME NEW s \in Services, Restart(s), ~Prune PROVE VerifierFirst'
  <2>1. UNCHANGED <<disk, step, trusted>>
    BY <1>7 DEF Restart
  <2>2. CASE UNCHANGED signing
    BY <1>1, <1>7, <2>1, <2>2
  <2>3. CASE signing' # signing
    <3>1. s = Signer /\ newWithPaths(Signer)
      BY <1>7, <2>3 DEF Restart, newWithPaths
    <3>2. signing'.kid = disk.pub /\ step # "installed"
      BY <2>3, <3>1, SignerStarts
    <3>3. ASSUME step # "published" PROVE Kept(disk.pub)
      BY <1>s, <3>2, <3>3 DEF VerifierFirst
    <3>4. ASSUME step # "published" PROVE Kept(disk.pub)'
      <4>1. Kept(disk.pub)
        BY <3>3, <3>4
      <4>2. [Tick \/ KeysNext]_<<now, keyVars>>
        OBVIOUS
      <4> QED BY <1>0, <1>7, <2>1, <4>1, <4>2, KeptStays
    <3>5. Kept(signing.kid)' \/ Early(signing.kid)'
      BY <2>1, <3>2, <3>4 DEF Kept, Loaded, Early
    <3> QED BY <2>1, <3>2, <3>4, <3>5, <1>u DEF VerifierFirst, Kept, Loaded
  <2> QED BY <2>2, <2>3
<1>8. CASE Tick \/ UNCHANGED <<now, keyVars>>
  <2>1. UNCHANGED <<disk, step, signing, trusted>>
    BY <1>8 DEF Tick, keyVars
  <2>2. CASE ~Prune
    BY <2>1, <2>2, <1>1
  <2> QED BY <2>2, <1>5
<1> QED BY <1>2, <1>3, <1>4, <1>5, <1>6, <1>7, <1>8 DEF KeysNext

-----------------------------------------------------------------------------
(* Sessions: what a step does to the tabs, and the types.                   *)

Ats == {"idle", "sent", "token", "csrf", "session", "reply"}

LEMMA RequestFields ==
    ASSUME NEW r \in Requests
    PROVE  /\ r.op \in Ops \cup {"none"} /\ r.at \in Ats /\ r.s \in SessionIds
           /\ r.c \in Csrfs /\ r.h \in Csrfs /\ r.dead \in BOOLEAN /\ r.reply \in Replies
BY DEF Requests, Ats

LEMMA AtFields ==
    ASSUME tab \in [Tabs -> Requests], NEW t \in Tabs, NEW where \in Ats, At(t, where)
    PROVE  /\ tab' \in [Tabs -> Requests]
           /\ \A u \in Tabs \ {t} : tab'[u] = tab[u]
           /\ tab'[t].at = where /\ tab'[t].op = tab[t].op /\ tab'[t].s = tab[t].s
           /\ tab'[t].c = tab[t].c /\ tab'[t].dead = tab[t].dead
<1>1. tab' = [tab EXCEPT ![t] = [tab[t] EXCEPT !.at = where]]
  BY DEF At
<1>2. tab[t] \in Requests
  OBVIOUS
<1>3. [tab[t] EXCEPT !.at = where] \in Requests
  BY <1>2 DEF Requests, Ats
<1>4. tab'[t] = [tab[t] EXCEPT !.at = where]
  BY <1>1
<1> QED BY <1>1, <1>2, <1>3, <1>4 DEF Requests

LEMMA ReplyFields ==
    ASSUME tab \in [Tabs -> Requests], NEW t \in Tabs, NEW r \in Replies, Reply(t, r)
    PROVE  /\ tab' \in [Tabs -> Requests]
           /\ \A u \in Tabs \ {t} : tab'[u] = tab[u]
           /\ tab'[t].at = "reply" /\ tab'[t].reply = r /\ tab'[t].op = tab[t].op
           /\ tab'[t].s = tab[t].s /\ tab'[t].c = tab[t].c /\ tab'[t].dead = tab[t].dead
<1>1. tab' = [tab EXCEPT ![t] = [tab[t] EXCEPT !.at = "reply", !.reply = r]]
  BY DEF Reply
<1>2. tab[t] \in Requests
  OBVIOUS
<1>3. [tab[t] EXCEPT !.at = "reply", !.reply = r] \in Requests
  BY <1>2 DEF Requests
<1>4. tab'[t] = [tab[t] EXCEPT !.at = "reply", !.reply = r]
  BY <1>1
<1> QED BY <1>1, <1>2, <1>3, <1>4 DEF Requests

LEMMA CookieTypes ==
    ASSUME SessionsTypeOK, MaxTime \in Nat, now \in 0 .. MaxTime
    PROVE  /\ NoCsrf \in Csrfs /\ SessionCookie \in SessionIds /\ CsrfCookie \in Csrfs
           /\ NoReply \in Replies /\ IdleTab \in Requests
           /\ \A s \in SessionIds : generateCSRFToken(s) \in Csrfs
<1>1. NoCsrf \in Csrfs
  BY DEF NoCsrf, Csrfs, SessionIds
<1>2. NoReply \in Replies
  BY DEF NoReply, Replies
<1>3. IdleTab \in Requests
  BY <1>1, <1>2 DEF IdleTab, Requests, SessionIds
<1>4. SessionCookie \in SessionIds /\ CsrfCookie \in Csrfs
  BY <1>1 DEF SessionsTypeOK, SessionCookie, CsrfCookie, SessionIds
<1>5. \A s \in SessionIds : generateCSRFToken(s) \in Csrfs
  BY DEF generateCSRFToken, Csrfs
<1> QED BY <1>1, <1>2, <1>3, <1>4, <1>5

\* What the handlers that make no session do: they reply, or let the request
\* pass to the next check.
Aside == UNCHANGED <<store, minted, jar, known, gone>>
Answers(t, r) ==
    /\ r \in Replies /\ r.session \in {0, Keep} /\ Reply(t, r)
    /\ tab[t].at \notin {"idle", "reply"} /\ Aside
Passes(t, where) ==
    /\ where \in {"csrf", "session"} /\ At(t, where)
    /\ tab[t].at \in {"sent", "csrf"} /\ tab[t].op # "login" /\ Aside

LEMMA Handlers ==
    ASSUME SessionsTypeOK, MaxTime \in Nat, now \in 0 .. MaxTime, NEW t \in Tabs,
           \/ withVerifyCSRFMiddleware(t) \/ withVerifySessionMiddleware(t)
           \/ Serve(t) \/ handleGetCSRFToken(t)
           \/ LoginToken(t) /\ Fail(t) /\ UNCHANGED minted
           \/ handleLoginUser(t) /\ Fail(t) /\ UNCHANGED store
           \/ handleLogout(t) /\ UNCHANGED <<store, gone>>
    PROVE  (\E r \in Replies : Answers(t, r)) \/ (\E where \in Ats : Passes(t, where))
<1>0. NoReply \in Replies /\ NoReply.session = Keep /\ tab[t].s \in SessionIds
  BY CookieTypes DEF NoReply, SessionsTypeOK, Requests
<1>1. CASE Fail(t) /\ tab[t].at \notin {"idle", "reply"} /\ Aside
  BY <1>0, <1>1 DEF Fail, Answers
<1>2. CASE withVerifyCSRFMiddleware(t)
  <2>1. Aside /\ tab[t].at = "sent" /\ tab[t].op \in Guarded
    BY <1>2 DEF withVerifyCSRFMiddleware, Aside
  <2>2. At(t, "csrf") \/ Fail(t)
    BY <1>2 DEF withVerifyCSRFMiddleware
  <2>3. CASE At(t, "csrf")
    BY <2>1, <2>3 DEF Passes, Ats, Guarded
  <2> QED BY <2>1, <2>2, <2>3, <1>1
<1>3. CASE withVerifySessionMiddleware(t)
  <2>1. Aside /\ tab[t].at \in {"sent", "csrf"} /\ tab[t].op # "login"
    BY <1>3 DEF withVerifySessionMiddleware, Aside
  <2>2. At(t, "session") \/ Fail(t)
    BY <1>3 DEF withVerifySessionMiddleware
  <2>3. CASE At(t, "session")
    BY <2>1, <2>3 DEF Passes, Ats
  <2> QED BY <2>1, <2>2, <2>3, <1>1
<1>4. CASE Serve(t)
  <2>1. [NoReply EXCEPT !.ack = TRUE] \in Replies /\ [NoReply EXCEPT !.ack = TRUE].session = Keep
    BY DEF NoReply, Replies
  <2>2. Answers(t, [NoReply EXCEPT !.ack = TRUE])
    BY <1>4, <2>1 DEF Serve, Answers, Aside
  <2> QED BY <2>1, <2>2
<1>5. CASE handleGetCSRFToken(t)
  <2> DEFINE c == generateCSRFToken(tab[t].s)
             r == IF verifyCSRFToken(tab[t].c, tab[t].s)
                  THEN [NoReply EXCEPT !.ack = TRUE]
                  ELSE [NoReply EXCEPT !.ack = TRUE, !.csrf = c]
  <2>1. Reply(t, r) /\ tab[t].at = "session" /\ Aside
    BY <1>5 DEF handleGetCSRFToken, Aside
  <2>2. c \in Csrfs
    BY <1>0, CookieTypes
  <2> HIDE DEF c
  <2>3. r \in Replies /\ r.session = Keep
    BY <2>2 DEF NoReply, Replies
  <2> HIDE DEF r
  <2>4. Answers(t, r)
    BY <2>1, <2>3 DEF Answers
  <2> QED BY <2>3, <2>4
<1>6. CASE LoginToken(t) /\ Fail(t) /\ UNCHANGED minted
  BY <1>1, <1>6 DEF LoginToken, Aside
<1>7. CASE handleLoginUser(t) /\ Fail(t) /\ UNCHANGED store
  BY <1>1, <1>7 DEF handleLoginUser, Aside
<1>8. CASE handleLogout(t) /\ UNCHANGED <<store, gone>>
  <2>1. PICK a \in BOOLEAN : Reply(t, [session |-> 0, csrf |-> NoCsrf, ack |-> a])
    BY <1>8 DEF handleLogout
  <2>2. [session |-> 0, csrf |-> NoCsrf, ack |-> a] \in Replies
    BY CookieTypes DEF Replies, SessionIds
  <2>3. Answers(t, [session |-> 0, csrf |-> NoCsrf, ack |-> a])
    BY <1>8, <2>1, <2>2 DEF handleLogout, Answers, Aside
  <2> QED BY <2>2, <2>3
<1> QED BY <1>2, <1>3, <1>4, <1>5, <1>6, <1>7, <1>8

-----------------------------------------------------------------------------
(* Sessions: every step keeps the types, TabsInv and DeadInv.               *)

Bounds ==
    /\ MaxTime \in Nat /\ SessionLife \in Nat \ {0} /\ CsrfLife \in Nat \ {0}
    /\ TokenLife \in Nat \ {0} /\ Logins \in Nat /\ now \in 0 .. MaxTime

SessInv == SessionsTypeOK /\ TabsInv /\ DeadInv

LEMMA AnswersKeep ==
    ASSUME SessInv, NEW t \in Tabs, NEW r \in Replies, Answers(t, r)
    PROVE  SessInv'
<1>0. tab \in [Tabs -> Requests] /\ Reply(t, r) /\ r.session \notin Ids
  BY DEF Answers, SessInv, SessionsTypeOK, Ids, Keep
<1>1. /\ tab' \in [Tabs -> Requests] /\ \A u \in Tabs \ {t} : tab'[u] = tab[u]
      /\ tab'[t].at = "reply" /\ tab'[t].reply = r /\ tab'[t].op = tab[t].op
      /\ tab'[t].s = tab[t].s /\ tab'[t].c = tab[t].c /\ tab'[t].dead = tab[t].dead
  BY <1>0, ReplyFields
<1>2. UNCHANGED <<store, minted, jar, known, gone>> /\ tab[t].at \notin {"idle", "reply"}
  BY DEF Answers, Aside
<1>3. SessionsTypeOK'
  BY <1>1, <1>2 DEF SessInv, SessionsTypeOK
<1>4. ASSUME NEW s \in Ids, Hidden(s) PROVE Hidden(s)'
  BY <1>0, <1>1, <1>2, <1>4 DEF Hidden
<1>5. ASSUME NEW u \in Tabs PROVE TabInv(u)'
  <2>1. TabInv(u) /\ TabInv(t)
    BY DEF SessInv, TabsInv
  <2>2. CASE u = t
    BY <1>0, <1>1, <1>2, <2>1, <2>2 DEF TabInv, Storing
  <2>3. CASE u # t
    BY <1>1, <1>2, <1>4, <2>1, <2>3 DEF TabInv, Storing
  <2> QED BY <2>2, <2>3
<1>6. TabsInv'
  BY <1>1, <1>2, <1>5 DEF SessInv, TabsInv, Storing
<1>7. DeadInv'
  BY <1>1, <1>2 DEF SessInv, DeadInv, LoggedOutStaysOut
<1> QED BY <1>3, <1>6, <1>7 DEF SessInv

LEMMA PassesKeep ==
    ASSUME Bounds, SessInv, NEW t \in Tabs, NEW where \in Ats, Passes(t, where),
           where = "session" => Live(tab[t].s)
    PROVE  SessInv'
<1>0. tab \in [Tabs -> Requests] /\ At(t, where)
  BY DEF Passes, SessInv, SessionsTypeOK
<1>1. /\ tab' \in [Tabs -> Requests] /\ \A u \in Tabs \ {t} : tab'[u] = tab[u]
      /\ tab'[t].at = where /\ tab'[t].op = tab[t].op /\ tab'[t].s = tab[t].s
      /\ tab'[t].c = tab[t].c /\ tab'[t].dead = tab[t].dead
  BY <1>0, AtFields
<1>2. /\ UNCHANGED <<store, minted, jar, known, gone>>
      /\ tab[t].at \in {"sent", "csrf"} /\ tab[t].op # "login" /\ where \in {"csrf", "session"}
  BY DEF Passes, Aside
<1>3. SessionsTypeOK'
  BY <1>1, <1>2 DEF SessInv, SessionsTypeOK
<1>4. ASSUME NEW s \in Ids, Hidden(s) PROVE Hidden(s)'
  BY <1>1, <1>2, <1>4 DEF Hidden
<1>5. ASSUME NEW u \in Tabs PROVE TabInv(u)'
  <2>1. TabInv(u) /\ TabInv(t)
    BY DEF SessInv, TabsInv
  <2>2. CASE u = t
    BY <1>1, <1>2, <2>1, <2>2 DEF TabInv, Storing
  <2>3. CASE u # t
    BY <1>1, <1>2, <1>4, <2>1, <2>3 DEF TabInv, Storing
  <2> QED BY <2>2, <2>3
<1>6. TabsInv'
  BY <1>1, <1>2, <1>5 DEF SessInv, TabsInv, Storing
<1>7. where = "session" => ~tab[t].dead
  <2> SUFFICES ASSUME where = "session", tab[t].dead PROVE FALSE
    OBVIOUS
  <2>1. tab[t].s \in gone
    BY <1>2 DEF SessInv, DeadInv
  <2>2. store[tab[t].s] = 0 /\ now < store[tab[t].s]
    BY <2>1 DEF SessInv, TabsInv, Live
  <2> QED BY <2>2 DEF Bounds
<1>8. DeadInv'
  BY <1>1, <1>2, <1>7 DEF SessInv, DeadInv, LoggedOutStaysOut
<1> QED BY <1>3, <1>6, <1>8 DEF SessInv

\* The effect of sending a request.
LEMMA SendFields ==
    ASSUME Bounds, SessInv, NEW t \in Tabs, NEW op \in Ops, Send(t, op)
    PROVE  /\ tab' \in [Tabs -> Requests] /\ \A u \in Tabs \ {t} : tab'[u] = tab[u]
           /\ tab[t].at = "idle" /\ tab'[t].at = "sent" /\ tab'[t].op = op
           /\ tab'[t].s = SessionCookie /\ tab'[t].c = CsrfCookie
           /\ tab'[t].dead = (SessionCookie \in gone)
           /\ op # "login" => SessionCookie # 0
           /\ UNCHANGED <<store, minted, jar, known, gone>>
<1>1. PICK h \in {CsrfCookie, known[t]} :
        tab' = [tab EXCEPT ![t] = [IdleTab EXCEPT !.op = op, !.at = "sent", !.s = SessionCookie,
                                      !.c = CsrfCookie, !.h = h, !.dead = SessionCookie \in gone]]
  BY DEF Send
<1>2. SessionCookie \in SessionIds /\ CsrfCookie \in Csrfs /\ h \in Csrfs /\ IdleTab \in Requests
  BY CookieTypes DEF Bounds, SessInv, SessionsTypeOK
<1> DEFINE r == [IdleTab EXCEPT !.op = op, !.at = "sent", !.s = SessionCookie,
                                !.c = CsrfCookie, !.h = h, !.dead = SessionCookie \in gone]
<1>3. /\ r.op = op /\ r.at = "sent" /\ r.s = SessionCookie /\ r.c = CsrfCookie
      /\ r.dead = (SessionCookie \in gone)
  BY DEF IdleTab
<1>4. r \in Requests
  <2>1. \A d \in BOOLEAN : [IdleTab EXCEPT !.op = op, !.at = "sent", !.s = SessionCookie,
                              !.c = CsrfCookie, !.h = h, !.dead = d] \in Requests
    BY <1>2 DEF Requests
  <2>2. (SessionCookie \in gone) \in BOOLEAN
    OBVIOUS
  <2> QED BY Zenon, <2>1, <2>2
<1>5. tab \in [Tabs -> Requests] /\ tab' = [tab EXCEPT ![t] = r]
  BY <1>1 DEF SessInv, SessionsTypeOK
<1> HIDE DEF r
<1>6. tab' \in [Tabs -> Requests] /\ tab'[t] = r /\ \A u \in Tabs \ {t} : tab'[u] = tab[u]
  BY <1>4, <1>5
<1> QED BY <1>3, <1>6 DEF Send

LEMMA SendKeeps ==
    ASSUME Bounds, SessInv, NEW t \in Tabs, NEW op \in Ops, Send(t, op)
    PROVE  SessInv'
<1>1. /\ tab' \in [Tabs -> Requests] /\ \A u \in Tabs \ {t} : tab'[u] = tab[u]
      /\ tab[t].at = "idle" /\ tab'[t].at = "sent" /\ tab'[t].op = op
      /\ tab'[t].s = SessionCookie /\ tab'[t].dead = (SessionCookie \in gone)
      /\ op # "login" => SessionCookie # 0
      /\ UNCHANGED <<store, minted, jar, known, gone>>
  BY SendFields
<1>2. SessionCookie # 0 => SessionCookie = jar.s /\ jar.s \in Ids /\ minted[jar.s] # NoToken
  BY DEF SessionCookie, SessInv, SessionsTypeOK, TabsInv, SessionIds
<1>3. SessionsTypeOK'
  BY <1>1 DEF SessInv, SessionsTypeOK
<1>4. ASSUME NEW s \in Ids, Hidden(s) PROVE Hidden(s)'
  <2>1. op # "login" => SessionCookie # s
    BY <1>1, <1>2, <1>4 DEF Hidden
  <2> QED BY <1>1, <2>1, <1>4 DEF Hidden
<1>5. ASSUME NEW u \in Tabs PROVE TabInv(u)'
  <2>1. TabInv(u)
    BY DEF SessInv, TabsInv
  <2>2. CASE u = t
    BY <1>1, <1>2, <2>2 DEF TabInv, Storing
  <2>3. CASE u # t
    BY <1>1, <1>4, <2>1, <2>3 DEF TabInv, Storing
  <2> QED BY <2>2, <2>3
<1>6. TabsInv'
  BY <1>1, <1>5 DEF SessInv, TabsInv, Storing
<1>7. DeadInv'
  BY <1>1 DEF SessInv, DeadInv, LoggedOutStaysOut
<1> QED BY <1>3, <1>6, <1>7 DEF SessInv

\* The users service signs a token that no session has yet.
Mints(t, s) ==
    /\ tab[t].op = "login" /\ tab[t].at = "sent" /\ minted[s] = NoToken
    /\ minted' = [minted EXCEPT ![s] = IssueToken(s)]
    /\ tab' = [tab EXCEPT ![t].at = "token", ![t].s = s]
    /\ UNCHANGED <<store, jar, known, gone>>

LEMMA MintFields ==
    ASSUME Bounds, KeysInv, SessInv, NEW t \in Tabs, NEW s \in Ids, Mints(t, s)
    PROVE  /\ tab' \in [Tabs -> Requests] /\ \A u \in Tabs \ {t} : tab'[u] = tab[u]
           /\ tab'[t].at = "token" /\ tab'[t].op = "login" /\ tab'[t].s = s
           /\ tab'[t].c = tab[t].c /\ tab'[t].dead = tab[t].dead
           /\ minted' \in [Ids -> Tokens \cup {NoToken}] /\ \A r \in Ids \ {s} : minted'[r] = minted[r]
           /\ minted'[s] = IssueToken(s) /\ minted'[s] # NoToken
<1>1. tab \in [Tabs -> Requests] /\ tab[t] \in Requests
  BY DEF SessInv, SessionsTypeOK
<1>2. tab' = [tab EXCEPT ![t] = [tab[t] EXCEPT !.at = "token", !.s = s]]
  BY DEF Mints
<1>3. [tab[t] EXCEPT !.at = "token", !.s = s] \in Requests
  BY <1>1 DEF Requests, SessionIds
<1>4. tab'[t] = [tab[t] EXCEPT !.at = "token", !.s = s]
  BY <1>1, <1>2
<1>5. IssueToken(s) \in Tokens
  BY DEF IssueToken, Tokens, Bounds, KeysInv, KeysTypeOK
<1>6. IssueToken(s).key # NoKey /\ NoToken.key = NoKey
  BY DEF IssueToken, NoToken, KeysInv, KeysTypeOK, Gens, NoKey
<1>7. minted \in [Ids -> Tokens \cup {NoToken}]
  BY DEF SessInv, SessionsTypeOK
<1>8. minted' = [minted EXCEPT ![s] = IssueToken(s)]
  BY DEF Mints
<1>9. tab'[t].at = "token" /\ tab'[t].op = "login" /\ tab'[t].s = s
      /\ tab'[t].c = tab[t].c /\ tab'[t].dead = tab[t].dead
  BY <1>1, <1>4 DEF Requests, Mints
<1>10. tab' \in [Tabs -> Requests] /\ \A u \in Tabs \ {t} : tab'[u] = tab[u]
  BY <1>1, <1>2, <1>3
<1> QED BY <1>5, <1>6, <1>7, <1>8, <1>9, <1>10

LEMMA MintKeeps ==
    ASSUME Bounds, KeysInv, SessInv, NEW t \in Tabs, NEW s \in Ids, Mints(t, s)
    PROVE  SessInv'
<1>1. /\ tab' \in [Tabs -> Requests] /\ \A u \in Tabs \ {t} : tab'[u] = tab[u]
      /\ tab'[t].at = "token" /\ tab'[t].op = "login" /\ tab'[t].s = s
      /\ minted' \in [Ids -> Tokens \cup {NoToken}] /\ \A r \in Ids \ {s} : minted'[r] = minted[r]
      /\ minted'[s] # NoToken
  BY MintFields
<1>2. /\ UNCHANGED <<store, jar, known, gone>> /\ minted[s] = NoToken
      /\ tab[t].op = "login" /\ tab[t].at = "sent" /\ 0 \notin Ids
  BY DEF Mints, Ids
<1>3. SessionsTypeOK'
  BY <1>1, <1>2 DEF SessInv, SessionsTypeOK
<1>4. ASSUME NEW r \in Ids, Hidden(r) PROVE Hidden(r)'
  BY <1>1, <1>2, <1>4 DEF Hidden
<1>5. Hidden(s)'
  <2>1. store[s] = 0 /\ s \notin gone /\ jar.s # s
    BY <1>2 DEF SessInv, TabsInv
  <2>2. \A u \in Tabs : TabInv(u)
    BY DEF SessInv, TabsInv
  <2>3. \A u \in Tabs : tab[u].at = "reply" => tab[u].reply.session # s
    BY <1>2, <2>2 DEF TabInv
  <2>4. \A u \in Tabs : tab[u].at # "idle" /\ tab[u].op # "login" => tab[u].s # s
    BY <1>2, <2>2 DEF TabInv
  <2> QED BY <1>1, <1>2, <2>1, <2>3, <2>4 DEF Hidden
<1>6. ASSUME NEW u \in Tabs PROVE TabInv(u)'
  <2>1. TabInv(u)
    BY DEF SessInv, TabsInv
  <2>2. CASE u = t
    BY <1>1, <1>5, <2>2 DEF TabInv, Storing
  <2>3. CASE u # t
    BY <1>1, <1>2, <1>4, <2>1, <2>3 DEF TabInv, Storing
  <2> QED BY <2>2, <2>3
<1>7. \A u \in Tabs : Storing(u) => tab[u].s # s
  BY <1>2 DEF SessInv, TabsInv, TabInv, Hidden
<1>8. TabsInv'
  <2>1. \A u, v \in Tabs : (Storing(u) /\ Storing(v) /\ tab[u].s = tab[v].s)' => u = v
    BY <1>1, <1>7 DEF SessInv, TabsInv, Storing
  <2>2. (jar.s # 0 => minted[jar.s] # NoToken)'
    BY <1>1, <1>2 DEF SessInv, SessionsTypeOK, TabsInv, SessionIds
  <2>3. (\A r \in Ids : store[r] # 0 => minted[r] # NoToken)'
    BY <1>1, <1>2 DEF SessInv, TabsInv
  <2>4. (\A r \in gone : store[r] = 0 /\ minted[r] # NoToken)'
    BY <1>1, <1>2 DEF SessInv, SessionsTypeOK, TabsInv
  <2> QED BY <1>6, <2>1, <2>2, <2>3, <2>4 DEF TabsInv
<1>9. DeadInv'
  BY <1>1, <1>2 DEF SessInv, DeadInv, LoggedOutStaysOut
<1> QED BY <1>3, <1>8, <1>9 DEF SessInv

\* The session is stored: its own tab alone knew of it.
Stores(t, r) ==
    /\ tab[t].op = "login" /\ tab[t].at = "token" /\ r \in Replies
    /\ r.session = tab[t].s /\ Reply(t, r)
    /\ store' = [store EXCEPT ![tab[t].s] = now + SessionLife]
    /\ UNCHANGED <<minted, jar, known, gone>>

LEMMA StoreKeeps ==
    ASSUME Bounds, SessInv, NEW t \in Tabs, NEW r \in Replies, Stores(t, r)
    PROVE  SessInv'
<1> DEFINE s == tab[t].s
<1>1. tab \in [Tabs -> Requests] /\ Reply(t, r) /\ r.session = s
  BY DEF Stores, SessInv, SessionsTypeOK
<1>2. /\ tab' \in [Tabs -> Requests] /\ \A u \in Tabs \ {t} : tab'[u] = tab[u]
      /\ tab'[t].at = "reply" /\ tab'[t].reply = r /\ tab'[t].op = "login" /\ tab'[t].s = s
      /\ tab'[t].dead = tab[t].dead
  BY <1>1, ReplyFields DEF Stores
<1>3. /\ UNCHANGED <<minted, jar, known, gone>> /\ tab[t].op = "login" /\ tab[t].at = "token"
      /\ store' = [store EXCEPT ![s] = now + SessionLife]
  BY DEF Stores
<1>4. s \in Ids /\ Hidden(s) /\ \A u \in Tabs \ {t} : Storing(u) => tab[u].s # s
  BY <1>3 DEF SessInv, TabsInv, TabInv, Storing
<1> HIDE DEF s
<1>5. /\ store' \in [Ids -> 0 .. (MaxTime + SessionLife)]
      /\ store'[s] = now + SessionLife /\ \A x \in Ids \ {s} : store'[x] = store[x]
  <2>1. now + SessionLife \in 0 .. (MaxTime + SessionLife)
    BY DEF Bounds
  <2> QED BY <1>3, <1>4, <2>1 DEF SessInv, SessionsTypeOK
<1>6. SessionsTypeOK'
  BY <1>2, <1>3, <1>5 DEF SessInv, SessionsTypeOK
<1>7. ASSUME NEW x \in Ids \ {s}, Hidden(x) PROVE Hidden(x)'
  BY <1>1, <1>2, <1>3, <1>5, <1>7 DEF Hidden
<1>8. ASSUME NEW u \in Tabs PROVE TabInv(u)'
  <2>1. TabInv(u)
    BY DEF SessInv, TabsInv
  <2>2. CASE u = t
    BY <1>1, <1>2, <1>3, <1>4, <2>2 DEF TabInv, Storing, Hidden
  <2>3. CASE u # t
    BY <1>2, <1>3, <1>4, <1>7, <2>1, <2>3 DEF TabInv, Storing
  <2> QED BY <2>2, <2>3
<1>9. TabsInv'
  <2>1. (\A x \in Ids : store[x] # 0 => minted[x] # NoToken)'
    BY <1>3, <1>4, <1>5 DEF SessInv, TabsInv, Hidden
  <2>2. (\A x \in gone : store[x] = 0 /\ minted[x] # NoToken)'
    BY <1>3, <1>4, <1>5 DEF SessInv, SessionsTypeOK, TabsInv, Hidden
  <2> QED BY <1>2, <1>3, <1>8, <2>1, <2>2 DEF SessInv, TabsInv, Storing
<1>10. DeadInv'
  BY <1>2, <1>3 DEF SessInv, DeadInv, LoggedOutStaysOut
<1> QED BY <1>6, <1>9, <1>10 DEF SessInv

\* A confirmed logout.
LogsOut(t, r) ==
    /\ tab[t].op = "logout" /\ tab[t].at = "session" /\ r \in Replies
    /\ r.session = 0 /\ Reply(t, r)
    /\ store' = [store EXCEPT ![tab[t].s] = 0]
    /\ gone' = gone \cup {tab[t].s}
    /\ UNCHANGED <<minted, jar, known>>

LEMMA LogoutKeeps ==
    ASSUME Bounds, SessInv, NEW t \in Tabs, NEW r \in Replies, LogsOut(t, r)
    PROVE  SessInv'
<1> DEFINE s == tab[t].s
<1>1. tab \in [Tabs -> Requests] /\ Reply(t, r) /\ r.session = 0 /\ 0 \notin Ids
  BY DEF LogsOut, SessInv, SessionsTypeOK, Ids
<1>2. /\ tab' \in [Tabs -> Requests] /\ \A u \in Tabs \ {t} : tab'[u] = tab[u]
      /\ tab'[t].at = "reply" /\ tab'[t].reply = r /\ tab'[t].op = "logout" /\ tab'[t].s = s
      /\ tab'[t].dead = tab[t].dead
  BY <1>1, ReplyFields DEF LogsOut
<1>3. /\ UNCHANGED <<minted, jar, known>> /\ tab[t].op = "logout" /\ tab[t].at = "session"
      /\ store' = [store EXCEPT ![s] = 0] /\ gone' = gone \cup {s}
  BY DEF LogsOut
<1>4. s \in Ids /\ minted[s] # NoToken
  BY <1>3 DEF SessInv, TabsInv, TabInv
<1>5. \A u \in Tabs : Storing(u) => tab[u].s # s
  BY <1>3 DEF SessInv, TabsInv, TabInv, Hidden
<1> HIDE DEF s
<1>6. /\ store' \in [Ids -> 0 .. (MaxTime + SessionLife)] /\ gone' \subseteq Ids
      /\ store'[s] = 0 /\ \A x \in Ids \ {s} : store'[x] = store[x]
  BY <1>3, <1>4 DEF SessInv, SessionsTypeOK, Bounds
<1>7. SessionsTypeOK'
  BY <1>2, <1>3, <1>6 DEF SessInv, SessionsTypeOK
<1>8. ASSUME NEW x \in Ids \ {s}, Hidden(x) PROVE Hidden(x)'
  BY <1>1, <1>2, <1>3, <1>6, <1>8 DEF Hidden
<1>9. ASSUME NEW u \in Tabs PROVE TabInv(u)'
  <2>1. TabInv(u)
    BY DEF SessInv, TabsInv
  <2>2. CASE u = t
    BY <1>1, <1>2, <1>3, <1>4, <2>2 DEF TabInv, Storing
  <2>3. CASE u # t
    BY <1>2, <1>3, <1>5, <1>8, <2>1, <2>3 DEF TabInv, Storing
  <2> QED BY <2>2, <2>3
<1>10. TabsInv'
  <2>1. (\A x \in Ids : store[x] # 0 => minted[x] # NoToken)'
    BY <1>3, <1>4, <1>6 DEF SessInv, TabsInv
  <2>2. (\A x \in gone : store[x] = 0 /\ minted[x] # NoToken)'
    BY <1>3, <1>4, <1>6 DEF SessInv, SessionsTypeOK, TabsInv
  <2> QED BY <1>2, <1>3, <1>9, <2>1, <2>2 DEF SessInv, TabsInv, Storing
<1>11. DeadInv'
  BY <1>2, <1>3 DEF SessInv, DeadInv, LoggedOutStaysOut
<1> QED BY <1>7, <1>10, <1>11 DEF SessInv

\* A reply arrives, or is lost.
LEMMA IdleFields ==
    ASSUME Bounds, SessInv, NEW t \in Tabs, Deliver(t) \/ LoseReply(t)
    PROVE  /\ tab' \in [Tabs -> Requests] /\ \A u \in Tabs \ {t} : tab'[u] = tab[u]
           /\ tab'[t] = IdleTab /\ tab[t].at = "reply"
           /\ IdleTab.at = "idle" /\ IdleTab.dead = FALSE /\ IdleTab.op = "none" /\ IdleTab.c = NoCsrf
           /\ UNCHANGED <<store, minted, gone>>
<1>1. tab' = [tab EXCEPT ![t] = IdleTab] /\ tab[t].at = "reply" /\ UNCHANGED <<store, minted, gone>>
  BY DEF Deliver, LoseReply
<1>2. IdleTab \in Requests /\ tab \in [Tabs -> Requests]
  BY CookieTypes DEF Bounds, SessInv, SessionsTypeOK
<1>3. IdleTab.at = "idle" /\ IdleTab.dead = FALSE /\ IdleTab.op = "none" /\ IdleTab.c = NoCsrf
  BY DEF IdleTab
<1> QED BY <1>1, <1>2, <1>3

LEMMA CookieFields ==
    ASSUME Bounds, SessInv, NEW t \in Tabs, Deliver(t) \/ LoseReply(t)
    PROVE  /\ jar' \in [s : SessionIds, sexp : Nat, c : Csrfs, cexp : Nat]
           /\ known' \in [Tabs -> Csrfs]
           /\ jar'.s \in {jar.s, tab[t].reply.session} /\ jar'.s # Keep
<1>1. jar \in [s : SessionIds, sexp : Nat, c : Csrfs, cexp : Nat] /\ known \in [Tabs -> Csrfs]
      /\ tab[t] \in Requests
  BY DEF SessInv, SessionsTypeOK
<1>2. tab[t].reply.session \in SessionIds \cup {Keep} /\ tab[t].reply.csrf \in Csrfs \cup {KeepCsrf}
      /\ tab[t].c \in Csrfs
  BY <1>1 DEF Requests, Replies
<1>3. CASE LoseReply(t)
  BY <1>1, <1>3 DEF LoseReply, SessionIds, Ids, Keep
<1>4. CASE Deliver(t)
  <2>1. jar' = setCookie(tab[t].reply)
    BY <1>4 DEF Deliver
  <2>2. \A r \in Replies : setCookie(r) \in [s : SessionIds, sexp : Nat, c : Csrfs, cexp : Nat]
    BY <1>1 DEF setCookie, Replies, Bounds
  <2>3. jar'.s \in {jar.s, tab[t].reply.session} /\ jar'.s # Keep
    BY <1>1, <2>1 DEF setCookie, SessionIds, Ids, Keep
  <2>4. known' \in [Tabs -> Csrfs]
    BY <1>1, <1>2, <1>4 DEF Deliver
  <2>5. tab[t].reply \in Replies
    BY <1>1 DEF Requests
  <2> QED BY <2>1, <2>2, <2>3, <2>4, <2>5
<1> QED BY <1>3, <1>4

LEMMA DeliverKeeps ==
    ASSUME Bounds, SessInv, NEW t \in Tabs, Deliver(t) \/ LoseReply(t)
    PROVE  SessInv'
<1>1. /\ tab' \in [Tabs -> Requests] /\ \A u \in Tabs \ {t} : tab'[u] = tab[u]
      /\ tab'[t].at = "idle" /\ tab'[t].dead = FALSE /\ tab[t].at = "reply"
      /\ UNCHANGED <<store, minted, gone>>
  BY IdleFields
<1>2. /\ jar' \in [s : SessionIds, sexp : Nat, c : Csrfs, cexp : Nat]
      /\ known' \in [Tabs -> Csrfs]
      /\ jar'.s \in {jar.s, tab[t].reply.session} /\ jar'.s # Keep
  BY CookieFields
<1>3. SessionsTypeOK'
  BY <1>1, <1>2 DEF SessInv, SessionsTypeOK
<1>4. ASSUME NEW s \in Ids, Hidden(s) PROVE Hidden(s)'
  BY <1>1, <1>2, <1>4 DEF Hidden
<1>5. ASSUME NEW u \in Tabs PROVE TabInv(u)'
  <2>1. TabInv(u)
    BY DEF SessInv, TabsInv
  <2>2. CASE u = t
    BY <1>1, <2>2 DEF TabInv, Storing
  <2>3. CASE u # t
    BY <1>1, <1>4, <2>1, <2>3 DEF TabInv, Storing
  <2> QED BY <2>2, <2>3
<1>6. TabsInv'
  <2>1. TabInv(t) /\ tab[t].reply.session \in SessionIds \cup {Keep}
    BY DEF SessInv, TabsInv, SessionsTypeOK, Requests, Replies
  <2>2. (jar.s # 0 => minted[jar.s] # NoToken)'
    BY <1>1, <1>2, <2>1 DEF SessInv, TabsInv, TabInv, SessionIds
  <2> QED BY <1>1, <1>5, <2>2 DEF SessInv, TabsInv, Storing
<1>7. DeadInv'
  BY <1>1 DEF SessInv, DeadInv, LoggedOutStaysOut
<1> QED BY <1>3, <1>6, <1>7 DEF SessInv

LEMMA EvictKeeps ==
    ASSUME Bounds, SessInv, NEW s \in Ids, Evict(s)
    PROVE  SessInv'
<1>1. UNCHANGED <<minted, jar, tab, known, gone>> /\ store' = [store EXCEPT ![s] = 0]
  BY DEF Evict
<1>2. /\ store' \in [Ids -> 0 .. (MaxTime + SessionLife)]
      /\ store'[s] = 0 /\ \A x \in Ids \ {s} : store'[x] = store[x]
  BY <1>1 DEF SessInv, SessionsTypeOK, Bounds
<1>3. SessionsTypeOK'
  BY <1>1, <1>2 DEF SessInv, SessionsTypeOK
<1>4. \A x \in Ids : Hidden(x) => Hidden(x)'
  BY <1>1, <1>2 DEF Hidden
<1>5. \A u \in Tabs : TabInv(u)'
  BY <1>1, <1>4 DEF SessInv, TabsInv, TabInv, Storing
<1>6. TabsInv'
  <2>1. (\A x \in gone : store[x] = 0 /\ minted[x] # NoToken)'
    BY <1>1, <1>2 DEF SessInv, SessionsTypeOK, TabsInv
  <2> QED BY <1>1, <1>2, <1>5, <2>1 DEF SessInv, TabsInv, Storing
<1>7. DeadInv'
  BY <1>1 DEF SessInv, DeadInv, LoggedOutStaysOut
<1> QED BY <1>3, <1>6, <1>7 DEF SessInv

\* A step of the sessions is one of these.
Shaped(t) ==
    \/ \E r \in Replies : Answers(t, r) \/ Stores(t, r) \/ LogsOut(t, r)
    \/ \E where \in Ats : Passes(t, where) /\ (where = "session" => Live(tab[t].s))
    \/ \E op \in Ops : Send(t, op)
    \/ \E s \in Ids : Mints(t, s)
    \/ Deliver(t) \/ LoseReply(t)

LEMMA ShapedKeeps ==
    ASSUME Bounds, KeysInv, SessInv, NEW t \in Tabs, Shaped(t)
    PROVE  SessInv'
BY AnswersKeep, StoreKeeps, LogoutKeeps, PassesKeep, SendKeeps, MintKeeps, DeliverKeeps DEF Shaped

\* Every step of a tab has one of these shapes.
LEMMA TabStepShaped ==
    ASSUME Bounds, SessInv, NEW t \in Tabs,
           \/ \E op \in {"login", "logout", "csrf", "read", "mutate"} : Send(t, op)
           \/ LoginToken(t) \/ handleLoginUser(t)
           \/ withVerifyCSRFMiddleware(t) \/ withVerifySessionMiddleware(t)
           \/ Serve(t) \/ handleLogout(t) \/ handleGetCSRFToken(t)
           \/ Deliver(t) \/ LoseReply(t)
    PROVE  Shaped(t) /\ UNCHANGED <<now, keyVars>>
<1>0. SessionsTypeOK /\ MaxTime \in Nat /\ now \in 0 .. MaxTime
  BY DEF SessInv, Bounds
<1>1. UNCHANGED <<now, keyVars>>
  BY Zenon DEF Send, LoginToken, handleLoginUser, withVerifyCSRFMiddleware,
               withVerifySessionMiddleware, Serve, handleLogout, handleGetCSRFToken,
               Deliver, LoseReply
<1> SUFFICES Shaped(t)
  BY <1>1
<1>2. ASSUME NEW where \in Ats, Passes(t, where), withVerifySessionMiddleware(t)
      PROVE  Live(tab[t].s)
  <2>1. tab[t].at # "reply" /\ tab[t] \in Requests
    BY <1>0, <1>2 DEF Passes, SessionsTypeOK
  <2>2. ~Fail(t)
    BY <1>0, <1>2, <2>1, AtFields, ReplyFields, CookieTypes DEF Passes, Fail, SessionsTypeOK
  <2> QED BY <1>2, <2>2 DEF withVerifySessionMiddleware
<1>3. CASE withVerifyCSRFMiddleware(t) \/ withVerifySessionMiddleware(t)
           \/ Serve(t) \/ handleGetCSRFToken(t)
  <2>1. (\E r \in Replies : Answers(t, r)) \/ (\E where \in Ats : Passes(t, where))
    BY <1>0, <1>3, Handlers
  <2>2. ASSUME NEW where \in Ats, Passes(t, where), where = "session" PROVE Live(tab[t].s)
    <3>1. CASE withVerifySessionMiddleware(t)
      BY <3>1, <2>2, <1>2
    <3>2. CASE withVerifyCSRFMiddleware(t)
      <4>1. At(t, "csrf") \/ Fail(t)
        BY <3>2 DEF withVerifyCSRFMiddleware
      <4>2. tab'[t].at \in {"csrf", "reply"}
        BY <4>1, <1>0, AtFields, ReplyFields, CookieTypes DEF Fail, SessionsTypeOK, Ats
      <4>3. tab'[t].at = "session"
        BY <1>0, <2>2, AtFields DEF Passes, SessionsTypeOK
      <4> QED BY <4>2, <4>3
    <3>3. CASE Serve(t) \/ handleGetCSRFToken(t)
      BY <3>3, <2>2 DEF Serve, handleGetCSRFToken, Passes
    <3> QED BY <1>3, <3>1, <3>2, <3>3
  <2> QED BY <2>1, <2>2 DEF Shaped
<1>4. CASE LoginToken(t)
  <2>1. CASE Fail(t) /\ UNCHANGED minted
    BY <1>0, <1>4, <2>1, Handlers DEF LoginToken, Shaped, Passes
  <2>2. CASE \E s \in Ids : minted[s] = NoToken /\ minted' = [minted EXCEPT ![s] = IssueToken(s)]
                            /\ tab' = [tab EXCEPT ![t].at = "token", ![t].s = s]
    BY <1>4, <2>2 DEF LoginToken, Mints, Shaped
  <2> QED BY <1>4, <2>1, <2>2 DEF LoginToken
<1>5. CASE handleLoginUser(t)
  <2>1. CASE Fail(t) /\ UNCHANGED store
    BY <1>0, <1>5, <2>1, Handlers DEF handleLoginUser, Shaped, Passes
  <2>2. CASE ~(Fail(t) /\ UNCHANGED store)
    <3> DEFINE r == [session |-> tab[t].s, csrf |-> generateCSRFToken(tab[t].s), ack |-> TRUE]
    <3>1. tab[t].s \in SessionIds
      BY <1>0 DEF SessionsTypeOK, Requests
    <3>2. r \in Replies /\ r.session = tab[t].s
      BY <1>0, <3>1, CookieTypes DEF Replies
    <3>3. Stores(t, r)
      BY <1>5, <2>2, <3>2 DEF handleLoginUser, Stores
    <3> QED BY <3>2, <3>3 DEF Shaped
  <2> QED BY <2>1, <2>2
<1>6. CASE handleLogout(t)
  <2>1. CASE UNCHANGED <<store, gone>>
    BY <1>0, <1>6, <2>1, Handlers DEF handleLogout, Shaped, Passes
  <2>2. CASE ~UNCHANGED <<store, gone>>
    <3> DEFINE r == [session |-> 0, csrf |-> NoCsrf, ack |-> TRUE]
    <3>1. r \in Replies /\ r.session = 0
      BY <1>0, CookieTypes DEF Replies, SessionIds
    <3>2. LogsOut(t, r)
      BY <1>6, <2>2, <3>1 DEF handleLogout, LogsOut
    <3> QED BY <3>1, <3>2 DEF Shaped
  <2> QED BY <2>1, <2>2
<1>7. CASE \E op \in {"login", "logout", "csrf", "read", "mutate"} : Send(t, op)
  BY <1>7 DEF Shaped, Ops
<1>8. CASE Deliver(t) \/ LoseReply(t)
  BY <1>8 DEF Shaped
<1> QED BY <1>3, <1>4, <1>5, <1>6, <1>7, <1>8

LEMMA SessInitial == ASSUME AuthKeysAssumption, SessionsAssumption, Init PROVE SessInv
<1>1. Bounds
  BY DEF AuthKeysAssumption, SessionsAssumption, Bounds, Init, KeysInit
<1>2. NoCsrf \in Csrfs /\ IdleTab \in Requests
  <2>1. NoCsrf \in Csrfs
    BY <1>1 DEF NoCsrf, Csrfs, SessionIds, Bounds
  <2>2. NoReply \in Replies
    BY DEF NoReply, Replies
  <2> QED BY <2>1, <2>2 DEF IdleTab, Requests, SessionIds
<1>3. IdleTab.at = "idle" /\ IdleTab.dead = FALSE
  BY DEF IdleTab
<1>4. 0 \in 0 .. (MaxTime + SessionLife) /\ 0 \in SessionIds
  BY <1>1 DEF Bounds, SessionIds
<1>5. SessionsTypeOK
  BY <1>2, <1>4 DEF Init, SessionsInit, SessionsTypeOK
<1>6. TabsInv
  BY <1>3 DEF Init, SessionsInit, TabsInv, TabInv, Storing
<1>7. DeadInv
  BY <1>3 DEF Init, SessionsInit, DeadInv, LoggedOutStaysOut
<1> QED BY <1>5, <1>6, <1>7 DEF SessInv

\* The clock and the keys move without the sessions, and every other step is a
\* step of one tab, or an eviction.
LEMMA StepKinds ==
    ASSUME AuthKeysAssumption, SessionsAssumption, KeysInv, SessInv, [Next]_vars
    PROVE  /\ Bounds
           /\ \/ /\ (Tick \/ KeysNext \/ UNCHANGED <<now, keyVars>>) /\ UNCHANGED sessVars
                 /\ Tick => \A t \in Tabs : tab[t].at \in {"idle", "sent", "reply"}
              \/ (\E t \in Tabs : Shaped(t)) /\ UNCHANGED <<now, keyVars>>
              \/ (\E s \in Ids : Evict(s)) /\ UNCHANGED <<now, keyVars>>
<1>1. Bounds
  BY DEF AuthKeysAssumption, SessionsAssumption, Bounds, KeysInv, KeysTypeOK
<1>2. CASE UNCHANGED vars
  BY <1>1, <1>2 DEF vars, Tick, keyVars, Bounds
<1>3. CASE \E s \in Ids : Evict(s)
  BY <1>1, <1>3 DEF Evict
<1>4. CASE Tick /\ UNCHANGED sessVars /\ \A t \in Tabs : tab[t].at \in {"idle", "sent", "reply"}
  BY <1>1, <1>4
<1>5. CASE KeysNext /\ UNCHANGED sessVars
  <2>1. now' = now
    BY <1>5 DEF KeysNext, Preserve, InstallPrivate, InstallPublic, InstallPublicFails, Publish,
                RestartVerifiers, RestartSigner, Prune, RestartAll, Restart
  <2>2. ~Tick
    BY <1>1, <2>1 DEF Tick, Bounds
  <2> QED BY <1>1, <1>5, <2>2
<1>6. ASSUME NEW t \in Tabs,
             \/ \E op \in {"login", "logout", "csrf", "read", "mutate"} : Send(t, op)
             \/ LoginToken(t) \/ handleLoginUser(t)
             \/ withVerifyCSRFMiddleware(t) \/ withVerifySessionMiddleware(t)
             \/ Serve(t) \/ handleLogout(t) \/ handleGetCSRFToken(t)
             \/ Deliver(t) \/ LoseReply(t)
      PROVE  Shaped(t) /\ UNCHANGED <<now, keyVars>>
  BY <1>1, <1>6, TabStepShaped
<1> QED BY <1>1, <1>2, <1>3, <1>4, <1>5, <1>6 DEF Next

LEMMA SessStep ==
    ASSUME AuthKeysAssumption, SessionsAssumption, KeysInv, SessInv, [Next]_vars
    PROVE  KeysInv' /\ SessInv'
<1>1. [Tick \/ KeysNext]_<<now, keyVars>>
  BY StepKinds
<1>2. KeysInv'
  BY <1>1, KeysStep
<1>3. Bounds
  BY StepKinds
<1>4. CASE UNCHANGED sessVars
  <2>1. SessionsTypeOK'
    BY <1>4 DEF sessVars, SessInv, SessionsTypeOK
  <2>2. TabsInv'
    BY <1>4 DEF sessVars, SessInv, TabsInv, TabInv, Storing, Hidden
  <2>3. DeadInv'
    BY <1>4 DEF sessVars, SessInv, DeadInv, LoggedOutStaysOut
  <2> QED BY <1>2, <2>1, <2>2, <2>3 DEF SessInv
<1>5. CASE \E t \in Tabs : Shaped(t)
  BY <1>2, <1>3, <1>5, ShapedKeeps
<1>6. CASE \E s \in Ids : Evict(s)
  BY <1>2, <1>3, <1>6, EvictKeeps
<1> QED BY <1>4, <1>5, <1>6, StepKinds

LEMMA SessInvariant ==
    ASSUME AuthKeysAssumption, SessionsAssumption PROVE Spec => [](KeysInv /\ SessInv)
<1>1. Init => KeysInv /\ SessInv
  BY KeysInitial, SessInitial DEF Init
<1>2. KeysInv /\ SessInv /\ [Next]_vars => KeysInv' /\ SessInv'
  BY SessStep
<1> QED BY <1>1, <1>2, PTL DEF Spec

\* The type invariant of the sessions and of the keys under them.
THEOREM SessionsTypeCorrect ==
    ASSUME AuthKeysAssumption, SessionsAssumption PROVE Spec => []TypeOK
<1>1. KeysInv /\ SessInv => TypeOK
  BY DEF KeysInv, SessInv, SessionsTypeOK, TypeOK, Requests, SessionIds
<1> QED BY <1>1, SessInvariant, PTL

\* handleLogout answers 204 only after the session left Redis, and nothing puts
\* it back: no later request with its cookie passes the session check.
THEOREM ConfirmedLogoutHolds ==
    ASSUME AuthKeysAssumption, SessionsAssumption PROVE Spec => []LoggedOutStaysOut
<1>1. SessInv => LoggedOutStaysOut
  BY DEF SessInv, DeadInv
<1> QED BY <1>1, SessInvariant, PTL

-----------------------------------------------------------------------------
(* Tokens and sessions through rotations of the key.                        *)

\* What a step of a tab does to tokens, to the tabs that store a session, and
\* to the store.
LEMMA ShapedFrame ==
    ASSUME Bounds, KeysInv, SessInv, NEW t \in Tabs, Shaped(t)
    PROVE  /\ \A u \in Tabs \ {t} : tab'[u] = tab[u]
           /\ \/ UNCHANGED minted /\ tab'[t].at # "token"
              \/ (\E s \in Ids : Mints(t, s)) /\ UNCHANGED store
           /\ \A s \in Ids : 
                 \/ store'[s] \in {store[s], 0}
                 \/ tab[t].at = "token" /\ tab[t].s = s /\ store'[s] = now + SessionLife
<1>0. tab \in [Tabs -> Requests] /\ store \in [Ids -> 0 .. (MaxTime + SessionLife)]
  BY DEF SessInv, SessionsTypeOK
<1>1. ASSUME NEW r \in Replies, Answers(t, r) \/ Stores(t, r) \/ LogsOut(t, r)
      PROVE  (\A u \in Tabs \ {t} : tab'[u] = tab[u]) /\ UNCHANGED minted /\ tab'[t].at # "token"
  <2>1. Reply(t, r) /\ UNCHANGED minted
    BY <1>1 DEF Answers, Stores, LogsOut, Aside
  <2> QED BY <1>0, <2>1, ReplyFields
<1>2. ASSUME NEW r \in Replies, Answers(t, r) \/ Stores(t, r) \/ LogsOut(t, r), NEW s \in Ids
      PROVE  \/ store'[s] \in {store[s], 0}
             \/ tab[t].at = "token" /\ tab[t].s = s /\ store'[s] = now + SessionLife
  BY <1>0, <1>2 DEF Answers, Stores, LogsOut, Aside
<1>3. ASSUME NEW where \in Ats, Passes(t, where)
      PROVE  (\A u \in Tabs \ {t} : tab'[u] = tab[u]) /\ UNCHANGED <<store, minted>>
             /\ tab'[t].at # "token"
  BY <1>0, <1>3, AtFields DEF Passes, Aside
<1>4. ASSUME NEW op \in Ops, Send(t, op)
      PROVE  (\A u \in Tabs \ {t} : tab'[u] = tab[u]) /\ UNCHANGED <<store, minted>>
             /\ tab'[t].at # "token"
  BY <1>4, SendFields
<1>5. ASSUME Deliver(t) \/ LoseReply(t)
      PROVE  (\A u \in Tabs \ {t} : tab'[u] = tab[u]) /\ UNCHANGED <<store, minted>>
             /\ tab'[t].at # "token"
  BY <1>5, IdleFields
<1>6. ASSUME NEW s \in Ids, Mints(t, s)
      PROVE  (\A u \in Tabs \ {t} : tab'[u] = tab[u]) /\ UNCHANGED store
  BY <1>6, MintFields DEF Mints
<1>7. CASE \E r \in Replies : Answers(t, r) \/ Stores(t, r) \/ LogsOut(t, r)
  BY <1>1, <1>2, <1>7
<1>8. CASE \E s \in Ids : Mints(t, s)
  BY <1>6, <1>8
<1>9. CASE (\E where \in Ats : Passes(t, where)) \/ (\E op \in Ops : Send(t, op))
           \/ Deliver(t) \/ LoseReply(t)
  BY <1>3, <1>4, <1>5, <1>9
<1> QED BY <1>7, <1>8, <1>9 DEF Shaped

\* A token has an integer expiry and the kid of a key.
LEMMA TokenTypes ==
    ASSUME SessInv, NEW s \in Ids, minted[s] # NoToken
    PROVE  minted[s].exp \in Nat /\ minted[s].kid \in Gens
BY DEF SessInv, SessionsTypeOK, Tokens

LEMMA NewToken ==
    ASSUME Bounds, KeysInv, SessInv, NEW t \in Tabs, NEW s \in Ids, Mints(t, s)
    PROVE  /\ minted'[s].kid = signing.kid /\ minted'[s].key = signing.kid
           /\ minted'[s].exp = now + TokenLife
           /\ \A x \in Ids \ {s} : minted'[x] = minted[x]
<1>1. minted'[s] = IssueToken(s) /\ \A x \in Ids \ {s} : minted'[x] = minted[x]
  BY MintFields
<1>2. signing.key = signing.kid
  BY DEF KeysInv, SignerInv
<1> QED BY <1>1, <1>2 DEF IssueToken

LEMMA MintedStep ==
    ASSUME AuthKeysAssumption, SessionsAssumption, KeysInv, SessInv, MintedInv, [Next]_vars
    PROVE  MintedInv'
<1>0. Bounds /\ SessInv' /\ now \in Nat /\ TokenLife \in Nat
  BY StepKinds, SessStep DEF Bounds
<1>1. CASE /\ (Tick \/ KeysNext \/ UNCHANGED <<now, keyVars>>) /\ UNCHANGED sessVars
           /\ Tick => \A t \in Tabs : tab[t].at \in {"idle", "sent", "reply"}
  <2>1. now' = now \/ (now' = now + 1 /\ \A t \in Tabs : ~Storing(t))
    BY <1>1 DEF Tick, KeysNext, Preserve, InstallPrivate, InstallPublic, InstallPublicFails, Publish,
                RestartVerifiers, RestartSigner, Prune, RestartAll, Restart, Storing
  <2>2. \A s \in Ids : minted[s] # NoToken => minted[s].exp \in Nat
    BY TokenTypes
  <2> QED BY <1>0, <1>1, <2>1, <2>2 DEF sessVars, MintedInv, Storing
<1>2. ASSUME NEW t \in Tabs, Shaped(t), UNCHANGED <<now, keyVars>> PROVE MintedInv'
  <2>1. \A u \in Tabs \ {t} : tab'[u] = tab[u]
    BY <1>0, <1>2, ShapedFrame
  <2>2. CASE UNCHANGED minted /\ tab'[t].at # "token"
    BY <1>2, <2>1, <2>2 DEF MintedInv, Storing
  <2>3. ASSUME NEW s \in Ids, Mints(t, s) PROVE MintedInv'
    <3>1. minted'[s].kid = minted'[s].key /\ minted'[s].exp = now + TokenLife
          /\ \A x \in Ids \ {s} : minted'[x] = minted[x]
      BY <1>0, <2>3, NewToken
    <3>2. tab'[t].s = s /\ minted[s] = NoToken
      BY <1>0, <2>3, MintFields DEF Mints
    <3>3. \A u \in Tabs : Storing(u) => tab[u].s \in Ids \ {s}
      BY <3>2 DEF SessInv, TabsInv, TabInv, Hidden
    <3> QED BY <1>0, <1>2, <2>1, <3>1, <3>2, <3>3 DEF MintedInv, Storing
  <2> QED BY <1>0, <1>2, <2>2, <2>3, ShapedFrame
<1>3. ASSUME NEW s \in Ids, Evict(s), UNCHANGED <<now, keyVars>> PROVE MintedInv'
  BY <1>3 DEF Evict, MintedInv, Storing
<1> QED BY <1>1, <1>2, <1>3, StepKinds

\* The grace period starts when the signer is restarted.
LEMMA GraceStarts ==
    ASSUME [Tick \/ KeysNext]_<<now, keyVars>>, step' = "grace"
    PROVE  \/ step = "grace" /\ UNCHANGED <<disk, since>>
           \/ since' = now /\ UNCHANGED now
<1>1. CASE RestartSigner
  BY <1>1 DEF RestartSigner
<1>2. CASE Preserve \/ InstallPrivate \/ InstallPublic \/ InstallPublicFails \/ Publish
           \/ RestartVerifiers \/ Prune \/ RestartAll
  BY <1>2 DEF Preserve, InstallPrivate, InstallPublic, InstallPublicFails, Publish,
              RestartVerifiers, Prune, RestartAll
<1>3. CASE Tick \/ (\E s \in Services : Restart(s)) \/ UNCHANGED <<now, keyVars>>
  BY <1>3 DEF Tick, Restart, keyVars
<1> QED BY <1>1, <1>2, <1>3 DEF KeysNext

\* Which key Prune takes away, and when.
LEMMA Pruned ==
    ASSUME KeysInv, VerifierFirst, NEW k \in Gens, Prune, trusted[k] # File
    PROVE  step = "grace" /\ k # disk.pub /\ since + Grace <= now
BY DEF Prune, VerifierFirst, KeysInv, KeysTypeOK

\* A key is published by InstallPublic after every token was signed; the state
\* Early ends when the verifiers restart, and load the entry.
LEMMA PublicAdvances ==
    ASSUME AuthKeysAssumption, KeysInv, VerifierFirst, [Tick \/ KeysNext]_<<now, keyVars>>
    PROVE  /\ disk'.pub \in Nat /\ disk.pub <= disk'.pub
           /\ Early(disk.pub) => disk' = disk /\ (Early(disk.pub)' \/ Kept(disk.pub)')
<1>0. disk \in [priv : Gens, pub : Gens] /\ disk.pub \in Nat /\ disk.priv \in Nat
  BY DEF KeysInv, KeysTypeOK, Gens
<1>1. CASE InstallPublic
  <2>1. disk'.pub = disk.pub + 1
    BY <1>0, <1>1 DEF InstallPublic, KeysInv, FilesInv
  <2> QED BY <1>0, <1>1, <2>1 DEF InstallPublic, Early
<1>2. CASE RestartVerifiers
  <2>1. disk' = disk /\ step' = "verifiers" /\ VerifierFirst'
    BY <1>2, VerifierFirstStep DEF RestartVerifiers
  <2> QED BY <1>0, <2>1 DEF VerifierFirst, Kept, Loaded
<1>3. CASE Tick \/ (\E s \in Services : Restart(s)) \/ UNCHANGED <<now, keyVars>>
  BY <1>0, <1>3 DEF Tick, Restart, keyVars, Early
<1>4. CASE Preserve \/ InstallPrivate \/ InstallPublicFails \/ Publish \/ RestartSigner
           \/ Prune \/ RestartAll
  BY <1>0, <1>4 DEF Preserve, InstallPrivate, InstallPublicFails, Publish, RestartSigner, Prune,
                    RestartAll, Early
<1> QED BY <1>1, <1>2, <1>3, <1>4 DEF KeysNext

\* What a token's kid is worth after a step of the keys or of the clock.
LEMMA TokenStays ==
    ASSUME AuthKeysAssumption, KeysInv, VerifierFirst, MintedInv, [Tick \/ KeysNext]_<<now, keyVars>>,
           now' \in {now, now + 1}, NEW s \in Ids, minted[s] # NoToken, UNCHANGED minted,
           NEW k \in Gens, NEW exp \in Nat, k = minted[s].kid, exp = minted[s].exp,
           k <= disk.pub, TokenKept(minted[s]),
           step = "grace" /\ k # disk.pub => exp <= since + TokenLife
    PROVE  /\ k <= disk'.pub
           /\ TokenKept(minted[s])'
           /\ step' = "grace" /\ k # disk'.pub => exp <= since' + TokenLife
<1>0. /\ now \in Nat /\ TokenLife \in Nat /\ Grace \in Nat /\ since \in Nat
      /\ disk.pub \in Nat /\ k \in Nat /\ exp <= now + TokenLife
      /\ minted[s].key = k
  BY DEF AuthKeysAssumption, KeysInv, KeysTypeOK, Gens, MintedInv
<1>1. /\ disk'.pub \in Nat /\ disk.pub <= disk'.pub
      /\ Early(disk.pub) => disk' = disk /\ (Early(disk.pub)' \/ Kept(disk.pub)')
  BY PublicAdvances
<1>2. minted'[s] = minted[s] /\ (Kept(minted[s].kid)' <=> Kept(k)') /\ (Early(minted[s].kid)' <=> Early(k)')
  BY DEF Kept, Loaded, Early
<1>3. ASSUME Outdated(minted[s]) PROVE TokenKept(minted[s])'
  <2>1. k # disk.pub /\ now >= exp - TokenLife + Grace
    BY <1>0, <1>3 DEF Outdated
  <2>2. k # disk'.pub /\ now' >= exp - TokenLife + Grace
    BY <1>0, <1>1, <2>1
  <2> QED BY <1>0, <1>2, <2>2 DEF Outdated, TokenKept
<1>4. ASSUME Early(k) PROVE TokenKept(minted[s])'
  <2>1. k = disk.pub /\ disk' = disk
    BY <1>1, <1>4 DEF Early
  <2>2. Early(k)' \/ Kept(k)'
    BY <1>1, <1>4, <2>1 DEF Early, Kept, Loaded
  <2> QED BY <1>2, <2>2 DEF TokenKept
<1>5. ASSUME Kept(k) /\ ~(Prune /\ trusted[k] # File) PROVE TokenKept(minted[s])'
  <2>1. Kept(k)'
    BY <1>5, KeptStays
  <2> QED BY <1>2, <2>1 DEF TokenKept
<1>6. ASSUME Prune /\ trusted[k] # File PROVE TokenKept(minted[s])'
  <2>1. step = "grace" /\ k # disk.pub /\ since + Grace <= now
    BY <1>6, Pruned
  <2>2. now' = now /\ disk' = disk
    BY <1>6 DEF Prune
  <2>3. k # disk'.pub /\ now' >= exp - TokenLife + Grace
    BY <1>0, <2>1, <2>2
  <2> QED BY <1>0, <1>2, <2>3 DEF Outdated, TokenKept
<1>7. ASSUME step' = "grace", k # disk'.pub PROVE exp <= since' + TokenLife
  BY <1>0, <1>7, GraceStarts
<1>8. k <= disk'.pub
  BY <1>0, <1>1
<1>9. TokenKept(minted[s])'
  BY <1>3, <1>4, <1>5, <1>6 DEF TokenKept
<1> QED BY <1>7, <1>8, <1>9

LEMMA TokenStep ==
    ASSUME AuthKeysAssumption, SessionsAssumption, KeysInv, SessInv, VerifierFirst, MintedInv,
           TokenInv, [Next]_vars
    PROVE  TokenInv'
<1>0. /\ Bounds /\ now \in Nat /\ TokenLife \in Nat /\ Grace \in Nat /\ since \in Nat
      /\ signing.kid \in Gens /\ signing.kid \in Nat /\ disk.pub \in Nat
  BY StepKinds DEF Bounds, AuthKeysAssumption, KeysInv, KeysTypeOK, Gens
<1>1. CASE (Tick \/ KeysNext \/ UNCHANGED <<now, keyVars>>) /\ UNCHANGED sessVars
  <2>1. [Tick \/ KeysNext]_<<now, keyVars>> /\ now' \in {now, now + 1} /\ minted' = minted
    BY <1>1 DEF Tick, KeysNext, Preserve, InstallPrivate, InstallPublic, InstallPublicFails, Publish,
                RestartVerifiers, RestartSigner, Prune, RestartAll, Restart, sessVars
  <2>2. ASSUME NEW s \in Ids, minted[s] # NoToken
        PROVE  /\ minted[s].kid <= disk'.pub
               /\ TokenKept(minted[s])'
               /\ step' = "grace" /\ minted[s].kid # disk'.pub => minted[s].exp <= since' + TokenLife
    <3>1. PICK k \in Gens, exp \in Nat : k = minted[s].kid /\ exp = minted[s].exp
      BY <2>2, TokenTypes
    <3>2. /\ k <= disk.pub /\ TokenKept(minted[s])
          /\ step = "grace" /\ k # disk.pub => exp <= since + TokenLife
      BY <2>2, <3>1 DEF TokenInv
    <3> QED BY <2>1, <2>2, <3>1, <3>2, TokenStays
  <2> QED BY <2>1, <2>2 DEF TokenInv
<1>2. CASE UNCHANGED <<now, keyVars, minted>>
  BY <1>2 DEF TokenInv, TokenKept, Early, Outdated, keyVars, Kept, Loaded
<1>3. ASSUME NEW t \in Tabs, NEW s \in Ids, Mints(t, s), UNCHANGED <<now, keyVars>> PROVE TokenInv'
  <2>1. minted'[s].kid = signing.kid /\ \A x \in Ids \ {s} : minted'[x] = minted[x]
    BY <1>0, <1>3, NewToken
  <2>2. /\ Kept(signing.kid) \/ Early(signing.kid)
        /\ step = "grace" => signing.kid = disk.pub
        /\ signing.kid <= disk.pub
    BY <1>0 DEF VerifierFirst
  <2>3. /\ now' = now /\ step' = step /\ disk' = disk /\ since' = since
        /\ \A k : (Kept(k)' <=> Kept(k)) /\ (Early(k)' <=> Early(k))
    BY <1>3 DEF Kept, Loaded, Early, keyVars
  <2>4. TokenKept(minted[s])'
    BY <2>1, <2>2, <2>3 DEF TokenKept
  <2>5. ASSUME NEW x \in Ids \ {s}, minted[x] # NoToken PROVE TokenKept(minted[x])'
    BY <2>1, <2>3, <2>5 DEF TokenInv, TokenKept, Outdated
  <2> QED BY <2>1, <2>2, <2>3, <2>4, <2>5 DEF TokenInv
<1>4. ASSUME NEW t \in Tabs, Shaped(t), UNCHANGED <<now, keyVars>> PROVE TokenInv'
  BY <1>0, <1>2, <1>3, <1>4, ShapedFrame
<1>5. ASSUME NEW s \in Ids, Evict(s), UNCHANGED <<now, keyVars>> PROVE TokenInv'
  BY <1>2, <1>5 DEF Evict
<1> QED BY <1>1, <1>4, <1>5, StepKinds

\* Through any rotations, with any restarts of the signer and the verifiers, a
\* verifier refuses the signature of a token only ahead of its own restart, or
\* when the token's key was replaced and the token is as old as the grace period
\* (rotate-auth-key.sh:221, auth.go:440); so does the check of a stored session.
THEOREM TokensOutliveRotations ==
    ASSUME AuthKeysAssumption, SessionsAssumption
    PROVE  Spec => [](TokensHonoured /\ SessionAccepted)
<1> DEFINE I == KeysInv /\ SessInv /\ VerifierFirst /\ MintedInv /\ TokenInv
<1>1. Init => I
  <2>1. IdleTab.at = "idle"
    BY DEF IdleTab
  <2>2. Init => MintedInv /\ TokenInv
    BY <2>1 DEF Init, SessionsInit, MintedInv, TokenInv, Storing
  <2> QED BY <2>2, KeysInitial, SessInitial, VerifierFirstInitial DEF Init
<1>2. I /\ [Next]_vars => I'
  <2> SUFFICES ASSUME I, [Next]_vars PROVE I'
    OBVIOUS
  <2>1. [Tick \/ KeysNext]_<<now, keyVars>>
    BY StepKinds
  <2> QED BY <2>1, SessStep, VerifierFirstStep, MintedStep, TokenStep
<1>3. ASSUME I, NEW s \in Ids, NEW v \in Verifiers, minted[s] # NoToken
      PROVE  ValidateToken(v, minted[s]) # "invalid" \/ SignedEarly(v, minted[s]) \/ Outdated(minted[s])
  <2>1. TokenKept(minted[s]) /\ minted[s].key = minted[s].kid /\ minted[s].kid \in Gens
    BY <1>3, TokenTypes DEF TokenInv, MintedInv
  <2>2. v \in Services
    BY DEF Services
  <2>3. bundle[v][minted[s].kid] \in {minted[s].kid, NoKey}
    BY <1>3, <2>1, <2>2 DEF KeysInv, BundlesInv
  <2>4. CASE bundle[v][minted[s].kid] = minted[s].kid
    BY <2>1, <2>4 DEF ValidateToken
  <2> QED BY <2>1, <2>3, <2>4 DEF TokenKept, Kept, Early, SignedEarly
<1>4. I => TokensHonoured
  BY <1>3 DEF TokensHonoured
<1>5. I => SessionAccepted
  <2> SUFFICES ASSUME I, NEW s \in Ids, Live(s), Server \in up
               PROVE  Authentic(s) \/ SignedEarly(Server, minted[s]) \/ Outdated(minted[s])
    BY DEF SessionAccepted
  <2>1. store[s] # 0
    BY DEF Live, KeysInv, KeysTypeOK
  <2>2. minted[s] # NoToken /\ Server \in Verifiers
    BY <2>1 DEF SessInv, TabsInv, SessionsAssumption
  <2> QED BY <2>2, <1>3 DEF Authentic
<1> QED BY <1>1, <1>2, <1>4, <1>5, PTL DEF Spec

-----------------------------------------------------------------------------
(* One CSRF token per session.                                              *)

\* Nothing changes a token that was signed.
TokensStay == \A s \in Ids : minted[s] # NoToken => minted'[s] = minted[s]

LEMMA ToldStays == ASSUME TokensStay, NEW c, Told(c) PROVE Told(c)'
BY DEF TokensStay, Told

LEMMA RepliesStay ==
    ASSUME TokensStay, NEW r, TellReply(r) PROVE TellReply(r)'
BY ToldStays DEF TellReply

LEMMA TabTells ==
    ASSUME SessInv, TokensStay, NEW u \in Tabs, TellTab(u),
           tab'[u] = tab[u], known'[u] = known[u],
           tab[u].at = "session" => now' = now
    PROVE  TellTab(u)'
<1>1. Told(known[u])' /\ Told(tab[u].c)'
  <2>1. PICK c, d : c = known[u] /\ d = tab[u].c
    OBVIOUS
  <2>2. Told(c)' /\ Told(d)'
    BY <2>1, ToldStays DEF TellTab
  <2> QED BY <2>1, <2>2 DEF Told
<1>2. tab[u].at = "reply" => TellReply(tab[u].reply)'
  <2>1. PICK r : r = tab[u].reply
    OBVIOUS
  <2>2. tab[u].at = "reply" => TellReply(r)'
    BY <2>1, RepliesStay DEF TellTab
  <2> QED BY <2>1, <2>2 DEF TellReply, Told
<1>3. tab[u].at = "session" /\ tab[u].op # "login" => minted'[tab[u].s] = minted[tab[u].s]
  BY DEF SessInv, TabsInv, TabInv, TokensStay
<1> QED BY <1>1, <1>2, <1>3 DEF TellTab
\* The effect of a tab's step on signed tokens, the store and the other tabs.
LEMMA FrameTells ==
    ASSUME Bounds, KeysInv, SessInv, MintedInv, TellStore, NEW t \in Tabs, Shaped(t), now' = now
    PROVE  TokensStay /\ TellStore' /\ \A u \in Tabs \ {t} : tab'[u] = tab[u]
<1>0. /\ \A u \in Tabs \ {t} : tab'[u] = tab[u]
      /\ \/ UNCHANGED minted /\ tab'[t].at # "token"
         \/ (\E s \in Ids : Mints(t, s)) /\ UNCHANGED store
      /\ \A s \in Ids :
            \/ store'[s] \in {store[s], 0}
            \/ tab[t].at = "token" /\ tab[t].s = s /\ store'[s] = now + SessionLife
  BY ShapedFrame
<1>1. /\ now \in Nat /\ TokenLife \in Nat /\ SessionLife \in Nat
      /\ \A s \in Ids : store[s] \in Nat
      /\ \A s \in Ids : minted[s] # NoToken => minted[s].exp \in Nat
  BY TokenTypes DEF Bounds, SessInv, SessionsTypeOK
<1>2. CASE UNCHANGED minted
  <2>1. ASSUME NEW s \in Ids, minted[s] # NoToken
        PROVE  store'[s] + TokenLife <= minted[s].exp + SessionLife
    <3>1. store[s] + TokenLife <= minted[s].exp + SessionLife
      BY <2>1 DEF TellStore
    <3>2. CASE store'[s] \in {store[s], 0}
      BY <1>1, <2>1, <3>1, <3>2
    <3>3. CASE tab[t].at = "token" /\ tab[t].s = s /\ store'[s] = now + SessionLife
      <4>1. minted[s].exp = now + TokenLife
        BY <3>3 DEF MintedInv, Storing
      <4> QED BY <1>1, <3>3, <4>1
    <3> QED BY <1>0, <3>2, <3>3
  <2> QED BY <1>0, <1>2, <2>1 DEF TellStore, TokensStay
<1>3. ASSUME NEW s \in Ids, Mints(t, s), UNCHANGED store
      PROVE  TokensStay /\ TellStore'
  <2>1. minted'[s].exp = now + TokenLife /\ \A x \in Ids \ {s} : minted'[x] = minted[x]
    BY <1>3, NewToken
  <2>2. minted[s] = NoToken /\ store[s] = 0
    BY <1>3 DEF Mints, SessInv, TabsInv
  <2> QED BY <1>1, <1>3, <2>1, <2>2 DEF TellStore, TokensStay
<1> QED BY <1>0, <1>2, <1>3

\* A handler's reply names the CSRF token of the session it starts, and no other.
LEMMA HandlerTells ==
    ASSUME Bounds, SessInv, MintedInv, TellInv, CsrfLife >= SessionLife, NEW t \in Tabs,
           \/ withVerifyCSRFMiddleware(t) \/ withVerifySessionMiddleware(t)
           \/ Serve(t) \/ handleGetCSRFToken(t) \/ handleLogout(t)
           \/ handleLoginUser(t)
           \/ LoginToken(t) /\ Fail(t) /\ UNCHANGED minted,
           tab'[t].at = "reply"
    PROVE  TellReply(tab'[t].reply)
<1>0. tab \in [Tabs -> Requests] /\ tab[t].s \in SessionIds /\ tab[t].c \in Csrfs
  BY DEF SessInv, SessionsTypeOK, Requests
<1>1. CASE Fail(t)
  <2>1. tab'[t].reply = NoReply
    BY <1>0, <1>1, CookieTypes, ReplyFields DEF Fail, Bounds, SessInv
  <2> QED BY <2>1 DEF TellReply, NoReply
<1>2. ASSUME NEW where \in Ats, At(t, where), where # "reply" PROVE FALSE
  BY <1>0, <1>2, AtFields
<1>3. CASE withVerifyCSRFMiddleware(t) \/ withVerifySessionMiddleware(t)
  BY <1>1, <1>2, <1>3 DEF withVerifyCSRFMiddleware, withVerifySessionMiddleware, Ats
<1>4. ASSUME NEW r \in Replies, Reply(t, r) PROVE tab'[t].reply = r
  BY <1>0, <1>4, ReplyFields
<1>5. NoCsrf \in Csrfs /\ (\A x \in SessionIds : generateCSRFToken(x) \in Csrfs)
  BY CookieTypes DEF Bounds, SessInv
<1>6. CASE Reply(t, [NoReply EXCEPT !.ack = TRUE])
  <2>1. [NoReply EXCEPT !.ack = TRUE] \in Replies
    BY DEF NoReply, Replies
  <2>2. tab'[t].reply = [NoReply EXCEPT !.ack = TRUE]
    BY <1>4, <1>6, <2>1
  <2> QED BY <2>2 DEF TellReply, NoReply
<1>7. CASE handleLogout(t)
  <2>1. PICK a \in BOOLEAN : Reply(t, [session |-> 0, csrf |-> NoCsrf, ack |-> a])
    BY <1>7 DEF handleLogout
  <2>2. [session |-> 0, csrf |-> NoCsrf, ack |-> a] \in Replies
    BY <1>5 DEF Replies, SessionIds
  <2>3. tab'[t].reply = [session |-> 0, csrf |-> NoCsrf, ack |-> a]
    BY <1>4, <2>1, <2>2
  <2>4. tab'[t].reply.session = 0 /\ tab'[t].reply.csrf = NoCsrf
    BY <2>3
  <2> QED BY <2>4 DEF TellReply, Told, NoCsrf, KeepCsrf, Keep
<1>8. CASE handleLoginUser(t) /\ ~Fail(t)
  <2> DEFINE c == generateCSRFToken(tab[t].s)
             r == [session |-> tab[t].s, csrf |-> c, ack |-> TRUE]
  <2>1. c \in Csrfs /\ c.s = tab[t].s /\ c.ts = now
    BY <1>0, <1>5 DEF generateCSRFToken
  <2>2. r \in Replies /\ r.session = tab[t].s /\ r.csrf = c
    BY <1>0, <2>1 DEF Replies
  <2>3. Reply(t, r)
    BY <1>8 DEF handleLoginUser
  <2>4. tab'[t].reply = r
    BY <1>4, <2>2, <2>3
  <2>5. tab[t].s \in Ids /\ minted[tab[t].s] # NoToken /\ now + TokenLife = minted[tab[t].s].exp
    BY <1>8 DEF handleLoginUser, SessInv, TabsInv, TabInv, Storing, Hidden, MintedInv
  <2>6. Told(c)
    BY <2>1, <2>5 DEF Told
  <2>7. tab[t].s # Keep /\ c # KeepCsrf
    BY <2>1, <2>5 DEF Ids, Keep, KeepCsrf
  <2> HIDE DEF c, r
  <2> QED BY <2>1, <2>2, <2>4, <2>6, <2>7 DEF TellReply
<1>9. CASE handleGetCSRFToken(t)
  <2>1. tab[t].op = "csrf" /\ tab[t].at = "session"
    BY <1>9 DEF handleGetCSRFToken
  <2>2. tab[t].s \in Ids /\ minted[tab[t].s] # NoToken
    BY <2>1 DEF SessInv, TabsInv, TabInv
  <2>3. /\ tab[t].c.s = tab[t].s /\ Told(tab[t].c)
        /\ now + TokenLife < minted[tab[t].s].exp + SessionLife
    BY <2>1 DEF TellInv, TellTab
  <2>4. tab[t].c # NoCsrf
    BY <2>2, <2>3 DEF Ids, NoCsrf
  <2>5. tab[t].c.ts + TokenLife = minted[tab[t].s].exp /\ tab[t].c.ts \in Nat
    BY <1>0, <2>3, <2>4 DEF Told, Csrfs, Bounds
  <2>6. now <= tab[t].c.ts + CsrfLife
    BY <2>3, <2>5 DEF Bounds
  <2>7. verifyCSRFToken(tab[t].c, tab[t].s)
    BY <2>3, <2>4, <2>6 DEF verifyCSRFToken
  <2> QED BY <1>6, <1>9, <2>7 DEF handleGetCSRFToken
<1>10. CASE Serve(t)
  BY <1>6, <1>10 DEF Serve
<1> QED BY <1>1, <1>3, <1>7, <1>8, <1>9, <1>10
LEMMA SendTells ==
    ASSUME Bounds, SessInv, TellInv, TokensStay, NEW t \in Tabs, NEW op \in Ops, Send(t, op)
    PROVE  TellTab(t)'
<1>1. /\ tab'[t].at = "sent" /\ tab'[t].op = op /\ tab'[t].s = SessionCookie
      /\ tab'[t].c = CsrfCookie /\ (op # "login" => SessionCookie # 0)
      /\ known' = known
  BY SendFields
<1>2. /\ jar.sexp \in Nat /\ jar.cexp \in Nat /\ now \in Nat
      /\ Told(jar.c) /\ (jar.s # 0 => jar.c.s = jar.s /\ jar.sexp <= jar.cexp)
  BY DEF Bounds, SessInv, SessionsTypeOK, TellInv, TellJar
<1>3. Told(CsrfCookie)
  BY <1>2 DEF CsrfCookie, Told
<1>4. SessionCookie # 0 => CsrfCookie.s = SessionCookie
  BY <1>2 DEF CsrfCookie, SessionCookie
<1>5. PICK c, d : c = CsrfCookie /\ d = known[t]
  OBVIOUS
<1>6. Told(c)' /\ Told(d)'
  BY <1>3, <1>5, ToldStays DEF TellInv, TellTab
<1>7. Told(tab[t].c)' /\ Told(known[t])'
  BY <1>1, <1>5, <1>6 DEF Told
<1> QED BY <1>1, <1>4, <1>7 DEF TellTab

LEMMA DeliverTells ==
    ASSUME Bounds, SessInv, TellInv, TokensStay, CsrfLife >= SessionLife,
           NEW t \in Tabs, Deliver(t) \/ LoseReply(t)
    PROVE  /\ TellTab(t)' /\ TellJar'
           /\ \A u \in Tabs \ {t} : known'[u] = known[u]
<1>0. /\ tab[t].at = "reply" /\ tab[t] \in Requests /\ tab[t].reply \in Replies
      /\ known \in [Tabs -> Csrfs] /\ jar \in [s : SessionIds, sexp : Nat, c : Csrfs, cexp : Nat]
      /\ now \in Nat /\ CsrfLife \in Nat /\ SessionLife \in Nat
  BY DEF Bounds, SessInv, SessionsTypeOK, Requests, Deliver, LoseReply
<1>1. tab'[t] = IdleTab /\ IdleTab.at = "idle" /\ IdleTab.c = NoCsrf
  BY IdleFields
<1>2. PICK r : r = tab[t].reply
  OBVIOUS
<1>3. TellReply(r)' /\ r.session \in SessionIds \cup {Keep} /\ r.csrf \in Csrfs \cup {KeepCsrf}
  BY <1>0, <1>2, RepliesStay DEF TellInv, TellTab, Replies
<1>4. PICK j, c, d : j = jar.c /\ c = tab[t].c /\ d = known[t]
  OBVIOUS
<1>5. Told(j)' /\ Told(c)' /\ Told(d)'
  BY <1>4, ToldStays DEF TellInv, TellTab, TellJar
<1>6. CASE LoseReply(t)
  <2>1. known' = known /\ jar' = jar
    BY <1>6 DEF LoseReply
  <2>2. Told(known[t])' /\ Told(tab[t].c)' /\ Told(jar.c)'
    BY <1>1, <1>4, <1>5, <2>1 DEF Told
  <2> QED BY <1>1, <2>1, <2>2 DEF TellTab, TellJar, TellInv
<1>7. CASE Deliver(t)
  <2>1. known'[t] \in {d, c} \/ (r.csrf # KeepCsrf /\ known'[t] = r.csrf)
    BY <1>0, <1>2, <1>4, <1>7 DEF Deliver
  <2>2. r.csrf # KeepCsrf => Told(r.csrf)'
    BY <1>3 DEF TellReply
  <2>3. Told(known[t])'
    BY <1>5, <2>1, <2>2 DEF Told
  <2>4. Told(tab[t].c)'
    BY <1>1 DEF Told
  <2>5. TellTab(t)'
    BY <1>1, <2>3, <2>4 DEF TellTab
  <2>6. jar' = setCookie(r)
    BY <1>2, <1>7 DEF Deliver
  <2>7. ASSUME r.session = Keep PROVE TellJar'
    <3>1. r.csrf = KeepCsrf
      BY <1>3, <2>7 DEF TellReply
    <3>2. jar'.s = jar.s /\ jar'.sexp = jar.sexp /\ jar'.c = j /\ jar'.cexp = jar.cexp
      BY <2>6, <2>7, <3>1, <1>4 DEF setCookie
    <3>3. Told(jar.c)'
      BY <1>5, <3>2 DEF Told
    <3> QED BY <1>4, <3>2, <3>3 DEF TellJar, TellInv
  <2>8. ASSUME r.session # Keep PROVE TellJar'
    <3>1. r.csrf # KeepCsrf /\ r.csrf.s = r.session
      BY <1>3, <2>8 DEF TellReply
    <3>2. /\ jar'.s = r.session /\ jar'.c = r.csrf
          /\ jar'.s # 0 => jar'.sexp = now + SessionLife /\ jar'.cexp = now + CsrfLife
      BY <2>6, <2>8, <3>1 DEF setCookie, NoCsrf
    <3>3. Told(jar.c)'
      BY <2>2, <3>1, <3>2 DEF Told
    <3> QED BY <1>0, <3>1, <3>2, <3>3 DEF TellJar
  <2>9. \A u \in Tabs \ {t} : known'[u] = known[u]
    BY <1>0, <1>7 DEF Deliver
  <2> QED BY <2>5, <2>7, <2>8, <2>9
<1> QED BY <1>6, <1>7

\* A tab whose request goes on, or is answered.
LEMMA RequestTells ==
    ASSUME Bounds, KeysInv, SessInv, TellInv, TokensStay, NEW t \in Tabs,
           UNCHANGED <<now, known>>,
           tab'[t].op = tab[t].op, tab'[t].c = tab[t].c, tab'[t].op = "login" \/ tab'[t].s = tab[t].s,
           tab[t].at # "idle",
           tab'[t].at = "session" /\ tab[t].op # "login" => Live(tab[t].s),
           tab'[t].at = "reply" => TellReply(tab'[t].reply)
    PROVE  TellTab(t)'
<1>1. PICK c, d : c = tab[t].c /\ d = known[t]
  OBVIOUS
<1>2. Told(c)' /\ Told(d)'
  BY <1>1, ToldStays DEF TellInv, TellTab
<1>3. Told(tab[t].c)' /\ Told(known[t])'
  BY <1>1, <1>2 DEF Told
<1>4. tab'[t].op # "login" => tab'[t].c.s = tab'[t].s
  BY DEF TellInv, TellTab
<1>5. ASSUME tab'[t].at = "session", tab'[t].op # "login"
      PROVE  now + TokenLife < minted'[tab'[t].s].exp + SessionLife
  <2>1. tab[t].s \in Ids /\ minted[tab[t].s] # NoToken
    BY <1>5 DEF SessInv, TabsInv, TabInv
  <2>2. PICK exp \in Nat : exp = minted[tab[t].s].exp
    BY <2>1, TokenTypes
  <2>3. PICK st \in Nat : st = store[tab[t].s]
    BY <2>1 DEF SessInv, SessionsTypeOK
  <2>4. now < st /\ st + TokenLife <= exp + SessionLife
    BY <1>5, <2>1, <2>2, <2>3 DEF Live, TellInv, TellStore
  <2>5. now + TokenLife < exp + SessionLife
    BY <2>4 DEF Bounds
  <2> QED BY <1>5, <2>1, <2>2, <2>5 DEF TokensStay
<1>6. tab'[t].at = "reply" => TellReply(tab[t].reply)'
  <2>1. PICK r : r = tab'[t].reply
    OBVIOUS
  <2>2. tab'[t].at = "reply" => TellReply(r)'
    BY <2>1, RepliesStay
  <2> QED BY <2>1, <2>2 DEF TellReply, Told
<1> QED BY <1>3, <1>4, <1>5, <1>6 DEF TellTab
LEMMA TabStepTells ==
    ASSUME AuthKeysAssumption, SessionsAssumption, CsrfLife >= SessionLife,
           KeysInv, SessInv, MintedInv, TellInv, NEW t \in Tabs, Shaped(t), UNCHANGED <<now, keyVars>>,
           \/ \E op \in {"login", "logout", "csrf", "read", "mutate"} : Send(t, op)
           \/ LoginToken(t) \/ handleLoginUser(t)
           \/ withVerifyCSRFMiddleware(t) \/ withVerifySessionMiddleware(t)
           \/ Serve(t) \/ handleLogout(t) \/ handleGetCSRFToken(t)
           \/ Deliver(t) \/ LoseReply(t)
    PROVE  TellInv'
<1>0. Bounds /\ tab \in [Tabs -> Requests]
  BY DEF AuthKeysAssumption, SessionsAssumption, Bounds, KeysInv, KeysTypeOK, SessInv, SessionsTypeOK
<1>1. TokensStay /\ TellStore' /\ \A u \in Tabs \ {t} : tab'[u] = tab[u]
  BY <1>0, FrameTells DEF TellInv
<1>2. ASSUME UNCHANGED jar PROVE TellJar'
  <2>1. PICK c : c = jar.c
    OBVIOUS
  <2>2. Told(c)'
    BY <1>1, <2>1, ToldStays DEF TellInv, TellJar
  <2>3. Told(jar.c)'
    BY <1>2, <2>1, <2>2 DEF Told
  <2> QED BY <1>2, <2>3 DEF TellInv, TellJar
<1>3. ASSUME \A u \in Tabs \ {t} : known'[u] = known[u], NEW u \in Tabs \ {t}
      PROVE  TellTab(u)'
  BY <1>1, <1>3, TabTells DEF TellInv
<1>4. SUFFICES TellJar' /\ TellTab(t)' /\ \A u \in Tabs \ {t} : known'[u] = known[u]
  BY <1>1, <1>3 DEF TellInv
<1>5. CASE \E op \in {"login", "logout", "csrf", "read", "mutate"} : Send(t, op)
  <2>1. PICK op \in Ops : Send(t, op)
    BY <1>5 DEF Ops
  <2>2. UNCHANGED <<jar, known>>
    BY <2>1 DEF Send
  <2> QED BY <1>0, <1>1, <1>2, <2>1, <2>2, SendTells
<1>6. CASE Deliver(t) \/ LoseReply(t)
  BY <1>0, <1>1, <1>6, DeliverTells
<1>7. ASSUME tab[t].at # "idle", UNCHANGED <<jar, known>>, tab'[t].op = tab[t].op, tab'[t].c = tab[t].c,
             tab'[t].op = "login" \/ tab'[t].s = tab[t].s,
             tab'[t].at = "session" /\ tab[t].op # "login" => Live(tab[t].s),
             tab'[t].at = "reply" => TellReply(tab'[t].reply)
      PROVE  TellJar' /\ TellTab(t)' /\ \A u \in Tabs \ {t} : known'[u] = known[u]
  BY <1>0, <1>1, <1>2, <1>7, RequestTells
<1>8. ASSUME NEW r \in Replies, Reply(t, r)
      PROVE  tab'[t].at = "reply" /\ tab'[t].op = tab[t].op /\ tab'[t].c = tab[t].c /\ tab'[t].s = tab[t].s
  BY <1>0, <1>8, ReplyFields
<1>9. CASE LoginToken(t) /\ ~(Fail(t) /\ UNCHANGED minted)
  <2>1. PICK s \in Ids : Mints(t, s)
    BY <1>9 DEF LoginToken, Mints
  <2>2. tab'[t].at = "token" /\ tab'[t].op = "login" /\ tab'[t].c = tab[t].c
    BY <1>0, <2>1, MintFields
  <2> QED BY <1>7, <2>1, <2>2 DEF Mints
<1>10. CASE \/ withVerifyCSRFMiddleware(t) \/ withVerifySessionMiddleware(t)
            \/ Serve(t) \/ handleGetCSRFToken(t) \/ handleLogout(t)
            \/ handleLoginUser(t)
            \/ LoginToken(t) /\ Fail(t) /\ UNCHANGED minted
  <2>1. tab'[t].at = "reply" => TellReply(tab'[t].reply)
    BY <1>0, <1>10, HandlerTells
  <2>2. tab[t].at # "idle" /\ UNCHANGED <<jar, known>>
    BY <1>10 DEF withVerifyCSRFMiddleware, withVerifySessionMiddleware, Serve,
         handleGetCSRFToken, handleLogout, handleLoginUser, LoginToken
  <2>3. \/ \E r \in Replies : Reply(t, r)
        \/ At(t, "csrf")
        \/ At(t, "session") /\ Live(tab[t].s)
    <3>1. CASE Fail(t)
      BY <1>0, <3>1, CookieTypes DEF Fail, Bounds, SessInv
    <3>2. CASE withVerifyCSRFMiddleware(t) \/ withVerifySessionMiddleware(t)
      BY <3>1, <3>2 DEF withVerifyCSRFMiddleware, withVerifySessionMiddleware
    <3>3. CASE Serve(t) \/ handleGetCSRFToken(t)
      <4>1. tab[t].at = "session"
        BY <3>3 DEF Serve, handleGetCSRFToken
      <4>2. (\E r \in Replies : Answers(t, r)) \/ (\E where \in Ats : Passes(t, where))
        BY <1>0, <3>3, Handlers DEF Bounds, SessInv
      <4> QED BY <4>1, <4>2 DEF Answers, Passes
    <3>4. CASE handleLogout(t)
      <4>1. PICK a \in BOOLEAN : Reply(t, [session |-> 0, csrf |-> NoCsrf, ack |-> a])
        BY <3>4 DEF handleLogout
      <4>2. [session |-> 0, csrf |-> NoCsrf, ack |-> a] \in Replies
        BY <1>0, CookieTypes DEF Replies, SessionIds, Bounds, SessInv
      <4> QED BY <4>1, <4>2
    <3>5. CASE handleLoginUser(t)
      <4>1. tab[t].s \in SessionIds /\ generateCSRFToken(tab[t].s) \in Csrfs
        BY <1>0, CookieTypes DEF Requests, Bounds, SessInv
      <4>2. [session |-> tab[t].s, csrf |-> generateCSRFToken(tab[t].s), ack |-> TRUE] \in Replies
        BY <4>1 DEF Replies
      <4> QED BY <3>1, <3>5, <4>2 DEF handleLoginUser
    <3> QED BY <1>10, <3>1, <3>2, <3>3, <3>4, <3>5
  <2>4. CASE \E r \in Replies : Reply(t, r)
    BY <1>7, <1>8, <2>1, <2>2, <2>4
  <2>5. CASE At(t, "csrf") \/ (At(t, "session") /\ Live(tab[t].s))
    BY <1>0, <1>7, <2>1, <2>2, <2>5, AtFields DEF Ats
  <2> QED BY <2>3, <2>4, <2>5
<1> QED BY <1>5, <1>6, <1>9, <1>10
LEMMA TellStep ==
    ASSUME AuthKeysAssumption, SessionsAssumption, CsrfLife >= SessionLife,
           KeysInv, SessInv, MintedInv, TellInv, [Next]_vars
    PROVE  TellInv'
<1>0. Bounds
  BY StepKinds
<1>1. CASE /\ (Tick \/ KeysNext \/ UNCHANGED <<now, keyVars>>) /\ UNCHANGED sessVars
           /\ Tick => \A t \in Tabs : tab[t].at \in {"idle", "sent", "reply"}
  <2>1. \A t \in Tabs : tab[t].at = "session" => now' = now
    BY <1>1 DEF KeysNext, Preserve, InstallPrivate, InstallPublic, InstallPublicFails, Publish,
                RestartVerifiers, RestartSigner, Prune, RestartAll, Restart
  <2>2. UNCHANGED <<store, minted, jar, tab, known>>
    BY <1>1 DEF sessVars
  <2>3. \A t \in Tabs : TellTab(t)'
    BY <2>1, <2>2, TabTells DEF TellInv, TokensStay
  <2>4. TellStore' /\ TellJar'
    BY <2>2 DEF TellInv, TellStore, TellJar, Told
  <2> QED BY <2>3, <2>4 DEF TellInv
<1>2. ASSUME NEW s \in Ids, Evict(s), UNCHANGED <<now, keyVars>> PROVE TellInv'
  <2>1. UNCHANGED <<minted, jar, tab, known>> /\ now' = now
    BY <1>2 DEF Evict
  <2>2. \A t \in Tabs : TellTab(t)'
    BY <2>1, TabTells DEF TellInv, TokensStay
  <2>3. \A x \in Ids : store[x] \in Nat /\ store'[x] \in {store[x], 0}
    BY <1>2 DEF Evict, SessInv, SessionsTypeOK
  <2>4. \A x \in Ids : minted[x] # NoToken => minted[x].exp \in Nat
    BY TokenTypes
  <2>5. TellStore'
    BY <1>0, <2>1, <2>3, <2>4 DEF TellInv, TellStore, Bounds
  <2>6. TellJar'
    BY <2>1 DEF TellInv, TellJar, Told
  <2> QED BY <2>2, <2>5, <2>6 DEF TellInv
<1>3. CASE UNCHANGED vars
  BY <1>1, <1>3, <1>0 DEF vars, Tick, Bounds
<1>4. ASSUME NEW t \in Tabs,
             \/ \E op \in {"login", "logout", "csrf", "read", "mutate"} : Send(t, op)
             \/ LoginToken(t) \/ handleLoginUser(t)
             \/ withVerifyCSRFMiddleware(t) \/ withVerifySessionMiddleware(t)
             \/ Serve(t) \/ handleLogout(t) \/ handleGetCSRFToken(t)
             \/ Deliver(t) \/ LoseReply(t)
      PROVE  TellInv'
  <2>1. Shaped(t) /\ UNCHANGED <<now, keyVars>>
    BY <1>0, <1>4, TabStepShaped
  <2> QED BY <1>4, <2>1, TabStepTells
<1>5. CASE \E t \in Tabs :
             \/ \E op \in {"login", "logout", "csrf", "read", "mutate"} : Send(t, op)
             \/ LoginToken(t) \/ handleLoginUser(t)
             \/ withVerifyCSRFMiddleware(t) \/ withVerifySessionMiddleware(t)
             \/ Serve(t) \/ handleLogout(t) \/ handleGetCSRFToken(t)
             \/ Deliver(t) \/ LoseReply(t)
  BY <1>4, <1>5
<1>6. CASE \E s \in Ids : Evict(s)
  BY <1>2, <1>6 DEF Evict
<1>7. CASE Tick /\ UNCHANGED sessVars /\ \A t \in Tabs : tab[t].at \in {"idle", "sent", "reply"}
  BY <1>1, <1>7
<1>8. CASE KeysNext /\ UNCHANGED sessVars
  <2>1. now' = now
    BY <1>8 DEF KeysNext, Preserve, InstallPrivate, InstallPublic, InstallPublicFails, Publish,
                RestartVerifiers, RestartSigner, Prune, RestartAll, Restart
  <2>2. ~Tick
    BY <1>0, <2>1 DEF Tick, Bounds
  <2> QED BY <1>1, <1>8, <2>2
<1> QED BY <1>3, <1>5, <1>6, <1>7, <1>8 DEF Next

\* Tabs share the CSRF token of a live session: the handler reuses the one it is
\* shown, and it is never too old while the session lives (by default both live
\* two hours, src/internal/config/server.go:36).
THEOREM TabsAgree ==
    ASSUME AuthKeysAssumption, SessionsAssumption, CsrfLife >= SessionLife
    PROVE  Spec => []TabsShareToken
<1> DEFINE I == KeysInv /\ SessInv /\ MintedInv /\ TellInv
<1>1. Init => I
  <2> SUFFICES ASSUME Init PROVE MintedInv /\ TellInv
    BY KeysInitial, SessInitial DEF Init
  <2>1. IdleTab.at = "idle" /\ IdleTab.c = NoCsrf
    BY DEF IdleTab
  <2>2. MintedInv /\ TellStore
    BY <2>1 DEF Init, SessionsInit, MintedInv, TellStore, Storing
  <2>3. Told(NoCsrf)
    BY DEF Told
  <2>4. TellJar /\ \A t \in Tabs : TellTab(t)
    BY <2>1, <2>3 DEF Init, SessionsInit, TellJar, TellTab
  <2> QED BY <2>2, <2>4 DEF TellInv
<1>2. I /\ [Next]_vars => I'
  BY SessStep, MintedStep, TellStep
<1>3. I => TabsShareToken
  <2> SUFFICES ASSUME I, NEW t \in Tabs, NEW u \in Tabs,
                      known[t].s = known[u].s, Live(known[t].s)
               PROVE  known[t] = known[u]
    BY DEF TabsShareToken
  <2>1. known[t] \in Csrfs /\ known[u] \in Csrfs
    BY DEF SessInv, SessionsTypeOK
  <2>2. known[t] # NoCsrf /\ known[u] # NoCsrf
    BY DEF Live, NoCsrf
  <2>3. Told(known[t]) /\ Told(known[u])
    BY DEF TellInv, TellTab
  <2>4. known[t].s \in Ids /\ minted[known[t].s].exp \in Nat
    BY <2>2, <2>3, TokenTypes DEF Told
  <2>5. known[t].ts \in Nat /\ known[u].ts \in Nat /\ TokenLife \in Nat
    BY <2>1 DEF Csrfs, AuthKeysAssumption
  <2>6. known[t].ts = known[u].ts
    BY <2>2, <2>3, <2>4, <2>5 DEF Told
  <2> QED BY <2>1, <2>6 DEF Csrfs
<1> QED BY <1>1, <1>2, <1>3, PTL DEF Spec
=============================================================================

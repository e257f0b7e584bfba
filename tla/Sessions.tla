------------------------------ MODULE Sessions ------------------------------
(***************************************************************************)
(* The browser sessions of the HTTP server (internal/server/middlewares.go,*)
(* users_handlers.go, csrf.go) on top of the rotating key of the users     *)
(* service (AuthKeys).  Signing in mints a token, encrypts it into the     *)
(* session cookie and stores the session in Redis.  A request is checked   *)
(* against the CSRF cookie, the token inside the session cookie and Redis, *)
(* one after the other, while other tabs of the same browser sign in and   *)
(* out, Redis drops keys, keys are rotated and replies arrive late.        *)
(***************************************************************************)
EXTENDS AuthKeys

CONSTANTS
    Server,        \* the HTTP server, a verifier of the users service's tokens
    Tabs,          \* tabs of one browser, one request each at a time
    Logins,        \* bound: how often the user signs in
    SessionLife,   \* SERVER_SESSION_EXPIRY
    CsrfLife       \* SERVER_CSRF_EXPIRY

SessionsAssumption ==
    /\ Server \in Verifiers /\ Logins \in Nat
    /\ SessionLife \in Nat \ {0} /\ CsrfLife \in Nat \ {0}

Ids == 1..Logins              \* the session cookies the server hands out
NoCsrf == [s |-> 0, ts |-> 0]
Keep == -1                    \* the reply leaves the cookie alone
KeepCsrf == [s |-> -1, ts |-> 0]

VARIABLES
    store,    \* Redis: session -> when it expires (0: not there)
    minted,   \* session -> the token inside its cookie
    jar,      \* the browser's cookies
    tab,      \* tab -> its request
    known,    \* tab -> the CSRF token it was last told
    gone      \* sessions whose logout was answered with 204

sessVars == <<store, minted, jar, tab, known, gone>>
vars == <<now, keyVars, sessVars>>

NoToken == [key |-> NoKey, kid |-> 0, sub |-> 0, exp |-> 0]
NoReply == [session |-> Keep, csrf |-> KeepCsrf, ack |-> FALSE]
IdleTab == [op |-> "none", at |-> "idle", s |-> 0, c |-> NoCsrf, h |-> NoCsrf,
            dead |-> FALSE, reply |-> NoReply]

SessionsInit ==
    /\ store = [s \in Ids |-> 0]
    /\ minted = [s \in Ids |-> NoToken]
    /\ jar = [s |-> 0, sexp |-> 0, c |-> NoCsrf, cexp |-> 0]
    /\ tab = [t \in Tabs |-> IdleTab]
    /\ known = [t \in Tabs |-> NoCsrf]
    /\ gone = {}

Init == KeysInit /\ SessionsInit

Live(s) == s # 0 /\ now < store[s]
SessionCookie == IF now < jar.sexp THEN jar.s ELSE 0
CsrfCookie == IF now < jar.cexp THEN jar.c ELSE NoCsrf

generateCSRFToken(s) == [s |-> s, ts |-> now]
verifyCSRFToken(c, s) == c.s = s /\ c # NoCsrf /\ now <= c.ts + CsrfLife

At(t, where) == tab' = [tab EXCEPT ![t].at = where]
Reply(t, r) == tab' = [tab EXCEPT ![t].at = "reply", ![t].reply = r]
Fail(t) == Reply(t, NoReply)

(***************************************************************************)
(* A tab sends a request with the cookies of that moment.  The header is   *)
(* the readable cookie, or the value an earlier reply told the tab.        *)
(***************************************************************************)
Send(t, op) ==
    /\ tab[t].at = "idle"
    /\ op # "login" => SessionCookie # 0
    /\ \E h \in {CsrfCookie, known[t]} :
          tab' = [tab EXCEPT ![t] =
                    [IdleTab EXCEPT !.op = op, !.at = "sent",
                        !.s = SessionCookie, !.c = CsrfCookie, !.h = h,
                        !.dead = SessionCookie \in gone]]
    /\ UNCHANGED <<now, keyVars, store, minted, jar, known, gone>>

\* LoginUser of the users service signs the token the cookie will hold.
LoginToken(t) ==
    /\ tab[t].op = "login" /\ tab[t].at = "sent"
    /\ \/ \E s \in Ids :
             /\ Signer \in up
             /\ minted[s] = NoToken /\ \A r \in Ids : r < s => minted[r] # NoToken
             /\ minted' = [minted EXCEPT ![s] = IssueToken(s)]
             /\ tab' = [tab EXCEPT ![t].at = "token", ![t].s = s]
       \/ Fail(t) /\ UNCHANGED minted     \* wrong password, service down
    /\ UNCHANGED <<now, keyVars, store, jar, known, gone>>

\* The session is stored first; only then the browser learns of it.
handleLoginUser(t) ==
    /\ tab[t].op = "login" /\ tab[t].at = "token"
    /\ \/ /\ store' = [store EXCEPT ![tab[t].s] = now + SessionLife]
          /\ Reply(t, [session |-> tab[t].s, csrf |-> generateCSRFToken(tab[t].s),
                       ack |-> TRUE])
       \/ Fail(t) /\ UNCHANGED store
    /\ UNCHANGED <<now, keyVars, minted, jar, known, gone>>

Guarded == {"logout", "mutate"}

withVerifyCSRFMiddleware(t) ==
    /\ tab[t].op \in Guarded /\ tab[t].at = "sent"
    /\ IF verifyCSRFToken(tab[t].c, tab[t].s) /\ tab[t].h = tab[t].c
       THEN At(t, "csrf") ELSE Fail(t)
    /\ UNCHANGED <<now, keyVars, store, minted, jar, known, gone>>

(***************************************************************************)
(* The token in the cookie must be in order but may have expired: Redis    *)
(* decides whether the session still exists.                               *)
(***************************************************************************)
AuthenticFaulty(s) ==
    /\ minted[s] # NoToken
    /\ ValidateToken(Server, minted[s]) = "ok"

Authentic(s) ==
    /\ minted[s] # NoToken
    /\ ValidateToken(Server, minted[s]) # "invalid"

withVerifySessionMiddleware(t) ==
    /\ tab[t].op # "login" /\ Server \in up
    /\ tab[t].at = IF tab[t].op \in Guarded THEN "csrf" ELSE "sent"
    /\ IF Authentic(tab[t].s) /\ Live(tab[t].s)
       THEN At(t, "session") ELSE Fail(t)
    /\ UNCHANGED <<now, keyVars, store, minted, jar, known, gone>>

\* Any handler behind the session check that only calls a service.
Serve(t) ==
    /\ tab[t].op \in {"read", "mutate"} /\ tab[t].at = "session"
    /\ Reply(t, [NoReply EXCEPT !.ack = TRUE])
    /\ UNCHANGED <<now, keyVars, store, minted, jar, known, gone>>

handleLogoutFaulty(t) ==
    /\ tab[t].op = "logout" /\ tab[t].at = "session"
    /\ Reply(t, [session |-> 0, csrf |-> NoCsrf, ack |-> TRUE])
    /\ gone' = gone \cup {tab[t].s}
    /\ UNCHANGED <<now, keyVars, minted, jar, known, store>>

\* The cookies are cleared whatever happens to the stored session.
handleLogout(t) ==
    /\ tab[t].op = "logout" /\ tab[t].at = "session"
    /\ \/ /\ store' = [store EXCEPT ![tab[t].s] = 0]
          /\ Reply(t, [session |-> 0, csrf |-> NoCsrf, ack |-> TRUE])
          /\ gone' = gone \cup {tab[t].s}
       \/ /\ Reply(t, [session |-> 0, csrf |-> NoCsrf, ack |-> FALSE])
          /\ UNCHANGED <<store, gone>>
    /\ UNCHANGED <<now, keyVars, minted, jar, known>>

handleGetCSRFTokenFaulty(t) ==
    /\ tab[t].op = "csrf" /\ tab[t].at = "session"
    /\ Reply(t, [NoReply EXCEPT !.ack = TRUE, !.csrf = generateCSRFToken(tab[t].s)])
    /\ UNCHANGED <<now, keyVars, store, minted, jar, known, gone>>

handleGetCSRFToken(t) ==
    /\ tab[t].op = "csrf" /\ tab[t].at = "session"
    /\ Reply(t, IF verifyCSRFToken(tab[t].c, tab[t].s)
                THEN [NoReply EXCEPT !.ack = TRUE]
                ELSE [NoReply EXCEPT !.ack = TRUE,
                                     !.csrf = generateCSRFToken(tab[t].s)])
    /\ UNCHANGED <<now, keyVars, store, minted, jar, known, gone>>

(***************************************************************************)
(* A reply reaches the browser, in whatever order, and sets its cookies.   *)
(***************************************************************************)
setCookie(r) ==
    [s    |-> IF r.session = Keep THEN jar.s ELSE r.session,
     sexp |-> IF r.session = Keep THEN jar.sexp
              ELSE IF r.session = 0 THEN 0 ELSE now + SessionLife,
     c    |-> IF r.csrf = KeepCsrf THEN jar.c ELSE r.csrf,
     cexp |-> IF r.csrf = KeepCsrf THEN jar.cexp
              ELSE IF r.csrf = NoCsrf THEN 0 ELSE now + CsrfLife]

Deliver(t) ==
    /\ tab[t].at = "reply"
    /\ jar' = setCookie(tab[t].reply)
    /\ known' = [known EXCEPT ![t] =
                   IF tab[t].op # "csrf" \/ ~tab[t].reply.ack THEN @
                   ELSE IF tab[t].reply.csrf = KeepCsrf THEN tab[t].c
                   ELSE tab[t].reply.csrf]
    /\ tab' = [tab EXCEPT ![t] = IdleTab]
    /\ UNCHANGED <<now, keyVars, store, minted, gone>>

LoseReply(t) ==
    /\ tab[t].at = "reply"
    /\ tab' = [tab EXCEPT ![t] = IdleTab]
    /\ UNCHANGED <<now, keyVars, store, minted, jar, known, gone>>

\* volatile-ttl under memory pressure may drop a session before its time.
Evict(s) ==
    /\ Live(s)
    /\ store' = [store EXCEPT ![s] = 0]
    /\ UNCHANGED <<now, keyVars, minted, jar, tab, known, gone>>

Next ==
    \/ \E t \in Tabs :
          \/ \E op \in {"login", "logout", "csrf", "read", "mutate"} : Send(t, op)
          \/ LoginToken(t) \/ handleLoginUser(t)
          \/ withVerifyCSRFMiddleware(t) \/ withVerifySessionMiddleware(t)
          \/ Serve(t) \/ handleLogout(t) \/ handleGetCSRFToken(t)
          \/ Deliver(t) \/ LoseReply(t)
    \/ \E s \in Ids : Evict(s)
    \* the server handles a request in far less than a tick; what is on the
    \* network may be older
    \/ /\ Tick /\ UNCHANGED sessVars
       /\ \A t \in Tabs : tab[t].at \in {"idle", "sent", "reply"}
    \/ KeysNext /\ UNCHANGED sessVars

Spec == Init /\ [][Next]_vars

-----------------------------------------------------------------------------
TypeOK ==
    /\ KeysTypeOK
    /\ store \in [Ids -> 0..(MaxTime + SessionLife)]
    /\ gone \subseteq Ids
    /\ \A t \in Tabs : tab[t].s \in {0} \cup Ids

\* Signed with a key that was published, but by a signer which its supervisor
\* restarted before the operator restarted the verifiers, and this one has not
\* loaded the new entry.
SignedEarly(v, token) ==
    step = "published" /\ token.key = disk.pub /\ bundle[v][token.kid] = NoKey

\* Signed with an earlier key, at least a grace period ago.
Outdated(token) ==
    token.key # disk.pub /\ now >= token.exp - TokenLife + Grace

\* Whatever restarts when, a running verifier rejects the signature of a token,
\* expired or not, in two cases only: the signer was restarted ahead of it, or
\* the key was replaced and the token is as old as the grace period.  The
\* verifier-first order and the wait of the script (rotate-auth-key.sh:221)
\* exclude every other refusal, in each intermediate state of any rotation.
TokensHonoured ==
    \A s \in Ids, v \in Verifiers \cap up :
        \/ minted[s] = NoToken
        \/ ValidateToken(v, minted[s]) # "invalid"
        \/ SignedEarly(v, minted[s]) \/ Outdated(minted[s])

\* A session that Redis holds passes the check of its cookie although the token
\* in it expired long before, with the same two exceptions.  The second is why
\* a session of 2h (docs/configuration.md:248) may end after 15m: the script
\* prunes the old kid once its tokens expired, and the cookie still needs it.
SessionAccepted ==
    \A s \in Ids : Live(s) /\ Server \in up =>
        Authentic(s) \/ SignedEarly(Server, minted[s]) \/ Outdated(minted[s])

\* Once a logout was confirmed, no request sent afterwards with that session's
\* cookie gets past the session check, whatever other tabs and late replies do.
LoggedOutStaysOut ==
    \A t \in Tabs : tab[t].op # "login" /\ tab[t].at = "session" => ~tab[t].dead

\* Tabs of one browser that were told a CSRF token for the same live session
\* were told the same one ("Reuse the presented token while valid so concurrent
\* tabs share one value", users_handlers.go:159): otherwise the header of one
\* tab would never match the cookie they share.
TabsShareToken ==
    \A t, u \in Tabs :
        known[t].s = known[u].s /\ Live(known[t].s) => known[t] = known[u]
=============================================================================

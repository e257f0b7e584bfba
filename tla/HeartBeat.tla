------------------------------ MODULE HeartBeat ------------------------------
(***************************************************************************)
(* One run of a HEARTBEAT job: HeartBeat.Execute sends a request, follows  *)
(* redirects, and classifyExecutionFailure decides whether the failure is  *)
(* the user's or is retried.  Each hop resolves its host and checks every  *)
(* address; then it dials, which resolves again, with a check at the       *)
(* socket, or asks a proxy for one of the addresses just checked.  The     *)
(* DNS answers what it likes each time; an IP literal is a name that has   *)
(* always the same answer.                                                 *)
(*                                                                         *)
(* An address is a function: an IPv4 address on 0..3, an IPv6 address on   *)
(* 0..15, to the values of its bytes.                                      *)
(***************************************************************************)
EXTENDS Integers

CONSTANTS
    Hosts, Addresses,
    Reserved, Exceptions,
    SpecialUse,     \* specialCIDRs, and 2001::/23 but for its global exceptions
    WellKnown, LocalUse,  \* the NAT64 prefixes 64:ff9b::/96 and 64:ff9b:1::/48
    Specs,          \* the Pref64 prefixes an operator may configure
    MaxTimeout,     \* heartbeatWorkflowMaxRequestTimeout
    MaxDial,        \* maxDialTimeout
    Redirects,      \* hops http.Client follows
    AnswerSize,     \* bound on the addresses of a DNS answer
    None

HeartBeatAssumption ==
    /\ {MaxTimeout, MaxDial} \subseteq Nat \ {0}
    /\ Redirects \in Nat
    /\ None \notin Hosts

VARIABLES
    prefixes,  \* customNAT64Prefixes
    request,   \* where the run stands
    left,      \* ticks until the request's timeout
    dialLeft,  \* ticks until the timeout of the dial under way
    todo,      \* addresses still to try
    errs,      \* the errors of the attempts so far
    hops,
    conns,     \* open connections, busy or idle
    reached,   \* every address a connection was made or asked for
    ctxOver,   \* the job's context has ended
    result

vars == <<prefixes, request, left, dialLeft, todo, errs, hops, conns, reached, ctxOver, result>>

-----------------------------------------------------------------------------
(* The egress policy.                                                      *)

IsIPv6(ip) == DOMAIN ip = 0..15

\* A prefix: its leading bytes and its length in bits.
Contains(p, ip) == IsIPv6(ip) /\ \A i \in 0..(p.bits \div 8 - 1) : ip[i] = p.net[i]

IPv4(a, b, c, d) == [i \in 0..3 |-> <<a, b, c, d>>[i + 1]]

ValidPrefix(p) ==
    /\ p.bits \in {32, 40, 48, 56, 64, 96}
    /\ p.bits = 96 => p.net[8] = 0

\* The specs an operator can start a worker with; an invalid one is an error.
ConfigureNAT64Prefixes == {S \in SUBSET Specs : \A p \in S : ValidPrefix(p)}

longestMatchingNAT64Prefix(ip) ==
    {p \in prefixes : Contains(p, ip) /\ \A q \in prefixes : Contains(q, ip) => q.bits <= p.bits}

extractFaulty(ip, bits) ==
    CASE bits = 96 -> IPv4(ip[12], ip[13], ip[14], ip[15])
      [] bits = 64 -> IPv4(ip[8], ip[9], ip[10], ip[11])
      [] bits = 56 -> IPv4(ip[7], ip[8], ip[9], ip[10])
      [] bits = 48 -> IPv4(ip[6], ip[7], ip[8], ip[9])
      [] bits = 40 -> IPv4(ip[5], ip[6], ip[7], ip[8])
      [] bits = 32 -> IPv4(ip[4], ip[5], ip[6], ip[7])

\* Byte 8 is skipped, and an address in which it is not zero has no IPv4 part.
extractEmbeddedIPv4(ip, bits) ==
    CASE bits < 96 /\ ip[8] # 0 -> None
      [] bits = 96 -> IPv4(ip[12], ip[13], ip[14], ip[15])
      [] bits = 64 -> IPv4(ip[9], ip[10], ip[11], ip[12])
      [] bits = 56 -> IPv4(ip[7], ip[9], ip[10], ip[11])
      [] bits = 48 -> IPv4(ip[6], ip[7], ip[9], ip[10])
      [] bits = 40 -> IPv4(ip[5], ip[6], ip[7], ip[9])
      [] bits = 32 -> IPv4(ip[4], ip[5], ip[6], ip[7])

isGlobalUnicastStrict(ip) == IsIPv6(ip) => ip[0] \in 32..63

isSpecialUse(ip) == ip \in SpecialUse

\* The policy for an address no NAT64 prefix translates.
DisallowedPlain(ip) ==
    \/ ip \in Reserved
    \/ /\ ip \notin Exceptions
       /\ ~isGlobalUnicastStrict(ip) \/ isSpecialUse(ip)

DisallowedEmbedded(ip, bits) ==
    LET v4 == extractEmbeddedIPv4(ip, bits) IN v4 = None \/ DisallowedPlain(v4)

isDisallowedIP(ip) ==
    \/ ip \in Reserved
    \/ /\ ip \notin Exceptions
       /\ IF Contains(WellKnown, ip) THEN DisallowedEmbedded(ip, 96)
          ELSE IF Contains(LocalUse, ip) THEN TRUE
          ELSE IF longestMatchingNAT64Prefix(ip) # {}
          THEN \E p \in longestMatchingNAT64Prefix(ip) : DisallowedEmbedded(ip, p.bits)
          ELSE DisallowedPlain(ip)

-----------------------------------------------------------------------------
\* The dial gives up after maxDialTimeout, whatever the request may take.
dialTimeoutFor(t) == IF t > MaxDial THEN MaxDial ELSE t

Start(t) == [pc |-> "resolve", host |-> None, timeout |-> t, via |-> None]

Init ==
    /\ prefixes \in ConfigureNAT64Prefixes
    /\ \E t \in 1..MaxTimeout, h \in Hosts :
          request = [Start(t) EXCEPT !.host = h] /\ left = t
    /\ dialLeft = 0
    /\ todo = {}
    /\ errs = {}
    /\ hops = 0
    /\ conns = {}
    /\ reached = {}
    /\ ctxOver = FALSE
    /\ result = None

\* What a lookup answers: an error, an empty set, or some addresses.
Answers ==
    UNION {{{list[i] : i \in 1..n} : list \in [1..n -> Addresses]} : n \in 0..AnswerSize}

At(pc) == request.pc = pc /\ ~ctxOver /\ left > 0

ClassifiedFaulty(E) ==
    IF "timeout" \in E /\ ~ctxOver THEN "TimeLimitExceeded" ELSE "Unavailable"

\* What Execute returns for the errors of a failed request.
Classified(E) ==
    CASE "policy" \in E -> "FailedPrecondition"
      [] "policy" \notin E /\ "timeout" \in E /\ ~ctxOver -> "TimeLimitExceeded"
      [] OTHER -> "Unavailable"

CloseIdleFaulty(r) ==
    /\ request' = [request EXCEPT !.pc = "done"]
    /\ conns' = {x \in conns : x.via = "proxy"}
    /\ result' = r
    /\ todo' = {} /\ dialLeft' = 0
    /\ UNCHANGED <<prefixes, left, hops, reached, ctxOver>>

\* Execute returns; the transport and the ones made for proxies are closed.
CloseIdleConnections(r) ==
    /\ request' = [request EXCEPT !.pc = "done"]
    /\ conns' = {}
    /\ result' = r
    /\ todo' = {} /\ dialLeft' = 0
    /\ UNCHANGED <<prefixes, left, hops, reached, ctxOver>>

Fail(E) == errs' = E /\ CloseIdleConnections(Classified(E))

-----------------------------------------------------------------------------
\* A hop begins: every address of the host is checked.
resolveEndpointHost ==
    /\ At("resolve")
    /\ \E A \in Answers :
          IF A = {} \/ \E ip \in A : isDisallowedIP(ip) THEN Fail({"policy"})
          ELSE /\ request' = [request EXCEPT !.pc = "proxy"]
               /\ todo' = A
               /\ errs' = {}
               /\ UNCHANGED <<prefixes, left, dialLeft, hops, conns, reached, ctxOver, result>>

LookupFails == At("resolve") /\ Fail({"dns"})

\* The proxy for the hop's URL: none, one, or an error of its configuration.
\* A direct hop to a host that still has a connection uses that one; another
\* one dials, and the dialer looks the name up again.
proxyFor ==
    /\ At("proxy")
    /\ \/ Fail({"proxy"})
       \/ /\ request' = [request EXCEPT !.pc = "tunnel", !.via = "proxy"]
          /\ dialLeft' = dialTimeoutFor(request.timeout)
          /\ UNCHANGED <<prefixes, left, todo, errs, hops, conns, reached, ctxOver, result>>
       \/ /\ \E x \in conns : x.via = "direct" /\ x.host = request.host
          /\ request' = [request EXCEPT !.pc = "response", !.via = "direct"]
          /\ todo' = {}
          /\ UNCHANGED <<prefixes, left, dialLeft, errs, hops, conns, reached, ctxOver, result>>
       \/ /\ ~\E x \in conns : x.via = "direct" /\ x.host = request.host
          /\ Fail({"dns"})
       \/ /\ ~\E x \in conns : x.via = "direct" /\ x.host = request.host
          /\ \E A \in Answers \ {{}} :
                /\ request' = [request EXCEPT !.pc = "dial", !.via = "direct"]
                /\ todo' = A
          /\ dialLeft' = dialTimeoutFor(request.timeout)
          /\ UNCHANGED <<prefixes, left, errs, hops, conns, reached, ctxOver, result>>

\* A connection stands: wait for the response.
Connected(ip) ==
    /\ request' = [request EXCEPT !.pc = "response"]
    /\ conns' = conns \cup {[via |-> request.via, host |-> request.host, ip |-> ip]}
    /\ reached' = reached \cup {ip}
    /\ todo' = {} /\ dialLeft' = 0
    /\ UNCHANGED <<prefixes, left, errs, hops, ctxOver, result>>

\* An attempt failed: the dialer keeps its first error, the proxy loop joins
\* them all; the last one ends the hop.
Attempted(ip, e) ==
    LET all == IF request.via = "direct" /\ errs # {} THEN errs ELSE errs \cup {e}
    IN IF todo = {ip} THEN Fail(all)
       ELSE /\ todo' = todo \ {ip}
            /\ errs' = all
            /\ dialLeft' = IF request.via = "direct" THEN dialLeft ELSE dialTimeoutFor(request.timeout)
            /\ UNCHANGED <<prefixes, request, left, hops, conns, reached, ctxOver, result>>

\* One address of a direct dial: Control looks at what the socket is about to
\* be connected to.
newGuardedDialer(ip) ==
    /\ At("dial")
    /\ dialLeft > 0
    /\ IF isDisallowedIP(ip) THEN Attempted(ip, "policy")
       ELSE Connected(ip) \/ Attempted(ip, "refused")

\* The dial's own timeout is over: its error says deadline exceeded, unless an
\* earlier attempt left another one.
DialTimesOut ==
    /\ At("dial")
    /\ dialLeft = 0
    /\ \/ Fail({"timeout"})
       \/ errs # {} /\ Fail(errs)

\* One address asked of the proxy, by CONNECT or SOCKS.  The dial's timeout
\* bounds the way to the proxy, not its answer.
dialHTTPProxyTunnel(ip) ==
    /\ At("tunnel")
    /\ \/ Connected(ip)
       \/ Attempted(ip, "refused")
       \/ dialLeft = 0 /\ Attempted(ip, "timeout")

\* The response: a status, a redirect, or a broken connection.  A redirect
\* leaves its connection idle, or closes it.
Response ==
    /\ At("response")
    /\ \/ \E r \in {"ok", "UnexpectedStatusCode"} : CloseIdleConnections(r) /\ UNCHANGED errs
       \/ Fail({"refused"})
       \/ /\ hops = Redirects
          /\ Fail({"redirects"})
       \/ /\ hops < Redirects
          /\ hops' = hops + 1
          /\ \E h \in Hosts : request' = [request EXCEPT !.pc = "resolve", !.host = h, !.via = None]
          /\ conns' \in {conns, {x \in conns : x.host # request.host}}
          /\ errs' = {}
          /\ UNCHANGED <<prefixes, left, dialLeft, todo, reached, ctxOver, result>>

Running == request.pc # "done"

NoClientTimeout == FALSE /\ UNCHANGED vars

\* http.Client's timeout covers all hops.
ClientTimesOut ==
    /\ Running
    /\ left = 0
    /\ Fail({"timeout"})

\* A lost lease, a cancellation or a shutdown; the request ends with it.
ContextEnds ==
    /\ Running /\ ~ctxOver
    /\ ctxOver' = TRUE
    /\ UNCHANGED <<prefixes, request, left, dialLeft, todo, errs, hops, conns, reached, result>>

Canceled == Running /\ ctxOver /\ Fail({"canceled"})

Less(n) == IF n = 0 THEN 0 ELSE n - 1

Tick ==
    /\ Running
    /\ left > 0
    /\ request.pc = "dial" => dialLeft > 0
    /\ left' = left - 1
    /\ dialLeft' = Less(dialLeft)
    /\ UNCHANGED <<prefixes, request, todo, errs, hops, conns, reached, ctxOver, result>>

Terminated == ~Running /\ UNCHANGED vars

Next ==
    \/ resolveEndpointHost \/ LookupFails \/ proxyFor
    \/ \E ip \in todo : newGuardedDialer(ip) \/ dialHTTPProxyTunnel(ip)
    \/ DialTimesOut \/ Response
    \/ ClientTimesOut \/ ContextEnds \/ Canceled \/ Tick \/ Terminated

\* Time passes and timers fire; no server, resolver or proxy need answer.
Fairness == WF_vars(Tick) /\ WF_vars(ClientTimesOut) /\ WF_vars(Canceled) /\ WF_vars(DialTimesOut)

Spec == Init /\ [][Next]_vars /\ Fairness

-----------------------------------------------------------------------------
\* classifyExecutionFailure: a failure without a reason of its own is retried
\* when its code is one of the infrastructure's.
classifyExecutionFailure(r) ==
    CASE r \in {"TimeLimitExceeded", "UnexpectedStatusCode"} -> "user"
      [] r = "Unavailable" -> "retry"
      [] OTHER -> "user"

-----------------------------------------------------------------------------
\* The run's stages, the addresses it tries and the results it can have.
TypeOK ==
    /\ prefixes \subseteq Specs
    /\ request \in [pc: {"resolve", "proxy", "dial", "tunnel", "response", "done"},
                    host: Hosts, timeout: 1..MaxTimeout, via: {"direct", "proxy", None}]
    /\ left \in 0..request.timeout
    /\ dialLeft \in 0..MaxDial
    /\ todo \cup reached \subseteq Addresses
    /\ errs \subseteq {"policy", "dns", "proxy", "refused", "timeout", "redirects", "canceled"}
    /\ hops \in 0..Redirects
    /\ conns \subseteq [via: {"direct", "proxy"}, host: Hosts, ip: Addresses]
    /\ ctxOver \in BOOLEAN
    /\ (result = None) = Running
    /\ result \in {None, "ok", "UnexpectedStatusCode", "FailedPrecondition", "TimeLimitExceeded",
                   "Unavailable"}

\* Where the network delivers ip: an address under a NAT64 prefix to the four
\* bytes behind the prefix, byte 8 left out (RFC 6052).
Delivered(ip) ==
    LET match == IF Contains(WellKnown, ip) THEN {WellKnown} ELSE longestMatchingNAT64Prefix(ip)
        bits == (CHOOSE p \in match : TRUE).bits
        at(k) == LET i == bits \div 8 + k IN IF bits < 96 /\ bits \div 8 <= 8 /\ i >= 8 THEN i + 1 ELSE i
    IN IF match = {} THEN ip ELSE [k \in 0..3 |-> ip[at(k)]]

\* "Every connection attempt of every redirect hop is re-validated"
\* (egress.go:314): whatever the names resolve to from one lookup to the next,
\* no connection goes to a protected address, not through a proxy, and not
\* through an address that NAT64 translates to one.
OnlyPublicReached ==
    \A ip \in reached : /\ Delivered(ip) \notin (Reserved \cup SpecialUse) \ Exceptions
                        /\ isGlobalUnicastStrict(Delivered(ip))

\* ErrDisallowedTarget maps "the condition onto a permanent user error instead
\* of a retryable one" (egress.go:14): a run that only the policy stopped is
\* not retried, and one the policy had no part in is not blamed on the target.
PolicyIsPermanent ==
    /\ result # None /\ errs = {"policy"} => classifyExecutionFailure(result) = "user"
    /\ result = "FailedPrecondition" => "policy" \in errs

\* No connection of a run outlives it, neither the direct ones a redirect left
\* idle nor those of the transports made for each proxied address.
NothingLeftOpen == ~Running => conns = {}

\* "TimeLimitExceeded indicates a configured execution or request deadline
\* elapsed" (terminalreason.go:20): the request's timeout is over then.
TimeLimitIsTheRequests == result = "TimeLimitExceeded" => left = 0

\* A run ends, though no server, resolver or proxy ever answers.
ExecuteReturns == <>(~Running)
=============================================================================

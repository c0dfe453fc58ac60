----------------------------- MODULE Verification -----------------------------
(***************************************************************************)
(* The life of a challenge: ServeHTTP answers a visitor without a valid     *)
(* allow cookie with a challenge page that carries a signed return state    *)
(* (challenge.go); the solved challenge comes back as a POST to             *)
(* verify_path; handleVerify (verification_handler.go) checks the state,    *)
(* asks the local limiter, asks Cap, and sets the allow cookie              *)
(* (verification.go) that later visits present.                             *)
(*                                                                          *)
(* Requests interleave between the steps of handleVerify: the body is read, *)
(* the clock is read and the state checked, the limiter's mutex is taken,   *)
(* the siteverify call is answered.  The clock moves in between; tokens     *)
(* carry whole seconds.  A configuration reload replaces the instance that  *)
(* serves new requests while requests of the old one still run.             *)
(*                                                                          *)
(* Data is abstracted to what the checks compare.  A signed value is a      *)
(* record of its key and its claims: only its signer can make it, and the   *)
(* JSON field a claim type lacks decodes to its zero value.                 *)
(***************************************************************************)
EXTENDS TokenBuckets, Sequences

CONSTANTS
    Requests,             \* requests that may be in progress at once
    Clients,              \* client addresses
    NoAddr,               \* a client address that does not parse
    SecretOf,             \* cap_secret_key of each configuration: a sequence
    AllowFor,             \* allow_for, in ticks
    ReturnStateValidFor,  \* returnStateValidFor (15 min), in ticks
    CapTimeout,           \* timeout of the siteverify call (15 s), in ticks
    MaxDelay,             \* bound: ticks from reading the clock to the mutex
    MaxStates,            \* bound: distinct challenges handed out
    MaxCookies,           \* bound: distinct allow cookies handed out
    Horizon               \* bound: last instant of the clock

ASSUME VerificationAssumption ==
    /\ AllowFor \in Nat \ {0} /\ ReturnStateValidFor \in Nat \ {0}
    /\ CapTimeout \in Nat \ {0} /\ MaxDelay \in Nat /\ MaxStates \in Nat
    /\ MaxCookies \in Nat /\ Horizon \in Nat
    /\ Len(SecretOf) \in Nat \ {0} /\ NoAddr \notin Clients

VARIABLES
    clock,
    current,   \* the configuration that serves new requests
    limits,    \* verifyRateLimits of each configuration's instance
    cleaned,   \* per configuration: 1 once Cleanup has emptied its limiter
    request,   \* per request: its place in the handler, or its reply
    states,    \* return states handed out: [value, gen, at]
    cookies    \* allow cookies handed out: [value, gen, at, now]

vars == <<clock, current, limits, cleaned, request, states, cookies>>

Generations == 1 .. Len(SecretOf)

-----------------------------------------------------------------------------
(* Signed values.                                                           *)

Unix(t) == t \div Second

SharedMACKey(context, secret) == <<secret>>     \* mutation: one key for both uses
deriveMACKey(context, secret) == <<context, secret>>

returnStateMACKey(g) == deriveMACKey("return_state", SecretOf[g])
cookieMACKey(g)      == deriveMACKey("cookie_mac", SecretOf[g])

\* Whatever no configuration signed; it stands for a missing value too.
Forged  == [key |-> <<>>, iat |-> 0, exp |-> Unix(Horizon) + 1, returnTo |-> TRUE]

createReturnState(g, now) ==
    [key |-> returnStateMACKey(g), iat |-> 0, exp |-> Unix(now + ReturnStateValidFor),
     returnTo |-> TRUE]

\* Mutation: a state is refused in its last second.
strictReturnState(g, value, now) ==
    value.key = returnStateMACKey(g) /\ value.exp > Unix(now) + 1 /\ value.returnTo

verifyReturnState(g, value, now) ==
    value.key = returnStateMACKey(g) /\ value.exp > Unix(now) /\ value.returnTo

\* Mutation: iat is rounded up instead of down.
lateAllowCookie(g, now) ==
    [key |-> cookieMACKey(g), iat |-> Unix(now) + 1, exp |-> Unix(now + AllowFor),
     returnTo |-> FALSE]

allowCookie(g, now) ==
    [key |-> cookieMACKey(g), iat |-> Unix(now), exp |-> Unix(now + AllowFor),
     returnTo |-> FALSE]

hasValidAllowCookie(g, value, now) ==
    value.key = cookieMACKey(g) /\ value.exp > Unix(now) /\ value.iat <= Unix(now)

\* What a visitor can present: any value handed out to anyone, or a forgery.
Presentable == {s.value : s \in states} \cup {c.value : c \in cookies} \cup {Forged}

-----------------------------------------------------------------------------
Init ==
    /\ clock = 0
    /\ current = 1
    /\ limits = [g \in Generations |-> [c \in {} |-> Fresh(0)]]
    /\ cleaned = [g \in Generations |-> 0]
    /\ request = [r \in Requests |-> [pc |-> "idle"]]
    /\ states = {}
    /\ cookies = {}

At(r, pc) == request[r].pc = pc
Free(r)   == request[r].pc \in {"idle", "replied"}

Reply(r, g, status, value) ==
    request' = [request EXCEPT ![r] =
        [pc |-> "replied", status |-> status, gen |-> g, value |-> value, at |-> clock]]

\* A reply whose occasion no property needs to recall.
End(r, status) == request' = [request EXCEPT ![r] = [pc |-> "replied", status |-> status]]

\* ServeHTTP from the cookie check on, for a request that no rule and no list has
\* decided: forwarded, or answered with a challenge.
VisitForwarded(r, value) ==
    /\ Free(r)
    /\ hasValidAllowCookie(current, value, clock)
    /\ Reply(r, current, "forwarded", value)
    /\ UNCHANGED <<clock, current, limits, cleaned, states, cookies>>

VisitChallenged(r, value) ==
    LET s == [value |-> createReturnState(current, clock), gen |-> current, at |-> clock]
    IN  /\ Free(r)
        /\ ~hasValidAllowCookie(current, value, clock)
        /\ s \in states \/ Cardinality(states) < MaxStates
        /\ End(r, "challenged")
        /\ states' = states \cup {s}
        /\ UNCHANGED <<clock, current, limits, cleaned, cookies>>

\* The page cannot be rendered: its state is never handed out.
VisitFails(r, value) ==
    /\ Free(r)
    /\ ~hasValidAllowCookie(current, value, clock)
    /\ End(r, "page_failed")
    /\ UNCHANGED <<clock, current, limits, cleaned, states, cookies>>

\* handleVerify up to the decoded body: wrong content type, bad JSON, an empty
\* token or an empty state end the request ...
VerifyMalformed(r) ==
    /\ Free(r)
    /\ End(r, "malformed")
    /\ UNCHANGED <<clock, current, limits, cleaned, states, cookies>>

\* ... anything else goes on.  The instance is the one that serves now.
VerifyReceived(r, c, value) ==
    /\ Free(r)
    /\ request' = [request EXCEPT ![r] =
           [pc |-> "received", gen |-> current, client |-> c, value |-> value]]
    /\ UNCHANGED <<clock, current, limits, cleaned, states, cookies>>

\* The clock is read and the return state checked against it ...
StateRefused(r) ==
    /\ At(r, "received")
    /\ ~verifyReturnState(request[r].gen, request[r].value, clock)
    /\ Reply(r, request[r].gen, "state_refused", request[r].value)
    /\ UNCHANGED <<clock, current, limits, cleaned, states, cookies>>

\* ... then the client address is parsed ...
ClientRefused(r) ==
    /\ At(r, "received")
    /\ verifyReturnState(request[r].gen, request[r].value, clock)
    /\ request[r].client = NoAddr
    /\ End(r, "bad_client")
    /\ UNCHANGED <<clock, current, limits, cleaned, states, cookies>>

\* Mutation: an address that did not parse is used all the same.
AddressUnchecked(r) ==
    /\ At(r, "received")
    /\ verifyReturnState(request[r].gen, request[r].value, clock)
    /\ request' = [request EXCEPT ![r] =
           [pc |-> "limiting", gen |-> request[r].gen, client |-> request[r].client,
            value |-> request[r].value, now |-> clock]]
    /\ UNCHANGED <<clock, current, limits, cleaned, states, cookies>>

\* Mutation: the limiter is asked before the state is checked.
StateUnchecked(r) ==
    /\ At(r, "received")
    /\ request[r].client # NoAddr
    /\ request' = [request EXCEPT ![r] =
           [pc |-> "limiting", gen |-> request[r].gen, client |-> request[r].client,
            value |-> request[r].value, now |-> clock]]
    /\ UNCHANGED <<clock, current, limits, cleaned, states, cookies>>

\* ... and the limiter is asked, with the same instant.
StateAccepted(r) ==
    /\ At(r, "received")
    /\ verifyReturnState(request[r].gen, request[r].value, clock)
    /\ request[r].client # NoAddr
    /\ request' = [request EXCEPT ![r] =
           [pc |-> "limiting", gen |-> request[r].gen, client |-> request[r].client,
            value |-> request[r].value, now |-> clock]]
    /\ UNCHANGED <<clock, current, limits, cleaned, states, cookies>>

\* allowVerifyAttempt, under the mutex of the request's own instance.
LiveWhenLocked(r) == Unexpired(limits[request[r].gen], clock)   \* mutation: a later clock
Live(r) == Unexpired(limits[request[r].gen], request[r].now)
BucketOf(r) == Bucket(Live(r), request[r].client, request[r].now)

LimitRefuses(r) ==
    LET q    == request[r]
        full == TableFull(Live(r), q.client)
        wait == IF full THEN Refill ELSE BucketOf(r).lastRefill + Refill - q.now
    IN  /\ At(r, "limiting")
        /\ full \/ BucketOf(r).tokens = 0
        /\ limits' = [limits EXCEPT ![q.gen] = Live(r)]
        /\ request' = [request EXCEPT ![r] =
               [pc |-> "replied", status |-> "limited", gen |-> q.gen, client |-> q.client,
                value |-> q.value, now |-> q.now, at |-> clock,
                retryAfter |-> RetryAfterSeconds(wait)]]
        /\ UNCHANGED <<clock, current, cleaned, states, cookies>>

LimitAdmits(r) ==
    LET q == request[r]
        b == BucketOf(r)
    IN  /\ At(r, "limiting")
        /\ ~TableFull(Live(r), q.client)
        /\ b.tokens > 0
        /\ limits' = [limits EXCEPT ![q.gen] =
               Stored(Live(r), q.client, [b EXCEPT !.tokens = b.tokens - 1])]
        /\ request' = [request EXCEPT ![r] =
               [pc |-> "cap", gen |-> q.gen, client |-> q.client, value |-> q.value,
                now |-> q.now, since |-> clock]]
        /\ UNCHANGED <<clock, current, cleaned, states, cookies>>

\* verifyCapToken: Cap rejects the token, or the call fails (refused by the
\* outbound policy, no answer within CapTimeout, cancelled because the client went
\* away, a status other than 2xx, an unreadable answer).
CapRejects(r) ==
    /\ At(r, "cap")
    /\ End(r, "cap_rejected")
    /\ UNCHANGED <<clock, current, limits, cleaned, states, cookies>>

CapFails(r) ==
    /\ At(r, "cap")
    /\ End(r, "cap_failed")
    /\ UNCHANGED <<clock, current, limits, cleaned, states, cookies>>

\* The reply that sets the cookie.
Grant(r, value) ==
    LET c == [value |-> value, gen |-> request[r].gen, at |-> clock, now |-> request[r].now]
    IN  /\ At(r, "cap")
        /\ c \in cookies \/ Cardinality(cookies) < MaxCookies
        /\ cookies' = cookies \cup {c}
        /\ Reply(r, request[r].gen, "granted", value)
        /\ UNCHANGED <<clock, current, limits, cleaned, states>>

\* Cap accepts.  The cookie is dated by the instant read before the call.
CapAccepts(r) == Grant(r, allowCookie(request[r].gen, request[r].now))

\* A reload puts the next configuration in charge of new requests ...
Reload ==
    /\ current < Len(SecretOf)
    /\ current' = current + 1
    /\ UNCHANGED <<clock, limits, cleaned, request, states, cookies>>

\* ... and Caddy cleans up the old one, whose requests may still be running.
Cleanup(g) ==
    /\ g < current
    /\ cleaned[g] = 0
    /\ cleaned' = [cleaned EXCEPT ![g] = 1]
    /\ limits' = [limits EXCEPT ![g] = [c \in {} |-> Fresh(0)]]
    /\ UNCHANGED <<clock, current, request, states, cookies>>

\* Time passes, but not past the timeout of a siteverify call.
Tick ==
    /\ clock < Horizon
    /\ \A r \in Requests : At(r, "limiting") => clock - request[r].now < MaxDelay
    /\ \A r \in Requests : At(r, "cap") => clock - request[r].since < CapTimeout
    /\ clock' = clock + 1
    /\ UNCHANGED <<current, limits, cleaned, request, states, cookies>>

\* Mutation: the siteverify call has no timeout, and Cap does not answer.
HandleUntilCap(r) ==
    \/ StateRefused(r) \/ ClientRefused(r) \/ StateAccepted(r)
    \/ LimitRefuses(r) \/ LimitAdmits(r)

\* One step of the handler of r, once the request has been received.
Handle(r) ==
    \/ StateRefused(r) \/ ClientRefused(r) \/ StateAccepted(r)
    \/ LimitRefuses(r) \/ LimitAdmits(r)
    \/ CapRejects(r) \/ CapFails(r) \/ CapAccepts(r)

Next ==
    \/ \E r \in Requests, v \in Presentable :
           VisitForwarded(r, v) \/ VisitChallenged(r, v) \/ VisitFails(r, v)
    \/ \E r \in Requests : VerifyMalformed(r)
    \/ \E r \in Requests, c \in Clients \cup {NoAddr}, v \in Presentable :
           VerifyReceived(r, c, v)
    \/ \E r \in Requests : Handle(r)
    \/ Reload
    \/ \E g \in Generations : Cleanup(g)
    \/ Tick

\* A handler runs to its end: Go schedules its goroutine, the limiter's mutex is
\* always given back, and the siteverify call ends by its timeout at the latest.
Fairness == \A r \in Requests : WF_vars(Handle(r))

Spec == Init /\ [][Next]_vars /\ Fairness

-----------------------------------------------------------------------------
(* Properties.                                                              *)

SignedValue == [key : {<<>>} \cup {returnStateMACKey(g) : g \in Generations}
                              \cup {cookieMACKey(g) : g \in Generations},
                iat : Nat, exp : Nat, returnTo : BOOLEAN]

\* The variables have their types; handed-out values are recorded with an instant
\* of the past.
TypeOK ==
    /\ clock \in Nat
    /\ current \in Generations
    /\ cleaned \in [Generations -> {0, 1}]
    /\ \A g \in Generations :
          /\ DOMAIN limits[g] \subseteq Clients
          /\ \A c \in DOMAIN limits[g] : limits[g][c] \in Entry
    /\ \A r \in Requests :
          request[r].pc \in {"idle", "received", "limiting", "cap", "replied"}
    /\ \A s \in states : s.value \in SignedValue /\ s.gen \in Generations /\ s.at <= clock
    /\ \A c \in cookies :
          c.value \in SignedValue /\ c.gen \in Generations /\ c.now <= c.at /\ c.at <= clock

Replied(r, status) == At(r, "replied") /\ request[r].status = status

\* Only an allow cookie that Cap's acceptance earned opens the gate, and only under
\* the secret it was earned under: no return state (it has the same version and an
\* expiry), no forgery and no cookie of another secret does, although a visitor may
\* present anything it was ever given in either place.
OnlyEarnedCookiesOpen ==
    \A r \in Requests : Replied(r, "forwarded") =>
        \E c \in cookies :
            /\ c.value = request[r].value
            /\ SecretOf[c.gen] = SecretOf[request[r].gen]
            /\ request[r].at < c.now + AllowFor

\* A granted cookie keeps its promise although it is dated before the siteverify
\* call and cut to whole seconds: under its secret it is accepted from the moment it
\* is sent until allow_for after the clock was read, less than a second short of it,
\* and never from allow_for on.
CookieLifetime ==
    \A c \in cookies : \A g \in Generations : SecretOf[g] = SecretOf[c.gen] =>
        \A t \in c.at .. (Horizon + AllowFor) :
            /\ t <= c.now + AllowFor - Second => hasValidAllowCookie(g, c.value, t)
            /\ t >= c.now + AllowFor => ~hasValidAllowCookie(g, c.value, t)

\* With an allow_for that covers a second, the longest siteverify call and the wait
\* for the limiter, a visitor who was just granted passes the gate at once: there is
\* no loop of challenges.
GrantOpens ==
    AllowFor >= Second + MaxDelay + CapTimeout =>
        \A r \in Requests : Replied(r, "granted") /\ request[r].at = clock =>
            hasValidAllowCookie(request[r].gen, request[r].value, clock)

\* A state is refused only if it is not genuine under the secret in charge of the
\* request or was handed out almost 15 minutes ago: more than that, less a second.
PromptSolverAccepted ==
    \A r \in Requests : Replied(r, "state_refused") =>
        \A s \in states :
            /\ s.value = request[r].value
            /\ SecretOf[s.gen] = SecretOf[request[r].gen]
            => request[r].at - s.at > ReturnStateValidFor - Second

\* A client's bucket is charged only by the step that sends a POST of that client on to
\* Cap, and the POST's return state was handed out by this server, under the same secret,
\* less than 15 minutes before its clock was read.
ChargingStep ==
    \A g \in Generations, c \in Clients :
        Available(limits'[g], c, clock) < Available(limits[g], c, clock) =>
            \E r \in Requests :
                /\ At(r, "limiting") /\ request[r].gen = g /\ request[r].client = c
                /\ request'[r].pc = "cap"
                /\ \E s \in states :
                      /\ s.value = request[r].value
                      /\ SecretOf[s.gen] = SecretOf[g]
                      /\ request[r].now < s.at + ReturnStateValidFor

ChargedForGenuineStates == [][ChargingStep]_vars

\* Cap is asked once per admitted attempt: of all requests, only those that the
\* limiter of their own instance admitted reach the siteverify call, so its rate
\* bound is a bound on the calls.  (Each instance implements the limiter.)
AttemptOf(g, r) ==
    LET q == request[r]
    IN  CASE q.pc = "limiting" /\ q.gen = g ->
               [state |-> "waiting", client |-> q.client, now |-> q.now]
          [] q.pc = "cap" /\ q.gen = g ->
               [state |-> "admitted", client |-> q.client, now |-> q.now]
          [] q.pc = "replied" /\ q.status = "limited" /\ q.gen = g ->
               [state |-> "refused", client |-> q.client, now |-> q.now,
                retryAfter |-> q.retryAfter]
          [] OTHER -> [state |-> "idle"]

Limiter(g) == INSTANCE VerifyRateLimit WITH
                  verifyRateLimits <- limits[g],
                  attempt <- [r \in Requests |-> AttemptOf(g, r)],
                  resets <- cleaned[g],
                  MaxResets <- 1

LimiterStep(g) == Limiter(g)!Next \/ UNCHANGED Limiter(g)!vars

EachInstanceImplementsLimiter ==
    /\ \A g \in Generations : Limiter(g)!Init
    /\ [][\A g \in Generations : LimiterStep(g)]_vars

\* Every POST that was received is answered, whatever Cap does.
PostsAnswered == \A r \in Requests : At(r, "received") ~> At(r, "replied")

=============================================================================

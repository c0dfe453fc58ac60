-------------------------- MODULE VerificationProofs --------------------------
(***************************************************************************)
(* What a challenge promises for every number of clients and requests, every *)
(* sequence of configurations and every validity: only earned cookies open   *)
(* the gate, a prompt solver is accepted, a bucket is charged for genuine    *)
(* states only, and every instance behaves as VerifyRateLimit says.          *)
(***************************************************************************)
EXTENDS Verification, TokenBucketsProofs, FiniteSetTheorems

-----------------------------------------------------------------------------
(* The inductive invariant, in parts.                                       *)

Received == [pc : {"received"}, gen : Generations, client : Clients \cup {NoAddr},
             value : SignedValue]
Limiting == [pc : {"limiting"}, gen : Generations, client : Clients, value : SignedValue,
             now : Nat]
AtCap    == [pc : {"cap"}, gen : Generations, client : Clients, value : SignedValue,
             now : Nat, since : Nat]
Ended    == [pc : {"replied"}, status : {"challenged", "page_failed", "malformed", "bad_client",
                                         "cap_rejected", "cap_failed"}]
Recorded == [pc : {"replied"}, status : {"forwarded", "state_refused", "granted"},
             gen : Generations, value : SignedValue, at : Nat]
Limited  == [pc : {"replied"}, status : {"limited"}, gen : Generations, client : Clients,
             value : SignedValue, now : Nat, at : Nat, retryAfter : Nat]

\* A request at each of its places.
RequestStates == {[pc |-> "idle"]} \cup Received \cup Limiting \cup AtCap
                     \cup Ended \cup Recorded \cup Limited

\* The types of the variables.
Types ==
    /\ clock \in Nat
    /\ current \in Generations
    /\ cleaned \in [Generations -> {0, 1}]
    /\ DOMAIN limits = Generations
    /\ \A g \in Generations : DOMAIN limits[g] \subseteq Clients /\ Buckets(limits[g], clock)
    /\ request \in [Requests -> RequestStates]

\* Every value that was handed out is what its signer makes, and it is of the past.
Signed ==
    /\ \A s \in states : /\ s.gen \in Generations /\ s.at \in Nat /\ s.at <= clock
                         /\ s.value = createReturnState(s.gen, s.at)
    /\ \A c \in cookies : /\ c.gen \in Generations /\ c.now \in Nat /\ c.at \in Nat
                          /\ c.now <= c.at /\ c.at <= clock
                          /\ c.value = allowCookie(c.gen, c.now)

\* What the handler has checked about a request at each place, and when: nothing that
\* it relies on later can change meanwhile.
Checked(r) ==
    /\ At(r, "received") => request[r].value \in Presentable
    /\ At(r, "limiting") =>
        /\ request[r].value \in Presentable
        /\ verifyReturnState(request[r].gen, request[r].value, request[r].now)
        /\ request[r].now <= clock /\ clock <= request[r].now + MaxDelay
    /\ At(r, "cap") =>
        /\ request[r].now <= request[r].since /\ request[r].since <= request[r].now + MaxDelay
        /\ request[r].since <= clock /\ clock <= request[r].since + CapTimeout
    /\ Replied(r, "forwarded") =>
        /\ request[r].value \in Presentable
        /\ hasValidAllowCookie(request[r].gen, request[r].value, request[r].at)
    /\ Replied(r, "state_refused") =>
        ~verifyReturnState(request[r].gen, request[r].value, request[r].at)
    /\ Replied(r, "granted") =>
        \E c \in cookies :
            /\ c.value = request[r].value /\ c.gen = request[r].gen /\ c.at = request[r].at
            /\ c.at <= c.now + MaxDelay + CapTimeout

IInv == Types /\ Signed /\ \A r \in Requests : Checked(r)

-----------------------------------------------------------------------------
(* Seconds, keys and what an accepted value is.                             *)

\* Cutting an instant to whole seconds keeps the order, and loses less than a second.
LEMMA UnixFacts ==
    ASSUME NEW a \in Nat, NEW b \in Nat
    PROVE  /\ Unix(a) \in Nat
           /\ a <= b => Unix(a) <= Unix(b)
           /\ a + Second <= b => Unix(a) < Unix(b)
<1>1. /\ Unix(a) \in Nat /\ Second * Unix(a) <= a /\ a < Second * Unix(a) + Second
      /\ Unix(b) \in Nat /\ Second * Unix(b) <= b /\ b < Second * Unix(b) + Second
  BY SecondAssumption DEF Unix
<1> DEFINE m == Unix(a)
           n == Unix(b)
<1> HIDE DEF m, n
<1>2. \A i, j \in Nat : i < j => Second * i + Second <= Second * j
  <2> TAKE i, j \in Nat
  <2> SUFFICES ASSUME i < j PROVE Second * i + Second <= Second * j
    OBVIOUS
  <2>1. PICK k \in Nat : j = i + 1 + k
    <3>1. j - (i + 1) \in Nat
      OBVIOUS
    <3>2. QED
      BY <3>1
  <2>2. Second * j = Second * i + Second + Second * k
    BY <2>1, SecondAssumption
  <2>3. Second * k \in Nat /\ Second * i \in Nat
    BY SecondAssumption
  <2>4. QED
    BY <2>2, <2>3, SecondAssumption
<1>3. a <= b => ~(Unix(b) < Unix(a))
  <2> SUFFICES ASSUME a <= b, Unix(b) < Unix(a) PROVE FALSE
    OBVIOUS
  <2>1. Second * Unix(b) + Second <= Second * Unix(a)
    BY <1>1, <1>2
  <2>2. QED
    BY <1>1, <2>1, SecondAssumption
<1>4. a + Second <= b => Unix(a) < Unix(b)
  <2> SUFFICES ASSUME a + Second <= b, ~(Unix(a) < Unix(b)) PROVE FALSE
    OBVIOUS
  <2>1. Second * Unix(b) <= Second * Unix(a)
    <3>1. CASE Unix(a) = Unix(b)
      BY <1>1, <3>1, SecondAssumption
    <3>2. CASE Unix(b) < Unix(a)
      <4>1. Second * Unix(b) + Second <= Second * Unix(a)
        BY <1>1, <1>2, <3>2
      <4>2. QED
        BY <1>1, <4>1, SecondAssumption
    <3>3. QED
      BY <1>1, <3>1, <3>2
  <2>2. QED
    BY <1>1, <2>1, SecondAssumption
<1>5. QED
  BY <1>1, <1>3, <1>4

\* A key tells its use and its secret.
LEMMA KeyFacts ==
    ASSUME NEW g \in Generations, NEW h \in Generations
    PROVE  /\ returnStateMACKey(g) # <<>> /\ cookieMACKey(g) # <<>>
           /\ returnStateMACKey(g) # cookieMACKey(h)
           /\ returnStateMACKey(g) = returnStateMACKey(h) => SecretOf[g] = SecretOf[h]
           /\ cookieMACKey(g) = cookieMACKey(h) => SecretOf[g] = SecretOf[h]
           /\ SecretOf[g] = SecretOf[h] =>
                /\ returnStateMACKey(g) = returnStateMACKey(h)
                /\ cookieMACKey(g) = cookieMACKey(h)
BY DEF returnStateMACKey, cookieMACKey, deriveMACKey

\* The claims of a state and of a cookie that were handed out.
LEMMA StateClaims ==
    ASSUME Signed, NEW s \in states
    PROVE  /\ s.gen \in Generations /\ s.at \in Nat /\ s.at + ReturnStateValidFor \in Nat
           /\ s.at <= clock
           /\ s.value.key = returnStateMACKey(s.gen) /\ s.value.iat = 0
           /\ s.value.exp = Unix(s.at + ReturnStateValidFor) /\ s.value.returnTo = TRUE
<1>1. /\ s.gen \in Generations /\ s.at \in Nat /\ s.at <= clock
      /\ s.value = createReturnState(s.gen, s.at)
  BY DEF Signed
<1>2. s.at + ReturnStateValidFor \in Nat
  BY <1>1, VerificationAssumption
<1>3. QED
  BY <1>1, <1>2 DEF createReturnState

LEMMA CookieClaims ==
    ASSUME Signed, NEW c \in cookies
    PROVE  /\ c.gen \in Generations /\ c.now \in Nat /\ c.at \in Nat /\ c.now <= c.at
           /\ c.at <= clock /\ c.now + AllowFor \in Nat
           /\ c.value.key = cookieMACKey(c.gen) /\ c.value.iat = Unix(c.now)
           /\ c.value.exp = Unix(c.now + AllowFor)
<1>1. /\ c.gen \in Generations /\ c.now \in Nat /\ c.at \in Nat
      /\ c.now <= c.at /\ c.at <= clock
      /\ c.value = allowCookie(c.gen, c.now)
  BY DEF Signed
<1>2. c.now + AllowFor \in Nat
  BY <1>1, VerificationAssumption
<1>3. QED
  BY <1>1, <1>2 DEF allowCookie

\* Whatever can be presented is a signed value or a forgery.
LEMMA PresentableIsSigned ==
    ASSUME Types, Signed, NEW v \in Presentable
    PROVE  v \in SignedValue
<1>1. \A n \in Nat : Unix(n) \in Nat
  BY UnixFacts
<1>2. CASE v = Forged
  <2>1. Unix(Horizon) + 1 \in Nat
    BY <1>1, VerificationAssumption
  <2>2. QED
    BY <1>2, <2>1 DEF Forged, SignedValue
<1>3. ASSUME NEW s \in states, v = s.value PROVE v \in SignedValue
  <2>1. s.gen \in Generations /\ s.at + ReturnStateValidFor \in Nat
        /\ v = createReturnState(s.gen, s.at)
    BY <1>3, VerificationAssumption DEF Signed
  <2>2. QED
    BY <1>1, <2>1 DEF createReturnState, SignedValue
<1>4. ASSUME NEW c \in cookies, v = c.value PROVE v \in SignedValue
  <2>1. c.gen \in Generations /\ c.now \in Nat /\ c.now + AllowFor \in Nat
        /\ v = allowCookie(c.gen, c.now)
    BY <1>4, VerificationAssumption DEF Signed
  <2>2. QED
    BY <1>1, <2>1 DEF allowCookie, SignedValue
<1>5. QED
  BY <1>2, <1>3, <1>4 DEF Presentable

\* A return state that passes the check is one that was handed out, under the same
\* secret, less than its validity before.
LEMMA AcceptedState ==
    ASSUME Types, Signed, NEW v \in Presentable, NEW g \in Generations, NEW now \in Nat,
           verifyReturnState(g, v, now)
    PROVE  \E s \in states : /\ s.value = v
                             /\ SecretOf[s.gen] = SecretOf[g]
                             /\ now < s.at + ReturnStateValidFor
<1>1. v.key = returnStateMACKey(g) /\ v.exp > Unix(now)
  BY DEF verifyReturnState
<1>2. v # Forged
  BY <1>1, KeyFacts DEF Forged
<1>3. ASSUME NEW c \in cookies, v = c.value PROVE FALSE
  BY <1>1, <1>3, CookieClaims, KeyFacts
<1>4. PICK s \in states : v = s.value
  BY <1>2, <1>3 DEF Presentable
<1>5. /\ s.gen \in Generations /\ s.at + ReturnStateValidFor \in Nat
      /\ v.key = returnStateMACKey(s.gen) /\ v.exp = Unix(s.at + ReturnStateValidFor)
  BY <1>4, StateClaims
<1>6. SecretOf[s.gen] = SecretOf[g]
  BY <1>1, <1>5, KeyFacts
<1>7. ~(s.at + ReturnStateValidFor <= now)
  BY <1>1, <1>5, UnixFacts
<1>8. QED
  BY <1>4, <1>5, <1>6, <1>7

\* An allow cookie that passes the check is one that was granted, under the same
\* secret, less than allow_for after the instant it is dated by.
LEMMA AcceptedCookie ==
    ASSUME Types, Signed, NEW v \in Presentable, NEW g \in Generations, NEW now \in Nat,
           hasValidAllowCookie(g, v, now)
    PROVE  \E c \in cookies : /\ c.value = v
                              /\ SecretOf[c.gen] = SecretOf[g]
                              /\ now < c.now + AllowFor
<1>1. v.key = cookieMACKey(g) /\ v.exp > Unix(now)
  BY DEF hasValidAllowCookie
<1>2. v # Forged
  BY <1>1, KeyFacts DEF Forged
<1>3. ASSUME NEW s \in states, v = s.value PROVE FALSE
  <2>1. s.gen \in Generations /\ v.key = returnStateMACKey(s.gen)
    BY <1>3, StateClaims
  <2>2. returnStateMACKey(s.gen) # cookieMACKey(g)
    BY <2>1, KeyFacts
  <2>3. QED
    BY <1>1, <2>1, <2>2
<1>4. PICK c \in cookies : v = c.value
  BY <1>2, <1>3 DEF Presentable
<1>5. /\ c.gen \in Generations /\ c.now + AllowFor \in Nat
      /\ v.key = cookieMACKey(c.gen) /\ v.exp = Unix(c.now + AllowFor)
  BY <1>4, CookieClaims
<1>6. SecretOf[c.gen] = SecretOf[g]
  BY <1>1, <1>5, KeyFacts
<1>7. ~(c.now + AllowFor <= now)
  BY <1>1, <1>5, UnixFacts
<1>8. QED
  BY <1>4, <1>5, <1>6, <1>7

\* A granted cookie is accepted from its sending until less than a second before its
\* time is over, and not from then on.
LEMMA GrantedCookie ==
    ASSUME Types, Signed, NEW c \in cookies, NEW g \in Generations,
           SecretOf[g] = SecretOf[c.gen], NEW t \in Nat, c.at <= t
    PROVE  /\ t <= c.now + AllowFor - Second => hasValidAllowCookie(g, c.value, t)
           /\ t >= c.now + AllowFor => ~hasValidAllowCookie(g, c.value, t)
<1>1. /\ c.gen \in Generations /\ c.now \in Nat /\ c.now + AllowFor \in Nat
      /\ c.now <= t
      /\ c.value.key = cookieMACKey(c.gen)
      /\ c.value.iat = Unix(c.now) /\ c.value.exp = Unix(c.now + AllowFor)
  BY CookieClaims
<1>2. cookieMACKey(c.gen) = cookieMACKey(g)
  BY <1>1, KeyFacts
<1>3. Unix(c.now) <= Unix(t) /\ Unix(t) \in Nat /\ Unix(c.now + AllowFor) \in Nat
  BY <1>1, UnixFacts
<1>4. t + Second <= c.now + AllowFor => Unix(t) < Unix(c.now + AllowFor)
  BY <1>1, UnixFacts
<1>5. c.now + AllowFor <= t => Unix(c.now + AllowFor) <= Unix(t)
  BY <1>1, UnixFacts
<1>6. QED
  BY <1>1, <1>2, <1>3, <1>4, <1>5, SecondAssumption, VerificationAssumption
    DEF hasValidAllowCookie

-----------------------------------------------------------------------------
(* The parts are kept by every step.                                        *)

\* A request has the fields of its place.
LEMMA FieldsOf ==
    ASSUME Types, NEW r \in Requests
    PROVE  /\ request[r] \in RequestStates
           /\ At(r, "received") => request[r] \in Received
           /\ At(r, "limiting") => request[r] \in Limiting
           /\ At(r, "cap") => request[r] \in AtCap
           /\ At(r, "replied") => request[r] \in Ended \cup Recorded \cup Limited
BY DEF Types, RequestStates, At, Received, Limiting, AtCap, Ended, Recorded, Limited

\* One request moves on.
LEMMA Moves ==
    ASSUME Types, NEW r \in Requests, NEW q \in RequestStates,
           request' = [request EXCEPT ![r] = q]
    PROVE  /\ request' \in [Requests -> RequestStates]
           /\ request'[r] = q
           /\ \A s \in Requests \ {r} : request'[s] = request[s]
BY DEF Types

\* What each step makes of the request that takes it.
LEMMA EndEffect ==
    ASSUME Types, NEW r \in Requests,
           NEW status \in {"challenged", "page_failed", "malformed", "bad_client",
                           "cap_rejected", "cap_failed"},
           End(r, status)
    PROVE  /\ request' \in [Requests -> RequestStates]
           /\ request'[r] = [pc |-> "replied", status |-> status]
           /\ \A s \in Requests \ {r} : request'[s] = request[s]
<1>1. [pc |-> "replied", status |-> status] \in RequestStates
  BY DEF RequestStates, Ended
<1>2. QED
  BY <1>1, Moves DEF End

LEMMA ReplyEffect ==
    ASSUME Types, NEW r \in Requests, NEW g \in Generations,
           NEW status \in {"forwarded", "state_refused", "granted"}, NEW value \in SignedValue,
           Reply(r, g, status, value)
    PROVE  /\ request' \in [Requests -> RequestStates]
           /\ request'[r] = [pc |-> "replied", status |-> status, gen |-> g, value |-> value,
                             at |-> clock]
           /\ \A s \in Requests \ {r} : request'[s] = request[s]
<1>1. [pc |-> "replied", status |-> status, gen |-> g, value |-> value, at |-> clock]
        \in RequestStates
  BY DEF RequestStates, Recorded, Types
<1>2. QED
  BY <1>1, Moves DEF Reply

LEMMA ReceivedEffect ==
    ASSUME Types, Signed, NEW r \in Requests, NEW c \in Clients \cup {NoAddr},
           NEW value \in Presentable, VerifyReceived(r, c, value)
    PROVE  /\ request' \in [Requests -> RequestStates]
           /\ request'[r] = [pc |-> "received", gen |-> current, client |-> c, value |-> value]
           /\ \A s \in Requests \ {r} : request'[s] = request[s]
<1>1. value \in SignedValue
  BY PresentableIsSigned
<1>2. [pc |-> "received", gen |-> current, client |-> c, value |-> value] \in RequestStates
  BY <1>1 DEF RequestStates, Received, Types
<1>3. QED
  BY <1>2, Moves DEF VerifyReceived

LEMMA AcceptedEffect ==
    ASSUME Types, NEW r \in Requests, StateAccepted(r)
    PROVE  /\ request' \in [Requests -> RequestStates]
           /\ request'[r] = [pc |-> "limiting", gen |-> request[r].gen,
                             client |-> request[r].client, value |-> request[r].value,
                             now |-> clock]
           /\ \A s \in Requests \ {r} : request'[s] = request[s]
<1> DEFINE q == [pc |-> "limiting", gen |-> request[r].gen, client |-> request[r].client,
                 value |-> request[r].value, now |-> clock]
<1>1. request[r] \in Received /\ request[r].client # NoAddr
  BY FieldsOf DEF StateAccepted
<1>2. q \in RequestStates
  BY <1>1 DEF RequestStates, Received, Limiting, Types
<1>3. request' = [request EXCEPT ![r] = q]
  BY DEF StateAccepted
<1> HIDE DEF q
<1>4. request' \in [Requests -> RequestStates] /\ request'[r] = q
      /\ \A s \in Requests \ {r} : request'[s] = request[s]
  BY <1>2, <1>3, Moves
<1>5. QED
  BY <1>4 DEF q

\* What allowVerifyAttempt works on: the buckets of the instance after the sweep, and
\* a bucket fit to be stored once a token is taken.
LEMMA LimiterWorksOn ==
    ASSUME Types, NEW r \in Requests, Checked(r), At(r, "limiting")
    PROVE  /\ request[r].gen \in Generations /\ request[r].client \in Clients
           /\ request[r].now \in Nat /\ request[r].now <= clock /\ request[r].value \in SignedValue
           /\ DOMAIN Live(r) \subseteq Clients /\ Buckets(Live(r), clock)
           /\ BucketOf(r) \in Entry /\ BucketOf(r).tokens <= Burst
           /\ BucketOf(r).lastRefill <= clock
<1>1. /\ request[r].gen \in Generations /\ request[r].client \in Clients
      /\ request[r].now \in Nat /\ request[r].value \in SignedValue
  BY FieldsOf DEF Limiting
<1>2. request[r].now <= clock
  BY DEF Checked
<1>3. DOMAIN Live(r) \subseteq Clients /\ Buckets(Live(r), clock)
  <2>1. /\ DOMAIN limits[request[r].gen] \subseteq Clients
        /\ Buckets(limits[request[r].gen], clock)
    BY <1>1 DEF Types
  <2>2. DOMAIN Live(r) \subseteq DOMAIN limits[request[r].gen]
    BY UnexpiredFacts DEF Live
  <2>3. Buckets(Live(r), clock)
    BY <2>1, BucketsAfterSweep DEF Live
  <2>4. QED
    BY <2>1, <2>2, <2>3
<1>4. clock \in Nat
  BY DEF Types
<1>5. /\ BucketOf(r) \in Entry /\ BucketOf(r).tokens <= Burst
      /\ BucketOf(r).lastRefill <= clock
  BY <1>1, <1>2, <1>3, <1>4, BucketFacts DEF BucketOf
<1>6. QED
  BY <1>1, <1>2, <1>3, <1>5

LEMMA RefusesEffect ==
    ASSUME Types, NEW r \in Requests, Checked(r), LimitRefuses(r)
    PROVE  /\ request' \in [Requests -> RequestStates]
           /\ request'[r] \in Limited
           /\ request'[r].gen = request[r].gen /\ request'[r].client = request[r].client
           /\ request'[r].now = request[r].now
           /\ request'[r].retryAfter =
                RetryAfterSeconds(IF TableFull(Live(r), request[r].client)
                                  THEN Refill
                                  ELSE BucketOf(r).lastRefill + Refill - request[r].now)
           /\ \A s \in Requests \ {r} : request'[s] = request[s]
           /\ limits' = [limits EXCEPT ![request[r].gen] = Live(r)]
<1> DEFINE full == TableFull(Live(r), request[r].client)
           wait == IF full THEN Refill ELSE BucketOf(r).lastRefill + Refill - request[r].now
           q == [pc |-> "replied", status |-> "limited", gen |-> request[r].gen,
                 client |-> request[r].client, value |-> request[r].value,
                 now |-> request[r].now, at |-> clock, retryAfter |-> RetryAfterSeconds(wait)]
<1>1. At(r, "limiting")
  BY DEF LimitRefuses
<1>2. wait \in Int
  <2>1. BucketOf(r).lastRefill \in Nat /\ request[r].now \in Nat
    BY <1>1, LimiterWorksOn DEF Entry
  <2>2. QED
    BY <2>1, BucketAssumption
<1>3. RetryAfterSeconds(wait) \in Nat
  <2> HIDE DEF wait
  <2>1. QED
    BY <1>2, RetryAfterPositive
<1>4. request' = [request EXCEPT ![r] = q]
  BY DEF LimitRefuses
<1>5. q \in Limited
  <2> HIDE DEF wait
  <2>1. QED
    BY <1>1, <1>3, LimiterWorksOn DEF Limited, Types
<1>6. /\ q.gen = request[r].gen /\ q.client = request[r].client /\ q.now = request[r].now
      /\ q.retryAfter = RetryAfterSeconds(wait)
  OBVIOUS
<1> HIDE DEF q
<1>7. q \in RequestStates
  BY <1>5 DEF RequestStates
<1>8. limits' = [limits EXCEPT ![request[r].gen] = Live(r)]
  BY DEF LimitRefuses
<1>9. request'[r] = q
  BY <1>4, <1>7, Moves
<1>10. QED
  BY <1>4, <1>5, <1>6, <1>7, <1>8, <1>9, Moves

LEMMA AdmitsEffect ==
    ASSUME Types, NEW r \in Requests, Checked(r), LimitAdmits(r)
    PROVE  /\ request' \in [Requests -> RequestStates]
           /\ request'[r] = [pc |-> "cap", gen |-> request[r].gen,
                             client |-> request[r].client, value |-> request[r].value,
                             now |-> request[r].now, since |-> clock]
           /\ \A s \in Requests \ {r} : request'[s] = request[s]
           /\ limits' = [limits EXCEPT ![request[r].gen] =
                 Stored(Live(r), request[r].client,
                        [BucketOf(r) EXCEPT !.tokens = BucketOf(r).tokens - 1])]
<1> DEFINE q == [pc |-> "cap", gen |-> request[r].gen, client |-> request[r].client,
                 value |-> request[r].value, now |-> request[r].now, since |-> clock]
<1>1. At(r, "limiting")
  BY DEF LimitAdmits
<1>2. request' = [request EXCEPT ![r] = q]
  BY DEF LimitAdmits
<1>3. q \in RequestStates
  BY <1>1, LimiterWorksOn DEF RequestStates, AtCap, Types
<1> HIDE DEF q
<1>4. request' \in [Requests -> RequestStates] /\ request'[r] = q
      /\ \A s \in Requests \ {r} : request'[s] = request[s]
  BY <1>2, <1>3, Moves
<1>5. limits' = [limits EXCEPT ![request[r].gen] =
         Stored(Live(r), request[r].client,
                [BucketOf(r) EXCEPT !.tokens = BucketOf(r).tokens - 1])]
  BY DEF LimitAdmits
<1>6. QED
  BY <1>4, <1>5 DEF q

\* A request that moves on without touching a map keeps the types.
LEMMA TypesFrame ==
    ASSUME Types, request' \in [Requests -> RequestStates],
           UNCHANGED <<clock, current, limits, cleaned>>
    PROVE  Types'
<1>1. RequestStates' = RequestStates
  BY DEF RequestStates, Received, Limiting, AtCap, Ended, Recorded, Limited, SignedValue,
    Generations, returnStateMACKey, cookieMACKey, deriveMACKey
<1>2. QED
  BY <1>1 DEF Types, Buckets, Entry, Generations

\* A map whose buckets are fit to be stored replaces the map of one instance.
LEMMA MapReplaced ==
    ASSUME Types, NEW g \in Generations, NEW map,
           DOMAIN map \subseteq Clients, Buckets(map, clock),
           limits' = [limits EXCEPT ![g] = map]
    PROVE  /\ DOMAIN limits' = Generations
           /\ \A h \in Generations :
                DOMAIN limits'[h] \subseteq Clients /\ Buckets(limits'[h], clock)
BY DEF Types

\* The types are kept.
LEMMA TypesKept ==
    ASSUME Types, Signed, \A r \in Requests : Checked(r), Next
    PROVE  Types'
<1>1. ASSUME NEW r \in Requests, NEW v \in Presentable,
             VisitForwarded(r, v) \/ VisitChallenged(r, v) \/ VisitFails(r, v)
      PROVE  Types'
  <2>1. CASE VisitForwarded(r, v)
    <3>1. v \in SignedValue /\ current \in Generations
      BY PresentableIsSigned DEF Types
    <3>2. QED
      BY <2>1, <3>1, ReplyEffect, TypesFrame DEF VisitForwarded
  <2>2. CASE VisitChallenged(r, v)
    BY <2>2, EndEffect, TypesFrame DEF VisitChallenged
  <2>3. CASE VisitFails(r, v)
    BY <2>3, EndEffect, TypesFrame DEF VisitFails
  <2>4. QED
    BY <1>1, <2>1, <2>2, <2>3
<1>2. ASSUME NEW r \in Requests, VerifyMalformed(r) PROVE Types'
  BY <1>2, EndEffect, TypesFrame DEF VerifyMalformed
<1>3. ASSUME NEW r \in Requests, NEW c \in Clients \cup {NoAddr}, NEW v \in Presentable,
             VerifyReceived(r, c, v)
      PROVE  Types'
  BY <1>3, ReceivedEffect, TypesFrame DEF VerifyReceived
<1>4. ASSUME NEW r \in Requests, Handle(r) PROVE Types'
  <2>1. CASE StateRefused(r)
    <3>1. request[r].gen \in Generations /\ request[r].value \in SignedValue
      BY <2>1, FieldsOf DEF StateRefused, Received
    <3>2. QED
      BY <2>1, <3>1, ReplyEffect, TypesFrame DEF StateRefused
  <2>2. CASE ClientRefused(r)
    BY <2>2, EndEffect, TypesFrame DEF ClientRefused
  <2>3. CASE StateAccepted(r)
    BY <2>3, AcceptedEffect, TypesFrame DEF StateAccepted
  <2>4. CASE LimitRefuses(r)
    <3>1. /\ request[r].gen \in Generations
          /\ DOMAIN Live(r) \subseteq Clients /\ Buckets(Live(r), clock)
      BY <2>4, LimiterWorksOn DEF LimitRefuses
    <3>2. request' \in [Requests -> RequestStates]
          /\ limits' = [limits EXCEPT ![request[r].gen] = Live(r)]
      BY <2>4, RefusesEffect
    <3>3. UNCHANGED <<clock, current, cleaned>>
      BY <2>4 DEF LimitRefuses
    <3>4. QED
      BY <3>1, <3>2, <3>3, MapReplaced DEF Types
  <2>5. CASE LimitAdmits(r)
    <3> DEFINE b == BucketOf(r)
               e == [b EXCEPT !.tokens = b.tokens - 1]
               map == Stored(Live(r), request[r].client, e)
    <3>1. /\ request[r].gen \in Generations /\ request[r].client \in Clients
          /\ DOMAIN Live(r) \subseteq Clients /\ Buckets(Live(r), clock)
          /\ b \in Entry /\ b.tokens <= Burst /\ b.lastRefill <= clock
      BY <2>5, LimiterWorksOn DEF LimitAdmits
    <3>2. b.tokens > 0
      BY <2>5 DEF LimitAdmits
    <3> HIDE DEF b
    <3>3. e \in Entry /\ e.tokens < Burst /\ e.lastRefill <= clock
      BY <3>1, <3>2, BucketAssumption DEF Entry
    <3> HIDE DEF e
    <3>4. DOMAIN map \subseteq Clients /\ Buckets(map, clock)
      BY <3>1, <3>3 DEF Stored, Buckets
    <3>5. request' \in [Requests -> RequestStates]
          /\ limits' = [limits EXCEPT ![request[r].gen] = map]
      BY <2>5, AdmitsEffect DEF b, e
    <3>6. UNCHANGED <<clock, current, cleaned>>
      BY <2>5 DEF LimitAdmits
    <3> HIDE DEF map
    <3>7. QED
      BY <3>1, <3>4, <3>5, <3>6, MapReplaced DEF Types
  <2>6. CASE CapRejects(r) \/ CapFails(r)
    BY <2>6, EndEffect, TypesFrame DEF CapRejects, CapFails
  <2>7. CASE CapAccepts(r)
    <3>1. request[r].gen \in Generations /\ request[r].now \in Nat
      BY <2>7, FieldsOf DEF CapAccepts, Grant, AtCap
    <3>2. allowCookie(request[r].gen, request[r].now) \in SignedValue
      <4>1. request[r].now + AllowFor \in Nat
        BY <3>1, VerificationAssumption
      <4>2. Unix(request[r].now) \in Nat /\ Unix(request[r].now + AllowFor) \in Nat
        BY <3>1, <4>1, UnixFacts
      <4>3. QED
        BY <3>1, <4>2 DEF allowCookie, SignedValue
    <3>3. QED
      BY <2>7, <3>1, <3>2, ReplyEffect, TypesFrame DEF CapAccepts, Grant
  <2>8. QED
    BY <1>4, <2>1, <2>2, <2>3, <2>4, <2>5, <2>6, <2>7 DEF Handle
<1>5. CASE Reload
  BY <1>5, VerificationAssumption DEF Reload, Types, Buckets, Entry, Generations
<1>6. ASSUME NEW g \in Generations, Cleanup(g) PROVE Types'
  <2> DEFINE map == [c \in {} |-> Fresh(0)]
  <2>1. DOMAIN map \subseteq Clients /\ Buckets(map, clock)
    BY DEF Buckets
  <2>2. limits' = [limits EXCEPT ![g] = map] /\ UNCHANGED <<clock, current, request>>
    BY <1>6 DEF Cleanup
  <2>3. cleaned' \in [Generations -> {0, 1}]
    BY <1>6 DEF Cleanup, Types
  <2> HIDE DEF map
  <2>4. QED
    BY <2>1, <2>2, <2>3, MapReplaced DEF Types
<1>7. CASE Tick
  BY <1>7 DEF Tick, Types, Buckets, Entry
<1>8. QED
  BY <1>1, <1>2, <1>3, <1>4, <1>5, <1>6, <1>7 DEF Next

\* What was handed out stays what its signer made, and what is added is too.
LEMMA SignedKept ==
    ASSUME Types, Signed, \A r \in Requests : Checked(r), Next
    PROVE  Signed'
<1>1. ASSUME UNCHANGED <<clock, states, cookies>> PROVE Signed'
  BY <1>1 DEF Signed, Generations, createReturnState, allowCookie, returnStateMACKey,
    cookieMACKey, deriveMACKey
<1>2. ASSUME NEW r \in Requests, NEW v \in Presentable, VisitChallenged(r, v) PROVE Signed'
  <2> DEFINE s == [value |-> createReturnState(current, clock), gen |-> current, at |-> clock]
  <2>1. states' = states \cup {s} /\ UNCHANGED <<clock, cookies>>
    BY <1>2 DEF VisitChallenged
  <2>2. /\ s.gen \in Generations /\ s.at \in Nat /\ s.at <= clock
        /\ s.value = createReturnState(s.gen, s.at)
    BY DEF Types
  <2> HIDE DEF s
  <2>3. QED
    BY <2>1, <2>2 DEF Signed, Generations, createReturnState, allowCookie, returnStateMACKey,
      cookieMACKey, deriveMACKey
<1>3. ASSUME NEW r \in Requests, CapAccepts(r) PROVE Signed'
  <2> DEFINE c == [value |-> allowCookie(request[r].gen, request[r].now),
                   gen |-> request[r].gen, at |-> clock, now |-> request[r].now]
  <2>1. cookies' = cookies \cup {c} /\ UNCHANGED <<clock, states>> /\ At(r, "cap")
    BY <1>3 DEF CapAccepts, Grant
  <2>2. /\ request[r].gen \in Generations /\ request[r].now \in Nat
        /\ request[r].since \in Nat /\ clock \in Nat
    BY <2>1, FieldsOf DEF AtCap, Types
  <2>3. request[r].now <= request[r].since /\ request[r].since <= clock
    BY <2>1 DEF Checked
  <2>4. request[r].now <= clock
    BY <2>2, <2>3
  <2>5. /\ c.gen \in Generations /\ c.now \in Nat /\ c.at \in Nat
        /\ c.now <= c.at /\ c.at <= clock
        /\ c.value = allowCookie(c.gen, c.now)
    BY <2>2, <2>4
  <2> HIDE DEF c
  <2>6. QED
    BY <2>1, <2>5 DEF Signed, Generations, createReturnState, allowCookie, returnStateMACKey,
      cookieMACKey, deriveMACKey
<1>4. CASE Tick
  <2>1. clock \in Nat /\ clock' = clock + 1 /\ UNCHANGED <<states, cookies>>
    BY <1>4 DEF Tick, Types
  <2>2. \A n \in Nat : n <= clock => n <= clock'
    BY <2>1
  <2>3. QED
    BY <2>1, <2>2 DEF Signed, Generations, createReturnState, allowCookie, returnStateMACKey,
      cookieMACKey, deriveMACKey
<1>5. QED
  BY <1>1, <1>2, <1>3, <1>4
    DEF Next, Handle, VisitForwarded, VisitFails, VerifyMalformed, VerifyReceived, StateRefused,
      ClientRefused, StateAccepted, LimitRefuses, LimitAdmits, CapRejects, CapFails, Reload,
      Cleanup

\* What was checked of a request still holds when another one has moved on.
LEMMA CheckedOther ==
    ASSUME NEW s \in Requests, Checked(s), request'[s] = request[s],
           states \subseteq states', cookies \subseteq cookies', clock' = clock
    PROVE  Checked(s)'
<1>1. Presentable \subseteq Presentable'
  BY DEF Presentable, Forged, Unix
<1>2. QED
  BY <1>1 DEF Checked, At, Replied, verifyReturnState, hasValidAllowCookie, Unix,
    returnStateMACKey, cookieMACKey, deriveMACKey

LEMMA OneRequestMoves ==
    ASSUME NEW r \in Requests, \A s \in Requests : Checked(s),
           \A s \in Requests \ {r} : request'[s] = request[s],
           states \subseteq states', cookies \subseteq cookies', clock' = clock,
           Checked(r)'
    PROVE  \A s \in Requests : Checked(s)'
BY CheckedOther

\* Nothing is recalled of a request that ended otherwise.
LEMMA EndIsChecked ==
    ASSUME Types, NEW r \in Requests,
           NEW status \in {"challenged", "page_failed", "malformed", "bad_client",
                           "cap_rejected", "cap_failed"},
           End(r, status), \A s \in Requests : Checked(s),
           states \subseteq states', cookies \subseteq cookies', clock' = clock
    PROVE  \A s \in Requests : Checked(s)'
<1>1. request'[r] = [pc |-> "replied", status |-> status]
      /\ \A s \in Requests \ {r} : request'[s] = request[s]
  BY EndEffect
<1>2. Checked(r)'
  BY <1>1 DEF Checked, At, Replied
<1>3. QED
  BY <1>1, <1>2, OneRequestMoves

\* What the handler has checked stays true: of the request that moves, because its step
\* checks it; of the others, because nothing they rely on changes; and of all, because
\* time does not pass them by.
LEMMA CheckedKept ==
    ASSUME Types, Signed, \A r \in Requests : Checked(r), Next
    PROVE  \A r \in Requests : Checked(r)'
<1>1. ASSUME NEW r \in Requests, NEW v \in Presentable,
             VisitForwarded(r, v) \/ VisitChallenged(r, v) \/ VisitFails(r, v)
      PROVE  \A s \in Requests : Checked(s)'
  <2>1. CASE VisitForwarded(r, v)
    <3>1. v \in SignedValue /\ current \in Generations
      BY PresentableIsSigned DEF Types
    <3>2. /\ hasValidAllowCookie(current, v, clock)
          /\ UNCHANGED <<clock, states, cookies>>
          /\ request'[r] = [pc |-> "replied", status |-> "forwarded", gen |-> current,
                            value |-> v, at |-> clock]
          /\ \A s \in Requests \ {r} : request'[s] = request[s]
      BY <2>1, <3>1, ReplyEffect DEF VisitForwarded
    <3>3. v \in Presentable'
      BY <3>2 DEF Presentable, Forged, Unix
    <3>4. Checked(r)'
      BY <3>2, <3>3 DEF Checked, At, Replied, hasValidAllowCookie, Unix, cookieMACKey,
        deriveMACKey
    <3>5. QED
      BY <3>2, <3>4, OneRequestMoves
  <2>2. CASE VisitChallenged(r, v)
    BY <2>2, EndIsChecked DEF VisitChallenged
  <2>3. CASE VisitFails(r, v)
    BY <2>3, EndIsChecked DEF VisitFails
  <2>4. QED
    BY <1>1, <2>1, <2>2, <2>3
<1>2. ASSUME NEW r \in Requests, VerifyMalformed(r) PROVE \A s \in Requests : Checked(s)'
  BY <1>2, EndIsChecked DEF VerifyMalformed
<1>3. ASSUME NEW r \in Requests, NEW c \in Clients \cup {NoAddr}, NEW v \in Presentable,
             VerifyReceived(r, c, v)
      PROVE  \A s \in Requests : Checked(s)'
  <2>1. /\ UNCHANGED <<clock, states, cookies>>
        /\ request'[r] = [pc |-> "received", gen |-> current, client |-> c, value |-> v]
        /\ \A s \in Requests \ {r} : request'[s] = request[s]
    BY <1>3, ReceivedEffect DEF VerifyReceived
  <2>2. v \in Presentable'
    BY <2>1 DEF Presentable, Forged, Unix
  <2>3. Checked(r)'
    BY <2>1, <2>2 DEF Checked, At, Replied
  <2>4. QED
    BY <2>1, <2>3, OneRequestMoves
<1>4. ASSUME NEW r \in Requests, Handle(r) PROVE \A s \in Requests : Checked(s)'
  <2>1. CASE StateRefused(r)
    <3>1. request[r].gen \in Generations /\ request[r].value \in SignedValue
      BY <2>1, FieldsOf DEF StateRefused, Received
    <3>2. /\ ~verifyReturnState(request[r].gen, request[r].value, clock)
          /\ UNCHANGED <<clock, states, cookies>>
          /\ request'[r] = [pc |-> "replied", status |-> "state_refused", gen |-> request[r].gen,
                            value |-> request[r].value, at |-> clock]
          /\ \A s \in Requests \ {r} : request'[s] = request[s]
      BY <2>1, <3>1, ReplyEffect DEF StateRefused
    <3>3. Checked(r)'
      BY <3>2 DEF Checked, At, Replied, verifyReturnState, Unix, returnStateMACKey, deriveMACKey
    <3>4. QED
      BY <3>2, <3>3, OneRequestMoves
  <2>2. CASE ClientRefused(r)
    BY <2>2, EndIsChecked DEF ClientRefused
  <2>3. CASE StateAccepted(r)
    <3>1. /\ verifyReturnState(request[r].gen, request[r].value, clock)
          /\ request[r].value \in Presentable
          /\ UNCHANGED <<clock, states, cookies>>
          /\ request'[r] = [pc |-> "limiting", gen |-> request[r].gen,
                            client |-> request[r].client, value |-> request[r].value,
                            now |-> clock]
          /\ \A s \in Requests \ {r} : request'[s] = request[s]
      BY <2>3, AcceptedEffect DEF StateAccepted, Checked
    <3>2. request[r].value \in Presentable'
      BY <3>1 DEF Presentable, Forged, Unix
    <3>3. clock <= clock /\ clock <= clock + MaxDelay
      BY VerificationAssumption DEF Types
    <3>4. Checked(r)'
      BY <3>1, <3>2, <3>3 DEF Checked, At, Replied, verifyReturnState, Unix, returnStateMACKey,
        deriveMACKey
    <3>5. QED
      BY <3>1, <3>4, OneRequestMoves
  <2>4. CASE LimitRefuses(r)
    <3>1. /\ UNCHANGED <<clock, states, cookies>>
          /\ request'[r] \in Limited
          /\ \A s \in Requests \ {r} : request'[s] = request[s]
      BY <2>4, RefusesEffect DEF LimitRefuses
    <3>2. Checked(r)'
      BY <3>1 DEF Checked, At, Replied, Limited
    <3>3. QED
      BY <3>1, <3>2, OneRequestMoves
  <2>5. CASE LimitAdmits(r)
    <3>1. /\ UNCHANGED <<clock, states, cookies>> /\ At(r, "limiting")
          /\ request'[r] = [pc |-> "cap", gen |-> request[r].gen,
                            client |-> request[r].client, value |-> request[r].value,
                            now |-> request[r].now, since |-> clock]
          /\ \A s \in Requests \ {r} : request'[s] = request[s]
      BY <2>5, AdmitsEffect DEF LimitAdmits
    <3>2. request[r].now <= clock /\ clock <= request[r].now + MaxDelay
      BY <3>1 DEF Checked
    <3>3. clock <= clock /\ clock <= clock + CapTimeout
      BY VerificationAssumption DEF Types
    <3>4. Checked(r)'
      BY <3>1, <3>2, <3>3 DEF Checked, At, Replied
    <3>5. QED
      BY <3>1, <3>4, OneRequestMoves
  <2>6. CASE CapRejects(r) \/ CapFails(r)
    BY <2>6, EndIsChecked DEF CapRejects, CapFails
  <2>7. CASE CapAccepts(r)
    <3> DEFINE v == allowCookie(request[r].gen, request[r].now)
               c == [value |-> v, gen |-> request[r].gen, at |-> clock, now |-> request[r].now]
    <3>1. /\ request[r].gen \in Generations /\ request[r].now \in Nat
          /\ request[r].since \in Nat /\ clock \in Nat
      BY <2>7, FieldsOf DEF CapAccepts, Grant, AtCap, Types
    <3>2. v \in SignedValue
      <4>1. request[r].now + AllowFor \in Nat
        BY <3>1, VerificationAssumption
      <4>2. Unix(request[r].now) \in Nat /\ Unix(request[r].now + AllowFor) \in Nat
        BY <3>1, <4>1, UnixFacts
      <4>3. QED
        BY <3>1, <4>2 DEF allowCookie, SignedValue
    <3>3. /\ UNCHANGED <<clock, states>> /\ cookies' = cookies \cup {c}
          /\ At(r, "cap") /\ Reply(r, request[r].gen, "granted", v)
      BY <2>7 DEF CapAccepts, Grant
    <3>4. /\ request[r].since <= request[r].now + MaxDelay
          /\ clock <= request[r].since + CapTimeout
      BY <3>3 DEF Checked
    <3>5. clock <= request[r].now + MaxDelay + CapTimeout
      BY <3>1, <3>4, VerificationAssumption
    <3> HIDE DEF v
    <3>6. /\ request'[r] = [pc |-> "replied", status |-> "granted", gen |-> request[r].gen,
                            value |-> v, at |-> clock]
          /\ \A s \in Requests \ {r} : request'[s] = request[s]
      BY <3>1, <3>2, <3>3, ReplyEffect
    <3>7. Checked(r)'
      <4>1. /\ c \in cookies' /\ c.value = request'[r].value /\ c.gen = request'[r].gen
            /\ c.at = request'[r].at /\ c.at <= c.now + MaxDelay + CapTimeout
        BY <3>3, <3>5, <3>6
      <4> HIDE DEF c
      <4>2. QED
        BY <3>6, <4>1 DEF Checked, At, Replied
    <3>8. QED
      BY <3>3, <3>6, <3>7, OneRequestMoves
  <2>8. QED
    BY <1>4, <2>1, <2>2, <2>3, <2>4, <2>5, <2>6, <2>7 DEF Handle
<1>5. ASSUME UNCHANGED <<clock, request, states, cookies>>
      PROVE  \A s \in Requests : Checked(s)'
  BY <1>5, CheckedOther
<1>6. CASE Tick
  <2> SUFFICES ASSUME NEW s \in Requests PROVE Checked(s)'
    OBVIOUS
  <2>1. /\ UNCHANGED <<request, states, cookies>> /\ clock' = clock + 1 /\ clock \in Nat
        /\ At(s, "limiting") => clock - request[s].now < MaxDelay
        /\ At(s, "cap") => clock - request[s].since < CapTimeout
    BY <1>6 DEF Tick, Types
  <2>2. At(s, "limiting") =>
          request[s].now <= clock' /\ clock' <= request[s].now + MaxDelay
    <3>1. SUFFICES ASSUME At(s, "limiting")
                   PROVE  request[s].now <= clock' /\ clock' <= request[s].now + MaxDelay
      OBVIOUS
    <3>2. request[s].now \in Nat
      BY <3>1, FieldsOf DEF Limiting
    <3>3. request[s].now <= clock
      BY <3>1 DEF Checked
    <3>4. QED
      BY <2>1, <3>1, <3>2, <3>3, VerificationAssumption
  <2>3. At(s, "cap") =>
          request[s].since <= clock' /\ clock' <= request[s].since + CapTimeout
    <3>1. SUFFICES ASSUME At(s, "cap")
                   PROVE  request[s].since <= clock' /\ clock' <= request[s].since + CapTimeout
      OBVIOUS
    <3>2. request[s].since \in Nat
      BY <3>1, FieldsOf DEF AtCap
    <3>3. request[s].since <= clock
      BY <3>1 DEF Checked
    <3>4. QED
      BY <2>1, <3>1, <3>2, <3>3, VerificationAssumption
  <2>4. Presentable' = Presentable
    BY <2>1 DEF Presentable, Forged, Unix
  <2>5. Checked(s)
    OBVIOUS
  <2>6. QED
    BY <2>1, <2>2, <2>3, <2>4, <2>5 DEF Checked, At, Replied, verifyReturnState,
      hasValidAllowCookie, Unix, returnStateMACKey, cookieMACKey, deriveMACKey
<1>7. QED
  BY <1>1, <1>2, <1>3, <1>4, <1>5, <1>6 DEF Next, Reload, Cleanup

-----------------------------------------------------------------------------
(* The invariant.                                                           *)

LEMMA InitIInv == Init => IInv
<1> SUFFICES ASSUME Init PROVE IInv
  OBVIOUS
<1>1. 1 \in Generations
  BY VerificationAssumption DEF Generations
<1>2. Types
  <2>1. clock \in Nat /\ current \in Generations /\ cleaned \in [Generations -> {0, 1}]
    BY <1>1 DEF Init
  <2>2. request \in [Requests -> RequestStates]
    BY DEF Init, RequestStates
  <2>3. DOMAIN limits = Generations
        /\ \A g \in Generations : DOMAIN limits[g] \subseteq Clients /\ Buckets(limits[g], clock)
    BY DEF Init, Buckets
  <2>4. QED
    BY <2>1, <2>2, <2>3 DEF Types
<1>3. Signed
  BY DEF Init, Signed
<1>4. \A r \in Requests : Checked(r)
  BY DEF Init, Checked, At, Replied
<1>5. QED
  BY <1>2, <1>3, <1>4 DEF IInv

LEMMA StepIInv == IInv /\ [Next]_vars => IInv'
<1> SUFFICES ASSUME IInv, [Next]_vars PROVE IInv'
  OBVIOUS
<1>1. CASE Next
  BY <1>1, TypesKept, SignedKept, CheckedKept DEF IInv
<1>2. CASE UNCHANGED vars
  <2>1. Types'
    BY <1>2, TypesFrame DEF IInv, Types, vars
  <2>2. Signed'
    BY <1>2 DEF IInv, vars, Signed, Generations, createReturnState, allowCookie,
      returnStateMACKey, cookieMACKey, deriveMACKey
  <2>3. \A r \in Requests : Checked(r)'
    BY <1>2, CheckedOther DEF IInv, vars
  <2>4. QED
    BY <2>1, <2>2, <2>3 DEF IInv
<1>3. QED
  BY <1>1, <1>2

\* The inductive invariant holds in every reachable state.
THEOREM ChallengeInvariant == Spec => []IInv
BY InitIInv, StepIInv, PTL DEF Spec

-----------------------------------------------------------------------------
(* What follows from it.                                                    *)

\* The variables have their types, and what is handed out is of the past.
THEOREM TypeCorrect == Spec => []TypeOK
<1>1. IInv => TypeOK
  <2> SUFFICES ASSUME IInv PROVE TypeOK
    OBVIOUS
  <2>1. Types /\ Signed
    BY DEF IInv
  <2>2. \A g \in Generations :
          /\ DOMAIN limits[g] \subseteq Clients
          /\ \A c \in DOMAIN limits[g] : limits[g][c] \in Entry
    BY <2>1 DEF Types, Buckets
  <2>3. \A r \in Requests :
          request[r].pc \in {"idle", "received", "limiting", "cap", "replied"}
    BY <2>1 DEF Types, RequestStates, Received, Limiting, AtCap, Ended, Recorded, Limited
  <2>4. \A s \in states : s.value \in SignedValue
    BY <2>1, PresentableIsSigned DEF Presentable
  <2>5. \A c \in cookies : c.value \in SignedValue
    BY <2>1, PresentableIsSigned DEF Presentable
  <2>6. QED
    BY <2>1, <2>2, <2>3, <2>4, <2>5 DEF Types, Signed, TypeOK
<1>2. QED
  BY <1>1, ChallengeInvariant, PTL

\* What opens the gate is a cookie that was granted, under the same secret, less than
\* allow_for after the instant it is dated by (hasValidAllowCookie).
THEOREM EarnedCookies == Spec => []OnlyEarnedCookiesOpen
<1>1. IInv => OnlyEarnedCookiesOpen
  <2> SUFFICES ASSUME IInv, NEW r \in Requests, Replied(r, "forwarded")
               PROVE  \E c \in cookies :
                        /\ c.value = request[r].value
                        /\ SecretOf[c.gen] = SecretOf[request[r].gen]
                        /\ request[r].at < c.now + AllowFor
    BY DEF OnlyEarnedCookiesOpen
  <2>1. /\ request[r].value \in Presentable
        /\ hasValidAllowCookie(request[r].gen, request[r].value, request[r].at)
    BY DEF IInv, Checked
  <2>2. request[r].gen \in Generations /\ request[r].at \in Nat
    <3>1. request[r] \in Ended \cup Recorded \cup Limited /\ request[r].status = "forwarded"
      BY FieldsOf DEF IInv, Replied
    <3>2. QED
      BY <3>1 DEF Ended, Recorded, Limited
  <2>3. QED
    BY <2>1, <2>2, AcceptedCookie DEF IInv
<1>2. QED
  BY <1>1, ChallengeInvariant, PTL

\* A granted cookie is accepted from its sending until less than a second short of
\* allow_for after its date, and never from then on (allowCookie, hasValidAllowCookie).
THEOREM CookiesLastAllowFor == Spec => []CookieLifetime
<1>1. IInv => CookieLifetime
  <2> SUFFICES ASSUME IInv, NEW c \in cookies, NEW g \in Generations,
                      SecretOf[g] = SecretOf[c.gen], NEW t \in c.at .. (Horizon + AllowFor)
               PROVE  /\ t <= c.now + AllowFor - Second => hasValidAllowCookie(g, c.value, t)
                      /\ t >= c.now + AllowFor => ~hasValidAllowCookie(g, c.value, t)
    BY DEF CookieLifetime
  <2>1. c.at \in Nat
    BY CookieClaims DEF IInv
  <2>2. t \in Nat /\ c.at <= t
    BY <2>1, VerificationAssumption
  <2>3. QED
    BY <2>2, GrantedCookie DEF IInv
<1>2. QED
  BY <1>1, ChallengeInvariant, PTL

\* A visitor who was just granted passes the gate, provided that allow_for covers a
\* second, the wait for the limiter and the longest siteverify call.
THEOREM GrantsOpen == Spec => []GrantOpens
<1>1. IInv => GrantOpens
  <2> SUFFICES ASSUME IInv, AllowFor >= Second + MaxDelay + CapTimeout, NEW r \in Requests,
                      Replied(r, "granted"), request[r].at = clock
               PROVE  hasValidAllowCookie(request[r].gen, request[r].value, clock)
    BY DEF GrantOpens
  <2>1. PICK c \in cookies :
          /\ c.value = request[r].value /\ c.gen = request[r].gen /\ c.at = clock
          /\ c.at <= c.now + MaxDelay + CapTimeout
    BY DEF IInv, Checked
  <2>2. c.gen \in Generations /\ c.now \in Nat /\ clock \in Nat
    BY CookieClaims DEF IInv, Types
  <2>3. clock <= c.now + AllowFor - Second /\ c.at <= clock
    BY <2>1, <2>2, VerificationAssumption, SecondAssumption
  <2>4. hasValidAllowCookie(c.gen, c.value, clock)
    BY <2>2, <2>3, GrantedCookie DEF IInv
  <2>5. QED
    BY <2>1, <2>4
<1>2. QED
  BY <1>1, ChallengeInvariant, PTL

\* A genuine return state is refused only when it is almost returnStateValidFor old
\* (createReturnState, verifyReturnState).
THEOREM PromptSolvers == Spec => []PromptSolverAccepted
<1>1. IInv => PromptSolverAccepted
  <2> SUFFICES ASSUME IInv, NEW r \in Requests, Replied(r, "state_refused"), NEW s \in states,
                      s.value = request[r].value, SecretOf[s.gen] = SecretOf[request[r].gen]
               PROVE  request[r].at - s.at > ReturnStateValidFor - Second
    BY DEF PromptSolverAccepted
  <2>1. ~verifyReturnState(request[r].gen, request[r].value, request[r].at)
    BY DEF IInv, Checked
  <2>2. request[r].gen \in Generations /\ request[r].at \in Nat
    <3>1. /\ request[r] \in Ended \cup Recorded \cup Limited
          /\ request[r].status = "state_refused"
      BY FieldsOf DEF IInv, Replied
    <3>2. QED
      BY <3>1 DEF Ended, Recorded, Limited
  <2>3. /\ s.gen \in Generations /\ s.at \in Nat /\ s.at + ReturnStateValidFor \in Nat
        /\ request[r].value.key = returnStateMACKey(s.gen)
        /\ request[r].value.exp = Unix(s.at + ReturnStateValidFor)
        /\ request[r].value.returnTo = TRUE
    BY StateClaims DEF IInv
  <2>4. returnStateMACKey(s.gen) = returnStateMACKey(request[r].gen)
    BY <2>2, <2>3, KeyFacts
  <2>5. ~(Unix(s.at + ReturnStateValidFor) > Unix(request[r].at))
    BY <2>1, <2>3, <2>4 DEF verifyReturnState
  <2>6. ~(request[r].at + Second <= s.at + ReturnStateValidFor)
    <3>1. request[r].at + Second <= s.at + ReturnStateValidFor =>
            Unix(request[r].at) < Unix(s.at + ReturnStateValidFor)
      BY <2>2, <2>3, UnixFacts
    <3>2. QED
      BY <2>5, <3>1
  <2>7. QED
    BY <2>2, <2>3, <2>6, SecondAssumption, VerificationAssumption
<1>2. QED
  BY <1>1, ChallengeInvariant, PTL

\* A bucket is charged only by a POST of its client that carries a return state handed
\* out under the same secret less than returnStateValidFor before: a refusal, and the
\* sweep of any request, leave every client the tokens it had (allowVerifyAttempt), and
\* Cleanup leaves it a full bucket.
THEOREM GenuineStatesCharged == Spec => ChargedForGenuineStates
<1>1. ASSUME IInv, Next PROVE ChargingStep
  <2> SUFFICES ASSUME NEW g \in Generations, NEW c \in Clients,
                      Available(limits'[g], c, clock) < Available(limits[g], c, clock)
               PROVE  \E r \in Requests :
                        /\ At(r, "limiting") /\ request[r].gen = g /\ request[r].client = c
                        /\ request'[r].pc = "cap"
                        /\ \E s \in states :
                              /\ s.value = request[r].value
                              /\ SecretOf[s.gen] = SecretOf[g]
                              /\ request[r].now < s.at + ReturnStateValidFor
    BY DEF ChargingStep
  <2> DEFINE before == Available(limits[g], c, clock)
  <2>1. /\ Types /\ Signed /\ \A r \in Requests : Checked(r)
        /\ clock \in Nat /\ DOMAIN limits = Generations
        /\ \A d \in DOMAIN limits[g] : limits[g][d] \in Entry /\ limits[g][d].tokens < Burst
    BY <1>1 DEF IInv, Types, Buckets
  <2>2. before \in Nat /\ before <= Burst
    BY <2>1, AvailableAtMostBurst
  <2> HIDE DEF before
  <2>3. Available(limits'[g], c, clock) # before
    BY <2>2 DEF before
  <2>4. \A now \in Nat : now <= clock =>
          Available(Unexpired(limits[g], now), c, clock) = before
    BY <2>1, SweptAvailable DEF before
  <2>5. limits'[g] # limits[g]
    BY <2>3 DEF before
  <2>6. CASE \E r \in Requests : LimitRefuses(r)
    <3>1. PICK r \in Requests : LimitRefuses(r)
      BY <2>6
    <3>2. At(r, "limiting")
      BY <3>1 DEF LimitRefuses
    <3>3. /\ limits' = [limits EXCEPT ![request[r].gen] = Live(r)]
          /\ request[r].now \in Nat /\ request[r].now <= clock
      BY <2>1, <3>1, <3>2, RefusesEffect, LimiterWorksOn
    <3>4. limits'[g] = Unexpired(limits[g], request[r].now)
      BY <2>1, <2>5, <3>3 DEF Live
    <3>5. QED
      BY <2>3, <2>4, <3>3, <3>4
  <2>7. CASE \E r \in Requests : LimitAdmits(r)
    <3>1. PICK r \in Requests : LimitAdmits(r)
      BY <2>7
    <3>2. At(r, "limiting")
      BY <3>1 DEF LimitAdmits
    <3>3. /\ limits' = [limits EXCEPT ![request[r].gen] =
                Stored(Live(r), request[r].client,
                       [BucketOf(r) EXCEPT !.tokens = BucketOf(r).tokens - 1])]
          /\ request[r].now \in Nat /\ request[r].now <= clock
      BY <2>1, <3>1, <3>2, AdmitsEffect, LimiterWorksOn
    <3>4. /\ request[r].gen = g
          /\ limits'[g] = Stored(Unexpired(limits[g], request[r].now), request[r].client,
                                 [BucketOf(r) EXCEPT !.tokens = BucketOf(r).tokens - 1])
      BY <2>1, <2>5, <3>3 DEF Live
    <3>5. request[r].client = c
      <4> SUFFICES ASSUME request[r].client # c PROVE FALSE
        OBVIOUS
      <4>1. Available(limits'[g], c, clock)
              = Available(Unexpired(limits[g], request[r].now), c, clock)
        BY <3>4, StoredIsLocal
      <4>2. QED
        BY <2>3, <2>4, <3>3, <4>1
    <3>6. /\ request[r].value \in Presentable
          /\ verifyReturnState(g, request[r].value, request[r].now)
      BY <2>1, <3>2, <3>4 DEF Checked
    <3>7. \E s \in states : /\ s.value = request[r].value
                            /\ SecretOf[s.gen] = SecretOf[g]
                            /\ request[r].now < s.at + ReturnStateValidFor
      BY <2>1, <3>3, <3>6, AcceptedState
    <3>8. request'[r].pc = "cap"
      BY <2>1, <3>1 DEF LimitAdmits, Types
    <3>9. QED
      BY <3>2, <3>4, <3>5, <3>7, <3>8
  <2>8. ASSUME NEW h \in Generations, Cleanup(h) PROVE FALSE
    <3>1. limits'[g] = [d \in {} |-> Fresh(0)]
      BY <2>1, <2>5, <2>8 DEF Cleanup
    <3>2. Available(limits'[g], c, clock) = Burst
      BY <3>1 DEF Available
    <3>3. Burst < before
      BY <3>2 DEF before
    <3>4. QED
      BY <2>2, <3>3, BucketAssumption
  <2>9. QED
    BY <1>1, <2>5, <2>6, <2>7, <2>8
      DEF Next, Handle, VisitForwarded, VisitChallenged, VisitFails, VerifyMalformed,
        VerifyReceived, StateRefused, ClientRefused, StateAccepted, CapRejects, CapFails,
        CapAccepts, Grant, Reload, Tick
<1>2. QED
  BY <1>1, ChallengeInvariant, PTL DEF Spec, ChargedForGenuineStates

-----------------------------------------------------------------------------
(* Each instance implements the limiter.                                    *)

\* The arithmetic of the limiter is the arithmetic used here.
LEMMA SameArithmetic ==
    ASSUME NEW g \in Generations
    PROVE  /\ \A map, now : Limiter(g)!Unexpired(map, now) = Unexpired(map, now)
           /\ \A map, c, now : Limiter(g)!Bucket(map, c, now) = Bucket(map, c, now)
           /\ \A map, c : Limiter(g)!TableFull(map, c) = TableFull(map, c)
           /\ \A map, c, e : Limiter(g)!Stored(map, c, e) = Stored(map, c, e)
           /\ \A d : Limiter(g)!RetryAfterSeconds(d) = RetryAfterSeconds(d)
<1>1. \A map, now : Limiter(g)!Unexpired(map, now) = Unexpired(map, now)
  BY DEF Limiter!Unexpired, Unexpired, Limiter!Restrict, Restrict, Limiter!Lifetime, Lifetime
<1>2. \A e, now : Limiter(g)!Refilled(e, now) = Refilled(e, now)
  BY DEF Limiter!Refilled, Refilled, Limiter!AtMostBurst, AtMostBurst
<1>3. \A map, c, now : Limiter(g)!Bucket(map, c, now) = Bucket(map, c, now)
  BY <1>2 DEF Limiter!Bucket, Bucket, Limiter!Fresh, Fresh
<1>4. \A map, c : Limiter(g)!TableFull(map, c) = TableFull(map, c)
  <2>1. \A S : Limiter(g)!Cardinality(S) = Cardinality(S)
    BY Zenon DEF Limiter!Cardinality, Cardinality
  <2>2. QED
    BY <2>1 DEF Limiter!TableFull, TableFull
<1>5. \A map, c, e : Limiter(g)!Stored(map, c, e) = Stored(map, c, e)
  BY DEF Limiter!Stored, Stored
<1>6. \A d : Limiter(g)!RetryAfterSeconds(d) = RetryAfterSeconds(d)
  BY DEF Limiter!RetryAfterSeconds, RetryAfterSeconds
<1>7. QED
  BY <1>1, <1>3, <1>4, <1>5, <1>6

\* The attempt of a request at each of its places.
LEMMA AttemptPlaces ==
    ASSUME NEW g \in Generations, NEW r \in Requests
    PROVE  /\ request[r].pc = "limiting" /\ request[r].gen = g =>
                AttemptOf(g, r) = [state |-> "waiting", client |-> request[r].client,
                                   now |-> request[r].now]
           /\ request[r].pc = "cap" /\ request[r].gen = g =>
                AttemptOf(g, r) = [state |-> "admitted", client |-> request[r].client,
                                   now |-> request[r].now]
           /\ request[r].pc = "replied" /\ request[r].status = "limited" /\ request[r].gen = g =>
                AttemptOf(g, r) = [state |-> "refused", client |-> request[r].client,
                                   now |-> request[r].now, retryAfter |-> request[r].retryAfter]
           /\ \/ request[r].pc \notin {"limiting", "cap", "replied"}
              \/ request[r].pc = "replied" /\ request[r].status # "limited"
              \/ request[r].gen # g
              => AttemptOf(g, r) = [state |-> "idle"]
<1>1. request[r].pc = "limiting" /\ request[r].gen = g =>
        AttemptOf(g, r) = [state |-> "waiting", client |-> request[r].client,
                           now |-> request[r].now]
  BY Zenon DEF AttemptOf
<1>2. request[r].pc = "cap" /\ request[r].gen = g =>
        AttemptOf(g, r) = [state |-> "admitted", client |-> request[r].client,
                           now |-> request[r].now]
  BY Zenon DEF AttemptOf
<1>3. request[r].pc = "replied" /\ request[r].status = "limited" /\ request[r].gen = g =>
        AttemptOf(g, r) = [state |-> "refused", client |-> request[r].client,
                           now |-> request[r].now, retryAfter |-> request[r].retryAfter]
  BY Zenon DEF AttemptOf
<1>4. \/ request[r].pc \notin {"limiting", "cap", "replied"}
      \/ request[r].pc = "replied" /\ request[r].status # "limited"
      \/ request[r].gen # g
      => AttemptOf(g, r) = [state |-> "idle"]
  BY Zenon DEF AttemptOf
<1>5. QED
  BY <1>1, <1>2, <1>3, <1>4

\* When one request moves, its attempt is the only one that can.
LEMMA AttemptMoves ==
    ASSUME NEW g \in Generations, NEW r \in Requests,
           \A s \in Requests \ {r} : request'[s] = request[s]
    PROVE  [s \in Requests |-> AttemptOf(g, s)]'
             = [[s \in Requests |-> AttemptOf(g, s)] EXCEPT ![r] = AttemptOf(g, r)']
<1>1. \A s \in Requests \ {r} : AttemptOf(g, s)' = AttemptOf(g, s)
  BY Zenon DEF AttemptOf
<1>2. QED
  BY <1>1

\* A step that moves no attempt of an instance, and leaves its map, is no step of its
\* limiter ...
LEMMA LimiterUnmoved ==
    ASSUME NEW g \in Generations, NEW r \in Requests,
           \A s \in Requests \ {r} : request'[s] = request[s],
           AttemptOf(g, r)' = AttemptOf(g, r),
           limits'[g] = limits[g], cleaned'[g] = cleaned[g], clock' = clock
    PROVE  LimiterStep(g)
<1>1. \A s \in Requests \ {r} : AttemptOf(g, s)' = AttemptOf(g, s)
  BY Zenon DEF AttemptOf
<1>2. [s \in Requests |-> AttemptOf(g, s)]' = [s \in Requests |-> AttemptOf(g, s)]
  BY <1>1
<1>3. QED
  BY <1>2 DEF LimiterStep, Limiter!vars

\* ... and one that ends a decided attempt is its return.
LEMMA LimiterReturns ==
    ASSUME NEW g \in Generations, NEW r \in Requests,
           \A s \in Requests \ {r} : request'[s] = request[s],
           AttemptOf(g, r)' = [state |-> "idle"],
           AttemptOf(g, r).state \in {"admitted", "refused"},
           limits'[g] = limits[g], cleaned'[g] = cleaned[g], clock' = clock
    PROVE  LimiterStep(g)
<1>1. [s \in Requests |-> AttemptOf(g, s)]'
        = [[s \in Requests |-> AttemptOf(g, s)] EXCEPT ![r] = [state |-> "idle"]]
  BY AttemptMoves
<1>2. Limiter(g)!Return(r)
  BY <1>1 DEF Limiter!Return, Limiter!Idle
<1>3. QED
  BY <1>2 DEF LimiterStep, Limiter!Next

\* A request that begins, or begins anew, leaves an attempt that was refused.
LEMMA LimiterAfterFree ==
    ASSUME NEW g \in Generations, NEW r \in Requests, Free(r),
           \A s \in Requests \ {r} : request'[s] = request[s],
           AttemptOf(g, r)' = [state |-> "idle"],
           UNCHANGED <<clock, limits, cleaned>>
    PROVE  LimiterStep(g)
<1>1. CASE request[r].pc = "replied" /\ request[r].status = "limited" /\ request[r].gen = g
  <2>1. AttemptOf(g, r) = [state |-> "refused", client |-> request[r].client,
                           now |-> request[r].now, retryAfter |-> request[r].retryAfter]
    BY <1>1, AttemptPlaces
  <2>2. AttemptOf(g, r).state = "refused"
    BY <2>1
  <2>3. QED
    BY <2>2, LimiterReturns
<1>2. CASE ~(request[r].pc = "replied" /\ request[r].status = "limited" /\ request[r].gen = g)
  <2>1. AttemptOf(g, r) = [state |-> "idle"]
    BY <1>2, AttemptPlaces DEF Free
  <2>2. QED
    BY <2>1, LimiterUnmoved
<1>3. QED
  BY <1>1, <1>2

\* The siteverify call ends: an admitted attempt returns.
LEMMA LimiterAfterCap ==
    ASSUME NEW g \in Generations, NEW r \in Requests, At(r, "cap"),
           \A s \in Requests \ {r} : request'[s] = request[s],
           AttemptOf(g, r)' = [state |-> "idle"],
           UNCHANGED <<clock, limits, cleaned>>
    PROVE  LimiterStep(g)
<1>1. CASE request[r].gen = g
  <2>1. AttemptOf(g, r) = [state |-> "admitted", client |-> request[r].client,
                           now |-> request[r].now]
    BY <1>1, AttemptPlaces DEF At
  <2>2. AttemptOf(g, r).state = "admitted"
    BY <2>1
  <2>3. QED
    BY <2>2, LimiterReturns
<1>2. CASE request[r].gen # g
  <2>1. AttemptOf(g, r) = [state |-> "idle"]
    BY <1>2, AttemptPlaces
  <2>2. QED
    BY <2>1, LimiterUnmoved
<1>3. QED
  BY <1>1, <1>2

\* A reply other than a refusal of the limiter leaves no attempt.
LEMMA RepliedIsIdle ==
    ASSUME NEW g \in Generations, NEW r \in Requests,
           request'[r].pc = "replied", request'[r].status # "limited"
    PROVE  AttemptOf(g, r)' = [state |-> "idle"]
BY Zenon DEF AttemptOf

LEMMA ReceivedIsIdle ==
    ASSUME NEW g \in Generations, NEW r \in Requests, request'[r].pc = "received"
    PROVE  AttemptOf(g, r)' = [state |-> "idle"]
BY Zenon DEF AttemptOf

\* The attempt reads the clock and waits for the limiter of its own instance.
LEMMA LimiterCaptures ==
    ASSUME Types, NEW g \in Generations, NEW r \in Requests, StateAccepted(r)
    PROVE  LimiterStep(g)
<1>1. /\ request'[r] = [pc |-> "limiting", gen |-> request[r].gen,
                        client |-> request[r].client, value |-> request[r].value,
                        now |-> clock]
      /\ \A s \in Requests \ {r} : request'[s] = request[s]
      /\ UNCHANGED <<clock, limits, cleaned>>
  BY AcceptedEffect DEF StateAccepted
<1>2. request[r].client \in Clients
  BY FieldsOf DEF StateAccepted, Received
<1>3. AttemptOf(g, r) = [state |-> "idle"]
  BY AttemptPlaces DEF StateAccepted, At
<1>4. CASE request[r].gen = g
  <2>1. request'[r].pc = "limiting" /\ request'[r].gen = g
        /\ request'[r].client = request[r].client /\ request'[r].now = clock
    BY <1>1, <1>4
  <2>2. AttemptOf(g, r)' = [state |-> "waiting", client |-> request'[r].client,
                            now |-> request'[r].now]
    BY <2>1, Zenon DEF AttemptOf
  <2>3. [s \in Requests |-> AttemptOf(g, s)]'
          = [[s \in Requests |-> AttemptOf(g, s)] EXCEPT ![r] =
                [state |-> "waiting", client |-> request[r].client, now |-> clock]]
    BY <1>1, <2>1, <2>2, AttemptMoves
  <2>4. Limiter(g)!Capture(r, request[r].client)
    BY <1>1, <1>3, <2>3 DEF Limiter!Capture, Limiter!Idle
  <2>5. QED
    BY <1>2, <2>4 DEF LimiterStep, Limiter!Next
<1>5. CASE request[r].gen # g
  <2>1. request'[r].gen # g
    BY <1>1, <1>5
  <2>2. AttemptOf(g, r)' = [state |-> "idle"]
    BY <2>1, Zenon DEF AttemptOf
  <2>3. QED
    BY <1>1, <1>3, <2>2, LimiterUnmoved
<1>6. QED
  BY <1>4, <1>5

\* What the limiter finds of an attempt that is waiting.
LEMMA LimiterFinds ==
    ASSUME NEW g \in Generations, NEW r \in Requests, At(r, "limiting"), request[r].gen = g
    PROVE  /\ AttemptOf(g, r) = [state |-> "waiting", client |-> request[r].client,
                                 now |-> request[r].now]
           /\ AttemptOf(g, r).client = request[r].client
           /\ AttemptOf(g, r).now = request[r].now
           /\ [s \in Requests |-> AttemptOf(g, s)][r] = AttemptOf(g, r)
           /\ Limiter(g)!Waiting(r)
           /\ Limiter(g)!Live(r) = Live(r)
           /\ Limiter(g)!TableFull(Live(r), request[r].client)
                = TableFull(Live(r), request[r].client)
           /\ Limiter(g)!Bucket(Live(r), request[r].client, request[r].now) = BucketOf(r)
<1>1. AttemptOf(g, r) = [state |-> "waiting", client |-> request[r].client,
                         now |-> request[r].now]
  BY AttemptPlaces DEF At
<1>2. Limiter(g)!Waiting(r)
  BY <1>1 DEF Limiter!Waiting
<1>3. Limiter(g)!Live(r) = Live(r)
  BY <1>1, SameArithmetic DEF Limiter!Live, Live
<1>4. QED
  BY <1>1, <1>2, <1>3, SameArithmetic DEF BucketOf

\* allowVerifyAttempt refuses: the table is full, or the bucket is empty.
LEMMA LimiterRefuses ==
    ASSUME Types, NEW g \in Generations, NEW r \in Requests, Checked(r), LimitRefuses(r)
    PROVE  LimiterStep(g)
<1>1. /\ request'[r].pc = "replied" /\ request'[r].status = "limited"
      /\ request'[r].gen = request[r].gen /\ request'[r].client = request[r].client
      /\ request'[r].now = request[r].now
      /\ request'[r].retryAfter =
           RetryAfterSeconds(IF TableFull(Live(r), request[r].client)
                             THEN Refill
                             ELSE BucketOf(r).lastRefill + Refill - request[r].now)
      /\ \A s \in Requests \ {r} : request'[s] = request[s]
      /\ limits' = [limits EXCEPT ![request[r].gen] = Live(r)]
  BY RefusesEffect DEF Limited
<1>2. /\ At(r, "limiting") /\ UNCHANGED <<clock, cleaned>>
      /\ TableFull(Live(r), request[r].client) \/ BucketOf(r).tokens = 0
  BY DEF LimitRefuses
<1>3. CASE request[r].gen = g
  <2>1. AttemptOf(g, r)' = [state |-> "refused", client |-> request[r].client,
                            now |-> request[r].now, retryAfter |-> request'[r].retryAfter]
    <3>1. AttemptOf(g, r)' = [state |-> "refused", client |-> request'[r].client,
                              now |-> request'[r].now, retryAfter |-> request'[r].retryAfter]
      BY <1>1, <1>3, Zenon DEF AttemptOf
    <3>2. QED
      BY <1>1, <3>1
  <2>2. limits'[g] = Live(r)
    BY <1>1, <1>3 DEF Types
  <2>3. [s \in Requests |-> AttemptOf(g, s)]'
          = [[s \in Requests |-> AttemptOf(g, s)] EXCEPT ![r] = AttemptOf(g, r)']
    BY <1>1, AttemptMoves
  <2>4. CASE TableFull(Live(r), request[r].client)
    <3>1. request'[r].retryAfter = Limiter(g)!RetryAfterSeconds(Refill)
      BY <1>1, <2>4, SameArithmetic
    <3>2. Limiter(g)!Refuse(r, Refill)
      BY <1>2, <1>3, <2>1, <2>3, <3>1, LimiterFinds DEF Limiter!Refuse
    <3>3. Limiter(g)!RefuseTableFull(r)
      BY <1>2, <1>3, <2>2, <2>4, <3>2, LimiterFinds DEF Limiter!RefuseTableFull
    <3>4. QED
      BY <3>3 DEF LimiterStep, Limiter!Next, Limiter!AllowVerifyAttempt
  <2>5. CASE ~TableFull(Live(r), request[r].client)
    <3>1. request'[r].retryAfter =
            Limiter(g)!RetryAfterSeconds(BucketOf(r).lastRefill + Refill - request[r].now)
      BY <1>1, <2>5, SameArithmetic
    <3>2. Limiter(g)!Refuse(r, BucketOf(r).lastRefill + Refill - request[r].now)
      BY <1>2, <1>3, <2>1, <2>3, <3>1, LimiterFinds DEF Limiter!Refuse
    <3>3. Limiter(g)!RefuseEmpty(r)
      BY <1>2, <1>3, <2>2, <2>5, <3>2, LimiterFinds DEF Limiter!RefuseEmpty
    <3>4. QED
      BY <3>3 DEF LimiterStep, Limiter!Next, Limiter!AllowVerifyAttempt
  <2>6. QED
    BY <2>4, <2>5
<1>4. CASE request[r].gen # g
  <2>1. AttemptOf(g, r)' = [state |-> "idle"]
    BY <1>1, <1>4, Zenon DEF AttemptOf
  <2>2. AttemptOf(g, r) = [state |-> "idle"]
    BY <1>4, AttemptPlaces
  <2>3. limits'[g] = limits[g]
    BY <1>1, <1>4 DEF Types
  <2>4. QED
    BY <1>1, <1>2, <2>1, <2>2, <2>3, LimiterUnmoved
<1>5. QED
  BY <1>3, <1>4

\* allowVerifyAttempt admits: a token is taken.
LEMMA LimiterAdmits ==
    ASSUME Types, NEW g \in Generations, NEW r \in Requests, Checked(r), LimitAdmits(r)
    PROVE  LimiterStep(g)
<1> DEFINE e == [BucketOf(r) EXCEPT !.tokens = BucketOf(r).tokens - 1]
<1>1. /\ request'[r].pc = "cap" /\ request'[r].gen = request[r].gen
      /\ request'[r].client = request[r].client /\ request'[r].now = request[r].now
      /\ \A s \in Requests \ {r} : request'[s] = request[s]
      /\ limits' = [limits EXCEPT ![request[r].gen] = Stored(Live(r), request[r].client, e)]
  <2>1. /\ request'[r] = [pc |-> "cap", gen |-> request[r].gen,
                          client |-> request[r].client, value |-> request[r].value,
                          now |-> request[r].now, since |-> clock]
        /\ \A s \in Requests \ {r} : request'[s] = request[s]
        /\ limits' = [limits EXCEPT ![request[r].gen] = Stored(Live(r), request[r].client, e)]
    BY AdmitsEffect
  <2> HIDE DEF e
  <2>2. QED
    BY <2>1
<1>2. /\ At(r, "limiting") /\ UNCHANGED <<clock, cleaned>>
      /\ ~TableFull(Live(r), request[r].client) /\ BucketOf(r).tokens > 0
  BY DEF LimitAdmits
<1>3. CASE request[r].gen = g
  <2>1. AttemptOf(g, r)' = [state |-> "admitted", client |-> request[r].client,
                            now |-> request[r].now]
    <3>1. AttemptOf(g, r)' = [state |-> "admitted", client |-> request'[r].client,
                              now |-> request'[r].now]
      BY <1>1, <1>3, Zenon DEF AttemptOf
    <3>2. QED
      BY <1>1, <3>1
  <2>2. limits'[g] = Limiter(g)!Stored(Live(r), request[r].client, e)
    <3>1. limits'[g] = Stored(Live(r), request[r].client, e)
      BY <1>1, <1>3 DEF Types
    <3>2. QED
      BY <3>1, SameArithmetic
  <2>3. [s \in Requests |-> AttemptOf(g, s)]'
          = [[s \in Requests |-> AttemptOf(g, s)] EXCEPT ![r].state = "admitted"]
    <3>1. [AttemptOf(g, r) EXCEPT !.state = "admitted"] = AttemptOf(g, r)'
      BY <1>2, <1>3, <2>1, LimiterFinds
    <3>2. [s \in Requests |-> AttemptOf(g, s)]'
            = [[s \in Requests |-> AttemptOf(g, s)] EXCEPT ![r] = AttemptOf(g, r)']
      BY <1>1, AttemptMoves
    <3>3. QED
      BY <3>1, <3>2
  <2>4. Limiter(g)!Admit(r)
    BY <1>2, <1>3, <2>2, <2>3, LimiterFinds DEF Limiter!Admit
  <2>5. QED
    BY <2>4 DEF LimiterStep, Limiter!Next, Limiter!AllowVerifyAttempt
<1>4. CASE request[r].gen # g
  <2>1. AttemptOf(g, r)' = [state |-> "idle"]
    BY <1>1, <1>4, Zenon DEF AttemptOf
  <2>2. AttemptOf(g, r) = [state |-> "idle"]
    BY <1>4, AttemptPlaces
  <2>3. limits'[g] = limits[g]
    BY <1>1, <1>4 DEF Types
  <2>4. QED
    BY <1>1, <1>2, <2>1, <2>2, <2>3, LimiterUnmoved
<1>5. QED
  BY <1>3, <1>4

\* Cleanup empties the map of its own instance.
LEMMA LimiterAfterCleanup ==
    ASSUME Types, NEW g \in Generations, NEW h \in Generations, Cleanup(h)
    PROVE  LimiterStep(g)
<1>1. UNCHANGED <<clock, request>>
  BY DEF Cleanup
<1>2. [s \in Requests |-> AttemptOf(g, s)]' = [s \in Requests |-> AttemptOf(g, s)]
  BY <1>1, Zenon DEF AttemptOf
<1>3. CASE g = h
  <2>1. limits'[g] = [c \in {} |-> Limiter(g)!Fresh(0)] /\ cleaned[g] = 0 /\ cleaned'[g] = 1
    BY <1>3 DEF Cleanup, Types
  <2>2. Limiter(g)!ResetVerifyRateLimits
    BY <1>1, <1>2, <2>1 DEF Limiter!ResetVerifyRateLimits
  <2>3. QED
    BY <2>2 DEF LimiterStep, Limiter!Next
<1>4. CASE g # h
  <2>1. limits'[g] = limits[g] /\ cleaned'[g] = cleaned[g]
    BY <1>4 DEF Cleanup, Types
  <2>2. QED
    BY <1>1, <1>2, <2>1 DEF LimiterStep, Limiter!vars
<1>5. QED
  BY <1>3, <1>4

\* The clock is the limiter's clock.
LEMMA LimiterTicks ==
    ASSUME Tick, NEW g \in Generations
    PROVE  LimiterStep(g)
<1>1. clock < Horizon /\ clock' = clock + 1 /\ UNCHANGED <<limits, cleaned, request>>
  BY DEF Tick
<1>2. [s \in Requests |-> AttemptOf(g, s)]' = [s \in Requests |-> AttemptOf(g, s)]
  BY <1>1, Zenon DEF AttemptOf
<1>3. ASSUME NEW r \in Requests, Limiter(g)!Waiting(r)
      PROVE  clock - [s \in Requests |-> AttemptOf(g, s)][r].now < MaxDelay
  <2>1. AttemptOf(g, r).state = "waiting"
    BY <1>3 DEF Limiter!Waiting
  <2>2. request[r].pc = "limiting" /\ request[r].gen = g
    BY <2>1, Zenon DEF AttemptOf
  <2>3. clock - request[r].now < MaxDelay
    BY <2>2 DEF Tick, At
  <2>4. AttemptOf(g, r).now = request[r].now
    BY <2>2, AttemptPlaces
  <2>5. QED
    BY <2>3, <2>4
<1>4. Limiter(g)!Tick
  BY <1>1, <1>2, <1>3 DEF Limiter!Tick
<1>5. QED
  BY <1>4 DEF LimiterStep, Limiter!Next

LEMMA LimiterStarts ==
    ASSUME Init, NEW g \in Generations
    PROVE  Limiter(g)!Init
<1>1. \A r \in Requests : AttemptOf(g, r) = [state |-> "idle"]
  BY AttemptPlaces DEF Init
<1>2. QED
  BY <1>1 DEF Init, Limiter!Init, Limiter!Idle, Limiter!Fresh

\* Each step of a request is a step of the limiter of its own instance, and no step of
\* any other.
LEMMA EveryStepIsALimiterStep ==
    ASSUME Types, Signed, \A r \in Requests : Checked(r), Next, NEW g \in Generations
    PROVE  LimiterStep(g)
<1>1. ASSUME NEW r \in Requests, NEW v \in Presentable,
             VisitForwarded(r, v) \/ VisitChallenged(r, v) \/ VisitFails(r, v)
      PROVE  LimiterStep(g)
  <2>1. Free(r) /\ UNCHANGED <<clock, limits, cleaned>>
    BY <1>1 DEF VisitForwarded, VisitChallenged, VisitFails
  <2>2. CASE VisitForwarded(r, v)
    <3>1. v \in SignedValue /\ current \in Generations
      BY PresentableIsSigned DEF Types
    <3>2. /\ request'[r].pc = "replied" /\ request'[r].status = "forwarded"
          /\ \A s \in Requests \ {r} : request'[s] = request[s]
      <4>1. request'[r] = [pc |-> "replied", status |-> "forwarded", gen |-> current,
                           value |-> v, at |-> clock]
            /\ \A s \in Requests \ {r} : request'[s] = request[s]
        BY <2>2, <3>1, ReplyEffect DEF VisitForwarded
      <4>2. QED
        BY <4>1
    <3>3. QED
      BY <2>1, <3>2, RepliedIsIdle, LimiterAfterFree
  <2>3. CASE VisitChallenged(r, v) \/ VisitFails(r, v)
    <3>1. /\ request'[r].pc = "replied" /\ request'[r].status # "limited"
          /\ \A s \in Requests \ {r} : request'[s] = request[s]
      BY <2>3, EndEffect DEF VisitChallenged, VisitFails
    <3>2. QED
      BY <2>1, <3>1, RepliedIsIdle, LimiterAfterFree
  <2>4. QED
    BY <1>1, <2>2, <2>3
<1>2. ASSUME NEW r \in Requests, VerifyMalformed(r) PROVE LimiterStep(g)
  <2>1. /\ request'[r].pc = "replied" /\ request'[r].status # "limited"
        /\ \A s \in Requests \ {r} : request'[s] = request[s]
    BY <1>2, EndEffect DEF VerifyMalformed
  <2>2. QED
    BY <1>2, <2>1, RepliedIsIdle, LimiterAfterFree DEF VerifyMalformed
<1>3. ASSUME NEW r \in Requests, NEW c \in Clients \cup {NoAddr}, NEW v \in Presentable,
             VerifyReceived(r, c, v)
      PROVE  LimiterStep(g)
  <2>1. request'[r].pc = "received" /\ \A s \in Requests \ {r} : request'[s] = request[s]
    <3>1. request'[r] = [pc |-> "received", gen |-> current, client |-> c, value |-> v]
          /\ \A s \in Requests \ {r} : request'[s] = request[s]
      BY <1>3, ReceivedEffect
    <3>2. QED
      BY <3>1
  <2>2. QED
    BY <1>3, <2>1, ReceivedIsIdle, LimiterAfterFree DEF VerifyReceived
<1>4. ASSUME NEW r \in Requests, Handle(r) PROVE LimiterStep(g)
  <2>1. CASE StateRefused(r)
    <3>1. request[r].gen \in Generations /\ request[r].value \in SignedValue
      BY <2>1, FieldsOf DEF StateRefused, Received
    <3>2. /\ request'[r].pc = "replied" /\ request'[r].status = "state_refused"
          /\ \A s \in Requests \ {r} : request'[s] = request[s]
      <4>1. request'[r] = [pc |-> "replied", status |-> "state_refused", gen |-> request[r].gen,
                           value |-> request[r].value, at |-> clock]
            /\ \A s \in Requests \ {r} : request'[s] = request[s]
        BY <2>1, <3>1, ReplyEffect DEF StateRefused
      <4>2. QED
        BY <4>1
    <3>3. AttemptOf(g, r) = [state |-> "idle"] /\ AttemptOf(g, r)' = [state |-> "idle"]
      BY <2>1, <3>2, AttemptPlaces, RepliedIsIdle DEF StateRefused, At
    <3>4. QED
      BY <2>1, <3>2, <3>3, LimiterUnmoved DEF StateRefused
  <2>2. CASE ClientRefused(r)
    <3>1. /\ request'[r].pc = "replied" /\ request'[r].status # "limited"
          /\ \A s \in Requests \ {r} : request'[s] = request[s]
      BY <2>2, EndEffect DEF ClientRefused
    <3>2. AttemptOf(g, r) = [state |-> "idle"] /\ AttemptOf(g, r)' = [state |-> "idle"]
      BY <2>2, <3>1, AttemptPlaces, RepliedIsIdle DEF ClientRefused, At
    <3>3. QED
      BY <2>2, <3>1, <3>2, LimiterUnmoved DEF ClientRefused
  <2>3. CASE StateAccepted(r)
    BY <2>3, LimiterCaptures
  <2>4. CASE LimitRefuses(r)
    BY <2>4, LimiterRefuses
  <2>5. CASE LimitAdmits(r)
    BY <2>5, LimiterAdmits
  <2>6. CASE CapRejects(r) \/ CapFails(r)
    <3>1. /\ request'[r].pc = "replied" /\ request'[r].status # "limited"
          /\ \A s \in Requests \ {r} : request'[s] = request[s]
      BY <2>6, EndEffect DEF CapRejects, CapFails
    <3>2. QED
      BY <2>6, <3>1, RepliedIsIdle, LimiterAfterCap DEF CapRejects, CapFails
  <2>7. CASE CapAccepts(r)
    <3>1. /\ request'[r].pc = "replied" /\ request'[r].status = "granted"
          /\ \A s \in Requests \ {r} : request'[s] = request[s]
      <4>1. Reply(r, request[r].gen, "granted", allowCookie(request[r].gen, request[r].now))
        BY <2>7 DEF CapAccepts, Grant
      <4>2. QED
        BY <4>1 DEF Reply, Types
    <3>2. QED
      BY <2>7, <3>1, RepliedIsIdle, LimiterAfterCap DEF CapAccepts, Grant
  <2>8. QED
    BY <1>4, <2>1, <2>2, <2>3, <2>4, <2>5, <2>6, <2>7 DEF Handle
<1>5. CASE Reload
  <2>1. UNCHANGED <<clock, limits, cleaned, request>>
    BY <1>5 DEF Reload
  <2>2. [s \in Requests |-> AttemptOf(g, s)]' = [s \in Requests |-> AttemptOf(g, s)]
    BY <2>1, Zenon DEF AttemptOf
  <2>3. QED
    BY <2>1, <2>2 DEF LimiterStep, Limiter!vars
<1>6. ASSUME NEW h \in Generations, Cleanup(h) PROVE LimiterStep(g)
  BY <1>6, LimiterAfterCleanup
<1>7. CASE Tick
  BY <1>7, LimiterTicks
<1>8. QED
  BY <1>1, <1>2, <1>3, <1>4, <1>5, <1>6, <1>7 DEF Next

\* Every instance is a limiter as VerifyRateLimit specifies it, whatever the requests of
\* the others do: what is proved of the limiter bounds the siteverify calls of each.
THEOREM InstancesImplementLimiter == Spec => EachInstanceImplementsLimiter
<1>1. Init => \A g \in Generations : Limiter(g)!Init
  BY LimiterStarts
<1>2. IInv /\ Next => \A g \in Generations : LimiterStep(g)
  BY EveryStepIsALimiterStep DEF IInv
<1>3. QED
  BY <1>1, <1>2, ChallengeInvariant, PTL DEF Spec, EachInstanceImplementsLimiter
===============================================================================

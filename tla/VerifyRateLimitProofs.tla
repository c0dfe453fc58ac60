------------------------ MODULE VerifyRateLimitProofs ------------------------
(***************************************************************************)
(* Proofs about the limiter of VerifyRateLimit and about what it promises    *)
(* over time, as VerifyRateLimitWindow observes it, for all values of the    *)
(* constants.                                                               *)
(***************************************************************************)
EXTENDS VerifyRateLimitWindow, TokenBucketsProofs, FiniteSetTheorems

(* The map as the type invariant sees it. *)
Limits(limits, now) ==
    DOMAIN limits \subseteq Clients /\ Buckets(limits, now)

-----------------------------------------------------------------------------
(* What each step of allowVerifyAttempt does to map and attempt.            *)

LEMMA LimitsAfterSweep ==
    ASSUME NEW limits, NEW now, NEW time, Limits(limits, time)
    PROVE  Limits(Unexpired(limits, now), time)
BY UnexpiredFacts DEF Limits, Buckets

(* The bucket request r works on is fit to be stored once a token is taken. *)
LEMMA BucketOfAttempt ==
    ASSUME TypeOK, NEW r \in Requests, Waiting(r)
    PROVE  /\ attempt[r].client \in Clients
           /\ attempt[r].now \in Nat /\ attempt[r].now <= clock
           /\ Limits(Live(r), clock)
           /\ Bucket(Live(r), attempt[r].client, attempt[r].now) \in Entry
           /\ Bucket(Live(r), attempt[r].client, attempt[r].now).tokens <= Burst
           /\ Bucket(Live(r), attempt[r].client, attempt[r].now).lastRefill <= clock
           /\ attempt[r].now
                < Bucket(Live(r), attempt[r].client, attempt[r].now).lastRefill + Refill
<1>1. /\ attempt[r].client \in Clients
      /\ attempt[r].now \in Nat /\ attempt[r].now <= clock
  BY DEF TypeOK, Waiting, Attempt, Idle
<1>2. Limits(Live(r), clock)
  BY LimitsAfterSweep DEF TypeOK, Limits, Buckets, Live
<1>3. clock \in Nat
  BY DEF TypeOK
<1> QED
  BY <1>1, <1>2, <1>3, BucketFacts DEF Limits

(* Every step keeps the types. *)
LEMMA TypeStep == TypeOK /\ [Next]_vars => TypeOK'
<1> SUFFICES ASSUME TypeOK, [Next]_vars PROVE TypeOK'
  OBVIOUS
<1>1. ASSUME NEW r \in Requests, NEW c \in Clients, Capture(r, c) PROVE TypeOK'
  BY <1>1 DEF TypeOK, Capture, Attempt, Idle
<1>2. ASSUME NEW r \in Requests, AllowVerifyAttempt(r) PROVE TypeOK'
  <2> DEFINE a == attempt[r]
             b == Bucket(Live(r), a.client, a.now)
  <2>1. Waiting(r)
    BY <1>2 DEF AllowVerifyAttempt, RefuseTableFull, RefuseEmpty, Admit
  <2>2. /\ a.client \in Clients /\ a.now \in Nat /\ a.now <= clock
        /\ Limits(Live(r), clock)
        /\ b \in Entry /\ b.tokens <= Burst /\ b.lastRefill <= clock
    BY <2>1, BucketOfAttempt
  <2> HIDE DEF b
  <2>3. /\ clock' = clock /\ clock \in Nat /\ resets' = resets /\ resets \in Nat
    BY <1>2 DEF TypeOK, AllowVerifyAttempt, RefuseTableFull, RefuseEmpty, Admit
  <2>4. /\ attempt' \in [Requests -> Attempt]
        /\ \A s \in Requests : attempt'[s] # Idle => attempt'[s].now <= clock
    <3>1. ASSUME NEW d \in Int, Refuse(r, d)
          PROVE  /\ attempt' \in [Requests -> Attempt]
                 /\ \A s \in Requests : attempt'[s] # Idle => attempt'[s].now <= clock
      <4>1. RetryAfterSeconds(d) \in Nat
        BY RetryAfterPositive
      <4> HIDE DEF RetryAfterSeconds
      <4> QED
        BY <2>2, <3>1, <4>1 DEF Refuse, TypeOK, Attempt
    <3>2. CASE RefuseTableFull(r)
      BY <3>1, <3>2, BucketAssumption DEF RefuseTableFull
    <3>3. CASE RefuseEmpty(r)
      <4>1. b.lastRefill + Refill - a.now \in Int
        BY <2>2, BucketAssumption DEF Entry
      <4>2. Refuse(r, b.lastRefill + Refill - a.now)
        BY <3>3 DEF RefuseEmpty, b
      <4> QED
        BY <3>1, <4>1, <4>2
    <3>4. CASE Admit(r)
      <4>1. attempt' = [attempt EXCEPT ![r].state = "admitted"]
        BY <3>4 DEF Admit
      <4> QED
        BY <2>1, <2>2, <4>1 DEF TypeOK, Attempt, Waiting, Idle
    <3> QED
      BY <1>2, <3>2, <3>3, <3>4 DEF AllowVerifyAttempt
  <2>5. Limits(verifyRateLimits', clock)
    <3>1. CASE verifyRateLimits' = Live(r)
      BY <2>2, <3>1
    <3>2. CASE Admit(r)
      <4>1. /\ verifyRateLimits' = Stored(Live(r), a.client, [b EXCEPT !.tokens = b.tokens - 1])
            /\ b.tokens > 0
        BY <3>2 DEF Admit, b
      <4>2. /\ [b EXCEPT !.tokens = b.tokens - 1] \in Entry
            /\ [b EXCEPT !.tokens = b.tokens - 1].tokens < Burst
            /\ [b EXCEPT !.tokens = b.tokens - 1].lastRefill <= clock
        BY <2>2, <4>1, BucketAssumption DEF Entry
      <4> DEFINE e == [b EXCEPT !.tokens = b.tokens - 1]
      <4>3. verifyRateLimits' = Stored(Live(r), a.client, e)
        BY <4>1
      <4> HIDE DEF e
      <4>4. /\ DOMAIN verifyRateLimits' = DOMAIN Live(r) \cup {a.client}
            /\ verifyRateLimits'[a.client] = e
            /\ \A d \in DOMAIN Live(r) :
                  d # a.client => verifyRateLimits'[d] = Live(r)[d]
        BY <4>3 DEF Stored
      <4> QED
        BY <2>2, <4>2, <4>4 DEF Limits, Buckets, e
    <3> QED
      BY <1>2, <3>1, <3>2 DEF AllowVerifyAttempt, RefuseTableFull, RefuseEmpty
  <2> QED
    BY <2>3, <2>4, <2>5 DEF TypeOK, Limits, Buckets
<1>3. CASE ResetVerifyRateLimits
  BY <1>3 DEF TypeOK, ResetVerifyRateLimits
<1>4. CASE Tick
  <2>1. clock \in Nat /\ clock' = clock + 1
    BY <1>4 DEF Tick, TypeOK
  <2>2. \A r \in Requests : attempt[r] # Idle => attempt[r].now \in Nat
    BY DEF TypeOK, Attempt
  <2> QED
    BY <1>4, <2>1, <2>2 DEF Tick, TypeOK, Entry
<1>5. ASSUME NEW r \in Requests, Return(r) PROVE TypeOK'
  BY <1>5 DEF TypeOK, Return, Attempt, Idle
<1>6. CASE UNCHANGED vars
  BY <1>6 DEF vars, TypeOK
<1> QED
  BY <1>1, <1>2, <1>3, <1>4, <1>5, <1>6 DEF Next

(* The variables of the limiter keep their types; every stored bucket has paid for
   an admission, so it is never full, and none was refilled in the future. *)
THEOREM TypeCorrect == Spec => []TypeOK
<1>1. Init => TypeOK
  BY BucketAssumption DEF Init, TypeOK, Attempt, Idle
<1> QED
  BY <1>1, TypeStep, PTL DEF Spec

-----------------------------------------------------------------------------
(* Every step keeps the map within its limit: only Admit adds a key, and only when
   the swept map has room. *)
LEMMA BoundStep == TypeOK /\ TableBounded /\ [Next]_vars => TableBounded'
<1> SUFFICES ASSUME TypeOK, TableBounded, [Next]_vars PROVE TableBounded'
  OBVIOUS
<1>1. ASSUME NEW r \in Requests
      PROVE  IsFiniteSet(DOMAIN Live(r)) /\ Cardinality(DOMAIN Live(r)) <= MaxEntries
  <2>1. DOMAIN Live(r) \subseteq DOMAIN verifyRateLimits
    BY UnexpiredFacts DEF Live
  <2>2. /\ IsFiniteSet(DOMAIN Live(r))
        /\ Cardinality(DOMAIN Live(r)) <= Cardinality(DOMAIN verifyRateLimits)
    BY <2>1, FS_Subset DEF TableBounded
  <2>3. /\ Cardinality(DOMAIN Live(r)) \in Nat
        /\ Cardinality(DOMAIN verifyRateLimits) \in Nat
    BY <2>2, FS_CardinalityType DEF TableBounded
  <2> QED
    BY <2>2, <2>3, TableAssumption DEF TableBounded
<1>2. ASSUME NEW r \in Requests, verifyRateLimits' = Live(r) PROVE TableBounded'
  BY <1>1, <1>2 DEF TableBounded
<1>3. ASSUME NEW r \in Requests, Admit(r) PROVE TableBounded'
  <2> DEFINE c == attempt[r].client
  <2>1. DOMAIN verifyRateLimits' = DOMAIN Live(r) \cup {c}
    BY <1>3, Zenon DEF Admit, Stored
  <2>2. /\ IsFiniteSet(DOMAIN Live(r)) /\ Cardinality(DOMAIN Live(r)) <= MaxEntries
        /\ Cardinality(DOMAIN Live(r)) \in Nat
    BY <1>1, FS_CardinalityType
  <2>3. CASE c \in DOMAIN Live(r)
    <3>1. DOMAIN verifyRateLimits' = DOMAIN Live(r)
      BY <2>1, <2>3
    <3> QED
      BY <2>2, <3>1 DEF TableBounded
  <2>4. CASE c \notin DOMAIN Live(r)
    <3>1. Cardinality(DOMAIN Live(r)) < MaxEntries
      BY <1>3, <2>2, <2>4, TableAssumption DEF Admit, TableFull
    <3>2. /\ IsFiniteSet(DOMAIN Live(r) \cup {c})
          /\ Cardinality(DOMAIN Live(r) \cup {c}) = Cardinality(DOMAIN Live(r)) + 1
      BY <2>2, <2>4, FS_AddElement
    <3> QED
      BY <2>1, <2>2, <3>1, <3>2, TableAssumption DEF TableBounded
  <2> QED
    BY <2>3, <2>4
<1>4. CASE ResetVerifyRateLimits
  BY <1>4, FS_EmptySet, TableAssumption DEF ResetVerifyRateLimits, TableBounded
<1>5. CASE UNCHANGED verifyRateLimits
  BY <1>5 DEF TableBounded
<1> QED
  BY <1>2, <1>3, <1>4, <1>5
  DEF Next, vars, Capture, AllowVerifyAttempt, RefuseTableFull, RefuseEmpty, Return, Tick

(* The map never holds more than MaxEntries buckets. *)
THEOREM MapIsBounded == Spec => []TableBounded
<1>1. Init => TableBounded
  BY FS_EmptySet, TableAssumption DEF Init, TableBounded
<1> QED
  BY <1>1, TypeCorrect, BoundStep, PTL DEF Spec

-----------------------------------------------------------------------------
(* The sweep of a request changes what no client will find. *)
LEMMA SweepIsNeutral ==
    ASSUME TypeOK, NEW now \in Nat, now <= clock, NEW c \in Clients,
           NEW t \in Nat, clock <= t
    PROVE  Available(Unexpired(verifyRateLimits, now), c, t)
             = Available(verifyRateLimits, c, t)
BY SweptAvailable DEF TypeOK

(* A decision changes the bucket of its own client only. *)
LEMMA DecisionIsLocal ==
    ASSUME TypeOK, NEW r \in Requests, AllowVerifyAttempt(r),
           NEW c \in Clients, c # attempt[r].client, NEW t \in Nat
    PROVE  Available(verifyRateLimits', c, t) = Available(Live(r), c, t)
<1>1. CASE verifyRateLimits' = Live(r)
  BY <1>1
<1>2. CASE Admit(r)
  <2>1. PICK e : verifyRateLimits' = Stored(Live(r), attempt[r].client, e)
    BY <1>2, Zenon DEF Admit
  <2>2. /\ c \in DOMAIN verifyRateLimits' <=> c \in DOMAIN Live(r)
        /\ c \in DOMAIN Live(r) => verifyRateLimits'[c] = Live(r)[c]
    BY <2>1 DEF Stored
  <2> QED
    BY <2>2 DEF Available
<1> QED
  BY <1>1, <1>2 DEF AllowVerifyAttempt, RefuseTableFull, RefuseEmpty

(* The outcome of Admit. *)
LEMMA AdmitAdmits ==
    ASSUME TypeOK, NEW r \in Requests, Admit(r)
    PROVE  attempt'[r].state = "admitted"
<1>1. attempt[r] \in [state : {"waiting", "admitted"}, client : Clients, now : Nat]
  BY DEF TypeOK, Admit, Waiting, Attempt, Idle
<1>2. attempt' = [attempt EXCEPT ![r].state = "admitted"]
  BY DEF Admit
<1>3. attempt'[r] = [attempt[r] EXCEPT !.state = "admitted"]
  BY <1>2 DEF TypeOK
<1> QED
  BY <1>1, <1>3

(* Deciding a request takes it out of the waiting state. *)
LEMMA DecisionDecides ==
    ASSUME TypeOK, NEW r \in Requests, AllowVerifyAttempt(r)
    PROVE  Decides(r)
<1>1. CASE Admit(r)
  BY <1>1, AdmitAdmits DEF Decides, Admit
<1>2. CASE RefuseTableFull(r) \/ RefuseEmpty(r)
  BY <1>2 DEF RefuseTableFull, RefuseEmpty, Refuse, Decides, Waiting, TypeOK
<1> QED
  BY <1>1, <1>2 DEF AllowVerifyAttempt

(* Only its own decision takes a request out of the waiting state. *)
LEMMA DeciderDecides ==
    ASSUME TypeOK, [Next]_vars, NEW r \in Requests, Decides(r)
    PROVE  AllowVerifyAttempt(r)
<1>1. ASSUME NEW s \in Requests, NEW c \in Clients, Capture(s, c) PROVE FALSE
  BY <1>1 DEF Capture, Decides, Waiting, TypeOK
<1>2. ASSUME NEW s \in Requests, AllowVerifyAttempt(s) PROVE s = r
  BY <1>2 DEF AllowVerifyAttempt, RefuseTableFull, RefuseEmpty, Admit, Refuse, Decides,
              Waiting, TypeOK
<1>3. ~ResetVerifyRateLimits /\ ~Tick /\ ~UNCHANGED vars
  BY DEF ResetVerifyRateLimits, Tick, Decides, Waiting, vars
<1>4. ASSUME NEW s \in Requests, Return(s) PROVE FALSE
  BY <1>4 DEF Return, Decides, Waiting, TypeOK
<1> QED
  BY <1>1, <1>2, <1>3, <1>4 DEF Next

(* Clients do not disturb each other. *)
LEMMA IndependenceStep == TypeOK /\ [Next]_vars => [IndependentStep]_vars
<1> SUFFICES ASSUME TypeOK, Next, resets' = resets,
                    NEW c \in Clients, NEW t \in clock .. Horizon,
                    ~ \E r \in Requests : Decides(r) /\ attempt[r].client = c
             PROVE  Available(verifyRateLimits', c, t) = Available(verifyRateLimits, c, t)
  BY Zenon DEF IndependentStep
<1>1. t \in Nat /\ clock <= t
  BY TimeAssumption DEF TypeOK
<1>2. CASE UNCHANGED verifyRateLimits
  BY <1>2
<1>3. ASSUME NEW r \in Requests, AllowVerifyAttempt(r)
      PROVE  Available(verifyRateLimits', c, t) = Available(verifyRateLimits, c, t)
  <2>1. c # attempt[r].client
    BY <1>3, DecisionDecides
  <2>2. attempt[r].now \in Nat /\ attempt[r].now <= clock
    BY <1>3, BucketOfAttempt DEF AllowVerifyAttempt, RefuseTableFull, RefuseEmpty, Admit
  <2>3. Available(verifyRateLimits', c, t) = Available(Live(r), c, t)
    BY <1>1, <1>3, <2>1, DecisionIsLocal
  <2>4. Available(Live(r), c, t) = Available(verifyRateLimits, c, t)
    BY <1>1, <2>2, SweepIsNeutral DEF Live
  <2> QED
    BY <2>3, <2>4
<1>4. ~ResetVerifyRateLimits
  BY DEF ResetVerifyRateLimits, TypeOK
<1> QED
  BY <1>2, <1>3, <1>4 DEF Next, Capture, Return, Tick

(* A client's tokens depend on its own attempts only: no step of another client,
   the sweep it performs included, gives or takes one. *)
THEOREM Independence == Spec => ClientsIndependent
BY TypeCorrect, IndependenceStep, PTL DEF Spec, ClientsIndependent

(* A refusal of a client with a live bucket means that the bucket is empty. *)
LEMMA SparingStepHolds == TypeOK /\ [Next]_vars => [SparingStep]_vars
<1> SUFFICES ASSUME TypeOK, Next, NEW r \in Requests, Decides(r),
                    attempt[r].client \in DOMAIN Live(r), attempt'[r].state = "refused"
             PROVE  Available(verifyRateLimits, attempt[r].client, attempt[r].now) = 0
  BY Zenon DEF SparingStep
<1>1. RefuseEmpty(r)
  <2>1. AllowVerifyAttempt(r)
    BY DeciderDecides
  <2>2. ~Admit(r)
    BY AdmitAdmits
  <2>3. ~RefuseTableFull(r)
    BY DEF RefuseTableFull, TableFull
  <2> QED
    BY <2>1, <2>2, <2>3 DEF AllowVerifyAttempt
<1>2. Bucket(Live(r), attempt[r].client, attempt[r].now).tokens = 0
  BY <1>1 DEF RefuseEmpty
<1> QED
  BY <1>2, UnexpiredFacts DEF Bucket, Available, Live

(* Pressure on the table never costs a client that has a live bucket an attempt. *)
THEOREM TablePressure == Spec => TablePressureSparesKnownClients
BY TypeCorrect, SparingStepHolds, PTL DEF Spec, TablePressureSparesKnownClients

-----------------------------------------------------------------------------
(* The limiter observed over time.                                          *)

(* Every step of the observed limiter is a step of the limiter. *)
LEMMA ObservedStep == [WNext]_wvars => [Next]_vars
BY DEF WNext, Next, wvars, AllowVerifyAttempt, ObserveAdmit, ObserveRefuseEmpty,
       ObserveReset

(* The observed limiter implements the limiter: the auxiliary variables forbid
   nothing and change nothing. *)
THEOREM ObservedLimiter == WSpec => Spec
<1>1. WInit => Init
  BY DEF WInit
<1> QED
  BY <1>1, ObservedStep, PTL DEF WSpec, Spec

THEOREM ObservedType == WSpec => []TypeOK
BY ObservedLimiter, TypeCorrect, PTL

-----------------------------------------------------------------------------
(* Retry-After.                                                             *)

(* The named instant is never before the bucket's next refill. *)
Promised ==
    \A c \in Clients : \A t \in retryAt[c] :
        /\ t \in Int
        /\ c \in DOMAIN verifyRateLimits => verifyRateLimits[c].lastRefill + Refill <= t

RetryType == retryAt \in [Clients -> SUBSET Int]

(* The sweep can only make a promise easier to keep. *)
LEMMA PromiseSurvivesSweep ==
    ASSUME Promised, NEW r \in Requests, NEW c \in Clients, NEW t \in retryAt[c],
           c \in DOMAIN Live(r)
    PROVE  /\ t \in Int
           /\ Live(r)[c] = verifyRateLimits[c]
           /\ Live(r)[c].lastRefill + Refill <= t
BY UnexpiredFacts DEF Promised, Live

(* An empty bucket is one that is in the map: a new one is full. *)
LEMMA EmptyIsLive ==
    ASSUME TypeOK, NEW r \in Requests, Waiting(r),
           Bucket(Live(r), attempt[r].client, attempt[r].now).tokens = 0
    PROVE  /\ attempt[r].client \in DOMAIN Live(r)
           /\ Bucket(Live(r), attempt[r].client, attempt[r].now)
                = Live(r)[attempt[r].client]
           /\ attempt[r].now - Live(r)[attempt[r].client].lastRefill < Refill
<1> DEFINE c == attempt[r].client
           now == attempt[r].now
<1>1. c \in Clients /\ now \in Nat /\ Limits(Live(r), clock)
  BY BucketOfAttempt
<1>2. CASE c \in DOMAIN Live(r)
  <2>1. Live(r)[c] \in Entry /\ Live(r)[c].tokens < Burst
    BY <1>1, <1>2 DEF Limits, Buckets
  <2>2. Bucket(Live(r), c, now) = Refilled(Live(r)[c], now)
    BY <1>2 DEF Bucket
  <2>3. Live(r)[c].tokens <= Burst
    BY <2>1, BucketAssumption DEF Entry
  <2>4. /\ Refilled(Live(r)[c], now).tokens = 0 => Refilled(Live(r)[c], now) = Live(r)[c]
        /\ now - Live(r)[c].lastRefill >= Refill => Refilled(Live(r)[c], now).tokens > 0
    BY <1>1, <2>1, <2>3, RefilledFacts
  <2> QED
    BY <1>1, <1>2, <2>1, <2>2, <2>4, BucketAssumption DEF Entry
<1>3. CASE c \notin DOMAIN Live(r)
  <2>1. Bucket(Live(r), c, now) = Refilled(Fresh(now), now)
    BY <1>3 DEF Bucket
  <2>2. Refilled(Fresh(now), now) = Fresh(now)
    BY <1>1, BucketAssumption DEF Refilled, Fresh
  <2> QED
    BY <2>1, <2>2, BucketAssumption DEF Fresh
<1> QED
  BY <1>2, <1>3

(* Every step keeps the promises. *)
LEMMA PromiseStep ==
    TypeOK /\ RetryType /\ Promised /\ [WNext]_wvars => RetryType' /\ Promised'
<1> SUFFICES ASSUME TypeOK, RetryType, Promised, [WNext]_wvars
             PROVE  RetryType' /\ Promised'
  OBVIOUS
<1>1. CASE UNCHANGED <<verifyRateLimits, retryAt>>
  BY <1>1 DEF RetryType, Promised
<1>2. ASSUME NEW r \in Requests, verifyRateLimits' = Live(r), UNCHANGED retryAt
      PROVE  RetryType' /\ Promised'
  BY <1>2, UnexpiredFacts DEF RetryType, Promised, Live
<1>3. ASSUME NEW r \in Requests, ObserveRefuseEmpty(r) PROVE RetryType' /\ Promised'
  <2> DEFINE c == attempt[r].client
             now == attempt[r].now
             b == Bucket(Live(r), c, now)
             d == b.lastRefill + Refill - now
             t == now + Second * attempt'[r].retryAfter
  <2>1. /\ Waiting(r) /\ b.tokens = 0 /\ verifyRateLimits' = Live(r) /\ Refuse(r, d)
        /\ retryAt' = [retryAt EXCEPT ![c] =
                          IF \E u \in retryAt[c] : u <= t THEN retryAt[c] ELSE {t}]
    BY <1>3 DEF ObserveRefuseEmpty, RefuseEmpty
  <2>2. c \in Clients /\ now \in Nat /\ b \in Entry /\ d \in Int
    BY <2>1, BucketOfAttempt, BucketAssumption DEF Entry
  <2>3. c \in DOMAIN Live(r) /\ b = Live(r)[c]
    BY <2>1, EmptyIsLive
  <2>4. attempt'[r].retryAfter = RetryAfterSeconds(d)
    BY <2>1 DEF Refuse, TypeOK
  <2> HIDE DEF b, c, now
  <2>5. t \in Int /\ b.lastRefill + Refill <= t
    <3>1. RetryAfterSeconds(d) \in Nat /\ d <= Second * RetryAfterSeconds(d)
      BY <2>2, RetryAfterPositive
    <3>2. Second * RetryAfterSeconds(d) \in Int
      BY <3>1, SecondAssumption
    <3> HIDE DEF RetryAfterSeconds
    <3> QED
      BY <2>2, <2>4, <3>1, <3>2, BucketAssumption DEF Entry
  <2> HIDE DEF t
  <2>6. \A u \in retryAt'[c] : u \in retryAt[c] \/ u = t
    BY <2>1, <2>2 DEF RetryType
  <2>7. \A e \in Clients \ {c} : retryAt'[e] = retryAt[e]
    BY <2>1, <2>2 DEF RetryType
  <2>8. ASSUME NEW e \in Clients, NEW u \in retryAt'[e]
        PROVE  /\ u \in Int
               /\ e \in DOMAIN Live(r) => Live(r)[e].lastRefill + Refill <= u
    <3>1. CASE u \in retryAt[e]
      BY <3>1, PromiseSurvivesSweep DEF Promised
    <3>2. CASE e = c /\ u = t
      BY <2>3, <2>5, <3>2
    <3> QED
      BY <2>6, <2>7, <3>1, <3>2
  <2>9. RetryType'
    BY <2>1, <2>2, <2>5 DEF RetryType
  <2> QED
    BY <2>1, <2>8, <2>9 DEF Promised
<1>4. ASSUME NEW r \in Requests, ObserveAdmit(r) PROVE RetryType' /\ Promised'
  <2> DEFINE c == attempt[r].client
  <2>1. /\ Waiting(r) /\ retryAt' = [retryAt EXCEPT ![c] = {}]
        /\ \E e : verifyRateLimits' = Stored(Live(r), c, e)
    BY <1>4, Zenon DEF ObserveAdmit, Admit
  <2>2. c \in Clients
    BY <2>1, BucketOfAttempt
  <2>3. /\ retryAt'[c] = {}
        /\ \A e \in Clients \ {c} : retryAt'[e] = retryAt[e]
    BY <2>1, <2>2 DEF RetryType
  <2>4. \A e \in DOMAIN verifyRateLimits' \ {c} :
            e \in DOMAIN Live(r) /\ verifyRateLimits'[e] = Live(r)[e]
    BY <2>1 DEF Stored
  <2>5. RetryType'
    BY <2>1 DEF RetryType
  <2> HIDE DEF c
  <2> QED
    BY <2>3, <2>4, <2>5, PromiseSurvivesSweep DEF Promised
<1>5. CASE ObserveReset
  BY <1>5 DEF ObserveReset, ResetVerifyRateLimits, RetryType, Promised
<1> QED
  BY <1>1, <1>2, <1>3, <1>4, <1>5
  DEF WNext, Capture, RefuseTableFull, Return, Tick, aux, wvars, vars

(* A request that comes at the named instant finds a token. *)
LEMMA PromiseKept == TypeOK /\ Promised /\ [WNext]_wvars => [RetryStep]_wvars
<1> SUFFICES ASSUME TypeOK, Promised, WNext, NEW r \in Requests, Decides(r),
                    NEW t \in retryAt[attempt[r].client], attempt[r].now >= t,
                    ~TableFull(Live(r), attempt[r].client)
             PROVE  attempt'[r].state = "admitted"
  BY Zenon DEF RetryStep
<1>1. AllowVerifyAttempt(r)
  BY ObservedStep, DeciderDecides
<1>2. ~RefuseTableFull(r)
  BY DEF RefuseTableFull
<1>3. ASSUME RefuseEmpty(r) PROVE FALSE
  <2> DEFINE c == attempt[r].client
             now == attempt[r].now
  <2>1. /\ Waiting(r)
        /\ Bucket(Live(r), c, now).tokens = 0
    BY <1>3 DEF RefuseEmpty
  <2>2. c \in DOMAIN Live(r) /\ now - Live(r)[c].lastRefill < Refill
    BY <2>1, EmptyIsLive
  <2>3. c \in Clients /\ now \in Nat /\ Live(r)[c] \in Entry
    BY <2>1, <2>2, BucketOfAttempt DEF Limits, Buckets
  <2>4. t \in Int /\ Live(r)[c].lastRefill + Refill <= t
    BY <2>2, <2>3, PromiseSurvivesSweep
  <2> QED
    BY <2>2, <2>3, <2>4, BucketAssumption DEF Entry
<1> QED
  BY <1>1, <1>2, <1>3, AdmitAdmits DEF AllowVerifyAttempt

(* Retry-After is honest. *)
THEOREM RetryAfterIsHonest == WSpec => RetryAfterHonest
<1>1. WInit => RetryType /\ Promised
  BY DEF WInit, RetryType, Promised
<1> QED
  BY <1>1, ObservedType, PromiseStep, PromiseKept, PTL DEF WSpec, RetryAfterHonest

-----------------------------------------------------------------------------
(* The rate.                                                                *)

ObserverType ==
    /\ winStart \in Nat
    /\ count \in [Clients -> Nat]
    /\ fresh \in [Clients -> Nat]

(* An attempt is decided within MaxDelay of its reading of the clock. *)
Prompt == \A r \in Requests : Waiting(r) => clock <= attempt[r].now + MaxDelay

(* The earliest lastRefill that a decision in the window can leave behind. *)
Base == winStart - MaxDelay - Refill + 1

(* What overtaking attempts and Cleanup added. *)
Extra(c) == MaxDelay * fresh[c] + Refill * Burst * resets

(* The account of a client: every token it got or still has was in the first full
   bucket or is paid for by time since Base.  Time counts up to lastRefill while
   the bucket exists and up to the clock once it was deleted: it was deleted after
   a whole lifetime, the time it takes to pay for the next full bucket. *)
Account(c) ==
    \/ count[c] = 0
    \/ /\ c \in DOMAIN verifyRateLimits
       /\ Base <= verifyRateLimits[c].lastRefill
       /\ Refill * count[c] + Refill * verifyRateLimits[c].tokens
            <= Refill * Burst + (verifyRateLimits[c].lastRefill - Base) + Extra(c)
    \/ /\ c \notin DOMAIN verifyRateLimits
       /\ Refill * count[c] <= clock - Base + Extra(c)

Accounts == \A c \in Clients : Account(c)

NotYet == clock < winStart => \A c \in Clients : count[c] = 0

WindowInv == ObserverType /\ Prompt /\ NotYet /\ Accounts

LEMMA ExtraType ==
    ASSUME TypeOK, ObserverType, NEW c \in Clients
    PROVE  /\ Extra(c) \in Nat /\ Base \in Int
           /\ Refill * count[c] \in Nat /\ Refill * Burst \in Nat
           /\ MaxDelay * fresh[c] \in Nat /\ Refill * Burst * resets \in Nat
<1>1. /\ fresh[c] \in Nat /\ count[c] \in Nat /\ resets \in Nat /\ winStart \in Nat
  BY DEF TypeOK, ObserverType
<1>2. MaxDelay * fresh[c] \in Nat /\ Refill * count[c] \in Nat /\ Refill * Burst \in Nat
  BY <1>1, TimeAssumption, BucketAssumption
<1>3. (Refill * Burst) * resets \in Nat
  BY <1>1, <1>2
<1> QED
  BY <1>1, <1>2, <1>3, TimeAssumption, BucketAssumption DEF Extra, Base

(* The account of c, with the map as request r finds it after its sweep. *)
SweptAccount(r, c) ==
    \/ count[c] = 0
    \/ /\ c \in DOMAIN Live(r)
       /\ Base <= Live(r)[c].lastRefill
       /\ Refill * count[c] + Refill * Live(r)[c].tokens
            <= Refill * Burst + (Live(r)[c].lastRefill - Base) + Extra(c)
    \/ /\ c \notin DOMAIN Live(r)
       /\ Refill * count[c] <= clock - Base + Extra(c)

(* A deleted bucket had not been refilled for a lifetime: that time pays for it. *)
LEMMA SweepSettles ==
    ASSUME TypeOK, ObserverType, NEW r \in Requests, Waiting(r),
           NEW c \in Clients, Account(c)
    PROVE  SweptAccount(r, c)
<1> DEFINE now == attempt[r].now
           e == verifyRateLimits[c]
<1>1. now \in Nat /\ now <= clock /\ clock \in Nat
  BY BucketOfAttempt DEF TypeOK
<1>2. CASE count[c] = 0 \/ c \notin DOMAIN verifyRateLimits \/ c \in DOMAIN Live(r)
  BY <1>2, UnexpiredFacts DEF Account, SweptAccount, Live
<1>3. CASE count[c] # 0 /\ c \in DOMAIN verifyRateLimits /\ c \notin DOMAIN Live(r)
  <2>1. e \in Entry
    BY <1>3 DEF TypeOK
  <2>2. ~(now - e.lastRefill < Lifetime)
    BY <1>3, UnexpiredFacts DEF Live
  <2>3. Refill * count[c] + Refill * e.tokens
          <= Refill * Burst + (e.lastRefill - Base) + Extra(c)
    BY <1>3 DEF Account
  <2>4. Refill * e.tokens \in Nat /\ Burst * Refill = Refill * Burst
    BY <2>1, BucketAssumption DEF Entry
  <2>5. Refill * count[c] <= clock - Base + Extra(c)
    <3> HIDE DEF e, now
    <3> QED
      BY <1>1, <2>1, <2>2, <2>3, <2>4, ExtraType DEF Lifetime, Entry
  <2> QED
    BY <1>3, <2>5 DEF SweptAccount
<1> QED
  BY <1>2, <1>3

(* The bucket that an admission in the window leaves behind, before its token is
   taken, is paid for. *)
LEMMA AdmissionIsPaid ==
    ASSUME TypeOK, ObserverType, Prompt, InWindow, NEW r \in Requests, Waiting(r),
           SweptAccount(r, attempt[r].client)
    PROVE  LET c == attempt[r].client
               b == Bucket(Live(r), c, attempt[r].now)
           IN  /\ Base <= b.lastRefill
               /\ Refill * count[c] + Refill * b.tokens
                    <= Refill * Burst + (b.lastRefill - Base) + Extra(c)
                       + (IF c \in DOMAIN Live(r) THEN 0 ELSE MaxDelay)
<1> DEFINE c == attempt[r].client
           now == attempt[r].now
           b == Bucket(Live(r), c, now)
<1>1. /\ c \in Clients /\ now \in Nat /\ Limits(Live(r), clock)
      /\ b \in Entry /\ b.tokens <= Burst /\ now < b.lastRefill + Refill
  BY BucketOfAttempt
<1>2. clock \in Nat /\ winStart \in Nat /\ winStart <= clock /\ clock <= now + MaxDelay
  BY DEF TypeOK, ObserverType, InWindow, Prompt
<1>3. Base <= b.lastRefill
  <2> HIDE DEF b, now
  <2> QED
    BY <1>1, <1>2, TimeAssumption, BucketAssumption DEF Base, Entry
<1>4. /\ Extra(c) \in Nat /\ Base \in Int /\ Refill * count[c] \in Nat
      /\ Refill * Burst \in Nat
  BY <1>1, ExtraType
<1>5. Refill * b.tokens \in Nat /\ Refill * b.tokens <= Refill * Burst
  <2> HIDE DEF b
  <2>1. b.tokens * Refill <= Burst * Refill
    BY <1>1, MorePeriods, BucketAssumption DEF Entry
  <2> QED
    BY <1>1, <2>1, BucketAssumption DEF Entry
<1>6. Refill * count[c] + Refill * b.tokens
        <= Refill * Burst + (b.lastRefill - Base) + Extra(c)
           + (IF c \in DOMAIN Live(r) THEN 0 ELSE MaxDelay)
  <2>1. CASE count[c] = 0
    <3>1. Refill * count[c] = 0
      BY <2>1, BucketAssumption
    <3> HIDE DEF b, c, now
    <3> QED
      BY <1>1, <1>3, <1>4, <1>5, <3>1, TimeAssumption DEF Entry
  <2>2. CASE count[c] # 0 /\ c \in DOMAIN Live(r)
    <3> DEFINE e == Live(r)[c]
    <3>1. e \in Entry /\ e.tokens < Burst
      BY <1>1, <2>2 DEF Limits, Buckets
    <3>2. b = Refilled(e, now)
      BY <2>2 DEF Bucket
    <3>3. Refill * b.tokens <= Refill * e.tokens + (b.lastRefill - e.lastRefill)
      <4>1. e.tokens <= Burst
        BY <3>1, BucketAssumption DEF Entry
      <4> QED
        BY <1>1, <3>1, <3>2, <4>1, RefilledFacts
    <3>4. Refill * count[c] + Refill * e.tokens
            <= Refill * Burst + (e.lastRefill - Base) + Extra(c)
      BY <2>2 DEF SweptAccount
    <3>5. Refill * e.tokens \in Nat
      BY <3>1, BucketAssumption DEF Entry
    <3> HIDE DEF b, c, now, e
    <3> QED
      BY <1>1, <1>4, <1>5, <2>2, <3>1, <3>3, <3>4, <3>5 DEF Entry
  <2>3. CASE count[c] # 0 /\ c \notin DOMAIN Live(r)
    <3>1. b = Refilled(Fresh(now), now)
      BY <2>3 DEF Bucket
    <3>2. b.lastRefill = now
      BY <1>1, <3>1, BucketAssumption DEF Refilled, Fresh
    <3>3. Refill * count[c] <= clock - Base + Extra(c)
      BY <2>3 DEF SweptAccount
    <3> HIDE DEF b, c, now
    <3> QED
      BY <1>1, <1>2, <1>4, <1>5, <2>3, <3>2, <3>3, TimeAssumption DEF Entry
  <2> QED
    BY <2>1, <2>2, <2>3
<1> QED
  BY <1>3, <1>6

(* A step that only sweeps, or only lets time pass, keeps an account. *)
LEMMA SweptKeeps ==
    ASSUME TypeOK, ObserverType, NEW r \in Requests, NEW c \in Clients,
           SweptAccount(r, c), UNCHANGED <<clock, resets, winStart>>,
           count'[c] = count[c], fresh'[c] = fresh[c],
           c \in DOMAIN verifyRateLimits' <=> c \in DOMAIN Live(r),
           c \in DOMAIN Live(r) => verifyRateLimits'[c] = Live(r)[c]
    PROVE  Account(c)'
<1>1. Extra(c)' = Extra(c) /\ Base' = Base
  BY DEF Extra, Base
<1> QED
  BY <1>1 DEF SweptAccount, Account

(* An admission in the window keeps its client's account. *)
LEMMA AdmissionKeeps ==
    ASSUME TypeOK, ObserverType, Prompt, InWindow, NEW r \in Requests, ObserveAdmit(r),
           NEW c \in Clients, c = attempt[r].client, SweptAccount(r, c)
    PROVE  Account(c)'
<1> DEFINE b == Bucket(Live(r), c, attempt[r].now)
           more == IF c \in DOMAIN Live(r) THEN 0 ELSE MaxDelay
<1>1. /\ Waiting(r) /\ b.tokens > 0
      /\ verifyRateLimits' = Stored(Live(r), c, [b EXCEPT !.tokens = b.tokens - 1])
      /\ UNCHANGED <<clock, resets, winStart>>
  BY DEF ObserveAdmit, Admit
<1>2. b \in Entry
  BY <1>1, BucketOfAttempt
<1>3. /\ Base <= b.lastRefill
      /\ Refill * count[c] + Refill * b.tokens
           <= Refill * Burst + (b.lastRefill - Base) + Extra(c) + more
  BY <1>1, AdmissionIsPaid
<1>4. count'[c] = count[c] + 1
  BY <1>2 DEF ObserveAdmit, Counted, ObserverType
<1>5. fresh'[c] = IF c \in DOMAIN Live(r) THEN fresh[c] ELSE fresh[c] + 1
  BY <1>2 DEF ObserveAdmit, Counted, ObserverType
<1>6. /\ c \in DOMAIN verifyRateLimits'
      /\ verifyRateLimits'[c].lastRefill = b.lastRefill
      /\ verifyRateLimits'[c].tokens = b.tokens - 1
  <2> HIDE DEF b
  <2> QED
    BY <1>1, <1>2 DEF Stored, Entry
<1>7. Base' = Base
  BY <1>1 DEF Base
<1>8. Extra(c)' = Extra(c) + more
  <2>1. fresh[c] \in Nat /\ MaxDelay \in Nat
    BY <1>2, TimeAssumption DEF ObserverType
  <2>2. MaxDelay * fresh'[c] = MaxDelay * fresh[c] + more
    BY <1>5, <2>1
  <2>3. /\ MaxDelay * fresh[c] \in Nat /\ more \in Nat /\ Refill * Burst * resets \in Nat
    BY <1>2, <2>1, ExtraType
  <2> HIDE DEF more
  <2>4. Extra(c)' = MaxDelay * fresh'[c] + Refill * Burst * resets
    BY <1>1 DEF Extra
  <2> QED
    BY <2>2, <2>3, <2>4 DEF Extra
<1>9. Refill * (count[c] + 1) + Refill * (b.tokens - 1)
        = Refill * count[c] + Refill * b.tokens
  <2>1. count[c] \in Int /\ b.tokens \in Int /\ Refill \in Int
    BY <1>2, BucketAssumption DEF ObserverType, Entry
  <2> HIDE DEF b
  <2> QED
    BY <2>1
<1>10. /\ more \in Nat /\ Extra(c) \in Nat /\ Base \in Int /\ Refill * Burst \in Nat
       /\ b.lastRefill \in Nat
  BY <1>2, ExtraType, TimeAssumption DEF Entry
<1> HIDE DEF b, more
<1>11. Refill * count'[c] + Refill * verifyRateLimits'[c].tokens
         <= Refill * Burst + (verifyRateLimits'[c].lastRefill - Base') + Extra(c)'
  BY <1>3, <1>4, <1>6, <1>7, <1>8, <1>9, <1>10
<1> QED
  BY <1>3, <1>6, <1>7, <1>11 DEF Account

(* Every step keeps the accounts of all clients. *)
LEMMA WindowStep == TypeOK /\ WindowInv /\ [WNext]_wvars => WindowInv'
<1> SUFFICES ASSUME TypeOK, WindowInv, [WNext]_wvars PROVE WindowInv'
  OBVIOUS
<1> USE DEF WindowInv
<1>1. ObserverType' /\ winStart' = winStart
  <2>1. ASSUME NEW r \in Requests, ObserveAdmit(r) PROVE ObserverType' /\ winStart' = winStart
    <3>1. attempt[r].client \in Clients
      BY <2>1, BucketOfAttempt DEF ObserveAdmit, Admit
    <3>2. \A f \in [Clients -> Nat] : Counted(f, attempt[r].client) \in [Clients -> Nat]
      BY <3>1 DEF Counted
    <3> QED
      BY <2>1, <3>2 DEF ObserverType, ObserveAdmit
  <2>2. CASE UNCHANGED <<winStart, count, fresh>>
    BY <2>2 DEF ObserverType
  <2> QED
    BY <2>1, <2>2 DEF WNext, ObserveRefuseEmpty, ObserveReset, aux, wvars
<1>2. Prompt'
  <2>1. ASSUME NEW r \in Requests, NEW c \in Clients, Capture(r, c) PROVE Prompt'
    BY <2>1, TimeAssumption DEF Capture, Prompt, Waiting, TypeOK
  <2>2. ASSUME NEW r \in Requests, AllowVerifyAttempt(r) PROVE Prompt'
    <3>1. ~Waiting(r)'
      BY <2>2, DecisionDecides DEF Decides, Waiting
    <3>2. \A s \in Requests \ {r} : attempt'[s] = attempt[s]
      BY <2>2 DEF AllowVerifyAttempt, RefuseTableFull, RefuseEmpty, Admit, Refuse, TypeOK
    <3>3. clock' = clock
      BY <2>2 DEF AllowVerifyAttempt, RefuseTableFull, RefuseEmpty, Admit
    <3> QED
      BY <3>1, <3>2, <3>3 DEF Prompt, Waiting
  <2>3. CASE Tick
    <3>1. \A r \in Requests : Waiting(r) => attempt[r].now \in Nat
      BY DEF TypeOK, Attempt, Waiting, Idle
    <3> QED
      BY <2>3, <3>1, TimeAssumption DEF Tick, Prompt, Waiting, TypeOK
  <2>4. CASE UNCHANGED <<clock, attempt>>
    BY <2>4 DEF Prompt, Waiting
  <2>5. ASSUME NEW r \in Requests, Return(r) PROVE Prompt'
    <3>1. ~Waiting(r)' /\ clock' = clock
      BY <2>5 DEF Return, Waiting, Idle, TypeOK
    <3>2. \A s \in Requests \ {r} : attempt'[s] = attempt[s]
      BY <2>5 DEF Return, TypeOK
    <3> QED
      BY <3>1, <3>2 DEF Prompt, Waiting
  <2> QED
    BY <2>1, <2>2, <2>3, <2>4, <2>5, ObservedStep DEF Next, ResetVerifyRateLimits, vars
<1>3. NotYet'
  <2>1. CASE clock' = clock /\ ~InWindow
    BY <2>1 DEF NotYet, InWindow, ObserverType, TypeOK, WNext, ObserveAdmit,
                ObserveRefuseEmpty, ObserveReset, Counted, aux, wvars
  <2>2. CASE clock' = clock /\ InWindow
    BY <1>1, <2>2 DEF NotYet, InWindow, ObserverType, TypeOK
  <2>3. CASE Tick /\ UNCHANGED aux
    BY <2>3 DEF Tick, NotYet, ObserverType, TypeOK, aux
  <2> QED
    BY <2>1, <2>2, <2>3
    DEF WNext, wvars, vars, Capture, RefuseTableFull, ObserveRefuseEmpty, RefuseEmpty,
        Return, ObserveAdmit, Admit, ObserveReset, ResetVerifyRateLimits
<1>4. Accounts'
  <2> SUFFICES ASSUME NEW c \in Clients PROVE Account(c)'
    BY DEF Accounts
  <2>1. Account(c)
    BY DEF Accounts
  <2>2. ASSUME NEW r \in Requests, Waiting(r) PROVE SweptAccount(r, c)
    BY <2>1, <2>2, SweepSettles
  <2>3. CASE UNCHANGED <<clock, verifyRateLimits, resets, winStart, count, fresh>>
    BY <2>1, <2>3 DEF Account, Extra, Base
  <2>4. ASSUME NEW r \in Requests, Waiting(r), verifyRateLimits' = Live(r),
               UNCHANGED <<clock, resets, winStart, count, fresh>>
        PROVE  Account(c)'
    BY <2>2, <2>4, SweptKeeps
  <2>5. ASSUME NEW r \in Requests, ObserveAdmit(r) PROVE Account(c)'
    <3>1. Waiting(r) /\ SweptAccount(r, c) /\ UNCHANGED <<clock, resets, winStart>>
      BY <2>2, <2>5 DEF ObserveAdmit, Admit
    <3>2. CASE ~InWindow
      <4>1. count[c] = 0 /\ count' = count
        BY <2>5, <3>2 DEF ObserveAdmit, Counted, NotYet, InWindow, ObserverType, TypeOK
      <4> QED
        BY <4>1 DEF Account
    <3>3. CASE InWindow /\ c = attempt[r].client
      BY <2>5, <3>1, <3>3, AdmissionKeeps
    <3>4. CASE InWindow /\ c # attempt[r].client
      <4>1. PICK e : verifyRateLimits' = Stored(Live(r), attempt[r].client, e)
        BY <2>5, Zenon DEF ObserveAdmit, Admit
      <4>2. /\ c \in DOMAIN verifyRateLimits' <=> c \in DOMAIN Live(r)
            /\ c \in DOMAIN Live(r) => verifyRateLimits'[c] = Live(r)[c]
        BY <3>4, <4>1 DEF Stored
      <4>3. count'[c] = count[c] /\ fresh'[c] = fresh[c]
        BY <2>5, <3>4 DEF ObserveAdmit, Counted, ObserverType
      <4> QED
        BY <3>1, <4>2, <4>3, SweptKeeps
    <3> QED
      BY <3>2, <3>3, <3>4
  <2>6. CASE ObserveReset
    <3>1. /\ UNCHANGED <<clock, winStart, count, fresh>> /\ resets' = resets + 1
          /\ c \notin DOMAIN verifyRateLimits'
      BY <2>6 DEF ObserveReset, ResetVerifyRateLimits
    <3>2. Base' = Base /\ Extra(c)' = Extra(c) + Refill * Burst
      <4>1. Refill * Burst * (resets + 1) = Refill * Burst * resets + Refill * Burst
        BY BucketAssumption DEF TypeOK
      <4> QED
        BY <3>1, <4>1, ExtraType DEF Base, Extra
    <3>3. Refill * count[c] <= clock - Base + Extra(c) + Refill * Burst \/ count[c] = 0
      <4>1. CASE c \in DOMAIN verifyRateLimits /\ count[c] # 0
        <5>1. /\ verifyRateLimits[c].lastRefill \in Nat
              /\ verifyRateLimits[c].lastRefill <= clock /\ clock \in Nat
              /\ verifyRateLimits[c].tokens \in Nat
          BY <4>1 DEF TypeOK, Entry
        <5>2. Refill * verifyRateLimits[c].tokens \in Nat
          BY <5>1, BucketAssumption
        <5>3. Refill * count[c] + Refill * verifyRateLimits[c].tokens
                <= Refill * Burst + (verifyRateLimits[c].lastRefill - Base) + Extra(c)
          BY <2>1, <4>1 DEF Account
        <5> QED
          BY <5>1, <5>2, <5>3, ExtraType
      <4>2. CASE c \notin DOMAIN verifyRateLimits
        BY <2>1, <4>2, ExtraType DEF Account, TypeOK
      <4> QED
        BY <4>1, <4>2
    <3> QED
      BY <3>1, <3>2, <3>3, ExtraType DEF Account, TypeOK
  <2>7. CASE Tick /\ UNCHANGED aux
    <3>1. /\ UNCHANGED <<verifyRateLimits, resets, winStart, count, fresh>>
          /\ clock \in Nat /\ clock' = clock + 1
      BY <2>7 DEF Tick, aux, TypeOK
    <3>2. Base' = Base /\ Extra(c)' = Extra(c)
      BY <3>1 DEF Base, Extra
    <3> QED
      BY <2>1, <3>1, <3>2, ExtraType DEF Account
  <2> QED
    BY <2>3, <2>4, <2>5, <2>6, <2>7
    DEF WNext, wvars, vars, aux, Capture, RefuseTableFull, ObserveRefuseEmpty, RefuseEmpty,
        Return
<1> QED
  BY <1>1, <1>2, <1>3, <1>4

(* The accounts bound what a client got. *)
LEMMA AccountsBound == TypeOK /\ WindowInv => WindowBounded
<1> SUFFICES ASSUME TypeOK, WindowInv, InWindow, NEW c \in Clients
             PROVE  Refill * count[c] <= Refill * Burst * (1 + resets)
                                         + (clock - winStart) + (Refill - 1)
                                         + MaxDelay * (1 + fresh[c])
  BY DEF WindowBounded
<1>1. /\ clock \in Nat /\ winStart \in Nat /\ winStart <= clock /\ resets \in Nat
      /\ fresh[c] \in Nat /\ count[c] \in Nat
  BY DEF TypeOK, WindowInv, ObserverType, InWindow
<1>2. /\ Refill * Burst * (1 + resets) = Refill * Burst + Refill * Burst * resets
      /\ MaxDelay * (1 + fresh[c]) = MaxDelay + MaxDelay * fresh[c]
  BY <1>1, BucketAssumption, TimeAssumption
<1>3. /\ Extra(c) = MaxDelay * fresh[c] + Refill * Burst * resets
      /\ Base = winStart - MaxDelay - Refill + 1
      /\ Refill * count[c] \in Nat /\ Refill * Burst \in Nat
      /\ MaxDelay * fresh[c] \in Nat /\ Refill * Burst * resets \in Nat
  BY ExtraType DEF Extra, Base, WindowInv
<1>4. Account(c)
  BY DEF WindowInv, Accounts
<1>5. CASE count[c] = 0
  <2> DEFINE full  == Refill * Burst
             reset == Refill * Burst * resets
             late  == MaxDelay * fresh[c]
  <2>1. Refill * count[c] = 0
    BY <1>5, BucketAssumption
  <2>2. full \in Nat /\ reset \in Nat /\ late \in Nat
    BY <1>3
  <2>3. Refill * Burst * (1 + resets) = full + reset /\ MaxDelay * (1 + fresh[c]) = MaxDelay + late
    BY <1>2
  <2> HIDE DEF full, reset, late
  <2> QED
    BY <1>1, <2>1, <2>2, <2>3, BucketAssumption, TimeAssumption
<1>6. CASE count[c] # 0 /\ c \in DOMAIN verifyRateLimits
  <2>1. /\ verifyRateLimits[c].lastRefill \in Nat
        /\ verifyRateLimits[c].lastRefill <= clock
        /\ verifyRateLimits[c].tokens \in Nat
    BY <1>6 DEF TypeOK, Entry
  <2>2. Refill * verifyRateLimits[c].tokens \in Nat
    BY <2>1, BucketAssumption
  <2> QED
    BY <1>1, <1>2, <1>3, <1>4, <1>6, <2>1, <2>2, BucketAssumption, TimeAssumption
    DEF Account
<1>7. CASE count[c] # 0 /\ c \notin DOMAIN verifyRateLimits
  BY <1>1, <1>2, <1>3, <1>4, <1>7, BucketAssumption, TimeAssumption DEF Account
<1> QED
  BY <1>5, <1>6, <1>7

(* The rate the limiter enforces, whatever its constants, the number of clients and
   the order in which attempts overtake each other. *)
THEOREM RateIsBounded == WSpec => []WindowBounded
<1>1. WInit => WindowInv
  BY TimeAssumption DEF WInit, Init, WindowInv, ObserverType, Prompt, Waiting, Idle, NotYet,
                        Accounts, Account
<1> QED
  BY <1>1, ObservedType, WindowStep, AccountsBound, PTL DEF WSpec

=============================================================================

-------------------------- MODULE TokenBucketsProofs --------------------------
(* Lemmas about the arithmetic of the limiter, for all values of its constants. *)
EXTENDS TokenBuckets, TLAPS

(* Whole periods in a span of time: quotient and product are what they should be. *)
LEMMA WholePeriods ==
    ASSUME NEW d \in Nat
    PROVE  /\ d \div Refill \in Nat
           /\ (d \div Refill) * Refill <= d
           /\ d < (d \div Refill) * Refill + Refill
BY BucketAssumption

(* Refill is a positive number: a product grows with its factor. *)
LEMMA MorePeriods ==
    ASSUME NEW m \in Nat, NEW n \in Nat, m <= n
    PROVE  m * Refill <= n * Refill
BY BucketAssumption

-----------------------------------------------------------------------------
(* The operators of allowVerifyAttempt.                                     *)

(* A refill yields a bucket, never more than full; it moves lastRefill forward by
   whole periods, to less than one period before now, and adds no more tokens than
   periods. *)
LEMMA RefilledFacts ==
    ASSUME NEW e \in Entry, e.tokens <= Burst, NEW now \in Nat
    PROVE  /\ Refilled(e, now) \in Entry
           /\ Refilled(e, now).tokens <= Burst
           /\ e.lastRefill <= Refilled(e, now).lastRefill
           /\ \/ Refilled(e, now).lastRefill <= now
              \/ Refilled(e, now).lastRefill = e.lastRefill
           /\ now < Refilled(e, now).lastRefill + Refill
           /\ Refilled(e, now).tokens = 0 => Refilled(e, now) = e
           /\ Refill * Refilled(e, now).tokens
                <= Refill * e.tokens + (Refilled(e, now).lastRefill - e.lastRefill)
           /\ now - e.lastRefill >= Refill => Refilled(e, now).tokens > 0
<1>1. CASE now - e.lastRefill >= Refill
  <2> DEFINE q == (now - e.lastRefill) \div Refill
  <2>1. now - e.lastRefill \in Nat
    BY <1>1, BucketAssumption DEF Entry
  <2>2. /\ q \in Nat
        /\ q * Refill <= now - e.lastRefill
        /\ now - e.lastRefill < q * Refill + Refill
    BY <2>1, WholePeriods
  <2>3. Refilled(e, now) = [tokens     |-> AtMostBurst(e.tokens + q),
                            lastRefill |-> e.lastRefill + q * Refill]
    BY <1>1 DEF Refilled
  <2> HIDE DEF q
  <2>4. q * Refill \in Nat /\ q > 0
    <3>1. q # 0
      BY <1>1, <2>1, <2>2, BucketAssumption
    <3> QED
      BY <2>2, <3>1, BucketAssumption
  <2>5. /\ AtMostBurst(e.tokens + q) \in Nat \ {0}
        /\ AtMostBurst(e.tokens + q) <= Burst
    BY <2>2, <2>4, BucketAssumption DEF AtMostBurst, Entry
  <2> DEFINE t == AtMostBurst(e.tokens + q)
             l == e.lastRefill + q * Refill
  <2>6. /\ t \in Nat \ {0} /\ t <= Burst
        /\ l \in Nat /\ e.lastRefill <= l /\ l <= now /\ now < l + Refill
    BY <2>2, <2>4, <2>5, BucketAssumption DEF Entry
  <2>7. Refill * t <= Refill * e.tokens + (l - e.lastRefill)
    <3>1. t \in Nat /\ t <= e.tokens + q /\ e.tokens \in Nat /\ e.lastRefill \in Nat
      BY <2>2, BucketAssumption DEF AtMostBurst, Entry
    <3>2. t * Refill <= (e.tokens + q) * Refill
      BY <2>2, <3>1, MorePeriods
    <3> QED
      BY <2>2, <3>1, <3>2, BucketAssumption
  <2>8. Refilled(e, now) = [tokens |-> t, lastRefill |-> l]
    BY <2>3
  <2> HIDE DEF t, l
  <2> QED
    BY <1>1, <2>6, <2>7, <2>8 DEF Entry
<1>2. CASE ~(now - e.lastRefill >= Refill)
  BY <1>2, BucketAssumption DEF Refilled, Entry
<1> QED
  BY <1>1, <1>2

(* The sweep only takes buckets away. *)
LEMMA UnexpiredFacts ==
    ASSUME NEW limits, NEW now
    PROVE  /\ DOMAIN Unexpired(limits, now) \subseteq DOMAIN limits
           /\ \A c \in DOMAIN Unexpired(limits, now) : Unexpired(limits, now)[c] = limits[c]
           /\ \A c \in DOMAIN limits :
                 c \in DOMAIN Unexpired(limits, now)
                    <=> now - limits[c].lastRefill < Lifetime
BY DEF Unexpired, Restrict

(* Retry-After is a positive number of seconds. *)
LEMMA RetryAfterPositive ==
    ASSUME NEW d \in Int
    PROVE  /\ RetryAfterSeconds(d) \in Nat \ {0}
           /\ d <= Second * RetryAfterSeconds(d)
BY SecondAssumption DEF RetryAfterSeconds

(* A bucket that the sweep may delete at now is full at every later instant. *)
LEMMA ExpiredIsFull ==
    ASSUME NEW e \in Entry, e.tokens < Burst, NEW now \in Nat, NEW t \in Nat, now <= t,
           ~(now - e.lastRefill < Lifetime)
    PROVE  Refilled(e, t).tokens = Burst
<1> DEFINE q == (t - e.lastRefill) \div Refill
<1>1. /\ t - e.lastRefill \in Nat
      /\ Burst * Refill <= t - e.lastRefill
      /\ Refill <= t - e.lastRefill
  BY BucketAssumption DEF Lifetime, Entry
<1>2. q \in Nat /\ t - e.lastRefill < q * Refill + Refill
  BY <1>1, WholePeriods
<1>3. Refilled(e, t).tokens = AtMostBurst(e.tokens + q)
  BY <1>1 DEF Refilled, Entry
<1> HIDE DEF q
<1>4. Burst <= q
  <2> SUFFICES ASSUME q + 1 <= Burst PROVE FALSE
    BY <1>2, BucketAssumption
  <2>1. (q + 1) * Refill <= Burst * Refill
    BY <1>2, MorePeriods, BucketAssumption
  <2> QED
    BY <1>1, <1>2, <2>1, BucketAssumption DEF Entry
<1> QED
  BY <1>2, <1>3, <1>4, BucketAssumption DEF AtMostBurst, Entry

(* The buckets in a map: each has paid for an admission and was refilled in the past. *)
Buckets(limits, now) ==
    \A c \in DOMAIN limits :
        /\ limits[c] \in Entry
        /\ limits[c].tokens < Burst
        /\ limits[c].lastRefill <= now

(* The sweep leaves buckets as they are. *)
LEMMA BucketsAfterSweep ==
    ASSUME NEW limits, NEW now, NEW time, Buckets(limits, time)
    PROVE  Buckets(Unexpired(limits, now), time)
BY UnexpiredFacts DEF Buckets

(* The bucket an attempt works on is a bucket, refilled up to now. *)
LEMMA BucketFacts ==
    ASSUME NEW limits, NEW now \in Nat, NEW time \in Nat, now <= time,
           Buckets(limits, time), NEW c
    PROVE  /\ Bucket(limits, c, now) \in Entry
           /\ Bucket(limits, c, now).tokens <= Burst
           /\ Bucket(limits, c, now).lastRefill <= time
           /\ now < Bucket(limits, c, now).lastRefill + Refill
<1> DEFINE e == IF c \in DOMAIN limits THEN limits[c] ELSE Fresh(now)
<1>1. e \in Entry /\ e.tokens <= Burst /\ e.lastRefill <= time
  BY BucketAssumption DEF Buckets, Fresh, Entry
<1>2. Bucket(limits, c, now) = Refilled(e, now)
  BY DEF Bucket
<1> HIDE DEF e
<1> QED
  <2>1. /\ Refilled(e, now) \in Entry
        /\ Refilled(e, now).tokens <= Burst
        /\ \/ Refilled(e, now).lastRefill <= now
           \/ Refilled(e, now).lastRefill = e.lastRefill
        /\ now < Refilled(e, now).lastRefill + Refill
    BY <1>1, RefilledFacts
  <2> QED
    BY <1>1, <1>2, <2>1 DEF Entry

(* The sweep of a request changes what no client will find, provided that every
   bucket in the map has paid for an admission. *)
LEMMA SweptAvailable ==
    ASSUME NEW limits, \A d \in DOMAIN limits : limits[d] \in Entry /\ limits[d].tokens < Burst,
           NEW now \in Nat, NEW t \in Nat, now <= t, NEW c
    PROVE  Available(Unexpired(limits, now), c, t) = Available(limits, c, t)
<1>1. CASE c \in DOMAIN Unexpired(limits, now) \/ c \notin DOMAIN limits
  BY <1>1, UnexpiredFacts DEF Available
<1>2. CASE c \in DOMAIN limits /\ c \notin DOMAIN Unexpired(limits, now)
  <2>1. ~(now - limits[c].lastRefill < Lifetime)
    BY <1>2, UnexpiredFacts
  <2>2. Refilled(limits[c], t).tokens = Burst
    BY <1>2, <2>1, ExpiredIsFull
  <2> QED
    BY <1>2, <2>2 DEF Available
<1> QED
  BY <1>1, <1>2

(* Storing a bucket changes what its own client finds, and no other. *)
LEMMA StoredIsLocal ==
    ASSUME NEW limits, NEW d, NEW e, NEW c, c # d, NEW t
    PROVE  Available(Stored(limits, d, e), c, t) = Available(limits, c, t)
BY DEF Available, Stored

(* No client ever finds more than a full bucket. *)
LEMMA AvailableAtMostBurst ==
    ASSUME NEW limits, \A d \in DOMAIN limits : limits[d] \in Entry /\ limits[d].tokens < Burst,
           NEW t \in Nat, NEW c
    PROVE  Available(limits, c, t) \in Nat /\ Available(limits, c, t) <= Burst
<1>1. CASE c \in DOMAIN limits
  <2>1. limits[c] \in Entry /\ limits[c].tokens <= Burst
    BY <1>1, BucketAssumption DEF Entry
  <2>2. Refilled(limits[c], t) \in Entry /\ Refilled(limits[c], t).tokens <= Burst
    BY <2>1, RefilledFacts
  <2> QED
    BY <1>1, <2>2 DEF Available, Entry
<1>2. CASE c \notin DOMAIN limits
  BY <1>2, BucketAssumption DEF Available
<1> QED
  BY <1>1, <1>2
=============================================================================

----------------------------- MODULE TokenBuckets -----------------------------
(***************************************************************************)
(* The arithmetic of the verify limiter: what allowVerifyAttempt            *)
(* (verification_handler.go) computes from the map verifyRateLimits, a      *)
(* function whose domain is the client addresses it holds, and the instant  *)
(* now that the attempt carries.  Instants and durations are in ticks.      *)
(***************************************************************************)
EXTENDS Integers, FiniteSets, Functions

CONSTANTS
    Burst,       \* verifyRateLimitBurst (15 in the code)
    Refill,      \* verifyRateLimitRefill in ticks (3 s in the code)
    MaxEntries,  \* maxVerifyRateLimitEntries (10000 in the code)
    Second       \* ticks of the clock in one second

ASSUME BucketAssumption == Burst \in Nat \ {0} /\ Refill \in Nat \ {0}
ASSUME TableAssumption  == MaxEntries \in Nat
ASSUME SecondAssumption == Second \in Nat \ {0}

Entry == [tokens : Nat, lastRefill : Nat]

LifetimeShort == (Burst - 1) * Refill   \* mutation: off by one
Lifetime == Burst * Refill          \* verifyRateLimitEntryLifetime

\* The sweep at the head of allowVerifyAttempt, at instant now.
Unexpired(limits, now) ==
    Restrict(limits, {c \in DOMAIN limits : now - limits[c].lastRefill < Lifetime})

Fresh(now) == [tokens |-> Burst, lastRefill |-> now]

AtMostBurst(n) == IF n < Burst THEN n ELSE Burst

\* Mutation: lastRefill stays where it was.
RefilledTwice(e, now) ==
    IF now - e.lastRefill >= Refill
    THEN [e EXCEPT !.tokens = AtMostBurst(e.tokens + (now - e.lastRefill) \div Refill)]
    ELSE e

\* Whole refill periods are credited, the remainder stays on the account.  An
\* instant before lastRefill (a request that was overtaken) credits nothing.
Refilled(e, now) ==
    LET refills == (now - e.lastRefill) \div Refill
    IN  IF now - e.lastRefill >= Refill
        THEN [tokens     |-> AtMostBurst(e.tokens + refills),
              lastRefill |-> e.lastRefill + refills * Refill]
        ELSE e

\* The bucket an attempt of client c at instant now works on.
Bucket(limits, c, now) ==
    Refilled(IF c \in DOMAIN limits THEN limits[c] ELSE Fresh(now), now)

\* Mutations: the limit is off by one, or strikes clients that have a bucket.
TableFullOffByOne(limits, c) ==
    c \notin DOMAIN limits /\ Cardinality(DOMAIN limits) > MaxEntries
TableFullForAll(limits, c) == Cardinality(DOMAIN limits) >= MaxEntries
TableFull(limits, c) ==
    c \notin DOMAIN limits /\ Cardinality(DOMAIN limits) >= MaxEntries

Stored(limits, c, e) ==
    [d \in DOMAIN limits \cup {c} |-> IF d = c THEN e ELSE limits[d]]

\* The Retry-After header: whole seconds, rounded up, never 0.
\* Mutation: rounded down.
RetryAfterRoundedDown(d) == IF d < Second THEN 1 ELSE d \div Second
RetryAfterSeconds(d) == IF d <= 0 THEN 1 ELSE (d + Second - 1) \div Second

\* Tokens client c would find at instant now.
Available(limits, c, now) ==
    IF c \in DOMAIN limits THEN Refilled(limits[c], now).tokens ELSE Burst

=============================================================================

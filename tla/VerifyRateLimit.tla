--------------------------- MODULE VerifyRateLimit ---------------------------
(***************************************************************************)
(* The local limiter in front of the Cap siteverify call                    *)
(* (verification_handler.go).  One token bucket per client address lives in *)
(* the map verifyRateLimits; there is no background job: a bucket is        *)
(* refilled when its client comes back, and expired buckets are deleted by  *)
(* whichever request holds the mutex next.                                  *)
(*                                                                          *)
(* handleVerify reads the clock once and only later takes the mutex, so     *)
(* attempts reach the map in an order that need not be the order of the     *)
(* instants they carry.  That is why an attempt has two steps here:         *)
(* Capture(r, c), then one of the three outcomes of allowVerifyAttempt,     *)
(* which runs under the mutex and is therefore one atomic step.             *)
(***************************************************************************)
EXTENDS TokenBuckets

CONSTANTS
    Clients,     \* client addresses, after Unmap
    Requests,    \* POST requests to verify_path that may be in progress at once
    MaxDelay,    \* bound: ticks between reading the clock and getting the mutex
    Horizon,     \* bound: last instant of the clock
    MaxResets    \* bound: calls of Cleanup

ASSUME TimeAssumption == MaxDelay \in Nat /\ Horizon \in Nat /\ MaxResets \in Nat

VARIABLES
    clock,             \* the monotonic clock behind time.Now
    verifyRateLimits,  \* the map: a function whose domain is the addresses it holds
    attempt,           \* per request: where it is in handleVerify, and its outcome
    resets             \* how often Cleanup emptied the map

vars == <<clock, verifyRateLimits, attempt, resets>>


-----------------------------------------------------------------------------
Idle == [state |-> "idle"]

Attempt == {Idle}
    \cup [state : {"waiting", "admitted"}, client : Clients, now : Nat]
    \cup [state : {"refused"}, client : Clients, now : Nat, retryAfter : Nat]

Waiting(r) == attempt[r].state = "waiting"

Init ==
    /\ clock = 0
    /\ verifyRateLimits = [c \in {} |-> Fresh(0)]
    /\ attempt = [r \in Requests |-> Idle]
    /\ resets = 0

\* handleVerify reads the clock; its return state and its address are valid.
Capture(r, c) ==
    /\ attempt[r] = Idle
    /\ attempt' = [attempt EXCEPT ![r] = [state |-> "waiting", client |-> c, now |-> clock]]
    /\ UNCHANGED <<clock, verifyRateLimits, resets>>

\* The map as request r finds it after its own sweep.
Live(r) == Unexpired(verifyRateLimits, attempt[r].now)

\* What r is told when it may not go on.
Refuse(r, retryAfter) ==
    attempt' = [attempt EXCEPT ![r] =
        [state |-> "refused", client |-> attempt[r].client, now |-> attempt[r].now,
         retryAfter |-> RetryAfterSeconds(retryAfter)]]

\* No bucket and no room for one.
RefuseTableFull(r) ==
    /\ Waiting(r)
    /\ TableFull(Live(r), attempt[r].client)
    /\ verifyRateLimits' = Live(r)
    /\ Refuse(r, Refill)
    /\ UNCHANGED <<clock, resets>>

\* The bucket is empty even after its refill; the refilled entry is not written
\* back (tokens is 0, so the refill credited nothing).
RefuseEmpty(r) ==
    LET a == attempt[r]
        b == Bucket(Live(r), a.client, a.now)
    IN  /\ Waiting(r)
        /\ ~TableFull(Live(r), a.client)
        /\ b.tokens = 0
        /\ verifyRateLimits' = Live(r)
        /\ Refuse(r, b.lastRefill + Refill - a.now)
        /\ UNCHANGED <<clock, resets>>

\* Mutation: the token is not taken.
AdmitWithoutTaking(r) ==
    LET a == attempt[r]
        b == Bucket(Live(r), a.client, a.now)
    IN  /\ Waiting(r)
        /\ ~TableFull(Live(r), a.client)
        /\ b.tokens > 0
        /\ verifyRateLimits' = Stored(Live(r), a.client, b)
        /\ attempt' = [attempt EXCEPT ![r].state = "admitted"]
        /\ UNCHANGED <<clock, resets>>

\* One token is taken and the bucket is stored.
Admit(r) ==
    LET a == attempt[r]
        b == Bucket(Live(r), a.client, a.now)
    IN  /\ Waiting(r)
        /\ ~TableFull(Live(r), a.client)
        /\ b.tokens > 0
        /\ verifyRateLimits' = Stored(Live(r), a.client, [b EXCEPT !.tokens = b.tokens - 1])
        /\ attempt' = [attempt EXCEPT ![r].state = "admitted"]
        /\ UNCHANGED <<clock, resets>>

AllowVerifyAttempt(r) == RefuseTableFull(r) \/ RefuseEmpty(r) \/ Admit(r)

\* The handler of a decided request returns.
Return(r) ==
    /\ attempt[r].state \in {"admitted", "refused"}
    /\ attempt' = [attempt EXCEPT ![r] = Idle]
    /\ UNCHANGED <<clock, verifyRateLimits, resets>>

\* Cleanup empties the map while requests of the old configuration may still run.
ResetVerifyRateLimits ==
    /\ resets < MaxResets
    /\ verifyRateLimits' = [c \in {} |-> Fresh(0)]
    /\ resets' = resets + 1
    /\ UNCHANGED <<clock, attempt>>

\* Time passes; a request that read the clock gets the mutex within MaxDelay.
Tick ==
    /\ clock < Horizon
    /\ \A r \in Requests : Waiting(r) => clock - attempt[r].now < MaxDelay
    /\ clock' = clock + 1
    /\ UNCHANGED <<verifyRateLimits, attempt, resets>>

Next ==
    \/ \E r \in Requests, c \in Clients : Capture(r, c)
    \/ \E r \in Requests : AllowVerifyAttempt(r)
    \/ \E r \in Requests : Return(r)
    \/ ResetVerifyRateLimits
    \/ Tick

Spec == Init /\ [][Next]_vars

-----------------------------------------------------------------------------
(* Properties.                                                              *)

\* The variables have their types: in particular every bucket in the map holds
\* between 0 and Burst - 1 tokens (it is stored only after one was taken) and was
\* last refilled in the past.
TypeOK ==
    /\ clock \in Nat
    /\ resets \in Nat
    /\ attempt \in [Requests -> Attempt]
    /\ \A r \in Requests : attempt[r] # Idle => attempt[r].now <= clock
    /\ DOMAIN verifyRateLimits \subseteq Clients
    /\ \A c \in DOMAIN verifyRateLimits :
          /\ verifyRateLimits[c] \in Entry
          /\ verifyRateLimits[c].tokens < Burst
          /\ verifyRateLimits[c].lastRefill <= clock

\* The map never outgrows its limit, however many addresses post and however
\* their attempts overtake each other (verification_handler.go:147).
TableBounded ==
    /\ IsFiniteSet(DOMAIN verifyRateLimits)
    /\ Cardinality(DOMAIN verifyRateLimits) <= MaxEntries

Decides(r) == Waiting(r) /\ attempt'[r].state # "waiting"

\* Clients do not disturb each other: whatever a step does to the map, sweeping
\* away other clients' buckets included, a client none of whose attempts is
\* decided by it will find, now and at every later instant, exactly the tokens it
\* would have found before.  A bucket is deleted only when it would be full again.
\* (Emptying the map in Cleanup is the exception.)
IndependentStep ==
    resets' = resets =>
    \A c \in Clients : \A t \in clock .. Horizon :
        \/ \E r \in Requests : Decides(r) /\ attempt[r].client = c
        \/ Available(verifyRateLimits', c, t) = Available(verifyRateLimits, c, t)

ClientsIndependent == [][IndependentStep]_vars

\* A client with a live bucket is refused only when that bucket is empty: pressure
\* on the table falls on new addresses only (verification_handler.go:145-151).
SparingStep ==
    \A r \in Requests :
        /\ Decides(r)
        /\ attempt[r].client \in DOMAIN Live(r)
        /\ attempt'[r].state = "refused"
        => Available(verifyRateLimits, attempt[r].client, attempt[r].now) = 0

TablePressureSparesKnownClients == [][SparingStep]_vars

=============================================================================

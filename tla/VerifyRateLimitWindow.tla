------------------------ MODULE VerifyRateLimitWindow ------------------------
(***************************************************************************)
(* What the limiter promises over a stretch of time.  VerifyRateLimit is    *)
(* observed through auxiliary variables that no action reads:               *)
(*   - a window that begins at winStart, any instant, with the number of    *)
(*     admissions in it and of buckets created anew in it;                  *)
(*   - the earliest instant at which each refused client was told to retry. *)
(***************************************************************************)
EXTENDS VerifyRateLimit

VARIABLES
    winStart,   \* first instant of the window: never changes
    count,      \* per client: admissions decided in the window
    fresh,      \* per client: buckets created for it in the window
    retryAt     \* per client: {} or the instant its Retry-After named

aux == <<winStart, count, fresh, retryAt>>
wvars == <<vars, aux>>

InWindow == clock >= winStart

WInit ==
    /\ Init
    /\ winStart \in 0 .. Horizon
    /\ count = [c \in Clients |-> 0]
    /\ fresh = [c \in Clients |-> 0]
    /\ retryAt = [c \in Clients |-> {}]

Counted(f, c) == IF InWindow THEN [f EXCEPT ![c] = f[c] + 1] ELSE f

ObserveAdmit(r) ==
    LET c == attempt[r].client
    IN  /\ Admit(r)
        /\ count' = Counted(count, c)
        /\ fresh' = IF c \in DOMAIN Live(r) THEN fresh ELSE Counted(fresh, c)
        /\ retryAt' = [retryAt EXCEPT ![c] = {}]
        /\ UNCHANGED winStart

\* Of several instants a client was given, the earliest is kept.
ObserveRefuseEmpty(r) ==
    LET c == attempt[r].client
        t == attempt[r].now + Second * attempt'[r].retryAfter
    IN  /\ RefuseEmpty(r)
        /\ retryAt' = [retryAt EXCEPT ![c] = IF \E u \in retryAt[c] : u <= t THEN @ ELSE {t}]
        /\ UNCHANGED <<winStart, count, fresh>>

ObserveReset ==
    /\ ResetVerifyRateLimits
    /\ retryAt' = [c \in Clients |-> {}]
    /\ UNCHANGED <<winStart, count, fresh>>

WNext ==
    \/ \E r \in Requests, c \in Clients : Capture(r, c) /\ UNCHANGED aux
    \/ \E r \in Requests : RefuseTableFull(r) /\ UNCHANGED aux
    \/ \E r \in Requests : ObserveRefuseEmpty(r)
    \/ \E r \in Requests : ObserveAdmit(r)
    \/ \E r \in Requests : Return(r) /\ UNCHANGED aux
    \/ ObserveReset
    \/ Tick /\ UNCHANGED aux

WSpec == WInit /\ [][WNext]_wvars

-----------------------------------------------------------------------------
(* Properties.                                                              *)

\* The rate the limiter enforces.  In any window, an address gets no more than a
\* full bucket, the refills of the window rounded up, and what attempts that
\* overtake each other can add: at most the delay between reading the clock and
\* taking the mutex, once for the window and once for each bucket that had to be
\* created anew in it; and each Cleanup gives a full bucket.  Without delay and
\* Cleanup this is Burst + (length / Refill, rounded up).
WindowBounded ==
    InWindow => \A c \in Clients :
        Refill * count[c] <= Refill * Burst * (1 + resets)
                             + (clock - winStart) + (Refill - 1)
                             + MaxDelay * (1 + fresh[c])

\* Retry-After is honest: a client that was refused for an empty bucket and makes
\* its next attempt at the named time or later is not refused again for an empty
\* bucket (it can still meet a full table).  The header's rounding to seconds, the
\* sweep by other clients and overtaking attempts do not break the promise.
RetryStep ==
    \A r \in Requests :
        /\ Decides(r)
        /\ \E t \in retryAt[attempt[r].client] : attempt[r].now >= t
        /\ ~TableFull(Live(r), attempt[r].client)
        => attempt'[r].state = "admitted"

RetryAfterHonest == [][RetryStep]_wvars

=============================================================================

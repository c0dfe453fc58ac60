----------------------- MODULE MCVerifyRateLimitWindow -----------------------
(* Small instance of VerifyRateLimitWindow: two addresses and two requests. *)
EXTENDS VerifyRateLimitWindow, TLC

CONSTANTS c1, c2, r1, r2

MCClients  == {c1, c2}
MCRequests == {r1, r2}
Symmetry   == Permutations(MCClients) \cup Permutations(MCRequests)
=============================================================================

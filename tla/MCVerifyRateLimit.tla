-------------------------- MODULE MCVerifyRateLimit --------------------------
(* Small instance of VerifyRateLimit: more addresses than the table has room for. *)
EXTENDS VerifyRateLimit, TLC

CONSTANTS c1, c2, c3, r1, r2

MCClients  == {c1, c2, c3}
MCRequests == {r1, r2}
Symmetry   == Permutations(MCClients) \cup Permutations(MCRequests)
=============================================================================

---------------------------- MODULE MCVerification ----------------------------
(* Small instances of Verification. *)
EXTENDS Verification, TLC

CONSTANTS c1, c2, r1, r2

OneRequest  == {r1}
TwoRequests == {r1, r2}
OneClient  == {c1}
TwoClients == {c1, c2}

\* A single configuration; a reload that keeps the secret, and one that changes it.
OneSecret   == <<"a">>
SameSecret  == <<"a", "a">>
OtherSecret == <<"a", "b">>

Symmetry == Permutations(TwoRequests) \cup Permutations(TwoClients)
=============================================================================

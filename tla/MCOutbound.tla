------------------------------ MODULE MCOutbound ------------------------------
(* Small instance of Outbound: each kind of host, and answers of up to two addresses. *)
EXTENDS Outbound, TLC

CONSTANTS cap, other, localA, localB, pub, loop, priv

MCAnswers == {<<>>} \cup {<<a>> : a \in Addresses} \cup (Addresses \X Addresses)
Symmetry  == Permutations({cap, other}) \cup Permutations({localA, localB})
=============================================================================

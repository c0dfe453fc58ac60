---------------------------- MODULE MCRequestGate ----------------------------
(* A small instance of RequestGate. *)
EXTENDS RequestGate, TLC

CONSTANTS c1, r1, de, nl, ru, key, other

MCDatabases == [{c1} -> {de, nl, ru, NoCode}]
MCApiKeys == {<<>>, <<key>>, <<other>>, <<key, key>>}
=============================================================================

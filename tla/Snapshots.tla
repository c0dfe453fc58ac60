------------------------------ MODULE Snapshots ------------------------------
(***************************************************************************)
(* What requests may rely on about the data that background loops refresh: *)
(* the allowlist, the blacklist and the country database of one instance.  *)
(* A snapshot is replaced as a whole, by one that is complete and not older *)
(* in any of its sources, and after Cleanup nothing is published any more.  *)
(* Lifecycle is shown to implement this specification.                      *)
(***************************************************************************)
EXTENDS Naturals

CONSTANTS
    Lists,      \* the published things
    Parts,      \* the sources a snapshot is assembled from
    SourcesOf,  \* per list, the parts it has
    Versions    \* versions of a part; 0: not there

VARIABLES
    snapshot,  \* per list: the version of each part, 0 when there is none
    closed     \* Cleanup has returned

vars == <<snapshot, closed>>

Nothing == [p \in Parts |-> 0]

Init == snapshot = [l \in Lists |-> Nothing] /\ closed = FALSE

\* A complete snapshot replaces the previous one.
Publish(l, next) ==
    /\ ~closed
    /\ \A p \in Parts : next[p] # 0 <=> p \in SourcesOf[l]
    /\ \A p \in Parts : next[p] >= snapshot[l][p]
    /\ snapshot' = [snapshot EXCEPT ![l] = next]
    /\ UNCHANGED closed

\* The country database is released while the instance is cleaned up.
Withdraw(l) ==
    /\ ~closed
    /\ snapshot' = [snapshot EXCEPT ![l] = Nothing]
    /\ UNCHANGED closed

Close == ~closed /\ closed' = TRUE /\ UNCHANGED snapshot

Next ==
    \/ \E l \in Lists : \E next \in [Parts -> Versions] : Publish(l, next)
    \/ \E l \in Lists : Withdraw(l)
    \/ Close

Spec == Init /\ [][Next]_vars
=============================================================================

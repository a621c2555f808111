------------------------- MODULE AuthorityPromise -------------------------
(***************************************************************************)
(* What the cutover control plane promises to everything that reads or      *)
(* writes a data unit: one owner at a time, a fence between the two, no way *)
(* back once PostgreSQL holds a formal commit, and dependencies first.      *)
(***************************************************************************)
CONSTANTS Units, Dependencies, Keys

VARIABLES owner, committed

vars == <<owner, committed>>

Init ==
    /\ owner = [u \in Units |-> "sqlite"]
    /\ committed = [u \in Units |-> {}]

Fence(u) ==
    /\ owner[u] = "sqlite"
    /\ \A d \in Dependencies[u] : owner[d] = "postgresql"
    /\ owner' = [owner EXCEPT ![u] = "fenced"]
    /\ UNCHANGED committed

Unfence(u) ==
    /\ owner[u] = "fenced"
    /\ owner' = [owner EXCEPT ![u] = "sqlite"]
    /\ UNCHANGED committed

\* The first formal commit takes the unit over; later ones find it taken.
Commit(u, k) ==
    /\ owner[u] \in {"fenced", "postgresql"}
    /\ k \notin committed[u]
    /\ owner' = [owner EXCEPT ![u] = "postgresql"]
    /\ committed' = [committed EXCEPT ![u] = @ \cup {k}]

Next == \E u \in Units : Fence(u) \/ Unfence(u) \/ \E k \in Keys : Commit(u, k)

Spec == Init /\ [][Next]_vars
===========================================================================

------------------------ MODULE MCCompatConnection ------------------------
(***************************************************************************)
(* Instances of CompatConnection for TLC: three rows, the third of which is *)
(* not in the snapshot, and the programs of up to two operations.           *)
(***************************************************************************)
EXTENDS CompatConnection, TLC

CONSTANTS r1, r2, r3, old, va, vb, publish, refresh

ModelBase == r1 :> old @@ r2 :> old @@ r3 :> None

\* Two transactions of one row each; one over both rows that deletes one of
\* them, and one that stores a new row.
ModelProgram ==
    publish :> <<r1 :> va, r2 :> va>>
    @@ refresh :> <<r1 :> vb @@ r2 :> None, r3 :> va>>

\* Each operation is run under an identity of its own.
ModelIdentity == [o \in Operations |-> o]
===========================================================================

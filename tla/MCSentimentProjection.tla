----------------------- MODULE MCSentimentProjection -----------------------
(***************************************************************************)
(* An instance of SentimentProjection for TLC: two rows of the snapshot,    *)
(* one transaction over both, one that deletes a row.                       *)
(***************************************************************************)
EXTENDS SentimentProjection, TLC

CONSTANTS r1, r2, old, va

ModelBase == r1 :> old @@ r2 :> old
ModelAssignments == {r1 :> va @@ r2 :> va, r2 :> None}
=============================================================================

--------------------------- MODULE MCUnitCutover ---------------------------
(***************************************************************************)
(* The instance of UnitCutover for TLC.  Its run checks liveness, so it has *)
(* no symmetry set.                                                         *)
(***************************************************************************)
EXTENDS UnitCutover
===========================================================================

---------------------------- MODULE MCReadCache ----------------------------
(***************************************************************************)
(* Instances of ReadCache for TLC.                                          *)
(***************************************************************************)
EXTENDS ReadCache, TLC

Symmetry == Permutations(Threads)
===========================================================================

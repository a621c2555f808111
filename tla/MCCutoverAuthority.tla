------------------------ MODULE MCCutoverAuthority ------------------------
(***************************************************************************)
(* Instances of CutoverAuthority for TLC.                                   *)
(***************************************************************************)
EXTENDS CutoverAuthority, TLC

CONSTANTS identity, dynamic, notes, wGood, wWrong

\* One unit, every loop of the state machine.
SoloDependencies == identity :> {}
SoloRoleOf       == identity :> wGood

\* dynamic_intelligence depends on shared_identity, both are snapshot units;
\* the notes unit has no snapshot and is published by its first note.
ChainUnits        == {identity, dynamic, notes}
ChainDependencies == identity :> {} @@ dynamic :> {identity} @@ notes :> {}
ChainRoleOf       == [u \in ChainUnits |-> wGood]

Symmetry == Permutations(Sessions) \cup Permutations(Approvals)
              \cup Permutations(Keys) \cup Permutations(Hashes)
===========================================================================

-------------------------- MODULE MCRetailWindows --------------------------
(* A tick that waits for the lock has no state: one place for a tick is      *)
(* enough, each one taking it after the other.                               *)
EXTENDS RetailWindows
CONSTANTS t1, o1, w1, w2
MCTicks == {t1}
MCOrphans == {o1}
MCWeights == {w1, w2}
=============================================================================

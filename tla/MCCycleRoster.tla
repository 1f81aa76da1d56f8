--------------------------- MODULE MCCycleRoster ---------------------------
EXTENDS CycleRoster, TLC

CONSTANTS x, y

(* Every team has x; y comes and goes. *)
MCCodeSets == {{x}, {x, y}}

MCSymmetry == Permutations(Teams)
=============================================================================

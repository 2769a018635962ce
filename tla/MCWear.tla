------------------------------- MODULE MCWear -------------------------------
(* Two threads write two blocks while the clock passes three intervals.     *)
EXTENDS Wear, TLC

CONSTANTS t1, t2

MCThreads == {t1, t2}
Symmetry == Permutations(MCThreads)
=============================================================================

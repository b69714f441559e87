------------------------- MODULE MCControllerCache -------------------------
(* Small instances of ControllerCache for TLC.                             *)
EXTENDS ControllerCache, TLC

CONSTANTS t1, t2

TwoThreads == {t1, t2}
Symmetry == Permutations(Threads)
=============================================================================

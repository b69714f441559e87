----------------------------- MODULE MCCpuList -----------------------------
(* Every list of up to three parts over a few numbers.                     *)
EXTENDS CpuList

UpToThreeParts == UNION {[1..n -> Parts] : n \in 1..3}
Negative == {-1, 0, 1, 2, 3}
=============================================================================

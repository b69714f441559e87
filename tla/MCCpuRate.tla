----------------------------- MODULE MCCpuRate -----------------------------
(* Small instances of CpuRate for TLC.                                     *)
EXTENDS CpuRate

CONSTANTS t1, t2

OneThread == {t1}
TwoThreads == {t1, t2}
=============================================================================

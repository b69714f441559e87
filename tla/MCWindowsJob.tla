---------------------------- MODULE MCWindowsJob ----------------------------
(* A small instance of WindowsJob for TLC.                                 *)
EXTENDS WindowsJob

AllCalls == DOMAIN Plan
AllQueries == Queries

OneGroupOrTwo == {<<2>>, <<1, 1>>}
OneOrTwoCores == {<<1>>, <<1, 1>>}
Weight == [form |-> "weight", rate |-> 1]
Half == [form |-> "hard", rate |-> 1]
All == [form |-> "range", rate |-> 2]
ThreeForms == {Weight, Half, All}

Tight == [all |-> 1, each |-> None, control |-> Half, affinity |-> <<1>>]
Loose == [all |-> None, each |-> 2, control |-> All, affinity |-> None]
TightOrLoose == {Tight, Loose}

(* Jobs that restrict the memory, and jobs that restrict the CPU.  A       *)
(* change may turn one into the other.                                     *)
Restricted ==
  \/ job = None
  \/ job.affinity = None /\ job.control = Weight /\ machine = <<2>>
  \/ job.all = None /\ job.each = None /\ own = 1 /\ others = 0

(* Two changes from a few of them, at most one from the rest.              *)
TwoChanges ==
  \/ job = Tight /\ machine = <<2>>
  \/ job = [Loose EXCEPT !.all = 2, !.control = Weight] /\ own + others = 2

(* A job inside another.                                                   *)
Nested ==
  /\ outer = Tight /\ beyond < 2 /\ churn > 0
  /\ job.affinity = None /\ machine = <<2>>
  /\ job.control = Half \/ (job.control = Weight /\ job.each = None)

MCInit ==
  /\ Init
  /\ IF outer = None THEN (Restricted /\ churn > 0) \/ TwoChanges ELSE Nested
MCSpec == MCInit /\ [][Next]_vars
=============================================================================

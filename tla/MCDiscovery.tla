---------------------------- MODULE MCDiscovery ----------------------------
(* Small instances of Discovery for TLC.                                   *)
EXTENDS Discovery

A == <<"a">>
AB == <<"a", "b">>
FourPlaces == {<<>>, A, AB, <<"c">>}

At(h, top, c) == [hierarchy |-> h, root |-> top, conventional |-> c]

OnUnified == [c \in Controllers |-> IF c = "cpuacct" THEN None ELSE "v2"]
OnOld == [memory |-> "x", cpu |-> "y", cpuset |-> "x", cpuacct |-> "y"]

(* All controllers on one interface or the other, the memory alone on the  *)
(* unified hierarchy, or all but the accounting.                           *)
AllBindings ==
  {OnUnified, OnOld, [OnOld EXCEPT !["memory"] = "v2"], [OnUnified EXCEPT !["cpuacct"] = "y"]}

(* The whole hierarchy, a part of it, the mount of another group before    *)
(* it, and an agent's mount of the whole at a place of its own; beside     *)
(* them the mounts of cgroup v1, of which one may be another group's.      *)
UnifiedTables ==
  {<<At("v2", <<>>, TRUE)>>, <<At("v2", A, TRUE)>>, <<At("v2", AB, TRUE)>>,
   <<At("v2", <<"c">>, FALSE), At("v2", <<>>, FALSE)>>,
   <<At("v2", <<>>, FALSE), At("v2", A, TRUE)>>, <<>>}
OldTables ==
  {<<>>, <<At("x", <<>>, FALSE), At("y", <<>>, FALSE)>>,
   <<At("y", <<"c">>, FALSE), At("y", A, FALSE), At("x", A, FALSE)>>}
AllTables == {u \o o : u \in UnifiedTables, o \in OldTables}

(* No change from any of these machines; one from a process two levels     *)
(* down; two from there with two of the mount tables.                      *)
Deep ==
  /\ home["v2"] = AB /\ home["x"] = A /\ home["y"] = A
  /\ subtree["cpu"] = subtree["cpuset"]
TwoTables ==
  {<<At("v2", A, TRUE)>>,
   <<At("v2", <<>>, FALSE), At("v2", A, TRUE), At("y", A, FALSE), At("x", <<>>, FALSE)>>}
AllTablesToo == AllTables \cup TwoTables
MCInit == Init /\ (churn = MaxChurn \/ (Deep /\ (churn > 0 \/ mounts \in TwoTables)))
MCSpec == MCInit /\ [][Next]_vars

(* A container given its own group as its whole cgroup filesystem.         *)
OneSubtree == {<<At("v2", AB, TRUE)>>}
UnifiedAlone == {OnUnified}
=============================================================================

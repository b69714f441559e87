---------------------------- MODULE MCCgroupCpu ----------------------------
(* Small instances of CgroupCpu for TLC.                                   *)
EXTENDS CgroupCpu

Slice == <<"slice">>
Own == <<"slice", "own">>
Other == <<"other">>
FourGroups == {<<>>, Slice, Own, Other}

At(group) == [home |-> group, root |-> <<>>]
Under(top, group) == [home |-> group, root |-> top]
Everywhere(p) == [m \in Metrics |-> p]

(* One hierarchy for everything, seen as a whole or from the slice down,   *)
(* or some metrics in none.                                                *)
OneHierarchy ==
  {Everywhere(At(Own)), Everywhere(Under(Slice, Own)), Everywhere(None),
   [Everywhere(At(Own)) EXCEPT !["quota"] = None],
   [Everywhere(At(Own)) EXCEPT !["set"] = None]}

(* The process in the slice or its sibling, in every hierarchy or not in   *)
(* the accounting one.                                                     *)
Moving ==
  {Everywhere(At(Slice)), Everywhere(At(Other)),
   [Everywhere(At(Slice)) EXCEPT !["time"] = At(Other)]}

EachLocation == OneHierarchy \cup Moving

(* Two mounts of which one exposes the slice alone.                        *)
Truncated == {[Everywhere(At(Own)) EXCEPT !["quota"] = Under(Slice, Own)]}

AnyLevels == SUBSET Groups

NewFiles ==
  [twoFiles |-> FALSE, setFiles |-> <<"effective">>,
   contents |-> {[effective |-> c] : c \in {Absent, Unusable, 1, 2}}]
OldFiles ==
  [twoFiles |-> TRUE, setFiles |-> <<"effective", "configured">>,
   contents |-> {[effective |-> 1, configured |-> Inherited],
                 [effective |-> Absent, configured |-> 2]}]
OneInterface == {[NewFiles EXCEPT !.contents = {[effective |-> Absent]}]}
TwoInterfaces == {NewFiles, OldFiles}

(* Every chain of three levels, and no change.                             *)
Still ==
  /\ churn = MaxChurn /\ interface = NewFiles
  /\ quota \in {q \in [Groups -> QuotasSpelled] : q[Other] = Unlimited}
  /\ period = [g \in Groups |-> 2]
  /\ cpus \in {c \in [Groups -> interface.contents] : c[Other] = [effective |-> Absent]}
  /\ counting \in {{}, {<<>>}, {Own}, {<<>>, Slice, Own}}
  /\ located \in OneHierarchy
  /\ shut = {} \/ (shut = {Slice, Own} /\ counting = {<<>>})

(* Two groups below the root under the older interface, and one change.    *)
Stirring ==
  /\ churn = 0 /\ interface = OldFiles
  /\ quota \in {q \in [Groups -> {1, Unlimited}] : q[Own] = Unlimited}
  /\ period \in {p \in [Groups -> PeriodsSpelled] :
       p[<<>>] \in {1, Absent} /\ p[Own] = 1 /\ p[Other] = 1}
  /\ cpus \in {c \in [Groups -> interface.contents] : c[Own] = c[Slice]}
  /\ counting \in {Groups, {<<>>}}
  /\ located \in Moving
  /\ shut = {} \/ (shut = {Slice, Own} /\ counting = {<<>>} /\ quota[Slice] = 1 /\ period[Slice] = 1)
MCInit == (Still \/ Stirring) /\ Init
MCSpec == MCInit /\ [][Next]_vars
=============================================================================

----------------------------- MODULE Discovery -----------------------------
(***************************************************************************)
(* Where the readings of a cgroup come from: what locate_controllers() of  *)
(* src/proclimits/_cgroup.py makes of /proc/self/cgroup, the mount table   *)
(* and the files of the groups, and what sources() and                     *)
(* mechanism_notices() say of it.                                          *)
(*                                                                         *)
(* A machine has the unified hierarchy and hierarchies of cgroup v1, each  *)
(* a tree of groups with this process in one of them.  The kernel binds a  *)
(* controller to one hierarchy.  Each hierarchy is mounted any number of   *)
(* times, as a whole or from some group down.  While discovery runs, the   *)
(* process is moved, groups are removed, and controllers are handed down   *)
(* the unified hierarchy or taken back.                                    *)
(*                                                                         *)
(* A group is its path, a sequence of names.  A directory is a mount and   *)
(* a path below it.                                                        *)
(***************************************************************************)
EXTENDS Integers, Sequences, SequencesExt

CONSTANTS
  OldHierarchies, \* the hierarchies of cgroup v1
  Places,         \* the groups there can be, the same in every hierarchy
  MountTables,    \* the mount tables: sequences of mounts
  Bindings,       \* the hierarchy each controller is bound to, or None
  Unified,        \* the unified hierarchy
  MaxChurn,       \* bound on the changes while discovery runs
  None            \* nothing

Hierarchies == OldHierarchies \cup {Unified}
Controllers == {"memory", "cpu", "cpuset", "cpuacct"}
Metrics == {"memory", "quota", "time", "set"}

(* The controller of cgroup v1 that carries a metric.                      *)
V1Controller ==
  [memory |-> "memory", quota |-> "cpu", time |-> "cpuacct", set |-> "cpuset"]

Parent(g) == Front(g)
AndAncestors(g) == {SubSeq(g, 1, n) : n \in 0..Len(g)}

(* A mount exposes what is below its root, at a place of its own, one of   *)
(* which may be /sys/fs/cgroup.  The unified hierarchy has no cpuacct.     *)
ASSUME ConstantsAssumption ==
  /\ Unified \notin OldHierarchies /\ MaxChurn \in Nat
  /\ \A g \in Places : g \in Seq(STRING) /\ AndAncestors(g) \subseteq Places
  /\ \A table \in MountTables :
       table \in Seq([hierarchy : Hierarchies, root : Places, conventional : BOOLEAN])
  /\ Bindings \subseteq [Controllers -> Hierarchies \cup {None}]
  /\ \A b \in Bindings : b["cpuacct"] # Unified

ASSUME NoneAssumption ==
  /\ None \notin Nat \cup Controllers \cup Hierarchies \cup {"v1", "v2"}
  /\ None \notin [Hierarchies -> Places]
  /\ None \notin [isV2 : BOOLEAN, mount : Nat, levels : Seq(Seq(STRING))]
  /\ None \notin [interface : {"v1", "v2"}, levels : Seq(Seq(STRING))]

VARIABLES
  binding,   \* the hierarchy each controller is bound to
  mounts,    \* the mount table
  groups,    \* the groups there are in each hierarchy
  home,      \* the group this process is in, in each of them
  subtree,   \* the unified groups that hand a controller to their children
  pc,        \* where discovery stands
  paths,     \* the groups it read in /proc/self/cgroup, or None
  looks,     \* the mounts it has yet to look at, for which controller
  v1,        \* the mount it took for each controller of cgroup v1
  unified,   \* the mount it took for the unified hierarchy
  interface, \* the interface named for a metric no hierarchy carries
  located,   \* the levels it found for each metric
  still,     \* history: whether nothing has changed since it began
  churn      \* history: the changes so far

world == <<binding, mounts, groups, home, subtree, churn>>
hierarchies == <<paths, looks, v1, unified>>
found == <<interface, located>>
vars == <<world, still, pc, hierarchies, found>>

Handed == Controllers \ {"cpuacct"}
Mounts == DOMAIN mounts
Looks == [mount : Mounts, controller : Controllers \cup {None}]
Located == [isV2 : BOOLEAN, mount : Mounts, levels : Seq(Seq(STRING))]

TypeOK ==
  /\ binding \in Bindings /\ mounts \in MountTables
  /\ groups \in [Hierarchies -> SUBSET Places]
  /\ \A h \in Hierarchies : AndAncestors(home[h]) \subseteq groups[h]
  /\ subtree \in [Handed -> SUBSET groups[Unified]]
  /\ pc \in {"paths", "mounts", "look", "interface", "done"} \cup Metrics
  /\ paths \in [Hierarchies -> Places] \cup {None}
  /\ looks \subseteq Looks
  /\ v1 \in [Controllers -> Mounts \cup {None}]
  /\ unified \in Mounts \cup {None}
  /\ interface \in {"v1", "v2", None}
  /\ still \in BOOLEAN /\ churn \in 0..MaxChurn
  /\ located \in [Metrics -> Located \cup {None}]
  /\ \A metric \in Metrics : located[metric] # None =>
       located[metric].isV2 = (mounts[located[metric].mount].hierarchy = Unified)

-----------------------------------------------------------------------------
(* The kernel.                                                             *)

(* Whether a group of the unified hierarchy is given a controller: the     *)
(* root is given all that are bound, and hands each down or not.           *)
Given(c, g) ==
  /\ binding[c] = Unified
  /\ g # <<>> => Parent(g) \in subtree[c]

(* Whether a group has the file a metric is probed by.  On the unified     *)
(* hierarchy the root has none of those that carry a limit, and every      *)
(* group counts its time.                                                  *)
HasFile(metric, h, g) ==
  /\ g \in groups[h]
  /\ IF h # Unified THEN binding[V1Controller[metric]] = h
     ELSE metric = "time" \/ Given(V1Controller[metric], g)
  /\ h = Unified /\ metric \in {"memory", "quota"} => g # <<>>

(* A group that hands a controller down holds no process, the root apart.  *)
Inhabitable(h, g) ==
  h = Unified /\ g # <<>> => \A c \in Handed : g \notin subtree[c]

Leaf(h, g) == \A k \in groups[h] : k # <<>> => Parent(k) # g

Disturb ==
  /\ churn < MaxChurn
  /\ churn' = churn + 1
  /\ still' = FALSE
  /\ UNCHANGED <<binding, mounts, pc, hierarchies, found>>

Move(h, g) ==
  /\ g # home[h] /\ Inhabitable(h, g)
  /\ home' = [home EXCEPT ![h] = g]
  /\ Disturb
  /\ UNCHANGED <<groups, subtree>>

RemoveGroup(h, g) ==
  /\ g # <<>> /\ Leaf(h, g) /\ home[h] # g
  /\ groups' = [groups EXCEPT ![h] = @ \ {g}]
  /\ subtree' = IF h # Unified THEN subtree ELSE [c \in Handed |-> subtree[c] \ {g}]
  /\ Disturb
  /\ UNCHANGED home

(* Somebody writes a cgroup.subtree_control.                               *)
HandDown(c, g) ==
  /\ Given(c, g) /\ g \notin subtree[c]
  /\ g # <<>> => home[Unified] # g
  /\ subtree' = [subtree EXCEPT ![c] = @ \cup {g}]
  /\ Disturb
  /\ UNCHANGED <<groups, home>>

TakeBack(c, g) ==
  /\ g \in subtree[c]
  /\ \A k \in subtree[c] : k # <<>> => Parent(k) # g
  /\ subtree' = [subtree EXCEPT ![c] = @ \ {g}]
  /\ Disturb
  /\ UNCHANGED <<groups, home>>

-----------------------------------------------------------------------------
(* One mount, given the paths that were read.                              *)

InMount(i) == mounts[i].hierarchy
Own(i) == paths[InMount(i)]
Denoted(i, dir) == mounts[i].root \o dir
Exists(i, dir) == Denoted(i, dir) \in groups[InMount(i)]

(* The root of the mount comes off the path.  What the mount does not      *)
(* cover leaves its top.                                                   *)
OwnPathWithinMount(i) ==
  IF IsPrefix(mounts[i].root, Own(i))
  THEN SubSeq(Own(i), Len(mounts[i].root) + 1, Len(Own(i)))
  ELSE <<>>

(* The directories below one mount, the one of this process first.         *)
DirsBelowTheMountPoint(i) ==
  LET own == OwnPathWithinMount(i)
  IN [k \in 1..Len(own) |-> SubSeq(own, 1, Len(own) + 1 - k)]

CandidateDirs(i) ==
  LET own == OwnPathWithinMount(i)
  IN [k \in 1..Len(own) + 1 |-> SubSeq(own, 1, Len(own) + 1 - k)]

(* Whether a mount exposes the group of this process.                      *)
ShowsSomething(i) == Exists(i, OwnPathWithinMount(i))

CoversOwnCgroup(i) ==
  IsPrefix(mounts[i].root, Own(i)) /\ Exists(i, OwnPathWithinMount(i))

(* cgroup.controllers at the top of a mount, empty where it cannot be read.*)
BoundControllers(i) == {c \in Handed : Exists(i, <<>>) /\ Given(c, mounts[i].root)}

(* The levels of a hierarchy, where any of them carries the metric.        *)
OwnLevelWith(metric, i) ==
  HasFile(metric, InMount(i), Denoted(i, CandidateDirs(i)[1]))

AnyLevelWith(metric, i) ==
  \E k \in DOMAIN CandidateDirs(i) :
    HasFile(metric, InMount(i), Denoted(i, CandidateDirs(i)[k]))

SpelledByItsPlace(i, metric) ==
  IF i = None \/ ~AnyLevelWith(metric, i) THEN None
  ELSE [isV2 |-> mounts[i].conventional, mount |-> i, levels |-> CandidateDirs(i)]

ControllerIn(i, metric) ==
  IF i = None \/ ~AnyLevelWith(metric, i) THEN None
  ELSE [isV2 |-> InMount(i) = Unified, mount |-> i, levels |-> CandidateDirs(i)]

Or(a, b) == IF a # None THEN a ELSE b

-----------------------------------------------------------------------------
(* locate_controllers().                                                   *)

Init ==
  /\ binding \in Bindings /\ mounts \in MountTables
  /\ groups = [h \in Hierarchies |-> Places]
  /\ subtree \in [Handed -> SUBSET Places]
  /\ \A c \in Handed : \A g \in subtree[c] : Given(c, g) /\ ~Leaf(Unified, g)
  /\ home \in [Hierarchies -> Places]
  /\ \A h \in Hierarchies : Inhabitable(h, home[h])
  /\ pc = "paths" /\ paths = None /\ looks = {}
  /\ v1 = [c \in Controllers |-> None] /\ unified = None
  /\ interface = None /\ located = [metric \in Metrics |-> None]
  /\ still = TRUE /\ churn \in 0..MaxChurn

(* /proc/self/cgroup: one reading of every path.                           *)
ReadOwnPaths ==
  /\ pc = "paths"
  /\ paths' = home
  /\ pc' = "mounts"
  /\ UNCHANGED <<world, still, looks, v1, unified, found>>

(* The controllers a mount names among its options.                        *)
Options(i) == {c \in Controllers : binding[c] = InMount(i)}

(* Every mount of cgroup v1 is looked at once for each of its controllers, *)
(* and every mount of cgroup2 once.                                        *)
AllLooks ==
  {l \in Looks : IF InMount(l.mount) = Unified THEN l.controller = None
                 ELSE l.controller \in Options(l.mount)}

(* Those of cgroup v1 come first, and the mounts in the order they were    *)
(* made; the controllers of one mount in whatever order it names them.     *)
Earlier(a, b) ==
  IF (InMount(a.mount) = Unified) = (InMount(b.mount) = Unified)
  THEN a.mount < b.mount
  ELSE InMount(b.mount) = Unified

ReadMounts ==
  /\ pc = "mounts"
  /\ looks' = AllLooks
  /\ pc' = "look"
  /\ UNCHANGED <<world, still, paths, v1, unified, found>>

(* Not Linux, or /proc is not mounted: nothing is located.                 *)
ProcFails ==
  /\ pc \in {"paths", "mounts"}
  /\ paths' = None
  /\ pc' = "done"
  /\ UNCHANGED <<world, still, looks, v1, unified, found>>

(* The first mount that covers the process wins, and the conventional one  *)
(* over any other.                                                         *)
Better(i, taken) ==
  \/ taken = None
  \/ mounts[i].conventional /\ ~mounts[taken].conventional

Look ==
  \E l \in looks :
    /\ pc = "look" /\ \A other \in looks : ~Earlier(other, l)
    /\ looks' = looks \ {l}
    /\ v1' = [c \in Controllers |->
                IF c = l.controller /\ v1[c] = None /\ CoversOwnCgroup(l.mount)
                THEN l.mount ELSE v1[c]]
    /\ unified' = IF /\ l.controller = None /\ Better(l.mount, unified)
                     /\ CoversOwnCgroup(l.mount)
                  THEN l.mount ELSE unified
    /\ UNCHANGED <<world, still, pc, paths, found>>

(* A unified hierarchy that holds none of the controllers gives way to     *)
(* cgroup v1, where that holds the process.                                *)
HeldByV1 == {c \in Controllers : v1[c] # None}

InterfaceOfTheControllers ==
  CASE unified # None /\ BoundControllers(unified) # {} -> "v2"
    [] HeldByV1 # {} -> "v1"
    [] OTHER -> None

Interface ==
  CASE unified # None /\ (BoundControllers(unified) # {} \/ HeldByV1 = {}) -> "v2"
    [] HeldByV1 # {} -> "v1"
    [] OTHER -> None

ReadInterface ==
  /\ pc = "look" /\ looks = {}
  /\ interface' = Interface
  /\ pc' = "memory"
  /\ UNCHANGED <<world, still, hierarchies, located>>

(* The unified hierarchy wins where it carries the metric.                 *)
LocateController(metric) ==
  Or(ControllerIn(unified, metric), ControllerIn(v1[V1Controller[metric]], metric))

(* Every group of the unified hierarchy counts its time, so that says      *)
(* nothing of where the limits are.                                        *)
TimeLocatedAsALimit(metric) ==
  Or(ControllerIn(unified, metric), ControllerIn(v1["cpuacct"], metric))

LocateCpuUsage(metric) ==
  Or(Or(IF unified # None /\ "cpu" \in BoundControllers(unified)
        THEN ControllerIn(unified, metric) ELSE None,
        ControllerIn(v1["cpuacct"], metric)),
     ControllerIn(unified, metric))

(* One metric.  The files of a chain are probed one by one, the own level  *)
(* first; a controller is handed down from above, so they say what the     *)
(* chain was at one of these moments.                                      *)
Locate(metric, next) ==
  /\ pc = metric
  /\ located' = [located EXCEPT ![metric] =
       IF metric = "time" THEN LocateCpuUsage(metric) ELSE LocateController(metric)]
  /\ pc' = next
  /\ UNCHANGED <<world, still, hierarchies, interface>>

(* clear_cache(), and the next reading discovers again.                    *)
ClearCache ==
  /\ pc = "done"
  /\ pc' = "paths" /\ paths' = None /\ looks' = {}
  /\ v1' = [c \in Controllers |-> None] /\ unified' = None
  /\ interface' = None /\ located' = [metric \in Metrics |-> None]
  /\ still' = TRUE
  /\ UNCHANGED world

Next ==
  \/ \E h \in Hierarchies : \E g \in groups[h] : Move(h, g) \/ RemoveGroup(h, g)
  \/ \E c \in Handed : \E g \in groups[Unified] : HandDown(c, g) \/ TakeBack(c, g)
  \/ ReadOwnPaths \/ ReadMounts \/ ProcFails \/ Look \/ ReadInterface
  \/ Locate("memory", "quota") \/ Locate("quota", "time")
  \/ Locate("time", "set") \/ Locate("set", "done")
  \/ ClearCache

Spec == Init /\ [][Next]_vars
-----------------------------------------------------------------------------
(* What it says of what it found.                                          *)

(* sources(): None is kept for the machine where nothing holds the process.*)
Source(metric) ==
  IF located[metric] # None
  THEN [interface |-> IF located[metric].isV2 THEN "v2" ELSE "v1",
        levels |-> located[metric].levels]
  ELSE IF interface # None THEN [interface |-> interface, levels |-> <<>>] ELSE None

(* mechanism_notices(): the metrics among these that were found through a  *)
(* mount of a part of their hierarchy.                                     *)
Truncated(metrics) ==
  {metric \in metrics :
     located[metric] # None /\ mounts[located[metric].mount].root # <<>>}

CpuMetrics == {"quota", "time", "set"}

NoticesOfTheLimits ==
  (IF Truncated({"memory"}) # {} THEN {"MEMORY_ANCESTORS_HIDDEN"} ELSE {})
    \cup (IF Truncated({"quota"}) # {} THEN {"CPU_ANCESTORS_HIDDEN"} ELSE {})

MechanismNotices ==
  (IF Truncated({"memory"}) # {} THEN {"MEMORY_ANCESTORS_HIDDEN"} ELSE {})
    \cup (IF Truncated(CpuMetrics) # {} THEN {"CPU_ANCESTORS_HIDDEN"} ELSE {})

-----------------------------------------------------------------------------
(* What has to hold.                                                       *)

Done == pc = "done" /\ paths # None

Hidden(metric) ==
  IF metric = "memory" THEN "MEMORY_ANCESTORS_HIDDEN" ELSE "CPU_ANCESTORS_HIDDEN"

(* Whether a mount lets this process see the group it is in, and the       *)
(* groups around it that it shows.                                         *)
Shows(i) ==
  /\ IsPrefix(mounts[i].root, home[InMount(i)])
  /\ home[InMount(i)] \in groups[InMount(i)]
Visible(i) == {g \in AndAncestors(home[InMount(i)]) : IsPrefix(mounts[i].root, g)}

(* Every level read for a metric is a group that limits this process: they *)
(* denote the group it was in when its paths were read, then its parents   *)
(* one by one to the top of the mount, through whichever mount they were   *)
(* found and however it was moved meanwhile.                               *)
LevelsAreItsAncestors ==
  \A metric \in Metrics : located[metric] # None =>
    LET i == located[metric].mount
        levels == located[metric].levels
    IN /\ Denoted(i, levels[1]) = paths[InMount(i)]
       /\ \A k \in 2..Len(levels) :
            Denoted(i, levels[k]) = Parent(Denoted(i, levels[k - 1]))
       /\ Denoted(i, Last(levels)) = mounts[i].root

(* A limit is looked for in the hierarchy the kernel bound its controller  *)
(* to.  Where nothing changed meanwhile it is found if every mount that    *)
(* shows this process shows a level that carries it, whatever else is      *)
(* mounted: the mounts of other groups, and a second interface.            *)
FoundWhereBound ==
  Done => \A metric \in {"memory", "quota", "set"} :
    LET h == binding[V1Controller[metric]]
        shown == {i \in Mounts : InMount(i) = h /\ Shows(i)}
    IN /\ located[metric] # None => InMount(located[metric].mount) = h
       /\ still /\ shown # {}
            /\ (\A i \in shown : \E g \in Visible(i) : HasFile(metric, h, g))
          => located[metric] # None

(* The time is counted where the quota is, level by level, so that the two *)
(* can be compared; and never in a unified hierarchy that limits no CPU,   *)
(* where this process may be somebody else's, as long as cgroup v1 counts. *)
TimeIsCountedBesideTheLimits ==
  Done /\ still =>
    LET time == located["time"]
        quota == located["quota"]
    IN /\ quota # None /\ (quota.isV2 \/ binding["cpu"] = binding["cpuacct"]) =>
            time # None /\ time.mount = quota.mount /\ time.levels = quota.levels
       /\ time # None /\ time.isV2 /\ binding["cpu"] # Unified =>
            ~ \E i \in Mounts : InMount(i) = binding["cpuacct"] /\ Shows(i)

(* Where a metric was found, every group on the way of this process to the *)
(* root that can limit it is a level that is read, or a notice says that   *)
(* there are levels that cannot be.                                        *)
SeenOrNoticed ==
  Done => \A metric \in Metrics : located[metric] # None =>
    LET i == located[metric].mount
        seen == {Denoted(i, located[metric].levels[k]) :
                   k \in DOMAIN located[metric].levels}
    IN AndAncestors(paths[InMount(i)]) \subseteq seen \/ Hidden(metric) \in MechanismNotices

(* *_METRICS_UNAVAILABLE, which is said where there is no source, means    *)
(* that no hierarchy of the controllers shows this process; and a metric   *)
(* that was found never goes with it.                                      *)
UnavailableMeansNothingHolds ==
  Done =>
    /\ still => \A metric \in Metrics :
         Source(metric) = None =>
           ~ \E i \in Mounts : Shows(i) /\ (InMount(i) = Unified \/ Options(i) # {})
    /\ \A metric \in Metrics : located[metric] # None => interface # None

(* What _types.py says of the *_ANCESTORS_HIDDEN notices: "It follows from *)
(* what the mechanism exposes rather than from a reading, so it appears    *)
(* whether or not one was made".  A group that limits the memory of this   *)
(* process and lies above the one mount that shows it is told of.          *)
HiddenIsNoticed ==
  Done /\ still =>
    LET h == binding["memory"]
        mount == IF h = Unified THEN unified ELSE v1["memory"]
    IN mount # None
         /\ (\E g \in AndAncestors(home[h]) \ Visible(mount) : HasFile("memory", h, g))
       => "MEMORY_ANCESTORS_HIDDEN" \in MechanismNotices
=============================================================================

-------------------------- MODULE Discovery_proofs --------------------------
(* Proofs about Discovery, for any hierarchies, groups, mount tables and   *)
(* bindings, and any number of changes while it runs.                      *)
EXTENDS Discovery, PathLemmas, TLAPS

-----------------------------------------------------------------------------
(* What is taken or found covers this process.                             *)

(* A mount that covers the group this process was in.                      *)
Covering(i) ==
  /\ i \in Mounts /\ paths \in [Hierarchies -> Places]
  /\ IsPrefix(mounts[i].root, Own(i))

Taken == {v1[c] : c \in Controllers} \cup {unified}

World ==
  /\ mounts \in MountTables
  /\ groups \in [Hierarchies -> SUBSET Places] /\ home \in [Hierarchies -> Places]

TakenCover == \A i \in Taken : i = None \/ Covering(i)

FoundCover ==
  \A metric \in Metrics : located[metric] # None =>
    /\ Covering(located[metric].mount)
    /\ located[metric].levels = CandidateDirs(located[metric].mount)

(* Nothing is taken before the paths are read.                             *)
PathsFirst ==
  /\ DOMAIN located = Metrics /\ looks \subseteq Looks
  /\ pc \in {"paths", "mounts"} =>
       /\ \A i \in Taken : i = None
       /\ \A metric \in Metrics : located[metric] = None
  /\ pc \notin {"paths", "done"} => paths \in [Hierarchies -> Places]

Coverage == World /\ TakenCover /\ FoundCover /\ PathsFirst

LEMMA InitCoverage == Init => Coverage
<1> SUFFICES ASSUME Init PROVE Coverage
  OBVIOUS
<1> USE DEF Init
<1>1. World
  BY DEF World
<1>2. \A i \in Taken : i = None
  BY DEF Taken
<1>3. \A metric \in Metrics : located[metric] = None
  OBVIOUS
<1>4. PathsFirst
  BY <1>2, <1>3 DEF PathsFirst
<1> QED BY <1>1, <1>2, <1>3, <1>4 DEF Coverage, TakenCover, FoundCover

LEMMA CoverStands ==
  ASSUME UNCHANGED <<mounts, paths>>
  PROVE  /\ \A i : Covering(i)' <=> Covering(i)
         /\ Mounts' = Mounts /\ Looks' = Looks
         /\ \A i : CandidateDirs(i)' = CandidateDirs(i)
BY DEF Covering, Own, InMount, Mounts, Looks, CandidateDirs, OwnPathWithinMount

LEMMA NothingRead ==
  ASSUME Coverage, UNCHANGED <<mounts, pc, hierarchies, found>>, World'
  PROVE  Coverage'
<1> USE DEF hierarchies, found
<1>1. TakenCover' /\ FoundCover'
  BY CoverStands DEF Coverage, TakenCover, FoundCover, Taken
<1>2. PathsFirst'
  BY CoverStands DEF Coverage, PathsFirst, Taken, Metrics
<1> QED BY <1>1, <1>2 DEF Coverage

(* The kernel and the administrator change nothing that was read.          *)
Outside ==
  \/ \E h \in Hierarchies : \E g \in groups[h] : Move(h, g) \/ RemoveGroup(h, g)
  \/ \E c \in Handed : \E g \in groups[Unified] : HandDown(c, g) \/ TakeBack(c, g)

LEMMA OutsideCoverage == ASSUME Coverage, Outside PROVE Coverage'
<1>1. UNCHANGED <<mounts, pc, hierarchies, found>>
  BY DEF Outside, Move, RemoveGroup, HandDown, TakeBack, Disturb
<1>2. /\ groups' \in [Hierarchies -> SUBSET Places]
      /\ home' \in [Hierarchies -> Places]
  <2> USE DEF Coverage, World
  <2>1. ASSUME NEW h \in Hierarchies, NEW g \in groups[h], Move(h, g)
        PROVE  <1>2
    BY <2>1 DEF Move
  <2>2. ASSUME NEW h \in Hierarchies, NEW g \in groups[h], RemoveGroup(h, g)
        PROVE  <1>2
    BY <2>2 DEF RemoveGroup
  <2>3. CASE \E c \in Handed : \E g \in groups[Unified] : HandDown(c, g) \/ TakeBack(c, g)
    BY <2>3 DEF HandDown, TakeBack
  <2> QED BY <2>1, <2>2, <2>3 DEF Outside
<1>3. World'
  BY <1>1, <1>2 DEF Coverage, World
<1> QED BY <1>1, <1>3, NothingRead

LEMMA ReadingCoverage ==
  ASSUME Coverage, ReadOwnPaths \/ ReadMounts \/ ProcFails \/ ReadInterface \/ ClearCache
  PROVE  Coverage'
<1>1. World'
  BY DEF Coverage, World, world, ReadOwnPaths, ReadMounts, ProcFails, ReadInterface, ClearCache
<1>2. CASE ReadOwnPaths \/ ProcFails
  <2>1. /\ \A i \in Taken' : i = None
        /\ \A metric \in Metrics : located'[metric] = None
    BY <1>2 DEF Coverage, PathsFirst, ReadOwnPaths, ProcFails, found, Taken
  <2>2. PathsFirst'
    BY <1>2, <2>1
    DEF Coverage, PathsFirst, World, ReadOwnPaths, ProcFails, found, world, Looks, Mounts
  <2> QED BY <1>1, <2>1, <2>2 DEF Coverage, TakenCover, FoundCover
<1>3. CASE ClearCache
  <2>1. /\ \A i \in Taken' : i = None
        /\ \A metric \in Metrics : located'[metric] = None
    BY <1>3 DEF ClearCache, Taken
  <2>2. PathsFirst'
    BY <1>3, <2>1 DEF ClearCache, PathsFirst
  <2> QED BY <1>1, <2>1, <2>2 DEF Coverage, TakenCover, FoundCover
<1>4. CASE ReadMounts \/ ReadInterface
  <2>1. UNCHANGED <<mounts, paths, v1, unified, located>>
    BY <1>4 DEF ReadMounts, ReadInterface, world, hierarchies, found
  <2>2. looks' \subseteq Looks'
    BY <1>4, <2>1
    DEF Coverage, PathsFirst, ReadMounts, ReadInterface, AllLooks, hierarchies, Looks, Mounts
  <2>3. TakenCover' /\ FoundCover'
    BY <2>1, CoverStands DEF Coverage, TakenCover, FoundCover, Taken
  <2>4. PathsFirst'
    BY <1>4, <2>1, <2>2
    DEF Coverage, PathsFirst, ReadMounts, ReadInterface, Taken, Metrics
  <2> QED BY <1>1, <2>3, <2>4 DEF Coverage
<1> QED BY <1>2, <1>3, <1>4

LEMMA LookCoverage == ASSUME Coverage, Look PROVE Coverage'
<1>1. PICK l \in looks :
        /\ looks' = looks \ {l}
        /\ \A c \in Controllers : v1'[c] = v1[c] \/ (v1'[c] = l.mount /\ CoversOwnCgroup(l.mount))
        /\ unified' = unified \/ (unified' = l.mount /\ CoversOwnCgroup(l.mount))
  BY DEF Look
<1>2. /\ pc = "look" /\ pc' = pc
      /\ UNCHANGED <<mounts, groups, home, paths, located>>
  BY DEF Look, world, found
<1>3. l.mount \in Mounts /\ paths \in [Hierarchies -> Places]
  BY <1>2 DEF Coverage, PathsFirst, Looks
<1>4. ASSUME NEW i \in Taken' PROVE i = None \/ Covering(i)'
  <2>1. i \in Taken \/ (i = l.mount /\ CoversOwnCgroup(l.mount))
    BY <1>1 DEF Taken
  <2>2. i = None \/ Covering(i)
    BY <1>3, <2>1 DEF Coverage, TakenCover, Covering, CoversOwnCgroup
  <2> QED BY <1>2, <2>2, CoverStands
<1>5. FoundCover'
  BY <1>2, CoverStands DEF Coverage, FoundCover
<1>6. PathsFirst'
  BY <1>1, <1>2, CoverStands DEF Coverage, PathsFirst
<1> QED BY <1>2, <1>4, <1>5, <1>6 DEF Coverage, World, TakenCover

(* Whatever is located comes from a mount that was taken.                  *)
LEMMA FoundThroughTaken ==
  ASSUME NEW metric \in Metrics
  PROVE  /\ LET found1 == LocateController(metric) IN
              found1 # None => /\ found1.mount \in Taken /\ found1.mount # None
                               /\ found1.levels = CandidateDirs(found1.mount)
         /\ LET found1 == LocateCpuUsage(metric) IN
              found1 # None => /\ found1.mount \in Taken /\ found1.mount # None
                               /\ found1.levels = CandidateDirs(found1.mount)
<1>1. ASSUME NEW i \in Taken
      PROVE  ControllerIn(i, metric) # None =>
               /\ ControllerIn(i, metric).mount \in Taken
               /\ ControllerIn(i, metric).mount # None
               /\ ControllerIn(i, metric).levels = CandidateDirs(ControllerIn(i, metric).mount)
  BY <1>1 DEF ControllerIn
<1>2. unified \in Taken /\ v1["cpuacct"] \in Taken /\ v1[V1Controller[metric]] \in Taken
  BY DEF Taken, Controllers, V1Controller, Metrics
<1>3. LocateController(metric)
        \in {None, ControllerIn(unified, metric), ControllerIn(v1[V1Controller[metric]], metric)}
  BY DEF LocateController, Or
<1>4. LocateCpuUsage(metric)
        \in {None, ControllerIn(unified, metric), ControllerIn(v1["cpuacct"], metric)}
  BY DEF LocateCpuUsage, Or
<1> QED BY <1>1, <1>2, <1>3, <1>4

LEMMA LocateCoverage ==
  ASSUME Coverage, NEW metric \in Metrics, NEW next \in Metrics \cup {"done"},
         Locate(metric, next)
  PROVE  Coverage'
<1>1. /\ UNCHANGED <<mounts, groups, home, paths, v1, unified, looks>>
      /\ pc \in Metrics /\ pc' = next
  BY DEF Locate, world, hierarchies
<1>2. DOMAIN located' = Metrics
  BY DEF Coverage, PathsFirst, Locate
<1>3. ASSUME NEW m \in Metrics, located'[m] # None
      PROVE  /\ Covering(located'[m].mount)
             /\ located'[m].levels = CandidateDirs(located'[m].mount)
  <2>1. CASE m # metric
    <3>1. located'[m] = located[m]
      BY <2>1 DEF Coverage, PathsFirst, Locate
    <3> QED BY <1>3, <3>1 DEF Coverage, FoundCover
  <2>2. CASE m = metric
    <3>1. located'[m] = LocateController(metric) \/ located'[m] = LocateCpuUsage(metric)
      BY <2>2 DEF Coverage, PathsFirst, Locate
    <3>2. /\ located'[m].mount \in Taken /\ located'[m].mount # None
          /\ located'[m].levels = CandidateDirs(located'[m].mount)
      BY <1>3, <3>1, FoundThroughTaken
    <3> QED BY <3>2 DEF Coverage, TakenCover
  <2> QED BY <2>1, <2>2
<1>4. FoundCover' /\ TakenCover'
  BY <1>1, <1>3, CoverStands DEF Coverage, TakenCover, FoundCover, Taken
<1>5. PathsFirst'
  BY <1>1, <1>2 DEF Coverage, PathsFirst, Metrics, Looks, Mounts
<1> QED BY <1>1, <1>4, <1>5 DEF Coverage, World

(* The invariant of the discovery.                                         *)
LEMMA CoverageHolds == Spec => []Coverage
<1>1. ASSUME Coverage, [Next]_vars PROVE Coverage'
  <2>1. CASE Outside
    BY <1>1, <2>1, OutsideCoverage
  <2>2. CASE ReadOwnPaths \/ ReadMounts \/ ProcFails \/ ReadInterface \/ ClearCache
    BY <1>1, <2>2, ReadingCoverage
  <2>3. CASE Look
    BY <1>1, <2>3, LookCoverage
  <2>4. CASE \/ Locate("memory", "quota") \/ Locate("quota", "time")
             \/ Locate("time", "set") \/ Locate("set", "done")
    BY <1>1, <2>4, LocateCoverage DEF Metrics
  <2>5. CASE UNCHANGED vars
    <3>1. World'
      BY <1>1, <2>5 DEF Coverage, World, vars, world
    <3> QED BY <1>1, <2>5, <3>1, NothingRead DEF vars, world
  <2> QED BY <1>1, <2>1, <2>2, <2>3, <2>4, <2>5 DEF Next, Outside
<1> QED BY InitCoverage, <1>1, PTL DEF Spec

-----------------------------------------------------------------------------
(* The levels of a mount that covers this process.                         *)

LEMMA LevelsOfACover ==
  ASSUME World, NEW i, Covering(i)
  PROVE  LET own == Own(i)
             root == mounts[i].root
             dirs == CandidateDirs(i)
             n == Len(own) - Len(root)
         IN /\ own \in Seq(STRING) /\ root \in Seq(STRING) /\ n \in Nat
            /\ IsPrefix(root, own)
            /\ dirs \in Seq(Seq(STRING)) /\ Len(dirs) = n + 1
            /\ \A k \in 1..n + 1 : Denoted(i, dirs[k]) = SubSeq(own, 1, Len(own) + 1 - k)
<1> DEFINE own == Own(i)
           root == mounts[i].root
           dirs == CandidateDirs(i)
           n == Len(own) - Len(root)
           rest == SubSeq(own, Len(root) + 1, Len(own))
<1>1. own \in Seq(STRING) /\ root \in Seq(STRING) /\ IsPrefix(root, own)
  <2>1. mounts \in Seq([hierarchy : Hierarchies, root : Places, conventional : BOOLEAN])
    BY ConstantsAssumption DEF World
  <2>2. mounts[i] \in [hierarchy : Hierarchies, root : Places, conventional : BOOLEAN]
    BY <2>1, LenProperties, ElementOfSeq DEF Covering, Mounts
  <2> QED BY <2>2, ConstantsAssumption DEF Covering, Own, InMount
<1>2. Len(own) \in Nat /\ Len(root) \in Nat /\ n \in Nat
  <2> HIDE DEF own, root
  <2> QED BY <1>1, LenProperties DEF IsPrefix
<1>3. rest \in Seq(STRING) /\ Len(rest) = n
  <2> HIDE DEF own, root
  <2>1. 0 \in 0..Len(own) - Len(root)
    BY <1>2
  <2> QED BY <1>1, <2>1, RootAndRest
<1>4. dirs = [k \in 1..n + 1 |-> SubSeq(rest, 1, n + 1 - k)]
  <2>1. OwnPathWithinMount(i) = rest
    BY <1>1 DEF OwnPathWithinMount
  <2> QED BY <2>1, <1>3 DEF CandidateDirs
<1>5. dirs \in Seq(Seq(STRING)) /\ Len(dirs) = n + 1
  <2>1. \A k \in 1..n + 1 : SubSeq(rest, 1, n + 1 - k) \in Seq(STRING)
    <3> HIDE DEF n, rest
    <3>1. \A k \in 1..n + 1 : n + 1 - k \in 0..Len(rest)
      BY <1>2, <1>3
    <3> QED BY <1>3, <3>1, Beginning
  <2> HIDE DEF n, rest, dirs
  <2>2. n + 1 \in Nat
    BY <1>2
  <2>3. dirs \in [1..n + 1 -> Seq(STRING)]
    BY <1>4, <2>1
  <2>4. dirs \in Seq(Seq(STRING))
    BY <2>2, <2>3, SeqDef
  <2>5. Len(dirs) \in Nat /\ 1..Len(dirs) = 1..n + 1
    BY <2>3, <2>4, LenProperties
  <2> QED BY <2>2, <2>4, <2>5
<1>6. ASSUME NEW k \in 1..n + 1
      PROVE  Denoted(i, dirs[k]) = SubSeq(own, 1, Len(own) + 1 - k)
  <2>1. Denoted(i, dirs[k]) = root \o SubSeq(rest, 1, n + 1 - k)
    BY <1>4 DEF Denoted
  <2> HIDE DEF own, root, dirs
  <2>2. n + 1 - k \in 0..Len(own) - Len(root)
    BY <1>2
  <2>3. root \o SubSeq(rest, 1, n + 1 - k) = SubSeq(own, 1, Len(root) + (n + 1 - k))
    BY <1>1, <2>2, RootAndRest
  <2>4. Len(root) + (n + 1 - k) = Len(own) + 1 - k
    BY <1>2
  <2> QED BY <2>1, <2>3, <2>4
<1> QED BY <1>1, <1>2, <1>5, <1>6

(* Every level read for a metric is a group of this process: the one it    *)
(* was in when its paths were read, then its parents one by one up to the  *)
(* root of the mount (locate_controllers() and _candidate_dirs()).         *)
THEOREM LevelsCorrect == Spec => []LevelsAreItsAncestors
<1>1. Coverage => LevelsAreItsAncestors
  <2> SUFFICES ASSUME Coverage, NEW metric \in Metrics, located[metric] # None
               PROVE  LET i == located[metric].mount
                          levels == located[metric].levels
                      IN /\ Denoted(i, levels[1]) = paths[InMount(i)]
                         /\ \A k \in 2..Len(levels) :
                              Denoted(i, levels[k]) = Parent(Denoted(i, levels[k - 1]))
                         /\ Denoted(i, Last(levels)) = mounts[i].root
    BY DEF LevelsAreItsAncestors
  <2> DEFINE i == located[metric].mount
             levels == located[metric].levels
             own == Own(i)
             root == mounts[i].root
             n == Len(own) - Len(root)
  <2>1. World /\ Covering(i) /\ levels = CandidateDirs(i)
    BY DEF Coverage, FoundCover
  <2>2. /\ own \in Seq(STRING) /\ root \in Seq(STRING) /\ n \in Nat
        /\ IsPrefix(root, own) /\ Len(levels) = n + 1
        /\ \A k \in 1..n + 1 : Denoted(i, levels[k]) = SubSeq(own, 1, Len(own) + 1 - k)
    BY <2>1, LevelsOfACover
  <2>3. own = paths[InMount(i)]
    BY DEF Own
  <2> HIDE DEF i, levels, own, root
  <2>4. Len(own) \in Nat /\ Len(root) \in Nat
    BY <2>2, LenProperties
  <2>5. Denoted(i, levels[1]) = own
    <3>1. 1 \in 1..n + 1 /\ Len(own) + 1 - 1 = Len(own)
      BY <2>2, <2>4
    <3>2. Denoted(i, levels[1]) = SubSeq(own, 1, Len(own))
      BY <2>2, <3>1
    <3> QED BY <2>2, <3>2, SubSeqFull
  <2>6. ASSUME NEW k \in 2..Len(levels)
        PROVE  Denoted(i, levels[k]) = Parent(Denoted(i, levels[k - 1]))
    <3> DEFINE m == Len(own) + 1 - (k - 1)
    <3>1. k \in 1..n + 1 /\ k - 1 \in 1..n + 1 /\ m \in 1..Len(own)
          /\ m - 1 = Len(own) + 1 - k
      BY <2>2, <2>4
    <3>2. /\ Denoted(i, levels[k - 1]) = SubSeq(own, 1, m)
          /\ Denoted(i, levels[k]) = SubSeq(own, 1, m - 1)
      BY <2>2, <3>1
    <3> HIDE DEF m
    <3>3. Len(SubSeq(own, 1, m)) = m
      BY <2>2, <3>1, Beginning
    <3>4. Parent(SubSeq(own, 1, m)) = SubSeq(SubSeq(own, 1, m), 1, m - 1)
      BY <3>3 DEF Parent, Front
    <3>5. m \in 0..Len(own) /\ m - 1 \in 0..m
      BY <3>1, <2>4
    <3> QED BY <2>2, <3>2, <3>4, <3>5, BeginningOfBeginning
  <2>7. Denoted(i, Last(levels)) = root
    <3>1. /\ n + 1 \in 1..n + 1 /\ Last(levels) = levels[n + 1]
          /\ Len(own) + 1 - (n + 1) = Len(root)
      BY <2>2, <2>4 DEF Last
    <3>2. Denoted(i, Last(levels)) = SubSeq(own, 1, Len(root))
      BY <2>2, <3>1
    <3>3. SubSeq(own, 1, Len(root)) = SubSeq(root, 1, Len(root))
      BY <2>2 DEF IsPrefix
    <3> QED BY <2>2, <3>2, <3>3, SubSeqFull
  <2> QED BY <2>3, <2>5, <2>6, <2>7 DEF i, levels, root
<1> QED BY <1>1, CoverageHolds, PTL

(* Every group on the way of this process to the root is read, or a notice *)
(* says that some cannot be (mechanism_notices()).                         *)
THEOREM HiddenOrSeen == Spec => []SeenOrNoticed
<1>1. Coverage => SeenOrNoticed
  <2> SUFFICES ASSUME Coverage, NEW metric \in Metrics, located[metric] # None,
                      mounts[located[metric].mount].root = <<>>
               PROVE  AndAncestors(paths[InMount(located[metric].mount)])
                        \subseteq {Denoted(located[metric].mount, located[metric].levels[k]) :
                                    k \in DOMAIN located[metric].levels}
    <3>1. ASSUME NEW metric \in Metrics, located[metric] # None,
                 mounts[located[metric].mount].root # <<>>
          PROVE  Hidden(metric) \in MechanismNotices
      BY <3>1 DEF Hidden, MechanismNotices, Truncated, CpuMetrics, Metrics
    <3> QED BY <3>1 DEF SeenOrNoticed
  <2> DEFINE i == located[metric].mount
             levels == located[metric].levels
             own == Own(i)
  <2>1. World /\ Covering(i) /\ levels = CandidateDirs(i)
    BY DEF Coverage, FoundCover
  <2>2. Len(mounts[i].root) = 0
    OBVIOUS
  <2>3. /\ own \in Seq(STRING) /\ levels \in Seq(Seq(STRING)) /\ Len(levels) = Len(own) + 1
        /\ \A k \in 1..Len(own) + 1 : Denoted(i, levels[k]) = SubSeq(own, 1, Len(own) + 1 - k)
    <3>1. Len(own) \in Nat
      BY <2>1, LevelsOfACover, LenProperties
    <3>2. Len(own) - Len(mounts[i].root) = Len(own)
      BY <2>2, <3>1
    <3> QED BY <2>1, <3>2, LevelsOfACover
  <2>4. own = paths[InMount(i)]
    BY DEF Own
  <2> HIDE DEF i, levels, own
  <2>5. Len(own) \in Nat /\ DOMAIN levels = 1..Len(own) + 1
    BY <2>3, LenProperties
  <2>6. ASSUME NEW k \in 0..Len(own)
        PROVE  \E l \in DOMAIN levels : SubSeq(own, 1, k) = Denoted(i, levels[l])
    <3> DEFINE l == Len(own) + 1 - k
    <3>1. l \in 1..Len(own) + 1 /\ Len(own) + 1 - l = k
      BY <2>5
    <3> HIDE DEF l
    <3> QED BY <2>3, <2>5, <3>1
  <2> QED BY <2>4, <2>6 DEF AndAncestors, i, levels
<1> QED BY <1>1, CoverageHolds, PTL

-----------------------------------------------------------------------------
(* The kernel: its groups are a tree, and a controller is handed down from *)
(* group to group.                                                         *)

Tree == \A h \in Hierarchies : \A g \in groups[h] : AndAncestors(g) \subseteq groups[h]
Delegated == \A c \in Handed : \A g \in subtree[c] : Given(c, g)

Kernel ==
  /\ World
  /\ binding \in Bindings
  /\ \A h \in Hierarchies : home[h] \in groups[h]
  /\ subtree \in [Handed -> SUBSET groups[Unified]]
  /\ churn \in 0..MaxChurn
  /\ Tree /\ Delegated

LEMMA GroupPaths ==
  ASSUME World, NEW h \in Hierarchies, NEW g \in groups[h]
  PROVE  /\ g \in Places /\ g \in Seq(STRING) /\ Len(g) \in Nat
         /\ g \in AndAncestors(g)
<1>1. g \in Places /\ g \in Seq(STRING) /\ Len(g) \in Nat
  BY ConstantsAssumption, LenProperties DEF World
<1>2. SubSeq(g, 1, Len(g)) = g
  BY <1>1, SubSeqFull
<1>3. \E n \in 0..Len(g) : g = SubSeq(g, 1, n)
  <2>1. Len(g) \in 0..Len(g)
    BY <1>1
  <2> QED BY <1>2, <2>1
<1> QED BY <1>1, <1>3 DEF AndAncestors

LEMMA ChildPath ==
  ASSUME NEW g \in Seq(STRING), NEW n \in 0..Len(g), n # Len(g)
  PROVE  LET k == SubSeq(g, 1, n + 1)
         IN k \in Seq(STRING) /\ k # <<>> /\ Parent(k) = SubSeq(g, 1, n)
<1> DEFINE k == SubSeq(g, 1, n + 1)
<1>1. Len(g) \in Nat /\ n \in Nat /\ n + 1 \in 0..Len(g) /\ n \in 0..n + 1
  BY LenProperties
<1>2. k \in Seq(STRING) /\ Len(k) = n + 1
  BY <1>1, Beginning
<1>3. k # <<>>
  <2>1. Len(<<>>) = 0
    OBVIOUS
  <2> HIDE DEF k
  <2> QED BY <1>1, <1>2, <2>1
<1>4. Parent(k) = SubSeq(k, 1, n)
  <2> HIDE DEF k
  <2>1. Len(k) - 1 = n
    BY <1>1, <1>2
  <2> QED BY <2>1 DEF Parent, Front
<1>5. SubSeq(k, 1, n) = SubSeq(g, 1, n)
  BY <1>1, BeginningOfBeginning
<1> QED BY <1>2, <1>3, <1>4, <1>5

(* A group with no child is above no other.                                *)
LEMMA LeafAlone ==
  ASSUME World, Tree, NEW h \in Hierarchies, NEW g, Leaf(h, g),
         NEW other \in groups[h], g \in AndAncestors(other)
  PROVE  other = g
<1>1. other \in Seq(STRING) /\ Len(other) \in Nat
  BY GroupPaths
<1>2. PICK n \in 0..Len(other) : g = SubSeq(other, 1, n)
  BY DEF AndAncestors
<1>3. CASE n = Len(other)
  BY <1>1, <1>2, <1>3, SubSeqFull
<1>4. CASE n # Len(other)
  <2> DEFINE k == SubSeq(other, 1, n + 1)
  <2>1. k # <<>> /\ Parent(k) = g
    BY <1>1, <1>2, <1>4, ChildPath
  <2>2. n + 1 \in 0..Len(other)
    BY <1>1, <1>4
  <2>3. k \in groups[h]
    BY <2>2 DEF Tree, AndAncestors
  <2> QED BY <2>1, <2>3 DEF Leaf
<1> QED BY <1>3, <1>4

LEMMA InitKernel == Init => Kernel
<1> SUFFICES ASSUME Init PROVE Kernel
  OBVIOUS
<1> USE DEF Init
<1>1. World
  BY DEF World
<1>2. Tree
  BY ConstantsAssumption DEF Tree
<1>3. \A h \in Hierarchies : groups[h] = Places /\ home[h] \in groups[h]
  OBVIOUS
<1>4. subtree \in [Handed -> SUBSET groups[Unified]]
  BY <1>3 DEF Hierarchies
<1>5. Delegated
  BY DEF Delegated
<1> QED BY <1>1, <1>2, <1>3, <1>4, <1>5 DEF Kernel

LEMMA RemoveKernel ==
  ASSUME Kernel, NEW h \in Hierarchies, NEW g \in groups[h], RemoveGroup(h, g)
  PROVE  Kernel'
<1>1. /\ World /\ Tree /\ Delegated /\ binding \in Bindings
      /\ groups \in [Hierarchies -> SUBSET Places]
      /\ subtree \in [Handed -> SUBSET groups[Unified]] /\ Unified \in Hierarchies
  BY DEF Kernel, World, Hierarchies
<1>2. /\ g # <<>> /\ Leaf(h, g) /\ home[h] # g
      /\ groups' = [groups EXCEPT ![h] = @ \ {g}]
      /\ subtree' = IF h # Unified THEN subtree ELSE [c \in Handed |-> subtree[c] \ {g}]
      /\ UNCHANGED <<binding, mounts, home>> /\ churn' \in 0..MaxChurn
  BY ConstantsAssumption DEF RemoveGroup, Disturb, Kernel
<1>3. /\ groups' \in [Hierarchies -> SUBSET Places]
      /\ groups'[h] = groups[h] \ {g}
      /\ \A other \in Hierarchies : other # h => groups'[other] = groups[other]
  BY <1>1, <1>2
<1>4. World'
  BY <1>1, <1>2, <1>3 DEF World
<1>5. \A other \in Hierarchies : home'[other] \in groups'[other]
  BY <1>2, <1>3 DEF Kernel
<1>6. subtree' \in [Handed -> SUBSET groups'[Unified]]
  BY <1>1, <1>2, <1>3
<1>7. Tree'
  <2> SUFFICES ASSUME NEW other \in groups'[h], NEW a \in AndAncestors(other)
               PROVE  a # g
    BY <1>1, <1>3 DEF Tree
  <2>1. other \in groups[h] /\ other # g
    BY <1>3
  <2> QED BY <1>1, <1>2, <2>1, LeafAlone
<1>8. Delegated'
  <2> SUFFICES ASSUME NEW c \in Handed, NEW k \in subtree'[c]
               PROVE  Given(c, k)'
    BY DEF Delegated
  <2>1. k \in subtree[c] /\ Given(c, k) /\ subtree[c] \subseteq groups[Unified]
    BY <1>1, <1>2 DEF Delegated
  <2>2. ASSUME k # <<>> PROVE Parent(k) \in subtree'[c]
    <3>1. Parent(k) \in subtree[c]
      BY <2>1, <2>2 DEF Given
    <3>2. h = Unified => Parent(k) # g
      BY <1>2, <2>1, <2>2 DEF Leaf
    <3> QED BY <1>2, <3>1, <3>2
  <2> QED BY <1>2, <2>1, <2>2 DEF Given
<1> QED BY <1>1, <1>2, <1>4, <1>5, <1>6, <1>7, <1>8 DEF Kernel

LEMMA OutsideKernel == ASSUME Kernel, Outside PROVE Kernel'
<1>1. /\ World /\ Tree /\ Delegated /\ binding \in Bindings
      /\ groups \in [Hierarchies -> SUBSET Places] /\ home \in [Hierarchies -> Places]
      /\ \A h \in Hierarchies : home[h] \in groups[h]
      /\ subtree \in [Handed -> SUBSET groups[Unified]] /\ Unified \in Hierarchies
  BY DEF Kernel, World, Hierarchies
<1>2. ASSUME NEW h \in Hierarchies, NEW g \in groups[h], Move(h, g)
      PROVE  Kernel'
  <2>1. /\ home' = [home EXCEPT ![h] = g] /\ UNCHANGED <<binding, mounts, groups, subtree>>
        /\ churn' \in 0..MaxChurn
    BY <1>2, ConstantsAssumption DEF Move, Disturb, Kernel
  <2>2. World' /\ \A other \in Hierarchies : home'[other] \in groups'[other]
    BY <1>1, <2>1 DEF World
  <2>3. Tree' /\ Delegated'
    BY <1>1, <2>1 DEF Tree, Delegated, Given
  <2> QED BY <1>1, <2>1, <2>2, <2>3 DEF Kernel
<1>3. ASSUME NEW c \in Handed, NEW g \in groups[Unified], HandDown(c, g) \/ TakeBack(c, g)
      PROVE  Kernel'
  <2>1. /\ UNCHANGED <<binding, mounts, groups, home>> /\ churn' \in 0..MaxChurn
        /\ \/ Given(c, g) /\ subtree' = [subtree EXCEPT ![c] = @ \cup {g}]
           \/ /\ \A k \in subtree[c] : k # <<>> => Parent(k) # g
              /\ subtree' = [subtree EXCEPT ![c] = @ \ {g}]
    BY <1>3, ConstantsAssumption DEF HandDown, TakeBack, Disturb, Kernel
  <2>2. subtree' \in [Handed -> SUBSET groups'[Unified]]
    BY <1>1, <2>1
  <2>3. Delegated'
    <3> SUFFICES ASSUME NEW d \in Handed, NEW k \in subtree'[d]
                 PROVE  binding'[d] = Unified /\ (k # <<>> => Parent(k) \in subtree'[d])
      BY DEF Delegated, Given
    <3>1. k \in subtree[d] => binding[d] = Unified /\ (k # <<>> => Parent(k) \in subtree[d])
      BY <1>1 DEF Delegated, Given
    <3>2. CASE Given(c, g) /\ subtree' = [subtree EXCEPT ![c] = @ \cup {g}]
      BY <1>1, <2>1, <3>1, <3>2 DEF Given
    <3>3. CASE /\ \A j \in subtree[c] : j # <<>> => Parent(j) # g
               /\ subtree' = [subtree EXCEPT ![c] = @ \ {g}]
      <4>1. k \in subtree[d]
        BY <1>1, <3>3
      <4>2. CASE d = c
        BY <1>1, <2>1, <3>1, <3>3, <4>1, <4>2
      <4>3. CASE d # c
        BY <1>1, <2>1, <3>1, <3>3, <4>1, <4>3
      <4> QED BY <4>2, <4>3
    <3> QED BY <2>1, <3>2, <3>3
  <2>4. World' /\ Tree'
    BY <1>1, <2>1 DEF World, Tree
  <2> QED BY <1>1, <2>1, <2>2, <2>3, <2>4 DEF Kernel
<1> QED BY <1>2, <1>3, RemoveKernel DEF Outside

LEMMA KernelStands ==
  ASSUME Kernel, UNCHANGED world
  PROVE  Kernel'
BY DEF Kernel, World, Tree, Delegated, Given, world

-----------------------------------------------------------------------------
(* What discovery has taken and found at each point of its way.            *)

Typed ==
  /\ pc \in {"paths", "mounts", "look", "interface", "done"} \cup Metrics
  /\ paths \in [Hierarchies -> Places] \cup {None}
  /\ v1 \in [Controllers -> Mounts \cup {None}]
  /\ unified \in Mounts \cup {None}
  /\ interface \in {"v1", "v2", None}
  /\ still \in BOOLEAN
  /\ located \in [Metrics -> Located \cup {None}]

(* A mount is taken for what it is mounted for.                            *)
TakenForWhatItIs ==
  /\ looks \subseteq AllLooks
  /\ \A c \in Controllers : v1[c] # None =>
       binding[c] = InMount(v1[c]) /\ InMount(v1[c]) # Unified
  /\ unified # None => InMount(unified) = Unified

(* A metric is found in a mount that was taken, and nothing is found       *)
(* before the mounts were looked at.                                       *)
FoundForWhatItIs ==
  /\ pc = "look" => \A metric \in Metrics : located[metric] = None
  /\ \A metric \in Metrics : located[metric] # None =>
       LET i == located[metric].mount
       IN /\ i \in Taken /\ i # None
          /\ located[metric].isV2 = (InMount(i) = Unified)
          /\ metric # "time" => InMount(i) = binding[V1Controller[metric]]

Looked ==
  pc \in Metrics \cup {"done"} /\ paths # None =>
    /\ looks = {}
    /\ interface = None => \A i \in Taken : i = None

Found(metric) ==
  IF metric = "time" THEN LocateCpuUsage(metric) ELSE LocateController(metric)

After ==
  [memory |-> {"quota", "time", "set", "done"}, quota |-> {"time", "set", "done"},
   time |-> {"set", "done"}, set |-> {"done"}]

Passed == {metric \in Metrics : pc \in After[metric]}

Served(c) == IF c = None THEN unified # None ELSE v1[c] # None

(* Where nothing has changed since discovery began: the paths are where    *)
(* this process is, every mount that was looked at and shows it has served *)
(* its controller, the first of them was taken, and what was found is what *)
(* would be found now.                                                     *)
Current == still /\ paths # None

AsItIs ==
  Current =>
    /\ paths = home
    /\ pc \in {"look", "done"} \cup Metrics =>
         /\ \A l \in AllLooks \ looks : CoversOwnCgroup(l.mount) => Served(l.controller)
         /\ \A i \in Taken : i # None => CoversOwnCgroup(i)
         /\ \A c \in Controllers : v1[c] # None =>
              \A i \in Mounts : InMount(i) = InMount(v1[c]) /\ i < v1[c] => ~CoversOwnCgroup(i)
    /\ \A metric \in Passed : located[metric] = Found(metric)

IInv ==
  /\ Kernel /\ Coverage /\ Typed /\ TakenForWhatItIs /\ FoundForWhatItIs
  /\ Looked /\ AsItIs

(* A mount is a place in the table.                                        *)
LEMMA MountKinds ==
  ASSUME World
  PROVE  /\ Mounts \subseteq Nat
         /\ \A i \in Mounts : InMount(i) \in Hierarchies /\ mounts[i].root \in Places
         /\ Located \subseteq [isV2 : BOOLEAN, mount : Nat, levels : Seq(Seq(STRING))]
<1>1. mounts \in Seq([hierarchy : Hierarchies, root : Places, conventional : BOOLEAN])
  BY ConstantsAssumption DEF World
<1>2. Mounts = 1..Len(mounts) /\ Len(mounts) \in Nat
  BY <1>1, LenProperties DEF Mounts
<1>3. \A i \in Mounts : mounts[i] \in [hierarchy : Hierarchies, root : Places, conventional : BOOLEAN]
  BY <1>1, <1>2, ElementOfSeq
<1> QED BY <1>2, <1>3 DEF InMount, Located

(* None is no mount and no source.                                         *)
LEMMA NoneIsNothing ==
  ASSUME World
  PROVE  /\ \A i \in Mounts : i # None
         /\ \A c \in Controllers : c # None
         /\ None \notin Located
BY MountKinds, NoneAssumption

LEMMA TableStands ==
  ASSUME UNCHANGED <<binding, mounts>>
  PROVE  /\ Mounts' = Mounts /\ Looks' = Looks /\ Located' = Located /\ AllLooks' = AllLooks
         /\ \A i : InMount(i)' = InMount(i) /\ Options(i)' = Options(i)
BY DEF Mounts, Looks, Located, AllLooks, InMount, Options

LEMMA SightStands ==
  ASSUME UNCHANGED <<world, paths>>
  PROVE  /\ \A i : CoversOwnCgroup(i)' <=> CoversOwnCgroup(i)
         /\ \A i : BoundControllers(i)' = BoundControllers(i)
         /\ \A i, metric : ControllerIn(i, metric)' = ControllerIn(i, metric)
<1> USE DEF world
<1>1. \A i : /\ Own(i)' = Own(i) /\ InMount(i)' = InMount(i)
             /\ OwnPathWithinMount(i)' = OwnPathWithinMount(i)
  BY DEF Own, InMount, OwnPathWithinMount
<1>2. \A i, dir : (Exists(i, dir)' <=> Exists(i, dir)) /\ Denoted(i, dir)' = Denoted(i, dir)
  BY DEF Exists, Denoted, InMount
<1>3. \A c, g : Given(c, g)' <=> Given(c, g)
  BY DEF Given
<1>4. \A metric, h, g : HasFile(metric, h, g)' <=> HasFile(metric, h, g)
  BY <1>3 DEF HasFile
<1>5. \A i : CandidateDirs(i)' = CandidateDirs(i)
  BY <1>1 DEF CandidateDirs
<1>6. \A i, metric : AnyLevelWith(metric, i)' <=> AnyLevelWith(metric, i)
  BY <1>1, <1>2, <1>4, <1>5 DEF AnyLevelWith
<1>7. \A i : CoversOwnCgroup(i)' <=> CoversOwnCgroup(i)
  BY <1>1, <1>2 DEF CoversOwnCgroup
<1>8. \A i : BoundControllers(i)' = BoundControllers(i)
  BY <1>2, <1>3 DEF BoundControllers
<1> QED BY <1>1, <1>5, <1>6, <1>7, <1>8 DEF ControllerIn

(* Nothing found yet.                                                      *)
LEMMA InitReading == Init => IInv
<1> SUFFICES ASSUME Init PROVE IInv
  OBVIOUS
<1>1. Kernel /\ Coverage
  BY InitKernel, InitCoverage
<1> USE DEF Init
<1>2. \A i \in Taken : i = None
  BY DEF Taken
<1>3. Typed
  BY DEF Typed
<1>4. TakenForWhatItIs /\ FoundForWhatItIs
  BY DEF TakenForWhatItIs, FoundForWhatItIs
<1>5. Looked /\ AsItIs
  BY DEF Looked, AsItIs, Current, Metrics
<1> QED BY <1>1, <1>2, <1>3, <1>4, <1>5 DEF IInv

(* The kernel and the administrator touch nothing that was read; nothing   *)
(* is as it was.                                                           *)
LEMMA OutsideReading == ASSUME IInv, Outside PROVE IInv'
<1>1. Kernel' /\ Coverage'
  BY OutsideKernel, OutsideCoverage DEF IInv
<1>2. UNCHANGED <<binding, mounts, pc, paths, looks, v1, unified, interface, located>>
      /\ still' = FALSE
  BY DEF Outside, Move, RemoveGroup, HandDown, TakeBack, Disturb, hierarchies, found
<1>3. Typed'
  BY <1>2, TableStands DEF IInv, Typed, Metrics
<1>4. TakenForWhatItIs'
  BY <1>2, TableStands DEF IInv, TakenForWhatItIs
<1>5. FoundForWhatItIs'
  BY <1>2, TableStands DEF IInv, FoundForWhatItIs, Taken, Metrics
<1>6. Looked' /\ AsItIs'
  BY <1>2 DEF IInv, Looked, AsItIs, Current, Taken, Metrics
<1> QED BY <1>1, <1>3, <1>4, <1>5, <1>6 DEF IInv

(* The steps that take no mount and find nothing.                          *)
LEMMA NothingTaken ==
  ASSUME Coverage, pc \in {"paths", "mounts"}
  PROVE  /\ \A i \in Taken : i = None
         /\ \A metric \in Metrics : located[metric] = None
         /\ \A c \in Controllers : v1[c] = None
         /\ unified = None
BY DEF Coverage, PathsFirst, Taken

LEMMA PathsReading == ASSUME IInv, ReadOwnPaths \/ ProcFails PROVE IInv'
<1>1. Kernel' /\ Coverage'
  <2>1. UNCHANGED world
    BY DEF ReadOwnPaths, ProcFails
  <2> QED BY <2>1, KernelStands, ReadingCoverage DEF IInv
<1>2. /\ pc \in {"paths", "mounts"} /\ pc' \in {"mounts", "done"}
      /\ (pc' = "mounts" /\ paths' = home) \/ (pc' = "done" /\ paths' = None)
      /\ UNCHANGED <<world, still, looks, v1, unified, found>>
  BY DEF ReadOwnPaths, ProcFails
<1>3. /\ UNCHANGED <<binding, mounts, still, looks, v1, unified, interface, located>>
      /\ World
  BY <1>2 DEF world, found, IInv, Kernel
<1>4. /\ \A i \in Taken : i = None
      /\ \A metric \in Metrics : located[metric] = None
  BY <1>2, NothingTaken DEF IInv
<1>5. Typed'
  <2>1. paths' \in [Hierarchies -> Places] \cup {None}
    BY <1>2, <1>3 DEF World
  <2> QED BY <1>2, <1>3, <2>1, TableStands DEF IInv, Typed, Metrics
<1>6. TakenForWhatItIs'
  BY <1>3, TableStands DEF IInv, TakenForWhatItIs
<1>7. FoundForWhatItIs'
  BY <1>2, <1>3, <1>4 DEF FoundForWhatItIs
<1>8. Looked'
  BY <1>2 DEF Looked, Metrics
<1>9. AsItIs'
  <2>1. UNCHANGED home
    BY <1>2 DEF world
  <2> QED BY <1>2, <1>3, <2>1 DEF AsItIs, Current, Passed, After, Metrics
<1> QED BY <1>1, <1>5, <1>6, <1>7, <1>8, <1>9 DEF IInv

LEMMA MountsReading == ASSUME IInv, ReadMounts PROVE IInv'
<1>1. Kernel' /\ Coverage'
  <2>1. UNCHANGED world
    BY DEF ReadMounts
  <2> QED BY <2>1, KernelStands, ReadingCoverage DEF IInv
<1>2. /\ pc = "mounts" /\ pc' = "look" /\ looks' = AllLooks
      /\ UNCHANGED <<binding, mounts, home, still, paths, v1, unified, interface, located>>
  BY DEF ReadMounts, world, found
<1>3. /\ \A i \in Taken : i = None
      /\ \A metric \in Metrics : located[metric] = None
      /\ \A c \in Controllers : v1[c] = None
  BY <1>2, NothingTaken DEF IInv
<1>4. \A i \in Taken' : i = None
  BY <1>2, <1>3 DEF Taken
<1>5. Typed'
  BY <1>2, TableStands DEF IInv, Typed, Metrics
<1>6. TakenForWhatItIs'
  BY <1>2, TableStands DEF IInv, TakenForWhatItIs
<1>7. FoundForWhatItIs'
  BY <1>2, <1>3 DEF FoundForWhatItIs
<1>8. Looked'
  BY <1>2 DEF Looked, Metrics
<1>9. AsItIs'
  <2>1. AllLooks' \ looks' = {}
    BY <1>2, TableStands
  <2>2. Passed' = {}
    BY <1>2 DEF Passed, After, Metrics
  <2> QED BY <1>2, <1>3, <1>4, <2>1, <2>2 DEF IInv, AsItIs, Current
<1> QED BY <1>1, <1>5, <1>6, <1>7, <1>8, <1>9 DEF IInv

LEMMA ClearReading == ASSUME IInv, ClearCache PROVE IInv'
<1>1. Kernel' /\ Coverage'
  <2>1. UNCHANGED world
    BY DEF ClearCache
  <2> QED BY <2>1, KernelStands, ReadingCoverage DEF IInv
<1>2. /\ pc' = "paths" /\ paths' = None /\ looks' = {}
      /\ v1' = [c \in Controllers |-> None] /\ unified' = None
      /\ interface' = None /\ located' = [metric \in Metrics |-> None]
      /\ still' = TRUE
  BY DEF ClearCache
<1>3. Typed' /\ TakenForWhatItIs' /\ FoundForWhatItIs'
  BY <1>2 DEF Typed, TakenForWhatItIs, FoundForWhatItIs
<1>4. Looked' /\ AsItIs'
  BY <1>2 DEF Looked, AsItIs, Current, Metrics
<1> QED BY <1>1, <1>3, <1>4 DEF IInv

LEMMA InterfaceReading == ASSUME IInv, ReadInterface PROVE IInv'
<1>1. Kernel' /\ Coverage' /\ World
  <2>1. UNCHANGED world
    BY DEF ReadInterface
  <2> QED BY <2>1, KernelStands, ReadingCoverage DEF IInv, Kernel
<1>2. /\ pc = "look" /\ pc' = "memory" /\ looks = {} /\ interface' = Interface
      /\ UNCHANGED <<world, still, paths, looks, v1, unified, located>>
  BY DEF ReadInterface, hierarchies
<1>3. UNCHANGED <<binding, mounts, home>>
  BY <1>2 DEF world
<1>4. /\ Interface \in {"v1", "v2", None}
      /\ Interface = None => \A i \in Taken : i = None
  <2>1. None \notin {"v1", "v2"}
    BY NoneAssumption
  <2> QED BY <2>1 DEF Interface, HeldByV1, Taken
<1>5. Typed'
  BY <1>2, <1>3, <1>4, TableStands DEF IInv, Typed, Metrics
<1>6. TakenForWhatItIs'
  BY <1>2, <1>3, TableStands DEF IInv, TakenForWhatItIs
<1>7. FoundForWhatItIs'
  BY <1>2 DEF IInv, FoundForWhatItIs
<1>8. Looked'
  BY <1>2, <1>4 DEF Looked, Taken
<1>9. AsItIs'
  <2>1. Passed' = {}
    BY <1>2 DEF Passed, After, Metrics
  <2>2. /\ \A i : (CoversOwnCgroup(i)' <=> CoversOwnCgroup(i)) /\ InMount(i)' = InMount(i)
        /\ AllLooks' = AllLooks /\ Mounts' = Mounts
    BY <1>2, <1>3, SightStands, TableStands
  <2> QED BY <1>2, <1>3, <2>1, <2>2 DEF IInv, AsItIs, Current, Served, Taken
<1> QED BY <1>1, <1>5, <1>6, <1>7, <1>8, <1>9 DEF IInv

(* One mount is looked at: the first that shows this process is taken.     *)
LEMMA LookReading == ASSUME IInv, Look PROVE IInv'
<1>1. Kernel' /\ Coverage' /\ World
  <2>1. UNCHANGED world
    BY DEF Look
  <2> QED BY <2>1, KernelStands, LookCoverage DEF IInv, Kernel
<1>2. PICK l \in looks :
        /\ \A other \in looks : ~Earlier(other, l)
        /\ looks' = looks \ {l}
        /\ v1' = [c \in Controllers |->
                    IF c = l.controller /\ v1[c] = None /\ CoversOwnCgroup(l.mount)
                    THEN l.mount ELSE v1[c]]
        /\ unified' = IF /\ l.controller = None /\ Better(l.mount, unified)
                         /\ CoversOwnCgroup(l.mount)
                      THEN l.mount ELSE unified
  BY DEF Look
<1>3. /\ pc = "look" /\ pc' = pc
      /\ UNCHANGED <<world, still, paths, interface, located>>
  BY DEF Look, found
<1>4. UNCHANGED <<binding, mounts, home>>
  BY <1>3 DEF world
<1>5. /\ l \in AllLooks /\ l \in Looks /\ l.mount \in Mounts
      /\ (l.controller # None <=> InMount(l.mount) # Unified)
      /\ l.controller # None =>
           l.controller \in Controllers /\ binding[l.controller] = InMount(l.mount)
  BY <1>1, NoneIsNothing DEF IInv, TakenForWhatItIs, AllLooks, Looks, Options
<1>6. /\ \A i : (CoversOwnCgroup(i)' <=> CoversOwnCgroup(i)) /\ InMount(i)' = InMount(i)
      /\ AllLooks' = AllLooks /\ Mounts' = Mounts /\ Located' = Located
  BY <1>3, <1>4, SightStands, TableStands
<1>7. ASSUME NEW c \in Controllers
      PROVE  \/ v1'[c] = v1[c]
             \/ /\ v1'[c] = l.mount /\ c = l.controller /\ v1[c] = None
                /\ CoversOwnCgroup(l.mount)
  BY <1>2
<1>8. \/ unified' = unified
      \/ unified' = l.mount /\ l.controller = None /\ CoversOwnCgroup(l.mount)
  BY <1>2
<1>9. Typed'
  <2>1. v1' \in [Controllers -> Mounts \cup {None}]
    BY <1>2, <1>5 DEF IInv, Typed
  <2>2. unified' \in Mounts \cup {None}
    BY <1>5, <1>8 DEF IInv, Typed
  <2> QED BY <1>3, <1>6, <2>1, <2>2 DEF IInv, Typed
<1>10. TakenForWhatItIs'
  <2>1. ASSUME NEW c \in Controllers, v1'[c] # None
        PROVE  binding[c] = InMount(v1'[c]) /\ InMount(v1'[c]) # Unified
    BY <1>1, <1>5, <1>7, <2>1, NoneIsNothing DEF IInv, TakenForWhatItIs
  <2>2. unified' # None => InMount(unified') = Unified
    BY <1>5, <1>8 DEF IInv, TakenForWhatItIs
  <2>3. looks' \subseteq AllLooks
    BY <1>2 DEF IInv, TakenForWhatItIs
  <2> QED BY <1>4, <1>6, <2>1, <2>2, <2>3 DEF TakenForWhatItIs, InMount
<1>11. FoundForWhatItIs'
  BY <1>3 DEF IInv, FoundForWhatItIs
<1>12. Looked'
  BY <1>3 DEF Looked, Metrics
<1>13. AsItIs'
  <2> SUFFICES ASSUME Current'
               PROVE  /\ \A o \in AllLooks \ looks' : CoversOwnCgroup(o.mount) => Served(o.controller)'
                      /\ \A i \in Taken' : i # None => CoversOwnCgroup(i)
                      /\ \A c \in Controllers : v1'[c] # None =>
                           \A i \in Mounts : InMount(i) = InMount(v1'[c]) /\ i < v1'[c]
                             => ~CoversOwnCgroup(i)
    <3>1. Passed' = {}
      BY <1>3 DEF Passed, After, Metrics
    <3>2. Current' => paths' = home'
      BY <1>3, <1>4 DEF IInv, AsItIs, Current
    <3> QED BY <1>4, <1>6, <3>1, <3>2 DEF AsItIs, InMount
  <2>1. /\ \A o \in AllLooks \ looks : CoversOwnCgroup(o.mount) => Served(o.controller)
        /\ \A i \in Taken : i # None => CoversOwnCgroup(i)
        /\ \A c \in Controllers : v1[c] # None =>
             \A i \in Mounts : InMount(i) = InMount(v1[c]) /\ i < v1[c] => ~CoversOwnCgroup(i)
    BY <1>3 DEF IInv, AsItIs, Current
  <2>2. ASSUME NEW o \in AllLooks \ looks', CoversOwnCgroup(o.mount)
        PROVE  Served(o.controller)'
    <3>1. o.controller \in Controllers \cup {None}
      BY DEF AllLooks, Looks
    <3>2. CASE o # l
      <4>1. Served(o.controller)
        BY <1>2, <2>1, <2>2, <3>2
      <4>2. o.controller # None => v1[o.controller] # None /\ v1'[o.controller] = v1[o.controller]
        BY <1>7, <3>1, <4>1 DEF Served
      <4>3. o.controller = None => unified' # None
        BY <1>1, <1>5, <1>8, <4>1, NoneIsNothing DEF Served
      <4> QED BY <4>2, <4>3 DEF Served
    <3>3. CASE o = l
      <4>1. l.controller = None => unified' # None
        BY <1>1, <1>2, <1>5, <2>2, <3>3, NoneIsNothing DEF Better
      <4>2. l.controller # None => v1'[l.controller] # None
        BY <1>1, <1>2, <1>5, <2>2, <3>3, NoneIsNothing
      <4> QED BY <3>3, <4>1, <4>2 DEF Served
    <3> QED BY <3>2, <3>3
  <2>3. ASSUME NEW i \in Taken', i # None PROVE CoversOwnCgroup(i)
    <3>1. i \in Taken \/ CoversOwnCgroup(i)
      BY <1>7, <1>8 DEF Taken
    <3> QED BY <2>1, <2>3, <3>1
  <2>4. ASSUME NEW c \in Controllers, v1'[c] # None, NEW i \in Mounts,
               InMount(i) = InMount(v1'[c]), i < v1'[c], CoversOwnCgroup(i)
        PROVE  FALSE
    <3>1. v1'[c] = l.mount /\ c = l.controller /\ v1[c] = None
      BY <1>7, <2>1, <2>4
    <3> DEFINE o == [mount |-> i, controller |-> c]
    <3>2. InMount(i) # Unified /\ binding[c] = InMount(i) /\ c # None
      BY <1>1, <1>5, <2>4, <3>1, NoneIsNothing
    <3>3. o \in AllLooks
      BY <3>2 DEF AllLooks, Looks, Options
    <3>4. Earlier(o, l)
      BY <1>5, <2>4, <3>1, <3>2 DEF Earlier
    <3>5. Served(c)
      BY <1>2, <2>1, <2>4, <3>3, <3>4
    <3> QED BY <3>1, <3>2, <3>5 DEF Served
  <2> QED BY <2>2, <2>3, <2>4
<1> QED BY <1>1, <1>9, <1>10, <1>11, <1>12, <1>13 DEF IInv

(* What is found of a metric, and where.                                   *)
LEMMA FoundInHierarchy ==
  ASSUME World, TakenForWhatItIs, NEW metric \in Metrics, NEW at,
         at \in {LocateController(metric), LocateCpuUsage(metric)}, at # None
  PROVE  /\ at.mount \in Taken /\ at.mount # None
         /\ at = [isV2 |-> InMount(at.mount) = Unified, mount |-> at.mount,
                  levels |-> CandidateDirs(at.mount)]
         /\ at = LocateController(metric) /\ metric # "time" =>
              InMount(at.mount) = binding[V1Controller[metric]]
<1>1. ASSUME NEW i \in Taken, ControllerIn(i, metric) # None
      PROVE  /\ i # None /\ ControllerIn(i, metric).mount = i
             /\ ControllerIn(i, metric) =
                  [isV2 |-> InMount(i) = Unified, mount |-> i, levels |-> CandidateDirs(i)]
             /\ \E g : HasFile(metric, InMount(i), g)
  BY <1>1 DEF ControllerIn, AnyLevelWith
<1>2. /\ unified \in Taken /\ v1["cpuacct"] \in Taken /\ v1[V1Controller[metric]] \in Taken
      /\ V1Controller[metric] \in Controllers
  BY DEF Taken, Controllers, V1Controller, Metrics
<1>3. PICK i \in Taken : at = ControllerIn(i, metric)
  BY <1>2 DEF LocateController, LocateCpuUsage, Or
<1>4. /\ at.mount = i /\ i # None
      /\ at = [isV2 |-> InMount(i) = Unified, mount |-> i, levels |-> CandidateDirs(i)]
  BY <1>1, <1>3
<1>5. ASSUME at = LocateController(metric), metric # "time"
      PROVE  InMount(at.mount) = binding[V1Controller[metric]]
  <2>1. CASE at = ControllerIn(unified, metric)
    <3>1. /\ at.mount = unified /\ unified # None
          /\ \E g : HasFile(metric, InMount(unified), g)
      BY <1>1, <1>2, <2>1
    <3>2. InMount(unified) = Unified
      BY <3>1 DEF TakenForWhatItIs
    <3> QED BY <1>5, <3>1, <3>2 DEF HasFile, Given
  <2>2. CASE at = ControllerIn(v1[V1Controller[metric]], metric)
    <3>1. at.mount = v1[V1Controller[metric]] /\ at.mount # None
      BY <1>1, <1>2, <2>2
    <3> QED BY <1>2, <3>1 DEF TakenForWhatItIs
  <2> QED BY <1>5, <2>1, <2>2 DEF LocateController, Or
<1> QED BY <1>3, <1>4, <1>5

LEMMA FoundStands ==
  ASSUME UNCHANGED <<world, paths, v1, unified>>, NEW metric
  PROVE  Found(metric)' = Found(metric)
BY SightStands DEF Found, LocateController, LocateCpuUsage, Or

(* What is found is found as the model's Located says.                     *)
LEMMA LocatedShape ==
  ASSUME World, TakenCover, TakenForWhatItIs, NEW metric \in Metrics, Found(metric) # None
  PROVE  /\ Found(metric) \in Located
         /\ Found(metric).mount \in Taken /\ Found(metric).mount # None
         /\ Found(metric).isV2 = (InMount(Found(metric).mount) = Unified)
         /\ metric # "time" => InMount(Found(metric).mount) = binding[V1Controller[metric]]
<1> DEFINE at == Found(metric)
           i == at.mount
<1>1. /\ i \in Taken /\ i # None
      /\ at = [isV2 |-> InMount(i) = Unified, mount |-> i, levels |-> CandidateDirs(i)]
      /\ metric # "time" => InMount(i) = binding[V1Controller[metric]]
  <2>1. at \in {LocateController(metric), LocateCpuUsage(metric)} /\ at # None
    BY DEF Found
  <2>2. metric # "time" => at = LocateController(metric)
    BY DEF Found
  <2> HIDE DEF at
  <2> QED BY <2>1, <2>2, FoundInHierarchy
<1> HIDE DEF at
<1>2. Covering(i)
  BY <1>1 DEF TakenCover
<1>3. i \in Mounts /\ CandidateDirs(i) \in Seq(Seq(STRING))
  BY <1>2, LevelsOfACover DEF Covering
<1>4. PICK b \in BOOLEAN : b = (InMount(i) = Unified)
  OBVIOUS
<1>5. at = [isV2 |-> b, mount |-> i, levels |-> CandidateDirs(i)]
  BY <1>1, <1>4, Zenon
<1>6. at \in Located /\ at.isV2 = b
  <2>1. PICK j : j = i
    OBVIOUS
  <2>2. at = [isV2 |-> b, mount |-> j, levels |-> CandidateDirs(j)]
    BY <1>5, <2>1, Zenon
  <2>3. j \in Mounts /\ CandidateDirs(j) \in Seq(Seq(STRING))
    BY <1>3, <2>1
  <2> HIDE DEF i
  <2> QED BY <2>2, <2>3 DEF Located
<1>7. at.isV2 = (InMount(i) = Unified)
  BY <1>4, <1>6, Zenon
<1> QED BY <1>1, <1>6, <1>7 DEF at

LEMMA LocateReading ==
  ASSUME IInv, NEW metric \in Metrics, NEW next \in Metrics \cup {"done"},
         <<metric, next>> \in {<<"memory", "quota">>, <<"quota", "time">>,
                               <<"time", "set">>, <<"set", "done">>},
         Locate(metric, next)
  PROVE  IInv'
<1>1. Kernel' /\ Coverage' /\ World /\ TakenCover
  <2>1. UNCHANGED world
    BY DEF Locate
  <2> QED BY <2>1, KernelStands, LocateCoverage DEF IInv, Kernel, Coverage
<1>2. /\ pc = metric /\ pc' = next
      /\ located' = [located EXCEPT ![metric] = Found(metric)]
      /\ UNCHANGED <<world, still, paths, looks, v1, unified, interface>>
  BY DEF Locate, hierarchies, Found
<1>3. UNCHANGED <<binding, mounts, home>>
  BY <1>2 DEF world
<1>4. /\ AllLooks' = AllLooks /\ Mounts' = Mounts /\ Located' = Located /\ Taken' = Taken
      /\ \A i : (CoversOwnCgroup(i)' <=> CoversOwnCgroup(i)) /\ InMount(i)' = InMount(i)
  BY <1>2, <1>3, SightStands, TableStands DEF Taken
<1>5. /\ DOMAIN located = Metrics /\ located'[metric] = Found(metric)
      /\ \A m \in Metrics : m # metric => located'[m] = located[m]
      /\ DOMAIN located' = Metrics
  BY <1>2 DEF IInv, Typed
<1>6. Found(metric) # None =>
        /\ Found(metric) \in Located
        /\ Found(metric).mount \in Taken /\ Found(metric).mount # None
        /\ Found(metric).isV2 = (InMount(Found(metric).mount) = Unified)
        /\ metric # "time" => InMount(Found(metric).mount) = binding[V1Controller[metric]]
  BY <1>1, LocatedShape DEF IInv
<1>7. Typed'
  <2>1. located' \in [Metrics -> Located \cup {None}]
    BY <1>2, <1>6 DEF IInv, Typed
  <2> QED BY <1>2, <1>3, <1>4, <2>1 DEF IInv, Typed
<1>8. TakenForWhatItIs'
  BY <1>2, <1>3, <1>4 DEF IInv, TakenForWhatItIs, InMount
<1>9. FoundForWhatItIs'
  <2>1. pc' # "look"
    BY <1>2 DEF Metrics
  <2>2. ASSUME NEW m \in Metrics, located'[m] # None
        PROVE  LET i == located'[m].mount
               IN /\ i \in Taken /\ i # None
                  /\ located'[m].isV2 = (InMount(i) = Unified)
                  /\ m # "time" => InMount(i) = binding[V1Controller[m]]
    <3>1. CASE m = metric
      BY <1>5, <1>6, <2>2, <3>1
    <3>2. CASE m # metric
      BY <1>5, <2>2, <3>2 DEF IInv, FoundForWhatItIs
    <3> QED BY <3>1, <3>2
  <2> QED BY <1>3, <1>4, <2>1, <2>2 DEF FoundForWhatItIs, InMount
<1>10. Looked'
  BY <1>2, <1>4 DEF IInv, Looked
<1>11. AsItIs'
  <2>1. \A m \in Passed' : m = metric \/ m \in Passed
    BY <1>2 DEF Passed, After, Metrics
  <2>2. ASSUME Current', NEW m \in Passed'
        PROVE  located'[m] = Found(m)'
    <3>1. Found(m)' = Found(m) /\ m \in Metrics
      BY <1>2, FoundStands DEF Passed
    <3>2. CASE m = metric
      BY <1>5, <3>1, <3>2
    <3>3. CASE m # metric
      BY <1>2, <1>5, <2>1, <2>2, <3>1, <3>3 DEF IInv, AsItIs, Current
    <3> QED BY <3>2, <3>3
  <2>3. ASSUME Current', pc' \in {"look", "done"} \cup Metrics
        PROVE  /\ \A l \in AllLooks \ looks : CoversOwnCgroup(l.mount) => Served(l.controller)
               /\ \A i \in Taken : i # None => CoversOwnCgroup(i)
               /\ \A c \in Controllers : v1[c] # None =>
                    \A i \in Mounts : InMount(i) = InMount(v1[c]) /\ i < v1[c]
                      => ~CoversOwnCgroup(i)
    BY <1>2, <2>3 DEF IInv, AsItIs, Current
  <2>4. Current' => paths' = home'
    BY <1>2, <1>3 DEF IInv, AsItIs, Current
  <2> QED BY <1>2, <1>3, <1>4, <2>2, <2>3, <2>4 DEF AsItIs, Served, InMount
<1> QED BY <1>1, <1>7, <1>8, <1>9, <1>10, <1>11 DEF IInv

LEMMA IInvHolds == Spec => []IInv
<1>1. ASSUME IInv, [Next]_vars PROVE IInv'
  <2>1. CASE Outside
    BY <1>1, <2>1, OutsideReading
  <2>2. CASE ReadOwnPaths \/ ProcFails
    BY <1>1, <2>2, PathsReading
  <2>3. CASE ReadMounts
    BY <1>1, <2>3, MountsReading
  <2>4. CASE Look
    BY <1>1, <2>4, LookReading
  <2>5. CASE ReadInterface
    BY <1>1, <2>5, InterfaceReading
  <2>6. CASE \/ Locate("memory", "quota") \/ Locate("quota", "time")
             \/ Locate("time", "set") \/ Locate("set", "done")
    BY <1>1, <2>6, LocateReading DEF Metrics
  <2>7. CASE ClearCache
    BY <1>1, <2>7, ClearReading
  <2>8. CASE UNCHANGED vars
    <3>1. /\ UNCHANGED <<world, binding, mounts, home, paths, looks, v1, unified>>
          /\ UNCHANGED <<pc, interface, still, located>>
      BY <2>8 DEF vars, world, hierarchies, found
    <3>2. Kernel' /\ Coverage'
      <4>1. Kernel' /\ World'
        BY <1>1, <3>1, KernelStands DEF IInv, Kernel
      <4> QED BY <1>1, <2>8, <4>1, NothingRead DEF IInv, vars, world
    <3>3. Typed' /\ TakenForWhatItIs'
      BY <1>1, <3>1, TableStands DEF IInv, Typed, TakenForWhatItIs, InMount
    <3>4. FoundForWhatItIs'
      BY <1>1, <3>1 DEF IInv, FoundForWhatItIs, Taken, InMount
    <3>5. Looked'
      BY <1>1, <3>1 DEF IInv, Looked, Taken
    <3>6. AsItIs'
      <4>1. \A metric : Found(metric)' = Found(metric)
        BY <3>1, FoundStands
      <4>2. /\ AllLooks' = AllLooks /\ Mounts' = Mounts
            /\ \A i : (CoversOwnCgroup(i)' <=> CoversOwnCgroup(i)) /\ InMount(i)' = InMount(i)
        BY <3>1, SightStands, TableStands
      <4> QED BY <1>1, <3>1, <4>1, <4>2
          DEF IInv, AsItIs, Current, Served, Taken, Passed
    <3> QED BY <3>2, <3>3, <3>4, <3>5, <3>6 DEF IInv
  <2> QED BY <1>1, <2>1, <2>2, <2>3, <2>4, <2>5, <2>6, <2>7, <2>8 DEF Next, Outside
<1> QED BY InitReading, <1>1, PTL DEF Spec

(* The variables keep their types; a metric's interface is that of the     *)
(* mount it was found in (the _Located of locate_controllers()).           *)
THEOREM TypeCorrect == Spec => []TypeOK
<1>1. IInv => TypeOK
  <2> SUFFICES ASSUME IInv PROVE TypeOK
    OBVIOUS
  <2>1. /\ binding \in Bindings /\ mounts \in MountTables
        /\ groups \in [Hierarchies -> SUBSET Places]
        /\ \A h \in Hierarchies : AndAncestors(home[h]) \subseteq groups[h]
        /\ subtree \in [Handed -> SUBSET groups[Unified]] /\ churn \in 0..MaxChurn
    BY DEF IInv, Kernel, World, Tree
  <2>2. looks \subseteq Looks
    BY DEF IInv, Coverage, PathsFirst
  <2>3. \A metric \in Metrics : located[metric] # None =>
          located[metric].isV2 = (mounts[located[metric].mount].hierarchy = Unified)
    BY DEF IInv, FoundForWhatItIs, InMount
  <2> QED BY <2>1, <2>2, <2>3 DEF IInv, Typed, TypeOK
<1> QED BY <1>1, IInvHolds, PTL

-----------------------------------------------------------------------------
(* What is found, and what is not.                                         *)

(* Where nothing has changed, a mount shows this process when it covers    *)
(* the path that was read.                                                 *)
LEMMA ShownIsCovered ==
  ASSUME World, paths = home, NEW i \in Mounts
  PROVE  /\ CoversOwnCgroup(i) <=> Shows(i)
         /\ CoversOwnCgroup(i) => Covering(i)
<1> DEFINE root == mounts[i].root
           own == Own(i)
<1>1. root \in Seq(STRING) /\ own \in Seq(STRING) /\ own = home[InMount(i)]
  BY MountKinds, ConstantsAssumption DEF Own, World
<1>2. ASSUME IsPrefix(root, own)
      PROVE  Denoted(i, OwnPathWithinMount(i)) = own
  <2>1. OwnPathWithinMount(i) = SubSeq(own, Len(root) + 1, Len(own))
    BY <1>2 DEF OwnPathWithinMount
  <2> HIDE DEF root, own
  <2>2. /\ Len(own) - Len(root) \in 0..Len(own) - Len(root)
        /\ Len(root) + (Len(own) - Len(root)) = Len(own)
    BY <1>1, <1>2, LenProperties DEF IsPrefix
  <2> DEFINE rest == SubSeq(own, Len(root) + 1, Len(own))
             n == Len(own) - Len(root)
  <2>3. /\ rest \in Seq(STRING) /\ Len(rest) = n
        /\ root \o SubSeq(rest, 1, n) = SubSeq(own, 1, Len(root) + n)
    BY <1>1, <1>2, <2>2, RootAndRest
  <2>4. SubSeq(rest, 1, n) = rest
    <3> HIDE DEF rest, n
    <3> QED BY <2>3, SubSeqFull
  <2>5. root \o rest = own
    BY <1>1, <2>2, <2>3, <2>4, SubSeqFull
  <2> QED BY <2>1, <2>5 DEF Denoted, root
<1> QED BY <1>1, <1>2 DEF CoversOwnCgroup, Shows, Exists, Covering, Own, World

(* The mount to look at for a controller is among those that are.          *)
LEMMA LookFor ==
  ASSUME IInv, Current, pc = "done", NEW i \in Mounts, Shows(i)
  PROVE  /\ InMount(i) = Unified => unified # None
         /\ \A c \in Options(i) : InMount(i) # Unified => v1[c] # None
<1>1. /\ World /\ paths = home /\ looks = {}
      /\ \A l \in AllLooks \ looks : CoversOwnCgroup(l.mount) => Served(l.controller)
  BY DEF IInv, Kernel, Looked, AsItIs, Current
<1>2. CoversOwnCgroup(i)
  BY <1>1, ShownIsCovered
<1>3. ASSUME NEW c \in Controllers \cup {None},
             IF InMount(i) = Unified THEN c = None ELSE c \in Options(i)
      PROVE  Served(c)
  <2> DEFINE l == [mount |-> i, controller |-> c]
  <2>1. l \in AllLooks
    BY <1>3 DEF AllLooks, Looks
  <2> QED BY <1>1, <1>2, <2>1
<1>4. InMount(i) = Unified => unified # None
  BY <1>3 DEF Served
<1>5. ASSUME NEW c \in Options(i), InMount(i) # Unified PROVE v1[c] # None
  BY <1>1, <1>3, <1>5, NoneIsNothing DEF Served, Options
<1> QED BY <1>4, <1>5

(* A metric is said to be unavailable where no hierarchy of the            *)
(* controllers shows this process, and never beside one that was found     *)
(* (sources() and notices()).                                              *)
THEOREM UnavailableIsTrue == Spec => []UnavailableMeansNothingHolds
<1>1. IInv => UnavailableMeansNothingHolds
  <2> SUFFICES ASSUME IInv, Done PROVE UnavailableMeansNothingHolds
    BY DEF UnavailableMeansNothingHolds
  <2>1. World /\ pc = "done" /\ paths # None /\ (interface = None => \A i \in Taken : i = None)
    BY DEF IInv, Kernel, Looked, Done
  <2>2. ASSUME NEW metric \in Metrics, located[metric] # None PROVE interface # None
    BY <2>1, <2>2 DEF IInv, FoundForWhatItIs
  <2>3. ASSUME still, NEW metric \in Metrics, Source(metric) = None,
               NEW i \in Mounts, Shows(i), InMount(i) = Unified \/ Options(i) # {}
        PROVE  FALSE
    <3>1. interface = None
      <4>1. CASE located[metric] # None
        <5>1. located[metric].levels \in Seq(Seq(STRING))
          BY <4>1 DEF IInv, Typed, Located
        <5>2. Source(metric) \in [interface : {"v1", "v2"}, levels : Seq(Seq(STRING))]
          BY <4>1, <5>1 DEF Source
        <5> QED BY <2>3, <5>2, NoneAssumption
      <4>2. CASE located[metric] = None /\ interface # None
        <5>1. interface \in {"v1", "v2"} /\ <<>> \in Seq(Seq(STRING))
          BY <4>2 DEF IInv, Typed
        <5>2. Source(metric) \in [interface : {"v1", "v2"}, levels : Seq(Seq(STRING))]
          BY <4>2, <5>1 DEF Source
        <5> QED BY <2>3, <5>2, NoneAssumption
      <4> QED BY <4>1, <4>2
    <3>2. unified = None /\ \A c \in Controllers : v1[c] = None
      BY <2>1, <3>1 DEF Taken
    <3> QED BY <2>1, <2>3, <3>2, LookFor DEF Current, Options
  <2> QED BY <2>2, <2>3 DEF UnavailableMeansNothingHolds
<1> QED BY <1>1, IInvHolds, PTL

(* The groups a mount lets this process see are the levels below it.       *)
LEMMA LevelsSeen ==
  ASSUME World, paths = home, NEW i, Covering(i)
  PROVE  /\ \A g \in Visible(i) : \E k \in DOMAIN CandidateDirs(i) :
              g = Denoted(i, CandidateDirs(i)[k])
         /\ \A k \in DOMAIN CandidateDirs(i) : \E n \in Len(mounts[i].root)..Len(Own(i)) :
              Denoted(i, CandidateDirs(i)[k]) = SubSeq(Own(i), 1, n)
         /\ \E k \in DOMAIN CandidateDirs(i) : Denoted(i, CandidateDirs(i)[k]) = Own(i)
         /\ mounts[i].root = SubSeq(Own(i), 1, Len(mounts[i].root))
         /\ Own(i) \in Seq(STRING) /\ Own(i) = home[InMount(i)]
         /\ Len(mounts[i].root) \in 0..Len(Own(i))
<1> DEFINE own == Own(i)
           root == mounts[i].root
           dirs == CandidateDirs(i)
           n == Len(own) - Len(root)
<1>1. /\ own \in Seq(STRING) /\ root \in Seq(STRING) /\ n \in Nat
      /\ IsPrefix(root, own)
      /\ dirs \in Seq(Seq(STRING)) /\ Len(dirs) = n + 1
      /\ \A k \in 1..n + 1 : Denoted(i, dirs[k]) = SubSeq(own, 1, Len(own) + 1 - k)
  BY LevelsOfACover
<1>2. own = home[InMount(i)]
  BY DEF Own
<1>3. ASSUME NEW g \in Visible(i)
      PROVE  \E m \in 0..Len(own) : g = SubSeq(own, 1, m) /\ IsPrefix(root, g)
  BY <1>2 DEF Visible, AndAncestors
<1> HIDE DEF own, root, dirs
<1>4. /\ Len(own) \in Nat /\ Len(root) \in Nat /\ n = Len(own) - Len(root)
      /\ DOMAIN dirs = 1..n + 1
  BY <1>1, LenProperties
<1>5. root = SubSeq(own, 1, Len(root))
  BY <1>1, SubSeqFull DEF IsPrefix
<1>6. ASSUME NEW g \in Visible(i) PROVE \E k \in DOMAIN dirs : g = Denoted(i, dirs[k])
  <2>1. PICK m \in 0..Len(own) : g = SubSeq(own, 1, m) /\ IsPrefix(root, g)
    BY <1>3
  <2>2. Len(root) <= m
    <3>1. Len(SubSeq(own, 1, m)) = m
      BY <1>1, Beginning
    <3> QED BY <2>1, <3>1 DEF IsPrefix
  <2> DEFINE k == Len(own) + 1 - m
  <2>3. k \in 1..n + 1 /\ Len(own) + 1 - k = m
    BY <1>4, <2>2
  <2> HIDE DEF k
  <2> QED BY <1>1, <1>4, <2>1, <2>3
<1>7. ASSUME NEW k \in DOMAIN dirs
      PROVE  \E m \in Len(root)..Len(own) : Denoted(i, dirs[k]) = SubSeq(own, 1, m)
  <2> DEFINE m == Len(own) + 1 - k
  <2>1. k \in 1..n + 1
    BY <1>4
  <2>2. m \in Len(root)..Len(own)
    BY <1>1, <1>4, <2>1
  <2>3. Denoted(i, dirs[k]) = SubSeq(own, 1, m)
    BY <1>1, <2>1
  <2> HIDE DEF m
  <2> QED BY <2>2, <2>3
<1>8. \E k \in DOMAIN dirs : Denoted(i, dirs[k]) = own
  <2>1. 1 \in 1..n + 1 /\ Len(own) + 1 - 1 = Len(own)
    BY <1>4, <1>1
  <2>2. Denoted(i, dirs[1]) = SubSeq(own, 1, Len(own))
    BY <1>1, <2>1
  <2>3. Denoted(i, dirs[1]) = own
    BY <1>1, <2>2, SubSeqFull
  <2> QED BY <1>4, <2>1, <2>3
<1>9. Len(root) \in 0..Len(own)
  BY <1>1, <1>4
<1> QED BY <1>1, <1>2, <1>5, <1>6, <1>7, <1>8, <1>9 DEF own, root, dirs

(* The facts about a discovery that nothing disturbed.                     *)
LEMMA Undisturbed ==
  ASSUME IInv, Done, still
  PROVE  /\ World /\ Kernel /\ Current /\ paths = home /\ TakenForWhatItIs
         /\ \A metric \in Metrics : located[metric] = Found(metric)
         /\ \A i \in Taken : i # None =>
              i \in Mounts /\ Shows(i) /\ Covering(i) /\ CoversOwnCgroup(i)
         /\ \A c \in Controllers : v1[c] # None =>
              \A i \in Mounts : InMount(i) = InMount(v1[c]) /\ i < v1[c] => ~CoversOwnCgroup(i)
<1>1. /\ World /\ Kernel /\ Current /\ paths = home /\ TakenForWhatItIs
      /\ Typed /\ pc = "done"
      /\ \A i \in Taken : i # None => CoversOwnCgroup(i)
  BY DEF IInv, Kernel, AsItIs, Current, Done
<1>2. \A metric \in Metrics : located[metric] = Found(metric)
  BY <1>1 DEF IInv, AsItIs, Passed, After, Metrics
<1>3. \A i \in Taken : i # None => i \in Mounts
  BY <1>1 DEF Typed, Taken
<1>4. \A i \in Taken : i # None => Shows(i) /\ Covering(i)
  BY <1>1, <1>3, ShownIsCovered
<1> QED BY <1>1, <1>2, <1>3, <1>4 DEF IInv, AsItIs

(* A mount that shows a level with the metric yields it.                   *)
LEMMA FoundInMount ==
  ASSUME World, paths = home, NEW i, Covering(i), i # None, NEW metric,
         \E g \in Visible(i) \cup {Own(i)} : HasFile(metric, InMount(i), g)
  PROVE  /\ AnyLevelWith(metric, i)
         /\ ControllerIn(i, metric) # None
         /\ ControllerIn(i, metric) =
              [isV2 |-> InMount(i) = Unified, mount |-> i, levels |-> CandidateDirs(i)]
<1>1. PICK g \in Visible(i) \cup {Own(i)} : HasFile(metric, InMount(i), g)
  OBVIOUS
<1>2. PICK k \in DOMAIN CandidateDirs(i) : g = Denoted(i, CandidateDirs(i)[k])
  BY <1>1, LevelsSeen
<1>3. AnyLevelWith(metric, i)
  BY <1>1, <1>2 DEF AnyLevelWith
<1>4. ControllerIn(i, metric)
        = [isV2 |-> InMount(i) = Unified, mount |-> i, levels |-> CandidateDirs(i)]
  BY <1>3 DEF ControllerIn
<1>5. PICK b \in BOOLEAN : b = (InMount(i) = Unified)
  OBVIOUS
<1>6. ControllerIn(i, metric) = [isV2 |-> b, mount |-> i, levels |-> CandidateDirs(i)]
  BY <1>4, <1>5, Zenon
<1>7. CandidateDirs(i) \in Seq(Seq(STRING)) /\ i \in Nat
  BY LevelsOfACover, MountKinds DEF Covering
<1>8. ControllerIn(i, metric) # None
  BY <1>6, <1>7, NoneAssumption
<1> QED BY <1>3, <1>4, <1>8

(* A limit is looked for where its controller is bound, and found where    *)
(* every mount that shows this process shows a level that carries it       *)
(* (locate_controllers(), _read_cgroup_hierarchies() and _locate()).       *)
THEOREM FoundWhereItIs == Spec => []FoundWhereBound
<1>1. IInv => FoundWhereBound
  <2> SUFFICES ASSUME IInv, Done, NEW metric \in {"memory", "quota", "set"}
               PROVE  LET h == binding[V1Controller[metric]]
                          shown == {i \in Mounts : InMount(i) = h /\ Shows(i)}
                      IN /\ located[metric] # None => InMount(located[metric].mount) = h
                         /\ still /\ shown # {}
                              /\ (\A i \in shown : \E g \in Visible(i) : HasFile(metric, h, g))
                            => located[metric] # None
    BY DEF FoundWhereBound
  <2> DEFINE c == V1Controller[metric]
             h == binding[c]
             shown == {i \in Mounts : InMount(i) = h /\ Shows(i)}
  <2>1. metric \in Metrics /\ metric # "time" /\ c \in Controllers
    BY DEF Metrics, V1Controller, Controllers
  <2>2. located[metric] # None => InMount(located[metric].mount) = h
    BY <2>1 DEF IInv, FoundForWhatItIs
  <2>3. ASSUME still, NEW j \in shown,
               \A i \in shown : \E g \in Visible(i) : HasFile(metric, h, g)
        PROVE  located[metric] # None
    <3>1. /\ World /\ paths = home /\ Current /\ pc = "done" /\ TakenForWhatItIs
          /\ located[metric] = LocateController(metric)
          /\ \A i \in Taken : i # None => i \in Mounts /\ Shows(i) /\ Covering(i)
      BY <2>1, <2>3, Undisturbed DEF Found, Done
    <3>2. ASSUME NEW i \in Taken, i # None, InMount(i) = h
          PROVE  ControllerIn(i, metric) # None
      <4>1. i \in shown /\ Covering(i)
        BY <3>1, <3>2
      <4>2. \E g \in Visible(i) \cup {Own(i)} : HasFile(metric, InMount(i), g)
        BY <2>3, <3>2, <4>1
      <4> QED BY <3>1, <3>2, <4>1, <4>2, FoundInMount
    <3>3. j \in Mounts /\ InMount(j) = h /\ Shows(j)
      OBVIOUS
    <3>4. CASE h = Unified
      <4>1. unified # None /\ unified \in Taken /\ InMount(unified) = Unified
        BY <3>1, <3>3, <3>4, LookFor DEF Taken, TakenForWhatItIs
      <4> QED BY <3>1, <3>2, <3>4, <4>1 DEF LocateController, Or
    <3>5. CASE h # Unified
      <4>1. c \in Options(j)
        BY <2>1, <3>3 DEF Options
      <4>2. v1[c] # None /\ v1[c] \in Taken /\ InMount(v1[c]) = h
        BY <2>1, <3>1, <3>3, <3>5, <4>1, LookFor DEF Taken, TakenForWhatItIs
      <4> QED BY <3>1, <3>2, <4>2 DEF LocateController, Or
    <3> QED BY <3>4, <3>5
  <2> QED BY <2>2, <2>3
<1> QED BY <1>1, IInvHolds, PTL

(* A controller that is given to a group is given to all above it, so the  *)
(* top of the mount names it.                                              *)
LEMMA GivenAtTheTop ==
  ASSUME Kernel, paths = home, NEW i, Covering(i), InMount(i) = Unified,
         NEW c \in Handed, NEW m \in Len(mounts[i].root)..Len(Own(i)),
         Given(c, SubSeq(Own(i), 1, m))
  PROVE  c \in BoundControllers(i)
<1> DEFINE own == Own(i)
           root == mounts[i].root
           low == Len(root)
           T == {k \in low..Len(own) : Given(c, SubSeq(own, 1, k))}
<1>1. /\ World /\ Tree /\ Delegated
      /\ \A h \in Hierarchies : home[h] \in groups[h]
  BY DEF Kernel
<1>2. /\ own \in Seq(STRING) /\ own = home[InMount(i)] /\ root = SubSeq(own, 1, low)
      /\ low \in 0..Len(own) /\ Len(own) \in Nat /\ root \in Seq(STRING)
  BY <1>1, LevelsSeen, LevelsOfACover, LenProperties
<1>3. PICK k \in T : \A l \in T : k <= l
  <2>1. T \in SUBSET Nat /\ m \in T
    BY <1>2
  <2> HIDE DEF T
  <2> QED BY <2>1, LeastNatural
<1> HIDE DEF own, root, low
<1>4. k \in low..Len(own) /\ low \in Nat /\ Len(own) \in Nat
  BY <1>2, <1>3
<1>5. k = low
  <2> SUFFICES ASSUME k # low PROVE FALSE
    OBVIOUS
  <2>1. k - 1 \in low..Len(own) /\ k - 1 \in 0..Len(own) /\ k \in 0..Len(own)
        /\ k - 1 # Len(own) /\ (k - 1) + 1 = k
    BY <1>4
  <2>2. SubSeq(own, 1, k) # <<>> /\ Parent(SubSeq(own, 1, k)) = SubSeq(own, 1, k - 1)
    BY <1>2, <2>1, ChildPath
  <2>3. SubSeq(own, 1, k - 1) \in subtree[c]
    BY <1>3, <2>2 DEF Given
  <2>4. k - 1 \in T /\ ~(k <= k - 1)
    BY <1>1, <1>4, <2>1, <2>3 DEF Delegated
  <2> HIDE DEF T
  <2> QED BY <1>3, <2>4
<1>6. Given(c, root)
  BY <1>2, <1>3, <1>5
<1>7. Exists(i, <<>>)
  <2>1. InMount(i) \in Hierarchies
    BY <1>1, MountKinds DEF Covering
  <2>2. root \in AndAncestors(own)
    BY <1>2 DEF AndAncestors, low
  <2>3. root \in groups[InMount(i)]
    BY <1>1, <1>2, <2>1, <2>2 DEF Tree
  <2>4. Denoted(i, <<>>) = root
    BY <1>2, ConcatEmptySeq DEF Denoted, root
  <2> QED BY <2>3, <2>4 DEF Exists
<1> QED BY <1>6, <1>7 DEF BoundControllers, root

(* The group of this process counts its time in every mount that shows it  *)
(* and counts at all.                                                      *)
LEMMA TimeIsCounted ==
  ASSUME Kernel, paths = home, NEW i, Covering(i),
         InMount(i) = Unified \/ binding["cpuacct"] = InMount(i)
  PROVE  /\ ControllerIn(i, "time") # None
         /\ ControllerIn(i, "time") =
              [isV2 |-> InMount(i) = Unified, mount |-> i, levels |-> CandidateDirs(i)]
<1>1. World /\ \A h \in Hierarchies : home[h] \in groups[h]
  BY DEF Kernel
<1>2. i \in Mounts /\ i # None /\ InMount(i) \in Hierarchies /\ Own(i) = home[InMount(i)]
  BY <1>1, MountKinds, NoneIsNothing DEF Covering, Own
<1>3. HasFile("time", InMount(i), Own(i))
  BY <1>1, <1>2 DEF HasFile, V1Controller
<1> QED BY <1>1, <1>2, <1>3, FoundInMount

(* The first mount of a hierarchy that covers this process serves every    *)
(* controller bound to it.                                                 *)
LEMMA SameMount ==
  ASSUME IInv, Done, still, NEW c \in Controllers, NEW d \in Controllers,
         v1[c] # None, binding[c] = binding[d]
  PROVE  v1[d] = v1[c]
<1>1. /\ World /\ Current /\ TakenForWhatItIs /\ pc = "done"
      /\ v1[c] \in Mounts /\ Shows(v1[c]) /\ CoversOwnCgroup(v1[c])
      /\ binding[c] = InMount(v1[c]) /\ InMount(v1[c]) # Unified
  BY Undisturbed DEF Taken, TakenForWhatItIs, Done
<1>2. v1[d] # None
  <2>1. d \in Options(v1[c])
    BY <1>1 DEF Options
  <2> QED BY <1>1, <2>1, LookFor
<1>3. /\ v1[d] \in Mounts /\ CoversOwnCgroup(v1[d]) /\ InMount(v1[d]) = InMount(v1[c])
  BY <1>1, <1>2, Undisturbed DEF Taken, TakenForWhatItIs
<1>4. ~(v1[c] < v1[d]) /\ ~(v1[d] < v1[c])
  BY <1>1, <1>2, <1>3, Undisturbed
<1> QED BY <1>1, <1>3, <1>4, MountKinds

(* The time is counted where the quota is, level by level, and never in a  *)
(* unified hierarchy that limits no CPU while cgroup v1 counts             *)
(* (_locate_cpu_usage()).                                                  *)
THEOREM TimeIsBesideTheQuota == Spec => []TimeIsCountedBesideTheLimits
<1>1. IInv => TimeIsCountedBesideTheLimits
  <2> SUFFICES ASSUME IInv, Done, still
               PROVE  LET time == located["time"]
                          quota == located["quota"]
                      IN /\ quota # None /\ (quota.isV2 \/ binding["cpu"] = binding["cpuacct"]) =>
                              time # None /\ time.mount = quota.mount /\ time.levels = quota.levels
                         /\ time # None /\ time.isV2 /\ binding["cpu"] # Unified =>
                              ~ \E i \in Mounts : InMount(i) = binding["cpuacct"] /\ Shows(i)
    BY DEF TimeIsCountedBesideTheLimits
  <2>1. /\ World /\ Kernel /\ Current /\ paths = home /\ TakenForWhatItIs /\ pc = "done"
        /\ binding \in Bindings
    BY Undisturbed DEF Kernel, Done
  <2>2. /\ located["quota"] = Or(ControllerIn(unified, "quota"), ControllerIn(v1["cpu"], "quota"))
        /\ located["time"] =
             Or(Or(IF unified # None /\ "cpu" \in BoundControllers(unified)
                   THEN ControllerIn(unified, "time") ELSE None,
                   ControllerIn(v1["cpuacct"], "time")),
                ControllerIn(unified, "time"))
    BY Undisturbed
    DEF Metrics, Found, LocateController, LocateCpuUsage, V1Controller
  <2>3. ASSUME NEW i \in Taken, i # None PROVE Covering(i) /\ Shows(i) /\ i \in Mounts
    BY <2>3, Undisturbed
  <2>4. /\ unified \in Taken /\ v1["cpu"] \in Taken /\ v1["cpuacct"] \in Taken
        /\ "cpu" \in Controllers /\ "cpuacct" \in Controllers /\ "cpu" \in Handed
    BY DEF Taken, Controllers, Handed
  <2>5. binding["cpu"] # Unified =>
          located["time"] = Or(ControllerIn(v1["cpuacct"], "time"), ControllerIn(unified, "time"))
    BY <2>2 DEF BoundControllers, Given, Or
  <2>6. binding["cpuacct"] # Unified
    BY <2>1, ConstantsAssumption
  <2>7. ASSUME ControllerIn(unified, "quota") # None
        PROVE  /\ located["time"] # None
               /\ located["time"].mount = located["quota"].mount
               /\ located["time"].levels = located["quota"].levels
    <3>1. unified # None /\ AnyLevelWith("quota", unified)
      BY <2>7 DEF ControllerIn
    <3>2. InMount(unified) = Unified /\ Covering(unified)
      BY <2>1, <2>3, <2>4, <3>1 DEF TakenForWhatItIs
    <3>3. PICK m \in Len(mounts[unified].root)..Len(Own(unified)) :
            HasFile("quota", Unified, SubSeq(Own(unified), 1, m))
      BY <2>1, <3>1, <3>2, LevelsSeen DEF AnyLevelWith
    <3>4. Given("cpu", SubSeq(Own(unified), 1, m))
      BY <3>3 DEF HasFile, V1Controller
    <3>5. "cpu" \in BoundControllers(unified)
      BY <2>1, <2>4, <3>2, <3>4, GivenAtTheTop
    <3>6. located["time"] = ControllerIn(unified, "time") /\ located["time"] # None
      BY <2>1, <2>2, <3>1, <3>2, <3>5, TimeIsCounted DEF Or
    <3> QED BY <2>2, <2>7, <3>1, <3>6 DEF Or, ControllerIn
  <2>8. ASSUME ControllerIn(unified, "quota") = None, located["quota"] # None,
               located["quota"].isV2 \/ binding["cpu"] = binding["cpuacct"]
        PROVE  /\ located["time"] # None
               /\ located["time"].mount = located["quota"].mount
               /\ located["time"].levels = located["quota"].levels
    <3> DEFINE i == v1["cpu"]
    <3>1. located["quota"] = ControllerIn(i, "quota") /\ i # None
      BY <2>2, <2>8 DEF Or, ControllerIn
    <3>2. /\ located["quota"].mount = i /\ located["quota"].levels = CandidateDirs(i)
      BY <2>8, <3>1 DEF ControllerIn
    <3>3. binding["cpu"] = InMount(i) /\ InMount(i) # Unified
      BY <2>1, <2>4, <3>1 DEF TakenForWhatItIs
    <3>4. ~located["quota"].isV2
      <4>1. located["quota"].isV2 = (InMount(located["quota"].mount) = Unified)
        BY <2>8 DEF IInv, FoundForWhatItIs, Metrics
      <4> QED BY <3>2, <3>3, <4>1
    <3>5. v1["cpuacct"] = i
      BY <2>4, <2>8, <3>1, <3>4, SameMount
    <3>6. /\ ControllerIn(i, "time") # None
          /\ ControllerIn(i, "time") =
               [isV2 |-> InMount(i) = Unified, mount |-> i, levels |-> CandidateDirs(i)]
      BY <2>1, <2>3, <2>4, <2>8, <3>1, <3>3, <3>4, TimeIsCounted
    <3>7. located["time"] = ControllerIn(i, "time")
      BY <2>5, <3>3, <3>5, <3>6 DEF Or
    <3> QED BY <3>2, <3>6, <3>7
  <2>9. ASSUME located["time"] # None, located["time"].isV2, binding["cpu"] # Unified,
               NEW i \in Mounts, InMount(i) = binding["cpuacct"], Shows(i)
        PROVE  FALSE
    <3> DEFINE j == v1["cpuacct"]
    <3>1. j # None
      BY <2>1, <2>4, <2>6, <2>9, LookFor DEF Options
    <3>2. binding["cpuacct"] = InMount(j) /\ InMount(j) # Unified /\ Covering(j)
      BY <2>1, <2>3, <2>4, <3>1 DEF TakenForWhatItIs
    <3>3. /\ ControllerIn(j, "time") # None
          /\ ControllerIn(j, "time") =
               [isV2 |-> InMount(j) = Unified, mount |-> j, levels |-> CandidateDirs(j)]
      BY <2>1, <3>2, TimeIsCounted
    <3>4. located["time"].mount = j
      BY <2>5, <2>9, <3>3 DEF Or
    <3>5. located["time"].isV2 = (InMount(located["time"].mount) = Unified)
      BY <2>9 DEF IInv, FoundForWhatItIs, Metrics
    <3> QED BY <2>9, <3>2, <3>4, <3>5
  <2> QED BY <2>2, <2>7, <2>8, <2>9
<1> QED BY <1>1, IInvHolds, PTL
=============================================================================

----------------------------- MODULE CgroupCpu -----------------------------
(***************************************************************************)
(* Reading the CPU limit of a cgroup, and the CPU time it applies to:      *)
(* _read_cpu() and _evaluate_cpu_limit() of src/proclimits/_sensor.py over *)
(* read_cpu() and read_cpu_usage() of _cgroup.py.                          *)
(*                                                                         *)
(* The quota is the tightest of the chain, the set of cores that of the    *)
(* closest level that has one, and the tighter of the two is the limit.    *)
(* The consumed time is then read at the level the limit came from, which  *)
(* may be another directory of another hierarchy.  The reader asks for its *)
(* controllers five times over: another thread may have cleared the cache  *)
(* and the process may have been moved between any two of them.            *)
(*                                                                         *)
(* A group is its path from the root of the hierarchy.  Cores are counted  *)
(* in parts of 1 / Scale, since a quota need not be whole.                 *)
(***************************************************************************)
EXTENDS Integers, Sequences, SequencesExt

CONSTANTS
  Groups,     \* the groups of every hierarchy, as paths
  Locations,  \* what discovery may find: a place, or None, for each metric
  Quotas,     \* the quotas that can be written to a level
  Periods,    \* the periods
  Interfaces, \* how the files of a machine may be spelled
  Countings,  \* the levels whose consumed time may be counted
  Machine,    \* the cores of the machine, in parts
  MachineAnswers, \* what machine_cpu_count() may answer
  Scale,      \* the parts of a core
  MaxChurn,   \* bound on the changes while the reader runs
  None,       \* nothing
  Unlimited,  \* a quota spelled `max' or -1, or a file that is not there
  Inherited,  \* an empty set of cores
  Absent,     \* a set file or a period file that is not there
  Unusable    \* a file that is there and says nothing usable

Metrics == {"quota", "set", "time"}

(* Where a hierarchy is mounted and where in it the process is: the mount  *)
(* exposes the groups below its root.                                      *)
Places == {p \in [home : Groups, root : Groups] : IsPrefix(p.root, p.home)}

ASSUME ConstantsAssumption ==
  /\ Groups \subseteq Seq(STRING) /\ <<>> \in Groups
  /\ \A g \in Groups \ {<<>>} : Front(g) \in Groups
  /\ Locations \subseteq [Metrics -> Places \cup {None}]
  /\ Quotas \subseteq Nat \ {0} /\ Periods \subseteq Nat \ {0}
  /\ Scale \in Nat \ {0} /\ \A p \in Periods : Scale % p = 0
  /\ Machine \in Nat \ {0} /\ MachineAnswers \subseteq {Machine, None}
  /\ Countings \subseteq SUBSET Groups
  /\ MaxChurn \in Nat

Restrictions == [cores : Nat, level : Groups, usage : Groups \cup {None}]

ASSUME MarkersAssumption ==
  /\ None \notin Nat \cup Groups \cup Places \cup Restrictions
  /\ \A marker \in {Unlimited, Inherited, Absent, Unusable} : marker \notin Nat \cup {None}
  /\ Unlimited # Unusable /\ Unusable \notin {Inherited, Absent}

(* An interface: whether quota and period are two files, as under cgroup   *)
(* v1, the files read for the set of a level, of which the last is probed, *)
(* and what they can hold at one level.                                    *)
ASSUME InterfacesAssumption ==
  \A i \in Interfaces :
    /\ DOMAIN i = {"twoFiles", "setFiles", "contents"}
    /\ i.twoFiles \in BOOLEAN
    /\ i.setFiles \in Seq(STRING) /\ Len(i.setFiles) \in {1, 2}
    /\ \A content \in i.contents, f \in Range(i.setFiles) :
         f \in DOMAIN content /\ content[f] \in Nat \cup {Inherited, Absent, Unusable}

(* What the kernel sees to: the cores a level may use are some of those it *)
(* was configured with, and a level that carries a set has one from        *)
(* somewhere, as long as there are processes below it.                     *)
ASSUME ContentsAssumption ==
  \A i \in Interfaces : \A content \in i.contents :
    /\ \A j, k \in DOMAIN i.setFiles :
         j < k /\ content[i.setFiles[j]] \in Nat /\ content[i.setFiles[k]] \in Nat
           => content[i.setFiles[j]] <= content[i.setFiles[k]]
    /\ content[Last(i.setFiles)] # Absent =>
         \E f \in Range(i.setFiles) : content[f] \notin {Inherited, Absent}

VARIABLES
  interface, \* how the files of this machine are spelled
  mechanism, \* whether discovery found a hierarchy, whatever it carries
  shut,     \* the levels whose directories may not be traversed
  quota,    \* the quota each level spells
  period,   \* the period beside it
  cpus,     \* the set files of each level
  counting, \* the levels whose consumed time can be read
  located,  \* what locate_controllers() answers now
  step,     \* where the reader stands
  machine,  \* machine_cpu_count(), as this call read it
  place,    \* the controller it is walking
  cursor,   \* the level it is reading
  written,  \* a quota whose period is still to be read
  quotas,   \* the cores each level allows, as read so far
  limits,   \* the two restrictions, as read so far
  unreadable, \* the level that ended the reading, or None
  evaluation, \* what it comes to
  timed,    \* the level whose consumed time was read for it, or None
  steady,   \* history: levels on the chain with a quota nobody wrote to
  setHeld,  \* history: whether the set was the same throughout
  quiet,    \* history: whether nothing at all moved
  churn     \* history: the changes so far

files == <<interface, mechanism, shut, quota, period, cpus, counting, located>>
history == <<steady, setHeld, quiet, churn>>
result == <<evaluation, timed>>
reader == <<step, machine, place, cursor, written, quotas, limits, unreadable>>
vars == <<files, history, reader, result>>

-----------------------------------------------------------------------------
(* Levels.                                                                 *)

(* The dirs of a controller.                                               *)
Chain(p) ==
  IF p = None THEN {}
  ELSE {g \in Groups : IsPrefix(p.root, g) /\ IsPrefix(g, p.home)}

Closest(levels) == CHOOSE g \in levels : \A h \in levels : Len(h) <= Len(g)

(* _first_with(): the closest level that has a file.                       *)
FirstWith(levels) == IF levels = {} THEN None ELSE Closest(levels)

(* What the files of a level say to this process: _exists() takes one in a *)
(* directory that may not be traversed for one that is not there, and      *)
(* _read_control_file() reports it as that.                                *)
QuotaSaid(g) == IF g \in shut THEN Unlimited ELSE quota[g]
PeriodSaid(g) == IF g \in shut THEN Absent ELSE period[g]
HasSet == {g \in Groups \ shut : cpus[g][Last(interface.setFiles)] # Absent}

(* _cpu_usage_level(): where the time of a level is counted.  The level is *)
(* translated by its path below the mount point, and has to be one this    *)
(* process belongs to.                                                     *)
Translated(g, source) ==
  located["time"].root \o SubSeq(g, Len(source.root) + 1, Len(g))

UsageLevelOrClosest(g, source) == FirstWith(Chain(located["time"]) \cap counting)

UsageLevel(g, source) ==
  IF located["time"] # None /\ Translated(g, source) \in Chain(located["time"]) \cap counting
  THEN Translated(g, source)
  ELSE None

(* _read_cpu_set(): the first of the files that says anything.             *)
Says(i) == cpus[cursor][interface.setFiles[i]]
Said == {i \in DOMAIN interface.setFiles : Says(i) \notin {Absent, Inherited}}
SetRead ==
  IF Said = {} THEN None ELSE Says(CHOOSE i \in Said : \A j \in Said : i <= j)

(* What a level allows, given its two numbers.                             *)
Cores(q, p) == (Scale * q) \div p

-----------------------------------------------------------------------------
(* Everybody else.                                                         *)

Stirred ==
  /\ churn < MaxChurn
  /\ churn' = churn + 1
  /\ quiet' = FALSE
  /\ UNCHANGED <<interface, mechanism, shut>>

(* One file is usable as a whole or not at all.  Of two, either can hold a *)
(* number that is no bandwidth, and the period can be missing.             *)
QuotasSpelled ==
  Quotas \cup {Unlimited, Unusable} \cup (IF interface.twoFiles THEN {0} ELSE {})
PeriodsSpelled ==
  Periods \cup (IF interface.twoFiles THEN {0, Absent, Unusable} ELSE {})

(* Somebody writes to the quota of a level, or to its period.              *)
WriteQuota(g, q) ==
  /\ q # quota[g]
  /\ quota' = [quota EXCEPT ![g] = q]
  /\ Stirred
  /\ steady' = steady \ {g}
  /\ UNCHANGED <<period, cpus, counting, located, setHeld, reader, result>>

WritePeriod(g, p) ==
  /\ p # period[g]
  /\ period' = [period EXCEPT ![g] = p]
  /\ Stirred
  /\ steady' = steady \ {g}
  /\ UNCHANGED <<quota, cpus, counting, located, setHeld, reader, result>>

WriteSet(g, content) ==
  /\ content # cpus[g]
  /\ cpus' = [cpus EXCEPT ![g] = content]
  /\ Stirred
  /\ setHeld' = FALSE
  /\ UNCHANGED <<quota, period, counting, located, steady, reader, result>>

(* The process was moved, another thread cleared the cache, and a third    *)
(* discovered where it is now, through the mounts that were there.         *)
ThroughTheSameMounts(m) ==
  IF located[m] = None THEN located'[m] = None
  ELSE located'[m] # None /\ located'[m].root = located[m].root

Relocate ==
  /\ located' \in Locations \ {located}
  /\ \A m \in Metrics : ThroughTheSameMounts(m)
  /\ Stirred
  /\ steady' = steady \cap Chain(located'["quota"])
  /\ setHeld' = (setHeld /\ located'["set"] = located["set"])
  /\ UNCHANGED <<quota, period, cpus, counting, reader, result>>

Others ==
  \/ \E g \in Groups :
       \/ \E q \in QuotasSpelled : WriteQuota(g, q)
       \/ \E p \in PeriodsSpelled : WritePeriod(g, p)
       \/ \E content \in interface.contents : WriteSet(g, content)
  \/ Relocate

-----------------------------------------------------------------------------
(* What the readings come to.                                              *)

Notices == {"METRICS_UNAVAILABLE", "LIMIT_UNREADABLE", "QUOTA_COVERS_MACHINE",
            "SET_COVERS_MACHINE", "SCOPE_MISMATCH"}

Evaluations ==
  [effective : Nat \cup {None}, level : Groups \cup {None},
   usage : Groups \cup {None}, notices : SUBSET Notices]

NoCpuLimit(notices) ==
  [effective |-> None, level |-> None, usage |-> None, notices |-> notices]

(* A limit that allows everything the machine has restricts nothing.  It   *)
(* is trusted where nobody knows what the machine has.                     *)
CoversWithMore(cores) == machine # None /\ cores > machine
Covers(cores) == machine # None /\ cores >= machine

Candidates == {k \in {"quota", "set"} : limits[k] # None /\ ~Covers(limits[k].cores)}

(* The quota comes first where both allow the same.                        *)
Tighter ==
  IF Candidates = {"quota", "set"}
  THEN IF limits["set"].cores < limits["quota"].cores THEN "set" ELSE "quota"
  ELSE CHOOSE k \in Candidates : TRUE

(* Nothing here could carry a limit of either kind: a hierarchy that has   *)
(* neither controller is a source all the same, one of no levels.          *)
NoMechanism == ~mechanism

WorthKnowing ==
  { notice \in Notices :
      \/ notice = "METRICS_UNAVAILABLE" /\ limits["quota"] = None /\ limits["set"] = None
                                        /\ NoMechanism
      \/ notice = "QUOTA_COVERS_MACHINE" /\ limits["quota"] # None /\ "quota" \notin Candidates
      \/ notice = "SET_COVERS_MACHINE" /\ limits["set"] # None /\ "set" \notin Candidates
      \/ notice = "SCOPE_MISMATCH" /\ Candidates # {} /\ limits[Tighter].usage = None }

(* _evaluate_cpu_limit().                                                  *)
Evaluation ==
  IF unreadable # None THEN NoCpuLimit({"LIMIT_UNREADABLE"})
  ELSE IF Candidates = {} THEN NoCpuLimit(WorthKnowing)
  ELSE [effective |-> limits[Tighter].cores, level |-> limits[Tighter].level,
        usage |-> limits[Tighter].usage, notices |-> WorthKnowing]

-----------------------------------------------------------------------------
(* The call.                                                               *)

Begin ==
  /\ step \in {"idle", "reported"}
  /\ machine' \in MachineAnswers
  /\ place' = located["quota"]
  /\ cursor' = IF place' = None THEN <<>> ELSE place'.home
  /\ step' = IF place' = None THEN "set" ELSE "quota"
  /\ written' = None /\ unreadable' = None
  /\ quotas' = [g \in Groups |-> None]
  /\ limits' = [k \in {"quota", "set"} |-> None]
  /\ evaluation' = NoCpuLimit({}) /\ timed' = None
  /\ steady' = Chain(place') /\ setHeld' = TRUE /\ quiet' = TRUE
  /\ UNCHANGED <<files, churn>>

(* On to the level above, or to the tightest of what was found.            *)
NextLevelPastTheMount ==
  IF cursor = <<>>
  THEN step' = "tightest" /\ UNCHANGED cursor
  ELSE step' = "quota" /\ cursor' = Front(cursor)

NextLevel ==
  IF cursor = place.root
  THEN step' = "tightest" /\ UNCHANGED cursor
  ELSE step' = "quota" /\ cursor' = Front(cursor)

SkipTheRest ==
  /\ step' = "judge"
  /\ UNCHANGED <<cursor, unreadable>>

Raise ==
  /\ unreadable' = cursor
  /\ step' = "judge"
  /\ UNCHANGED cursor

(* One level, the quota and the period in one file or in two.  A level     *)
(* that may not be traversed is passed over, without a word.               *)
ReadQuota ==
  /\ step = "quota"
  /\ written' = IF interface.twoFiles THEN QuotaSaid(cursor) ELSE None
  /\ \/ /\ QuotaSaid(cursor) = Unusable
        /\ Raise
        /\ UNCHANGED quotas
     \/ /\ QuotaSaid(cursor) # Unusable /\ interface.twoFiles
        /\ step' = "period"
        /\ UNCHANGED <<cursor, quotas, unreadable>>
     \/ /\ QuotaSaid(cursor) = Unlimited /\ ~interface.twoFiles
        /\ NextLevel
        /\ UNCHANGED <<quotas, unreadable>>
     \/ /\ QuotaSaid(cursor) \in Quotas /\ ~interface.twoFiles
        /\ quotas' = [quotas EXCEPT ![cursor] = Cores(QuotaSaid(cursor), PeriodSaid(cursor))]
        /\ NextLevel
        /\ UNCHANGED unreadable
  /\ UNCHANGED <<files, history, machine, place, limits, result>>

(* The period is read even where there is no quota, and where it is not    *)
(* there neither is the quota.                                             *)
ReadPeriod ==
  /\ step = "period"
  /\ written' = None
  /\ \/ /\ \/ PeriodSaid(cursor) = Unusable
           \/ /\ PeriodSaid(cursor) \in Nat /\ written \in Nat
              /\ 0 \in {PeriodSaid(cursor), written}
        /\ Raise
        /\ UNCHANGED quotas
     \/ /\ PeriodSaid(cursor) # Unusable
        /\ PeriodSaid(cursor) = Absent \/ written = Unlimited
        /\ NextLevel
        /\ UNCHANGED <<quotas, unreadable>>
     \/ /\ PeriodSaid(cursor) \in Periods /\ written \in Quotas
        /\ quotas' = [quotas EXCEPT ![cursor] = Cores(written, PeriodSaid(cursor))]
        /\ NextLevel
        /\ UNCHANGED unreadable
  /\ UNCHANGED <<files, history, machine, place, limits, result>>

(* The tightest quota of the chain, the closest of two equal ones, and the *)
(* level that counts its time.                                             *)
Limiting == {g \in Groups : quotas[g] # None}
ClosestQuota == Closest(Limiting)
TightestQuota ==
  Closest({g \in Limiting : \A h \in Limiting : quotas[g] <= quotas[h]})

PickQuota ==
  /\ step = "tightest"
  /\ limits' = [limits EXCEPT !["quota"] =
       IF Limiting = {} THEN None
       ELSE [cores |-> quotas[TightestQuota], level |-> TightestQuota,
             usage |-> UsageLevel(TightestQuota, place)]]
  /\ step' = "set"
  /\ UNCHANGED <<files, history, machine, place, cursor, written, quotas, unreadable, result>>

(* The set of the closest level that carries one, whatever is above it.    *)
FindSet ==
  /\ step = "set"
  /\ place' = located["set"]
  /\ LET level == FirstWith(Chain(place') \cap HasSet)
     IN IF level = None
        THEN step' = "judge" /\ UNCHANGED cursor
        ELSE step' = "cores" /\ cursor' = level
  /\ UNCHANGED <<files, history, machine, written, quotas, limits, unreadable, result>>

ReadSet ==
  /\ step = "cores"
  /\ \/ /\ SetRead = Unusable
        /\ Raise
        /\ UNCHANGED limits
     \/ /\ SetRead = None
        /\ step' = "judge"
        /\ UNCHANGED <<cursor, limits, unreadable>>
     \/ /\ SetRead \notin {Unusable, None}
        /\ limits' = [limits EXCEPT !["set"] =
             [cores |-> Scale * SetRead, level |-> cursor, usage |-> None]]
        /\ step' = "pair"
        /\ UNCHANGED <<cursor, unreadable>>
  /\ UNCHANGED <<files, history, machine, place, written, quotas, result>>

PairSet ==
  /\ step = "pair"
  /\ limits' = [limits EXCEPT !["set"].usage = UsageLevel(cursor, place)]
  /\ step' = "judge"
  /\ UNCHANGED <<files, history, machine, place, cursor, written, quotas, unreadable, result>>

Judge ==
  /\ step = "judge"
  /\ evaluation' = Evaluation
  /\ step' = IF Evaluation.usage = None THEN "reported" ELSE "time"
  /\ UNCHANGED <<files, history, machine, place, cursor, written, quotas, limits,
                 unreadable, timed>>

(* read_cpu_usage(): the counter of that level, which has to be one this   *)
(* process belongs to, and to answer.                                      *)
ReadTime ==
  /\ step = "time"
  /\ \/ /\ evaluation.usage \in Chain(located["time"]) \cap counting
        /\ timed' = evaluation.usage
     \/ timed' = None
  /\ step' = "reported"
  /\ UNCHANGED <<files, history, machine, place, cursor, written, quotas, limits,
                 unreadable, evaluation>>

Reader ==
  \/ Begin \/ ReadQuota \/ ReadPeriod \/ PickQuota
  \/ FindSet \/ ReadSet \/ PairSet \/ Judge \/ ReadTime

TypeOK ==
  /\ interface \in Interfaces
  /\ mechanism \in BOOLEAN /\ shut \subseteq Groups
  /\ quota \in [Groups -> QuotasSpelled]
  /\ period \in [Groups -> PeriodsSpelled]
  /\ cpus \in [Groups -> interface.contents]
  /\ counting \subseteq Groups
  /\ located \in Locations
  /\ step \in {"idle", "quota", "period", "tightest", "set", "cores", "pair",
               "judge", "time", "reported"}
  /\ machine \in {Machine, None}
  /\ place \in Places \cup {None}
  /\ cursor \in Groups
  /\ step \in {"quota", "period"} => cursor \in Chain(place)
  /\ written \in Quotas \cup {0, Unlimited, Unusable, None}
  /\ quotas \in [Groups -> Nat \cup {None}]
  /\ limits \in [{"quota", "set"} -> Restrictions \cup {None}]
  /\ unreadable \in Groups \cup {None}
  /\ evaluation \in Evaluations
  /\ timed \in Groups \cup {None}
  /\ steady \subseteq Groups /\ setHeld \in BOOLEAN
  /\ quiet \in BOOLEAN /\ churn \in Nat

(* A set below never has a core the set above has not.                     *)
Nested ==
  \A g, h \in Groups, f \in Range(interface.setFiles) :
    IsPrefix(g, h) /\ cpus[g][f] \in Nat /\ cpus[h][f] \in Nat => cpus[h][f] <= cpus[g][f]

(* Below a directory that may not be traversed nothing can be reached.  A  *)
(* controller was discovered by a file that could, and a hierarchy without *)
(* controllers need not be one of those that were.                         *)
Discovered ==
  /\ \A g \in shut, h \in Groups : IsPrefix(g, h) => h \in shut
  /\ counting \cap shut = {}
  /\ \A m \in Metrics : located[m] # None => mechanism /\ located[m].root \notin shut

Init ==
  /\ interface \in Interfaces
  /\ mechanism \in BOOLEAN /\ shut \in SUBSET Groups
  /\ quota \in [Groups -> QuotasSpelled]
  /\ period \in [Groups -> PeriodsSpelled]
  /\ cpus \in [Groups -> interface.contents] /\ Nested
  /\ counting \in Countings
  /\ located \in Locations /\ Discovered
  /\ step = "idle" /\ machine = None /\ place = None /\ cursor = <<>>
  /\ written = None /\ unreadable = None
  /\ quotas = [g \in Groups |-> None]
  /\ limits = [k \in {"quota", "set"} |-> None]
  /\ evaluation = NoCpuLimit({}) /\ timed = None
  /\ steady = {} /\ setHeld = TRUE /\ quiet = TRUE /\ churn \in 0..MaxChurn

Next == Others \/ Reader

Spec == Init /\ [][Next]_vars

-----------------------------------------------------------------------------
(* What has to hold.                                                       *)

(* The quota that stands at a level within reach.                          *)
Standing(g) ==
  IF g \notin shut /\ quota[g] \in Quotas /\ period[g] \in Periods
  THEN Cores(quota[g], period[g])
  ELSE None

(* The cores the closest set within reach leaves: under cgroup v1 the      *)
(* configured ones can be more than the effective ones.                    *)
SetStanding ==
  LET closest == FirstWith(Chain(located["set"]) \cap HasSet)
      numbers == {cpus[closest][f] : f \in Range(interface.setFiles)} \cap Nat
  IN IF closest = None \/ numbers = {} THEN None
     ELSE Scale * CHOOSE n \in numbers : \A m \in numbers : n <= m

Unread == "LIMIT_UNREADABLE" \in evaluation.notices

Binding(cores) == cores # None /\ ~(machine # None /\ cores >= machine)

(* A quota that stood at a level of the chain within reach for as long as  *)
(* the reading took, and is less than the machine, is never exceeded by what is        *)
(* reported, whatever else was written and wherever the process was moved  *)
(* meanwhile: no other level and no set hides it, and neither does it hide *)
(* a set that nobody touched.                                              *)
NeverLooserThanWhatStood ==
  step \in {"time", "reported"} /\ ~Unread =>
    \A cores \in {Standing(g) : g \in steady} \cup (IF setHeld THEN {SetStanding} ELSE {}) :
      Binding(cores) => evaluation.effective # None /\ evaluation.effective <= cores

(* A rate divides the time of one level by the limit of the same level.    *)
(* Of the many groups whose time can be read, no other one is ever paired  *)
(* with the limit, though the hierarchies have mount points of their own   *)
(* and the process moves.  README: "CpuLoad pairs them correctly."         *)
TimeOfTheLimit == timed # None => timed = evaluation.level

(* The cores left to the process by every level of the chain within reach  *)
(* and by its set.                                                         *)
Usable ==
  LET standing == {Standing(g) : g \in Chain(located["quota"])} \cup {SetStanding}
  IN {n \in 0..Machine : \A cores \in standing : cores # None => n <= cores}

(* Where nothing moves, the reading is exact: what is reported is what the *)
(* levels and the set leave to the process, or nothing where that is the   *)
(* whole machine.                                                          *)
QuietReadingIsExact ==
  step \in {"time", "reported"} /\ quiet /\ ~Unread /\ machine # None =>
    LET allowed == IF evaluation.effective = None THEN Machine ELSE evaluation.effective
    IN /\ Usable = 0..allowed
       /\ evaluation.effective # None => allowed < Machine

(* Nothing reported and nothing said means that a hierarchy is there and   *)
(* that no level of the chain this process can look into limits it: none   *)
(* carries a set, and none a quota, but for one that has lost its period   *)
(* file.  Of a level it may not look into it hears nothing.                *)
SilenceMeansNoLimit ==
  step = "reported" /\ quiet /\ evaluation = NoCpuLimit({}) =>
    /\ mechanism
    /\ \A g \in Chain(located["quota"]) \ shut :
         quota[g] = Unlimited \/ (interface.twoFiles /\ period[g] = Absent)
    /\ Chain(located["set"]) \cap HasSet = {}
=============================================================================

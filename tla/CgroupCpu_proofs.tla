-------------------------- MODULE CgroupCpu_proofs --------------------------
(* Proofs about CgroupCpu, for any groups and places of them, any quotas,  *)
(* periods and sets, and any number of changes while it runs.              *)
EXTENDS CgroupCpu, PathLemmas, TLAPS

-----------------------------------------------------------------------------
(* The inductive invariant.                                                *)

Walking == {"quota", "period", "tightest"}
Walked == {"set", "cores", "pair", "judge", "time", "reported"}
Decided == {"time", "reported"}

(* Where the reader stands: what it has in hand there.                     *)
Stance ==
  /\ step \in Walking => /\ place # None
                         /\ steady \subseteq Chain(place)
                         /\ \A g \in Groups : quotas[g] # None => g \in Chain(place)
                         /\ limits["quota"] = None
  /\ step = "period" => interface.twoFiles /\ written \in Quotas \cup {0, Unlimited}
  /\ step \in Walking \cup {"set", "cores"} => limits["set"] = None /\ unreadable = None
  /\ step \in {"cores", "pair"} => place # None /\ cursor \in Chain(place)
  /\ step = "pair" => /\ limits["set"] # None
                      /\ limits["set"].level = cursor /\ limits["set"].usage = None

(* The levels the walk has read, and the ones nobody has written to since  *)
(* the call began are still as they were read.                             *)
Passed(g) == step = "tightest" \/ Len(g) > Len(cursor)

Legible(g) ==
  Standing(g) = None => QuotaSaid(g) = Unlimited \/ PeriodSaid(g) = Absent

WalkRemembers ==
  /\ step \in Walking => \A g \in Groups : quotas[g] # None => Passed(g)
  /\ step \in Walking =>
       \A g \in steady : Passed(g) => quotas[g] = Standing(g) /\ Legible(g)
  /\ step = "period" /\ cursor \in steady => written = QuotaSaid(cursor)
  /\ step \in Walked /\ unreadable = None =>
       \A g \in steady :
         /\ Legible(g)
         /\ Standing(g) # None => limits["quota"] # None /\ limits["quota"].cores <= Standing(g)

(* The set that was read is the one that stands, where nobody changed it.  *)
SetFound == FirstWith(Chain(located["set"]) \cap HasSet)

SetRemembered ==
  setHeld =>
    /\ step = "cores" => place = located["set"] /\ cursor = SetFound
    /\ step \in {"pair", "judge"} \cup Decided /\ unreadable = None =>
         IF limits["set"] = None
         THEN SetFound = None /\ Chain(located["set"]) \cap HasSet = {}
         ELSE limits["set"].cores = SetStanding

(* What is reported follows from what was read, and from nothing later.    *)
Chosen ==
  IF unreadable # None \/ Candidates = {}
  THEN [effective |-> None, level |-> None, usage |-> None]
  ELSE [effective |-> limits[Tighter].cores, level |-> limits[Tighter].level,
        usage |-> limits[Tighter].usage]

Conclusion ==
  step \in Decided =>
    /\ evaluation.effective = Chosen.effective
    /\ evaluation.level = Chosen.level
    /\ evaluation.usage = Chosen.usage
    /\ unreadable # None => Unread

(* Where nothing moved, everything is still so.                            *)
Unmoved ==
  quiet /\ step # "idle" =>
    /\ setHeld /\ steady = Chain(located["quota"])
    /\ step \in Walking => place = located["quota"]
    /\ step \in Walked /\ limits["quota"] # None =>
         \E g \in steady : limits["quota"].cores = Standing(g)
    /\ step \in Decided => evaluation = Evaluation

(* The time read is the time of the level the limit was found at, as far   *)
(* as all mounts show the same part of their hierarchies.                  *)
OneRoot ==
  \A l \in Locations, m, n \in Metrics :
    l[m] # None /\ l[n] # None => l[m].root = l[n].root
Source == IF step \in Walking THEN "quota" ELSE "set"
SameLevel(r) == r # None => r.usage \in {None, r.level}
Paired ==
  /\ step \in Walking \cup {"cores", "pair"} =>
       located[Source] # None /\ located[Source].root = place.root
  /\ SameLevel(limits["quota"]) /\ SameLevel(limits["set"])
  /\ step \notin {"idle", "reported"} => timed = None
  /\ step \in Decided => evaluation.usage \in {None, evaluation.level}
  /\ timed # None => timed = evaluation.usage /\ step = "reported"

-----------------------------------------------------------------------------
(* Chains of levels.                                                       *)

LEMMA LevelsOfChain ==
  ASSUME NEW p \in Places, NEW g \in Chain(p)
  PROVE  /\ p.home \in Groups /\ p.root \in Groups /\ g \in Groups
         /\ p.home \in Seq(STRING) /\ p.root \in Seq(STRING) /\ g \in Seq(STRING)
         /\ IsPrefix(p.root, g) /\ IsPrefix(g, p.home)
         /\ Len(g) \in Nat /\ Len(p.home) \in Nat /\ Len(g) <= Len(p.home)
<1>1. /\ p.home \in Groups /\ p.root \in Groups /\ g \in Groups
      /\ IsPrefix(p.root, g) /\ IsPrefix(g, p.home)
  BY MarkersAssumption DEF Places, Chain
<1>2. p.home \in Seq(STRING) /\ p.root \in Seq(STRING) /\ g \in Seq(STRING)
  BY <1>1, ConstantsAssumption
<1> QED BY <1>1, <1>2, LenProperties, PrefixMeans

LEMMA OwnLevel ==
  ASSUME NEW p \in Places
  PROVE  /\ p # None /\ p.home \in Groups /\ p.root \in Groups
         /\ p.home \in Chain(p) /\ p.root \in Chain(p)
<1>1. p.home \in Groups /\ p.root \in Groups /\ IsPrefix(p.root, p.home) /\ p # None
  BY MarkersAssumption DEF Places
<1>2. p.home \in Seq(STRING) /\ p.root \in Seq(STRING)
  BY <1>1, ConstantsAssumption
<1>3. IsPrefix(p.home, p.home) /\ IsPrefix(p.root, p.root)
  BY <1>2, LenProperties, PrefixMeans
<1> QED BY <1>1, <1>3 DEF Chain

LEMMA ClosestExists ==
  ASSUME NEW p \in Places \cup {None}, NEW levels \in SUBSET Chain(p), levels # {}
  PROVE  /\ p \in Places
         /\ Closest(levels) \in levels /\ Closest(levels) \in Groups
         /\ \A h \in levels : Len(h) <= Len(Closest(levels))
<1>1. p \in Places /\ levels \in SUBSET Groups /\ levels \in SUBSET Seq(STRING)
  BY ConstantsAssumption DEF Chain
<1>2. Len(p.home) \in Nat /\ \A h \in levels : Len(h) <= Len(p.home)
  BY <1>1, LevelsOfChain
<1>3. \E g \in levels : \A h \in levels : Len(h) <= Len(g)
  BY <1>1, <1>2, LongestExists
<1> QED BY <1>1, <1>3 DEF Closest

LEMMA FirstWithExists ==
  ASSUME NEW p \in Places \cup {None}, NEW levels \in SUBSET Chain(p)
  PROVE  /\ FirstWith(levels) = None <=> levels = {}
         /\ levels # {} => FirstWith(levels) = Closest(levels) /\ FirstWith(levels) \in levels
         /\ FirstWith(levels) \in Groups \cup {None}
<1>1. levels # {} => Closest(levels) \in levels /\ Closest(levels) \in Groups
  BY ClosestExists
<1> QED BY <1>1, MarkersAssumption DEF FirstWith

(* The levels passed on the way up: no level is left out, and the one just *)
(* read is the one that is new.                                            *)
LEMMA Onward ==
  ASSUME place \in Places, cursor \in Chain(place), step \in {"quota", "period"}, NextLevel,
         UNCHANGED place
  PROVE  /\ step' \in {"quota", "tightest"}
         /\ cursor' \in Chain(place)
         /\ \A g \in Chain(place) : Passed(g)' <=> Passed(g) \/ g = cursor
<1>1. /\ cursor \in Groups /\ cursor \in Seq(STRING) /\ Len(cursor) \in Nat
      /\ IsPrefix(place.root, cursor) /\ IsPrefix(cursor, place.home)
      /\ place.root \in Seq(STRING) /\ place.home \in Seq(STRING)
  BY LevelsOfChain
<1>2. CASE cursor = place.root
  <2>1. step' = "tightest" /\ cursor' = cursor
    BY <1>2 DEF NextLevel
  <2>2. ASSUME NEW g \in Chain(place) PROVE Len(g) > Len(cursor) \/ g = cursor
    <3>1. /\ g \in Seq(STRING) /\ Len(g) \in Nat
          /\ IsPrefix(place.root, g) /\ IsPrefix(g, place.home)
      BY LevelsOfChain
    <3>2. Len(cursor) <= Len(g)
      BY <1>1, <1>2, <3>1, PrefixMeans
    <3>3. Len(cursor) = Len(g) => cursor = g
      BY <1>1, <3>1, SamePath
    <3> QED BY <1>1, <3>1, <3>2, <3>3
  <2> QED BY <2>1, <2>2 DEF Passed
<1>3. CASE cursor # place.root
  <2>1. /\ cursor # <<>> /\ Front(cursor) \in Seq(STRING) /\ Len(Front(cursor)) = Len(cursor) - 1
        /\ IsPrefix(place.root, Front(cursor)) /\ IsPrefix(Front(cursor), place.home)
    BY <1>1, <1>3, ParentPath
  <2>2. step' = "quota" /\ cursor' = Front(cursor) /\ Front(cursor) \in Groups
    BY <1>1, <1>3, <2>1, ConstantsAssumption DEF NextLevel
  <2>3. Front(cursor) \in Chain(place)
    BY <2>1, <2>2, MarkersAssumption DEF Chain
  <2>4. ASSUME NEW g \in Chain(place)
        PROVE  Len(g) > Len(Front(cursor)) <=> Len(g) > Len(cursor) \/ g = cursor
    <3>1. /\ g \in Seq(STRING) /\ Len(g) \in Nat /\ IsPrefix(g, place.home)
      BY LevelsOfChain
    <3>2. Len(cursor) = Len(g) => cursor = g
      BY <1>1, <3>1, SamePath
    <3> QED BY <1>1, <2>1, <3>1, <3>2
  <2>5. ASSUME NEW g \in Chain(place) PROVE Passed(g)' <=> Passed(g) \/ g = cursor
    <3>1. Passed(g)' <=> Len(g) > Len(Front(cursor))
      BY <2>2 DEF Passed
    <3>2. Passed(g) <=> Len(g) > Len(cursor)
      BY DEF Passed
    <3> QED BY <2>4, <3>1, <3>2
  <2> QED BY <2>2, <2>3, <2>5
<1> QED BY <1>2, <1>3

-----------------------------------------------------------------------------
(* What is read.                                                           *)

(* A quota and a period come to a number of cores.                         *)
LEMMA CoresCounted ==
  ASSUME NEW q \in Quotas, NEW p \in Periods
  PROVE  Cores(q, p) \in Nat
<1>1. Scale * q \in Nat /\ p \in Nat /\ p > 0
  BY ConstantsAssumption
<1> DEFINE n == Scale * q
<1>2. n \in Nat
  BY <1>1
<1> HIDE DEF n
<1>3. n \div p \in Nat
  BY <1>1, <1>2
<1> QED BY <1>3 DEF n, Cores

LEMMA StandingCounted ==
  ASSUME NEW g \in Groups
  PROVE  Standing(g) \in Nat \cup {None}
BY CoresCounted DEF Standing

(* What the files of a level say, and what stands there according to them: *)
(* under the newer interface no quota is without its period.               *)
LEMMA FilesSay ==
  ASSUME TypeOK, NEW g \in Groups
  PROVE  /\ QuotaSaid(g) \in Quotas \cup {0, Unlimited, Unusable}
         /\ PeriodSaid(g) \in Periods \cup {0, Absent, Unusable}
         /\ ~interface.twoFiles => QuotaSaid(g) # 0
         /\ ~interface.twoFiles /\ QuotaSaid(g) \in Quotas => PeriodSaid(g) \in Periods
         /\ Standing(g) =
              IF QuotaSaid(g) \in Quotas /\ PeriodSaid(g) \in Periods
              THEN Cores(QuotaSaid(g), PeriodSaid(g))
              ELSE None
<1>1. /\ quota[g] \in QuotasSpelled /\ period[g] \in PeriodsSpelled
      /\ Unlimited \notin Nat /\ Unusable \notin Nat /\ Quotas \subseteq Nat \ {0}
  BY ConstantsAssumption, MarkersAssumption DEF TypeOK
<1>2. CASE g \in shut
  <2>1. QuotaSaid(g) = Unlimited /\ PeriodSaid(g) = Absent /\ Standing(g) = None
    BY <1>2 DEF QuotaSaid, PeriodSaid, Standing
  <2>2. QuotaSaid(g) \notin Nat /\ 0 \in Nat
    BY <1>1, <2>1
  <2>3. /\ QuotaSaid(g) \in Quotas \cup {0, Unlimited, Unusable}
        /\ PeriodSaid(g) \in Periods \cup {0, Absent, Unusable}
    BY <2>1
  <2>4. QuotaSaid(g) \notin Quotas /\ QuotaSaid(g) # 0
    BY <1>1, <2>2
  <2> QED BY <2>1, <2>3, <2>4
<1>3. CASE g \notin shut
  <2>1. QuotaSaid(g) = quota[g] /\ PeriodSaid(g) = period[g]
    BY <1>3 DEF QuotaSaid, PeriodSaid
  <2>2. /\ quota[g] \in Quotas \cup {0, Unlimited, Unusable}
        /\ ~interface.twoFiles => quota[g] \in Quotas \cup {Unlimited, Unusable}
    BY <1>1 DEF QuotasSpelled
  <2>3. /\ period[g] \in Periods \cup {0, Absent, Unusable}
        /\ ~interface.twoFiles => period[g] \in Periods
    BY <1>1 DEF PeriodsSpelled
  <2>4. Standing(g) =
          IF quota[g] \in Quotas /\ period[g] \in Periods
          THEN Cores(quota[g], period[g]) ELSE None
    BY <1>3 DEF Standing
  <2>5. ~interface.twoFiles => quota[g] # 0
    BY <1>1, <2>2
  <2> QED BY <2>1, <2>2, <2>3, <2>4, <2>5
<1> QED BY <1>2, <1>3

(* The first file that says anything says no more cores than the others,   *)
(* and a level that carries a set says something.                          *)
LEMMA SetReadSays ==
  ASSUME TypeOK
  PROVE  /\ SetRead \in Nat \cup {Unusable, None}
         /\ SetRead = None => cursor \notin HasSet
         /\ SetRead \in Nat =>
              \E f \in Range(interface.setFiles) :
                /\ SetRead = cpus[cursor][f]
                /\ \A e \in Range(interface.setFiles) :
                     cpus[cursor][e] \in Nat => cpus[cursor][f] <= cpus[cursor][e]
<1> DEFINE names == interface.setFiles
           content == cpus[cursor]
<1>1. /\ interface \in Interfaces /\ content \in interface.contents /\ cursor \in Groups
      /\ names \in Seq(STRING) /\ Len(names) \in {1, 2}
  BY InterfacesAssumption DEF TypeOK
<1>2. /\ DOMAIN names = 1..Len(names) /\ DOMAIN names \in SUBSET Nat
      /\ Range(names) = {names[i] : i \in DOMAIN names}
  BY <1>1, LenProperties DEF Range
<1>3. \A i \in DOMAIN names : content[names[i]] \in Nat \cup {Inherited, Absent, Unusable}
  BY <1>1, <1>2, InterfacesAssumption
<1>4. CASE Said = {}
  <2>1. SetRead = None
    BY <1>4 DEF SetRead
  <2>2. \A f \in Range(names) : content[f] \in {Inherited, Absent}
    BY <1>2, <1>4 DEF Said, Says
  <2>3. content[Last(names)] = Absent
    BY <1>1, <2>2, ContentsAssumption
  <2> QED BY <2>1, <2>3, MarkersAssumption DEF HasSet
<1>5. CASE Said # {}
  <2>1. Said \in SUBSET Nat /\ Said \subseteq DOMAIN names
    BY <1>2 DEF Said
  <2>2. \E i \in Said : \A j \in Said : i <= j
    BY <1>5, <2>1, LeastNatural
  <2>3. PICK i \in Said : SetRead = Says(i) /\ \A j \in Said : i <= j
    BY <1>5, <2>2 DEF SetRead
  <2>4. /\ i \in DOMAIN names /\ SetRead = content[names[i]]
        /\ content[names[i]] \in Nat \cup {Unusable}
    BY <2>1, <2>3, <1>3 DEF Said, Says
  <2>5. ASSUME SetRead \in Nat, NEW j \in DOMAIN names, content[names[j]] \in Nat
        PROVE  content[names[i]] <= content[names[j]]
    <3>1. j \in Said
      BY <2>5, MarkersAssumption DEF Said, Says
    <3>2. i \in Nat /\ j \in Nat /\ i <= j
      BY <2>1, <2>3, <3>1
    <3>3. i < j => content[names[i]] <= content[names[j]]
      BY <1>1, <2>4, <2>5, ContentsAssumption
    <3>4. i = j \/ i < j
      BY <3>2
    <3> QED BY <2>4, <2>5, <3>3, <3>4
  <2>6. SetRead # None
    BY <2>4, MarkersAssumption
  <2> QED BY <1>2, <2>4, <2>5, <2>6
<1> QED BY <1>4, <1>5

(* The set read at the closest level is the one that stands.               *)
LEMMA SetReadStands ==
  ASSUME TypeOK, cursor = SetFound, SetRead \in Nat
  PROVE  SetStanding = Scale * SetRead
<1> DEFINE numbers == {cpus[cursor][f] : f \in Range(interface.setFiles)} \cap Nat
<1>1. SetRead \in numbers /\ \A m \in numbers : SetRead <= m
  BY SetReadSays
<1>2. cursor # None
  BY MarkersAssumption DEF TypeOK
<1>3. (CHOOSE n \in numbers : \A m \in numbers : n <= m) = SetRead
  <2> DEFINE least == CHOOSE n \in numbers : \A m \in numbers : n <= m
  <2>1. least \in numbers /\ \A m \in numbers : least <= m
    BY <1>1
  <2> QED BY <1>1, <2>1
<1> QED BY <1>1, <1>2, <1>3 DEF SetStanding, SetFound

-----------------------------------------------------------------------------
(* What does not move with the files or with what was read.                *)

LEMMA FilesStand ==
  ASSUME UNCHANGED files
  PROVE  /\ \A g \in Groups : Standing(g)' = Standing(g) /\ (Legible(g)' <=> Legible(g))
         /\ HasSet' = HasSet /\ SetFound' = SetFound /\ SetStanding' = SetStanding
<1> USE DEF files
<1>1. ASSUME NEW g \in Groups PROVE Standing(g)' = Standing(g)
  BY DEF Standing
<1>2. ASSUME NEW g \in Groups PROVE Legible(g)' <=> Legible(g)
  BY <1>1 DEF Legible, QuotaSaid, PeriodSaid
<1>3. HasSet' = HasSet
  BY DEF HasSet
<1>4. SetFound' = SetFound
  BY <1>3 DEF SetFound
<1>5. SetStanding' = SetStanding
  BY <1>3 DEF SetStanding
<1> QED BY <1>1, <1>2, <1>3, <1>4, <1>5

LEMMA ChosenStands ==
  ASSUME UNCHANGED <<machine, limits, unreadable>>
  PROVE  Candidates' = Candidates /\ Tighter' = Tighter /\ Chosen' = Chosen
<1>1. Candidates' = Candidates
  BY DEF Candidates, Covers
<1>2. Tighter' = Tighter
  BY <1>1 DEF Tighter
<1> QED BY <1>1, <1>2 DEF Chosen

LEMMA EvaluationStands ==
  ASSUME UNCHANGED <<machine, limits, unreadable, mechanism>>
  PROVE  Evaluation' = Evaluation
<1>1. Candidates' = Candidates /\ Tighter' = Tighter
  BY ChosenStands
<1>2. WorthKnowing' = WorthKnowing
  BY <1>1 DEF WorthKnowing, NoMechanism
<1> QED BY <1>1, <1>2 DEF Evaluation, NoCpuLimit

-----------------------------------------------------------------------------
(* What is made of it.                                                     *)

(* The tighter of the two limits is one of them, and neither is tighter.   *)
LEMMA TighterOfTwo ==
  ASSUME TypeOK, Candidates # {}
  PROVE  /\ Tighter \in Candidates
         /\ \A k \in Candidates :
              /\ limits[k] \in Restrictions
              /\ limits[Tighter].cores <= limits[k].cores
<1>1. Candidates \subseteq {"quota", "set"}
  BY DEF Candidates
<1>2. ASSUME NEW k \in Candidates PROVE limits[k] \in Restrictions /\ limits[k].cores \in Nat
  <2>1. limits[k] \in Restrictions
    BY DEF Candidates, TypeOK
  <2> QED BY <2>1 DEF Restrictions
<1>3. CASE Candidates = {"quota", "set"}
  BY <1>2, <1>3 DEF Tighter
<1>4. CASE Candidates # {"quota", "set"}
  <2>1. Tighter = CHOOSE k \in Candidates : TRUE
    BY <1>4 DEF Tighter
  <2>2. PICK k \in Candidates : Candidates = {k}
    BY <1>1, <1>4
  <2>3. Tighter = k
    BY <2>1, <2>2
  <2> QED BY <1>2, <2>2, <2>3
<1> QED BY <1>3, <1>4

LEMMA EvaluationTyped ==
  ASSUME TypeOK
  PROVE  /\ Evaluation \in Evaluations
         /\ Evaluation.effective = Chosen.effective
         /\ Evaluation.level = Chosen.level
         /\ Evaluation.usage = Chosen.usage
         /\ "LIMIT_UNREADABLE" \in Evaluation.notices <=> unreadable # None
<1>1. WorthKnowing \subseteq Notices /\ "LIMIT_UNREADABLE" \notin WorthKnowing
  BY DEF WorthKnowing
<1>2. {} \subseteq Notices /\ {"LIMIT_UNREADABLE"} \subseteq Notices
  BY DEF Notices
<1>3. CASE unreadable # None
  BY <1>2, <1>3 DEF Evaluation, Evaluations, Chosen, NoCpuLimit
<1>4. CASE unreadable = None /\ Candidates = {}
  BY <1>1, <1>4 DEF Evaluation, Evaluations, Chosen, NoCpuLimit
<1>5. CASE unreadable = None /\ Candidates # {}
  <2>1. limits[Tighter] \in Restrictions
    BY <1>5, TighterOfTwo
  <2> DEFINE chosen == limits[Tighter]
  <2>2. chosen.cores \in Nat /\ chosen.level \in Groups /\ chosen.usage \in Groups \cup {None}
    BY <2>1 DEF Restrictions
  <2>3. Evaluation = [effective |-> chosen.cores, level |-> chosen.level,
                      usage |-> chosen.usage, notices |-> WorthKnowing]
    BY <1>5 DEF Evaluation
  <2>4. Chosen = [effective |-> chosen.cores, level |-> chosen.level, usage |-> chosen.usage]
    BY <1>5 DEF Chosen
  <2> HIDE DEF chosen
  <2> QED BY <1>1, <1>5, <2>2, <2>3, <2>4 DEF Evaluations
<1> QED BY <1>3, <1>4, <1>5

(* The quota that is picked is the least of the levels that were read.     *)
LEMMA LeastPicked ==
  ASSUME TypeOK, Stance, step = "tightest", Limiting # {}
  PROVE  /\ TightestQuota \in Limiting /\ TightestQuota \in Chain(place)
         /\ quotas[TightestQuota] \in Nat
         /\ \A h \in Limiting : quotas[TightestQuota] <= quotas[h]
<1> DEFINE values == {quotas[g] : g \in Limiting}
           least == {g \in Limiting : \A h \in Limiting : quotas[g] <= quotas[h]}
<1>1. \A g \in Limiting : g \in Groups /\ quotas[g] \in Nat /\ g \in Chain(place)
  BY DEF Limiting, TypeOK, Stance, Walking
<1>2. values \in SUBSET Nat /\ values # {}
  BY <1>1
<1>3. \E x \in values : \A y \in values : x <= y
  <2> HIDE DEF values
  <2> QED BY <1>2, LeastNatural
<1>4. least # {} /\ least \in SUBSET Chain(place)
  BY <1>1, <1>3
<1>5. place \in Places \cup {None}
  BY DEF TypeOK
<1>6. Closest(least) \in least
  <2> HIDE DEF least
  <2> QED BY <1>4, <1>5, ClosestExists
<1>7. TightestQuota = Closest(least)
  BY DEF TightestQuota
<1> HIDE DEF least
<1>8. TightestQuota \in least
  BY <1>6, <1>7
<1> QED BY <1>1, <1>8 DEF least

(* Where its time is counted is a level this process belongs to, or        *)
(* nowhere.                                                                *)
LEMMA UsageLevelTyped ==
  ASSUME NEW g, NEW source
  PROVE  UsageLevel(g, source) \in Groups \cup {None}
BY DEF UsageLevel, Chain

-----------------------------------------------------------------------------
(* Typing.                                                                 *)

(* What everybody else can do in one step: the reader does not move, and   *)
(* what counts as untouched afterwards is as it was.                       *)
OthersKept ==
  /\ UNCHANGED <<interface, mechanism, shut, reader, result>>
  /\ quota' \in [Groups -> QuotasSpelled] /\ period' \in [Groups -> PeriodsSpelled]
  /\ cpus' \in [Groups -> interface.contents]
  /\ counting' = counting /\ located' \in Locations
  /\ churn' \in Nat /\ quiet' = FALSE /\ setHeld' \in BOOLEAN
  /\ steady' \subseteq steady
  /\ \A g \in steady' : quota'[g] = quota[g] /\ period'[g] = period[g]
  /\ setHeld' => setHeld /\ cpus' = cpus /\ located'["set"] = located["set"]
  /\ \A m \in Metrics : ThroughTheSameMounts(m)

LEMMA OthersStep ==
  ASSUME TypeOK, Others
  PROVE  OthersKept
<1> USE DEF TypeOK, Stirred, OthersKept
<1>1. ASSUME located' = located PROVE \A m \in Metrics : ThroughTheSameMounts(m)
  BY <1>1 DEF ThroughTheSameMounts
<1>2. ASSUME NEW g \in Groups, NEW q \in QuotasSpelled, WriteQuota(g, q) PROVE OthersKept
  BY <1>1, <1>2 DEF WriteQuota
<1>3. ASSUME NEW g \in Groups, NEW p \in PeriodsSpelled, WritePeriod(g, p) PROVE OthersKept
  BY <1>1, <1>3 DEF WritePeriod
<1>4. ASSUME NEW g \in Groups, NEW content \in interface.contents, WriteSet(g, content)
      PROVE  OthersKept
  <2>1. cpus' \in [Groups -> interface.contents]
    BY <1>4 DEF WriteSet
  <2>2. UNCHANGED <<interface, mechanism, shut, quota, period, counting, located,
                  steady, reader, result>>
    BY <1>4 DEF WriteSet
  <2>3. setHeld' = FALSE /\ quiet' = FALSE /\ churn' \in Nat
    BY <1>4 DEF WriteSet
  <2> QED BY <1>1, <2>1, <2>2, <2>3
<1>5. ASSUME Relocate PROVE OthersKept
  <2>1. /\ UNCHANGED <<interface, mechanism, shut, quota, period, cpus, counting, reader, result>>
        /\ located' \in Locations /\ quiet' = FALSE /\ churn' \in Nat
        /\ \A m \in Metrics : ThroughTheSameMounts(m)
    BY <1>5 DEF Relocate
  <2>2. steady' \subseteq steady
    BY <1>5 DEF Relocate
  <2>3. setHeld' = (setHeld /\ located'["set"] = located["set"])
    BY <1>5 DEF Relocate
  <2>4. setHeld' \in BOOLEAN /\ (setHeld' => setHeld /\ located'["set"] = located["set"])
    BY <2>3, Zenon
  <2> QED BY <2>1, <2>2, <2>4
<1> QED BY <1>2, <1>3, <1>4, <1>5 DEF Others

(* The steps keep what is in hand where the reader stands, typed.          *)
InHand == TypeOK /\ Stance

LEMMA InitInHand == Init => InHand
<1> SUFFICES ASSUME Init PROVE InHand
  OBVIOUS
<1> USE DEF Init
<1>1. NoCpuLimit({}) \in Evaluations
  BY DEF NoCpuLimit, Evaluations
<1>2. /\ counting \subseteq Groups /\ churn \in Nat /\ <<>> \in Groups
      /\ quotas \in [Groups -> Nat \cup {None}]
      /\ limits \in [{"quota", "set"} -> Restrictions \cup {None}]
  BY ConstantsAssumption
<1>3. TypeOK
  BY <1>1, <1>2 DEF TypeOK
<1>4. Stance
  BY DEF Stance, Walking
<1> QED BY <1>3, <1>4 DEF InHand

LEMMA OthersInHand == InHand /\ Others => InHand'
<1> SUFFICES ASSUME InHand, Others PROVE InHand'
  OBVIOUS
<1> USE DEF InHand, reader, result
<1>1. OthersKept
  BY OthersStep
<1> USE <1>1 DEF OthersKept
<1>2. TypeOK'
  <2>1. /\ QuotasSpelled' = QuotasSpelled /\ PeriodsSpelled' = PeriodsSpelled
        /\ Chain(place') = Chain(place)
    BY DEF QuotasSpelled, PeriodsSpelled
  <2>2. steady' \subseteq Groups
    BY DEF TypeOK
  <2> QED BY <2>1, <2>2 DEF TypeOK
<1>3. Stance'
  BY DEF Stance
<1> QED BY <1>2, <1>3

LEMMA BeginInHand == InHand /\ Begin => InHand'
<1> SUFFICES ASSUME InHand, Begin PROVE InHand'
  OBVIOUS
<1> USE DEF InHand
<1>1. /\ UNCHANGED <<files, churn>>
      /\ machine' \in MachineAnswers /\ place' = located["quota"]
      /\ cursor' = IF place' = None THEN <<>> ELSE place'.home
      /\ step' = IF place' = None THEN "set" ELSE "quota"
      /\ written' = None /\ unreadable' = None
      /\ quotas' = [g \in Groups |-> None]
      /\ limits' = [k \in {"quota", "set"} |-> None]
      /\ evaluation' = NoCpuLimit({}) /\ timed' = None
      /\ steady' = Chain(place') /\ setHeld' = TRUE /\ quiet' = TRUE
  BY DEF Begin
<1>2. place' \in Places \cup {None}
  BY <1>1, ConstantsAssumption DEF TypeOK, Metrics
<1>3. /\ cursor' \in Groups
      /\ step' \in {"quota", "set"}
      /\ step' = "quota" => place' # None /\ cursor' \in Chain(place')
  <2>1. CASE place' = None
    BY <1>1, <2>1, ConstantsAssumption
  <2>2. CASE place' \in Places
    <3>1. place' # None /\ place'.home \in Groups /\ place'.home \in Chain(place')
      BY <2>2, OwnLevel
    <3> QED BY <1>1, <3>1
  <2> QED BY <1>2, <2>1, <2>2
<1>4. TypeOK'
  <2>1. /\ interface' \in Interfaces /\ mechanism' \in BOOLEAN /\ shut' \subseteq Groups
        /\ quota' \in [Groups -> QuotasSpelled'] /\ period' \in [Groups -> PeriodsSpelled']
        /\ cpus' \in [Groups -> interface'.contents]
        /\ counting' \subseteq Groups /\ located' \in Locations /\ churn' \in Nat
    BY <1>1 DEF files, TypeOK, QuotasSpelled, PeriodsSpelled
  <2>2. NoCpuLimit({}) \in Evaluations
    BY DEF NoCpuLimit, Evaluations
  <2>3. Chain(place') \subseteq Groups
    BY DEF Chain
  <2>4. machine' \in {Machine, None}
    BY <1>1, ConstantsAssumption
  <2>5. /\ quotas' \in [Groups -> Nat \cup {None}]
        /\ limits' \in [{"quota", "set"} -> Restrictions \cup {None}]
    BY <1>1
  <2> QED BY <1>1, <1>2, <1>3, <2>1, <2>2, <2>3, <2>4, <2>5 DEF TypeOK
<1>5. Stance'
  <2>1. \A g \in Groups : quotas'[g] = None
    BY <1>1
  <2>2. limits'["quota"] = None /\ limits'["set"] = None
    BY <1>1
  <2> QED BY <1>1, <1>3, <2>1, <2>2 DEF Stance, Walking
<1> QED BY <1>4, <1>5

(* The frame of a step that only reads.                                    *)
LEMMA FilesTyped ==
  ASSUME TypeOK, UNCHANGED <<files, history>>
  PROVE  /\ interface' \in Interfaces /\ mechanism' \in BOOLEAN /\ shut' \subseteq Groups
         /\ quota' \in [Groups -> QuotasSpelled'] /\ period' \in [Groups -> PeriodsSpelled']
         /\ cpus' \in [Groups -> interface'.contents]
         /\ counting' \subseteq Groups /\ located' \in Locations
         /\ steady' \subseteq Groups /\ setHeld' \in BOOLEAN
         /\ quiet' \in BOOLEAN /\ churn' \in Nat
BY DEF TypeOK, files, history, QuotasSpelled, PeriodsSpelled

(* What one step of the walk does: the reading ends, the period comes      *)
(* next, or the level is done with, a quota noted for it or not.           *)
Ended ==
  Raise /\ UNCHANGED quotas
Halfway ==
  /\ step = "quota" /\ interface.twoFiles /\ QuotaSaid(cursor) # Unusable
  /\ written' = QuotaSaid(cursor)
  /\ step' = "period" /\ UNCHANGED <<cursor, quotas, unreadable>>
Counted(q) == q \in Quotas /\ PeriodSaid(cursor) \in Periods
Noted(q) ==
  /\ NextLevel /\ UNCHANGED unreadable
  /\ \/ (q = Unlimited \/ PeriodSaid(cursor) = Absent) /\ UNCHANGED quotas
     \/ Counted(q) /\ quotas' = [quotas EXCEPT ![cursor] = Cores(q, PeriodSaid(cursor))]

WalkStep ==
  /\ step \in {"quota", "period"}
  /\ UNCHANGED <<files, history, machine, place, limits, result>>
  /\ written' \in Quotas \cup {0, Unlimited, Unusable, None}
  /\ \/ Ended
     \/ Halfway
     \/ step = "quota" /\ Noted(QuotaSaid(cursor))
     \/ step = "period" /\ Noted(written)

LEMMA Walks ==
  ASSUME InHand, ReadQuota \/ ReadPeriod
  PROVE  WalkStep
<1> USE DEF InHand
<1>1. /\ cursor \in Groups /\ QuotaSaid(cursor) \in Quotas \cup {0, Unlimited, Unusable}
      /\ QuotaSaid(cursor) \in Quotas /\ ~interface.twoFiles => PeriodSaid(cursor) \in Periods
      /\ step \in {"quota", "period"}
  BY FilesSay DEF TypeOK, ReadQuota, ReadPeriod
<1>2. ASSUME ReadQuota PROVE WalkStep
  <2>1. /\ step = "quota"
        /\ UNCHANGED <<files, history, machine, place, limits, result>>
        /\ written' = IF interface.twoFiles THEN QuotaSaid(cursor) ELSE None
    BY <1>2 DEF ReadQuota
  <2>2. Ended \/ Halfway \/ Noted(QuotaSaid(cursor))
    BY <1>1, <1>2, Zenon DEF ReadQuota, Ended, Halfway, Noted, Counted
  <2> QED BY <1>1, <2>1, <2>2 DEF WalkStep
<1>3. ASSUME ReadPeriod PROVE WalkStep
  <2>1. /\ step = "period" /\ written' = None
        /\ UNCHANGED <<files, history, machine, place, limits, result>>
    BY <1>3 DEF ReadPeriod
  <2>2. Ended \/ Noted(written)
    BY <1>3, Zenon DEF ReadPeriod, Ended, Noted, Counted
  <2> QED BY <1>1, <2>1, <2>2 DEF WalkStep
<1> QED BY <1>2, <1>3

(* A level that is done with: what is noted for it is its own, and where   *)
(* nothing is noted its files say so.                                      *)
LEMMA NotedMeans ==
  ASSUME InHand, NEW q, Noted(q), step \in {"quota", "period"}, UNCHANGED place
  PROVE  /\ place \in Places /\ cursor \in Chain(place) /\ cursor \in Groups
         /\ Counted(q) => quotas' = [quotas EXCEPT ![cursor] = Cores(q, PeriodSaid(cursor))]
                          /\ Cores(q, PeriodSaid(cursor)) \in Nat
         /\ ~Counted(q) => /\ q = Unlimited \/ PeriodSaid(cursor) = Absent
                           /\ UNCHANGED quotas
         /\ step' \in {"quota", "tightest"} /\ cursor' \in Chain(place)
         /\ \A g \in Chain(place) : Passed(g)' <=> Passed(g) \/ g = cursor
         /\ UNCHANGED unreadable
<1> USE DEF InHand
<1>1. place \in Places /\ cursor \in Chain(place) /\ cursor \in Groups
  BY DEF TypeOK, Stance, Walking
<1>2. ~(Counted(q) /\ (q = Unlimited \/ PeriodSaid(cursor) = Absent))
  BY ConstantsAssumption, MarkersAssumption DEF Counted
<1>3. NextLevel /\ UNCHANGED unreadable
  BY DEF Noted
<1>4. /\ step' \in {"quota", "tightest"} /\ cursor' \in Chain(place)
      /\ \A g \in Chain(place) : Passed(g)' <=> Passed(g) \/ g = cursor
  BY <1>1, <1>3, Onward
<1>5. /\ Counted(q) => quotas' = [quotas EXCEPT ![cursor] = Cores(q, PeriodSaid(cursor))]
      /\ ~Counted(q) => /\ q = Unlimited \/ PeriodSaid(cursor) = Absent
                        /\ UNCHANGED quotas
  BY <1>2, Zenon DEF Noted
<1>6. Counted(q) => Cores(q, PeriodSaid(cursor)) \in Nat
  BY CoresCounted DEF Counted
<1> QED BY <1>1, <1>3, <1>4, <1>5, <1>6

LEMMA WalkInHand == InHand /\ WalkStep => InHand'
<1> SUFFICES ASSUME InHand, WalkStep PROVE InHand'
  OBVIOUS
<1> USE DEF InHand
<1>1. /\ step \in {"quota", "period"}
      /\ UNCHANGED <<files, history, machine, place, limits, result>>
      /\ written' \in Quotas \cup {0, Unlimited, Unusable, None}
  BY DEF WalkStep
<1>2. /\ interface' \in Interfaces /\ mechanism' \in BOOLEAN /\ shut' \subseteq Groups
      /\ quota' \in [Groups -> QuotasSpelled'] /\ period' \in [Groups -> PeriodsSpelled']
      /\ cpus' \in [Groups -> interface'.contents]
      /\ counting' \subseteq Groups /\ located' \in Locations
      /\ steady' \subseteq Groups /\ setHeld' \in BOOLEAN
      /\ quiet' \in BOOLEAN /\ churn' \in Nat
  BY <1>1, FilesTyped
<1>3. /\ place \in Places /\ place # None /\ cursor \in Chain(place) /\ cursor \in Groups
      /\ steady \subseteq Chain(place)
      /\ limits["quota"] = None /\ limits["set"] = None /\ unreadable = None
      /\ \A g \in Groups : quotas[g] # None => g \in Chain(place)
  BY <1>1, OwnLevel DEF TypeOK, Stance, Walking
<1>4. ASSUME /\ step' \in {"quota", "period", "tightest", "judge"}
             /\ cursor' \in Chain(place)
             /\ quotas' \in [Groups -> Nat \cup {None}]
             /\ \A g \in Groups : quotas'[g] # None => g \in Chain(place)
             /\ step' = "judge" => unreadable' \in Groups
             /\ step' # "judge" => unreadable' = None
             /\ step' = "period" => interface.twoFiles /\ written' \in Quotas \cup {0, Unlimited}
      PROVE  InHand'
  <2>1. cursor' \in Groups
    BY <1>4 DEF Chain
  <2>2. unreadable' \in Groups \cup {None}
    BY <1>4
  <2>3. /\ machine' \in {Machine, None} /\ place' \in Places \cup {None}
        /\ limits' \in [{"quota", "set"} -> Restrictions \cup {None}]
        /\ evaluation' \in Evaluations /\ timed' \in Groups \cup {None}
    BY <1>1 DEF TypeOK, result
  <2>4. TypeOK'
    BY <1>1, <1>2, <1>4, <2>1, <2>2, <2>3 DEF TypeOK
  <2>5. Stance'
    BY <1>1, <1>3, <1>4 DEF Stance, Walking, files, history
  <2> QED BY <2>4, <2>5
<1>5. CASE Ended
  BY <1>3, <1>4, <1>5 DEF Ended, Raise, TypeOK
<1>6. CASE Halfway
  <2>1. QuotaSaid(cursor) \in Quotas \cup {0, Unlimited}
    BY <1>3, <1>6, FilesSay DEF Halfway
  <2> QED BY <1>3, <1>4, <1>6, <2>1 DEF Halfway, TypeOK
<1>7. ASSUME NEW q, Noted(q) PROVE InHand'
  <2>1. /\ Counted(q) => quotas' = [quotas EXCEPT ![cursor] = Cores(q, PeriodSaid(cursor))]
                         /\ Cores(q, PeriodSaid(cursor)) \in Nat
        /\ ~Counted(q) => UNCHANGED quotas
        /\ step' \in {"quota", "tightest"} /\ cursor' \in Chain(place)
        /\ UNCHANGED unreadable
    BY <1>1, <1>7, NotedMeans
  <2>2. /\ quotas' \in [Groups -> Nat \cup {None}]
        /\ \A g \in Groups : quotas'[g] # None => g \in Chain(place)
    BY <1>3, <2>1 DEF TypeOK
  <2> QED BY <1>3, <1>4, <2>1, <2>2
<1> QED BY <1>5, <1>6, <1>7 DEF WalkStep

(* What PickQuota puts down, and what PairSet adds to it.                  *)
PickedQuota ==
  IF Limiting = {} THEN None
  ELSE [cores |-> quotas[TightestQuota], level |-> TightestQuota,
        usage |-> UsageLevel(TightestQuota, place)]

LEMMA PickedTyped ==
  ASSUME InHand, step = "tightest"
  PROVE  PickedQuota \in Restrictions \cup {None}
<1>1. CASE Limiting = {}
  BY <1>1 DEF PickedQuota
<1>2. CASE Limiting # {}
  <2>1. TightestQuota \in Groups /\ quotas[TightestQuota] \in Nat
    BY <1>2, LeastPicked DEF InHand, Limiting
  <2>2. UsageLevel(TightestQuota, place) \in Groups \cup {None}
    BY UsageLevelTyped
  <2> QED BY <1>2, <2>1, <2>2 DEF PickedQuota, Restrictions
<1> QED BY <1>1, <1>2

LEMMA PickInHand == InHand /\ PickQuota => InHand'
<1> SUFFICES ASSUME InHand, PickQuota PROVE InHand'
  OBVIOUS
<1> USE DEF InHand
<1>1. /\ step = "tightest" /\ step' = "set"
      /\ limits' = [limits EXCEPT !["quota"] = PickedQuota]
      /\ UNCHANGED <<files, history, machine, place, cursor, written, quotas, unreadable, result>>
  BY DEF PickQuota, PickedQuota
<1>2. PickedQuota \in Restrictions \cup {None}
  BY <1>1, PickedTyped
<1>3. /\ limits' \in [{"quota", "set"} -> Restrictions \cup {None}]
      /\ limits'["set"] = limits["set"]
  BY <1>1, <1>2 DEF TypeOK
<1>4. TypeOK'
  BY <1>1, <1>3, FilesTyped DEF TypeOK, result
<1>5. Stance'
  BY <1>1, <1>3 DEF Stance, Walking
<1> QED BY <1>4, <1>5

LEMMA FindInHand == InHand /\ FindSet => InHand'
<1> SUFFICES ASSUME InHand, FindSet PROVE InHand'
  OBVIOUS
<1> USE DEF InHand
<1> DEFINE level == FirstWith(Chain(place') \cap HasSet)
<1>1. /\ step = "set" /\ place' = located["set"]
      /\ IF level = None THEN step' = "judge" /\ UNCHANGED cursor
                         ELSE step' = "cores" /\ cursor' = level
      /\ UNCHANGED <<files, history, machine, written, quotas, limits, unreadable, result>>
  BY DEF FindSet
<1>2. place' \in Places \cup {None}
  BY <1>1, ConstantsAssumption DEF TypeOK, Metrics
<1>3. level # None => level \in Chain(place') /\ level \in Groups /\ place' # None
  <2>1. level # None => level \in Chain(place') \cap HasSet
    BY <1>2, FirstWithExists
  <2> QED BY <2>1 DEF Chain
<1> HIDE DEF level
<1>4. /\ step' \in {"judge", "cores"} /\ cursor' \in Groups
      /\ step' = "cores" => place' # None /\ cursor' \in Chain(place')
  BY <1>1, <1>3 DEF TypeOK
<1>5. TypeOK'
  BY <1>1, <1>2, <1>4, FilesTyped DEF TypeOK, result
<1>6. Stance'
  BY <1>1, <1>4 DEF Stance, Walking
<1> QED BY <1>5, <1>6

LEMMA ReadSetInHand == InHand /\ ReadSet => InHand'
<1> SUFFICES ASSUME InHand, ReadSet PROVE InHand'
  OBVIOUS
<1> USE DEF InHand
<1>1. /\ step = "cores"
      /\ UNCHANGED <<files, history, machine, place, written, quotas, result>>
      /\ UNCHANGED cursor
      /\ limits["set"] = None /\ unreadable = None
      /\ place # None /\ cursor \in Chain(place) /\ cursor \in Groups
  BY DEF ReadSet, Raise, Stance, TypeOK
<1>2. /\ unreadable' \in Groups \cup {None} /\ step' \in {"judge", "pair"}
      /\ limits' \in [{"quota", "set"} -> Restrictions \cup {None}]
      /\ step' = "pair" => limits'["set"] # None /\ limits'["set"].level = cursor
                           /\ limits'["set"].usage = None
  <2>1. CASE SetRead = Unusable /\ Raise /\ UNCHANGED limits
    BY <1>1, <2>1 DEF Raise, TypeOK
  <2>2. CASE step' = "judge" /\ UNCHANGED <<limits, unreadable>>
    BY <1>1, <2>2 DEF TypeOK
  <2>3. CASE /\ SetRead \notin {Unusable, None}
             /\ limits' = [limits EXCEPT !["set"] =
                  [cores |-> Scale * SetRead, level |-> cursor, usage |-> None]]
             /\ step' = "pair" /\ UNCHANGED unreadable
    <3>1. Scale * SetRead \in Nat
      BY <2>3, SetReadSays, ConstantsAssumption
    <3> DEFINE raw == [cores |-> Scale * SetRead, level |-> cursor, usage |-> None]
    <3>2. raw \in Restrictions /\ raw.level = cursor /\ raw.usage = None
      BY <1>1, <3>1 DEF Restrictions
    <3>3. raw # None
      BY <3>2, MarkersAssumption
    <3> HIDE DEF raw
    <3>4. limits' = [limits EXCEPT !["set"] = raw]
      BY <2>3 DEF raw
    <3>5. /\ limits' \in [{"quota", "set"} -> Restrictions \cup {None}]
          /\ limits'["set"] = raw
      BY <3>2, <3>4 DEF TypeOK
    <3> QED BY <1>1, <2>3, <3>2, <3>3, <3>5
  <2> QED BY <2>1, <2>2, <2>3 DEF ReadSet
<1>3. TypeOK'
  BY <1>1, <1>2, FilesTyped DEF TypeOK, result
<1>4. Stance'
  BY <1>1, <1>2 DEF Stance, Walking
<1> QED BY <1>3, <1>4

LEMMA PairInHand ==
  ASSUME InHand, PairSet
  PROVE  /\ InHand' /\ limits'["set"].usage = UsageLevel(cursor, place)
         /\ limits'["set"] # None /\ limits'["set"].cores = limits["set"].cores
         /\ limits'["set"].level = limits["set"].level
         /\ limits'["quota"] = limits["quota"]
<1> USE DEF InHand
<1>1. /\ step = "pair" /\ step' = "judge"
      /\ limits' = [limits EXCEPT !["set"].usage = UsageLevel(cursor, place)]
      /\ UNCHANGED <<files, history, machine, place, cursor, written, quotas, unreadable, result>>
      /\ limits["set"] \in Restrictions
  BY DEF PairSet, Stance, TypeOK
<1>2. PICK c \in Nat, l \in Groups, u \in Groups \cup {None} :
        limits["set"] = [cores |-> c, level |-> l, usage |-> u]
  BY <1>1 DEF Restrictions
<1>3. PICK usage \in Groups \cup {None} : usage = UsageLevel(cursor, place)
  BY UsageLevelTyped
<1>4. /\ limits' \in [{"quota", "set"} -> Restrictions \cup {None}]
      /\ limits'["set"] = [cores |-> c, level |-> l, usage |-> usage]
      /\ limits'["quota"] = limits["quota"]
  BY <1>1, <1>2, <1>3 DEF TypeOK, Restrictions
<1>5. limits'["set"] # None
  <2>1. limits'["set"] \in Restrictions
    BY <1>4 DEF Restrictions
  <2> QED BY <2>1, MarkersAssumption
<1>6. TypeOK'
  BY <1>1, <1>4, FilesTyped DEF TypeOK, result
<1>7. Stance'
  BY <1>1 DEF Stance, Walking
<1> QED BY <1>2, <1>3, <1>4, <1>5, <1>6, <1>7

LEMMA JudgeInHand == InHand /\ Judge => InHand'
<1> SUFFICES ASSUME InHand, Judge PROVE InHand'
  OBVIOUS
<1> USE DEF InHand
<1>1. /\ step = "judge" /\ step' \in {"reported", "time"} /\ evaluation' = Evaluation
      /\ UNCHANGED <<files, history, machine, place, cursor, written, quotas, limits,
                     unreadable, timed>>
  BY DEF Judge
<1>2. TypeOK'
  BY <1>1, FilesTyped, EvaluationTyped DEF TypeOK
<1>3. Stance'
  BY <1>1 DEF Stance, Walking
<1> QED BY <1>2, <1>3

LEMMA TimeInHand == InHand /\ ReadTime => InHand'
<1> SUFFICES ASSUME InHand, ReadTime PROVE InHand'
  OBVIOUS
<1> USE DEF InHand
<1>1. /\ step = "time" /\ step' = "reported"
      /\ timed' \in {evaluation.usage, None}
      /\ UNCHANGED <<files, history, machine, place, cursor, written, quotas, limits,
                     unreadable, evaluation>>
  BY DEF ReadTime
<1>2. evaluation.usage \in Groups \cup {None}
  BY DEF TypeOK, Evaluations
<1>3. TypeOK'
  BY <1>1, <1>2, FilesTyped DEF TypeOK
<1>4. Stance'
  BY <1>1 DEF Stance, Walking
<1> QED BY <1>3, <1>4

LEMMA StutterInHand == InHand /\ UNCHANGED vars => InHand'
<1> SUFFICES ASSUME InHand, UNCHANGED vars PROVE InHand'
  OBVIOUS
<1> USE DEF InHand, vars, reader, result
<1>1. TypeOK'
  BY FilesTyped DEF TypeOK
<1>2. Stance'
  BY DEF Stance, files, history
<1> QED BY <1>1, <1>2

LEMMA InHandKept == InHand /\ [Next]_vars => InHand'
BY OthersInHand, BeginInHand, Walks, WalkInHand, PickInHand, FindInHand, ReadSetInHand,
     PairInHand, JudgeInHand, TimeInHand, StutterInHand DEF Next, Reader

(* Everything the call has read, decided and reported has its type.        *)
THEOREM TypeCorrect == Spec => []TypeOK
<1>1. InHand => TypeOK
  BY DEF InHand
<1> QED BY InitInHand, InHandKept, <1>1, PTL DEF Spec

-----------------------------------------------------------------------------
(* What was read of the quotas.                                            *)

(* Past the walk the quota that was picked stays.                          *)
LEMMA PickedStays ==
  ASSUME WalkRemembers, step \in Walked, step' \in Walked, UNCHANGED <<files, history>>,
         limits'["quota"] = limits["quota"], unreadable' = None => unreadable = None,
         steady \subseteq Groups
  PROVE  WalkRemembers'
<1>1. step' \notin Walking /\ step' # "period"
  BY DEF Walked, Walking
<1>2. \A g \in Groups : Standing(g)' = Standing(g) /\ (Legible(g)' <=> Legible(g))
  BY FilesStand
<1> QED BY <1>1, <1>2 DEF WalkRemembers, history

LEMMA WalkRemembersWalk ==
  ASSUME InHand, WalkRemembers, WalkStep
  PROVE  WalkRemembers'
<1> USE DEF InHand
<1>1. /\ step \in {"quota", "period"} /\ step \in Walking /\ step # "tightest"
      /\ UNCHANGED <<files, history, machine, place, limits, result>>
      /\ UNCHANGED <<quota, period, shut, interface, steady>>
  BY DEF WalkStep, Walking, files, history
<1>2. \A g \in Groups : Standing(g)' = Standing(g) /\ (Legible(g)' <=> Legible(g))
  BY <1>1, FilesStand
<1>3. /\ steady \subseteq Chain(place) /\ steady \subseteq Groups
      /\ cursor \in Groups /\ Len(cursor) \in Nat
      /\ \A g \in Groups : quotas[g] # None => Passed(g)
      /\ \A g \in steady : Passed(g) => quotas[g] = Standing(g) /\ Legible(g)
  <2>1. cursor \in Groups /\ Len(cursor) \in Nat
    BY ConstantsAssumption, LenProperties DEF TypeOK
  <2> QED BY <1>1, <2>1 DEF TypeOK, Stance, WalkRemembers
<1>4. ~Passed(cursor)
  BY <1>1, <1>3 DEF Passed
<1>5. CASE Ended
  <2>1. step' = "judge" /\ unreadable' # None
    BY <1>3, <1>5, MarkersAssumption DEF Ended, Raise
  <2> QED BY <2>1 DEF WalkRemembers, Walking
<1>6. CASE Halfway
  <2>1. /\ step' = "period" /\ written' = QuotaSaid(cursor)
        /\ UNCHANGED <<cursor, quotas, unreadable>>
    BY <1>6 DEF Halfway
  <2>2. \A g \in Groups : Passed(g)' <=> Passed(g)
    BY <1>1, <2>1 DEF Passed
  <2>3. QuotaSaid(cursor)' = QuotaSaid(cursor)
    BY <1>1, <2>1 DEF QuotaSaid
  <2> QED BY <1>1, <1>2, <1>3, <2>1, <2>2, <2>3 DEF WalkRemembers, Walked
<1>7. ASSUME NEW q, Noted(q), q = QuotaSaid(cursor) \/ cursor \notin steady PROVE WalkRemembers'
  <2>1. /\ cursor \in Chain(place)
        /\ Counted(q) => quotas' = [quotas EXCEPT ![cursor] = Cores(q, PeriodSaid(cursor))]
                         /\ Cores(q, PeriodSaid(cursor)) \in Nat
        /\ ~Counted(q) => /\ q = Unlimited \/ PeriodSaid(cursor) = Absent
                          /\ UNCHANGED quotas
        /\ step' \in {"quota", "tightest"}
        /\ \A g \in Chain(place) : Passed(g)' <=> Passed(g) \/ g = cursor
    BY <1>1, <1>7, NotedMeans
  <2>2. ASSUME NEW g \in Groups, quotas'[g] # None PROVE Passed(g)'
    <3>1. g = cursor \/ quotas[g] # None
      BY <1>3, <2>1, <2>2 DEF TypeOK
    <3>2. g \in Chain(place)
      BY <1>1, <2>1, <3>1 DEF Stance
    <3> QED BY <1>3, <2>1, <3>1, <3>2
  <2>3. ASSUME NEW g \in steady, Passed(g)' PROVE quotas'[g] = Standing(g) /\ Legible(g)
    <3>1. g \in Groups /\ (Passed(g) \/ g = cursor)
      BY <1>3, <2>1, <2>3
    <3>2. CASE g # cursor
      <4>1. quotas'[g] = quotas[g]
        BY <2>1, <3>1, <3>2 DEF TypeOK
      <4> QED BY <1>3, <3>1, <3>2, <4>1
    <3>3. CASE g = cursor
      <4>1. q = QuotaSaid(g) /\ quotas[g] = None
        BY <1>3, <1>4, <1>7, <2>3, <3>3
      <4>2. CASE Counted(q)
        <5>1. quotas'[g] = Cores(q, PeriodSaid(g)) /\ Cores(q, PeriodSaid(g)) \in Nat
          BY <1>3, <2>1, <3>3, <4>2 DEF TypeOK
        <5>2. Standing(g) = Cores(q, PeriodSaid(g)) /\ Standing(g) # None
          BY <3>1, <3>3, <4>1, <4>2, <5>1, FilesSay, MarkersAssumption DEF Counted
        <5> QED BY <5>1, <5>2 DEF Legible
      <4>3. CASE ~Counted(q)
        <5>1. quotas'[g] = None /\ (QuotaSaid(g) = Unlimited \/ PeriodSaid(g) = Absent)
          BY <2>1, <3>3, <4>1, <4>3
        <5>2. Standing(g) = None
          BY <3>1, <3>3, <4>1, <4>3, FilesSay DEF Counted
        <5> QED BY <5>1, <5>2 DEF Legible
      <4> QED BY <4>2, <4>3
    <3> QED BY <3>2, <3>3
  <2>4. step' \notin Walked /\ step' # "period"
    BY <2>1 DEF Walked
  <2> QED BY <1>1, <1>2, <1>3, <2>2, <2>3, <2>4 DEF WalkRemembers
<1>8. step = "quota" /\ Noted(QuotaSaid(cursor)) => WalkRemembers'
  BY <1>7
<1>9. step = "period" /\ Noted(written) => WalkRemembers'
  BY <1>7 DEF WalkRemembers
<1> QED BY <1>5, <1>6, <1>8, <1>9 DEF WalkStep

LEMMA WalkRemembersPick ==
  ASSUME InHand, WalkRemembers, PickQuota
  PROVE  WalkRemembers'
<1> USE DEF InHand
<1>1. /\ step = "tightest" /\ step' = "set"
      /\ limits' = [limits EXCEPT !["quota"] = PickedQuota]
      /\ UNCHANGED <<files, history>> /\ UNCHANGED steady
  BY DEF PickQuota, PickedQuota, history
<1>2. limits'["quota"] = PickedQuota
  BY <1>1 DEF TypeOK
<1>3. ASSUME NEW g \in steady
      PROVE  /\ Legible(g)
             /\ Standing(g) # None => PickedQuota # None /\ PickedQuota.cores <= Standing(g)
  <2>1. g \in Groups /\ quotas[g] = Standing(g) /\ Legible(g)
    BY <1>1 DEF WalkRemembers, Walking, Passed, TypeOK
  <2>2. ASSUME Standing(g) # None
        PROVE  PickedQuota # None /\ PickedQuota.cores <= Standing(g)
    <3>1. g \in Limiting
      BY <2>1, <2>2 DEF Limiting
    <3>2. quotas[TightestQuota] <= quotas[g]
      BY <1>1, <3>1, LeastPicked
    <3>3. PickedQuota = [cores |-> quotas[TightestQuota], level |-> TightestQuota,
                         usage |-> UsageLevel(TightestQuota, place)]
      BY <3>1 DEF PickedQuota
    <3>4. PickedQuota \in Restrictions
      <4>1. TightestQuota \in Groups /\ quotas[TightestQuota] \in Nat
        BY <1>1, <3>1, LeastPicked DEF Limiting
      <4> QED BY <3>3, <4>1, UsageLevelTyped DEF Restrictions
    <3>5. PickedQuota # None
      BY <3>4, MarkersAssumption
    <3> QED BY <2>1, <3>2, <3>3, <3>5
  <2> QED BY <2>1, <2>2
<1>4. \A g \in Groups : Standing(g)' = Standing(g) /\ (Legible(g)' <=> Legible(g))
  BY <1>1, FilesStand
<1>5. steady \subseteq Groups /\ step' \notin Walking
  BY <1>1 DEF TypeOK, Walking
<1> QED BY <1>1, <1>2, <1>3, <1>4, <1>5 DEF WalkRemembers

LEMMA WalkRemembersKept ==
  ASSUME InHand, WalkRemembers, [Next]_vars
  PROVE  WalkRemembers'
<1> USE DEF InHand
<1>1. CASE Others
  <2>1. OthersKept
    BY <1>1, OthersStep
  <2>2. UNCHANGED <<interface, shut, step, cursor, written, quotas, limits, unreadable>>
    BY <2>1 DEF OthersKept, reader
  <2>3. steady' \subseteq steady /\ steady \subseteq Groups
    BY <2>1 DEF OthersKept, TypeOK
  <2>4. ASSUME NEW g \in steady'
        PROVE Standing(g)' = Standing(g) /\ (Legible(g)' <=> Legible(g))
    <3>1. quota'[g] = quota[g] /\ period'[g] = period[g]
      BY <2>1 DEF OthersKept
    <3>2. Standing(g)' = Standing(g)
      BY <2>2, <3>1 DEF Standing
    <3>3. QuotaSaid(g)' = QuotaSaid(g) /\ PeriodSaid(g)' = PeriodSaid(g)
      BY <2>2, <3>1 DEF QuotaSaid, PeriodSaid
    <3> QED BY <3>2, <3>3 DEF Legible
  <2>5. \A g \in Groups : Passed(g)' <=> Passed(g)
    BY <2>2 DEF Passed
  <2>6. cursor \in steady' => QuotaSaid(cursor)' = QuotaSaid(cursor)
    BY <2>1, <2>2 DEF OthersKept, QuotaSaid
  <2> QED BY <2>2, <2>3, <2>4, <2>5, <2>6 DEF WalkRemembers
<1>2. CASE Begin
  <2>1. /\ place' = located["quota"] /\ steady' = Chain(place')
        /\ cursor' = IF place' = None THEN <<>> ELSE place'.home
        /\ step' = IF place' = None THEN "set" ELSE "quota"
        /\ quotas' = [g \in Groups |-> None]
    BY <1>2 DEF Begin
  <2>2. place' \in Places \cup {None}
    BY <2>1, ConstantsAssumption DEF TypeOK, Metrics
  <2>3. CASE place' = None
    <3>1. steady' = {} /\ step' = "set"
      BY <2>1, <2>3 DEF Chain
    <3> QED BY <3>1 DEF WalkRemembers, Walking
  <2>4. CASE place' # None
    <3>1. step' = "quota" /\ cursor' = place'.home /\ place' \in Places
      BY <2>1, <2>2, <2>4
    <3>2. ASSUME NEW g \in Chain(place') PROVE ~Passed(g)'
      <4>1. /\ Len(g) \in Nat /\ Len(place'.home) \in Nat /\ Len(g) <= Len(place'.home)
        BY <3>1, LevelsOfChain
      <4> QED BY <3>1, <4>1 DEF Passed
    <3>3. \A g \in Groups : quotas'[g] = None
      BY <2>1
    <3> QED BY <2>1, <3>1, <3>2, <3>3 DEF WalkRemembers, Walked
  <2> QED BY <2>3, <2>4
<1>3. CASE ReadQuota \/ ReadPeriod
  BY <1>3, Walks, WalkRemembersWalk
<1>4. CASE PickQuota
  BY <1>4, WalkRemembersPick
<1>5. CASE FindSet \/ ReadSet \/ PairSet \/ Judge \/ ReadTime
  <2>1. /\ step \in Walked /\ step' \in Walked /\ UNCHANGED <<files, history>>
        /\ unreadable' = None => unreadable = None
    BY <1>5 DEF FindSet, ReadSet, Raise, PairSet, Judge, ReadTime, Walked, Stance
  <2>2. limits'["quota"] = limits["quota"]
    <3>1. CASE PairSet
      BY <3>1, PairInHand
    <3>2. CASE ReadSet
      BY <3>2 DEF ReadSet, TypeOK
    <3>3. CASE FindSet \/ Judge \/ ReadTime
      BY <3>3 DEF FindSet, Judge, ReadTime
    <3> QED BY <1>5, <3>1, <3>2, <3>3
  <2> QED BY <2>1, <2>2, PickedStays DEF TypeOK
<1>6. CASE UNCHANGED vars
  <2>1. UNCHANGED <<step, cursor, written, quotas, limits, unreadable, steady, interface>>
    BY <1>6 DEF vars, reader, history, files
  <2>2. \A g \in Groups : Standing(g)' = Standing(g) /\ (Legible(g)' <=> Legible(g))
    BY <1>6, FilesStand DEF vars
  <2>3. \A g \in Groups : Passed(g)' <=> Passed(g)
    BY <2>1 DEF Passed
  <2>4. QuotaSaid(cursor)' = QuotaSaid(cursor) /\ steady \subseteq Groups
    BY <1>6, <2>1 DEF vars, files, TypeOK, QuotaSaid
  <2> QED BY <2>1, <2>2, <2>3, <2>4 DEF WalkRemembers
<1> QED BY <1>1, <1>2, <1>3, <1>4, <1>5, <1>6 DEF Next, Reader

-----------------------------------------------------------------------------
(* What was read of the set.                                               *)

LEMMA SetRememberedKept ==
  ASSUME InHand, SetRemembered, [Next]_vars
  PROVE  SetRemembered'
<1> USE DEF InHand
<1>1. CASE Others
  <2>1. OthersKept
    BY <1>1, OthersStep
  <2>2. /\ UNCHANGED <<interface, shut, step, place, cursor, limits, unreadable>>
        /\ setHeld' => setHeld /\ cpus' = cpus /\ located'["set"] = located["set"]
    BY <2>1 DEF OthersKept, reader
  <2>3. ASSUME setHeld' PROVE HasSet' = HasSet /\ SetFound' = SetFound /\ SetStanding' = SetStanding
    <3>1. HasSet' = HasSet
      BY <2>2, <2>3 DEF HasSet
    <3>2. located'["set"] = located["set"] /\ cpus' = cpus /\ interface' = interface
      BY <2>2, <2>3
    <3>3. SetFound' = SetFound
      BY <3>1, <3>2 DEF SetFound
    <3>4. SetStanding =
            LET numbers == {cpus[SetFound][f] : f \in Range(interface.setFiles)} \cap Nat
            IN IF SetFound = None \/ numbers = {} THEN None
               ELSE Scale * CHOOSE n \in numbers : \A m \in numbers : n <= m
      BY DEF SetStanding, SetFound
    <3>5. SetStanding' =
            LET numbers == {cpus'[SetFound'][f] : f \in Range(interface'.setFiles)} \cap Nat
            IN IF SetFound' = None \/ numbers = {} THEN None
               ELSE Scale * CHOOSE n \in numbers : \A m \in numbers : n <= m
      BY DEF SetStanding, SetFound
    <3>6. SetStanding' = SetStanding
      BY <3>2, <3>3, <3>4, <3>5
    <3> QED BY <3>1, <3>3, <3>6
  <2> QED BY <2>2, <2>3 DEF SetRemembered
<1>2. CASE Begin \/ PickQuota
  <2>1. step' \in {"quota", "set"}
    BY <1>2 DEF Begin, PickQuota
  <2> QED BY <2>1 DEF SetRemembered, Decided
<1>3. CASE ReadQuota \/ ReadPeriod
  <2>1. WalkStep
    BY <1>3, Walks
  <2>2. cursor # None
    BY MarkersAssumption DEF TypeOK
  <2>3. CASE Ended
    BY <2>2, <2>3 DEF Ended, Raise, SetRemembered
  <2>4. CASE Halfway
    BY <2>4 DEF Halfway, SetRemembered, Decided
  <2>5. ASSUME NEW q, Noted(q) PROVE step' \in {"quota", "tightest"}
    BY <2>5 DEF Noted, NextLevel
  <2> QED BY <2>1, <2>3, <2>4, <2>5 DEF WalkStep, SetRemembered, Decided
<1>4. CASE FindSet
  <2> DEFINE level == FirstWith(Chain(place') \cap HasSet)
  <2>1. /\ step = "set" /\ place' = located["set"]
        /\ IF level = None THEN step' = "judge" /\ UNCHANGED cursor
                           ELSE step' = "cores" /\ cursor' = level
        /\ UNCHANGED files /\ UNCHANGED <<limits, located>>
    BY <1>4 DEF FindSet, files
  <2>2. level = SetFound
    BY <2>1 DEF SetFound
  <2>3. SetFound = None <=> Chain(located["set"]) \cap HasSet = {}
    <3>1. located["set"] \in Places \cup {None}
      BY ConstantsAssumption DEF TypeOK, Metrics
    <3> QED BY <3>1, FirstWithExists DEF SetFound
  <2>4. limits["set"] = None
    BY <2>1 DEF Stance
  <2> HIDE DEF level
  <2>5. HasSet' = HasSet /\ SetFound' = SetFound
    BY <2>1, FilesStand
  <2> QED BY <2>1, <2>2, <2>3, <2>4, <2>5 DEF SetRemembered, Decided
<1>5. CASE ReadSet
  <2>1. /\ step = "cores" /\ UNCHANGED files /\ UNCHANGED <<cursor, located, setHeld>>
        /\ limits["set"] = None /\ cursor \in Groups
    BY <1>5 DEF ReadSet, Raise, Stance, files, history, TypeOK
  <2>2. /\ HasSet' = HasSet /\ SetFound' = SetFound /\ SetStanding' = SetStanding
    BY <2>1, FilesStand
  <2>3. SUFFICES ASSUME setHeld
                 PROVE  /\ step' \in {"judge", "pair"}
                        /\ unreadable' = None =>
                             /\ limits'["set"] # None
                             /\ limits'["set"].cores = SetStanding
    BY <2>1, <2>2 DEF SetRemembered, Decided
  <2>4. cursor = SetFound /\ place = located["set"]
    BY <2>1, <2>3 DEF SetRemembered
  <2>5. CASE Raise
    BY <2>1, <2>5, MarkersAssumption DEF Raise
  <2>6. CASE SetRead = None
    <3>1. cursor \notin HasSet
      BY <2>6, SetReadSays
    <3>2. cursor \in Chain(located["set"]) \cap HasSet
      <4>1. located["set"] \in Places \cup {None} /\ SetFound # None
        BY <2>1, <2>4, ConstantsAssumption, MarkersAssumption DEF TypeOK, Metrics
      <4> QED BY <2>4, <4>1, FirstWithExists DEF SetFound
    <3> QED BY <3>1, <3>2
  <2>7. CASE /\ SetRead \notin {Unusable, None}
             /\ limits' = [limits EXCEPT !["set"] =
                  [cores |-> Scale * SetRead, level |-> cursor, usage |-> None]]
             /\ step' = "pair"
    <3>1. SetRead \in Nat /\ SetStanding = Scale * SetRead
      BY <2>4, <2>7, SetReadSays, SetReadStands
    <3>2. limits'["set"] = [cores |-> Scale * SetRead, level |-> cursor, usage |-> None]
      BY <2>7 DEF TypeOK
    <3>3. Scale * SetRead \in Nat
      BY <3>1, ConstantsAssumption
    <3>4. limits'["set"] \in Restrictions
      BY <2>1, <3>2, <3>3 DEF Restrictions
    <3>5. limits'["set"] # None
      BY <3>4, MarkersAssumption
    <3> QED BY <2>7, <3>1, <3>2, <3>5
  <2> QED BY <1>5, <2>5, <2>6, <2>7 DEF ReadSet
<1>6. CASE PairSet \/ Judge \/ ReadTime
  <2>1. /\ step \in {"pair", "judge", "time"} /\ step' \in {"judge"} \cup Decided
        /\ UNCHANGED files /\ UNCHANGED <<located, setHeld, unreadable>>
    BY <1>6 DEF PairSet, Judge, ReadTime, Decided, files, history
  <2>2. /\ limits'["set"] = None <=> limits["set"] = None
        /\ limits["set"] # None => limits'["set"].cores = limits["set"].cores
    <3>1. CASE PairSet
      BY <3>1, PairInHand DEF PairSet, Stance
    <3>2. CASE Judge \/ ReadTime
      BY <3>2 DEF Judge, ReadTime
    <3> QED BY <1>6, <3>1, <3>2
  <2>3. /\ HasSet' = HasSet /\ SetFound' = SetFound /\ SetStanding' = SetStanding
    BY <2>1, FilesStand
  <2> QED BY <2>1, <2>2, <2>3 DEF SetRemembered, Decided
<1>7. CASE UNCHANGED vars
  <2>1. UNCHANGED files /\ UNCHANGED <<step, place, cursor, limits, unreadable, located, setHeld>>
    BY <1>7 DEF vars, reader, history, files
  <2>2. /\ HasSet' = HasSet /\ SetFound' = SetFound /\ SetStanding' = SetStanding
    BY <2>1, FilesStand
  <2> QED BY <2>1, <2>2 DEF SetRemembered
<1> QED BY <1>1, <1>2, <1>3, <1>4, <1>5, <1>6, <1>7 DEF Next, Reader

-----------------------------------------------------------------------------
(* What is concluded from it.                                              *)

LEMMA ConclusionKept ==
  ASSUME InHand, Conclusion, [Next]_vars
  PROVE  Conclusion'
<1> USE DEF InHand
<1>1. CASE Others \/ UNCHANGED vars
  <2>1. UNCHANGED <<step, evaluation, machine, limits, unreadable>>
    BY <1>1, OthersStep DEF OthersKept, reader, result, vars
  <2> QED BY <2>1, ChosenStands DEF Conclusion, Unread
<1>2. CASE Begin \/ ReadQuota \/ ReadPeriod \/ PickQuota \/ FindSet \/ ReadSet \/ PairSet
  <2>1. step' \notin Decided
    <3>1. CASE Begin \/ PickQuota \/ FindSet \/ ReadSet \/ PairSet
      BY <3>1 DEF Begin, PickQuota, FindSet, ReadSet, PairSet, Raise, Decided
    <3>2. CASE ReadQuota \/ ReadPeriod
      <4>1. WalkStep
        BY <3>2, Walks
      <4>2. ASSUME NEW q, Noted(q) PROVE step' \in {"quota", "tightest"}
        BY <4>2 DEF Noted, NextLevel
      <4> QED BY <4>1, <4>2 DEF WalkStep, Ended, Raise, Halfway, Decided
    <3> QED BY <1>2, <3>1, <3>2
  <2> QED BY <2>1 DEF Conclusion
<1>3. CASE Judge
  <2>1. evaluation' = Evaluation /\ UNCHANGED <<machine, limits, unreadable>>
    BY <1>3 DEF Judge
  <2>2. Chosen' = Chosen
    BY <2>1, ChosenStands
  <2> QED BY <2>1, <2>2, EvaluationTyped DEF Conclusion, Unread
<1>4. CASE ReadTime
  <2>1. step \in Decided /\ UNCHANGED <<evaluation, machine, limits, unreadable>>
    BY <1>4 DEF ReadTime, Decided
  <2>2. Chosen' = Chosen
    BY <2>1, ChosenStands
  <2> QED BY <2>1, <2>2 DEF Conclusion, Unread
<1> QED BY <1>1, <1>2, <1>3, <1>4 DEF Next, Reader

(* Where nothing has moved, what was read still stands.                    *)
LEMMA UnmovedKept ==
  ASSUME InHand, WalkRemembers, Unmoved, [Next]_vars
  PROVE  Unmoved'
<1> USE DEF InHand
<1>1. CASE Others
  BY <1>1, OthersStep DEF OthersKept, Unmoved
<1>2. CASE Begin
  <2>1. /\ place' = located["quota"] /\ steady' = Chain(place') /\ setHeld' = TRUE
        /\ step' \in {"quota", "set"} /\ limits'["quota"] = None
        /\ located' = located
    BY <1>2 DEF Begin, files
  <2> QED BY <2>1 DEF Unmoved, Decided
<1>3. CASE Reader /\ ~Begin
  <2>1. /\ UNCHANGED files /\ UNCHANGED <<located, steady, setHeld, quiet>>
        /\ step # "idle" /\ step' # "idle"
    <3>1. CASE ReadQuota \/ ReadPeriod
      <4>1. WalkStep
        BY <3>1, Walks
      <4>2. ASSUME NEW q, Noted(q) PROVE step' \in {"quota", "tightest"}
        BY <4>2 DEF Noted, NextLevel
      <4> QED BY <4>1, <4>2 DEF WalkStep, Ended, Raise, Halfway, files, history
    <3>2. CASE PickQuota \/ FindSet \/ ReadSet \/ PairSet \/ Judge \/ ReadTime
      BY <3>2 DEF PickQuota, FindSet, ReadSet, Raise, PairSet, Judge, ReadTime, files, history
    <3> QED BY <1>3, <3>1, <3>2 DEF Reader
  <2>2. SUFFICES ASSUME quiet
                 PROVE  /\ step' \in Walking => place' = located["quota"]
                        /\ step' \in Walked /\ limits'["quota"] # None =>
                             \E g \in steady : limits'["quota"].cores = Standing(g)'
                        /\ step' \in Decided => evaluation' = Evaluation'
    BY <2>1 DEF Unmoved
  <2>3. /\ steady = Chain(located["quota"])
        /\ step \in Walking => place = located["quota"]
        /\ step \in Walked /\ limits["quota"] # None =>
             \E g \in steady : limits["quota"].cores = Standing(g)
        /\ step \in Decided => evaluation = Evaluation
    BY <2>1, <2>2 DEF Unmoved
  <2>4. \A g \in steady : g \in Groups /\ Standing(g)' = Standing(g)
    BY <2>1, FilesStand DEF TypeOK
  <2>5. CASE ReadQuota \/ ReadPeriod
    <3>1. WalkStep
      BY <2>5, Walks
    <3>2. step \in Walking /\ limits'["quota"] = None /\ place' = place
      BY <3>1 DEF WalkStep, Stance, Walking
    <3>3. step' \in {"quota", "period", "tightest", "judge"}
      BY <3>1 DEF WalkStep, Ended, Raise, Halfway, Noted, NextLevel
    <3> QED BY <2>3, <3>2, <3>3 DEF Decided
  <2>6. CASE PickQuota
    <3>1. /\ step = "tightest" /\ step' = "set"
          /\ limits' = [limits EXCEPT !["quota"] = PickedQuota]
      BY <2>6 DEF PickQuota, PickedQuota
    <3>2. limits'["quota"] = PickedQuota
      BY <3>1 DEF TypeOK
    <3>3. ASSUME PickedQuota # None
          PROVE  \E g \in steady : PickedQuota.cores = Standing(g)
      <4>1. Limiting # {}
        BY <3>3 DEF PickedQuota
      <4>2. TightestQuota \in Chain(place)
        BY <3>1, <4>1, LeastPicked
      <4>3. TightestQuota \in steady
        BY <2>3, <3>1, <4>2 DEF Walking
      <4>4. quotas[TightestQuota] = Standing(TightestQuota)
        BY <3>1, <4>3 DEF WalkRemembers, Walking, Passed
      <4>5. PickedQuota.cores = quotas[TightestQuota]
        BY <4>1 DEF PickedQuota
      <4> QED BY <4>3, <4>4, <4>5
    <3> QED BY <2>4, <3>1, <3>2, <3>3 DEF Walking, Decided
  <2>7. CASE FindSet \/ ReadSet \/ PairSet
    <3>1. /\ step \in Walked /\ step' \notin Walking /\ step' \notin Decided
      BY <2>7 DEF FindSet, ReadSet, Raise, PairSet, Walking, Walked, Decided
    <3>2. limits'["quota"] = limits["quota"]
      <4>1. CASE PairSet
        BY <4>1, PairInHand
      <4>2. CASE FindSet \/ ReadSet
        BY <4>2 DEF FindSet, ReadSet, TypeOK
      <4> QED BY <2>7, <4>1, <4>2
    <3> QED BY <2>3, <2>4, <3>1, <3>2
  <2>8. CASE Judge \/ ReadTime
    <3>1. /\ step \in Walked /\ step' \notin Walking
          /\ UNCHANGED <<machine, limits, unreadable, mechanism>>
          /\ evaluation' = Evaluation \/ (step \in Decided /\ evaluation' = evaluation)
      BY <2>1, <2>8 DEF Judge, ReadTime, Walking, Walked, Decided, files
    <3>2. Evaluation' = Evaluation
      BY <3>1, EvaluationStands
    <3> QED BY <2>3, <2>4, <3>1, <3>2
  <2> QED BY <1>3, <2>5, <2>6, <2>7, <2>8 DEF Reader
<1>4. CASE UNCHANGED vars
  <2>1. UNCHANGED <<step, place, limits, machine, unreadable, evaluation, located, steady,
                    setHeld, quiet, mechanism>> /\ UNCHANGED files
    BY <1>4 DEF vars, reader, result, history, files
  <2>2. \A g \in steady : g \in Groups /\ Standing(g)' = Standing(g)
    BY <2>1, FilesStand DEF TypeOK
  <2>3. Evaluation' = Evaluation
    BY <2>1, EvaluationStands
  <2> QED BY <2>1, <2>2, <2>3 DEF Unmoved
<1> QED BY <1>1, <1>2, <1>3, <1>4 DEF Next

(* The inductive invariant.                                                *)
IInv == InHand /\ WalkRemembers /\ SetRemembered /\ Conclusion /\ Unmoved

LEMMA Remembered == Spec => []IInv
<1>1. Init => IInv
  <2> SUFFICES ASSUME Init PROVE IInv
    OBVIOUS
  <2>1. step = "idle" /\ InHand
    BY InitInHand DEF Init
  <2> QED BY <2>1 DEF IInv, WalkRemembers, SetRemembered, Conclusion, Unmoved,
                      Walking, Walked, Decided
<1>2. IInv /\ [Next]_vars => IInv'
  BY InHandKept, WalkRemembersKept, SetRememberedKept, ConclusionKept, UnmovedKept DEF IInv
<1> QED BY <1>1, <1>2, PTL DEF Spec

-----------------------------------------------------------------------------
(* What is reported.                                                       *)

(* A limit that was read and binds is not exceeded by what is reported.    *)
LEMMA NotExceeded ==
  ASSUME InHand, Conclusion, step \in Decided, unreadable = None,
         NEW k \in {"quota", "set"}, limits[k] # None,
         NEW cores \in Nat, limits[k].cores <= cores, Binding(cores)
  PROVE  evaluation.effective # None /\ evaluation.effective <= cores
<1>1. limits[k] \in Restrictions /\ limits[k].cores \in Nat
  <2>1. limits[k] \in Restrictions
    BY DEF InHand, TypeOK
  <2> QED BY <2>1 DEF Restrictions
<1>2. machine \in Nat \cup {None}
  BY ConstantsAssumption DEF InHand, TypeOK
<1>3. ~Covers(limits[k].cores)
  BY <1>1, <1>2, MarkersAssumption DEF Binding, Covers
<1>4. k \in Candidates
  BY <1>3 DEF Candidates
<1>5. limits[Tighter] \in Restrictions /\ limits[Tighter].cores <= limits[k].cores
  BY <1>4, TighterOfTwo DEF InHand
<1>6. limits[Tighter].cores \in Nat
  BY <1>5 DEF Restrictions
<1>7. evaluation.effective = limits[Tighter].cores
  BY <1>4 DEF Conclusion, Chosen
<1> QED BY <1>1, <1>5, <1>6, <1>7, MarkersAssumption

LEMMA SetStandingCounted ==
  ASSUME InHand
  PROVE  SetStanding \in Nat \cup {None}
<1> DEFINE closest == FirstWith(Chain(located["set"]) \cap HasSet)
           numbers == {cpus[closest][f] : f \in Range(interface.setFiles)} \cap Nat
           least == CHOOSE n \in numbers : \A m \in numbers : n <= m
<1>1. CASE closest = None \/ numbers = {}
  BY <1>1 DEF SetStanding
<1>2. CASE ~(closest = None \/ numbers = {})
  <2>1. SetStanding = Scale * least
    BY <1>2 DEF SetStanding
  <2>2. numbers \in SUBSET Nat /\ numbers # {}
    BY <1>2
  <2> HIDE DEF numbers
  <2>3. \E n \in numbers : \A m \in numbers : n <= m
    BY <2>2, LeastNatural
  <2>4. least \in Nat
    BY <2>2, <2>3
  <2> HIDE DEF least
  <2>5. Scale * least \in Nat
    BY <2>4, ConstantsAssumption
  <2> QED BY <2>1, <2>5
<1> QED BY <1>1, <1>2

LEMMA ReadSoFar ==
  ASSUME IInv, step \in Decided, ~Unread
  PROVE  /\ unreadable = None
         /\ \A g \in steady : Standing(g) # None =>
              limits["quota"] # None /\ limits["quota"].cores <= Standing(g)
         /\ \A g \in steady : Legible(g)
         /\ setHeld =>
              IF limits["set"] = None
              THEN SetFound = None /\ Chain(located["set"]) \cap HasSet = {}
              ELSE limits["set"].cores = SetStanding
<1>1. unreadable = None
  BY DEF IInv, Conclusion
<1>2. step \in Walked
  BY DEF Decided, Walked
<1> QED BY <1>1, <1>2 DEF IInv, WalkRemembers, SetRemembered

LEMMA NoLooser == IInv => NeverLooserThanWhatStood
<1> SUFFICES ASSUME IInv, step \in Decided, ~Unread,
                    NEW cores \in {Standing(g) : g \in steady}
                                    \cup (IF setHeld THEN {SetStanding} ELSE {}),
                    Binding(cores)
             PROVE  evaluation.effective # None /\ evaluation.effective <= cores
  BY DEF NeverLooserThanWhatStood, Decided
<1>1. InHand /\ Conclusion /\ unreadable = None
  BY ReadSoFar DEF IInv
<1>2. CASE \E g \in steady : cores = Standing(g)
  <2>1. PICK g \in steady : cores = Standing(g)
    BY <1>2
  <2>2. cores # None /\ g \in Groups
    BY <1>1 DEF Binding, InHand, TypeOK
  <2>3. cores \in Nat
    BY <2>1, <2>2, StandingCounted
  <2>4. limits["quota"] # None /\ limits["quota"].cores <= cores
    BY <2>1, <2>2, ReadSoFar
  <2> QED BY <1>1, <2>3, <2>4, NotExceeded
<1>3. CASE setHeld /\ cores = SetStanding
  <2>1. cores # None
    BY DEF Binding
  <2>2. cores \in Nat
    BY <1>1, <1>3, <2>1, SetStandingCounted
  <2>3. SetFound # None
    BY <1>3, <2>1 DEF SetStanding, SetFound
  <2>4. limits["set"] # None /\ limits["set"].cores = cores
    BY <1>3, <2>3, ReadSoFar
  <2>5. limits["set"].cores <= cores
    BY <2>2, <2>4
  <2> QED BY <1>1, <2>2, <2>4, <2>5, NotExceeded
<1> QED BY <1>2, <1>3

(* Whatever else was written and wherever the process was moved while it   *)
(* was read, a quota of the chain that stood, and a set that nobody        *)
(* touched, are never exceeded.                                            *)
THEOREM NeverLooser == Spec => []NeverLooserThanWhatStood
BY Remembered, NoLooser, PTL

LEMMA QuietIsExact == IInv => QuietReadingIsExact
<1> DEFINE allowed == IF evaluation.effective = None THEN Machine ELSE evaluation.effective
           standing == {Standing(g) : g \in Chain(located["quota"])} \cup {SetStanding}
<1> SUFFICES ASSUME IInv, step \in Decided, quiet, ~Unread, machine # None
             PROVE  /\ Usable = 0..allowed
                    /\ evaluation.effective # None => allowed < Machine
  BY DEF QuietReadingIsExact, Decided
<1>1. /\ InHand /\ Conclusion /\ unreadable = None /\ setHeld
      /\ machine = Machine /\ Machine \in Nat
      /\ steady = Chain(located["quota"])
      /\ limits["quota"] # None => \E g \in steady : limits["quota"].cores = Standing(g)
  <2>1. step \in Walked /\ step # "idle"
    BY DEF Decided, Walked
  <2> QED BY <2>1, ReadSoFar, ConstantsAssumption DEF IInv, Unmoved, InHand, TypeOK
<1>2. \A cores \in standing : cores \in Nat \cup {None}
  <2>1. \A g \in steady : Standing(g) \in Nat \cup {None}
    BY <1>1, StandingCounted DEF InHand, TypeOK
  <2> QED BY <1>1, <2>1, SetStandingCounted
<1>3. ASSUME evaluation.effective # None
      PROVE  evaluation.effective \in standing /\ allowed \in Nat /\ allowed < Machine
  <2>1. Candidates # {} /\ evaluation.effective = limits[Tighter].cores
    BY <1>1, <1>3 DEF Conclusion, Chosen
  <2>2. Tighter \in Candidates /\ limits[Tighter] \in Restrictions
    BY <1>1, <2>1, TighterOfTwo DEF InHand
  <2>3. /\ limits[Tighter].cores \in Nat
        /\ ~Covers(limits[Tighter].cores) /\ limits[Tighter] # None
        /\ Tighter \in {"quota", "set"}
    BY <2>2 DEF Candidates, Restrictions
  <2>4. limits[Tighter].cores < Machine
    BY <1>1, <2>3 DEF Covers
  <2>5. limits[Tighter].cores \in standing
    <3>1. CASE Tighter = "quota"
      BY <1>1, <2>3, <3>1
    <3>2. CASE Tighter = "set"
      BY <1>1, <2>3, <3>2, ReadSoFar
    <3> QED BY <2>3, <3>1, <3>2
  <2> QED BY <1>3, <2>1, <2>3, <2>4, <2>5
<1>4. allowed \in Nat /\ allowed <= Machine
  BY <1>1, <1>3
<1>5. ASSUME NEW cores \in standing, cores # None PROVE allowed <= cores
  <2>1. cores \in Nat
    BY <1>2, <1>5
  <2>2. CASE cores < Machine
    <3>1. Binding(cores)
      BY <1>1, <1>5, <2>1, <2>2 DEF Binding
    <3>2. cores \in {Standing(g) : g \in steady} \cup {SetStanding}
      BY <1>1
    <3>3. evaluation.effective # None /\ evaluation.effective <= cores
      BY <1>1, <3>1, <3>2, NoLooser DEF NeverLooserThanWhatStood, Decided
    <3> QED BY <3>3
  <2>3. CASE cores >= Machine
    BY <1>1, <1>4, <2>1, <2>3
  <2> QED BY <1>1, <2>1, <2>2, <2>3
<1>6. Usable = {n \in 0..Machine : \A cores \in standing : cores # None => n <= cores}
  BY DEF Usable
<1>7. ASSUME NEW n \in Usable PROVE n \in 0..allowed
  <2>1. n \in 0..Machine /\ \A cores \in standing : cores # None => n <= cores
    BY <1>6, <1>7
  <2>2. CASE evaluation.effective = None
    BY <2>1, <2>2
  <2>3. CASE evaluation.effective # None
    <3>1. n <= evaluation.effective
      BY <1>3, <2>1, <2>3
    <3> QED BY <1>4, <2>1, <2>3, <3>1
  <2> QED BY <2>2, <2>3
<1>8. ASSUME NEW n \in 0..allowed PROVE n \in Usable
  <2>1. n \in 0..Machine
    BY <1>1, <1>4
  <2>2. ASSUME NEW cores \in standing, cores # None PROVE n <= cores
    BY <1>2, <1>4, <1>5, <2>2
  <2> HIDE DEF standing
  <2> QED BY <1>6, <2>1, <2>2
<1> QED BY <1>3, <1>7, <1>8

(* Where nothing moves, what is reported is exactly what the levels and    *)
(* the set leave to the process.                                           *)
THEOREM QuietReadingsAreExact == Spec => []QuietReadingIsExact
BY Remembered, QuietIsExact, PTL

LEMMA SilenceSaid == IInv => SilenceMeansNoLimit
<1> SUFFICES ASSUME IInv, step = "reported", quiet, evaluation = NoCpuLimit({})
             PROVE  /\ mechanism
                    /\ \A g \in Chain(located["quota"]) \ shut :
                         quota[g] = Unlimited \/ (interface.twoFiles /\ period[g] = Absent)
                    /\ Chain(located["set"]) \cap HasSet = {}
  BY DEF SilenceMeansNoLimit
<1>1. step \in Decided /\ step # "idle" /\ ~Unread
  BY DEF Decided, Unread, NoCpuLimit
<1>2. /\ InHand /\ unreadable = None /\ setHeld
      /\ steady = Chain(located["quota"]) /\ evaluation = Evaluation
      /\ Candidates = {}
  <2>1. InHand /\ unreadable = None /\ setHeld
        /\ steady = Chain(located["quota"]) /\ evaluation = Evaluation
    BY <1>1, ReadSoFar DEF IInv, Unmoved
  <2>2. evaluation.effective = None
    BY DEF NoCpuLimit
  <2>3. ASSUME Candidates # {} PROVE FALSE
    <3>1. limits[Tighter] \in Restrictions
      BY <2>1, <2>3, TighterOfTwo DEF InHand
    <3>2. evaluation.effective \in Nat
      BY <2>1, <2>3, <3>1 DEF IInv, Conclusion, Chosen, Decided, Restrictions
    <3> QED BY <2>2, <3>2, MarkersAssumption
  <2> QED BY <2>1, <2>3
<1>3. WorthKnowing = {}
  BY <1>2 DEF Evaluation, NoCpuLimit
<1>4. limits["quota"] = None
  BY <1>2, <1>3 DEF WorthKnowing, Notices
<1>5. limits["set"] = None
  BY <1>2, <1>3 DEF WorthKnowing, Notices
<1>6. mechanism
  BY <1>3, <1>4, <1>5 DEF WorthKnowing, Notices, NoMechanism
<1>7. Chain(located["set"]) \cap HasSet = {}
  BY <1>1, <1>2, <1>5, ReadSoFar
<1>8. ASSUME NEW g \in steady \ shut
      PROVE  quota[g] = Unlimited \/ (interface.twoFiles /\ period[g] = Absent)
  <2>1. QuotaSaid(g) = Unlimited \/ PeriodSaid(g) = Absent
    BY <1>1, <1>4, ReadSoFar DEF Legible
  <2>2. quota[g] = Unlimited \/ period[g] = Absent
    BY <2>1 DEF QuotaSaid, PeriodSaid
  <2>3. period[g] \in PeriodsSpelled /\ Absent \notin Periods
    BY <1>2, ConstantsAssumption, MarkersAssumption DEF InHand, TypeOK
  <2> QED BY <2>2, <2>3 DEF PeriodsSpelled
<1> QED BY <1>2, <1>6, <1>7, <1>8

(* Nothing reported and nothing said: a hierarchy is there, and no level   *)
(* of it that can be looked into has a quota or a set.                     *)
THEOREM SilenceIsSpoken == Spec => []SilenceMeansNoLimit
BY Remembered, SilenceSaid, PTL

-----------------------------------------------------------------------------
(* Whose time is read.                                                     *)

(* As far as all mounts show the same part of their hierarchies, a level   *)
(* found through one is the level of that path found through another.      *)
LEMMA OwnUsageLevel ==
  ASSUME OneRoot, TypeOK, Paired, step \in {"tightest", "pair"},
         NEW g \in Chain(place), place \in Places
  PROVE  UsageLevel(g, place) \in {None, g}
<1>1. CASE located["time"] = None
  BY <1>1 DEF UsageLevel
<1>2. CASE located["time"] # None
  <2>1. located[Source] # None /\ located[Source].root = place.root
    BY DEF Paired, Walking
  <2>2. Source \in Metrics
    BY DEF Source, Metrics
  <2>3. located["time"].root = place.root
    BY <1>2, <2>1, <2>2 DEF OneRoot, TypeOK, Metrics
  <2> DEFINE root == place.root
             rest == SubSeq(g, Len(root) + 1, Len(g))
  <2>4. /\ root \in Seq(STRING) /\ g \in Seq(STRING) /\ IsPrefix(root, g)
        /\ Len(root) \in Nat /\ Len(g) \in Nat /\ Len(root) <= Len(g)
    <3>1. root \in Seq(STRING) /\ g \in Seq(STRING) /\ IsPrefix(root, g)
      BY LevelsOfChain
    <3> QED BY <3>1, PrefixMeans, LenProperties
  <2> DEFINE n == Len(g) - Len(root)
  <2>5. n \in 0..Len(g) - Len(root)
    BY <2>4
  <2>6. /\ rest \in Seq(STRING) /\ Len(rest) = n
        /\ root \o SubSeq(rest, 1, n) = SubSeq(g, 1, Len(root) + n)
    <3> HIDE DEF root, n
    <3>1. LET r == SubSeq(g, Len(root) + 1, Len(g))
          IN /\ r \in Seq(STRING) /\ Len(r) = Len(g) - Len(root)
             /\ root \o SubSeq(r, 1, n) = SubSeq(g, 1, Len(root) + n)
      BY <2>4, <2>5, RootAndRest
    <3> QED BY <3>1 DEF n
  <2>7. SubSeq(rest, 1, n) = rest
    <3> HIDE DEF rest
    <3> QED BY <2>6, SubSeqFull
  <2>8. SubSeq(g, 1, Len(root) + n) = g
    <3>1. Len(root) + n = Len(g)
      BY <2>4
    <3> QED BY <2>4, <3>1, SubSeqFull
  <2>9. Translated(g, place) = g
    BY <2>3, <2>6, <2>7, <2>8 DEF Translated
  <2> QED BY <2>9 DEF UsageLevel
<1> QED BY <1>1, <1>2

LEMMA PairedKept ==
  ASSUME OneRoot, InHand, Paired, [Next]_vars
  PROVE  Paired'
<1> USE DEF InHand
<1>1. CASE Others
  <2>1. /\ UNCHANGED <<step, place, limits, evaluation, timed>>
        /\ \A m \in Metrics : ThroughTheSameMounts(m)
    BY <1>1, OthersStep DEF OthersKept, reader, result
  <2>2. Source \in Metrics /\ Source' = Source
    BY <2>1 DEF Source, Metrics
  <2>3. located[Source] # None =>
          located'[Source] # None /\ located'[Source].root = located[Source].root
    BY <2>1, <2>2 DEF ThroughTheSameMounts
  <2> QED BY <2>1, <2>2, <2>3 DEF Paired, SameLevel
<1>2. CASE Begin
  <2>1. /\ place' = located["quota"] /\ located' = located
        /\ step' = IF place' = None THEN "set" ELSE "quota"
        /\ limits' = [k \in {"quota", "set"} |-> None] /\ timed' = None
    BY <1>2 DEF Begin, files
  <2>2. limits'["quota"] = None /\ limits'["set"] = None
    BY <2>1
  <2>3. step' = "quota" => Source' = "quota"
    BY DEF Source, Walking
  <2> QED BY <2>1, <2>2, <2>3 DEF Paired, SameLevel, Walking, Decided
<1>3. CASE ReadQuota \/ ReadPeriod
  <2>1. WalkStep
    BY <1>3, Walks
  <2>2. /\ step \in {"quota", "period"} /\ step' \in {"quota", "period", "tightest", "judge"}
        /\ UNCHANGED <<located, place, limits, evaluation, timed>>
    BY <2>1 DEF WalkStep, Ended, Raise, Halfway, Noted, NextLevel, files, result
  <2>3. step' # "judge" => Source' = Source
    BY <2>2 DEF Source, Walking
  <2> QED BY <2>2, <2>3 DEF Paired, SameLevel, Walking, Decided
<1>4. CASE PickQuota
  <2>1. /\ step = "tightest" /\ step' = "set"
        /\ limits' = [limits EXCEPT !["quota"] = PickedQuota]
        /\ UNCHANGED timed
    BY <1>4 DEF PickQuota, PickedQuota, result
  <2>2. limits'["quota"] = PickedQuota /\ limits'["set"] = limits["set"]
    BY <2>1 DEF TypeOK
  <2>3. SameLevel(PickedQuota)
    <3>1. CASE Limiting = {}
      BY <3>1 DEF PickedQuota, SameLevel
    <3>2. CASE Limiting # {}
      <4>1. TightestQuota \in Chain(place) /\ place \in Places
        BY <2>1, <3>2, LeastPicked DEF Stance, Walking, TypeOK
      <4>2. UsageLevel(TightestQuota, place) \in {None, TightestQuota}
        BY <2>1, <4>1, OwnUsageLevel
      <4> QED BY <3>2, <4>2 DEF PickedQuota, SameLevel
    <3> QED BY <3>1, <3>2
  <2> QED BY <2>1, <2>2, <2>3 DEF Paired, SameLevel, Walking, Decided
<1>5. CASE FindSet
  <2>1. /\ step = "set" /\ place' = located["set"] /\ step' \in {"judge", "cores"}
        /\ UNCHANGED <<located, limits, timed>>
    BY <1>5 DEF FindSet, files, result
  <2>2. step' = "cores" => place' # None /\ Source' = "set"
    <3>1. InHand'
      BY <1>5, FindInHand
    <3> QED BY <3>1 DEF Source, Walking, Stance
  <2> QED BY <2>1, <2>2 DEF Paired, SameLevel, Walking, Decided
<1>6. CASE ReadSet
  <2>1. /\ step = "cores" /\ step' \in {"judge", "pair"}
        /\ UNCHANGED <<located, place, timed>>
        /\ \/ UNCHANGED limits
           \/ limits' = [limits EXCEPT !["set"] =
                [cores |-> Scale * SetRead, level |-> cursor, usage |-> None]]
    BY <1>6 DEF ReadSet, Raise, files, result
  <2>2. SameLevel(limits'["quota"]) /\ SameLevel(limits'["set"])
    BY <2>1 DEF Paired, SameLevel, TypeOK
  <2>3. Source' = Source
    BY <2>1 DEF Source, Walking
  <2> QED BY <2>1, <2>2, <2>3 DEF Paired, SameLevel, Walking, Decided
<1>7. CASE PairSet
  <2>1. step = "pair" /\ step' = "judge" /\ UNCHANGED timed
    BY <1>7 DEF PairSet, result
  <2>2. cursor \in Chain(place) /\ place \in Places /\ limits["set"].level = cursor
    BY <2>1 DEF Stance, TypeOK
  <2>3. UsageLevel(cursor, place) \in {None, cursor}
    BY <2>1, <2>2, OwnUsageLevel
  <2>4. SameLevel(limits'["quota"]) /\ SameLevel(limits'["set"])
    BY <1>7, <2>2, <2>3, PairInHand DEF Paired, SameLevel
  <2> QED BY <2>1, <2>4 DEF Paired, SameLevel, Walking, Decided
<1>8. CASE Judge
  <2>1. /\ step = "judge" /\ step' \in {"reported", "time"} /\ evaluation' = Evaluation
        /\ UNCHANGED <<limits, timed>>
    BY <1>8 DEF Judge
  <2>2. Evaluation.usage \in {None, Evaluation.level}
    <3>1. CASE unreadable # None \/ Candidates = {}
      BY <3>1, EvaluationTyped DEF Chosen
    <3>2. CASE ~(unreadable # None \/ Candidates = {})
      <4>1. Tighter \in {"quota", "set"} /\ limits[Tighter] # None
        BY <3>2, TighterOfTwo DEF Candidates
      <4>2. SameLevel(limits[Tighter])
        BY <4>1 DEF Paired
      <4> QED BY <3>2, <4>1, <4>2, EvaluationTyped DEF SameLevel, Chosen
    <3> QED BY <3>1, <3>2
  <2> QED BY <2>1, <2>2 DEF Paired, SameLevel, Walking
<1>9. CASE ReadTime
  <2>1. /\ step = "time" /\ step' = "reported" /\ timed' \in {evaluation.usage, None}
        /\ UNCHANGED <<limits, evaluation>>
    BY <1>9 DEF ReadTime
  <2> QED BY <2>1 DEF Paired, SameLevel, Walking, Decided
<1>10. CASE UNCHANGED vars
  <2>1. UNCHANGED <<step, located, place, limits, evaluation, timed>>
    BY <1>10 DEF vars, reader, result, files
  <2> QED BY <2>1 DEF Paired, SameLevel, Source
<1> QED BY <1>1, <1>2, <1>3, <1>4, <1>5, <1>6, <1>7, <1>8, <1>9, <1>10 DEF Next, Reader

(* The time that is read is the time of the level the limit was found at,  *)
(* wherever the process is moved meanwhile, as long as all the hierarchies *)
(* are mounted at one root.                                                *)
THEOREM TimeIsOfTheLimit ==
  ASSUME OneRoot
  PROVE  Spec => []TimeOfTheLimit
<1>1. Init => InHand /\ Paired
  <2> SUFFICES ASSUME Init PROVE Paired
    BY InitInHand
  <2> QED BY DEF Init, Paired, SameLevel, Walking, Decided
<1>2. (InHand /\ Paired) /\ [Next]_vars => (InHand /\ Paired)'
  BY InHandKept, PairedKept
<1>3. InHand /\ Paired => TimeOfTheLimit
  <2> SUFFICES ASSUME InHand, Paired, timed # None PROVE timed = evaluation.level
    BY DEF TimeOfTheLimit
  <2>1. timed = evaluation.usage /\ step \in Decided
    BY DEF Paired, Decided
  <2> QED BY <2>1 DEF Paired
<1> QED BY <1>1, <1>2, <1>3, PTL DEF Spec
=============================================================================

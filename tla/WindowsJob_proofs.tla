------------------------- MODULE WindowsJob_proofs --------------------------
(* Proofs about WindowsJob, for any job, any machine, any limits, and any  *)
(* number of changes between the queries.                                  *)
EXTENDS WindowsJob, FiniteSetTheorems, SequenceTheorems, TLAPS

-----------------------------------------------------------------------------
(* Counting cores.                                                         *)

LEMMA CoresCounted ==
  ASSUME NEW groups \in Seq(Nat)
  PROVE  Cores(groups) \in Nat
<1> DEFINE n == Len(groups)
           f == [g \in 1..n |-> {g} \X (1..groups[g])]
           each == {f[g] : g \in 1..n}
<1>1. n \in Nat /\ DOMAIN groups = 1..n /\ \A g \in 1..n : groups[g] \in Nat
  BY LenProperties, ElementOfSeq
<1>2. IsFiniteSet(1..n)
  BY <1>1, FS_Interval
<1>3. f \in Surjection(1..n, each)
  BY DEF Surjection
<1>4. IsFiniteSet(each)
  <2> HIDE DEF f, each
  <2> QED BY <1>2, <1>3, FS_Surjection
<1>5. ASSUME NEW cores \in each PROVE IsFiniteSet(cores)
  <2>1. PICK g \in 1..n : cores = {g} \X (1..groups[g])
    BY <1>5
  <2>2. IsFiniteSet({g})
    BY FS_Singleton
  <2>3. IsFiniteSet(1..groups[g])
    <3>1. groups[g] \in Int
      BY <1>1
    <3> QED BY <3>1, FS_Interval
  <2> QED BY <2>1, <2>2, <2>3, FS_Product
<1>6. IsFiniteSet(UNION each)
  <2> HIDE DEF each
  <2> QED BY <1>4, <1>5, FS_UNION
<1>7. Cores(groups) = Cardinality(UNION each)
  BY <1>1 DEF Cores
<1> QED BY <1>6, <1>7, FS_CardinalityType

-----------------------------------------------------------------------------
(* The order of the queries.                                               *)

(* The queries that open a reading or stand by themselves.                 *)
Openings == {"sources", "ceiling", "count", "memory", "cpu", "usage"}

(* What is asked after a query within the same reading.                    *)
Successor(query) ==
  CASE query = "memory" -> "in_use"
    [] query = "in_use" -> "commit"
    [] query = "cpu"    -> "rate"
    [] query = "rate"   -> "size"
    [] query = "size"   -> "affinity"
    [] OTHER            -> "over"

(* How many queries are left of a reading, from a query of it on.          *)
Rest(query) ==
  CASE query = "memory" -> 3
    [] query = "in_use" -> 2
    [] query = "cpu"    -> 4
    [] query = "rate"   -> 3
    [] query = "size"   -> 2
    [] OTHER            -> 1

(* A reading is asked for in one piece, and once in a call; a call sizes   *)
(* the machine before it judges by the size, and begins with the sources.  *)
LEMMA PlanOrder ==
  ASSUME NEW c \in DOMAIN Plan, NEW i \in DOMAIN Plan[c]
  PROVE  LET query == Plan[c][i]
         IN /\ DOMAIN Plan[c] = 1..Len(Plan[c]) /\ Len(Plan[c]) \in Nat
            /\ Successor(query) # "over" =>
                 i + 1 \in DOMAIN Plan[c] /\ Plan[c][i + 1] = Successor(query)
            /\ i + Rest(query) \in 1..Len(Plan[c]) + 1
            /\ i + Rest(query) \in DOMAIN Plan[c] => Plan[c][i + Rest(query)] \in Openings
            /\ \A j \in DOMAIN Plan[c] : Plan[c][j] = query => j = i
            /\ query = "sources" => i = 1
            /\ query \in {"sources", "count"} =>
                 \E j \in DOMAIN Plan[c] : j >= i /\ Plan[c][j] = "cpu"
            /\ query \in {"sources", "ceiling"} =>
                 \E j \in DOMAIN Plan[c] : j >= i /\ Plan[c][j] = "memory"
<1> USE DEF Plan, Successor, Rest, Openings
<1>1. c \in {"get_memory_budget", "get_cpu_limit", "snapshot", "describe"}
  OBVIOUS
<1>2. CASE c = "get_memory_budget"
  BY <1>2
<1>3. CASE c = "get_cpu_limit"
  BY <1>3
<1>4. CASE c = "snapshot"
  BY <1>4
<1>5. CASE c = "describe"
  BY <1>5
<1> QED BY <1>1, <1>2, <1>3, <1>4, <1>5

(* The queries still to come.                                              *)
Ahead(query) == \E i \in DOMAIN Queue : i >= at /\ Queue[i] = query

LEMMA OneQuestion ==
  ASSUME TypeOK, NEW query, Asking(query)
  PROVE  /\ Ahead(query) /\ \A q : Asking(q) => q = query
         /\ call \in DOMAIN Plan /\ Queue = Plan[call] /\ at \in DOMAIN Plan[call]
         /\ Plan[call][at] = query
         /\ at \in Nat /\ at >= 1 /\ DOMAIN Plan[call] = 1..Len(Plan[call])
         /\ Len(Plan[call]) \in Nat
<1>1. /\ at \in DOMAIN Queue /\ Queue[at] = query
      /\ \A q : Asking(q) => q = query
  BY DEF Asking, Idle
<1>2. call # None
  BY <1>1 DEF Queue
<1>3. call \in DOMAIN Plan /\ Queue = Plan[call]
  BY <1>2 DEF TypeOK, Queue
<1>4. DOMAIN Plan[call] = 1..Len(Plan[call]) /\ Len(Plan[call]) \in Nat
  BY <1>1, <1>3, PlanOrder
<1>5. at \in Nat /\ at >= 1
  BY <1>1, <1>3, <1>4
<1>6. Ahead(query)
  BY <1>1, <1>5 DEF Ahead
<1> QED BY <1>1, <1>3, <1>4, <1>5, <1>6

(* Nothing is asked for again.                                             *)
LEMMA MovesOn ==
  ASSUME TypeOK, NEW query, Asking(query), NEW n \in Nat, n > 0, Skip(n)
  PROVE  /\ \A q : Ahead(q)' => Ahead(q)
         /\ ~Ahead(query)' /\ at' # 1 /\ call' = call
<1>1. at' = at + n /\ call' = call /\ Queue' = Queue
  BY DEF Skip, Queue
<1>2. /\ at \in Nat /\ at >= 1 /\ Queue = Plan[call] /\ call \in DOMAIN Plan
      /\ at \in DOMAIN Queue /\ Queue[at] = query /\ DOMAIN Queue = 1..Len(Queue)
      /\ Len(Queue) \in Nat
  BY OneQuestion
<1>3. \A j \in DOMAIN Queue : Queue[j] = query => j = at
  BY <1>2, PlanOrder
<1>4. ~Ahead(query)'
  BY <1>1, <1>2, <1>3 DEF Ahead
<1> QED BY <1>1, <1>2, <1>4 DEF Ahead

(* The next query of a reading, and the next reading.                      *)
LEMMA GoesOn ==
  ASSUME TypeOK, NEW query, Asking(query), AskNext, Successor(query) # "over"
  PROVE  /\ at' \in 1..Len(Queue') + 1
         /\ \A q : Asking(q)' => q = Successor(query)
<1>1. at' = at + 1 /\ Queue' = Queue
  BY DEF AskNext, Skip, Queue
<1>2. /\ Queue = Plan[call] /\ at + 1 \in DOMAIN Queue /\ Queue[at + 1] = Successor(query)
      /\ DOMAIN Queue = 1..Len(Queue) /\ Len(Queue) \in Nat
  BY OneQuestion, PlanOrder
<1> QED BY <1>1, <1>2 DEF Asking, Idle

LEMMA LeavesOff ==
  ASSUME TypeOK, NEW query, Asking(query), Skip(Rest(query))
  PROVE  /\ at' \in 1..Len(Queue') + 1
         /\ \A q : Asking(q)' => q \in Openings
<1>1. at' = at + Rest(query) /\ Queue' = Queue
  BY DEF Skip, Queue
<1>2. /\ Queue = Plan[call]
      /\ at + Rest(query) \in 1..Len(Queue) + 1
      /\ at + Rest(query) \in DOMAIN Queue => Queue[at + Rest(query)] \in Openings
  BY OneQuestion, PlanOrder
<1> QED BY <1>1, <1>2 DEF Asking, Idle

-----------------------------------------------------------------------------
(* What is in hand.                                                        *)

CpuQueries == {"rate", "size", "affinity"}

Stance ==
  /\ Ahead("memory") => memory = None
  /\ Ahead("cpu") => cpu = None
  /\ at = 1 => ~usage
  /\ \A q \in {"in_use", "commit"} :
       Asking(q) => ~Ahead("memory") /\ limits # None /\ PairsWithUsage(limits)
  /\ \A q \in CpuQueries : Asking(q) => ~Ahead("cpu") /\ limits # None

InHand == TypeOK /\ Stance

LEMMA JobFields ==
  ASSUME NEW j \in Jobs
  PROVE  /\ j.all \in Nat \cup {None} /\ j.each \in Nat \cup {None}
         /\ j.control \in Controls /\ j.affinity \in Affinities \cup {None}
         /\ j # None
         /\ RateCap(j.control) \in 1..Scale \cup {None}
<1>1. /\ j.all \in Limits \cup {None} /\ j.each \in Limits \cup {None}
      /\ j.control \in Controls /\ j.affinity \in Affinities \cup {None}
  BY DEF Jobs
<1>2. j.control.rate \in 1..Scale
  BY <1>1, ConstantsAssumption
<1> QED BY <1>1, <1>2, ConstantsAssumption, NoneAssumption DEF RateCap

(* Judging the memory gives a report, and a budget that adds up.           *)
RawMemories ==
  [limit : Nat \cup {None}, used : Nat \cup {None}, available : Nat \cup {None},
   unreadable : BOOLEAN, unpaired : BOOLEAN]

LEMMA RejectionGiven ==
  ASSUME NEW raw \in RawMemories
  PROVE  /\ MemoryRejection(raw) \in MemoryNotices \cup {None}
         /\ MemoryRejection(raw) = None /\ raw.limit # None =>
              raw.used \in Nat /\ raw.available \in Nat
         /\ MemoryRejection(raw) = None => ~raw.unreadable
<1>1. raw.unreadable \in BOOLEAN /\ raw.used \in Nat \cup {None} /\ raw.available \in Nat \cup {None}
  BY DEF RawMemories
<1>2. \A n \in MemoryNotices : n # None
  BY NoneAssumption
<1>3. CASE raw.unreadable
  <2>1. MemoryRejection(raw) = "LIMIT_UNREADABLE"
    BY <1>3 DEF MemoryRejection
  <2> QED BY <1>2, <2>1 DEF MemoryNotices
<1>4. CASE ~raw.unreadable /\ raw.limit = None
  <2>1. MemoryRejection(raw) = None
    BY <1>4 DEF MemoryRejection
  <2> QED BY <1>4, <2>1
<1>5. CASE ~raw.unreadable /\ raw.limit # None
  <2>1. MemoryRejection(raw) =
          IF ceiling = None THEN "MACHINE_UNKNOWN"
          ELSE IF raw.limit >= ceiling THEN "COVERS_MACHINE"
          ELSE IF raw.used # None /\ raw.available # None THEN None
          ELSE IF raw.unpaired THEN "USAGE_UNREADABLE" ELSE "USAGE_UNAVAILABLE"
    BY <1>5 DEF MemoryRejection
  <2> QED BY <1>1, <1>2, <1>5, <2>1 DEF MemoryNotices
<1> QED BY <1>1, <1>3, <1>4, <1>5

LEMMA Judged ==
  ASSUME NEW raw \in RawMemories
  PROVE  LET result == JudgedMemory(raw)
         IN /\ result \in MemoryReports
            /\ result.notice = MemoryRejection(raw)
            /\ result.named <=> raw.limit # None
            /\ result.budget # None =>
                 /\ raw.limit \in Nat /\ raw.used \in Nat /\ raw.available \in Nat
                 /\ result.budget.available =
                      AtMost(raw.available, raw.limit - AtMost(raw.used, raw.limit))
                 /\ result.budget.available \in Nat
                 /\ result.budget.used + result.budget.available <= result.budget.limit
            /\ result.budget = None => raw.limit = None \/ result.notice # None
<1> DEFINE result == JudgedMemory(raw)
           budget == Reconcile(raw)
<1>1. /\ result = [budget |-> result.budget, notice |-> result.notice, named |-> result.named]
      /\ result.budget = IF raw.limit = None \/ MemoryRejection(raw) # None THEN None ELSE budget
      /\ result.notice = MemoryRejection(raw) /\ result.named = (raw.limit # None)
  BY DEF JudgedMemory
<1>2. MemoryRejection(raw) \in MemoryNotices \cup {None} /\ raw.limit \in Nat \cup {None}
  BY RejectionGiven DEF RawMemories
<1>3. ASSUME raw.limit # None, MemoryRejection(raw) = None
      PROVE  /\ raw.limit \in Nat /\ raw.used \in Nat /\ raw.available \in Nat
             /\ budget \in Budgets
             /\ budget.available =
                  AtMost(raw.available, raw.limit - AtMost(raw.used, raw.limit))
             /\ budget.used + budget.available <= budget.limit
  <2>1. raw.limit \in Nat /\ raw.used \in Nat /\ raw.available \in Nat
    BY <1>2, <1>3, RejectionGiven
  <2>2. Max0(raw.used) = raw.used /\ Max0(raw.available) = raw.available
    BY <2>1 DEF Max0
  <2>3. /\ budget = [limit |-> raw.limit, used |-> AtMost(raw.used, raw.limit),
                     available |-> AtMost(raw.available, raw.limit - AtMost(raw.used, raw.limit))]
    BY <2>2 DEF Reconcile
  <2>4. /\ AtMost(raw.used, raw.limit) \in Nat /\ AtMost(raw.used, raw.limit) <= raw.limit
    BY <2>1 DEF AtMost
  <2>5. /\ AtMost(raw.available, raw.limit - AtMost(raw.used, raw.limit)) \in Nat
        /\ AtMost(raw.available, raw.limit - AtMost(raw.used, raw.limit))
             <= raw.limit - AtMost(raw.used, raw.limit)
    <3> DEFINE u == AtMost(raw.used, raw.limit)
    <3>1. u \in Nat /\ u <= raw.limit
      BY <2>4
    <3> HIDE DEF u
    <3>2. AtMost(raw.available, raw.limit - u) \in Nat
          /\ AtMost(raw.available, raw.limit - u) <= raw.limit - u
      BY <2>1, <3>1 DEF AtMost
    <3> QED BY <3>2 DEF u
  <2> QED BY <2>1, <2>3, <2>4, <2>5 DEF Budgets
<1>4. raw.limit # None /\ MemoryRejection(raw) = None => budget # None
  BY <1>3, NoneAssumption
<1>5. result.budget \in Budgets \cup {None}
  BY <1>1, <1>3
<1>6. result.named \in BOOLEAN
  BY <1>1, Zenon
<1>7. result \in MemoryReports
  BY <1>1, <1>2, <1>5, <1>6 DEF MemoryReports
<1>8. result.named <=> raw.limit # None
  BY <1>1, Zenon
<1> HIDE DEF result, budget
<1>9. result.budget # None =>
        /\ raw.limit \in Nat /\ raw.used \in Nat /\ raw.available \in Nat
        /\ result.budget.available =
             AtMost(raw.available, raw.limit - AtMost(raw.used, raw.limit))
        /\ result.budget.available \in Nat
        /\ result.budget.used + result.budget.available <= result.budget.limit
  BY <1>1, <1>3 DEF Budgets
<1>10. result.budget = None => raw.limit = None \/ result.notice # None
  BY <1>1, <1>4
<1> QED BY <1>1, <1>7, <1>8, <1>9, <1>10 DEF result

(* The raw readings.                                                       *)
LEMMA PlainMemories ==
  /\ NoMemory \in RawMemories /\ NoMemory.limit = None /\ ~NoMemory.unreadable
  /\ [NoMemory EXCEPT !.unreadable = TRUE] \in RawMemories
  /\ [NoMemory EXCEPT !.unreadable = TRUE].limit = None
  /\ [NoMemory EXCEPT !.unreadable = TRUE].unreadable
  /\ \A n \in Nat \cup {None} :
       LimitAlone(n) \in RawMemories /\ LimitAlone(n).limit = n /\ LimitAlone(n).used = None
BY DEF NoMemory, LimitAlone, RawMemories

LEMMA PairedFields ==
  ASSUME limits \in Jobs, limits.all # None,
         NEW inUse \in Nat \cup {None}, NEW available \in Nat \cup {None}
  PROVE  LET raw == Paired(inUse, available)
         IN /\ raw \in RawMemories /\ raw.limit = limits.all /\ limits.all \in Nat
            /\ raw.used = IF inUse # None THEN inUse
                          ELSE IF available # None THEN Max0(limits.all - available) ELSE None
            /\ raw.available = IF available # None THEN available
                               ELSE IF inUse # None THEN Max0(limits.all - inUse) ELSE None
<1> DEFINE used == IF inUse # None THEN inUse
                   ELSE IF available # None THEN Max0(limits.all - available) ELSE None
           room == IF available # None THEN available
                   ELSE IF inUse # None THEN Max0(limits.all - inUse) ELSE None
           unpaired == inUse = None /\ available = None
<1>1. limits.all \in Nat
  BY JobFields
<1>2. used \in Nat \cup {None} /\ room \in Nat \cup {None}
  BY <1>1 DEF Max0
<1>3. unpaired \in BOOLEAN
  OBVIOUS
<1> HIDE DEF used, room, unpaired
<1>4. Paired(inUse, available) =
        [limit |-> limits.all, used |-> used, available |-> room,
         unreadable |-> FALSE, unpaired |-> unpaired]
  <2>1. Paired(inUse, available) =
          [NoMemory EXCEPT !.limit = limits.all, !.used = used, !.available = room,
                           !.unpaired = unpaired]
    BY DEF Paired, used, room, unpaired
  <2> QED BY <2>1 DEF NoMemory
<1>5. [limit |-> limits.all, used |-> used, available |-> room,
       unreadable |-> FALSE, unpaired |-> unpaired] \in RawMemories
  BY <1>1, <1>2, <1>3 DEF RawMemories
<1>6. Paired(inUse, available) \in RawMemories
  BY <1>4, <1>5
<1>7. /\ Paired(inUse, available).limit = limits.all
      /\ Paired(inUse, available).used = used
      /\ Paired(inUse, available).available = room
  BY <1>4
<1> QED BY <1>1, <1>6, <1>7 DEF used, room

(* A budget promises no more than its limit leaves of what was charged,    *)
(* nor than the room that was answered.                                    *)
LEMMA PairedRoom ==
  ASSUME limits \in Jobs, limits.all # None,
         NEW inUse \in Nat \cup {None}, NEW available \in Nat \cup {None},
         JudgedMemory(Paired(inUse, available)).budget # None
  PROVE  LET room == JudgedMemory(Paired(inUse, available)).budget.available
         IN /\ room \in Nat
            /\ inUse # None \/ available # None
            /\ inUse # None => room <= Max0(limits.all - inUse)
            /\ available # None => room <= available
            /\ \A n \in Nat :
                 /\ inUse \in {n, None} /\ available \in {Max0(limits.all - n), None}
                   => room = Max0(limits.all - n)
<1> DEFINE raw == Paired(inUse, available)
           room == JudgedMemory(raw).budget.available
<1>1. /\ raw \in RawMemories /\ limits.all \in Nat
      /\ raw.limit = limits.all
      /\ raw.used = IF inUse # None THEN inUse
                    ELSE IF available # None THEN Max0(limits.all - available) ELSE None
      /\ raw.available = IF available # None THEN available
                         ELSE IF inUse # None THEN Max0(limits.all - inUse) ELSE None
  BY PairedFields
<1> HIDE DEF raw
<1>2. /\ raw.used \in Nat /\ raw.available \in Nat /\ room \in Nat
      /\ room = AtMost(raw.available, limits.all - AtMost(raw.used, limits.all))
  <2>1. JudgedMemory(raw).budget # None
    BY DEF raw
  <2> QED BY <1>1, <2>1, Judged
<1>3. inUse # None \/ available # None
  BY <1>1, <1>2, NoneAssumption
<1> HIDE DEF room
<1>4. inUse # None => room <= Max0(limits.all - inUse)
  BY <1>1, <1>2 DEF AtMost, Max0
<1>5. available # None => room <= available
  BY <1>1, <1>2 DEF AtMost
<1>6. ASSUME NEW n \in Nat, inUse \in {n, None}, available \in {Max0(limits.all - n), None}
      PROVE  room = Max0(limits.all - n)
  <2>1. CASE inUse = n
    BY <1>1, <1>2, <1>6, <2>1, NoneAssumption DEF AtMost, Max0
  <2>2. CASE inUse = None
    BY <1>1, <1>2, <1>3, <1>6, <2>2, NoneAssumption DEF AtMost, Max0
  <2> QED BY <1>6, <2>1, <2>2
<1> QED BY <1>2, <1>3, <1>4, <1>5, <1>6 DEF room, raw

(* Judging the CPU takes the least of what does not cover the machine.     *)
LEMMA CpuJudged ==
  ASSUME NEW r \in Nat \cup {None}, NEW s \in Nat \cup {None}, count \in Nat \cup {None}
  PROVE  LET result == JudgedCpu(r, s)
         IN /\ result \in CpuReports
            /\ result.notices \cap {"LIMIT_UNREADABLE", "MACHINE_UNKNOWN"} = {}
            /\ result.effective = None => \A c \in {r, s} : c # None => Covers(c)
            /\ result.effective # None =>
                 /\ result.effective \in {r, s} /\ result.effective \in Nat
                 /\ ~Covers(result.effective)
                 /\ \A c \in {r, s} : c # None /\ ~Covers(c) => result.effective <= c
            /\ result = NoCpuLimit({}) => r = None /\ s = None
<1> DEFINE result == JudgedCpu(r, s)
           candidates == {c \in {r, s} \ {None} : ~Covers(c)}
           notices == {n \in CpuNotices :
                         \/ n = "QUOTA_COVERS_MACHINE" /\ r # None /\ Covers(r)
                         \/ n = "SET_COVERS_MACHINE" /\ s # None /\ Covers(s)}
           least == CHOOSE c \in candidates : \A d \in candidates : c <= d
<1>1. result = [effective |-> IF candidates = {} THEN None ELSE least, notices |-> notices]
  BY DEF JudgedCpu
<1>2. candidates # {} => least \in candidates /\ \A d \in candidates : least <= d
  <2>1. \A c, d \in candidates : c \in Nat /\ d \in Nat /\ (c <= d \/ d <= c)
    OBVIOUS
  <2>2. candidates # {} => \E c \in candidates : \A d \in candidates : c <= d
    <3>1. CASE r \in candidates /\ s \in candidates
      BY <2>1, <3>1
    <3>2. CASE ~(r \in candidates /\ s \in candidates)
      <4>1. ASSUME NEW c \in candidates PROVE \A d \in candidates : c <= d
        <5>1. \A d \in candidates : d = c
          BY <3>2, <4>1
        <5> QED BY <2>1, <5>1
      <4> QED BY <4>1
    <3> QED BY <3>1, <3>2
  <2> QED BY <2>2
<1>3. \A c \in candidates : c \in {r, s} /\ c \in Nat /\ c # None /\ ~Covers(c)
  BY NoneAssumption
<1>4. \A c \in {r, s} : c # None /\ ~Covers(c) => c \in candidates
  OBVIOUS
<1>5. notices \in SUBSET CpuNotices /\ notices \cap {"LIMIT_UNREADABLE", "MACHINE_UNKNOWN"} = {}
  OBVIOUS
<1>6. notices = {} => (r # None => ~Covers(r)) /\ (s # None => ~Covers(s))
  BY DEF CpuNotices
<1> HIDE DEF least, notices, candidates
<1>7. /\ result.effective = IF candidates = {} THEN None ELSE least
      /\ result.notices = notices
      /\ result \in CpuReports
  BY <1>1, <1>2, <1>3, <1>5 DEF CpuReports
<1>8. result = NoCpuLimit({}) => result.effective = None /\ result.notices = {}
  BY DEF NoCpuLimit
<1> HIDE DEF result
<1>9. result.effective = None => candidates = {}
  BY <1>2, <1>3, <1>7
<1>10. result = NoCpuLimit({}) => r = None /\ s = None
  BY <1>4, <1>6, <1>7, <1>8, <1>9
<1> QED BY <1>2, <1>3, <1>4, <1>5, <1>7, <1>9, <1>10 DEF result

LEMMA PlainReports ==
  /\ NoCpuLimit({}) \in CpuReports
  /\ NoCpuLimit({"LIMIT_UNREADABLE"}) \in CpuReports
  /\ NoCpuLimit({"MACHINE_UNKNOWN"}) \in CpuReports
  /\ NoCpuLimit({"LIMIT_UNREADABLE"}) # NoCpuLimit({})
  /\ NoCpuLimit({"MACHINE_UNKNOWN"}) # NoCpuLimit({})
BY DEF NoCpuLimit, CpuReports, CpuNotices


-----------------------------------------------------------------------------
(* What everybody else may do between two queries.                         *)

(* What a job leaves to this process, under each of its memory limits.     *)
AllRoom(j, mine, theirs) == Max0(j.all - mine - theirs)
EachRoom(j, mine) == Max0(j.each - mine)

(* What is freed and allowed accounts for all the room that appears under  *)
(* a limit that nobody lifts.                                              *)
RoomAccounted(gain) ==
  {"job", "bounded"} \subseteq stood' /\ job # None =>
    /\ job' # None
    /\ job.all # None =>
         /\ job'.all # None
         /\ AllRoom(job', own', others') <= AllRoom(job, own, others) + gain
    /\ job.each # None =>
         job'.each # None /\ EachRoom(job', own') <= EachRoom(job, own) + gain
    /\ own + others <= own' + others' + gain

Settled ==
  /\ "machine" \in stood' => machine' = machine
  /\ "job" \in stood' =>
       /\ job' = None <=> job = None
       /\ job # None => \A aspect \in {"control", "affinity"} \cap stood' :
                          job'[aspect] = job[aspect]

OthersStep ==
  /\ UNCHANGED <<before, reader>>
  /\ job' \in Jobs \cup {None} /\ own' \in Nat /\ others' \in Nat /\ machine' \in Seq(Nat)
  /\ outer' \in Jobs \cup {None} /\ beyond' \in Nat
  /\ stood' \subseteq stood /\ stood' # Aspects /\ churn' \in 0..MaxChurn
  /\ gained' \in Nat
  /\ Settled
  /\ \E gain \in Nat : gained' = gained + gain /\ RoomAccounted(gain)

LEMMA Disturbed ==
  ASSUME TypeOK, NEW aspects \in SUBSET Aspects, aspects # {}, NEW gain \in Nat,
         Disturb(aspects, gain)
  PROVE  /\ UNCHANGED <<before, reader>>
         /\ stood' \subseteq stood /\ stood' # Aspects /\ churn' \in 0..MaxChurn
         /\ gained' \in Nat /\ gained' = gained + gain
         /\ \A aspect \in aspects : aspect \notin stood'
BY ConstantsAssumption DEF Disturb, TypeOK

(* Room grows by no more than the pages that are freed.                    *)
LEMMA RoomGrows ==
  ASSUME NEW n \in Nat, NEW p \in Nat, NEW q \in Nat, NEW s \in Nat, NEW t \in Nat,
         NEW gain \in Nat
  PROVE  /\ p <= s + gain => Max0(n - s) <= Max0(n - p) + gain
         /\ p + q <= s + t + gain => Max0(n - s - t) <= Max0(n - p - q) + gain
BY DEF Max0

LEMMA PagesMove ==
  ASSUME TypeOK, NEW mine \in BOOLEAN, Commit(mine) \/ Free(mine)
  PROVE  OthersStep
<1>1. PICK gain \in Nat :
        /\ Disturb({"pages"}, gain) /\ UNCHANGED <<job, outer, beyond, machine>>
        /\ own' \in Nat /\ others' \in Nat
        /\ own <= own' + gain /\ own + others <= own' + others' + gain
  <2>1. own \in Nat /\ others \in Nat
    BY DEF TypeOK
  <2>2. CASE Commit(mine)
    BY <2>1, <2>2 DEF Commit, around
  <2>3. CASE Free(mine)
    BY <2>1, <2>3 DEF Free, around
  <2> QED BY <2>2, <2>3
<1>2. /\ UNCHANGED <<before, reader>>
      /\ stood' \subseteq stood /\ stood' # Aspects /\ churn' \in 0..MaxChurn
      /\ gained' \in Nat /\ gained' = gained + gain
  BY <1>1, Disturbed DEF Aspects
<1>3. job' = job /\ machine' = machine /\ job \in Jobs \cup {None} /\ machine \in Seq(Nat)
      /\ own \in Nat /\ others \in Nat
      /\ outer' \in Jobs \cup {None} /\ beyond' \in Nat
  BY <1>1 DEF TypeOK
<1>4. Settled
  BY <1>3 DEF Settled
<1>5. RoomAccounted(gain)
  <2> SUFFICES ASSUME job # None
               PROVE  /\ job.all # None =>
                           AllRoom(job, own', others') <= AllRoom(job, own, others) + gain
                      /\ job.each # None => EachRoom(job, own') <= EachRoom(job, own) + gain
    BY <1>1, <1>3 DEF RoomAccounted
  <2>1. job.all \in Nat \cup {None} /\ job.each \in Nat \cup {None}
    BY <1>3, JobFields
  <2>2. own' \in Nat /\ others' \in Nat /\ own \in Nat /\ others \in Nat /\ gain \in Nat
    BY <1>1, <1>3
  <2>3. own <= own' + gain /\ own + others <= own' + others' + gain
    BY <1>1
  <2>4. job.all # None => AllRoom(job, own', others') <= AllRoom(job, own, others) + gain
    <3>1. \A n \in Nat : Max0(n - own' - others') <= Max0(n - own - others) + gain
      BY <2>2, <2>3, RoomGrows
    <3> QED BY <2>1, <3>1 DEF AllRoom
  <2>5. job.each # None => EachRoom(job, own') <= EachRoom(job, own) + gain
    <3>1. \A n \in Nat : Max0(n - own') <= Max0(n - own) + gain
      BY <2>2, <2>3, RoomGrows
    <3> QED BY <2>1, <3>1 DEF EachRoom
  <2> QED BY <2>4, <2>5
<1> QED BY <1>1, <1>2, <1>3, <1>4, <1>5 DEF OthersStep

LEMMA LimitsMove ==
  ASSUME TypeOK, NEW scope \in {"all", "each"}, NEW n \in Limits \cup {None},
         SetLimit(scope, n)
  PROVE  OthersStep
<1> DEFINE gain == IF job[scope] # None /\ n # None THEN Max0(n - job[scope]) ELSE 0
           aspects == IF n = None THEN {"limits", "bounded"} ELSE {"limits"}
<1>1. /\ job # None /\ job \in Jobs /\ job' = [job EXCEPT ![scope] = n]
      /\ Disturb(aspects, gain) /\ UNCHANGED <<own, others, machine>>
      /\ own \in Nat /\ others \in Nat /\ machine \in Seq(Nat)
      /\ outer' \in Jobs \cup {None} /\ beyond' \in Nat
  BY DEF SetLimit, TypeOK, around
<1>2. n \in Nat \cup {None} /\ job.all \in Nat \cup {None} /\ job.each \in Nat \cup {None}
  BY <1>1, JobFields, ConstantsAssumption
<1>3. gain \in Nat /\ aspects \in SUBSET Aspects /\ aspects # {}
  BY <1>2 DEF Max0, Aspects
<1>4. job' \in Jobs
  BY <1>1 DEF Jobs
<1>5. /\ job'.all = (IF scope = "all" THEN n ELSE job.all)
      /\ job'.each = (IF scope = "each" THEN n ELSE job.each)
      /\ job'.control = job.control /\ job'.affinity = job.affinity
  BY <1>1 DEF Jobs
<1>6. job' # None
  BY <1>4, JobFields
<1>7. n = None => "bounded" \in aspects
  OBVIOUS
<1>8. /\ job.all # None /\ n # None /\ scope = "all" => gain = Max0(n - job.all)
      /\ job.each # None /\ n # None /\ scope = "each" => gain = Max0(n - job.each)
  OBVIOUS
<1> HIDE DEF gain, aspects
<1>9. /\ UNCHANGED <<before, reader>>
      /\ stood' \subseteq stood /\ stood' # Aspects /\ churn' \in 0..MaxChurn
      /\ gained' \in Nat /\ gained' = gained + gain
      /\ n = None => "bounded" \notin stood'
  BY <1>1, <1>3, <1>7, Disturbed
<1>10. Settled
  <2>1. \A aspect \in {"control", "affinity"} : job'[aspect] = job[aspect]
    BY <1>5
  <2> QED BY <1>1, <1>6, <2>1 DEF Settled
<1>11. RoomAccounted(gain)
  <2> SUFFICES ASSUME n # None
               PROVE  /\ job.all # None =>
                           /\ job'.all # None
                           /\ AllRoom(job', own, others) <= AllRoom(job, own, others) + gain
                      /\ job.each # None =>
                           /\ job'.each # None
                           /\ EachRoom(job', own) <= EachRoom(job, own) + gain
    BY <1>1, <1>3, <1>6, <1>9 DEF RoomAccounted
  <2>1. CASE scope = "all"
    BY <1>1, <1>2, <1>3, <1>5, <1>8, <2>1 DEF AllRoom, EachRoom, Max0
  <2>2. CASE scope = "each"
    BY <1>1, <1>2, <1>3, <1>5, <1>8, <2>2 DEF AllRoom, EachRoom, Max0
  <2> QED BY <2>1, <2>2
<1> QED BY <1>1, <1>3, <1>4, <1>9, <1>10, <1>11 DEF OthersStep

LEMMA OthersKept ==
  ASSUME TypeOK, Others
  PROVE  OthersStep
<1>1. /\ job \in Jobs \cup {None} /\ own \in Nat /\ others \in Nat /\ machine \in Seq(Nat)
      /\ outer \in Jobs \cup {None} /\ beyond \in Nat
      /\ churn \in 0..MaxChurn /\ stood \subseteq Aspects /\ gained \in Nat
  BY DEF TypeOK
<1>2. ASSUME NEW mine \in BOOLEAN, Commit(mine) \/ Free(mine) PROVE OthersStep
  BY <1>2, PagesMove
<1>3. ASSUME NEW scope \in {"all", "each"}, NEW n \in Limits \cup {None}, SetLimit(scope, n)
      PROVE  OthersStep
  BY <1>3, LimitsMove
<1>4. ASSUME NEW aspect \in {"control", "affinity"}, NEW setting, SetCpu(aspect, setting),
             [job EXCEPT ![aspect] = setting] \in Jobs
      PROVE  OthersStep
  <2>1. /\ job # None /\ job' = [job EXCEPT ![aspect] = setting] /\ job' \in Jobs
        /\ Disturb({aspect}, 0) /\ UNCHANGED <<own, others, outer, beyond, machine>>
        /\ job \in Jobs
    BY <1>1, <1>4 DEF SetCpu, around
  <2>2. /\ UNCHANGED <<before, reader>>
        /\ stood' \subseteq stood /\ stood' # Aspects /\ churn' \in 0..MaxChurn
        /\ gained' \in Nat /\ gained' = gained + 0
        /\ aspect \notin stood'
    BY <2>1, Disturbed DEF Aspects
  <2>3. /\ job'.all = job.all /\ job'.each = job.each
        /\ \A other \in {"control", "affinity"} : other # aspect => job'[other] = job[other]
    BY <2>1 DEF Jobs
  <2>4. job' # None
    BY <2>1, JobFields
  <2>5. Settled
    BY <2>1, <2>2, <2>3, <2>4 DEF Settled
  <2>6. RoomAccounted(0)
    <3>1. job.all \in Nat \cup {None} /\ job.each \in Nat \cup {None}
      BY <2>1, JobFields
    <3> QED BY <1>1, <2>1, <2>3, <2>4, <3>1 DEF RoomAccounted, AllRoom, EachRoom, Max0
  <2> QED BY <1>1, <2>1, <2>2, <2>5, <2>6 DEF OthersStep
<1>5. ASSUME NEW control \in Controls, SetCpu("control", control) PROVE OthersStep
  <2>1. job \in Jobs
    BY <1>1, <1>5 DEF SetCpu
  <2>2. [job EXCEPT !["control"] = control] \in Jobs
    BY <2>1 DEF Jobs
  <2> QED BY <1>4, <1>5, <2>2
<1>6. ASSUME NEW affinity \in Affinities \cup {None}, SetCpu("affinity", affinity)
      PROVE  OthersStep
  <2>1. job \in Jobs
    BY <1>1, <1>6 DEF SetCpu
  <2>2. [job EXCEPT !["affinity"] = affinity] \in Jobs
    BY <2>1 DEF Jobs
  <2> QED BY <1>4, <1>6, <2>2
<1>7. ASSUME NEW g \in DOMAIN machine, AddCore(g) PROVE OthersStep
  <2>1. /\ machine' = [machine EXCEPT ![g] = @ + 1]
        /\ UNCHANGED <<job, own, others, outer, beyond>> /\ Disturb({"machine"}, 0)
    BY <1>7 DEF AddCore, around
  <2>2. /\ UNCHANGED <<before, reader>>
        /\ stood' \subseteq stood /\ stood' # Aspects /\ churn' \in 0..MaxChurn
        /\ gained' \in Nat /\ gained' = gained + 0
        /\ "machine" \notin stood'
    BY <2>1, Disturbed DEF Aspects
  <2>3. machine' \in Seq(Nat)
    <3>1. machine[g] + 1 \in Nat /\ g \in 1..Len(machine)
      BY <1>1, ElementOfSeq, LenProperties
    <3> QED BY <1>1, <2>1, <3>1, ExceptSeq
  <2>4. Settled
    BY <2>1, <2>2 DEF Settled
  <2>5. RoomAccounted(0)
    <3>1. job # None => job.all \in Nat \cup {None} /\ job.each \in Nat \cup {None}
      BY <1>1, JobFields
    <3> QED BY <1>1, <2>1, <3>1 DEF RoomAccounted, AllRoom, EachRoom, Max0
  <2> QED BY <1>1, <2>1, <2>2, <2>3, <2>4, <2>5 DEF OthersStep
<1>8. ASSUME NEW j \in Joinable, NEW n \in 0..1, Assign(j, n) PROVE OthersStep
  <2>1. /\ job' = j /\ others' = n /\ UNCHANGED <<own, machine>> /\ Disturb(Aspects, 0)
        /\ j \in Jobs /\ outer' \in Jobs \cup {None}
    BY <1>1, <1>8, JoinableAssumption DEF Assign
  <2>2. /\ UNCHANGED <<before, reader>>
        /\ stood' \subseteq stood /\ stood' # Aspects /\ churn' \in 0..MaxChurn
        /\ gained' \in Nat /\ gained' = gained + 0
        /\ "machine" \notin stood' /\ "job" \notin stood'
    BY <2>1, Disturbed DEF Aspects
  <2>3. Settled /\ RoomAccounted(0)
    BY <2>2 DEF Settled, RoomAccounted
  <2>4. beyond' \in Nat /\ others' \in Nat
    BY <1>1, <1>8 DEF Assign, Max0
  <2> QED BY <1>1, <2>1, <2>2, <2>3, <2>4 DEF OthersStep
<1> QED BY <1>2, <1>3, <1>5, <1>6, <1>7, <1>8 DEF Others


-----------------------------------------------------------------------------
(* What is in hand stays in hand.                                          *)

LEMMA OthersHand ==
  ASSUME InHand, Others
  PROVE  InHand'
<1>1. OthersStep
  BY OthersKept DEF InHand
<1>2. /\ UNCHANGED reader
      /\ job' \in Jobs \cup {None} /\ own' \in Nat /\ others' \in Nat /\ machine' \in Seq(Nat)
      /\ outer' \in Jobs \cup {None} /\ beyond' \in Nat
      /\ stood' \subseteq Aspects /\ churn' \in 0..MaxChurn /\ gained' \in Nat /\ before' = before
  BY <1>1 DEF OthersStep, InHand, TypeOK
<1>3. UNCHANGED <<call, at, ceiling, count, limits, charged, share, quota, memory, cpu,
                  usage, listed>>
  BY <1>2 DEF reader, answers, report
<1>4. Queue' = Queue
  BY <1>3 DEF Queue
<1>5. TypeOK'
  BY <1>2, <1>3, <1>4 DEF InHand, TypeOK
<1>6. Stance'
  BY <1>3, <1>4 DEF InHand, Stance, Ahead, Asking, Idle
<1> QED BY <1>5, <1>6 DEF InHand

LEMMA BeginHand ==
  ASSUME InHand, NEW c, Begin(c)
  PROVE  InHand'
<1>1. /\ c \in DOMAIN Plan /\ call' = c /\ at' = 1
      /\ ceiling' = None /\ count' = None /\ limits' = None
      /\ charged' = None /\ share' = None /\ quota' = None
      /\ memory' = None /\ cpu' = None /\ usage' = FALSE /\ listed' = None
      /\ before' = [job |-> job, own |-> own, others |-> others]
      /\ gained' = 0 /\ stood' = Aspects
      /\ UNCHANGED <<job, own, others, outer, beyond, machine, churn>>
  BY CallsAssumption DEF Begin, world
<1>2. c # None
  BY <1>1, NoneAssumption
<1>3. Queue' = Plan[c]
  BY <1>1, <1>2 DEF Queue
<1>4. /\ DOMAIN Plan[c] = 1..Len(Plan[c]) /\ Len(Plan[c]) \in Nat
      /\ 1 \in DOMAIN Plan[c] /\ Plan[c][1] \in Openings
  <2>1. c \in {"get_memory_budget", "get_cpu_limit", "snapshot", "describe"}
    BY <1>1 DEF Plan
  <2>2. CASE c = "get_memory_budget"
    BY <2>2 DEF Plan, Openings
  <2>3. CASE c = "get_cpu_limit"
    BY <2>3 DEF Plan, Openings
  <2>4. CASE c = "snapshot"
    BY <2>4 DEF Plan, Openings
  <2>5. CASE c = "describe"
    BY <2>5 DEF Plan, Openings
  <2> QED BY <2>1, <2>2, <2>3, <2>4, <2>5
<1>5. TypeOK'
  <2>1. /\ job \in Jobs \cup {None} /\ own \in Nat /\ others \in Nat /\ machine \in Seq(Nat)
        /\ outer \in Jobs \cup {None} /\ beyond \in Nat /\ churn \in 0..MaxChurn
    BY DEF InHand, TypeOK
  <2>2. before' \in [job : Jobs \cup {None}, own : Nat, others : Nat]
    BY <1>1, <2>1
  <2>3. call' \in DOMAIN Plan \cup {None} /\ at' \in 1..Len(Queue') + 1
    BY <1>1, <1>3, <1>4
  <2>4. /\ job' \in Jobs \cup {None} /\ own' \in Nat /\ others' \in Nat
        /\ machine' \in Seq(Nat) /\ churn' \in 0..MaxChurn
        /\ outer' \in Jobs \cup {None} /\ beyond' \in Nat
    BY <1>1, <2>1
  <2> QED BY <1>1, <2>2, <2>3, <2>4 DEF TypeOK
<1>6. \A q : Asking(q)' => q \in Openings
  BY <1>1, <1>3, <1>4 DEF Asking, Idle
<1>7. Stance'
  BY <1>1, <1>6 DEF Stance, Openings, CpuQueries
<1> QED BY <1>5, <1>7 DEF InHand

(* A query is followed by the next of its reading, or the reading is over. *)
LEMMA AskingHand ==
  ASSUME InHand, NEW query, Asking(query), TypeOK',
         \/ Skip(1) /\ Successor(query) # "over"
         \/ Skip(Rest(query)),
         Ahead("memory")' => memory' = memory, Ahead("cpu")' => cpu' = cpu,
         \A q \in {"in_use", "commit"} :
            Asking(q)' /\ q = Successor(query)
              => ~Ahead("memory")' /\ limits' # None /\ PairsWithUsage(limits'),
         \A q \in CpuQueries :
            Asking(q)' /\ q = Successor(query) => ~Ahead("cpu")' /\ limits' # None
  PROVE  InHand'
<1>1. TypeOK /\ Stance
  BY DEF InHand
<1>2. Rest(query) \in Nat /\ Rest(query) > 0
  BY DEF Rest
<1>3. (\A q : Ahead(q)' => Ahead(q)) /\ at' # 1
  <2>1. CASE Skip(1)
    BY <1>1, <2>1, MovesOn
  <2>2. CASE Skip(Rest(query))
    BY <1>1, <1>2, <2>2, MovesOn
  <2> QED BY <2>1, <2>2
<1>4. \A q : Asking(q)' => q = Successor(query) \/ q \in Openings
  <2>1. CASE Skip(1) /\ Successor(query) # "over"
    BY <1>1, <2>1, GoesOn DEF AskNext
  <2>2. CASE Skip(Rest(query))
    BY <1>1, <2>2, LeavesOff
  <2> QED BY <2>1, <2>2
<1>5. Stance'
  <2>1. /\ Ahead("memory")' => memory' = None
        /\ Ahead("cpu")' => cpu' = None
    BY <1>1, <1>3 DEF Stance
  <2>2. \A q \in {"in_use", "commit"} :
          Asking(q)' => ~Ahead("memory")' /\ limits' # None /\ PairsWithUsage(limits')
    BY <1>4 DEF Openings
  <2>3. \A q \in CpuQueries : Asking(q)' => ~Ahead("cpu")' /\ limits' # None
    BY <1>4 DEF Openings, CpuQueries
  <2> QED BY <1>3, <2>1, <2>2, <2>3 DEF Stance
<1> QED BY <1>5 DEF InHand


(* A machine that is counted is counted right.                             *)
LEMMA MachineCounted ==
  ASSUME NEW cores \in MachineCpuCount
  PROVE  cores \in {Cores(machine), None}
BY DEF MachineCpuCount, OrNone

(* The queries that settle one answer each.                                *)
LEMMA PlainHand ==
  ASSUME InHand, AskSources \/ AskCeiling \/ AskCount \/ AskUsage
  PROVE  /\ InHand'
         /\ UNCHANGED <<job, own, others, outer, beyond, machine, churn,
                     before, gained, stood, call>>
         /\ UNCHANGED <<limits, charged, share, quota, memory, cpu>>
         /\ \A q : Asking(q)' => q \in Openings
         /\ count' = count \/ (Ahead("cpu") /\ count' \in {Cores(machine), None})
         /\ usage' = usage \/ (job = None => ~usage')
         /\ listed' = listed \/ (listed' = FALSE => job = None)
<1>1. PICK q \in {"sources", "ceiling", "count", "usage"} : Asking(q)
  BY DEF AskSources, AskCeiling, AskCount, AskUsage
<1>2. /\ Skip(1) /\ UNCHANGED <<job, own, others, outer, beyond, machine, churn,
                     before, gained, stood>>
      /\ UNCHANGED <<limits, charged, share, quota, memory, cpu, call>>
      /\ at' = at + 1
  BY DEF AskSources, AskCeiling, AskCount, AskUsage, AskNext, Skip, others_ask, world,
         history, answers, report
<1>3. /\ ceiling' \in {CommitLimit, None} /\ count' \in Nat \cup {None}
      /\ usage' \in BOOLEAN /\ listed' \in BOOLEAN \cup {None}
      /\ count' = count \/ (Ahead("cpu") /\ count' \in {Cores(machine), None})
      /\ usage' = usage \/ (job = None => ~usage')
      /\ listed' = listed \/ (listed' = FALSE => job = None)
  <2>1. CASE AskSources
    <3>1. PICK outcome \in Outcomes("accounting") : listed' = InJob(outcome)
      BY <2>1 DEF AskSources
    <3>2. InJob(outcome) \in BOOLEAN /\ (InJob(outcome) = FALSE => outcome = "no_job")
      BY DEF InJob
    <3>3. outcome = "no_job" => job = None
      BY <3>1 DEF Outcomes
    <3>4. listed' \in BOOLEAN /\ (listed' = FALSE => job = None)
      BY <3>1, <3>2, <3>3, Zenon
    <3> QED BY <2>1, <3>4 DEF AskSources, answers, InHand, TypeOK
  <2>2. CASE AskCeiling
    BY <2>2 DEF AskCeiling, report, OrNone, InHand, TypeOK
  <2>3. CASE AskCount
    <3>1. TypeOK /\ Asking("count")
      BY <2>3 DEF AskCount, InHand
    <3>2. machine \in Seq(Nat) /\ Cores(machine) \in Nat
      BY <3>1, CoresCounted DEF TypeOK
    <3>3. count' \in MachineCpuCount
      BY <2>3 DEF AskCount
    <3>4. count' \in {Cores(machine), None}
      BY <3>3, MachineCounted
    <3>5. Ahead("cpu")
      <4>1. /\ Queue = Plan[call] /\ call \in DOMAIN Plan /\ at \in DOMAIN Plan[call]
            /\ Plan[call][at] = "count"
        BY <3>1, OneQuestion
      <4>2. \E j \in DOMAIN Plan[call] : j >= at /\ Plan[call][j] = "cpu"
        BY <4>1, PlanOrder
      <4> QED BY <4>1, <4>2 DEF Ahead
    <3>6. ceiling' = ceiling /\ usage' = usage /\ listed' = listed
      BY <2>3 DEF AskCount, report
    <3>7. ceiling \in {CommitLimit, None} /\ usage \in BOOLEAN /\ listed \in BOOLEAN \cup {None}
      BY <3>1 DEF TypeOK
    <3>8. count' \in Nat \cup {None}
      BY <3>2, <3>4
    <3> QED BY <3>4, <3>5, <3>6, <3>7, <3>8
  <2>4. CASE AskUsage
    <3>1. PICK outcome \in Outcomes("accounting") : usage' = (outcome = "answered")
      BY <2>4 DEF AskUsage
    <3>2. usage' \in BOOLEAN /\ (usage' => outcome = "answered")
      BY <3>1, Zenon
    <3>3. job = None => ~usage'
      BY <3>1, <3>2 DEF Outcomes
    <3> QED BY <2>4, <3>2, <3>3 DEF AskUsage, answers, InHand, TypeOK
  <2> QED BY <2>1, <2>2, <2>3, <2>4
<1>4. Rest(q) = 1 /\ Successor(q) = "over"
  BY DEF Rest, Successor
<1>5. TypeOK /\ Skip(Rest(q))
  BY <1>2, <1>4 DEF InHand
<1>6. at' \in 1..Len(Queue') + 1 /\ \A r : Asking(r)' => r \in Openings
  BY <1>1, <1>5, LeavesOff
<1>7. TypeOK'
  BY <1>2, <1>3, <1>6 DEF InHand, TypeOK
<1>8. "over" \notin {"in_use", "commit"} \cup CpuQueries
  BY DEF CpuQueries
<1>9. InHand'
  BY <1>1, <1>2, <1>4, <1>5, <1>7, <1>8, AskingHand
<1> QED BY <1>2, <1>3, <1>6, <1>9


(* The limits are read together with the flags that say which are set.     *)
LEMMA MemoryLimitsRead ==
  ASSUME InHand, AskMemoryLimits
  PROVE  /\ Asking("memory")
         /\ UNCHANGED <<job, own, others, outer, beyond, machine, churn,
                     before, gained, stood, call>>
         /\ UNCHANGED <<ceiling, count, charged, share, quota, cpu, usage, listed>>
         /\ limits' \in {job, None}
         /\ job = None => limits' = None /\ memory' = JudgedMemory(NoMemory)
         /\ \/ Skip(1) /\ memory' = memory /\ limits' \in Jobs /\ PairsWithUsage(limits')
            \/ /\ Skip(3)
               /\ \E raw \in RawMemories :
                    /\ memory' = JudgedMemory(raw) /\ raw.used = None
                    /\ limits' = None => raw.limit = None /\ (raw.unreadable \/ job = None)
                    /\ limits' # None => raw.limit = Tighter(job)
<1>1. /\ Asking("memory")
      /\ UNCHANGED <<job, own, others, outer, beyond, machine, churn,
                     before, gained, stood>>
      /\ UNCHANGED <<ceiling, count, charged, share, quota, cpu, usage, listed>>
  BY DEF AskMemoryLimits, others_ask, world, history
<1>2. job \in Jobs \cup {None}
  BY DEF InHand, TypeOK
<1>3. PICK outcome \in Outcomes("limits") :
        /\ limits' = IF outcome = "answered" THEN job ELSE None
        /\ IF outcome = "answered" /\ PairsWithUsage(job)
           THEN AskNext /\ UNCHANGED memory
           ELSE /\ Skip(3)
                /\ memory' = JudgedMemory(
                     CASE outcome = "no_job"   -> NoMemory
                       [] outcome = "refused"  -> [NoMemory EXCEPT !.unreadable = TRUE]
                       [] outcome = "answered" -> LimitAlone(Tighter(job)))
  BY DEF AskMemoryLimits
<1>4. call' = call /\ limits' \in {job, None}
  BY <1>3 DEF AskNext, Skip
<1>5. NoMemory.used = None /\ [NoMemory EXCEPT !.unreadable = TRUE].used = None
  BY DEF NoMemory
<1>6. CASE job = None
  <2>1. outcome = "no_job"
    BY <1>3, <1>6 DEF Outcomes
  <2>2. Skip(3) /\ memory' = JudgedMemory(NoMemory) /\ limits' = None
    BY <1>3, <2>1
  <2>3. \E raw \in RawMemories :
          /\ memory' = JudgedMemory(raw) /\ raw.used = None
          /\ limits' = None => raw.limit = None /\ (raw.unreadable \/ job = None)
          /\ limits' # None => raw.limit = Tighter(job)
    BY <1>5, <1>6, <2>2, PlainMemories
  <2> QED BY <1>1, <1>4, <2>2, <2>3
<1>7. CASE job # None /\ outcome = "answered" /\ PairsWithUsage(job)
  <2>1. Skip(1) /\ memory' = memory /\ limits' \in Jobs /\ PairsWithUsage(limits')
    BY <1>2, <1>3, <1>7 DEF AskNext
  <2> QED BY <1>1, <1>4, <1>7, <2>1
<1>8. CASE job # None /\ outcome = "answered" /\ ~PairsWithUsage(job)
  <2>1. Skip(3) /\ memory' = JudgedMemory(LimitAlone(Tighter(job))) /\ limits' = job
    BY <1>3, <1>8
  <2>2. Tighter(job) \in Nat \cup {None}
    BY <1>2, <1>8, JobFields DEF Tighter
  <2>3. \E raw \in RawMemories :
          /\ memory' = JudgedMemory(raw) /\ raw.used = None
          /\ limits' = None => raw.limit = None /\ (raw.unreadable \/ job = None)
          /\ limits' # None => raw.limit = Tighter(job)
    BY <1>8, <2>1, <2>2, PlainMemories
  <2> QED BY <1>1, <1>4, <1>8, <2>1, <2>3
<1>9. CASE job # None /\ outcome = "refused"
  <2>1. /\ Skip(3) /\ limits' = None
        /\ memory' = JudgedMemory([NoMemory EXCEPT !.unreadable = TRUE])
    BY <1>3, <1>9
  <2>2. \E raw \in RawMemories :
          /\ memory' = JudgedMemory(raw) /\ raw.used = None
          /\ limits' = None => raw.limit = None /\ (raw.unreadable \/ job = None)
          /\ limits' # None => raw.limit = Tighter(job)
    BY <1>5, <2>1, PlainMemories
  <2> QED BY <1>1, <1>4, <1>9, <2>1, <2>2
<1>10. job # None => outcome \in {"answered", "refused"}
  BY <1>3 DEF Outcomes
<1> QED BY <1>6, <1>7, <1>8, <1>9, <1>10

LEMMA MemoryLimitsHand ==
  ASSUME InHand, AskMemoryLimits
  PROVE  /\ InHand'
         /\ Skip(1) => \A q : Asking(q)' => q = "in_use"
         /\ Skip(3) => \A q : Asking(q)' => q \in Openings
<1>1. /\ Asking("memory")
      /\ UNCHANGED <<job, own, others, outer, beyond, machine, churn,
                     before, gained, stood, call>>
      /\ UNCHANGED <<ceiling, count, charged, share, quota, cpu, usage, listed>>
      /\ limits' \in {job, None}
      /\ \/ Skip(1) /\ memory' = memory /\ limits' \in Jobs /\ PairsWithUsage(limits')
         \/ Skip(3) /\ \E raw \in RawMemories : memory' = JudgedMemory(raw)
  BY MemoryLimitsRead
<1>2. TypeOK /\ Successor("memory") = "in_use" /\ Rest("memory") = 3
  BY DEF InHand, Successor, Rest
<1>3. memory' \in MemoryReports \cup {None}
  <2>1. CASE memory' = memory
    BY <1>2, <2>1 DEF TypeOK
  <2>2. CASE \E raw \in RawMemories : memory' = JudgedMemory(raw)
    BY <2>2, Judged
  <2> QED BY <1>1, <2>1, <2>2
<1>4. /\ at' \in 1..Len(Queue') + 1
      /\ Skip(1) => \A q : Asking(q)' => q = "in_use"
      /\ Skip(3) => \A q : Asking(q)' => q \in Openings
  <2>1. Skip(1) => at' \in 1..Len(Queue') + 1 /\ \A q : Asking(q)' => q = "in_use"
    BY <1>1, <1>2, GoesOn DEF AskNext
  <2>2. Skip(3) => at' \in 1..Len(Queue') + 1 /\ \A q : Asking(q)' => q \in Openings
    BY <1>1, <1>2, LeavesOff
  <2> QED BY <1>1, <2>1, <2>2
<1>5. TypeOK'
  BY <1>1, <1>2, <1>3, <1>4 DEF TypeOK
<1>6. ~Ahead("memory")'
  <2>1. PICK n \in {1, 3} : Skip(n)
    BY <1>1
  <2>2. n \in Nat /\ n > 0
    BY <2>1
  <2> QED BY <1>1, <1>2, <2>1, <2>2, MovesOn
<1>7. InHand'
  <2>1. CASE Skip(1) /\ limits' \in Jobs /\ PairsWithUsage(limits')
    <3>1. limits' # None
      BY <2>1, NoneAssumption
    <3> QED BY <1>1, <1>2, <1>5, <1>6, <2>1, <3>1, AskingHand DEF CpuQueries
  <2>2. CASE Skip(3)
    BY <1>1, <1>2, <1>4, <1>5, <1>6, <2>2, AskingHand DEF CpuQueries, Openings
  <2> QED BY <1>1, <2>1, <2>2
<1> QED BY <1>4, <1>7

LEMMA InUseHand ==
  ASSUME InHand, AskInUse
  PROVE  /\ InHand'
         /\ Asking("in_use")
         /\ UNCHANGED <<job, own, others, outer, beyond, machine, churn,
                     before, gained, stood, call>>
         /\ UNCHANGED <<ceiling, count, limits, share, quota, memory, cpu, usage, listed>>
         /\ charged' \in {own + others, None}
         /\ \A q : Asking(q)' => q = "commit"
<1>1. /\ Asking("in_use") /\ Skip(1) /\ call' = call /\ at' = at + 1
      /\ UNCHANGED <<job, own, others, outer, beyond, machine, churn,
                     before, gained, stood>>
      /\ UNCHANGED <<ceiling, count, limits, share, quota, memory, cpu, usage, listed>>
      /\ charged' \in {own + others, None}
  BY DEF AskInUse, AskNext, Skip, others_ask, world, history, report
<1>2. TypeOK /\ Successor("in_use") = "commit"
  BY DEF InHand, Successor
<1>3. at' \in 1..Len(Queue') + 1 /\ \A q : Asking(q)' => q = "commit"
  BY <1>1, <1>2, GoesOn DEF AskNext
<1>4. charged' \in Nat \cup {None}
  BY <1>1, <1>2 DEF TypeOK
<1>5. TypeOK'
  BY <1>1, <1>2, <1>3, <1>4 DEF TypeOK
<1>6. ~Ahead("memory")' /\ limits' # None /\ PairsWithUsage(limits')
  BY <1>1, <1>2, MovesOn DEF InHand, Stance
<1>7. InHand'
  BY <1>1, <1>2, <1>5, <1>6, AskingHand DEF CpuQueries
<1> QED BY <1>1, <1>3, <1>7

LEMMA CommitHand ==
  ASSUME InHand, AskCommit
  PROVE  /\ InHand'
         /\ Asking("commit") /\ limits \in Jobs /\ PairsWithUsage(limits)
         /\ UNCHANGED <<job, own, others, outer, beyond, machine, churn,
                     before, gained, stood, call>>
         /\ UNCHANGED <<ceiling, count, limits, charged, share, quota, cpu, usage, listed>>
         /\ \A q : Asking(q)' => q \in Openings
         /\ \E available \in {AvailableCommit, None} :
              /\ available \in Nat \cup {None}
              /\ memory' = JudgedMemory(Paired(charged, available))
<1>1. /\ Asking("commit") /\ Skip(1) /\ call' = call /\ at' = at + 1
      /\ UNCHANGED <<job, own, others, outer, beyond, machine, churn,
                     before, gained, stood>>
      /\ UNCHANGED <<ceiling, count, limits, charged, share, quota, cpu, usage, listed>>
  BY DEF AskCommit, AskNext, Skip, others_ask, world, history, answers
<1>2. PICK available \in {AvailableCommit, None} :
        memory' = JudgedMemory(Paired(charged, available))
  BY DEF AskCommit, OrNone
<1>3. TypeOK /\ Rest("commit") = 1 /\ Successor("commit") = "over"
  BY DEF InHand, Rest, Successor
<1>4. limits \in Jobs /\ PairsWithUsage(limits)
  BY <1>1, <1>3 DEF InHand, Stance, TypeOK
<1>5. AvailableCommit \in Nat
  <2>1. (IF job # None /\ job.all # None THEN job.all ELSE CommitLimit) \in Nat
    BY <1>3, JobFields, ConstantsAssumption DEF TypeOK
  <2> QED BY <1>3, <2>1 DEF AvailableCommit, Max0, TypeOK
<1>6. available \in Nat \cup {None}
  BY <1>5
<1>7. at' \in 1..Len(Queue') + 1 /\ \A q : Asking(q)' => q \in Openings
  BY <1>1, <1>3, LeavesOff
<1>8. memory' \in MemoryReports
  <2>1. Paired(charged, available) \in RawMemories
    BY <1>3, <1>4, <1>6, PairedFields DEF TypeOK, PairsWithUsage
  <2> QED BY <1>2, <2>1, Judged
<1>9. TypeOK'
  BY <1>1, <1>3, <1>7, <1>8 DEF TypeOK
<1>10. ~Ahead("memory")'
  BY <1>1, <1>3, MovesOn DEF InHand, Stance
<1>11. InHand'
  BY <1>1, <1>3, <1>7, <1>9, <1>10, AskingHand DEF CpuQueries, Openings
<1> QED BY <1>1, <1>2, <1>4, <1>6, <1>7, <1>11


LEMMA CpuLimitsHand ==
  ASSUME InHand, AskCpuLimits
  PROVE  /\ InHand'
         /\ Asking("cpu")
         /\ UNCHANGED <<job, own, others, outer, beyond, machine, churn,
                     before, gained, stood, call>>
         /\ UNCHANGED <<ceiling, count, charged, share, quota, memory, usage, listed>>
         /\ \/ /\ Skip(1) /\ job # None /\ limits' = job /\ cpu' = cpu
               /\ \A q : Asking(q)' => q = "rate"
            \/ /\ Skip(4) /\ limits' = None
               /\ cpu' = NoCpuLimit(IF job = None THEN {} ELSE {"LIMIT_UNREADABLE"})
               /\ \A q : Asking(q)' => q \in Openings
<1>1. /\ Asking("cpu")
      /\ UNCHANGED <<job, own, others, outer, beyond, machine, churn,
                     before, gained, stood>>
      /\ UNCHANGED <<ceiling, count, charged, share, quota, memory, usage, listed>>
  BY DEF AskCpuLimits, others_ask, world, history
<1>2. TypeOK /\ Successor("cpu") = "rate" /\ Rest("cpu") = 4
  BY DEF InHand, Successor, Rest
<1>3. PICK outcome \in Outcomes("limits") :
        /\ limits' = IF outcome = "answered" THEN job ELSE None
        /\ cpu' = CASE outcome = "no_job"   -> NoCpuLimit({})
                     [] outcome = "refused"  -> NoCpuLimit({"LIMIT_UNREADABLE"})
                     [] outcome = "answered" -> cpu
        /\ IF outcome = "answered" THEN AskNext ELSE Skip(4)
  BY DEF AskCpuLimits
<1>4. \/ outcome = "answered" /\ job # None
      \/ outcome = "refused" /\ job # None
      \/ outcome = "no_job" /\ job = None
  BY <1>3 DEF Outcomes
<1>5. \/ Skip(1) /\ job # None /\ limits' = job /\ cpu' = cpu
      \/ /\ Skip(4) /\ limits' = None
         /\ cpu' = NoCpuLimit(IF job = None THEN {} ELSE {"LIMIT_UNREADABLE"})
  <2>1. CASE outcome = "answered" /\ job # None
    BY <1>3, <2>1 DEF AskNext
  <2>2. CASE outcome = "refused" /\ job # None
    BY <1>3, <2>2
  <2>3. CASE outcome = "no_job" /\ job = None
    BY <1>3, <2>3
  <2> QED BY <1>4, <2>1, <2>2, <2>3
<1>6. call' = call
  BY <1>5 DEF Skip
<1>7. ASSUME Skip(1), job # None, limits' = job, cpu' = cpu
      PROVE  InHand' /\ \A q : Asking(q)' => q = "rate"
  <2>1. at' \in 1..Len(Queue') + 1 /\ \A q : Asking(q)' => q = "rate"
    BY <1>1, <1>2, <1>7, GoesOn DEF AskNext
  <2>2. TypeOK'
    BY <1>1, <1>2, <1>6, <1>7, <2>1 DEF TypeOK
  <2>3. ~Ahead("cpu")'
    BY <1>1, <1>2, <1>7, MovesOn
  <2> QED BY <1>1, <1>2, <1>7, <2>1, <2>2, <2>3, AskingHand
<1>8. ASSUME Skip(4), limits' = None, cpu' \in CpuReports
      PROVE  InHand' /\ \A q : Asking(q)' => q \in Openings
  <2>1. at' \in 1..Len(Queue') + 1 /\ \A q : Asking(q)' => q \in Openings
    BY <1>1, <1>2, <1>8, LeavesOff
  <2>2. TypeOK'
    BY <1>1, <1>2, <1>6, <1>8, <2>1 DEF TypeOK
  <2>3. ~Ahead("cpu")'
    BY <1>1, <1>2, <1>8, MovesOn
  <2> QED BY <1>1, <1>2, <1>8, <2>1, <2>2, <2>3, AskingHand DEF CpuQueries, Openings
<1>9. NoCpuLimit(IF job = None THEN {} ELSE {"LIMIT_UNREADABLE"}) \in CpuReports
  BY PlainReports
<1> QED BY <1>1, <1>5, <1>6, <1>7, <1>8, <1>9

LEMMA RateHand ==
  ASSUME InHand, AskRate
  PROVE  /\ InHand'
         /\ Asking("rate") /\ limits \in Jobs
         /\ UNCHANGED <<job, own, others, outer, beyond, machine, churn,
                     before, gained, stood, call>>
         /\ UNCHANGED <<ceiling, count, limits, charged, quota, memory, usage, listed>>
         /\ \/ /\ Skip(1) /\ job \in Jobs /\ share' = RateCap(job.control) /\ cpu' = cpu
               /\ \A q : Asking(q)' => q = "size"
            \/ /\ Skip(3) /\ cpu' = NoCpuLimit({"LIMIT_UNREADABLE"})
               /\ \A q : Asking(q)' => q \in Openings
<1>1. /\ Asking("rate")
      /\ UNCHANGED <<job, own, others, outer, beyond, machine, churn,
                     before, gained, stood>>
      /\ UNCHANGED <<ceiling, count, limits, charged, quota, memory, usage, listed>>
  BY DEF AskRate, others_ask, world, history
<1>2. TypeOK /\ Successor("rate") = "size" /\ Rest("rate") = 3
  BY DEF InHand, Successor, Rest
<1>3. ~Ahead("cpu") /\ limits # None /\ limits \in Jobs
  BY <1>1, <1>2 DEF InHand, Stance, CpuQueries, TypeOK
<1>4. PICK outcome \in Outcomes("rate") :
        /\ share' = IF outcome = "answered" THEN RateCap(job.control) ELSE None
        /\ cpu' = IF outcome = "answered" THEN cpu ELSE NoCpuLimit({"LIMIT_UNREADABLE"})
        /\ IF outcome = "answered" THEN AskNext ELSE Skip(3)
  BY DEF AskRate
<1>5. \/ Skip(1) /\ job \in Jobs /\ share' = RateCap(job.control) /\ cpu' = cpu
      \/ Skip(3) /\ share' = None /\ cpu' = NoCpuLimit({"LIMIT_UNREADABLE"})
  <2>1. CASE outcome = "answered"
    <3>1. job # None
      BY <1>4, <2>1 DEF Outcomes
    <3> QED BY <1>2, <1>4, <2>1, <3>1 DEF AskNext, TypeOK
  <2>2. CASE outcome # "answered"
    BY <1>4, <2>2
  <2> QED BY <2>1, <2>2
<1>6. call' = call
  BY <1>5 DEF Skip
<1>7. ASSUME Skip(1), job \in Jobs, share' = RateCap(job.control), cpu' = cpu
      PROVE  InHand' /\ \A q : Asking(q)' => q = "size"
  <2>1. at' \in 1..Len(Queue') + 1 /\ \A q : Asking(q)' => q = "size"
    BY <1>1, <1>2, <1>7, GoesOn DEF AskNext
  <2>2. share' \in 1..Scale \cup {None}
    BY <1>7, JobFields
  <2>3. TypeOK'
    BY <1>1, <1>2, <1>6, <1>7, <2>1, <2>2 DEF TypeOK
  <2>4. ~Ahead("cpu")'
    BY <1>1, <1>2, <1>3, <1>7, MovesOn
  <2> QED BY <1>1, <1>2, <1>3, <1>7, <2>1, <2>3, <2>4, AskingHand
<1>8. ASSUME Skip(3), share' = None, cpu' = NoCpuLimit({"LIMIT_UNREADABLE"})
      PROVE  InHand' /\ \A q : Asking(q)' => q \in Openings
  <2>1. at' \in 1..Len(Queue') + 1 /\ \A q : Asking(q)' => q \in Openings
    BY <1>1, <1>2, <1>8, LeavesOff
  <2>2. cpu' \in CpuReports
    BY <1>8, PlainReports
  <2>3. TypeOK'
    BY <1>1, <1>2, <1>6, <1>8, <2>1, <2>2 DEF TypeOK
  <2>4. ~Ahead("cpu")'
    BY <1>1, <1>2, <1>3, <1>8, MovesOn
  <2> QED BY <1>1, <1>2, <1>8, <2>1, <2>3, <2>4, AskingHand DEF CpuQueries, Openings
<1> QED BY <1>1, <1>3, <1>5, <1>6, <1>7, <1>8

(* The rate is turned into cores of the machine as it is counted now.      *)
LEMMA SizeHand ==
  ASSUME InHand, AskSize
  PROVE  /\ InHand'
         /\ Asking("size") /\ limits \in Jobs
         /\ UNCHANGED <<job, own, others, outer, beyond, machine, churn,
                     before, gained, stood, call>>
         /\ UNCHANGED <<ceiling, count, limits, charged, share, memory, usage, listed>>
         /\ \E cores \in MachineCpuCount :
              /\ cores \in Nat \cup {None}
              /\ quota' = IF share = None \/ cores = None THEN None ELSE share * cores
              /\ \/ /\ Skip(2) /\ share # None /\ cores = None
                    /\ cpu' = NoCpuLimit({"MACHINE_UNKNOWN"})
                    /\ \A q : Asking(q)' => q \in Openings
                 \/ /\ Skip(2) /\ (share = None \/ cores # None) /\ limits.affinity = None
                    /\ cpu' = JudgedCpu(quota', None)
                    /\ \A q : Asking(q)' => q \in Openings
                 \/ /\ Skip(1) /\ (share = None \/ cores # None) /\ limits.affinity # None
                    /\ cpu' = cpu
                    /\ \A q : Asking(q)' => q = "affinity"
<1>1. /\ Asking("size")
      /\ UNCHANGED <<job, own, others, outer, beyond, machine, churn,
                     before, gained, stood>>
      /\ UNCHANGED <<ceiling, count, limits, charged, share, memory, usage, listed>>
  BY DEF AskSize, others_ask, world, history
<1>2. TypeOK /\ Successor("size") = "affinity" /\ Rest("size") = 2
  BY DEF InHand, Successor, Rest
<1>3. ~Ahead("cpu") /\ limits # None /\ limits \in Jobs
  BY <1>1, <1>2 DEF InHand, Stance, CpuQueries, TypeOK
<1>4. PICK cores \in MachineCpuCount :
        LET unsized == share # None /\ cores = None
        IN /\ quota' = IF share = None \/ cores = None THEN None ELSE share * cores
           /\ cpu' = IF unsized THEN NoCpuLimit({"MACHINE_UNKNOWN"})
                     ELSE IF limits.affinity = None THEN JudgedCpu(quota', None) ELSE cpu
           /\ IF unsized \/ limits.affinity = None THEN Skip(2) ELSE AskNext
  BY DEF AskSize
<1>5. cores \in Nat \cup {None}
  <2>1. machine \in Seq(Nat)
    BY <1>2 DEF TypeOK
  <2>2. Cores(machine) \in Nat
    BY <2>1, CoresCounted
  <2> HIDE DEF Cores
  <2> QED BY <1>4, <2>2 DEF MachineCpuCount, OrNone
<1>6. quota' \in Nat \cup {None}
  <2>1. share \in 1..Scale \cup {None}
    BY <1>2 DEF TypeOK
  <2>2. CASE share = None \/ cores = None
    BY <1>4, <2>2
  <2>3. CASE share # None /\ cores # None
    <3>1. share \in Nat /\ cores \in Nat
      BY <1>5, <2>1, <2>3
    <3>2. share * cores \in Nat
      BY <3>1
    <3> QED BY <1>4, <2>3, <3>2
  <2> QED BY <2>2, <2>3
<1>7. \/ Skip(2) /\ share # None /\ cores = None /\ cpu' = NoCpuLimit({"MACHINE_UNKNOWN"})
      \/ /\ Skip(2) /\ (share = None \/ cores # None) /\ limits.affinity = None
         /\ cpu' = JudgedCpu(quota', None)
      \/ /\ Skip(1) /\ (share = None \/ cores # None) /\ limits.affinity # None
         /\ cpu' = cpu
  BY <1>4 DEF AskNext
<1>8. call' = call
  BY <1>7 DEF Skip
<1>9. ASSUME Skip(2), cpu' \in CpuReports
      PROVE  InHand' /\ \A q : Asking(q)' => q \in Openings
  <2>1. at' \in 1..Len(Queue') + 1 /\ \A q : Asking(q)' => q \in Openings
    BY <1>1, <1>2, <1>9, LeavesOff
  <2>2. TypeOK'
    BY <1>1, <1>2, <1>6, <1>8, <1>9, <2>1 DEF TypeOK
  <2>3. ~Ahead("cpu")'
    BY <1>1, <1>2, <1>3, <1>9, MovesOn
  <2> QED BY <1>1, <1>2, <1>9, <2>1, <2>2, <2>3, AskingHand DEF CpuQueries, Openings
<1>10. ASSUME Skip(1), cpu' = cpu
       PROVE  InHand' /\ \A q : Asking(q)' => q = "affinity"
  <2>1. at' \in 1..Len(Queue') + 1 /\ \A q : Asking(q)' => q = "affinity"
    BY <1>1, <1>2, <1>10, GoesOn DEF AskNext
  <2>2. TypeOK'
    BY <1>1, <1>2, <1>6, <1>8, <1>10, <2>1 DEF TypeOK
  <2>3. ~Ahead("cpu")'
    BY <1>1, <1>2, <1>3, <1>10, MovesOn
  <2> QED BY <1>1, <1>2, <1>3, <1>10, <2>1, <2>2, <2>3, AskingHand
<1>11. NoCpuLimit({"MACHINE_UNKNOWN"}) \in CpuReports
  BY PlainReports
<1>12. JudgedCpu(quota', None) \in CpuReports
  <2>1. count \in Nat \cup {None}
    BY <1>2 DEF TypeOK
  <2> QED BY <1>6, <2>1, CpuJudged
<1>13. CASE Skip(2) /\ share # None /\ cores = None /\ cpu' = NoCpuLimit({"MACHINE_UNKNOWN"})
  BY <1>1, <1>3, <1>4, <1>5, <1>8, <1>9, <1>11, <1>13
<1>14. CASE /\ Skip(2) /\ (share = None \/ cores # None) /\ limits.affinity = None
            /\ cpu' = JudgedCpu(quota', None)
  BY <1>1, <1>3, <1>4, <1>5, <1>8, <1>9, <1>12, <1>14
<1>15. CASE /\ Skip(1) /\ (share = None \/ cores # None) /\ limits.affinity # None
            /\ cpu' = cpu
  BY <1>1, <1>3, <1>4, <1>5, <1>8, <1>10, <1>15
<1> QED BY <1>7, <1>13, <1>14, <1>15

LEMMA AffinityHand ==
  ASSUME InHand, AskAffinity
  PROVE  /\ InHand'
         /\ Asking("affinity") /\ limits \in Jobs
         /\ UNCHANGED <<job, own, others, outer, beyond, machine, churn,
                     before, gained, stood, call>>
         /\ UNCHANGED <<ceiling, count, limits, charged, share, quota, memory, usage, listed>>
         /\ \A q : Asking(q)' => q \in Openings
         /\ \/ /\ job \in Jobs /\ AffinityCores \in Nat
               /\ cpu' = JudgedCpu(quota, Scale * AffinityCores)
            \/ cpu' = NoCpuLimit({"LIMIT_UNREADABLE"})
<1>1. /\ Asking("affinity") /\ Skip(1) /\ call' = call /\ at' = at + 1
      /\ UNCHANGED <<job, own, others, outer, beyond, machine, churn,
                     before, gained, stood>>
      /\ UNCHANGED <<ceiling, count, limits, charged, share, quota, memory, usage, listed>>
  BY DEF AskAffinity, AskNext, Skip, others_ask, world, history, answers
<1>2. TypeOK /\ Successor("affinity") = "over" /\ Rest("affinity") = 1
  BY DEF InHand, Successor, Rest
<1>3. ~Ahead("cpu") /\ limits # None /\ limits \in Jobs
  BY <1>1, <1>2 DEF InHand, Stance, CpuQueries, TypeOK
<1>4. \/ job \in Jobs /\ AffinityCores # None /\ cpu' = JudgedCpu(quota, Scale * AffinityCores)
      \/ cpu' = NoCpuLimit({"LIMIT_UNREADABLE"})
  <2>1. PICK outcome \in Outcomes("affinity") :
          cpu' = IF outcome = "answered" /\ AffinityCores # None
                 THEN JudgedCpu(quota, Scale * AffinityCores)
                 ELSE NoCpuLimit({"LIMIT_UNREADABLE"})
    BY DEF AskAffinity
  <2>2. outcome = "answered" => job # None
    BY <2>1 DEF Outcomes
  <2> QED BY <1>2, <2>1, <2>2 DEF TypeOK
<1>5. ASSUME job \in Jobs, AffinityCores # None PROVE AffinityCores \in Nat
  <2>1. GroupMasks \in Seq(Nat)
    <3>1. job.affinity \in Affinities \cup {None} /\ Affinities \subseteq Seq(Nat)
      BY <1>5, JobFields, ConstantsAssumption
    <3> QED BY <1>2, <3>1 DEF GroupMasks, TypeOK
  <2>2. Cores(GroupMasks) \in Nat
    BY <2>1, CoresCounted
  <2> HIDE DEF Cores, GroupMasks
  <2> QED BY <1>5, <2>2 DEF AffinityCores
<1>6. cpu' \in CpuReports
  <2>1. quota \in Nat \cup {None} /\ count \in Nat \cup {None} /\ Scale \in Nat
    BY <1>2, ConstantsAssumption DEF TypeOK
  <2>2. CASE job \in Jobs /\ AffinityCores # None /\ cpu' = JudgedCpu(quota, Scale * AffinityCores)
    <3>1. Scale * AffinityCores \in Nat
      BY <1>5, <2>1, <2>2
    <3> QED BY <2>1, <2>2, <3>1, CpuJudged
  <2>3. CASE cpu' = NoCpuLimit({"LIMIT_UNREADABLE"})
    BY <2>3, PlainReports
  <2> QED BY <1>4, <2>2, <2>3
<1>7. at' \in 1..Len(Queue') + 1 /\ \A q : Asking(q)' => q \in Openings
  BY <1>1, <1>2, LeavesOff
<1>8. TypeOK'
  BY <1>1, <1>2, <1>6, <1>7 DEF TypeOK
<1>9. ~Ahead("cpu")'
  BY <1>1, <1>2, <1>3, MovesOn
<1>10. InHand'
  BY <1>1, <1>2, <1>7, <1>8, <1>9, AskingHand DEF CpuQueries, Openings
<1> QED BY <1>1, <1>3, <1>4, <1>5, <1>7, <1>10

LEMMA InitHand ==
  ASSUME Init
  PROVE  InHand
<1>1. /\ machine \in Seq(Nat) /\ own \in Nat /\ others \in Nat /\ job \in Jobs \cup {None}
      /\ outer \in Jobs \cup {None} /\ beyond \in Nat
  BY ConstantsAssumption, JoinableAssumption DEF Init
<1>2. Queue = <<>> /\ Len(Queue) = 0 /\ DOMAIN Queue = {}
  BY DEF Init, Queue
<1>3. TypeOK
  <2>1. before \in [job : Jobs \cup {None}, own : Nat, others : Nat]
    BY <1>1 DEF Init
  <2>2. at \in 1..Len(Queue) + 1
    BY <1>2 DEF Init
  <2> QED BY <1>1, <2>1, <2>2, ConstantsAssumption DEF Init, TypeOK
<1>4. Stance
  BY <1>2 DEF Init, Stance, Asking, Idle
<1> QED BY <1>3, <1>4 DEF InHand

LEMMA NextHand ==
  ASSUME InHand, [Next]_vars
  PROVE  InHand'
<1>1. CASE UNCHANGED vars
  BY <1>1 DEF vars, world, history, reader, answers, report, InHand, TypeOK, Stance,
              Ahead, Asking, Idle, Queue
<1>2. CASE Others
  BY <1>2, OthersHand
<1>3. CASE Reader
  <2>1. CASE \E c \in Calls : Begin(c)
    BY <2>1, BeginHand
  <2>2. CASE AskSources \/ AskCeiling \/ AskCount \/ AskUsage
    BY <2>2, PlainHand
  <2>3. CASE AskMemoryLimits
    BY <2>3, MemoryLimitsHand
  <2>4. CASE AskInUse
    BY <2>4, InUseHand
  <2>5. CASE AskCommit
    BY <2>5, CommitHand
  <2>6. CASE AskCpuLimits
    BY <2>6, CpuLimitsHand
  <2>7. CASE AskRate
    BY <2>7, RateHand
  <2>8. CASE AskSize
    BY <2>8, SizeHand
  <2>9. CASE AskAffinity
    BY <2>9, AffinityHand
  <2> QED BY <1>3, <2>1, <2>2, <2>3, <2>4, <2>5, <2>6, <2>7, <2>8, <2>9 DEF Reader
<1> QED BY <1>1, <1>2, <1>3 DEF Next

(* Every answer the reader holds is one a query gives, the place in the    *)
(* queries of a call stays within them, and what is reported is a report.  *)
THEOREM TypeCorrect == Spec => []TypeOK
<1>1. Init => InHand
  BY InitHand
<1>2. InHand /\ [Next]_vars => InHand'
  BY NextHand
<1>3. InHand => TypeOK
  BY DEF InHand
<1> QED BY <1>1, <1>2, <1>3, PTL DEF Spec


-----------------------------------------------------------------------------
(* The memory.                                                             *)

(* A step that is none of the reading of the memory.                       *)
MemoryAside ==
  /\ UNCHANGED <<job, own, others, before, gained, stood, charged, memory>>
  /\ \/ UNCHANGED <<call, at, limits>>
     \/ ~Asking("in_use")' /\ ~Asking("commit")'
  /\ limits' \in {limits, job, None}

LEMMA MemoryCases ==
  ASSUME InHand, [Next]_vars
  PROVE  \/ Others \/ MemoryAside \/ AskMemoryLimits \/ AskInUse \/ AskCommit
         \/ \E c \in Calls : Begin(c)
<1> USE DEF MemoryAside, Openings
<1>1. CASE UNCHANGED vars
  BY <1>1 DEF vars, world, history, reader, answers, report
<1>2. CASE AskSources \/ AskCeiling \/ AskCount \/ AskUsage
  <2>1. /\ UNCHANGED <<job, own, others, before, gained, stood, charged, memory, limits>>
        /\ \A q : Asking(q)' => q \in Openings
    BY <1>2, PlainHand, Zenon
  <2> QED BY <2>1
<1>3. CASE AskCpuLimits
  BY <1>3, CpuLimitsHand
<1>4. CASE AskRate
  BY <1>4, RateHand
<1>5. CASE AskSize
  BY <1>5, SizeHand
<1>6. CASE AskAffinity
  BY <1>6, AffinityHand
<1> QED BY <1>1, <1>2, <1>3, <1>4, <1>5, <1>6 DEF Next, Reader

(* The fields of a budget add up, however the pages moved between the      *)
(* queries it was made of: _reconcile() caps the room at what the usage    *)
(* leaves of the limit.                                                    *)
LEMMA NextFits ==
  ASSUME InHand, PairFitsTheLimit, [Next]_vars
  PROVE  PairFitsTheLimit'
<1>1. CASE memory' = memory
  BY <1>1 DEF PairFitsTheLimit, Budget
<1>2. CASE memory' = None
  BY <1>2 DEF PairFitsTheLimit, Budget
<1>3. CASE \E raw \in RawMemories : memory' = JudgedMemory(raw)
  <2>1. memory' \in MemoryReports /\ memory' # None
    BY <1>3, Judged, NoneAssumption
  <2>2. memory'.budget # None =>
          memory'.budget.used + memory'.budget.available <= memory'.budget.limit
    BY <1>3, Judged
  <2> QED BY <2>1, <2>2 DEF PairFitsTheLimit, Budget
<1>4. CASE Others
  BY <1>1, <1>4, OthersKept DEF OthersStep, InHand, reader, report
<1>5. CASE \E c \in Calls : Begin(c)
  BY <1>2, <1>5 DEF Begin
<1>6. CASE AskMemoryLimits
  BY <1>1, <1>3, <1>6, MemoryLimitsRead
<1>7. CASE AskInUse
  BY <1>1, <1>7, InUseHand
<1>8. CASE AskCommit
  <2>1. PICK available \in Nat \cup {None} : memory' = JudgedMemory(Paired(charged, available))
    BY <1>8, CommitHand
  <2>2. limits \in Jobs /\ limits.all # None /\ charged \in Nat \cup {None}
    BY <1>8, CommitHand DEF PairsWithUsage, InHand, TypeOK
  <2>3. Paired(charged, available) \in RawMemories
    BY <2>2, PairedFields
  <2> QED BY <1>3, <2>1, <2>3
<1>9. CASE MemoryAside
  BY <1>1, <1>9 DEF MemoryAside
<1> QED BY <1>4, <1>5, <1>6, <1>7, <1>8, <1>9, MemoryCases

(* The numbers of a budget are about one limit: what is used and what is   *)
(* left fit it, though they were asked for at different moments            *)
(* (_reconcile()).                                                         *)
THEOREM PairsFit == Spec => []PairFitsTheLimit
<1>1. Init => InHand /\ PairFitsTheLimit
  BY InitHand DEF Init, PairFitsTheLimit, Budget
<1>2. InHand /\ PairFitsTheLimit /\ [Next]_vars => (InHand /\ PairFitsTheLimit)'
  BY NextHand, NextFits
<1> QED BY <1>1, <1>2, PTL DEF Spec

(* What the job left when the call began bounds what is promised: the room *)
(* under a limit grows only by what is freed and allowed, and the reader   *)
(* holds no more than that room at any point of the call.                  *)
Within(was, n, gain) ==
  /\ was.job.all # None => n <= AllRoom(was.job, was.own, was.others) + gain
  /\ was.job.each # None => n <= EachRoom(was.job, was.own) + gain

Counted == before.job # None /\ {"job", "bounded"} \subseteq stood

StillLimited ==
  /\ job # None
  /\ before.job.all # None =>
       /\ job.all # None
       /\ AllRoom(job, own, others) <= AllRoom(before.job, before.own, before.others) + gained
  /\ before.job.each # None =>
       /\ job.each # None
       /\ EachRoom(job, own) <= EachRoom(before.job, before.own) + gained

HeldBack ==
  /\ Asking("in_use") \/ Asking("commit") =>
       job.all # None /\ Within(before, AllRoom(job, own, others), gained)
  /\ Asking("in_use") => Within(before, AllRoom(limits, own, others), gained)
  /\ Asking("commit") /\ charged # None => Within(before, Max0(limits.all - charged), gained)
  /\ Budget # None => Within(before, Budget.available, gained)

Bounded == Counted => StillLimited /\ HeldBack

LEMMA RoomTyped ==
  ASSUME NEW j \in Jobs, NEW mine \in Nat, NEW theirs \in Nat
  PROVE  /\ j.all # None => AllRoom(j, mine, theirs) \in Nat
         /\ j.each # None => EachRoom(j, mine) \in Nat
<1>1. j.all \in Nat \cup {None} /\ j.each \in Nat \cup {None}
  BY JobFields
<1> QED BY <1>1 DEF AllRoom, EachRoom, Max0

LEMMA WithinGrows ==
  ASSUME NEW was \in [job : Jobs \cup {None}, own : Nat, others : Nat], was.job # None,
         NEW n \in Nat, NEW m \in Nat, NEW g \in Nat, NEW h \in Nat, NEW gain \in Nat,
         m <= n + gain, h = g + gain, Within(was, n, g)
  PROVE  Within(was, m, h)
<1>1. was.job \in Jobs /\ was.own \in Nat /\ was.others \in Nat
  OBVIOUS
<1>2. /\ was.job.all # None => AllRoom(was.job, was.own, was.others) \in Nat
      /\ was.job.each # None => EachRoom(was.job, was.own) \in Nat
  BY <1>1, RoomTyped
<1>3. \A r \in Nat : n <= r + g => m <= r + h
  OBVIOUS
<1> QED BY <1>2, <1>3 DEF Within

LEMMA BudgetTyped ==
  ASSUME TypeOK
  PROVE  Budget # None => Budget.available \in Nat
<1>1. memory \in MemoryReports => memory.budget \in Budgets \cup {None}
  BY DEF MemoryReports
<1> QED BY <1>1, NoneAssumption DEF TypeOK, Budget, Budgets


LEMMA BoundPasses ==
  ASSUME NEW m \in Nat, NEW n \in Nat, NEW r \in Nat, NEW g \in Nat, NEW gain \in Nat,
         m <= n + gain, n <= r + g
  PROVE  m <= r + (g + gain)
OBVIOUS

LEMMA OthersBounded ==
  ASSUME InHand, Bounded, Others
  PROVE  Bounded'
<1> SUFFICES ASSUME Counted'
             PROVE  StillLimited' /\ HeldBack'
  BY DEF Bounded
<1>1. OthersStep
  BY OthersKept DEF InHand
<1>2. /\ before' = before /\ stood' \subseteq stood
      /\ UNCHANGED <<call, at, limits, charged, memory>>
  BY <1>1 DEF OthersStep, reader, answers, report
<1>3. Counted /\ {"job", "bounded"} \subseteq stood'
  BY <1>2 DEF Counted
<1>4. StillLimited /\ HeldBack
  BY <1>3 DEF Bounded
<1>5. PICK gain \in Nat : gained' = gained + gain /\ RoomAccounted(gain)
  BY <1>1 DEF OthersStep
<1>6. /\ job # None /\ job' # None
      /\ job.all # None =>
           job'.all # None /\ AllRoom(job', own', others') <= AllRoom(job, own, others) + gain
      /\ job.each # None => job'.each # None /\ EachRoom(job', own') <= EachRoom(job, own) + gain
      /\ own + others <= own' + others' + gain
  BY <1>3, <1>4, <1>5 DEF RoomAccounted, StillLimited
<1>7. /\ job \in Jobs /\ job' \in Jobs /\ own \in Nat /\ others \in Nat
      /\ own' \in Nat /\ others' \in Nat /\ gained \in Nat
      /\ before \in [job : Jobs \cup {None}, own : Nat, others : Nat]
      /\ before.job \in Jobs /\ before.own \in Nat /\ before.others \in Nat /\ before.job # None
  BY <1>1, <1>3, <1>6 DEF OthersStep, InHand, TypeOK, Counted
<1>8. /\ job.all # None => AllRoom(job, own, others) \in Nat
      /\ job'.all # None => AllRoom(job', own', others') \in Nat
      /\ job.each # None => EachRoom(job, own) \in Nat
      /\ job'.each # None => EachRoom(job', own') \in Nat
      /\ before.job.all # None => AllRoom(before.job, before.own, before.others) \in Nat
      /\ before.job.each # None => EachRoom(before.job, before.own) \in Nat
  BY <1>7, RoomTyped
<1>9. StillLimited'
  <2>1. ASSUME before.job.all # None
        PROVE  /\ job'.all # None
               /\ AllRoom(job', own', others')
                    <= AllRoom(before.job, before.own, before.others) + gained'
    BY <1>4, <1>5, <1>6, <1>7, <1>8, <2>1, BoundPasses DEF StillLimited
  <2>2. ASSUME before.job.each # None
        PROVE  /\ job'.each # None
               /\ EachRoom(job', own') <= EachRoom(before.job, before.own) + gained'
    BY <1>4, <1>5, <1>6, <1>7, <1>8, <2>2, BoundPasses DEF StillLimited
  <2> QED BY <1>2, <1>6, <2>1, <2>2 DEF StillLimited
<1>10. /\ Asking("in_use")' = Asking("in_use")
       /\ Asking("commit")' = Asking("commit")
  BY <1>2 DEF Asking, Idle, Queue
<1>11. ASSUME NEW n \in Nat, NEW m \in Nat, Within(before, n, gained), m <= n + gain
       PROVE  Within(before', m, gained')
  <2>1. gained' \in Nat
    BY <1>5, <1>7
  <2> QED BY <1>2, <1>5, <1>7, <1>11, <2>1, WithinGrows
<1>12. ASSUME Asking("in_use") \/ Asking("commit")
       PROVE  job'.all # None /\ Within(before', AllRoom(job', own', others'), gained')
  BY <1>4, <1>6, <1>8, <1>11, <1>12 DEF HeldBack
<1>13. ASSUME Asking("in_use")
       PROVE  Within(before', AllRoom(limits', own', others'), gained')
  <2>1. limits \in Jobs /\ limits.all \in Nat
    BY <1>13, JobFields DEF InHand, Stance, TypeOK, PairsWithUsage
  <2>2. AllRoom(limits, own', others') <= AllRoom(limits, own, others) + gain
    BY <1>6, <1>7, <2>1, RoomGrows DEF AllRoom
  <2>3. AllRoom(limits, own, others) \in Nat /\ AllRoom(limits, own', others') \in Nat
    BY <1>7, <2>1 DEF AllRoom, Max0
  <2>4. Within(before, AllRoom(limits, own, others), gained)
    BY <1>4, <1>13 DEF HeldBack
  <2> QED BY <1>2, <1>11, <2>2, <2>3, <2>4
<1>14. ASSUME Asking("commit"), charged # None
       PROVE  Within(before', Max0(limits'.all - charged'), gained')
  <2>1. limits \in Jobs /\ limits.all \in Nat /\ charged \in Nat
    BY <1>14, JobFields DEF InHand, Stance, TypeOK, PairsWithUsage
  <2>2. Max0(limits.all - charged) \in Nat
    BY <2>1 DEF Max0
  <2>3. Within(before, Max0(limits.all - charged), gained)
    BY <1>4, <1>14 DEF HeldBack
  <2>4. Max0(limits.all - charged) <= Max0(limits.all - charged) + gain
    BY <2>2
  <2> QED BY <1>2, <1>11, <2>2, <2>3, <2>4
<1>15. ASSUME Budget # None
       PROVE  Within(before', Budget'.available, gained')
  <2>1. Budget' = Budget /\ Budget.available \in Nat
    BY <1>2, <1>15, BudgetTyped DEF Budget, InHand
  <2>2. Within(before, Budget.available, gained)
    BY <1>4, <1>15 DEF HeldBack
  <2>3. Budget.available <= Budget.available + gain
    BY <2>1
  <2>4. Within(before', Budget.available, gained')
    BY <1>11, <2>1, <2>2, <2>3
  <2> QED BY <2>1, <2>4
<1>16. Budget' = Budget
  BY <1>2 DEF Budget
<1>17. HeldBack'
  BY <1>2, <1>10, <1>12, <1>13, <1>14, <1>15, <1>16, Zenon DEF HeldBack
<1> QED BY <1>9, <1>17


LEMMA NextBounded ==
  ASSUME InHand, Bounded, [Next]_vars
  PROVE  Bounded'
<1>1. CASE Others
  BY <1>1, OthersBounded
<1> SUFFICES ASSUME ~Others, Counted'
             PROVE  StillLimited' /\ HeldBack'
  BY <1>1 DEF Bounded
<1>2. TypeOK /\ Stance /\ InHand'
  BY NextHand DEF InHand
<1>3. CASE MemoryAside
  <2>1. UNCHANGED <<job, own, others, before, gained, stood, charged, memory>>
    BY <1>3 DEF MemoryAside
  <2>2. StillLimited /\ HeldBack
    BY <2>1 DEF Bounded, Counted
  <2>3. StillLimited'
    BY <2>1, <2>2 DEF StillLimited
  <2>4. /\ Budget' = Budget
        /\ \A n : Within(before', n, gained') = Within(before, n, gained)
    BY <2>1 DEF Budget, Within
  <2>5. Budget' # None => Within(before', Budget'.available, gained')
    BY <2>2, <2>4 DEF HeldBack
  <2>6. CASE UNCHANGED <<call, at, limits>>
    <3>1. /\ Asking("in_use")' = Asking("in_use")
          /\ Asking("commit")' = Asking("commit")
      BY <2>6 DEF Asking, Idle, Queue
    <3>2. HeldBack'
      BY <2>1, <2>2, <2>4, <2>5, <2>6, <3>1 DEF HeldBack
    <3> QED BY <2>3, <3>2
  <2>7. CASE ~Asking("in_use")' /\ ~Asking("commit")'
    BY <2>3, <2>5, <2>7 DEF HeldBack
  <2> QED BY <1>3, <2>6, <2>7 DEF MemoryAside
<1>4. CASE \E c \in Calls : Begin(c)
  <2>1. /\ job' = job /\ own' = own /\ others' = others /\ gained' = 0
        /\ before' = [job |-> job, own |-> own, others |-> others]
        /\ limits' = None /\ memory' = None
    BY <1>4 DEF Begin, world
  <2>2. job # None /\ job \in Jobs /\ own \in Nat /\ others \in Nat
    BY <1>2, <2>1 DEF Counted, TypeOK
  <2>3. /\ job.all # None => AllRoom(job, own, others) \in Nat
        /\ job.each # None => EachRoom(job, own) \in Nat
    BY <2>2, RoomTyped
  <2>4. StillLimited'
    BY <2>1, <2>2, <2>3 DEF StillLimited
  <2>5. ~Asking("in_use")' /\ ~Asking("commit")'
    BY <1>2, <2>1 DEF InHand, Stance
  <2> QED BY <2>1, <2>4, <2>5 DEF HeldBack, Budget
<1>5. ASSUME UNCHANGED <<job, own, others, before, gained, stood>>
      PROVE  /\ StillLimited /\ HeldBack /\ StillLimited'
             /\ job \in Jobs /\ own \in Nat /\ others \in Nat /\ gained \in Nat
             /\ before.job \in Jobs /\ before.own \in Nat /\ before.others \in Nat
             /\ \A n : Within(before', n, gained') = Within(before, n, gained)
  <2>1. Counted /\ StillLimited /\ HeldBack
    BY <1>5 DEF Bounded, Counted
  <2>2. StillLimited'
    BY <1>5, <2>1 DEF StillLimited
  <2>3. /\ job \in Jobs /\ own \in Nat /\ others \in Nat /\ gained \in Nat
        /\ before.job \in Jobs /\ before.own \in Nat /\ before.others \in Nat
    BY <1>2, <2>1 DEF Counted, StillLimited, TypeOK
  <2> QED BY <1>5, <2>1, <2>2, <2>3 DEF Within
<1>6. CASE AskMemoryLimits
  <2>1. /\ Asking("memory") /\ limits' \in {job, None}
        /\ UNCHANGED <<job, own, others, before, gained, stood, charged>>
        /\ \/ Skip(1) /\ memory' = memory /\ limits' \in Jobs /\ PairsWithUsage(limits')
           \/ Skip(3) /\ \E raw \in RawMemories : memory' = JudgedMemory(raw) /\ raw.used = None
    BY <1>6, MemoryLimitsRead
  <2>2. /\ StillLimited /\ HeldBack /\ StillLimited'
        /\ job \in Jobs /\ own \in Nat /\ others \in Nat /\ gained \in Nat
        /\ before.job \in Jobs /\ before.own \in Nat /\ before.others \in Nat
        /\ \A n : Within(before', n, gained') = Within(before, n, gained)
    BY <1>5, <2>1
  <2>3. CASE Skip(1) /\ memory' = memory /\ limits' \in Jobs /\ PairsWithUsage(limits')
    <3>1. \A q : Asking(q)' => q = "in_use"
      BY <1>6, <2>3, MemoryLimitsHand
    <3>2. memory' = None
      BY <1>2, <2>1, <2>3, OneQuestion DEF Stance
    <3>3. limits' = job /\ PairsWithUsage(job)
      BY <2>1, <2>3, NoneAssumption
    <3>4. Within(before, AllRoom(job, own, others), gained)
      <4>1. job.all \in Nat /\ job.each \in Nat \cup {None}
        BY <2>2, <3>3, JobFields DEF PairsWithUsage
      <4>2. before.job.each # None => job.each \in Nat /\ job.all <= job.each
        BY <2>2, <3>3, <4>1 DEF PairsWithUsage, StillLimited
      <4>3. job.each \in Nat /\ job.all <= job.each =>
              AllRoom(job, own, others) <= EachRoom(job, own)
        BY <2>2, <4>1 DEF AllRoom, EachRoom, Max0
      <4>4. AllRoom(job, own, others) \in Nat /\ (job.each # None => EachRoom(job, own) \in Nat)
        BY <2>2, <4>1, RoomTyped, NoneAssumption
      <4>5. /\ before.job.all # None => AllRoom(before.job, before.own, before.others) \in Nat
            /\ before.job.each # None => EachRoom(before.job, before.own) \in Nat
        BY <2>2, RoomTyped
      <4>6. ASSUME before.job.each # None
            PROVE  AllRoom(job, own, others) <= EachRoom(before.job, before.own) + gained
        <5>1. /\ AllRoom(job, own, others) <= EachRoom(job, own)
              /\ EachRoom(job, own) <= EachRoom(before.job, before.own) + gained
              /\ EachRoom(job, own) \in Nat
          BY <2>2, <4>2, <4>3, <4>4, <4>6, NoneAssumption DEF StillLimited
        <5> QED BY <2>2, <4>4, <4>5, <4>6, <5>1
      <4> QED BY <2>2, <4>6 DEF Within, StillLimited
    <3>5. job.all # None
      BY <3>3 DEF PairsWithUsage
    <3>6. Within(before', AllRoom(job', own', others'), gained')
      BY <2>1, <2>2, <3>4
    <3> QED BY <2>1, <2>2, <3>1, <3>2, <3>3, <3>5, <3>6 DEF HeldBack, Budget
  <2>4. CASE Skip(3) /\ \E raw \in RawMemories : memory' = JudgedMemory(raw) /\ raw.used = None
    <3>1. ~Asking("in_use")' /\ ~Asking("commit")'
      BY <1>6, <2>4, MemoryLimitsHand DEF Openings
    <3>2. memory'.budget = None
      BY <2>4, Judged, NoneAssumption
    <3> QED BY <2>2, <3>1, <3>2 DEF HeldBack, Budget
  <2> QED BY <2>1, <2>3, <2>4
<1>7. CASE AskInUse
  <2>1. /\ Asking("in_use") /\ charged' \in {own + others, None}
        /\ UNCHANGED <<job, own, others, before, gained, stood, limits, memory>>
        /\ \A q : Asking(q)' => q = "commit"
    BY <1>7, InUseHand
  <2>2. /\ StillLimited /\ HeldBack /\ StillLimited'
        /\ own \in Nat /\ others \in Nat
        /\ \A n : Within(before', n, gained') = Within(before, n, gained)
    BY <1>5, <2>1
  <2>3. limits.all \in Nat
    BY <1>2, <2>1, JobFields DEF Stance, TypeOK, PairsWithUsage
  <2>4. Max0(limits.all - (own + others)) = AllRoom(limits, own, others)
    BY <2>2, <2>3 DEF AllRoom, Max0
  <2>5. charged' # None => Within(before', Max0(limits'.all - charged'), gained')
    BY <2>1, <2>2, <2>4 DEF HeldBack
  <2>6. job'.all # None /\ Within(before', AllRoom(job', own', others'), gained')
    BY <2>1, <2>2 DEF HeldBack
  <2>7. Budget' = Budget
    BY <2>1 DEF Budget
  <2> QED BY <2>1, <2>2, <2>5, <2>6, <2>7 DEF HeldBack
<1>8. CASE AskCommit
  <2>1. /\ Asking("commit") /\ limits \in Jobs /\ limits.all # None
        /\ UNCHANGED <<job, own, others, before, gained, stood>>
        /\ ~Asking("in_use")' /\ ~Asking("commit")'
    BY <1>8, CommitHand DEF PairsWithUsage, Openings
  <2>2. PICK available \in {AvailableCommit, None} :
          available \in Nat \cup {None} /\ memory' = JudgedMemory(Paired(charged, available))
    BY <1>8, CommitHand
  <2>3. /\ StillLimited /\ HeldBack /\ StillLimited'
        /\ job \in Jobs /\ own \in Nat /\ others \in Nat /\ gained \in Nat
        /\ before.job \in Jobs /\ before.own \in Nat /\ before.others \in Nat
        /\ \A n : Within(before', n, gained') = Within(before, n, gained)
    BY <1>5, <2>1
  <2>4. charged \in Nat \cup {None} /\ limits.all \in Nat
    BY <1>2, <2>1, JobFields DEF TypeOK
  <2>5. AvailableCommit = AllRoom(job, own, others) /\ AvailableCommit \in Nat
    <3>1. job # None /\ job.all # None
      BY <2>1, <2>3 DEF StillLimited, HeldBack
    <3> QED BY <2>3, <3>1, RoomTyped DEF AvailableCommit, AllRoom
  <2>6. ASSUME memory'.budget # None PROVE Within(before, memory'.budget.available, gained)
    <3> DEFINE room == JudgedMemory(Paired(charged, available)).budget.available
    <3>1. /\ room \in Nat /\ (charged # None \/ available # None)
          /\ charged # None => room <= Max0(limits.all - charged)
          /\ available # None => room <= available
          /\ memory'.budget.available = room
      BY <2>1, <2>2, <2>4, <2>6, PairedRoom
    <3> HIDE DEF room
    <3>2. \A n \in Nat : Within(before, n, gained) /\ room <= n => Within(before, room, gained)
      <4>1. /\ before \in [job : Jobs \cup {None}, own : Nat, others : Nat] /\ before.job # None
        BY <1>2, <2>3, JobFields DEF TypeOK
      <4>2. room \in Nat
        BY <2>1, <2>2, <2>4, <2>6, PairedRoom DEF room
      <4>3. gained = gained + 0 /\ \A n \in Nat : room <= n => room <= n + 0
        BY <2>3, <4>2
      <4> QED BY <2>3, <4>1, <4>2, <4>3, WithinGrows
    <3>3. CASE charged # None
      <4>1. Max0(limits.all - charged) \in Nat
        BY <2>4, <3>3 DEF Max0
      <4>2. Within(before, Max0(limits.all - charged), gained)
        BY <2>1, <2>3, <3>3 DEF HeldBack
      <4> QED BY <3>1, <3>2, <3>3, <4>1, <4>2
    <3>4. CASE charged = None
      <4>1. available = AvailableCommit /\ available # None
        BY <2>2, <3>1, <3>4
      <4>2. Within(before, AvailableCommit, gained)
        BY <2>1, <2>3, <2>5 DEF HeldBack
      <4> QED BY <2>5, <3>1, <3>2, <4>1, <4>2
    <3> QED BY <3>3, <3>4
  <2>7. memory' # None
    <3>1. memory' = [budget |-> memory'.budget, notice |-> memory'.notice, named |-> memory'.named]
      BY <2>2 DEF JudgedMemory
    <3>2. Paired(charged, available) \in RawMemories
      BY <2>1, <2>2, <2>4, PairedFields
    <3> QED BY <2>2, <3>2, Judged, NoneAssumption
  <2> QED BY <2>1, <2>3, <2>6, <2>7 DEF HeldBack, Budget
<1> QED BY <1>3, <1>4, <1>6, <1>7, <1>8, MemoryCases

(* Whatever is committed, freed, limited and refused between the queries,  *)
(* a budget promises this process no more than either limit of its job     *)
(* left it when the call began, and what was freed and allowed since.      *)
THEOREM PromisesAreBounded == Spec => []PromiseIsBounded
<1>1. Init => InHand /\ Bounded
  <2> SUFFICES ASSUME Init, Counted PROVE InHand /\ StillLimited /\ HeldBack
    BY InitHand DEF Bounded
  <2>1. InHand
    BY InitHand
  <2>2. /\ job # None /\ job \in Jobs /\ own \in Nat /\ others \in Nat /\ gained = 0
        /\ before.job = job /\ before.own = own /\ before.others = others
        /\ memory = None /\ limits = None
    BY <2>1 DEF Init, Counted, InHand, TypeOK
  <2>3. StillLimited
    <3>1. /\ job.all # None => AllRoom(job, own, others) \in Nat
          /\ job.each # None => EachRoom(job, own) \in Nat
      BY <2>2, RoomTyped
    <3> QED BY <2>2, <3>1 DEF StillLimited
  <2>4. HeldBack
    BY <2>1, <2>2 DEF HeldBack, Budget, InHand, Stance
  <2> QED BY <2>1, <2>3, <2>4
<1>2. InHand /\ Bounded /\ [Next]_vars => (InHand /\ Bounded)'
  BY NextHand, NextBounded
<1>3. Bounded => PromiseIsBounded
  BY DEF Bounded, Counted, HeldBack, Within, AllRoom, EachRoom, PromiseIsBounded
<1> QED BY <1>1, <1>2, <1>3, PTL DEF Spec


-----------------------------------------------------------------------------
(* Whether there is a job.                                                 *)

(* While this process is put into no job, every query answers alike: a     *)
(* process outside a job is told so by each of them, so no query can name  *)
(* a level that another did not see.                                       *)
Membership ==
  "job" \in stood =>
    /\ limits # None => job # None
    /\ listed = FALSE => job = None
    /\ job = None =>
         /\ ~usage
         /\ memory # None => ~memory.named
         /\ cpu # None => cpu = NoCpuLimit({})

LEMMA NextMembership ==
  ASSUME InHand, Membership, [Next]_vars
  PROVE  Membership'
<1>1. CASE UNCHANGED vars
  BY <1>1 DEF vars, world, history, reader, answers, report, Membership
<1>2. CASE Others
  <2>1. OthersStep
    BY <1>2, OthersKept DEF InHand
  <2>2. UNCHANGED <<limits, listed, usage, memory, cpu>> /\ stood' \subseteq stood
    BY <2>1 DEF OthersStep, reader, answers, report
  <2>3. "job" \in stood' => (job' = None <=> job = None)
    BY <2>1 DEF OthersStep, Settled
  <2> QED BY <2>2, <2>3 DEF Membership
<1>3. CASE \E c \in Calls : Begin(c)
  <2>1. limits' = None /\ listed' = None /\ usage' = FALSE /\ memory' = None /\ cpu' = None
    BY <1>3 DEF Begin
  <2> QED BY <2>1, NoneAssumption DEF Membership
<1>4. CASE AskSources \/ AskCeiling \/ AskCount \/ AskUsage
  <2>1. UNCHANGED <<job, stood, limits, memory, cpu>>
    BY <1>4, PlainHand, Zenon
  <2>2. usage' = usage \/ (job = None => ~usage')
    BY <1>4, PlainHand, Zenon
  <2>3. listed' = listed \/ (listed' = FALSE => job = None)
    BY <1>4, PlainHand, Zenon
  <2>4. usage \in BOOLEAN /\ usage' \in BOOLEAN
    BY <1>4, PlainHand DEF InHand, TypeOK
  <2>5. ASSUME "job" \in stood, job = None PROVE ~usage'
    BY <2>2, <2>5, Zenon DEF Membership
  <2>6. ASSUME "job" \in stood, listed' = FALSE PROVE job = None
    BY <2>3, <2>6, Zenon DEF Membership
  <2> QED BY <2>1, <2>5, <2>6, Zenon DEF Membership
<1>5. CASE AskMemoryLimits
  <2>1. UNCHANGED <<job, stood, cpu, usage, listed>> /\ limits' \in {job, None}
    BY <1>5, MemoryLimitsRead
  <2>2. job = None => memory' = JudgedMemory(NoMemory)
    BY <1>5, MemoryLimitsRead
  <2>3. ~JudgedMemory(NoMemory).named
    BY Judged, PlainMemories
  <2> QED BY <2>1, <2>2, <2>3 DEF Membership
<1>6. CASE AskInUse
  BY <1>6, InUseHand DEF Membership
<1>7. CASE AskCommit
  <2>1. UNCHANGED <<job, stood, limits, cpu, usage, listed>> /\ limits # None
    BY <1>7, CommitHand, NoneAssumption
  <2> QED BY <2>1 DEF Membership
<1>8. CASE AskCpuLimits
  <2>1. /\ UNCHANGED <<job, stood, memory, usage, listed>>
        /\ limits' = None \/ (job # None /\ limits' = job)
        /\ job = None => cpu' = NoCpuLimit({})
    BY <1>8, CpuLimitsHand
  <2> QED BY <2>1 DEF Membership
<1>9. CASE AskRate \/ AskSize \/ AskAffinity
  <2>1. UNCHANGED <<job, stood, limits, memory, usage, listed>> /\ limits # None
    BY <1>9, RateHand, SizeHand, AffinityHand, NoneAssumption
  <2> QED BY <2>1 DEF Membership
<1> QED BY <1>1, <1>2, <1>3, <1>4, <1>5, <1>6, <1>7, <1>8, <1>9 DEF Next, Reader

LEMMA InitMembership ==
  ASSUME Init
  PROVE  Membership
BY NoneAssumption DEF Init, Membership

(* A level describe() names, and one whose consumed time it reports, is    *)
(* listed, unless this process was put into a job while it looked.         *)
THEOREM LevelsAreListed == Spec => []DescriptionListsItsLevel
<1>1. Init => InHand /\ Membership
  BY InitHand, InitMembership
<1>2. InHand /\ Membership /\ [Next]_vars => (InHand /\ Membership)'
  BY NextHand, NextMembership
<1>3. Membership => DescriptionListsItsLevel
  BY DEF Membership, DescriptionListsItsLevel
<1> QED BY <1>1, <1>2, <1>3, PTL DEF Spec

-----------------------------------------------------------------------------
(* The CPU.                                                                *)

(* Each half of the CPU limit is held as the job has it, for as long as    *)
(* nobody changes that half: the rate alone until the machine is sized,    *)
(* and then in cores of that machine.                                      *)
CpuRead ==
  /\ "machine" \in stood => count \in {None, Cores(machine)}
  /\ {"job", "affinity"} \subseteq stood =>
       \A q \in CpuQueries : Asking(q) => limits.affinity = job.affinity
  /\ {"job", "control"} \subseteq stood /\ Asking("size") =>
       share = RateCap(job.control)
  /\ {"job", "control", "machine"} \subseteq stood /\ Asking("affinity") =>
       quota = Standing("control")

(* A step that is none of the reading of the CPU.                          *)
CpuAside ==
  /\ UNCHANGED <<job, machine, stood, share, quota, cpu>>
  /\ count' = count \/ (Ahead("cpu") /\ count' \in {Cores(machine), None})
  /\ \/ UNCHANGED <<call, at, limits>>
     \/ \A q \in CpuQueries : ~Asking(q)'

LEMMA CpuCases ==
  ASSUME InHand, [Next]_vars
  PROVE  \/ Others \/ CpuAside \/ AskCpuLimits \/ AskRate \/ AskSize \/ AskAffinity
         \/ \E c \in Calls : Begin(c)
<1> USE DEF CpuAside, Openings, CpuQueries
<1>1. CASE UNCHANGED vars
  BY <1>1 DEF vars, world, history, reader, answers, report
<1>2. CASE AskSources \/ AskCeiling \/ AskCount \/ AskUsage
  <2>1. /\ UNCHANGED <<job, machine, stood, share, quota, cpu>>
        /\ \A q : Asking(q)' => q \in Openings
        /\ count' = count \/ (Ahead("cpu") /\ count' \in {Cores(machine), None})
    BY <1>2, PlainHand, Zenon
  <2>2. \A q \in CpuQueries : ~Asking(q)'
    BY <2>1
  <2> QED BY <2>1, <2>2, Zenon
<1>3. CASE AskMemoryLimits
  BY <1>3, MemoryLimitsRead, MemoryLimitsHand
<1>4. CASE AskInUse
  BY <1>4, InUseHand
<1>5. CASE AskCommit
  BY <1>5, CommitHand
<1> QED BY <1>1, <1>2, <1>3, <1>4, <1>5 DEF Next, Reader

(* What stands is unchanged where the job and the machine are.             *)
LEMMA StandingKept ==
  ASSUME job # None, {"job", "machine"} \subseteq stood', Settled,
         NEW aspect \in {"control", "affinity"} \cap stood'
  PROVE  /\ job' # None /\ machine' = machine /\ job'[aspect] = job[aspect]
         /\ Standing(aspect)' = Standing(aspect)
<1>1. job' # None /\ machine' = machine /\ job'[aspect] = job[aspect]
  BY DEF Settled
<1>2. CASE aspect = "control"
  BY <1>1, <1>2 DEF Standing
<1>3. CASE aspect = "affinity"
  BY <1>1, <1>3 DEF Standing
<1> QED BY <1>1, <1>2, <1>3

LEMMA NextCpuRead ==
  ASSUME InHand, Membership, CpuRead, [Next]_vars
  PROVE  CpuRead'
<1>1. CASE Others
  <2>1. OthersStep
    BY <1>1, OthersKept DEF InHand
  <2>2. /\ UNCHANGED <<call, at, limits, count, share, quota>> /\ stood' \subseteq stood
        /\ Settled
    BY <2>1 DEF OthersStep, reader, answers, report
  <2>3. \A q : Asking(q)' = Asking(q)
    BY <2>2 DEF Asking, Idle, Queue
  <2>4. "machine" \in stood' => count' \in {None, Cores(machine')}
    BY <2>2 DEF CpuRead, Settled
  <2>5. ASSUME "job" \in stood, NEW q \in CpuQueries, Asking(q) PROVE job # None
    BY <2>5 DEF InHand, Stance, Membership
  <2>6. ASSUME {"job", "affinity"} \subseteq stood', NEW q \in CpuQueries, Asking(q)
        PROVE  limits'.affinity = job'.affinity
    <3>1. job # None
      BY <2>2, <2>5, <2>6
    <3>2. job'["affinity"] = job["affinity"]
      BY <2>2, <2>6, <3>1 DEF Settled
    <3> QED BY <2>2, <2>6, <3>2 DEF CpuRead
  <2>7. ASSUME {"job", "control"} \subseteq stood', Asking("size")
        PROVE  share' = RateCap(job'.control)
    <3>1. job # None
      BY <2>2, <2>5, <2>7 DEF CpuQueries
    <3>2. job'["control"] = job["control"]
      BY <2>2, <2>7, <3>1 DEF Settled
    <3> QED BY <2>2, <2>7, <3>2 DEF CpuRead
  <2>8. ASSUME {"job", "control", "machine"} \subseteq stood', Asking("affinity")
        PROVE  quota' = Standing("control")'
    <3>1. job # None
      BY <2>2, <2>5, <2>8 DEF CpuQueries
    <3>2. Standing("control")' = Standing("control")
      BY <2>2, <2>8, <3>1, StandingKept
    <3> QED BY <2>2, <2>8, <3>2 DEF CpuRead
  <2> QED BY <2>3, <2>4, <2>6, <2>7, <2>8 DEF CpuRead
<1>2. CASE \E c \in Calls : Begin(c)
  <2>1. count' = None /\ limits' = None
    BY <1>2 DEF Begin
  <2>2. \A q \in CpuQueries : ~Asking(q)'
    BY <1>2, <2>1, BeginHand DEF InHand, Stance
  <2> QED BY <2>1, <2>2 DEF CpuRead, CpuQueries
<1>3. CASE CpuAside
  <2>1. /\ UNCHANGED <<job, machine, stood, share, quota, cpu>>
        /\ "machine" \in stood => count' \in {None, Cores(machine)}
    BY <1>3 DEF CpuAside, CpuRead
  <2>2. CASE UNCHANGED <<call, at, limits>>
    <3>1. \A q : Asking(q)' = Asking(q)
      BY <2>2 DEF Asking, Idle, Queue
    <3>2. Standing("control")' = Standing("control")
      BY <2>1 DEF Standing
    <3> QED BY <2>1, <2>2, <3>1, <3>2 DEF CpuRead
  <2>3. CASE \A q \in CpuQueries : ~Asking(q)'
    BY <2>1, <2>3 DEF CpuRead, CpuQueries
  <2> QED BY <1>3, <2>2, <2>3 DEF CpuAside
<1>4. CASE AskCpuLimits
  <2>1. /\ UNCHANGED <<job, machine, stood, count>>
        /\ \/ limits' = job /\ \A q : Asking(q)' => q = "rate"
           \/ \A q : Asking(q)' => q \in Openings
    BY <1>4, CpuLimitsHand
  <2> QED BY <2>1 DEF CpuRead, CpuQueries, Openings
<1>5. CASE AskRate
  <2>1. /\ UNCHANGED <<job, machine, stood, count, limits>> /\ Asking("rate")
        /\ \/ share' = RateCap(job.control) /\ \A q : Asking(q)' => q = "size"
           \/ \A q : Asking(q)' => q \in Openings
    BY <1>5, RateHand
  <2> QED BY <2>1 DEF CpuRead, CpuQueries, Openings
<1>6. CASE AskSize
  <2>1. PICK cores \in MachineCpuCount :
          /\ quota' = IF share = None \/ cores = None THEN None ELSE share * cores
          /\ \/ \A q : Asking(q)' => q \in Openings
             \/ (share = None \/ cores # None) /\ \A q : Asking(q)' => q = "affinity"
    BY <1>6, SizeHand
  <2>2. UNCHANGED <<job, machine, stood, count, limits, share>> /\ Asking("size")
    BY <1>6, SizeHand
  <2>3. Standing("control")' = Standing("control")
    BY <2>2 DEF Standing
  <2>4. ASSUME {"job", "control", "machine"} \subseteq stood, share = None \/ cores # None
        PROVE  quota' = Standing("control")
    <3>1. share = RateCap(job.control)
      BY <2>2, <2>4 DEF CpuRead
    <3>2. cores # None => cores = Cores(machine)
      BY <2>1, MachineCounted
    <3> QED BY <2>1, <2>4, <3>1, <3>2 DEF Standing
  <2>5. Asking("affinity")' /\ {"job", "control", "machine"} \subseteq stood
          => quota' = Standing("control")
    BY <2>1, <2>4 DEF Openings
  <2>6. ~Asking("size")' /\ \A q \in CpuQueries : Asking(q)' => q = "affinity"
    BY <2>1 DEF Openings, CpuQueries
  <2> QED BY <2>2, <2>3, <2>5, <2>6 DEF CpuRead, CpuQueries
<1>7. CASE AskAffinity
  <2>1. /\ UNCHANGED <<job, machine, stood, count>>
        /\ \A q : Asking(q)' => q \in Openings
    BY <1>7, AffinityHand
  <2> QED BY <2>1 DEF CpuRead, CpuQueries, Openings
<1> QED BY <1>1, <1>2, <1>3, <1>4, <1>5, <1>6, <1>7, CpuCases


LEMMA StandingTyped ==
  ASSUME TypeOK, job # None, NEW aspect \in {"control", "affinity"}
  PROVE  Standing(aspect) \in Nat \cup {None} /\ Cores(machine) \in Nat
<1>1. job \in Jobs /\ machine \in Seq(Nat)
  BY DEF TypeOK
<1>2. /\ RateCap(job.control) \in 1..Scale \cup {None}
      /\ job.affinity \in Seq(Nat) \cup {None} /\ Scale \in Nat
  BY <1>1, JobFields, ConstantsAssumption
<1>3. Cores(machine) \in Nat /\ (job.affinity # None => Cores(job.affinity) \in Nat)
  BY <1>1, <1>2, CoresCounted
<1> HIDE DEF Cores
<1>4. CASE aspect = "control"
  <2>1. RateCap(job.control) # None => RateCap(job.control) * Cores(machine) \in Nat
    BY <1>2, <1>3
  <2> QED BY <1>3, <1>4, <2>1 DEF Standing
<1>5. CASE aspect = "affinity"
  <2>1. job.affinity # None => Scale * Cores(job.affinity) \in Nat
    BY <1>2, <1>3
  <2> QED BY <1>3, <1>5, <2>1 DEF Standing
<1> QED BY <1>4, <1>5

(* What the two halves come to, and what is reported of them.              *)
LEMMA SizeJudged ==
  ASSUME InHand, Membership, CpuRead, AskSize, {"job", "machine"} \subseteq stood, job # None
  PROVE  /\ UNCHANGED <<job, machine, stood, count, own, others, charged, limits, memory>>
         /\ \/ cpu' = NoCpuLimit({"MACHINE_UNKNOWN"})
            \/ cpu' = cpu
            \/ \E r, s \in Nat \cup {None} :
                 /\ cpu' = JudgedCpu(r, s)
                 /\ "control" \in stood => r = Standing("control")
                 /\ "affinity" \in stood => s = Standing("affinity")
<1>1. /\ UNCHANGED <<job, machine, stood, count, own, others, charged, limits, memory>>
      /\ Asking("size") /\ quota' \in Nat \cup {None}
  BY SizeHand DEF InHand, TypeOK
<1>2. PICK cores \in MachineCpuCount :
        /\ quota' = IF share = None \/ cores = None THEN None ELSE share * cores
        /\ \/ cpu' = NoCpuLimit({"MACHINE_UNKNOWN"})
           \/ /\ (share = None \/ cores # None) /\ limits.affinity = None
              /\ cpu' = JudgedCpu(quota', None)
           \/ cpu' = cpu
  BY SizeHand
<1>3. ASSUME share = None \/ cores # None, limits.affinity = None, cpu' = JudgedCpu(quota', None)
      PROVE  \E r, s \in Nat \cup {None} :
               /\ cpu' = JudgedCpu(r, s)
               /\ "control" \in stood => r = Standing("control")
               /\ "affinity" \in stood => s = Standing("affinity")
  <2>1. ASSUME "control" \in stood PROVE quota' = Standing("control")
    <3>1. share = RateCap(job.control)
      BY <1>1, <2>1 DEF CpuRead
    <3>2. cores # None => cores = Cores(machine)
      BY MachineCounted
    <3> QED BY <1>2, <1>3, <3>1, <3>2 DEF Standing
  <2>2. ASSUME "affinity" \in stood PROVE None = Standing("affinity")
    <3>1. job.affinity = None
      BY <1>1, <1>3, <2>2 DEF CpuRead, CpuQueries
    <3> QED BY <3>1 DEF Standing
  <2>3. quota' \in Nat \cup {None} /\ None \in Nat \cup {None}
    BY <1>1
  <2> QED BY <1>3, <2>1, <2>2, <2>3
<1> QED BY <1>1, <1>2, <1>3

LEMMA AffinityJudged ==
  ASSUME InHand, Membership, CpuRead, AskAffinity, {"job", "machine"} \subseteq stood
  PROVE  /\ UNCHANGED <<job, machine, stood, count, own, others, charged, limits, memory>>
         /\ \/ cpu' = NoCpuLimit({"LIMIT_UNREADABLE"})
            \/ \E r, s \in Nat \cup {None} :
                 /\ cpu' = JudgedCpu(r, s)
                 /\ "control" \in stood => r = Standing("control")
                 /\ job.affinity # None => s = Standing("affinity")
<1>1. /\ UNCHANGED <<job, machine, stood, count, own, others, charged, limits, memory>>
      /\ Asking("affinity")
      /\ \/ /\ job \in Jobs /\ AffinityCores \in Nat
            /\ cpu' = JudgedCpu(quota, Scale * AffinityCores)
         \/ cpu' = NoCpuLimit({"LIMIT_UNREADABLE"})
  BY AffinityHand
<1>2. ASSUME job \in Jobs, AffinityCores \in Nat, cpu' = JudgedCpu(quota, Scale * AffinityCores)
      PROVE  \E r, s \in Nat \cup {None} :
               /\ cpu' = JudgedCpu(r, s)
               /\ "control" \in stood => r = Standing("control")
               /\ job.affinity # None => s = Standing("affinity")
  <2>1. "control" \in stood => quota = Standing("control")
    BY <1>1 DEF CpuRead
  <2>2. AffinityCores = Cores(GroupMasks)
    <3>1. AffinityCores # None
      BY <1>2, NoneAssumption
    <3> HIDE DEF Cores
    <3> QED BY <3>1 DEF AffinityCores
  <2>3. job.affinity # None => Scale * AffinityCores = Standing("affinity")
    <3> HIDE DEF Cores
    <3> QED BY <2>2 DEF GroupMasks, Standing
  <2>4. quota \in Nat \cup {None} /\ Scale * AffinityCores \in Nat \cup {None}
    BY <1>2, ConstantsAssumption DEF InHand, TypeOK
  <2> QED BY <1>2, <2>1, <2>3, <2>4
<1> QED BY <1>1, <1>2


LEMMA UndecidedReports ==
  /\ NoCpuLimit({"LIMIT_UNREADABLE"}).notices = {"LIMIT_UNREADABLE"}
  /\ NoCpuLimit({"MACHINE_UNKNOWN"}).notices = {"MACHINE_UNKNOWN"}
  /\ NoCpuLimit({}).notices = {} /\ NoCpuLimit({}).effective = None
BY DEF NoCpuLimit

LEMMA JudgedNeverLooser ==
  ASSUME count \in {None, Cores(machine)}, Cores(machine) \in Nat,
         NEW r \in Nat \cup {None}, NEW s \in Nat \cup {None},
         NEW c \in {r, s}, c # None, c < Scale * Cores(machine)
  PROVE  JudgedCpu(r, s).effective # None /\ JudgedCpu(r, s).effective <= c
<1>1. count \in Nat \cup {None}
  OBVIOUS
<1>2. c \in Nat /\ Scale \in Nat /\ Scale * Cores(machine) \in Nat
  BY ConstantsAssumption
<1>3. ~Covers(c)
  <2> HIDE DEF Cores
  <2> QED BY <1>2 DEF Covers
<1> QED BY <1>1, <1>3, CpuJudged

LEMMA NextNeverLooser ==
  ASSUME InHand, Membership, CpuRead, NeverLooserThanWhatStood, [Next]_vars
  PROVE  NeverLooserThanWhatStood'
<1> SUFFICES ASSUME cpu' # None, job' # None, {"job", "machine"} \subseteq stood', ~Undecided',
                    NEW aspect \in {"control", "affinity"} \cap stood',
                    Standing(aspect)' # None,
                    Standing(aspect)' < Scale * Cores(machine')
             PROVE  cpu'.effective # None /\ cpu'.effective <= Standing(aspect)'
  <2> HIDE DEF Standing, Cores, Undecided
  <2> QED BY DEF NeverLooserThanWhatStood
<1>1. CASE Others
  <2>1. OthersStep
    BY <1>1, OthersKept DEF InHand
  <2>2. cpu' = cpu /\ stood' \subseteq stood /\ Settled /\ Undecided' = Undecided
    BY <2>1 DEF OthersStep, reader, report, Undecided
  <2>3. job # None
    BY <2>2 DEF Settled
  <2>4. machine' = machine /\ Standing(aspect)' = Standing(aspect)
    BY <2>2, <2>3, StandingKept
  <2> HIDE DEF Standing, Cores, Undecided
  <2> QED BY <2>2, <2>3, <2>4 DEF NeverLooserThanWhatStood
<1>2. CASE \E c \in Calls : Begin(c)
  BY <1>2 DEF Begin
<1> SUFFICES ASSUME UNCHANGED <<job, machine, stood>>, cpu' # cpu
             PROVE  cpu'.effective # None /\ cpu'.effective <= Standing(aspect)'
  <2>1. CASE UNCHANGED <<job, machine, stood>> /\ cpu' = cpu
    <3>1. Standing(aspect)' = Standing(aspect) /\ Undecided' = Undecided
      BY <2>1 DEF Standing, Undecided
    <3> HIDE DEF Standing, Cores, Undecided
    <3> QED BY <2>1, <3>1 DEF NeverLooserThanWhatStood
  <2>2. UNCHANGED <<job, machine, stood>> \/ Others \/ \E c \in Calls : Begin(c)
    BY CpuCases, CpuLimitsHand, RateHand, SizeHand, AffinityHand DEF CpuAside
  <2> QED BY <1>1, <1>2, <2>1, <2>2
<1>3. /\ Standing(aspect)' = Standing(aspect) /\ machine' = machine /\ job # None
      /\ "machine" \in stood /\ "job" \in stood /\ aspect \in stood
      /\ count \in {None, Cores(machine)} /\ Cores(machine) \in Nat
  <2>1. Standing(aspect)' = Standing(aspect)
    BY DEF Standing
  <2>2. job # None /\ "machine" \in stood /\ "job" \in stood /\ aspect \in stood
    OBVIOUS
  <2>3. Cores(machine) \in Nat
    BY <2>2, StandingTyped DEF InHand
  <2> HIDE DEF Cores
  <2> QED BY <2>1, <2>2, <2>3 DEF CpuRead
<1>4. /\ Standing(aspect) # None /\ Standing(aspect) < Scale * Cores(machine)
      /\ Standing(aspect)' = Standing(aspect)
  BY <1>3
<1>5. cpu' # NoCpuLimit({"LIMIT_UNREADABLE"}) /\ cpu' # NoCpuLimit({"MACHINE_UNKNOWN"})
  BY UndecidedReports DEF Undecided
<1>6. ASSUME NEW r \in Nat \cup {None}, NEW s \in Nat \cup {None}, cpu' = JudgedCpu(r, s),
             Standing(aspect) \in {r, s}
      PROVE  cpu'.effective # None /\ cpu'.effective <= Standing(aspect)'
  <2> HIDE DEF Standing, Cores
  <2> QED BY <1>3, <1>4, <1>6, JudgedNeverLooser
<1>7. CASE AskCpuLimits
  BY <1>3, <1>5, <1>7, CpuLimitsHand
<1>8. CASE AskRate
  BY <1>5, <1>8, RateHand
<1>9. CASE AskSize
  <2>1. PICK r \in Nat \cup {None}, s \in Nat \cup {None} :
          /\ cpu' = JudgedCpu(r, s)
          /\ "control" \in stood => r = Standing("control")
          /\ "affinity" \in stood => s = Standing("affinity")
    BY <1>3, <1>5, <1>9, SizeJudged
  <2>2. Standing(aspect) \in {r, s}
    BY <1>3, <2>1
  <2> QED BY <1>6, <2>1, <2>2
<1>10. CASE AskAffinity
  <2>1. PICK r \in Nat \cup {None}, s \in Nat \cup {None} :
          /\ cpu' = JudgedCpu(r, s)
          /\ "control" \in stood => r = Standing("control")
          /\ job.affinity # None => s = Standing("affinity")
    BY <1>3, <1>5, <1>10, AffinityJudged
  <2>2. aspect = "affinity" => job.affinity # None
    BY <1>4 DEF Standing
  <2>3. Standing(aspect) \in {r, s}
    BY <1>3, <2>1, <2>2
  <2> QED BY <1>6, <2>1, <2>3
<1>11. CASE CpuAside
  BY <1>11 DEF CpuAside
<1> QED BY <1>1, <1>2, <1>7, <1>8, <1>9, <1>10, <1>11, CpuCases

(* A cap or an affinity that stood for as long as the call took, on a      *)
(* machine that kept its cores, is never exceeded by what is reported,     *)
(* however the other one was changed between the queries.                  *)
THEOREM NeverLooser == Spec => []NeverLooserThanWhatStood
<1> DEFINE IInv == InHand /\ Membership /\ CpuRead /\ NeverLooserThanWhatStood
<1>1. Init => IInv
  <2> SUFFICES ASSUME Init PROVE IInv
    OBVIOUS
  <2>1. InHand /\ Membership
    BY InitHand, InitMembership
  <2>2. count = None /\ limits = None /\ cpu = None
    BY DEF Init
  <2>3. CpuRead
    BY <2>1, <2>2 DEF CpuRead, CpuQueries, InHand, Stance
  <2>4. NeverLooserThanWhatStood
    BY <2>2 DEF NeverLooserThanWhatStood
  <2> QED BY <2>1, <2>3, <2>4
<1>2. IInv /\ [Next]_vars => IInv'
  BY NextHand, NextMembership, NextCpuRead, NextNeverLooser
<1>3. IInv => NeverLooserThanWhatStood
  OBVIOUS
<1> QED BY <1>1, <1>2, <1>3, PTL DEF Spec


-----------------------------------------------------------------------------
(* A call that nobody disturbs.                                            *)

(* What is reported of the CPU when the two halves come to r and s.        *)
Weighed(r, s) ==
  /\ cpu.effective = None => \A c \in {r, s} : c # None => Covers(c)
  /\ cpu.effective # None =>
       /\ cpu.effective \in {r, s} /\ cpu.effective \in Nat /\ ~Covers(cpu.effective)
       /\ \A c \in {r, s} : c # None /\ ~Covers(c) => cpu.effective <= c
  /\ cpu = NoCpuLimit({}) => r = None /\ s = None

(* Where nothing has changed since the call began, what is held is what    *)
(* is there, and what is reported follows from it.                         *)
HeldAsItIs ==
  /\ limits # None => limits = job
  /\ Asking("commit") => charged \in {own + others, None}
  /\ Asking("affinity") => limits.affinity # None

MemoryAsItIs ==
  /\ Budget # None =>
       /\ job # None /\ PairsWithUsage(job)
       /\ Budget.available = Max0(job.all - own - others)
  /\ memory # None /\ Budget = None /\ memory.notice = None /\ job # None =>
       job.all = None /\ job.each = None

CpuAsItIs ==
  cpu # None /\ job # None => Undecided \/ Weighed(Standing("control"), Standing("affinity"))

Still == stood = Aspects => HeldAsItIs /\ MemoryAsItIs /\ CpuAsItIs

LEMMA NextHeld ==
  ASSUME InHand, HeldAsItIs, [Next]_vars, ~Others, \A c \in Calls : ~Begin(c)
  PROVE  HeldAsItIs'
<1>1. CASE MemoryAside /\ CpuAside
  <2>1. UNCHANGED <<job, own, others, charged>> /\ limits' \in {limits, job, None}
    BY <1>1 DEF MemoryAside
  <2>2. ASSUME UNCHANGED <<call, at, limits>> PROVE HeldAsItIs'
    <3>1. \A q : Asking(q)' = Asking(q)
      BY <2>2 DEF Asking, Idle, Queue
    <3> QED BY <2>1, <2>2, <3>1 DEF HeldAsItIs
  <2>3. ASSUME ~Asking("commit")', ~Asking("affinity")' PROVE HeldAsItIs'
    BY <2>1, <2>3 DEF HeldAsItIs
  <2> QED BY <1>1, <2>2, <2>3 DEF MemoryAside, CpuAside, CpuQueries
<1>2. CASE AskMemoryLimits
  <2>1. job' = job /\ limits' \in {job, None}
        /\ \A q : Asking(q)' => q = "in_use" \/ q \in Openings
    BY <1>2, MemoryLimitsRead, MemoryLimitsHand
  <2> QED BY <2>1 DEF HeldAsItIs, Openings
<1>3. CASE AskInUse
  BY <1>3, InUseHand DEF HeldAsItIs
<1>4. CASE AskCommit
  BY <1>4, CommitHand DEF HeldAsItIs, Openings
<1>5. CASE AskCpuLimits
  <2>1. job' = job /\ limits' \in {job, None}
        /\ \A q : Asking(q)' => q = "rate" \/ q \in Openings
    BY <1>5, CpuLimitsHand
  <2> QED BY <2>1 DEF HeldAsItIs, Openings
<1>6. CASE AskRate
  <2>1. job' = job /\ limits' = limits
        /\ \A q : Asking(q)' => q = "size" \/ q \in Openings
    BY <1>6, RateHand
  <2> QED BY <2>1 DEF HeldAsItIs, Openings
<1>7. CASE AskSize
  <2>1. job' = job /\ limits' = limits
    BY <1>7, SizeHand
  <2>2. \/ limits.affinity # None /\ \A q : Asking(q)' => q = "affinity"
        \/ \A q : Asking(q)' => q \in Openings
    BY <1>7, SizeHand
  <2> QED BY <2>1, <2>2 DEF HeldAsItIs, Openings
<1>8. CASE AskAffinity
  BY <1>8, AffinityHand DEF HeldAsItIs, Openings
<1>9. \/ MemoryAside /\ CpuAside
      \/ AskMemoryLimits \/ AskInUse \/ AskCommit
      \/ AskCpuLimits \/ AskRate \/ AskSize \/ AskAffinity
  <2>1. UNCHANGED vars => MemoryAside /\ CpuAside
    BY DEF MemoryAside, CpuAside, vars, world, history, reader, answers, report
  <2>2. AskSources \/ AskCeiling \/ AskCount \/ AskUsage => MemoryAside /\ CpuAside
    <3> SUFFICES ASSUME AskSources \/ AskCeiling \/ AskCount \/ AskUsage
                 PROVE  MemoryAside /\ CpuAside
      OBVIOUS
    <3>1. /\ UNCHANGED <<job, own, others, machine, before, gained, stood>>
          /\ UNCHANGED <<limits, charged, share, quota, memory, cpu>>
          /\ \A q : Asking(q)' => q \in Openings
          /\ count' = count \/ (Ahead("cpu") /\ count' \in {Cores(machine), None})
      BY PlainHand, Zenon
    <3>2. ~Asking("in_use")' /\ ~Asking("commit")' /\ \A q \in CpuQueries : ~Asking(q)'
      BY <3>1 DEF Openings, CpuQueries
    <3>3. MemoryAside
      BY <3>1, <3>2 DEF MemoryAside
    <3>4. CpuAside
      BY <3>1, <3>2, Zenon DEF CpuAside
    <3> QED BY <3>3, <3>4
  <2> QED BY <2>1, <2>2 DEF Next, Reader
<1> QED BY <1>1, <1>2, <1>3, <1>4, <1>5, <1>6, <1>7, <1>8, <1>9

LEMMA NextMemoryAsItIs ==
  ASSUME InHand, HeldAsItIs, MemoryAsItIs, [Next]_vars, ~Others, \A c \in Calls : ~Begin(c)
  PROVE  MemoryAsItIs'
<1>1. CASE UNCHANGED <<job, own, others, memory>>
  BY <1>1 DEF MemoryAsItIs, Budget
<1>2. CASE AskMemoryLimits
  <2>1. UNCHANGED <<job, own, others>> /\ limits' \in {job, None}
    BY <1>2, MemoryLimitsRead
  <2>2. \/ memory' = memory
        \/ \E raw \in RawMemories :
             /\ memory' = JudgedMemory(raw) /\ raw.used = None
             /\ limits' = None => raw.limit = None /\ (raw.unreadable \/ job = None)
             /\ limits' # None => raw.limit = Tighter(job)
    BY <1>2, MemoryLimitsRead
  <2>3. ASSUME NEW raw \in RawMemories, memory' = JudgedMemory(raw), raw.used = None,
               limits' = None => raw.limit = None /\ (raw.unreadable \/ job = None),
               limits' # None => raw.limit = Tighter(job)
        PROVE  MemoryAsItIs'
    <3>1. memory'.budget = None
      BY <2>3, Judged, NoneAssumption
    <3>2. ASSUME memory'.notice = None, job # None PROVE job.all = None /\ job.each = None
      <4>1. raw.limit = None /\ ~raw.unreadable
        BY <2>3, <3>1, <3>2, Judged, RejectionGiven
      <4>2. Tighter(job) = None
        BY <2>3, <3>2, <4>1
      <4> QED BY <4>2 DEF Tighter
    <3> QED BY <2>1, <3>1, <3>2 DEF MemoryAsItIs, Budget
  <2> QED BY <1>1, <2>1, <2>2, <2>3
<1>3. CASE AskCommit
  <2>1. /\ Asking("commit") /\ limits \in Jobs /\ PairsWithUsage(limits)
        /\ UNCHANGED <<job, own, others>>
    BY <1>3, CommitHand
  <2>2. PICK available \in {AvailableCommit, None} :
          available \in Nat \cup {None} /\ memory' = JudgedMemory(Paired(charged, available))
    BY <1>3, CommitHand
  <2>3. limits = job /\ job # None /\ job.all # None /\ job \in Jobs
    BY <2>1, JobFields DEF HeldAsItIs, PairsWithUsage
  <2>4. /\ charged \in {own + others, None} /\ charged \in Nat \cup {None}
        /\ own \in Nat /\ others \in Nat /\ job.all \in Nat
    BY <2>1, <2>3, JobFields DEF HeldAsItIs, InHand, TypeOK
  <2>5. available \in {Max0(job.all - (own + others)), None}
    <3>1. job.all - own - others = job.all - (own + others)
      BY <2>4
    <3> QED BY <2>2, <2>3, <3>1 DEF AvailableCommit
  <2> DEFINE raw == Paired(charged, available)
  <2>6. raw \in RawMemories /\ raw.limit # None
    BY <2>1, <2>2, <2>3, <2>4, PairedFields
  <2>7. memory' = JudgedMemory(raw) /\ memory' # None
    BY <2>2, <2>6, Judged, NoneAssumption
  <2>8. memory'.budget = None => memory'.notice # None
    BY <2>6, <2>7, Judged
  <2>9. ASSUME memory'.budget # None
        PROVE  memory'.budget.available = Max0(job.all - own - others)
    <3>1. own + others \in Nat
      BY <2>4
    <3>2. memory'.budget.available = Max0(job.all - (own + others))
      BY <2>1, <2>2, <2>3, <2>4, <2>5, <2>9, <3>1, PairedRoom
    <3>3. job.all - own - others = job.all - (own + others)
      BY <2>4
    <3> QED BY <3>2, <3>3
  <2> HIDE DEF raw
  <2> QED BY <2>1, <2>3, <2>7, <2>8, <2>9 DEF MemoryAsItIs, Budget
<1>4. UNCHANGED <<job, own, others, memory>> \/ AskMemoryLimits \/ AskCommit
  BY MemoryCases, InUseHand DEF MemoryAside
<1> QED BY <1>1, <1>2, <1>3, <1>4


LEMMA JudgedWeighs ==
  ASSUME count \in Nat \cup {None}, count' = count,
         NEW r \in Nat \cup {None}, NEW s \in Nat \cup {None}, cpu' = JudgedCpu(r, s)
  PROVE  Weighed(r, s)'
<1>1. \A c : Covers(c)' = Covers(c)
  BY DEF Covers
<1> QED BY <1>1, CpuJudged DEF Weighed

LEMMA NextCpuAsItIs ==
  ASSUME InHand, Membership, CpuRead, HeldAsItIs, CpuAsItIs, stood = Aspects,
         [Next]_vars, ~Others, \A c \in Calls : ~Begin(c)
  PROVE  CpuAsItIs'
<1> SUFFICES ASSUME cpu' # None, job' # None
             PROVE  Undecided' \/ Weighed(Standing("control"), Standing("affinity"))'
  BY DEF CpuAsItIs
<1>1. UNCHANGED <<job, machine, stood>>
  BY CpuCases, CpuLimitsHand, RateHand, SizeHand, AffinityHand DEF CpuAside
<1>2. /\ Standing("control")' = Standing("control") /\ Standing("affinity")' = Standing("affinity")
      /\ job # None /\ {"job", "machine", "control", "affinity"} \subseteq stood
      /\ count \in Nat \cup {None}
  BY <1>1 DEF Standing, Aspects, InHand, TypeOK
<1>3. CASE cpu' = cpu /\ count' = count
  <2>1. Undecided' = Undecided /\ \A c : Covers(c)' = Covers(c)
    BY <1>3 DEF Undecided, Covers
  <2>2. Undecided \/ Weighed(Standing("control"), Standing("affinity"))
    BY <1>1, <1>3 DEF CpuAsItIs
  <2>3. Weighed(Standing("control"), Standing("affinity")) =>
          Weighed(Standing("control"), Standing("affinity"))'
    <3> HIDE DEF Standing, Covers
    <3> QED BY <1>2, <1>3, <2>1 DEF Weighed
  <2> QED BY <2>1, <2>2, <2>3
<1>4. CASE cpu' \in {NoCpuLimit({"LIMIT_UNREADABLE"}), NoCpuLimit({"MACHINE_UNKNOWN"})}
  BY <1>4, UndecidedReports DEF Undecided
<1>5. ASSUME cpu' = JudgedCpu(Standing("control"), Standing("affinity")), count' = count
      PROVE  Weighed(Standing("control"), Standing("affinity"))'
  <2>1. Standing("control") \in Nat \cup {None} /\ Standing("affinity") \in Nat \cup {None}
    BY <1>2, StandingTyped DEF InHand
  <2>2. PICK r \in Nat \cup {None}, s \in Nat \cup {None} :
          r = Standing("control") /\ s = Standing("affinity")
    BY <2>1
  <2>3. cpu' = JudgedCpu(r, s)
    BY <1>5, <2>2
  <2>4. Weighed(r, s)'
    BY <1>2, <1>5, <2>3, JudgedWeighs
  <2>5. r = Standing("control")' /\ s = Standing("affinity")'
    BY <1>2, <2>2
  <2> HIDE DEF Standing
  <2> QED BY <2>4, <2>5 DEF Weighed
<1>6. CASE CpuAside
  <2>1. cpu' = cpu /\ (count' = count \/ Ahead("cpu"))
    BY <1>6, Zenon DEF CpuAside
  <2>2. ~Ahead("cpu")
    BY <2>1 DEF InHand, Stance
  <2> QED BY <1>3, <2>1, <2>2
<1>7. CASE AskCpuLimits
  BY <1>2, <1>3, <1>4, <1>7, CpuLimitsHand
<1>8. CASE AskRate
  BY <1>3, <1>4, <1>8, RateHand
<1>9. CASE AskSize
  BY <1>2, <1>3, <1>4, <1>5, <1>9, SizeJudged
<1>10. CASE AskAffinity
  <2>1. job.affinity # None
    BY <1>2, <1>10, AffinityHand, NoneAssumption DEF HeldAsItIs
  <2> QED BY <1>2, <1>4, <1>5, <1>10, <2>1, AffinityJudged
<1> QED BY <1>6, <1>7, <1>8, <1>9, <1>10, CpuCases

LEMMA NextStill ==
  ASSUME InHand, Membership, CpuRead, Still, [Next]_vars
  PROVE  Still'
<1>1. CASE Others
  BY <1>1, OthersKept DEF OthersStep, InHand, Still
<1>2. CASE \E c \in Calls : Begin(c)
  <2>1. limits' = None /\ memory' = None /\ cpu' = None
    BY <1>2 DEF Begin
  <2>2. ~Asking("commit")' /\ ~Asking("affinity")'
    BY <1>2, <2>1, BeginHand DEF InHand, Stance, CpuQueries
  <2> QED BY <2>1, <2>2 DEF Still, HeldAsItIs, MemoryAsItIs, CpuAsItIs, Budget
<1>3. CASE ~Others /\ \A c \in Calls : ~Begin(c)
  <2>1. stood' = stood
    BY <1>3, CpuCases, CpuLimitsHand, RateHand, SizeHand, AffinityHand DEF CpuAside
  <2> QED BY <1>3, <2>1, NextHeld, NextMemoryAsItIs, NextCpuAsItIs DEF Still
<1> QED BY <1>1, <1>2, <1>3

IInv == InHand /\ Membership /\ CpuRead /\ Still

LEMMA Inductive ==
  /\ Init => IInv
  /\ IInv /\ [Next]_vars => IInv'
<1>1. ASSUME Init PROVE IInv
  <2>1. InHand /\ Membership
    BY <1>1, InitHand, InitMembership
  <2>2. count = None /\ limits = None /\ cpu = None /\ memory = None
    BY <1>1 DEF Init
  <2>3. ~Asking("commit") /\ \A q \in CpuQueries : ~Asking(q)
    BY <2>1, <2>2 DEF InHand, Stance
  <2>4. CpuRead
    BY <2>2, <2>3 DEF CpuRead, CpuQueries
  <2>5. Still
    BY <2>2, <2>3 DEF Still, HeldAsItIs, MemoryAsItIs, CpuAsItIs, Budget, CpuQueries
  <2> QED BY <2>1, <2>4, <2>5 DEF IInv
<1>2. ASSUME IInv, [Next]_vars PROVE IInv'
  BY <1>2, NextHand, NextMembership, NextCpuRead, NextStill DEF IInv
<1> QED BY <1>1, <1>2

(* A budget is exactly what the immediate job would still let the process  *)
(* commit, and a CPU limit exactly what it leaves of the machine.  A job   *)
(* around it can only leave less.                                          *)
ExactCpu ==
  LET all == Scale * Cores(machine)
      allowed == IF cpu.effective = None THEN all ELSE cpu.effective
  IN /\ cpu.effective # None => cpu.effective < all
     /\ Usable \subseteq 0..allowed
     /\ outer = None => Usable = 0..allowed

LEMMA StillIsExact ==
  ASSUME IInv
  PROVE  QuietReadingIsExact
<1> SUFFICES ASSUME stood = Aspects
             PROVE  /\ Budget # None =>
                         \A n \in 1..CommitLimit :
                           /\ n \in Grantable => n <= Budget.available
                           /\ outer = None /\ n <= Budget.available => n \in Grantable
                    /\ cpu # None /\ count # None /\ ~Undecided => ExactCpu
  BY DEF QuietReadingIsExact, ExactCpu
<1>1. TypeOK /\ Membership /\ CpuRead /\ MemoryAsItIs /\ CpuAsItIs
  BY DEF IInv, InHand, Still
<1>2. ASSUME Budget # None, NEW n \in 1..CommitLimit
      PROVE  /\ n \in Grantable => n <= Budget.available
             /\ outer = None /\ n <= Budget.available => n \in Grantable
  <2>1. /\ job \in Jobs /\ job.all \in Nat /\ own \in Nat /\ others \in Nat
        /\ job.each = None \/ (job.each \in Nat /\ job.each >= job.all)
        /\ Budget.available = Max0(job.all - own - others)
    BY <1>1, <1>2, JobFields DEF MemoryAsItIs, PairsWithUsage, TypeOK
  <2>2. n \in Nat /\ n >= 1 /\ n \in 0..CommitLimit
    BY <1>2, ConstantsAssumption
  <2>3. n <= Max0(job.all - own - others) <=> own + others + n <= job.all
    BY <2>1, <2>2 DEF Max0
  <2>4. own + others + n <= job.all => (job.each # None => own + n <= job.each)
    BY <2>1, <2>2
  <2>5. job.all # None /\ job # None
    BY <2>1, JobFields, NoneAssumption
  <2>6. outer = None => OuterAllows(n)
    BY DEF OuterAllows
  <2>7. /\ n \in Grantable => own + others + n <= job.all
        /\ own + others + n <= job.all /\ OuterAllows(n) => n \in Grantable
    BY <2>2, <2>4, <2>5 DEF Grantable
  <2> QED BY <2>1, <2>3, <2>6, <2>7
<1>3. ASSUME cpu # None, count # None, ~Undecided
      PROVE  ExactCpu
  <2> DEFINE size == Scale * Cores(machine)
             control == Standing("control")
             affinity == Standing("affinity")
  <2>1. count = Cores(machine) /\ count \in Nat /\ Scale \in Nat /\ size = Scale * count
    BY <1>1, <1>3, ConstantsAssumption DEF CpuRead, Aspects, TypeOK
  <2>2. size \in Nat /\ \A c : Covers(c) <=> c >= size
    BY <1>3, <2>1 DEF Covers
  <2> DEFINE Left(n) == job # None => /\ control # None => n <= control
                                      /\ affinity # None => n <= affinity
             allowed == IF cpu.effective = None THEN size ELSE cpu.effective
  <2>3. Usable = {n \in 0..size : Left(n) /\ OuterLeaves(n)}
    BY DEF Usable
  <2>4. /\ cpu.effective # None => cpu.effective < size
        /\ allowed \in Nat /\ allowed <= size
        /\ \A n \in 0..size : Left(n) <=> n <= allowed
    <3>1. CASE job = None
      <4>1. cpu.effective = None
        BY <1>1, <1>3, <3>1, UndecidedReports DEF Membership, Aspects
      <4> HIDE DEF size
      <4> QED BY <2>2, <3>1, <4>1
    <3>2. CASE job # None
      <4>1. control \in Nat \cup {None} /\ affinity \in Nat \cup {None}
        BY <1>1, <3>2, StandingTyped
      <4>2. /\ cpu.effective = None =>
                 (control # None => control >= size) /\ (affinity # None => affinity >= size)
            /\ cpu.effective # None =>
                 /\ cpu.effective \in {control, affinity} /\ cpu.effective \in Nat
                 /\ ~(cpu.effective >= size)
                 /\ control # None /\ ~(control >= size) => cpu.effective <= control
                 /\ affinity # None /\ ~(affinity >= size) => cpu.effective <= affinity
        BY <1>1, <1>3, <2>2, <3>2 DEF CpuAsItIs, Weighed
      <4> HIDE DEF size, control, affinity
      <4>3. CASE cpu.effective = None
        BY <2>2, <3>2, <4>1, <4>2, <4>3
      <4>4. CASE cpu.effective # None
        BY <2>2, <3>2, <4>1, <4>2, <4>4
      <4> QED BY <4>3, <4>4
    <3> QED BY <3>1, <3>2
  <2>5. outer = None => \A n \in 0..size : OuterLeaves(n)
    BY DEF OuterLeaves
  <2>6. /\ cpu.effective # None => cpu.effective < size
        /\ Usable \subseteq 0..allowed
        /\ outer = None => Usable = 0..allowed
    <3> HIDE DEF size, allowed, Left
    <3> QED BY <2>2, <2>3, <2>4, <2>5
  <2> QED BY <2>6 DEF ExactCpu
<1> QED BY <1>2, <1>3

LEMMA StillIsSpoken ==
  ASSUME IInv
  PROVE  SilenceMeansNoLimit
<1> SUFFICES ASSUME stood = Aspects, job # None
             PROVE  /\ memory # None /\ Budget = None /\ memory.notice = None =>
                         job.all = None /\ job.each = None
                    /\ cpu = NoCpuLimit({}) =>
                         RateCap(job.control) = None /\ job.affinity = None
  BY DEF SilenceMeansNoLimit
<1>1. TypeOK /\ MemoryAsItIs /\ CpuAsItIs
  BY DEF IInv, InHand, Still
<1>2. memory # None /\ Budget = None /\ memory.notice = None =>
        job.all = None /\ job.each = None
  BY <1>1 DEF MemoryAsItIs
<1>3. ASSUME cpu = NoCpuLimit({})
      PROVE  RateCap(job.control) = None /\ job.affinity = None
  <2>1. cpu # None
    BY <1>3, PlainReports, NoneAssumption
  <2>2. ~Undecided
    BY <1>3, UndecidedReports DEF Undecided
  <2>3. Standing("control") = None /\ Standing("affinity") = None
    BY <1>1, <1>3, <2>1, <2>2 DEF CpuAsItIs, Weighed
  <2>4. /\ job \in Jobs /\ machine \in Seq(Nat) /\ Scale \in Nat
        /\ RateCap(job.control) \in 1..Scale \cup {None}
        /\ job.affinity \in Seq(Nat) \cup {None}
    BY <1>1, JobFields, ConstantsAssumption DEF TypeOK
  <2>5. Cores(machine) \in Nat /\ (job.affinity # None => Cores(job.affinity) \in Nat)
    BY <2>4, CoresCounted
  <2> HIDE DEF Cores
  <2>6. RateCap(job.control) # None => RateCap(job.control) * Cores(machine) \in Nat
    BY <2>4, <2>5
  <2>7. job.affinity # None => Scale * Cores(job.affinity) \in Nat
    BY <2>4, <2>5
  <2> QED BY <2>3, <2>6, <2>7, NoneAssumption DEF Standing
<1> QED BY <1>2, <1>3

(* Where nothing changes during the call, no less is reported than the     *)
(* jobs leave to this process, and exactly that where its job is in no     *)
(* other, whichever of the queries were refused.                           *)
THEOREM QuietReadingsAreExact == Spec => []QuietReadingIsExact
BY Inductive, StillIsExact, PTL DEF Spec

(* Nothing reported and nothing said means that the immediate job does not *)
(* restrict this process, whatever is around it.                           *)
THEOREM SilenceIsSpoken == Spec => []SilenceMeansNoLimit
BY Inductive, StillIsSpoken, PTL DEF Spec
=============================================================================

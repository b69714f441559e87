----------------------------- MODULE WindowsJob -----------------------------
(***************************************************************************)
(* Reading a Windows job object: snapshot(), describe() and the two limits *)
(* of src/proclimits/_sensor.py over _windows.py.                          *)
(*                                                                         *)
(* Every reading is a row of queries, each answered by itself: which       *)
(* limits the job carries, what is committed under it, how its CPU rate is *)
(* controlled, how many cores the machine has, which of them the job may   *)
(* use.  Between any two of them the job is reconfigured, its processes    *)
(* commit and free, the machine is given a core, or this process is put    *)
(* into another job.  A job may sit inside another: the kernel enforces    *)
(* both, and every query answers for the immediate one.                    *)
(*                                                                         *)
(* Memory is counted in pages, and cores in parts of 1 / Scale.            *)
(***************************************************************************)
EXTENDS Integers, Sequences, FiniteSets

CONSTANTS
  Calls,       \* the calls made: a subset of the domain of Plan
  Limits,      \* the memory limits that can be set
  Controls,    \* the CPU rate controls that can be set
  Affinities,  \* the affinities that can be set: cores allowed, by group
  Machines,    \* the machines: the cores of each processor group
  Joinable,    \* the jobs this process may be put into while it runs
  CommitLimit, \* the pages the system can commit
  Unreliable,  \* the queries that may fail
  Scale,       \* the parts of a core, and of a CPU rate
  MaxChurn,    \* bound on the changes while the reader runs
  None         \* nothing

(* What is asked: the information classes of the job, and the system.      *)
Queries == {"accounting", "limits", "violation", "rate", "affinity",
            "commit", "memory_status", "processor_count"}

(* Only a hard cap and the ceiling of a range are caps; a weight shares    *)
(* what there is.  The rate is in the field the form calls for.            *)
Forms == {"off", "weight", "hard", "range"}

ASSUME ConstantsAssumption ==
  /\ Limits \subseteq Nat /\ CommitLimit \in Nat /\ MaxChurn \in Nat
  /\ Scale \in Nat \ {0}
  /\ Controls \subseteq [form : Forms, rate : 1..Scale]
  /\ Affinities \subseteq Seq(Nat)
  /\ Machines \subseteq Seq(Nat) /\ \A m \in Machines : m # <<>> /\ m[1] > 0
  /\ Unreliable \subseteq Queries

(* The limits of a job: on all its processes together, on each of them,    *)
(* and on the CPU.                                                         *)
Jobs == [all : Limits \cup {None}, each : Limits \cup {None},
         control : Controls, affinity : Affinities \cup {None}]

ASSUME JoinableAssumption == Joinable \subseteq Jobs

VARIABLES
  job,       \* the immediate job of this process, or None
  outer,     \* the job around that one, or None
  own,       \* the pages this process has committed
  others,    \* the pages the other processes of the immediate job have
  beyond,    \* the pages of the processes that are in the outer job alone
  machine,   \* the cores of each processor group
  call,      \* the call being made or made last, or None
  at,        \* where it stands in the queries of that call
  ceiling,   \* memory_limit_ceiling(), as this call read it
  count,     \* get_machine_cpu_count(), as this call read it
  limits,    \* the job's limits and the flags saying which are set, as read
  charged,   \* the pages in use, as read
  share,     \* the CPU rate the job is capped at, as read
  quota,     \* that rate in cores
  memory,    \* what the call says of the memory
  cpu,       \* what it says of the CPU
  usage,     \* whether it read the consumed CPU time
  listed,    \* whether describe() lists the job as a level
  before,    \* history: the limits and the pages when the call began
  gained,    \* history: pages freed and allowed since
  stood,     \* history: what nobody has changed since
  churn      \* history: the changes so far

around == <<outer, beyond>>
world == <<job, own, others, outer, beyond, machine, churn>>
history == <<before, gained, stood>>
answers == <<ceiling, count, limits, charged, share, quota>>
report == <<memory, cpu, usage, listed>>
reader == <<call, at, answers, report>>
vars == <<world, history, reader>>

Max0(n) == IF n > 0 THEN n ELSE 0
AtMost(a, b) == IF a < b THEN a ELSE b

(* The cores of all groups together.                                       *)
Cores(groups) == Cardinality(UNION {{g} \X (1..groups[g]) : g \in DOMAIN groups})

-----------------------------------------------------------------------------
(* Everybody else.                                                         *)

(* What can be relied on not to change while a call runs.                  *)
Aspects == {"pages", "limits", "bounded", "control", "affinity", "machine", "job"}

Disturb(aspects, gain) ==
  /\ churn < MaxChurn
  /\ churn' = churn + 1
  /\ stood' = stood \ aspects
  /\ gained' = gained + gain
  /\ UNCHANGED <<before, reader>>

(* A process of the job commits a page, where every limit above it has     *)
(* room.                                                                   *)
HasRoom(j, committed, mine) ==
  j # None => /\ j.all # None => committed < j.all
              /\ mine /\ j.each # None => own < j.each

Commit(mine) ==
  /\ own + others + beyond < CommitLimit
  /\ HasRoom(job, own + others, mine) /\ HasRoom(outer, own + others + beyond, mine)
  /\ own' = IF mine THEN own + 1 ELSE own
  /\ others' = IF mine THEN others ELSE others + 1
  /\ Disturb({"pages"}, 0)
  /\ UNCHANGED <<job, around, machine>>

Free(mine) ==
  /\ IF mine THEN own > 0 ELSE others > 0
  /\ own' = IF mine THEN own - 1 ELSE own
  /\ others' = IF mine THEN others ELSE others - 1
  /\ Disturb({"pages"}, 1)
  /\ UNCHANGED <<job, around, machine>>

(* Somebody sets one of the memory limits, or lifts it.                    *)
SetLimit(scope, n) ==
  /\ job # None /\ job[scope] # n
  /\ job' = [job EXCEPT ![scope] = n]
  /\ Disturb(IF n = None THEN {"limits", "bounded"} ELSE {"limits"},
             IF job[scope] # None /\ n # None THEN Max0(n - job[scope]) ELSE 0)
  /\ UNCHANGED <<own, others, around, machine>>

SetCpu(aspect, setting) ==
  /\ job # None /\ job[aspect] # setting
  /\ job' = [job EXCEPT ![aspect] = setting]
  /\ Disturb({aspect}, 0)
  /\ UNCHANGED <<own, others, around, machine>>

(* The machine is given a core while it runs.                              *)
AddCore(g) ==
  /\ machine' = [machine EXCEPT ![g] = @ + 1]
  /\ Disturb({"machine"}, 0)
  /\ UNCHANGED <<job, own, others, around>>

(* This process is put into a job, or into one inside the one it is in,    *)
(* where some of the other processes are already: that one stays around    *)
(* it.  There is no way out of a job.  Nesting is bounded: one job around  *)
(* another.                                                                *)
Assign(j, n) ==
  /\ outer = None
  /\ IF job = None THEN own + n <= CommitLimit ELSE n <= others
  /\ job' = j /\ others' = n
  /\ outer' = job /\ beyond' = Max0(others - n)
  /\ Disturb(Aspects, 0)
  /\ UNCHANGED <<own, machine>>

Others ==
  \/ \E mine \in BOOLEAN : Commit(mine) \/ Free(mine)
  \/ \E scope \in {"all", "each"}, n \in Limits \cup {None} : SetLimit(scope, n)
  \/ \E control \in Controls : SetCpu("control", control)
  \/ \E affinity \in Affinities \cup {None} : SetCpu("affinity", affinity)
  \/ \E g \in DOMAIN machine : AddCore(g)
  \/ \E j \in Joinable, n \in 0..1 : Assign(j, n)

-----------------------------------------------------------------------------
(* What one query answers.                                                 *)

(* Outside a job every class fails with the code that says so; inside one  *)
(* it answers, or fails with another.                                      *)
Outcomes(query) ==
  IF job = None THEN {"no_job"}
  ELSE {"answered"} \cup (IF query \in Unreliable THEN {"refused"} ELSE {})

OrNone(query, value) == {value} \cup (IF query \in Unreliable THEN {None} ELSE {})

(* machine_cpu_count(): the fallback counts one group, so it is asked only *)
(* where that is the machine.  It may not answer either.                   *)
CountOneGroup == OrNone("processor_count", Cores(machine)) \cup
                 (IF "processor_count" \in Unreliable THEN {machine[1]} ELSE {})
MachineCpuCount == OrNone("processor_count", Cores(machine))

(* _available_commit(): the distance to the limit of the immediate job, or *)
(* to that of the system.  It is blind to the limit on each process, and   *)
(* to an outer job.                                                        *)
AvailableCommit ==
  IF job # None /\ job.all # None THEN Max0(job.all - own - others)
  ELSE Max0(CommitLimit - own - others - beyond)

(* _rate_cap().                                                            *)
AnyRate(control) == IF control.form = "off" THEN None ELSE control.rate
RateCap(control) == IF control.form \in {"hard", "range"} THEN control.rate ELSE None

(* _group_affinity_masks(): a job with no affinity answers with every core *)
(* of the machine.                                                         *)
GroupMasks == IF job.affinity = None THEN machine ELSE job.affinity

(* _affinity_cores(): an affinity that allows no core cannot be right.     *)
AffinityCores == IF Cores(GroupMasks) = 0 THEN None ELSE Cores(GroupMasks)

-----------------------------------------------------------------------------
(* Judging what was read.                                                  *)

MemoryNotices == {"LIMIT_UNREADABLE", "MACHINE_UNKNOWN", "COVERS_MACHINE",
                  "USAGE_UNREADABLE", "USAGE_UNAVAILABLE"}

(* What a call can say of the memory and of the CPU.                       *)
Budgets == [limit : Nat, used : Nat, available : Nat]
MemoryReports == [budget : Budgets \cup {None}, notice : MemoryNotices \cup {None},
                  named : BOOLEAN]

(* RawMemory.  The one level there is, is named where it has a limit.      *)
NoMemory == [limit |-> None, used |-> None, available |-> None,
             unreadable |-> FALSE, unpaired |-> FALSE]
LimitAlone(n) == [NoMemory EXCEPT !.limit = n]

(* _memory_rejection() and _unpaired_limit_notice().                       *)
MemoryRejection(raw) ==
  CASE raw.unreadable -> "LIMIT_UNREADABLE"
    [] ~raw.unreadable /\ raw.limit = None -> None
    [] ~raw.unreadable /\ raw.limit # None ->
         IF ceiling = None THEN "MACHINE_UNKNOWN"
         ELSE IF raw.limit >= ceiling THEN "COVERS_MACHINE"
         ELSE IF raw.used # None /\ raw.available # None THEN None
         ELSE IF raw.unpaired THEN "USAGE_UNREADABLE" ELSE "USAGE_UNAVAILABLE"

(* _reconcile(): three answers brought into one pair.                      *)
AsRead(raw) == [limit |-> raw.limit, used |-> raw.used, available |-> raw.available]
ReconcileTheRoom(raw) ==
  [AsRead(raw) EXCEPT !.available = AtMost(@, raw.limit - raw.used)]
Reconcile(raw) ==
  LET used == AtMost(Max0(raw.used), raw.limit)
  IN [limit |-> raw.limit, used |-> used,
      available |-> AtMost(Max0(raw.available), raw.limit - used)]

(* _evaluate_memory().                                                     *)
JudgedMemory(raw) ==
  [budget |-> IF raw.limit = None \/ MemoryRejection(raw) # None THEN None ELSE Reconcile(raw),
   notice |-> MemoryRejection(raw), named |-> raw.limit # None]

CpuNotices == {"LIMIT_UNREADABLE", "MACHINE_UNKNOWN", "QUOTA_COVERS_MACHINE",
               "SET_COVERS_MACHINE"}

CpuReports == [effective : Nat \cup {None}, notices : SUBSET CpuNotices]

NoCpuLimit(notices) == [effective |-> None, notices |-> notices]

Covers(cores) == count # None /\ cores >= Scale * count

JudgedWithoutTheSet(fromRate, fromSet) ==
  [effective |-> IF fromRate = None \/ Covers(fromRate) THEN None ELSE fromRate,
   notices |-> {}]

(* _evaluate_cpu_limit(), given a quota and a set that were read.          *)
JudgedCpu(fromRate, fromSet) ==
  LET candidates == {c \in {fromRate, fromSet} \ {None} : ~Covers(c)}
      notices == {n \in CpuNotices :
                    \/ n = "QUOTA_COVERS_MACHINE" /\ fromRate # None /\ Covers(fromRate)
                    \/ n = "SET_COVERS_MACHINE" /\ fromSet # None /\ Covers(fromSet)}
  IN [effective |-> IF candidates = {} THEN None
                    ELSE CHOOSE c \in candidates : \A d \in candidates : c <= d,
      notices |-> notices]

-----------------------------------------------------------------------------
(* The calls.                                                              *)

(* What each call asks, in this order.  describe() also asks for the       *)
(* memory of the machine, which decides nothing here.                      *)
Plan ==
  [get_memory_budget |-> <<"ceiling", "memory", "in_use", "commit">>,
   get_cpu_limit     |-> <<"count", "cpu", "rate", "size", "affinity">>,
   snapshot          |-> <<"ceiling", "memory", "in_use", "commit",
                           "count", "cpu", "rate", "size", "affinity", "usage">>,
   describe          |-> <<"sources", "count", "ceiling", "memory", "in_use", "commit",
                           "cpu", "rate", "size", "affinity", "usage">>]

ASSUME CallsAssumption == Calls \subseteq DOMAIN Plan
ASSUME NoneAssumption ==
  /\ None \notin Nat \cup BOOLEAN \cup Jobs \cup Affinities \cup DOMAIN Plan
  /\ None \notin MemoryNotices \cup Budgets \cup MemoryReports \cup CpuReports

Queue == IF call = None THEN <<>> ELSE Plan[call]
Idle == at \notin DOMAIN Queue
Asking(query) == ~Idle /\ Queue[at] = query
Skip(n) == at' = at + n /\ UNCHANGED call
AskNext == Skip(1)

Begin(c) ==
  /\ c \in Calls
  /\ Idle
  /\ call' = c /\ at' = 1
  /\ ceiling' = None /\ count' = None /\ limits' = None
  /\ charged' = None /\ share' = None /\ quota' = None
  /\ memory' = None /\ cpu' = None /\ usage' = FALSE /\ listed' = None
  /\ before' = [job |-> job, own |-> own, others |-> others]
  /\ gained' = 0
  /\ stood' = Aspects
  /\ UNCHANGED world

others_ask == <<world, history>>

(* sources(): a job that will not answer still counts as one.              *)
InJobIfItAnswers(outcome) == outcome = "answered"
InJob(outcome) == outcome # "no_job"

AskSources ==
  /\ Asking("sources")
  /\ \E outcome \in Outcomes("accounting") : listed' = InJob(outcome)
  /\ AskNext
  /\ UNCHANGED <<others_ask, answers, memory, cpu, usage>>

AskCeiling ==
  /\ Asking("ceiling")
  /\ ceiling' \in OrNone("memory_status", CommitLimit)
  /\ AskNext
  /\ UNCHANGED <<others_ask, count, limits, charged, share, quota, report>>

AskCount ==
  /\ Asking("count")
  /\ count' \in MachineCpuCount
  /\ AskNext
  /\ UNCHANGED <<others_ask, ceiling, limits, charged, share, quota, report>>

(* read_memory(): which limits are set.  A limit on each process that is   *)
(* tighter, or the only one, is reported alone.                            *)
PairsAnyLimit(j) == j.all # None
PairsWithUsage(j) == j.all # None /\ (j.each = None \/ j.each >= j.all)
Tighter(j) == IF j.each # None THEN j.each ELSE j.all

AskMemoryLimits ==
  /\ Asking("memory")
  /\ \E outcome \in Outcomes("limits") :
       /\ limits' = IF outcome = "answered" THEN job ELSE None
       /\ IF outcome = "answered" /\ PairsWithUsage(job)
          THEN AskNext /\ UNCHANGED memory
          ELSE /\ Skip(3)
               /\ memory' = JudgedMemory(
                    CASE outcome = "no_job"   -> NoMemory
                      [] outcome = "refused"  -> [NoMemory EXCEPT !.unreadable = TRUE]
                      [] outcome = "answered" -> LimitAlone(Tighter(job)))
  /\ UNCHANGED <<others_ask, ceiling, count, charged, share, quota, cpu, usage, listed>>

(* _job_memory(): two queries answer the pair, and either can stand in for *)
(* the other.                                                              *)
AskInUse ==
  /\ Asking("in_use")
  /\ \E outcome \in Outcomes("violation") :
       charged' = IF outcome = "answered" THEN own + others ELSE None
  /\ AskNext
  /\ UNCHANGED <<others_ask, ceiling, count, limits, share, quota, report>>

Paired(inUse, available) ==
  [NoMemory EXCEPT
     !.limit = limits.all,
     !.used = IF inUse # None THEN inUse
              ELSE IF available # None THEN Max0(limits.all - available) ELSE None,
     !.available = IF available # None THEN available
                   ELSE IF inUse # None THEN Max0(limits.all - inUse) ELSE None,
     !.unpaired = inUse = None /\ available = None]

AskCommit ==
  /\ Asking("commit")
  /\ \E available \in OrNone("commit", AvailableCommit) :
       memory' = JudgedMemory(Paired(charged, available))
  /\ AskNext
  /\ UNCHANGED <<others_ask, answers, cpu, usage, listed>>

(* read_cpu(): one unreadable answer drops both restrictions.              *)
AskCpuLimits ==
  /\ Asking("cpu")
  /\ \E outcome \in Outcomes("limits") :
       /\ limits' = IF outcome = "answered" THEN job ELSE None
       /\ cpu' = CASE outcome = "no_job"   -> NoCpuLimit({})
                    [] outcome = "refused"  -> NoCpuLimit({"LIMIT_UNREADABLE"})
                    [] outcome = "answered" -> cpu
       /\ IF outcome = "answered" THEN AskNext ELSE Skip(4)
  /\ UNCHANGED <<others_ask, ceiling, count, charged, share, quota, memory, usage, listed>>

AskRateOrAssumeNone ==
  /\ Asking("rate")
  /\ share' \in OrNone("rate", RateCap(job.control))
  /\ AskNext
  /\ UNCHANGED <<others_ask, ceiling, count, limits, charged, quota, report>>

AskRate ==
  /\ Asking("rate")
  /\ \E outcome \in Outcomes("rate") :
       /\ share' = IF outcome = "answered" THEN RateCap(job.control) ELSE None
       /\ cpu' = IF outcome = "answered" THEN cpu ELSE NoCpuLimit({"LIMIT_UNREADABLE"})
       /\ IF outcome = "answered" THEN AskNext ELSE Skip(3)
  /\ UNCHANGED <<others_ask, ceiling, count, limits, charged, quota, memory, usage, listed>>

(* The count is asked for again, to turn the rate into cores: a share of a *)
(* machine nobody can size is dropped, and the affinity with it.           *)
AskSize ==
  /\ Asking("size")
  /\ \E cores \in MachineCpuCount :
       LET unsized == share # None /\ cores = None
       IN /\ quota' = IF share = None \/ cores = None THEN None ELSE share * cores
          /\ cpu' = IF unsized THEN NoCpuLimit({"MACHINE_UNKNOWN"})
                    ELSE IF limits.affinity = None THEN JudgedCpu(quota', None) ELSE cpu
          /\ IF unsized \/ limits.affinity = None THEN Skip(2) ELSE AskNext
  /\ UNCHANGED <<others_ask, ceiling, count, limits, charged, share, memory, usage, listed>>

(* The flag said that the cores are restricted; which ones are is asked    *)
(* for now.                                                                *)
AskAffinity ==
  /\ Asking("affinity")
  /\ \E outcome \in Outcomes("affinity") :
       cpu' = IF outcome = "answered" /\ AffinityCores # None
              THEN JudgedCpu(quota, Scale * AffinityCores)
              ELSE NoCpuLimit({"LIMIT_UNREADABLE"})
  /\ AskNext
  /\ UNCHANGED <<others_ask, answers, memory, usage, listed>>

(* get_cpu_usage().                                                        *)
AskUsage ==
  /\ Asking("usage")
  /\ \E outcome \in Outcomes("accounting") : usage' = (outcome = "answered")
  /\ AskNext
  /\ UNCHANGED <<others_ask, answers, memory, cpu, listed>>

Reader ==
  \/ \E c \in Calls : Begin(c)
  \/ AskSources \/ AskCeiling \/ AskCount
  \/ AskMemoryLimits \/ AskInUse \/ AskCommit
  \/ AskCpuLimits \/ AskRate \/ AskSize \/ AskAffinity \/ AskUsage

-----------------------------------------------------------------------------
TypeOK ==
  /\ job \in Jobs \cup {None}
  /\ own \in Nat /\ others \in Nat /\ machine \in Seq(Nat)
  /\ outer \in Jobs \cup {None} /\ beyond \in Nat
  /\ call \in DOMAIN Plan \cup {None} /\ at \in 1..Len(Queue) + 1
  /\ ceiling \in {CommitLimit, None} /\ count \in Nat \cup {None}
  /\ limits \in Jobs \cup {None}
  /\ charged \in Nat \cup {None}
  /\ share \in 1..Scale \cup {None} /\ quota \in Nat \cup {None}
  /\ memory \in MemoryReports \cup {None} /\ cpu \in CpuReports \cup {None}
  /\ usage \in BOOLEAN /\ listed \in BOOLEAN \cup {None}
  /\ before \in [job : Jobs \cup {None}, own : Nat, others : Nat]
  /\ gained \in Nat /\ stood \subseteq Aspects /\ churn \in 0..MaxChurn

(* How many of the changes are left to everybody else is part of the       *)
(* initial state.                                                          *)
Init ==
  /\ job \in Jobs \cup {None}
  /\ outer \in Joinable \cup {None}
  /\ own \in 0..CommitLimit /\ others \in 0..CommitLimit /\ beyond \in 0..CommitLimit
  /\ own + others + beyond <= CommitLimit
  /\ job = None => others = 0 /\ outer = None
  /\ outer = None => beyond = 0
  /\ machine \in Machines
  /\ call = None /\ at = 1
  /\ ceiling = None /\ count = None /\ limits = None
  /\ charged = None /\ share = None /\ quota = None
  /\ memory = None /\ cpu = None /\ usage = FALSE /\ listed = None
  /\ before = [job |-> job, own |-> own, others |-> others]
  /\ gained = 0 /\ stood = Aspects
  /\ churn \in 0..MaxChurn

Next == Others \/ Reader

Spec == Init /\ [][Next]_vars

-----------------------------------------------------------------------------
(* What has to hold.                                                       *)

Budget == IF memory = None THEN None ELSE memory.budget

(* The three fields of a budget come from up to three queries, with the    *)
(* job committing, freeing and being reconfigured in between, and still    *)
(* add up: the room and the usage fit under the limit.                     *)
PairFitsTheLimit ==
  Budget # None => Budget.used + Budget.available <= Budget.limit

(* The reader never promises this process more than either limit of its    *)
(* own job left it when the call began, and what was freed and allowed since,  *)
(* although the query for the room is blind to the limit on each process   *)
(* and the usage sums all of them.                                         *)
PromiseIsBounded ==
  LET was == before.job
  IN Budget # None /\ was # None /\ {"job", "bounded"} \subseteq stood =>
       /\ was.all # None =>
            Budget.available <= Max0(was.all - before.own - before.others) + gained
       /\ was.each # None =>
            Budget.available <= Max0(was.each - before.own) + gained

(* A cap or an affinity that stood for as long as the call took, on a      *)
(* machine that kept its cores, is never exceeded by what is reported,     *)
(* however the other one was changed meanwhile.  The cap is the nominal    *)
(* one of the immediate job: under a capped outer job less applies.        *)
Standing(aspect) ==
  IF aspect = "control"
  THEN IF RateCap(job.control) = None THEN None ELSE RateCap(job.control) * Cores(machine)
  ELSE IF job.affinity = None THEN None ELSE Scale * Cores(job.affinity)

Undecided == cpu.notices \cap {"LIMIT_UNREADABLE", "MACHINE_UNKNOWN"} # {}

NeverLooserThanWhatStood ==
  cpu # None /\ job # None /\ {"job", "machine"} \subseteq stood /\ ~Undecided =>
    \A aspect \in {"control", "affinity"} \cap stood :
      Standing(aspect) # None /\ Standing(aspect) < Scale * Cores(machine) =>
        cpu.effective # None /\ cpu.effective <= Standing(aspect)

(* What the jobs above this process would still let it commit: each of     *)
(* them has to.  The system may have less.                                 *)
OuterAllows(n) ==
  outer # None =>
    /\ outer.all # None => own + others + beyond + n <= outer.all
    /\ outer.each # None => own + n <= outer.each

Grantable ==
  {n \in 0..CommitLimit :
     /\ job # None /\ job.all # None => own + others + n <= job.all
     /\ job # None /\ job.each # None => own + n <= job.each
     /\ OuterAllows(n)}

(* The cores the jobs leave to this process.  A rate is a share of the     *)
(* share of the job around.                                                *)
OuterLeaves(n) ==
  outer # None =>
    /\ outer.affinity # None => n <= Scale * Cores(outer.affinity)
    /\ RateCap(outer.control) # None =>
         LET inner == IF RateCap(job.control) = None THEN Scale ELSE RateCap(job.control)
         IN Scale * n <= RateCap(outer.control) * inner * Cores(machine)

Usable ==
  {n \in 0..Scale * Cores(machine) :
     /\ job # None => \A aspect \in {"control", "affinity"} :
                        Standing(aspect) # None => n <= Standing(aspect)
     /\ OuterLeaves(n)}

(* Where nothing changes during the call, whichever queries failed, no     *)
(* less is reported than the jobs leave to this process: neither a budget  *)
(* of less than they still let it commit, nor a CPU limit of less than     *)
(* they leave of a machine of known size.  Where its job is in no other it *)
(* is exactly that.  Otherwise it may be more: what the outer job takes    *)
(* away cannot be read.                                                    *)
QuietReadingIsExact ==
  stood = Aspects =>
    /\ Budget # None =>
         \A n \in 1..CommitLimit :
           /\ n \in Grantable => n <= Budget.available
           /\ outer = None /\ n <= Budget.available => n \in Grantable
    /\ cpu # None /\ count # None /\ ~Undecided =>
         LET all == Scale * Cores(machine)
             allowed == IF cpu.effective = None THEN all ELSE cpu.effective
         IN /\ cpu.effective # None => cpu.effective < all
            /\ Usable \subseteq 0..allowed
            /\ outer = None => Usable = 0..allowed

(* Nothing reported and nothing said means that the immediate job does not *)
(* restrict this process: a query that was refused is never taken for an   *)
(* answer.  It says nothing of a job around that one, which is enforced    *)
(* all the same.                                                           *)
SilenceMeansNoLimit ==
  stood = Aspects /\ job # None =>
    /\ memory # None /\ Budget = None /\ memory.notice = None =>
         job.all = None /\ job.each = None
    /\ cpu = NoCpuLimit({}) =>
         RateCap(job.control) = None /\ job.affinity = None

(* A level describe() names, and one whose consumed time it reports, is    *)
(* listed among the levels of its source, unless the process was put into  *)
(* a job while it looked: the two come from queries of their own.          *)
DescriptionListsItsLevel ==
  listed = FALSE /\ "job" \in stood =>
    /\ ~usage
    /\ memory # None => ~memory.named
    /\ cpu # None => cpu = NoCpuLimit({})
=============================================================================

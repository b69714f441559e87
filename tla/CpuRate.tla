------------------------------ MODULE CpuRate ------------------------------
(***************************************************************************)
(* Measuring a CPU load (src/proclimits/_sensor.py): the threads of one    *)
(* process call CpuLoad.sample() on a sampler they share, and              *)
(* get_cpu_used_ratio() or its asyncio twin, which keep nothing between    *)
(* calls.  Both build on _read_cpu(), which asks for the limit, then for   *)
(* the counter of the level that limit binds at, then for the time.  The   *)
(* three answers come from three moments, and everything outside the       *)
(* process may move between them: the limit, the counters, and the clock.  *)
(*                                                                         *)
(* One call of _evaluate_cpu_limit() is one step here: it yields the       *)
(* `binding' of that moment.  Time is counted in ticks, consumed CPU time  *)
(* in core-ticks and a limit in whole cores.  A level is its position on   *)
(* the chain: 1 is the group of this process, Depth the mount point.       *)
(***************************************************************************)
EXTENDS Integers

CONSTANTS
  Threads,         \* the threads of the process
  Ops,             \* the calls they make: a subset of {"sample", "measure"}
  Depth,           \* the number of levels on the chain
  Unreliable,      \* the levels whose counter file may fail to answer
  Cores,           \* the limits a level can carry, in cores
  Bursts,          \* the core-ticks a group can consume in one tick
  Intervals,       \* the intervals a caller asks to measure, in ticks
  ShortestWindow,  \* _SHORTEST_WINDOW_SECONDS, in ticks
  Resolution,      \* the resolution of time.monotonic(), in ticks
  MaxTime,         \* bound on the clock
  MaxEra,          \* bound on the changes of the limit
  MaxRestarts,     \* bound on the restarts of a counter
  MaxCalls,        \* bound on the calls of one thread
  Forking,         \* whether the process may fork
  None

Levels == 1..Depth

ASSUME ConstantsAssumption ==
  /\ Ops \subseteq {"sample", "measure"}
  /\ Depth \in Nat \ {0}
  /\ Unreliable \subseteq Levels
  /\ Cores \subseteq Nat \ {0}
  /\ Bursts \subseteq Nat
  /\ Intervals \subseteq Nat
  /\ ShortestWindow \in Nat \ {0} /\ Resolution \in Nat \ {0}
  /\ MaxTime \in Nat /\ MaxEra \in Nat /\ MaxRestarts \in Nat /\ MaxCalls \in Nat
  /\ Forking \in BOOLEAN

(* What _evaluate_cpu_limit() can answer: the cores allowed and the level  *)
(* whose CPU time they apply to.  None stands for every answer _read_cpu() *)
(* gives up on: no limit, or a limit whose level counts no time.           *)
Scopes == [level : Levels, limit : Cores]

(* _CpuReading, and four fields the code does not have: the thread and the *)
(* call it was taken in, the era of the limit, and the true consumption of *)
(* every level when the counter was read.  Properties compare them; no     *)
(* action reads them.                                                      *)
Readings == [level : Levels, limit : Cores, usage : Nat, takenAt : Nat,
             by : Threads, call : Nat, era : Nat, spent : [Levels -> Nat]]

(* A ratio between 0 and 1, as a fraction.                                 *)
Ratios == [num : Nat, den : Nat \ {0}]

ASSUME NoneAssumption ==
  None \notin Scopes \cup Readings \cup Ratios \cup Threads

VARIABLES
  binding,   \* the limit in force and the level it binds at, or None
  counter,   \* the CPU time each level's counter file shows
  now,       \* time.monotonic()
  kept,      \* CpuLoad._previous
  lock,      \* the holder of CpuLoad._lock, or None
  gone,      \* the threads a fork left behind: not there in the child
  pc,        \* where each thread stands
  op,        \* the call each thread is in
  interval,  \* the interval it was asked to measure
  reading,   \* the reading it is taking, and then the one that ends its window
  baseline,  \* the reading that starts its window
  era,       \* history: the changes of the limit so far
  spent,     \* history: the CPU time each level truly consumed
  restarts,  \* history: the restarts of a counter so far
  calls,     \* history: the calls each thread made so far
  windows    \* history: every ratio reported, with the two readings behind it

env == <<binding, counter, now, era, spent, restarts>>
sampler == <<kept, lock>>
process == <<pc, gone>>
locals == <<op, interval, reading, baseline>>
vars == <<env, sampler, process, locals, calls, windows>>

Labels == {"idle", "evaluate", "count", "stamp", "sleep",
           "acquire", "load", "store", "release", "return"}

TypeOK ==
  /\ binding \in Scopes \cup {None}
  /\ counter \in [Levels -> Nat] /\ spent \in [Levels -> Nat]
  /\ now \in Nat /\ era \in Nat /\ restarts \in Nat
  /\ calls \in [Threads -> Nat]
  /\ kept \in Readings \cup {None}
  /\ lock \in Threads \cup {None} /\ gone \subseteq Threads
  /\ pc \in [Threads -> Labels]
  /\ op \in [Threads -> {"sample", "measure"}]
  /\ interval \in [Threads -> Nat]
  /\ reading \in [Threads -> Readings \cup {None}]
  /\ baseline \in [Threads -> Readings \cup {None}]
  /\ windows \subseteq [op : {"sample", "measure"}, start : Readings,
                        end : Readings, ratio : Ratios]
  /\ \A w \in windows : w.ratio.num <= w.ratio.den
  /\ \A t \in Threads :
       /\ pc[t] = "idle" => reading[t] = None /\ baseline[t] = None
       /\ pc[t] \in {"count", "stamp"} => reading[t] # None
       /\ pc[t] = "sleep" => baseline[t] # None

Init ==
  /\ binding \in Scopes \cup {None}
  /\ counter = [l \in Levels |-> 0]
  /\ spent = counter
  /\ now = 0 /\ era = 0 /\ restarts = 0
  /\ calls = [t \in Threads |-> 0]
  /\ kept = None /\ lock = None /\ gone = {}
  /\ pc = [t \in Threads |-> "idle"]
  /\ op = [t \in Threads |-> "sample"]
  /\ interval = [t \in Threads |-> 0]
  /\ reading = [t \in Threads |-> None]
  /\ baseline = [t \in Threads |-> None]
  /\ windows = {}

Goto(t, label) == pc' = [pc EXCEPT ![t] = label] /\ UNCHANGED gone

-----------------------------------------------------------------------------
(* Outside the process.                                                    *)

threads == <<sampler, process, locals, calls, windows>>

(* Someone writes another limit, moves it to another level, or lifts it.   *)
ChangeLimit(b) ==
  /\ era < MaxEra
  /\ b # binding
  /\ binding' = b
  /\ era' = era + 1
  /\ UNCHANGED <<counter, now, spent, restarts, threads>>

(* A tick passes.  A group l consumes n core-ticks, and so does every      *)
(* level above it: CPU time is counted up the chain.                       *)
Tick(l, n) ==
  LET charged(f) == [k \in Levels |-> IF k >= l THEN f[k] + n ELSE f[k]]
  IN /\ now < MaxTime
     /\ now' = now + 1
     /\ counter' = charged(counter)
     /\ spent' = charged(spent)
     /\ UNCHANGED <<binding, era, restarts, threads>>

(* A counter starts over: the group was removed and made again under the   *)
(* same path, or its cpuacct.usage was reset.                              *)
RestartCounter(l) ==
  /\ restarts < MaxRestarts
  /\ counter[l] > 0
  /\ counter' = [counter EXCEPT ![l] = 0]
  /\ restarts' = restarts + 1
  /\ UNCHANGED <<binding, now, era, spent, threads>>

Environment ==
  \/ \E b \in Scopes \cup {None} : ChangeLimit(b)
  \/ \E l \in Levels, n \in Bursts : Tick(l, n)
  \/ \E l \in Levels : RestartCounter(l)

-----------------------------------------------------------------------------
(* Turning two readings into a ratio.                                      *)

ComparableIgnoringTheLevel(start, end) == end.limit = start.limit

(* A limit that moved level or changed in place makes two readings         *)
(* incomparable, and a window too short reports noise.                     *)
Comparable(start, end) == end.level = start.level /\ end.limit = start.limit

MeasurableWhenLonger(start, end) ==
  end.takenAt - start.takenAt > ShortestWindow /\ end.limit > 0

Measurable(start, end) ==
  end.takenAt - start.takenAt >= ShortestWindow /\ end.limit > 0

ClampBelowOnly(used, allowed) == IF used < 0 THEN 0 ELSE used

(* A counter restart makes the difference negative: clamp both ends.       *)
Clamp(used, allowed) ==
  IF used < 0 THEN 0 ELSE IF used > allowed THEN allowed ELSE used

UsedRatio(start, end) ==
  LET allowed == (end.takenAt - start.takenAt) * end.limit
  IN IF Comparable(start, end) /\ Measurable(start, end)
     THEN [num |-> Clamp(end.usage - start.usage, allowed), den |-> allowed]
     ELSE None

(* Sampling: no ratio without both readings.                               *)
Outcome(start, end) ==
  IF start = None \/ end = None THEN None ELSE UsedRatio(start, end)

-----------------------------------------------------------------------------
(* The calls.                                                              *)

CheckInterval(i) == i >= ShortestWindow

Begin(t, kind, i) ==
  /\ kind \in Ops
  /\ pc[t] = "idle"
  /\ calls[t] < MaxCalls
  /\ calls' = [calls EXCEPT ![t] = @ + 1]
  /\ op' = [op EXCEPT ![t] = kind]
  /\ interval' = [interval EXCEPT ![t] = i]
  /\ Goto(t, "evaluate")
  /\ UNCHANGED <<env, sampler, reading, baseline, windows>>

CallSample(t) == Begin(t, "sample", 0)

(* A window too short is refused with a ValueError before anything is read.*)
CallMeasure(t, i) == CheckInterval(i) /\ Begin(t, "measure", i)

(* _read_cpu() returns r.  sample() goes on to the slot it shares; a       *)
(* one-shot measurement sleeps on its first reading, and gives up at once  *)
(* without one.                                                            *)
Deliver(t, r) ==
  LET first == op[t] = "measure" /\ baseline[t] = None
  IN /\ baseline' = [baseline EXCEPT ![t] = IF first THEN r ELSE @]
     /\ reading' = [reading EXCEPT ![t] = IF first THEN None ELSE r]
     /\ Goto(t, CASE op[t] = "sample" -> "acquire"
                  [] first /\ r # None -> "sleep"
                  [] OTHER -> "return")

(* _evaluate_cpu_limit(): the limit, and the level to count at.            *)
Evaluate(t) ==
  /\ pc[t] = "evaluate"
  /\ IF binding = None
     THEN Deliver(t, None)
     ELSE /\ reading' = [reading EXCEPT ![t] =
               [level |-> binding.level, limit |-> binding.limit,
                usage |-> 0, takenAt |-> 0,
                by |-> t, call |-> calls[t], era |-> era, spent |-> spent]]
          /\ Goto(t, "count")
          /\ UNCHANGED baseline
  /\ UNCHANGED <<env, sampler, op, interval, calls, windows>>

(* read_cpu_usage() at that level, where its file answers.                 *)
ReadUsage(t) ==
  LET l == reading[t].level
  IN /\ pc[t] = "count"
     /\ \/ /\ l \in Unreliable
           /\ Deliver(t, None)
        \/ /\ reading' = [reading EXCEPT ![t].usage = counter[l], ![t].spent = spent]
           /\ Goto(t, "stamp")
           /\ UNCHANGED baseline
     /\ UNCHANGED <<env, sampler, op, interval, calls, windows>>

(* time.monotonic(), and the reading is complete.                          *)
Stamp(t) ==
  /\ pc[t] = "stamp"
  /\ Deliver(t, [reading[t] EXCEPT !.takenAt = now])
  /\ UNCHANGED <<env, sampler, op, interval, calls, windows>>

(* A sleep ends early, on the clock the readings are stamped with, by less *)
(* than that clock can tell apart: an asyncio loop runs the timers that    *)
(* fall due within the resolution of its clock, and a clock that stands    *)
(* still between two of its ticks shows a shorter nap than was slept.      *)
Wake(t) ==
  /\ pc[t] = "sleep"
  /\ now + Resolution > baseline[t].takenAt + interval[t]
  /\ Goto(t, "evaluate")
  /\ UNCHANGED <<env, sampler, locals, calls, windows>>

(* `with self._lock': the exchange of readings in sample().                *)
AcquireWithoutWaiting(t) ==
  /\ pc[t] = "acquire"
  /\ lock' = t
  /\ Goto(t, "load")
  /\ UNCHANGED <<env, kept, locals, calls, windows>>

Acquire(t) ==
  /\ pc[t] = "acquire"
  /\ lock = None
  /\ lock' = t
  /\ Goto(t, "load")
  /\ UNCHANGED <<env, kept, locals, calls, windows>>

Load(t) ==
  /\ pc[t] = "load"
  /\ baseline' = [baseline EXCEPT ![t] = kept]
  /\ Goto(t, "store")
  /\ UNCHANGED <<env, sampler, op, interval, reading, calls, windows>>

StoreEvenAFailure(t) ==
  /\ pc[t] = "store"
  /\ kept' = reading[t]
  /\ Goto(t, "release")
  /\ UNCHANGED <<env, lock, locals, calls, windows>>

StoreTheFirst(t) ==
  /\ pc[t] = "store"
  /\ kept' = IF kept = None THEN reading[t] ELSE kept
  /\ Goto(t, "release")
  /\ UNCHANGED <<env, lock, locals, calls, windows>>

(* A failed reading leaves the previous one in place.                      *)
Store(t) ==
  /\ pc[t] = "store"
  /\ kept' = IF reading[t] # None THEN reading[t] ELSE kept
  /\ Goto(t, "release")
  /\ UNCHANGED <<env, lock, locals, calls, windows>>

ReleaseWithAReading(t) ==
  /\ pc[t] = "release"
  /\ reading[t] # None
  /\ lock' = None
  /\ Goto(t, "return")
  /\ UNCHANGED <<env, kept, locals, calls, windows>>

Release(t) ==
  /\ pc[t] = "release"
  /\ lock' = None
  /\ Goto(t, "return")
  /\ UNCHANGED <<env, kept, locals, calls, windows>>

(* The call returns the ratio between its two readings, or None.           *)
Return(t) ==
  LET ratio == Outcome(baseline[t], reading[t])
  IN /\ pc[t] = "return"
     /\ windows' = IF ratio = None THEN windows
                   ELSE windows \cup {[op |-> op[t], start |-> baseline[t],
                                       end |-> reading[t], ratio |-> ratio]}
     /\ reading' = [reading EXCEPT ![t] = None]
     /\ baseline' = [baseline EXCEPT ![t] = None]
     /\ Goto(t, "idle")
     /\ UNCHANGED <<env, sampler, op, interval, calls>>

(* A thread forks between two calls, and this is the child: the sampler is *)
(* copied as it stands, its lock included, and no other thread is.         *)
Fork(t) ==
  /\ Forking /\ gone = {}
  /\ pc[t] = "idle"
  /\ gone' = Threads \ {t}
  /\ UNCHANGED <<env, sampler, pc, locals, calls, windows>>

(* What a thread inside a call does next, without being asked to.          *)
Advance(t) ==
  \/ Evaluate(t) \/ ReadUsage(t) \/ Stamp(t)
  \/ Acquire(t) \/ Load(t) \/ Store(t) \/ Release(t)
  \/ Return(t)

Next ==
  \/ Environment
  \/ \E t \in Threads \ gone :
       \/ Fork(t)
       \/ CallSample(t)
       \/ \E i \in Intervals : CallMeasure(t, i)
       \/ Wake(t)
       \/ Advance(t)

Spec == Init /\ [][Next]_vars

(* Each thread there is keeps being scheduled.  Nothing makes anybody call *)
(* or fork, or the clock advance.                                          *)
FairSpec == Spec /\ \A t \in Threads : WF_vars(t \notin gone /\ Advance(t))

-----------------------------------------------------------------------------
(* What has to hold.                                                       *)

Sampled == {w \in windows : w.op = "sample"}
SameCall(r, s) == r.by = s.by /\ r.call = s.call

(* A reading left in the slot starts the window of one later sample() at   *)
(* most, however the calls of several threads interleave: consumed time is *)
(* not handed to two callers because both picked up the same baseline.     *)
(* This is what `with self._lock' in CpuLoad.sample() is for.              *)
EachReadingBasesOneWindow ==
  \A v, w \in Sampled :
    SameCall(v.start, w.start) => v = w

(* Why that is so: the invariant the proof goes by.  The lock protects the *)
(* slot from Load to Release.  The reading of the call under way has not   *)
(* reached the slot before Store.  The reading in the slot, those that a   *)
(* returning call has taken out of it and those behind a reported window   *)
(* all come from different calls.                                          *)
Critical(t) == pc[t] \in {"load", "store", "release"}
Underway(t) == pc[t] \in {"evaluate", "count", "stamp", "sleep", "acquire", "load", "store"}
Holding(t) == /\ op[t] = "sample" /\ pc[t] \in {"release", "return"}
              /\ baseline[t] # None /\ reading[t] # None

(* A reading that was taken in an earlier call than the one under way.     *)
Past(r) ==
  /\ r.call <= calls[r.by]
  /\ Underway(r.by) => r.call < calls[r.by]

LockProtectsTheSlot ==
  \A t \in Threads :
    /\ lock = t <=> Critical(t)
    /\ pc[t] = "acquire" \/ Critical(t) => op[t] = "sample"
    /\ pc[t] = "store" => baseline[t] = kept

ReadingsBelongToTheirCall ==
  \A t \in Threads : reading[t] # None => reading[t].by = t /\ reading[t].call = calls[t]

BaselinesArePast ==
  /\ kept # None => Past(kept)
  /\ \A w \in Sampled : Past(w.start)
  /\ \A t \in Threads : Holding(t) => Past(baseline[t])

BaselinesAreDistinct ==
  /\ kept # None =>
       /\ \A w \in Sampled : ~SameCall(w.start, kept)
       /\ \A t \in Threads : Holding(t) => ~SameCall(baseline[t], kept)
  /\ \A t \in Threads : Holding(t) =>
       /\ \A w \in Sampled : ~SameCall(baseline[t], w.start)
       /\ \A u \in Threads \ {t} : Holding(u) => ~SameCall(baseline[t], baseline[u])

BaselineOwnership ==
  /\ LockProtectsTheSlot
  /\ ReadingsBelongToTheirCall
  /\ BaselinesArePast
  /\ BaselinesAreDistinct
  /\ EachReadingBasesOneWindow

(* A sampler used by one thread never reports the same stretch of time in  *)
(* two windows, whatever failed in between.  With several threads it may:  *)
(* sample() takes its reading before it reaches the lock.                  *)
NoTimeReportedTwice ==
  \A v, w \in Sampled :
    \/ v = w
    \/ v.end.takenAt <= w.start.takenAt
    \/ w.end.takenAt <= v.start.takenAt

(* No report claims more CPU time than the level of the limit consumed     *)
(* between its two counts: not after a counter restarted, not after the    *)
(* limit moved to a level that counts more, not after failed readings.     *)
NeverOverreported ==
  \A w \in windows :
    w.ratio.num <= w.end.spent[w.start.level] - w.start.spent[w.start.level]

(* A one-shot measurement that took both readings is not thrown away as    *)
(* too short by _used_ratio(), whatever delayed the two, where what is     *)
(* left of its interval after the sleep ended early is still a window: the *)
(* shortest interval _check_interval() accepts leaves one only on a clock  *)
(* that resolves every tick.                                               *)
OutlastsTheClock(i) == ShortestWindow + Resolution <= i + 1

MeasuredPairIsLongEnough ==
  \A t \in Threads :
    /\ pc[t] = "return" /\ op[t] = "measure" /\ reading[t] # None
    /\ OutlastsTheClock(interval[t])
    => Measurable(baseline[t], reading[t])

(* A limit that was changed once while a window ran voids it, whichever of *)
(* its parts moved: only one that was put back again goes unnoticed, since *)
(* nothing between the two ends is looked at.                              *)
OneChangeVoidsTheWindow ==
  \A w \in windows : w.end.era # w.start.era + 1

(* A shared sampler is a slot exchanged in one step, although the code     *)
(* loads, stores and releases, and reads the counter outside the lock.     *)
AtSlot(t) == op[t] = "sample" /\ pc[t] \in {"acquire", "load", "store"}
PastSlot(t) == op[t] = "sample" /\ pc[t] \in {"release", "return"}

StageOf(t) == IF AtSlot(t) THEN "offered" ELSE IF PastSlot(t) THEN "exchanged" ELSE "away"
OfferOf(t) == IF AtSlot(t) \/ PastSlot(t) THEN reading[t] ELSE None
GotOf(t) == IF PastSlot(t) THEN baseline[t] ELSE None

Sampler == INSTANCE AtomicSampler WITH
  Callers <- Threads,
  slot    <- kept,
  stage   <- [t \in Threads |-> StageOf(t)],
  offered <- [t \in Threads |-> OfferOf(t)],
  got     <- [t \in Threads |-> GotOf(t)]

(* Sharing a CpuLoad between threads implements that slot.                 *)
SharesOneSlot == Sampler!Spec

Busy(t) == t \notin gone /\ pc[t] \notin {"idle", "sleep"}

(* Under fair scheduling every call comes back, or sleeps out the interval *)
(* it was asked for: nobody leaves the lock taken, save a thread that a    *)
(* fork left behind while it held it.                                      *)
EveryCallReturns ==
  \A t \in Threads : Busy(t) ~> ~Busy(t) \/ lock \in gone

(* README: "`sample()' never waits".  No call waits for good, whatever     *)
(* another thread was doing when the process forked.                       *)
SampleNeverWaits == \A t \in Threads : Busy(t) ~> ~Busy(t)
=============================================================================

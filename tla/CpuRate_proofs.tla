--------------------------- MODULE CpuRate_proofs ---------------------------
(* Proofs about CpuRate, for any number of threads, levels and calls.      *)
EXTENDS CpuRate, TLAPS

(* No ratio exceeds one, and neither part of it is negative: what Clamp is *)
(* for, whatever the counters did.                                         *)
LEMMA RatioTyping ==
  ASSUME NEW start \in Readings \cup {None}, NEW end \in Readings \cup {None}
  PROVE  /\ Outcome(start, end) \in Ratios \cup {None}
         /\ Outcome(start, end) # None =>
              /\ start # None /\ end # None
              /\ Outcome(start, end).num <= Outcome(start, end).den
<1>1. CASE start = None \/ end = None
  BY <1>1 DEF Outcome
<1>2. CASE start # None /\ end # None
  <2> DEFINE used == end.usage - start.usage
             allowed == (end.takenAt - start.takenAt) * end.limit
  <2>1. start \in Readings /\ end \in Readings
    BY <1>2
  <2>2. CASE Comparable(start, end) /\ Measurable(start, end)
    <3>1. end.takenAt - start.takenAt \in Nat \ {0} /\ end.limit \in Nat \ {0}
      <4>1. start.takenAt \in Nat /\ end.takenAt \in Nat /\ end.limit \in Cores
        BY <2>1 DEF Readings
      <4>2. end.takenAt - start.takenAt >= ShortestWindow
        BY <2>2 DEF Measurable
      <4>3. ShortestWindow \in Nat \ {0} /\ Cores \subseteq Nat \ {0}
        BY ConstantsAssumption
      <4>4. end.limit \in Nat \ {0}
        BY <4>1, <4>3
      <4>5. end.takenAt - start.takenAt \in Nat \ {0}
        BY <4>1, <4>2, <4>3
      <4> QED BY <4>4, <4>5
    <3>2. allowed \in Nat \ {0}
      <4> DEFINE a == end.takenAt - start.takenAt
                 b == end.limit
      <4>1. a \in Nat \ {0} /\ b \in Nat \ {0}
        BY <3>1
      <4> HIDE DEF a, b
      <4>2. a * b \in Nat \ {0}
        BY <4>1
      <4> QED BY <4>2 DEF a, b
    <3>3. used \in Int
      BY <2>1 DEF Readings
    <3> HIDE DEF used, allowed
    <3>4. Clamp(used, allowed) \in Nat /\ Clamp(used, allowed) <= allowed
      BY <3>2, <3>3 DEF Clamp
    <3>5. Outcome(start, end) = [num |-> Clamp(used, allowed), den |-> allowed]
      BY <1>2, <2>2 DEF Outcome, UsedRatio, used, allowed
    <3> QED BY <1>2, <3>2, <3>4, <3>5 DEF Ratios
  <2>3. CASE ~(Comparable(start, end) /\ Measurable(start, end))
    BY <1>2, <2>3 DEF Outcome, UsedRatio
  <2> QED BY <2>2, <2>3
<1> QED BY <1>1, <1>2

-----------------------------------------------------------------------------
(* Types.                                                                  *)

LEMMA DeliverTyping ==
  ASSUME TypeOK, NEW t \in Threads, NEW r \in Readings \cup {None}, Deliver(t, r)
  PROVE  /\ pc' \in [Threads -> Labels] /\ gone' = gone
         /\ \A u \in Threads :
              /\ pc'[u] = "idle" => reading'[u] = None /\ baseline'[u] = None
              /\ pc'[u] \in {"count", "stamp"} => reading'[u] # None
              /\ pc'[u] = "sleep" => baseline'[u] # None
         /\ reading' \in [Threads -> Readings \cup {None}]
         /\ baseline' \in [Threads -> Readings \cup {None}]
BY DEF TypeOK, Deliver, Goto, Labels

LEMMA EnvironmentTyping == TypeOK /\ Environment => TypeOK'
<1> SUFFICES ASSUME TypeOK, Environment PROVE TypeOK'
  OBVIOUS
<1> USE DEF TypeOK, env, sampler, process, locals, threads
<1>1. ASSUME NEW b \in Scopes \cup {None}, ChangeLimit(b) PROVE TypeOK'
  BY <1>1 DEF ChangeLimit
<1>2. ASSUME NEW l \in Levels, NEW n \in Bursts, Tick(l, n) PROVE TypeOK'
  <2>1. n \in Nat
    BY ConstantsAssumption
  <2>2. /\ counter' = [k \in Levels |-> IF k >= l THEN counter[k] + n ELSE counter[k]]
        /\ spent' = [k \in Levels |-> IF k >= l THEN spent[k] + n ELSE spent[k]]
        /\ now' = now + 1
    BY <1>2 DEF Tick
  <2>3. counter' \in [Levels -> Nat] /\ spent' \in [Levels -> Nat] /\ now' \in Nat
    BY <2>1, <2>2
  <2> QED BY <1>2, <2>3 DEF Tick
<1>3. ASSUME NEW l \in Levels, RestartCounter(l) PROVE TypeOK'
  BY <1>3 DEF RestartCounter
<1> QED BY <1>1, <1>2, <1>3 DEF Environment

LEMMA StepTyping == TypeOK /\ [Next]_vars => TypeOK'
<1> SUFFICES ASSUME TypeOK, [Next]_vars PROVE TypeOK'
  OBVIOUS
<1> USE DEF TypeOK, env, sampler, process, locals, threads, Goto, Labels
<1>1. CASE Environment
  BY <1>1, EnvironmentTyping
<1>2. ASSUME NEW t \in Threads, CallSample(t) PROVE TypeOK'
  BY <1>2 DEF CallSample, Begin
<1>3. ASSUME NEW t \in Threads, NEW i \in Intervals, CallMeasure(t, i) PROVE TypeOK'
  BY <1>3, ConstantsAssumption DEF CallMeasure, Begin
<1>4. ASSUME NEW t \in Threads, Wake(t) PROVE TypeOK'
  BY <1>4 DEF Wake
<1>5. ASSUME NEW t \in Threads, Evaluate(t) PROVE TypeOK'
  <2>1. CASE binding = None
    BY <1>5, <2>1, DeliverTyping DEF Evaluate
  <2>2. CASE binding # None
    <3> DEFINE r == [level |-> binding.level, limit |-> binding.limit,
                     usage |-> 0, takenAt |-> 0,
                     by |-> t, call |-> calls[t], era |-> era, spent |-> spent]
    <3>1. binding.level \in Levels /\ binding.limit \in Cores
      BY <2>2 DEF Scopes
    <3>2. r \in Readings
      BY <3>1 DEF Readings
    <3>3. r # None
      BY <3>2, NoneAssumption
    <3>4. reading' = [reading EXCEPT ![t] = r] /\ pc' = [pc EXCEPT ![t] = "count"]
      BY <1>5, <2>2 DEF Evaluate
    <3> HIDE DEF r
    <3> QED BY <1>5, <2>2, <3>2, <3>3, <3>4 DEF Evaluate
  <2> QED BY <2>1, <2>2
<1>6. ASSUME NEW t \in Threads, ReadUsage(t) PROVE TypeOK'
  <2>1. reading[t] \in Readings /\ reading[t].level \in Levels
    BY <1>6 DEF ReadUsage, Readings
  <2>2. CASE Deliver(t, None)
    BY <1>6, <2>2, DeliverTyping DEF ReadUsage
  <2>3. CASE ~Deliver(t, None)
    <3> DEFINE r == [reading[t] EXCEPT !.usage = counter[reading[t].level], !.spent = spent]
    <3>1. r \in Readings
      BY <2>1 DEF Readings
    <3>2. r # None
      BY <3>1, NoneAssumption
    <3>3. reading' = [reading EXCEPT ![t] = r] /\ pc' = [pc EXCEPT ![t] = "stamp"]
      BY <1>6, <2>3 DEF ReadUsage
    <3> HIDE DEF r
    <3> QED BY <1>6, <2>3, <3>1, <3>2, <3>3 DEF ReadUsage
  <2> QED BY <2>2, <2>3
<1>7. ASSUME NEW t \in Threads, Stamp(t) PROVE TypeOK'
  <2> DEFINE r == [reading[t] EXCEPT !.takenAt = now]
  <2>1. r \in Readings /\ Deliver(t, r)
    BY <1>7 DEF Stamp, Readings
  <2> HIDE DEF r
  <2> QED BY <1>7, <2>1, DeliverTyping DEF Stamp
<1>8. ASSUME NEW t \in Threads, Acquire(t) \/ Release(t) PROVE TypeOK'
  BY <1>8 DEF Acquire, Release
<1>9. ASSUME NEW t \in Threads, Load(t) \/ Store(t) PROVE TypeOK'
  BY <1>9 DEF Load, Store
<1>10. ASSUME NEW t \in Threads, Return(t) PROVE TypeOK'
  <2> DEFINE ratio == Outcome(baseline[t], reading[t])
             w == [op |-> op[t], start |-> baseline[t], end |-> reading[t], ratio |-> ratio]
  <2>1. CASE ratio = None
    BY <1>10, <2>1 DEF Return
  <2>2. CASE ratio # None
    <3>1. /\ baseline[t] \in Readings /\ reading[t] \in Readings
          /\ ratio \in Ratios /\ ratio.num <= ratio.den
      <4>1. baseline[t] \in Readings \cup {None} /\ reading[t] \in Readings \cup {None}
        OBVIOUS
      <4> QED BY ONLY <2>2, <4>1, RatioTyping
    <3>2. windows' = windows \cup {w}
      BY <1>10, <2>2 DEF Return
    <3> HIDE DEF ratio
    <3>3. /\ w \in [op : {"sample", "measure"}, start : Readings,
                     end : Readings, ratio : Ratios]
          /\ w.ratio.num <= w.ratio.den
      BY <3>1
    <3> HIDE DEF w
    <3> QED BY <1>10, <3>2, <3>3 DEF Return
  <2> QED BY <2>1, <2>2
<1>11. ASSUME NEW t \in Threads, Fork(t) PROVE TypeOK'
  BY <1>11 DEF Fork
<1>12. CASE UNCHANGED vars
  BY <1>12 DEF vars
<1> QED BY <1>1, <1>2, <1>3, <1>4, <1>5, <1>6, <1>7, <1>8, <1>9, <1>10, <1>11, <1>12
        DEF Next, Advance

(* Every variable keeps its type, and no reported ratio leaves [0, 1].     *)
THEOREM TypeCorrect == Spec => []TypeOK
<1>1. Init => TypeOK
  BY DEF Init, TypeOK, Labels
<1> QED BY <1>1, StepTyping, PTL DEF Spec

-----------------------------------------------------------------------------
(* Ownership of the baselines.                                             *)

(* A step that touches neither the slot nor the windows, begins no call    *)
(* and lets nobody hold a baseline who did not leaves every baseline where *)
(* it was.                                                                 *)
LEMMA NothingChangesHands ==
  ASSUME TypeOK, BaselineOwnership,
         UNCHANGED <<kept, windows, calls>>,
         \A u \in Threads : Underway(u)' => Underway(u),
         \A u \in Threads : Holding(u)' => Holding(u) /\ baseline'[u] = baseline[u]
  PROVE  BaselinesArePast' /\ BaselinesAreDistinct' /\ EachReadingBasesOneWindow'
<1>1. Sampled' = Sampled
  BY DEF Sampled
<1>2. ASSUME NEW r \in Readings, Past(r) PROVE Past(r)'
  <2>1. r.by \in Threads
    BY DEF Readings
  <2> QED BY <1>2, <2>1 DEF Past
<1>3. /\ kept # None => kept \in Readings
      /\ \A w \in Sampled : w.start \in Readings
      /\ \A u \in Threads : Holding(u) => baseline[u] \in Readings
  BY DEF TypeOK, Sampled, Holding
<1>4. BaselinesArePast'
  BY <1>1, <1>2, <1>3 DEF BaselineOwnership, BaselinesArePast
<1>5. BaselinesAreDistinct'
  BY <1>1 DEF BaselineOwnership, BaselinesAreDistinct, SameCall
<1>6. EachReadingBasesOneWindow'
  BY <1>1 DEF BaselineOwnership, EachReadingBasesOneWindow, SameCall
<1> QED BY <1>4, <1>5, <1>6

(* A reading handed over by _read_cpu() is still one of the call under way.*)
LEMMA DeliverKeepsOwnership ==
  ASSUME TypeOK, BaselineOwnership,
         NEW t \in Threads, NEW r,
         pc[t] \in {"evaluate", "count", "stamp"},
         r # None => r.by = t /\ r.call = calls[t],
         Deliver(t, r),
         UNCHANGED <<sampler, op, calls, windows>>
  PROVE  BaselineOwnership'
<1>1. LockProtectsTheSlot'
  BY DEF BaselineOwnership, LockProtectsTheSlot, Critical, Deliver, Goto, TypeOK, sampler
<1>2. ReadingsBelongToTheirCall'
  BY DEF BaselineOwnership, ReadingsBelongToTheirCall, Deliver, TypeOK
<1>3. \A u \in Threads : Underway(u)' => Underway(u)
  BY DEF Deliver, Goto, Underway, TypeOK
<1>4. \A u \in Threads : Holding(u)' => Holding(u) /\ baseline'[u] = baseline[u]
  BY DEF Deliver, Goto, Holding, TypeOK
<1> QED BY <1>1, <1>2, <1>3, <1>4, NothingChangesHands DEF BaselineOwnership, sampler

(* The steps of a call that hand no reading over.                          *)
LEMMA QuietStepsKeepOwnership ==
  ASSUME TypeOK, BaselineOwnership, NEW t \in Threads,
         Evaluate(t) \/ ReadUsage(t) \/ Stamp(t) \/ Wake(t)
           \/ Acquire(t) \/ Load(t) \/ Release(t)
  PROVE  BaselineOwnership'
<1> USE DEF TypeOK, BaselineOwnership, env, sampler, process, locals, Goto
<1>1. CASE Evaluate(t)
  <2>1. CASE binding = None
    BY <1>1, <2>1, DeliverKeepsOwnership DEF Evaluate
  <2>2. CASE binding # None
    <3>1. LockProtectsTheSlot' /\ ReadingsBelongToTheirCall'
      BY <1>1, <2>2 DEF Evaluate, LockProtectsTheSlot, ReadingsBelongToTheirCall, Critical
    <3>2. \A u \in Threads : Underway(u)' => Underway(u)
      BY <1>1, <2>2 DEF Evaluate, Underway
    <3>3. \A u \in Threads : Holding(u)' => Holding(u) /\ baseline'[u] = baseline[u]
      BY <1>1, <2>2 DEF Evaluate, Holding
    <3> QED BY <1>1, <3>1, <3>2, <3>3, NothingChangesHands DEF Evaluate
  <2> QED BY <2>1, <2>2
<1>2. CASE ReadUsage(t)
  <2>1. CASE Deliver(t, None)
    BY <1>2, <2>1, DeliverKeepsOwnership DEF ReadUsage
  <2>2. CASE ~Deliver(t, None)
    <3>1. /\ reading' = [reading EXCEPT ![t].usage = counter[reading[t].level], ![t].spent = spent]
          /\ pc' = [pc EXCEPT ![t] = "stamp"] /\ pc[t] = "count"
          /\ UNCHANGED <<baseline, kept, lock, op, calls, windows>>
      BY <1>2, <2>2 DEF ReadUsage
    <3>2. LockProtectsTheSlot'
      BY <3>1 DEF LockProtectsTheSlot, Critical
    <3>3. ReadingsBelongToTheirCall'
      <4>1. reading[t] \in Readings
        BY <3>1
      <4>2. reading'[t].by = reading[t].by /\ reading'[t].call = reading[t].call
        BY <3>1, <4>1 DEF Readings
      <4> QED BY <3>1, <4>1, <4>2, NoneAssumption DEF ReadingsBelongToTheirCall
    <3>4. \A u \in Threads : Underway(u)' => Underway(u)
      BY <3>1 DEF Underway
    <3>5. \A u \in Threads : Holding(u)' => Holding(u) /\ baseline'[u] = baseline[u]
      BY <3>1 DEF Holding
    <3> QED BY <3>1, <3>2, <3>3, <3>4, <3>5, NothingChangesHands
  <2> QED BY <2>1, <2>2
<1>3. CASE Stamp(t)
  <2> DEFINE r == [reading[t] EXCEPT !.takenAt = now]
  <2>1. reading[t] \in Readings /\ reading[t] # None
    BY <1>3 DEF Stamp
  <2>2. r.by = reading[t].by /\ r.call = reading[t].call
    BY <2>1 DEF Readings
  <2>3. r.by = t /\ r.call = calls[t]
    BY <2>1, <2>2 DEF ReadingsBelongToTheirCall
  <2>4. Deliver(t, r)
    BY <1>3 DEF Stamp
  <2> HIDE DEF r
  <2> QED BY <1>3, <2>3, <2>4, DeliverKeepsOwnership DEF Stamp
<1>4. ASSUME Wake(t) \/ Acquire(t) \/ Load(t) \/ Release(t)
      PROVE  BaselineOwnership'
  <2>1. LockProtectsTheSlot'
    BY <1>4, NoneAssumption DEF Wake, Acquire, Load, Release, LockProtectsTheSlot, Critical
  <2>2. ReadingsBelongToTheirCall'
    BY <1>4 DEF Wake, Acquire, Load, Release, ReadingsBelongToTheirCall
  <2>3. \A u \in Threads : Underway(u)' => Underway(u)
    BY <1>4 DEF Wake, Acquire, Load, Release, Underway
  <2>4. \A u \in Threads : Holding(u)' => Holding(u) /\ baseline'[u] = baseline[u]
    BY <1>4 DEF Wake, Acquire, Load, Release, Holding
  <2>5. UNCHANGED <<kept, windows, calls>>
    BY <1>4 DEF Wake, Acquire, Load, Release
  <2> QED BY <2>1, <2>2, <2>3, <2>4, <2>5, NothingChangesHands
<1> QED BY <1>1, <1>2, <1>3, <1>4

(* A new call makes every baseline there is one of an earlier call.        *)
LEMMA BeginKeepsOwnership ==
  ASSUME TypeOK, BaselineOwnership,
         NEW t \in Threads, NEW kind, NEW i, Begin(t, kind, i)
  PROVE  BaselineOwnership'
<1> USE DEF TypeOK, BaselineOwnership, env, sampler, process, locals, Goto
<1>1. /\ pc[t] = "idle" /\ reading[t] = None
      /\ pc' = [pc EXCEPT ![t] = "evaluate"] /\ op' = [op EXCEPT ![t] = kind]
      /\ calls' = [calls EXCEPT ![t] = @ + 1]
      /\ UNCHANGED <<kept, lock, reading, baseline, windows>>
  BY DEF Begin
<1>2. LockProtectsTheSlot'
  BY <1>1 DEF LockProtectsTheSlot, Critical
<1>3. ReadingsBelongToTheirCall'
  BY <1>1 DEF ReadingsBelongToTheirCall
<1>4. ASSUME NEW r \in Readings, Past(r) PROVE Past(r)'
  <2>1. r.by \in Threads /\ r.call \in Nat
    BY DEF Readings
  <2> QED BY <1>1, <1>4, <2>1 DEF Past, Underway
<1>5. Sampled' = Sampled /\ \A w \in Sampled : w.start \in Readings
  BY <1>1 DEF Sampled
<1>6. \A u \in Threads : Holding(u)' <=> Holding(u)
  BY <1>1 DEF Holding
<1>7. \A u \in Threads : Holding(u) => baseline[u] \in Readings
  BY DEF Holding
<1>8. BaselinesArePast'
  BY <1>1, <1>4, <1>5, <1>6, <1>7 DEF BaselinesArePast
<1>9. BaselinesAreDistinct' /\ EachReadingBasesOneWindow'
  BY <1>1, <1>5, <1>6 DEF BaselinesAreDistinct, EachReadingBasesOneWindow, SameCall
<1> QED BY <1>2, <1>3, <1>8, <1>9

(* The exchange: the reading of this call takes the place of the baseline  *)
(* it took, and no baseline is from this call yet.                         *)
LEMMA StoreKeepsOwnership ==
  ASSUME TypeOK, BaselineOwnership, NEW t \in Threads, Store(t)
  PROVE  BaselineOwnership'
<1> USE DEF TypeOK, BaselineOwnership, env, sampler, process, locals, Goto
<1>1. /\ pc[t] = "store" /\ pc' = [pc EXCEPT ![t] = "release"]
      /\ kept' = IF reading[t] # None THEN reading[t] ELSE kept
      /\ UNCHANGED <<lock, op, reading, baseline, calls, windows>>
  BY DEF Store
<1>2. op[t] = "sample" /\ baseline[t] = kept
  BY <1>1 DEF LockProtectsTheSlot, Critical
<1>3. LockProtectsTheSlot'
  BY <1>1 DEF LockProtectsTheSlot, Critical
<1>4. ReadingsBelongToTheirCall'
  BY <1>1 DEF ReadingsBelongToTheirCall
<1>5. Sampled' = Sampled /\ \A w \in Sampled : w.start \in Readings
  BY <1>1 DEF Sampled
<1>6. \A r \in Readings : Past(r) => Past(r)'
  BY <1>1 DEF Past, Underway, Readings
<1>7. /\ \A u \in Threads \ {t} : Holding(u)' <=> Holding(u)
      /\ ~Holding(t)
      /\ Holding(t)' <=> kept # None /\ reading[t] # None
  BY <1>1, <1>2 DEF Holding
<1>8. \A u \in Threads : Holding(u) => baseline[u] \in Readings
  BY DEF Holding
<1>9. EachReadingBasesOneWindow'
  BY <1>5 DEF EachReadingBasesOneWindow, SameCall
<1>10. CASE reading[t] = None
  <2>1. BaselinesArePast'
    BY <1>1, <1>5, <1>6, <1>7, <1>8, <1>10 DEF BaselinesArePast
  <2>2. BaselinesAreDistinct'
    BY <1>1, <1>5, <1>7, <1>10 DEF BaselinesAreDistinct, SameCall
  <2> QED BY <1>3, <1>4, <1>9, <2>1, <2>2
<1>11. CASE reading[t] # None
  <2>1. reading[t].by = t /\ reading[t].call = calls[t] /\ kept' = reading[t]
    BY <1>1, <1>11 DEF ReadingsBelongToTheirCall
  <2>2. Past(kept)'
    <3>1. calls'[t] = calls[t] /\ calls[t] \in Nat /\ pc'[t] = "release"
      BY <1>1
    <3>2. ~Underway(t)'
      BY <3>1 DEF Underway
    <3>3. kept'.by = t /\ kept'.call = calls[t]
      BY <2>1
    <3> QED BY <2>1, <3>1, <3>2, <3>3 DEF Past
  <2>3. \A r \in Readings : Past(r) => ~SameCall(r, reading[t])
    BY <1>1, <2>1 DEF Past, Underway, SameCall, Readings
  <2>4. BaselinesArePast'
    BY <1>1, <1>2, <1>5, <1>6, <1>7, <1>8, <2>2 DEF BaselinesArePast
  <2>5. BaselinesAreDistinct'
    <3>1. /\ \A w \in Sampled : ~SameCall(w.start, kept')
          /\ \A u \in Threads : Holding(u) => ~SameCall(baseline[u], kept')
          /\ kept # None => ~SameCall(kept, kept')
      BY <1>5, <1>8, <2>1, <2>3 DEF BaselinesArePast
    <3>2. SameCall(kept, kept)
      BY DEF SameCall
    <3>3. kept' # None => /\ \A w \in Sampled' : ~SameCall(w.start, kept')
                          /\ \A u \in Threads : Holding(u)' => ~SameCall(baseline'[u], kept')
      BY <1>1, <1>2, <1>5, <1>7, <3>1
    <3>4. ASSUME NEW u \in Threads, Holding(u)', NEW w \in Sampled'
          PROVE  ~SameCall(baseline'[u], w.start)
      BY <1>1, <1>2, <1>5, <1>7, <3>4 DEF BaselinesAreDistinct, SameCall
    <3>5. ASSUME NEW u \in Threads, NEW v \in Threads \ {u}, Holding(u)', Holding(v)'
          PROVE  ~SameCall(baseline'[u], baseline'[v])
      BY <1>1, <1>2, <1>7, <3>5 DEF BaselinesAreDistinct, SameCall
    <3> QED BY <3>3, <3>4, <3>5 DEF BaselinesAreDistinct, SameCall
  <2> QED BY <1>3, <1>4, <1>9, <2>4, <2>5
<1> QED BY <1>10, <1>11

(* A returning call gives the baseline it held to its window.              *)
LEMMA ReturnKeepsOwnership ==
  ASSUME TypeOK, BaselineOwnership, NEW t \in Threads, Return(t)
  PROVE  BaselineOwnership'
<1> USE DEF TypeOK, BaselineOwnership, env, sampler, process, locals, Goto
<1> DEFINE ratio == Outcome(baseline[t], reading[t])
           w0 == [op |-> op[t], start |-> baseline[t], end |-> reading[t], ratio |-> ratio]
<1>1. /\ pc[t] = "return" /\ pc' = [pc EXCEPT ![t] = "idle"]
      /\ reading' = [reading EXCEPT ![t] = None]
      /\ baseline' = [baseline EXCEPT ![t] = None]
      /\ windows' = IF ratio = None THEN windows ELSE windows \cup {w0}
      /\ UNCHANGED <<kept, lock, op, calls>>
  BY DEF Return
<1>2. LockProtectsTheSlot'
  BY <1>1 DEF LockProtectsTheSlot, Critical
<1>3. ReadingsBelongToTheirCall'
  BY <1>1 DEF ReadingsBelongToTheirCall
<1>4. \A r \in Readings : Past(r) => Past(r)'
  BY <1>1 DEF Past, Underway, Readings
<1>5. /\ \A u \in Threads : Holding(u)' => u # t /\ Holding(u)
      /\ \A u \in Threads : u # t => baseline'[u] = baseline[u]
  BY <1>1 DEF Holding
<1>6. /\ \A u \in Threads : Holding(u) => baseline[u] \in Readings
      /\ \A w \in Sampled : w.start \in Readings
  BY DEF Holding, Sampled
<1>7. ASSUME NEW w \in Sampled', w \notin Sampled
      PROVE  w = w0 /\ w.start = baseline[t] /\ Holding(t)
  <2>1. ratio # None => baseline[t] # None /\ reading[t] # None
    BY RatioTyping
  <2> HIDE DEF ratio
  <2>2. ratio # None /\ w = w0
    BY <1>1, <1>7 DEF Sampled
  <2>3. w.start = baseline[t] /\ op[t] = "sample"
    BY <1>7, <2>2 DEF Sampled
  <2> QED BY <1>1, <2>1, <2>2, <2>3 DEF Holding
<1> HIDE DEF ratio, w0
<1>8. BaselinesArePast'
  BY <1>1, <1>4, <1>5, <1>6, <1>7 DEF BaselinesArePast
<1>9. BaselinesAreDistinct'
  <2>1. ASSUME NEW w \in Sampled' PROVE kept # None => ~SameCall(w.start, kept)
    BY <1>7, <2>1 DEF BaselinesAreDistinct
  <2>2. ASSUME NEW u \in Threads, Holding(u)', NEW w \in Sampled'
        PROVE  ~SameCall(baseline'[u], w.start)
    BY <1>5, <1>7, <2>2 DEF BaselinesAreDistinct
  <2> QED BY <1>1, <1>5, <2>1, <2>2 DEF BaselinesAreDistinct, SameCall
<1>10. EachReadingBasesOneWindow'
  <2> SUFFICES ASSUME NEW v \in Sampled', NEW w \in Sampled', SameCall(v.start, w.start)
               PROVE  v = w
    BY DEF EachReadingBasesOneWindow, SameCall
  <2>1. CASE v \in Sampled /\ w \in Sampled
    BY <2>1 DEF EachReadingBasesOneWindow
  <2>2. CASE v \notin Sampled /\ w \notin Sampled
    BY <1>7, <2>2
  <2>3. CASE v \notin Sampled /\ w \in Sampled
    BY <1>7, <2>3 DEF BaselinesAreDistinct, SameCall
  <2>4. CASE v \in Sampled /\ w \notin Sampled
    BY <1>7, <2>4 DEF BaselinesAreDistinct, SameCall
  <2> QED BY <2>1, <2>2, <2>3, <2>4
<1> QED BY <1>2, <1>3, <1>8, <1>9, <1>10

LEMMA OwnershipStep == TypeOK /\ BaselineOwnership /\ [Next]_vars => BaselineOwnership'
<1> SUFFICES ASSUME TypeOK, BaselineOwnership, [Next]_vars PROVE BaselineOwnership'
  OBVIOUS
<1>1. ASSUME Environment \/ (\E t \in Threads : Fork(t)) \/ UNCHANGED vars
      PROVE  BaselineOwnership'
  <2>1. UNCHANGED <<sampler, pc, locals, calls, windows>>
    BY <1>1 DEF Environment, ChangeLimit, Tick, RestartCounter, Fork, vars, threads, process
  <2>2. LockProtectsTheSlot' /\ ReadingsBelongToTheirCall'
    BY <2>1 DEF BaselineOwnership, LockProtectsTheSlot, ReadingsBelongToTheirCall,
                Critical, sampler, process, locals
  <2>3. \A u \in Threads : Underway(u)' => Underway(u)
    BY <2>1 DEF Underway
  <2>4. \A u \in Threads : Holding(u)' => Holding(u) /\ baseline'[u] = baseline[u]
    BY <2>1 DEF Holding, locals
  <2> QED BY <2>1, <2>2, <2>3, <2>4, NothingChangesHands
          DEF BaselineOwnership, sampler
<1>2. ASSUME NEW t \in Threads, CallSample(t) \/ \E i \in Intervals : CallMeasure(t, i)
      PROVE  BaselineOwnership'
  BY <1>2, BeginKeepsOwnership DEF CallSample, CallMeasure
<1>3. ASSUME NEW t \in Threads, Wake(t) \/ Advance(t) PROVE BaselineOwnership'
  BY <1>3, QuietStepsKeepOwnership, StoreKeepsOwnership, ReturnKeepsOwnership DEF Advance
<1> QED BY <1>1, <1>2, <1>3 DEF Next

(* However many threads share a CpuLoad, the invariant of its slot holds.  *)
THEOREM OwnershipCorrect == Spec => []BaselineOwnership
<1>1. Init => BaselineOwnership
  BY NoneAssumption DEF Init, BaselineOwnership, LockProtectsTheSlot, Critical,
     ReadingsBelongToTheirCall, BaselinesArePast, BaselinesAreDistinct, Holding,
     EachReadingBasesOneWindow, Sampled
<1> QED BY <1>1, OwnershipStep, TypeCorrect, PTL DEF Spec

(* No reading left in the slot starts the windows of two samples: the same *)
(* consumed time is not handed to two callers through one baseline.        *)
THEOREM EachReadingOnce == Spec => []EachReadingBasesOneWindow
<1>1. BaselineOwnership => EachReadingBasesOneWindow
  BY DEF BaselineOwnership
<1> QED BY <1>1, OwnershipCorrect, PTL

-----------------------------------------------------------------------------
(* Implementing the slot exchanged in one step.                            *)

LEMMA SlotStep ==
  ASSUME TypeOK, TypeOK', BaselineOwnership, [Next]_vars
  PROVE  [Sampler!Next]_(Sampler!vars)
<1> DEFINE stage == [t \in Threads |-> StageOf(t)]
           offered == [t \in Threads |-> OfferOf(t)]
           got == [t \in Threads |-> GotOf(t)]
<1> USE DEF TypeOK, env, sampler, process, locals, Goto, StageOf, OfferOf, GotOf, AtSlot, PastSlot
<1>1. ASSUME Environment \/ (\E t \in Threads : Fork(t)) \/ UNCHANGED vars
      PROVE  UNCHANGED Sampler!vars
  <2>1. UNCHANGED <<kept, stage, offered, got>>
    BY <1>1 DEF Environment, ChangeLimit, Tick, RestartCounter, Fork, vars, threads
  <2> QED BY <2>1 DEF Sampler!vars
<1>2. ASSUME NEW t \in Threads, NEW kind, NEW i, Begin(t, kind, i)
      PROVE  UNCHANGED Sampler!vars
  BY <1>2 DEF Begin, Sampler!vars
<1>3. ASSUME NEW t \in Threads, Wake(t) \/ Acquire(t) \/ Load(t) \/ Release(t)
      PROVE  UNCHANGED Sampler!vars
  BY <1>3 DEF Wake, Acquire, Load, Release, Sampler!vars
<1>4. ASSUME NEW t \in Threads, NEW r \in Readings \cup {None}, Deliver(t, r),
             pc[t] \in {"evaluate", "count", "stamp"}, UNCHANGED <<kept, op>>
      PROVE  Sampler!Next \/ UNCHANGED Sampler!vars
  <2>1. CASE op[t] = "sample"
    <3>1. /\ pc' = [pc EXCEPT ![t] = "acquire"]
          /\ reading' = [reading EXCEPT ![t] = r] /\ baseline' = baseline
      BY <1>4, <2>1 DEF Deliver
    <3>2. stage[t] = "away" /\ stage' = [stage EXCEPT ![t] = "offered"]
      BY <1>4, <2>1, <3>1
    <3>3. offered' = [offered EXCEPT ![t] = r] /\ got' = got
      BY <1>4, <2>1, <3>1
    <3>4. offered'[t] = r
      BY <1>4, <2>1, <3>1
    <3> HIDE DEF stage, offered, got
    <3>5. Sampler!Offer(t)
      BY <1>4, <3>2, <3>3, <3>4 DEF Sampler!Offer, stage, offered, got
    <3> QED BY <3>5 DEF Sampler!Next
  <2>2. CASE op[t] # "sample"
    BY <1>4, <2>2 DEF Deliver, Sampler!vars
  <2> QED BY <2>1, <2>2
<1>5. ASSUME NEW t \in Threads, Evaluate(t) PROVE Sampler!Next \/ UNCHANGED Sampler!vars
  <2>1. CASE binding = None
    BY <1>4, <1>5, <2>1 DEF Evaluate
  <2>2. CASE binding # None
    BY <1>5, <2>2 DEF Evaluate, Sampler!vars
  <2> QED BY <2>1, <2>2
<1>6. ASSUME NEW t \in Threads, ReadUsage(t) PROVE Sampler!Next \/ UNCHANGED Sampler!vars
  <2>1. CASE Deliver(t, None)
    BY <1>4, <1>6, <2>1 DEF ReadUsage
  <2>2. CASE ~Deliver(t, None)
    BY <1>6, <2>2 DEF ReadUsage, Sampler!vars
  <2> QED BY <2>1, <2>2
<1>7. ASSUME NEW t \in Threads, Stamp(t) PROVE Sampler!Next \/ UNCHANGED Sampler!vars
  <2>1. [reading[t] EXCEPT !.takenAt = now] \in Readings
    BY <1>7 DEF Stamp, Readings
  <2> QED BY <1>4, <1>7, <2>1 DEF Stamp
<1>8. ASSUME NEW t \in Threads, Store(t) PROVE Sampler!Next
  <2>1. op[t] = "sample" /\ baseline[t] = kept
    BY <1>8 DEF Store, BaselineOwnership, LockProtectsTheSlot, Critical
  <2>2. /\ pc[t] = "store" /\ pc' = [pc EXCEPT ![t] = "release"]
        /\ kept' = IF reading[t] # None THEN reading[t] ELSE kept
        /\ UNCHANGED <<op, reading, baseline>>
    BY <1>8 DEF Store
  <2>3. stage[t] = "offered" /\ stage' = [stage EXCEPT ![t] = "exchanged"]
    BY <2>1, <2>2
  <2>4. offered' = offered /\ offered[t] = reading[t] /\ got' = [got EXCEPT ![t] = kept]
    BY <2>1, <2>2
  <2> HIDE DEF stage, offered, got
  <2>5. Sampler!Exchange(t)
    BY <2>2, <2>3, <2>4 DEF Sampler!Exchange, stage, offered, got
  <2> QED BY <2>5 DEF Sampler!Next
<1>9. ASSUME NEW t \in Threads, Return(t) PROVE Sampler!Next \/ UNCHANGED Sampler!vars
  <2>1. /\ pc[t] = "return" /\ pc' = [pc EXCEPT ![t] = "idle"]
        /\ reading' = [reading EXCEPT ![t] = None]
        /\ baseline' = [baseline EXCEPT ![t] = None]
        /\ UNCHANGED <<kept, op>>
    BY <1>9 DEF Return
  <2>2. CASE op[t] = "sample"
    <3>1. stage[t] = "exchanged" /\ stage' = [stage EXCEPT ![t] = "away"]
      BY <2>1, <2>2
    <3>2. offered' = [offered EXCEPT ![t] = None] /\ got' = [got EXCEPT ![t] = None]
      BY <2>1, <2>2
    <3> HIDE DEF stage, offered, got
    <3>3. Sampler!Leave(t)
      BY <2>1, <3>1, <3>2 DEF Sampler!Leave, stage, offered, got
    <3> QED BY <3>3 DEF Sampler!Next
  <2>3. CASE op[t] # "sample"
    BY <2>1, <2>3 DEF Sampler!vars
  <2> QED BY <2>2, <2>3
<1> QED BY <1>1, <1>2, <1>3, <1>5, <1>6, <1>7, <1>8, <1>9
        DEF Next, Advance, CallSample, CallMeasure

(* Threads sharing a CpuLoad see a slot exchanged in one step: its loads,  *)
(* stores and lock implement AtomicSampler.                                *)
THEOREM SharingImplementsTheSlot == Spec => SharesOneSlot
<1>1. Init => Sampler!Init
  BY DEF Init, Sampler!Init, StageOf, OfferOf, GotOf, AtSlot, PastSlot
<1>2. TypeOK /\ TypeOK' /\ BaselineOwnership /\ [Next]_vars
      => [Sampler!Next]_(Sampler!vars)
  BY SlotStep
<1> QED BY <1>1, <1>2, TypeCorrect, OwnershipCorrect, PTL
        DEF Spec, SharesOneSlot, Sampler!Spec

-----------------------------------------------------------------------------
(* Sleeping out an interval.                                               *)

(* A one-shot call counts a second time once the clock shows its interval  *)
(* over, or so nearly over that the clock cannot tell, and so has two      *)
(* readings that far apart.                                                *)
ShotOf(t) ==
  op[t] = "measure" /\ pc[t] # "idle" =>
    /\ pc[t] \in {"evaluate", "count", "stamp", "sleep", "return"}
    /\ pc[t] \in {"evaluate", "count", "stamp"} /\ baseline[t] # None =>
         now + Resolution > baseline[t].takenAt + interval[t]
    /\ pc[t] = "return" /\ reading[t] # None =>
         baseline[t] # None /\ reading[t].takenAt + Resolution > baseline[t].takenAt + interval[t]

OneShot == \A t \in Threads : ShotOf(t)

(* What was over stays over.                                               *)
LEMMA StillOver ==
  ASSUME NEW a \in Nat, NEW b \in Nat, NEW c \in Nat, NEW d \in Nat, d >= a,
         a + Resolution > b + c
  PROVE  d + Resolution > b + c
BY ConstantsAssumption

LEMMA TimePasses ==
  ASSUME TypeOK, [Next]_vars
  PROVE  now \in Nat /\ now' \in Nat /\ now <= now'
<1>1. now \in Nat
  BY DEF TypeOK
<1>2. CASE \E l \in Levels, n \in Bursts : Tick(l, n)
  BY <1>1, <1>2 DEF Tick
<1>3. CASE UNCHANGED now
  BY <1>1, <1>3
<1> QED BY <1>2, <1>3
        DEF Next, Environment, ChangeLimit, RestartCounter, Fork, CallSample, CallMeasure,
            Begin, Wake, Advance, Evaluate, ReadUsage, Stamp, Acquire, Load, Store, Release,
            Return, env, vars

(* Whatever moves, a thread that stands still keeps its readings.          *)
LEMMA ShotStands ==
  ASSUME TypeOK, NEW t \in Threads, ShotOf(t), now' \in Nat, now <= now',
         op'[t] = op[t], pc'[t] = pc[t], interval'[t] = interval[t],
         reading'[t] = reading[t], baseline'[t] = baseline[t]
  PROVE  ShotOf(t)'
<1>1. baseline[t] # None => baseline[t].takenAt \in Nat
  BY DEF TypeOK, Readings
<1>2. now \in Nat /\ interval[t] \in Nat
  BY DEF TypeOK
<1>3. baseline[t] # None /\ now + Resolution > baseline[t].takenAt + interval[t] =>
        now' + Resolution > baseline[t].takenAt + interval[t]
  BY <1>1, <1>2, StillOver
<1> QED BY <1>3 DEF ShotOf

(* A reading is delivered with the time of its delivery.                   *)
LEMMA DeliverShot ==
  ASSUME TypeOK, NEW t \in Threads, ShotOf(t),
         pc[t] \in {"evaluate", "count", "stamp"}, UNCHANGED <<op, interval, now>>,
         NEW r \in Readings \cup {None}, r # None => r.takenAt = now,
         Deliver(t, r)
  PROVE  ShotOf(t)'
<1> SUFFICES ASSUME op'[t] = "measure" PROVE ShotOf(t)'
  BY DEF ShotOf
<1> DEFINE first == baseline[t] = None
<1>1. /\ op[t] = "measure"
      /\ baseline[t] # None => now + Resolution > baseline[t].takenAt + interval[t]
  BY DEF ShotOf
<1>2. CASE first
  <2>1. reading'[t] = None /\ pc'[t] \in {"sleep", "return"}
    BY <1>1, <1>2 DEF Deliver, Goto, TypeOK
  <2> QED BY <1>1, <2>1 DEF ShotOf
<1>3. CASE ~first
  <2>1. reading'[t] = r /\ baseline'[t] = baseline[t] /\ pc'[t] = "return"
    BY <1>1, <1>3 DEF Deliver, Goto, TypeOK
  <2> QED BY <1>1, <1>3, <2>1 DEF ShotOf
<1> QED BY <1>2, <1>3

LEMMA OneShotStep == TypeOK /\ BaselineOwnership /\ OneShot /\ [Next]_vars => OneShot'
<1> SUFFICES ASSUME TypeOK, BaselineOwnership, OneShot, [Next]_vars, NEW t \in Threads
             PROVE  ShotOf(t)'
  BY DEF OneShot
<1>1. ShotOf(t) /\ now \in Nat /\ now' \in Nat /\ now <= now'
  BY TimePasses DEF OneShot
<1>2. ASSUME op'[t] = op[t], pc'[t] = pc[t], interval'[t] = interval[t],
             reading'[t] = reading[t], baseline'[t] = baseline[t]
      PROVE  ShotOf(t)'
  BY <1>1, <1>2, ShotStands
<1> USE DEF env, sampler, process, locals, Goto
<1>3. CASE Environment \/ (\E u \in Threads : Fork(u)) \/ UNCHANGED vars
  BY <1>2, <1>3
  DEF Environment, ChangeLimit, Tick, RestartCounter, Fork, vars, threads
<1>4. ASSUME NEW u \in Threads, u # t, NEW kind, NEW i, Begin(u, kind, i)
      PROVE  ShotOf(t)'
  BY <1>2, <1>4 DEF Begin, TypeOK
<1>5. ASSUME NEW u \in Threads, u # t, Wake(u) \/ Advance(u)
      PROVE  ShotOf(t)'
  BY <1>2, <1>5
  DEF Wake, Advance, Evaluate, ReadUsage, Stamp, Deliver, Acquire, Load, Store, Release,
      Return, TypeOK
<1>6. CASE CallSample(t)
  BY <1>6 DEF CallSample, Begin, ShotOf, TypeOK
<1>7. ASSUME NEW i \in Intervals, CallMeasure(t, i) PROVE ShotOf(t)'
  <2>1. pc'[t] = "evaluate" /\ baseline'[t] = None
    BY <1>7 DEF CallMeasure, Begin, TypeOK
  <2> QED BY <2>1 DEF ShotOf
<1>8. CASE Wake(t)
  <2>1. /\ pc[t] = "sleep" /\ pc'[t] = "evaluate"
        /\ now + Resolution > baseline[t].takenAt + interval[t]
        /\ UNCHANGED <<now, op, interval, reading, baseline>>
    BY <1>8 DEF Wake, TypeOK
  <2> QED BY <1>1, <2>1 DEF ShotOf
<1>9. CASE Evaluate(t)
  <2>1. CASE binding = None
    BY <1>1, <1>9, <2>1, DeliverShot DEF Evaluate
  <2>2. CASE binding # None
    <3>1. /\ pc[t] = "evaluate" /\ pc'[t] = "count"
          /\ UNCHANGED <<now, op, interval, baseline>>
      BY <1>9, <2>2 DEF Evaluate, TypeOK
    <3> QED BY <1>1, <3>1 DEF ShotOf
  <2> QED BY <2>1, <2>2
<1>10. CASE ReadUsage(t)
  <2>1. CASE Deliver(t, None)
    BY <1>1, <1>10, <2>1, DeliverShot DEF ReadUsage
  <2>2. CASE ~Deliver(t, None)
    <3>1. /\ pc[t] = "count" /\ pc'[t] = "stamp"
          /\ UNCHANGED <<now, op, interval, baseline>>
      BY <1>10, <2>2 DEF ReadUsage, TypeOK
    <3> QED BY <1>1, <3>1 DEF ShotOf
  <2> QED BY <2>1, <2>2
<1>11. CASE Stamp(t)
  <2> DEFINE r == [reading[t] EXCEPT !.takenAt = now]
  <2>1. r \in Readings /\ r.takenAt = now
    BY <1>11 DEF Stamp, Readings, TypeOK
  <2> HIDE DEF r
  <2>2. Deliver(t, r) /\ pc[t] = "stamp" /\ UNCHANGED <<op, interval, now>>
    BY <1>11 DEF Stamp, r
  <2> QED BY <1>1, <2>1, <2>2, DeliverShot
<1>12. CASE Acquire(t) \/ Load(t) \/ Store(t) \/ Release(t)
  <2>1. op[t] = "sample" /\ op'[t] = op[t]
    BY <1>12
    DEF Acquire, Load, Store, Release, BaselineOwnership, LockProtectsTheSlot, Critical
  <2> QED BY <2>1 DEF ShotOf
<1>13. CASE Return(t)
  BY <1>13 DEF Return, ShotOf, TypeOK
<1> QED BY <1>3, <1>4, <1>5, <1>6, <1>7, <1>8, <1>9, <1>10, <1>11, <1>12, <1>13
        DEF Next, Advance, CallSample, CallMeasure

(* A one-shot measurement that took two readings is long enough to report, *)
(* where its interval outlasts what the clock cannot tell apart            *)
(* (get_cpu_used_ratio(), its asyncio twin and _used_ratio()).             *)
THEOREM MeasuredIsLongEnough == Spec => []MeasuredPairIsLongEnough
<1>1. Init => OneShot
  BY DEF Init, OneShot, ShotOf
<1>2. Spec => []OneShot
  BY <1>1, OneShotStep, TypeCorrect, OwnershipCorrect, PTL DEF Spec
<1>3. TypeOK /\ OneShot => MeasuredPairIsLongEnough
  <2> SUFFICES ASSUME TypeOK, OneShot, NEW t \in Threads,
                      pc[t] = "return", op[t] = "measure", reading[t] # None,
                      OutlastsTheClock(interval[t])
               PROVE  Measurable(baseline[t], reading[t])
    BY DEF MeasuredPairIsLongEnough
  <2>1. /\ baseline[t] # None /\ ShortestWindow + Resolution <= interval[t] + 1
        /\ reading[t].takenAt + Resolution > baseline[t].takenAt + interval[t]
    BY DEF OneShot, ShotOf, OutlastsTheClock
  <2>2. /\ reading[t].takenAt \in Nat /\ baseline[t].takenAt \in Nat
        /\ interval[t] \in Nat /\ ShortestWindow \in Nat /\ Resolution \in Nat
        /\ reading[t].limit \in Nat /\ reading[t].limit > 0
    <3>1. reading[t] \in Readings /\ baseline[t] \in Readings /\ interval[t] \in Nat
      BY <2>1 DEF TypeOK
    <3>2. reading[t].limit \in Nat \ {0} /\ ShortestWindow \in Nat /\ Resolution \in Nat
      BY <3>1, ConstantsAssumption DEF Readings
    <3> QED BY <3>1, <3>2 DEF Readings
  <2> QED BY <2>1, <2>2 DEF Measurable
<1> QED BY <1>2, <1>3, TypeCorrect, PTL

-----------------------------------------------------------------------------
(* The limit a reading was taken under.                                    *)

(* The readings that can still end up in a window.                         *)
Live == ({kept} \cup {reading[t] : t \in Threads} \cup {baseline[t] : t \in Threads}) \ {None}

Scope(r) == [level |-> r.level, limit |-> r.limit]

(* Readings of one era were taken under one limit, and those of an era and *)
(* the next under two that differ.                                         *)
EraOfTheReadings ==
  /\ \A r \in Live :
       /\ r.era <= era
       /\ r.era = era => Scope(r) = binding
       /\ r.era + 1 = era => Scope(r) # binding
  /\ \A r, s \in Live : s.era = r.era + 1 => Scope(s) # Scope(r)

EraOfTheLimit == EraOfTheReadings /\ OneChangeVoidsTheWindow

LEMMA LiveReadings == TypeOK => Live \subseteq Readings
BY DEF TypeOK, Live

(* Copying readings, and taking one of the limit in force.                 *)
LEMMA EraStands ==
  ASSUME TypeOK, EraOfTheReadings, UNCHANGED <<era, binding>>,
         \A r \in Live' :
           \/ \E s \in Live : r.era = s.era /\ r.level = s.level /\ r.limit = s.limit
           \/ r.era = era /\ Scope(r) = binding
  PROVE  EraOfTheReadings'
<1>1. /\ era \in Nat /\ \A s \in Live : s.era \in Nat
      /\ \A s \in Live : s.era <= era
  BY LiveReadings DEF TypeOK, Readings, EraOfTheReadings
<1>2. ASSUME NEW r \in Live'
      PROVE  /\ r.era \in Nat /\ r.era <= era
             /\ r.era = era => Scope(r) = binding
             /\ r.era + 1 = era => Scope(r) # binding
  <2>1. CASE r.era = era /\ Scope(r) = binding
    BY <1>1, <2>1
  <2>2. ASSUME NEW s \in Live, r.era = s.era, r.level = s.level, r.limit = s.limit
        PROVE  /\ r.era \in Nat /\ r.era <= era
               /\ r.era = era => Scope(r) = binding
               /\ r.era + 1 = era => Scope(r) # binding
    BY <1>1, <2>2 DEF EraOfTheReadings, Scope
  <2> QED BY <1>2, <2>1, <2>2
<1>3. ASSUME NEW r \in Live', NEW s \in Live', s.era = r.era + 1
      PROVE  Scope(s) # Scope(r)
  <2>1. CASE s.era = era /\ Scope(s) = binding
    BY <1>2, <1>3, <2>1
  <2>2. ASSUME NEW a \in Live, s.era = a.era, s.level = a.level, s.limit = a.limit
        PROVE  Scope(s) # Scope(r)
    <3>1. r.era # era
      BY <1>1, <1>3, <2>2
    <3>2. PICK b \in Live : r.era = b.era /\ r.level = b.level /\ r.limit = b.limit
      BY <1>3, <3>1
    <3>3. Scope(a) # Scope(b)
      BY <1>3, <2>2, <3>2 DEF EraOfTheReadings
    <3> QED BY <2>2, <3>2, <3>3 DEF Scope
  <2> QED BY <1>3, <2>1, <2>2
<1> QED BY <1>2, <1>3 DEF EraOfTheReadings, Scope

LEMMA ChangeEra ==
  ASSUME TypeOK, EraOfTheReadings, NEW b \in Scopes \cup {None}, ChangeLimit(b)
  PROVE  EraOfTheReadings'
<1>1. /\ b # binding /\ binding' = b /\ era' = era + 1 /\ Live' = Live
  BY DEF ChangeLimit, threads, sampler, locals, Live
<1>2. /\ era \in Nat /\ \A r \in Live : r.era \in Nat
  BY LiveReadings DEF TypeOK, Readings
<1>3. ASSUME NEW r \in Live
      PROVE  /\ r.era <= era + 1 /\ r.era # era + 1
             /\ r.era + 1 = era + 1 => Scope(r) # b
  BY <1>1, <1>2 DEF EraOfTheReadings
<1> QED BY <1>1, <1>3 DEF EraOfTheReadings, Scope

LEMMA DeliverLive ==
  ASSUME TypeOK, NEW t \in Threads, NEW r, Deliver(t, r), UNCHANGED kept
  PROVE  Live' \subseteq Live \cup ({r} \ {None})
<1>1. \A u \in Threads : /\ reading'[u] \in {reading[u], r, None}
                         /\ baseline'[u] \in {baseline[u], r}
  BY DEF Deliver, TypeOK
<1> QED BY <1>1 DEF Live

LEMMA EraStep == TypeOK /\ EraOfTheReadings /\ [Next]_vars => EraOfTheReadings'
<1> SUFFICES ASSUME TypeOK, EraOfTheReadings, [Next]_vars PROVE EraOfTheReadings'
  OBVIOUS
<1> USE DEF env, sampler, process, locals, Goto
<1>1. ASSUME Live' \subseteq Live, UNCHANGED <<era, binding>> PROVE EraOfTheReadings'
  BY <1>1, EraStands
<1>2. ASSUME NEW b \in Scopes \cup {None}, ChangeLimit(b) PROVE EraOfTheReadings'
  BY <1>2, ChangeEra
<1>3. ASSUME \/ \E l \in Levels, n \in Bursts : Tick(l, n)
             \/ \E l \in Levels : RestartCounter(l)
             \/ \E t \in Threads : \/ Fork(t) \/ CallSample(t) \/ Wake(t)
                                   \/ \E i \in Intervals : CallMeasure(t, i)
                                   \/ Acquire(t) \/ Release(t)
             \/ UNCHANGED vars
      PROVE  EraOfTheReadings'
  <2>1. UNCHANGED <<kept, reading, baseline, era, binding>>
    BY <1>3
    DEF Tick, RestartCounter, Fork, CallSample, CallMeasure, Begin, Wake, Acquire, Release,
        vars, threads
  <2> QED BY <1>1, <2>1 DEF Live
<1>4. ASSUME NEW t \in Threads, Load(t) \/ Store(t) \/ Return(t) PROVE EraOfTheReadings'
  <2>1. UNCHANGED <<era, binding>>
    BY <1>4 DEF Load, Store, Return
  <2>2. /\ kept' \in {kept, reading[t]} /\ \A u \in Threads :
             /\ reading'[u] \in {reading[u], None}
             /\ baseline'[u] \in {baseline[u], kept, None}
    BY <1>4 DEF Load, Store, Return, TypeOK
  <2>3. Live' \subseteq Live
    BY <2>2 DEF Live
  <2> QED BY <1>1, <2>1, <2>3
<1>5. ASSUME NEW t \in Threads, Evaluate(t) PROVE EraOfTheReadings'
  <2>1. CASE binding = None
    <3>1. Live' \subseteq Live \cup ({None} \ {None}) /\ UNCHANGED <<era, binding>>
      BY <1>5, <2>1, DeliverLive DEF Evaluate
    <3> QED BY <1>1, <3>1
  <2>2. CASE binding # None
    <3> DEFINE r == [level |-> binding.level, limit |-> binding.limit,
                     usage |-> 0, takenAt |-> 0,
                     by |-> t, call |-> calls[t], era |-> era, spent |-> spent]
    <3>1. /\ reading' = [reading EXCEPT ![t] = r]
          /\ UNCHANGED <<kept, baseline, era, binding>>
      BY <1>5, <2>2 DEF Evaluate
    <3>2. r.era = era /\ Scope(r) = binding
      BY <2>2 DEF TypeOK, Scopes, Scope
    <3> HIDE DEF r
    <3>3. Live' \subseteq Live \cup {r}
      BY <3>1 DEF Live, TypeOK
    <3> QED BY <3>1, <3>2, <3>3, EraStands
  <2> QED BY <2>1, <2>2
<1>6. ASSUME NEW t \in Threads, ReadUsage(t) PROVE EraOfTheReadings'
  <2>1. UNCHANGED <<kept, era, binding>> /\ pc[t] = "count"
    BY <1>6 DEF ReadUsage
  <2>2. CASE Deliver(t, None)
    <3>1. Live' \subseteq Live \cup ({None} \ {None})
      BY <2>1, <2>2, DeliverLive
    <3> QED BY <1>1, <2>1, <3>1
  <2>3. CASE ~Deliver(t, None)
    <3> DEFINE r == [reading[t] EXCEPT !.usage = counter[reading[t].level], !.spent = spent]
    <3>1. reading' = [reading EXCEPT ![t] = r] /\ UNCHANGED baseline
      BY <1>6, <2>3 DEF ReadUsage
    <3>2. reading[t] \in Live
      BY <2>1 DEF TypeOK, Live
    <3>3. /\ r.era = reading[t].era /\ r.level = reading[t].level
          /\ r.limit = reading[t].limit
      BY <3>2, LiveReadings DEF Readings
    <3> HIDE DEF r
    <3>4. Live' \subseteq Live \cup {r}
      BY <2>1, <3>1 DEF Live, TypeOK
    <3> QED BY <2>1, <3>2, <3>3, <3>4, EraStands
  <2> QED BY <2>2, <2>3
<1>7. ASSUME NEW t \in Threads, Stamp(t) PROVE EraOfTheReadings'
  <2> DEFINE r == [reading[t] EXCEPT !.takenAt = now]
  <2>1. UNCHANGED <<kept, era, binding>> /\ pc[t] = "stamp" /\ Deliver(t, r)
    BY <1>7 DEF Stamp
  <2>2. reading[t] \in Live
    BY <2>1 DEF TypeOK, Live
  <2>3. /\ r.era = reading[t].era /\ r.level = reading[t].level
        /\ r.limit = reading[t].limit
    BY <2>2, LiveReadings DEF Readings
  <2> HIDE DEF r
  <2>4. Live' \subseteq Live \cup ({r} \ {None})
    BY <2>1, DeliverLive
  <2> QED BY <2>1, <2>2, <2>3, <2>4, EraStands
<1> QED BY <1>2, <1>3, <1>4, <1>5, <1>6, <1>7 DEF Next, Environment, Advance

(* A returning call reports its two readings, or nothing changes.          *)
LEMMA WindowsStep ==
  ASSUME TypeOK, [Next]_vars, NEW w \in windows', w \notin windows
  PROVE  \E t \in Threads :
           /\ Return(t) /\ w.op = op[t]
           /\ w.start = baseline[t] /\ w.end = reading[t]
           /\ baseline[t] \in Live /\ reading[t] \in Live
           /\ w.ratio = Outcome(baseline[t], reading[t]) /\ w.ratio # None
           /\ Comparable(baseline[t], reading[t]) /\ Measurable(baseline[t], reading[t])
<1>1. PICK t \in Threads : Return(t)
  BY DEF Next, Environment, ChangeLimit, Tick, RestartCounter, Fork, CallSample, CallMeasure,
         Begin, Wake, Advance, Evaluate, ReadUsage, Stamp, Acquire, Load, Store, Release,
         vars, threads, process, locals, sampler
<1> DEFINE ratio == Outcome(baseline[t], reading[t])
<1>2. /\ ratio # None
      /\ w = [op |-> op[t], start |-> baseline[t], end |-> reading[t], ratio |-> ratio]
  BY <1>1 DEF Return
<1>3. /\ baseline[t] # None /\ reading[t] # None
      /\ Comparable(baseline[t], reading[t]) /\ Measurable(baseline[t], reading[t])
  BY <1>2 DEF Outcome, UsedRatio
<1> QED BY <1>1, <1>2, <1>3 DEF Live

(* A limit that changed once while a window ran, in whichever part, voids  *)
(* it (_used_ratio() compares the level and the limit of both readings).   *)
THEOREM OneChangeVoids == Spec => []OneChangeVoidsTheWindow
<1>1. Init => EraOfTheLimit
  BY DEF Init, EraOfTheLimit, EraOfTheReadings, Live, OneChangeVoidsTheWindow
<1>2. ASSUME TypeOK, EraOfTheLimit, [Next]_vars PROVE EraOfTheLimit'
  <2>1. EraOfTheReadings'
    BY <1>2, EraStep DEF EraOfTheLimit
  <2>2. ASSUME NEW w \in windows' PROVE w.end.era # w.start.era + 1
    <3>1. CASE w \in windows
      BY <1>2, <3>1 DEF EraOfTheLimit, OneChangeVoidsTheWindow
    <3>2. CASE w \notin windows
      <4>1. /\ w.start \in Live /\ w.end \in Live /\ Comparable(w.start, w.end)
        BY <1>2, <3>2, WindowsStep
      <4> QED BY <1>2, <4>1 DEF Comparable, EraOfTheLimit, EraOfTheReadings, Scope
    <3> QED BY <3>1, <3>2
  <2> QED BY <2>1, <2>2 DEF EraOfTheLimit, OneChangeVoidsTheWindow
<1>3. EraOfTheLimit => OneChangeVoidsTheWindow
  BY DEF EraOfTheLimit
<1> QED BY <1>1, <1>2, <1>3, TypeCorrect, PTL DEF Spec

-----------------------------------------------------------------------------
(* A sampler that is not shared.  What follows is not so for several       *)
(* threads: a sample() can count before another and reach the slot after   *)
(* it.                                                                     *)
Alone == \A t, u \in Threads : t = u

(* What a counter shows never gains on what was truly consumed, so a       *)
(* reading of it bounds every later one of the same level.                 *)
CountedBy(r) ==
  /\ \A l \in Levels : r.spent[l] <= spent[l]
  /\ counter[r.level] - spent[r.level] <= r.usage - r.spent[r.level]

Follows(s, r) ==
  /\ \A l \in Levels : r.spent[l] <= s.spent[l]
  /\ s.level = r.level => s.usage - s.spent[s.level] <= r.usage - r.spent[r.level]

CountsOf(t) ==
  /\ baseline[t] # None => CountedBy(baseline[t])
  /\ reading[t] # None /\ pc[t] # "count" =>
       /\ CountedBy(reading[t])
       /\ baseline[t] # None => Follows(reading[t], baseline[t])
       /\ kept # None /\ pc[t] \notin {"release", "return"} => Follows(reading[t], kept)

Counts ==
  /\ kept # None => CountedBy(kept)
  /\ \A t \in Threads : CountsOf(t)

Consumption == Counts /\ NeverOverreported

LEMMA Bounds ==
  ASSUME NEW a \in Int, NEW b \in Int, NEW c \in Int, a <= b, b <= c
  PROVE  a <= c
OBVIOUS

LEMMA SameGap ==
  ASSUME NEW c \in Int, NEW s \in Int, NEW n \in Nat
  PROVE  (c + n) - (s + n) = c - s /\ s <= s + n
OBVIOUS

LEMMA SpentTyping ==
  ASSUME TypeOK
  PROVE  /\ counter \in [Levels -> Nat] /\ spent \in [Levels -> Nat]
         /\ \A r \in Readings : r.spent \in [Levels -> Nat] /\ r.level \in Levels /\ r.usage \in Nat
BY DEF TypeOK, Readings

LEMMA CountedStands ==
  ASSUME TypeOK, TypeOK', NEW r \in Readings, CountedBy(r),
         \A l \in Levels : /\ spent[l] <= spent'[l]
                           /\ counter'[l] - spent'[l] <= counter[l] - spent[l]
  PROVE  CountedBy(r)'
<1>1. /\ counter \in [Levels -> Nat] /\ spent \in [Levels -> Nat]
      /\ counter' \in [Levels -> Nat] /\ spent' \in [Levels -> Nat]
      /\ r.spent \in [Levels -> Nat] /\ r.level \in Levels /\ r.usage \in Nat
  BY SpentTyping, SpentTyping DEF TypeOK, Readings
<1>2. ASSUME NEW l \in Levels PROVE r.spent[l] <= spent'[l]
  <2>1. r.spent[l] \in Int /\ spent[l] \in Int /\ spent'[l] \in Int
    BY <1>1
  <2>2. r.spent[l] <= spent[l] /\ spent[l] <= spent'[l]
    BY DEF CountedBy
  <2> QED BY <2>1, <2>2, Bounds
<1>3. counter'[r.level] - spent'[r.level] <= r.usage - r.spent[r.level]
  <2> DEFINE a == counter'[r.level] - spent'[r.level]
             b == counter[r.level] - spent[r.level]
             c == r.usage - r.spent[r.level]
  <2>1. a \in Int /\ b \in Int /\ c \in Int
    BY <1>1
  <2>2. a <= b /\ b <= c
    BY <1>1 DEF CountedBy
  <2> HIDE DEF a, b, c
  <2>3. a <= c
    BY <2>1, <2>2, Bounds
  <2> QED BY <2>3 DEF a, c
<1> QED BY <1>2, <1>3 DEF CountedBy

(* Time and restarts leave every count behind.                             *)
LEMMA EnvironmentCounts ==
  ASSUME TypeOK, Environment
  PROVE  \A l \in Levels : /\ spent[l] <= spent'[l]
                           /\ counter'[l] - spent'[l] <= counter[l] - spent[l]
<1>1. counter \in [Levels -> Nat] /\ spent \in [Levels -> Nat]
  BY SpentTyping
<1>2. ASSUME NEW b \in Scopes \cup {None}, ChangeLimit(b), NEW l \in Levels
      PROVE  /\ spent[l] <= spent'[l]
             /\ counter'[l] - spent'[l] <= counter[l] - spent[l]
  BY <1>1, <1>2 DEF ChangeLimit
<1>3. ASSUME NEW k \in Levels, NEW n \in Bursts, Tick(k, n), NEW l \in Levels
      PROVE  /\ spent[l] <= spent'[l]
             /\ counter'[l] - spent'[l] <= counter[l] - spent[l]
  <2>1. n \in Nat /\ counter[l] \in Int /\ spent[l] \in Int
    BY <1>1, ConstantsAssumption
  <2>2. \/ counter'[l] = counter[l] + n /\ spent'[l] = spent[l] + n
        \/ counter'[l] = counter[l] /\ spent'[l] = spent[l]
    BY <1>1, <1>3 DEF Tick
  <2>3. (counter[l] + n) - (spent[l] + n) = counter[l] - spent[l] /\ spent[l] <= spent[l] + n
    BY <2>1, SameGap
  <2> QED BY <2>1, <2>2, <2>3
<1>4. ASSUME NEW k \in Levels, RestartCounter(k), NEW l \in Levels
      PROVE  /\ spent[l] <= spent'[l]
             /\ counter'[l] - spent'[l] <= counter[l] - spent[l]
  <2>1. spent'[l] = spent[l] /\ (counter'[l] = 0 \/ counter'[l] = counter[l])
    BY <1>1, <1>4 DEF RestartCounter
  <2> QED BY <1>1, <2>1
<1> QED BY <1>2, <1>3, <1>4 DEF Environment

LEMMA CountsStepOutside ==
  ASSUME TypeOK, TypeOK', Counts, Environment
  PROVE  Counts'
<1>1. UNCHANGED <<kept, pc, reading, baseline>>
  BY DEF Environment, ChangeLimit, Tick, RestartCounter, threads, sampler, process, locals
<1>2. \A r \in Readings : CountedBy(r) =>
        /\ \A l \in Levels : r.spent[l] <= spent'[l]
        /\ counter'[r.level] - spent'[r.level] <= r.usage - r.spent[r.level]
  <2>1. \A r \in Readings : CountedBy(r) => CountedBy(r)'
    BY CountedStands, EnvironmentCounts
  <2> QED BY <2>1 DEF CountedBy
<1>3. kept' # None => CountedBy(kept)'
  BY <1>1, <1>2 DEF Counts, TypeOK, CountedBy
<1>4. ASSUME NEW t \in Threads PROVE CountsOf(t)'
  <2>1. CountsOf(t) /\ (baseline[t] # None => baseline[t] \in Readings)
        /\ (reading[t] # None => reading[t] \in Readings)
    BY DEF Counts, TypeOK
  <2>2. baseline'[t] # None => CountedBy(baseline[t])'
    BY <1>1, <1>2, <2>1 DEF CountsOf, CountedBy
  <2>3. reading'[t] # None /\ pc'[t] # "count" => CountedBy(reading[t])'
    BY <1>1, <1>2, <2>1 DEF CountsOf, CountedBy
  <2> QED BY <1>1, <2>1, <2>2, <2>3 DEF CountsOf, Follows
<1> QED BY <1>3, <1>4 DEF Counts

(* A step of the thread that leaves the world alone.                       *)
LEMMA CountsInside ==
  ASSUME Alone, Counts, UNCHANGED env, NEW t \in Threads,
         (kept # None => CountedBy(kept))', CountsOf(t)'
  PROVE  Counts'
BY DEF Alone, Counts

LEMMA SameCounts ==
  ASSUME UNCHANGED env
  PROVE  \A r : CountedBy(r)' <=> CountedBy(r)
BY DEF env, CountedBy

(* A reading that is handed over stays what it is.                         *)
LEMMA DeliverCounts ==
  ASSUME TypeOK, Alone, Counts, UNCHANGED <<env, kept>>, NEW t \in Threads,
         NEW r \in Readings \cup {None}, Deliver(t, r), pc[t] \in {"evaluate", "count", "stamp"},
         r # None => /\ CountedBy(r)
                     /\ baseline[t] # None => Follows(r, baseline[t])
                     /\ kept # None => Follows(r, kept)
  PROVE  Counts'
<1>1. CountsOf(t) /\ (kept # None => CountedBy(kept)) /\ \A x : CountedBy(x)' <=> CountedBy(x)
  BY SameCounts DEF Counts
<1>2. /\ baseline'[t] # None => CountedBy(baseline'[t])
      /\ reading'[t] # None => /\ CountedBy(reading'[t])
                               /\ baseline'[t] # None => Follows(reading'[t], baseline'[t])
                               /\ kept # None => Follows(reading'[t], kept)
  <2>1. CASE op[t] = "measure" /\ baseline[t] = None
    <3>1. baseline'[t] = r /\ reading'[t] = None
      BY <2>1 DEF Deliver, TypeOK
    <3> QED BY <3>1
  <2>2. CASE ~(op[t] = "measure" /\ baseline[t] = None)
    <3>1. baseline'[t] = baseline[t] /\ reading'[t] = r
      BY <2>2 DEF Deliver, TypeOK
    <3> QED BY <1>1, <3>1 DEF CountsOf
  <2> QED BY <2>1, <2>2
<1>3. (kept # None => CountedBy(kept))'
  BY <1>1 DEF CountedBy, env
<1>4. CountsOf(t)'
  BY <1>2 DEF CountsOf, CountedBy, Follows, env
<1> QED BY <1>3, <1>4, CountsInside

LEMMA CountsStepInside ==
  ASSUME TypeOK, BaselineOwnership, Alone, Counts, NEW t \in Threads,
         \/ Fork(t) \/ CallSample(t) \/ Wake(t) \/ Advance(t)
         \/ \E i \in Intervals : CallMeasure(t, i)
  PROVE  Counts'
<1>1. /\ UNCHANGED env /\ CountsOf(t) /\ (kept # None => CountedBy(kept))
      /\ \A x : CountedBy(x)' <=> CountedBy(x)
  <2>1. UNCHANGED env
    BY DEF Fork, CallSample, CallMeasure, Begin, Wake, Advance, Evaluate, ReadUsage, Stamp,
           Acquire, Load, Store, Release, Return
  <2> QED BY <2>1, SameCounts DEF Counts
<1> USE DEF sampler, process, locals, Goto
<1>2. CASE \/ Fork(t) \/ CallSample(t) \/ Wake(t) \/ Acquire(t) \/ Release(t)
           \/ \E i \in Intervals : CallMeasure(t, i)
  <2>1. /\ UNCHANGED <<kept, reading, baseline>>
        /\ reading[t] # None => pc[t] # "count" /\ (pc[t] \in {"release", "return"} =>
             pc'[t] \in {"release", "return"})
    BY <1>2
    DEF Fork, CallSample, CallMeasure, Begin, Wake, Acquire, Release, TypeOK
  <2>2. (kept # None => CountedBy(kept))'
    BY <1>1, <2>1 DEF CountedBy, env
  <2>3. CountsOf(t)'
    BY <1>1, <2>1 DEF CountsOf, CountedBy, Follows, env
  <2> QED BY <1>1, <2>2, <2>3, CountsInside
<1>3. CASE Load(t)
  <2>1. /\ baseline'[t] = kept /\ pc[t] = "load" /\ pc'[t] = "store"
        /\ UNCHANGED <<kept, reading>>
    BY <1>3 DEF Load, TypeOK
  <2>2. (kept # None => CountedBy(kept))'
    BY <1>1, <2>1 DEF CountedBy, env
  <2>3. CountsOf(t)'
    BY <1>1, <2>1 DEF CountsOf, CountedBy, Follows, env
  <2> QED BY <1>1, <2>2, <2>3, CountsInside
<1>4. CASE Store(t)
  <2>1. /\ pc[t] = "store" /\ pc'[t] = "release" /\ kept' \in {kept, reading[t]}
        /\ UNCHANGED <<reading, baseline>>
    BY <1>4 DEF Store, TypeOK
  <2>2. (kept # None => CountedBy(kept))'
    BY <1>1, <2>1 DEF CountsOf, CountedBy, env
  <2>3. CountsOf(t)'
    BY <1>1, <2>1 DEF CountsOf, CountedBy, Follows, env
  <2> QED BY <1>1, <2>2, <2>3, CountsInside
<1>5. CASE Return(t)
  <2>1. reading'[t] = None /\ baseline'[t] = None /\ UNCHANGED kept
    BY <1>5 DEF Return, TypeOK
  <2>2. (kept # None => CountedBy(kept))'
    BY <1>1, <2>1 DEF CountedBy, env
  <2>3. CountsOf(t)'
    BY <2>1 DEF CountsOf
  <2> QED BY <1>1, <2>2, <2>3, CountsInside
<1>6. CASE Evaluate(t)
  <2>1. CASE binding = None
    <3>1. Deliver(t, None) /\ pc[t] = "evaluate" /\ UNCHANGED kept
      BY <1>6, <2>1 DEF Evaluate
    <3> QED BY <1>1, <3>1, DeliverCounts
  <2>2. CASE binding # None
    <3>1. pc'[t] = "count" /\ UNCHANGED <<kept, baseline>>
      BY <1>6, <2>2 DEF Evaluate, TypeOK
    <3>2. (kept # None => CountedBy(kept))'
      BY <1>1, <3>1 DEF CountedBy, env
    <3>3. CountsOf(t)'
      BY <1>1, <3>1 DEF CountsOf, CountedBy, env
    <3> QED BY <1>1, <3>2, <3>3, CountsInside
  <2> QED BY <2>1, <2>2
<1>7. CASE ReadUsage(t)
  <2>1. pc[t] = "count" /\ UNCHANGED kept /\ reading[t] \in Readings
    BY <1>7 DEF ReadUsage, TypeOK
  <2>2. CASE Deliver(t, None)
    BY <1>1, <2>1, <2>2, DeliverCounts
  <2>3. CASE ~Deliver(t, None)
    <3> DEFINE r == [reading[t] EXCEPT !.usage = counter[reading[t].level], !.spent = spent]
    <3>1. /\ reading'[t] = r /\ pc'[t] = "stamp" /\ UNCHANGED baseline
      BY <1>7, <2>3 DEF ReadUsage, TypeOK
    <3>2. /\ r \in Readings /\ r.level \in Levels
          /\ r.usage = counter[r.level] /\ r.spent = spent
      BY <2>1 DEF Readings, TypeOK
    <3> HIDE DEF r
    <3>3. /\ counter \in [Levels -> Nat] /\ spent \in [Levels -> Nat]
      BY DEF TypeOK
    <3>4. CountedBy(r)
      BY <3>2, <3>3 DEF CountedBy
    <3>5. \A x : CountedBy(x) => Follows(r, x)
      BY <3>2 DEF CountedBy, Follows
    <3>6. (kept # None => CountedBy(kept))'
      BY <1>1, <2>1 DEF CountedBy, env
    <3>7. /\ baseline'[t] # None => CountedBy(baseline'[t]) /\ Follows(r, baseline'[t])
          /\ kept # None => Follows(r, kept)
      BY <1>1, <3>1, <3>5 DEF CountsOf
    <3>8. CountsOf(t)'
      BY <2>1, <3>1, <3>4, <3>7, <1>1 DEF CountsOf, CountedBy, Follows, env
    <3> QED BY <1>1, <3>6, <3>8, CountsInside
  <2> QED BY <2>2, <2>3
<1>8. CASE Stamp(t)
  <2> DEFINE r == [reading[t] EXCEPT !.takenAt = now]
  <2>1. /\ pc[t] = "stamp" /\ UNCHANGED kept /\ reading[t] \in Readings /\ Deliver(t, r)
        /\ reading[t] # None
    BY <1>8 DEF Stamp, TypeOK
  <2>2. /\ r \in Readings /\ r.level = reading[t].level /\ r.usage = reading[t].usage
        /\ r.spent = reading[t].spent
    BY <2>1 DEF Readings, TypeOK
  <2> HIDE DEF r
  <2>3. /\ CountedBy(r)
        /\ baseline[t] # None => Follows(r, baseline[t])
        /\ kept # None => Follows(r, kept)
    BY <1>1, <2>1, <2>2 DEF CountsOf, CountedBy, Follows
  <2> QED BY <1>1, <2>1, <2>2, <2>3, DeliverCounts
<1> QED BY <1>2, <1>3, <1>4, <1>5, <1>6, <1>7, <1>8 DEF Advance

LEMMA CountsStep ==
  TypeOK /\ TypeOK' /\ BaselineOwnership /\ Alone /\ Counts /\ [Next]_vars => Counts'
<1> SUFFICES ASSUME TypeOK, TypeOK', BaselineOwnership, Alone, Counts, [Next]_vars
             PROVE  Counts'
  OBVIOUS
<1>1. CASE UNCHANGED vars
  BY <1>1
  DEF vars, env, sampler, process, locals, Counts, CountsOf, CountedBy, Follows
<1> QED BY <1>1, CountsStepOutside, CountsStepInside DEF Next

(* No more is reported than the level of the limit consumed between the    *)
(* two counts, where nobody shares the sampler (_used_ratio()).            *)
THEOREM NotOverreported == ASSUME Alone PROVE Spec => []NeverOverreported
<1>1. Init => Consumption
  BY DEF Init, Consumption, Counts, CountsOf, NeverOverreported
<1>2. ASSUME TypeOK, TypeOK', BaselineOwnership, Consumption, [Next]_vars PROVE Consumption'
  <2>1. Counts'
    BY <1>2, CountsStep DEF Consumption
  <2>2. ASSUME NEW w \in windows'
        PROVE  w.ratio.num <= w.end.spent[w.start.level] - w.start.spent[w.start.level]
    <3>1. CASE w \in windows
      BY <1>2, <3>1 DEF Consumption, NeverOverreported
    <3>2. CASE w \notin windows
      <4>1. PICK t \in Threads :
              /\ Return(t)
              /\ w.start = baseline[t] /\ w.end = reading[t]
              /\ baseline[t] \in Live /\ reading[t] \in Live
              /\ w.ratio = Outcome(baseline[t], reading[t]) /\ w.ratio # None
              /\ Comparable(baseline[t], reading[t]) /\ Measurable(baseline[t], reading[t])
        BY <1>2, <3>2, WindowsStep
      <4> DEFINE start == baseline[t]
                 end == reading[t]
                 l == start.level
                 used == end.usage - start.usage
                 consumed == end.spent[l] - start.spent[l]
                 allowed == (end.takenAt - start.takenAt) * end.limit
      <4>2. start # None /\ end # None /\ start \in Readings /\ end \in Readings /\ end.level = l
        BY <1>2, <4>1, LiveReadings DEF Live, Comparable
      <4>3. Follows(end, start)
        BY <1>2, <4>1, <4>2 DEF Consumption, Counts, CountsOf, Return
      <4>4. /\ end.usage \in Nat /\ start.usage \in Nat
            /\ end.spent[l] \in Nat /\ start.spent[l] \in Nat /\ l \in Levels
        BY <4>2 DEF Readings
      <4>5. used <= consumed /\ 0 <= consumed /\ used \in Int /\ consumed \in Int
        BY <4>2, <4>3, <4>4 DEF Follows
      <4>6. w.ratio.num = Clamp(used, allowed)
        BY <4>1, <4>2 DEF Outcome, UsedRatio
      <4>7. allowed \in Int
        <5>1. end.takenAt - start.takenAt \in Int
          BY <4>2 DEF Readings
        <5>2. end.limit \in Cores
          BY <4>2 DEF Readings
        <5> HIDE DEF end
        <5>3. end.limit \in Int
          <6>1. Cores \subseteq Int
            BY ConstantsAssumption
          <6> QED BY <5>2, <6>1
        <5> DEFINE a == end.takenAt - start.takenAt
                   b == end.limit
        <5>4. a \in Int /\ b \in Int
          BY <5>1, <5>3
        <5> HIDE DEF a, b
        <5>5. a * b \in Int
          BY <5>4
        <5> QED BY <5>5 DEF a, b
      <4> HIDE DEF used, consumed, allowed
      <4>8. Clamp(used, allowed) <= consumed
        BY <4>5, <4>7 DEF Clamp
      <4> QED BY <4>1, <4>6, <4>8 DEF consumed
    <3> QED BY <3>1, <3>2
  <2> QED BY <2>1, <2>2 DEF Consumption, NeverOverreported
<1>3. Consumption => NeverOverreported
  BY DEF Consumption
<1> QED BY <1>1, <1>2, <1>3, TypeCorrect, OwnershipCorrect, PTL DEF Spec

(* The slot moves forward in time, and every window ends at or before it;  *)
(* what a call takes out of it is as late as any window that was reported. *)
TimesOf(t) ==
  op[t] = "sample" /\ reading[t] # None =>
    /\ pc[t] \in {"acquire", "load", "store"} =>
         /\ reading[t].takenAt <= now
         /\ kept # None => kept.takenAt <= reading[t].takenAt
    /\ pc[t] \in {"release", "return"} =>
         /\ kept = reading[t]
         /\ baseline[t] # None => \A w \in Sampled : w.end.takenAt <= baseline[t].takenAt

Times ==
  /\ kept # None => kept.takenAt <= now
  /\ \A w \in Sampled : kept # None /\ w.end.takenAt <= kept.takenAt
  /\ \A t \in Threads : TimesOf(t)

Timeline == Times /\ NoTimeReportedTwice

LEMMA TimesTyping ==
  ASSUME TypeOK
  PROVE  /\ now \in Nat /\ (kept # None => kept.takenAt \in Nat)
         /\ \A t \in Threads : /\ reading[t] # None => reading[t].takenAt \in Nat
                               /\ baseline[t] # None => baseline[t].takenAt \in Nat
         /\ \A w \in Sampled : w.end.takenAt \in Nat /\ w.start.takenAt \in Nat
BY DEF TypeOK, Readings, Sampled

LEMMA TimesInside ==
  ASSUME Alone, UNCHANGED <<now, kept, windows>>, Times, NEW t \in Threads, TimesOf(t)'
  PROVE  Times'
BY DEF Alone, Times, Sampled

LEMMA TimesStepOutside ==
  ASSUME TypeOK, Times, [Next]_vars, Environment \/ UNCHANGED vars
  PROVE  Times'
<1>1. /\ UNCHANGED <<kept, pc, op, reading, baseline, windows>> /\ Sampled' = Sampled
  BY DEF Environment, ChangeLimit, Tick, RestartCounter, threads, sampler, process, locals,
         vars, Sampled
<1>2. now \in Nat /\ now' \in Nat /\ now <= now'
  BY TimePasses
<1>3. kept # None => kept.takenAt <= now'
  BY <1>2, TimesTyping, Bounds DEF Times
<1>4. ASSUME NEW t \in Threads PROVE TimesOf(t)'
  <2>1. TimesOf(t) /\ (reading[t] # None => reading[t].takenAt \in Nat)
    BY TimesTyping DEF Times
  <2>2. reading[t] # None /\ reading[t].takenAt <= now => reading[t].takenAt <= now'
    BY <1>2, <2>1, Bounds
  <2> QED BY <1>1, <2>1, <2>2 DEF TimesOf
<1> QED BY <1>1, <1>3, <1>4 DEF Times

LEMMA DeliverTimes ==
  ASSUME TypeOK, Alone, Times, UNCHANGED <<now, kept, windows, op>>, NEW t \in Threads,
         NEW r \in Readings \cup {None}, Deliver(t, r),
         r # None => r.takenAt = now
  PROVE  Times'
<1>1. CASE op[t] = "sample"
  <2>1. pc'[t] = "acquire" /\ reading'[t] = r
    BY <1>1 DEF Deliver, Goto, TypeOK
  <2>2. r # None => r.takenAt <= now /\ (kept # None => kept.takenAt <= r.takenAt)
    BY TimesTyping DEF Times
  <2>3. TimesOf(t)'
    BY <2>1, <2>2 DEF TimesOf
  <2> QED BY <2>3, TimesInside
<1>2. CASE op[t] # "sample"
  <2>1. TimesOf(t)'
    BY <1>2 DEF TimesOf
  <2> QED BY <2>1, TimesInside
<1> QED BY <1>1, <1>2

LEMMA StoreTimes ==
  ASSUME TypeOK, BaselineOwnership, Alone, Times, NEW t \in Threads, Store(t)
  PROVE  Times'
<1>1. /\ pc[t] = "store" /\ pc'[t] = "release" /\ op[t] = "sample" /\ baseline[t] = kept
      /\ kept' = IF reading[t] # None THEN reading[t] ELSE kept
      /\ UNCHANGED <<now, op, reading, baseline, windows>> /\ Sampled' = Sampled
  BY DEF Store, TypeOK, BaselineOwnership, LockProtectsTheSlot, Critical, env, locals, Goto,
         Sampled
<1>2. TimesOf(t) /\ Times
  BY DEF Times
<1>3. CASE reading[t] = None
  BY <1>1, <1>2, <1>3 DEF Times, TimesOf, Alone
<1>4. CASE reading[t] # None
  <2>1. kept' = reading[t] /\ reading[t].takenAt <= now
    BY <1>1, <1>2, <1>4 DEF TimesOf
  <2>2. ASSUME NEW w \in Sampled PROVE w.end.takenAt <= reading[t].takenAt
    <3>1. kept # None /\ w.end.takenAt <= kept.takenAt /\ kept.takenAt <= reading[t].takenAt
      BY <1>1, <1>2, <1>4 DEF Times, TimesOf
    <3> QED BY <1>4, <3>1, TimesTyping
  <2>3. TimesOf(t)'
    BY <1>1, <1>2, <2>1 DEF TimesOf, Times
  <2> QED BY <1>1, <1>4, <2>1, <2>2, <2>3 DEF Times, Alone
<1> QED BY <1>3, <1>4

LEMMA ReturnTimes ==
  ASSUME TypeOK, Alone, Timeline, [Next]_vars, NEW t \in Threads, Return(t)
  PROVE  Timeline'
<1>1. /\ pc[t] = "return" /\ reading'[t] = None /\ UNCHANGED <<now, kept>>
      /\ \A w \in windows : w \in windows'
  BY DEF Return, TypeOK, env, sampler
<1>2. ASSUME NEW w \in Sampled', w \notin Sampled
      PROVE  /\ kept # None /\ w.end = kept
             /\ \A v \in Sampled : v.end.takenAt <= w.start.takenAt
  <2>1. w \in windows' /\ w \notin windows /\ w.op = "sample"
    BY <1>2 DEF Sampled
  <2>2. PICK u \in Threads : /\ w.op = op[u] /\ w.start = baseline[u] /\ w.end = reading[u]
                             /\ baseline[u] # None /\ reading[u] # None
    BY <2>1, WindowsStep DEF Live
  <2>3. u = t /\ TimesOf(t)
    BY DEF Alone, Timeline, Times
  <2> QED BY <1>1, <2>1, <2>2, <2>3 DEF TimesOf
<1>3. \A w \in Sampled' : kept # None /\ w.end.takenAt <= kept.takenAt
  BY <1>2, TimesTyping DEF Timeline, Times
<1>4. TimesOf(t)'
  BY <1>1 DEF TimesOf
<1>5. Times'
  BY <1>1, <1>3, <1>4 DEF Timeline, Times, Alone
<1>6. NoTimeReportedTwice'
  <2> SUFFICES ASSUME NEW v \in Sampled', NEW w \in Sampled', v # w
               PROVE  v.end.takenAt <= w.start.takenAt \/ w.end.takenAt <= v.start.takenAt
    BY DEF NoTimeReportedTwice
  <2>1. CASE v \in Sampled /\ w \in Sampled
    BY <2>1 DEF Timeline, NoTimeReportedTwice
  <2>2. CASE v \in Sampled /\ w \notin Sampled
    BY <1>2, <2>2
  <2>3. CASE v \notin Sampled /\ w \in Sampled
    BY <1>2, <2>3
  <2>4. CASE v \notin Sampled /\ w \notin Sampled
    <3>1. ASSUME NEW x \in Sampled', x \notin Sampled
          PROVE  x = [op |-> op[t], start |-> baseline[t], end |-> reading[t],
                      ratio |-> Outcome(baseline[t], reading[t])]
      BY <3>1 DEF Return, Sampled
    <3> QED BY <2>4, <3>1
  <2> QED BY <2>1, <2>2, <2>3, <2>4
<1> QED BY <1>5, <1>6 DEF Timeline

LEMMA TimelineStep ==
  ASSUME TypeOK, BaselineOwnership, Alone, Timeline, [Next]_vars
  PROVE  Timeline'
<1>1. ASSUME Times', UNCHANGED windows PROVE Timeline'
  BY <1>1 DEF Timeline, NoTimeReportedTwice, Sampled
<1>2. CASE Environment \/ UNCHANGED vars
  <2>1. UNCHANGED windows
    BY <1>2 DEF Environment, ChangeLimit, Tick, RestartCounter, threads, vars
  <2> QED BY <1>1, <1>2, <2>1, TimesStepOutside DEF Timeline
<1> USE DEF env, sampler, process, locals, Goto
<1>3. ASSUME NEW t \in Threads, \/ Fork(t) \/ CallSample(t) \/ Wake(t) \/ Acquire(t)
                                \/ Load(t) \/ Release(t)
                                \/ \E i \in Intervals : CallMeasure(t, i)
      PROVE  Timeline'
  <2>1. UNCHANGED <<now, kept, windows, reading>>
        /\ (reading[t] # None => op'[t] = op[t])
        /\ (pc'[t] \in {"acquire", "load", "store"} /\ reading[t] # None =>
              pc[t] \in {"acquire", "load", "store"})
        /\ (pc'[t] \in {"release", "return"} /\ reading[t] # None =>
              pc[t] \in {"release", "return"} /\ baseline'[t] = baseline[t])
    BY <1>3
    DEF Fork, CallSample, CallMeasure, Begin, Wake, Acquire, Load, Release, TypeOK
  <2>2. Sampled' = Sampled
    BY <2>1 DEF Sampled
  <2>3. TimesOf(t) /\ Times
    BY DEF Timeline, Times
  <2>4. TimesOf(t)'
    BY <2>1, <2>2, <2>3 DEF TimesOf
  <2> QED BY <1>1, <2>1, <2>3, <2>4, TimesInside
<1>4. ASSUME NEW t \in Threads, Evaluate(t) \/ ReadUsage(t) PROVE Timeline'
  <2>1. UNCHANGED <<now, kept, windows, op>>
    BY <1>4 DEF Evaluate, ReadUsage
  <2>2. CASE Deliver(t, None)
    BY <1>1, <2>1, <2>2, DeliverTimes DEF Timeline
  <2>3. CASE ~Deliver(t, None)
    <3>1. pc'[t] \in {"count", "stamp"}
      BY <1>4, <2>3 DEF Evaluate, ReadUsage, TypeOK
    <3>2. TimesOf(t)'
      BY <3>1 DEF TimesOf
    <3> QED BY <1>1, <2>1, <3>2, TimesInside DEF Timeline
  <2> QED BY <2>2, <2>3
<1>5. ASSUME NEW t \in Threads, Stamp(t) PROVE Timeline'
  <2> DEFINE r == [reading[t] EXCEPT !.takenAt = now]
  <2>1. UNCHANGED <<now, kept, windows, op>> /\ Deliver(t, r) /\ r \in Readings /\ r.takenAt = now
    BY <1>5 DEF Stamp, TypeOK, Readings
  <2> HIDE DEF r
  <2> QED BY <1>1, <2>1, DeliverTimes DEF Timeline
<1>6. ASSUME NEW t \in Threads, Store(t) PROVE Timeline'
  BY <1>1, <1>6, StoreTimes DEF Timeline, Store
<1>7. ASSUME NEW t \in Threads, Return(t) PROVE Timeline'
  BY <1>7, ReturnTimes
<1> QED BY <1>2, <1>3, <1>4, <1>5, <1>6, <1>7 DEF Next, Advance

(* No stretch of time is in two windows of a sampler that is not shared    *)
(* (CpuLoad.sample()).                                                     *)
THEOREM NoTimeTwice == ASSUME Alone PROVE Spec => []NoTimeReportedTwice
<1>1. Init => Timeline
  BY DEF Init, Timeline, Times, TimesOf, NoTimeReportedTwice, Sampled
<1>2. TypeOK /\ BaselineOwnership /\ Timeline /\ [Next]_vars => Timeline'
  BY TimelineStep
<1>3. Timeline => NoTimeReportedTwice
  BY DEF Timeline
<1> QED BY <1>1, <1>2, <1>3, TypeCorrect, OwnershipCorrect, PTL DEF Spec
=============================================================================

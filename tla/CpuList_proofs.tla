--------------------------- MODULE CpuList_proofs ---------------------------
(* Proofs about CpuList, for lists of any length over any numbers.         *)
EXTENDS CpuList, TLAPS, FiniteSetTheorems

(* What the loop knows of the parts it has taken: they are as the kernel   *)
(* writes them and end at counted_to.                                      *)
Taken(i) == Numbers(list[i]) /\ Start(list[i]) \in Nat /\ End(list[i]) \in Nat

Ascending ==
  /\ \A i \in 1..next - 1 :
       Taken(i) /\ Start(list[i]) <= End(list[i]) /\ End(list[i]) <= counted_to
  /\ \A i, j \in 1..next - 1 : i < j => End(list[i]) < Start(list[j])

(* And of their cores: as many as were counted, none above counted_to.     *)
Counted ==
  /\ IsFiniteSet(Named(next - 1))
  /\ count = Cardinality(Named(next - 1))
  /\ \A c \in Named(next - 1) : c <= counted_to
  /\ next > 1 => count > 0

(* The part it stops at is refused, or it stops at the end.                *)
Settled ==
  /\ outcome \in Nat => next = Len(list) + 1 /\ outcome = count
  /\ outcome = None => next <= Len(list) /\ ~Accepted(list[next], counted_to)
  /\ next = 1 => counted_to = -1
  /\ next > 1 => counted_to = End(list[next - 1])

IInv == TypeOK /\ list # <<>> /\ Ascending /\ Counted /\ Settled

(* The two numbers of a part that has two.                                 *)
LEMMA PartTyping ==
  ASSUME NEW part \in Parts, Numbers(part)
  PROVE  Start(part) \in Nat /\ End(part) \in Int
<1>1. part.first \in Firsts \cup {Garbled} /\ part.last \in Lasts \cup {Garbled, Empty, NoDash}
  BY DEF Parts
<1>2. part.first \in Nat /\ (part.last # NoDash => part.last \in Int)
  BY <1>1, ConstantsAssumption DEF Numbers
<1> QED BY <1>2 DEF Start, End

(* One more part adds its cores to those that were named.                  *)
LEMMA NamedNext ==
  ASSUME NEW k \in Nat, NEW l
  PROVE  UNION {Span(l[i]) : i \in 1..k + 1}
           = (UNION {Span(l[i]) : i \in 1..k}) \cup Span(l[k + 1])
<1>1. \A i : i \in 1..k + 1 <=> i \in 1..k \/ i = k + 1
  OBVIOUS
<1> HIDE DEF Span
<1> QED BY <1>1, Zenon

LEMMA InitInvariant == Init => IInv
<1> SUFFICES ASSUME Init PROVE IInv
  OBVIOUS
<1> USE ConstantsAssumption DEF Init
<1>1. list \in Seq(Parts) /\ list # <<>> /\ Len(list) \in Nat
  OBVIOUS
<1>2. TypeOK
  BY <1>1 DEF TypeOK
<1>3. 1..next - 1 = {}
  OBVIOUS
<1>4. Ascending
  BY <1>3 DEF Ascending
<1>5. Named(next - 1) = {}
  BY <1>3 DEF Named
<1>6. Counted
  <2>1. IsFiniteSet({}) /\ Cardinality({}) = 0
    BY FS_EmptySet
  <2> QED BY <1>5, <2>1 DEF Counted
<1>7. Settled
  BY DEF Settled
<1> QED BY <1>1, <1>2, <1>4, <1>6, <1>7 DEF IInv

(* A part that is taken starts above all that was counted.                 *)
LEMMA CountInvariant ==
  ASSUME IInv, Count
  PROVE  IInv'
<1> DEFINE part == list[next]
<1> USE ConstantsAssumption DEF Count
<1>1. list \in Seq(Parts) /\ next \in 1..Len(list) /\ next \in Nat /\ Len(list) \in Nat
      /\ count \in Nat /\ counted_to \in Nat \cup {-1} /\ list' = list /\ next' = next + 1
      /\ list # <<>>
  BY DEF IInv, TypeOK
<1>2. part \in Parts
  BY <1>1
<1>3. Numbers(part) /\ Start(part) <= End(part) /\ counted_to < Start(part)
      /\ Start(part) \in Nat /\ End(part) \in Nat
  <2>1. Numbers(part) /\ ~(End(part) < Start(part)) /\ ~(Start(part) <= counted_to)
    BY DEF Accepted, Misplaced
  <2>2. Start(part) \in Nat /\ End(part) \in Int
    BY <1>2, <2>1, PartTyping
  <2> QED BY <1>1, <2>1, <2>2
<1>4. count' = count + (End(part) - Start(part) + 1) /\ counted_to' = End(part)
  BY DEF Size
<1>5. count' \in Nat /\ count' > 0 /\ counted_to' \in Nat /\ counted_to < counted_to'
  BY <1>1, <1>3, <1>4
<1>6. TypeOK'
  BY <1>1, <1>5 DEF TypeOK, IInv
<1>7. Ascending'
  <2>1. \A i \in 1..next' - 1 : i \in 1..next - 1 \/ i = next
    BY <1>1
  <2>2. ASSUME NEW i \in 1..next' - 1
        PROVE  /\ Taken(i)' /\ Start(list'[i]) <= End(list'[i])
               /\ End(list'[i]) <= counted_to'
    <3>1. CASE i = next
      BY <3>1, <1>1, <1>3, <1>4 DEF Taken
    <3>2. CASE i \in 1..next - 1
      <4>1. Taken(i) /\ Start(list[i]) <= End(list[i]) /\ End(list[i]) <= counted_to
        BY <3>2 DEF IInv, Ascending
      <4> QED BY <4>1, <1>1, <1>5 DEF Taken
    <3> QED BY <2>1, <3>1, <3>2
  <2>3. ASSUME NEW i \in 1..next' - 1, NEW j \in 1..next' - 1, i < j
        PROVE  End(list'[i]) < Start(list'[j])
    <3>1. i \in 1..next - 1
      BY <1>1, <2>3
    <3>2. CASE j \in 1..next - 1
      BY <3>1, <3>2, <2>3, <1>1 DEF IInv, Ascending
    <3>3. CASE j = next
      <4>1. Taken(i) /\ End(list[i]) <= counted_to
        BY <3>1 DEF IInv, Ascending
      <4> QED BY <4>1, <3>3, <1>1, <1>3 DEF Taken
    <3> QED BY <2>1, <3>2, <3>3
  <2> QED BY <2>2, <2>3, <1>1 DEF Ascending, Taken
<1>8. Counted'
  <2> DEFINE old == Named(next - 1)
             new == Start(part)..End(part)
  <2>1. IsFiniteSet(old) /\ count = Cardinality(old) /\ \A c \in old : c <= counted_to
    BY DEF IInv, Counted
  <2>2. Named(next - 1)' = old \cup new
    <3>1. next - 1 \in Nat /\ next - 1 + 1 = next
      BY <1>1
    <3>2. UNION {Span(list[i]) : i \in 1..next}
            = (UNION {Span(list[i]) : i \in 1..next - 1}) \cup Span(list[next])
      BY <3>1, NamedNext
    <3>3. next' - 1 = next /\ list' = list
      BY <1>1
    <3>4. Named(next - 1)' = UNION {Span(list[i]) : i \in 1..next}
      BY <3>3 DEF Named, Span
    <3>5. Span(list[next]) = new
      BY DEF Span
    <3> QED BY <3>2, <3>4, <3>5 DEF Named
  <2>3. IsFiniteSet(new) /\ Cardinality(new) = End(part) - Start(part) + 1
    BY <1>3, FS_Interval
  <2>4. old \cap new = {}
    BY <2>1, <1>1, <1>3
  <2>5. IsFiniteSet(old \cup new) /\ Cardinality(old \cup new) = count'
    <3>1. IsFiniteSet(old \cup new)
          /\ Cardinality(old \cup new) = Cardinality(old) + Cardinality(new) - Cardinality({})
      BY <2>1, <2>3, <2>4, FS_Union
    <3> QED BY <3>1, <2>1, <2>3, <1>1, <1>3, <1>4, FS_EmptySet
  <2>6. \A c \in old \cup new : c <= counted_to'
    <3>1. \A c \in new : c <= counted_to'
      BY <1>3, <1>4
    <3>2. old \subseteq Int
      <4>1. ASSUME NEW c \in old PROVE c \in Int
        <5>1. PICK i \in 1..next - 1 : c \in Span(list[i])
          BY DEF Named
        <5> QED BY <5>1 DEF Span
      <4> QED BY <4>1
    <3> QED BY <3>1, <3>2, <2>1, <1>1, <1>5
  <2> HIDE DEF old, new
  <2> QED BY <2>2, <2>5, <2>6, <1>5 DEF Counted
<1>9. Settled'
  <2>1. outcome' = Counting /\ next' > 1 /\ next' - 1 = next
    BY <1>1
  <2> QED BY <2>1, <1>1, <1>4 DEF Settled
<1> QED BY <1>1, <1>6, <1>7, <1>8, <1>9 DEF IInv

LEMMA StepInvariant == IInv /\ [Next]_vars => IInv'
<1> SUFFICES ASSUME IInv, [Next]_vars PROVE IInv'
  OBVIOUS
<1>1. CASE Count
  BY <1>1, CountInvariant
<1>2. ASSUME UNCHANGED <<list, next, count, counted_to>>, TypeOK', Settled'
      PROVE  IInv'
  BY <1>2 DEF IInv, Ascending, Taken, Counted, Named
<1>3. CASE Refuse
  <2>1. TypeOK'
    BY <1>3 DEF Refuse, IInv, TypeOK
  <2>2. Settled'
    BY <1>3, ConstantsAssumption DEF Refuse, IInv, Settled
  <2> QED BY <1>2, <1>3, <2>1, <2>2 DEF Refuse
<1>4. CASE Return
  <2>1. TypeOK'
    BY <1>4 DEF Return, IInv, TypeOK
  <2>2. Settled'
    BY <1>4, ConstantsAssumption DEF Return, IInv, TypeOK, Settled
  <2> QED BY <1>2, <1>4, <2>1, <2>2 DEF Return
<1>5. CASE UNCHANGED vars
  BY <1>5 DEF vars, IInv, TypeOK, Ascending, Taken, Counted, Named, Settled
<1> QED BY <1>1, <1>3, <1>4, <1>5 DEF Next

LEMMA Invariant == Spec => []IInv
<1>1. Init => IInv
  BY InitInvariant
<1>2. IInv /\ [Next]_vars => IInv'
  BY StepInvariant
<1> QED BY <1>1, <1>2, PTL DEF Spec

(* The loop stays inside the list, and its numbers are cores.              *)
THEOREM TypeCorrect == Spec => []TypeOK
<1>1. IInv => TypeOK
  BY DEF IInv
<1> QED BY <1>1, Invariant, PTL

(* What count_cpu_list() counts is the number of the cores the list names, *)
(* however long it is.                                                     *)
THEOREM CountCorrect == Spec => []CountsTheCores
<1>1. IInv => CountsTheCores
  <2> SUFFICES ASSUME IInv, outcome \in Nat
               PROVE  outcome = Cardinality(Named(Len(list)))
    BY DEF CountsTheCores
  <2>1. next - 1 = Len(list) /\ outcome = count
    BY DEF IInv, TypeOK, Settled
  <2> QED BY <2>1 DEF IInv, Counted
<1> QED BY <1>1, Invariant, PTL

(* It refuses what the kernel does not write, and nothing else.            *)
THEOREM RefusalCorrect == Spec => []RefusedIffNotCanonical
<1>1. IInv => RefusedIffNotCanonical
  <2> SUFFICES ASSUME IInv, outcome # Counting
               PROVE  outcome = None <=> ~Canonical
    BY DEF RefusedIffNotCanonical
  <2> DEFINE part == list[next]
  <2>1. next \in Nat /\ Len(list) \in Nat /\ next \in 1..Len(list) + 1 /\ list \in Seq(Parts)
        /\ counted_to \in Nat \cup {-1} /\ outcome \in Nat \cup {None}
    BY DEF IInv, TypeOK
  <2>2. CASE outcome \in Nat
    <3>1. next - 1 = Len(list) /\ outcome # None
      BY <2>1, <2>2, ConstantsAssumption DEF IInv, Settled
    <3>2. Canonical
      BY <3>1 DEF IInv, Ascending, Taken, Canonical
    <3> QED BY <3>1, <3>2
  <2>3. CASE outcome = None
    <3>1. next \in 1..Len(list) /\ ~Accepted(part, counted_to)
      BY <2>1, <2>3 DEF IInv, Settled
    <3>2. SUFFICES ASSUME Canonical PROVE FALSE
      BY <2>3
    <3>3. Numbers(part) /\ Start(part) <= End(part) /\ Start(part) \in Nat /\ End(part) \in Int
      <4>1. Numbers(part) /\ Start(part) <= End(part)
        BY <3>1, <3>2 DEF Canonical
      <4>2. part \in Parts
        BY <2>1, <3>1
      <4> QED BY <4>1, <4>2, PartTyping
    <3>4. Start(part) <= counted_to
      BY <3>1, <3>3, <2>1 DEF Accepted, Misplaced
    <3>5. next > 1 /\ counted_to = End(list[next - 1]) /\ next - 1 \in 1..Len(list)
      BY <3>3, <3>4, <3>1, <2>1 DEF IInv, Settled
    <3>6. counted_to < Start(part)
      BY <3>5, <3>2, <3>1, <2>1 DEF Canonical
    <3> QED BY <3>3, <3>4, <3>6, <2>1
  <2> QED BY <2>1, <2>2, <2>3
<1> QED BY <1>1, Invariant, PTL

(* It never answers zero.                                                  *)
THEOREM ZeroIsNoAnswer == Spec => []NeverZero
<1>1. IInv => NeverZero
  <2> SUFFICES ASSUME IInv, outcome = 0 PROVE FALSE
    BY DEF NeverZero
  <2>1. next = Len(list) + 1 /\ count = 0
    BY DEF IInv, Settled
  <2>2. Len(list) \in Nat \ {0}
    <3>1. list \in Seq(Parts) /\ list # <<>>
      BY DEF IInv, TypeOK
    <3> QED BY <3>1
  <2> QED BY <2>1, <2>2 DEF IInv, Counted
<1> QED BY <1>1, Invariant, PTL
=============================================================================

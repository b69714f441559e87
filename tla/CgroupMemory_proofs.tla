------------------------ MODULE CgroupMemory_proofs ------------------------
(* Proofs about CgroupMemory, for chains of any length, any machine, any   *)
(* limits and any number of moves of the kernel.                           *)
EXTENDS CgroupMemory, PathLemmas, TLAPS

-----------------------------------------------------------------------------
(* The kernel keeps its books: no level holds more than the one above it,  *)
(* and none more than the machine.                                         *)
Books == Cumulative(pages) /\ Total(pages[Depth]) <= Machine

(* Where the reader stands: what it has in hand there, and that a report   *)
(* stays what the levels in hand make of it.                               *)
Stance ==
  /\ step \in {"limit", "charge", "stat"} => carrier = "chain" /\ unreadable = None
  /\ step \in {"charge", "stat"} => found[cursor] # None
  /\ step = "stat" => current \in 0..Machine
  /\ step = "reported" => report = Judged
  /\ carrier # "chain" => Found = {}
  /\ \A l \in Found : /\ Reachable(l)
                      /\ found[l].charged # None => found[l].charged <= Machine

(* The levels a walk that did not end early has left behind.               *)
Behind(l) ==
  /\ carrier = "chain" /\ unreadable = None
  /\ l < cursor \/ step \in {"judge", "reported"}

(* The room under level l now, and as the reader has it half read.         *)
Room(l) == limit[l] - Total(pages[l]) + pages[l]["clean"]
RoomAtCharge(l) == found[l].limit - Total(pages[l]) + pages[l]["clean"]
RoomAtStat(l) == found[l].limit - current + pages[l]["clean"]

(* At each of the moments of a reading, no more room is in hand than there *)
(* was at first and came on top.                                           *)
Bounded ==
  (counts = "both" /\ ~lifted) => \A l \in Levels : (before.limit[l] \in Nat) =>
    /\ limit[l] \in Nat
    /\ Room(l) <= RoomBefore(l) + gained
    /\ Behind(l) /\ Reachable(l) => found[l] # None
    /\ step = "charge" /\ l = cursor => RoomAtCharge(l) <= RoomBefore(l) + gained
    /\ step = "stat" /\ l = cursor => RoomAtStat(l) <= RoomBefore(l) + gained
    /\ l \in Found /\ found[l].charged # None =>
         Distance(found[l]) <= RoomBefore(l) + gained

(* What a level that stands still can be found charged.                    *)
Charges(l) ==
  {ChargeLessCredit(Total(pages[l]), pages[l], n) : n \in UnflushedCaches(pages[l])}

(* Where nothing moved, everything in hand is still so.                    *)
Unmoved ==
  quiet =>
    /\ limit = before.limit /\ pages = before.pages
    /\ step = "stat" => current = Total(pages[cursor])
    /\ \A l \in Levels :
         /\ Behind(l) => found[l] # None \/ limit[l] = Unlimited \/ ~Reachable(l)
         /\ l \in Found => found[l].limit = limit[l]
         /\ l \in Found /\ found[l].charged # None => found[l].charged \in Charges(l)

USE DEF Reachable

-----------------------------------------------------------------------------
(* The smallest of some keys.                                              *)

(* The first of the smallest is there, and is the smallest, where the keys *)
(* do not go down for ever.                                                *)
LEMMA FirstLeastExists ==
  ASSUME NEW D \in SUBSET Nat, D # {},
         NEW key \in [D -> Int], NEW low \in Int, \A l \in D : low <= key[l]
  PROVE  /\ FirstLeast(key) \in D
         /\ \A k \in D : key[FirstLeast(key)] <= key[k]
<1> DEFINE heights == {key[l] - low : l \in D}
<1>1. heights \in SUBSET Nat /\ heights # {}
  <2>1. ASSUME NEW l \in D PROVE key[l] - low \in Nat
    <3>1. key[l] \in Int /\ low <= key[l]
      OBVIOUS
    <3> QED BY <3>1
  <2> QED BY <2>1
<1>2. PICK h \in heights : \A k \in heights : h <= k
  <2> HIDE DEF heights
  <2> QED BY <1>1, LeastNatural
<1>3. PICK least \in D : \A k \in D : key[least] <= key[k]
  <2>1. PICK l \in D : h = key[l] - low
    OBVIOUS
  <2>2. ASSUME NEW k \in D PROVE key[l] <= key[k]
    <3>1. key[l] - low <= key[k] - low
      BY <1>2, <2>1
    <3>2. key[l] \in Int /\ key[k] \in Int
      OBVIOUS
    <3> QED BY <3>1, <3>2
  <2> QED BY <2>2
<1> DEFINE T == {l \in D : key[l] = key[least]}
<1>4. PICK first \in T : \A k \in T : first <= k
  <2>1. T \in SUBSET Nat /\ T # {}
    OBVIOUS
  <2> HIDE DEF T
  <2> QED BY <2>1, LeastNatural
<1>5. \A k \in D : key[first] < key[k] \/ (key[first] = key[k] /\ first <= k)
  <2>1. ASSUME NEW k \in D PROVE key[first] < key[k] \/ (key[first] = key[k] /\ first <= k)
    <3>1. key[first] = key[least] /\ key[least] <= key[k]
      BY <1>3
    <3>2. key[k] = key[least] => first <= k
      BY <1>4
    <3>3. key[least] \in Int /\ key[k] \in Int
      OBVIOUS
    <3> QED BY <3>1, <3>2, <3>3
  <2> QED BY <2>1
<1>6. DOMAIN key = D /\ first \in D
  OBVIOUS
<1> DEFINE Least(l) == \A k \in D : key[l] < key[k] \/ (key[l] = key[k] /\ l <= k)
<1>7. FirstLeast(key) = CHOOSE l \in D : Least(l)
  BY <1>6 DEF FirstLeast
<1>8. FirstLeast(key) \in D /\ Least(FirstLeast(key))
  <2>1. \E l \in D : Least(l)
    BY <1>5, <1>6
  <2> HIDE DEF Least
  <2> QED BY <1>7, <2>1
<1>9. ASSUME NEW k \in D PROVE key[FirstLeast(key)] <= key[k]
  <2>1. /\ key[FirstLeast(key)] \in Int /\ key[k] \in Int
        /\ key[FirstLeast(key)] < key[k] \/ key[FirstLeast(key)] = key[k]
    BY <1>8
  <2> QED BY <2>1
<1> QED BY <1>8, <1>9

-----------------------------------------------------------------------------
(* The kernel.                                                             *)

PagesTyped == pages \in [Levels -> [Kinds -> Nat]]

(* A move that gains so much: room grows by no more.                       *)
Drift(gain) ==
  /\ gained' = gained + gain
  /\ quiet' = FALSE
  /\ ~lifted' => ~lifted
  /\ \A l \in Levels :
       /\ pages'[l]["clean"] <= pages[l]["clean"] + gain
       /\ pages'[l]["clean"] - Total(pages'[l]) <= pages[l]["clean"] - Total(pages[l]) + gain
       /\ limit[l] \in Nat /\ ~lifted' =>
            limit'[l] \in Nat /\ Room(l)' <= Room(l) + gain

LEMMA LevelsArePositions ==
  /\ Levels \subseteq Nat /\ Levels # {} /\ Depth \in Levels
  /\ \A l \in Levels : 1 <= l /\ l <= Depth
BY ConstantsAssumption DEF Levels

LEMMA Counted ==
  ASSUME PagesTyped, Books, NEW l \in Levels
  PROVE  /\ Total(pages[l]) \in 0..Machine
         /\ pages[l]["clean"] \in Nat /\ pages[l]["dirty"] \in Nat /\ pages[l]["hot"] \in Nat
         /\ pages[l]["held"] \in Nat
         /\ pages[l]["clean"] <= Total(pages[l])
<1>1. \A k \in Levels, kind \in Kinds : pages[k][kind] \in Nat
  BY DEF PagesTyped
<1>2. \A kind \in Kinds : pages[l][kind] <= pages[Depth][kind]
  BY LevelsArePositions DEF Books, Cumulative
<1> QED BY <1>1, <1>2, LevelsArePositions, ConstantsAssumption DEF Books, Total, Kinds

LEMMA Shifted ==
  ASSUME PagesTyped, NEW l \in Levels, NEW kind \in Kinds, NEW n \in Int, pages' = Shift(l, kind, n)
  PROVE  /\ \A k \in Levels, other \in Kinds :
              pages'[k][other] = pages[k][other] + (IF k >= l /\ other = kind THEN n ELSE 0)
         /\ pages' \in [Levels -> [Kinds -> Int]]
<1>1. \A k \in Levels : pages[k] \in [Kinds -> Nat]
  BY DEF PagesTyped
<1>2. \A k \in Levels : pages'[k] = IF k >= l THEN [pages[k] EXCEPT ![kind] = @ + n] ELSE pages[k]
  BY DEF Shift
<1>3. ASSUME NEW k \in Levels, NEW other \in Kinds
      PROVE  /\ pages'[k][other] = pages[k][other] + (IF k >= l /\ other = kind THEN n ELSE 0)
             /\ pages'[k] = [held \in Kinds |-> pages[k][held] +
                                (IF k >= l /\ held = kind THEN n ELSE 0)]
  <2>1. pages[k] \in [Kinds -> Nat] /\ pages[k][other] \in Nat
    BY <1>1
  <2>2. CASE k >= l
    <3>1. pages'[k] = [pages[k] EXCEPT ![kind] = @ + n]
      BY <1>2, <2>2
    <3> QED BY <2>1, <2>2, <3>1
  <2>3. CASE ~(k >= l)
    <3>1. pages'[k] = pages[k]
      BY <1>2, <2>3
    <3> QED BY <2>1, <2>3, <3>1
  <2> QED BY <2>2, <2>3
<1>4. \A k \in Levels : pages'[k] \in [Kinds -> Int]
  <2>1. ASSUME NEW k \in Levels PROVE pages'[k] \in [Kinds -> Int]
    <3>1. pages'[k] = [held \in Kinds |-> pages[k][held] +
                                (IF k >= l /\ held = kind THEN n ELSE 0)]
      BY <1>3
    <3>2. \A held \in Kinds : pages[k][held] \in Nat
      BY <1>1
    <3> QED BY <3>1, <3>2
  <2> QED BY <2>1
<1> QED BY <1>3, <1>4 DEF Shift

LEMMA ShiftedTotal ==
  ASSUME PagesTyped, NEW l \in Levels, NEW kind \in Kinds, NEW n \in Int, pages' = Shift(l, kind, n)
  PROVE  \A k \in Levels :
           Total(pages'[k]) = Total(pages[k]) + (IF k >= l THEN n ELSE 0)
<1>1. SUFFICES ASSUME NEW k \in Levels
               PROVE  Total(pages'[k]) = Total(pages[k]) + (IF k >= l THEN n ELSE 0)
  OBVIOUS
<1>2. \A other \in Kinds :
        /\ pages[k][other] \in Nat
        /\ pages'[k][other] = pages[k][other] + (IF k >= l /\ other = kind THEN n ELSE 0)
  BY Shifted DEF PagesTyped
<1>3. kind \in {"held", "clean", "dirty", "hot"}
  BY DEF Kinds
<1> QED BY <1>2, <1>3, SMTT(30) DEF Total, Kinds

(* A move of pages leaves the limits, so the room follows the pages.       *)
LEMMA PagesDrift ==
  ASSUME TypeOK, PagesTyped', NEW gain \in Nat, Move(gain), UNCHANGED <<limit, lifted>>,
         \A k \in Levels :
           /\ pages'[k]["clean"] <= pages[k]["clean"] + gain
           /\ pages'[k]["clean"] - Total(pages'[k]) <= pages[k]["clean"] - Total(pages[k]) + gain
  PROVE  Drift(gain)
<1>1. ASSUME NEW k \in Levels, limit[k] \in Nat PROVE Room(k)' <= Room(k) + gain
  <2>1. /\ pages[k]["clean"] \in Nat /\ pages'[k]["clean"] \in Nat
        /\ Total(pages[k]) \in Int /\ Total(pages'[k]) \in Int
    BY DEF TypeOK, PagesTyped, Kinds, Total
  <2> QED BY <1>1, <2>1 DEF Room
<1> QED BY <1>1 DEF Drift, Move

(* A page more, charged where the machine has one left.                    *)
LEMMA ChargeStep ==
  ASSUME TypeOK, Books, NEW l \in Levels, NEW kind \in Kinds, Charge(l, kind)
  PROVE  PagesTyped' /\ Books' /\ \E gain \in Nat : Drift(gain)
<1>1. PagesTyped /\ pages' = Shift(l, kind, 1) /\ 1 \in Int
  BY DEF TypeOK, PagesTyped, Charge
<1>2. /\ \A k \in Levels, other \in Kinds :
           /\ pages[k][other] \in Nat
           /\ pages'[k][other] = pages[k][other] + (IF k >= l /\ other = kind THEN 1 ELSE 0)
      /\ pages' \in [Levels -> [Kinds -> Int]]
  BY <1>1, Shifted DEF PagesTyped
<1>3. \A k \in Levels : /\ Total(pages[k]) \in 0..Machine
                        /\ Total(pages'[k]) = Total(pages[k]) + (IF k >= l THEN 1 ELSE 0)
  BY <1>1, Counted, ShiftedTotal
<1>4. PagesTyped'
  <2>1. \A k \in Levels, other \in Kinds : pages'[k][other] \in Nat
    BY <1>2
  <2> QED BY <1>2, <2>1 DEF PagesTyped
<1>5. Books'
  <2>1. ASSUME NEW a \in Levels, NEW b \in Levels, NEW other \in Kinds, a <= b
        PROVE  pages'[a][other] <= pages'[b][other]
    <3>1. pages[a][other] <= pages[b][other]
      BY <2>1 DEF Books, Cumulative
    <3>2. a >= l => b >= l
      BY <2>1, LevelsArePositions
    <3> QED BY <1>2, <3>1, <3>2
  <2>2. Total(pages'[Depth]) <= Machine
    BY <1>3, LevelsArePositions, ConstantsAssumption DEF Charge
  <2> QED BY <2>1, <2>2 DEF Books, Cumulative
<1> DEFINE gain == IF kind = "clean" THEN 1 ELSE 0
<1>6. gain \in Nat
  OBVIOUS
<1>7. Drift(gain)
  <2>1. Move(gain) /\ UNCHANGED <<limit, lifted>>
    BY DEF Charge
  <2>2. ASSUME NEW k \in Levels
        PROVE  /\ pages'[k]["clean"] <= pages[k]["clean"] + gain
               /\ pages'[k]["clean"] - Total(pages'[k])
                    <= pages[k]["clean"] - Total(pages[k]) + gain
    <3>1. pages'[k]["clean"] = pages[k]["clean"] + (IF k >= l THEN gain ELSE 0)
      BY <1>2 DEF Kinds
    <3>2. pages[k]["clean"] \in Nat
      BY <1>2 DEF Kinds
    <3> HIDE DEF gain
    <3> QED BY <1>3, <1>6, <3>1, <3>2
  <2> HIDE DEF gain
  <2> QED BY <1>4, <1>6, <2>1, <2>2, PagesDrift
<1> QED BY <1>4, <1>5, <1>6, <1>7


(* A page less: there is one at every level above the group that owned it. *)
LEMMA OwnedAbove ==
  ASSUME PagesTyped, Books, NEW l \in Levels, NEW kind \in Kinds, Own(l, kind) > 0
  PROVE  /\ \A k \in Levels : k >= l => pages[k][kind] >= 1
         /\ \A k, j \in Levels : k < l /\ j >= l => pages[k][kind] < pages[j][kind]
<1>1. /\ \A k \in Levels : pages[k][kind] \in Nat
      /\ \A a, b \in Levels : a <= b => pages[a][kind] <= pages[b][kind]
  BY DEF PagesTyped, Books, Cumulative
<1>2. CASE l = 1
  BY <1>1, <1>2, LevelsArePositions DEF Own
<1>3. CASE l # 1
  <2>1. l - 1 \in Levels /\ pages[l - 1][kind] < pages[l][kind]
    <3>1. l - 1 \in Levels
      BY <1>3, ConstantsAssumption DEF Levels
    <3> QED BY <1>1, <1>3, <3>1 DEF Own
  <2>2. \A k \in Levels : k < l => k <= l - 1
    BY LevelsArePositions
  <2> QED BY <1>1, <2>1, <2>2, LevelsArePositions
<1> QED BY <1>2, <1>3

LEMMA UnchargeStep ==
  ASSUME TypeOK, Books, NEW l \in Levels, NEW kind \in Kinds, Uncharge(l, kind)
  PROVE  PagesTyped' /\ Books' /\ \E gain \in Nat : Drift(gain)
<1>1. PagesTyped /\ pages' = Shift(l, kind, -1) /\ -1 \in Int /\ Own(l, kind) > 0
  BY DEF TypeOK, PagesTyped, Uncharge
<1>2. /\ \A k \in Levels, other \in Kinds :
           /\ pages[k][other] \in Nat
           /\ pages'[k][other] = pages[k][other] + (IF k >= l /\ other = kind THEN -1 ELSE 0)
      /\ pages' \in [Levels -> [Kinds -> Int]]
  BY <1>1, Shifted DEF PagesTyped
<1>3. \A k \in Levels : /\ Total(pages[k]) \in 0..Machine
                        /\ Total(pages'[k]) = Total(pages[k]) + (IF k >= l THEN -1 ELSE 0)
  BY <1>1, Counted, ShiftedTotal
<1>4. PagesTyped'
  <2>1. \A k \in Levels, other \in Kinds : pages'[k][other] \in Nat
    BY <1>1, <1>2, OwnedAbove
  <2> QED BY <1>2, <2>1 DEF PagesTyped
<1>5. Books'
  <2>1. ASSUME NEW a \in Levels, NEW b \in Levels, NEW other \in Kinds, a <= b
        PROVE  pages'[a][other] <= pages'[b][other]
    <3>1. pages[a][other] <= pages[b][other]
      BY <2>1 DEF Books, Cumulative
    <3>2. /\ a >= l => b >= l
          /\ a < l /\ b >= l => pages[a][kind] < pages[b][kind]
      BY <1>1, <2>1, OwnedAbove, LevelsArePositions
    <3>3. a < l \/ a >= l
      BY LevelsArePositions
    <3> QED BY <1>2, <3>1, <3>2, <3>3
  <2>2. Total(pages'[Depth]) <= Machine
    BY <1>3, LevelsArePositions, ConstantsAssumption
  <2> QED BY <2>1, <2>2 DEF Books, Cumulative
<1> DEFINE gain == IF kind = "clean" THEN 0 ELSE 1
<1>6. gain \in Nat
  OBVIOUS
<1>7. Drift(gain)
  <2>1. Move(gain) /\ UNCHANGED <<limit, lifted>>
    BY DEF Uncharge
  <2>2. ASSUME NEW k \in Levels
        PROVE  /\ pages'[k]["clean"] <= pages[k]["clean"] + gain
               /\ pages'[k]["clean"] - Total(pages'[k])
                    <= pages[k]["clean"] - Total(pages[k]) + gain
    <3>1. pages'[k]["clean"] = pages[k]["clean"] + (IF k >= l THEN gain - 1 ELSE 0)
      BY <1>2 DEF Kinds
    <3>2. pages[k]["clean"] \in Nat /\ gain <= 1
      BY <1>2 DEF Kinds
    <3> HIDE DEF gain
    <3> QED BY <1>3, <1>6, <3>1, <3>2
  <2> HIDE DEF gain
  <2> QED BY <1>4, <1>6, <2>1, <2>2, PagesDrift
<1> QED BY <1>4, <1>5, <1>6, <1>7

(* A page changes kind, and no level is charged more or less for it.       *)
LEMMA TurnStep ==
  ASSUME TypeOK, Books, NEW l \in Levels, NEW from \in Kinds, NEW to \in Kinds, Turn(l, from, to)
  PROVE  PagesTyped' /\ Books' /\ \E gain \in Nat : Drift(gain)
<1>1. PagesTyped /\ Own(l, from) > 0 /\ from # to
  BY DEF TypeOK, PagesTyped, Turn
<1>2. \A k \in Levels :
        /\ pages[k] \in [Kinds -> Nat]
        /\ k < l => pages'[k] = pages[k]
        /\ k >= l => pages'[k] = [pages[k] EXCEPT ![from] = @ - 1, ![to] = @ + 1]
  BY <1>1, LevelsArePositions DEF Turn, PagesTyped
<1>3. ASSUME NEW k \in Levels, NEW other \in Kinds
      PROVE  /\ pages[k][other] \in Nat
             /\ k < l \/ k >= l
             /\ k < l \/ other \notin {from, to} => pages'[k][other] = pages[k][other]
             /\ k >= l /\ other = from => pages'[k][other] = pages[k][other] - 1
             /\ k >= l /\ other = to => pages'[k][other] = pages[k][other] + 1
  <2>1. pages[k] \in [Kinds -> Nat] /\ pages[k][other] \in Nat
    BY <1>2
  <2>2. k \in Nat /\ l \in Nat
    BY LevelsArePositions
  <2>3. CASE k < l
    <3>1. pages'[k] = pages[k]
      BY <1>2, <2>3
    <3>2. ~(k >= l)
      BY <2>2, <2>3
    <3> QED BY <2>1, <2>3, <3>1, <3>2
  <2>4. CASE k >= l
    <3>1. pages'[k] = [pages[k] EXCEPT ![from] = @ - 1, ![to] = @ + 1]
      BY <1>2, <2>4
    <3> QED BY <1>1, <2>1, <2>2, <2>4, <3>1
  <2> QED BY <2>2, <2>3, <2>4
<1>4. PagesTyped'
  <2>1. ASSUME NEW k \in Levels, NEW other \in Kinds PROVE pages'[k][other] \in Nat
    <3>1. k >= l => pages[k][from] >= 1
      BY <1>1, OwnedAbove
    <3> QED BY <1>3, <3>1
  <2>2. ASSUME NEW k \in Levels PROVE pages'[k] \in [Kinds -> Nat]
    <3>1. DOMAIN pages'[k] = Kinds /\ pages'[k] = [held \in Kinds |-> pages'[k][held]]
      <4>1. k < l \/ k >= l
        BY LevelsArePositions
      <4> QED BY <1>2, <4>1
    <3> QED BY <2>1, <3>1
  <2> QED BY <2>2 DEF PagesTyped, Turn
<1>5. \A k \in Levels : /\ Total(pages[k]) \in 0..Machine
                        /\ Total(pages'[k]) = Total(pages[k])
  <2>1. ASSUME NEW k \in Levels
        PROVE  Total(pages'[k]) = Total(pages[k])
    <3> DEFINE was(other) == pages[k][other]
               is(other) == pages'[k][other]
    <3>1. \A other \in Kinds : was(other) \in Nat /\ is(other) \in Int
      BY <1>3, <1>4 DEF PagesTyped
    <3>2. CASE k < l
      BY <1>2, <3>2
    <3>3. CASE k >= l
      <4>1. /\ <<from, to>> \in {<<"clean", "dirty">>, <<"dirty", "clean">>,
                                  <<"dirty", "hot">>, <<"hot", "dirty">>}
            /\ is(from) = was(from) - 1 /\ is(to) = was(to) + 1
            /\ \A other \in Kinds \ {from, to} : is(other) = was(other)
        BY <1>3, <3>3 DEF Turn
      <4>2. /\ was("held") \in Nat /\ was("clean") \in Nat /\ was("dirty") \in Nat
            /\ was("hot") \in Nat /\ is("held") \in Int /\ is("clean") \in Int
            /\ is("dirty") \in Int /\ is("hot") \in Int
        BY <3>1 DEF Kinds
      <4>3. is("held") + is("clean") + is("dirty") + is("hot")
              = was("held") + was("clean") + was("dirty") + was("hot")
        <5> HIDE DEF was, is
        <5>1. CASE from = "clean" /\ to = "dirty"
          BY <4>1, <4>2, <5>1 DEF Kinds
        <5>2. CASE from = "dirty" /\ to = "clean"
          BY <4>1, <4>2, <5>2 DEF Kinds
        <5>3. CASE from = "dirty" /\ to = "hot"
          BY <4>1, <4>2, <5>3 DEF Kinds
        <5>4. CASE from = "hot" /\ to = "dirty"
          BY <4>1, <4>2, <5>4 DEF Kinds
        <5> QED BY <4>1, <5>1, <5>2, <5>3, <5>4
      <4> QED BY <4>3 DEF Total
    <3> QED BY <1>3, <3>2, <3>3
  <2> QED BY <1>1, <2>1, Counted
<1>6. Books'
  <2>1. ASSUME NEW a \in Levels, NEW b \in Levels, NEW other \in Kinds, a <= b
        PROVE  pages'[a][other] <= pages'[b][other]
    <3>1. pages[a][other] <= pages[b][other]
      BY <2>1 DEF Books, Cumulative
    <3>2. /\ a >= l => b >= l
          /\ a < l /\ b >= l => pages[a][from] < pages[b][from]
      BY <1>1, <2>1, OwnedAbove, LevelsArePositions
    <3>3. CASE other = from
      BY <1>1, <1>3, <2>1, <3>1, <3>2, <3>3
    <3>4. CASE other = to
      BY <1>1, <1>3, <2>1, <3>1, <3>2, <3>4
    <3>5. CASE other \notin {from, to}
      BY <1>3, <3>1, <3>5
    <3> QED BY <3>3, <3>4, <3>5
  <2>2. Total(pages'[Depth]) <= Machine
    BY <1>5, LevelsArePositions, ConstantsAssumption
  <2> QED BY <2>1, <2>2 DEF Books, Cumulative
<1> DEFINE gain == IF to = "clean" THEN 1 ELSE 0
<1>7. gain \in Nat
  OBVIOUS
<1>8. Drift(gain)
  <2>1. Move(gain) /\ UNCHANGED <<limit, lifted>>
    BY DEF Turn
  <2>2. ASSUME NEW k \in Levels
        PROVE  /\ pages'[k]["clean"] <= pages[k]["clean"] + gain
               /\ pages'[k]["clean"] - Total(pages'[k])
                    <= pages[k]["clean"] - Total(pages[k]) + gain
    <3>1. pages[k]["clean"] \in Nat /\ pages'[k]["clean"] <= pages[k]["clean"] + gain
      <4>1. "clean" \in Kinds
        BY DEF Kinds
      <4>2. CASE from = "clean"
        BY <1>1, <1>3, <1>7, <4>1, <4>2
      <4>3. CASE from # "clean"
        BY <1>3, <4>1, <4>3
      <4> QED BY <4>2, <4>3
    <3>2. pages'[k]["clean"] \in Nat
      BY <1>4 DEF PagesTyped, Kinds
    <3> HIDE DEF gain
    <3> QED BY <1>5, <1>7, <3>1, <3>2
  <2> HIDE DEF gain
  <2> QED BY <1>4, <1>7, <2>1, <2>2, PagesDrift
<1> QED BY <1>4, <1>6, <1>7, <1>8

(* A limit is written: raised it gains, lifted it is no limit any more.    *)
LEMMA WriteLimitStep ==
  ASSUME TypeOK, Books, NEW l \in Levels, NEW value \in Limits \cup {Unlimited, Unusable},
         WriteLimit(l, value)
  PROVE  PagesTyped' /\ Books' /\ \E gain \in Nat : Drift(gain)
<1>1. PagesTyped' /\ Books' /\ pages' = pages
  BY DEF TypeOK, PagesTyped, WriteLimit, Books, Cumulative
<1> DEFINE gain == IF limit[l] \in Nat /\ value \in Nat THEN Max0(value - limit[l]) ELSE 0
<1>2. gain \in Nat
  BY DEF Max0
<1>3. Drift(gain)
  <2>1. /\ gained' = gained + gain /\ quiet' = FALSE
        /\ \A k \in Levels : limit'[k] = IF k = l THEN value ELSE limit[k]
    BY DEF WriteLimit, Move, TypeOK
  <2>4. ~lifted' => ~lifted /\ (limit[l] \in Nat => value \in Nat)
    BY Zenon DEF WriteLimit
  <2>2. ASSUME NEW k \in Levels
        PROVE  /\ pages[k]["clean"] \in Nat /\ Total(pages[k]) \in Nat
    BY DEF TypeOK, Kinds, Total
  <2>3. ASSUME NEW k \in Levels, limit[k] \in Nat, ~lifted'
        PROVE  limit'[k] \in Nat /\ Room(k)' <= Room(k) + gain
    <3>1. CASE k = l
      <4>1. limit'[k] = value /\ value \in Nat /\ value - limit[k] <= gain
        BY <2>1, <2>3, <2>4, <3>1 DEF Max0
      <4> HIDE DEF gain
      <4> QED BY <1>1, <1>2, <2>2, <2>3, <4>1 DEF Room
    <3>2. CASE k # l
      <4>1. limit'[k] = limit[k]
        BY <2>1, <3>2
      <4> HIDE DEF gain
      <4> QED BY <1>1, <1>2, <2>2, <2>3, <4>1 DEF Room
    <3> QED BY <3>1, <3>2
  <2> HIDE DEF gain
  <2>5. \A k \in Levels :
          /\ pages'[k]["clean"] <= pages[k]["clean"] + gain
          /\ pages'[k]["clean"] - Total(pages'[k]) <= pages[k]["clean"] - Total(pages[k]) + gain
    BY <1>1, <1>2, <2>2
  <2> QED BY <2>1, <2>3, <2>4, <2>5 DEF Drift
<1> QED BY <1>1, <1>2, <1>3


(* What a move of the kernel does to the books, and what it leaves alone.  *)
LEMMA KernelStep ==
  ASSUME TypeOK, Books, Kernel
  PROVE  /\ Books' /\ \E gain \in Nat : Drift(gain)
         /\ PagesTyped' /\ limit' \in [Levels -> Nat \cup {Unlimited, Unusable}]
         /\ lifted' \in BOOLEAN /\ churn' \in Nat /\ quiet' = FALSE
         /\ UNCHANGED <<machinery, walk, report, before>>
<1>1. /\ PagesTyped' /\ Books' /\ \E gain \in Nat : Drift(gain)
      /\ \E gain : Move(gain)
      /\ UNCHANGED <<machinery, walk, report, before>>
  <2>1. PICK l \in Levels :
          \/ \E kind \in Kinds : Charge(l, kind)
          \/ \E kind \in Kinds : Uncharge(l, kind)
          \/ \E from, to \in Kinds : Turn(l, from, to)
          \/ \E value \in Limits \cup {Unlimited, Unusable} : WriteLimit(l, value)
    BY DEF Kernel
  <2>2. CASE \E kind \in Kinds : Charge(l, kind)
    <3>1. PICK kind \in Kinds : Charge(l, kind)
      BY <2>2
    <3> QED BY <3>1, ChargeStep DEF Charge
  <2>3. CASE \E kind \in Kinds : Uncharge(l, kind)
    <3>1. PICK kind \in Kinds : Uncharge(l, kind)
      BY <2>3
    <3> QED BY <3>1, UnchargeStep DEF Uncharge
  <2>4. CASE \E from, to \in Kinds : Turn(l, from, to)
    <3>1. PICK from \in Kinds, to \in Kinds : Turn(l, from, to)
      BY <2>4
    <3> QED BY <3>1, TurnStep DEF Turn
  <2>5. CASE \E value \in Limits \cup {Unlimited, Unusable} : WriteLimit(l, value)
    <3>1. PICK value \in Limits \cup {Unlimited, Unusable} : WriteLimit(l, value)
      BY <2>5
    <3> QED BY <3>1, WriteLimitStep DEF WriteLimit
  <2> QED BY <2>1, <2>2, <2>3, <2>4, <2>5
<1>2. limit' \in [Levels -> Nat \cup {Unlimited, Unusable}] /\ lifted' \in BOOLEAN
  <2>1. limit \in [Levels -> Nat \cup {Unlimited, Unusable}] /\ lifted \in BOOLEAN
    BY DEF TypeOK
  <2>2. \/ UNCHANGED <<limit, lifted>>
        \/ \E l \in Levels, value \in Limits \cup {Unlimited, Unusable} : WriteLimit(l, value)
    BY DEF Kernel, Charge, Uncharge, Turn
  <2>3. ASSUME NEW l \in Levels, NEW value \in Limits \cup {Unlimited, Unusable},
               WriteLimit(l, value)
        PROVE  limit' \in [Levels -> Nat \cup {Unlimited, Unusable}] /\ lifted' \in BOOLEAN
    <3>1. value \in Nat \cup {Unlimited, Unusable} /\ limit' = [limit EXCEPT ![l] = value]
      BY <2>3, ConstantsAssumption DEF WriteLimit
    <3>2. lifted' \in BOOLEAN
      BY <2>3, Zenon DEF WriteLimit
    <3> QED BY <2>1, <3>1, <3>2
  <2> QED BY <2>1, <2>2, <2>3
<1>3. churn' \in Nat /\ quiet' = FALSE
  BY <1>1 DEF Move, TypeOK
<1> QED BY <1>1, <1>2, <1>3

-----------------------------------------------------------------------------
(* What one level says.                                                    *)

LEMMA Credited ==
  ASSUME NEW held \in [Kinds -> Nat], counts \in CountKinds, NEW charge \in Nat,
         NEW unflushed \in UnflushedCaches(held)
  PROVE  /\ Credit(held, unflushed) \in Nat
         /\ ChargeLessCredit(charge, held, unflushed) \in 0..charge
         /\ unflushed \in Nat \cup {None}
         /\ counts = "both" =>
              charge - held["clean"] <= ChargeLessCredit(charge, held, unflushed)
         /\ held["hot"] = 0 /\ (counts = "both" \/ held["dirty"] = 0) =>
              Credit(held, unflushed) = held["clean"]
<1>1. /\ held["clean"] \in Nat /\ held["dirty"] \in Nat /\ held["hot"] \in Nat
  BY DEF Kinds
<1>2. CASE counts # "none"
  <2>1. /\ unflushed \in 0..(held["dirty"] + held["hot"])
        /\ counts = "both" => unflushed = held["dirty"] + held["hot"]
    BY <1>1, <1>2 DEF UnflushedCaches, CountKinds
  <2>2. unflushed \in Nat /\ unflushed # None
    BY <1>1, <2>1, MarkersAssumption
  <2>3. Credit(held, unflushed) = Max0(held["clean"] + held["dirty"] - unflushed)
    BY <2>2 DEF Credit
  <2>4. unflushed <= held["dirty"] + held["hot"]
    BY <1>1, <2>1
  <2>5. /\ Credit(held, unflushed) \in Nat
        /\ counts = "both" => Credit(held, unflushed) <= held["clean"]
        /\ held["hot"] = 0 /\ (counts = "both" \/ held["dirty"] = 0) =>
             Credit(held, unflushed) = held["clean"]
    <3>1. Credit(held, unflushed) \in Nat
      BY <1>1, <2>2, <2>3 DEF Max0
    <3>2. CASE counts = "both"
      <4>1. Credit(held, unflushed)
              = Max0(held["clean"] + held["dirty"] - (held["dirty"] + held["hot"]))
        BY <2>1, <2>3, <3>2
      <4> QED BY <1>1, <3>1, <3>2, <4>1 DEF Max0
    <3>3. ASSUME held["hot"] = 0, held["dirty"] = 0
          PROVE  Credit(held, unflushed) = held["clean"]
      <4>1. unflushed = 0
        BY <1>1, <2>2, <2>4, <3>3
      <4> QED BY <1>1, <2>3, <3>3, <4>1 DEF Max0
    <3> QED BY <3>1, <3>2, <3>3
  <2>6. ChargeLessCredit(charge, held, unflushed) = Max0(charge - Credit(held, unflushed))
    BY DEF ChargeLessCredit
  <2> QED BY <1>1, <2>2, <2>5, <2>6 DEF Max0
<1>3. CASE counts = "none"
  <2>1. unflushed = None
    BY <1>3 DEF UnflushedCaches
  <2>2. Credit(held, unflushed) = Max0(held["clean"] + held["dirty"])
    BY <1>1, <2>1 DEF Credit
  <2> QED BY <1>1, <1>3, <2>1, <2>2 DEF ChargeLessCredit, Max0
<1> QED BY <1>2, <1>3

-----------------------------------------------------------------------------
(* What the walk makes of the levels it found.                             *)

(* A notice is given, or the limit and the usage are there to report.      *)
LEMMA RejectionGiven ==
  ASSUME NEW raw
  PROVE  /\ Rejection(raw) \in Notices \cup {None}
         /\ unreadable # None => Rejection(raw) # None
         /\ Rejection(raw) = None /\ raw.limit # None => raw.used # None
<1>1. None \notin Notices
  BY NoneAssumption
<1> QED BY <1>1 DEF Rejection, Notices


LEMMA FoundLevels ==
  ASSUME TypeOK, Stance, NEW l \in Found
  PROVE  /\ l \in Levels /\ found[l] \in MemoryLevels
         /\ found[l].limit \in Nat
         /\ l \notin Unknown => /\ found[l].charged \in 0..Machine
                                /\ Distance(found[l]) \in Int
                                /\ -Machine <= Distance(found[l])
                                /\ Distance(found[l]) <= found[l].limit
<1>1. l \in Levels /\ found[l] \in MemoryLevels
  BY DEF Found, TypeOK
<1>2. found[l].limit \in Nat /\ found[l].charged \in Nat \cup {None}
  BY <1>1 DEF MemoryLevels
<1>3. l \notin Unknown => found[l].charged \in 0..Machine
  BY <1>2, ConstantsAssumption DEF Unknown, Stance
<1> QED BY <1>1, <1>2, <1>3, ConstantsAssumption DEF Distance

LEMMA TightestIsLeast ==
  ASSUME TypeOK, Stance, Found # {}
  PROVE  Tightest \in Found /\ \A l \in Found : found[Tightest].limit <= found[l].limit
<1> DEFINE key == [l \in Found |-> found[l].limit]
<1>1. key \in [Found -> Int] /\ \A l \in Found : 0 <= key[l]
  BY FoundLevels
<1>2. Found \in SUBSET Nat
  BY LevelsArePositions DEF Found
<1>3. Tightest = FirstLeast(key)
  BY DEF Tightest
<1>4. \A l \in Found : key[l] = found[l].limit
  OBVIOUS
<1> HIDE DEF key
<1>5. FirstLeast(key) \in Found /\ \A l \in Found : key[FirstLeast(key)] <= key[l]
  <2>1. 0 \in Int
    OBVIOUS
  <2> QED BY <1>1, <1>2, <2>1, FirstLeastExists
<1> QED BY <1>3, <1>4, <1>5

LEMMA LeastDistanceIsLeast ==
  ASSUME TypeOK, Stance, Found # {}, Unknown = {}
  PROVE  /\ LeastDistance \in Found
         /\ \A l \in Found : Distance(found[LeastDistance]) <= Distance(found[l])
<1> DEFINE key == [l \in Found |-> Distance(found[l])]
<1>1. key \in [Found -> Int] /\ \A l \in Found : -Machine <= key[l]
  BY FoundLevels
<1>2. Found \in SUBSET Nat
  BY LevelsArePositions DEF Found
<1>3. LeastDistance = FirstLeast(key)
  BY DEF LeastDistance
<1>4. \A l \in Found : key[l] = Distance(found[l])
  OBVIOUS
<1>5. -Machine \in Int
  BY ConstantsAssumption
<1> HIDE DEF key
<1>6. FirstLeast(key) \in Found /\ \A l \in Found : key[FirstLeast(key)] <= key[l]
  BY <1>1, <1>2, <1>5, FirstLeastExists
<1> QED BY <1>3, <1>4, <1>6

(* The room carried over to the tightest limit is room under that limit:   *)
(* the least distance is at most the distance there.                       *)
LEMMA KnownMemoryAgrees ==
  ASSUME TypeOK, Stance, Found # {}, Unknown = {}
  PROVE  /\ KnownMemory \in Budgets
         /\ KnownMemory.used + KnownMemory.available = KnownMemory.limit
         /\ KnownMemory.available = Max0(Distance(found[LeastDistance]))
         /\ Reconcile(KnownMemory) = KnownMemory
<1> DEFINE most == found[Tightest].limit
           room == Max0(Distance(found[LeastDistance]))
<1>1. /\ most \in Nat /\ Distance(found[LeastDistance]) \in Int
      /\ Distance(found[LeastDistance]) <= most
  <2>1. Tightest \in Found /\ Tightest \notin Unknown /\ LeastDistance \notin Unknown
    BY TightestIsLeast
  <2>2. /\ LeastDistance \in Found
        /\ Distance(found[LeastDistance]) <= Distance(found[Tightest])
    BY <2>1, LeastDistanceIsLeast
  <2>3. /\ most \in Nat /\ Distance(found[Tightest]) \in Int
        /\ Distance(found[Tightest]) <= most /\ Distance(found[LeastDistance]) \in Int
    BY <2>1, <2>2, FoundLevels
  <2> HIDE DEF most
  <2> QED BY <2>2, <2>3
<1>2. room \in Nat /\ room <= most
  BY <1>1 DEF Max0
<1>3. KnownMemory = [limit |-> most, used |-> most - room, available |-> room]
  BY DEF KnownMemory, Available
<1>4. AtMost(Max0(most - room), most) = most - room /\ AtMost(Max0(room), most - (most - room)) = room
  <2> HIDE DEF most, room
  <2> QED BY <1>1, <1>2 DEF AtMost, Max0
<1>5. Reconcile(KnownMemory) =
        [limit |-> most, used |-> AtMost(Max0(most - room), most),
         available |-> AtMost(Max0(room), most - AtMost(Max0(most - room), most))]
  <2> HIDE DEF most, room
  <2> QED BY <1>3 DEF Reconcile
<1> HIDE DEF most
<1>6. KnownMemory.available = Max0(Distance(found[LeastDistance]))
  BY <1>3
<1> HIDE DEF room
<1>7. most - room \in Nat /\ (most - room) + room = most
  BY <1>1, <1>2
<1> QED BY <1>1, <1>2, <1>3, <1>4, <1>5, <1>6, <1>7 DEF Budgets

(* A budget is the known memory of a chain that was read whole.            *)
LEMMA BudgetReported ==
  ASSUME TypeOK, Stance, Judged.budget # None
  PROVE  /\ unreadable = None /\ carrier = "chain" /\ Found # {} /\ Unknown = {}
         /\ RawMemory = KnownMemory
         /\ Judged.budget = KnownMemory
<1>1. /\ Rejection(RawMemory) = None /\ RawMemory.limit # None
      /\ Judged.budget = Reconcile(RawMemory)
  BY DEF Judged
<1>2. unreadable = None /\ RawMemory.used # None
  BY <1>1, RejectionGiven
<1>3. Found # {}
  BY <1>1 DEF RawMemory, NoMemory
<1>4. Unknown = {}
  BY <1>2, <1>3 DEF RawMemory, NoMemory
<1>5. RawMemory = KnownMemory
  BY <1>2, <1>3, <1>4 DEF RawMemory
<1> QED BY <1>1, <1>2, <1>3, <1>4, <1>5, KnownMemoryAgrees DEF Stance

LEMMA JudgedTyped ==
  ASSUME TypeOK, Stance
  PROVE  Judged \in [budget : Budgets \cup {None}, notice : Notices \cup {None}]
<1>1. Judged.budget \in Budgets \cup {None}
  BY BudgetReported, KnownMemoryAgrees
<1>2. Judged.notice \in Notices \cup {None}
  BY RejectionGiven DEF Judged
<1>3. Judged = [budget |-> Judged.budget, notice |-> Judged.notice]
  BY DEF Judged
<1> QED BY <1>1, <1>2, <1>3


-----------------------------------------------------------------------------
(* The inductive invariant.                                                *)

IInv == TypeOK /\ Books /\ Stance /\ Bounded /\ Unmoved

LEMMA InitIInv == Init => IInv
<1> SUFFICES ASSUME Init PROVE IInv
  OBVIOUS
<1> USE DEF Init
<1>1. PagesTyped /\ Books
  <2>1. 0..Machine \subseteq Nat
    BY ConstantsAssumption
  <2> QED BY <2>1 DEF PagesTyped, Books
<1>2. TypeOK
  <2>1. /\ limit \in [Levels -> Nat \cup {Unlimited, Unusable}]
        /\ carrier \in CarrierKinds /\ counts \in CountKinds /\ churn \in Nat
    <3>1. limit \in [Levels -> Nat \cup {Unlimited, Unusable}]
      BY ConstantsAssumption
    <3>2. carrier \in CarrierKinds /\ counts \in CountKinds
      BY ConstantsAssumption
    <3>3. churn \in Nat
      BY ConstantsAssumption
    <3> QED BY <3>1, <3>2, <3>3
  <2>2. /\ cursor \in Levels /\ found \in [Levels -> MemoryLevels \cup {None}]
        /\ report \in [budget : Budgets \cup {None}, notice : Notices \cup {None}]
    BY ConstantsAssumption DEF Levels
  <2> QED BY <1>1, <2>1, <2>2 DEF TypeOK, PagesTyped
<1>3. Found = {}
  BY DEF Found
<1>4. Stance
  BY <1>3 DEF Stance
<1>5. ASSUME NEW l \in Levels PROVE ~Behind(l)
  <2>1. ~(l < cursor)
    BY LevelsArePositions
  <2> QED BY <2>1 DEF Behind
<1>6. Bounded
  <2>1. ASSUME NEW l \in Levels, before.limit[l] \in Nat
        PROVE  limit[l] \in Nat /\ Room(l) <= RoomBefore(l) + gained
    <3>1. Total(pages[l]) \in Int /\ pages[l]["clean"] \in Nat /\ limit[l] \in Nat
      BY <1>1, <2>1, Counted, ConstantsAssumption
    <3> QED BY <3>1 DEF Room, RoomBefore
  <2> QED BY <1>3, <1>5, <2>1 DEF Bounded
<1>7. Unmoved
  BY <1>3, <1>5 DEF Unmoved
<1> QED BY <1>1, <1>2, <1>4, <1>6, <1>7 DEF IInv

-----------------------------------------------------------------------------
(* The kernel moves under the reader.                                      *)

LEMMA JudgedStands ==
  ASSUME UNCHANGED <<found, unreadable, ceiling, carrier>>
  PROVE  /\ Found' = Found /\ Unknown' = Unknown /\ RawMemory' = RawMemory
         /\ Judged' = Judged
<1>1. Found' = Found
  BY DEF Found
<1>2. Unknown' = Unknown
  BY <1>1 DEF Unknown
<1>3. Tightest' = Tightest
  BY <1>1 DEF Tightest
<1>4. LeastDistance' = LeastDistance
  BY <1>1 DEF LeastDistance, Distance
<1>5. KnownMemory' = KnownMemory
  BY <1>3, <1>4 DEF KnownMemory, Available, Distance, Max0
<1>6. RawMemory' = RawMemory
  BY <1>1, <1>2, <1>3, <1>5 DEF RawMemory, NoMemory
<1>7. Rejection(RawMemory)' = Rejection(RawMemory)
  BY <1>6 DEF Rejection
<1>8. Judged' = Judged
  BY <1>6, <1>7 DEF Judged, Reconcile, AtMost, Max0
<1> QED BY <1>1, <1>2, <1>6, <1>8

LEMMA KernelKeeps == IInv /\ Kernel => IInv'
<1> SUFFICES ASSUME IInv, Kernel PROVE IInv'
  OBVIOUS
<1> USE DEF IInv
<1>1. /\ Books' /\ \E gain \in Nat : Drift(gain)
      /\ PagesTyped' /\ limit' \in [Levels -> Nat \cup {Unlimited, Unusable}]
      /\ lifted' \in BOOLEAN /\ churn' \in Nat /\ quiet' = FALSE
      /\ UNCHANGED <<machinery, walk, report, before>>
  BY KernelStep
<1>2. PICK gain \in Nat : Drift(gain)
  BY <1>1
<1> USE <1>1 DEF machinery, walk
<1>3. TypeOK'
  <2>1. gained' \in Nat
    BY <1>2 DEF TypeOK, Drift
  <2> QED BY <2>1 DEF TypeOK, PagesTyped
<1>4. Stance'
  BY JudgedStands DEF Stance
<1>5. Unmoved'
  BY DEF Unmoved
<1>6. Bounded'
  <2>1. SUFFICES ASSUME NEW l \in Levels, counts = "both", ~lifted', before.limit[l] \in Nat
                 PROVE  /\ limit'[l] \in Nat
                        /\ Room(l)' <= RoomBefore(l)' + gained'
                        /\ Behind(l)' /\ Reachable(l)' => found'[l] # None
                        /\ step' = "charge" /\ l = cursor' =>
                             RoomAtCharge(l)' <= RoomBefore(l)' + gained'
                        /\ step' = "stat" /\ l = cursor' =>
                             RoomAtStat(l)' <= RoomBefore(l)' + gained'
                        /\ l \in Found' /\ found'[l].charged # None =>
                             Distance(found'[l]) <= RoomBefore(l)' + gained'
    BY DEF Bounded
  <2>2. ~lifted
    BY <1>2, <2>1 DEF Drift
  <2>3. /\ limit[l] \in Nat
        /\ Room(l) <= RoomBefore(l) + gained
        /\ Behind(l) /\ Reachable(l) => found[l] # None
        /\ step = "charge" /\ l = cursor => RoomAtCharge(l) <= RoomBefore(l) + gained
        /\ step = "stat" /\ l = cursor => RoomAtStat(l) <= RoomBefore(l) + gained
        /\ l \in Found /\ found[l].charged # None => Distance(found[l]) <= RoomBefore(l) + gained
    BY <2>1, <2>2 DEF Bounded
  <2>4. /\ RoomBefore(l)' = RoomBefore(l) /\ Found' = Found
        /\ (Behind(l)' <=> Behind(l))
    BY JudgedStands DEF RoomBefore, Behind
  <2>5. /\ gained' = gained + gain
        /\ limit'[l] \in Nat /\ Room(l)' <= Room(l) + gain
        /\ pages'[l]["clean"] <= pages[l]["clean"] + gain
        /\ pages'[l]["clean"] - Total(pages'[l]) <= pages[l]["clean"] - Total(pages[l]) + gain
    BY <1>2, <2>1, <2>3 DEF Drift
  <2>6. /\ RoomBefore(l) \in Int /\ gained \in Nat
        /\ pages[l]["clean"] \in Nat /\ pages'[l]["clean"] \in Nat
        /\ Total(pages[l]) \in Int /\ Total(pages'[l]) \in Int
    <3>1. \A held \in [Kinds -> Nat] : held["clean"] \in Nat /\ Total(held) \in Int
      BY DEF Total, Kinds
    <3>2. /\ before.pages[l] \in [Kinds -> Nat] /\ pages[l] \in [Kinds -> Nat]
          /\ pages'[l] \in [Kinds -> Nat] /\ gained \in Nat
      BY DEF TypeOK, PagesTyped
    <3> QED BY <2>1, <3>1, <3>2 DEF RoomBefore
  <2>7. limit[l] \in Nat /\ Room(l) \in Int /\ Room(l)' \in Int
    BY <2>3, <2>5, <2>6 DEF Room
  <2>8. l \in Found => found[l].limit \in Int
    BY FoundLevels
  <2>9. step \in {"charge", "stat"} => cursor \in Found
    BY DEF Stance, TypeOK, Found
  <2>10. step = "charge" /\ l = cursor => RoomAtCharge(l)' <= RoomBefore(l) + gained'
    <3>1. ASSUME step = "charge", l = cursor
          PROVE  RoomAtCharge(l)' <= RoomBefore(l) + gained'
      <4>1. found[l].limit \in Int
        BY <2>8, <2>9, <3>1
      <4>2. RoomAtCharge(l)' = found[l].limit - Total(pages'[l]) + pages'[l]["clean"]
        BY DEF RoomAtCharge
      <4> QED BY <2>3, <2>5, <2>6, <3>1, <4>1, <4>2 DEF RoomAtCharge
    <3> QED BY <3>1
  <2>11. step = "stat" /\ l = cursor => RoomAtStat(l)' <= RoomBefore(l) + gained'
    <3>1. ASSUME step = "stat", l = cursor
          PROVE  RoomAtStat(l)' <= RoomBefore(l) + gained'
      <4>1. found[l].limit \in Int /\ current \in Int
        BY <2>8, <2>9, <3>1, ConstantsAssumption DEF Stance
      <4>2. RoomAtStat(l)' = found[l].limit - current + pages'[l]["clean"]
        BY DEF RoomAtStat
      <4> QED BY <2>3, <2>5, <2>6, <3>1, <4>1, <4>2 DEF RoomAtStat
    <3> QED BY <3>1
  <2>12. l \in Found /\ found[l].charged # None => Distance(found[l]) <= RoomBefore(l) + gained'
    <3>1. ASSUME l \in Found, found[l].charged # None
          PROVE  Distance(found[l]) <= RoomBefore(l) + gained'
      <4>1. Distance(found[l]) \in Int
        BY <3>1, FoundLevels DEF Unknown
      <4> QED BY <2>3, <2>5, <2>6, <3>1, <4>1
    <3> QED BY <3>1
  <2>13. Room(l)' <= RoomBefore(l) + gained'
    BY <2>3, <2>5, <2>6, <2>7
  <2> QED BY <2>3, <2>4, <2>5, <2>10, <2>11, <2>12, <2>13
<1> QED BY <1>3, <1>4, <1>5, <1>6


-----------------------------------------------------------------------------
(* The reader moves.                                                       *)

(* A call starts on what stands.                                           *)
LEMMA BeginKeeps == IInv /\ Begin => IInv'
<1> SUFFICES ASSUME IInv, Begin PROVE IInv'
  OBVIOUS
<1> USE DEF IInv
<1>1. /\ TypeOK /\ Books
      /\ before' = [limit |-> limit, pages |-> pages]
      /\ gained' = 0 /\ lifted' = FALSE /\ quiet' = TRUE
      /\ cursor' = 1 /\ current' = None /\ unreadable' = None
      /\ found' = [l \in Levels |-> None]
      /\ report' = [budget |-> None, notice |-> None]
      /\ step' = IF carrier = "chain" THEN "limit" ELSE "judge"
      /\ ceiling' \in Ceilings
      /\ UNCHANGED <<limit, pages, churn, machinery>>
  BY DEF Begin
<1>2. /\ before'.limit = limit' /\ before'.pages = pages'
      /\ Found' = {} /\ carrier' = carrier /\ counts' = counts /\ shut' = shut
  BY <1>1 DEF Found, machinery
<1>3. TypeOK'
  <2>1. 1 \in Levels /\ ceiling' \in {Machine, None}
    BY <1>1, ConstantsAssumption DEF Levels
  <2> QED BY <1>1, <2>1 DEF TypeOK, machinery
<1>4. Books'
  BY <1>1 DEF Books, Cumulative
<1>5. Stance'
  BY <1>1, <1>2 DEF Stance
<1>6. ASSUME NEW l \in Levels PROVE ~Behind(l)'
  <2>1. ~(l < 1)
    BY LevelsArePositions
  <2> QED BY <1>1, <1>2, <2>1 DEF Behind
<1>7. Bounded'
  <2>1. ASSUME NEW l \in Levels, before'.limit[l] \in Nat
        PROVE  limit'[l] \in Nat /\ Room(l)' <= RoomBefore(l)' + gained'
    <3>1. /\ limit'[l] \in Nat /\ Total(pages'[l]) \in Int /\ pages'[l]["clean"] \in Int
      BY <1>1, <1>2, <2>1, Counted DEF TypeOK, PagesTyped
    <3>2. Room(l)' = RoomBefore(l)' /\ Room(l)' \in Int
      BY <1>2, <3>1 DEF Room, RoomBefore
    <3> QED BY <1>1, <3>1, <3>2
  <2>2. step' \notin {"charge", "stat"}
    BY <1>1
  <2> QED BY <1>2, <1>6, <2>1, <2>2 DEF Bounded
<1>8. Unmoved'
  BY <1>1, <1>2, <1>6 DEF Unmoved
<1> QED BY <1>3, <1>4, <1>5, <1>7, <1>8

(* What no step of a walk touches.                                         *)
LEMMA BooksStand == Books /\ UNCHANGED reading => Books'
BY DEF Books, Cumulative, reading, kernel

LEMMA ReadingStands ==
  ASSUME UNCHANGED reading
  PROVE  /\ \A l \in Levels :
              /\ RoomBefore(l)' = RoomBefore(l) /\ Room(l)' = Room(l)
              /\ Charges(l)' = Charges(l)
         /\ UNCHANGED <<limit, pages, carrier, counts, shut, lifted, gained, quiet, before>>
BY DEF reading, kernel, machinery, RoomBefore, Room, Charges, ChargeLessCredit, Credit,
       UnflushedCaches

LEMMA Onward ==
  ASSUME TypeOK, NextLevel
  PROVE  /\ cursor' \in Levels /\ step' \in {"limit", "judge"}
         /\ \A l \in Levels : l < cursor' \/ step' = "judge" => l < cursor \/ l = cursor
<1>1. cursor \in Levels
  BY DEF TypeOK
<1>2. CASE cursor = Depth
  <2>1. \A l \in Levels : l < cursor \/ l = cursor
    BY <1>2, LevelsArePositions
  <2> QED BY <1>1, <1>2, <2>1 DEF NextLevel
<1>3. CASE cursor # Depth
  <2>1. cursor + 1 \in Levels
    BY <1>1, <1>3, ConstantsAssumption DEF Levels
  <2>2. \A l \in Levels : l < cursor + 1 => l < cursor \/ l = cursor
    BY <1>1, LevelsArePositions
  <2> QED BY <1>3, <2>1, <2>2 DEF NextLevel
<1> QED BY <1>2, <1>3


LEMMA ReadLimitKeeps == IInv /\ ReadLimit => IInv'
<1> SUFFICES ASSUME IInv, ReadLimit PROVE IInv'
  OBVIOUS
<1> USE DEF IInv
<1>1. /\ step = "limit" /\ carrier = "chain" /\ unreadable = None
      /\ UNCHANGED <<reading, current>>
      /\ cursor \in Levels /\ cursor # None
  BY LevelsArePositions, MarkersAssumption DEF ReadLimit, Stance, TypeOK
<1>2. Books'
  BY <1>1, BooksStand
<1>3. /\ \A l \in Levels :
           /\ RoomBefore(l)' = RoomBefore(l) /\ Room(l)' = Room(l)
           /\ Charges(l)' = Charges(l)
      /\ UNCHANGED <<limit, pages, carrier, counts, shut, lifted, gained, quiet, before>>
  BY <1>1, ReadingStands
<1>4. CASE /\ ~Reachable(cursor) \/ limit[cursor] = Unlimited
           /\ NextLevel /\ UNCHANGED <<found, unreadable>>
  <2> USE <1>1, <1>4
  <2>1. /\ cursor' \in Levels /\ step' \in {"limit", "judge"}
        /\ \A l \in Levels : Behind(l)' => Behind(l) \/ l = cursor
        /\ Found' = Found /\ Unknown' = Unknown
    BY <1>3, Onward DEF Behind, Found, Unknown
  <2>2. TypeOK'
    BY <2>1 DEF TypeOK, reading, kernel, machinery
  <2>3. Stance'
    BY <1>3, <2>1 DEF Stance
  <2>4. Bounded'
    <3>1. ~Reachable(cursor) \/ limit[cursor] \notin Nat
      BY MarkersAssumption
    <3> QED BY <1>3, <2>1, <3>1 DEF Bounded
  <2>5. Unmoved'
    BY <1>3, <2>1 DEF Unmoved
  <2> QED BY <1>2, <2>2, <2>3, <2>4, <2>5
<1>5. CASE /\ Reachable(cursor) /\ limit[cursor] = Unusable /\ unreadable' = cursor /\ step' = "judge"
           /\ UNCHANGED <<cursor, found>>
  <2> USE <1>1, <1>5
  <2>1. Found' = Found /\ \A l \in Levels : ~Behind(l)'
    BY DEF Found, Behind
  <2>2. TypeOK'
    BY DEF TypeOK, reading, kernel, machinery
  <2>3. Stance'
    BY <1>3, <2>1 DEF Stance
  <2>4. Bounded'
    BY <1>3, <2>1 DEF Bounded
  <2>5. Unmoved'
    BY <1>3, <2>1 DEF Unmoved
  <2> QED BY <1>2, <2>2, <2>3, <2>4, <2>5
<1>6. CASE /\ Reachable(cursor) /\ limit[cursor] \in Nat
           /\ found' = [found EXCEPT ![cursor] =
                          [limit |-> limit[cursor], charged |-> None, unflushed |-> None]]
           /\ step' = "charge"
           /\ UNCHANGED <<cursor, unreadable>>
  <2> USE <1>1, <1>6
  <2> DEFINE level == [limit |-> limit[cursor], charged |-> None, unflushed |-> None]
  <2>1. level \in MemoryLevels /\ level # None
    BY NoneAssumption DEF MemoryLevels
  <2>2. /\ found' \in [Levels -> MemoryLevels \cup {None}]
        /\ found'[cursor] = level
        /\ \A l \in Levels \ {cursor} : found'[l] = found[l]
    BY <2>1 DEF TypeOK
  <2>3. /\ cursor \in Found'
        /\ \A l \in Levels : l \in Found' => l = cursor \/ l \in Found
        /\ \A l \in Levels : Behind(l)' => Behind(l) /\ l # cursor
    BY <1>3, <2>1, <2>2, LevelsArePositions DEF Found, Behind
  <2>4. TypeOK'
    BY <2>2 DEF TypeOK, reading, kernel, machinery
  <2>5. Stance'
    BY <1>3, <2>1, <2>2, <2>3 DEF Stance, Found
  <2>6. Bounded'
    <3>1. SUFFICES ASSUME NEW l \in Levels, counts = "both", ~lifted, before.limit[l] \in Nat
                   PROVE  /\ limit'[l] \in Nat /\ Room(l)' <= RoomBefore(l)' + gained'
                          /\ Behind(l)' /\ Reachable(l)' => found'[l] # None
                          /\ l = cursor => RoomAtCharge(l)' <= RoomBefore(l)' + gained'
                          /\ l \in Found' /\ found'[l].charged # None =>
                               Distance(found'[l]) <= RoomBefore(l)' + gained'
      BY <1>3 DEF Bounded
    <3>2. CASE l = cursor
      <4>1. RoomAtCharge(l)' = Room(l)
        BY <1>3, <2>2, <3>2 DEF RoomAtCharge, Room
      <4> QED BY <1>3, <2>2, <2>3, <3>1, <3>2, <4>1 DEF Bounded
    <3>3. CASE l # cursor
      BY <1>3, <2>2, <2>3, <3>1, <3>3 DEF Bounded
    <3> QED BY <3>2, <3>3
  <2>7. Unmoved'
    BY <1>3, <2>2, <2>3 DEF Unmoved
  <2> QED BY <1>2, <2>4, <2>5, <2>6, <2>7
<1> QED BY <1>4, <1>5, <1>6 DEF ReadLimit

LEMMA ReadChargeKeeps == IInv /\ ReadCharge => IInv'
<1> SUFFICES ASSUME IInv, ReadCharge PROVE IInv'
  OBVIOUS
<1> USE DEF IInv
<1>1. /\ step = "charge" /\ carrier = "chain" /\ unreadable = None
      /\ UNCHANGED <<reading, found, unreadable>>
      /\ cursor \in Levels /\ found[cursor] # None
  BY DEF ReadCharge, Stance, TypeOK
<1>2. Books' /\ Found' = Found
  BY <1>1, BooksStand DEF Found
<1>3. /\ \A l \in Levels :
           /\ RoomBefore(l)' = RoomBefore(l) /\ Room(l)' = Room(l)
           /\ Charges(l)' = Charges(l)
      /\ UNCHANGED <<limit, pages, carrier, counts, shut, lifted, gained, quiet, before>>
  BY <1>1, ReadingStands
<1>4. CASE NextLevel /\ UNCHANGED current
  <2> USE <1>1, <1>4
  <2>1. /\ cursor' \in Levels /\ step' \in {"limit", "judge"}
        /\ \A l \in Levels : Behind(l)' => Behind(l) \/ l = cursor
    BY <1>3, Onward DEF Behind
  <2>2. TypeOK'
    BY <2>1 DEF TypeOK, reading, kernel, machinery
  <2>3. Stance'
    BY <1>2, <1>3, <2>1 DEF Stance
  <2>4. Bounded'
    BY <1>2, <1>3, <2>1 DEF Bounded
  <2>5. Unmoved'
    BY <1>2, <1>3, <2>1 DEF Unmoved
  <2> QED BY <1>2, <2>2, <2>3, <2>4, <2>5
<1>5. CASE current' = Total(pages[cursor]) /\ step' = "stat" /\ UNCHANGED cursor
  <2> USE <1>1, <1>5
  <2>1. current' \in 0..Machine
    BY Counted DEF TypeOK, PagesTyped
  <2>2. \A l \in Levels : Behind(l)' => Behind(l)
    BY <1>3 DEF Behind
  <2>3. TypeOK'
    BY <2>1, ConstantsAssumption DEF TypeOK, reading, kernel, machinery
  <2>4. Stance'
    BY <1>2, <1>3, <2>1 DEF Stance
  <2>5. Bounded'
    <3>1. RoomAtStat(cursor)' = RoomAtCharge(cursor)
      BY <1>3 DEF RoomAtStat, RoomAtCharge
    <3> QED BY <1>2, <1>3, <2>2, <3>1 DEF Bounded
  <2>6. Unmoved'
    BY <1>2, <1>3, <2>2 DEF Unmoved
  <2> QED BY <1>2, <2>3, <2>4, <2>5, <2>6
<1> QED BY <1>4, <1>5 DEF ReadCharge


(* The credit comes after the charge: what turned clean in between came on *)
(* top, and what did not was not there to be credited.                     *)
LEMMA ReadStatKeeps == IInv /\ ReadStat => IInv'
<1> SUFFICES ASSUME IInv, ReadStat PROVE IInv'
  OBVIOUS
<1> USE DEF IInv
<1>1. /\ step = "stat" /\ carrier = "chain" /\ unreadable = None /\ NextLevel
      /\ UNCHANGED <<reading, current, unreadable>>
      /\ cursor \in Levels /\ cursor \in Found /\ current \in 0..Machine
  BY DEF ReadStat, Stance, TypeOK, Found
<1>2. Books'
  BY <1>1, BooksStand
<1>3. /\ \A l \in Levels :
           /\ RoomBefore(l)' = RoomBefore(l) /\ Room(l)' = Room(l)
           /\ Charges(l)' = Charges(l)
      /\ UNCHANGED <<limit, pages, carrier, counts, shut, lifted, gained, quiet, before>>
  BY <1>1, ReadingStands
<1>4. /\ cursor' \in Levels /\ step' \in {"limit", "judge"}
      /\ \A l \in Levels : Behind(l)' => Behind(l) \/ l = cursor
  BY <1>1, <1>3, Onward DEF Behind
<1>5. CASE UNCHANGED found
  <2> USE <1>1, <1>5
  <2>1. Found' = Found
    BY DEF Found
  <2>2. TypeOK'
    BY <1>4 DEF TypeOK, reading, kernel, machinery
  <2>3. Stance'
    BY <1>3, <1>4, <2>1 DEF Stance
  <2>4. Bounded'
    BY <1>3, <1>4, <2>1 DEF Bounded, Found
  <2>5. Unmoved'
    BY <1>3, <1>4, <2>1 DEF Unmoved, Found
  <2> QED BY <1>2, <2>2, <2>3, <2>4, <2>5
<1>6. ASSUME NEW unflushed \in UnflushedCaches(pages[cursor]),
             found' = [found EXCEPT
               ![cursor].charged = ChargeLessCredit(current, pages[cursor], unflushed),
               ![cursor].unflushed = unflushed]
      PROVE  IInv'
  <2> USE <1>1
  <2> DEFINE charge == ChargeLessCredit(current, pages[cursor], unflushed)
             level == [limit |-> found[cursor].limit, charged |-> charge,
                       unflushed |-> unflushed]
  <2>1. /\ pages[cursor] \in [Kinds -> Nat] /\ counts \in CountKinds /\ current \in Nat
        /\ found[cursor] \in MemoryLevels /\ found[cursor].limit \in Nat
    BY ConstantsAssumption, FoundLevels DEF TypeOK
  <2>2. /\ charge \in 0..current
        /\ unflushed \in Nat \cup {None}
        /\ counts = "both" => current - pages[cursor]["clean"] <= charge
    BY <2>1, Credited
  <2>3. level \in MemoryLevels /\ level # None /\ charge # None
    <3> HIDE DEF charge
    <3>1. charge \in Nat
      BY <2>1, <2>2
    <3> QED BY <2>1, <2>2, <3>1, NoneAssumption, MarkersAssumption DEF MemoryLevels
  <2>4. /\ found' \in [Levels -> MemoryLevels \cup {None}]
        /\ found'[cursor] = level
        /\ \A l \in Levels \ {cursor} : found'[l] = found[l]
    <3>1. found \in [Levels -> MemoryLevels \cup {None}]
      BY DEF TypeOK
    <3>2. [[found[cursor] EXCEPT !.charged = charge]
             EXCEPT !.unflushed = unflushed] = level
      <4>1. PICK most \in Nat, was \in Nat \cup {None}, wet \in Nat \cup {None} :
              found[cursor] = [limit |-> most, charged |-> was, unflushed |-> wet]
        BY <2>1 DEF MemoryLevels
      <4>2. [found[cursor] EXCEPT !.charged = charge]
              = [limit |-> most, charged |-> charge, unflushed |-> wet]
        <5> HIDE DEF charge
        <5> QED BY <4>1
      <4>3. ASSUME NEW wetNow
            PROVE  [[limit |-> most, charged |-> charge, unflushed |-> wet]
                      EXCEPT !.unflushed = wetNow]
                     = [limit |-> most, charged |-> charge, unflushed |-> wetNow]
        <5> HIDE DEF charge
        <5> QED OBVIOUS
      <4>4. found[cursor].limit = most
        BY <4>1
      <4> HIDE DEF charge
      <4> QED BY <4>2, <4>3, <4>4
    <3>3. found' = [found EXCEPT ![cursor] =
                      [[found[cursor] EXCEPT !.charged = charge]
                         EXCEPT !.unflushed = unflushed]]
      <4> HIDE DEF charge, level
      <4> QED BY <1>6, <3>1 DEF charge
    <3> HIDE DEF level, charge
    <3> QED BY <2>3, <3>1, <3>2, <3>3
  <2>5. Found' = Found
    BY <2>3, <2>4 DEF Found
  <2>6. TypeOK'
    BY <1>4, <2>4 DEF TypeOK, reading, kernel, machinery
  <2>7. Stance'
    <3>1. ASSUME NEW l \in Found', found'[l].charged # None
          PROVE  found'[l].charged <= Machine
      <4>1. CASE l = cursor
        <5>1. found'[l].charged = charge
          BY <2>4, <4>1
        <5> HIDE DEF charge
        <5> QED BY <2>1, <2>2, <5>1, ConstantsAssumption
      <4>2. CASE l # cursor
        BY <2>4, <2>5, <3>1, <4>2 DEF Stance, Found
      <4> QED BY <4>1, <4>2
    <3> QED BY <1>3, <1>4, <2>5, <3>1 DEF Stance
  <2>8. Bounded'
    <3>1. SUFFICES ASSUME NEW l \in Levels, counts = "both", ~lifted, before.limit[l] \in Nat
                   PROVE  /\ limit'[l] \in Nat /\ Room(l)' <= RoomBefore(l)' + gained'
                          /\ Behind(l)' /\ Reachable(l)' => found'[l] # None
                          /\ l \in Found' /\ found'[l].charged # None =>
                               Distance(found'[l]) <= RoomBefore(l)' + gained'
      BY <1>3, <1>4 DEF Bounded
    <3>2. CASE l = cursor
      <4>1. RoomAtStat(l) <= RoomBefore(l) + gained
        BY <3>1, <3>2 DEF Bounded
      <4>2. /\ RoomAtStat(l) = found[l].limit - current + pages[l]["clean"]
            /\ Distance(found'[l]) = found[l].limit - charge
        BY <2>4, <3>2 DEF RoomAtStat, Distance
      <4>3. Distance(found'[l]) <= RoomAtStat(l)
        <5>1. pages[cursor]["clean"] \in Nat
          BY <2>1 DEF Kinds
        <5> HIDE DEF charge
        <5> QED BY <2>1, <2>2, <3>1, <3>2, <4>2, <5>1
      <4>4. RoomBefore(l) + gained \in Int /\ RoomAtStat(l) \in Int /\ Distance(found'[l]) \in Int
        <5>1. /\ before.pages[l] \in [Kinds -> Nat] /\ gained \in Nat
              /\ \A held \in [Kinds -> Nat] : held["clean"] \in Nat /\ Total(held) \in Int
          BY DEF TypeOK, Kinds, Total
        <5>2. RoomBefore(l) + gained \in Int
          BY <3>1, <5>1 DEF RoomBefore
        <5>3. pages[l]["clean"] \in Nat
          BY <2>1, <3>2, <5>1
        <5> HIDE DEF charge
        <5> QED BY <2>1, <2>2, <3>2, <4>2, <5>2, <5>3
      <4>5. Distance(found'[l]) <= RoomBefore(l) + gained
        BY <4>1, <4>3, <4>4
      <4> QED BY <1>3, <2>3, <2>4, <3>1, <3>2, <4>5 DEF Bounded
    <3>3. CASE l # cursor
      BY <1>3, <1>4, <2>4, <2>5, <3>1, <3>3 DEF Bounded
    <3> QED BY <3>2, <3>3
  <2>9. Unmoved'
    <3>1. SUFFICES ASSUME quiet, NEW l \in Levels
                   PROVE  /\ limit = before.limit /\ pages = before.pages
                          /\ Behind(l)' => found'[l] # None \/ limit[l] = Unlimited \/ ~Reachable(l)
                          /\ l \in Found' => found'[l].limit = limit[l]
                          /\ l \in Found' /\ found'[l].charged # None =>
                               found'[l].charged \in Charges(l)
      BY <1>3, <1>4 DEF Unmoved, Levels
    <3>2. CASE l = cursor
      <4>1. charge \in Charges(l)
        BY <3>1, <3>2 DEF Unmoved, Charges
      <4>2. found[l].limit = limit[l]
        BY <3>1, <3>2 DEF Unmoved
      <4> HIDE DEF charge
      <4> QED BY <2>3, <2>4, <3>1, <3>2, <4>1, <4>2 DEF Unmoved
    <3>3. CASE l # cursor
      BY <1>4, <2>4, <2>5, <3>1, <3>3 DEF Unmoved
    <3> QED BY <3>2, <3>3
  <2> QED BY <1>2, <2>6, <2>7, <2>8, <2>9
<1> QED BY <1>5, <1>6 DEF ReadStat

LEMMA JudgeKeeps == IInv /\ Judge => IInv'
<1> SUFFICES ASSUME IInv, Judge PROVE IInv'
  OBVIOUS
<1> USE DEF IInv
<1>1. /\ step = "judge" /\ step' = "reported" /\ report' = Judged
      /\ UNCHANGED <<kernel, machinery, cursor, ceiling, current, found, unreadable, before>>
  BY DEF Judge
<1>2. /\ \A l \in Levels :
           /\ RoomBefore(l)' = RoomBefore(l) /\ Room(l)' = Room(l)
           /\ Charges(l)' = Charges(l)
           /\ Behind(l)' <=> Behind(l)
      /\ UNCHANGED <<limit, pages, carrier, counts, shut, lifted, gained, quiet, before>>
  BY <1>1 DEF kernel, machinery, RoomBefore, Room, Behind, Charges, ChargeLessCredit, Credit,
           UnflushedCaches
<1>3. Found' = Found /\ Judged' = Judged
  BY <1>1, JudgedStands DEF machinery
<1>4. TypeOK'
  BY <1>1, JudgedTyped DEF TypeOK, kernel, machinery
<1>5. Books'
  BY <1>2 DEF Books, Cumulative
<1>6. Stance'
  BY <1>1, <1>2, <1>3 DEF Stance
<1>7. Bounded'
  BY <1>1, <1>2, <1>3 DEF Bounded
<1>8. Unmoved'
  BY <1>1, <1>2, <1>3 DEF Unmoved
<1> QED BY <1>4, <1>5, <1>6, <1>7, <1>8

LEMMA StutterKeeps == IInv /\ UNCHANGED vars => IInv'
<1> SUFFICES ASSUME IInv, UNCHANGED vars PROVE IInv'
  OBVIOUS
<1> USE DEF IInv, vars, kernel, machinery, walk
<1>1. /\ Found' = Found /\ Judged' = Judged
      /\ \A l \in Levels :
           /\ RoomBefore(l)' = RoomBefore(l) /\ Room(l)' = Room(l)
           /\ RoomAtCharge(l)' = RoomAtCharge(l) /\ RoomAtStat(l)' = RoomAtStat(l)
           /\ Charges(l)' = Charges(l)
           /\ Behind(l)' <=> Behind(l)
  BY JudgedStands DEF RoomBefore, Room, RoomAtCharge, RoomAtStat, Behind, Charges,
                      ChargeLessCredit, Credit, UnflushedCaches
<1>2. TypeOK' /\ Books'
  BY DEF TypeOK, Books, Cumulative
<1>3. Stance' /\ Bounded' /\ Unmoved'
  BY <1>1 DEF Stance, Bounded, Unmoved
<1> QED BY <1>2, <1>3

LEMMA StepIInv == IInv /\ [Next]_vars => IInv'
BY KernelKeeps, BeginKeeps, ReadLimitKeeps, ReadChargeKeeps, ReadStatKeeps, JudgeKeeps,
   StutterKeeps DEF Next, Reader


-----------------------------------------------------------------------------
(* What the invariant is for.                                              *)

LEMMA PromiseFollows == IInv => PromiseIsBounded
<1> SUFFICES ASSUME IInv, step = "reported", report.budget # None, ~lifted, counts = "both",
                    NEW l \in Levels, Reachable(l), before.limit[l] \in Nat
             PROVE  report.budget.available <= Max0(RoomBefore(l)) + gained
  BY DEF PromiseIsBounded
<1> USE DEF IInv
<1>1. /\ unreadable = None /\ carrier = "chain" /\ Found # {} /\ Unknown = {}
      /\ report.budget = KnownMemory
  BY BudgetReported DEF Stance
<1>2. l \in Found /\ found[l].charged # None
  BY <1>1 DEF Bounded, Behind, Found, Unknown
<1>3. /\ Distance(found[l]) <= RoomBefore(l) + gained
      /\ Distance(found[LeastDistance]) <= Distance(found[l])
      /\ report.budget.available = Max0(Distance(found[LeastDistance]))
  BY <1>1, <1>2, LeastDistanceIsLeast, KnownMemoryAgrees DEF Bounded
<1>4. /\ Distance(found[l]) \in Int /\ Distance(found[LeastDistance]) \in Int
      /\ gained \in Nat /\ RoomBefore(l) \in Int
  <2>1. Distance(found[l]) \in Int /\ Distance(found[LeastDistance]) \in Int
    BY <1>1, <1>2, FoundLevels, LeastDistanceIsLeast
  <2>2. /\ before.pages[l] \in [Kinds -> Nat] /\ gained \in Nat
        /\ \A held \in [Kinds -> Nat] : held["clean"] \in Nat /\ Total(held) \in Int
    BY DEF TypeOK, Kinds, Total
  <2>3. RoomBefore(l) \in Int
    BY <2>2 DEF RoomBefore
  <2> QED BY <2>1, <2>2, <2>3
<1> QED BY <1>3, <1>4 DEF Max0

LEMMA ReconcileFollows == IInv => NothingToReconcile
<1> SUFFICES ASSUME IInv, step = "reported", report.budget # None
             PROVE  /\ RawMemory = report.budget
                    /\ report.budget.used + report.budget.available = report.budget.limit
  BY DEF NothingToReconcile
<1> QED BY BudgetReported, KnownMemoryAgrees DEF IInv, Stance

(* The charge of a level that stood still is what it holds less its clean  *)
(* pages, and so the least distance is the least room.                     *)
LEMMA QuietReadingFollows == IInv => QuietReadingIsExact
<1> SUFFICES ASSUME IInv, step = "reported", quiet, report.budget # None,
                    \A l \in Levels : pages[l]["hot"] = 0 /\ (counts = "both" \/ pages[l]["dirty"] = 0),
                    NEW n \in 1..Machine
             PROVE  n <= report.budget.available <=> n \in Chargeable
  BY DEF QuietReadingIsExact
<1> USE DEF IInv
<1>1. /\ unreadable = None /\ carrier = "chain" /\ Found # {} /\ Unknown = {}
      /\ report.budget = KnownMemory
  BY BudgetReported DEF Stance
<1>2. ASSUME NEW l \in Found
      PROVE  /\ l \in Levels /\ before.limit[l] \in Nat
             /\ Distance(found[l]) = RoomBefore(l) /\ RoomBefore(l) \in Int
  <2>1. /\ l \in Levels /\ found[l].charged # None /\ found[l].limit \in Nat
    BY <1>1, FoundLevels DEF Unknown
  <2>2. /\ limit = before.limit /\ pages = before.pages /\ found[l].limit = limit[l]
        /\ found[l].charged \in Charges(l)
    BY <2>1 DEF Unmoved
  <2>3. /\ Total(pages[l]) \in Nat /\ pages[l]["clean"] \in Nat
        /\ pages[l]["clean"] <= Total(pages[l])
    BY <2>1, Counted DEF TypeOK, PagesTyped
  <2>4. PICK unflushed \in UnflushedCaches(pages[l]) :
          found[l].charged = ChargeLessCredit(Total(pages[l]), pages[l], unflushed)
    BY <2>2 DEF Charges
  <2>5. Credit(pages[l], unflushed) = pages[l]["clean"]
    <3>1. pages[l] \in [Kinds -> Nat] /\ counts \in CountKinds
      BY <2>1 DEF TypeOK
    <3>2. pages[l]["hot"] = 0 /\ (counts = "both" \/ pages[l]["dirty"] = 0)
      BY <2>1
    <3> QED BY <2>3, <3>1, <3>2, Credited
  <2>6. found[l].charged = Total(pages[l]) - pages[l]["clean"]
    BY <2>3, <2>4, <2>5 DEF ChargeLessCredit, Max0
  <2> QED BY <2>1, <2>2, <2>3, <2>6 DEF Distance, RoomBefore
<1>3. \A l \in Levels : Reachable(l) /\ before.limit[l] \in Nat => l \in Found
  BY <1>1, MarkersAssumption DEF Unmoved, Behind, Found
<1>4. n \in Chargeable <=> \A l \in Found : n <= RoomBefore(l)
  <2>1. n \in 0..Machine
    BY ConstantsAssumption
  <2>2. ASSUME NEW l \in Levels, Reachable(l), before.limit[l] \in Nat
        PROVE  /\ l \in Found
               /\ Total(before.pages[l]) - before.pages[l]["clean"] + n <= before.limit[l]
                    <=> n <= RoomBefore(l)
    <3>1. Total(before.pages[l]) \in Int /\ before.pages[l]["clean"] \in Int
      <4>1. \A held \in [Kinds -> Nat] : held["clean"] \in Nat /\ Total(held) \in Int
        BY DEF Total, Kinds
      <4> QED BY <4>1 DEF TypeOK
    <3> QED BY <1>3, <2>1, <2>2, <3>1 DEF RoomBefore
  <2>3. \A l \in Found : Reachable(l)
    BY DEF Stance
  <2> QED BY <1>2, <2>1, <2>2, <2>3 DEF Chargeable
<1>5. n <= report.budget.available <=> \A l \in Found : n <= Distance(found[l])
  <2>1. /\ LeastDistance \in Found
        /\ \A l \in Found : Distance(found[LeastDistance]) <= Distance(found[l])
        /\ report.budget.available = Max0(Distance(found[LeastDistance]))
    BY <1>1, LeastDistanceIsLeast, KnownMemoryAgrees
  <2>2. \A l \in Found : Distance(found[l]) \in Int
    BY <1>2
  <2>3. n <= report.budget.available <=> n <= Distance(found[LeastDistance])
    BY <2>1, <2>2 DEF Max0
  <2> QED BY <2>1, <2>2, <2>3
<1> QED BY <1>2, <1>4, <1>5

LEMMA SilenceFollows == IInv => SilenceMeansNoLimit
<1> SUFFICES ASSUME IInv, step = "reported", quiet, carrier = "chain",
                    report = [budget |-> None, notice |-> None],
                    NEW l \in Levels, Reachable(l)
             PROVE  limit[l] = Unlimited
  BY DEF SilenceMeansNoLimit
<1> USE DEF IInv
<1>1. Judged.budget = None /\ Rejection(RawMemory) = None
  BY DEF Stance, Judged
<1>2. unreadable = None
  BY <1>1, RejectionGiven
<1>3. RawMemory.limit = None
  <2>1. ASSUME RawMemory.limit # None PROVE FALSE
    <3>1. Judged.budget = Reconcile(RawMemory) /\ Found # {}
      BY <1>1, <2>1 DEF Judged, RawMemory, NoMemory
    <3>2. Unknown = {}
      BY <1>1, <1>2, <2>1, <3>1, RejectionGiven DEF RawMemory, NoMemory
    <3>3. RawMemory = KnownMemory
      BY <1>2, <3>1, <3>2 DEF RawMemory
    <3>4. Judged.budget \in Budgets
      BY <3>1, <3>2, <3>3, KnownMemoryAgrees
    <3> QED BY <1>1, <3>4, NoneAssumption
  <2> QED BY <2>1
<1>4. Found = {}
  <2>1. ASSUME Found # {} PROVE FALSE
    <3>1. RawMemory.limit = found[Tightest].limit
      BY <1>2, <2>1 DEF RawMemory, NoMemory, KnownMemory
    <3>2. found[Tightest].limit \in Nat
      BY <2>1, TightestIsLeast, FoundLevels
    <3> QED BY <1>3, <3>1, <3>2, MarkersAssumption
  <2> QED BY <2>1
<1> QED BY <1>2, <1>4 DEF Unmoved, Behind, Found

LEMMA Invariance == Spec => []IInv
<1>1. Init => IInv
  BY InitIInv
<1>2. IInv /\ [Next]_vars => IInv'
  BY StepIInv
<1> QED BY <1>1, <1>2, PTL DEF Spec

(* TypeOK for every chain and machine, though charges only fall: a page is *)
(* uncharged at every level that counts it, and no count goes below none.  *)
THEOREM TypeCorrect == Spec => []TypeOK
<1>1. IInv => TypeOK
  BY DEF IInv
<1> QED BY <1>1, Invariance, PTL

(* The reader never promises more than the chain had to give at first and  *)
(* what came on top while it read, however the levels, the three files of  *)
(* each and the moves of the kernel fall together.                         *)
THEOREM PromisesAreBounded == Spec => []PromiseIsBounded
BY Invariance, PromiseFollows, PTL

(* _reconcile() has nothing to correct in what a cgroup chain gives.       *)
THEOREM NothingIsReconciled == Spec => []NothingToReconcile
BY Invariance, ReconcileFollows, PTL

(* A reading nothing disturbed is exactly what the limits within reach     *)
(* would let the kernel grant.                                             *)
THEOREM QuietReadingsAreExact == Spec => []QuietReadingIsExact
BY Invariance, QuietReadingFollows, PTL

(* No limit within reach is passed over in silence, whether it could be    *)
(* read or not.                                                            *)
THEOREM SilenceIsSpoken == Spec => []SilenceMeansNoLimit
BY Invariance, SilenceFollows, PTL
=============================================================================

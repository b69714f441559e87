----------------------------- MODULE PathLemmas -----------------------------
(* Facts about paths as sequences of names, and about the least and the    *)
(* longest of a set, which the proofs of the readers have in common.       *)
EXTENDS Integers, Sequences, SequencesExt, SequenceTheorems, WellFoundedInduction, TLAPS

(* A set of naturals has a least element.                                  *)
LEMMA LeastNatural ==
  ASSUME NEW T \in SUBSET Nat, T # {}
  PROVE  \E x \in T : \A y \in T : x <= y
<1>1. PICK R : /\ R = {ss \in Nat \X Nat : ss[1] < ss[2]}
               /\ IsWellFoundedOn(R, Nat)
  <2>1. OpToRel(<, Nat) = {ss \in Nat \X Nat : ss[1] < ss[2]}
    BY DEF OpToRel
  <2> QED BY <2>1, NatLessThanWellFounded
<1>2. \A x, y \in Nat : <<x, y>> \notin R => y <= x
  BY <1>1
<1>3. \E x \in T : \A y \in T : ~ (<<y, x>> \in R)
  BY <1>1, WFMin
<1> QED BY <1>2, <1>3

(* The deepest of some paths, where none is deeper than some depth.        *)
LEMMA LongestExists ==
  ASSUME NEW X, NEW T \in SUBSET Seq(X), T # {}, NEW n \in Nat, \A t \in T : Len(t) <= n
  PROVE  \E s \in T : \A t \in T : Len(t) <= Len(s)
<1> DEFINE rest == {n - Len(t) : t \in T}
<1>1. \A t \in T : Len(t) \in Nat
  BY LenProperties
<1>2. rest \in SUBSET Nat /\ rest # {}
  BY <1>1
<1>3. PICK least \in rest : \A r \in rest : least <= r
  <2> HIDE DEF rest
  <2> QED BY <1>2, LeastNatural
<1>4. PICK s \in T : least = n - Len(s)
  OBVIOUS
<1>5. \A t \in T : n - Len(s) <= n - Len(t)
  BY <1>3, <1>4
<1> QED BY <1>1, <1>5

(* The beginning of a path.                                                *)
LEMMA Beginning ==
  ASSUME NEW X, NEW s \in Seq(X), NEW n \in 0..Len(s)
  PROVE  /\ SubSeq(s, 1, n) \in Seq(X)
         /\ Len(SubSeq(s, 1, n)) = n
         /\ \A k \in 1..n : SubSeq(s, 1, n)[k] = s[k]
<1>1. Len(s) \in Nat /\ \A k \in 1..n : s[k] \in X
  BY LenProperties, ElementOfSeq
<1> QED BY <1>1, SubSeqProperties

LEMMA BeginningOfBeginning ==
  ASSUME NEW X, NEW s \in Seq(X), NEW n \in 0..Len(s), NEW m \in 0..n
  PROVE  SubSeq(SubSeq(s, 1, n), 1, m) = SubSeq(s, 1, m)
<1>1. Len(s) \in Nat /\ m \in 0..Len(s)
  BY LenProperties
<1>2. /\ SubSeq(s, 1, n) \in Seq(X) /\ Len(SubSeq(s, 1, n)) = n
      /\ \A k \in 1..n : SubSeq(s, 1, n)[k] = s[k]
  BY Beginning
<1>3. /\ SubSeq(SubSeq(s, 1, n), 1, m) \in Seq(X)
      /\ Len(SubSeq(SubSeq(s, 1, n), 1, m)) = m
      /\ \A k \in 1..m : SubSeq(SubSeq(s, 1, n), 1, m)[k] = SubSeq(s, 1, n)[k]
  <2> DEFINE t == SubSeq(s, 1, n)
  <2>1. t \in Seq(X) /\ m \in 0..Len(t)
    BY <1>2
  <2> HIDE DEF t
  <2>2. /\ SubSeq(t, 1, m) \in Seq(X) /\ Len(SubSeq(t, 1, m)) = m
        /\ \A k \in 1..m : SubSeq(t, 1, m)[k] = t[k]
    BY <2>1, Beginning
  <2> QED BY <2>2 DEF t
<1>4. /\ SubSeq(s, 1, m) \in Seq(X) /\ Len(SubSeq(s, 1, m)) = m
      /\ \A k \in 1..m : SubSeq(s, 1, m)[k] = s[k]
  BY <1>1, Beginning
<1>5. \A k \in 1..m : SubSeq(SubSeq(s, 1, n), 1, m)[k] = SubSeq(s, 1, m)[k]
  BY <1>2, <1>3, <1>4
<1> QED BY <1>3, <1>4, <1>5, SeqEqual

(* What the root of a mount and a directory below it spell together.       *)
LEMMA RootAndRest ==
  ASSUME NEW X, NEW root \in Seq(X), NEW own \in Seq(X), IsPrefix(root, own),
         NEW n \in 0..Len(own) - Len(root)
  PROVE  LET rest == SubSeq(own, Len(root) + 1, Len(own))
         IN /\ rest \in Seq(X) /\ Len(rest) = Len(own) - Len(root)
            /\ root \o SubSeq(rest, 1, n) = SubSeq(own, 1, Len(root) + n)
<1> DEFINE rest == SubSeq(own, Len(root) + 1, Len(own))
           both == root \o SubSeq(rest, 1, n)
           whole == SubSeq(own, 1, Len(root) + n)
<1>1. Len(root) \in Nat /\ Len(own) \in Nat /\ Len(root) <= Len(own)
  BY LenProperties DEF IsPrefix
<1>2. \A k \in 1..Len(own) : own[k] \in X
  BY ElementOfSeq
<1>3. /\ rest \in Seq(X) /\ Len(rest) = Len(own) - Len(root)
      /\ \A k \in 1..Len(own) - Len(root) : rest[k] = own[Len(root) + k]
  <2>1. \A k \in Len(root) + 1..Len(own) : own[k] \in X
    BY <1>1, <1>2
  <2>2. /\ rest \in Seq(X)
        /\ Len(rest) = IF Len(root) + 1 <= Len(own)
                       THEN Len(own) - (Len(root) + 1) + 1 ELSE 0
        /\ \A k \in 1..Len(own) - (Len(root) + 1) + 1 :
             rest[k] = own[Len(root) + 1 + k - 1]
    BY <1>1, <2>1, SubSeqProperties
  <2> QED BY <1>1, <2>2
<1>4. /\ SubSeq(rest, 1, n) \in Seq(X) /\ Len(SubSeq(rest, 1, n)) = n
      /\ \A k \in 1..n : SubSeq(rest, 1, n)[k] = rest[k]
  <2> HIDE DEF rest
  <2> QED BY <1>3, Beginning
<1>5. /\ whole \in Seq(X) /\ Len(whole) = Len(root) + n
      /\ \A k \in 1..Len(root) + n : whole[k] = own[k]
  <2>1. Len(root) + n \in 0..Len(own)
    BY <1>1
  <2> QED BY <2>1, Beginning
<1>6. \A k \in 1..Len(root) : root[k] = own[k]
  <2>1. /\ \A k \in 1..Len(root) : SubSeq(own, 1, Len(root))[k] = own[k]
        /\ \A k \in 1..Len(root) : SubSeq(root, 1, Len(root))[k] = root[k]
    BY <1>1, Beginning
  <2>2. SubSeq(root, 1, Len(root)) = SubSeq(own, 1, Len(root))
    BY DEF IsPrefix
  <2> QED BY <2>1, <2>2
<1>7. /\ both \in Seq(X) /\ Len(both) = Len(root) + n
      /\ \A k \in 1..Len(root) + n :
           both[k] = IF k <= Len(root) THEN root[k] ELSE SubSeq(rest, 1, n)[k - Len(root)]
  <2> HIDE DEF rest
  <2> QED BY <1>4, ConcatProperties
<1>8. \A k \in 1..Len(root) + n : both[k] = whole[k]
  <2> SUFFICES ASSUME NEW k \in 1..Len(root) + n PROVE both[k] = whole[k]
    OBVIOUS
  <2>1. CASE k <= Len(root)
    <3>1. k \in 1..Len(root) /\ both[k] = root[k]
      BY <1>1, <1>7, <2>1
    <3> QED BY <3>1, <1>5, <1>6
  <2>2. CASE ~(k <= Len(root))
    <3>1. k - Len(root) \in 1..n /\ both[k] = SubSeq(rest, 1, n)[k - Len(root)]
      BY <1>1, <1>7, <2>2
    <3>2. SubSeq(rest, 1, n)[k - Len(root)] = own[Len(root) + (k - Len(root))]
      BY <3>1, <1>1, <1>3, <1>4
    <3>3. Len(root) + (k - Len(root)) = k
      BY <1>1
    <3> QED BY <3>1, <3>2, <3>3, <1>5
  <2> QED BY <2>1, <2>2
<1>9. both = whole
  <2> HIDE DEF both, whole
  <2> QED BY <1>5, <1>7, <1>8, SeqEqual
<1> QED BY <1>3, <1>9

(* A path begins with another where their names agree.                     *)
LEMMA PrefixMeans ==
  ASSUME NEW X, NEW s \in Seq(X), NEW t \in Seq(X)
  PROVE  IsPrefix(s, t) <=> Len(s) <= Len(t) /\ \A k \in 1..Len(s) : s[k] = t[k]
<1>1. Len(s) \in Nat /\ Len(t) \in Nat
  BY LenProperties
<1>2. SubSeq(s, 1, Len(s)) = s
  BY SubSeqFull
<1>3. ASSUME Len(s) <= Len(t)
      PROVE  SubSeq(t, 1, Len(s)) = s <=> \A k \in 1..Len(s) : s[k] = t[k]
  <2>1. /\ SubSeq(t, 1, Len(s)) \in Seq(X) /\ Len(SubSeq(t, 1, Len(s))) = Len(s)
        /\ \A k \in 1..Len(s) : SubSeq(t, 1, Len(s))[k] = t[k]
    BY <1>1, <1>3, Beginning
  <2> QED BY <2>1, SeqEqual
<1> QED BY <1>2, <1>3 DEF IsPrefix

(* Of two paths to the same place, the shorter is the beginning of the     *)
(* longer, and two as long are one.                                        *)
LEMMA SamePath ==
  ASSUME NEW X, NEW s \in Seq(X), NEW t \in Seq(X), NEW home \in Seq(X),
         IsPrefix(s, home), IsPrefix(t, home)
  PROVE  /\ Len(s) \in Nat /\ Len(t) \in Nat /\ Len(s) <= Len(home)
         /\ Len(s) <= Len(t) => IsPrefix(s, t)
         /\ Len(s) = Len(t) => s = t
<1>1. Len(s) \in Nat /\ Len(t) \in Nat /\ Len(home) \in Nat
  BY LenProperties
<1>2. /\ Len(s) <= Len(home) /\ \A k \in 1..Len(s) : s[k] = home[k]
      /\ Len(t) <= Len(home) /\ \A k \in 1..Len(t) : t[k] = home[k]
  BY PrefixMeans
<1>3. Len(s) <= Len(t) => \A k \in 1..Len(s) : s[k] = t[k]
  BY <1>1, <1>2
<1> QED BY <1>1, <1>2, <1>3, PrefixMeans, SeqEqual

(* The parent of a path below the root of a mount.                         *)
LEMMA ParentPath ==
  ASSUME NEW X, NEW root \in Seq(X), NEW s \in Seq(X), NEW home \in Seq(X),
         IsPrefix(root, s), IsPrefix(s, home), s # root
  PROVE  /\ s # <<>> /\ Front(s) \in Seq(X) /\ Len(Front(s)) = Len(s) - 1
         /\ IsPrefix(root, Front(s)) /\ IsPrefix(Front(s), home)
<1>1. Len(root) \in Nat /\ Len(s) \in Nat /\ Len(home) \in Nat
  BY LenProperties
<1>2. /\ Len(root) <= Len(s) /\ \A k \in 1..Len(root) : root[k] = s[k]
      /\ Len(s) <= Len(home) /\ \A k \in 1..Len(s) : s[k] = home[k]
  BY PrefixMeans
<1>3. Len(root) < Len(s)
  BY <1>1, <1>2, SeqEqual
<1>4. /\ Front(s) \in Seq(X) /\ Len(Front(s)) = Len(s) - 1
      /\ \A k \in 1..Len(s) - 1 : Front(s)[k] = s[k]
  <2>1. Len(s) - 1 \in 0..Len(s)
    BY <1>1, <1>3
  <2> QED BY <2>1, Beginning DEF Front
<1>5. s # <<>>
  BY <1>1, <1>3, EmptySeq
<1>6. IsPrefix(root, Front(s))
  <2>1. Len(root) <= Len(Front(s)) /\ \A k \in 1..Len(root) : root[k] = Front(s)[k]
    BY <1>1, <1>2, <1>3, <1>4
  <2> QED BY <1>4, <2>1, PrefixMeans
<1>7. IsPrefix(Front(s), home)
  <2>1. Len(Front(s)) <= Len(home) /\ \A k \in 1..Len(Front(s)) : Front(s)[k] = home[k]
    BY <1>1, <1>2, <1>4
  <2> QED BY <1>4, <2>1, PrefixMeans
<1> QED BY <1>4, <1>5, <1>6, <1>7
=============================================================================

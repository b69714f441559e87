------------------------------ MODULE CpuList ------------------------------
(***************************************************************************)
(* How many cores a list like 0-3,8 names: count_cpu_list() of             *)
(* src/proclimits/_cpu_list.py.  The kernel writes such lists for cpusets  *)
(* and for the cores that are online.                                      *)
(*                                                                         *)
(* A part of a list is what partition() and int() make of it: two numbers, *)
(* of which the second may be left out together with the dash, or          *)
(* something that is none.  Only the second can be negative.               *)
(***************************************************************************)
EXTENDS Integers, FiniteSets, Sequences

CONSTANTS
  Firsts,   \* the numbers a part can begin with
  Lasts,    \* the numbers it can end with
  Lists,    \* the lists
  Garbled,  \* what is no number
  Empty,    \* what follows a dash that ends the part
  NoDash,   \* what follows where there is no dash
  Counting, \* no outcome yet
  None      \* the outcome of a list that does not parse

Parts == [first : Firsts \cup {Garbled}, last : Lasts \cup {Garbled, Empty, NoDash}]

(* An empty text is a list of one part that is no number.                  *)
ASSUME ConstantsAssumption ==
  /\ Firsts \subseteq Nat /\ Lasts \subseteq Int
  /\ Lists \subseteq Seq(Parts) \ {<<>>}
  /\ Garbled \notin Int /\ Empty \notin Int /\ NoDash \notin Int
  /\ Garbled \notin {Empty, NoDash} /\ Empty # NoDash
  /\ Counting \notin Int /\ None \notin Int /\ Counting # None

VARIABLES
  list,       \* the list
  next,       \* the part that is looked at next
  count,      \* the cores counted so far
  counted_to, \* the highest of them, -1 before the first
  outcome     \* what is returned, or Counting

vars == <<list, next, count, counted_to, outcome>>

Numbers(part) == part.first # Garbled /\ part.last \notin {Garbled, Empty}
Start(part) == part.first
End(part) == IF part.last = NoDash THEN part.first ELSE part.last

TypeOK ==
  /\ list \in Seq(Parts)
  /\ next \in 1..Len(list) + 1
  /\ count \in Nat
  /\ counted_to \in Nat \cup {-1}
  /\ outcome \in Nat \cup {Counting, None}

Init ==
  /\ list \in Lists
  /\ next = 1 /\ count = 0 /\ counted_to = -1
  /\ outcome = Counting

(* A reversed range counts nothing, and one that starts inside the range   *)
(* before it counts a core twice.                                          *)
OnlyOverlaps(part, to) == Start(part) <= to
OnlyReversed(part, to) == End(part) < Start(part)
OrAdjacent(part, to) == End(part) < Start(part) \/ Start(part) <= to + 1
Misplaced(part, to) == End(part) < Start(part) \/ Start(part) <= to

Accepted(part, to) == Numbers(part) /\ ~Misplaced(part, to)

Distance(part) == End(part) - Start(part)
Size(part) == End(part) - Start(part) + 1

Count ==
  /\ outcome = Counting /\ next <= Len(list)
  /\ Accepted(list[next], counted_to)
  /\ count' = count + Size(list[next])
  /\ counted_to' = End(list[next])
  /\ next' = next + 1
  /\ UNCHANGED <<list, outcome>>

Refuse ==
  /\ outcome = Counting /\ next <= Len(list)
  /\ ~Accepted(list[next], counted_to)
  /\ outcome' = None
  /\ UNCHANGED <<list, next, count, counted_to>>

Return ==
  /\ outcome = Counting /\ next > Len(list)
  /\ outcome' = count
  /\ UNCHANGED <<list, next, count, counted_to>>

Next == Count \/ Refuse \/ Return

Spec == Init /\ [][Next]_vars

-----------------------------------------------------------------------------
(* What has to hold.                                                       *)

Span(part) == Start(part)..End(part)
Named(k) == UNION {Span(list[i]) : i \in 1..k}

(* A number that is returned is the number of cores the list names, none   *)
(* of them counted twice and none left out.                                *)
CountsTheCores ==
  outcome \in Nat => outcome = Cardinality(Named(Len(list)))

(* A list as the kernel writes it: ranges that ascend and never overlap.   *)
Canonical ==
  /\ \A i \in 1..Len(list) : Numbers(list[i]) /\ Start(list[i]) <= End(list[i])
  /\ \A i, j \in 1..Len(list) : i < j => End(list[i]) < Start(list[j])

(* "Refused rather than repaired, because no kernel wrote it": what is     *)
(* refused is what the kernel does not write, and nothing else.            *)
RefusedIffNotCanonical ==
  outcome # Counting => (outcome = None <=> ~Canonical)

(* A list that parses names a core, so that machine_cpu_count(), which     *)
(* takes zero for no answer, never drops an answer.                        *)
NeverZero == outcome # 0
=============================================================================

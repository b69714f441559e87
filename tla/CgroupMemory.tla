---------------------------- MODULE CgroupMemory ----------------------------
(***************************************************************************)
(* Reading the memory budget of a cgroup: get_memory_budget() of           *)
(* src/proclimits/_sensor.py over read_memory() of _cgroup.py.             *)
(*                                                                         *)
(* The reader asks for the memory of the machine, then walks the chain     *)
(* from the cgroup of this process up to the mount point, and at each      *)
(* level reads three files: the limit, the charge and the statistics.  The *)
(* kernel goes on charging, reclaiming and flushing between any two reads, *)
(* and anybody may write a limit.                                          *)
(*                                                                         *)
(* Memory is counted in pages.  A level is its position on the chain: 1 is *)
(* the group of this process, Depth the mount point.  Whatever a group is  *)
(* charged, every level above it is charged too.                           *)
(***************************************************************************)
EXTENDS Integers

CONSTANTS
  Depth,       \* the number of levels on the chain
  Machine,     \* the pages of the machine
  Limits,      \* the limits that can be written to a level
  Unreliable,  \* the levels whose charge or statistics may fail to answer
  Carriers,    \* what discovery may have found: a subset of CarrierKinds
  Ceilings,    \* what memory_limit_ceiling() may answer
  DirtyCounted, \* how many unflushed counts there can be: a subset of CountKinds
  MaxChurn,    \* bound on the moves of the kernel
  None,        \* nothing
  Unlimited,   \* a limit file that spells `max', or is not there
  Unusable     \* one that is there and cannot be read, or holds no number, or a negative

Levels == 1..Depth

(* Discovery found a chain with the memory controller, or a hierarchy      *)
(* without it, or no hierarchy at all.                                     *)
CarrierKinds == {"chain", "no_controller", "no_mechanism"}

(* The statistics carry both counts of what is still to be flushed, or     *)
(* total_writeback alone (cgroup v1 before 4.2), or neither (before 3.12). *)
CountKinds == {"both", "one", "none"}

ASSUME ConstantsAssumption ==
  /\ Depth \in Nat \ {0} /\ Machine \in Nat /\ MaxChurn \in Nat
  /\ Limits \subseteq Nat
  /\ Unreliable \subseteq Levels
  /\ Carriers \subseteq CarrierKinds
  /\ Ceilings \subseteq {Machine, None}
  /\ DirtyCounted \subseteq CountKinds

ASSUME MarkersAssumption ==
  /\ None \notin Nat /\ Unlimited \notin Nat /\ Unusable \notin Nat
  /\ Unlimited # Unusable

(* How a page is held.  "held" is everything nobody credits: anonymous     *)
(* memory and the active list.  "clean" and "dirty" are file cache on the  *)
(* inactive list, and "hot" is dirty without being on it.                  *)
Kinds == {"held", "clean", "dirty", "hot"}

VARIABLES
  limit,    \* what the limit file of each level says
  pages,    \* the pages charged at each level or below it, by kind
  carrier,  \* what discovery found
  counts,   \* how much of what is still to be flushed this kernel counts
  shut,     \* the levels 1..shut lie in a directory that may not be traversed
  step,     \* where the reader stands
  cursor,   \* the level it is reading
  ceiling,  \* memory_limit_ceiling(), as this call read it
  current,  \* the charge of that level, as just read
  found,    \* the levels that hold a limit, as read so far
  unreadable, \* the level that ended the walk, or None
  report,   \* the budget last reported and the notice beside it
  before,   \* history: the limits and the pages when the call began
  gained,   \* history: pages freed, flushed, cached or allowed since
  lifted,   \* history: whether a limit was lifted altogether since
  quiet,    \* history: whether nothing at all moved since
  churn     \* history: the moves of the kernel so far

kernel == <<limit, pages, gained, lifted, quiet, churn>>
machinery == <<carrier, counts, shut>>
walk == <<step, cursor, ceiling, current, found, unreadable>>
vars == <<kernel, machinery, walk, report, before>>

Max0(n) == IF n > 0 THEN n ELSE 0
AtMost(a, b) == IF a < b THEN a ELSE b

-----------------------------------------------------------------------------
(* The kernel.                                                             *)

Total(held) == held["held"] + held["clean"] + held["dirty"] + held["hot"]

(* The pages of one kind charged to the group at l and to no group below.  *)
Own(l, kind) == pages[l][kind] - (IF l = 1 THEN 0 ELSE pages[l - 1][kind])

(* Charging up the chain: what changes at l changes at every level above.  *)
Shift(l, kind, n) ==
  [k \in Levels |-> IF k >= l THEN [pages[k] EXCEPT ![kind] = @ + n] ELSE pages[k]]

Move(gain) ==
  /\ churn < MaxChurn
  /\ churn' = churn + 1
  /\ gained' = gained + gain
  /\ quiet' = FALSE

(* A page is charged where every limit above has room for it.  One of      *)
(* cache can be dropped again, so it takes no room away.                   *)
Charge(l, kind) ==
  /\ kind # "hot"
  /\ Total(pages[Depth]) < Machine
  /\ \A k \in l..Depth : limit[k] \in Nat => Total(pages[k]) < limit[k]
  /\ pages' = Shift(l, kind, 1)
  /\ Move(IF kind = "clean" THEN 1 ELSE 0)
  /\ UNCHANGED <<limit, lifted, machinery, walk, report, before>>

(* A page is given back.  Where it is a clean one, this is reclaim.        *)
Uncharge(l, kind) ==
  /\ Own(l, kind) > 0
  /\ pages' = Shift(l, kind, -1)
  /\ Move(IF kind = "clean" THEN 0 ELSE 1)
  /\ UNCHANGED <<limit, lifted, machinery, walk, report, before>>

(* A page of cache is written to, reaches the disk, or changes list.       *)
Turn(l, from, to) ==
  /\ <<from, to>> \in {<<"clean", "dirty">>, <<"dirty", "clean">>,
                       <<"dirty", "hot">>, <<"hot", "dirty">>}
  /\ Own(l, from) > 0
  /\ pages' = [k \in Levels |->
       IF k >= l THEN [pages[k] EXCEPT ![from] = @ - 1, ![to] = @ + 1] ELSE pages[k]]
  /\ Move(IF to = "clean" THEN 1 ELSE 0)
  /\ UNCHANGED <<limit, lifted, machinery, walk, report, before>>

(* Somebody writes a limit, perhaps below what is charged already.         *)
WriteLimit(l, value) ==
  /\ value # limit[l]
  /\ limit' = [limit EXCEPT ![l] = value]
  /\ Move(IF limit[l] \in Nat /\ value \in Nat THEN Max0(value - limit[l]) ELSE 0)
  /\ lifted' = (lifted \/ (limit[l] \in Nat /\ value \notin Nat))
  /\ UNCHANGED <<pages, machinery, walk, report, before>>

Kernel ==
  \E l \in Levels :
    \/ \E kind \in Kinds : Charge(l, kind)
    \/ \E kind \in Kinds : Uncharge(l, kind)
    \/ \E from, to \in Kinds : Turn(l, from, to)
    \/ \E value \in Limits \cup {Unlimited, Unusable} : WriteLimit(l, value)

-----------------------------------------------------------------------------
(* What one level says.                                                    *)

(* What this process may look into.  A directory it may not traverse hides *)
(* every level below as well: none of their files can be read, and none is *)
(* there for a process that asks.                                          *)
Reachable(l) == l > shut

(* What file_dirty and file_writeback can add up to: all the pages still   *)
(* to be flushed, a part of them where one of the two is there, or None.   *)
UnflushedCaches(held) ==
  LET unflushed == held["dirty"] + held["hot"]
  IN CASE counts = "both" -> {unflushed}
       [] counts = "one"  -> 0..unflushed
       [] counts = "none" -> {None}

(* The inactive cache that can be dropped: not the pages that still have   *)
(* to reach the disk.                                                      *)
WholeInactiveCache(held, unflushed) == held["clean"] + held["dirty"]
Credit(held, unflushed) ==
  Max0(held["clean"] + held["dirty"] - (IF unflushed = None THEN 0 ELSE unflushed))

UnclampedCharge(charge, held, unflushed) == charge - Credit(held, unflushed)
ChargeLessCredit(charge, held, unflushed) == Max0(charge - Credit(held, unflushed))

(* _MemoryLevel: a limit, with what is charged against it where that could *)
(* be read.                                                                *)
MemoryLevels == [limit : Nat, charged : Nat \cup {None}, unflushed : Nat \cup {None}]

Distance(level) == level.limit - level.charged
Available(level) == Max0(Distance(level))

-----------------------------------------------------------------------------
(* What the walk makes of the levels it found.                             *)

Found == {l \in Levels : found[l] # None}
Unknown == {l \in Found : found[l].charged = None}

(* The first of the smallest, as min() picks it.                           *)
FirstLeast(key) ==
  CHOOSE l \in DOMAIN key :
    \A k \in DOMAIN key : key[l] < key[k] \/ (key[l] = key[k] /\ l <= k)

Tightest == FirstLeast([l \in Found |-> found[l].limit])

(* An ancestor counts what its other children use, so the least room can   *)
(* be anywhere along the chain.  It is asked for where no level is unknown.*)
LeastDistance == FirstLeast([l \in Found |-> Distance(found[l])])

(* RawMemory, less the paths it names.                                     *)
NoMemory == [limit |-> None, used |-> None, available |-> None]

TightestAlone ==
  [limit |-> found[Tightest].limit,
   used  |-> found[Tightest].limit - Available(found[Tightest]),
   available |-> Available(found[Tightest])]

(* The least room of the chain, carried over to the tightest limit.  An    *)
(* unknown distance may be the smallest, so it leaves the usage unknown.   *)
KnownMemory ==
  [limit |-> found[Tightest].limit,
   used  |-> found[Tightest].limit - Available(found[LeastDistance]),
   available |-> Available(found[LeastDistance])]

RawMemory ==
  IF unreadable # None \/ Found = {} THEN NoMemory
  ELSE IF Unknown # {} THEN [NoMemory EXCEPT !.limit = found[Tightest].limit]
  ELSE KnownMemory

(* _memory_rejection(), one notice for each reason to report nothing.      *)
Notices == {"LIMIT_UNREADABLE", "METRICS_UNAVAILABLE", "MACHINE_UNKNOWN",
            "COVERS_MACHINE", "USAGE_UNREADABLE"}

Rejection(raw) ==
  CASE unreadable # None -> "LIMIT_UNREADABLE"
    [] unreadable = None /\ raw.limit = None ->
         IF carrier = "no_mechanism" THEN "METRICS_UNAVAILABLE" ELSE None
    [] unreadable = None /\ raw.limit # None ->
         IF ceiling = None THEN "MACHINE_UNKNOWN"
         ELSE IF raw.limit >= ceiling THEN "COVERS_MACHINE"
         ELSE IF raw.used = None THEN "USAGE_UNREADABLE"
         ELSE None

Budgets == [limit : Nat, used : Nat, available : Nat]

(* Nothing is none of what can be there.                                   *)
ASSUME NoneAssumption == None \notin MemoryLevels \cup Budgets \cup Notices

(* _reconcile(): three numbers brought into one pair.                      *)
Reconcile(raw) ==
  LET charged == AtMost(Max0(raw.used), raw.limit)
  IN [limit |-> raw.limit, used |-> charged,
      available |-> AtMost(Max0(raw.available), raw.limit - charged)]

(* _evaluate_memory().                                                     *)
Judged ==
  [budget |-> IF Rejection(RawMemory) # None \/ RawMemory.limit = None
              THEN None ELSE Reconcile(RawMemory),
   notice |-> Rejection(RawMemory)]

-----------------------------------------------------------------------------
(* The call.                                                               *)

(* The ceiling is read first, then the controllers are asked for.          *)
Begin ==
  /\ step \in {"idle", "reported"}
  /\ ceiling' \in Ceilings
  /\ step' = IF carrier = "chain" THEN "limit" ELSE "judge"
  /\ cursor' = 1
  /\ found' = [l \in Levels |-> None]
  /\ current' = None /\ unreadable' = None
  /\ report' = [budget |-> None, notice |-> None]
  /\ before' = [limit |-> limit, pages |-> pages]
  /\ gained' = 0 /\ lifted' = FALSE /\ quiet' = TRUE
  /\ UNCHANGED <<limit, pages, churn, machinery>>

(* On to the level above, or to what was found.                            *)
NextLevelPastTheTop ==
  IF cursor > Depth
  THEN step' = "judge" /\ UNCHANGED cursor
  ELSE step' = "limit" /\ cursor' = cursor + 1

NextLevel ==
  IF cursor = Depth
  THEN step' = "judge" /\ UNCHANGED cursor
  ELSE step' = "limit" /\ cursor' = cursor + 1

reading == <<kernel, machinery, ceiling, report, before>>

(* _read_limit(): an absent limit and `max' restrict nothing, and a file   *)
(* that is there and says nothing usable ends the walk.  A level out of    *)
(* reach looks like one without the file: its limit is passed over.        *)
ReadLimitBestEffort ==
  /\ step = "limit"
  /\ IF Reachable(cursor) /\ limit[cursor] \in Nat
     THEN /\ found' = [found EXCEPT ![cursor] =
                         [limit |-> limit[cursor], charged |-> None, unflushed |-> None]]
          /\ step' = "charge"
          /\ UNCHANGED cursor
     ELSE NextLevel /\ UNCHANGED found
  /\ UNCHANGED <<reading, current, unreadable>>

ReadLimit ==
  /\ step = "limit"
  /\ \/ /\ ~Reachable(cursor) \/ limit[cursor] = Unlimited
        /\ NextLevel
        /\ UNCHANGED <<found, unreadable>>
     \/ /\ Reachable(cursor) /\ limit[cursor] = Unusable
        /\ unreadable' = cursor
        /\ step' = "judge"
        /\ UNCHANGED <<cursor, found>>
     \/ /\ Reachable(cursor) /\ limit[cursor] \in Nat
        /\ found' = [found EXCEPT ![cursor] =
                       [limit |-> limit[cursor], charged |-> None, unflushed |-> None]]
        /\ step' = "charge"
        /\ UNCHANGED <<cursor, unreadable>>
  /\ UNCHANGED <<reading, current>>

(* A charge that does not answer leaves the usage of the level unknown.    *)
ReadCharge ==
  /\ step = "charge"
  /\ \/ /\ cursor \in Unreliable
        /\ NextLevel
        /\ UNCHANGED current
     \/ /\ current' = Total(pages[cursor])
        /\ step' = "stat"
        /\ UNCHANGED cursor
  /\ UNCHANGED <<reading, found, unreadable>>

(* The three counts are read in one pass, after the charge.                *)
ReadStat ==
  /\ step = "stat"
  /\ \/ /\ cursor \in Unreliable
        /\ UNCHANGED found
     \/ \E n \in UnflushedCaches(pages[cursor]) :
          found' = [found EXCEPT
            ![cursor].charged = ChargeLessCredit(current, pages[cursor], n),
            ![cursor].unflushed = n]
  /\ NextLevel
  /\ UNCHANGED <<reading, current, unreadable>>

Judge ==
  /\ step = "judge"
  /\ report' = Judged
  /\ step' = "reported"
  /\ UNCHANGED <<kernel, machinery, cursor, ceiling, current, found, unreadable, before>>

Reader == Begin \/ ReadLimit \/ ReadCharge \/ ReadStat \/ Judge

TypeOK ==
  /\ limit \in [Levels -> Nat \cup {Unlimited, Unusable}]
  /\ pages \in [Levels -> [Kinds -> Nat]]
  /\ carrier \in CarrierKinds /\ counts \in CountKinds /\ shut \in 0..Depth - 1
  /\ step \in {"idle", "limit", "charge", "stat", "judge", "reported"}
  /\ cursor \in Levels
  /\ ceiling \in {Machine, None}
  /\ current \in Nat \cup {None}
  /\ found \in [Levels -> MemoryLevels \cup {None}]
  /\ unreadable \in Levels \cup {None}
  /\ report \in [budget : Budgets \cup {None}, notice : Notices \cup {None}]
  /\ before \in [limit : [Levels -> Nat \cup {Unlimited, Unusable}],
                 pages : [Levels -> [Kinds -> Nat]]]
  /\ gained \in Nat /\ lifted \in BOOLEAN /\ quiet \in BOOLEAN /\ churn \in Nat

(* The pages of each level include those of every level below it.          *)
Cumulative(f) ==
  \A l, m \in Levels, kind \in Kinds : l <= m => f[l][kind] <= f[m][kind]

Init ==
  /\ limit \in [Levels -> Limits \cup {Unlimited, Unusable}]
  /\ pages \in [Levels -> [Kinds -> 0..Machine]]
  /\ Cumulative(pages)
  /\ Total(pages[Depth]) <= Machine
  /\ carrier \in Carriers /\ counts \in DirtyCounted
  /\ shut \in 0..Depth - 1  \* discovery saw a file of the controller above
  /\ step = "idle" /\ cursor = 1 /\ ceiling = None /\ current = None
  /\ found = [l \in Levels |-> None]
  /\ unreadable = None
  /\ report = [budget |-> None, notice |-> None]
  /\ before = [limit |-> limit, pages |-> pages]
  /\ gained = 0 /\ lifted = FALSE /\ quiet = TRUE /\ churn \in 0..MaxChurn

Next == Kernel \/ Reader

Spec == Init /\ [][Next]_vars

-----------------------------------------------------------------------------
(* What has to hold.                                                       *)

(* The room under the limit of level l when the call began: what could be  *)
(* charged, once the clean cache is dropped.                               *)
RoomBefore(l) ==
  before.limit[l] - Total(before.pages[l]) + before.pages[l]["clean"]

(* The reader never promises more memory than the levels it can reach had  *)
(* to give when it was asked and what was freed, flushed, cached or        *)
(* allowed on top while it read: charge, statistics and levels belong to   *)
(* different moments, and no mixture of them adds up to more room than     *)
(* there was.  This is the choice of the least distance, of crediting no   *)
(* page that still has to be flushed, and of never skipping an unknown     *)
(* level.  A kernel that counts only some such pages, or none, has the     *)
(* others credited.                                                        *)
PromiseIsBounded ==
  step = "reported" /\ report.budget # None /\ ~lifted /\ counts = "both" =>
    \A l \in Levels : Reachable(l) /\ before.limit[l] \in Nat =>
      report.budget.available <= Max0(RoomBefore(l)) + gained

(* What the group of this process could still charge under the limits that *)
(* can be reached.  With a level out of reach the kernel may grant less.   *)
Chargeable ==
  {n \in 0..Machine :
     \A l \in Levels : Reachable(l) /\ before.limit[l] \in Nat =>
       Total(before.pages[l]) - before.pages[l]["clean"] + n <= before.limit[l]}

(* Where nothing moves during the call, the room reported is exactly what  *)
(* the limits within reach still grant the group of this process,          *)
(* whichever of them stands in the way.  Pages dirty on the active list    *)
(* are the exception: they are taken off the credit without being in it.   *)
(* So is every dirty page under a kernel that counts one kind or none: it  *)
(* may be credited as if it were clean.                                    *)
QuietReadingIsExact ==
  step = "reported" /\ quiet /\ report.budget # None
  /\ (\A l \in Levels : pages[l]["hot"] = 0 /\ (counts = "both" \/ pages[l]["dirty"] = 0))
  => \A n \in 1..Machine : n <= report.budget.available <=> n \in Chargeable

(* A call that reports nothing and says nothing means that no level this   *)
(* process can reach limits it: a limit file that is there and makes no    *)
(* sense, or no pair with a usage, is never passed over in silence.  One   *)
(* in a directory that may not be traversed is: it is not there for        *)
(* _exists(), and a limit in it is enforced and neither read nor told of.  *)
SilenceMeansNoLimit ==
  step = "reported" /\ quiet /\ report = [budget |-> None, notice |-> None]
  /\ carrier = "chain"
  => \A l \in Levels : Reachable(l) => limit[l] = Unlimited

(* The three numbers of a cgroup already agree, though they come from two  *)
(* levels and six moments: _reconcile() finds nothing to correct.          *)
NothingToReconcile ==
  step = "reported" /\ report.budget # None =>
    /\ RawMemory = report.budget
    /\ report.budget.used + report.budget.available = report.budget.limit
=============================================================================

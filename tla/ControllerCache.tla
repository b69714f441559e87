-------------------------- MODULE ControllerCache --------------------------
(***************************************************************************)
(* Where the readings come from: locate_controllers() of                   *)
(* src/proclimits/_cgroup.py, kept by functools.lru_cache until            *)
(* clear_cache() forgets it, and forgotten in the child of a fork.         *)
(*                                                                         *)
(* Discovery reads /proc/self/cgroup and /proc/self/mountinfo, and then    *)
(* looks whether the group they name is there.  The cache holds no lock    *)
(* while it runs: another thread may discover at the same time, clear the  *)
(* cache, or find the process moved into another group.                    *)
(*                                                                         *)
(* A group stands for all that discovery makes of it.  Groups are numbered *)
(* in the order the process lives in them.                                 *)
(***************************************************************************)
EXTENDS Integers

CONSTANTS
  Threads,     \* the threads of the process
  MaxMoves,    \* bound on the moves into another group
  MaxClears,   \* bound on the calls of clear_cache() and the forks
  MaxLookups,  \* bound on the lookups of one thread
  Nowhere,     \* what a discovery that finds nothing returns
  None         \* nothing kept

Groups == 0..MaxMoves

ASSUME ConstantsAssumption ==
  /\ MaxMoves \in Nat /\ MaxClears \in Nat /\ MaxLookups \in Nat
  /\ Nowhere \notin Groups

VARIABLES
  home,     \* the group this process is in
  removed,  \* the groups it left that were removed since
  cache,    \* what locate_controllers() keeps, or None
  pc,       \* where each thread stands
  found,    \* what its discovery has found so far
  forked,   \* history: the clears after the fork this process came from, or 0
  clears,   \* history: the clears so far, the one after a fork included
  cleared,  \* history: the group the process was in at the last of them
  since,    \* history: the clears when each thread began its discovery
  floor,    \* history: `cleared' when each thread began its lookup
  lookups,  \* history: the lookups of each thread
  answers   \* history: what was answered, and what it had to be up to

lookup == <<pc, found, since>>
begin == <<floor, lookups>>
ghosts == <<clears, cleared>>
vars == <<home, removed, cache, forked, ghosts, lookup, begin, answers>>

(* What was found, with the clears when its discovery began and when it    *)
(* was put into the cache.                                                 *)
Entries == [group : Groups \cup {Nowhere}, since : Nat, put : Nat]

TypeOK ==
  /\ home \in Groups /\ removed \subseteq Groups
  /\ cache \in Entries \cup {None}
  /\ pc \in [Threads -> {"idle", "paths", "probe", "insert", "lost"}]
  /\ found \in [Threads -> Groups \cup {Nowhere}]
  /\ clears \in Nat /\ cleared \in 0..home /\ forked \in 0..clears
  /\ since \in [Threads -> 0..clears]
  /\ floor \in [Threads -> 0..cleared]
  /\ lookups \in [Threads -> Nat]
  /\ answers \subseteq [entry : Entries, floor : Groups, forked : Nat]

Init ==
  /\ home = 0 /\ removed = {} /\ cache = None /\ forked = 0
  /\ pc = [t \in Threads |-> "idle"]
  /\ found = [t \in Threads |-> Nowhere]
  /\ clears = 0 /\ cleared = 0
  /\ since = [t \in Threads |-> 0]
  /\ floor = [t \in Threads |-> 0]
  /\ lookups = [t \in Threads |-> 0]
  /\ answers = {}

Goto(t, label) == pc' = [pc EXCEPT ![t] = label]

-----------------------------------------------------------------------------
(* Outside the process.                                                    *)

(* Somebody writes the process into the cgroup.procs of another group.     *)
Move ==
  /\ home < MaxMoves
  /\ home' = home + 1
  /\ UNCHANGED <<removed, cache, forked, ghosts, lookup, begin, answers>>

(* A group it left is removed.                                             *)
Remove(g) ==
  /\ g < home /\ g \notin removed
  /\ removed' = removed \cup {g}
  /\ UNCHANGED <<home, cache, forked, ghosts, lookup, begin, answers>>

-----------------------------------------------------------------------------
(* Forgetting.                                                             *)

Forgotten ==
  /\ clears < MaxClears
  /\ clears' = clears + 1
  /\ cleared' = home

ForgetNothing(t) ==
  /\ pc[t] = "idle"
  /\ Forgotten
  /\ UNCHANGED <<home, removed, cache, forked, lookup, begin, answers>>

(* clear_cache(), called between two readings of a thread.                 *)
ClearCache(t) ==
  /\ pc[t] = "idle"
  /\ Forgotten
  /\ cache' = None
  /\ UNCHANGED <<home, removed, forked, lookup, begin, answers>>

(* A thread forks, and this is the child: only the forking thread is left, *)
(* and the hook forgets what the parent had discovered.                    *)
Forking(t) ==
  /\ pc[t] = "idle" /\ forked = 0
  /\ Forgotten
  /\ forked' = clears'
  /\ pc' = [u \in Threads |-> IF u = t THEN "idle" ELSE "lost"]
  /\ UNCHANGED <<home, removed, found, since, begin, answers>>

ForkWithoutTheHook(t) == Forking(t) /\ UNCHANGED cache

Fork(t) == Forking(t) /\ cache' = None

-----------------------------------------------------------------------------
(* locate_controllers().                                                   *)

Answer(entry, least) ==
  answers' = answers \cup {[entry |-> entry, floor |-> least, forked |-> forked]}

(* A lookup is answered from the cache, or begins a discovery.             *)
Locate(t) ==
  /\ pc[t] = "idle"
  /\ lookups[t] < MaxLookups
  /\ lookups' = [lookups EXCEPT ![t] = @ + 1]
  /\ floor' = [floor EXCEPT ![t] = cleared]
  /\ \/ /\ cache # None
        /\ Answer(cache, cleared)
        /\ UNCHANGED <<pc, since>>
     \/ /\ cache = None
        /\ Goto(t, "paths")
        /\ since' = [since EXCEPT ![t] = clears]
        /\ UNCHANGED answers
  /\ UNCHANGED <<home, removed, cache, forked, ghosts, found>>

(* /proc/self/cgroup and /proc/self/mountinfo, which may not answer.       *)
ReadPaths(t) ==
  /\ pc[t] = "paths"
  /\ \/ /\ found' = [found EXCEPT ![t] = home]
        /\ Goto(t, "probe")
     \/ /\ found' = [found EXCEPT ![t] = Nowhere]
        /\ Goto(t, "insert")
  /\ UNCHANGED <<home, removed, cache, forked, ghosts, since, begin, answers>>

(* A hierarchy counts only where the group exists under its mount, and a   *)
(* metric only where its file does.                                        *)
ProbeNothing(t) ==
  /\ pc[t] = "probe"
  /\ found' = [found EXCEPT ![t] = IF found[t] \in removed THEN None ELSE found[t]]
  /\ Goto(t, "insert")
  /\ UNCHANGED <<home, removed, cache, forked, ghosts, since, begin, answers>>

Probe(t) ==
  /\ pc[t] = "probe"
  /\ found' = [found EXCEPT ![t] = IF found[t] \in removed THEN Nowhere ELSE found[t]]
  /\ Goto(t, "insert")
  /\ UNCHANGED <<home, removed, cache, forked, ghosts, since, begin, answers>>

(* The lookup answers what it discovered.  lru_cache keeps it only where   *)
(* no other thread was faster.                                             *)
Insert(t) ==
  LET entry == [group |-> found[t], since |-> since[t], put |-> clears]
  IN /\ pc[t] = "insert"
     /\ cache' = IF cache = None THEN entry ELSE cache
     /\ Answer(entry, floor[t])
     /\ Goto(t, "idle")
     /\ UNCHANGED <<home, removed, forked, ghosts, found, since, begin>>

Next ==
  \/ Move
  \/ \E g \in Groups : Remove(g)
  \/ \E t \in Threads :
       \/ ClearCache(t) \/ Fork(t)
       \/ Locate(t) \/ ReadPaths(t) \/ Probe(t) \/ Insert(t)

Spec == Init /\ [][Next]_vars

-----------------------------------------------------------------------------
(* What has to hold.                                                       *)

Stale(a) == a.entry.group # Nowhere /\ a.entry.group < a.floor

(* What clear_cache() is documented for: "the next reading locates the     *)
(* sources again", so a lookup that begins after the cache was cleared     *)
(* never answers with a group the process had left by then.                *)
ClearIsRespected == \A a \in answers : ~Stale(a)

(* With several threads that can fail in one way only: a discovery was     *)
(* under way when the cache was cleared, and put what it found there       *)
(* afterwards.  Nothing that was in the cache survives a clear or a fork.  *)
StaleOnlyWhenOvertaken ==
  \A a \in answers : Stale(a) => a.entry.since < a.entry.put

(* A forked child discovers for itself: no reading of it is answered with  *)
(* what its parent had discovered, or was discovering in another thread,   *)
(* so a worker moved before its first reading is read where it is.         *)
ChildDiscoversForItself ==
  \A a \in answers : a.entry.since >= a.forked
=============================================================================

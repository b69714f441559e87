----------------------- MODULE ControllerCache_proofs -----------------------
(* Proofs about ControllerCache, for any number of threads, moves, clears  *)
(* and lookups.                                                            *)
EXTENDS ControllerCache, TLAPS

-----------------------------------------------------------------------------
(* Types.                                                                  *)

LEMMA InitTyping == Init => TypeOK
<1> SUFFICES ASSUME Init PROVE TypeOK
  OBVIOUS
<1> USE ConstantsAssumption DEF Init, Groups
<1>1. home \in Groups /\ cleared \in 0..home /\ clears \in Nat /\ forked \in 0..clears
  OBVIOUS
<1>2. found \in [Threads -> Groups \cup {Nowhere}]
  OBVIOUS
<1>3. /\ since \in [Threads -> 0..clears] /\ lookups \in [Threads -> Nat]
      /\ floor \in [Threads -> 0..cleared]
  OBVIOUS
<1>4. pc \in [Threads -> {"idle", "paths", "probe", "insert", "lost"}]
  OBVIOUS
<1> QED BY <1>1, <1>2, <1>3, <1>4 DEF TypeOK

LEMMA OutsideTyping ==
  ASSUME TypeOK, Move \/ \E g \in Groups : Remove(g) PROVE TypeOK'
<1> USE ConstantsAssumption DEF TypeOK, Groups, ghosts, lookup, begin
<1>1. CASE Move
  BY <1>1 DEF Move
<1>2. ASSUME NEW g \in Groups, Remove(g) PROVE TypeOK'
  BY <1>2 DEF Remove
<1> QED BY <1>1, <1>2

LEMMA ForgettingTyping ==
  ASSUME TypeOK, NEW t \in Threads, ClearCache(t) \/ Fork(t) PROVE TypeOK'
<1> USE ConstantsAssumption DEF TypeOK, Groups, lookup, begin, Forgotten, Forking
<1>1. CASE ClearCache(t)
  BY <1>1 DEF ClearCache
<1>2. CASE Fork(t)
  BY <1>2 DEF Fork
<1> QED BY <1>1, <1>2

LEMMA LookupTyping ==
  ASSUME TypeOK, NEW t \in Threads, Locate(t) \/ ReadPaths(t) \/ Probe(t) \/ Insert(t)
  PROVE  TypeOK'
<1> USE ConstantsAssumption DEF TypeOK, Groups, ghosts, lookup, begin, Goto, Answer
<1>1. CASE Locate(t)
  <2>1. cleared \in Groups /\ forked \in Nat
    OBVIOUS
  <2>2. CASE cache # None /\ Answer(cache, cleared) /\ UNCHANGED <<pc, since>>
    BY <1>1, <2>1, <2>2 DEF Locate, Entries
  <2>3. CASE cache = None /\ Goto(t, "paths") /\ UNCHANGED answers
             /\ since' = [since EXCEPT ![t] = clears]
    BY <1>1, <2>3 DEF Locate
  <2> QED BY <1>1, <2>2, <2>3 DEF Locate
<1>2. CASE ReadPaths(t)
  BY <1>2 DEF ReadPaths
<1>3. CASE Probe(t)
  BY <1>3 DEF Probe
<1>4. CASE Insert(t)
  <2> DEFINE entry == [group |-> found[t], since |-> since[t], put |-> clears]
  <2>1. entry \in Entries
    BY DEF Entries
  <2>2. floor[t] \in Groups /\ forked \in Nat
    OBVIOUS
  <2>3. /\ cache' = IF cache = None THEN entry ELSE cache
        /\ answers' = answers \cup {[entry |-> entry, floor |-> floor[t], forked |-> forked]}
        /\ pc' = [pc EXCEPT ![t] = "idle"]
        /\ UNCHANGED <<home, removed, forked, ghosts, found, since, begin>>
    BY <1>4 DEF Insert
  <2> HIDE DEF entry
  <2> QED BY <2>1, <2>2, <2>3
<1> QED BY <1>1, <1>2, <1>3, <1>4

LEMMA NextTyping == TypeOK /\ [Next]_vars => TypeOK'
<1> SUFFICES ASSUME TypeOK, [Next]_vars PROVE TypeOK'
  OBVIOUS
<1>1. CASE Move \/ \E g \in Groups : Remove(g)
  BY <1>1, OutsideTyping
<1>2. ASSUME NEW t \in Threads, ClearCache(t) \/ Fork(t) PROVE TypeOK'
  BY <1>2, ForgettingTyping
<1>3. ASSUME NEW t \in Threads, Locate(t) \/ ReadPaths(t) \/ Probe(t) \/ Insert(t)
      PROVE  TypeOK'
  BY <1>3, LookupTyping
<1>4. CASE UNCHANGED vars
  BY <1>4 DEF TypeOK, vars, ghosts, lookup, begin
<1> QED BY <1>1, <1>2, <1>3, <1>4 DEF Next

(* Every variable keeps its type, whoever moves the process and however    *)
(* many threads look up, clear and fork.                                   *)
THEOREM TypeCorrect == Spec => []TypeOK
BY InitTyping, NextTyping, PTL DEF Spec

-----------------------------------------------------------------------------
(* Stale answers.                                                          *)

(* What a discovery begun since the last clear has found is a group the    *)
(* process was not moved out of before that clear.                         *)
DiscoveryIsCurrent ==
  \A t \in Threads :
    pc[t] \in {"probe", "insert"} /\ since[t] = clears =>
      found[t] = Nowhere \/ found[t] >= cleared

(* So is what the cache holds, unless the discovery was overtaken.         *)
CacheIsCurrent ==
  cache # None =>
    cache.group = Nowhere \/ cache.since < cache.put \/ cache.group >= cleared

(* The inductive invariant behind StaleOnlyWhenOvertaken.                  *)
Currency == TypeOK /\ DiscoveryIsCurrent /\ CacheIsCurrent /\ StaleOnlyWhenOvertaken

LEMMA CurrencyOutside ==
  ASSUME Currency, Move \/ \E g \in Groups : Remove(g)
  PROVE  DiscoveryIsCurrent' /\ CacheIsCurrent' /\ StaleOnlyWhenOvertaken'
<1> USE DEF Currency, DiscoveryIsCurrent, CacheIsCurrent, StaleOnlyWhenOvertaken, Stale
<1>1. UNCHANGED <<cache, pc, found, since, clears, cleared, answers>>
  BY DEF Move, Remove, lookup, begin, ghosts
<1> QED BY <1>1

(* A clear leaves no discovery that counts as begun since, and no cache.   *)
LEMMA CurrencyForgetting ==
  ASSUME Currency, NEW t \in Threads, ClearCache(t) \/ Fork(t)
  PROVE  DiscoveryIsCurrent' /\ CacheIsCurrent' /\ StaleOnlyWhenOvertaken'
<1>1. clears' = clears + 1 /\ cache' = None /\ UNCHANGED <<since, answers>>
  BY DEF ClearCache, Fork, Forking, Forgotten, lookup, begin
<1>2. \A u \in Threads : since'[u] # clears'
  <2>1. since \in [Threads -> 0..clears] /\ clears \in Nat
    BY DEF Currency, TypeOK
  <2> QED BY <1>1, <2>1
<1>3. DiscoveryIsCurrent'
  BY <1>2 DEF DiscoveryIsCurrent
<1>4. CacheIsCurrent'
  BY <1>1 DEF CacheIsCurrent
<1>5. StaleOnlyWhenOvertaken'
  BY <1>1 DEF Currency, StaleOnlyWhenOvertaken, Stale
<1> QED BY <1>3, <1>4, <1>5

(* A lookup answered from the cache is answered as well as the cache is.   *)
LEMMA CurrencyLocate ==
  ASSUME Currency, NEW t \in Threads, Locate(t)
  PROVE  DiscoveryIsCurrent' /\ CacheIsCurrent' /\ StaleOnlyWhenOvertaken'
<1>1. UNCHANGED <<cache, found, clears, cleared>>
  BY DEF Locate, ghosts
<1>2. /\ pc \in [Threads -> {"idle", "paths", "probe", "insert", "lost"}]
      /\ since \in [Threads -> 0..clears]
      /\ cache \in Entries \cup {None} /\ cleared \in Int
  BY ConstantsAssumption DEF Currency, TypeOK, Groups
<1>3. CASE cache # None /\ Answer(cache, cleared) /\ UNCHANGED <<pc, since>>
  <2>1. answers' = answers \cup {[entry |-> cache, floor |-> cleared, forked |-> forked]}
    BY <1>3 DEF Answer
  <2>2. cache.group \in Groups => cache.group \in Int
    BY ConstantsAssumption DEF Groups
  <2>3. cache \in Entries
    BY <1>2, <1>3
  <2>4. ~ (cache.group # Nowhere /\ cache.group < cleared) \/ cache.since < cache.put
    BY <1>2, <1>3, <2>2, <2>3 DEF Currency, CacheIsCurrent, Entries
  <2>5. StaleOnlyWhenOvertaken'
    BY <2>1, <2>4 DEF Currency, StaleOnlyWhenOvertaken, Stale
  <2> QED BY <1>1, <1>3, <2>5 DEF Currency, DiscoveryIsCurrent, CacheIsCurrent
<1>4. CASE cache = None /\ Goto(t, "paths") /\ UNCHANGED answers
           /\ since' = [since EXCEPT ![t] = clears]
  BY <1>1, <1>2, <1>4
  DEF Goto, Currency, DiscoveryIsCurrent, CacheIsCurrent, StaleOnlyWhenOvertaken, Stale
<1> QED BY <1>3, <1>4 DEF Locate

(* The group is where the process is now, which is no earlier group than   *)
(* the one it was in at the last clear.                                    *)
LEMMA CurrencyDiscovery ==
  ASSUME Currency, NEW t \in Threads, ReadPaths(t) \/ Probe(t)
  PROVE  DiscoveryIsCurrent' /\ CacheIsCurrent' /\ StaleOnlyWhenOvertaken'
<1>1. UNCHANGED <<cache, since, clears, cleared, answers>>
  BY DEF ReadPaths, Probe, ghosts, begin
<1>2. /\ pc \in [Threads -> {"idle", "paths", "probe", "insert", "lost"}]
      /\ found \in [Threads -> Groups \cup {Nowhere}]
      /\ cleared <= home
  BY ConstantsAssumption DEF Currency, TypeOK, Groups
<1>3. DiscoveryIsCurrent'
  BY <1>1, <1>2 DEF ReadPaths, Probe, Goto, Currency, DiscoveryIsCurrent
<1> QED BY <1>1, <1>3 DEF Currency, CacheIsCurrent, StaleOnlyWhenOvertaken, Stale

(* A discovery that no clear overtook answers, and keeps, a current group. *)
LEMMA CurrencyInsert ==
  ASSUME Currency, NEW t \in Threads, Insert(t)
  PROVE  DiscoveryIsCurrent' /\ CacheIsCurrent' /\ StaleOnlyWhenOvertaken'
<1> DEFINE entry == [group |-> found[t], since |-> since[t], put |-> clears]
<1>1. /\ pc[t] = "insert"
      /\ cache' = IF cache = None THEN entry ELSE cache
      /\ answers' = answers \cup {[entry |-> entry, floor |-> floor[t], forked |-> forked]}
      /\ pc' = [pc EXCEPT ![t] = "idle"]
      /\ UNCHANGED <<found, since, clears, cleared>>
  BY DEF Insert, Goto, Answer, ghosts
<1>2. /\ pc \in [Threads -> {"idle", "paths", "probe", "insert", "lost"}]
      /\ found[t] \in Groups \cup {Nowhere} /\ since[t] \in 0..clears
      /\ clears \in Nat /\ cleared \in Int /\ floor[t] \in 0..cleared
  BY ConstantsAssumption DEF Currency, TypeOK, Groups
<1>3. entry.group = Nowhere \/ entry.since < entry.put \/ entry.group >= cleared
  BY <1>1, <1>2 DEF Currency, DiscoveryIsCurrent
<1>4. entry.group # Nowhere /\ entry.group < floor[t] => entry.since < entry.put
  <2>1. entry.group \in Groups => entry.group \in Int
    BY ConstantsAssumption DEF Groups
  <2> QED BY <1>2, <1>3, <2>1
<1> HIDE DEF entry
<1>5. DiscoveryIsCurrent'
  BY <1>1, <1>2 DEF Currency, DiscoveryIsCurrent
<1>6. CacheIsCurrent'
  BY <1>1, <1>3 DEF Currency, CacheIsCurrent
<1>7. StaleOnlyWhenOvertaken'
  BY <1>1, <1>4 DEF Currency, StaleOnlyWhenOvertaken, Stale
<1> QED BY <1>5, <1>6, <1>7

LEMMA CurrencyInit == Init => Currency
<1> SUFFICES ASSUME Init PROVE Currency
  OBVIOUS
<1>1. DiscoveryIsCurrent /\ CacheIsCurrent /\ StaleOnlyWhenOvertaken
  BY DEF Init, DiscoveryIsCurrent, CacheIsCurrent, StaleOnlyWhenOvertaken
<1> QED BY <1>1, InitTyping DEF Currency

LEMMA CurrencyNext == Currency /\ [Next]_vars => Currency'
<1> SUFFICES ASSUME Currency, [Next]_vars PROVE Currency'
  OBVIOUS
<1>1. TypeOK'
  BY NextTyping DEF Currency
<1>2. CASE Move \/ \E g \in Groups : Remove(g)
  BY <1>1, <1>2, CurrencyOutside DEF Currency
<1>3. ASSUME NEW t \in Threads, ClearCache(t) \/ Fork(t) PROVE Currency'
  BY <1>1, <1>3, CurrencyForgetting DEF Currency
<1>4. ASSUME NEW t \in Threads, Locate(t) PROVE Currency'
  BY <1>1, <1>4, CurrencyLocate DEF Currency
<1>5. ASSUME NEW t \in Threads, ReadPaths(t) \/ Probe(t) PROVE Currency'
  BY <1>1, <1>5, CurrencyDiscovery DEF Currency
<1>6. ASSUME NEW t \in Threads, Insert(t) PROVE Currency'
  BY <1>1, <1>6, CurrencyInsert DEF Currency
<1>7. CASE UNCHANGED vars
  BY <1>1, <1>7 DEF vars, ghosts, lookup, begin, Currency, DiscoveryIsCurrent,
    CacheIsCurrent, StaleOnlyWhenOvertaken, Stale
<1> QED BY <1>2, <1>3, <1>4, <1>5, <1>6, <1>7 DEF Next

(* A lookup begun after a clear answers with a group left before it only   *)
(* where the clear overtook a discovery, whatever the number of threads.   *)
THEOREM StaleOnlyIfOvertaken == Spec => []StaleOnlyWhenOvertaken
<1>1. Currency => StaleOnlyWhenOvertaken
  BY DEF Currency
<1> QED BY <1>1, CurrencyInit, CurrencyNext, PTL DEF Spec

-----------------------------------------------------------------------------
(* One thread.                                                             *)

(* No clear comes between the beginning and the end of a discovery.        *)
NeverOvertaken ==
  /\ \A t \in Threads : pc[t] \in {"paths", "probe", "insert"} => since[t] = clears
  /\ cache # None => cache.since = cache.put
  /\ \A a \in answers : a.entry.since = a.entry.put

LEMMA AloneNext ==
  ASSUME \A t, u \in Threads : t = u, TypeOK, NeverOvertaken, [Next]_vars
  PROVE  NeverOvertaken'
<1> USE DEF NeverOvertaken
<1>0. /\ pc \in [Threads -> {"idle", "paths", "probe", "insert", "lost"}]
      /\ since \in [Threads -> 0..clears] /\ clears \in Nat
  BY DEF TypeOK
<1>1. CASE Move \/ \E g \in Groups : Remove(g)
  BY <1>1 DEF Move, Remove, lookup, begin, ghosts
<1>2. ASSUME NEW t \in Threads, ClearCache(t) \/ Fork(t) PROVE NeverOvertaken'
  <2>1. /\ cache' = None /\ answers' = answers
        /\ pc'[t] = "idle"
    BY <1>0, <1>2 DEF ClearCache, Fork, Forking, lookup, begin
  <2> QED BY <2>1
<1>3. ASSUME NEW t \in Threads, Locate(t) PROVE NeverOvertaken'
  BY <1>0, <1>3 DEF Locate, Goto, Answer, ghosts
<1>4. ASSUME NEW t \in Threads, ReadPaths(t) \/ Probe(t) PROVE NeverOvertaken'
  BY <1>0, <1>4 DEF ReadPaths, Probe, Goto, ghosts, begin
<1>5. ASSUME NEW t \in Threads, Insert(t) PROVE NeverOvertaken'
  BY <1>0, <1>5 DEF Insert, Goto, Answer, ghosts
<1>6. CASE UNCHANGED vars
  BY <1>6 DEF vars, ghosts, lookup, begin
<1> QED BY <1>1, <1>2, <1>3, <1>4, <1>5, <1>6 DEF Next

(* In a process of one thread the promise of clear_cache() holds as it is  *)
(* documented: the next reading locates the sources again.                 *)
THEOREM AloneClearIsRespected ==
  ASSUME \A t, u \in Threads : t = u PROVE Spec => []ClearIsRespected
<1>1. Init => NeverOvertaken
  BY DEF Init, NeverOvertaken
<1>2. TypeOK /\ NeverOvertaken /\ [Next]_vars => NeverOvertaken'
  BY AloneNext
<1>3. TypeOK /\ NeverOvertaken /\ StaleOnlyWhenOvertaken => ClearIsRespected
  <2> SUFFICES ASSUME TypeOK, NeverOvertaken, StaleOnlyWhenOvertaken PROVE ClearIsRespected
    OBVIOUS
  <2>1. \A a \in answers : a.entry.since \in Nat /\ a.entry.since = a.entry.put
    BY DEF TypeOK, Entries, NeverOvertaken
  <2> QED BY <2>1 DEF StaleOnlyWhenOvertaken, ClearIsRespected
<1> QED BY <1>1, <1>2, <1>3, TypeCorrect, StaleOnlyIfOvertaken, PTL DEF Spec

-----------------------------------------------------------------------------
(* Forks.                                                                  *)

(* What a child has found and keeps was discovered after the fork.         *)
FoundAfterTheFork ==
  /\ \A t \in Threads : pc[t] \in {"paths", "probe", "insert"} => since[t] >= forked
  /\ cache # None => cache.since >= forked
  /\ ChildDiscoversForItself

LEMMA ForkNext ==
  ASSUME TypeOK, FoundAfterTheFork, [Next]_vars
  PROVE  FoundAfterTheFork'
<1> USE DEF FoundAfterTheFork, ChildDiscoversForItself
<1>0. /\ pc \in [Threads -> {"idle", "paths", "probe", "insert", "lost"}]
      /\ since \in [Threads -> 0..clears] /\ clears \in Nat /\ forked \in 0..clears
  BY DEF TypeOK
<1>1. CASE Move \/ \E g \in Groups : Remove(g)
  BY <1>1 DEF Move, Remove, lookup, begin, ghosts
<1>2. ASSUME NEW t \in Threads, ClearCache(t) PROVE FoundAfterTheFork'
  BY <1>2 DEF ClearCache, lookup, begin
<1>3. ASSUME NEW t \in Threads, Fork(t) PROVE FoundAfterTheFork'
  <2>1. /\ cache' = None /\ answers' = answers
        /\ \A u \in Threads : pc'[u] \notin {"paths", "probe", "insert"}
    BY <1>0, <1>3 DEF Fork, Forking
  <2> QED BY <2>1
<1>4. ASSUME NEW t \in Threads, Locate(t) PROVE FoundAfterTheFork'
  BY <1>0, <1>4 DEF Locate, Goto, Answer, ghosts
<1>5. ASSUME NEW t \in Threads, ReadPaths(t) \/ Probe(t) PROVE FoundAfterTheFork'
  BY <1>0, <1>5 DEF ReadPaths, Probe, Goto, ghosts, begin
<1>6. ASSUME NEW t \in Threads, Insert(t) PROVE FoundAfterTheFork'
  BY <1>0, <1>6 DEF Insert, Goto, Answer, ghosts
<1>7. CASE UNCHANGED vars
  BY <1>7 DEF vars, ghosts, lookup, begin
<1> QED BY <1>1, <1>2, <1>3, <1>4, <1>5, <1>6, <1>7 DEF Next

(* No reading of a child is answered with what its parent had found, with  *)
(* any number of threads looking up while one of them forks.               *)
THEOREM ForkedChildDiscovers == Spec => []ChildDiscoversForItself
<1>1. Init => FoundAfterTheFork
  BY DEF Init, FoundAfterTheFork, ChildDiscoversForItself
<1>2. TypeOK /\ FoundAfterTheFork /\ [Next]_vars => FoundAfterTheFork'
  BY ForkNext
<1>3. FoundAfterTheFork => ChildDiscoversForItself
  BY DEF FoundAfterTheFork
<1> QED BY <1>1, <1>2, <1>3, TypeCorrect, PTL DEF Spec
=============================================================================

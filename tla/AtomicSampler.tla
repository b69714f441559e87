--------------------------- MODULE AtomicSampler ---------------------------
(***************************************************************************)
(* What one shared CpuLoad promises its callers, with the lock abstracted  *)
(* away.  A sampler is a slot holding the last reading taken.  A call      *)
(* arrives with the reading it took (or with None, where that reading      *)
(* failed) and exchanges it, in ONE step, for the reading the slot held.   *)
(* A failed reading takes the slot's content and leaves it in place.       *)
(*                                                                         *)
(* What the slot does not promise is that readings are exchanged in the    *)
(* order they were taken: a call takes its reading before it reaches the   *)
(* slot.                                                                   *)
(***************************************************************************)
CONSTANTS Callers,   \* the threads sharing the sampler
          Readings,  \* the readings a call can arrive with
          None       \* no reading

VARIABLES slot,      \* the reading kept for the next call, or None
          stage,     \* where each caller's current call stands
          offered,   \* the reading a call brings to the slot
          got        \* the reading it took from the slot

vars == <<slot, stage, offered, got>>

Init ==
  /\ slot = None
  /\ stage = [c \in Callers |-> "away"]
  /\ offered = [c \in Callers |-> None]
  /\ got = [c \in Callers |-> None]

(* A call reaches the sampler with its reading, or without one.            *)
Offer(c) ==
  /\ stage[c] = "away"
  /\ stage' = [stage EXCEPT ![c] = "offered"]
  /\ offered'[c] \in Readings \cup {None}
  /\ offered' = [offered EXCEPT ![c] = offered'[c]]
  /\ UNCHANGED <<slot, got>>

(* The exchange itself: indivisible, whatever the other callers do.        *)
Exchange(c) ==
  /\ stage[c] = "offered"
  /\ stage' = [stage EXCEPT ![c] = "exchanged"]
  /\ got' = [got EXCEPT ![c] = slot]
  /\ slot' = IF offered[c] = None THEN slot ELSE offered[c]
  /\ UNCHANGED offered

(* The call returns what it made of the two readings.                      *)
Leave(c) ==
  /\ stage[c] = "exchanged"
  /\ stage' = [stage EXCEPT ![c] = "away"]
  /\ offered' = [offered EXCEPT ![c] = None]
  /\ got' = [got EXCEPT ![c] = None]
  /\ UNCHANGED slot

Next ==
  \E c \in Callers :
    \/ Offer(c)
    \/ Exchange(c)
    \/ Leave(c)

Spec == Init /\ [][Next]_vars
=============================================================================

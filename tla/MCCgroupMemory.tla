--------------------------- MODULE MCCgroupMemory ---------------------------
(* A small instance of CgroupMemory for TLC.                               *)
EXTENDS CgroupMemory

(* No move of the kernel from any state, and as many as there can be from  *)
(* a chain within reach, with limits above zero and no dirty pages off the *)
(* inactive list.                                                          *)
Restricted ==
  /\ carrier = "chain" /\ counts = "both" /\ shut = 0
  /\ \A l \in Levels : limit[l] \notin {0, Unusable} /\ pages[l]["hot"] = 0
  /\ \E l \in Levels : limit[l] # Unlimited
MCInit == Init /\ (churn = MaxChurn \/ (churn = 0 /\ Restricted))
MCSpec == MCInit /\ [][Next]_vars
=============================================================================

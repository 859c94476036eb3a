------------------------------ MODULE WatchOnce ------------------------------
(* What a breakout watch promises: it is armed, it is committed to at most   *)
(* one order, the order is sent only when it is, and a settled watch stays   *)
(* settled.                                                                  *)
EXTENDS Naturals

CONSTANT Watches
VARIABLES
  stage,  \* none, armed, committed, settled
  sent    \* orders sent for the watch

vars == <<stage, sent>>

Init == stage = [w \in Watches |-> "none"] /\ sent = [w \in Watches |-> 0]

Arm(w) ==
  /\ stage[w] = "none" /\ stage' = [stage EXCEPT ![w] = "armed"]
  /\ UNCHANGED sent

Commit(w) ==
  /\ stage[w] = "armed" /\ stage' = [stage EXCEPT ![w] = "committed"]
  /\ UNCHANGED sent

\* A restart settles several watches.
Settle(ended) ==
  /\ \A w \in ended : stage[w] \in {"armed", "committed"}
  /\ stage' = [w \in Watches |-> IF w \in ended THEN "settled" ELSE stage[w]]
  /\ UNCHANGED sent

\* The order may go out when the watch was settled as uncertain meanwhile,
\* but not for a watch that was given up without being committed.
Order(w) ==
  /\ stage[w] \in {"committed", "settled"} /\ sent[w] = 0
  /\ sent' = [sent EXCEPT ![w] = 1]
  /\ UNCHANGED stage

Next ==
  \/ \E w \in Watches : Arm(w) \/ Commit(w) \/ Order(w)
  \/ \E ended \in SUBSET Watches : Settle(ended)
Spec == Init /\ [][Next]_vars
=============================================================================

----------------------------- MODULE OrderIntent -----------------------------
(***************************************************************************)
(* What TradeEngine._place_order_with_execution promises its callers: one  *)
(* intent to trade Qty shares.  However the request is cut into broker     *)
(* orders, at most Qty shares can ever trade, nothing is sent while a part *)
(* of the intent is still working at the broker, and a result that is      *)
(* reported without raising the alarm (the kill switch) is the whole truth *)
(* about the shares traded.                                                *)
(***************************************************************************)
EXTENDS Integers

CONSTANT Qty    \* shares the caller asked for

VARIABLES
  bought,       \* shares traded so far
  working,      \* shares that may still trade at the broker
  answer,       \* fills reported to the caller, -1 before the report
  alarm         \* the kill switch is on

vars == <<bought, working, answer, alarm>>

Init == bought = 0 /\ working = 0 /\ answer = -1 /\ alarm = FALSE

\* What has not traded is sent, when nothing of it is working already.  After
\* the report only a request that was under way, and raised the alarm, may
\* still arrive.
Send ==
  /\ working = 0 /\ bought < Qty
  /\ answer = -1 \/ alarm
  /\ working' = Qty - bought
  /\ UNCHANGED <<bought, answer, alarm>>

Trade ==
  /\ \E n \in 1 .. working : bought' = bought + n /\ working' = working - n
  /\ UNCHANGED <<answer, alarm>>

\* The rest of an order is cancelled or rejected.
Withdraw ==
  /\ working' = 0
  /\ UNCHANGED <<bought, answer, alarm>>

Alarm == alarm' = TRUE /\ UNCHANGED <<bought, working, answer>>

\* A report never invents a fill, and unless it comes with the alarm it
\* leaves nothing out: no fill and no working order.
Report ==
  /\ answer = -1
  /\ answer' \in 0 .. bought
  /\ alarm' \in {alarm, TRUE}
  /\ ~alarm' => answer' = bought /\ working = 0
  /\ UNCHANGED <<bought, working>>

Next == Send \/ Trade \/ Withdraw \/ Alarm \/ Report
Spec == Init /\ [][Next]_vars
=============================================================================

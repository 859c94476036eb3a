------------------------------ MODULE StopRules ------------------------------
(***************************************************************************)
(* What a tick does to an open position (trade_engine.py): pyramiding, the  *)
(* stop loss, the cost stop, the trailing stop and the target ladder.       *)
(* Prices are integer distances in the direction of the trade, so that a    *)
(* BUY and a SELL, whose code is mirrored, are the same; percentages are    *)
(* fixed distances.                                                         *)
(***************************************************************************)
EXTENDS Integers

CONSTANTS
  Prices,         \* prices that ticks may have
  StopDistance,   \* cfg_sl_pct
  TargetDistance, \* cfg_target_pct
  TrailDistance,  \* tsl_pct
  CostDistance,   \* cfg_sl_pct * cost_sl_rr
  AddStep,        \* pyramid_step_pct
  MaxAdds,        \* pyramid_max_adds
  LadderPrice     \* tp1_price, tp2_price, tp3_price of the target ladder

Signal == 0 \* signal_price, at which the position was entered

\* The stop of the entry is on the losing side, a signal has a risk, and its targets'
\* multiples of it grow (validate_*_config). Backtest has the signals that have none.
ASSUME PricesAssumption ==
  /\ Prices \subseteq Int
  /\ {StopDistance, TargetDistance, TrailDistance, CostDistance, AddStep}
       \subseteq Nat \ {0}
  /\ MaxAdds \in Nat
  /\ LadderPrice \in [1 .. 3 -> Nat \ {0}]
  /\ LadderPrice[1] < LadderPrice[2] /\ LadderPrice[2] < LadderPrice[3]

\* The settings of a position that the rules read.
Setting == [ladder : BOOLEAN, partial : BOOLEAN, useTrail : BOOLEAN,
            fullExit : BOOLEAN, trailing : BOOLEAN, stepwise : BOOLEAN,
            cost : BOOLEAN, reversal : BOOLEAN]

\* What may come of a booking: it is filled, it is filled and nothing is left, a
\* part of it is filled, another holds the lock, or the order failed.
Outcomes == {"full", "all", "part", "busy", "fail"}

\* The trail starts at the stop loss.
AtEntry ==
  [status |-> "OPEN", ltp |-> Signal, entry |-> Signal, best |-> Signal,
   sl |-> Signal - StopDistance, trail |-> Signal - StopDistance,
   adds |-> 0, lastAdd |-> Signal, hit |-> {}, booked |-> {}]

Higher(a, b) == IF a >= b THEN a ELSE b
-----------------------------------------------------------------------------
(* Stops.                                                                  *)

\* The stop in force: a ladder's is its trail.
Floor(cfg, pos) == IF cfg.ladder THEN pos.trail ELSE Higher(pos.sl, pos.trail)

\* _stepwise_anchor_long: whole steps from the entry.
Steps(pos) ==
  LET gain == (pos.best - pos.entry) \div TrailDistance
  IN pos.entry + TrailDistance * Higher(gain, 0)

Anchor(cfg, pos) == IF cfg.stepwise THEN Steps(pos) ELSE pos.best

\* _classic_tsl_line.
TrailLine(cfg, pos) == Anchor(cfg, pos) - TrailDistance

\* Mutant: the stop follows the price in both directions.
Following(cfg, pos) ==
  IF cfg.trailing THEN [pos EXCEPT !.trail = TrailLine(cfg, pos)] ELSE pos

\* _ratchet_classic_tsl.
Ratcheted(cfg, pos) ==
  IF cfg.trailing
  THEN [pos EXCEPT !.trail = Higher(pos.trail, TrailLine(cfg, pos))]
  ELSE pos

\* _apply_cost_sl_if_ready.
AtCost(cfg, pos) ==
  IF cfg.cost /\ pos.best >= pos.entry + CostDistance
  THEN [pos EXCEPT !.sl = Higher(pos.sl, pos.entry)] ELSE pos
-----------------------------------------------------------------------------
(* Pyramiding: an order in the direction of the trade.                     *)

\* Above the last add by a step, below the target, above the trail.
MayAdd(cfg, pos, price) ==
  LET ceiling == IF cfg.ladder THEN LadderPrice[3] ELSE pos.entry + TargetDistance
  IN /\ pos.status = "OPEN" /\ pos.adds < MaxAdds
     /\ price < ceiling /\ price > pos.trail
     /\ price >= pos.lastAdd + AddStep

\* What is filled moves the entry price to the new average, and the classic stop
\* and target with it.
Added(cfg, pos, price, average) ==
  [pos EXCEPT !.entry = average, !.adds = @ + 1, !.lastAdd = price,
              !.sl = IF cfg.ladder THEN @ ELSE average - StopDistance]

\* _maybe_pyramid_position: nothing is added either if the kill switch is set, the
\* exit lock is taken, the row was changed or the order fails.
Pyramided(cfg, pos, price) ==
  {pos} \cup IF MayAdd(cfg, pos, price)
             THEN {Added(cfg, pos, price, average) :
                     average \in {a \in pos.entry .. price : a > pos.entry}}
             ELSE {}
-----------------------------------------------------------------------------
(* The classic rules.                                                      *)

Exiting(pos) == [pos EXCEPT !.status = "EXITING"]

\* Mutant: a price at the stop is not past it.
Beyond(pos, price) ==
  \/ price >= pos.entry + TargetDistance
  \/ price < pos.sl \/ price < pos.trail

Reached(pos, price) ==
  \/ price >= pos.entry + TargetDistance
  \/ price <= pos.sl \/ price <= pos.trail

ClassicTick(cfg, pos, price) ==
  LET best  == [pos EXCEPT !.best = Higher(@, price)]
      after == Ratcheted(cfg, AtCost(cfg, best))
  IN IF Reached(after, price) THEN Exiting(after) ELSE after
-----------------------------------------------------------------------------
(* The ladder: three targets, each of which pulls the trail up.            *)

\* The trail after target t: the signal price, then the target before.
Pulled(cfg, pos, t) ==
  IF ~cfg.useTrail THEN pos
  ELSE [pos EXCEPT !.trail = IF t = 1 THEN Signal ELSE LadderPrice[t - 1]]

Hit(pos, t) == [pos EXCEPT !.hit = @ \cup {t}]

\* _book_partial_profit; the third target books all that is left.
Booked(cfg, pos, t, outcome) ==
  LET done == [Hit(pos, t) EXCEPT !.booked = @ \cup {t}]
  IN CASE outcome = "busy" -> pos
       [] outcome = "fail" -> [pos EXCEPT !.status = "ERROR"]
       [] (outcome = "part" /\ t = 3) -> Hit(pos, t)
       [] (outcome = "part" /\ t < 3) -> Pulled(cfg, Hit(pos, t), t)
       [] (outcome = "full" /\ t < 3) -> Pulled(cfg, done, t)
       [] (outcome = "all" \/ (outcome = "full" /\ t = 3)) ->
            [done EXCEPT !.status = "CLOSED"]

\* One target at this price: what may become of the position.
Target(cfg, pos, price, t) ==
  IF pos.status # "OPEN" \/ price < LadderPrice[t] THEN {pos}
  ELSE IF cfg.partial
       THEN IF t \in pos.booked THEN {pos}
            ELSE {Booked(cfg, pos, t, outcome) : outcome \in Outcomes}
       ELSE IF t \in pos.hit THEN {pos}
            ELSE LET up == Pulled(cfg, Hit(pos, t), t)
                 IN {IF t = 3 /\ cfg.fullExit THEN Exiting(up) ELSE up}

\* After the targets the GVK trend may see a reversal (_maybe_custom_reversal_exit),
\* even if the first or the second booking has just closed the position.
Reversed(cfg, two, three) ==
  IF cfg.reversal /\ (three.status = "OPEN" \/ two.status = "CLOSED")
  THEN {three, Exiting(three)} ELSE {three}

\* The stop of before this tick comes first.
LadderTick(cfg, pos, price) ==
  IF price <= Floor(cfg, pos) THEN {Exiting(pos)}
  ELSE UNION {UNION {UNION {Reversed(cfg, two, three) :
                              three \in Target(cfg, two, price, 3)} :
                       two \in Target(cfg, one, price, 2)} :
                one \in Target(cfg, pos, price, 1)}
-----------------------------------------------------------------------------
\* _on_tick_unsafe: what the position may become at a tick.
OnTick(cfg, pos, price) ==
  IF pos.status # "OPEN" THEN {pos}
  ELSE LET marked == [pos EXCEPT !.ltp = price]
       IN UNION {IF cfg.ladder
                 THEN LadderTick(cfg, p, price)
                 ELSE {ClassicTick(cfg, p, price)} :
                   p \in Pyramided(cfg, marked, price)}

\* The tick writes the row when a stop, a target or the status has changed.
MustPersist(cfg, old, new) ==
  \/ new.status # old.status \/ new.adds # old.adds
  \/ new.trail # old.trail \/ new.sl # old.sl
  \/ cfg.ladder /\ new.hit # {}
=============================================================================

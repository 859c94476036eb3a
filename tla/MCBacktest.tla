----------------------------- MODULE MCBacktest -----------------------------
(* A small instance of Backtest. *)
EXTENDS Backtest

\* A low one, a high one, one in between, a long one, one that closes at its high.
MCCandles ==
  {[open |-> o, low |-> l, high |-> h, close |-> c] :
     <<o, l, h, c>> \in {<<2, 0, 2, 0>>, <<4, 4, 8, 6>>, <<2, 0, 4, 3>>, <<0, 0, 8, 6>>,
                         <<4, 4, 6, 6>>}}
MCAtrs == {0, 2}
MCOffsets == {-2, 2, 4}
MCMultiple == <<1, 2, 3>>

Of(mode, set) ==
  [mode |-> mode, set |-> set, useTrail |-> TRUE, fullExit |-> TRUE, sides |-> Sides]
Sniper(stopped, volatile, mult, widen) ==
  Of("PRECISION_SNIPER",
     [stopped |-> stopped, volatile |-> volatile, mult |-> mult, widen |-> widen])
MCTests ==
  {Of("LIQUIDITY_SWEEP", [choch |-> choch]) : choch \in BOOLEAN} \cup
  {Of("PURE_LIQUIDITY_SWEEP", [choch |-> FALSE, wicks |-> TRUE, retests |-> TRUE]),
   Sniper(TRUE, "widen", 1, 2), Sniper(TRUE, "widen", 1, 0),
   Sniper(FALSE, "ignore", 0, 1), Sniper(TRUE, "ignore", -1, 1),
   [Sniper(FALSE, "skip", 1, 0) EXCEPT !.fullExit = FALSE],
   [Of("GMMA_OBV", [requireCross |-> FALSE]) EXCEPT !.useTrail = FALSE],
   [Of("GMMA_GOLD_CROSS", [regime |-> TRUE, requireObv |-> FALSE, shorts |-> TRUE])
      EXCEPT !.sides = {-1}],
   Of("GVK_TREND", [flipOnly |-> TRUE, reversal |-> TRUE, confirm |-> 3]),
   Of("GVK_TREND", [flipOnly |-> FALSE, reversal |-> TRUE, confirm |-> 1])}
=============================================================================

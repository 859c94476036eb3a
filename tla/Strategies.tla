----------------------------- MODULE Strategies -----------------------------
(***************************************************************************)
(* What the six strategies of custom_strategy.py say of the newest candle:  *)
(* whether to enter, on which side, and how far away the stop is. What they *)
(* compute from the candles before is a record of facts (which way an       *)
(* average has crossed, whether a score is high enough), and every          *)
(* combination that the computation allows is tried. A SELL mirrors a BUY:  *)
(* candles are turned in the direction of the trade.                        *)
(***************************************************************************)
EXTENDS Integers, FiniteSets

CONSTANTS
  StopMult, \* gmma_sl_mult, ggc_sl_mult, gvk_sl_mult: ATRs between price and stop
  Buffer,   \* *_sl_buffer_atr: ATRs between a swept wick and the stop
  Multiple, \* tp1_mult, tp2_mult, tp3_mult
  MinScore  \* gvk_min_score, of five checks

\* validate_*_config lets no other multiples pass. It does not look at the two
\* multiples of the sniper's stop, which are among its settings below.
ASSUME StrategyAssumption ==
  /\ StopMult \in Nat \ {0} /\ Buffer \in Nat
  /\ Multiple \in [1 .. 3 -> Nat \ {0}]
  /\ Multiple[1] < Multiple[2] /\ Multiple[2] < Multiple[3]
  /\ MinScore \in 0 .. 5

Sides == {1, -1} \* BUY, SELL
Turns == Sides \cup {0}

Greater(a, b) == IF a >= b THEN a ELSE b
Lesser(a, b) == IF a <= b THEN a ELSE b
Size(a) == IF a < 0 THEN -a ELSE a

\* A candle seen in the direction of a trade.
Facing(d, c) ==
  IF d = 1 THEN c
  ELSE [open |-> -c.open, high |-> -c.low, low |-> -c.high, close |-> -c.close]
-----------------------------------------------------------------------------
(* Precision sniper.                                                       *)

\* stopped: the stop is put behind the last swing; volatile: what a volatile
\* market does to a signal; mult: custom_sl_mult; widen: custom_vol_widen_factor,
\* two numbers that nothing validates.
SniperSettings ==
  [stopped : BOOLEAN, volatile : {"skip", "widen", "ignore"}, mult : Int, widen : Int]

\* The two multiples leave some distance between the price and the stop.
Distant(s) == s.mult > 0 /\ (s.volatile = "widen" => s.widen > 0)

\* The fast average crosses the slow one, the price is beyond both, the RSI is at
\* its end, the score and the grade suffice, the volatility is high.
SniperFacts ==
  [cross : Turns, price : Turns, stretched : BOOLEAN, scored : BOOLEAN,
   graded : BOOLEAN, high : BOOLEAN]

SniperSays(s, f, d) ==
  /\ ~(s.volatile = "skip" /\ f.high)
  /\ f.cross = d /\ f.price = d
  /\ ~f.stretched /\ f.scored /\ f.graded

\* swing: how far the last swing is behind the price, and a fifth of the ATR. A stop
\* behind it is brought within one and a half times the plain distance, whatever its
\* sign, and kept half an ATR away.
SniperDistance(s, f, atr, swing) ==
  LET wide  == s.volatile = "widen" /\ f.high
      plain == atr * s.mult * (IF wide THEN s.widen ELSE 1)
      most  == (3 * plain) \div 2
      deep  == Greater(plain, swing)
      near  == IF Size(deep) > most THEN most ELSE deep
  IN IF ~s.stopped THEN plain
     ELSE IF Size(near) < atr \div 2 THEN atr \div 2 ELSE near
-----------------------------------------------------------------------------
(* GMMA with OBV, and GMMA gold cross.                                     *)

GmmaSettings == [requireCross : BOOLEAN]

\* cross: the last short average crosses all long ones on this candle; ribbon: all
\* short averages are on one side of all long ones.
GmmaFacts ==
  {f \in [cross : Turns, ribbon : Turns, trend : Turns, obv : Turns, vwap : Turns,
          di : Turns, strong : BOOLEAN] : f.cross # 0 => f.ribbon = f.cross}

GmmaSays(s, f, d) ==
  /\ f.cross = d \/ (~s.requireCross /\ f.ribbon = d)
  /\ f.trend = d /\ f.obv = d /\ f.vwap = d
  /\ f.strong /\ f.di = d

GoldSettings == [regime : BOOLEAN, requireObv : BOOLEAN, shorts : BOOLEAN]

\* window: the crosses since the open or in the last half hour of the day before.
GoldFacts ==
  {f \in [cross : Turns, window : SUBSET Sides, ribbon : Turns, trend : Turns,
          obv : Turns] :
     f.cross # 0 => f.ribbon = f.cross /\ f.cross \in f.window}

GoldSays(s, f, d) ==
  /\ f.cross = d \/ d \in f.window \/ (s.regime /\ f.ribbon = d)
  /\ f.ribbon = d /\ f.trend = d
  /\ f.obv = d \/ ~s.requireObv
  /\ d = 1 \/ s.shorts

\* Both: without an ATR there is no risk to measure by, and no signal.
AtrDistance(atr) == atr * StopMult
-----------------------------------------------------------------------------
(* GVK trend: the side of its bands on which the price has closed.         *)

GvkSettings == [flipOnly : BOOLEAN, reversal : BOOLEAN, confirm : 1 .. 3]

\* The trend turns when this close, the last, and with a confirmation of three the
\* one before, are past the band (bands: newest first) and the mean moves that way.
Confirmed(s, bands, slope, d) ==
  /\ slope = d
  /\ \A k \in 1 .. Greater(s.confirm, 2) : bands[k] = d

TrendNext(s, trend, bands, slope) ==
  IF Confirmed(s, bands, slope, 1) THEN 1
  ELSE IF Confirmed(s, bands, slope, -1) THEN -1 ELSE trend

GvkScore(s, trend, bands, slope, d) ==
  LET new    == TrendNext(s, trend, bands, slope)
      checks == <<new = d /\ trend # d, Confirmed(s, bands, slope, d),
                  bands[1] = d, slope = d, new = d>>
  IN Cardinality({k \in 1 .. 5 : checks[k]})

GvkSays(s, trend, bands, slope, d) ==
  /\ TrendNext(s, trend, bands, slope) = d
  /\ IF s.flipOnly THEN trend # d
     ELSE GvkScore(s, trend, bands, slope, d) >= MinScore

\* behind: how far the other band is behind the price; it may be before it.
GvkDistance(atr, behind) ==
  LET deeper == Greater(behind, AtrDistance(atr))
  IN IF deeper <= 0 THEN AtrDistance(atr) ELSE deeper
-----------------------------------------------------------------------------
(* The liquidity sweeps.                                                   *)

LiquiditySettings == [choch : BOOLEAN]

PureSettings == [choch : BOOLEAN, wicks : BOOLEAN, retests : BOOLEAN]

\* The stop is behind the wick, which may be before the price by now.
SweepDistance(atr, close, wick) ==
  LET behind == close - wick + atr * Buffer
  IN IF behind = 0 THEN atr \div 2 ELSE behind
-----------------------------------------------------------------------------
\* StrategySignal, in the direction of the trade and relative to the price of the
\* signal; a distance below zero is a stop on the wrong side.
Signalled(d, price, distance) ==
  [side |-> d, at |-> price, stop |-> -distance, trail |-> -distance, hit |-> {},
   targets |-> [t \in 1 .. 3 |-> Size(distance) * Multiple[t]]]
=============================================================================

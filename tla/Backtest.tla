------------------------------ MODULE Backtest ------------------------------
(***************************************************************************)
(* A backtest (main.py, backtest.py): the warm-up is fetched, then candles  *)
(* are taken one by one; a strategy signals at a close, the trade opens at  *)
(* the next open and is closed by its stop, its targets, the end of the day, *)
(* a reversal or the end of the candles. LadderTick of StopRules is what the *)
(* live engine does with the same prices.                                    *)
(***************************************************************************)
EXTENDS SweepScan

CONSTANTS
  Candles,      \* what a candle may be, in prices
  Atrs,         \* what the ATR may be
  Offsets,      \* how far a swing or a band may be behind the price
  Tests,        \* the backtests: [mode, set, useTrail, fullExit, sides]
  Required,     \* candles that a strategy needs before it says anything
  FirstSpan,    \* required_calendar_days
  LastSpan,     \* max_warmup_days
  MaxTrades     \* bound: trades of one backtest

SweepModes == {"LIQUIDITY_SWEEP", "PURE_LIQUIDITY_SWEEP"}
Modes ==
  SweepModes \cup {"PRECISION_SNIPER", "GMMA_OBV", "GMMA_GOLD_CROSS", "GVK_TREND"}

SettingsOf(mode) ==
  CASE mode = "PRECISION_SNIPER"     -> SniperSettings
    [] mode = "GMMA_OBV"             -> GmmaSettings
    [] mode = "GMMA_GOLD_CROSS"      -> GoldSettings
    [] mode = "GVK_TREND"            -> GvkSettings
    [] mode = "LIQUIDITY_SWEEP"      -> LiquiditySettings
    [] mode = "PURE_LIQUIDITY_SWEEP" -> PureSettings

\* Half an ATR is not nothing: prices are not rounded that far.
ASSUME BacktestAssumption ==
  /\ Candles \subseteq [open : Int, low : Int, high : Int, close : Int]
  /\ \A c \in Candles : c.low <= c.close /\ c.close <= c.high
  /\ Atrs \subseteq Nat \ {1} /\ Offsets \subseteq Int
  /\ \A t \in Tests :
       /\ t.mode \in Modes /\ t.set \in SettingsOf(t.mode)
       /\ t.useTrail \in BOOLEAN /\ t.fullExit \in BOOLEAN /\ t.sides \subseteq Sides
  /\ Required \in Nat /\ Required >= 2 * MinorLen + ConfirmWindow + 5
  /\ FirstSpan \in Nat \ {0} /\ LastSpan \in Nat /\ MaxTrades \in Nat

\* Where a candle is in time: before from_dt, in the range, at to_dt, after it.
Times == <<"before", "in", "at", "after">>

VARIABLES
  test,    \* the request
  phase,   \* fetching, running or done
  days,    \* warmup_days
  seen,    \* candles so far, Required for more
  when,    \* the place of the newest candle in Times
  scan,    \* what the sweep scans keep of the history
  trend,   \* of the GVK ribbon: [now, bands], newest band first
  plan,    \* the signal of the last candle, to be entered at the next open
  trade,   \* open_trade
  entered, \* trades so far, and the one planned
  fired,   \* the sweep that fires on the newest candle
  result   \* exit_reason of the newest candle

backtestVars == <<test, phase, days, seen, when, scan, trend, plan, trade, entered, fired,
          result>>

NoTrend == [now |-> 0, bands |-> <<0, 0>>]

BacktestInit ==
  /\ test \in Tests
  /\ phase = "fetch" /\ days = FirstSpan
  /\ seen = 0 /\ when = 1 /\ scan = NoScan /\ trend = NoTrend
  /\ plan = {} /\ trade = {} /\ entered = 0 /\ fired = {} /\ result = "none"
-----------------------------------------------------------------------------
(* The warm-up.                                                            *)

history == <<seen, when, scan, trend, plan, trade, entered, fired, result>>

\* The broker returned too few candles before from_dt: ask for more days.
ExtendWarmup ==
  /\ phase = "fetch" /\ days < LastSpan
  /\ days' = Lesser(LastSpan, Greater(days + 7, days * 2))
  /\ UNCHANGED <<test, phase, history>>

\* Enough, or as many as can be had.
StartRun ==
  /\ phase = "fetch" /\ phase' = "run"
  /\ UNCHANGED <<test, days, history>>

\* Nothing was returned, or the request or the broker failed.
Refuse ==
  /\ phase = "fetch" /\ phase' = "done"
  /\ UNCHANGED <<test, days, history>>
-----------------------------------------------------------------------------
(* Signals.                                                                *)

Pure == test.mode = "PURE_LIQUIDITY_SWEEP"

\* More trades are beyond the bound: what they would read is not kept.
Wanted == entered < MaxTrades

\* Side and distance of the stop of what each of the other strategies may signal. An
\* average that crosses has moved, so that the ATR is not zero.
SniperSignals ==
  [s \in {t.set : t \in {u \in Tests : u.mode = "PRECISION_SNIPER"}} |->
     {<<x[1], SniperDistance(s, x[2], x[3], x[4])>> :
        x \in {y \in Sides \X SniperFacts \X Atrs \X Offsets :
                 SniperSays(s, y[2], y[1]) /\ y[3] > 0 /\ y[4] >= 0}}]

WithAtr(sides) ==
  {<<x[1], AtrDistance(x[2])>> : x \in {y \in sides \X Atrs : AtrDistance(y[2]) > 0}}

GmmaSignals ==
  [s \in GmmaSettings |->
     WithAtr({d \in Sides : \E f \in GmmaFacts : GmmaSays(s, f, d)})]

GoldSignals ==
  [s \in GoldSettings |->
     WithAtr({d \in Sides : \E f \in GoldFacts : GoldSays(s, f, d)})]

\* A price past its band has the other band behind it.
GvkSignals(bands, slope) ==
  {<<x[1], GvkDistance(x[2], x[3])>> :
     x \in {y \in Sides \X Atrs \X Offsets :
              /\ GvkSays(test.set, trend.now, bands, slope, y[1])
              /\ bands[1] = y[1] => y[3] > 0
              /\ GvkDistance(y[2], y[3]) > 0}}

\* What has fired on this candle; a candle that sweeps has moved, too.
SweepSignals(c) ==
  {<<x[1].side, SweepDistance(x[2], x[1].side * c.close, x[1].wick)>> :
     x \in fired' \X (Atrs \ {0})}

Signals(c, bands, slope) ==
  CASE test.mode = "PRECISION_SNIPER"  -> SniperSignals[test.set]
    [] test.mode = "GMMA_OBV"          -> GmmaSignals[test.set]
    [] test.mode = "GMMA_GOLD_CROSS"   -> GoldSignals[test.set]
    [] test.mode = "GVK_TREND"         -> GvkSignals(bands, slope)
    [] test.mode \in SweepModes        -> SweepSignals(c)

\* There may be no signal where facts are chosen, and where the filters by trend and
\* support zones stop a liquidity sweep; a pure sweep that has fired is one.
MaySayNothing(signals) == Pure => signals = {}
-----------------------------------------------------------------------------
(* The history grows by a candle.                                          *)

Arrivals(c) ==
  {Observed(scan, c)} \cup
    IF Pure THEN {Arrived(Observed(scan, c), x[1], x[2]) :
                    x \in {y \in Sides \X Offsets : y[2] <= Facing(y[1], c).low}}
    ELSE {}

\* The directions in which the candle may be a sweep with a sufficient score.
Findable(old, c) ==
  IF Pure THEN {d \in Sides : Events(test.set, old, c)[d] # "none"}
  ELSE {d \in Sides : MaySweep(d, c)}

Swept(old, found, c) ==
  LET searched == IF Pure THEN Searched(test.set, old, c) ELSE old
      kept     == Kept(Aged(searched), Pure, found, c)
      firing   == Firing(test.set, kept, Pure, found, c)
  IN fired' = firing /\ scan' = Fired(test.set, kept, firing)

ScanCandle(c) ==
  IF test.mode \notin SweepModes \/ ~Wanted
  THEN scan' = [NoScan EXCEPT !.recent = <<c>>] /\ fired' = {}
  ELSE \E old \in Arrivals(c) :
         IF seen + 1 < Required THEN scan' = old /\ fired' = {}
         ELSE \E found \in SUBSET Findable(old, c) : Swept(old, found, c)

Bands(band) == <<band>> \o trend.bands

TrendCandle(band, slope) ==
  trend' = IF test.mode # "GVK_TREND" THEN NoTrend
           ELSE [now   |-> TrendNext(test.set, trend.now, Bands(band), slope),
                 bands |-> <<band, trend.bands[1]>>]

BandTurns == IF test.mode = "GVK_TREND" THEN Turns ELSE {0}

History(c, place, band, slope) ==
  /\ seen' = Lesser(seen + 1, Required) /\ when' = place
  /\ ScanCandle(c) /\ TrendCandle(band, slope)
  /\ UNCHANGED <<test, phase, days>>
-----------------------------------------------------------------------------
(* The open trade.                                                         *)

\* A candle seen by a trade: in its direction, from the price of its signal.
Seen(t, c) ==
  LET f == Facing(t.side, c)
  IN [low |-> f.low - t.at, high |-> f.high - t.at]

\* Entered at the open of this candle.
Opened == trade \cup {[p EXCEPT !.hit = {}] : p \in plan}

Stopped(t, f) == f.low <= t.trail

Reaching(t, f) == {k \in 1 .. 3 : f.high >= t.targets[k]}

\* The trail after a target: the price of the signal, then the target before.
TrailAfter(t, k) == IF k = 1 THEN 0 ELSE t.targets[k - 1]

\* Mutant: of the targets reached by one candle the first one sets the trail.
FirstSets(t, f) ==
  LET new == Reaching(t, f) \ t.hit
  IN [t EXCEPT !.hit = @ \cup new,
               !.trail = IF new = {} \/ ~test.useTrail THEN @
                         ELSE TrailAfter(t, CHOOSE k \in new : \A j \in new : j >= k)]

Advanced(t, f) ==
  LET new == Reaching(t, f) \ t.hit
  IN [t EXCEPT !.hit = @ \cup new,
               !.trail = IF new = {} \/ ~test.useTrail THEN @
                         ELSE TrailAfter(t, CHOOSE k \in new : \A j \in new : j <= k)]

\* Mutant: the targets come before the stop.
TargetsFirst(t, f) ==
  IF 3 \in Reaching(t, f) \ t.hit /\ test.fullExit THEN "TP3"
  ELSE IF Stopped(t, f) THEN IF 1 \in t.hit THEN "TRAILING_STOP" ELSE "STOP_LOSS"
  ELSE "none"

\* The stop of before this candle comes first.
Exit(t, f) ==
  IF Stopped(t, f) THEN IF 1 \in t.hit THEN "TRAILING_STOP" ELSE "STOP_LOSS"
  ELSE IF 3 \in Reaching(t, f) \ t.hit /\ test.fullExit THEN "TP3"
  ELSE "none"

\* A GVK signal to the other side.
Reverses(t, band, slope) ==
  /\ test.mode = "GVK_TREND" /\ test.set.reversal
  /\ \E x \in GvkSignals(Bands(band), slope) : x[1] = -t.side

\* The reasons for which the trade may end on this candle.
Reasons(t, c, place, band, slope) ==
  LET exit == Exit(t, Seen(t, c))
  IN IF exit # "none" THEN {exit}
     ELSE IF place = 3 THEN {"EOD"}
     ELSE {"none"} \cup IF Reverses(t, band, slope) THEN {"STRATEGY_REVERSAL"} ELSE {}
-----------------------------------------------------------------------------
(* Candles.                                                                *)

\* Before from_dt.
WarmupCandle ==
  /\ phase = "run" /\ when = 1
  /\ \E c \in Candles, band \in BandTurns, slope \in BandTurns :
       History(c, 1, band, slope)
  /\ UNCHANGED <<plan, trade, entered>> /\ result' = "none"

Places == {p \in 2 .. 3 : p > when \/ (p = 2 /\ when = 2)}

\* With an open trade nothing is evaluated, not even after its exit.
TradeCandle ==
  /\ phase = "run" /\ Opened # {}
  /\ \E c \in Candles, place \in Places, band \in BandTurns, slope \in BandTurns :
       /\ History(c, place, band, slope)
       /\ \E t \in Opened : \E reason \in Reasons(t, c, place, band, slope) :
            /\ result' = reason
            /\ trade' = IF reason = "none" THEN {Advanced(t, Seen(t, c))} ELSE {}
  /\ plan' = {} /\ UNCHANGED entered

\* direction_filter stops a signal to the other side.
SignalCandle ==
  /\ phase = "run" /\ Opened = {}
  /\ \E c \in Candles, place \in Places, band \in BandTurns, slope \in BandTurns :
       /\ History(c, place, band, slope)
       /\ LET signals == IF seen + 1 < Required \/ ~Wanted THEN {}
                         ELSE Signals(c, Bands(band), slope)
          IN \/ MaySayNothing(signals) /\ plan' = {}
             \/ \E x \in signals :
                  plan' = IF x[1] \in test.sides
                          THEN {Signalled(x[1], x[1] * c.close, x[2])} ELSE {}
  /\ entered' = entered + Cardinality(plan')
  /\ result' = "none" /\ UNCHANGED trade

\* The candles end, or the next one is after to_dt: an open trade ends at the last
\* close, a signal that was to be entered next is dropped.
Finish ==
  /\ phase = "run" /\ phase' = "done"
  /\ trade' = {} /\ plan' = {}
  /\ result' = IF trade = {} THEN "none" ELSE "OPEN_END"
  /\ UNCHANGED <<test, days, seen, when, scan, trend, entered, fired>>

BacktestNext ==
  \/ ExtendWarmup \/ StartRun \/ Refuse
  \/ WarmupCandle \/ TradeCandle \/ SignalCandle \/ Finish

BacktestSpec == BacktestInit /\ [][BacktestNext]_backtestVars
-----------------------------------------------------------------------------
(* Properties.                                                             *)

\* The stop of a signal is on the losing side of its price, whatever the strategy, with
\* two exceptions. A sweep may have waited for more than two swings' time: by then a
\* new minor swing may lie wholly behind the wick the stop is at. And the multiples of
\* the sniper's stop, which nothing validates, may be zero or less.
StopProtects ==
  \A p \in plan :
    \/ p.stop < 0
    \/ \E q \in fired : test.set.choch /\ q.age >= Span + 2
    \/ test.mode = "PRECISION_SNIPER" /\ ~Distant(test.set)

\* The live ladder with these targets.
Live(targets) ==
  INSTANCE StopRules WITH
    Prices <- Offsets, StopDistance <- 1, TargetDistance <- 1, TrailDistance <- 1,
    CostDistance <- 1, AddStep <- 1, MaxAdds <- 0, LadderPrice <- targets

LiveSetting ==
  [ladder |-> TRUE, partial |-> FALSE, useTrail |-> test.useTrail,
   fullExit |-> test.fullExit, trailing |-> FALSE, stepwise |-> FALSE,
   cost |-> FALSE, reversal |-> FALSE]

LivePosition(t) ==
  [Live(t.targets)!AtEntry EXCEPT !.trail = t.trail, !.hit = t.hit]

\* The live position after a tick at the low of the candle and one at its high.
LiveAfter(t, f) ==
  UNION {Live(t.targets)!OnTick(LiveSetting, low, f.high) :
           low \in Live(t.targets)!OnTick(LiveSetting, LivePosition(t), f.low)}

\* A backtest does with a candle what the live engine does with its low and then its
\* high: it is stopped or takes the third target if and only if the engine does, and a
\* trade that goes on has the same trail and the same targets behind it.
BacktestMatchesLive ==
  [][phase' = "run" /\ phase = "run" =>
       \A t \in Opened : \A live \in LiveAfter(t, Seen(t, scan'.recent[1])) :
         /\ live.status = "EXITING" <=>
              result' \in {"STOP_LOSS", "TRAILING_STOP", "TP3"}
         /\ result' = "TP3" <=> live.status = "EXITING" /\ 3 \in live.hit \ t.hit
         /\ \A after \in trade' : after.trail = live.trail /\ after.hit = live.hit]_backtestVars

\* However many targets a candle reaches, the trail of a trade whose stop was on the
\* right side only moves towards the price, and is the target before the last one.
TrailTightens ==
  [][\A old \in trade, new \in trade' :
       old.stop < 0 =>
         /\ new.trail >= old.trail
         /\ test.useTrail => \A k \in new.hit \ {1} : new.trail >= new.targets[k - 1]]_backtestVars
=============================================================================

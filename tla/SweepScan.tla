------------------------------ MODULE SweepScan ------------------------------
(***************************************************************************)
(* The scan of the two liquidity sweeps over the candles (custom_strategy.py *)
(* ): a wick that takes out an old swing and closes back inside it waits for *)
(* a change of character, a close beyond the last minor swing, and then      *)
(* fires. The code scans the whole history for every candle; the history is  *)
(* the same, so this is one step per candle.                                 *)
(***************************************************************************)
EXTENDS Strategies, Sequences

CONSTANTS
  MinorLen,      \* *_minor_len: candles on each side of a minor swing
  ConfirmWindow, \* *_confirm_window: candles for which a sweep may wait
  MaxSwings      \* how many swings there may be inside *_lookback_bars

ASSUME ScanAssumption ==
  MinorLen \in Nat \ {0} /\ ConfirmWindow \in Nat \ {0} /\ MaxSwings \in Nat \ {0}

Span == 2 * MinorLen

\* No history. recent: the newest candle first; minor: the last minor swing against
\* each direction; swings: what a sweep in each direction may take out, each with its
\* place among those that have been seen, the newest one being the first.
NoScan ==
  [recent |-> <<>>, minor |-> [d \in Sides |-> {}], pending |-> {},
   swings |-> [d \in Sides |-> {}]]
-----------------------------------------------------------------------------
(* Minor swings.                                                           *)

\* Mutant: it is enough to be as high as the neighbours.
NarrowPivot(d, candles) ==
  LET high(k) == Facing(d, candles[k]).high
  IN IF /\ Len(candles) = Span + 1
        /\ high(MinorLen) <= high(MinorLen + 1)
     THEN {high(MinorLen + 1)} ELSE {}

\* A swing is as high as every candle within MinorLen of it, and so is only seen
\* MinorLen candles later.
Pivot(d, candles) ==
  LET high(k) == Facing(d, candles[k]).high
  IN IF /\ Len(candles) = Span + 1
        /\ \A k \in 1 .. Span + 1 : high(k) <= high(MinorLen + 1)
     THEN {high(MinorLen + 1)} ELSE {}

\* The candles that the next pivot may need.
Remembered(candles) ==
  IF Len(candles) > Span THEN SubSeq(candles, 1, Span) ELSE candles

Observed(scan, c) ==
  LET candles == <<c>> \o scan.recent
  IN [scan EXCEPT
        !.recent = Remembered(candles),
        !.minor  = [d \in Sides |->
                      IF Pivot(d, candles) = {} THEN @[d] ELSE Pivot(d, candles)]]
-----------------------------------------------------------------------------
(* Sweeps.                                                                 *)

\* Liquidity sweep: some swing is between the wick and the close.
MaySweep(d, c) == Facing(d, c).low < Facing(d, c).close

\* A new swing is no higher than the low of any candle that confirms it.
Arrived(scan, d, level) ==
  [scan EXCEPT !.swings[d] =
     {[level |-> level, broken |-> FALSE, place |-> 1]} \cup
     {[w EXCEPT !.place = @ + 1] : w \in {x \in @ : x.place < MaxSwings}}]

Passed(swing, f) == f.close < swing.level

Wick(s, swing, f) == s.wicks /\ f.low < swing.level /\ swing.level < f.close

\* A swing broken before is tested from the other side.
Retest(s, swing, f) ==
  s.retests /\ swing.broken /\ f.high > swing.level /\ swing.level > f.close

\* What a swing is to this candle: one that was passed is nothing else.
Kind(s, swing, f) ==
  IF Passed(swing, f) THEN "none"
  ELSE IF Wick(s, swing, f) THEN "wick"
  ELSE IF Retest(s, swing, f) THEN "retest" ELSE "none"

\* The newest swing that is swept or tested, if there is one.
First(s, swings, f) ==
  {w \in swings : /\ Kind(s, w, f) # "none"
                  /\ \A v \in swings : v.place < w.place => Kind(s, v, f) = "none"}

Event(s, swings, f, kind) == \E w \in First(s, swings, f) : Kind(s, w, f) = kind

\* Swings that were passed are broken, or used up if there are no retests; one that
\* had an event is used up, and the search ends with it.
AfterEvent(s, swings, f) ==
  LET first == First(s, swings, f)
      seen  == {w \in swings : \A v \in first : w.place < v.place}
  IN {w \in swings : \E v \in first : w.place > v.place} \cup
     {[w EXCEPT !.broken = @ \/ Passed(w, f)] :
        w \in {x \in seen : s.retests \/ ~Passed(x, f)}}

\* What the candle is in each direction. A wick against the lows is a sweep to the
\* other side; a retest goes with the break. The highs are looked at after the lows.
Events(s, scan, c) ==
  LET own(d, kind) == Event(s, scan.swings[d], Facing(d, c), kind)
  IN [d \in Sides |->
        IF d = 1 THEN IF own(-1, "retest") THEN "retest"
                      ELSE IF own(1, "wick") THEN "wick" ELSE "none"
        ELSE IF own(-1, "wick") THEN "wick"
             ELSE IF own(1, "retest") THEN "retest" ELSE "none"]

Searched(s, scan, c) ==
  [scan EXCEPT !.swings =
     [d \in Sides |-> AfterEvent(s, @[d], Facing(d, c))]]
-----------------------------------------------------------------------------
(* Waiting and firing.                                                     *)

Sweep(d, c) == [side |-> d, age |-> 0, wick |-> Facing(d, c).low]

\* The sweep that waits gets a candle older, and is forgotten after the window.
Aged(scan) ==
  [scan EXCEPT !.pending =
     {p \in {[q EXCEPT !.age = @ + 1] : q \in @} : p.age <= ConfirmWindow}]

\* Liquidity: a sweep down wins over one up. Pure: two are none.
Kept(scan, pure, found, c) ==
  IF pure /\ found = Sides THEN scan
  ELSE IF -1 \in found THEN [scan EXCEPT !.pending = {Sweep(-1, c)}]
  ELSE IF 1 \in found THEN [scan EXCEPT !.pending = {Sweep(1, c)}] ELSE scan

\* A close beyond the last minor swing.
Changed(scan, p, c) ==
  \E m \in scan.minor[p.side] : Facing(p.side, c).close > m

\* What fires on this candle. Without a change of character the sweep itself does;
\* then the order is the other one.
Firing(s, scan, pure, found, c) ==
  IF s.choch THEN {p \in scan.pending : Changed(scan, p, c)}
  ELSE IF pure /\ found = Sides THEN {}
  ELSE IF 1 \in found THEN {Sweep(1, c)}
  ELSE IF -1 \in found THEN {Sweep(-1, c)} ELSE {}

\* A sweep that fires waits no more. Without a change of character nothing reads what
\* waits.
Fired(s, scan, fire) ==
  [scan EXCEPT !.pending = IF s.choch THEN @ \ fire ELSE {}]
=============================================================================

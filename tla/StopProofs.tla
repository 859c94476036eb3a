------------------------------ MODULE StopProofs ------------------------------
(***************************************************************************)
(* What ends a trade and when.                                               *)
(*                                                                           *)
(* The tick path, for any prices, distances, ladders and settings: TickInv   *)
(* says where an open position's price is with respect to its stop, and what *)
(* the row has of it; no position is left open past its stop, and no step    *)
(* loosens a stop. WakeInv says why no wake-up of the delivery task is lost. *)
(*                                                                           *)
(* The backtest, for any candles, ATRs, settings and strategies: a signal    *)
(* has its stop on the losing side unless its sweep has waited for long      *)
(* (Waits says why it may then) or nothing has seen to the sniper's          *)
(* multiples, the trail only tightens, and a candle does to a trade what the *)
(* live engine does at its low and then at its high.                         *)
(***************************************************************************)
EXTENDS TickPath, Backtest, SequenceTheorems, FiniteSetTheorems, TLAPS

-----------------------------------------------------------------------------
(* The rules: what a tick makes of a position.                              *)

Position ==
  [status : {"OPEN", "EXITING", "CLOSED", "ERROR"}, ltp : Int, entry : Int, best : Int,
   sl : Int, trail : Int, adds : Nat, lastAdd : Int,
   hit : SUBSET (1 .. 3), booked : SUBSET (1 .. 3)]

\* The trail of a ladder is where the targets behind it allow it to be.
Behind(c, p) ==
  /\ 2 \notin p.hit => p.trail <= 0
  /\ c.partial \/ 3 \notin p.hit => p.trail <= LadderPrice[1]
  /\ p.trail <= LadderPrice[2]
  /\ ~c.partial => (2 \in p.hit => 1 \in p.hit) /\ (3 \in p.hit => 2 \in p.hit)

\* A position that is open is where no stop should have ended it.
Sound(c, p) ==
  /\ p \in Position
  /\ p.status = "OPEN" => Floor(c, p) < p.ltp
  /\ c.ladder => Behind(c, p)

\* The first target's booking was left open, and the second has been reached.
Late(c, p) == c.partial /\ 2 \in p.hit /\ 1 \notin p.booked

LEMMA TheLadder ==
  /\ LadderPrice[1] \in Nat \ {0} /\ LadderPrice[2] \in Nat \ {0}
  /\ LadderPrice[3] \in Nat \ {0}
  /\ LadderPrice[1] < LadderPrice[2] /\ LadderPrice[2] < LadderPrice[3]
BY PricesAssumption

\* A ladder's position between the targets of one tick.
Midway(c, p, price) ==
  /\ p \in Position /\ p.ltp = price /\ Behind(c, p)
  /\ p.status = "OPEN" => p.trail < price

\* A target that is reached pulls the trail up, and stays below the price.
LEMMA TargetKeeps ==
  ASSUME NEW c \in Setting, NEW price \in Int, NEW t \in 1 .. 3,
         NEW p, Midway(c, p, price), NEW q \in Target(c, p, price, t),
         p.status = "OPEN" /\ ~c.partial /\ t > 1 /\ price >= LadderPrice[t]
           => t - 1 \in p.hit
  PROVE  /\ Midway(c, q, price) /\ q.sl = p.sl /\ q.adds = p.adds
         /\ q.status = "OPEN" => p.status = "OPEN"
         /\ q.status = "OPEN" /\ ~c.partial /\ price >= LadderPrice[t] => t \in q.hit
         /\ t = 1 /\ ~(c.partial /\ 2 \in p.hit /\ 1 \notin p.booked) => q.trail >= p.trail
         /\ t # 1 => q.trail >= p.trail
<1> DEFINE Good(x) ==
             /\ Midway(c, x, price) /\ x.sl = p.sl /\ x.adds = p.adds
             /\ x.status = "OPEN" => p.status = "OPEN"
             /\ x.status = "OPEN" /\ ~c.partial /\ price >= LadderPrice[t] => t \in x.hit
             /\ t = 1 /\ ~(c.partial /\ 2 \in p.hit /\ 1 \notin p.booked) => x.trail >= p.trail
             /\ t # 1 => x.trail >= p.trail
<1>1. /\ p \in Position /\ p.ltp = price /\ Behind(c, p) /\ p.trail \in Int
      /\ p.status = "OPEN" => p.trail < price
  BY DEF Midway, Position
<1>2. CASE q = p /\ (p.status # "OPEN" \/ price < LadderPrice[t] \/ t \in p.hit \/ c.partial)
  <2>1. Good(p)
    <3>1. Midway(c, p, price) OBVIOUS
    <3>2. ~(price < LadderPrice[t]) \/ ~(price >= LadderPrice[t]) BY TheLadder
    <3>3. QED BY <1>1, <1>2, <3>1, <3>2
  <2>2. QED BY <1>2, <2>1
\* The target pulls the trail up.
<1>3. ASSUME NEW x, x \in {Pulled(c, Hit(p, t), t)} \cup
                          {Pulled(c, [Hit(p, t) EXCEPT !.booked = @ \cup {t}], t)},
             p.status = "OPEN", price >= LadderPrice[t],
             IF c.partial THEN t < 3 /\ t \notin p.booked ELSE t \notin p.hit
      PROVE  Good(x) /\ x.status = "OPEN"
  <2>1. /\ x \in Position /\ x.ltp = price /\ x.sl = p.sl /\ x.adds = p.adds
        /\ x.status = "OPEN" /\ x.hit = p.hit \cup {t}
        /\ x.trail = IF ~c.useTrail THEN p.trail
                     ELSE IF t = 1 THEN 0 ELSE LadderPrice[t - 1]
    <3>1. PICK y \in Position : /\ y = Hit(p, t) \/ y = [Hit(p, t) EXCEPT !.booked = @ \cup {t}]
                                /\ x = Pulled(c, y, t)
      BY <1>1, <1>3 DEF Position, Hit
    <3>2. /\ y.ltp = p.ltp /\ y.sl = p.sl /\ y.adds = p.adds /\ y.trail = p.trail
          /\ y.status = p.status /\ y.hit = p.hit \cup {t}
      BY <1>1, <3>1 DEF Position, Hit
    <3>3. CASE ~c.useTrail BY <1>1, <1>3, <3>1, <3>2, <3>3 DEF Pulled
    <3>4. CASE c.useTrail
      <4>1. PICK n \in Int : n = IF t = 1 THEN Signal ELSE LadderPrice[t - 1]
        BY TheLadder DEF Signal
      <4>2. x = [y EXCEPT !.trail = n] BY <3>1, <3>4, <4>1 DEF Pulled
      <4>3. QED BY <1>1, <1>3, <3>2, <3>4, <4>1, <4>2 DEF Position, Signal
    <3>5. QED BY <3>3, <3>4
  <2>2. x.trail < price /\ x.trail \in Int
    BY <1>1, <1>3, <2>1, TheLadder
  <2>3. Behind(c, x)
    <3>1. CASE t = 1 BY <1>1, <1>3, <2>1, <3>1, TheLadder DEF Behind
    <3>2. CASE t = 2 BY <1>1, <1>3, <2>1, <3>2, TheLadder DEF Behind
    <3>3. CASE t = 3 BY <1>1, <1>3, <2>1, <3>3, TheLadder DEF Behind
    <3>4. QED BY <3>1, <3>2, <3>3
  <2>4. /\ t = 1 /\ ~(c.partial /\ 2 \in p.hit /\ 1 \notin p.booked) => x.trail >= p.trail
        /\ t # 1 => x.trail >= p.trail
    <3>1. CASE t = 1 BY <1>1, <1>3, <2>1, <3>1, TheLadder DEF Behind
    <3>2. CASE t = 2 BY <1>1, <1>3, <2>1, <3>2, TheLadder DEF Behind
    <3>3. CASE t = 3 BY <1>1, <1>3, <2>1, <3>3, TheLadder DEF Behind
    <3>4. QED BY <3>1, <3>2, <3>3
  <2>5. Midway(c, x, price) BY <2>1, <2>2, <2>3 DEF Midway
  <2>6. QED BY <1>3, <2>1, <2>4, <2>5
\* A booking does not.
<1>4. ASSUME c.partial, NEW x \in Position, x.ltp = price, x.sl = p.sl, x.adds = p.adds,
             x.trail = p.trail, p.status = "OPEN", p.hit \subseteq x.hit
      PROVE  Good(x)
  <2>1. Behind(c, x) BY <1>1, <1>4, TheLadder DEF Behind
  <2>2. QED BY <1>1, <1>4, <2>1 DEF Midway
<1>5. CASE c.partial /\ p.status = "OPEN" /\ price >= LadderPrice[t] /\ t \notin p.booked
  <2>1. PICK outcome \in Outcomes : q = Booked(c, p, t, outcome)
    <3>1. ~(price < LadderPrice[t]) BY <1>5, TheLadder
    <3>2. QED BY <1>5, <3>1 DEF Target
  <2> DEFINE done == [Hit(p, t) EXCEPT !.booked = @ \cup {t}]
  <2>2. /\ Hit(p, t) \in Position /\ done \in Position
        /\ [p EXCEPT !.status = "ERROR"] \in Position
        /\ [done EXCEPT !.status = "CLOSED"] \in Position
    BY <1>1 DEF Hit, Position
  <2>3. CASE outcome = "busy" BY <1>2, <1>5, <2>1, <2>3 DEF Booked
  <2>4. CASE outcome = "fail"
    <3>1. q = [p EXCEPT !.status = "ERROR"] BY <2>1, <2>4 DEF Booked
    <3>2. QED BY <1>1, <1>4, <1>5, <2>2, <3>1 DEF Position
  <2>5. CASE outcome = "part"
    <3>1. CASE t = 3
      <4>1. q = Hit(p, t) BY <2>1, <2>5, <3>1 DEF Booked
      <4>2. QED BY <1>1, <1>4, <1>5, <2>2, <4>1 DEF Position, Hit
    <3>2. CASE t < 3
      <4>1. q = Pulled(c, Hit(p, t), t) BY <2>1, <2>5, <3>2 DEF Booked
      <4>2. QED BY <1>3, <1>5, <3>2, <4>1
    <3>3. QED BY <3>1, <3>2
  <2>6. CASE outcome = "full" /\ t < 3
    <3>1. q = Pulled(c, done, t) BY <2>1, <2>6 DEF Booked
    <3>2. QED BY <1>3, <1>5, <2>6, <3>1
  <2>7. CASE outcome = "all" \/ (outcome = "full" /\ t = 3)
    <3>1. q = [done EXCEPT !.status = "CLOSED"] BY <2>1, <2>7 DEF Booked
    <3>2. QED BY <1>1, <1>4, <1>5, <2>2, <3>1 DEF Position, Hit
  <2>8. QED BY <2>3, <2>4, <2>5, <2>6, <2>7 DEF Outcomes
<1>6. CASE ~c.partial /\ p.status = "OPEN" /\ price >= LadderPrice[t] /\ t \notin p.hit
  <2>1. PICK up : up = Pulled(c, Hit(p, t), t) OBVIOUS
  <2>2. q = IF t = 3 /\ c.fullExit THEN Exiting(up) ELSE up
    <3>1. ~(price < LadderPrice[t]) BY <1>6, TheLadder
    <3>2. QED BY <1>6, <2>1, <3>1 DEF Target
  <2>3. Good(up) /\ up.status = "OPEN" BY <1>3, <1>6, <2>1
  <2>4. Good(Exiting(up))
    <3>1. up \in Position BY <2>3 DEF Midway
    <3>2. /\ Exiting(up) \in Position /\ Exiting(up).status # "OPEN"
          /\ Exiting(up).ltp = up.ltp /\ Exiting(up).trail = up.trail
          /\ Exiting(up).sl = up.sl /\ Exiting(up).adds = up.adds
          /\ Exiting(up).hit = up.hit
      BY <3>1 DEF Exiting, Position
    <3>3. Behind(c, Exiting(up)) BY <2>3, <3>2 DEF Behind, Midway
    <3>4. Midway(c, Exiting(up), price) BY <2>3, <3>2, <3>3 DEF Midway
    <3>5. QED BY <2>3, <3>2, <3>4
  <2>5. QED BY <2>2, <2>3, <2>4
<1>7. ~(price >= LadderPrice[t]) => price < LadderPrice[t] BY TheLadder
<1>8. CASE p.status # "OPEN" \/ price < LadderPrice[t]
  <2>1. q = p BY <1>8 DEF Target
  <2>2. QED BY <1>2, <1>8, <2>1
<1>9. CASE c.partial /\ t \in p.booked /\ p.status = "OPEN" /\ ~(price < LadderPrice[t])
  <2>1. q = p BY <1>9 DEF Target
  <2>2. QED BY <1>2, <1>9, <2>1
<1>10. CASE ~c.partial /\ t \in p.hit /\ p.status = "OPEN" /\ ~(price < LadderPrice[t])
  <2>1. q = p BY <1>10 DEF Target
  <2>2. QED BY <1>2, <1>10, <2>1
<1>11. QED BY <1>5, <1>6, <1>7, <1>8, <1>9, <1>10

\* The three targets of one tick.
LEMMA LadderKeeps ==
  ASSUME NEW c \in Setting, c.ladder, NEW price \in Int,
         NEW p \in Position, p.status = "OPEN", p.ltp = price, Behind(c, p),
         NEW q \in LadderTick(c, p, price)
  PROVE  /\ Sound(c, q) /\ q.sl = p.sl /\ q.adds = p.adds
         /\ ~Late(c, p) => q.trail >= p.trail
<1>1. p.trail \in Int /\ Floor(c, p) = p.trail BY DEF Position, Floor
<1>2. CASE price <= p.trail
  <2>1. q = Exiting(p) BY <1>1, <1>2 DEF LadderTick
  <2>2. /\ q \in Position /\ q.status = "EXITING" /\ q.trail = p.trail /\ q.sl = p.sl
        /\ q.adds = p.adds /\ q.hit = p.hit
    BY <2>1 DEF Exiting, Position
  <2>3. Behind(c, q) BY <2>2 DEF Behind
  <2>4. QED BY <1>1, <2>2, <2>3 DEF Sound
<1>3. CASE ~(price <= p.trail)
  <2>1. PICK one \in Target(c, p, price, 1) :
          q \in UNION {UNION {Reversed(c, two, three) : three \in Target(c, two, price, 3)} :
                       two \in Target(c, one, price, 2)}
    BY <1>1, <1>3 DEF LadderTick
  <2>2. PICK two \in Target(c, one, price, 2) :
          q \in UNION {Reversed(c, two, three) : three \in Target(c, two, price, 3)}
    BY <2>1
  <2>3. PICK three \in Target(c, two, price, 3) : q \in Reversed(c, two, three)
    BY <2>2
  <2>4. Midway(c, p, price) BY <1>1, <1>3 DEF Midway
  <2>5. /\ Midway(c, one, price) /\ one.sl = p.sl /\ one.adds = p.adds
        /\ one.status = "OPEN" /\ ~c.partial /\ price >= LadderPrice[1] => 1 \in one.hit
        /\ ~Late(c, p) => one.trail >= p.trail
    BY <2>4, TargetKeeps DEF Late
  <2>6. one.status = "OPEN" /\ ~c.partial /\ price >= LadderPrice[2] => 1 \in one.hit
    BY <2>5, TheLadder
  <2>7. /\ Midway(c, two, price) /\ two.sl = one.sl /\ two.adds = one.adds
        /\ two.status = "OPEN" /\ ~c.partial /\ price >= LadderPrice[2] => 2 \in two.hit
        /\ two.trail >= one.trail
    <3>1. 2 \in 1 .. 3 /\ 2 # 1 /\ 2 - 1 = 1 OBVIOUS
    <3>2. QED BY <2>5, <2>6, <3>1, TargetKeeps
  <2>8. two.status = "OPEN" /\ ~c.partial /\ price >= LadderPrice[3] => 2 \in two.hit
    BY <2>7, TheLadder
  <2>9. Midway(c, three, price) /\ three.sl = two.sl /\ three.adds = two.adds
        /\ three.trail >= two.trail
    <3>1. 3 \in 1 .. 3 /\ 3 # 1 /\ 3 - 1 = 2 OBVIOUS
    <3>2. QED BY <2>7, <2>8, <3>1, TargetKeeps
  <2>10. Sound(c, three) BY <2>9 DEF Sound, Midway, Floor
  <2>11. three.sl = p.sl /\ three.adds = p.adds /\ (~Late(c, p) => three.trail >= p.trail)
    <3>1. /\ p.trail \in Int /\ one.trail \in Int /\ two.trail \in Int
          /\ three.trail \in Int
      BY <1>1, <2>5, <2>7, <2>9 DEF Midway, Position
    <3>2. QED BY <2>5, <2>7, <2>9, <3>1
  <2>12. q = three \/ q = Exiting(three) BY <2>3 DEF Reversed
  <2>13. CASE q = three BY <2>10, <2>11, <2>13
  <2>14. CASE q = Exiting(three)
    <3>1. three \in Position BY <2>9 DEF Midway
    <3>2. /\ q \in Position /\ q.status = "EXITING" /\ q.trail = three.trail
          /\ q.sl = three.sl /\ q.adds = three.adds /\ q.hit = three.hit
      BY <2>14, <3>1 DEF Exiting, Position
    <3>3. Behind(c, q) BY <2>9, <3>2 DEF Behind, Midway
    <3>4. Sound(c, q) BY <3>2, <3>3 DEF Sound
    <3>5. QED BY <2>11, <3>2, <3>4
  <2>15. QED BY <2>12, <2>13, <2>14
<1>4. QED BY <1>2, <1>3

LEMMA HigherIsHigher ==
  ASSUME NEW a \in Int, NEW b \in Int
  PROVE  Higher(a, b) \in Int /\ Higher(a, b) >= a /\ Higher(a, b) >= b
BY DEF Higher

\* The stops of the classic rules only go up, and end what is at or below them.
LEMMA ClassicKeeps ==
  ASSUME NEW c \in Setting, ~c.ladder, NEW price \in Int,
         NEW p \in Position, p.status = "OPEN", p.ltp = price
  PROVE  LET q == ClassicTick(c, p, price)
         IN Sound(c, q) /\ q.sl >= p.sl /\ q.trail >= p.trail /\ q.adds = p.adds
<1> DEFINE best == [p EXCEPT !.best = Higher(@, price)]
           cost == AtCost(c, best)
           after == Ratcheted(c, cost)
<1>1. p.best \in Int /\ p.entry \in Int /\ p.sl \in Int /\ p.trail \in Int BY DEF Position
<1>2. /\ best \in Position /\ best.status = "OPEN" /\ best.ltp = price
      /\ best.sl = p.sl /\ best.trail = p.trail /\ best.adds = p.adds
  <2>1. PICK h \in Int : h = Higher(p.best, price) BY <1>1, HigherIsHigher
  <2>2. best = [p EXCEPT !.best = h] BY <2>1
  <2> HIDE DEF best
  <2>3. QED BY <2>2 DEF Position
<1> HIDE DEF best
<1>3. /\ cost \in Position /\ cost.status = "OPEN" /\ cost.ltp = price
      /\ cost.sl >= p.sl /\ cost.trail = p.trail /\ cost.adds = p.adds
  <2>1. best.sl \in Int /\ best.entry \in Int BY <1>2 DEF Position
  <2>2. PICK h \in Int : h = Higher(best.sl, best.entry) /\ h >= best.sl
    BY <2>1, HigherIsHigher
  <2>3. cost = best \/ cost = [best EXCEPT !.sl = h] BY <2>2 DEF AtCost
  <2> HIDE DEF cost
  <2>4. CASE cost = best BY <1>1, <1>2, <2>4
  <2>5. CASE cost = [best EXCEPT !.sl = h] BY <1>1, <1>2, <2>2, <2>5 DEF Position
  <2>6. QED BY <2>3, <2>4, <2>5
<1> HIDE DEF cost
<1>4. /\ after \in Position /\ after.status = "OPEN" /\ after.ltp = price
      /\ after.sl = cost.sl /\ after.trail >= p.trail /\ after.adds = p.adds
  <2>1. cost.trail \in Int /\ cost.entry \in Int /\ cost.best \in Int
    BY <1>3 DEF Position
  <2>2. TrailLine(c, cost) \in Int
    <3>1. TrailDistance \in Nat \ {0} BY PricesAssumption
    <3>2. (cost.best - cost.entry) \div TrailDistance \in Int BY <2>1, <3>1
    <3>3. PICK g \in Int : g = Higher((cost.best - cost.entry) \div TrailDistance, 0)
      BY <3>2, HigherIsHigher
    <3>4. Steps(cost) = cost.entry + TrailDistance * g BY <3>3 DEF Steps
    <3>5. TrailDistance * g \in Int BY <3>1
    <3>6. Steps(cost) \in Int BY <2>1, <3>4, <3>5
    <3>7. Anchor(c, cost) \in Int BY <2>1, <3>6 DEF Anchor
    <3>8. QED BY <3>1, <3>7 DEF TrailLine
  <2>3. PICK h \in Int : h = Higher(cost.trail, TrailLine(c, cost)) /\ h >= cost.trail
    BY <2>1, <2>2, HigherIsHigher
  <2>4. after = cost \/ after = [cost EXCEPT !.trail = h] BY <2>3 DEF Ratcheted
  <2> HIDE DEF after
  <2>5. CASE after = cost BY <1>1, <1>3, <2>5
  <2>6. CASE after = [cost EXCEPT !.trail = h] BY <1>1, <1>3, <2>3, <2>6 DEF Position
  <2>7. QED BY <2>4, <2>5, <2>6
<1>5. ClassicTick(c, p, price) = IF Reached(after, price) THEN Exiting(after) ELSE after
  BY DEF ClassicTick, best, cost, after
<1> HIDE DEF after
<1>6. after.sl \in Int /\ after.trail \in Int BY <1>4 DEF Position
<1>7. CASE Reached(after, price)
  <2>1. PICK q : q = Exiting(after) OBVIOUS
  <2>2. /\ q \in Position /\ q.status = "EXITING" /\ q.sl = after.sl
        /\ q.trail = after.trail /\ q.adds = after.adds
    BY <1>4, <2>1 DEF Exiting, Position
  <2>3. Sound(c, q) BY <2>2 DEF Sound
  <2>4. QED BY <1>3, <1>4, <1>5, <1>7, <2>1, <2>2, <2>3
<1>8. CASE ~Reached(after, price)
  <2>1. after.sl < price /\ after.trail < price BY <1>6, <1>8 DEF Reached
  <2>2. Floor(c, after) < price BY <1>6, <2>1 DEF Floor, Higher
  <2>3. Sound(c, after) BY <1>4, <2>2 DEF Sound
  <2>4. QED BY <1>3, <1>4, <1>5, <1>8, <2>3
<1>9. QED BY <1>7, <1>8

\* One tick: a position stays sound, and its stops do not get looser but as LateTarget
\* and a pyramid add let them.
LEMMA TickRule ==
  ASSUME NEW c \in Setting, NEW price \in Prices, NEW p, Sound(c, p),
         NEW q \in OnTick(c, p, price)
  PROVE  /\ Sound(c, q)
         /\ p.status = "OPEN" /\ ~Late(c, p)
              => q.trail >= p.trail /\ (q.sl >= p.sl \/ q.adds > p.adds \/ c.ladder)
<1>1. p \in Position /\ price \in Int BY PricesAssumption DEF Sound
<1>2. CASE p.status # "OPEN"
  <2>1. q = p BY <1>2 DEF OnTick
  <2>2. QED BY <1>2, <2>1
<1>3. CASE p.status = "OPEN"
  <2> DEFINE marked == [p EXCEPT !.ltp = price]
  <2>1. /\ marked \in Position /\ marked.status = "OPEN" /\ marked.ltp = price
        /\ marked.sl = p.sl /\ marked.trail = p.trail
        /\ marked.adds = p.adds /\ marked.hit = p.hit /\ marked.booked = p.booked
    BY <1>1, <1>3 DEF Position
  <2>2. PICK x \in Pyramided(c, marked, price) :
          q \in IF c.ladder THEN LadderTick(c, x, price) ELSE {ClassicTick(c, x, price)}
    BY <1>3 DEF OnTick
  <2> HIDE DEF marked
  <2>3. /\ x \in Position /\ x.status = "OPEN" /\ x.ltp = price /\ x.trail = p.trail
        /\ x.hit = p.hit /\ x.booked = p.booked
        /\ (x.sl = p.sl /\ x.adds = p.adds) \/ x.adds = p.adds + 1
    <3>1. CASE x = marked BY <2>1, <3>1
    <3>2. CASE x # marked
      <4>1. PICK average \in {a \in marked.entry .. price : a > marked.entry} :
              x = Added(c, marked, price, average)
        BY <2>2, <3>2 DEF Pyramided
      <4>2. marked.entry \in Int /\ average \in Int /\ StopDistance \in Int
        BY <1>1, <2>1, <4>1, PricesAssumption DEF Position
      <4>3. PICK stop \in Int : stop = IF c.ladder THEN marked.sl ELSE average - StopDistance
        BY <2>1, <4>2 DEF Position
      <4>4. x = [marked EXCEPT !.entry = average, !.adds = @ + 1, !.lastAdd = price,
                               !.sl = stop]
        BY <4>1, <4>3 DEF Added
      <4>5. marked.adds \in Nat /\ marked.adds + 1 \in Nat BY <2>1 DEF Position
      <4>6. /\ x.status = marked.status /\ x.ltp = marked.ltp /\ x.trail = marked.trail
            /\ x.hit = marked.hit /\ x.booked = marked.booked /\ x.adds = marked.adds + 1
        BY <2>1, <4>4 DEF Position
      <4>7. x \in Position BY <1>1, <2>1, <4>2, <4>3, <4>4, <4>5 DEF Position
      <4>8. QED BY <2>1, <4>6, <4>7
    <3>3. QED BY <3>1, <3>2
  <2>4. p.adds \in Nat /\ p.sl \in Int /\ p.trail \in Int BY <1>1 DEF Position
  <2>5. CASE c.ladder
    <3>1. Behind(c, x) BY <2>3, <2>5 DEF Sound, Behind
    <3>2. q \in LadderTick(c, x, price) BY <2>2, <2>5
    <3>3. Sound(c, q) /\ (~Late(c, x) => q.trail >= x.trail)
      BY <1>1, <2>3, <2>5, <3>1, <3>2, LadderKeeps
    <3>4. Late(c, x) <=> Late(c, p) BY <2>3 DEF Late
    <3>5. QED BY <2>3, <2>5, <3>3, <3>4
  <2>6. CASE ~c.ladder
    <3>1. q = ClassicTick(c, x, price) BY <2>2, <2>6
    <3>2. Sound(c, q) /\ q.sl >= x.sl /\ q.trail >= x.trail /\ q.adds = x.adds
      BY <1>1, <2>3, <2>6, <3>1, ClassicKeeps
    <3>3. QED BY <2>3, <2>4, <3>2
  <2>7. QED BY <2>5, <2>6
<1>4. QED BY <1>2, <1>3
-----------------------------------------------------------------------------
(* The tick path.                                                           *)

\* The row has the stops of the position, and is one the program may go on with.
TickInv ==
  /\ cfg \in Setting
  /\ Sound(cfg, pos) /\ Sound(cfg, row)
  /\ row.status = pos.status /\ row.adds = pos.adds
  /\ row.trail = pos.trail /\ row.sl = pos.sl

LEMMA InitTick == Init => TickInv
<1> SUFFICES ASSUME Init PROVE TickInv OBVIOUS
<1>1. cfg \in Setting /\ pos = AtEntry /\ row = AtEntry
  BY TickAssumption DEF Init
<1>2. StopDistance \in Nat \ {0} BY PricesAssumption
<1>3. /\ AtEntry \in Position /\ AtEntry.sl < AtEntry.ltp /\ AtEntry.trail < AtEntry.ltp
      /\ AtEntry.trail <= 0 /\ AtEntry.hit = {}
  BY <1>2 DEF AtEntry, Position, Signal
<1>4. Floor(cfg, AtEntry) < AtEntry.ltp BY <1>3 DEF Floor, Higher
<1>5. AtEntry.trail \in Int BY <1>3 DEF Position
<1>6. Behind(cfg, AtEntry) BY <1>3, <1>5, TheLadder DEF Behind
<1>7. QED BY <1>1, <1>3, <1>4, <1>6 DEF TickInv, Sound

\* The stops of an open position after a step.
Tightened ==
  pos.status = "OPEN" /\ pos'.status = "OPEN" /\ ~LateTarget
    => /\ pos'.trail >= pos.trail
       /\ Floor(cfg, pos') >= Floor(cfg, pos) \/ pos'.adds > pos.adds

LEMMA FloorUp ==
  ASSUME NEW c, NEW p \in Position, NEW q \in Position,
         q.trail >= p.trail, q.sl >= p.sl \/ c.ladder
  PROVE  Floor(c, q) >= Floor(c, p)
<1>1. p.sl \in Int /\ p.trail \in Int /\ q.sl \in Int /\ q.trail \in Int BY DEF Position
<1>2. QED BY <1>1 DEF Floor, Higher

LEMMA TickStep ==
  ASSUME TickInv, [Next]_vars
  PROVE  TickInv' /\ Tightened
<1>1. /\ cfg \in Setting /\ Sound(cfg, pos) /\ Sound(cfg, row)
      /\ row.status = pos.status /\ row.adds = pos.adds
      /\ row.trail = pos.trail /\ row.sl = pos.sl
      /\ pos \in Position /\ row \in Position
  BY DEF TickInv, Sound
<1>2. /\ pos.trail \in Int /\ pos.sl \in Int /\ pos.adds \in Nat
      /\ row.trail \in Int /\ row.sl \in Int
  BY <1>1 DEF Position
<1>3. CASE UNCHANGED <<cfg, pos, row>>
  <2>1. TickInv'
    BY <1>1, <1>3 DEF TickInv, Sound, Behind, Floor, Higher
  <2>2. Floor(cfg, pos) \in Int BY <1>2 DEF Floor, Higher
  <2>3. QED BY <1>2, <1>3, <2>1, <2>2 DEF Tightened
<1>4. CASE Restart
  <2>1. cfg' = cfg /\ pos' = row /\ row' = row BY <1>4 DEF Restart
  <2>2. TickInv' BY <1>1, <2>1 DEF TickInv, Sound, Behind, Floor, Higher
  <2>3. Floor(cfg, row) = Floor(cfg, pos) BY <1>1 DEF Floor
  <2>4. Floor(cfg, pos) \in Int BY <1>2 DEF Floor, Higher
  <2>5. QED BY <1>1, <1>2, <2>1, <2>2, <2>3, <2>4 DEF Tightened
<1>5. CASE Handle
  <2>1. PICK price \in Prices : pos' \in OnTick(cfg, pos, price) BY <1>5 DEF Handle
  <2>2. /\ cfg' = cfg
        /\ row' \in IF MustPersist(cfg, pos, pos') \/ broker = "DHAN" THEN {pos'}
                    ELSE {row, pos'}
    BY <1>5 DEF Handle
  <2>3. PICK new : new = pos' OBVIOUS
  <2>4. /\ Sound(cfg, new)
        /\ pos.status = "OPEN" /\ ~Late(cfg, pos)
              => new.trail >= pos.trail /\ (new.sl >= pos.sl \/ new.adds > pos.adds \/ cfg.ladder)
    BY <1>1, <2>1, <2>3, TickRule
  <2>5. /\ Sound(cfg, row') /\ row'.status = new.status /\ row'.adds = new.adds
        /\ row'.trail = new.trail /\ row'.sl = new.sl
    <3>1. CASE row' = pos' BY <2>3, <2>4, <3>1
    <3>2. CASE row' = row /\ ~MustPersist(cfg, pos, pos')
      BY <1>1, <2>3, <3>2 DEF MustPersist
    <3>3. QED BY <2>2, <3>1, <3>2
  <2>6. TickInv'
    BY <1>1, <2>2, <2>3, <2>4, <2>5 DEF TickInv, Sound, Behind, Floor, Higher
  <2>7. ASSUME pos.status = "OPEN", ~LateTarget
        PROVE  new.trail >= pos.trail
               /\ (Floor(cfg, new) >= Floor(cfg, pos) \/ new.adds > pos.adds)
    <3>1. ~Late(cfg, pos) BY <2>7 DEF LateTarget, Late
    <3>2. new.trail >= pos.trail /\ (new.sl >= pos.sl \/ new.adds > pos.adds \/ cfg.ladder)
      BY <2>4, <2>7, <3>1
    <3>3. new \in Position BY <2>4 DEF Sound
    <3>4. QED BY <1>1, <3>2, <3>3, FloorUp
  <2>8. QED BY <2>3, <2>6, <2>7 DEF Tightened
<1>6. [Next]_vars => Handle \/ Restart \/ UNCHANGED <<cfg, pos, row>>
  BY DEF Next, vars, Submit, Deliver, SetReady, Delivery, Reconnect, Wake, HandleOverflow,
         OverflowFails, Take, SkipStale, positionVars
<1>7. QED BY <1>3, <1>4, <1>5, <1>6

\* Whatever ticks come, are dropped or skipped, and whenever the process restarts, memory
\* and row agree on the stops.
THEOREM TickInvariance == Spec => []TickInv
<1>1. TickInv /\ [Next]_vars => TickInv' BY TickStep
<1>2. QED BY InitTick, <1>1, PTL DEF Spec

\* After a tick, and after a restart, no position is left open at a price where its stop
\* should have ended it.
THEOREM StopsEndPositions == Spec => []StopBelowPrice
<1>1. TickInv => StopBelowPrice BY DEF TickInv, Sound, StopBelowPrice
<1>2. QED BY <1>1, TickInvariance, PTL

\* No tick, booking, pyramid add or restart loosens the stop of an open position, but a
\* first target that is booked late, and the stop loss at an add.
THEOREM StopsTighten == Spec => StopTightens
<1>1. TickInv /\ [Next]_vars => [Tightened]_pos BY TickStep
<1>2. [Tightened]_pos =>
        [pos.status = "OPEN" /\ pos'.status = "OPEN" /\ ~LateTarget
           => /\ pos'.trail >= pos.trail
              /\ Floor(cfg, pos') >= Floor(cfg, pos) \/ pos'.adds > pos.adds]_pos
  BY DEF Tightened
<1>3. QED BY <1>1, <1>2, TickInvariance, PTL DEF Spec, StopTightens
-----------------------------------------------------------------------------
(* The delivery task is never asleep with work to do: the safety half of the two  *)
(* liveness properties of TickPath.                                                *)

\* The task has been woken, or the loop is about to wake it.
Woken == ready \/ calls > 0

NoLostWakeUp ==
  /\ queue \in 0 .. Capacity
  /\ broker = "ZERODHA" => /\ waking => Woken
                           /\ pc = "wait" /\ queue > 0 => Woken

\* A dropped tick has blocked new entries, or the task is about to do that, but for a
\* handler that failed.
DropsAnnounced ==
  /\ dropped => reported
  /\ handled => kill
  /\ reported /\ ~handled => pc = "overflow" \/ Woken \/ failures > 0

WakeInv ==
  /\ calls \in Nat /\ failures \in Nat /\ broker \in Brokers /\ kill \in BOOLEAN
  /\ broker = "DHAN" => ~reported
  /\ NoLostWakeUp /\ DropsAnnounced

LEMMA InitWake == Init => WakeInv
<1>1. Init => calls \in Nat /\ failures \in Nat /\ broker \in Brokers
  BY DEF Init, FreshQueue
<1>2. Init => kill \in BOOLEAN BY DEF Init
<1>3. Init => NoLostWakeUp /\ DropsAnnounced /\ ~reported
  BY TickAssumption DEF Init, FreshQueue, NoLostWakeUp, DropsAnnounced, Woken
<1>4. QED BY <1>1, <1>2, <1>3 DEF WakeInv

LEMMA WakeStep == WakeInv /\ [Next]_vars => WakeInv'
<1> SUFFICES ASSUME WakeInv, [Next]_vars PROVE WakeInv'
  OBVIOUS
<1>1. /\ Capacity \in Nat \ {0} /\ broker \in {"ZERODHA", "DHAN"}
      /\ queue \in 0 .. Capacity /\ calls \in Nat /\ failures \in Nat
  BY TickAssumption DEF WakeInv, NoLostWakeUp
<1> USE <1>1 DEF WakeInv, NoLostWakeUp, DropsAnnounced, Woken, counters
<1>2. CASE Submit
  <2>1. waking' /\ Woken' BY <1>2 DEF Submit
  <2>2. QED BY <1>2, <2>1 DEF Submit, Full, Overflowed
<1>3. CASE Deliver BY <1>3 DEF Deliver, Full
<1>4. CASE SetReady BY <1>4 DEF SetReady
<1>5. CASE Wake BY <1>5 DEF Wake
<1>6. CASE HandleOverflow BY <1>6 DEF HandleOverflow
<1>7. CASE OverflowFails
  <2>1. kill' \in BOOLEAN /\ (kill => kill')
    <3>1. CASE kill' = kill BY <3>1
    <3>2. CASE kill' = TRUE BY <3>2
    <3>3. QED BY <1>7, <3>1, <3>2 DEF OverflowFails
  <2>2. QED BY <1>7, <2>1 DEF OverflowFails
<1>8. CASE Take BY <1>8 DEF Take
<1>9. CASE SkipStale BY <1>9 DEF SkipStale, Turn, AwakeAgain
<1>10. CASE Handle BY <1>10 DEF Handle, Turn, AwakeAgain
<1>11. CASE Reconnect \/ Restart BY <1>11 DEF Reconnect, Restart, NewQueue
<1>12. CASE UNCHANGED vars BY <1>12 DEF vars, deliveryVars
<1>13. QED
  BY <1>2, <1>3, <1>4, <1>5, <1>6, <1>7, <1>8, <1>9, <1>10, <1>11, <1>12
  DEF Next, Delivery

LEMMA WakeInvariance == Spec => []WakeInv
BY InitWake, WakeStep, PTL DEF Spec

\* A wake-up that coalesces with another is not lost: whenever the delivery task sleeps
\* with ticks in its queue, its event is set or the loop has yet to set it; and the queue
\* never holds more than its capacity.
THEOREM WakeUpsAreKept == Spec => []NoLostWakeUp
<1>1. WakeInv => NoLostWakeUp BY DEF WakeInv
<1>2. QED BY <1>1, WakeInvariance, PTL

\* A dropped tick has set the kill switch, or the delivery task is about to be woken to
\* set it, unless an earlier attempt failed.
THEOREM DropsAreAnnounced == Spec => []DropsAnnounced
<1>1. WakeInv => DropsAnnounced BY DEF WakeInv
<1>2. QED BY <1>1, WakeInvariance, PTL

-----------------------------------------------------------------------------
(* A backtest: trades.                                                      *)

\* A trade has its targets in order, all of them and its stop at its price if it has no
\* risk, and its trail where the last target reached has put it.
Traded(t) ==
  /\ t \in [side : Sides, at : Int, stop : Int, trail : Int, hit : SUBSET (1 .. 3),
            targets : [1 .. 3 -> Nat]]
  /\ \/ 0 < t.targets[1] /\ t.targets[1] < t.targets[2] /\ t.targets[2] < t.targets[3]
     \/ t.stop = 0 /\ t.targets[1] = 0 /\ t.targets[2] = 0 /\ t.targets[3] = 0
  /\ 2 \in t.hit => 1 \in t.hit
  /\ 3 \in t.hit => 2 \in t.hit
  /\ t.trail = IF ~test.useTrail \/ 1 \notin t.hit THEN t.stop
               ELSE IF 2 \notin t.hit THEN 0
               ELSE IF 3 \notin t.hit THEN t.targets[1] ELSE t.targets[2]

Trades ==
  /\ test \in Tests
  /\ trade = {} \/ plan = {}
  /\ when = 1 => trade = {} /\ plan = {}
  /\ \A a, b \in trade \cup plan : a = b
  /\ \A t \in trade \cup plan : Traded(t)
  /\ \A p \in plan : p.hit = {}

Waiting == [side : Sides, age : Nat, wick : Int]
Swing == [level : Int, broken : BOOLEAN, place : Nat]

\* A sweep that waits for a change of character is not past a minor swing, as long as the
\* candle that swept is among those the next minor swing may be of.
Waits(scn, q) ==
  /\ q.age < Span => /\ q.age + 1 <= Len(scn.recent)
                     /\ Facing(q.side, scn.recent[q.age + 1]).low = q.wick
  /\ q.age <= Span => \A m \in scn.minor[q.side] : q.wick <= m

Scanned ==
  /\ seen \in Nat
  /\ scan \in [recent : Seq(Candles), minor : [Sides -> SUBSET Int],
               pending : SUBSET Waiting, swings : [Sides -> SUBSET Swing]]
  /\ Len(scan.recent) <= Span
  /\ seen < Required => scan.pending = {}
  /\ test.mode \notin SweepModes => scan.pending = {}
  /\ scan.pending # {} => test.set.choch
  /\ \A q \in scan.pending : Waits(scan, q)

BacktestInv == Trades /\ Scanned /\ StopProtects

LEMMA TheTests ==
  ASSUME test \in Tests
  PROVE  /\ test.mode \in Modes /\ test.set \in SettingsOf(test.mode)
         /\ test.useTrail \in BOOLEAN /\ test.fullExit \in BOOLEAN
         /\ test.sides \subseteq Sides
BY BacktestAssumption

\* A candle seen in a direction is one.
LEMMA FacingCandle ==
  ASSUME NEW d \in Sides, NEW c \in Candles
  PROVE  /\ Facing(d, c).low \in Int /\ Facing(d, c).high \in Int
         /\ Facing(d, c).close \in Int
         /\ Facing(d, c).low <= Facing(d, c).close
         /\ Facing(d, c).close <= Facing(d, c).high
         /\ Facing(d, c).close = d * c.close
<1>1. /\ c \in [open : Int, low : Int, high : Int, close : Int]
      /\ c.low <= c.close /\ c.close <= c.high
  BY BacktestAssumption
<1>2. CASE d = 1 BY <1>1, <1>2 DEF Facing
<1>3. CASE d = -1
  <2>1. Facing(d, c) =
          [open |-> -c.open, high |-> -c.low, low |-> -c.high, close |-> -c.close]
    BY <1>3 DEF Facing
  <2>2. d * c.close = -c.close BY <1>1, <1>3
  <2>3. QED BY <1>1, <2>1, <2>2
<1>4. QED BY <1>2, <1>3 DEF Sides

LEMMA SeenCandle ==
  ASSUME NEW t, Traded(t), NEW c \in Candles
  PROVE  /\ Seen(t, c).low \in Int /\ Seen(t, c).high \in Int
         /\ Seen(t, c).low <= Seen(t, c).high
<1>1. t.side \in Sides /\ t.at \in Int BY DEF Traded
<1>2. PICK l \in Int, h \in Int :
        Facing(t.side, c).low = l /\ Facing(t.side, c).high = h /\ l <= h
  <2>1. /\ Facing(t.side, c).low \in Int /\ Facing(t.side, c).high \in Int
        /\ Facing(t.side, c).close \in Int
        /\ Facing(t.side, c).low <= Facing(t.side, c).close
        /\ Facing(t.side, c).close <= Facing(t.side, c).high
    BY <1>1, FacingCandle
  <2>2. QED BY <2>1
<1>3. Seen(t, c) = [low |-> l - t.at, high |-> h - t.at] BY <1>2 DEF Seen
<1>4. QED BY <1>1, <1>2, <1>3

LEMMA LastOf ==
  ASSUME NEW new \in SUBSET (1 .. 3), NEW k \in new, \A j \in new : j <= k
  PROVE  (CHOOSE x \in new : \A j \in new : j <= x) = k
<1>1. \A x \in new : (\A j \in new : j <= x) => x = k OBVIOUS
<1>2. QED BY <1>1

\* The targets that a candle reaches, and the trail that they leave.
LEMMA AdvancedTrade ==
  ASSUME test \in Tests, NEW t, Traded(t), NEW f, f.high \in Int
  PROVE  /\ Traded(Advanced(t, f)) /\ Advanced(t, f).hit = t.hit \cup Reaching(t, f)
         /\ Advanced(t, f).side = t.side /\ Advanced(t, f).targets = t.targets
         /\ Advanced(t, f).stop = t.stop
         /\ t.stop < 0 => Advanced(t, f).trail >= t.trail
<1> DEFINE new == Reaching(t, f) \ t.hit
           last == CHOOSE x \in new : \A j \in new : j <= x
           trail == IF new = {} \/ ~test.useTrail THEN t.trail ELSE TrailAfter(t, last)
<1>1. /\ t \in [side : Sides, at : Int, stop : Int, trail : Int, hit : SUBSET (1 .. 3),
                targets : [1 .. 3 -> Nat]]
      /\ \/ 0 < t.targets[1] /\ t.targets[1] < t.targets[2] /\ t.targets[2] < t.targets[3]
         \/ t.stop = 0 /\ t.targets[1] = 0 /\ t.targets[2] = 0 /\ t.targets[3] = 0
      /\ 2 \in t.hit => 1 \in t.hit
      /\ 3 \in t.hit => 2 \in t.hit
      /\ t.trail = IF ~test.useTrail \/ 1 \notin t.hit THEN t.stop
                   ELSE IF 2 \notin t.hit THEN 0
                   ELSE IF 3 \notin t.hit THEN t.targets[1] ELSE t.targets[2]
  BY DEF Traded
<1>2. /\ t.targets[1] \in Nat /\ t.targets[2] \in Nat /\ t.targets[3] \in Nat
      /\ t.trail \in Int /\ t.stop \in Int /\ t.hit \in SUBSET (1 .. 3)
  BY <1>1
<1>3. /\ Reaching(t, f) \in SUBSET (1 .. 3)
      /\ 2 \in Reaching(t, f) => 1 \in Reaching(t, f)
      /\ 3 \in Reaching(t, f) => 2 \in Reaching(t, f)
  BY <1>1, <1>2 DEF Reaching
<1>4. new \in SUBSET (1 .. 3) BY <1>3
<1>5. Advanced(t, f) = [t EXCEPT !.hit = t.hit \cup new, !.trail = trail]
  BY DEF Advanced
<1>6. t.hit \cup new = t.hit \cup Reaching(t, f) OBVIOUS
<1>7. test.useTrail \in BOOLEAN BY TheTests
<1>8. /\ trail \in Int
      /\ trail = IF ~test.useTrail \/ 1 \notin t.hit \cup new THEN t.stop
                 ELSE IF 2 \notin t.hit \cup new THEN 0
                 ELSE IF 3 \notin t.hit \cup new THEN t.targets[1] ELSE t.targets[2]
      /\ t.stop < 0 => trail >= t.trail
  <2>1. CASE new = {} \/ ~test.useTrail
    <3>1. trail = t.trail BY <2>1
    <3>2. ~test.useTrail \/ t.hit \cup new = t.hit BY <2>1
    <3>3. QED BY <1>1, <1>2, <3>1, <3>2
  <2>2. CASE new # {} /\ test.useTrail
    <3>1. trail = TrailAfter(t, last) BY <2>2
    <3>2. ASSUME NEW k \in new, \A j \in new : j <= k PROVE trail = TrailAfter(t, k)
      <4>1. last = k BY <1>4, <3>2, LastOf
      <4>2. QED BY <3>1, <4>1
    <3> HIDE DEF trail, last
    <3>3. CASE 3 \in new
      <4>1. \A j \in new : j <= 3 BY <1>4
      <4>2. trail = TrailAfter(t, 3) BY <3>2, <3>3, <4>1
      <4>3. QED BY <1>1, <1>2, <1>3, <2>2, <3>3, <4>2 DEF TrailAfter
    <3>4. CASE 3 \notin new /\ 2 \in new
      <4>1. \A j \in new : j <= 2 BY <1>4, <3>4
      <4>2. trail = TrailAfter(t, 2) BY <3>2, <3>4, <4>1
      <4>3. QED BY <1>1, <1>2, <1>3, <2>2, <3>4, <4>2 DEF TrailAfter
    <3>5. CASE 3 \notin new /\ 2 \notin new
      <4>1. \A j \in new : j = 1 BY <1>4, <3>5
      <4>2. 1 \in new BY <2>2, <4>1
      <4>3. \A j \in new : j <= 1 BY <4>1
      <4>4. trail = TrailAfter(t, 1) BY <3>2, <4>2, <4>3
      <4>5. QED BY <1>1, <1>2, <1>3, <2>2, <3>5, <4>2, <4>4 DEF TrailAfter
    <3>6. QED BY <3>3, <3>4, <3>5
  <2>3. QED BY <1>7, <2>1, <2>2
<1> HIDE DEF trail, last
<1>9. PICK hit \in SUBSET (1 .. 3) : hit = t.hit \cup new /\ hit = t.hit \cup Reaching(t, f)
  BY <1>2, <1>3
<1>10. /\ Advanced(t, f) \in [side : Sides, at : Int, stop : Int, trail : Int,
                 hit : SUBSET (1 .. 3), targets : [1 .. 3 -> Nat]]
       /\ Advanced(t, f).hit = hit /\ Advanced(t, f).trail = trail
       /\ Advanced(t, f).side = t.side /\ Advanced(t, f).targets = t.targets
       /\ Advanced(t, f).stop = t.stop
  BY <1>1, <1>5, <1>8, <1>9
<1>11. (2 \in hit => 1 \in hit) /\ (3 \in hit => 2 \in hit) BY <1>1, <1>3, <1>9
<1>12. Traded(Advanced(t, f)) BY <1>1, <1>8, <1>9, <1>10, <1>11 DEF Traded
<1>13. QED BY <1>8, <1>9, <1>10, <1>12

\* The targets of a signal that has a risk are in order.
LEMMA Product ==
  ASSUME NEW a \in Nat \ {0}, NEW b \in Nat \ {0}, NEW c \in Nat \ {0}, b < c
  PROVE  a * b \in Nat \ {0} /\ a * b < a * c
<1>1. PICK e \in Nat \ {0} : c = b + e
  <2>1. c - b \in Nat \ {0} OBVIOUS
  <2>2. QED BY <2>1
<1>2. a * c = a * b + a * e BY <1>1
<1>3. a * e \in Int /\ a * e > 0 OBVIOUS
<1>4. a * b \in Int /\ a * b > 0 OBVIOUS
<1>5. QED BY <1>2, <1>3, <1>4

LEMMA SignalledTrade ==
  ASSUME NEW d \in Sides, NEW price \in Int, NEW distance \in Int
  PROVE  /\ Traded(Signalled(d, price, distance)) /\ Signalled(d, price, distance).hit = {}
         /\ Signalled(d, price, distance).stop = -distance
<1>1. PICK risk \in Nat : risk = Size(distance) /\ (risk = 0 => distance = 0)
  <2>1. -distance \in Int /\ (distance < 0 => -distance \in Nat \ {0})
        /\ (~(distance < 0) => distance \in Nat)
    OBVIOUS
  <2>2. QED BY <2>1 DEF Size
<1>2. /\ Multiple[1] \in Nat \ {0} /\ Multiple[2] \in Nat \ {0} /\ Multiple[3] \in Nat \ {0}
      /\ Multiple[1] < Multiple[2] /\ Multiple[2] < Multiple[3]
  BY StrategyAssumption
<1>3. /\ risk * Multiple[1] \in Nat /\ risk * Multiple[2] \in Nat /\ risk * Multiple[3] \in Nat
      /\ \/ /\ 0 < risk * Multiple[1] /\ risk * Multiple[1] < risk * Multiple[2]
            /\ risk * Multiple[2] < risk * Multiple[3]
         \/ /\ distance = 0
            /\ risk * Multiple[1] = 0 /\ risk * Multiple[2] = 0 /\ risk * Multiple[3] = 0
  <2>1. CASE risk \in Nat \ {0}
    <3>1. risk * Multiple[1] \in Nat \ {0} /\ risk * Multiple[1] < risk * Multiple[2]
      BY <1>2, <2>1, Product
    <3>2. risk * Multiple[2] \in Nat \ {0} /\ risk * Multiple[2] < risk * Multiple[3]
      BY <1>2, <2>1, Product
    <3>3. Multiple[3] + 1 \in Nat \ {0} /\ Multiple[3] < Multiple[3] + 1 BY <1>2
    <3>4. risk * Multiple[3] \in Nat \ {0} BY <1>2, <2>1, <3>3, Product
    <3>5. QED BY <3>1, <3>2, <3>4
  <2>2. CASE risk = 0 BY <1>1, <1>2, <2>2
  <2>3. QED BY <2>1, <2>2
<1> DEFINE targets == [t \in 1 .. 3 |-> risk * Multiple[t]]
<1>4. /\ targets[1] = risk * Multiple[1] /\ targets[2] = risk * Multiple[2]
      /\ targets[3] = risk * Multiple[3]
  OBVIOUS
<1>5. targets \in [1 .. 3 -> Nat]
  <2>1. \A t \in 1 .. 3 : t = 1 \/ t = 2 \/ t = 3 OBVIOUS
  <2>2. QED BY <1>3, <2>1
<1>6. Signalled(d, price, distance) =
        [side |-> d, at |-> price, stop |-> -distance, trail |-> -distance, hit |-> {},
         targets |-> targets]
  BY <1>1 DEF Signalled
<1>7. \/ 0 < targets[1] /\ targets[1] < targets[2] /\ targets[2] < targets[3]
      \/ -distance = 0 /\ targets[1] = 0 /\ targets[2] = 0 /\ targets[3] = 0
  BY <1>3, <1>4
<1> HIDE DEF targets
<1>8. -distance \in Int OBVIOUS
<1>9. QED BY <1>5, <1>6, <1>7, <1>8 DEF Traded

\* What has fired on a candle is a sweep behind its close, or has waited for long.
Fires(c) ==
  \A q \in fired' :
    /\ q \in Waiting
    /\ \/ q.wick < q.side * c.close
       \/ test.set.choch /\ q.age >= Span + 2

LongWait == \E q \in fired' : test.set.choch /\ q.age >= Span + 2

\* Nothing has seen to it that the sniper's stop has a distance.
Unchecked == test.mode = "PRECISION_SNIPER" /\ ~Distant(test.set)

LEMMA Halves ==
  ASSUME NEW a \in Nat, a >= 2
  PROVE  a \div 2 \in Nat \ {0}
OBVIOUS

LEMMA Products ==
  ASSUME NEW a \in Nat, NEW b \in Nat
  PROVE  a * b \in Nat /\ (a > 0 /\ b > 0 => a * b > 0)
OBVIOUS

LEMMA TheAtrs == \A a \in Atrs : a \in Nat /\ (a > 0 => a >= 2)
BY BacktestAssumption

LEMMA AtrSignal ==
  ASSUME NEW sides \in SUBSET Sides, NEW x \in WithAtr(sides)
  PROVE  x[1] \in Sides /\ x[2] \in Int /\ x[2] > 0
<1>1. PICK y \in sides \X Atrs : x = <<y[1], AtrDistance(y[2])>> /\ AtrDistance(y[2]) > 0
  BY DEF WithAtr
<1>2. y[1] \in Sides /\ y[2] \in Nat BY <1>1, TheAtrs
<1>3. AtrDistance(y[2]) \in Nat BY <1>2, StrategyAssumption, Products DEF AtrDistance
<1>4. QED BY <1>1, <1>2, <1>3

LEMMA SniperSignal ==
  ASSUME test \in Tests, test.mode = "PRECISION_SNIPER", NEW x \in SniperSignals[test.set]
  PROVE  x[1] \in Sides /\ x[2] \in Int /\ (x[2] > 0 \/ ~Distant(test.set))
<1>1. PICK s \in SniperSettings : s = test.set BY TheTests DEF SettingsOf, Modes, SweepModes
<1>2. PICK y \in Sides \X SniperFacts \X Atrs \X Offsets :
        /\ x = <<y[1], SniperDistance(s, y[2], y[3], y[4])>>
        /\ y[3] > 0 /\ y[4] >= 0
  BY <1>1 DEF SniperSignals
<1>3. /\ y[1] \in Sides /\ y[3] \in Nat /\ y[3] >= 2 /\ y[4] \in Nat
      /\ s.mult \in Int /\ s.widen \in Int
  <2>1. y[1] \in Sides /\ y[3] \in Atrs /\ y[4] \in Offsets BY Zenon
  <2>2. y[3] \in Nat /\ y[3] >= 2 BY <1>2, <2>1, TheAtrs
  <2>3. y[4] \in Int BY <2>1, BacktestAssumption
  <2>4. y[4] \in Nat BY <1>2, <2>3
  <2>5. QED BY <2>1, <2>2, <2>4 DEF SniperSettings
<1> DEFINE widen == IF s.volatile = "widen" /\ y[2].high THEN s.widen ELSE 1
           plain == y[3] * s.mult * widen
           most  == (3 * plain) \div 2
           deep  == Greater(plain, y[4])
           near  == IF Size(deep) > most THEN most ELSE deep
<1>4. plain \in Int /\ (Distant(s) => plain > 0)
  <2>1. y[3] * s.mult \in Int /\ widen \in Int BY <1>3
  <2>2. Distant(s) => y[3] * s.mult \in Nat /\ y[3] * s.mult > 0
    BY <1>3, Products DEF Distant
  <2>3. Distant(s) => widen \in Nat /\ widen > 0 BY <1>3 DEF Distant
  <2> HIDE DEF widen
  <2>4. plain \in Int BY <2>1
  <2>5. Distant(s) => plain > 0 BY <2>2, <2>3, Products
  <2>6. QED BY <2>4, <2>5
<1>5. SniperDistance(s, y[2], y[3], y[4]) =
        IF ~s.stopped THEN plain
        ELSE IF Size(near) < y[3] \div 2 THEN y[3] \div 2 ELSE near
  BY DEF SniperDistance
<1> HIDE DEF plain, widen
<1>6. most \in Int /\ y[3] \div 2 \in Nat \ {0} /\ (Distant(s) => most > 0)
  <2>1. 3 * plain \in Int /\ (Distant(s) => 3 * plain \in Nat /\ 3 * plain >= 2) BY <1>4
  <2>2. QED BY <1>3, <2>1, Halves
<1> HIDE DEF most
<1>7. deep \in Int /\ (Distant(s) => deep > 0) BY <1>3, <1>4 DEF Greater
<1> HIDE DEF deep
<1>8. near \in Int /\ (Distant(s) => near > 0) BY <1>6, <1>7
<1> HIDE DEF near
<1>9. /\ SniperDistance(s, y[2], y[3], y[4]) \in Int
      /\ Distant(s) => SniperDistance(s, y[2], y[3], y[4]) > 0
  BY <1>4, <1>5, <1>6, <1>8
<1>10. QED BY <1>1, <1>2, <1>3, <1>9

LEMMA GvkSignal ==
  ASSUME NEW bands, NEW slope, NEW x \in GvkSignals(bands, slope)
  PROVE  x[1] \in Sides /\ x[2] \in Int /\ x[2] > 0
<1>1. PICK y \in Sides \X Atrs \X Offsets :
        x = <<y[1], GvkDistance(y[2], y[3])>> /\ GvkDistance(y[2], y[3]) > 0
  BY DEF GvkSignals
<1>2. y[1] \in Sides /\ y[2] \in Nat /\ y[3] \in Int
  BY <1>1, TheAtrs, BacktestAssumption
<1>3. AtrDistance(y[2]) \in Int BY <1>2, StrategyAssumption, Products DEF AtrDistance
<1>4. GvkDistance(y[2], y[3]) \in Int BY <1>2, <1>3 DEF GvkDistance, Greater
<1>5. QED BY <1>1, <1>2, <1>4

LEMMA SweepSignal ==
  ASSUME NEW c \in Candles, Fires(c), NEW x \in SweepSignals(c)
  PROVE  x[1] \in Sides /\ x[2] \in Int /\ (x[2] > 0 \/ LongWait)
<1>1. PICK y \in (fired' \X (Atrs \ {0})) :
          x = <<y[1].side, SweepDistance(y[2], y[1].side * c.close, y[1].wick)>>
  BY DEF SweepSignals
<1>2. PICK q \in fired', atr \in Nat :
        x = <<q.side, SweepDistance(atr, q.side * c.close, q.wick)>> /\ atr >= 2
  <2>1a. y[1] \in fired' /\ y[2] \in Atrs /\ y[2] # 0 OBVIOUS
  <2>1. y[2] \in Nat /\ y[2] >= 2 BY <2>1a, TheAtrs
  <2>2. QED BY <1>1, <2>1a, <2>1
<1>3. /\ q \in Waiting /\ q.side \in Sides /\ q.wick \in Int
      /\ q.wick < q.side * c.close \/ (test.set.choch /\ q.age >= Span + 2)
  BY DEF Fires, Waiting
<1>4. PICK close \in Int : close = q.side * c.close
  <2>1. Facing(q.side, c).close \in Int /\ Facing(q.side, c).close = q.side * c.close
    BY <1>3, FacingCandle
  <2>2. QED BY <2>1
<1>5. PICK buffer \in Nat : buffer = atr * Buffer
  BY Products, StrategyAssumption
<1>6. PICK half \in Nat \ {0} : half = atr \div 2 BY <1>2, Halves
<1>7. SweepDistance(atr, close, q.wick) =
        IF close - q.wick + buffer = 0 THEN half ELSE close - q.wick + buffer
  BY <1>5, <1>6 DEF SweepDistance
<1>8. /\ x[1] = q.side
      /\ x[2] = IF close - q.wick + buffer = 0 THEN half ELSE close - q.wick + buffer
  BY <1>2, <1>4, <1>7
<1>9. x[2] \in Int BY <1>3, <1>8
<1>10. q.wick < close => x[2] > 0 BY <1>3, <1>8
<1>11. q.wick < close \/ LongWait BY <1>3, <1>4 DEF LongWait
<1>12. QED BY <1>3, <1>8, <1>9, <1>10, <1>11

\* Whatever the strategy, the stop of a signal is on the losing side, unless its sweep has
\* waited for long or it is the sniper's and nothing has seen to its distance.
LEMMA SignalFacts ==
  ASSUME test \in Tests, NEW c \in Candles, Fires(c), NEW bands, NEW slope,
         NEW x \in Signals(c, bands, slope)
  PROVE  x[1] \in Sides /\ x[2] \in Int /\ (x[2] > 0 \/ LongWait \/ Unchecked)
<1>1. test.mode \in Modes /\ test.set \in SettingsOf(test.mode) BY TheTests
<1>2. ASSUME x[1] \in Sides, x[2] \in Int, x[2] > 0
      PROVE  x[1] \in Sides /\ x[2] \in Int /\ (x[2] > 0 \/ LongWait \/ Unchecked)
  BY <1>2
<1>3. CASE test.mode = "PRECISION_SNIPER"
  <2>1. x \in SniperSignals[test.set] BY <1>3 DEF Signals, SweepModes
  <2>2. QED BY <1>3, <2>1, SniperSignal DEF Unchecked
<1>4. CASE test.mode = "GMMA_OBV"
  <2>1. test.set \in GmmaSettings /\ x \in GmmaSignals[test.set]
    BY <1>1, <1>4 DEF SettingsOf, Signals, SweepModes
  <2>2. x \in WithAtr({d \in Sides : \E f \in GmmaFacts : GmmaSays(test.set, f, d)})
    BY <2>1 DEF GmmaSignals
  <2>3. x[1] \in Sides /\ x[2] \in Int /\ x[2] > 0 BY <2>2, AtrSignal
  <2>4. QED BY <1>2, <2>3
<1>5. CASE test.mode = "GMMA_GOLD_CROSS"
  <2>1. test.set \in GoldSettings /\ x \in GoldSignals[test.set]
    BY <1>1, <1>5 DEF SettingsOf, Signals, SweepModes
  <2>2. x \in WithAtr({d \in Sides : \E f \in GoldFacts : GoldSays(test.set, f, d)})
    BY <2>1 DEF GoldSignals
  <2>3. x[1] \in Sides /\ x[2] \in Int /\ x[2] > 0 BY <2>2, AtrSignal
  <2>4. QED BY <1>2, <2>3
<1>6. CASE test.mode = "GVK_TREND"
  <2>1. x \in GvkSignals(bands, slope) BY <1>6 DEF Signals, SweepModes
  <2>2. QED BY <1>2, <2>1, GvkSignal
<1>7. CASE test.mode \in SweepModes
  <2>1. x \in SweepSignals(c)
    <3>1. CASE test.mode = "LIQUIDITY_SWEEP" BY <3>1 DEF Signals, SweepModes
    <3>2. CASE test.mode = "PURE_LIQUIDITY_SWEEP" BY <3>2 DEF Signals, SweepModes
    <3>3. QED BY <1>7, <3>1, <3>2 DEF SweepModes
  <2>2. QED BY <2>1, SweepSignal
<1>8. QED BY <1>1, <1>3, <1>4, <1>5, <1>6, <1>7 DEF Modes

\* A candle more: what is remembered moves by one, and a minor swing that is new is as
\* high as that candle and all that are remembered.
LEMMA ObservedScan ==
  ASSUME Scanned, NEW c \in Candles
  PROVE  LET o == Observed(scan, c)
         IN /\ o \in [recent : Seq(Candles), minor : [Sides -> SUBSET Int],
                      pending : SUBSET Waiting, swings : [Sides -> SUBSET Swing]]
            /\ o.pending = scan.pending /\ o.swings = scan.swings
            /\ Len(o.recent) <= Span /\ Len(o.recent) >= 1 /\ o.recent[1] = c
            /\ \A k \in 1 .. Len(scan.recent) :
                 k < Span => k + 1 <= Len(o.recent) /\ o.recent[k + 1] = scan.recent[k]
            /\ \A d \in Sides : \A m \in o.minor[d] :
                 \/ m \in scan.minor[d]
                 \/ /\ Facing(d, c).high <= m
                    /\ \A k \in 1 .. Span :
                         k \in 1 .. Len(scan.recent) => Facing(d, scan.recent[k]).high <= m
<1> DEFINE candles == <<c>> \o scan.recent
           o == Observed(scan, c)
<1>1. /\ scan.recent \in Seq(Candles) /\ Len(scan.recent) <= Span
      /\ scan.minor \in [Sides -> SUBSET Int]
  BY DEF Scanned
<1>2. MinorLen \in Nat \ {0} /\ Span \in Nat /\ Span >= 2 /\ MinorLen + 1 \in 1 .. Span + 1
  BY ScanAssumption DEF Span
<1>3. PICK n \in Nat : n = Len(scan.recent) BY <1>1, LenProperties
<1>4. /\ candles \in Seq(Candles) /\ Len(candles) = n + 1
      /\ candles[1] = c /\ \A k \in 1 .. n : candles[k + 1] = scan.recent[k]
  <2>1. <<c>> \in Seq(Candles) /\ Len(<<c>>) = 1 /\ <<c>>[1] = c OBVIOUS
  <2>2. /\ candles \in Seq(Candles) /\ Len(candles) = 1 + n
        /\ \A i \in 1 .. 1 + n : candles[i] = IF i <= 1 THEN <<c>>[i] ELSE scan.recent[i - 1]
    BY <1>1, <1>3, <2>1, ConcatProperties
  <2> HIDE DEF candles
  <2>3. \A k \in 1 .. n : k + 1 \in 1 .. 1 + n /\ ~(k + 1 <= 1) /\ (k + 1) - 1 = k
    BY <1>3
  <2>4. 1 \in 1 .. 1 + n BY <1>3
  <2>5. QED BY <1>3, <2>1, <2>2, <2>3, <2>4
<1> HIDE DEF candles
<1>5. PICK rec : rec = Remembered(candles) OBVIOUS
<1>6. /\ rec \in Seq(Candles) /\ Len(rec) <= Span /\ Len(rec) >= 1 /\ rec[1] = c
      /\ \A k \in 1 .. n : k < Span => k + 1 <= Len(rec) /\ rec[k + 1] = scan.recent[k]
  <2>1. CASE n + 1 > Span
    <3>1. rec = SubSeq(candles, 1, Span) BY <1>4, <1>5, <2>1 DEF Remembered
    <3>2. \A i \in 1 .. Span : candles[i] \in Candles
      <4>1. \A i \in 1 .. Span : i \in 1 .. Len(candles) BY <1>2, <1>3, <1>4, <2>1
      <4>2. QED BY <1>4, <4>1, ElementOfSeq
    <3>3. /\ rec \in Seq(Candles)
          /\ Len(rec) = IF 1 <= Span THEN Span - 1 + 1 ELSE 0
          /\ \A i \in 1 .. Span - 1 + 1 : rec[i] = candles[1 + i - 1]
      BY <1>2, <3>1, <3>2, SubSeqProperties
    <3>4. Len(rec) = Span BY <1>2, <3>3
    <3>5. \A i \in 1 .. Span : rec[i] = candles[i] BY <1>2, <3>3
    <3>6. ASSUME NEW k \in 1 .. n, k < Span
          PROVE  k + 1 <= Len(rec) /\ rec[k + 1] = scan.recent[k]
      <4>1. k + 1 \in 1 .. Span BY <1>2, <1>3, <3>6
      <4>2. QED BY <1>4, <3>4, <3>5, <4>1
    <3>7. rec[1] = c BY <1>2, <1>4, <3>5
    <3>8. QED BY <1>2, <3>3, <3>4, <3>6, <3>7
  <2>2. CASE ~(n + 1 > Span)
    <3>1. rec = candles BY <1>4, <1>5, <2>2 DEF Remembered
    <3>2. QED BY <1>2, <1>3, <1>4, <2>2, <3>1
  <2>3. QED BY <2>1, <2>2
<1>7. PICK minor : minor = [d \in Sides |-> IF Pivot(d, candles) = {} THEN scan.minor[d]
                                            ELSE Pivot(d, candles)]
  OBVIOUS
<1>8. o = [scan EXCEPT !.recent = rec, !.minor = minor]
  BY <1>5, <1>7 DEF Observed, candles
<1>9. ASSUME NEW d \in Sides, NEW m \in minor[d]
      PROVE  /\ m \in Int
             /\ \/ m \in scan.minor[d]
                \/ /\ Facing(d, c).high <= m
                   /\ \A k \in 1 .. Span :
                        k \in 1 .. Len(scan.recent) => Facing(d, scan.recent[k]).high <= m
  <2>1. CASE Pivot(d, candles) = {} BY <1>1, <1>7, <1>9, <2>1
  <2>2. CASE Pivot(d, candles) # {}
    <3>1. m \in Pivot(d, candles) BY <1>7, <1>9, <2>2
    <3>2. /\ Len(candles) = Span + 1 /\ m = Facing(d, candles[MinorLen + 1]).high
          /\ \A k \in 1 .. Span + 1 : Facing(d, candles[k]).high <= m
      BY <3>1 DEF Pivot
    <3>3. candles[MinorLen + 1] \in Candles BY <1>2, <1>4, <3>2, ElementOfSeq
    <3>4. m \in Int BY <3>2, <3>3, FacingCandle
    <3>5. n = Span BY <1>2, <1>3, <1>4, <3>2
    <3>6. \A k \in 1 .. Span : k + 1 \in 1 .. Span + 1 /\ candles[k + 1] = scan.recent[k]
      BY <1>2, <1>4, <3>5
    <3>7. 1 \in 1 .. Span + 1 /\ candles[1] = c BY <1>2, <1>4
    <3>8. QED BY <3>2, <3>4, <3>6, <3>7
  <2>3. QED BY <2>1, <2>2
<1>10. minor \in [Sides -> SUBSET Int]
  <2>1. \A d \in Sides : minor[d] \in SUBSET Int BY <1>9
  <2>2. QED BY <1>7, <2>1
<1>11. /\ o \in [recent : Seq(Candles), minor : [Sides -> SUBSET Int],
                 pending : SUBSET Waiting, swings : [Sides -> SUBSET Swing]]
       /\ o.pending = scan.pending /\ o.swings = scan.swings
       /\ o.recent = rec /\ o.minor = minor
  BY <1>6, <1>8, <1>10 DEF Scanned
<1> HIDE DEF o
<1>12. QED BY <1>3, <1>6, <1>9, <1>11 DEF o

\* The swings stay swings.
LEMMA ArrivedScan ==
  ASSUME Scanned, NEW c \in Candles, NEW old \in Arrivals(c)
  PROVE  LET o == Observed(scan, c)
         IN /\ old.recent = o.recent /\ old.minor = o.minor /\ old.pending = o.pending
            /\ old \in [recent : Seq(Candles), minor : [Sides -> SUBSET Int],
                        pending : SUBSET Waiting, swings : [Sides -> SUBSET Swing]]
<1>1. PICK o : /\ o = Observed(scan, c)
               /\ o \in [recent : Seq(Candles), minor : [Sides -> SUBSET Int],
                         pending : SUBSET Waiting, swings : [Sides -> SUBSET Swing]]
  BY ObservedScan
<1>2. CASE old = o BY <1>1, <1>2
<1>3. CASE \E d \in Sides, level \in Int : old = Arrived(o, d, level)
  <2>1. PICK d \in Sides, level \in Int : old = Arrived(o, d, level) BY <1>3
  <2> DEFINE new == {[level |-> level, broken |-> FALSE, place |-> 1]}
             moved == {[w EXCEPT !.place = @ + 1] :
                         w \in {x \in o.swings[d] : x.place < MaxSwings}}
  <2>2. new \cup moved \in SUBSET Swing
    <3>1. o.swings[d] \in SUBSET Swing BY <1>1
    <3>2. \A w \in Swing : [w EXCEPT !.place = @ + 1] \in Swing BY DEF Swing
    <3>3. moved \in SUBSET Swing BY <3>1, <3>2
    <3>4. new \in SUBSET Swing BY DEF Swing
    <3>5. QED BY <3>3, <3>4
  <2>3. old = [o EXCEPT !.swings[d] = new \cup moved] BY <2>1 DEF Arrived
  <2> HIDE DEF new, moved
  <2>4. QED BY <1>1, <2>2, <2>3
<1>4. old = o \/ \E d \in Sides, level \in Int : old = Arrived(o, d, level)
  <2>1. old = o \/ \E y \in Sides \X Offsets : old = Arrived(o, y[1], y[2])
    BY <1>1 DEF Arrivals
  <2>2. ASSUME NEW y \in Sides \X Offsets, old = Arrived(o, y[1], y[2])
        PROVE  \E d \in Sides, level \in Int : old = Arrived(o, d, level)
    <3>1. y[1] \in Sides /\ y[2] \in Offsets OBVIOUS
    <3>2. y[2] \in Int BY <3>1, BacktestAssumption
    <3>3. QED BY <2>2, <3>1, <3>2
  <2>3. QED BY <2>1, <2>2
<1>5. QED BY <1>2, <1>3, <1>4

LEMMA SearchedScan ==
  ASSUME NEW s, NEW c \in Candles,
         NEW old \in [recent : Seq(Candles), minor : [Sides -> SUBSET Int],
                      pending : SUBSET Waiting, swings : [Sides -> SUBSET Swing]]
  PROVE  /\ Searched(s, old, c) \in [recent : Seq(Candles), minor : [Sides -> SUBSET Int],
                      pending : SUBSET Waiting, swings : [Sides -> SUBSET Swing]]
         /\ Searched(s, old, c).recent = old.recent
         /\ Searched(s, old, c).minor = old.minor
         /\ Searched(s, old, c).pending = old.pending
<1>1. ASSUME NEW f, NEW swings \in SUBSET Swing
      PROVE  AfterEvent(s, swings, f) \in SUBSET Swing
  <2>1. \A w \in Swing : [w EXCEPT !.broken = @ \/ Passed(w, f)] \in Swing
    <3>1. ASSUME NEW w \in Swing PROVE [w EXCEPT !.broken = @ \/ Passed(w, f)] \in Swing
      <4>1. PICK b \in BOOLEAN : b = (w.broken \/ Passed(w, f)) OBVIOUS
      <4>2. [w EXCEPT !.broken = b] \in Swing BY DEF Swing
      <4>3. QED BY <4>1, <4>2
    <3>2. QED BY <3>1
  <2>2. QED BY <2>1 DEF AfterEvent
<1>2. PICK after : after = [d \in Sides |-> AfterEvent(s, old.swings[d], Facing(d, c))]
  OBVIOUS
<1>3. after \in [Sides -> SUBSET Swing] BY <1>1, <1>2
<1>4. Searched(s, old, c) = [old EXCEPT !.swings = after] BY <1>2 DEF Searched
<1>5. QED BY <1>3, <1>4

\* A candle that sweeps closes on the other side of its wick.
LEMMA FoundSweeps ==
  ASSUME NEW c \in Candles,
         NEW old \in [recent : Seq(Candles), minor : [Sides -> SUBSET Int],
                      pending : SUBSET Waiting, swings : [Sides -> SUBSET Swing]],
         NEW d \in Findable(old, c)
  PROVE  d \in Sides /\ Facing(d, c).low < Facing(d, c).close
<1>1. d \in Sides BY DEF Findable
<1>2. ASSUME NEW e \in Sides, NEW s
      PROVE  /\ Event(s, old.swings[e], Facing(e, c), "wick")
                  => Facing(e, c).low < Facing(e, c).close
             /\ Event(s, old.swings[e], Facing(e, c), "retest")
                  => Facing(e, c).close < Facing(e, c).high
  <2> DEFINE f == Facing(e, c)
  <2>1. f.low \in Int /\ f.close \in Int /\ f.high \in Int BY FacingCandle
  <2>2. ASSUME NEW kind \in {"wick", "retest"}, Event(s, old.swings[e], f, kind)
        PROVE  \E level \in Int : IF kind = "wick" THEN f.low < level /\ level < f.close
                                  ELSE f.high > level /\ level > f.close
    <3>1. PICK w \in old.swings[e] : Kind(s, w, f) = kind
      BY <2>2 DEF Event, First
    <3>2. w.level \in Int BY <3>1 DEF Swing
    <3>3. CASE kind = "wick"
      <4>1. Wick(s, w, f) BY <3>1, <3>3 DEF Kind
      <4>2. QED BY <3>2, <3>3, <4>1 DEF Wick
    <3>4. CASE kind = "retest"
      <4>1. Retest(s, w, f) BY <3>1, <3>4 DEF Kind
      <4>2. QED BY <3>2, <3>4, <4>1 DEF Retest
    <3>5. QED BY <3>3, <3>4
  <2> HIDE DEF f
  <2>3. Event(s, old.swings[e], f, "wick") => f.low < f.close BY <2>1, <2>2
  <2>4. Event(s, old.swings[e], f, "retest") => f.close < f.high BY <2>1, <2>2
  <2>5. QED BY <2>3, <2>4 DEF f
<1>3. /\ c.low \in Int /\ c.high \in Int /\ c.close \in Int
      /\ Facing(1, c) = c /\ 1 \in Sides /\ -1 \in Sides
      /\ Facing(-1, c).low = -c.high /\ Facing(-1, c).high = -c.low
      /\ Facing(-1, c).close = -c.close
  BY BacktestAssumption DEF Facing, Sides
<1>4. CASE ~Pure BY <1>1, <1>4 DEF Findable, MaySweep
<1>5. CASE Pure
  <2> DEFINE own(e, kind) == Event(test.set, old.swings[e], Facing(e, c), kind)
  <2>1. Events(test.set, old, c)[d] # "none" BY <1>5 DEF Findable
  <2>2. CASE d = 1
    <3>1. own(-1, "retest") \/ own(1, "wick") BY <1>1, <2>1, <2>2 DEF Events
    <3>2. own(-1, "retest") => -c.close < -c.low BY <1>2, <1>3
    <3>3. own(1, "wick") => c.low < c.close BY <1>2, <1>3
    <3>4. QED BY <1>1, <1>3, <2>2, <3>1, <3>2, <3>3
  <2>3. CASE d = -1
    <3>1. own(-1, "wick") \/ own(1, "retest") BY <1>1, <2>1, <2>3 DEF Events
    <3>2. own(-1, "wick") => -c.high < -c.close BY <1>2, <1>3
    <3>3. own(1, "retest") => c.close < c.high BY <1>2, <1>3
    <3>4. QED BY <1>1, <1>3, <2>3, <3>1, <3>2, <3>3
  <2>4. QED BY <1>1, <2>2, <2>3 DEF Sides
<1>6. QED BY <1>4, <1>5

\* A candle of the scan: what waits is not past a minor swing while it could fire early,
\* and what fires is behind the close or has waited for long.
LEMMA ScanStep ==
  ASSUME Trades, Scanned, NEW c \in Candles, ScanCandle(c),
         test' = test, seen' = Lesser(seen + 1, Required)
  PROVE  Scanned' /\ Fires(c) /\ scan'.recent[1] = c
<1>1. /\ MinorLen \in Nat \ {0} /\ Span \in Nat /\ Span >= 2 /\ Required \in Nat
      /\ seen \in Nat /\ seen' \in Nat /\ (seen' < Required => seen + 1 < Required)
  BY ScanAssumption, BacktestAssumption DEF Span, Lesser, Scanned
<1>2. CASE test.mode \notin SweepModes \/ ~Wanted
  <2>1. scan' = [NoScan EXCEPT !.recent = <<c>>] /\ fired' = {}
    BY <1>2 DEF ScanCandle
  <2>2. <<c>> \in Seq(Candles) /\ Len(<<c>>) = 1 /\ <<c>>[1] = c OBVIOUS
  <2>3. /\ scan' \in [recent : Seq(Candles), minor : [Sides -> SUBSET Int],
                      pending : SUBSET Waiting, swings : [Sides -> SUBSET Swing]]
        /\ scan'.recent = <<c>> /\ scan'.pending = {}
    BY <2>1, <2>2 DEF NoScan
  <2>4. Len(scan'.recent) <= Span BY <1>1, <2>2, <2>3
  <2>5. Scanned' BY <1>1, <2>3, <2>4 DEF Scanned
  <2>6. QED BY <2>1, <2>2, <2>3, <2>5 DEF Fires
<1>3. CASE ~(test.mode \notin SweepModes \/ ~Wanted)
  <2>1. PICK old \in Arrivals(c) :
          IF seen + 1 < Required THEN scan' = old /\ fired' = {}
          ELSE \E found \in SUBSET Findable(old, c) : Swept(old, found, c)
    BY <1>3 DEF ScanCandle
  <2>2. /\ old \in [recent : Seq(Candles), minor : [Sides -> SUBSET Int],
                    pending : SUBSET Waiting, swings : [Sides -> SUBSET Swing]]
        /\ old.recent = Observed(scan, c).recent /\ old.minor = Observed(scan, c).minor
        /\ old.pending = Observed(scan, c).pending
    BY ArrivedScan
  <2>3. /\ old.pending = scan.pending
        /\ Len(old.recent) <= Span /\ Len(old.recent) >= 1 /\ old.recent[1] = c
        /\ \A k \in 1 .. Len(scan.recent) :
             k < Span => k + 1 <= Len(old.recent) /\ old.recent[k + 1] = scan.recent[k]
        /\ \A d \in Sides : \A m \in old.minor[d] :
             \/ m \in scan.minor[d]
             \/ /\ Facing(d, c).high <= m
                /\ \A k \in 1 .. Span :
                     k \in 1 .. Len(scan.recent) => Facing(d, scan.recent[k]).high <= m
    <3>1. PICK recent, minor : /\ recent = Observed(scan, c).recent
                               /\ minor = Observed(scan, c).minor
      OBVIOUS
    <3>2. /\ Observed(scan, c).pending = scan.pending
          /\ Len(recent) <= Span /\ Len(recent) >= 1 /\ recent[1] = c
      BY <3>1, ObservedScan
    <3>3. \A k \in 1 .. Len(scan.recent) :
            k < Span => k + 1 <= Len(recent) /\ recent[k + 1] = scan.recent[k]
      BY <3>1, ObservedScan
    <3>4. \A d \in Sides : \A m \in minor[d] :
            \/ m \in scan.minor[d]
            \/ /\ Facing(d, c).high <= m
               /\ \A k \in 1 .. Span :
                    k \in 1 .. Len(scan.recent) => Facing(d, scan.recent[k]).high <= m
      BY <3>1, ObservedScan
    <3>5. old.recent = recent /\ old.minor = minor /\ old.pending = scan.pending
      BY <2>2, <3>1, <3>2
    <3>6. QED BY <3>2, <3>3, <3>4, <3>5
  <2>4. CASE seen + 1 < Required
    <3>1. scan' = old /\ fired' = {} BY <2>1, <2>4
    <3>2. seen < Required /\ scan.pending = {} BY <1>1, <2>4 DEF Scanned
    <3>3. Scanned' BY <1>1, <2>2, <2>3, <3>1, <3>2 DEF Scanned
    <3>4. QED BY <2>3, <3>1, <3>3 DEF Fires
  <2>5. CASE ~(seen + 1 < Required)
    <3>1. PICK found \in SUBSET Findable(old, c) : Swept(old, found, c) BY <2>1, <2>5
    <3>2. PICK searched : searched = IF Pure THEN Searched(test.set, old, c) ELSE old
      OBVIOUS
    <3>3. PICK kept : kept = Kept(Aged(searched), Pure, found, c) OBVIOUS
    <3>4. /\ fired' = Firing(test.set, kept, Pure, found, c)
          /\ scan' = Fired(test.set, kept, fired')
      BY <3>1, <3>2, <3>3 DEF Swept
    <3>5. /\ searched \in [recent : Seq(Candles), minor : [Sides -> SUBSET Int],
                    pending : SUBSET Waiting, swings : [Sides -> SUBSET Swing]]
          /\ searched.recent = old.recent /\ searched.minor = old.minor
          /\ searched.pending = scan.pending
      <4>1. CASE Pure
        <5>1. searched = Searched(test.set, old, c) BY <3>2, <4>1
        <5>2. /\ Searched(test.set, old, c) \in
                   [recent : Seq(Candles), minor : [Sides -> SUBSET Int],
                    pending : SUBSET Waiting, swings : [Sides -> SUBSET Swing]]
              /\ Searched(test.set, old, c).recent = old.recent
              /\ Searched(test.set, old, c).minor = old.minor
              /\ Searched(test.set, old, c).pending = old.pending
          BY <2>2, SearchedScan
        <5>3. QED BY <2>3, <5>1, <5>2
      <4>2. CASE ~Pure BY <2>2, <2>3, <3>2, <4>2
      <4>3. QED BY <4>1, <4>2
    <3>6. \A d \in found : /\ d \in Sides /\ Facing(d, c).low < Facing(d, c).close
                           /\ Sweep(d, c) \in Waiting
                           /\ Sweep(d, c).side = d /\ Sweep(d, c).age = 0
                           /\ Sweep(d, c).wick = Facing(d, c).low
                           /\ Facing(d, c).close = d * c.close
      <4>1. ASSUME NEW d \in found
            PROVE  d \in Sides /\ Facing(d, c).low < Facing(d, c).close
        BY <2>2, FoundSweeps
      <4>2. ASSUME NEW d \in Sides
            PROVE  /\ Sweep(d, c) \in Waiting /\ Facing(d, c).close = d * c.close
                   /\ Sweep(d, c).side = d /\ Sweep(d, c).age = 0
                   /\ Sweep(d, c).wick = Facing(d, c).low
        BY FacingCandle DEF Sweep, Waiting
      <4>3. QED BY <4>1, <4>2
    \* What waits has swept on this candle, or has waited before.
    <3>7. /\ kept \in [recent : Seq(Candles), minor : [Sides -> SUBSET Int],
                    pending : SUBSET Waiting, swings : [Sides -> SUBSET Swing]]
          /\ kept.recent = old.recent /\ kept.minor = old.minor
          /\ \A q \in kept.pending :
               \/ \E d \in found : q = Sweep(d, c)
               \/ \E p \in scan.pending : q = [p EXCEPT !.age = @ + 1]
      <4> DEFINE older == {p \in {[q EXCEPT !.age = @ + 1] : q \in scan.pending} :
                             p.age <= ConfirmWindow}
      <4>1. \A q \in Waiting : [q EXCEPT !.age = @ + 1] \in Waiting BY DEF Waiting
      <4>2. scan.pending \in SUBSET Waiting BY <3>5
      <4>3. older \in SUBSET Waiting BY <4>1, <4>2
      <4>4. Aged(searched) = [searched EXCEPT !.pending = older] BY <3>5 DEF Aged
      <4>5. \A q \in older : \E p \in scan.pending : q = [p EXCEPT !.age = @ + 1]
        OBVIOUS
      <4> HIDE DEF older
      <4>6. PICK aged : /\ aged = Aged(searched)
                        /\ aged \in [recent : Seq(Candles), minor : [Sides -> SUBSET Int],
                             pending : SUBSET Waiting, swings : [Sides -> SUBSET Swing]]
                        /\ aged.recent = old.recent /\ aged.minor = old.minor
                        /\ aged.pending = older
        BY <3>5, <4>3, <4>4
      <4>7. \/ kept = aged
            \/ \E d \in found : kept = [aged EXCEPT !.pending = {Sweep(d, c)}]
        BY <3>3, <4>6 DEF Kept
      <4>8. CASE kept = aged BY <4>5, <4>6, <4>8
      <4>9. CASE \E d \in found : kept = [aged EXCEPT !.pending = {Sweep(d, c)}]
        <5>1. PICK d \in found : kept = [aged EXCEPT !.pending = {Sweep(d, c)}] BY <4>9
        <5>2. {Sweep(d, c)} \in SUBSET Waiting BY <3>6
        <5>3. QED BY <4>6, <5>1, <5>2
      <4>10. QED BY <4>7, <4>8, <4>9
    <3>8. /\ fired' \subseteq Waiting
          /\ \A q \in fired' :
               \/ \E d \in found : q = Sweep(d, c)
               \/ test.set.choch /\ q \in kept.pending /\ Changed(kept, q, c)
          /\ test.set.choch => \A q \in kept.pending : Changed(kept, q, c) => q \in fired'
      <4>1. CASE test.set.choch
        <5>1. fired' = {q \in kept.pending : Changed(kept, q, c)}
          BY <3>4, <4>1 DEF Firing
        <5>2. kept.pending \subseteq Waiting BY <3>7
        <5>3. QED BY <4>1, <5>1, <5>2
      <4>2. CASE ~test.set.choch
        <5>1. fired' = {} \/ \E d \in found : fired' = {Sweep(d, c)}
          BY <3>4, <4>2 DEF Firing
        <5>2. QED BY <3>6, <4>2, <5>1
      <4>3. QED BY <4>1, <4>2
    \* A sweep that has waited.
    <3>9. ASSUME NEW p \in scan.pending, NEW q, q = [p EXCEPT !.age = @ + 1]
          PROVE  /\ q \in Waiting /\ q.side \in Sides /\ q.wick \in Int /\ q.age \in Nat
                 /\ Waits(old, q)
                 /\ q.age = Span + 1 /\ Changed(old, q, c) => q.wick < Facing(q.side, c).close
      <4>1. p \in Waiting /\ Waits(scan, p) BY <2>2, <2>3 DEF Scanned
      <4>2. /\ q \in Waiting /\ q.side = p.side /\ q.wick = p.wick /\ q.age = p.age + 1
            /\ p.age \in Nat /\ p.side \in Sides /\ p.wick \in Int
        BY <3>9, <4>1 DEF Waiting
      <4>3. PICK n \in Nat : n = Len(scan.recent) BY LenProperties DEF Scanned
      <4>4. p.age < Span => /\ p.age + 1 <= n
                            /\ Facing(p.side, scan.recent[p.age + 1]).low = p.wick
        BY <4>1, <4>3 DEF Waits
      <4>5. p.age <= Span => \A m \in scan.minor[p.side] : p.wick <= m BY <4>1 DEF Waits
      <4>6. q.age < Span => /\ q.age + 1 <= Len(old.recent)
                            /\ Facing(q.side, old.recent[q.age + 1]).low = q.wick
        <5>1. SUFFICES ASSUME q.age < Span
                       PROVE  /\ q.age + 1 <= Len(old.recent)
                              /\ Facing(q.side, old.recent[q.age + 1]).low = q.wick
          OBVIOUS
        <5>2. p.age < Span /\ p.age + 1 < Span /\ p.age + 1 \in 1 .. n
          BY <1>1, <4>2, <4>3, <4>4, <5>1
        <5>3. /\ (p.age + 1) + 1 <= Len(old.recent)
              /\ old.recent[(p.age + 1) + 1] = scan.recent[p.age + 1]
          BY <2>3, <4>3, <5>2
        <5>4. QED BY <4>2, <4>4, <5>2, <5>3
      <4>7. q.age <= Span => \A m \in old.minor[q.side] : q.wick <= m
        <5>1. SUFFICES ASSUME q.age <= Span, NEW m \in old.minor[q.side] PROVE q.wick <= m
          OBVIOUS
        <5>2. p.age < Span /\ p.age + 1 \in 1 .. Span /\ p.age + 1 \in 1 .. n
          BY <1>1, <4>2, <4>3, <4>4, <5>1
        <5>3. CASE m \in scan.minor[q.side] BY <1>1, <4>2, <4>5, <5>2, <5>3
        <5>4. CASE m \notin scan.minor[q.side]
          <6>1. Facing(p.side, scan.recent[p.age + 1]).high <= m
            BY <2>3, <4>2, <4>3, <5>2, <5>4
          <6>2. scan.recent[p.age + 1] \in Candles
            BY <4>3, <5>2, ElementOfSeq DEF Scanned
          <6>3. Facing(p.side, scan.recent[p.age + 1]).low
                  <= Facing(p.side, scan.recent[p.age + 1]).high
                /\ Facing(p.side, scan.recent[p.age + 1]).low \in Int
                /\ Facing(p.side, scan.recent[p.age + 1]).high \in Int
            BY <4>2, <6>2, FacingCandle
          <6>4. m \in Int BY <2>2, <4>2
          <6>5. QED BY <4>2, <4>4, <5>2, <6>1, <6>3, <6>4
        <5>5. QED BY <5>3, <5>4
      <4>8. ASSUME q.age = Span + 1, Changed(old, q, c)
            PROVE  q.wick < Facing(q.side, c).close
        <5>1. PICK m \in old.minor[q.side] : Facing(q.side, c).close > m
          BY <4>8 DEF Changed
        <5>2. m \in Int BY <2>2, <4>2
        <5>3. /\ Facing(q.side, c).close \in Int /\ Facing(q.side, c).high \in Int
              /\ Facing(q.side, c).close <= Facing(q.side, c).high
          BY <4>2, FacingCandle
        <5>4. m \in scan.minor[q.side] BY <2>3, <4>2, <5>1, <5>2, <5>3
        <5>5. p.age <= Span BY <1>1, <4>2, <4>8
        <5>6. q.wick <= m BY <4>2, <4>5, <5>4, <5>5
        <5>7. QED BY <4>2, <5>1, <5>2, <5>3, <5>6
      <4>9. QED BY <4>2, <4>6, <4>7, <4>8 DEF Waits
    <3>10. Fires(c)
      <4>1. SUFFICES ASSUME NEW q \in fired'
                     PROVE  \/ q.wick < q.side * c.close
                            \/ test.set.choch /\ q.age >= Span + 2
        BY <3>8 DEF Fires
      <4>2. CASE \E d \in found : q = Sweep(d, c) BY <3>6, <4>2
      <4>3. CASE /\ test.set.choch /\ q \in kept.pending /\ Changed(kept, q, c)
                 /\ ~\E d \in found : q = Sweep(d, c)
        <5>1. PICK p \in scan.pending : q = [p EXCEPT !.age = @ + 1] BY <3>7, <4>3
        <5>2. /\ q \in Waiting /\ q.side \in Sides /\ q.wick \in Int /\ q.age \in Nat
              /\ Waits(old, q)
              /\ q.age = Span + 1 /\ Changed(old, q, c) => q.wick < Facing(q.side, c).close
          BY <3>9, <5>1
        <5>3. Changed(old, q, c) BY <3>7, <4>3 DEF Changed
        <5>4. Facing(q.side, c).close = q.side * c.close /\ Facing(q.side, c).close \in Int
          BY <5>2, FacingCandle
        <5>5. CASE q.age <= Span
          <6>1. PICK m \in old.minor[q.side] : Facing(q.side, c).close > m
            BY <5>3 DEF Changed
          <6>2. m \in Int /\ q.wick <= m BY <2>2, <5>2, <5>5, <6>1 DEF Waits
          <6>3. QED BY <5>2, <5>4, <6>1, <6>2
        <5>6. CASE q.age = Span + 1 BY <5>2, <5>3, <5>4, <5>6
        <5>7. QED BY <1>1, <4>3, <5>2, <5>5, <5>6
      <4>4. QED BY <3>8, <4>2, <4>3
    <3>11. Scanned'
      <4>1. scan' = [kept EXCEPT !.pending =
                       IF test.set.choch THEN kept.pending \ fired' ELSE {}]
        BY <3>4 DEF Fired
      <4>2. PICK left \in SUBSET Waiting :
              left = IF test.set.choch THEN kept.pending \ fired' ELSE {}
        BY <3>7
      <4>3. /\ scan' \in [recent : Seq(Candles), minor : [Sides -> SUBSET Int],
                    pending : SUBSET Waiting, swings : [Sides -> SUBSET Swing]]
            /\ scan'.recent = old.recent /\ scan'.minor = old.minor /\ scan'.pending = left
        BY <3>7, <4>1, <4>2
      <4>4. ASSUME NEW q \in left PROVE Waits(scan', q)
        <5>1. test.set.choch /\ q \in kept.pending /\ q \notin fired' BY <4>2
        <5>2. ~Changed(kept, q, c) BY <3>8, <5>1
        <5>3. CASE \E d \in found : q = Sweep(d, c)
          <6>1. PICK d \in found : q = Sweep(d, c) BY <5>3
          <6>2. /\ d \in Sides /\ Facing(d, c).low < Facing(d, c).close
                /\ q.side = d /\ q.age = 0 /\ q.wick = Facing(d, c).low
            BY <3>6, <6>1
          <6>3. Facing(d, c).low \in Int /\ Facing(d, c).close \in Int
            BY <6>2, FacingCandle
          <6>4. \A m \in old.minor[d] : m \in Int /\ ~(Facing(d, c).close > m)
            BY <2>2, <3>7, <5>2, <6>2 DEF Changed
          <6>5. \A m \in old.minor[d] : q.wick <= m BY <6>2, <6>3, <6>4
          <6>6. q.age + 1 <= Len(old.recent) /\ old.recent[q.age + 1] = c
            BY <2>3, <6>2
          <6>7. QED BY <4>3, <6>2, <6>5, <6>6 DEF Waits
        <5>4. CASE \E p \in scan.pending : q = [p EXCEPT !.age = @ + 1]
          <6>1. Waits(old, q) BY <3>9, <5>4
          <6>2. QED BY <4>3, <6>1 DEF Waits
        <5>5. QED BY <3>7, <5>1, <5>3, <5>4
      <4>5. scan'.pending # {} => test.set.choch BY <4>2, <4>3
      <4>6. ~(seen' < Required) BY <1>1, <2>5
      <4>7. test.mode \in SweepModes BY <1>3
      <4>8. Len(scan'.recent) <= Span BY <2>3, <4>3
      <4>9. \A q \in scan'.pending : Waits(scan', q) BY <4>3, <4>4
      <4>10. QED BY <1>1, <4>3, <4>5, <4>6, <4>7, <4>8, <4>9 DEF Scanned, Waits
    <3>12. scan'.recent = old.recent BY <3>4, <3>7 DEF Fired
    <3>13. QED BY <2>3, <3>10, <3>11, <3>12
  <2>6. QED BY <2>4, <2>5
<1>4. QED BY <1>2, <1>3

\* A trade that is open or about to be is the only one.
LEMMA Entering ==
  ASSUME Trades, Opened # {}
  PROVE  when # 1 /\ \E t : Opened = {t} /\ Traded(t) /\ \A old \in trade : old = t
<1>1. CASE trade # {}
  <2>1. PICK t \in trade : TRUE BY <1>1
  <2>2. plan = {} /\ trade = {t} /\ Traded(t) /\ when # 1 BY <1>1, <2>1 DEF Trades
  <2>3. Opened = {t} BY <2>2 DEF Opened
  <2>4. QED BY <2>2, <2>3
<1>2. CASE trade = {}
  <2>1. plan # {} BY <1>2 DEF Opened
  <2>2. PICK p \in plan : TRUE BY <2>1
  <2>3. plan = {p} /\ Traded(p) /\ p.hit = {} /\ when # 1 BY <2>1, <2>2 DEF Trades
  <2>4. [p EXCEPT !.hit = {}] = p BY <2>3 DEF Traded
  <2>5. Opened = {p} BY <1>2, <2>3, <2>4 DEF Opened
  <2>6. QED BY <1>2, <2>3, <2>5
<1>3. QED BY <1>1, <1>2

LEMMA InitBacktest == BacktestInit => BacktestInv
<1> SUFFICES ASSUME BacktestInit PROVE BacktestInv OBVIOUS
<1>1. /\ test \in Tests /\ seen = 0 /\ when = 1 /\ scan = NoScan
      /\ plan = {} /\ trade = {} /\ fired = {}
  BY DEF BacktestInit
<1>2. Trades BY <1>1 DEF Trades
<1>3. Span \in Nat BY ScanAssumption DEF Span
<1>4. <<>> \in Seq(Candles) /\ Len(<<>>) = 0 OBVIOUS
<1>5. Scanned BY <1>1, <1>3, <1>4 DEF Scanned, NoScan
<1>6. QED BY <1>1, <1>2, <1>5 DEF BacktestInv, StopProtects

\* What the candle does to the scan.
LEMMA HistoryStep ==
  ASSUME Trades, Scanned, NEW c \in Candles, NEW place, NEW band, NEW slope,
         History(c, place, band, slope)
  PROVE  Scanned' /\ Fires(c) /\ scan'.recent[1] = c /\ test' = test /\ when' = place
<1>1. /\ ScanCandle(c) /\ test' = test /\ when' = place
      /\ seen' = Lesser(seen + 1, Required)
  BY DEF History
<1>2. QED BY <1>1, ScanStep

\* A signal is a trade, with its stop on the losing side but for the two exceptions.
LEMMA SignalPlanned ==
  ASSUME Trades, NEW c \in Candles, Fires(c), NEW bands, NEW slope,
         NEW x \in Signals(c, bands, slope)
  PROVE  LET p == Signalled(x[1], x[1] * c.close, x[2])
         IN Traded(p) /\ p.hit = {} /\ (p.stop < 0 \/ LongWait \/ Unchecked)
<1>1. x[1] \in Sides /\ x[2] \in Int /\ (x[2] > 0 \/ LongWait \/ Unchecked)
  BY SignalFacts DEF Trades
<1>2. PICK price \in Int : price = x[1] * c.close
  <2>1. Facing(x[1], c).close \in Int /\ Facing(x[1], c).close = x[1] * c.close
    BY <1>1, FacingCandle
  <2>2. QED BY <2>1
<1>3. PICK d \in Int : d = x[2] BY <1>1
<1>4. /\ Traded(Signalled(x[1], price, d)) /\ Signalled(x[1], price, d).hit = {}
      /\ Signalled(x[1], price, d).stop = -d
  BY <1>1, <1>3, SignalledTrade
<1>5. d > 0 => -d < 0 OBVIOUS
<1>6. QED BY <1>1, <1>2, <1>3, <1>4, <1>5

LEMMA WarmupStep == ASSUME BacktestInv, WarmupCandle PROVE BacktestInv'
<1>1. PICK c \in Candles, band \in BandTurns, slope \in BandTurns : History(c, 1, band, slope)
  BY DEF WarmupCandle
<1>2. when = 1 /\ plan' = plan /\ trade' = trade BY DEF WarmupCandle
<1>3. Scanned' /\ test' = test /\ when' = 1 BY <1>1, HistoryStep DEF BacktestInv
<1>4. plan = {} /\ trade = {} /\ test \in Tests BY <1>2 DEF BacktestInv, Trades
<1>5. Trades' BY <1>2, <1>3, <1>4 DEF Trades
<1>6. StopProtects' BY <1>2, <1>4 DEF StopProtects
<1>7. QED BY <1>3, <1>5, <1>6 DEF BacktestInv

\* What a candle does to the trade.
LEMMA TradeStep ==
  ASSUME BacktestInv, TradeCandle
  PROVE  /\ BacktestInv'
         /\ \E t, c : /\ c \in Candles /\ Opened = {t} /\ Traded(t)
                      /\ \A old \in trade : old = t
                      /\ \A new \in trade' : new = Advanced(t, Seen(t, c))
<1>1. PICK c \in Candles, place \in Places, band \in BandTurns, slope \in BandTurns :
        /\ History(c, place, band, slope)
        /\ \E t \in Opened : \E reason \in Reasons(t, c, place, band, slope) :
             trade' = IF reason = "none" THEN {Advanced(t, Seen(t, c))} ELSE {}
  BY DEF TradeCandle
<1>2. Opened # {} /\ plan' = {} BY DEF TradeCandle
<1>3. PICK t : Opened = {t} /\ Traded(t) /\ \A old \in trade : old = t
  BY <1>2, Entering DEF BacktestInv
<1>4. trade' = {} \/ trade' = {Advanced(t, Seen(t, c))} BY <1>1, <1>3
<1>5. Scanned' /\ test' = test /\ when' = place BY <1>1, HistoryStep DEF BacktestInv
<1>6. when' # 1 BY <1>5 DEF Places
<1>7. test \in Tests BY DEF BacktestInv, Trades
<1>8. PICK new : new = Advanced(t, Seen(t, c)) OBVIOUS
<1>9. Traded(new) BY <1>3, <1>7, <1>8, SeenCandle, AdvancedTrade
<1>10. Traded(new)' BY <1>5, <1>9 DEF Traded
<1>11. Trades' BY <1>2, <1>4, <1>5, <1>6, <1>7, <1>8, <1>10 DEF Trades
<1>12. StopProtects' BY <1>2 DEF StopProtects
<1>13. \A x \in trade' : x = Advanced(t, Seen(t, c)) BY <1>4
<1>14. QED BY <1>3, <1>5, <1>11, <1>12, <1>13 DEF BacktestInv

LEMMA SignalStep == ASSUME BacktestInv, SignalCandle PROVE BacktestInv'
<1>1. PICK c \in Candles, place \in Places, band \in BandTurns, slope \in BandTurns :
        /\ History(c, place, band, slope)
        /\ \/ plan' = {}
           \/ \E x \in Signals(c, Bands(band), slope) :
                plan' = IF x[1] \in test.sides
                        THEN {Signalled(x[1], x[1] * c.close, x[2])} ELSE {}
  BY DEF SignalCandle
<1>2. Opened = {} /\ trade' = trade BY DEF SignalCandle
<1>3. trade' = {} BY <1>2 DEF Opened
<1>4. Scanned' /\ Fires(c) /\ test' = test /\ when' = place
  BY <1>1, HistoryStep DEF BacktestInv
<1>5. when' # 1 BY <1>4 DEF Places
<1>6. test \in Tests BY DEF BacktestInv, Trades
<1>7. \/ plan' = {}
      \/ \E p : plan' = {p} /\ Traded(p) /\ p.hit = {} /\ (p.stop < 0 \/ LongWait \/ Unchecked)
  <2>1. CASE plan' = {} BY <2>1
  <2>2. CASE plan' # {}
    <3>1. PICK x \in Signals(c, Bands(band), slope) :
            plan' = {Signalled(x[1], x[1] * c.close, x[2])}
      BY <1>1, <2>2
    <3>2. PICK p : p = Signalled(x[1], x[1] * c.close, x[2]) OBVIOUS
    <3>3. Traded(p) /\ p.hit = {} /\ (p.stop < 0 \/ LongWait \/ Unchecked)
      BY <1>4, <3>2, SignalPlanned DEF BacktestInv
    <3>4. QED BY <3>1, <3>2, <3>3
  <2>3. QED BY <2>1, <2>2
<1>8. CASE plan' = {}
  <2>1. Trades' BY <1>3, <1>4, <1>5, <1>6, <1>8 DEF Trades
  <2>2. QED BY <1>4, <1>8, <2>1 DEF BacktestInv, StopProtects
<1>9. CASE plan' # {}
  <2>1. PICK p : plan' = {p} /\ Traded(p) /\ p.hit = {} /\ (p.stop < 0 \/ LongWait \/ Unchecked)
    BY <1>7, <1>9
  <2>2. Traded(p)' BY <1>4, <2>1 DEF Traded
  <2>3. Trades' BY <1>3, <1>4, <1>5, <1>6, <2>1, <2>2 DEF Trades
  <2>4. StopProtects' BY <1>4, <2>1 DEF StopProtects, LongWait, Unchecked
  <2>5. QED BY <1>4, <2>3, <2>4 DEF BacktestInv
<1>10. QED BY <1>8, <1>9

\* What neither the trade nor the scan sees.
LEMMA QuietStep ==
  ASSUME BacktestInv, UNCHANGED <<test, seen, when, scan, fired>>,
         trade' \in {trade, {}}, plan' \in {plan, {}}
  PROVE  BacktestInv'
<1>1. Trades'
  <2>1. \A t : Traded(t) => Traded(t)' BY DEF Traded
  <2>2. trade' \subseteq trade /\ plan' \subseteq plan OBVIOUS
  <2>3. QED BY <2>1, <2>2 DEF BacktestInv, Trades
<1>2. Scanned' BY DEF BacktestInv, Scanned, Waits
<1>3. StopProtects' BY DEF BacktestInv, StopProtects
<1>4. QED BY <1>1, <1>2, <1>3 DEF BacktestInv

LEMMA BacktestStep == ASSUME BacktestInv, [BacktestNext]_backtestVars PROVE BacktestInv'
<1>1. CASE ExtendWarmup BY <1>1, QuietStep DEF ExtendWarmup, history
<1>2. CASE StartRun BY <1>2, QuietStep DEF StartRun, history
<1>3. CASE Refuse BY <1>3, QuietStep DEF Refuse, history
<1>4. CASE WarmupCandle BY <1>4, WarmupStep
<1>5. CASE TradeCandle BY <1>5, TradeStep
<1>6. CASE SignalCandle BY <1>6, SignalStep
<1>7. CASE Finish BY <1>7, QuietStep DEF Finish
<1>8. CASE UNCHANGED backtestVars BY <1>8, QuietStep DEF backtestVars
<1>9. QED BY <1>1, <1>2, <1>3, <1>4, <1>5, <1>6, <1>7, <1>8 DEF BacktestNext

\* A backtest has at most one trade or plan, with its targets in order and its trail
\* where they have put it, and what its scan keeps of a sweep never lets the sweep fire
\* early past a minor swing.
THEOREM BacktestInvariance == BacktestSpec => []BacktestInv
<1>1. BacktestInit => BacktestInv BY InitBacktest
<1>2. BacktestInv /\ [BacktestNext]_backtestVars => BacktestInv' BY BacktestStep
<1>3. QED BY <1>1, <1>2, PTL DEF BacktestSpec

\* Whatever the strategy and the prices, the stop of a signal is on the losing side of
\* its price, unless its sweep has waited for more than two swings' time or nothing has
\* seen to it that the sniper's multiples are positive.
THEOREM SignalsHaveTheirStops == BacktestSpec => []StopProtects
<1>1. BacktestInv => StopProtects BY DEF BacktestInv
<1>2. QED BY <1>1, BacktestInvariance, PTL

\* Where the targets reached have put the trail.
LEMMA TrailOf ==
  ASSUME NEW t, Traded(t), test.useTrail, NEW k \in t.hit \ {1}
  PROVE  t.trail >= t.targets[k - 1]
<1>1. /\ t.targets[1] \in Nat /\ t.targets[2] \in Nat /\ t.targets[1] <= t.targets[2]
      /\ t.hit \in SUBSET (1 .. 3)
      /\ 2 \in t.hit => 1 \in t.hit
      /\ 3 \in t.hit => 2 \in t.hit
      /\ t.trail = IF 1 \notin t.hit THEN t.stop ELSE IF 2 \notin t.hit THEN 0
                   ELSE IF 3 \notin t.hit THEN t.targets[1] ELSE t.targets[2]
  BY DEF Traded
<1>2. k = 2 \/ k = 3 BY <1>1
<1>3. CASE k = 2 BY <1>1, <1>3
<1>4. CASE k = 3 BY <1>1, <1>4
<1>5. QED BY <1>2, <1>3, <1>4

\* A candle never moves the trail away from the price, however many targets it reaches.
THEOREM TrailsTighten == BacktestSpec => TrailTightens
<1>1. ASSUME BacktestInv, BacktestNext,
             NEW old \in trade, NEW new \in trade', old.stop < 0
      PROVE  /\ new.trail >= old.trail
             /\ test.useTrail => \A k \in new.hit \ {1} : new.trail >= new.targets[k - 1]
  <2>1. Traded(old) /\ old.trail \in Int /\ test \in Tests
        /\ \A t \in trade : t = old
    BY <1>1 DEF BacktestInv, Trades, Traded
  <2>2. Traded(new) /\ new.trail >= old.trail
    <3>1. CASE TradeCandle
      <4>1. PICK t, c : /\ c \in Candles /\ Traded(t) /\ old = t
                        /\ new = Advanced(t, Seen(t, c))
        BY <1>1, <3>1, TradeStep
      <4>2. Seen(t, c).high \in Int BY <4>1, SeenCandle
      <4>3. QED BY <1>1, <2>1, <4>1, <4>2, AdvancedTrade
    <3>2. CASE ~TradeCandle
      <4>1. trade' \subseteq trade
        BY <1>1, <3>2 DEF BacktestNext, ExtendWarmup, StartRun, Refuse, history,
             WarmupCandle, SignalCandle, Finish
      <4>2. new = old BY <2>1, <4>1
      <4>3. QED BY <2>1, <4>2
    <3>3. QED BY <3>1, <3>2
  <2>3. QED BY <2>2, TrailOf
<1>2. BacktestInv /\ [BacktestNext]_backtestVars =>
        [\A old \in trade, new \in trade' :
           old.stop < 0 =>
             /\ new.trail >= old.trail
             /\ test.useTrail =>
                  \A k \in new.hit \ {1} : new.trail >= new.targets[k - 1]]_backtestVars
  BY <1>1
<1>3. QED BY <1>2, BacktestInvariance, PTL DEF BacktestSpec, TrailTightens

-----------------------------------------------------------------------------
(* The live engine at the low and the high of a candle.                     *)

\* A live position that has the targets of a trade.
LiveRow ==
  [status : {"OPEN", "EXITING"}, ltp : Int, entry : Int, best : Int, sl : Int,
   trail : Int, adds : Nat, lastAdd : Int, hit : SUBSET (1 .. 3),
   booked : SUBSET (1 .. 3)]

\* One target: what it does to the row.
LEMMA LiveTarget ==
  ASSUME test \in Tests, NEW t, Traded(t), NEW lot \in LiveRow, NEW price \in Int,
         NEW k \in 1 .. 3,
         NEW live \in Live(t.targets)!Target(LiveSetting, lot, price, k)
  PROVE  /\ live \in LiveRow
         /\ lot.status = "OPEN" /\ price >= t.targets[k] /\ k \notin lot.hit =>
              /\ live.hit = lot.hit \cup {k}
              /\ live.trail = IF test.useTrail THEN TrailAfter(t, k) ELSE lot.trail
              /\ live.status = IF k = 3 /\ test.fullExit THEN "EXITING" ELSE "OPEN"
         /\ ~(lot.status = "OPEN" /\ price >= t.targets[k] /\ k \notin lot.hit) =>
              live = lot
<1>1. /\ t.targets \in [1 .. 3 -> Nat] /\ t.targets[k] \in Int
      /\ k # 1 => t.targets[k - 1] \in Int
  BY DEF Traded
<1>2. LiveSetting.partial = FALSE /\ LiveSetting.useTrail = test.useTrail
      /\ LiveSetting.fullExit = test.fullExit
  BY DEF LiveSetting
<1>3. CASE lot.status = "OPEN" /\ price >= t.targets[k] /\ k \notin lot.hit
  <2>1. ~(lot.status # "OPEN" \/ price < t.targets[k]) BY <1>1, <1>3
  <2>2. PICK up : up = Live(t.targets)!Pulled(LiveSetting, Live(t.targets)!Hit(lot, k), k)
    OBVIOUS
  <2>3. live = IF k = 3 /\ test.fullExit THEN Live(t.targets)!Exiting(up) ELSE up
    BY <1>2, <1>3, <2>1, <2>2 DEF Live!Target
  <2>4. PICK hit \in SUBSET (1 .. 3) : hit = lot.hit \cup {k} BY DEF LiveRow
  <2>5. Live(t.targets)!Hit(lot, k) = [lot EXCEPT !.hit = hit] BY <2>4 DEF Live!Hit
  <2>6. PICK trail \in Int : trail = IF test.useTrail THEN TrailAfter(t, k) ELSE lot.trail
    BY <1>1 DEF TrailAfter, LiveRow
  <2>7. up = [lot EXCEPT !.hit = hit, !.trail = trail]
    BY <1>2, <2>2, <2>5, <2>6 DEF Live!Pulled, Live!Signal, TrailAfter, LiveRow
  <2>8. /\ up \in LiveRow /\ up.hit = hit /\ up.trail = trail /\ up.status = "OPEN"
    BY <1>3, <2>7 DEF LiveRow
  <2>9. QED BY <1>3, <2>3, <2>4, <2>6, <2>8 DEF Live!Exiting, LiveRow
<1>4. CASE ~(lot.status = "OPEN" /\ price >= t.targets[k] /\ k \notin lot.hit)
  <2>1. live = lot BY <1>1, <1>2, <1>4 DEF Live!Target
  <2>2. QED BY <1>4, <2>1
<1>5. QED BY <1>3, <1>4

\* A row whose targets were hit in order and have put the trail where it is.
Mirrors(t, lot) ==
  /\ lot \in LiveRow
  /\ 2 \in lot.hit => 1 \in lot.hit
  /\ 3 \in lot.hit => 2 \in lot.hit
  /\ lot.trail = IF ~test.useTrail \/ 1 \notin lot.hit THEN t.stop
                 ELSE IF 2 \notin lot.hit THEN 0
                 ELSE IF 3 \notin lot.hit THEN t.targets[1] ELSE t.targets[2]

\* A tick past the trail.
LEMMA LiveStop ==
  ASSUME NEW t, NEW lot \in LiveRow, lot.status = "OPEN", NEW price \in Int,
         price <= lot.trail, NEW live \in Live(t.targets)!LadderTick(LiveSetting, lot, price)
  PROVE  live \in LiveRow /\ live.status = "EXITING" /\ live.hit = lot.hit
<1>1. live = [lot EXCEPT !.status = "EXITING"]
  BY DEF Live!LadderTick, Live!Floor, Live!Exiting, LiveSetting
<1>2. QED BY <1>1 DEF LiveRow

\* A tick before the trail hits every target that it has reached; the trail stays behind
\* the price.
LEMMA LiveLadder ==
  ASSUME test \in Tests, NEW t, Traded(t), NEW lot, Mirrors(t, lot), lot.status = "OPEN",
         NEW price \in Int, price > lot.trail,
         NEW live \in Live(t.targets)!LadderTick(LiveSetting, lot, price)
  PROVE  /\ Mirrors(t, live) /\ live.trail < price
         /\ live.hit = lot.hit \cup {k \in 1 .. 3 : price >= t.targets[k]}
         /\ live.status = IF test.fullExit /\ 3 \in live.hit \ lot.hit
                          THEN "EXITING" ELSE "OPEN"
<1>1. /\ t.targets[1] \in Nat /\ t.targets[2] \in Nat /\ t.targets[3] \in Nat
      /\ \/ 0 < t.targets[1] /\ t.targets[1] < t.targets[2] /\ t.targets[2] < t.targets[3]
         \/ t.stop = 0 /\ t.targets[1] = 0 /\ t.targets[2] = 0 /\ t.targets[3] = 0
      /\ t.stop \in Int
  BY DEF Traded
<1>2. lot \in LiveRow /\ lot.trail \in Int /\ lot.hit \in SUBSET (1 .. 3)
  BY DEF Mirrors, LiveRow
<1>31. live \in UNION {UNION {UNION {Live(t.targets)!Reversed(LiveSetting, two, three) :
                    three \in Live(t.targets)!Target(LiveSetting, two, price, 3)} :
                  two \in Live(t.targets)!Target(LiveSetting, one, price, 2)} :
                one \in Live(t.targets)!Target(LiveSetting, lot, price, 1)}
  <2>1. Live(t.targets)!Floor(LiveSetting, lot) = lot.trail BY DEF Live!Floor, LiveSetting
  <2>2. ~(price <= Live(t.targets)!Floor(LiveSetting, lot)) BY <1>2, <2>1
  <2>3. QED BY <2>2 DEF Live!LadderTick
<1>32. PICK one \in Live(t.targets)!Target(LiveSetting, lot, price, 1) :
         live \in UNION {UNION {Live(t.targets)!Reversed(LiveSetting, two, three) :
                    three \in Live(t.targets)!Target(LiveSetting, two, price, 3)} :
                  two \in Live(t.targets)!Target(LiveSetting, one, price, 2)}
  BY <1>31
<1>33. PICK two \in Live(t.targets)!Target(LiveSetting, one, price, 2) :
         live \in UNION {Live(t.targets)!Reversed(LiveSetting, two, three) :
                    three \in Live(t.targets)!Target(LiveSetting, two, price, 3)}
  BY <1>32
<1>3. PICK three \in Live(t.targets)!Target(LiveSetting, two, price, 3) :
             live \in Live(t.targets)!Reversed(LiveSetting, two, three)
  BY <1>33
<1>4. live = three BY <1>3 DEF Live!Reversed, LiveSetting
<1>5. /\ one \in LiveRow
      /\ price >= t.targets[1] /\ 1 \notin lot.hit =>
           /\ one.hit = lot.hit \cup {1} /\ one.status = "OPEN"
           /\ one.trail = IF test.useTrail THEN TrailAfter(t, 1) ELSE lot.trail
      /\ ~(price >= t.targets[1] /\ 1 \notin lot.hit) => one = lot
  BY <1>2, <1>3, LiveTarget
<1>6. one.status = "OPEN" BY <1>5
<1>7. /\ two \in LiveRow
      /\ price >= t.targets[2] /\ 2 \notin one.hit =>
           /\ two.hit = one.hit \cup {2} /\ two.status = "OPEN"
           /\ two.trail = IF test.useTrail THEN TrailAfter(t, 2) ELSE one.trail
      /\ ~(price >= t.targets[2] /\ 2 \notin one.hit) => two = one
  BY <1>3, <1>5, <1>6, LiveTarget
<1>8. two.status = "OPEN" BY <1>6, <1>7
<1>9. /\ live \in LiveRow
      /\ price >= t.targets[3] /\ 3 \notin two.hit =>
           /\ live.hit = two.hit \cup {3}
           /\ live.status = IF test.fullExit THEN "EXITING" ELSE "OPEN"
           /\ live.trail = IF test.useTrail THEN TrailAfter(t, 3) ELSE two.trail
      /\ ~(price >= t.targets[3] /\ 3 \notin two.hit) => live = two
  BY <1>3, <1>4, <1>7, <1>8, LiveTarget
<1>10. /\ TrailAfter(t, 1) = 0 /\ TrailAfter(t, 2) = t.targets[1]
       /\ TrailAfter(t, 3) = t.targets[2]
  BY DEF TrailAfter
<1>11. /\ 2 \in lot.hit => 1 \in lot.hit
       /\ 3 \in lot.hit => 2 \in lot.hit
       /\ lot.trail = IF ~test.useTrail \/ 1 \notin lot.hit THEN t.stop
                      ELSE IF 2 \notin lot.hit THEN 0
                      ELSE IF 3 \notin lot.hit THEN t.targets[1] ELSE t.targets[2]
  BY DEF Mirrors
<1>12. test.useTrail \in BOOLEAN /\ test.fullExit \in BOOLEAN BY TheTests
<1>13. /\ one.trail \in Int /\ two.trail \in Int /\ live.trail \in Int
       /\ one.hit \in SUBSET (1 .. 3) /\ two.hit \in SUBSET (1 .. 3)
       /\ live.hit \in SUBSET (1 .. 3)
  BY <1>5, <1>7, <1>9 DEF LiveRow
<1>14. /\ 1 \in live.hit <=> (1 \in lot.hit \/ price >= t.targets[1])
       /\ 2 \in live.hit <=> (2 \in lot.hit \/ price >= t.targets[2])
       /\ 3 \in live.hit <=> (3 \in lot.hit \/ price >= t.targets[3])
  BY <1>5, <1>7, <1>9
<1>15. live.hit = lot.hit \cup {k \in 1 .. 3 : price >= t.targets[k]}
  <2>1. \A k \in 1 .. 3 : k = 1 \/ k = 2 \/ k = 3 OBVIOUS
  <2>2. \A k \in 1 .. 3 : k \in live.hit <=> (k \in lot.hit \/ price >= t.targets[k])
    BY <1>14, <2>1
  <2>3. QED BY <1>2, <1>13, <2>2
<1>16. live.status = IF test.fullExit /\ 3 \in live.hit \ lot.hit THEN "EXITING" ELSE "OPEN"
  BY <1>5, <1>7, <1>8, <1>9
<1>17. (2 \in live.hit => 1 \in live.hit) /\ (3 \in live.hit => 2 \in live.hit)
  BY <1>1, <1>11, <1>14
<1>18. /\ live.trail < price
       /\ live.trail = IF ~test.useTrail \/ 1 \notin live.hit THEN t.stop
                       ELSE IF 2 \notin live.hit THEN 0
                       ELSE IF 3 \notin live.hit THEN t.targets[1] ELSE t.targets[2]
  <2>1. CASE price >= t.targets[3] /\ 3 \notin two.hit
    BY <1>1, <1>2, <1>5, <1>7, <1>9, <1>10, <1>11, <1>12, <1>14, <2>1
  <2>2. CASE ~(price >= t.targets[3] /\ 3 \notin two.hit)
    <3>1. live = two BY <1>9, <2>2
    <3>2. CASE price >= t.targets[2] /\ 2 \notin one.hit
      BY <1>1, <1>2, <1>5, <1>7, <1>10, <1>11, <1>12, <1>14, <3>1, <3>2
    <3>3. CASE ~(price >= t.targets[2] /\ 2 \notin one.hit)
      BY <1>1, <1>2, <1>5, <1>7, <1>10, <1>11, <1>12, <1>14, <3>1, <3>3
    <3>4. QED BY <3>2, <3>3
  <2>3. QED BY <2>1, <2>2
<1>19. QED BY <1>9, <1>15, <1>16, <1>17, <1>18 DEF Mirrors

\* A tick to a position: nothing is added to it.
LEMMA LiveTick ==
  ASSUME NEW t, NEW lot \in LiveRow, NEW price \in Int,
         NEW live \in Live(t.targets)!OnTick(LiveSetting, lot, price)
  PROVE  /\ lot.status # "OPEN" => live = lot
         /\ lot.status = "OPEN" =>
              live \in Live(t.targets)!LadderTick(LiveSetting, [lot EXCEPT !.ltp = price], price)
<1>1. LiveSetting.ladder = TRUE BY DEF LiveSetting
<1>2. CASE lot.status # "OPEN" BY <1>2 DEF Live!OnTick
<1>3. CASE lot.status = "OPEN"
  <2>1. PICK marked : marked = [lot EXCEPT !.ltp = price] OBVIOUS
  <2>2. marked.adds \in Nat BY <2>1 DEF LiveRow
  <2>3. ~Live(t.targets)!MayAdd(LiveSetting, marked, price) BY <2>2 DEF Live!MayAdd
  <2>4. Live(t.targets)!Pyramided(LiveSetting, marked, price) = {marked}
    BY <2>3 DEF Live!Pyramided
  <2>5. Live(t.targets)!OnTick(LiveSetting, lot, price) =
          UNION {IF LiveSetting.ladder
                 THEN Live(t.targets)!LadderTick(LiveSetting, p, price)
                 ELSE {Live(t.targets)!ClassicTick(LiveSetting, p, price)} : p \in {marked}}
    BY <1>3, <2>1, <2>4 DEF Live!OnTick
  <2>6. live \in Live(t.targets)!LadderTick(LiveSetting, marked, price)
    BY <1>1, <2>5
  <2>7. QED BY <1>3, <2>1, <2>6
<1>4. QED BY <1>2, <1>3

\* The candle ends the trade if and only if its low or its high ends the position, and
\* for the same reason; a trade that goes on is left as the position is.
LEMMA LiveCandle ==
  ASSUME test \in Tests, NEW t, Traded(t),
         NEW f, f.low \in Int, f.high \in Int, f.low <= f.high, NEW live \in LiveAfter(t, f)
  PROVE  /\ live.status = "EXITING" <=> Exit(t, f) \in {"STOP_LOSS", "TRAILING_STOP", "TP3"}
         /\ Exit(t, f) = "TP3" <=> live.status = "EXITING" /\ 3 \in live.hit \ t.hit
         /\ Exit(t, f) = "none" =>
              live.trail = Advanced(t, f).trail /\ live.hit = Advanced(t, f).hit
<1>1. PICK start : start = LivePosition(t) OBVIOUS
<1>2. /\ start \in LiveRow /\ start.status = "OPEN"
      /\ start.trail = t.trail /\ start.hit = t.hit
  <2>1. PICK trail \in Int, hit \in SUBSET (1 .. 3) : trail = t.trail /\ hit = t.hit
    BY DEF Traded
  <2>2. start = [Live(t.targets)!AtEntry EXCEPT !.trail = trail, !.hit = hit]
    BY <1>1, <2>1 DEF LivePosition
  <2>3. Live(t.targets)!AtEntry \in LiveRow /\ Live(t.targets)!AtEntry.status = "OPEN"
    BY DEF Live!AtEntry, Live!Signal, LiveRow
  <2>4. QED BY <2>1, <2>2, <2>3 DEF LiveRow
<1>3. PICK low \in Live(t.targets)!OnTick(LiveSetting, start, f.low) :
        live \in Live(t.targets)!OnTick(LiveSetting, low, f.high)
  BY <1>1 DEF LiveAfter
<1>4. PICK lot : lot = [start EXCEPT !.ltp = f.low] OBVIOUS
<1>5. lot \in LiveRow /\ lot.status = "OPEN" /\ lot.trail = t.trail /\ lot.hit = t.hit
  BY <1>2, <1>4 DEF LiveRow
<1>6. low \in Live(t.targets)!LadderTick(LiveSetting, lot, f.low)
  BY <1>2, <1>3, <1>4, LiveTick
<1>7. t.trail \in Int /\ t.hit \in SUBSET (1 .. 3) BY DEF Traded
<1>8. CASE Stopped(t, f)
  <2>1. f.low <= lot.trail BY <1>5, <1>8 DEF Stopped
  <2>2. low \in LiveRow /\ low.status = "EXITING" /\ low.hit = t.hit
    BY <1>5, <1>6, <2>1, LiveStop
  <2>3. live = low BY <1>3, <2>2, LiveTick
  <2>4. Exit(t, f) \in {"STOP_LOSS", "TRAILING_STOP"} BY <1>8 DEF Exit
  <2>5. QED BY <2>2, <2>3, <2>4
<1>9. CASE ~Stopped(t, f)
  <2>1. f.low > lot.trail BY <1>5, <1>7, <1>9 DEF Stopped
  <2>2. Mirrors(t, lot) BY <1>5 DEF Mirrors, Traded
  <2>3. /\ Mirrors(t, low) /\ low.trail < f.low
        /\ low.hit = t.hit \cup {k \in 1 .. 3 : f.low >= t.targets[k]}
        /\ low.status = IF test.fullExit /\ 3 \in low.hit \ t.hit THEN "EXITING" ELSE "OPEN"
    BY <1>5, <1>6, <2>1, <2>2, LiveLadder
  <2>4. Exit(t, f) = IF 3 \in Reaching(t, f) \ t.hit /\ test.fullExit THEN "TP3" ELSE "none"
    BY <1>9 DEF Exit
  <2>5. t.targets[3] \in Int BY DEF Traded
  <2>6. CASE low.status # "OPEN"
    <3>0. low \in LiveRow BY <2>3 DEF Mirrors
    <3>1. live = low BY <1>3, <2>6, <3>0, LiveTick
    <3>2. low.status = "EXITING" /\ test.fullExit /\ 3 \in low.hit \ t.hit
      BY <2>3, <2>6
    <3>3. f.low >= t.targets[3] BY <2>3, <3>2
    <3>4. 3 \in Reaching(t, f) BY <2>5, <3>3 DEF Reaching
    <3>5. Exit(t, f) = "TP3" BY <2>4, <3>2, <3>4
    <3>6. QED BY <3>1, <3>2, <3>5
  <2>7. CASE low.status = "OPEN"
    <3>1. PICK next : next = [low EXCEPT !.ltp = f.high] OBVIOUS
    <3>2. /\ next \in LiveRow /\ next.status = "OPEN"
          /\ next.trail = low.trail /\ next.hit = low.hit
      BY <2>3, <2>7, <3>1 DEF Mirrors, LiveRow
    <3>3. Mirrors(t, next) BY <2>3, <3>2 DEF Mirrors
    <3>4. live \in Live(t.targets)!LadderTick(LiveSetting, next, f.high)
      BY <1>3, <2>3, <2>7, <3>1, LiveTick DEF Mirrors
    <3>5. f.high > next.trail BY <2>3, <3>2 DEF LiveRow
    <3>6. /\ Mirrors(t, live)
          /\ live.hit = low.hit \cup {k \in 1 .. 3 : f.high >= t.targets[k]}
          /\ live.status = IF test.fullExit /\ 3 \in live.hit \ low.hit
                           THEN "EXITING" ELSE "OPEN"
      BY <3>2, <3>3, <3>4, <3>5, LiveLadder
    <3>7. {k \in 1 .. 3 : f.low >= t.targets[k]}
            \subseteq {k \in 1 .. 3 : f.high >= t.targets[k]}
      BY DEF Traded
    <3>8. live.hit = t.hit \cup Reaching(t, f)
      BY <2>3, <3>6, <3>7 DEF Reaching
    <3>9. test.fullExit => (3 \in live.hit \ low.hit <=> 3 \in Reaching(t, f) \ t.hit)
      <4>1. test.fullExit => 3 \notin low.hit \ t.hit BY <2>3, <2>7
      <4>2. t.hit \subseteq low.hit BY <2>3
      <4>3. QED BY <3>8, <4>1, <4>2
    <3>10. /\ live.status = "EXITING" <=> Exit(t, f) \in {"STOP_LOSS", "TRAILING_STOP", "TP3"}
           /\ Exit(t, f) = "TP3" <=> live.status = "EXITING" /\ 3 \in live.hit \ t.hit
      BY <2>4, <3>6, <3>8, <3>9
    <3>11. /\ Traded(Advanced(t, f)) /\ Advanced(t, f).hit = t.hit \cup Reaching(t, f)
           /\ Advanced(t, f).targets = t.targets /\ Advanced(t, f).stop = t.stop
      BY AdvancedTrade
    <3>12. live.trail = Advanced(t, f).trail /\ live.hit = Advanced(t, f).hit
      BY <3>6, <3>8, <3>11 DEF Mirrors, Traded
    <3>13. QED BY <3>10, <3>12
  <2>8. QED BY <2>6, <2>7
<1>10. QED BY <1>8, <1>9

\* A backtest does with every candle what the live engine does with a tick at its low
\* and one at its high.
THEOREM BacktestIsTheEngine == BacktestSpec => BacktestMatchesLive
<1>1. ASSUME BacktestInv, BacktestNext, phase' = "run", phase = "run",
             NEW t \in Opened, NEW live \in LiveAfter(t, Seen(t, scan'.recent[1]))
      PROVE  /\ live.status = "EXITING" <=>
                   result' \in {"STOP_LOSS", "TRAILING_STOP", "TP3"}
             /\ result' = "TP3" <=> live.status = "EXITING" /\ 3 \in live.hit \ t.hit
             /\ \A after \in trade' : after.trail = live.trail /\ after.hit = live.hit
  <2>1. TradeCandle
    <3>1. Opened # {} /\ when # 1 BY <1>1, Entering DEF BacktestInv
    <3>2. QED BY <1>1, <3>1 DEF BacktestNext, ExtendWarmup, StartRun, Refuse,
                 WarmupCandle, SignalCandle, Finish
  <2>2. PICK c \in Candles, place \in Places, band \in BandTurns, slope \in BandTurns :
          /\ History(c, place, band, slope)
          /\ \E x \in Opened : \E reason \in Reasons(x, c, place, band, slope) :
               /\ result' = reason
               /\ trade' = IF reason = "none" THEN {Advanced(x, Seen(x, c))} ELSE {}
    BY <2>1 DEF TradeCandle
  <2>3. Opened = {t} /\ Traded(t)
    <3>1. \E x : Opened = {x} /\ Traded(x) BY <1>1, Entering DEF BacktestInv
    <3>2. QED BY <1>1, <3>1
  <2>4. scan'.recent[1] = c BY <1>1, <2>2, HistoryStep DEF BacktestInv
  <2>5. PICK f : f = Seen(t, c) OBVIOUS
  <2>6. f.low \in Int /\ f.high \in Int /\ f.low <= f.high BY <2>2, <2>3, <2>5, SeenCandle
  <2>7. live \in LiveAfter(t, f) /\ test \in Tests
    BY <1>1, <2>4, <2>5 DEF BacktestInv, Trades
  <2>8. /\ live.status = "EXITING" <=> Exit(t, f) \in {"STOP_LOSS", "TRAILING_STOP", "TP3"}
        /\ Exit(t, f) = "TP3" <=> live.status = "EXITING" /\ 3 \in live.hit \ t.hit
        /\ Exit(t, f) = "none" =>
             live.trail = Advanced(t, f).trail /\ live.hit = Advanced(t, f).hit
    BY <2>3, <2>6, <2>7, LiveCandle
  <2>9. PICK reason \in Reasons(t, c, place, band, slope) :
          /\ result' = reason
          /\ trade' = IF reason = "none" THEN {Advanced(t, f)} ELSE {}
    BY <2>2, <2>3, <2>5
  <2>10. IF Exit(t, f) # "none" THEN reason = Exit(t, f)
         ELSE reason \in {"none", "EOD", "STRATEGY_REVERSAL"}
    BY <2>5, <2>9 DEF Reasons
  <2>11. Exit(t, f) \in {"STOP_LOSS", "TRAILING_STOP", "TP3", "none"} BY DEF Exit
  <2>12. QED BY <2>8, <2>9, <2>10, <2>11
<1>2. BacktestInv /\ [BacktestNext]_backtestVars =>
        [phase' = "run" /\ phase = "run" =>
           \A t \in Opened : \A live \in LiveAfter(t, Seen(t, scan'.recent[1])) :
             /\ live.status = "EXITING" <=>
                  result' \in {"STOP_LOSS", "TRAILING_STOP", "TP3"}
             /\ result' = "TP3" <=> live.status = "EXITING" /\ 3 \in live.hit \ t.hit
             /\ \A after \in trade' :
                  after.trail = live.trail /\ after.hit = live.hit]_backtestVars
  BY <1>1
<1>3. QED BY <1>2, BacktestInvariance, PTL DEF BacktestSpec, BacktestMatchesLive
===============================================================================

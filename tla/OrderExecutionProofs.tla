------------------------ MODULE OrderExecutionProofs ------------------------
(* Proofs about OrderExecution, for any quantity and any number of         *)
(* attempts, when the broker's books do not lag behind the order status.   *)
EXTENDS OrderExecution, TLAPS

Watching == {"wait", "poll", "reconcile", "trades", "settle"}

\* The orders as the broker keeps them.
BrokerOK ==
  \A o \in Orders :
    /\ filled[o] <= size[o]
    /\ status[o] \in {"none", "refused"} => filled[o] = 0
    /\ status[o] # "none" => size[o] > 0
    /\ size[o] > 0 => (status[o] = "COMPLETE" <=> filled[o] = size[o])
    /\ o > attempts => status[o] = "none" /\ size[o] = 0

\* What a snapshot says of an order is true, and its last word if it is final.
Truthful(o, s) ==
  /\ s.filled <= filled[o]
  /\ IsFinal(s) => s.status = status[o] /\ s.filled = filled[o]

KnowledgeOK ==
  /\ \A o \in Orders : Truthful(o, cache[o])
  /\ pc \in Watching => Truthful(attempts, snap)

\* The books: what was booked is what the orders before the current one
\* filled, and before a placement nothing is left at the broker.
LedgerOK ==
  /\ outcome = "none" <=> pc \notin {"ended", "returned"}
  /\ pc = "next" =>
       /\ total < Qty /\ attempts < MaxAttempts
       /\ total = Traded
       /\ attempts > 0 => status[attempts] \in Final
  /\ pc \in Watching \cup {"placing"} =>
       /\ attempts > 0 /\ size[attempts] > 0
       /\ status[attempts] # "refused"
       /\ total = Qty - size[attempts]

\* What each way to end says of the orders and the kill switch.
OutcomeOK ==
  /\ outcome \in {"unfilled", "refused"} => total = Traded /\ ~MayStillTrade
  /\ outcome = "raised" => kill
  /\ outcome = "lost" /\ pc = "returned" => kill \/ caller = "entry"

IInv == /\ TypeOK /\ BrokerOK /\ KnowledgeOK /\ LedgerOK /\ OutcomeOK
        /\ ReplacementIsRemainder /\ ResultsAreTrue

LEMMA InitIInv == Init => IInv
<1> SUFFICES ASSUME Init PROVE IInv
  OBVIOUS
<1> USE OrderAssumption DEF Init, Orders, Final, Unknown, Snapshots
<1>1. TypeOK
  <2>1. 0 \in 0 .. Qty /\ 0 \in 0 .. MaxAttempts
    OBVIOUS
  <2>2. cache \in [Orders -> Snapshots] /\ snap \in Snapshots
    BY <2>1
  <2>3. /\ size \in [Orders -> 0 .. Qty] /\ filled \in [Orders -> 0 .. Qty]
        /\ attempts \in 0 .. MaxAttempts /\ total \in 0 .. Qty
    BY <2>1
  <2>4. status \in [Orders -> Final \cup {"none", "OPEN", "refused"}]
    OBVIOUS
  <2>5. QED BY <2>2, <2>3, <2>4 DEF TypeOK, Pcs, Outcomes
<1>2. BrokerOK BY DEF BrokerOK
<1>3. KnowledgeOK BY DEF KnowledgeOK, Truthful, IsFinal, Watching
<1>4. LedgerOK /\ OutcomeOK
  BY DEF LedgerOK, OutcomeOK, Watching, Traded, MayStillTrade
<1>5. ReplacementIsRemainder /\ ResultsAreTrue
  <2>1. \A o \in Orders : ~(o < attempts)
    OBVIOUS
  <2>2. QED BY <2>1 DEF ReplacementIsRemainder, ResultsAreTrue
<1>6. QED BY <1>1, <1>2, <1>3, <1>4, <1>5 DEF IInv

\* What the broker may do to an order that is not over: everything the four
\* broker actions have in common.
BrokerMove(o) ==
  /\ status[o] \in {"none", "OPEN"} /\ size[o] > 0
  /\ \E st \in Final \cup {"OPEN"}, n \in 0 .. Qty :
       /\ status' = [status EXCEPT ![o] = st]
       /\ filled' = [filled EXCEPT ![o] = n]
       /\ filled[o] <= n /\ n <= size[o]
       /\ st = "COMPLETE" <=> n = size[o]
  /\ UNCHANGED <<size, cache, program>>

LEMMA BrokerMoves ==
  ASSUME IInv, NEW o \in Orders,
         \/ Accept(o) \/ CancelOrder(o) \/ RejectOrder(o)
         \/ \E n \in 1 .. Qty : Fill(o, n)
  PROVE  BrokerMove(o)
<1> USE OrderAssumption DEF IInv, TypeOK, BrokerOK, Final, BrokerMove
<1>1. filled[o] \in 0 .. Qty /\ size[o] \in 0 .. Qty
  OBVIOUS
<1>2. CASE Accept(o)
  <2>1. /\ status' = [status EXCEPT ![o] = "OPEN"]
        /\ filled' = [filled EXCEPT ![o] = filled[o]]
        /\ "OPEN" = "COMPLETE" <=> filled[o] = size[o]
    BY <1>2 DEF Accept
  <2>2. QED BY <1>1, <1>2, <2>1 DEF Accept
<1>3. CASE CancelOrder(o)
  <2>1. /\ status' = [status EXCEPT ![o] = "CANCELLED"]
        /\ filled' = [filled EXCEPT ![o] = filled[o]]
        /\ "CANCELLED" = "COMPLETE" <=> filled[o] = size[o]
    BY <1>3 DEF CancelOrder
  <2>2. QED BY <1>1, <1>3, <2>1 DEF CancelOrder
<1>4. CASE RejectOrder(o)
  <2>1. /\ status' = [status EXCEPT ![o] = "REJECTED"]
        /\ filled' = [filled EXCEPT ![o] = filled[o]]
        /\ "REJECTED" = "COMPLETE" <=> filled[o] = size[o]
    BY <1>4 DEF RejectOrder
  <2>2. QED BY <1>1, <1>4, <2>1 DEF RejectOrder
<1>5. ASSUME NEW n \in 1 .. Qty, Fill(o, n) PROVE BrokerMove(o)
  <2> DEFINE st == IF filled[o] + n = size[o] THEN "COMPLETE" ELSE "OPEN"
  <2>1. /\ status' = [status EXCEPT ![o] = st]
        /\ filled' = [filled EXCEPT ![o] = filled[o] + n]
        /\ status[o] = "OPEN" /\ filled[o] + n <= size[o]
        /\ UNCHANGED <<size, cache, program>>
    BY <1>5 DEF Fill
  <2>2. filled[o] + n \in 0 .. Qty /\ filled[o] <= filled[o] + n
    BY <1>1, <2>1
  <2>3. st = "COMPLETE" <=> filled[o] + n = size[o]
    OBVIOUS
  <2>4. st \in Final \cup {"OPEN"}
    OBVIOUS
  <2>5. size[o] > 0 BY <1>1, <2>1, <2>2
  <2> HIDE DEF st
  <2>6. QED BY <2>1, <2>2, <2>3, <2>4, <2>5
<1>6. QED BY <1>2, <1>3, <1>4, <1>5

LEMMA BrokerKeeps ==
  ASSUME IInv, NEW o \in Orders, BrokerMove(o)
  PROVE  IInv'
<1> USE OrderAssumption DEF IInv, Final, BrokerMove, program
<1>1. TypeOK' BY DEF TypeOK
<1>2. BrokerOK' BY DEF TypeOK, BrokerOK
<1>3. \A p \in Orders, s \in Snapshots : Truthful(p, s) => Truthful(p, s)'
  BY DEF TypeOK, Truthful, IsFinal, Snapshots
<1>4. KnowledgeOK'
  <2>1. \A p \in Orders : Truthful(p, cache[p])'
    BY <1>3 DEF TypeOK, KnowledgeOK
  <2>2. pc' \in Watching => Truthful(attempts, snap)'
    BY <1>3 DEF TypeOK, KnowledgeOK, LedgerOK, Orders
  <2>3. QED BY <2>1, <2>2 DEF KnowledgeOK
<1>5. total = Traded /\ ~MayStillTrade => total' = Traded' /\ ~MayStillTrade'
  BY DEF TypeOK, Traded, MayStillTrade
<1>6. LedgerOK'
  BY <1>5 DEF TypeOK, LedgerOK, Watching, MayStillTrade
<1>7. OutcomeOK' BY <1>5 DEF OutcomeOK
<1>8. ReplacementIsRemainder'
  BY DEF TypeOK, BrokerOK, ReplacementIsRemainder
<1>9. ResultsAreTrue'
  <2>1. Traded <= Traded'
    <3>1. \A p \in Orders : filled[p] \in 0 .. Qty /\ filled'[p] \in 0 .. Qty
                            /\ filled[p] <= filled'[p]
      BY <1>1 DEF TypeOK
    <3>2. attempts # 0 =>
            attempts \in Orders /\ size[attempts] \in 0 .. Qty
      BY DEF TypeOK, Orders
    <3>3. attempts' = attempts /\ size' = size
      OBVIOUS
    <3>4. attempts # 0 => filled[attempts] <= filled'[attempts]
      BY <3>1, <3>2
    <3> HIDE DEF BrokerMove, IInv
    <3>5. CASE attempts # 0
      BY <3>1, <3>2, <3>3, <3>4, <3>5 DEF Traded
    <3>6. CASE attempts = 0
      BY <3>3, <3>6 DEF Traded
    <3>7. QED BY <3>5, <3>6
  <2>2. total \in Int /\ Traded \in Int /\ Traded' \in Int
    <3>1. attempts > 0 => /\ attempts \in Orders /\ size[attempts] \in 0 .. Qty
                          /\ filled[attempts] \in 0 .. Qty
                          /\ filled'[attempts] \in 0 .. Qty
      BY <1>1 DEF TypeOK, Orders
    <3>2. QED BY <3>1 DEF TypeOK, Traded
  <2>3. QED BY <1>5, <2>1, <2>2 DEF ResultsAreTrue
<1>10. QED BY <1>1, <1>2, <1>4, <1>6, <1>7, <1>8, <1>9

\* A step of the watch on the current order: only snapshots change, and they
\* stay truthful.
WatchMove ==
  /\ pc \in Watching \cup {"placing"} /\ pc' \in Watching
  /\ snap' \in Snapshots /\ Truthful(attempts, snap')
  /\ cache' \in [Orders -> Snapshots]
  /\ \A o \in Orders : Truthful(o, cache'[o])
  /\ late' \in BOOLEAN /\ cancelRequested' \in BOOLEAN
  /\ UNCHANGED <<broker, attempts, total, kill, caller, outcome>>

LEMMA WatchKeeps ==
  ASSUME IInv, WatchMove
  PROVE  IInv'
<1> USE DEF IInv, WatchMove, broker
<1>1. TypeOK' BY DEF TypeOK, Watching, Pcs
<1>2. BrokerOK' BY DEF BrokerOK
<1>3. KnowledgeOK' BY DEF KnowledgeOK, Truthful
<1>4. LedgerOK' BY DEF LedgerOK, Watching
<1>5. OutcomeOK' BY DEF OutcomeOK, Traded, MayStillTrade, LedgerOK, Watching
<1>6. ReplacementIsRemainder' BY DEF ReplacementIsRemainder
<1>7. ResultsAreTrue' BY DEF ResultsAreTrue, Traded, MayStillTrade
<1>8. QED BY <1>1, <1>2, <1>3, <1>4, <1>5, <1>6, <1>7

\* The broker's answers are truthful, also the late ones.
LEMMA ReportsAreTruthful ==
  ASSUME IInv, NEW o \in Orders, NEW r \in Reports(o)
  PROVE  r \in Snapshots /\ Truthful(o, r)
<1>1. filled[o] \in 0 .. Qty /\ status[o] \in Final \cup {"none", "OPEN", "refused"}
  BY DEF IInv, TypeOK
<1>2. CASE r = Current(o)
  BY <1>1, <1>2 DEF Current, Truthful, IsFinal, Snapshots, Final
<1>3. CASE r \in [status : {"OPEN"}, filled : 0 .. filled[o]]
  BY <1>1, <1>3, OrderAssumption DEF Truthful, IsFinal, Snapshots, Final
<1>4. QED BY <1>2, <1>3 DEF Reports

LEMMA CurrentOrder ==
  ASSUME IInv, pc \in Watching \cup {"placing"}
  PROVE  /\ attempts \in Orders
         /\ cache[attempts] \in Snapshots /\ Truthful(attempts, cache[attempts])
         /\ pc \in Watching => Truthful(attempts, snap)
BY DEF IInv, TypeOK, LedgerOK, KnowledgeOK, Orders

LEMMA UpdateKeeps ==
  ASSUME IInv, NEW o \in Orders, Update(o)
  PROVE  IInv'
<1> USE DEF Update, program
<1>1. PICK r \in Reports(o) : cache' = [cache EXCEPT ![o] = r]
  OBVIOUS
<1>2. r \in Snapshots /\ Truthful(o, r) BY ReportsAreTruthful
<1> USE DEF IInv, broker
<1>3. TypeOK' BY <1>1, <1>2 DEF TypeOK
<1>4. BrokerOK' BY DEF BrokerOK
<1>5. KnowledgeOK' BY <1>1, <1>2 DEF TypeOK, KnowledgeOK, Truthful
<1>6. LedgerOK' BY DEF LedgerOK, Traded
<1>7. OutcomeOK' BY DEF OutcomeOK, Traded, MayStillTrade
<1>8. ReplacementIsRemainder' BY DEF ReplacementIsRemainder
<1>9. ResultsAreTrue' BY DEF ResultsAreTrue, Traded, MayStillTrade
<1>10. QED BY <1>3, <1>4, <1>5, <1>6, <1>7, <1>8, <1>9

LEMMA WatchMoves ==
  ASSUME ~BookLags, IInv,
         \/ PlaceReplied \/ Look \/ Poll \/ Deadline
         \/ ReadOrderBook \/ ReadTradeBook \/ AskToCancel
  PROVE  WatchMove
<1>0. /\ cache \in [Orders -> Snapshots] /\ snap \in Snapshots
      /\ \A o \in Orders : Truthful(o, cache[o])
      /\ late \in BOOLEAN /\ cancelRequested \in BOOLEAN
  BY DEF IInv, TypeOK, KnowledgeOK
<1>1. CASE PlaceReplied
  BY <1>0, <1>1, CurrentOrder DEF PlaceReplied, StartWait, WatchMove, Watching
<1>2. CASE Look
  BY <1>0, <1>2, CurrentOrder DEF Look, WatchMove, Watching
<1>3. CASE Deadline
  BY <1>0, <1>3, CurrentOrder DEF Deadline, WatchMove, Watching, broker
<1>4. CASE AskToCancel
  BY <1>0, <1>4, CurrentOrder DEF AskToCancel, StartWait, WatchMove, Watching
<1>5. CASE Poll
  <2>1. /\ attempts \in Orders /\ Truthful(attempts, snap) /\ pc \in Watching
    BY <1>5, CurrentOrder DEF Poll, Watching
  <2>2. pc' \in Watching BY <1>5 DEF Poll, AfterPoll, Watching
  <2>3. CASE UNCHANGED <<snap, cache>>
    BY <1>0, <1>5, <2>1, <2>2, <2>3 DEF Poll, WatchMove
  <2>4. ASSUME NEW r \in Reports(attempts), snap' = r,
               cache' = [cache EXCEPT ![attempts] = r]
        PROVE  WatchMove
    <3>1. r \in Snapshots /\ Truthful(attempts, r)
      BY <2>1, ReportsAreTruthful
    <3>2. QED BY <1>0, <1>5, <2>1, <2>2, <2>4, <3>1 DEF Poll, WatchMove
  <2>5. QED BY <1>5, <2>3, <2>4 DEF Poll
<1>6. CASE ReadOrderBook
  <2>1. /\ attempts \in Orders /\ Truthful(attempts, snap) /\ pc \in Watching
    BY <1>6, CurrentOrder DEF ReadOrderBook, Watching
  <2>2. pc' \in Watching BY <1>6 DEF ReadOrderBook, Watching
  <2>3. CASE UNCHANGED snap
    BY <1>0, <1>6, <2>1, <2>2, <2>3 DEF ReadOrderBook, WatchMove
  <2>4. CASE snap' = WithOrderBook(snap, Current(attempts))
    <3>1. filled[attempts] \in 0 .. Qty
      BY <2>1 DEF IInv, TypeOK
    <3>2. snap' \in Snapshots /\ Truthful(attempts, snap')
      BY <1>0, <2>1, <2>4, <3>1, OrderAssumption
      DEF WithOrderBook, Current, Snapshots, Truthful, IsFinal, Final
    <3>3. QED BY <1>0, <1>6, <2>1, <2>2, <3>2 DEF ReadOrderBook, WatchMove
  <2>5. QED BY <1>6, <2>3, <2>4 DEF ReadOrderBook, BookAnswers
<1>7. CASE ReadTradeBook
  <2>1. /\ attempts \in Orders /\ Truthful(attempts, snap) /\ pc \in Watching
    BY <1>7, CurrentOrder DEF ReadTradeBook, Watching
  <2>2. pc' \in Watching BY <1>7 DEF ReadTradeBook, Watching
  <2>3. /\ filled[attempts] \in 0 .. Qty /\ size[attempts] \in 0 .. Qty
        /\ filled[attempts] <= size[attempts] /\ size[attempts] > 0
        /\ status[attempts] = "COMPLETE" <=> filled[attempts] = size[attempts]
    BY <1>7, <2>1 DEF IInv, TypeOK, BrokerOK, LedgerOK, ReadTradeBook, Watching
  <2>4. ASSUME NEW s \in Snapshots, Truthful(attempts, s), snap' = Capped(s)
        PROVE  WatchMove
    <3>1. Capped(s) \in Snapshots /\ Truthful(attempts, Capped(s))
      BY <2>3, <2>4, OrderAssumption
      DEF Capped, Snapshots, Truthful, IsFinal, Final
    <3>2. QED BY <1>0, <1>7, <2>1, <2>2, <2>4, <3>1 DEF ReadTradeBook, WatchMove
  <2>5. LET s == WithTradeBook(snap, Current(attempts).filled)
        IN  s \in Snapshots /\ Truthful(attempts, s)
    BY <1>0, <2>1, <2>3, OrderAssumption
    DEF WithTradeBook, Current, Snapshots, Truthful, IsFinal, Final
  <2>6. QED BY <1>0, <1>7, <2>1, <2>4, <2>5 DEF ReadTradeBook, BookAnswers
<1>8. QED BY <1>1, <1>2, <1>3, <1>4, <1>5, <1>6, <1>7

LEMMA PlaceKeeps ==
  ASSUME IInv, Place
  PROVE  IInv'
<1> USE OrderAssumption DEF IInv, Place, AttemptQty, Remaining
<1>1. /\ attempts \in 0 .. MaxAttempts /\ attempts < MaxAttempts
      /\ total \in 0 .. Qty /\ total < Qty
      /\ attempts + 1 \in Orders
  BY DEF TypeOK, LedgerOK, Orders
<1>2. /\ size' = [size EXCEPT ![attempts + 1] = Qty - total]
      /\ attempts' = attempts + 1 /\ pc' = "placing"
      /\ status[attempts + 1] = "none" /\ filled[attempts + 1] = 0
      /\ Qty - total \in 1 .. Qty
      /\ outcome = "none"
  BY <1>1 DEF BrokerOK, LedgerOK
<1>3. TypeOK'
  <2>1. size' \in [Orders -> 0 .. Qty] /\ attempts' \in 0 .. MaxAttempts
    BY <1>1, <1>2 DEF TypeOK
  <2>2. QED BY <1>2, <2>1 DEF TypeOK, Pcs
<1>4. BrokerOK' BY <1>1, <1>2 DEF TypeOK, BrokerOK, Orders
<1>5. KnowledgeOK' BY <1>2 DEF KnowledgeOK, Truthful, Watching
<1>6. LedgerOK' BY <1>1, <1>2 DEF TypeOK, LedgerOK, Watching
<1>7. OutcomeOK' /\ ResultsAreTrue'
  BY <1>2 DEF OutcomeOK, ResultsAreTrue
<1>8. ReplacementIsRemainder'
  <2>1. attempts = 0 => total = 0
    BY DEF LedgerOK, Traded
  <2>2. attempts > 0 => /\ attempts \in Orders /\ status[attempts] \in Final
                        /\ Qty - total = size[attempts] - filled[attempts]
    <3>1. attempts > 0 =>
            /\ attempts \in Orders /\ status[attempts] \in Final
            /\ size[attempts] \in 0 .. Qty /\ filled[attempts] \in 0 .. Qty
      BY <1>1 DEF TypeOK, LedgerOK, Orders
    <3>2. attempts > 0 => total = Qty - size[attempts] + filled[attempts]
      BY <1>1 DEF LedgerOK, Traded
    <3>3. QED BY <1>1, <3>1, <3>2
  <2>3. size'[1] = Qty
    BY <1>1, <1>2, <2>1 DEF TypeOK, Orders, ReplacementIsRemainder
  <2>4. ASSUME NEW o \in Orders, o < attempts + 1
        PROVE  status[o] \in Final /\ size'[o + 1] = size'[o] - filled[o]
    <3>1. CASE o = attempts
      BY <1>1, <1>2, <2>2, <2>4, <3>1 DEF TypeOK, Orders
    <3>2. CASE o # attempts
      BY <1>1, <1>2, <2>4, <3>2 DEF TypeOK, Orders, ReplacementIsRemainder
    <3>3. QED BY <3>1, <3>2
  <2>5. QED BY <1>2, <2>3, <2>4 DEF ReplacementIsRemainder
<1>9. QED BY <1>3, <1>4, <1>5, <1>6, <1>7, <1>8

\* The end of the request: no order is touched, the kill switch is only set.
EndMove ==
  /\ pc' \in {"ended", "returned"} /\ outcome' \in Outcomes \ {"none"}
  /\ kill' \in BOOLEAN
  /\ kill => kill'
  /\ total' \in 0 .. Qty
  /\ UNCHANGED <<broker, attempts, cache, snap, late, cancelRequested, caller>>

LEMMA EndKeeps ==
  ASSUME IInv, EndMove, OutcomeOK', ResultsAreTrue'
  PROVE  IInv'
<1> USE DEF IInv, EndMove, broker
<1>1. TypeOK'
  <2>1. pc' \in Pcs BY DEF Pcs
  <2>2. outcome' \in Outcomes /\ total' \in 0 .. Qty /\ kill' \in BOOLEAN
    OBVIOUS
  <2>3. UNCHANGED <<status, size, filled, attempts, cache, snap, late,
                    cancelRequested, caller>>
    OBVIOUS
  <2>4. TypeOK OBVIOUS
  <2> HIDE DEF IInv, EndMove
  <2>5. QED BY <2>1, <2>2, <2>3, <2>4 DEF TypeOK
<1>2. BrokerOK' BY DEF BrokerOK
<1>3. KnowledgeOK' BY DEF KnowledgeOK, Truthful, Watching
<1>4. LedgerOK' BY DEF LedgerOK, Watching
<1>5. ReplacementIsRemainder' BY DEF ReplacementIsRemainder
<1>6. QED BY <1>1, <1>2, <1>3, <1>4, <1>5

\* Where the current order stands when its placement or its watch ends.
LEMMA CurrentLedger ==
  ASSUME IInv, pc \in Watching \cup {"placing"}
  PROVE  /\ attempts \in Orders /\ attempts > 0
         /\ size[attempts] \in 1 .. Qty /\ filled[attempts] \in 0 .. Qty
         /\ filled[attempts] <= size[attempts]
         /\ total = Qty - size[attempts] /\ total \in 0 .. Qty
         /\ Traded = total + filled[attempts]
         /\ outcome = "none" /\ kill \in BOOLEAN
<1>1. attempts \in Orders /\ attempts > 0
  BY DEF IInv, TypeOK, LedgerOK, Orders
<1>2. /\ size[attempts] \in 1 .. Qty /\ filled[attempts] \in 0 .. Qty
      /\ filled[attempts] <= size[attempts]
  BY <1>1, OrderAssumption DEF IInv, TypeOK, LedgerOK, BrokerOK
<1>3. /\ total = Qty - size[attempts] /\ total \in 0 .. Qty
      /\ kill \in BOOLEAN
  BY DEF IInv, TypeOK, LedgerOK
<1>4. outcome = "none"
  BY DEF IInv, LedgerOK, Watching
<1>5. QED BY <1>1, <1>2, <1>3, <1>4, OrderAssumption DEF Traded

LEMMA EndMoves ==
  ASSUME IInv,
         \/ PlaceWithoutId \/ PlaceLost \/ GiveUp \/ Return \/ Interrupt
  PROVE  IInv'
<1>1. CASE PlaceWithoutId \/ GiveUp
  <2>1. EndMove /\ kill' /\ outcome' = "raised"
    BY <1>1 DEF IInv, TypeOK, PlaceWithoutId, GiveUp, CancelUnconfirmed, End,
               EndMove, Outcomes, broker
  <2>2. OutcomeOK' /\ ResultsAreTrue'
    BY <2>1 DEF OutcomeOK, ResultsAreTrue
  <2>3. QED BY <2>1, <2>2, EndKeeps
<1>2. CASE PlaceLost
  <2>1. pc = "placing" BY <1>2 DEF PlaceLost
  <2>2. EndMove /\ pc' = "ended" /\ total' = total /\ Traded' = Traded
    BY <1>2 DEF IInv, TypeOK, PlaceLost, PlacementFailed, End, EndMove,
               Outcomes, broker, Traded
  <2>3. total <= Traded BY <2>1, CurrentLedger, OrderAssumption
  <2>4. CASE total > 0
    <3>1. outcome' = "partial" /\ kill'
      BY <1>2, <2>4 DEF PlaceLost, PlacementFailed, End
    <3>2. OutcomeOK' /\ ResultsAreTrue'
      BY <2>2, <2>3, <2>4, <3>1 DEF OutcomeOK, ResultsAreTrue, IInv, TypeOK
    <3>3. QED BY <2>2, <3>2, EndKeeps
  <2>5. CASE ~(total > 0)
    <3>1. outcome' = "lost"
      BY <1>2, <2>5 DEF PlaceLost, PlacementFailed, End
    <3>2. OutcomeOK' /\ ResultsAreTrue'
      BY <2>2, <3>1 DEF OutcomeOK, ResultsAreTrue
    <3>3. QED BY <2>2, <3>2, EndKeeps
  <2>6. QED BY <2>4, <2>5
<1>3. CASE Return
  <2>1. EndMove /\ outcome' = outcome /\ total' = total /\ Traded' = Traded
        /\ MayStillTrade' = MayStillTrade
    BY <1>3 DEF IInv, TypeOK, LedgerOK, Return, EndMove, Outcomes, broker,
               Traded, MayStillTrade
  <2>2. kill' = (kill \/ (caller = "exit" /\ outcome \in {"raised", "lost"}))
        /\ caller' = caller /\ caller \in {"entry", "exit"}
    BY <1>3 DEF Return, IInv, TypeOK
  <2>3. OutcomeOK' /\ ResultsAreTrue'
    BY <2>1, <2>2 DEF IInv, OutcomeOK, ResultsAreTrue
  <2>4. QED BY <2>1, <2>3, EndKeeps
<1>4. CASE Interrupt
  <2>1. EndMove /\ outcome' = "interrupted"
    BY <1>4 DEF IInv, TypeOK, Interrupt, EndMove, Outcomes, broker
  <2>2. OutcomeOK' /\ ResultsAreTrue'
    BY <2>1 DEF OutcomeOK, ResultsAreTrue
  <2>3. QED BY <2>1, <2>2, EndKeeps
<1>5. QED BY <1>1, <1>2, <1>3, <1>4

LEMMA RefusedKeeps ==
  ASSUME IInv, PlaceRefused
  PROVE  IInv'
<1> USE DEF PlaceRefused
<1>1. /\ pc' = "ended" /\ total' = total /\ attempts' = attempts
      /\ kill' \in BOOLEAN /\ outcome' \in {"partial", "refused"}
      /\ kill => kill'
      /\ outcome' = "partial" => total > 0 /\ kill'
      /\ outcome' = "refused" => ~(total > 0)
  BY DEF PlacementFailed, End, IInv, TypeOK
<1>2. /\ attempts \in Orders /\ attempts > 0 /\ filled[attempts] = 0
      /\ status' = [status EXCEPT ![attempts] = "refused"]
      /\ total = Traded /\ total \in 0 .. Qty
  BY CurrentLedger DEF IInv, BrokerOK
<1>3. Traded' = Traded /\ ~MayStillTrade'
  BY <1>1, <1>2 DEF Traded, MayStillTrade, IInv, TypeOK
<1> USE OrderAssumption DEF IInv
<1>4. TypeOK' BY <1>1, <1>2 DEF TypeOK, Pcs, Outcomes
<1>5. BrokerOK' BY <1>1, <1>2 DEF TypeOK, BrokerOK, Orders, LedgerOK
<1>6. KnowledgeOK'
  <2>1. status[attempts] = "none" OBVIOUS
  <2>2. \A o \in Orders : ~IsFinal(cache[o]) \/ o # attempts
    BY <1>2, <2>1 DEF KnowledgeOK, Truthful, IsFinal, Final
  <2>3. QED BY <1>1, <1>2, <2>2 DEF TypeOK, KnowledgeOK, Truthful, Watching
<1>7. LedgerOK' BY <1>1 DEF LedgerOK, Watching
<1>8. OutcomeOK' /\ ResultsAreTrue'
  BY <1>1, <1>2, <1>3 DEF OutcomeOK, ResultsAreTrue
<1>9. ReplacementIsRemainder'
  BY <1>1, <1>2 DEF ReplacementIsRemainder, TypeOK, Orders
<1>10. QED BY <1>4, <1>5, <1>6, <1>7, <1>8, <1>9

LEMMA SettleKeeps ==
  ASSUME IInv, Settle
  PROVE  IInv'
<1>1. pc = "settle" /\ IsFinal(snap) /\ total' = total + snap.filled
      /\ UNCHANGED <<broker, attempts, cache, snap, late, cancelRequested, caller>>
  BY DEF Settle, Booked
<1>2. /\ status[attempts] = snap.status /\ filled[attempts] = snap.filled
      /\ snap.status \in Final
  BY <1>1, CurrentOrder DEF Watching, Truthful, IsFinal
<1>3. total' = Traded /\ total' \in 0 .. Qty /\ Traded' = Traded /\ ~MayStillTrade'
  BY <1>1, <1>2, CurrentLedger, OrderAssumption
  DEF Watching, Traded, MayStillTrade, Final, broker
<1>4. snap.status = "COMPLETE" => total' = Qty
  BY <1>1, <1>2, CurrentLedger, OrderAssumption DEF Watching, IInv, BrokerOK
<1>5. CASE snap.status = "COMPLETE" \/ total' = Qty
  <2>1. total' = Qty /\ total' > 0 BY <1>4, <1>5, OrderAssumption
  <2>2. pc' = "ended" /\ outcome' = "complete" /\ kill' = kill
    BY <1>5, <2>1 DEF Settle, End, IInv, TypeOK
  <2>3. EndMove
    BY <1>1, <1>3, <2>2 DEF EndMove, Outcomes, IInv, TypeOK
  <2>4. OutcomeOK' /\ ResultsAreTrue'
    BY <1>3, <2>1, <2>2, OrderAssumption DEF OutcomeOK, ResultsAreTrue
  <2>5. QED BY <2>3, <2>4, EndKeeps
<1>6. CASE ~(snap.status = "COMPLETE" \/ total' = Qty)
  <2>1. PICK isRetryable \in BOOLEAN :
          IF MayRetry(isRetryable)
          THEN pc' = "next" /\ UNCHANGED <<kill, outcome>>
          ELSE End(IF total' > 0 THEN "partial" ELSE "unfilled", FALSE)
    BY <1>6 DEF Settle
  <2>2. CASE MayRetry(isRetryable)
    <3>1. /\ pc' = "next" /\ outcome' = "none" /\ kill' = kill
          /\ attempts < MaxAttempts /\ total' < Qty
      <4>1. pc' = "next" /\ UNCHANGED <<kill, outcome>> BY <2>1, <2>2
      <4>2. outcome = "none" BY <1>1, CurrentLedger DEF Watching
      <4>3. attempts < MaxAttempts BY <2>2 DEF MayRetry
      <4>4. QED BY <1>3, <1>6, <4>1, <4>2, <4>3, OrderAssumption
    <3> USE <1>1, <1>3, <3>1 DEF IInv, broker
    <3>2. TypeOK' BY DEF TypeOK, Pcs, Outcomes
    <3>3. BrokerOK' BY DEF BrokerOK
    <3>4. KnowledgeOK' BY DEF KnowledgeOK, Truthful, Watching
    <3>5. LedgerOK' BY <1>2 DEF LedgerOK, Watching
    <3>6. OutcomeOK' /\ ResultsAreTrue' BY DEF OutcomeOK, ResultsAreTrue
    <3>7. ReplacementIsRemainder' BY DEF ReplacementIsRemainder
    <3>8. QED BY <3>2, <3>3, <3>4, <3>5, <3>6, <3>7
  <2>3. CASE ~MayRetry(isRetryable)
    <3>1. /\ pc' = "ended" /\ kill' = kill
          /\ outcome' = IF total' > 0 THEN "partial" ELSE "unfilled"
      BY <2>1, <2>3 DEF End, IInv, TypeOK
    <3>2. EndMove
      BY <1>1, <1>3, <3>1 DEF EndMove, Outcomes, IInv, TypeOK
    <3>3. OutcomeOK' /\ ResultsAreTrue'
      BY <1>3, <3>1, OrderAssumption DEF OutcomeOK, ResultsAreTrue
    <3>4. QED BY <3>2, <3>3, EndKeeps
  <2>4. QED BY <2>2, <2>3
<1>7. QED BY <1>5, <1>6

LEMMA StepKeeps == ~BookLags /\ IInv /\ [Next]_vars => IInv'
<1> SUFFICES ASSUME ~BookLags, IInv, [Next]_vars PROVE IInv'
  OBVIOUS
<1>1. CASE Broker
  <2>1. PICK o \in Orders :
          \/ Accept(o) \/ CancelOrder(o) \/ RejectOrder(o) \/ Update(o)
          \/ \E n \in 1 .. Qty : Fill(o, n)
    BY <1>1 DEF Broker
  <2>2. QED BY <2>1, BrokerMoves, BrokerKeeps, UpdateKeeps
<1>2. CASE Program
  <2>1. CASE \/ PlaceReplied \/ Look \/ Poll \/ ReadOrderBook \/ ReadTradeBook
             \/ AskToCancel
    BY <2>1, WatchMoves, WatchKeeps
  <2>2. CASE PlaceWithoutId \/ PlaceLost \/ GiveUp \/ Return
    BY <2>2, EndMoves
  <2>3. QED
    BY <1>2, <2>1, <2>2, PlaceKeeps, RefusedKeeps, SettleKeeps DEF Program
<1>3. CASE Deadline BY <1>3, WatchMoves, WatchKeeps
<1>4. CASE Interrupt BY <1>4, EndMoves
<1>5. CASE UNCHANGED vars
  BY <1>5 DEF vars, IInv, TypeOK, BrokerOK, KnowledgeOK, Truthful, LedgerOK,
    OutcomeOK, ReplacementIsRemainder, ResultsAreTrue, Traded, MayStillTrade
<1>6. QED BY <1>1, <1>2, <1>3, <1>4, <1>5 DEF Next

\* The inductive invariant holds: every snapshot the program keeps is
\* truthful, and its books agree with the broker's.
THEOREM Invariance == ASSUME ~BookLags PROVE Spec => []IInv
<1>1. IInv /\ [Next]_vars => IInv' BY StepKeeps
<1>2. QED BY <1>1, InitIInv, PTL DEF Spec

\* Every variable keeps its type (all of the module's state).
THEOREM TypeCorrect == ASSUME ~BookLags PROVE Spec => []TypeOK
<1>1. IInv => TypeOK BY DEF IInv
<1>2. QED BY <1>1, Invariance, PTL

\* A replacement order is placed only for what the finished orders left
\* unfilled.
THEOREM NoOverfill == ASSUME ~BookLags PROVE Spec => []ReplacementIsRemainder
<1>1. IInv => ReplacementIsRemainder BY DEF IInv
<1>2. QED BY <1>1, Invariance, PTL

\* A result never claims fills that did not happen, and without the kill
\* switch it leaves none out.
THEOREM TruthfulResults == ASSUME ~BookLags PROVE Spec => []ResultsAreTrue
<1>1. IInv => ResultsAreTrue BY DEF IInv
<1>2. QED BY <1>1, Invariance, PTL

\* What a request leaves unresolved at the broker, the kill switch announces;
\* except the lost placement of an entry.
THEOREM Unnoticed == ASSUME ~BookLags PROVE Spec => []NothingLeftUnnoticed
<1>1. IInv => NothingLeftUnnoticed
  <2> SUFFICES ASSUME IInv, pc = "returned", outcome # "interrupted",
                      MayStillTrade \/ total # Traded
               PROVE  kill \/ (caller = "entry" /\ outcome = "lost")
    BY DEF NothingLeftUnnoticed
  <2>1. outcome \in Outcomes \ {"none", "interrupted"}
    BY DEF IInv, TypeOK, LedgerOK
  <2>2. QED
    BY <2>1 DEF IInv, OutcomeOK, ResultsAreTrue, Outcomes
<1>2. QED BY <1>1, Invariance, PTL
-----------------------------------------------------------------------------
(* The detailed specification implements OrderIntent.                      *)

Working == IF attempts > 0 /\ status[attempts] = "OPEN"
           THEN size[attempts] - filled[attempts] ELSE 0
Answer == IF outcome \in {"complete", "partial"} THEN total ELSE -1

\* The abstract state does not change.
Silent == UNCHANGED <<Traded, Working, Answer, kill>>

LEMMA SilentStutters == ASSUME Silent PROVE UNCHANGED Intent!vars
BY DEF Silent, Intent!vars, Working, Answer

\* Only the current order is alive at the broker.
LEMMA AliveIsCurrent ==
  ASSUME IInv, NEW o \in Orders, status[o] \in {"none", "OPEN"}, size[o] > 0
  PROVE  /\ o = attempts /\ attempts > 0 /\ MayStillTrade
         /\ Traded = Qty - size[o] + filled[o]
         /\ size[o] \in 0 .. Qty /\ filled[o] \in 0 .. Qty
         /\ filled[o] < size[o]
         /\ status[o] = "none" => filled[o] = 0
<1>1. ~(o > attempts) BY DEF IInv, BrokerOK
<1>2. ~(o < attempts)
  BY DEF IInv, ReplacementIsRemainder, Final
<1>3. o = attempts /\ attempts > 0
  BY <1>1, <1>2, OrderAssumption DEF IInv, TypeOK, Orders
<1>4. /\ size[o] \in 0 .. Qty /\ filled[o] \in 0 .. Qty
      /\ filled[o] <= size[o] /\ filled[o] # size[o]
      /\ status[o] = "none" => filled[o] = 0
  BY DEF IInv, TypeOK, BrokerOK
<1>5. QED BY <1>3, <1>4 DEF MayStillTrade, Traded

LEMMA BrokerImplements ==
  ASSUME IInv, NEW o \in Orders,
         \/ Accept(o) \/ CancelOrder(o) \/ RejectOrder(o)
         \/ \E n \in 1 .. Qty : Fill(o, n)
  PROVE  Intent!Next
<1>1. /\ o = attempts /\ attempts > 0 /\ MayStillTrade
      /\ Traded = Qty - size[o] + filled[o]
      /\ size[o] \in 0 .. Qty /\ filled[o] \in 0 .. Qty
      /\ filled[o] < size[o]
      /\ status[o] = "none" => filled[o] = 0
  <2>1. status[o] \in {"none", "OPEN"} /\ size[o] > 0
    BY DEF Accept, CancelOrder, RejectOrder, Fill, IInv, BrokerOK
  <2>2. QED BY <2>1, AliveIsCurrent
<1>2. /\ status \in [Orders -> Final \cup {"none", "OPEN", "refused"}]
      /\ filled \in [Orders -> 0 .. Qty]
  BY DEF IInv, TypeOK
<1>3. CASE Accept(o)
  <2>1. /\ Working = 0 /\ Traded < Qty /\ Working' = Qty - Traded
        /\ Traded' = Traded
    BY <1>1, <1>2, <1>3, OrderAssumption DEF Accept, program, Working, Traded
  <2>2. Answer = -1 \/ kill
    BY <1>1 DEF Answer, IInv, ResultsAreTrue
  <2>3. Answer' = Answer /\ kill' = kill
    BY <1>3 DEF Accept, program, Answer
  <2>4. Intent!Send
    BY <2>1, <2>2, <2>3 DEF Intent!Send, Working, Answer
  <2>5. QED BY <2>4 DEF Intent!Next
<1>4. CASE CancelOrder(o) \/ RejectOrder(o)
  <2>1. Working' = 0 /\ Traded' = Traded /\ Answer' = Answer /\ kill' = kill
    BY <1>1, <1>2, <1>4
    DEF CancelOrder, RejectOrder, program, Working, Traded, Answer
  <2>2. QED BY <2>1 DEF Intent!Next, Intent!Withdraw, Working, Answer
<1>5. ASSUME NEW n \in 1 .. Qty, Fill(o, n) PROVE Intent!Next
  <2>1. /\ status[o] = "OPEN" /\ filled[o] + n <= size[o]
        /\ filled' = [filled EXCEPT ![o] = filled[o] + n]
        /\ status' = [status EXCEPT ![o] =
                        IF filled[o] + n = size[o] THEN "COMPLETE" ELSE "OPEN"]
        /\ size' = size /\ attempts' = attempts /\ total' = total
        /\ outcome' = outcome /\ kill' = kill
    BY <1>5 DEF Fill, program
  <2>2. filled'[o] = filled[o] + n
    BY <1>2, <2>1
  <2>3. Working = size[o] - filled[o] /\ n \in 1 .. Working
    BY <1>1, <2>1 DEF Working
  <2>4. Traded' = Traded + n
    BY <1>1, <2>1, <2>2, OrderAssumption DEF Traded
  <2>5. Working' = Working - n
    <3>1. CASE filled[o] + n = size[o]
      BY <1>1, <1>2, <2>1, <2>3, <3>1 DEF Working
    <3>2. CASE filled[o] + n # size[o]
      <4>1. status'[o] = "OPEN" BY <1>2, <2>1, <3>2
      <4>2. Working' = size[o] - (filled[o] + n)
        BY <1>1, <2>1, <2>2, <4>1 DEF Working
      <4>3. QED BY <1>1, <2>3, <4>2
    <3>3. QED BY <3>1, <3>2
  <2>6. Answer' = Answer BY <2>1 DEF Answer
  <2>7. Intent!Trade
    BY <2>1, <2>3, <2>4, <2>5, <2>6 DEF Intent!Trade, Working, Answer
  <2>8. QED BY <2>7 DEF Intent!Next
<1>6. QED BY <1>3, <1>4, <1>5

\* A step that ends the request without a result, or after it.
LEMMA QuietEnd ==
  ASSUME IInv, UNCHANGED <<Traded, Working, Answer>>, kill' \in {kill, TRUE}
  PROVE  Intent!Next \/ UNCHANGED Intent!vars
<1>1. CASE kill' = kill
  BY <1>1 DEF Intent!vars, Working, Answer
<1>2. CASE kill' = TRUE
  BY <1>2 DEF Intent!Next, Intent!Alarm, Working, Answer
<1>3. QED BY <1>1, <1>2

\* A step that returns a result.
LEMMA ResultReported ==
  ASSUME IInv, IInv', outcome = "none", outcome' \in {"complete", "partial"},
         UNCHANGED <<Traded, Working>>, kill' \in {kill, TRUE}
  PROVE  Intent!Next
<1>1. Answer = -1 /\ Answer' = total' BY DEF Answer
<1>2. total' \in Nat /\ total' <= Traded' /\ Traded' \in Int
  <2>1. total' \in 0 .. Qty /\ Traded' \in Int
    <3>1. (attempts > 0 => attempts \in Orders)'
      BY DEF IInv, TypeOK, Orders
    <3>2. QED BY <3>1, OrderAssumption DEF IInv, TypeOK, Traded
  <2>2. QED BY <2>1, OrderAssumption DEF IInv, ResultsAreTrue
<1>3. ~kill' => total' = Traded' /\ Working' = 0
  BY DEF IInv, ResultsAreTrue, Working, MayStillTrade
<1>4. Intent!Report
  <2>1. Answer' \in 0 .. Traded BY <1>1, <1>2
  <2>2. ~kill' => Answer' = Traded /\ Working = 0
    BY <1>1, <1>3
  <2>3. QED BY <1>1, <2>1, <2>2 DEF Intent!Report, Working, Answer
<1>5. QED BY <1>4 DEF Intent!Next

LEMMA EndImplements ==
  ASSUME IInv, IInv',
         \/ PlaceWithoutId \/ PlaceLost \/ PlaceRefused \/ GiveUp \/ Settle
         \/ Return \/ Interrupt
  PROVE  Intent!Next \/ UNCHANGED Intent!vars
<1>1. /\ UNCHANGED <<size, filled, attempts>>
      /\ kill' \in {kill, TRUE} /\ kill \in BOOLEAN
  BY DEF PlaceWithoutId, PlaceLost, PlaceRefused, PlacementFailed, GiveUp,
         CancelUnconfirmed, End, Settle, Return, Interrupt, broker, IInv, TypeOK
<1>2. /\ Working' = Working /\ Traded' = Traded
  <2>1. CASE PlaceRefused
    <3>1. attempts \in Orders
      BY <2>1, CurrentLedger DEF PlaceRefused
    <3>2. status'[attempts] = "refused" /\ status[attempts] = "none"
      BY <2>1, <3>1 DEF PlaceRefused, IInv, TypeOK
    <3>3. QED BY <1>1, <3>2 DEF Working, Traded
  <2>2. CASE ~PlaceRefused
    <3>1. status' = status
      BY <2>2 DEF PlaceWithoutId, PlaceLost, GiveUp, Settle, Return, Interrupt,
                  broker
    <3>2. QED BY <1>1, <3>1 DEF Working, Traded
  <2>3. QED BY <2>1, <2>2
<1>3. CASE outcome = "none" /\ outcome' \in {"complete", "partial"}
  BY <1>1, <1>2, <1>3, ResultReported
<1>4. CASE ~(outcome = "none" /\ outcome' \in {"complete", "partial"})
  <2>1. CASE Return
    <3>1. Answer' = Answer BY <2>1 DEF Return, Answer
    <3>2. QED BY <1>1, <1>2, <3>1, QuietEnd
  <2>2. CASE ~Return
    <3>1. outcome = "none"
      BY <2>2 DEF IInv, LedgerOK, PlaceWithoutId, PlaceLost, PlaceRefused,
                  GiveUp, Settle, Interrupt
    <3>2. Answer' = Answer BY <1>4, <3>1 DEF Answer
    <3>3. QED BY <1>1, <1>2, <3>2, QuietEnd
  <2>3. QED BY <2>1, <2>2
<1>5. QED BY <1>3, <1>4

LEMMA PlaceIsSilent == ASSUME IInv, Place PROVE Silent
<1> USE OrderAssumption DEF IInv, Place, AttemptQty, Remaining
<1>1. /\ attempts \in 0 .. MaxAttempts /\ attempts < MaxAttempts
      /\ total \in 0 .. Qty
      /\ attempts + 1 \in Orders
      /\ total = Traded
      /\ attempts > 0 => status[attempts] \in Final
  BY DEF TypeOK, LedgerOK, Orders
<1>2. /\ size' = [size EXCEPT ![attempts + 1] = Qty - total]
      /\ attempts' = attempts + 1
      /\ status[attempts + 1] = "none" /\ filled[attempts + 1] = 0
  BY <1>1 DEF BrokerOK
<1>3. size'[attempts + 1] = Qty - total
  BY <1>1, <1>2 DEF TypeOK
<1>4. Traded' = Qty - (Qty - total) + 0
  BY <1>1, <1>2, <1>3 DEF Traded
<1>5. Traded' = Traded BY <1>1, <1>4
<1>6. Working = 0 /\ Working' = 0
  BY <1>1, <1>2 DEF Working, Final
<1>7. QED BY <1>5, <1>6 DEF Silent, Answer

LEMMA StepImplements ==
  ASSUME ~BookLags, IInv, IInv', [Next]_vars
  PROVE  [Intent!Next]_(Intent!vars)
<1>1. CASE Broker
  <2>1. PICK o \in Orders :
          \/ Accept(o) \/ CancelOrder(o) \/ RejectOrder(o) \/ Update(o)
          \/ \E n \in 1 .. Qty : Fill(o, n)
    BY <1>1 DEF Broker
  <2>2. CASE Update(o)
    <3>1. Silent
      BY <2>2 DEF Update, broker, program, Silent, Traded, Working, Answer
    <3>2. QED BY <3>1, SilentStutters
  <2>3. QED BY <2>1, <2>2, BrokerImplements
<1>2. CASE \/ PlaceReplied \/ Look \/ Poll \/ ReadOrderBook \/ ReadTradeBook
           \/ AskToCancel \/ Deadline
  <2>1. WatchMove BY <1>2, WatchMoves
  <2>2. Silent
    BY <2>1 DEF WatchMove, broker, Silent, Traded, Working, Answer
  <2>3. QED BY <2>2, SilentStutters
<1>3. CASE \/ PlaceWithoutId \/ PlaceLost \/ PlaceRefused \/ GiveUp \/ Settle
           \/ Return \/ Interrupt
  BY <1>3, EndImplements
<1>4. CASE Place BY <1>4, PlaceIsSilent, SilentStutters
<1>5. CASE UNCHANGED vars
  <2>1. Silent BY <1>5 DEF vars, Silent, Traded, Working, Answer
  <2>2. QED BY <2>1, SilentStutters
<1>6. QED BY <1>1, <1>2, <1>3, <1>4, <1>5 DEF Next, Program

\* A request made of several broker orders behaves as a single intent.
THEOREM Refinement == ASSUME ~BookLags PROVE Spec => ImplementsIntent
<1>1. Init => Intent!Init
  BY DEF Init, Intent!Init, Traded
<1>2. IInv /\ IInv' /\ [Next]_vars => [Intent!Next]_(Intent!vars)
  BY StepImplements
<1>3. QED BY <1>1, <1>2, Invariance, PTL DEF Spec, Intent!Spec, ImplementsIntent
=============================================================================

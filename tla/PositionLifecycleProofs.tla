---------------------- MODULE PositionLifecycleProofs ----------------------
(***************************************************************************)
(* What holds of a position for any number of services, exits, targets and  *)
(* shares.  Three parts of an inductive invariant: who may have an order    *)
(* (Locked), that nothing closes a position behind a booking's back         *)
(* (Monitored), and that nobody believes in fewer shares than there are    *)
(* (Covered), which order updates may break.  A fourth (Agreed) holds when  *)
(* one service does it all and every order's result is known.               *)
(***************************************************************************)
EXTENDS PositionExits, FiniteSetTheorems, TLAPS

\* Where an exit is; the second line is of those that PositionExits adds.
Places ==
  {"idle", "begin", "lock", "send", "wait",
   "trigger", "list", "manual", "ask", "sell"}

TypeOK ==
  /\ held \in Int /\ loose \in Nat /\ squared \in BOOLEAN
  /\ row \in Row /\ obj \in [Processes -> Object]
  /\ lock \in Sellers \cup {"reconciler", Nobody}
  /\ signal \in [Processes -> BOOLEAN] /\ inflight \in [Processes -> BOOLEAN]
  /\ tick \in [Processes -> {"idle", "targets", "book", "booking",
                             "signalled", "write"}]
  /\ target \in [Processes -> Targets \cup {Nobody}]
  /\ task \in [Tasks -> Places]
  /\ want \in [Sellers -> Nat] /\ filled \in [Sellers -> Nat]
  /\ rec \in {"idle", "read", "ask", "check", "write"}
  /\ before \in Row /\ broker \in Int

\* Orders, and the reconciliation's reads, are under the lock.
Locked ==
  /\ \A t \in Tasks : (task[t] \in {"send", "wait", "ask", "sell"}) <=> (lock = t)
  /\ \A p \in Processes : (tick[p] \in {"book", "booking"}) <=> (lock = p)
  /\ (rec # "idle") <=> (lock = "reconciler")
  /\ \A t \in Tasks : task[t] \notin {"wait", "sell"} => want[t] = 0 /\ filled[t] = 0
  /\ \A p \in Processes : tick[p] # "booking" => want[p] = 0 /\ filled[p] = 0
  /\ \A x \in Sellers : filled[x] <= want[x]
  /\ \A p \in Processes :
       tick[p] \in {"book", "booking"} => target[p] \in Targets
  /\ rec = "write" => broker \in Nat

\* A booking works on the monitored object, with the row's quantity.
Monitored ==
  /\ \A p \in Processes :
       tick[p] # "idle" /\ ~obj[p].tracked => row.status = "CLOSED"
  /\ \A p \in Processes : obj[p].status = "CLOSED" => row.status = "CLOSED"
  /\ \A p \in Processes :
       tick[p] = "booking" => /\ obj[p].tracked /\ row.status # "CLOSED"
                              /\ want[p] <= obj[p].qty
  /\ \A t \in Tasks : task[t] = "wait" => row.status # "CLOSED"
  /\ before.status # "CLOSED"

\* What the reconciliation writes.
RecRow == [before EXCEPT !.qty = Least(broker, @),
                         !.status = IF broker = 0 THEN "CLOSED" ELSE @]

Inv == TypeOK /\ Locked /\ Monitored

\* Nobody believes in fewer shares than the broker holds.
Covered ==
  /\ held <= row.qty /\ \A p \in Processes : held <= obj[p].qty
  /\ row.status = "CLOSED" => held <= 0
  /\ \A t \in Tasks : task[t] = "wait" => held + filled[t] <= want[t]
  /\ \A p \in Processes :
       tick[p] = "booking" => held + filled[p] <= obj[p].qty
  /\ rec \in {"check", "write"} => held <= broker
  /\ rec \in {"ask", "check", "write"} => held <= before.qty

\* A square-off by the broker's quantity has been told of all that there is.
Sighted == \A t \in Tasks : task[t] = "sell" => held + filled[t] <= want[t]

\* An order update may count shares twice; the rest holds all the same.
InvX ==
  /\ Inv /\ Sighted /\ (counted \/ Covered)
  /\ named \in [Processes -> Int]
-----------------------------------------------------------------------------
\* What the operators on rows and objects return.
LEMMA HomeType == ASSUME NEW t \in Tasks PROVE Home[t] \in Processes
BY LifecycleAssumption

LEMMA PublicType ==
  ASSUME NEW o \in Object
  PROVE  /\ Public(o) \in Row
         /\ Public(o).status = o.status /\ Public(o).qty = o.qty
BY DEF Public, Object, Row

LEMMA UpsertedType ==
  ASSUME NEW old \in Row, NEW new \in Row
  PROVE  /\ Upserted(old, new) \in Row
         /\ Upserted(old, new) \in {old, new}
         /\ Upserted(old, new).status = "CLOSED" <=>
              old.status = "CLOSED" \/ new.status = "CLOSED"
         /\ old.status # "CLOSED" => Upserted(old, new) = new
BY DEF Upserted, Row

LEMMA FoundType ==
  ASSUME TypeOK, NEW p \in Processes
  PROVE  /\ Found(p) \in Object
         /\ obj[p].tracked => Found(p) = obj[p]
         /\ Found(p).status = "CLOSED" => obj[p].status = "CLOSED"
         /\ Found(p).qty \in {obj[p].qty, row.qty}
         /\ Found(p).tracked \/ (Found(p) = obj[p] /\ ~obj[p].tracked)
BY DEF TypeOK, Found, Hydrated, Row, Object, Statuses, Live

LEMMA StatusType ==
  ASSUME NEW o \in Object, NEW s \in Statuses
  PROVE  [o EXCEPT !.status = s] \in Object
BY DEF Object

LEMMA QtyType ==
  ASSUME NEW o \in Object, NEW q \in Nat
  PROVE  [o EXCEPT !.qty = q] \in Object
BY DEF Object

LEMMA TrackedType ==
  ASSUME NEW o \in Object, NEW k \in BOOLEAN
  PROVE  [o EXCEPT !.tracked = k] \in Object
BY DEF Object

LEMMA MarkedType ==
  ASSUME NEW o \in Object, NEW q \in Nat, NEW g \in Targets
  PROVE  [o EXCEPT !.qty = q, !.booked = @ \cup {g}] \in Object
<1>1. o.booked \cup {g} \in SUBSET Targets
  BY DEF Object
<1> QED
  BY <1>1 DEF Object

LEMMA BookedType ==
  ASSUME TypeOK, Locked, Monitored, NEW p \in Processes, tick[p] = "booking",
         NEW r \in 0 .. filled[p]
  PROVE  Booked(p, r) \in Object
<1>1. obj[p] \in Object /\ target[p] \in Targets
  BY DEF TypeOK, Locked
<1>2. r \in Nat /\ Left(obj[p].qty, r) \in Nat
  BY <1>1 DEF TypeOK, Locked, Monitored, Sellers, Left, Object
<1>3. AfterFill(Left(obj[p].qty, r)) \in Statuses /\ "ERROR" \in Statuses
  BY DEF AfterFill, Statuses, Live
<1>4. (IF r = want[p] THEN obj[p].booked \cup {target[p]} ELSE obj[p].booked)
        \in SUBSET Targets
  BY <1>1 DEF Object
<1>5. CASE r = 0
  BY <1>1, <1>3, <1>5, StatusType DEF Booked
<1>6. CASE r # 0
  BY <1>1, <1>2, <1>3, <1>4, <1>6 DEF Booked, Object
<1> QED
  BY <1>5, <1>6

LEMMA ExitedType ==
  ASSUME TypeOK, Locked, NEW t \in Tasks, NEW r \in 0 .. filled[t]
  PROVE  Exited(Home[t], want[t], r) \in Object
<1>1. obj[Home[t]] \in Object
  BY HomeType DEF TypeOK
<1>2. r \in Nat /\ Left(want[t], r) \in Nat
  BY DEF TypeOK, Locked, Sellers, Left
<1>3. AfterFill(Left(want[t], r)) \in Statuses /\ "ERROR" \in Statuses
  BY DEF AfterFill, Statuses, Live
<1>5. CASE r = 0
  BY <1>1, <1>3, <1>5, StatusType DEF Exited
<1>6. CASE r # 0
  BY <1>1, <1>2, <1>3, <1>6 DEF Exited, Object
<1> QED
  BY <1>5, <1>6

\* n shares are given up.
LEMMA GivenUpType ==
  ASSUME TypeOK, NEW n \in Nat PROVE GivenUp(n) \in Nat
BY LifecycleAssumption DEF TypeOK, GivenUp, Least
-----------------------------------------------------------------------------
\* What a target sells is a number of the row's shares.
LEMMA BookQtyType ==
  ASSUME TypeOK, Locked, NEW p \in Processes, tick[p] = "book"
  PROVE  BookQty(p) \in Nat /\ BookQty(p) <= row.qty
BY LifecycleAssumption DEF TypeOK, Locked, BookQty, Least, Row
-----------------------------------------------------------------------------
(* Every step keeps the invariant's parts.                                 *)

\* An order, or a read of the reconciliation, is begun with the lock only, and
\* the lock is given up with it.
LEMMA LockedStep ==
  ASSUME TypeOK, Locked, [Next]_vars
  PROVE  Locked'
<1>1. ASSUME NEW x \in Sellers, Fill(x) PROVE Locked'
  BY <1>1, LifecycleAssumption DEF Fill, Locked, TypeOK, Sellers, flagVars,
     tickVars, orderVars, recVars
<1>2. ASSUME LooseFill PROVE Locked'
  BY <1>2, LifecycleAssumption DEF LooseFill, Locked, TypeOK, Sellers,
     flagVars, tickVars, orderVars, recVars
<1>3. ASSUME NEW p \in Processes, Tick(p) PROVE Locked'
  BY <1>3, LifecycleAssumption DEF Tick, Locked, TypeOK, Sellers, flagVars,
     tickVars, orderVars, recVars
<1>4. ASSUME NEW p \in Processes, BookNothing(p) PROVE Locked'
  BY <1>4, LifecycleAssumption DEF BookNothing, BookEnds, Locked, TypeOK,
     Sellers, flagVars, tickVars, orderVars, recVars
<1>5. ASSUME NEW p \in Processes, BookSend(p) PROVE Locked'
  <2>1. BookQty(p) \in Nat
    BY <1>5, BookQtyType DEF BookSend
  <2> QED
    BY <2>1, <1>5, LifecycleAssumption
    DEF BookSend, Send, Locked, TypeOK, Sellers, flagVars, tickVars, orderVars, recVars
<1>6. ASSUME NEW p \in Processes, BookReturn(p) PROVE Locked'
  BY <1>6, LifecycleAssumption DEF BookReturn, Return, BookEnds, Locked,
     TypeOK, Sellers, flagVars, tickVars, orderVars, recVars
<1>7. ASSUME NEW p \in Processes, NoExit(p) PROVE Locked'
  BY <1>7, LifecycleAssumption DEF NoExit, Locked, TypeOK, Sellers, flagVars,
     tickVars, orderVars, recVars
<1>8. ASSUME NEW p \in Processes, ExitConditionsMet(p) PROVE Locked'
  BY <1>8, LifecycleAssumption DEF ExitConditionsMet, Locked, TypeOK, Sellers,
     flagVars, tickVars, orderVars, recVars
<1>9. ASSUME NEW p \in Processes, StartExit(p) PROVE Locked'
  BY <1>9, LifecycleAssumption DEF StartExit, Locked, TypeOK, Sellers,
     flagVars, tickVars, orderVars, recVars
<1>10. ASSUME NEW p \in Processes, TickWrite(p) PROVE Locked'
  BY <1>10, LifecycleAssumption DEF TickWrite, Locked, TypeOK, Sellers,
     flagVars, tickVars, orderVars, recVars
<1>11. ASSUME NEW p \in Processes, NEW g \in Targets, TargetReached(p, g) PROVE Locked'
  BY <1>11, LifecycleAssumption DEF TargetReached, LockFree, Locked, TypeOK,
     Sellers, flagVars, tickVars, orderVars, recVars
<1>12. ASSUME NEW p \in Processes, ExitAll(p) PROVE Locked'
  BY <1>12, LifecycleAssumption DEF ExitAll, Locked, TypeOK, Sellers, flagVars,
     tickVars, orderVars, recVars
<1>13. ASSUME NEW t \in Tasks, AlertExit(t) PROVE Locked'
  BY <1>13, LifecycleAssumption DEF AlertExit, Locked, TypeOK, Sellers,
     flagVars, tickVars, orderVars, recVars
<1>14. ASSUME NEW t \in Tasks, ManualExit(t) PROVE Locked'
  BY <1>14, LifecycleAssumption DEF ManualExit, Locked, TypeOK, Sellers,
     flagVars, tickVars, orderVars, recVars
<1>15. ASSUME NEW t \in Tasks, ExitBegin(t) PROVE Locked'
  BY <1>15, LifecycleAssumption DEF ExitBegin, ExitEnds, Locked, TypeOK,
     Sellers, flagVars, tickVars, orderVars, recVars
<1>16. ASSUME NEW t \in Tasks, ExitLock(t) PROVE Locked'
  BY <1>16, LifecycleAssumption DEF ExitLock, ExitEnds, LockFree, Locked,
     TypeOK, Sellers, flagVars, tickVars, orderVars, recVars
<1>17. ASSUME NEW t \in Tasks, ExitSend(t) PROVE Locked'
  BY <1>17, LifecycleAssumption
  DEF ExitSend, ExitEnds, Send, Locked, TypeOK, Sellers, Row, flagVars, tickVars, orderVars, recVars
<1>18. ASSUME NEW t \in Tasks, ExitReturn(t) PROVE Locked'
  BY <1>18, LifecycleAssumption DEF ExitReturn, Return, ExitEnds, Locked,
     TypeOK, Sellers, flagVars, tickVars, orderVars, recVars
<1>19. ASSUME RecLock PROVE Locked'
  BY <1>19, LifecycleAssumption DEF RecLock, Reconcilable, LockFree, Locked,
     TypeOK, Sellers, flagVars, tickVars, orderVars, recVars
<1>20. ASSUME RecRead PROVE Locked'
  BY <1>20, LifecycleAssumption DEF RecRead, RecEnds, Reconcilable, Locked,
     TypeOK, Sellers, flagVars, tickVars, orderVars, recVars
<1>21. ASSUME RecAsk PROVE Locked'
  BY <1>21, LifecycleAssumption DEF RecAsk, RecEnds, Locked, TypeOK, Sellers,
     flagVars, tickVars, orderVars, recVars
<1>22. ASSUME RecCheck PROVE Locked'
  BY <1>22, LifecycleAssumption DEF RecCheck, RecEnds, Locked, TypeOK, Sellers,
     flagVars, tickVars, orderVars, recVars
<1>23. ASSUME RecWrite PROVE Locked'
  BY <1>23, LifecycleAssumption DEF RecWrite, RecEnds, Locked, TypeOK, Sellers,
     flagVars, tickVars, orderVars, recVars
<1>24. ASSUME NEW p \in Mortal, Crash(p) PROVE Locked'
  BY <1>24, LifecycleAssumption DEF Crash, Locked, TypeOK, Sellers, flagVars,
     tickVars, orderVars, recVars
<1>25. CASE UNCHANGED vars
  BY <1>25, LifecycleAssumption DEF Locked, TypeOK, Sellers, vars, flagVars,
     tickVars, orderVars, recVars
<1> QED
  BY <1>1, <1>2, <1>3, <1>4, <1>5, <1>6, <1>7, <1>8, <1>9, <1>10, <1>11, <1>12,
     <1>13, <1>14, <1>15, <1>16, <1>17, <1>18, <1>19, <1>20, <1>21, <1>22,
     <1>23, <1>24, <1>25 DEF Next, TickStep, ExitStep, Reconcile

\* Every step keeps the types.
LEMMA TypeStep ==
  ASSUME TypeOK, Locked, Monitored, [Next]_vars
  PROVE  TypeOK'
<1>1. ASSUME NEW x \in Sellers, Fill(x) PROVE TypeOK'
  BY <1>1, LifecycleAssumption DEF Fill, TypeOK, Locked, Sellers, flagVars,
     tickVars, orderVars, recVars
<1>2. ASSUME LooseFill PROVE TypeOK'
  BY <1>2, LifecycleAssumption DEF LooseFill, TypeOK, Locked, Sellers,
     flagVars, tickVars, orderVars, recVars
<1>3. ASSUME NEW p \in Processes, Tick(p) PROVE TypeOK'
  <2>1. Found(p) \in Object /\ [obj[p] EXCEPT !.tracked = FALSE] \in Object
    BY FoundType, TrackedType DEF TypeOK
  <2>2. obj' \in [Processes -> Object]
    BY <2>1, <1>3 DEF Tick, TypeOK
  <2> QED
    BY <2>2, <1>3 DEF Tick, TypeOK, flagVars, tickVars, orderVars, recVars
<1>4. ASSUME NEW p \in Processes, BookNothing(p) PROVE TypeOK'
  <2>1. target[p] \in Targets /\ row.qty \in Nat /\ obj[p].booked \in SUBSET Targets
    BY <1>4 DEF BookNothing, TypeOK, Locked, Row, Object
  <2>2. [obj[p] EXCEPT !.qty = row.qty, !.booked = @ \cup {target[p]}] \in Object
    BY <2>1, MarkedType DEF TypeOK
  <2>3. obj' \in [Processes -> Object]
    BY <2>2, <1>4 DEF BookNothing, TypeOK
  <2>4. row' \in Row
    BY <2>3, <1>4, PublicType, UpsertedType DEF BookNothing, TypeOK
  <2> QED
    BY <2>3, <2>4, <1>4 DEF BookNothing, BookEnds, TypeOK, flagVars, tickVars, orderVars, recVars
<1>5. ASSUME NEW p \in Processes, BookSend(p) PROVE TypeOK'
  <2>1. BookQty(p) \in Nat /\ row.qty \in Nat
    BY <1>5, BookQtyType DEF BookSend, TypeOK, Row
  <2>2. [obj[p] EXCEPT !.qty = row.qty] \in Object
    BY <2>1, QtyType DEF TypeOK
  <2>3. obj' \in [Processes -> Object]
    BY <2>2, <1>5 DEF BookSend, TypeOK
  <2> QED
    BY <2>1, <2>3, <1>5 DEF BookSend, Send, TypeOK, Sellers, flagVars, tickVars, orderVars, recVars
<1>6. ASSUME NEW p \in Processes, BookReturn(p) PROVE TypeOK'
  <2>1. PICK r \in 0 .. filled[p] : /\ Return(p, r)
                                  /\ obj' = [obj EXCEPT ![p] = Booked(p, r)]
    BY <1>6 DEF BookReturn
  <2>2. Booked(p, r) \in Object
    BY <2>1, <1>6, BookedType DEF BookReturn
  <2>3. obj' \in [Processes -> Object]
    BY <2>1, <2>2 DEF TypeOK
  <2>4. row' \in Row
    BY <2>3, <1>6, PublicType, UpsertedType DEF BookReturn, TypeOK
  <2>5. loose' \in Nat
    BY <2>1, GivenUpType DEF Return, TypeOK, Sellers
  <2> QED
    BY <2>1, <2>3, <2>4, <2>5, <1>6
    DEF BookReturn, Return, BookEnds, TypeOK, Sellers, flagVars, tickVars, orderVars, recVars
<1>7. ASSUME NEW p \in Processes, NoExit(p) PROVE TypeOK'
  BY <1>7, LifecycleAssumption DEF NoExit, TypeOK, Locked, Sellers, flagVars,
     tickVars, orderVars, recVars
<1>8. ASSUME NEW p \in Processes, ExitConditionsMet(p) PROVE TypeOK'
  <2>0. [obj[p] EXCEPT !.status = "EXIT_CONDITIONS_MET"] \in Object
    BY StatusType DEF TypeOK, Statuses, Live
  <2>1. obj' \in [Processes -> Object]
    BY <2>0, <1>8 DEF ExitConditionsMet, TypeOK
  <2>2. row' \in Row
    BY <2>1, <1>8, PublicType, UpsertedType DEF ExitConditionsMet, TypeOK
  <2> QED
    BY <2>1, <2>2, <1>8 DEF ExitConditionsMet, TypeOK, flagVars, tickVars, orderVars, recVars
<1>9. ASSUME NEW p \in Processes, StartExit(p) PROVE TypeOK'
  <2>0. [obj[p] EXCEPT !.status = "EXITING"] \in Object
    BY StatusType DEF TypeOK, Statuses, Live
  <2>1. obj' \in [Processes -> Object]
    BY <2>0, <1>9 DEF StartExit, TypeOK
  <2>2. row' \in Row
    BY <2>1, <1>9, PublicType, UpsertedType DEF StartExit, TypeOK
  <2> QED
    BY <2>1, <2>2, <1>9 DEF StartExit, TypeOK, Places, flagVars, tickVars, orderVars, recVars
<1>10. ASSUME NEW p \in Processes, TickWrite(p) PROVE TypeOK'
  <2>1. row' \in Row
    BY <1>10, PublicType, UpsertedType DEF TickWrite, TypeOK
  <2> QED
    BY <2>1, <1>10 DEF TickWrite, TypeOK, flagVars, tickVars, orderVars, recVars
<1>11. ASSUME NEW p \in Processes, NEW g \in Targets, TargetReached(p, g) PROVE TypeOK'
  BY <1>11, LifecycleAssumption DEF TargetReached, LockFree, TypeOK, Locked,
     Sellers, flagVars, tickVars, orderVars, recVars
<1>12. ASSUME NEW p \in Processes, ExitAll(p) PROVE TypeOK'
  BY <1>12, LifecycleAssumption DEF ExitAll, TypeOK, Places, Locked, Sellers, flagVars,
     tickVars, orderVars, recVars
<1>13. ASSUME NEW t \in Tasks, AlertExit(t) PROVE TypeOK'
  <2>1. obj' \in [Processes -> Object]
    BY <1>13, HomeType, FoundType DEF AlertExit, TypeOK
  <2> QED
    BY <2>1, <1>13, HomeType DEF AlertExit, TypeOK, Places, flagVars, tickVars, orderVars, recVars
<1>14. ASSUME NEW t \in Tasks, ManualExit(t) PROVE TypeOK'
  <2>1. obj' \in [Processes -> Object]
    BY <1>14, HomeType, FoundType DEF ManualExit, TypeOK
  <2> QED
    BY <2>1, <1>14, HomeType DEF ManualExit, TypeOK, Places, flagVars, tickVars, orderVars, recVars
<1>15. ASSUME NEW t \in Tasks, ExitBegin(t) PROVE TypeOK'
  BY <1>15, HomeType DEF ExitBegin, ExitEnds, TypeOK, Places, flagVars, tickVars, orderVars, recVars
<1>16. ASSUME NEW t \in Tasks, ExitLock(t) PROVE TypeOK'
  BY <1>16, HomeType DEF ExitLock, ExitEnds, TypeOK, Places, Sellers, flagVars, tickVars, orderVars, recVars
<1>17. ASSUME NEW t \in Tasks, ExitSend(t) PROVE TypeOK'
  <2> DEFINE o == obj[Home[t]]
  <2>1. row.qty \in Nat /\ Home[t] \in Processes /\ o \in Object
    BY HomeType DEF TypeOK, Row
  <2>2. /\ [o EXCEPT !.qty = row.qty, !.status = "EXITING"] \in Object
        /\ [o EXCEPT !.tracked = FALSE] \in Object
        /\ [o EXCEPT !.qty = 0] \in Object
    BY <2>1 DEF Object, Statuses, Live
  <2>4. obj' \in [Processes -> Object]
    BY <2>1, <2>2, <1>17 DEF ExitSend, TypeOK
  <2>5. row' \in Row
    BY <2>1, <2>4, <1>17, PublicType, UpsertedType DEF ExitSend, TypeOK
  <2> QED
    BY <2>1, <2>4, <2>5, <1>17 DEF ExitSend, ExitEnds, Send, TypeOK, Places, Sellers, flagVars, tickVars, orderVars, recVars
<1>18. ASSUME NEW t \in Tasks, ExitReturn(t) PROVE TypeOK'
  <2>0. Home[t] \in Processes
    BY HomeType
  <2>1. PICK r \in 0 .. filled[t] :
          /\ Return(t, r)
          /\ obj' = [obj EXCEPT ![Home[t]] = Exited(Home[t], want[t], r)]
    BY <1>18 DEF ExitReturn
  <2>2. Exited(Home[t], want[t], r) \in Object
    BY <2>1, <1>18, ExitedType DEF ExitReturn
  <2>3. obj' \in [Processes -> Object]
    BY <2>0, <2>1, <2>2 DEF TypeOK
  <2>4. row' \in Row
    BY <2>0, <2>3, <1>18, PublicType, UpsertedType DEF ExitReturn, TypeOK
  <2>5. loose' \in Nat
    BY <2>1, GivenUpType DEF Return, TypeOK, Sellers
  <2> QED
    BY <2>0, <2>1, <2>3, <2>4, <2>5, <1>18
    DEF ExitReturn, Return, ExitEnds, TypeOK, Places, Sellers, flagVars, tickVars, orderVars,
        recVars
<1>19. ASSUME RecLock PROVE TypeOK'
  BY <1>19, LifecycleAssumption DEF RecLock, Reconcilable, LockFree, TypeOK,
     Locked, Sellers, flagVars, tickVars, orderVars, recVars
<1>20. ASSUME RecRead PROVE TypeOK'
  BY <1>20, LifecycleAssumption
  DEF RecRead, RecEnds, TypeOK, Row, Statuses, Live, flagVars, tickVars, orderVars, recVars
<1>21. ASSUME RecAsk PROVE TypeOK'
  BY <1>21, LifecycleAssumption
  DEF RecAsk, RecEnds, TypeOK, Row, Statuses, Live, flagVars, tickVars, orderVars, recVars
<1>22. ASSUME RecCheck PROVE TypeOK'
  BY <1>22, LifecycleAssumption
  DEF RecCheck, RecEnds, TypeOK, Row, Statuses, Live, flagVars, tickVars, orderVars, recVars
<1>23. ASSUME RecWrite PROVE TypeOK'
  <2>1. broker \in Nat /\ before.qty \in Nat
    BY <1>23 DEF RecWrite, Locked, TypeOK, Row
  <2>2. RecRow \in Row
    BY <2>1 DEF RecRow, Least, TypeOK, Row, Statuses
  <2>3. row' \in Row
    BY <2>2, <1>23, UpsertedType DEF RecWrite, RecRow, TypeOK
  <2>0. \A p \in Processes : /\ [obj[p] EXCEPT !.tracked = FALSE] \in Object
                              /\ [obj[p] EXCEPT !.qty = broker] \in Object
    BY <2>1, QtyType, TrackedType DEF TypeOK
  <2>4. obj' \in [Processes -> Object]
    BY <2>0, <1>23 DEF RecWrite, TypeOK
  <2>5. [status |-> "OPEN", qty |-> Qty, booked |-> {}] \in Row
    BY LifecycleAssumption DEF Row, Statuses, Live
  <2>6. /\ before' \in Row /\ broker' = 0 /\ rec' = "idle" /\ lock' = Nobody
        /\ UNCHANGED <<held, loose, signal, inflight, tick, target, task, want, filled, squared>>
    BY <2>5, <1>23
    DEF RecWrite, RecEnds, flagVars, tickVars, orderVars
  <2> QED
    BY <2>3, <2>4, <2>6 DEF TypeOK
<1>24. ASSUME NEW p \in Mortal, Crash(p) PROVE TypeOK'
  <2>1. p \in Processes
    BY LifecycleAssumption
  <2>0. [obj[p] EXCEPT !.tracked = FALSE] \in Object
    BY <2>1, TrackedType DEF TypeOK
  <2>2. obj' \in [Processes -> Object]
    BY <2>0, <2>1, <1>24 DEF Crash, TypeOK
  <2>3. lock \in Sellers => want[lock] - filled[lock] \in Nat
    BY DEF TypeOK, Locked
  <2>4. loose' \in Nat
    BY <2>1, <2>3, <1>24, GivenUpType DEF Crash, TypeOK, Sellers
  <2> QED
    BY <2>1, <2>2, <2>4, <1>24 DEF Crash, TypeOK, Places, Sellers, flagVars, tickVars, orderVars, recVars
<1>25. CASE UNCHANGED vars
  BY <1>25, LifecycleAssumption DEF TypeOK, Locked, Sellers, vars, flagVars,
     tickVars, orderVars, recVars
<1> QED
  BY <1>1, <1>2, <1>3, <1>4, <1>5, <1>6, <1>7, <1>8, <1>9, <1>10, <1>11, <1>12,
     <1>13, <1>14, <1>15, <1>16, <1>17, <1>18, <1>19, <1>20, <1>21, <1>22,
     <1>23, <1>24, <1>25 DEF Next, TickStep, ExitStep, Reconcile

\* Nothing drops or closes a position while another has an order for it.
LEMMA MonitoredStep ==
  ASSUME TypeOK, TypeOK', Locked, Locked', Monitored, [Next]_vars
  PROVE  Monitored'
<1>1. ASSUME NEW x \in Sellers, Fill(x) PROVE Monitored'
  BY <1>1, LifecycleAssumption DEF Fill, TypeOK, Locked, Monitored, flagVars,
     tickVars, orderVars, recVars
<1>2. ASSUME LooseFill PROVE Monitored'
  BY <1>2, LifecycleAssumption DEF LooseFill, TypeOK, Locked, Monitored,
     flagVars, tickVars, orderVars, recVars
<1>3. ASSUME NEW p \in Processes, Tick(p) PROVE Monitored'
  BY <1>3, FoundType DEF Tick, TypeOK, Locked, Monitored, Object, flagVars, tickVars, orderVars, recVars
<1>4. ASSUME NEW p \in Processes, BookNothing(p) PROVE Monitored'
  <2>1. row' = row \/ row' = Upserted(row, Public(obj'[p]))
    BY <1>4 DEF BookNothing
  <2>2. row.status = "CLOSED" <=> row'.status = "CLOSED"
    BY <2>1, <1>4, UpsertedType, PublicType DEF BookNothing, TypeOK, Object, Monitored
  <2> QED
    BY <2>2, <1>4 DEF BookNothing, BookEnds, TypeOK, Locked, Monitored, Object, flagVars, tickVars, orderVars, recVars
<1>5. ASSUME NEW p \in Processes, BookSend(p) PROVE Monitored'
  <2>1. BookQty(p) <= row.qty
    BY <1>5, BookQtyType DEF BookSend
  <2> QED
    BY <2>1, <1>5 DEF BookSend, Send, TypeOK, Locked, Monitored, Object, Row, flagVars, tickVars, orderVars, recVars
<1>6. ASSUME NEW p \in Processes, BookReturn(p) PROVE Monitored'
  <2>1. PICK r \in 0 .. filled[p] : obj' = [obj EXCEPT ![p] = Booked(p, r)]
    BY <1>6 DEF BookReturn
  <2>2. row' = Public(obj'[p]) /\ row'.status = obj'[p].status
    BY <1>6, UpsertedType, PublicType DEF BookReturn, TypeOK, Monitored
  <2>3. obj'[p].tracked \/ obj'[p].status = "CLOSED"
    BY <2>1, <1>6 DEF BookReturn, Booked, AfterFill, TypeOK, Monitored, Object
  <2>4. \A q \in Processes :
          q # p => /\ obj'[q] = obj[q] /\ tick'[q] = tick[q]
                   /\ want'[q] = want[q] /\ tick[q] # "booking"
    BY <2>1, <1>6 DEF BookReturn, Return, TypeOK, Locked, Sellers
  <2>5. row.status # "CLOSED" /\ tick'[p] # "booking"
    BY <2>1, <1>6 DEF BookReturn, TypeOK, Monitored
  <2>6. \A t \in Tasks : task'[t] # "wait"
    BY <1>6, LifecycleAssumption DEF BookReturn, Locked
  <2>7. before' = before
    BY <1>6 DEF BookReturn, recVars
  <2> QED
    BY <2>2, <2>3, <2>4, <2>5, <2>6, <2>7 DEF Monitored
<1>7. ASSUME NEW p \in Processes, NoExit(p) PROVE Monitored'
  BY <1>7, LifecycleAssumption DEF NoExit, TypeOK, Locked, Monitored, flagVars,
     tickVars, orderVars, recVars
<1>8. ASSUME NEW p \in Processes, ExitConditionsMet(p) PROVE Monitored'
  <2>1. row.status = "CLOSED" <=> row'.status = "CLOSED"
    BY <1>8, UpsertedType, PublicType DEF ExitConditionsMet, TypeOK, Object
  <2> QED
    BY <2>1, <1>8 DEF ExitConditionsMet, TypeOK, Locked, Monitored, Object, flagVars, tickVars, orderVars, recVars
<1>9. ASSUME NEW p \in Processes, StartExit(p) PROVE Monitored'
  <2>1. row.status = "CLOSED" <=> row'.status = "CLOSED"
    BY <1>9, UpsertedType, PublicType DEF StartExit, TypeOK, Object
  <2>2. \A u \in Tasks : task'[u] = "wait" => task[u] = "wait"
    BY <1>9 DEF StartExit, TypeOK
  <2>3. \A q \in Processes :
          /\ obj'[q].tracked = obj[q].tracked /\ obj'[q].qty = obj[q].qty
          /\ obj'[q].status # obj[q].status => obj'[q].status = "EXITING"
          /\ tick'[q] # "idle" => tick[q] # "idle"
          /\ tick'[q] = "booking" => tick[q] = "booking"
    BY <1>9 DEF StartExit, TypeOK, Object
  <2>4. want' = want /\ before' = before
    BY <1>9 DEF StartExit, orderVars, recVars
  <2> QED
    BY <2>1, <2>2, <2>3, <2>4 DEF Monitored
<1>10. ASSUME NEW p \in Processes, TickWrite(p) PROVE Monitored'
  <2>1. row.status = "CLOSED" <=> row'.status = "CLOSED"
    BY <1>10, UpsertedType, PublicType DEF TickWrite, TypeOK, Monitored
  <2> QED
    BY <2>1, <1>10 DEF TickWrite, TypeOK, Locked, Monitored, flagVars, tickVars, orderVars, recVars
<1>11. ASSUME NEW p \in Processes, NEW g \in Targets, TargetReached(p, g) PROVE Monitored'
  BY <1>11, LifecycleAssumption DEF TargetReached, LockFree, TypeOK, Locked,
     Monitored, flagVars, tickVars, orderVars, recVars
<1>12. ASSUME NEW p \in Processes, ExitAll(p) PROVE Monitored'
  BY <1>12, LifecycleAssumption DEF ExitAll, TypeOK, Locked, Monitored,
     flagVars, tickVars, orderVars, recVars
<1>13. ASSUME NEW t \in Tasks, AlertExit(t) PROVE Monitored'
  BY <1>13, HomeType, FoundType DEF AlertExit, TypeOK, Locked, Monitored, Object, flagVars, tickVars, orderVars, recVars
<1>14. ASSUME NEW t \in Tasks, ManualExit(t) PROVE Monitored'
  BY <1>14, HomeType, FoundType DEF ManualExit, TypeOK, Locked, Monitored, Object, flagVars, tickVars, orderVars, recVars
<1>15. ASSUME NEW t \in Tasks, ExitBegin(t) PROVE Monitored'
  BY <1>15, LifecycleAssumption DEF ExitBegin, ExitEnds, TypeOK, Locked,
     Monitored, flagVars, tickVars, orderVars, recVars
<1>16. ASSUME NEW t \in Tasks, ExitLock(t) PROVE Monitored'
  BY <1>16, LifecycleAssumption DEF ExitLock, ExitEnds, LockFree, TypeOK,
     Locked, Monitored, flagVars, tickVars, orderVars, recVars
<1>17. ASSUME NEW t \in Tasks, ExitSend(t) PROVE Monitored'
  <2> DEFINE p == Home[t]
  <2>1. p \in Processes
    BY HomeType
  <2>2. row.status = "CLOSED" <=> row'.status = "CLOSED"
    BY <2>1, <1>17, UpsertedType, PublicType DEF ExitSend, TypeOK, Object
  <2>3. \A q \in Processes : q # p => obj'[q] = obj[q]
    BY <2>1, <1>17 DEF ExitSend, TypeOK
  <2>4. \/ obj'[p].tracked = obj[p].tracked
        \/ row.status = "CLOSED"
    BY <2>1, <1>17 DEF ExitSend, TypeOK, Object
  <2>5. obj'[p].status = "CLOSED" => obj[p].status = "CLOSED"
    BY <2>1, <1>17 DEF ExitSend, TypeOK, Object
  <2>6. tick' = tick /\ before' = before
    BY <1>17 DEF ExitSend, flagVars, tickVars, orderVars, recVars
  <2>7. \A q \in Processes : tick[q] # "booking"
    BY <1>17, LifecycleAssumption DEF ExitSend, Locked
  <2>8. \A u \in Tasks : task'[u] = "wait" => row.status # "CLOSED"
    BY <1>17 DEF ExitSend, ExitEnds, TypeOK, Monitored
  <2> QED
    BY <2>1, <2>2, <2>3, <2>4, <2>5, <2>6, <2>7, <2>8 DEF Monitored
<1>18. ASSUME NEW t \in Tasks, ExitReturn(t) PROVE Monitored'
  <2>0. Home[t] \in Processes
    BY HomeType
  <2>1. PICK r \in 0 .. filled[t] :
          obj' = [obj EXCEPT ![Home[t]] = Exited(Home[t], want[t], r)]
    BY <1>18 DEF ExitReturn
  <2>2. row' = Public(obj'[Home[t]]) /\ row'.status = obj'[Home[t]].status
    BY <2>0, <1>18, UpsertedType, PublicType DEF ExitReturn, TypeOK, Monitored
  <2>3. LET o == Exited(Home[t], want[t], r)
        IN o.tracked \/ o.status = "CLOSED" \/ ~obj[Home[t]].tracked
    BY <2>0 DEF Exited, AfterFill, TypeOK, Object
  <2> QED
    BY <2>0, <2>1, <2>2, <2>3, <1>18, LifecycleAssumption
    DEF ExitReturn, ExitEnds, TypeOK, Locked, Monitored, Sellers, flagVars, tickVars, orderVars, recVars
<1>19. ASSUME RecLock PROVE Monitored'
  BY <1>19, LifecycleAssumption DEF RecLock, Reconcilable, LockFree, TypeOK,
     Locked, Monitored, flagVars, tickVars, orderVars, recVars
<1>20. ASSUME RecRead PROVE Monitored'
  BY <1>20 DEF RecRead, RecEnds, Reconcilable, Monitored, flagVars, tickVars, orderVars, recVars
<1>21. ASSUME RecAsk PROVE Monitored'
  BY <1>21, LifecycleAssumption DEF RecAsk, RecEnds, TypeOK, Locked, Monitored,
     flagVars, tickVars, orderVars, recVars
<1>22. ASSUME RecCheck PROVE Monitored'
  BY <1>22 DEF RecCheck, RecEnds, Monitored, flagVars, tickVars, orderVars, recVars
<1>23. ASSUME RecWrite PROVE Monitored'
  <2>1. broker \in Nat /\ before.qty \in Nat
    BY <1>23 DEF RecWrite, Locked, TypeOK, Row
  <2>2. RecRow \in Row /\ (RecRow.status = "CLOSED" <=> broker = 0)
    BY <2>1 DEF RecRow, Least, TypeOK, Row, Statuses, Monitored
  <2>3. row' = Upserted(row, RecRow)
    BY <1>23 DEF RecWrite, RecRow
  <2>4. row'.status = "CLOSED" <=> row.status = "CLOSED" \/ broker = 0
    BY <2>2, <2>3, UpsertedType DEF TypeOK
  <2>5. \A q \in Processes : /\ obj'[q].status = obj[q].status
                              /\ (obj'[q].tracked = obj[q].tracked \/ broker = 0)
    BY <1>23 DEF RecWrite, TypeOK, Object
  <2>6. tick' = tick /\ task' = task /\ before'.status # "CLOSED"
    BY <1>23 DEF RecWrite, RecEnds, flagVars, tickVars, orderVars, recVars
  <2>7. /\ \A q \in Processes : tick[q] # "booking"
        /\ \A u \in Tasks : task[u] # "wait"
    BY <1>23, LifecycleAssumption DEF RecWrite, Locked, Sellers
  <2> QED
    BY <2>4, <2>5, <2>6, <2>7 DEF Monitored
<1>24. ASSUME NEW p \in Mortal, Crash(p) PROVE Monitored'
  <2>1. p \in Processes
    BY LifecycleAssumption
  <2>2. \A q \in Processes :
          /\ obj'[q].status = obj[q].status /\ obj'[q].qty = obj[q].qty
          /\ q # p => obj'[q].tracked = obj[q].tracked
    <3>1. obj' = [obj EXCEPT ![p].tracked = FALSE] /\ obj \in [Processes -> Object]
      BY <1>24 DEF Crash, TypeOK
    <3> QED
      BY <2>1, <3>1 DEF Object
  <2>3. /\ \A q \in Processes : tick'[q] # "idle" => q # p /\ tick'[q] = tick[q]
        /\ \A u \in Tasks : task'[u] = "wait" => task[u] = "wait"
    BY <2>1, <1>24 DEF Crash, TypeOK
  <2>4. \A q \in Processes : q # p => want'[q] = want[q]
    BY <2>1, <1>24, LifecycleAssumption DEF Crash, TypeOK, Sellers
  <2>5. row' = row /\ before' = before
    BY <1>24 DEF Crash, recVars
  <2> QED
    BY <2>2, <2>3, <2>4, <2>5 DEF Monitored
<1>25. CASE UNCHANGED vars
  BY <1>25, LifecycleAssumption DEF TypeOK, Locked, Monitored, vars, flagVars,
     tickVars, orderVars, recVars
<1> QED
  BY <1>1, <1>2, <1>3, <1>4, <1>5, <1>6, <1>7, <1>8, <1>9, <1>10, <1>11, <1>12,
     <1>13, <1>14, <1>15, <1>16, <1>17, <1>18, <1>19, <1>20, <1>21, <1>22,
     <1>23, <1>24, <1>25 DEF Next, TickStep, ExitStep, Reconcile

\* Quantities are numbers.
LEMMA Numbers ==
  ASSUME TypeOK
  PROVE  /\ held \in Int /\ row.qty \in Nat /\ before.qty \in Nat /\ broker \in Int
         /\ \A p \in Processes : obj[p] \in Object /\ obj[p].qty \in Nat
         /\ \A x \in Sellers : want[x] \in Nat /\ filled[x] \in Nat
         /\ Tasks \subseteq Sellers /\ Processes \subseteq Sellers
BY DEF TypeOK, Row, Object, Sellers

\* Nobody comes to believe in fewer shares than the broker holds.
LEMMA CoveredStep ==
  ASSUME TypeOK, TypeOK', Locked, Locked', Monitored, Monitored', Covered, [Next]_vars
  PROVE  Covered'
<1>1. ASSUME NEW x \in Sellers, Fill(x) PROVE Covered'
  <2>1. \A y \in Sellers : held' + filled'[y] <= held + filled[y]
    BY <1>1, Numbers DEF Fill, TypeOK
  <2>2. held' <= held
    BY <1>1, Numbers DEF Fill
  <2>3. UNCHANGED <<row, obj, want, task, tick, rec, before, broker>>
    BY <1>1 DEF Fill, flagVars, tickVars, orderVars, recVars
  <2>4. held' \in Int /\ \A y \in Sellers : filled'[y] \in Nat
    BY Numbers DEF TypeOK
  <2> QED
    BY <2>1, <2>2, <2>3, <2>4, Numbers DEF Covered
<1>2. ASSUME LooseFill PROVE Covered'
  <2>1. held' <= held /\ held' \in Int
    BY <1>2, Numbers DEF LooseFill
  <2>2. UNCHANGED <<row, obj, want, filled, task, tick, rec, before, broker>>
    BY <1>2 DEF LooseFill, flagVars, tickVars, orderVars, recVars
  <2> QED
    BY <2>1, <2>2, Numbers DEF Covered
<1>3. ASSUME NEW p \in Processes, Tick(p) PROVE Covered'
  <2>1. \A q \in Processes : obj'[q].qty \in {obj[q].qty, row.qty}
    BY <1>3, FoundType DEF Tick, TypeOK, Object
  <2>2. \A q \in Processes : tick'[q] = "booking" => tick[q] = "booking" /\ q # p
    BY <1>3 DEF Tick, TypeOK
  <2>3. \A q \in Processes : q # p => obj'[q] = obj[q]
    BY <1>3 DEF Tick, TypeOK
  <2>4. UNCHANGED <<held, row, want, filled, task, rec, before, broker>>
    BY <1>3 DEF Tick, flagVars, tickVars, orderVars, recVars
  <2> QED
    BY <2>1, <2>2, <2>3, <2>4, Numbers DEF Covered
<1>4. ASSUME NEW p \in Processes, BookNothing(p) PROVE Covered'
  <2>1. p \in Processes
    OBVIOUS
  <2>2. \A q \in Processes : obj'[q].qty \in {obj[q].qty, row.qty}
    BY <1>4, FoundType DEF BookNothing, TypeOK, Object
  <2>3. \/ row' = row
        \/ /\ row' = Upserted(row, Public(obj'[p]))
           /\ obj'[p].status # "CLOSED" \/ row.status = "CLOSED"
    BY <1>4, <2>1 DEF BookNothing, TypeOK, Object, Monitored
  <2>4. /\ row'.qty \in {row.qty, obj'[p].qty}
        /\ row'.status = "CLOSED" <=> row.status = "CLOSED"
    BY <2>1, <2>3, UpsertedType, PublicType DEF TypeOK
  <2>5. /\ held' = held /\ filled' = filled /\ want' = want /\ rec' = rec
        /\ before' = before /\ broker' = broker
    BY <1>4 DEF BookNothing, flagVars, tickVars, orderVars, recVars
  <2>6. /\ \A u \in Tasks : task'[u] = "wait" => task[u] = "wait"
        /\ \A q \in Processes :
             tick'[q] = "booking" => /\ tick[q] = "booking"
                                     /\ obj'[q].qty = obj[q].qty
    BY <1>4, <2>1 DEF BookNothing, TypeOK, Object
  <2> QED
    BY <2>1, <2>2, <2>4, <2>5, <2>6 DEF Covered, TypeOK
<1>5. ASSUME NEW p \in Processes, BookSend(p) PROVE Covered'
  BY <1>5, LifecycleAssumption DEF BookSend, Send, TypeOK, Locked, Covered,
     flagVars, tickVars, orderVars, recVars
<1>6. ASSUME NEW p \in Processes, BookReturn(p) PROVE Covered'
  <2>1. PICK r \in 0 .. filled[p] : obj' = [obj EXCEPT ![p] = Booked(p, r)]
    BY <1>6 DEF BookReturn
  <2>2. /\ held + filled[p] <= obj[p].qty /\ want[p] <= obj[p].qty
        /\ filled[p] <= want[p] /\ row.status # "CLOSED"
    BY <1>6 DEF BookReturn, Covered, Monitored, Locked, Sellers
  <2>3. /\ held <= Booked(p, r).qty
        /\ Booked(p, r).status = "CLOSED" => held <= 0
    <3>1. CASE r = 0
      BY <2>2, <3>1, <1>6, Numbers
      DEF Booked, Covered, Object, BookReturn, Monitored
    <3>2. CASE r # 0
      BY <2>2, <3>2, <1>6, Numbers DEF Booked, Left, AfterFill, Object
    <3> QED
      BY <3>1, <3>2
  <2>4. obj'[p] = Booked(p, r) /\ \A q \in Processes : q # p => obj'[q] = obj[q]
    BY <2>1 DEF TypeOK
  <2>5. row'.qty = obj'[p].qty /\ row'.status = obj'[p].status
    BY <2>2, <1>6, UpsertedType, PublicType DEF BookReturn, TypeOK
  <2>6. /\ \A q \in Processes : tick'[q] # "booking"
        /\ \A u \in Tasks : task'[u] # "wait"
        /\ UNCHANGED <<held, rec, before, broker>>
    BY <2>1, <1>6, LifecycleAssumption
    DEF BookReturn, Return, TypeOK, Locked, Sellers, flagVars, tickVars, orderVars, recVars
  <2> QED
    BY <2>3, <2>4, <2>5, <2>6, Numbers DEF Covered
<1>7. ASSUME NEW p \in Processes, NoExit(p) PROVE Covered'
  BY <1>7, LifecycleAssumption DEF NoExit, TypeOK, Locked, Covered, flagVars,
     tickVars, orderVars, recVars
<1>8. ASSUME NEW p \in Processes, ExitConditionsMet(p) PROVE Covered'
  <2>1. p \in Processes
    OBVIOUS
  <2>2. \A q \in Processes : obj'[q].qty \in {obj[q].qty, row.qty}
    BY <1>8, FoundType DEF ExitConditionsMet, TypeOK, Object
  <2>3. \/ row' = row
        \/ /\ row' = Upserted(row, Public(obj'[p]))
           /\ obj'[p].status # "CLOSED" \/ row.status = "CLOSED"
    BY <1>8, <2>1 DEF ExitConditionsMet, TypeOK, Object, Monitored
  <2>4. /\ row'.qty \in {row.qty, obj'[p].qty}
        /\ row'.status = "CLOSED" <=> row.status = "CLOSED"
    BY <2>1, <2>3, UpsertedType, PublicType DEF TypeOK
  <2>5. /\ held' = held /\ filled' = filled /\ want' = want /\ rec' = rec
        /\ before' = before /\ broker' = broker
    BY <1>8 DEF ExitConditionsMet, flagVars, tickVars, orderVars, recVars
  <2>6. /\ \A u \in Tasks : task'[u] = "wait" => task[u] = "wait"
        /\ \A q \in Processes :
             tick'[q] = "booking" => /\ tick[q] = "booking"
                                     /\ obj'[q].qty = obj[q].qty
    BY <1>8, <2>1 DEF ExitConditionsMet, TypeOK, Object
  <2> QED
    BY <2>1, <2>2, <2>4, <2>5, <2>6 DEF Covered, TypeOK
<1>9. ASSUME NEW p \in Processes, StartExit(p) PROVE Covered'
  <2>1. p \in Processes
    OBVIOUS
  <2>2. \A q \in Processes : obj'[q].qty \in {obj[q].qty, row.qty}
    BY <1>9, FoundType DEF StartExit, TypeOK, Object
  <2>3. \/ row' = row
        \/ /\ row' = Upserted(row, Public(obj'[p]))
           /\ obj'[p].status # "CLOSED" \/ row.status = "CLOSED"
    BY <1>9, <2>1 DEF StartExit, TypeOK, Object, Monitored
  <2>4. /\ row'.qty \in {row.qty, obj'[p].qty}
        /\ row'.status = "CLOSED" <=> row.status = "CLOSED"
    BY <2>1, <2>3, UpsertedType, PublicType DEF TypeOK
  <2>5. /\ held' = held /\ filled' = filled /\ want' = want /\ rec' = rec
        /\ before' = before /\ broker' = broker
    BY <1>9 DEF StartExit, flagVars, tickVars, orderVars, recVars
  <2>6. /\ \A u \in Tasks : task'[u] = "wait" => task[u] = "wait"
        /\ \A q \in Processes :
             tick'[q] = "booking" => /\ tick[q] = "booking"
                                     /\ obj'[q].qty = obj[q].qty
    BY <1>9, <2>1 DEF StartExit, TypeOK, Object
  <2> QED
    BY <2>1, <2>2, <2>4, <2>5, <2>6 DEF Covered, TypeOK
<1>10. ASSUME NEW p \in Processes, TickWrite(p) PROVE Covered'
  <2>1. p \in Processes
    OBVIOUS
  <2>2. \A q \in Processes : obj'[q].qty \in {obj[q].qty, row.qty}
    BY <1>10, FoundType DEF TickWrite, TypeOK, Object
  <2>3. \/ row' = row
        \/ /\ row' = Upserted(row, Public(obj'[p]))
           /\ obj'[p].status # "CLOSED" \/ row.status = "CLOSED"
    BY <1>10, <2>1 DEF TickWrite, TypeOK, Object, Monitored
  <2>4. /\ row'.qty \in {row.qty, obj'[p].qty}
        /\ row'.status = "CLOSED" <=> row.status = "CLOSED"
    BY <2>1, <2>3, UpsertedType, PublicType DEF TypeOK
  <2>5. /\ held' = held /\ filled' = filled /\ want' = want /\ rec' = rec
        /\ before' = before /\ broker' = broker
    BY <1>10 DEF TickWrite, flagVars, tickVars, orderVars, recVars
  <2>6. /\ \A u \in Tasks : task'[u] = "wait" => task[u] = "wait"
        /\ \A q \in Processes :
             tick'[q] = "booking" => /\ tick[q] = "booking"
                                     /\ obj'[q].qty = obj[q].qty
    BY <1>10, <2>1 DEF TickWrite, TypeOK, Object
  <2> QED
    BY <2>1, <2>2, <2>4, <2>5, <2>6 DEF Covered, TypeOK
<1>11. ASSUME NEW p \in Processes, NEW g \in Targets, TargetReached(p, g) PROVE Covered'
  BY <1>11, LifecycleAssumption DEF TargetReached, LockFree, TypeOK, Locked,
     Covered, flagVars, tickVars, orderVars, recVars
<1>12. ASSUME NEW p \in Processes, ExitAll(p) PROVE Covered'
  BY <1>12, LifecycleAssumption DEF ExitAll, TypeOK, Locked, Covered, flagVars,
     tickVars, orderVars, recVars
<1>13. ASSUME NEW t \in Tasks, AlertExit(t) PROVE Covered'
  <2> DEFINE p == Home[t]
  <2>0. p \in Processes
    BY HomeType
  <2>1. \A q \in Processes : obj'[q].qty \in {obj[q].qty, row.qty}
    BY <2>0, <1>13, FoundType DEF AlertExit, TypeOK, Object
  <2>2. \A q \in Processes : tick[q] = "booking" => obj'[q] = obj[q]
    BY <2>0, <1>13, FoundType DEF AlertExit, TypeOK, Monitored
  <2>3. /\ \A u \in Tasks : task'[u] = "wait" => task[u] = "wait"
        /\ UNCHANGED <<held, row, want, filled, tick, rec, before, broker>>
    BY <1>13 DEF AlertExit, TypeOK, flagVars, tickVars, orderVars, recVars
  <2> QED
    BY <2>1, <2>2, <2>3, Numbers DEF Covered
<1>14. ASSUME NEW t \in Tasks, ManualExit(t) PROVE Covered'
  <2> DEFINE p == Home[t]
  <2>0. p \in Processes
    BY HomeType
  <2>1. \A q \in Processes : obj'[q].qty \in {obj[q].qty, row.qty}
    BY <2>0, <1>14, FoundType DEF ManualExit, TypeOK, Object
  <2>2. \A q \in Processes : tick[q] = "booking" => obj'[q] = obj[q]
    BY <2>0, <1>14, FoundType DEF ManualExit, TypeOK, Monitored
  <2>3. /\ \A u \in Tasks : task'[u] = "wait" => task[u] = "wait"
        /\ UNCHANGED <<held, row, want, filled, tick, rec, before, broker>>
    BY <1>14 DEF ManualExit, TypeOK, flagVars, tickVars, orderVars, recVars
  <2> QED
    BY <2>1, <2>2, <2>3, Numbers DEF Covered
<1>15. ASSUME NEW t \in Tasks, ExitBegin(t) PROVE Covered'
  BY <1>15, LifecycleAssumption DEF ExitBegin, ExitEnds, TypeOK, Locked,
     Covered, flagVars, tickVars, orderVars, recVars
<1>16. ASSUME NEW t \in Tasks, ExitLock(t) PROVE Covered'
  BY <1>16, LifecycleAssumption DEF ExitLock, ExitEnds, LockFree, TypeOK,
     Locked, Covered, flagVars, tickVars, orderVars, recVars
<1>17. ASSUME NEW t \in Tasks, ExitSend(t) PROVE Covered'
  <2> DEFINE p == Home[t]
  <2>0. p \in Processes /\ t \in Sellers
    BY HomeType DEF Sellers
  <2>1. CASE row.status # "CLOSED" /\ row.qty # 0
    <3>1. obj' = [obj EXCEPT ![p].qty = row.qty, ![p].status = "EXITING"]
      BY <2>1, <1>17 DEF ExitSend
    <3>2. /\ obj'[p].qty = row.qty /\ obj'[p].status = "EXITING"
          /\ \A q \in Processes : q # p => obj'[q] = obj[q]
      BY <2>0, <3>1, Numbers DEF TypeOK, Object
    <3>3. row'.qty = row.qty /\ row'.status = "EXITING"
      BY <2>0, <2>1, <3>2, <1>17, UpsertedType, PublicType DEF ExitSend, TypeOK
    <3>4. /\ want'[t] = row.qty /\ filled' = filled /\ filled[t] = 0
          /\ \A u \in Tasks : u # t => task'[u] = task[u] /\ want'[u] = want[u]
          /\ \A q \in Processes : tick'[q] # "booking"
          /\ UNCHANGED <<held, rec, before, broker>>
      BY <2>0, <2>1, <1>17, LifecycleAssumption
      DEF ExitSend, Send, TypeOK, Locked, flagVars, tickVars, orderVars, recVars
    <3> QED
      BY <2>0, <3>2, <3>3, <3>4, Numbers DEF Covered
  <2>2. CASE ~(row.status # "CLOSED" /\ row.qty # 0)
    <3>1. obj' = IF row.status = "CLOSED" THEN [obj EXCEPT ![p].tracked = FALSE]
                 ELSE [obj EXCEPT ![p].qty = 0]
      BY <2>2, <1>17 DEF ExitSend
    <3>2. \A q \in Processes : obj'[q].qty \in {obj[q].qty, row.qty}
      BY <2>0, <2>2, <3>1, Numbers DEF TypeOK, Object
    <3>3. /\ UNCHANGED <<row, want, filled, held, rec, before, broker>>
          /\ \A u \in Tasks : task'[u] = "wait" => task[u] = "wait"
          /\ \A q \in Processes : tick'[q] # "booking"
      BY <2>0, <2>2, <1>17, LifecycleAssumption
      DEF ExitSend, ExitEnds, TypeOK, Locked, flagVars, tickVars, orderVars, recVars
    <3> QED
      BY <3>2, <3>3, Numbers DEF Covered
  <2> QED
    BY <2>1, <2>2
<1>18. ASSUME NEW t \in Tasks, ExitReturn(t) PROVE Covered'
  <2> DEFINE p == Home[t]
  <2>0. p \in Processes /\ t \in Sellers
    BY HomeType DEF Sellers
  <2>1. PICK r \in 0 .. filled[t] :
          obj' = [obj EXCEPT ![p] = Exited(p, want[t], r)]
    BY <1>18 DEF ExitReturn
  <2>2. /\ held + filled[t] <= want[t]
        /\ filled[t] <= want[t] /\ row.status # "CLOSED"
    BY <1>18 DEF ExitReturn, Covered, Monitored, Locked, Sellers
  <2>3. /\ held <= Exited(p, want[t], r).qty
        /\ Exited(p, want[t], r).status = "CLOSED" => held <= 0
    <3>1. CASE r = 0
      BY <2>0, <3>1, Numbers DEF Exited, Covered, Object
    <3>2. CASE r # 0
      BY <2>0, <2>2, <3>2, Numbers DEF Exited, Left, AfterFill, Object
    <3> QED
      BY <3>1, <3>2
  <2>4. /\ obj'[p] = Exited(p, want[t], r)
        /\ \A q \in Processes : q # p => obj'[q] = obj[q]
    BY <2>0, <2>1 DEF TypeOK
  <2>5. row'.qty = obj'[p].qty /\ row'.status = obj'[p].status
    BY <2>0, <2>2, <1>18, UpsertedType, PublicType DEF ExitReturn, TypeOK
  <2>6. /\ \A q \in Processes : tick'[q] # "booking"
        /\ \A u \in Tasks : task'[u] # "wait"
        /\ UNCHANGED <<held, rec, before, broker>>
    BY <2>1, <1>18, LifecycleAssumption
    DEF ExitReturn, ExitEnds, Return, TypeOK, Locked, Sellers, flagVars, tickVars, orderVars, recVars
  <2> QED
    BY <2>0, <2>3, <2>4, <2>5, <2>6, Numbers DEF Covered
<1>19. ASSUME RecLock PROVE Covered'
  BY <1>19, LifecycleAssumption DEF RecLock, Reconcilable, LockFree, TypeOK,
     Locked, Covered, flagVars, tickVars, orderVars, recVars
<1>20. ASSUME RecRead PROVE Covered'
  BY <1>20, LifecycleAssumption DEF RecRead, RecEnds, Reconcilable, TypeOK,
     Locked, Covered, flagVars, tickVars, orderVars, recVars
<1>21. ASSUME RecAsk PROVE Covered'
  BY <1>21, LifecycleAssumption DEF RecAsk, RecEnds, TypeOK, Locked, Covered,
     flagVars, tickVars, orderVars, recVars
<1>22. ASSUME RecCheck PROVE Covered'
  BY <1>22, LifecycleAssumption DEF RecCheck, RecEnds, TypeOK, Locked, Covered,
     flagVars, tickVars, orderVars, recVars
<1>23. ASSUME RecWrite PROVE Covered'
  <2>1. /\ broker \in Nat /\ before.qty \in Nat /\ held <= broker
        /\ held <= before.qty
    BY <1>23, Numbers DEF RecWrite, Locked, Covered
  <2>2. /\ RecRow \in Row /\ held <= RecRow.qty
        /\ RecRow.status = "CLOSED" => broker = 0
    BY <2>1, Numbers DEF RecRow, Least, TypeOK, Row, Statuses, Monitored
  <2>3. row' = Upserted(row, RecRow)
    BY <1>23 DEF RecWrite, RecRow
  <2>4. held <= row'.qty /\ (row'.status = "CLOSED" => held <= 0)
    BY <2>1, <2>2, <2>3, UpsertedType, Numbers DEF TypeOK, Covered
  <2>5. \A q \in Processes : obj'[q].qty \in {obj[q].qty, broker}
    BY <1>23 DEF RecWrite, TypeOK, Object
  <2>6. UNCHANGED <<held, want, filled, tick, task>> /\ rec' = "idle"
    BY <1>23 DEF RecWrite, RecEnds, flagVars, tickVars, orderVars, recVars
  <2>7. /\ \A q \in Processes : tick[q] # "booking"
        /\ \A u \in Tasks : task[u] # "wait"
    BY <1>23, LifecycleAssumption DEF RecWrite, Locked, Sellers
  <2> QED
    BY <2>1, <2>4, <2>5, <2>6, <2>7, Numbers DEF Covered
<1>24. ASSUME NEW p \in Mortal, Crash(p) PROVE Covered'
  <2>1. p \in Processes
    BY LifecycleAssumption
  <2>2. \A q \in Processes : obj'[q].qty = obj[q].qty
    <3>1. obj' = [obj EXCEPT ![p].tracked = FALSE] /\ obj \in [Processes -> Object]
      BY <1>24 DEF Crash, TypeOK
    <3> QED
      BY <2>1, <3>1 DEF Object
  <2>3. \A q \in Processes : tick'[q] = "booking" => /\ tick[q] = "booking"
                                                      /\ filled'[q] = filled[q]
    <3>1. \A q \in Processes : tick'[q] = "booking" => tick[q] = "booking" /\ q # p
      BY <1>24 DEF Crash, TypeOK
    <3>2. \A q \in Processes : q # p => filled'[q] = filled[q]
      BY <2>1, <1>24, LifecycleAssumption DEF Crash, Sellers
    <3> QED
      BY <3>1, <3>2
  <2>4. \A u \in Tasks : task'[u] = "wait" => /\ task[u] = "wait"
                                              /\ filled'[u] = filled[u]
                                              /\ want'[u] = want[u]
    BY <1>24, LifecycleAssumption DEF Crash, Sellers
  <2>5. UNCHANGED <<held, row, rec, before, broker>>
    BY <1>24 DEF Crash, flagVars, tickVars, orderVars, recVars
  <2> QED
    BY <2>2, <2>3, <2>4, <2>5 DEF Covered
<1>25. CASE UNCHANGED vars
  BY <1>25, LifecycleAssumption DEF TypeOK, Locked, Covered, vars, flagVars,
     tickVars, orderVars, recVars
<1> QED
  BY <1>1, <1>2, <1>3, <1>4, <1>5, <1>6, <1>7, <1>8, <1>9, <1>10, <1>11, <1>12,
     <1>13, <1>14, <1>15, <1>16, <1>17, <1>18, <1>19, <1>20, <1>21, <1>22,
     <1>23, <1>24, <1>25 DEF Next, TickStep, ExitStep, Reconcile

-----------------------------------------------------------------------------
(* One service, every result known.                                        *)

\* Shares the order under way has sold.
Executed == IF lock \in Sellers THEN filled[lock] ELSE 0

\* The broker, the row and the object agree but for what is being sold.
Agreed ==
  /\ loose = 0 /\ held \in Nat
  /\ row.qty = held + Executed
  /\ \A p \in Processes : obj[p].qty = held + Executed
  /\ \A x \in Sellers : want[x] <= held + filled[x]
  /\ \A t \in Tasks : task[t] = "wait" => want[t] = held + filled[t]
  /\ rec = "check" => broker = held
  /\ rec # "write"

Alone == /\ \A p, q \in Processes : p = q
         /\ Outcomes \subseteq {"full", "part", "rejected"}
         /\ Mortal = {}

\* Only the holder of the lock has an order.
LEMMA OnlyHolder ==
  ASSUME TypeOK, Locked, NEW x \in Sellers, x # lock
  PROVE  want[x] = 0 /\ filled[x] = 0
BY DEF TypeOK, Locked, Sellers

\* A known result reports what was sold, and leaves nothing behind.
LEMMA KnownResult ==
  ASSUME Alone, TypeOK, NEW x \in Sellers, NEW r \in 0 .. filled[x],
         Return(x, r), loose = 0
  PROVE  r = filled[x] /\ loose' = 0
<1>1. PICK o \in Outcomes, n \in 0 .. want[x] :
        Result(o, want[x], filled[x], r, n) /\ loose' = GivenUp(n)
  BY DEF Return
<1>2. r = filled[x] /\ n = 0
  BY <1>1 DEF Alone, Result
<1>3. GivenUp(0) = 0
  BY LifecycleAssumption DEF GivenUp, Least
<1> QED
  BY <1>1, <1>2, <1>3

\* One service alone keeps row, object and broker together.
LEMMA AgreedStep ==
  ASSUME Alone, TypeOK, TypeOK', Locked, Locked', Monitored, Agreed, [Next]_vars
  PROVE  Agreed'
<1>1. ASSUME NEW x \in Sellers, Fill(x) PROVE Agreed'
  <2>1. x = lock
    BY <1>1, OnlyHolder DEF Fill
  <2>2. want[x] <= held + filled[x] /\ filled[x] < want[x]
    BY <1>1 DEF Fill, Agreed
  <2>3. held' = held - 1 /\ held' \in Nat
    BY <2>2, <1>1, Numbers DEF Fill, Agreed
  <2>4. filled'[x] = filled[x] + 1 /\ Executed' = Executed + 1
    BY <2>1, <1>1 DEF Fill, Executed, TypeOK
  <2>5. \A y \in Sellers : y # x => want[y] = 0 /\ filled'[y] = 0
    BY <2>1, <1>1, OnlyHolder DEF Fill, TypeOK
  <2>6. UNCHANGED <<loose, row, obj, want, task, rec, broker>>
    BY <1>1 DEF Fill, flagVars, tickVars, orderVars, recVars
  <2>7. rec = "idle"
    BY <2>1, LifecycleAssumption DEF Locked
  <2>8. \A t \in Tasks : task[t] = "wait" => t = x
    BY <2>1 DEF Locked
  <2>9. Executed \in Nat
    BY <2>1, Numbers DEF Executed
  <2>10. \A y \in Sellers : want'[y] <= held' + filled'[y]
    <3> SUFFICES ASSUME NEW y \in Sellers PROVE want'[y] <= held' + filled'[y]
      OBVIOUS
    <3>1. CASE y = x
      BY <3>1, <2>2, <2>3, <2>4, <2>6, Numbers DEF Agreed
    <3>2. CASE y # x
      BY <3>2, <2>3, <2>5, <2>6
    <3> QED
      BY <3>1, <3>2
  <2>11. \A t \in Tasks : task'[t] = "wait" => want'[t] = held' + filled'[t]
    BY <2>3, <2>4, <2>6, <2>8, Numbers DEF Agreed
  <2>12. row'.qty = held' + Executed' /\ \A q \in Processes : obj'[q].qty = held' + Executed'
    BY <2>3, <2>4, <2>6, <2>9, Numbers DEF Agreed
  <2> QED
    BY <2>3, <2>6, <2>7, <2>10, <2>11, <2>12 DEF Agreed
<1>2. ASSUME LooseFill PROVE Agreed'
  BY <1>2 DEF LooseFill, Agreed
<1>3. ASSUME NEW p \in Processes, Tick(p) PROVE Agreed'
  <2>1. \A q \in Processes : obj'[q].qty \in {obj[q].qty, row.qty}
    BY <1>3, FoundType DEF Tick, TypeOK, Object
  <2>2. row' = row \/ row' = Upserted(row, Public(obj'[p]))
    BY <1>3 DEF Tick
  <2>3. row'.qty \in {row.qty, obj'[p].qty}
    BY <2>2, UpsertedType, PublicType DEF TypeOK
  <2>4. UNCHANGED <<held, loose, want, filled, rec, broker>>
    BY <1>3 DEF Tick, flagVars, tickVars, orderVars, recVars
  <2>5. /\ Executed' = Executed
        /\ \A t \in Tasks : task'[t] = "wait" => task[t] = "wait"
    BY <1>3, LifecycleAssumption
    DEF Tick, BookEnds, TypeOK, Locked, Executed, Sellers, flagVars, tickVars, orderVars, recVars
  <2> QED
    BY <2>1, <2>3, <2>4, <2>5 DEF Agreed
<1>4. ASSUME NEW p \in Processes, BookNothing(p) PROVE Agreed'
  <2>1. \A q \in Processes : obj'[q].qty \in {obj[q].qty, row.qty}
    BY <1>4, FoundType DEF BookNothing, TypeOK, Object
  <2>2. row' = row \/ row' = Upserted(row, Public(obj'[p]))
    BY <1>4 DEF BookNothing
  <2>3. row'.qty \in {row.qty, obj'[p].qty}
    BY <2>2, UpsertedType, PublicType DEF TypeOK
  <2>4. UNCHANGED <<held, loose, want, filled, rec, broker>>
    BY <1>4 DEF BookNothing, flagVars, tickVars, orderVars, recVars
  <2>5. /\ Executed' = Executed
        /\ \A t \in Tasks : task'[t] = "wait" => task[t] = "wait"
    BY <1>4, LifecycleAssumption
    DEF BookNothing, BookEnds, TypeOK, Locked, Executed, Sellers, flagVars, tickVars, orderVars, recVars
  <2> QED
    BY <2>1, <2>3, <2>4, <2>5 DEF Agreed
<1>5. ASSUME NEW p \in Processes, BookSend(p) PROVE Agreed'
  <2>1. lock = p /\ filled[p] = 0 /\ Executed = 0
    BY <1>5 DEF BookSend, Locked, Executed, Sellers
  <2>2. BookQty(p) \in Nat /\ BookQty(p) <= row.qty
    BY <1>5, BookQtyType DEF BookSend
  <2>3. row.qty = held /\ held \in Nat
    BY <2>1 DEF Agreed
  <2>4. \A q \in Processes : obj'[q].qty \in {obj[q].qty, row.qty}
    BY <1>5, Numbers DEF BookSend, TypeOK, Object
  <2>5. \A y \in Sellers : want'[y] = IF y = p THEN BookQty(p) ELSE want[y]
    BY <1>5 DEF BookSend, Send, TypeOK
  <2>6. UNCHANGED <<held, loose, row, lock, filled, task, rec, broker>>
    BY <1>5 DEF BookSend, Send, flagVars, tickVars, orderVars, recVars
  <2>7. \A t \in Tasks : task[t] # "wait"
    BY <2>1, LifecycleAssumption DEF Locked
  <2> QED
    BY <2>1, <2>2, <2>3, <2>4, <2>5, <2>6, <2>7 DEF Agreed, Executed
<1>6. ASSUME NEW p \in Processes, BookReturn(p) PROVE Agreed'
  <2>0. p \in Sellers /\ lock = p /\ Executed = filled[p] /\ row.status # "CLOSED"
    BY <1>6 DEF BookReturn, Locked, Executed, Sellers, Monitored
  <2>1. PICK r \in 0 .. filled[p] : /\ Return(p, r)
                                  /\ obj' = [obj EXCEPT ![p] = Booked(p, r)]
    BY <1>6 DEF BookReturn
  <2>2. r = filled[p] /\ loose' = 0
    BY <2>0, <2>1, KnownResult DEF Agreed
  <2>3. Booked(p, r).qty = held
    <3>1. obj[p].qty = held + r /\ obj[p] \in Object
      BY <2>0, <2>2, Numbers DEF Agreed
    <3>2. CASE r = 0
      BY <3>1, <3>2, Numbers DEF Booked, Object
    <3>3. CASE r # 0
      BY <3>1, <3>3, Numbers DEF Booked, Left, Object
    <3> QED
      BY <3>2, <3>3
  <2>4. \A q \in Processes : obj'[q].qty = held
    BY <2>1, <2>3 DEF Alone, TypeOK
  <2>5. row'.qty = held
    BY <2>0, <2>4, <1>6, UpsertedType, PublicType DEF BookReturn, TypeOK
  <2>6. held' = held /\ \A y \in Sellers : want'[y] = 0 /\ filled'[y] = 0
    BY <2>0, <2>1, OnlyHolder DEF Return, TypeOK
  <2>7. /\ Executed' = 0 /\ UNCHANGED <<rec, broker, task>>
        /\ \A t \in Tasks : task[t] # "wait"
    BY <2>0, <1>6, LifecycleAssumption
    DEF BookReturn, BookEnds, Executed, Sellers, Locked, flagVars, tickVars, orderVars, recVars
  <2> QED
    BY <2>2, <2>4, <2>5, <2>6, <2>7 DEF Agreed
<1>7. ASSUME NEW p \in Processes, NoExit(p) PROVE Agreed'
  BY <1>7, LifecycleAssumption, Numbers DEF NoExit, TypeOK, Locked, Executed,
     Sellers, Agreed, flagVars, tickVars, orderVars, recVars
<1>8. ASSUME NEW p \in Processes, ExitConditionsMet(p) PROVE Agreed'
  <2>1. \A q \in Processes : obj'[q].qty \in {obj[q].qty, row.qty}
    BY <1>8, FoundType DEF ExitConditionsMet, TypeOK, Object
  <2>2. row' = row \/ row' = Upserted(row, Public(obj'[p]))
    BY <1>8 DEF ExitConditionsMet
  <2>3. row'.qty \in {row.qty, obj'[p].qty}
    BY <2>2, UpsertedType, PublicType DEF TypeOK
  <2>4. UNCHANGED <<held, loose, want, filled, rec, broker>>
    BY <1>8 DEF ExitConditionsMet, flagVars, tickVars, orderVars, recVars
  <2>5. /\ Executed' = Executed
        /\ \A t \in Tasks : task'[t] = "wait" => task[t] = "wait"
    BY <1>8, LifecycleAssumption
    DEF ExitConditionsMet, BookEnds, TypeOK, Locked, Executed, Sellers, flagVars, tickVars, orderVars, recVars
  <2> QED
    BY <2>1, <2>3, <2>4, <2>5 DEF Agreed
<1>9. ASSUME NEW p \in Processes, StartExit(p) PROVE Agreed'
  <2>1. \A q \in Processes : obj'[q].qty \in {obj[q].qty, row.qty}
    BY <1>9, FoundType DEF StartExit, TypeOK, Object
  <2>2. row' = row \/ row' = Upserted(row, Public(obj'[p]))
    BY <1>9 DEF StartExit
  <2>3. row'.qty \in {row.qty, obj'[p].qty}
    BY <2>2, UpsertedType, PublicType DEF TypeOK
  <2>4. UNCHANGED <<held, loose, want, filled, rec, broker>>
    BY <1>9 DEF StartExit, flagVars, tickVars, orderVars, recVars
  <2>5. /\ Executed' = Executed
        /\ \A t \in Tasks : task'[t] = "wait" => task[t] = "wait"
    BY <1>9, LifecycleAssumption
    DEF StartExit, BookEnds, TypeOK, Locked, Executed, Sellers, flagVars, tickVars, orderVars, recVars
  <2> QED
    BY <2>1, <2>3, <2>4, <2>5 DEF Agreed
<1>10. ASSUME NEW p \in Processes, TickWrite(p) PROVE Agreed'
  <2>1. \A q \in Processes : obj'[q].qty \in {obj[q].qty, row.qty}
    BY <1>10, FoundType DEF TickWrite, TypeOK, Object
  <2>2. row' = row \/ row' = Upserted(row, Public(obj'[p]))
    BY <1>10 DEF TickWrite
  <2>3. row'.qty \in {row.qty, obj'[p].qty}
    BY <2>2, UpsertedType, PublicType DEF TypeOK
  <2>4. UNCHANGED <<held, loose, want, filled, rec, broker>>
    BY <1>10 DEF TickWrite, flagVars, tickVars, orderVars, recVars
  <2>5. /\ Executed' = Executed
        /\ \A t \in Tasks : task'[t] = "wait" => task[t] = "wait"
    BY <1>10, LifecycleAssumption
    DEF TickWrite, BookEnds, TypeOK, Locked, Executed, Sellers, flagVars, tickVars, orderVars, recVars
  <2> QED
    BY <2>1, <2>3, <2>4, <2>5 DEF Agreed
<1>11. ASSUME NEW p \in Processes, NEW g \in Targets, TargetReached(p, g) PROVE Agreed'
  BY <1>11, LifecycleAssumption, Numbers DEF TargetReached, LockFree, TypeOK,
     Locked, Executed, Sellers, Agreed, flagVars, tickVars, orderVars, recVars
<1>12. ASSUME NEW p \in Processes, ExitAll(p) PROVE Agreed'
  BY <1>12, LifecycleAssumption, Numbers DEF ExitAll, TypeOK, Locked, Executed,
     Sellers, Agreed, flagVars, tickVars, orderVars, recVars
<1>13. ASSUME NEW t \in Tasks, AlertExit(t) PROVE Agreed'
  <2> DEFINE p == Home[t]
  <2>0. p \in Processes
    BY HomeType
  <2>1. \A q \in Processes : obj'[q].qty \in {obj[q].qty, row.qty}
    BY <2>0, <1>13, FoundType DEF AlertExit, TypeOK, Object
  <2>2. row' = row \/ row' = Upserted(row, Public(obj'[p]))
    BY <1>13 DEF AlertExit
  <2>3. row'.qty \in {row.qty, obj'[p].qty}
    BY <2>0, <2>2, UpsertedType, PublicType DEF TypeOK
  <2>4. UNCHANGED <<held, loose, want, filled, rec, broker>>
    BY <1>13 DEF AlertExit, flagVars, tickVars, orderVars, recVars
  <2>5. /\ Executed' = Executed
        /\ \A t1 \in Tasks : task'[t1] = "wait" => task[t1] = "wait"
    BY <1>13, LifecycleAssumption
    DEF AlertExit, BookEnds, TypeOK, Locked, Executed, Sellers, flagVars, tickVars, orderVars, recVars
  <2> QED
    BY <2>0, <2>1, <2>3, <2>4, <2>5 DEF Agreed
<1>14. ASSUME NEW t \in Tasks, ManualExit(t) PROVE Agreed'
  <2> DEFINE p == Home[t]
  <2>0. p \in Processes
    BY HomeType
  <2>1. \A q \in Processes : obj'[q].qty \in {obj[q].qty, row.qty}
    BY <2>0, <1>14, FoundType DEF ManualExit, TypeOK, Object
  <2>2. row' = row \/ row' = Upserted(row, Public(obj'[p]))
    BY <1>14 DEF ManualExit
  <2>3. row'.qty \in {row.qty, obj'[p].qty}
    BY <2>0, <2>2, UpsertedType, PublicType DEF TypeOK
  <2>4. UNCHANGED <<held, loose, want, filled, rec, broker>>
    BY <1>14 DEF ManualExit, flagVars, tickVars, orderVars, recVars
  <2>5. /\ Executed' = Executed
        /\ \A t1 \in Tasks : task'[t1] = "wait" => task[t1] = "wait"
    BY <1>14, LifecycleAssumption
    DEF ManualExit, BookEnds, TypeOK, Locked, Executed, Sellers, flagVars, tickVars, orderVars, recVars
  <2> QED
    BY <2>0, <2>1, <2>3, <2>4, <2>5 DEF Agreed
<1>15. ASSUME NEW t \in Tasks, ExitBegin(t) PROVE Agreed'
  BY <1>15, LifecycleAssumption, Numbers DEF ExitBegin, ExitEnds, TypeOK,
     Locked, Executed, Sellers, Agreed, flagVars, tickVars, orderVars, recVars
<1>16. ASSUME NEW t \in Tasks, ExitLock(t) PROVE Agreed'
  BY <1>16, LifecycleAssumption, Numbers DEF ExitLock, ExitEnds, LockFree,
     TypeOK, Locked, Executed, Sellers, Agreed, flagVars, tickVars, orderVars,
     recVars
<1>17. ASSUME NEW t \in Tasks, ExitSend(t) PROVE Agreed'
  <2> DEFINE p == Home[t]
  <2>0. p \in Processes /\ t \in Sellers /\ lock = t /\ filled[t] = 0 /\ want[t] = 0
    BY <1>17, HomeType DEF ExitSend, Locked, Sellers
  <2>1. Executed = 0 /\ row.qty = held /\ held \in Nat
    BY <2>0 DEF Executed, Agreed
  <2>2. \A y \in Sellers : y # t => want[y] = 0 /\ filled[y] = 0
    BY <2>0, OnlyHolder
  <2>3. UNCHANGED <<held, loose, filled, rec, broker>>
    BY <1>17 DEF ExitSend, Send, flagVars, tickVars, orderVars, recVars
  <2>4. Executed' = 0
    BY <2>0, <2>3, <1>17, LifecycleAssumption DEF ExitSend, Executed, Sellers
  <2>5. \A q \in Processes : obj'[q].qty \in {obj[q].qty, row.qty}
    <3>1. obj \in [Processes -> Object] /\ \A q \in Processes : obj[q] \in Object
      BY DEF TypeOK
    <3>2. CASE row.status # "CLOSED" /\ row.qty # 0
      BY <2>0, <3>1, <3>2, <1>17 DEF ExitSend, Object
    <3>3. CASE ~(row.status # "CLOSED" /\ row.qty # 0)
      BY <2>0, <3>1, <3>3, <1>17 DEF ExitSend, Object
    <3> QED
      BY <3>2, <3>3
  <2>6. row'.qty \in {row.qty, obj'[p].qty}
    BY <2>0, <1>17, UpsertedType, PublicType DEF ExitSend, TypeOK
  <2>7. /\ want'[t] \in {0, row.qty}
        /\ \A y \in Sellers : y # t => want'[y] = 0
        /\ task'[t] = "wait" => want'[t] = row.qty
    BY <2>0, <2>2, <1>17 DEF ExitSend, ExitEnds, Send, TypeOK, flagVars, tickVars, orderVars, recVars
  <2>8. \A u \in Tasks : u # t => task[u] # "wait" /\ task'[u] # "wait"
    BY <2>0, <1>17 DEF ExitSend, ExitEnds, TypeOK, Locked
  <2> QED
    BY <2>0, <2>1, <2>2, <2>3, <2>4, <2>5, <2>6, <2>7, <2>8 DEF Agreed
<1>18. ASSUME NEW t \in Tasks, ExitReturn(t) PROVE Agreed'
  <2> DEFINE p == Home[t]
  <2>0. /\ p \in Processes /\ t \in Sellers /\ lock = t /\ Executed = filled[t]
        /\ row.status # "CLOSED"
    BY <1>18, HomeType DEF ExitReturn, Locked, Executed, Sellers, Monitored
  <2>1. PICK r \in 0 .. filled[t] :
          /\ Return(t, r)
          /\ obj' = [obj EXCEPT ![p] = Exited(p, want[t], r)]
    BY <1>18 DEF ExitReturn
  <2>2. r = filled[t] /\ loose' = 0
    BY <2>0, <2>1, KnownResult DEF Agreed
  <2>3. Exited(p, want[t], r).qty = held
    <3>1. /\ obj[p].qty = held + r /\ obj[p] \in Object
          /\ want[t] = held + r
      BY <2>0, <2>2, <1>18, Numbers DEF Agreed, ExitReturn
    <3>2. CASE r = 0
      BY <3>1, <3>2, Numbers DEF Exited, Object
    <3>3. CASE r # 0
      BY <3>1, <3>3, Numbers DEF Exited, Left, Object
    <3> QED
      BY <3>2, <3>3
  <2>4. \A q \in Processes : obj'[q].qty = held
    BY <2>0, <2>1, <2>3 DEF Alone, TypeOK
  <2>5. row'.qty = held
    BY <2>0, <2>4, <1>18, UpsertedType, PublicType DEF ExitReturn, TypeOK
  <2>6. held' = held /\ \A y \in Sellers : want'[y] = 0 /\ filled'[y] = 0
    BY <2>0, <2>1, OnlyHolder DEF Return, TypeOK
  <2>7. /\ Executed' = 0 /\ UNCHANGED <<rec, broker>>
        /\ \A u \in Tasks : task'[u] # "wait"
    BY <2>0, <1>18, LifecycleAssumption
    DEF ExitReturn, ExitEnds, Executed, Sellers, Locked, TypeOK, flagVars, tickVars, orderVars, recVars
  <2> QED
    BY <2>2, <2>4, <2>5, <2>6, <2>7 DEF Agreed
<1>19. ASSUME RecLock PROVE Agreed'
  BY <1>19, LifecycleAssumption, Numbers DEF RecLock, Reconcilable, LockFree,
     TypeOK, Locked, Executed, Sellers, Agreed, flagVars, tickVars, orderVars,
     recVars
<1>20. ASSUME RecRead PROVE Agreed'
  BY <1>20, LifecycleAssumption, Numbers DEF RecRead, RecEnds, Reconcilable,
     TypeOK, Locked, Executed, Sellers, Agreed, flagVars, tickVars, orderVars,
     recVars
<1>21. ASSUME RecAsk PROVE Agreed'
  BY <1>21, LifecycleAssumption, Numbers DEF RecAsk, RecEnds, TypeOK, Locked,
     Executed, Sellers, Agreed, flagVars, tickVars, orderVars, recVars
<1>22. ASSUME RecCheck PROVE Agreed'
  <2>1. lock = "reconciler" /\ Executed = 0
    BY <1>22, LifecycleAssumption DEF RecCheck, Locked, Executed, Sellers
  <2>2. broker = row.qty
    BY <2>1, <1>22, Numbers DEF RecCheck, Agreed
  <2>3. rec' = "idle" /\ lock' = Nobody
    BY <2>2, <1>22 DEF RecCheck, RecEnds
  <2>4. UNCHANGED <<held, loose, row, obj, want, filled, task>>
    BY <1>22 DEF RecCheck, flagVars, tickVars, orderVars, recVars
  <2> QED
    BY <2>1, <2>3, <2>4, LifecycleAssumption DEF Agreed, Executed, Sellers
<1>23. ASSUME RecWrite PROVE Agreed'
  BY <1>23 DEF RecWrite, Agreed
<1>24. ASSUME NEW p \in Mortal, Crash(p) PROVE Agreed'
  BY <1>24 DEF Alone
<1>25. CASE UNCHANGED vars
  BY <1>25, LifecycleAssumption, Numbers DEF TypeOK, Locked, Executed, Sellers,
     Agreed, vars, flagVars, tickVars, orderVars, recVars
<1> QED
  BY <1>1, <1>2, <1>3, <1>4, <1>5, <1>6, <1>7, <1>8, <1>9, <1>10, <1>11, <1>12,
     <1>13, <1>14, <1>15, <1>16, <1>17, <1>18, <1>19, <1>20, <1>21, <1>22,
     <1>23, <1>24, <1>25 DEF Next, TickStep, ExitStep, Reconcile

-----------------------------------------------------------------------------
(* What PositionExits adds to those steps.                                 *)

SquareOffStep(t) ==
  \/ Breach(t) \/ SetKill(t) \/ List(t) \/ ManualX(t)
  \/ BySight(t) \/ AskNet(t) \/ Sold(t)

LEMMA StepsX ==
  ASSUME [NextX]_varsX
  PROVE  \/ [Next]_vars
         \/ \E p \in Processes : OrderUpdate(p)
         \/ \E t \in Tasks : SquareOffStep(t)
<1>1. CASE UNCHANGED varsX \/ Resume
  BY <1>1 DEF varsX, Resume
<1>2. ASSUME NEW p \in Processes, TickX(p) PROVE [Next]_vars
  BY <1>2 DEF TickX, BookReturnX, Next, TickStep
<1>3. ASSUME NEW t \in Tasks, ExitX(t) PROVE [Next]_vars \/ SquareOffStep(t)
  BY <1>3 DEF ExitX, ExitReturnX, Next, ExitStep, SquareOffStep
<1> QED
  BY <1>1, <1>2, <1>3 DEF NextX, Next

\* What such a step leaves alone.
LEMMA SquareOffFrame ==
  ASSUME TypeOK, Locked, NEW t \in Tasks, SquareOffStep(t)
  PROVE  /\ UNCHANGED <<held, row, signal, inflight, tick, target, rec, before, broker,
                       squared>>
         /\ task' \in [Tasks -> Places]
         /\ \A u \in Tasks : u # t => task'[u] = task[u]
         /\ \A x \in Sellers : x # t => want'[x] = want[x] /\ filled'[x] = filled[x]
         /\ task[t] # "wait" /\ task'[t] # "wait"
<1>1. CASE Breach(t) \/ SetKill(t) \/ List(t) \/ BySight(t)
  BY <1>1 DEF Breach, SetKill, List, BySight, Step, unchangedByStep, TypeOK, Places,
              flagVars, tickVars, orderVars, recVars
<1>2. CASE ManualX(t)
  BY <1>2 DEF ManualX, Step, TypeOK, Places, flagVars, tickVars, orderVars, recVars
<1>3. CASE AskNet(t)
  BY <1>3 DEF AskNet, Step, Send, TypeOK, Places, flagVars, tickVars, orderVars, recVars
<1>4. CASE Sold(t)
  BY <1>4 DEF Sold, Step, Return, TypeOK, Places, flagVars, tickVars, recVars
<1> QED
  BY <1>1, <1>2, <1>3, <1>4 DEF SquareOffStep

\* The lock is taken before the broker is asked, and kept until its order has returned.
LEMMA SquareOffLocked ==
  ASSUME TypeOK, Locked, NEW t \in Tasks, SquareOffStep(t)
  PROVE  /\ Locked' /\ lock' \in Sellers \cup {"reconciler", Nobody}
         /\ want' \in [Sellers -> Nat] /\ filled' \in [Sellers -> Nat]
         /\ task'[t] = "sell" => held + filled'[t] <= want'[t]
<1>1. CASE (Breach(t) \/ SetKill(t) \/ List(t) \/ ManualX(t))
  <2>1. UNCHANGED <<lock, want, filled>>
    BY <1>1 DEF Breach, SetKill, List, ManualX, unchangedByStep, orderVars
  <2>2. /\ task[t] \in {"idle", "trigger", "list", "manual"}
        /\ task'[t] \in {"idle", "trigger", "list", "manual", "begin"}
    BY <1>1 DEF Breach, SetKill, List, ManualX, Step, TypeOK
  <2> QED
    BY <2>1, <2>2, SquareOffFrame DEF Locked, TypeOK
<1>2. CASE BySight(t)
  <2>1. /\ UNCHANGED <<want, filled>> /\ task[t] \in {"manual", "idle"}
        /\ \/ lock' = t /\ task'[t] = "ask" /\ lock = Nobody
           \/ lock' = lock /\ task'[t] = "idle"
    BY <1>2 DEF BySight, LockFree, Step, unchangedByStep, orderVars, TypeOK
  <2> QED
    BY <2>1, SquareOffFrame, LifecycleAssumption DEF Locked, TypeOK, Sellers
<1>3. CASE AskNet(t)
  <2>1. lock = t /\ filled[t] = 0 /\ want[t] = 0 BY <1>3 DEF AskNet, Locked
  <2>2. \/ task'[t] = "idle" /\ lock' = Nobody /\ UNCHANGED <<want, filled>>
        \/ /\ task'[t] = "sell" /\ lock' = t /\ want' = [want EXCEPT ![t] = held]
           /\ held \in Nat /\ filled' = filled
    BY <1>3, <2>1 DEF AskNet, Step, Send, NetQuantity, orderVars, TypeOK
  <2>3. want' \in [Sellers -> Nat] /\ filled' \in [Sellers -> Nat]
    BY <2>2 DEF TypeOK
  <2>4. filled'[t] <= want'[t] /\ (task'[t] # "sell" => want'[t] = 0 /\ filled'[t] = 0)
    BY <2>1, <2>2 DEF TypeOK, Sellers
  <2>5. Locked'
    BY <2>1, <2>2, <2>4, SquareOffFrame, LifecycleAssumption DEF Locked, TypeOK, Sellers
  <2> QED
    BY <2>1, <2>2, <2>3, <2>5, LifecycleAssumption DEF TypeOK, Sellers
<1>4. CASE Sold(t)
  <2>1. lock = t /\ lock' = Nobody /\ task'[t] = "idle"
    BY <1>4 DEF Sold, Step, Locked, TypeOK
  <2>2. want' = [want EXCEPT ![t] = 0] /\ filled' = [filled EXCEPT ![t] = 0]
    BY <1>4 DEF Sold, Return
  <2>3. /\ want' \in [Sellers -> Nat] /\ filled' \in [Sellers -> Nat]
        /\ want'[t] = 0 /\ filled'[t] = 0
    BY <2>2 DEF TypeOK, Sellers
  <2> QED
    BY <2>1, <2>3, SquareOffFrame, LifecycleAssumption DEF Locked, TypeOK, Sellers
<1> QED
  BY <1>1, <1>2, <1>3, <1>4 DEF SquareOffStep

\* The object may be made of the row, as in a manual exit.
LEMMA SquareOffObject ==
  ASSUME TypeOK, NEW t \in Tasks, SquareOffStep(t)
  PROVE  \/ obj' = obj
         \/ obj' = [obj EXCEPT ![Home[t]] = Found(Home[t])]
BY DEF SquareOffStep, Breach, SetKill, List, ManualX, BySight, AskNet, Sold, unchangedByStep

LEMMA SquareOffKept ==
  ASSUME TypeOK, Locked, Monitored, NEW t \in Tasks, SquareOffStep(t)
  PROVE  TypeOK' /\ Monitored' /\ (Covered => Covered')
<1>1. Home[t] \in Processes BY HomeType
<1>2. /\ obj' \in [Processes -> Object]
      /\ \A p \in Processes :
           /\ obj'[p].qty \in {obj[p].qty, row.qty}
           /\ obj[p].tracked => obj'[p] = obj[p]
           /\ obj'[p].tracked \/ obj'[p] = obj[p]
           /\ obj'[p].status = "CLOSED" => obj[p].status = "CLOSED"
  BY <1>1, SquareOffObject, FoundType DEF TypeOK
<1>3. loose' \in Nat
  <2>1. CASE loose' = loose BY <2>1 DEF TypeOK
  <2>2. CASE Sold(t)
    <3>1. PICK n \in 0 .. want[t] : loose' = GivenUp(n) BY <2>2 DEF Sold, Return
    <3>2. n \in Nat BY DEF TypeOK, Sellers
    <3> QED BY <3>1, <3>2, GivenUpType
  <2> QED
    BY <2>1, <2>2
    DEF SquareOffStep, Breach, SetKill, List, ManualX, BySight, AskNet, unchangedByStep
<1>4. TypeOK'
  <2>1. held' \in Int /\ squared' \in BOOLEAN /\ row' \in Row /\ before' \in Row
    BY SquareOffFrame DEF TypeOK
  <2> QED
    BY <1>2, <1>3, <2>1, SquareOffFrame, SquareOffLocked DEF TypeOK
<1>5. \A p \in Processes : want'[p] = want[p] /\ filled'[p] = filled[p]
  BY SquareOffFrame, LifecycleAssumption DEF Sellers
<1>6. \A u \in Tasks : task'[u] = "wait" =>
        task[u] = "wait" /\ want'[u] = want[u] /\ filled'[u] = filled[u]
  BY SquareOffFrame DEF Sellers
<1>7. Monitored'
  <2>1. UNCHANGED <<row, tick, before>> BY SquareOffFrame
  <2> QED BY <1>2, <1>5, <1>6, <2>1 DEF Monitored
<1>8. ASSUME Covered PROVE Covered'
  <2>1. UNCHANGED <<held, row, tick, rec, before, broker>> BY SquareOffFrame
  <2>2. \A p \in Processes : held <= obj'[p].qty BY <1>2, <1>8 DEF Covered
  <2>3. \A p \in Processes :
          tick[p] = "booking" => held + filled[p] <= obj'[p].qty
    BY <1>2, <1>8 DEF Covered, Monitored
  <2> QED BY <1>5, <1>6, <1>8, <2>1, <2>2, <2>3 DEF Covered
<1> QED
  BY <1>4, <1>7, <1>8

\* An order update takes its shares off object and row, once nobody has the lock.
LEMMA UpdateKept ==
  ASSUME TypeOK, Locked, Monitored, named \in [Processes -> Int],
         NEW p \in Processes, OrderUpdate(p)
  PROVE  /\ TypeOK' /\ Locked' /\ Monitored'
         /\ UNCHANGED <<held, want, filled, task>>
         /\ counted' \/ (Covered => Covered')
<1>1. UNCHANGED <<held, loose, lock, signal, inflight, tick, target, task, want, filled, rec,
                  before, broker, squared>>
  BY DEF OrderUpdate, flagVars, tickVars, orderVars, recVars
<1>2. Locked' BY <1>1 DEF Locked
<1>3. CASE named[p] > obj[p].qty
  <2>1. UNCHANGED <<obj, row>> BY <1>3 DEF OrderUpdate
  <2>2. TypeOK' BY <1>1, <2>1 DEF TypeOK
  <2>3. Monitored' BY <1>1, <2>1 DEF Monitored
  <2>4. Covered => Covered' BY <1>1, <2>1 DEF Covered
  <2> QED BY <1>1, <1>2, <2>2, <2>3, <2>4
<1>4. CASE ~(named[p] > obj[p].qty)
  <2> DEFINE q == obj[p].qty - named[p]
             o == [obj[p] EXCEPT !.qty = q, !.status = AfterFill(q),
                                 !.tracked = obj[p].qty # named[p]]
  <2>1. obj[p] \in Object /\ named[p] \in Int /\ named[p] > 0 /\ obj[p].qty \in Nat
    BY DEF OrderUpdate, TypeOK, Object
  <2>2. q \in Nat /\ (obj[p].qty = named[p] <=> q = 0) BY <1>4, <2>1
  <2>3. AfterFill(q) \in Statuses /\ (AfterFill(q) = "CLOSED" <=> q = 0)
    BY DEF AfterFill, Statuses, Live
  <2>4. /\ o \in Object /\ o.status = AfterFill(q) /\ (o.tracked \/ o.status = "CLOSED")
    BY <2>1, <2>2, <2>3 DEF Object
  <2>5. /\ obj' = [obj EXCEPT ![p] = o] /\ row' = Upserted(row, Public(obj'[p]))
        /\ counted' = TRUE
    BY <1>4 DEF OrderUpdate
  <2>6. row.status = "EXITING" BY DEF OrderUpdate, SavedExiting
  <2> HIDE DEF q, o
  <2>7. /\ obj' \in [Processes -> Object] /\ obj'[p] = o
        /\ row' \in Row /\ row'.status = o.status
    <3>1. obj' \in [Processes -> Object] /\ obj'[p] = o
      BY <2>4, <2>5 DEF TypeOK
    <3>2. row \in Row /\ Public(o) \in Row /\ Public(o).status = o.status
      BY <2>4, PublicType DEF TypeOK
    <3>3. row' = Public(o)
      BY <2>5, <2>6, <3>1 DEF Upserted
    <3> QED BY <3>1, <3>2, <3>3
  <2>8. TypeOK' BY <1>1, <2>7 DEF TypeOK
  <2>9. /\ \A x \in Processes : x # p => obj'[x] = obj[x]
        /\ \A x \in Processes : tick[x] # "booking" /\ obj[x].status # "CLOSED"
        /\ \A t \in Tasks : task[t] # "wait"
    <3>1. lock = Nobody BY DEF OrderUpdate, LockFree
    <3> QED BY <2>5, <2>6, <3>1, LifecycleAssumption DEF Locked, Monitored, TypeOK, Sellers
  <2>10. Monitored'
    BY <1>1, <2>4, <2>6, <2>7, <2>9 DEF Monitored
  <2> QED BY <1>1, <1>2, <2>5, <2>8, <2>10
<1> QED BY <1>3, <1>4

\* The broker's shares only go down, and an order's fills are those of its shares.
LEMMA BrokerStep ==
  ASSUME TypeOK, Locked, [Next]_vars
  PROVE  /\ held' <= held
         /\ \A t \in Tasks : task'[t] = "sell" =>
              /\ task[t] = "sell" /\ want'[t] = want[t]
              /\ held' + filled'[t] <= held + filled[t]
<1>0. held \in Int /\ \A t \in Tasks : t \in Sellers /\ filled[t] \in Nat
  BY DEF TypeOK, Sellers
<1>1. ASSUME NEW x \in Sellers, Fill(x)
      PROVE  /\ held' = held - 1 /\ UNCHANGED <<task, want>>
             /\ \A t \in Tasks : filled'[t] <= filled[t] + 1 /\ filled'[t] \in Nat
  BY <1>0, <1>1 DEF Fill, TypeOK
<1>2. ASSUME LooseFill PROVE held' = held - 1 /\ UNCHANGED <<task, want, filled>>
  BY <1>2 DEF LooseFill, orderVars
<1> DEFINE Same == /\ held' = held
                   /\ \A t \in Tasks : task'[t] = "sell" =>
                        /\ task[t] = "sell" /\ want'[t] = want[t] /\ filled'[t] = filled[t]
<1>3. ASSUME NEW p \in Processes, TickStep(p) PROVE Same
  <2>1. CASE BookSend(p) \/ BookReturn(p)
    <3>1. held' = held /\ task' = task
          /\ \A x \in Sellers : x # p => want'[x] = want[x] /\ filled'[x] = filled[x]
      BY <2>1 DEF BookSend, BookReturn, Send, Return, TypeOK
    <3> QED BY <3>1, LifecycleAssumption DEF Sellers
  <2>2. CASE StartExit(p)
    BY <2>2 DEF StartExit, TypeOK, orderVars
  <2>3. CASE \/ Tick(p) \/ BookNothing(p) \/ NoExit(p) \/ ExitConditionsMet(p)
             \/ TickWrite(p) \/ \E g \in Targets : TargetReached(p, g)
    BY <2>3 DEF Tick, BookNothing, NoExit, ExitConditionsMet, TickWrite, TargetReached,
                orderVars
  <2> QED BY <1>3, <2>1, <2>2, <2>3 DEF TickStep
<1>4. ASSUME NEW t \in Tasks, AlertExit(t) \/ ManualExit(t) \/ ExitBegin(t) \/ ExitLock(t)
      PROVE  Same
  BY <1>4 DEF AlertExit, ManualExit, ExitBegin, ExitLock, ExitEnds, TypeOK, orderVars
<1>5. ASSUME NEW t \in Tasks, ExitSend(t) \/ ExitReturn(t) PROVE Same
  <2>1. /\ held' = held /\ task'[t] # "sell"
        /\ \A u \in Tasks : u # t => task'[u] = task[u]
    BY <1>5 DEF ExitSend, ExitReturn, ExitEnds, Return, TypeOK
  <2>2. \A x \in Sellers : x # t => want'[x] = want[x] /\ filled'[x] = filled[x]
    BY <1>5 DEF ExitSend, ExitReturn, Send, Return, TypeOK, orderVars
  <2> QED BY <2>1, <2>2 DEF Sellers
<1>6. ASSUME NEW p \in Processes, ExitAll(p) PROVE Same
  BY <1>6 DEF ExitAll, TypeOK, orderVars
<1>7. ASSUME Reconcile PROVE Same
  <2>1. UNCHANGED <<held, task, want, filled>>
    BY <1>7 DEF Reconcile, RecLock, RecRead, RecAsk, RecCheck, RecWrite, orderVars
  <2> QED BY <2>1
<1>8. ASSUME NEW p \in Mortal, Crash(p) PROVE Same
  BY <1>8, LifecycleAssumption DEF Crash, TypeOK, Sellers
<1>9. ASSUME UNCHANGED vars PROVE Same
  <2>1. UNCHANGED <<held, task, want, filled>> BY <1>9 DEF vars, orderVars
  <2> QED BY <2>1
<1>10. CASE Same BY <1>0, <1>10
<1>11. CASE \E x \in Sellers : Fill(x) BY <1>0, <1>1, <1>11
<1>12. CASE LooseFill BY <1>0, <1>2, <1>12
<1> QED
  BY <1>3, <1>4, <1>5, <1>6, <1>7, <1>8, <1>9, <1>10, <1>11, <1>12 DEF Next, ExitStep

LEMMA NamedStep ==
  ASSUME TypeOK, TypeOK', named \in [Processes -> Int], [NextX]_varsX
  PROVE  named' \in [Processes -> Int]
<1>1. ASSUME NEW p \in Processes, Hydrates(p) PROVE named' \in [Processes -> Int]
  BY <1>1 DEF Hydrates
<1>2. ASSUME NEW t \in Tasks, ExitReturnX(t) PROVE named' \in [Processes -> Int]
  <2>1. Home[t] \in Processes BY HomeType
  <2>2. want[t] - obj'[Home[t]].qty \in Int
    BY <2>1 DEF TypeOK, Sellers, Object
  <2> QED BY <1>2, <2>1, <2>2 DEF ExitReturnX
<1>3. ASSUME NEW p \in Processes, TickX(p) PROVE named' \in [Processes -> Int]
  BY <1>1, <1>3 DEF TickX, BookReturnX, exitVars
<1>4. ASSUME NEW t \in Tasks, ExitX(t) PROVE named' \in [Processes -> Int]
  <2>1. Home[t] \in Processes BY HomeType
  <2>2. CASE \/ AlertExit(t) /\ Hydrates(Home[t])
             \/ ManualExit(t) /\ Hydrates(Home[t])
             \/ ManualX(t)
    BY <1>1, <2>1, <2>2 DEF ManualX
  <2>3. CASE \/ (ExitBegin(t) \/ ExitLock(t) \/ ExitSend(t)) /\ UNCHANGED exitVars
             \/ Breach(t) \/ SetKill(t) \/ List(t) \/ BySight(t) \/ AskNet(t) \/ Sold(t)
    BY <2>3 DEF Breach, SetKill, List, BySight, AskNet, Sold, exitVars, unchangedByStep
  <2> QED BY <1>2, <1>4, <2>2, <2>3 DEF ExitX
<1>5. ASSUME NEW p \in Processes, OrderUpdate(p) PROVE named' \in [Processes -> Int]
  BY <1>5 DEF OrderUpdate
<1>6. CASE UNCHANGED exitVars \/ UNCHANGED varsX \/ Resume
  BY <1>6 DEF exitVars, varsX, Resume
<1> QED
  BY <1>3, <1>4, <1>5, <1>6 DEF NextX

\* Only an order update is counted.
LEMMA CountedStep ==
  ASSUME [NextX]_varsX
  PROVE  counted' = counted \/ \E p \in Processes : OrderUpdate(p)
<1>1. ASSUME NEW p \in Processes, TickX(p) PROVE counted' = counted
  BY <1>1 DEF TickX, BookReturnX, Hydrates, exitVars
<1>2. ASSUME NEW t \in Tasks, ExitX(t) PROVE counted' = counted
  BY <1>2
  DEF ExitX, ExitReturnX, Hydrates, ManualX, Breach, SetKill, List, BySight, AskNet, Sold,
      exitVars, unchangedByStep
<1>3. CASE UNCHANGED exitVars \/ UNCHANGED varsX \/ Resume
  BY <1>3 DEF exitVars, varsX, Resume
<1> QED
  BY <1>1, <1>2, <1>3 DEF NextX

LEMMA InvXStep == ASSUME InvX, [NextX]_varsX PROVE InvX' /\ held' <= held
<1>0. TypeOK /\ Locked /\ Monitored BY DEF InvX, Inv
<1>1. CASE [Next]_vars
  <2>1. TypeOK' /\ Locked' /\ Monitored'
    BY <1>0, <1>1, TypeStep, LockedStep, MonitoredStep
  <2>2. Covered => Covered' BY <1>0, <1>1, <2>1, CoveredStep
  <2>3. held' <= held /\ Sighted'
    <3>1. \A t \in Tasks : t \in Sellers /\ held' \in Int /\ held \in Int
                          /\ filled'[t] \in Nat /\ filled[t] \in Nat /\ want[t] \in Nat
      BY <1>0, <2>1 DEF TypeOK, Sellers
    <3>2. Sighted'
      BY <1>0, <1>1, <3>1, BrokerStep DEF InvX, Sighted
    <3> QED BY <1>0, <1>1, <3>2, BrokerStep
  <2>4. counted' = counted \/ \E p \in Processes : OrderUpdate(p) BY CountedStep
  <2>5. counted' \/ Covered'
    <3>1. CASE \E p \in Processes : OrderUpdate(p)
      BY <1>0, <2>2, <3>1, UpdateKept DEF InvX, OrderUpdate
    <3>2. CASE counted' = counted BY <2>2, <3>2 DEF InvX
    <3> QED BY <2>4, <3>1, <3>2
  <2>6. named' \in [Processes -> Int] BY <1>0, <2>1, NamedStep DEF InvX
  <2> QED BY <2>1, <2>3, <2>5, <2>6 DEF InvX, Inv
<1>2. ASSUME NEW p \in Processes, OrderUpdate(p) PROVE InvX' /\ held' <= held
  <2>1. /\ TypeOK' /\ Locked' /\ Monitored'
        /\ UNCHANGED <<held, want, filled, task>>
        /\ counted' \/ (Covered => Covered')
    BY <1>0, <1>2, UpdateKept DEF InvX
  <2>2. counted => counted' BY <1>2 DEF OrderUpdate
  <2>3. Sighted' BY <2>1 DEF InvX, Sighted
  <2>4. named' \in [Processes -> Int] BY <1>0, <2>1, NamedStep DEF InvX
  <2>5. held' <= held BY <1>0, <2>1 DEF TypeOK
  <2> QED BY <2>1, <2>2, <2>3, <2>4, <2>5 DEF InvX, Inv
<1>3. ASSUME NEW t \in Tasks, SquareOffStep(t) PROVE InvX' /\ held' <= held
  <2>1. TypeOK' /\ Monitored' /\ (Covered => Covered')
    BY <1>0, <1>3, SquareOffKept
  <2>2. Locked' /\ (task'[t] = "sell" => held + filled'[t] <= want'[t])
    BY <1>0, <1>3, SquareOffLocked
  <2>3. /\ held' = held /\ \A u \in Tasks : u # t => task'[u] = task[u]
        /\ \A x \in Sellers : x # t => want'[x] = want[x] /\ filled'[x] = filled[x]
    BY <1>0, <1>3, SquareOffFrame
  <2>4. Sighted' BY <2>2, <2>3 DEF InvX, Sighted, Sellers
  <2>5. counted' = counted
    BY <1>3
    DEF SquareOffStep, Breach, SetKill, List, ManualX, Hydrates, BySight, AskNet, Sold,
        exitVars, unchangedByStep
  <2>6. named' \in [Processes -> Int] BY <1>0, <2>1, NamedStep DEF InvX
  <2>7. held' <= held BY <1>0, <2>3 DEF TypeOK
  <2> QED BY <2>1, <2>2, <2>4, <2>5, <2>6, <2>7 DEF InvX, Inv
<1> QED
  BY <1>1, <1>2, <1>3, StepsX
-----------------------------------------------------------------------------
(* The theorems.                                                           *)

\* The parts of the invariant hold at the start.
LEMMA Start == Init => Inv /\ Covered
<1> SUFFICES ASSUME Init PROVE Inv /\ Covered
  OBVIOUS
<1>1. /\ row \in Row /\ row.qty = Qty /\ row.status = "OPEN" /\ before = row
      /\ obj \in [Processes -> Object]
      /\ \A p \in Processes : obj[p].qty = Qty /\ obj[p].status = "OPEN"
  BY LifecycleAssumption DEF Init, Row, Object, Statuses, Live
<1>2. TypeOK
  <2>0. squared \in BOOLEAN
    BY Zenon DEF Init
  <2>1. /\ held \in Int /\ loose \in Nat
        /\ row \in Row /\ before \in Row /\ obj \in [Processes -> Object]
        /\ broker \in Int /\ rec = "idle" /\ lock = Nobody
    <3>1. held = Qty /\ loose = 0 /\ broker = 0
      BY DEF Init
    <3>2. rec = "idle" /\ lock = Nobody /\ Qty \in Nat
      BY LifecycleAssumption DEF Init
    <3> QED
      BY <1>1, <3>1, <3>2
  <2>2. /\ signal \in [Processes -> BOOLEAN] /\ inflight \in [Processes -> BOOLEAN]
        /\ tick \in [Processes -> {"idle", "targets", "book", "booking",
                                   "signalled", "write"}]
        /\ target \in [Processes -> Targets \cup {Nobody}]
    BY DEF Init
  <2>3. /\ task \in [Tasks -> Places]
        /\ want \in [Sellers -> Nat] /\ filled \in [Sellers -> Nat]
    BY DEF Init, Places
  <2> QED
    BY <2>0, <2>1, <2>2, <2>3 DEF TypeOK
<1>3. Locked
  BY LifecycleAssumption DEF Init, Locked, Sellers
<1>4. Monitored
  BY <1>1 DEF Init, Monitored
<1>5. Covered
  BY <1>1, LifecycleAssumption DEF Init, Covered
<1> QED
  BY <1>2, <1>3, <1>4, <1>5 DEF Inv

\* The invariant's first three parts, in any configuration.
LEMMA AlwaysInv == Spec => []Inv
<1>1. Init => Inv
  BY Start
<1>2. Inv /\ [Next]_vars => Inv'
  BY TypeStep, LockedStep, MonitoredStep DEF Inv
<1> QED
  BY <1>1, <1>2, PTL DEF Spec

\* All of it holds with order updates and square-offs too.
LEMMA AlwaysInvX == SpecX => []InvX
<1>1. InitX => InvX
  <2> SUFFICES ASSUME InitX PROVE InvX OBVIOUS
  <2>1. Inv /\ Covered BY Start DEF InitX
  <2>2. Sighted BY DEF InitX, Init, Sighted
  <2>3. named \in [Processes -> Int] BY DEF InitX
  <2> QED BY <2>1, <2>2, <2>3 DEF InvX
<1>2. InvX /\ [NextX]_varsX => InvX'
  BY InvXStep
<1> QED
  BY <1>1, <1>2, PTL DEF SpecX

\* Whatever services, exits and orders do, every variable keeps its type: no
\* booking, exit, order update or reconciliation takes off more shares than a row or an
\* object has.
THEOREM TypeCorrect == SpecX => []TypeOK
<1>1. InvX => TypeOK
  BY DEF InvX, Inv
<1> QED
  BY <1>1, AlwaysInvX, PTL

\* One order at a time, in however many services: the exit lock covers targets,
\* exits, square-offs by the broker's quantity and their orders, until the order's
\* result is in the row.
THEOREM OneOrder == SpecX => []OneOrderAtATime
<1>1. InvX => OneOrderAtATime
  <2> SUFFICES ASSUME InvX PROVE OneOrderAtATime
    OBVIOUS
  <2> DEFINE S == {x \in Sellers : want[x] > 0}
  <2>1. S \subseteq {lock}
    BY OnlyHolder DEF InvX, Inv
  <2>2. IsFiniteSet({lock}) /\ Cardinality({lock}) = 1
    BY FS_Singleton
  <2>3. Cardinality(S) <= 1
    BY <2>1, <2>2, FS_Subset
  <2> QED
    BY <2>3 DEF OneOrderAtATime
<1> QED
  BY <1>1, AlwaysInvX, PTL

\* Shares that were not sold are written off by nothing but an order update.
THEOREM WrittenOff == SpecX => []WrittenOffOnlyByUpdate
<1>1. InvX => WrittenOffOnlyByUpdate
  BY DEF InvX, Covered, WrittenOffOnlyByUpdate, ClosedMeansFlat
<1> QED
  BY <1>1, AlwaysInvX, PTL

\* An exit's order is for all that there is: when it was filled, nothing is left.
THEOREM ExitsLeaveNothing == SpecX => FilledExitIsFlat
<1> DEFINE A == \A t \in Tasks :
                  want[t] > 0 /\ filled[t] = want[t] /\ task'[t] = "idle" /\ ~counted
                    => held' <= 0
<1>1. InvX /\ [NextX]_varsX => [A]_varsX
  <2> SUFFICES ASSUME InvX, [NextX]_varsX, NEW t \in Tasks,
                      want[t] > 0, filled[t] = want[t], ~counted
               PROVE  held' <= 0
    OBVIOUS
  <2>1. task[t] \in {"wait", "sell"} /\ held \in Int /\ want[t] \in Nat
    BY DEF InvX, Inv, Locked, TypeOK, Sellers
  <2>2. held + filled[t] <= want[t]
    BY <2>1 DEF InvX, Covered, Sighted
  <2>3. held' <= held /\ held' \in Int
    BY InvXStep DEF InvX, Inv, TypeOK
  <2> QED
    BY <2>1, <2>2, <2>3
<1>2. FilledExitIsFlat <=> [][A]_varsX
  BY DEF FilledExitIsFlat
<1> QED
  BY <1>1, <1>2, AlwaysInvX, PTL DEF SpecX

\* Without order updates and the square-offs of the kill switch a closed row means that
\* the broker holds nothing, whatever becomes of the orders and whoever dies.
THEOREM FlatWhenClosed == Spec => []ClosedMeansFlat
<1> DEFINE J == Inv /\ Covered
<1>1. Init => J
  BY Start
<1>2. J /\ [Next]_vars => J'
  BY TypeStep, LockedStep, MonitoredStep, CoveredStep DEF Inv
<1>3. J => ClosedMeansFlat
  BY DEF Covered, ClosedMeansFlat
<1> QED
  BY <1>1, <1>2, <1>3, PTL DEF Spec

\* One service that evaluates ticks, with any number of exits, targets and
\* alerts at once, never sells more than it has, if the result of every order
\* is known and final and it does not die.
THEOREM WithinHoldings ==
  ASSUME \A p, q \in Processes : p = q,
         Outcomes \subseteq {"full", "part", "rejected"},
         Mortal = {}
  PROVE  Spec => []ExitsWithinHoldings
<1> DEFINE J == Inv /\ Agreed
<1>0. Alone
  BY DEF Alone
<1>1. Init => J
  BY Start, LifecycleAssumption DEF Init, Agreed, Executed, Sellers
<1>2. J /\ [Next]_vars => J'
  BY <1>0, TypeStep, LockedStep, MonitoredStep, AgreedStep DEF Inv
<1>3. J => ExitsWithinHoldings
  BY DEF Agreed, ExitsWithinHoldings
<1> QED
  BY <1>1, <1>2, <1>3, PTL DEF Spec
=============================================================================

------------------------- MODULE PositionLifecycle -------------------------
(***************************************************************************)
(* One live position (one user, one symbol, one trade) from its entry to    *)
(* its close.  The broker holds its shares, Redis a row that says what the *)
(* program believes, and every service that evaluates ticks has an engine  *)
(* with an object of its own.  Ticks, target bookings, exits and the        *)
(* reconciliation service change row and objects; orders go out under the  *)
(* symbol's "exit" lock (OrderLock), which is not lost here.  An order is  *)
(* what OrderExecution makes of it: Outcomes says which of its results are *)
(* considered.                                                             *)
(***************************************************************************)
EXTENDS Integers, FiniteSets

CONSTANTS
  Processes,   \* services with an engine that evaluates ticks
  Reconciler,  \* the reconciliation service; in Processes if it does, too
  Mortal,      \* the processes that may die
  Tasks,       \* coroutines of _exit_position
  Home,        \* the process of each
  Qty,         \* shares of the entry
  Targets,     \* profit targets (TP1, TP2, TP3)
  TargetQty,   \* shares each is to sell
  Outcomes,    \* what may become of an order
  MaxShort,    \* bound on the shares sold short
  Nobody

Sellers == Tasks \cup Processes

ASSUME LifecycleAssumption ==
  /\ Qty \in Nat \ {0} /\ Home \in [Tasks -> Processes]
  /\ MaxShort \in Nat /\ Mortal \subseteq Processes
  /\ TargetQty \in [Targets -> Nat]
  /\ Tasks \cap Processes = {} /\ Nobody \notin Sellers \cup {"reconciler"}
  /\ "reconciler" \notin Sellers
  /\ Outcomes \subseteq {"full", "part", "rejected", "lost", "uncertain"}

VARIABLES
  held,      \* broker: shares of the position, less than zero if oversold
  loose,     \* broker: unfilled shares of orders nobody waits for
  row,       \* Redis: status, quantity, targets booked
  obj,       \* processes: the same in memory, and whether it is monitored
  lock,      \* holder of the exit lock
  signal, inflight,  \* processes: _exit_signal_sent, _exit_inflight
  tick,      \* processes: where the handling of a tick is
  target,    \* processes: the target a tick reached
  task,      \* tasks: where each is
  want, filled,  \* sellers: their order's shares, and those executed
  rec, before, broker,  \* reconciler: where it is, the row and the broker's
                        \* quantity as it read them
  squared    \* the automatic square-off of the day has run

orderVars == <<want, filled>>
tickVars == <<tick, target>>
recVars == <<rec, before, broker>>
flagVars == <<signal, inflight>>
vars == <<held, loose, row, obj, lock, flagVars, tickVars, task, orderVars,
          recVars, squared>>

Live == {"OPEN", "EXIT_CONDITIONS_MET", "EXITING"}
Statuses == Live \cup {"CLOSED", "ERROR"}
Row == [status : Statuses, qty : Nat, booked : SUBSET Targets]
Object == [status : Statuses, qty : Nat, booked : SUBSET Targets,
           tracked : BOOLEAN]

Least(m, n) == IF m < n THEN m ELSE n

\* Position.to_public.
Public(o) == [status |-> o.status, qty |-> o.qty, booked |-> o.booked]

\* The Position made of a row.
Hydrated(r) == [status |-> r.status, qty |-> r.qty, booked |-> r.booked,
                tracked |-> TRUE]

\* The object in memory, or else one made of the row.
Found(p) ==
  IF ~obj[p].tracked /\ row.status \in Live THEN Hydrated(row) ELSE obj[p]

\* A closed trade is not opened again: what upsert_position leaves.
Upserted(old, new) ==
  IF old.status = "CLOSED" /\ new.status # "CLOSED" THEN old ELSE new

\* Mutant: one share too many is taken off.
LeftShort(q, r) == q - r - 1

\* What is left of q shares when an order reports r of them sold.
Left(q, r) == q - r

\* Mutant: any fill closes the position.
AnyFillCloses(q) == "CLOSED"

AfterFill(q) == IF q = 0 THEN "CLOSED" ELSE "OPEN"

\* Mutant: the lock is granted to everyone.
LockIgnored == TRUE

LockFree == lock = Nobody

Init ==
  /\ held = Qty /\ loose = 0 /\ squared = FALSE
  /\ row = [status |-> "OPEN", qty |-> Qty, booked |-> {}]
  /\ obj = [p \in Processes |-> [status |-> "OPEN", qty |-> Qty,
                                 booked |-> {}, tracked |-> FALSE]]
  /\ lock = Nobody
  /\ signal = [p \in Processes |-> FALSE]
  /\ inflight = [p \in Processes |-> FALSE]
  /\ tick = [p \in Processes |-> "idle"]
  /\ target = [p \in Processes |-> Nobody]
  /\ task = [t \in Tasks |-> "idle"]
  /\ want = [x \in Sellers |-> 0]
  /\ filled = [x \in Sellers |-> 0]
  /\ rec = "idle" /\ before = row /\ broker = 0
-----------------------------------------------------------------------------
(* The broker, which lends MaxShort shares.                                *)

Fill(x) ==
  /\ filled[x] < want[x] /\ held > -MaxShort
  /\ filled' = [filled EXCEPT ![x] = @ + 1]
  /\ held' = held - 1
  /\ UNCHANGED <<loose, row, obj, lock, flagVars, tickVars, task, want,
                 recVars, squared>>

\* An order that was given up executes all the same.
LooseFill ==
  /\ loose > 0 /\ held > -MaxShort
  /\ loose' = loose - 1 /\ held' = held - 1
  /\ UNCHANGED <<row, obj, lock, flagVars, tickVars, task, orderVars,
                 recVars, squared>>

\* _place_order_with_execution for w shares of which f are sold: it reports r
\* (none if it raises) and leaves n shares to fill.
Result(o, w, f, r, n) ==
  \/ o = "full" /\ f = w /\ r = f /\ n = 0
  \/ o = "part" /\ 0 < f /\ f < w /\ r = f /\ n = 0
  \/ o = "rejected" /\ f = 0 /\ r = 0 /\ n = 0
  \/ o = "lost" /\ r = 0 /\ n = w - f
  \/ o = "uncertain" /\ 0 < r /\ r <= f /\ r < w /\ n = w - f

\* n more shares to fill that nobody waits for, no more than can be.
GivenUp(n) == Least(loose + n, Qty + MaxShort)

Send(x, n) ==
  /\ want' = [want EXCEPT ![x] = n]
  /\ UNCHANGED filled

Return(x, r) ==
  /\ \E o \in Outcomes, n \in 0 .. want[x] :
       /\ Result(o, want[x], filled[x], r, n)
       /\ loose' = GivenUp(n)
  /\ want' = [want EXCEPT ![x] = 0]
  /\ filled' = [filled EXCEPT ![x] = 0]
  /\ UNCHANGED held
-----------------------------------------------------------------------------
(* A tick: on_tick and the write of the position it returns.               *)

\* The saved row first: the object is dropped if its trade is closed, made if
\* there is none; only an open one is evaluated.
Tick(p) ==
  /\ tick[p] = "idle"
  /\ obj' = [obj EXCEPT ![p] =
               IF row.status = "CLOSED" THEN [@ EXCEPT !.tracked = FALSE]
               ELSE Found(p)]
  /\ tick' = [tick EXCEPT ![p] =
                IF obj'[p].tracked /\ obj'[p].status = "OPEN"
                THEN "targets" ELSE "idle"]
  /\ UNCHANGED <<held, loose, row, lock, flagVars, target, task, orderVars,
                 recVars, squared>>

\* A target is reached that is not booked: the lock is asked for.  A refusal
\* leaves it to a later tick.
TargetReached(p, g) ==
  /\ tick[p] = "targets" /\ g \notin obj[p].booked /\ LockFree
  /\ lock' = p
  /\ tick' = [tick EXCEPT ![p] = "book"]
  /\ target' = [target EXCEPT ![p] = g]
  /\ UNCHANGED <<held, loose, row, obj, flagVars, task, orderVars, recVars,
                 squared>>

\* The shares to sell for p's target, out of what the row says is left.
BookQty(p) == Least(TargetQty[target[p]], row.qty)

BookEnds(p) ==
  /\ lock' = Nobody
  /\ target' = [target EXCEPT ![p] = Nobody]

\* The row is read under the lock, and there is nothing to sell: the position
\* is not open, the target was booked by another, or too few shares are left.
BookNothing(p) ==
  /\ tick[p] = "book"
  /\ \/ row.status # "OPEN" /\ UNCHANGED <<obj, row>>
     \/ /\ row.status = "OPEN" /\ target[p] \in row.booked
        /\ obj' = [obj EXCEPT ![p].qty = row.qty,
                              ![p].booked = @ \cup {target[p]}]
        /\ UNCHANGED row
     \/ /\ row.status = "OPEN" /\ target[p] \notin row.booked /\ BookQty(p) = 0
        /\ obj' = [obj EXCEPT ![p].qty = row.qty,
                              ![p].booked = @ \cup {target[p]}]
        /\ row' = Upserted(row, Public(obj'[p]))
  /\ BookEnds(p)
  /\ tick' = [tick EXCEPT ![p] = "targets"]
  /\ UNCHANGED <<held, loose, flagVars, task, orderVars, recVars, squared>>

BookSend(p) ==
  /\ tick[p] = "book" /\ BookQty(p) > 0
  /\ row.status = "OPEN" /\ target[p] \notin row.booked
  /\ obj' = [obj EXCEPT ![p].qty = row.qty]
  /\ Send(p, BookQty(p))
  /\ tick' = [tick EXCEPT ![p] = "booking"]
  /\ UNCHANGED <<held, loose, row, lock, flagVars, target, task, recVars,
                 squared>>

\* The object after a booking of which r shares are sold.
Booked(p, r) ==
  IF r = 0 THEN [obj[p] EXCEPT !.status = "ERROR"]
  ELSE LET q == Left(obj[p].qty, r)
       IN [obj[p] EXCEPT
             !.qty = q, !.status = AfterFill(q), !.tracked = q # 0,
             !.booked = IF r = want[p] THEN @ \cup {target[p]} ELSE @]

BookReturn(p) ==
  /\ tick[p] = "booking"
  /\ \E r \in 0 .. filled[p] :
       /\ Return(p, r)
       /\ obj' = [obj EXCEPT ![p] = Booked(p, r)]
  /\ row' = Upserted(row, Public(obj'[p]))
  /\ BookEnds(p)
  /\ tick' = [tick EXCEPT ![p] =
                IF obj'[p].status = "OPEN" THEN "targets"
                ELSE IF obj'[p].status = "ERROR" THEN "write" ELSE "idle"]
  /\ UNCHANGED <<flagVars, task, recVars, squared>>

\* No exit condition is met.
NoExit(p) ==
  /\ tick[p] = "targets"
  /\ tick' = [tick EXCEPT ![p] = "write"]
  /\ UNCHANGED <<held, loose, row, obj, lock, flagVars, target, task,
                 orderVars, recVars, squared>>

\* An exit condition is met, perhaps after a wait for candles: the object is
\* marked whatever it has become since.
ExitConditionsMet(p) ==
  /\ tick[p] = "targets"
  /\ IF signal[p] THEN UNCHANGED <<signal, obj, row>>
     ELSE /\ signal' = [signal EXCEPT ![p] = TRUE]
          /\ obj' = [obj EXCEPT ![p].status = "EXIT_CONDITIONS_MET"]
          /\ row' = Upserted(row, Public(obj'[p]))
  /\ tick' = [tick EXCEPT ![p] = "signalled"]
  /\ UNCHANGED <<held, loose, lock, inflight, target, task, orderVars,
                 recVars, squared>>

\* The exit is started in a task of its own, unless one is under way.
StartExit(p) ==
  /\ tick[p] = "signalled"
  /\ tick' = [tick EXCEPT ![p] = "write"]
  /\ \/ inflight[p] /\ UNCHANGED <<inflight, obj, row, task>>
     \/ /\ ~inflight[p]
        /\ inflight' = [inflight EXCEPT ![p] = TRUE]
        /\ obj' = [obj EXCEPT ![p].status = "EXITING"]
        /\ row' = Upserted(row, Public(obj'[p]))
        /\ \E t \in Tasks :
             /\ Home[t] = p /\ task[t] = "idle"
             /\ task' = [task EXCEPT ![t] = "begin"]
  /\ UNCHANGED <<held, loose, lock, signal, target, orderVars, recVars, squared>>

\* The feed writes the position it got back, as it now is; the reconciliation
\* service only an open one.
TickWrite(p) ==
  /\ tick[p] = "write"
  /\ tick' = [tick EXCEPT ![p] = "idle"]
  /\ \/ UNCHANGED row
     \/ /\ p = Reconciler => obj[p].status = "OPEN"
        /\ row' = Upserted(row, Public(obj[p]))
  /\ UNCHANGED <<held, loose, obj, lock, flagVars, target, task, orderVars,
                 recVars, squared>>
-----------------------------------------------------------------------------
(* Exits.                                                                  *)

\* An alert asks for an exit, unless one is under way.
AlertExit(t) ==
  LET p == Home[t]
  IN /\ task[t] = "idle"
     /\ obj' = [obj EXCEPT ![p] = Found(p)]
     /\ obj'[p].tracked /\ obj'[p].status \in Live \ {"EXITING"}
     /\ ~inflight[p]
     /\ signal' = [signal EXCEPT ![p] = TRUE]
     /\ inflight' = [inflight EXCEPT ![p] = TRUE]
     /\ task' = [task EXCEPT ![t] = "begin"]
     /\ UNCHANGED <<held, loose, row, lock, tickVars, orderVars, recVars, squared>>

\* The user, or the kill switch, asks for an exit.
ManualExit(t) ==
  LET p == Home[t]
  IN /\ task[t] = "idle"
     /\ obj' = [obj EXCEPT ![p] = Found(p)]
     /\ obj'[p].tracked /\ obj'[p].status \in Live
     /\ task' = [task EXCEPT ![t] = "begin"]
     /\ UNCHANGED <<held, loose, row, lock, flagVars, tickVars, orderVars,
                    recVars, squared>>

\* The automatic square-off: once a day, the open positions in p's memory (if
\* a task is left to run it).
ExitAll(p) ==
  /\ ~squared /\ squared' = TRUE
  /\ IF obj[p].tracked /\ obj[p].status = "OPEN"
     THEN \E t \in Tasks : /\ Home[t] = p /\ task[t] = "idle"
                           /\ task' = [task EXCEPT ![t] = "begin"]
     ELSE UNCHANGED task
  /\ UNCHANGED <<held, loose, row, obj, lock, flagVars, tickVars, orderVars,
                 recVars>>

\* The end of a task, the flags of other exits of its process included.
ExitEnds(t) ==
  /\ task' = [task EXCEPT ![t] = "idle"]
  /\ signal' = [signal EXCEPT ![Home[t]] = FALSE]
  /\ inflight' = [inflight EXCEPT ![Home[t]] = FALSE]

ExitBegin(t) ==
  LET o == obj[Home[t]]
  IN /\ task[t] = "begin"
     /\ IF o.tracked /\ o.status \in Live
        THEN task' = [task EXCEPT ![t] = "lock"] /\ UNCHANGED flagVars
        ELSE ExitEnds(t)
     /\ UNCHANGED <<held, loose, row, obj, lock, tickVars, orderVars, recVars,
                    squared>>

\* A refusal ends the exit; the position stays as the tick marked it.
ExitLock(t) ==
  /\ task[t] = "lock"
  /\ IF LockFree
     THEN /\ lock' = t
          /\ task' = [task EXCEPT ![t] = "send"]
          /\ UNCHANGED flagVars
     ELSE ExitEnds(t) /\ UNCHANGED lock
  /\ UNCHANGED <<held, loose, row, obj, tickVars, orderVars, recVars, squared>>

\* The row is read again; the order is for the quantity it has.
ExitSend(t) ==
  LET p == Home[t]
  IN /\ task[t] = "send"
     /\ IF row.status # "CLOSED" /\ row.qty # 0
        THEN /\ obj' = [obj EXCEPT ![p].qty = row.qty, ![p].status = "EXITING"]
             /\ row' = Upserted(row, Public(obj'[p]))
             /\ Send(t, row.qty)
             /\ task' = [task EXCEPT ![t] = "wait"]
             /\ UNCHANGED <<lock, flagVars>>
        ELSE /\ obj' = IF row.status = "CLOSED"
                       THEN [obj EXCEPT ![p].tracked = FALSE]
                       ELSE [obj EXCEPT ![p].qty = 0]
             /\ ExitEnds(t)
             /\ lock' = Nobody
             /\ UNCHANGED <<row, orderVars>>
     /\ UNCHANGED <<held, loose, tickVars, recVars, squared>>

\* The object after an exit of which r shares are sold.
Exited(p, w, r) ==
  IF r = 0 THEN [obj[p] EXCEPT !.status = "ERROR"]
  ELSE LET q == Left(w, r)
       IN [obj[p] EXCEPT !.qty = q, !.status = AfterFill(q),
                         !.tracked = @ /\ q # 0]

ExitReturn(t) ==
  LET p == Home[t]
  IN /\ task[t] = "wait"
     /\ \E r \in 0 .. filled[t] :
          /\ Return(t, r)
          /\ obj' = [obj EXCEPT ![p] = Exited(p, want[t], r)]
     /\ row' = Upserted(row, Public(obj'[p]))
     /\ lock' = Nobody
     /\ ExitEnds(t)
     /\ UNCHANGED <<tickVars, recVars, squared>>
-----------------------------------------------------------------------------
(* _reconcile_position.                                                    *)

RecEnds ==
  /\ rec' = "idle" /\ lock' = Nobody
  /\ before' = [status |-> "OPEN", qty |-> Qty, booked |-> {}] /\ broker' = 0

Reconcilable == row.status \in {"OPEN", "EXIT_CONDITIONS_MET"}

RecLock ==
  /\ rec = "idle" /\ Reconcilable /\ row.qty > 0 /\ LockFree
  /\ lock' = "reconciler" /\ rec' = "read"
  /\ UNCHANGED <<held, loose, row, obj, flagVars, tickVars, task, orderVars,
                 before, broker, squared>>

RecRead ==
  /\ rec = "read"
  /\ IF Reconcilable
     THEN rec' = "ask" /\ before' = row /\ UNCHANGED <<lock, broker>>
     ELSE RecEnds
  /\ UNCHANGED <<held, loose, row, obj, flagVars, tickVars, task, orderVars,
                 squared>>

RecAsk ==
  /\ rec = "ask"
  /\ \/ rec' = "check" /\ broker' = held /\ UNCHANGED <<lock, before>>
     \/ RecEnds
  /\ UNCHANGED <<held, loose, row, obj, flagVars, tickVars, task, orderVars,
                 squared>>

\* The row must not have changed; a short position only sets the kill switch.
RecCheck ==
  /\ rec = "check"
  /\ IF row.status = before.status /\ row.qty = before.qty
        /\ broker >= 0 /\ broker # row.qty
     THEN rec' = "write" /\ before' = row /\ UNCHANGED <<lock, broker>>
     ELSE RecEnds
  /\ UNCHANGED <<held, loose, row, obj, flagVars, tickVars, task, orderVars,
                 squared>>

\* Fewer shares at the broker than in the row are adopted, more only noted; the
\* row is written as it was read either way.
RecWrite ==
  /\ rec = "write"
  /\ row' = Upserted(row, [before EXCEPT
               !.qty = Least(broker, @),
               !.status = IF broker = 0 THEN "CLOSED" ELSE @])
  /\ obj' = [p \in Processes |->
               IF p # Reconciler \/ ~obj[p].tracked \/ broker > before.qty
               THEN obj[p]
               ELSE IF broker = 0 THEN [obj[p] EXCEPT !.tracked = FALSE]
               ELSE [obj[p] EXCEPT !.qty = broker]]
  /\ RecEnds
  /\ UNCHANGED <<held, loose, flagVars, tickVars, task, orderVars, squared>>
-----------------------------------------------------------------------------
\* A process dies: its orders go on, its lock expires.  The first tick after
\* its restart makes a new object of the row.
Crash(p) ==
  LET mine == {p} \cup {t \in Tasks : Home[t] = p}
  IN /\ \/ tick[p] # "idle" \/ obj[p].tracked
        \/ \E t \in mine \cap Tasks : task[t] # "idle"
     /\ obj' = [obj EXCEPT ![p].tracked = FALSE]
     /\ signal' = [signal EXCEPT ![p] = FALSE]
     /\ inflight' = [inflight EXCEPT ![p] = FALSE]
     /\ tick' = [tick EXCEPT ![p] = "idle"]
     /\ target' = [target EXCEPT ![p] = Nobody]
     /\ task' = [t \in Tasks |-> IF t \in mine THEN "idle" ELSE task[t]]
     /\ lock' = IF lock \in mine THEN Nobody ELSE lock
     /\ loose' = IF lock \in mine THEN GivenUp(want[lock] - filled[lock])
                 ELSE loose
     /\ want' = [x \in Sellers |-> IF x \in mine THEN 0 ELSE want[x]]
     /\ filled' = [x \in Sellers |-> IF x \in mine THEN 0 ELSE filled[x]]
     /\ UNCHANGED <<held, row, recVars, squared>>

TickStep(p) ==
  \/ Tick(p) \/ BookNothing(p) \/ BookSend(p) \/ BookReturn(p) \/ NoExit(p)
  \/ ExitConditionsMet(p) \/ StartExit(p) \/ TickWrite(p)
  \/ \E g \in Targets : TargetReached(p, g)

ExitStep(t) ==
  ExitBegin(t) \/ ExitLock(t) \/ ExitSend(t) \/ ExitReturn(t)

Reconcile == RecLock \/ RecRead \/ RecAsk \/ RecCheck \/ RecWrite

Next ==
  \/ \E x \in Sellers : Fill(x)
  \/ LooseFill
  \/ \E p \in Processes : TickStep(p) \/ ExitAll(p)
  \/ \E t \in Tasks : AlertExit(t) \/ ManualExit(t) \/ ExitStep(t)
  \/ Reconcile
  \/ \E p \in Mortal : Crash(p)

Spec == Init /\ [][Next]_vars
-----------------------------------------------------------------------------
(* Properties.                                                             *)

\* "At most owned remaining quantity exits": the position is never sold short,
\* however ticks, targets, alerts and square-offs coincide.
ExitsWithinHoldings == held >= 0

\* Two orders never sell the position at the same time, in no two services.
OneOrderAtATime == Cardinality({x \in Sellers : want[x] > 0}) <= 1

\* A position is not written off while the broker holds shares of it.
ClosedMeansFlat == row.status = "CLOSED" => held <= 0
=============================================================================

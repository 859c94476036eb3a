---------------------------- MODULE PositionExits ----------------------------
(***************************************************************************)
(* What else ends a position of PositionLifecycle: the P&L limits, whose     *)
(* breach sets the kill switch and squares off what memory, Redis or the     *)
(* broker know of, the square-off of what only the broker knows, and the     *)
(* broker's order updates, which recover an exit that was interrupted.       *)
(***************************************************************************)
EXTENDS PositionLifecycle

VARIABLES
  kill,    \* the kill switch
  named,   \* processes: shares sold by the order that the object's exit_order_id
           \* names, zero if there is none
  counted  \* an order update was counted

exitVars == <<kill, named, counted>>
varsX == <<vars, exitVars>>

InitX ==
  /\ Init /\ kill = FALSE /\ named = [p \in Processes |-> 0] /\ counted = FALSE

\* The object was made of the row, and names what the last to write it named.
Hydrates(p) ==
  /\ IF ~obj[p].tracked /\ obj'[p].tracked
     THEN \E q \in Processes : named' = [named EXCEPT ![p] = named[q]]
     ELSE UNCHANGED named
  /\ UNCHANGED <<kill, counted>>

\* An order that failed sets the kill switch, unless the broker refused it.
Failed(p) ==
  IF obj'[p].status = "ERROR" THEN kill' \in {kill, TRUE} ELSE UNCHANGED kill

BookReturnX(p) == BookReturn(p) /\ Failed(p) /\ UNCHANGED <<named, counted>>

\* A partial exit leaves the name of its order in the object.
ExitReturnX(t) ==
  LET p == Home[t]
  IN /\ ExitReturn(t) /\ Failed(p) /\ UNCHANGED counted
     /\ named' = IF obj'[p].status = "OPEN"
                 THEN [named EXCEPT ![p] = want[t] - obj'[p].qty] ELSE named
-----------------------------------------------------------------------------
(* on_order_update.                                                        *)

Interrupted(p) == obj[p].tracked /\ obj[p].status = "EXITING"

SavedExiting == row.status = "EXITING"

\* The final snapshot of the exit order that the object names, which the broker
\* may send late or again.
OrderUpdate(p) ==
  /\ p # Reconciler /\ named[p] > 0
  /\ Interrupted(p) /\ SavedExiting /\ LockFree
  /\ IF named[p] > obj[p].qty
     THEN kill' = TRUE /\ UNCHANGED <<obj, row, counted>>
     ELSE /\ obj' = [obj EXCEPT ![p].qty = @ - named[p],
                                ![p].status = AfterFill(obj[p].qty - named[p]),
                                ![p].tracked = obj[p].qty # named[p]]
          /\ row' = Upserted(row, Public(obj'[p]))
          /\ counted' = TRUE /\ UNCHANGED kill
  /\ UNCHANGED <<held, loose, lock, flagVars, tickVars, task, orderVars, recVars,
                 squared, named>>
-----------------------------------------------------------------------------
(* The kill switch, and square-offs.  The tasks are those of Exits.        *)

Step(t, place) == task' = [task EXCEPT ![t] = place]

unchangedByStep ==
  <<held, loose, row, flagVars, tickVars, orderVars, recVars, squared, named, counted>>

\* _pnl_exit_monitor: the kill switch is off, and the broker's P&L is beyond a limit.
Breach(t) ==
  /\ task[t] = "idle" /\ ~kill /\ Step(t, "trigger")
  /\ UNCHANGED <<unchangedByStep, obj, lock, kill>>

\* trigger_kill_switch, unless another process was first.
SetKill(t) ==
  /\ task[t] = "trigger" /\ kill' = TRUE
  /\ Step(t, IF kill THEN "idle" ELSE "list")
  /\ UNCHANGED <<unchangedByStep, obj, lock>>

\* squareoff_all_positions: of memory, Redis and the broker, which may not answer.
Known(p, answers) ==
  \/ obj[p].tracked /\ obj[p].status = "OPEN"
  \/ row.status \in Live /\ row.qty # 0
  \/ answers /\ held # 0

List(t) ==
  /\ task[t] = "list"
  /\ \E answers \in BOOLEAN :
       Step(t, IF Known(Home[t], answers) THEN "manual" ELSE "idle")
  /\ UNCHANGED <<unchangedByStep, obj, lock, kill>>

\* manual_squareoff_zerodha: by the object in memory, or the row's.
ManualX(t) ==
  LET p == Home[t]
  IN /\ task[t] = "manual"
     /\ obj' = [obj EXCEPT ![p] = Found(p)]
     /\ obj'[p].tracked /\ obj'[p].status \in Live
     /\ Step(t, "begin") /\ Hydrates(p)
     /\ UNCHANGED <<held, loose, row, lock, flagVars, tickVars, orderVars, recVars,
                    squared>>

\* Neither is there; or the row was looked for within the last second, or it has no
\* open key (yet): by what the broker says.
BySight(t) ==
  /\ task[t] \in {"manual", "idle"}
  /\ ~(obj[Home[t]].tracked /\ obj[Home[t]].status \in Live)
  /\ IF LockFree THEN lock' = t /\ Step(t, "ask")
     ELSE UNCHANGED lock /\ Step(t, "idle")
  /\ UNCHANGED <<unchangedByStep, obj, kill>>

NetQuantity == held

\* The broker's net quantity is sold.  (One that is short is bought back.)
AskNet(t) ==
  /\ task[t] = "ask"
  /\ \/ Step(t, "idle") /\ lock' = Nobody /\ UNCHANGED orderVars
     \/ held > 0 /\ Step(t, "sell") /\ Send(t, NetQuantity) /\ UNCHANGED lock
  /\ UNCHANGED <<held, loose, row, obj, flagVars, tickVars, recVars, squared, exitVars>>

\* The row is not told.
Sold(t) ==
  /\ task[t] = "sell"
  /\ \E r \in 0 .. filled[t] : Return(t, r)
  /\ Step(t, "idle") /\ lock' = Nobody
  /\ UNCHANGED <<row, obj, flagVars, tickVars, recVars, squared, exitVars>>
-----------------------------------------------------------------------------
TickX(p) ==
  \/ Tick(p) /\ Hydrates(p)
  \/ BookReturnX(p)
  \/ /\ \/ BookNothing(p) \/ BookSend(p) \/ NoExit(p) \/ ExitConditionsMet(p)
        \/ StartExit(p) \/ TickWrite(p) \/ \E g \in Targets : TargetReached(p, g)
     /\ UNCHANGED exitVars

ExitX(t) ==
  \/ AlertExit(t) /\ Hydrates(Home[t])
  \/ ManualExit(t) /\ Hydrates(Home[t])
  \/ (ExitBegin(t) \/ ExitLock(t) \/ ExitSend(t)) /\ UNCHANGED exitVars
  \/ ExitReturnX(t)
  \/ Breach(t) \/ SetKill(t) \/ List(t) \/ ManualX(t)
  \/ BySight(t) \/ AskNet(t) \/ Sold(t)

\* The user clears the kill switch.
Resume == kill /\ kill' = FALSE /\ UNCHANGED <<vars, named, counted>>

NextX ==
  \/ \E x \in Sellers : Fill(x) /\ UNCHANGED exitVars
  \/ LooseFill /\ UNCHANGED exitVars
  \/ \E p \in Processes : TickX(p) \/ OrderUpdate(p) \/ (ExitAll(p) /\ UNCHANGED exitVars)
  \/ \E t \in Tasks : ExitX(t)
  \/ Reconcile /\ UNCHANGED exitVars
  \/ \E p \in Mortal : Crash(p) /\ UNCHANGED exitVars
  \/ Resume

SpecX == InitX /\ [][NextX]_varsX
-----------------------------------------------------------------------------
(* Properties.                                                             *)

\* A position is not written off while the broker holds shares of it, unless by an order
\* update.
WrittenOffOnlyByUpdate == ClosedMeansFlat \/ counted

\* "Only recover an interrupted EXITING state": the order updates leave in the row all the
\* shares that the broker holds.
RowCoversHoldings == held <= IF row.status = "CLOSED" THEN 0 ELSE row.qty

\* Whoever asked for it, an exit whose order was filled leaves no shares behind, unless
\* an order update had taken them off the row.
FilledExitIsFlat ==
  [][\A t \in Tasks :
       want[t] > 0 /\ filled[t] = want[t] /\ task'[t] = "idle" /\ ~counted => held' <= 0]_varsX
=============================================================================

------------------------------ MODULE TickPath ------------------------------
(***************************************************************************)
(* From a tick on the websocket to the rules of StopRules, for one symbol.  *)
(* Zerodha: the SDK's thread submits batches to a bounded queue             *)
(* (KiteCallbackQueue) whose one task is woken by coalesced wake-ups.       *)
(* Dhan: the receiver waits for room in a bounded queue.  The process may   *)
(* crash and read the position back from its row.                           *)
(***************************************************************************)
EXTENDS StopRules

CONSTANTS
  Settings,    \* the settings looked at
  Brokers,     \* the brokers looked at
  Capacity,    \* of the queue (64, 256)
  MaxTicks,    \* bound on ticks
  MaxFailures, \* bound on failures of the overflow handler
  MaxCrashes   \* bound on crashes

ASSUME TickAssumption ==
  /\ Settings \subseteq Setting /\ Brokers \subseteq {"ZERODHA", "DHAN"}
  /\ Capacity \in Nat \ {0}
  /\ MaxTicks \in Nat /\ MaxFailures \in Nat /\ MaxCrashes \in Nat

VARIABLES
  broker, cfg,
  queue,     \* number of ticks to be handled: a price matters when it is handled
  ready,     \* the event of the delivery task is set
  waking,    \* wake_pending
  calls,     \* calls of ready.set that the loop has been asked for
  reported,  \* overflow_reported
  handled,   \* overflow_handled
  dropped,   \* a tick was dropped
  pc,        \* of the delivery task
  kill,      \* the kill switch
  pos, row,  \* the position in memory and in Redis
  ticks, failures, crashes

deliveryVars == <<queue, ready, waking, calls, reported, handled, dropped, pc>>
positionVars == <<pos, row>>
counters == <<ticks, failures, crashes>>
vars == <<broker, cfg, deliveryVars, kill, positionVars, counters>>

FreshQueue ==
  /\ queue = 0 /\ ready = FALSE /\ waking = FALSE /\ calls = 0
  /\ reported = FALSE /\ handled = FALSE /\ dropped = FALSE
  /\ pc = "wait"

Init ==
  /\ broker \in Brokers /\ cfg \in Settings
  /\ FreshQueue
  /\ kill = FALSE
  /\ pos = AtEntry /\ row = pos
  /\ ticks = 0 /\ failures = 0 /\ crashes = 0
-----------------------------------------------------------------------------
(* The websocket's thread.                                                 *)

\* Mutant: the thread does not say that it dropped a tick.
Silently == reported

Overflowed == TRUE

Full == queue >= Capacity

\* KiteCallbackQueue.submit: what does not fit is dropped.
Submit ==
  /\ broker = "ZERODHA" /\ ticks < MaxTicks
  /\ ticks' = ticks + 1
  /\ IF Full
     THEN /\ reported' = Overflowed /\ dropped' = TRUE
          /\ UNCHANGED queue
     ELSE /\ queue' = queue + 1
          /\ UNCHANGED <<reported, dropped>>
  /\ waking' = TRUE /\ calls' = IF waking THEN calls ELSE calls + 1
  /\ UNCHANGED <<broker, cfg, ready, handled, pc, kill, positionVars,
                 failures, crashes>>

\* call_soon_threadsafe(ready.set).
SetReady ==
  /\ calls > 0 /\ calls' = calls - 1
  /\ ready' = TRUE
  /\ UNCHANGED <<broker, cfg, queue, waking, reported, handled, dropped, pc,
                 kill, positionVars, counters>>

\* DhanFeedService._deliver_tick: the receiver waits for room.
Deliver ==
  /\ broker = "DHAN" /\ ticks < MaxTicks /\ ~Full
  /\ ticks' = ticks + 1
  /\ queue' = queue + 1
  /\ UNCHANGED <<broker, cfg, ready, waking, calls, reported, handled, dropped, pc,
                 kill, positionVars, failures, crashes>>
-----------------------------------------------------------------------------
(* The delivery task, KiteCallbackQueue._run and _consume_ticks.           *)

\* It is woken.  A failed overflow handler is tried again after a second.
Wake ==
  /\ broker = "ZERODHA" /\ pc = "wait" /\ ready
  /\ ready' = FALSE /\ waking' = FALSE
  /\ \/ reported /\ ~handled /\ pc' = "overflow"
     \/ (~reported \/ handled \/ failures > 0) /\ pc' = "take"
  /\ UNCHANGED <<broker, cfg, queue, calls, reported, handled, dropped, kill,
                 positionVars, counters>>

\* on_tick_overflow blocks new entries.
HandleOverflow ==
  /\ pc = "overflow" /\ pc' = "take"
  /\ kill' = TRUE
  /\ handled' = TRUE
  /\ UNCHANGED <<broker, cfg, queue, ready, waking, calls, reported, dropped,
                 positionVars, counters>>

\* Setting the switch or writing the feed's health fails.
OverflowFails ==
  /\ pc = "overflow" /\ pc' = "take"
  /\ failures < MaxFailures /\ failures' = failures + 1
  /\ kill' \in {kill, TRUE}
  /\ UNCHANGED <<broker, cfg, queue, ready, waking, calls, reported, handled, dropped,
                 positionVars, ticks, crashes>>

Take ==
  /\ \/ broker = "ZERODHA" /\ pc = "take"
     \/ broker = "DHAN" /\ pc = "wait" /\ queue > 0
  /\ IF queue = 0
     THEN pc' = "wait" /\ UNCHANGED queue
     ELSE queue' = queue - 1 /\ pc' = "handle"
  /\ UNCHANGED <<broker, cfg, ready, waking, calls, reported, handled, dropped, kill,
                 positionVars, counters>>

\* Mutant: the task goes on only when it is woken.
OnlyWoken == ready

\* After a tick the task looks at the queue once more.
AwakeAgain == ready \/ queue > 0

Turn ==
  /\ pc' = "wait"
  /\ ready' = IF broker = "ZERODHA" THEN AwakeAgain ELSE FALSE

\* A batch that waited for more than 5 seconds.
SkipStale ==
  /\ broker = "ZERODHA" /\ pc = "handle"
  /\ Turn
  /\ UNCHANGED <<broker, cfg, queue, waking, calls, reported, handled, dropped, kill,
                 positionVars, counters>>

\* The tick handlers of main.py: the engine's rules, then the row, which Zerodha's
\* writes every 0.8 seconds at most.
Handle ==
  /\ pc = "handle"
  /\ \E price \in Prices : pos' \in OnTick(cfg, pos, price)
  /\ row' \in IF MustPersist(cfg, pos, pos') \/ broker = "DHAN" THEN {pos'}
              ELSE {row, pos'}
  /\ Turn
  /\ UNCHANGED <<broker, cfg, queue, waking, calls, reported, handled, dropped, kill,
                 counters>>
-----------------------------------------------------------------------------
(* New credentials, a crash.                                               *)

\* KiteCallbackQueue.close and a new one: what was queued is forgotten.
NewQueue ==
  /\ queue' = 0 /\ ready' = FALSE /\ waking' = FALSE /\ calls' = 0
  /\ reported' = FALSE /\ handled' = FALSE /\ dropped' = FALSE
  /\ pc' = "wait"

Reconnect ==
  /\ crashes < MaxCrashes /\ crashes' = crashes + 1
  /\ NewQueue
  /\ UNCHANGED <<broker, cfg, kill, positionVars, ticks, failures>>

\* The process starts again and reads its positions.
Restart ==
  /\ crashes < MaxCrashes /\ crashes' = crashes + 1
  /\ NewQueue
  /\ pos' = row
  /\ UNCHANGED <<broker, cfg, kill, row, ticks, failures>>
-----------------------------------------------------------------------------
Delivery == Wake \/ HandleOverflow \/ OverflowFails \/ Take \/ SkipStale \/ Handle

Next ==
  \/ Submit \/ Deliver
  \/ SetReady \/ Delivery \/ Reconnect \/ Restart

Spec == Init /\ [][Next]_vars

\* A handler returns.
TurnEnds == pc = "handle" /\ Turn

\* The loop runs what it was asked to run and its tasks, and no handler hangs.
FairSpec ==
  /\ Spec
  /\ WF_vars(SetReady)
  /\ WF_vars(Wake \/ HandleOverflow \/ OverflowFails \/ Take) /\ WF_pc(TurnEnds)
-----------------------------------------------------------------------------
(* Properties.                                                             *)

\* The first target's booking was left open, and the second has been reached.
LateTarget == cfg.partial /\ 2 \in pos.hit /\ 1 \notin pos.booked

\* The stop of an open position never gets looser, neither by a tick nor by a
\* crash, but for a first target that is booked after the second; a pyramid add,
\* which gives the position a new entry price, may loosen the stop loss but not the
\* trailing stop.
StopTightens ==
  [][pos.status = "OPEN" /\ pos'.status = "OPEN" /\ ~LateTarget
       => /\ pos'.trail >= pos.trail
          /\ Floor(cfg, pos') >= Floor(cfg, pos) \/ pos'.adds > pos.adds]_pos

\* After a tick, and after a restart, no position is left open at a price where its
\* stop should have ended it.
StopBelowPrice ==
  pos.status = "OPEN" => Floor(cfg, pos) < pos.ltp

\* No tick is left in the queue because its wake-up was lost.
QueueDrains == []<>(queue = 0 /\ pc = "wait")

\* A dropped tick comes to block new entries, if the handler does not fail and the
\* queue is not replaced before.
OverflowBlocks == dropped ~> (kill \/ ~dropped \/ failures > 0)
=============================================================================

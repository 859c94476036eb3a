------------------------------ MODULE EntryPath ------------------------------
(***************************************************************************)
(* How an alert becomes a position: TradeEngine.on_chartink_alert, called   *)
(* for an alert's symbols by the execution worker (Calls) and for a         *)
(* breakout watch by the monitor of services/breakout_monitor.py, in one    *)
(* process, for one user and one alert name.  A watch waits in Redis        *)
(* (WAITING) until the price breaks its level, is claimed by              *)
(* compare-and-set (EXECUTING) and gets its result (DONE).  The per-symbol *)
(* lock is OrderLock's, the order OrderExecution's: here it is placed and  *)
(* has one of Outcomes.  Positions close elsewhere (PositionLifecycle).    *)
(***************************************************************************)
EXTENDS Naturals, FiniteSets

CONSTANTS
  Symbols,
  Calls,       \* coroutines of the worker that execute an alert
  Watches,     \* ids of breakout watches
  SymbolOf,    \* the symbol of each watch
  Limit,       \* trade_limit_per_day
  Outcomes,    \* what may become of an order
  MaxCrashes,  \* bound on stops and deaths of the process
  Nothing

Callers == Calls \cup Watches  \* a watch stands for its check coroutine

ASSUME EntryAssumption ==
  /\ Calls \cap Watches = {} /\ Nothing \notin Callers \cup Symbols
  /\ SymbolOf \in [Watches -> Symbols]
  /\ Limit \in Nat \ {0} /\ MaxCrashes \in Nat
  /\ Outcomes \subseteq {"filled", "unfilled", "uncertain", "lost"}

VARIABLES
  \* Redis
  kill,      \* the kill switch
  lock,      \* per symbol: who holds its entry lock
  phase,     \* per watch: none, WAITING, EXECUTING, DONE
  level,     \* per watch: its level is known
  result,    \* per watch: the status in its record
  count,     \* trades counted against the alert's limit
  row,       \* per symbol: an open row and the open key
  \* time
  expired,   \* per watch: expires_at has passed
  overdue,   \* per watch: executing_at + 90 s has passed
  \* process
  up, crashes,
  owed,      \* a job was interrupted and not yet recovered
  mem,       \* per symbol: positions[symbol] is open
  unwritten, \* per symbol: its row could not be written
  pc, sym,   \* per caller: where it is, and its symbol
  watch,     \* per caller: the watch it works on
  seen,      \* per caller: phase of the watch as it read or wrote it
  answer,    \* per caller: status of the result it appended, Nothing if none
  \* broker
  held,      \* per symbol: entries that filled and were not exited
  forgotten, \* per symbol: the process that knew of an unwritten entry is gone
  sent,      \* per watch: orders sent
  placed     \* orders sent on the alert

redisVars == <<kill, lock, phase, level, result, count, row>>
timeVars == <<expired, overdue>>
processVars == <<up, crashes, owed, mem, unwritten>>
callVars == <<pc, sym, watch, seen, answer>>
brokerVars == <<held, forgotten, sent, placed>>
vars == <<redisVars, timeVars, processVars, callVars, brokerVars>>

Locked == {"guard", "filter", "level", "feed", "check", "limit", "send",
           "order", "record", "finish", "unlock"}
Places == Locked \cup {"idle", "polled", "alarm", "lock", "settle", "cancelled"}
Live == {"WAITING", "EXECUTING"}

Init ==
  /\ kill = FALSE /\ lock = [s \in Symbols |-> Nothing]
  /\ phase = [w \in Watches |-> "none"]
  /\ level = [w \in Watches |-> FALSE]
  /\ result = [w \in Watches |-> Nothing]
  /\ count = 0 /\ row = [s \in Symbols |-> FALSE]
  /\ expired = [w \in Watches |-> FALSE]
  /\ overdue = [w \in Watches |-> FALSE]
  /\ up = TRUE /\ crashes = 0 /\ owed = FALSE
  /\ mem = [s \in Symbols |-> FALSE] /\ unwritten = [s \in Symbols |-> FALSE]
  /\ pc = [c \in Callers |-> "idle"]
  /\ sym = [c \in Callers |-> IF c \in Watches THEN SymbolOf[c] ELSE Nothing]
  /\ watch = [c \in Callers |-> Nothing]
  /\ seen = [c \in Callers |-> "none"]
  /\ answer = [c \in Callers |-> Nothing]
  /\ held = [s \in Symbols |-> 0] /\ forgotten = [s \in Symbols |-> FALSE]
  /\ sent = [w \in Watches |-> 0] /\ placed = 0
-----------------------------------------------------------------------------
(* Steps of a caller.                                                      *)

Goto(c, place) == pc' = [pc EXCEPT ![c] = place]

\* A result is appended and the finally block is entered.
Answer(c, status) ==
  /\ Goto(c, "finish")
  /\ answer' = [answer EXCEPT ![c] = status]

\* Where a caller goes that has no lock to give back: a check coroutine looks
\* at the engine's result, a worker saves it (ExecutionQueue).
Return(c) == Goto(c, IF c \in Watches THEN "settle" ELSE "idle")

\* transition_breakout_watch writes if the record has the expected phase.
Expected(w, from) == phase[w] = from

\* The record becomes DONE, unless it was moved in between.
Settled(w, from, status) ==
  IF Expected(w, from)
  THEN /\ phase' = [phase EXCEPT ![w] = "DONE"]
       /\ result' = [result EXCEPT ![w] = status]
  ELSE UNCHANGED <<phase, result>>
-----------------------------------------------------------------------------
(* on_chartink_alert up to the lock.                                       *)

\* The worker takes an alert's next symbol.  Kill switch, disabled alerts,
\* the entry window, the square-off cutoff and the instrument master refuse
\* it without a trace; the lock script looks at the kill switch again.
Arrive(c, s) ==
  /\ up /\ c \in Calls /\ pc[c] = "idle" /\ ~kill
  /\ Goto(c, "lock")
  /\ sym' = [sym EXCEPT ![c] = s]
  /\ watch' = [watch EXCEPT ![c] = Nothing]
  /\ seen' = [seen EXCEPT ![c] = "none"]
  /\ answer' = [answer EXCEPT ![c] = Nothing]
  /\ UNCHANGED <<redisVars, timeVars, processVars, brokerVars>>

Lock(c) ==
  /\ pc[c] = "lock"
  /\ \/ /\ kill
        /\ Return(c)
        /\ answer' = [answer EXCEPT ![c] = "SKIPPED"]
        /\ UNCHANGED <<lock, watch>>
     \/ /\ ~kill /\ lock[sym[c]] # Nothing
        /\ Return(c)
        /\ answer' = [answer EXCEPT ![c] = "BUSY"]
        /\ UNCHANGED <<lock, watch>>
     \/ /\ ~kill /\ lock[sym[c]] = Nothing
        /\ lock' = [lock EXCEPT ![sym[c]] = c]
        /\ Goto(c, "guard")
        /\ watch' = [watch EXCEPT ![c] = IF c \in Watches THEN c ELSE Nothing]
        /\ UNCHANGED answer
  /\ UNCHANGED <<kill, phase, level, result, count, row, timeVars, processVars,
                 sym, seen, brokerVars>>
-----------------------------------------------------------------------------
(* Under the lock.                                                         *)

\* A check's watch must still be waiting; if not it is let alone.
GuardWatch(c) ==
  /\ pc[c] = "guard" /\ c \in Watches
  /\ seen' = [seen EXCEPT ![c] = phase[c]]
  /\ \/ /\ phase[c] # "WAITING"
        /\ watch' = [watch EXCEPT ![c] = Nothing]
        /\ Answer(c, "SKIPPED")
     \/ /\ phase[c] = "WAITING"  \* expired, or the configuration changed
        /\ Answer(c, "SKIPPED") /\ UNCHANGED watch
     \/ /\ phase[c] = "WAITING" /\ ~expired[c]
        /\ Goto(c, "filter") /\ UNCHANGED <<watch, answer>>
  /\ UNCHANGED <<redisVars, timeVars, processVars, sym, brokerVars>>

\* The first record of the symbol that is waiting or executing; the order of
\* the hash is arbitrary.
Existing(c) == {w \in Watches : SymbolOf[w] = sym[c] /\ phase[w] \in Live}

\* An alert whose watch exists waits with it.  An alert without the breakout
\* feature does not look.
GuardAlert(c) ==
  /\ pc[c] = "guard" /\ c \in Calls
  /\ \/ /\ \E w \in Existing(c) : phase[w] = "EXECUTING" \/ ~expired[w]
        /\ Answer(c, "WAITING")
     \/ Goto(c, "filter") /\ UNCHANGED answer
  /\ UNCHANGED <<redisVars, timeVars, processVars, sym, watch, seen, brokerVars>>

AlreadyOpen(s) == mem[s] \/ row[s]

\* Turnover, sector, strategy, direction, duplicate candle, and an open
\* position.  The side of a watch must not have changed.
Filter(c) ==
  /\ pc[c] = "filter"
  /\ \/ Answer(c, "SKIPPED")
     \/ /\ ~AlreadyOpen(sym[c]) /\ UNCHANGED answer
        /\ \/ c \in Watches /\ level[c] /\ Goto(c, "feed")
           \/ c \in Watches /\ ~level[c] /\ Goto(c, "level")
           \/ c \in Calls /\ \E next \in {"level", "feed"} : Goto(c, next)
  /\ UNCHANGED <<redisVars, timeVars, processVars, sym, watch, seen, brokerVars>>

\* A breakout alert arms its watch.
Arm(c, w) ==
  /\ pc[c] = "level" /\ watch[c] = Nothing
  /\ SymbolOf[w] = sym[c] /\ phase[w] = "none"
  /\ phase' = [phase EXCEPT ![w] = "WAITING"]
  /\ watch' = [watch EXCEPT ![c] = w]
  /\ seen' = [seen EXCEPT ![c] = "WAITING"]
  /\ UNCHANGED <<kill, lock, level, result, count, row, timeVars, processVars,
                 pc, sym, answer, brokerVars>>

\* What breakout_level makes of the candles: the previous bar is not there yet,
\* or once and with a sound high and low, or its data is no use.
CandleAnswers == {"early", "invalid", "level"}

\* Without the bar the watch waits and asks again 5 seconds later, an invalid
\* one ends it, or the level is stored.  An exchange that fails means somebody
\* settled the watch.
FindLevel(c) ==
  LET w == watch[c] IN
  /\ pc[c] = "level" /\ w # Nothing
  /\ \/ expired[w] /\ Answer(c, "SKIPPED") /\ UNCHANGED level
     \/ \E bar \in CandleAnswers :
          CASE bar = "early" -> Answer(c, "WAITING") /\ UNCHANGED level
            [] bar = "invalid" -> Answer(c, "SKIPPED") /\ UNCHANGED level
            [] OTHER ->
                 IF Expected(w, "WAITING")
                 THEN /\ level' = [level EXCEPT ![w] = TRUE]
                      /\ IF expired[w] THEN Answer(c, "SKIPPED")
                         ELSE Goto(c, "feed") /\ UNCHANGED answer
                 ELSE Answer(c, "SKIPPED") /\ UNCHANGED level
  /\ UNCHANGED <<kill, lock, phase, result, count, row, timeVars, processVars,
                 sym, watch, seen, brokerVars>>

\* What the feed's health and the symbol's latest tick say within 5 seconds.
FeedAnswers == {"down", "late", "fresh"}

\* Whether there is a price: the fresh tick's, or a quote of the broker if the
\* tick is late.
Priced(feed) ==
  CASE feed = "fresh" -> {TRUE} [] feed = "late" -> BOOLEAN [] OTHER -> {FALSE}

\* Without a price, or before it breaks the level, a watch goes on waiting.
\* Sizing and the square-off cutoff may refuse the entry.
Price(c) ==
  /\ pc[c] = "feed"
  /\ \E feed \in FeedAnswers : \E priced \in Priced(feed) :
       \/ ~priced /\ Answer(c, IF watch[c] = Nothing THEN "SKIPPED" ELSE "WAITING")
       \/ watch[c] # Nothing /\ Answer(c, "WAITING")
       \/ priced /\ \E status \in {"SKIPPED", "ERROR"} : Answer(c, status)
       \/ /\ priced
          /\ Goto(c, IF watch[c] = Nothing THEN "limit" ELSE "check")
          /\ UNCHANGED answer
  /\ UNCHANGED <<redisVars, timeVars, processVars, sym, watch, seen, brokerVars>>

\* Deadline, kill switch, window and configuration are read again, and the
\* watch is claimed.
Claim(c) ==
  LET w == watch[c] IN
  /\ pc[c] = "check"
  /\ \/ Answer(c, "SKIPPED") /\ UNCHANGED <<phase, seen>>
     \/ /\ ~expired[w] /\ ~kill /\ Expected(w, "WAITING")
        /\ phase' = [phase EXCEPT ![w] = "EXECUTING"]
        /\ seen' = [seen EXCEPT ![c] = "EXECUTING"]
        /\ Goto(c, "limit") /\ UNCHANGED answer
  /\ UNCHANGED <<kill, lock, level, result, count, row, timeVars, processVars,
                 sym, watch, brokerVars>>

\* Mutant: the counter is compared after it was taken for the last time.
WithinLimit == count <= Limit

\* LUA_TRADE_LIMIT compares and counts in one step; nobody gives a trade back.
MayTrade == count < Limit

CountTrade(c) ==
  /\ pc[c] = "limit"
  /\ IF MayTrade
     THEN count' = count + 1 /\ Goto(c, "send") /\ UNCHANGED answer
     ELSE Answer(c, "SKIPPED") /\ UNCHANGED count
  /\ UNCHANGED <<kill, lock, phase, level, result, row, timeVars, processVars,
                 sym, watch, seen, brokerVars>>

Send(c) ==
  LET w == watch[c] IN
  /\ pc[c] = "send"
  /\ \/ /\ w \in Watches => ~expired[w]
        /\ Goto(c, "order") /\ UNCHANGED answer
        /\ placed' = placed + 1
        /\ sent' = IF w \in Watches THEN [sent EXCEPT ![w] = @ + 1] ELSE sent
     \/ /\ w \in Watches /\ expired[w]
        /\ Answer(c, "SKIPPED") /\ UNCHANGED <<placed, sent>>
  /\ UNCHANGED <<redisVars, timeVars, processVars, sym, watch, seen, held,
                 forgotten>>

\* The order's result.  If it is uncertain the engine has set the kill switch.
OrderResult(c) ==
  /\ pc[c] = "order"
  /\ \E o \in Outcomes :
       /\ \E n \in CASE o = "filled" -> {1} [] o = "unfilled" -> {0}
                     [] OTHER -> {0, 1} :
            held' = [held EXCEPT ![sym[c]] = @ + n]
       /\ kill' = (kill \/ o = "uncertain")
       /\ IF o = "filled"
          THEN /\ mem' = [mem EXCEPT ![sym[c]] = TRUE]
               /\ Goto(c, "record") /\ UNCHANGED answer
          ELSE Answer(c, "ERROR") /\ UNCHANGED mem
  /\ UNCHANGED <<lock, phase, level, result, count, row, timeVars, up, crashes,
                 owed, unwritten, sym, watch, seen, forgotten, sent, placed>>

\* _persist_position_state and mark_open; if they fail nobody is told.
Record(c) ==
  /\ pc[c] = "record"
  /\ \/ row' = [row EXCEPT ![sym[c]] = TRUE] /\ UNCHANGED unwritten
     \/ unwritten' = [unwritten EXCEPT ![sym[c]] = TRUE] /\ UNCHANGED row
  /\ Answer(c, "ENTERED")
  /\ UNCHANGED <<kill, lock, phase, level, result, count, timeVars, up, crashes,
                 owed, mem, sym, watch, seen, brokerVars>>

\* The finally block gives the watch its result.
Finish(c) ==
  LET w == watch[c] IN
  /\ pc[c] = "finish"
  /\ IF w # Nothing /\ answer[c] # "WAITING"
     THEN Settled(w, seen[c], answer[c])
     ELSE UNCHANGED <<phase, result>>
  /\ Goto(c, "unlock")
  /\ UNCHANGED <<kill, lock, level, count, row, timeVars, processVars, sym,
                 watch, seen, answer, brokerVars>>

Unlock(c) ==
  /\ pc[c] = "unlock"
  /\ lock' = [lock EXCEPT ![sym[c]] = Nothing]
  /\ Return(c)
  /\ UNCHANGED <<kill, phase, level, result, count, row, timeVars, processVars,
                 sym, watch, seen, answer, brokerVars>>
\* Redis or a candle service fails before the order: the exception leaves the
\* watch as it is, and only the lock is given back.
StoreFails(c) ==
  /\ pc[c] \in {"guard", "filter", "level", "check", "limit"}
  /\ lock' = [lock EXCEPT ![sym[c]] = Nothing]
  /\ Goto(c, "idle")
  /\ UNCHANGED <<kill, phase, level, result, count, row, timeVars, processVars,
                 sym, watch, seen, answer, brokerVars>>
-----------------------------------------------------------------------------
(* The monitor: one check of a watch at a time.                            *)

Poll(w) ==
  /\ up /\ pc[w] = "idle" /\ phase[w] \in Live
  /\ Goto(w, "polled")
  /\ seen' = [seen EXCEPT ![w] = phase[w]]
  /\ watch' = [watch EXCEPT ![w] = Nothing]
  /\ answer' = [answer EXCEPT ![w] = Nothing]
  /\ UNCHANGED <<redisVars, timeVars, processVars, sym, brokerVars>>

\* Mutant: the watch is settled and nobody is told.
Silent == kill

Alarmed == TRUE

\* "Never replay an order after an ambiguous interruption": 90 seconds after
\* the claim the kill switch is set, then the watch is settled.
CheckExecuting(w) ==
  /\ w \in Watches /\ pc[w] = "polled" /\ seen[w] = "EXECUTING"
  /\ IF overdue[w]
     THEN kill' = Alarmed /\ Goto(w, "alarm")
     ELSE UNCHANGED kill /\ Goto(w, "idle")
  /\ UNCHANGED <<lock, phase, level, result, count, row, timeVars, processVars,
                 sym, watch, seen, answer, brokerVars>>

Uncertain(w) == Settled(w, seen[w], "ERROR")

Alarm(w) ==
  /\ w \in Watches /\ pc[w] = "alarm"
  /\ Uncertain(w)
  /\ Goto(w, "idle")
  /\ UNCHANGED <<kill, lock, level, count, row, timeVars, processVars, sym, watch,
                 seen, answer, brokerVars>>

\* Mutant: a watch ends by its own decision only, never by its deadline.
NeverEnds(w) == FALSE

MustEnd(w) == expired[w] \/ kill

\* Deadline, kill switch, configuration or window end the watch; before the
\* level is broken there is nothing to do; else the engine is called, which
\* refuses at once if the kill switch was set since.
CheckWaiting(w) ==
  /\ w \in Watches /\ pc[w] = "polled" /\ seen[w] = "WAITING"
  /\ \/ /\ Settled(w, "WAITING", "SKIPPED")
        /\ Goto(w, "idle")
        /\ UNCHANGED answer
     \/ /\ ~MustEnd(w)
        /\ UNCHANGED <<phase, result>>
        /\ \/ Goto(w, "idle") /\ UNCHANGED answer
           \/ Goto(w, "lock") /\ UNCHANGED answer
           \/ Goto(w, "settle") /\ answer' = [answer EXCEPT ![w] = "SKIPPED"]
  /\ UNCHANGED <<kill, lock, level, count, row, timeVars, processVars, sym, watch,
                 seen, brokerVars>>

\* What the engine said settles the watch if the engine has not, and if it is
\* not transient.
Settle(w) ==
  /\ w \in Watches /\ pc[w] = "settle"
  /\ IF phase[w] = "WAITING" /\ answer[w] \notin {"WAITING", "BUSY"}
     THEN Settled(w, "WAITING", answer[w])
     ELSE UNCHANGED <<phase, result>>
  /\ Goto(w, "idle")
  /\ UNCHANGED <<kill, lock, level, count, row, timeVars, processVars, sym, watch,
                 seen, answer, brokerVars>>
-----------------------------------------------------------------------------
(* Time, the rest of the program, and failures.                            *)

Expire(w) ==
  /\ phase[w] \in Live /\ ~expired[w]
  /\ expired' = [expired EXCEPT ![w] = TRUE]
  /\ UNCHANGED <<redisVars, overdue, processVars, callVars, brokerVars>>

Overdue(w) ==
  /\ phase[w] = "EXECUTING" /\ ~overdue[w]
  /\ overdue' = [overdue EXCEPT ![w] = TRUE]
  /\ UNCHANGED <<redisVars, expired, processVars, callVars, brokerVars>>

\* A later tick of the position writes its row.
Rewrite(s) ==
  /\ up /\ mem[s] /\ unwritten[s]
  /\ row' = [row EXCEPT ![s] = TRUE]
  /\ unwritten' = [unwritten EXCEPT ![s] = FALSE]
  /\ UNCHANGED <<kill, lock, phase, level, result, count, timeVars, up, crashes,
                 owed, mem, callVars, brokerVars>>

\* A position of a row, or of memory, is exited; a process that did not do it
\* may go on thinking it open.
Close(s) ==
  /\ row[s] \/ unwritten[s]
  /\ row' = [row EXCEPT ![s] = FALSE]
  /\ unwritten' = [unwritten EXCEPT ![s] = FALSE]
  /\ held' = [held EXCEPT ![s] = IF @ = 0 THEN 0 ELSE @ - 1]
  /\ \E m \in {FALSE, mem[s]} : mem' = [mem EXCEPT ![s] = m]
  /\ UNCHANGED <<kill, lock, phase, level, result, count, timeVars, up, crashes,
                 owed, callVars, forgotten, sent, placed>>

\* The user sets the kill switch; or clears it when no order is under way,
\* having exited what the program knows neither by a row nor in its memory.
UserKills == ~kill /\ kill' = TRUE /\ UNCHANGED <<lock, phase, level, result,
  count, row, timeVars, processVars, callVars, brokerVars>>
UserResumes ==
  /\ kill /\ kill' = FALSE
  /\ \A c \in Callers : pc[c] \notin {"order", "record", "alarm", "cancelled"}
  /\ held' = [s \in Symbols |-> IF row[s] \/ mem[s] THEN held[s] ELSE 0]
  /\ forgotten' = [s \in Symbols |-> forgotten[s] /\ (row[s] \/ mem[s])]
  /\ UNCHANGED <<lock, phase, level, result, count, row, timeVars, processVars,
                 callVars, sent, placed>>

\* What the broker makes of an order whose sender is gone.
Orphaned(dead) ==
  \E filled \in SUBSET {c \in dead : pc[c] = "order"} :
    held' = [s \in Symbols |->
               held[s] + Cardinality({c \in filled : sym[c] = s})]

\* The watcher of the lock lost it: kill switch, cancellation (OrderLock), also
\* in the middle of the row's write.
LeaseLost(c) ==
  /\ pc[c] \in Locked
  /\ kill' = TRUE
  /\ lock' = [lock EXCEPT ![sym[c]] = Nothing]
  /\ Goto(c, "cancelled")
  /\ Orphaned({c})
  /\ unwritten' = [unwritten EXCEPT ![sym[c]] = @ \/ pc[c] = "record"]
  /\ UNCHANGED <<phase, level, result, count, row, timeVars, up, crashes, owed,
                 mem, sym, watch, seen, answer, forgotten, sent, placed>>

\* The caller of a cancelled call sets the kill switch, whatever happened to
\* it since, and a check settles its watch; a worker records the job.
Cancelled(c) ==
  /\ pc[c] = "cancelled"
  /\ kill' = TRUE
  /\ IF c \in Watches /\ phase[c] # "DONE"
     THEN Settled(c, phase[c], "ERROR")
     ELSE UNCHANGED <<phase, result>>
  /\ Goto(c, "idle")
  /\ UNCHANGED <<lock, level, count, row, timeVars, processVars, sym, watch, seen,
                 answer, brokerVars>>

\* The process stops, which gives its locks back, or dies, and they run out.
Die ==
  /\ up /\ crashes < MaxCrashes
  /\ up' = FALSE /\ crashes' = crashes + 1
  /\ owed' = (owed \/ \E c \in Calls : pc[c] # "idle")
  /\ mem' = [s \in Symbols |-> FALSE]
  /\ unwritten' = [s \in Symbols |-> FALSE]
  /\ forgotten' = [s \in Symbols |-> forgotten[s] \/ unwritten[s]]
  /\ pc' = [c \in Callers |-> "idle"]
  /\ lock' = [s \in Symbols |-> Nothing]
  /\ Orphaned(Callers)
  /\ UNCHANGED <<kill, phase, level, result, count, row, timeVars, sym, watch,
                 seen, answer, sent, placed>>

\* Mutant: watches that were executing are armed again.
Rearmed(w) == "WAITING"

Recovered(w) == "DONE"

\* Mutant: only the monitor's recovery counts.
WatchesOnly(interrupted) == interrupted # {}

Doubt(interrupted) == owed \/ interrupted # {}

\* Positions are made from the rows that say OPEN.
Rehydrated == row

\* The worker recovers interrupted jobs (ExecutionQueue), then the monitor the
\* watches that were EXECUTING; both set the kill switch first.
Restart ==
  LET interrupted == {w \in Watches : phase[w] = "EXECUTING"} IN
  /\ ~up /\ up' = TRUE
  /\ kill' = (kill \/ Doubt(interrupted))
  /\ owed' = FALSE
  /\ phase' = [w \in Watches |->
                 IF w \in interrupted THEN Recovered(w) ELSE phase[w]]
  /\ result' = [w \in Watches |->
                  IF w \in interrupted THEN "ERROR" ELSE result[w]]
  /\ mem' = Rehydrated
  /\ UNCHANGED <<lock, level, count, row, timeVars, crashes, unwritten, callVars,
                 brokerVars>>
-----------------------------------------------------------------------------
Engine(c) ==
  \/ Lock(c) \/ GuardWatch(c) \/ GuardAlert(c) \/ Filter(c)
  \/ \E w \in Watches : Arm(c, w)
  \/ FindLevel(c) \/ Price(c) \/ Claim(c) \/ CountTrade(c) \/ Send(c)
  \/ OrderResult(c) \/ Record(c) \/ Finish(c) \/ Unlock(c)

Check(w) ==
  CheckExecuting(w) \/ Alarm(w) \/ CheckWaiting(w) \/ Settle(w)

Next ==
  \/ \E c \in Calls, s \in Symbols : Arrive(c, s)
  \/ \E c \in Callers : Engine(c) \/ StoreFails(c) \/ LeaseLost(c) \/ Cancelled(c)
  \/ \E w \in Watches : Poll(w) \/ Check(w) \/ Expire(w) \/ Overdue(w)
  \/ \E s \in Symbols : Rewrite(s) \/ Close(s)
  \/ UserKills \/ UserResumes \/ Die \/ Restart

Spec == Init /\ [][Next]_vars

\* Every await of a call and of a check ends, the monitor polls, time passes,
\* and a process that stopped is started again.
FairSpec ==
  /\ Spec
  /\ \A c \in Callers : WF_vars(Engine(c)) /\ WF_vars(Cancelled(c))
  /\ \A w \in Watches :
       WF_vars(Poll(w)) /\ WF_vars(Check(w)) /\ WF_vars(Expire(w))
       /\ WF_vars(Overdue(w))
  /\ WF_vars(Restart)
-----------------------------------------------------------------------------
(* Properties.                                                             *)

\* Every variable has its type.
TypeOK ==
  /\ kill \in BOOLEAN /\ up \in BOOLEAN /\ owed \in BOOLEAN
  /\ crashes \in 0 .. MaxCrashes /\ count \in 0 .. Limit
  /\ lock \in [Symbols -> Callers \cup {Nothing}]
  /\ phase \in [Watches -> Live \cup {"none", "DONE"}]
  /\ level \in [Watches -> BOOLEAN] /\ expired \in [Watches -> BOOLEAN]
  /\ overdue \in [Watches -> BOOLEAN]
  /\ result \in [Watches -> {"SKIPPED", "ERROR", "ENTERED", Nothing}]
  /\ row \in [Symbols -> BOOLEAN] /\ mem \in [Symbols -> BOOLEAN]
  /\ unwritten \in [Symbols -> BOOLEAN] /\ forgotten \in [Symbols -> BOOLEAN]
  /\ pc \in [Callers -> Places]
  /\ sym \in [Callers -> Symbols \cup {Nothing}]
  /\ watch \in [Callers -> Watches \cup {Nothing}]
  /\ seen \in [Callers -> Live \cup {"none", "DONE"}]
  /\ answer \in [Callers -> {"SKIPPED", "BUSY", "WAITING", "ERROR", "ENTERED",
                             Nothing}]
  /\ held \in [Symbols -> Nat] /\ sent \in [Watches -> Nat] /\ placed \in Nat

\* A symbol is never entered a second time while an entry of it is held, known
\* to the program or not, through lost locks, stops, deaths and restarts.  The
\* exception is the code's: the row of an entry was not written, which nobody
\* hears of, and the process ended before a later write.
EnteredOnce == \A s \in Symbols : held[s] <= 1 \/ forgotten[s]

\* Not more orders are placed on an alert in a day than its limit, whichever
\* symbols, calls and watches compete for it.
LimitHolds == placed <= Limit

\* A watch promises what WatchOnce says.
Once == INSTANCE WatchOnce WITH
  stage <- [w \in Watches |->
              CASE phase[w] = "none" -> "none" [] phase[w] = "WAITING" -> "armed"
                [] phase[w] = "EXECUTING" -> "committed" [] OTHER -> "settled"]
ImplementsWatchOnce == Once!Spec

\* A claimed watch is not settled without its entry, while its order is out or
\* an entry of its symbol is unknown, unless the kill switch was set to say so
\* (an entry of an earlier alert that is forgotten excepted).
NoSilentLoss ==
  [][\A w \in Watches :
       /\ phase[w] = "EXECUTING" /\ phase'[w] = "DONE" /\ result'[w] # "ENTERED"
       /\ held[SymbolOf[w]] > 0 /\ ~row[SymbolOf[w]] /\ ~forgotten[SymbolOf[w]]
       => kill']_vars

\* A watch is settled in the end.
WatchesSettle == \A w \in Watches : phase[w] = "WAITING" ~> phase[w] = "DONE"
=============================================================================

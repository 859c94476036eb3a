----------------------------- MODULE MarketFeed -----------------------------
(***************************************************************************)
(* The market feed service (market_feed_service.py) with the Dhan feed of   *)
(* main.py and dhan_broker.py, for one user.  Its main loop keeps the feed  *)
(* on the stored credentials and drains the subscription queue; its health *)
(* loop publishes whether the feed is connected and restarts a dead one;   *)
(* the receiver, a thread with its own loop, connects, reconnects and      *)
(* sends the subscriptions, and tells the service's loop by callbacks.      *)
(* A receiver that is told to stop may go on: strays.                       *)
(***************************************************************************)
EXTENDS Naturals, Sequences

CONSTANTS
  Symbols,
  Active,       \* symbols with an open position or a waiting watch
  MaxTokens,    \* bound on access tokens: 1 .. MaxTokens are stored in turn
  MaxRequests,  \* bound on subscription requests
  MaxInputs,    \* bound on tokens and requests together
  MaxRetries,   \* retries of a request (5)
  Slots         \* bound on receivers left behind at a time

Nobody == "nobody"
Loops == {"main", "health"}

ASSUME FeedAssumption ==
  /\ Active \subseteq Symbols
  /\ MaxTokens \in Nat /\ MaxRequests \in Nat
  /\ MaxInputs \in Nat /\ MaxRetries \in Nat

VARIABLES
  \* Redis
  token,      \* the stored access token; 0: none
  expired,    \* tokens that the broker no longer accepts
  queue,      \* subscription requests
  health,     \* the health record says: connected
  \* the service's loop
  pc, read,   \* of the two loops; the token or health a loop has read
  lock,       \* holder of DHAN_RESTART_LOCK
  started,    \* the user is in started_users
  job,        \* the request the main loop handles
  subs,       \* DHAN_SUBSCRIPTIONS
  saves,      \* health writes that are under way
  reported,   \* symbols whose subscription was reported as sent
  \* the feed service object
  feed,       \* token of DHAN_FEED; 0: there is none
  mine,       \* it is still the one that the main loop subscribes with
  sent,       \* sent_security_ids
  callbacks,  \* callbacks of the receiver to the service's loop
  \* the receiver thread
  socket,     \* none, new (not begun), down, up, ended (gave up), dead (failed)
  instruments, wire,
  takers,     \* receivers whose packets are taken
  strays,     \* receivers left behind by a stop, whose packets are dropped
  dhanConnected, \* DHAN_CONNECTED, which every receiver writes
  requests

redisVars == <<token, expired, queue, health>>
loopVars == <<pc, read, lock, started, job, subs, saves, reported>>
feedVars == <<feed, mine, sent, callbacks>>
threadVars == <<socket, instruments, wire, takers, strays, dhanConnected>>
vars == <<redisVars, loopVars, feedVars, threadVars, requests>>

NoStray == [token |-> 0, state |-> "none"]
NoJob == [symbol |-> Nobody, retries |-> 0]
Request == [symbol : Symbols, retries : 0 .. MaxRetries]

Init ==
  /\ token = 0 /\ expired = {} /\ queue = {} /\ health = FALSE
  /\ pc = [l \in Loops |-> "idle"]
  /\ read = [l \in Loops |-> 0]
  /\ lock = Nobody /\ started = FALSE /\ job = NoJob
  /\ subs = {} /\ saves = {} /\ reported = {}
  /\ feed = 0 /\ mine = FALSE /\ sent = {} /\ callbacks = <<>>
  /\ socket = "none" /\ instruments = {} /\ wire = {}
  /\ takers = 0 /\ strays = [k \in Slots |-> NoStray] /\ dhanConnected = FALSE
  /\ requests = 0

Goto(l, place) == pc' = [pc EXCEPT ![l] = place]

\* Mutant: any running feed will do.
AnyFeed == feed # 0

\* _feed_started_with_current_credentials.
Current == token # 0 /\ feed = token

\* The receiver's thread is there; its loop runs.
Alive == socket \in {"new", "down", "up"}
Begun == socket \in {"down", "up"}
-----------------------------------------------------------------------------
(* restart_selected_feed, by either loop.                                  *)

\* Mutant: restarts are not serialised.
Unlocked == TRUE

LockFree == lock = Nobody

\* close_connection says stop and looks no further if the receiver's loop does
\* not run yet, and run() then goes on; that a running one takes longer to close
\* than the stop waits, or fails to, is ignored.
LeftBehind ==
  {[strays EXCEPT ![k] = IF Begun THEN [token |-> 0, state |-> "closing"]
                                  ELSE [token |-> feed, state |-> "down"]]
     : k \in {s \in Slots : strays[s] = NoStray}}

\* _stop_dhan_feed closes the receiver, whose callbacks then say disconnected;
\* start_dhan_feed reads the credentials, and without them starts nothing.
StopFeed(l) ==
  /\ pc[l] = "restart" /\ LockFree
  /\ takers' = IF Alive THEN takers - 1 ELSE takers
  /\ strays' \in {strays} \cup (IF Alive THEN LeftBehind ELSE {})
  /\ feed' = 0 /\ socket' = "none" /\ wire' = {} /\ instruments' = {}
  /\ sent' = {} /\ callbacks' = <<>> /\ mine' = FALSE
  /\ dhanConnected' = FALSE /\ saves' = saves \cup {FALSE}
  /\ read' = [read EXCEPT ![l] = token]
  /\ IF token = 0
     THEN Goto(l, "restarted") /\ UNCHANGED lock
     ELSE Goto(l, "start") /\ lock' = l
  /\ UNCHANGED <<redisVars, started, job, subs, reported, requests>>

\* DhanFeedService.start makes the receiver with all subscriptions, unless the
\* token has expired.
StartFeed(l) ==
  /\ pc[l] = "start"
  /\ feed' = read[l] /\ read' = [read EXCEPT ![l] = 0]
  /\ IF read[l] \in expired
     THEN /\ socket' = "ended"
          /\ dhanConnected' = FALSE /\ saves' = saves \cup {FALSE}
          /\ UNCHANGED <<instruments, takers>>
     ELSE /\ socket' = "new" /\ instruments' = subs
          /\ takers' = takers + 1
          /\ UNCHANGED <<dhanConnected, saves>>
  /\ wire' = {} /\ sent' = {} /\ callbacks' = <<>>
  /\ lock' = Nobody
  /\ Goto(l, "restarted")
  /\ UNCHANGED <<redisVars, started, job, subs, reported, mine, strays, requests>>
-----------------------------------------------------------------------------
(* The main loop.                                                          *)

\* _ensure_user_feed_started, at every refresh and before every request.
Ensure ==
  /\ \/ pc["main"] = "idle"
     \/ pc["main"] = "ensure"
  /\ IF started /\ Current
     THEN /\ Goto("main", IF job = NoJob THEN "idle" ELSE "subscribe")
          /\ UNCHANGED started
     ELSE started' = FALSE /\ Goto("main", "restart")
  /\ UNCHANGED <<redisVars, read, lock, job, subs, saves,
                 reported, feedVars, threadVars, requests>>

\* After the restart what is watched is subscribed, whatever comes of it ...
Restarted ==
  /\ pc["main"] = "restarted"
  /\ subs' = subs \cup Active
  /\ instruments' = IF Begun THEN instruments \cup subs' ELSE instruments
  /\ wire' = IF socket = "up" THEN wire \cup subs' ELSE wire
  /\ sent' = IF socket = "up" THEN sent \cup subs' ELSE sent
  /\ Goto("main", "verify")
  /\ UNCHANGED <<redisVars, read, lock, started, job, saves,
                 reported, feed, mine, callbacks, socket, takers, strays,
                 dhanConnected, requests>>

\* ... and the user counts as started if the feed runs on what is stored now.
Verify ==
  /\ pc["main"] = "verify"
  /\ IF Current
     THEN started' = TRUE /\ UNCHANGED health
     ELSE health' = FALSE /\ UNCHANGED started
  /\ Goto("main", IF job = NoJob THEN "idle" ELSE "subscribe")
  /\ UNCHANGED <<token, expired, queue, read, lock, job, subs,
                 saves, reported, feedVars, threadVars, requests>>

\* _drain_subscription_requests: one whose delay is not over lets the others pass.
Take ==
  /\ pc["main"] = "idle"
  /\ \E r \in queue : queue' = queue \ {r} /\ job' = r
  /\ Goto("main", "ensure")
  /\ UNCHANGED <<token, expired, health, read, lock, started, subs, saves,
                 reported, feedVars, threadVars, requests>>

MayRetry == job.retries < MaxRetries

\* Mutant: the retry is not counted.
Uncounted == job

Retried == [job EXCEPT !.retries = @ + 1]

\* The request goes back with a delay, or is given up.
PutBack ==
  /\ queue' = IF MayRetry THEN queue \cup {Retried} ELSE queue
  /\ job' = NoJob /\ mine' = FALSE
  /\ Goto("main", "idle")

\* subscribe_symbols_for_user: a symbol that the instrument master does not
\* know is missing; what was sent before is not sent again; a receiver whose
\* loop does not run sends nothing.
Subscribe ==
  /\ pc["main"] = "subscribe"
  /\ \/ PutBack /\ UNCHANGED subs
     \/ /\ subs' = subs \cup {job.symbol}
        /\ \/ /\ feed # 0 /\ subs' \subseteq sent
              /\ mine' = FALSE /\ Goto("main", "confirm") /\ UNCHANGED <<queue, job>>
           \/ /\ ~(subs' \subseteq sent) /\ Begun
              /\ mine' = TRUE /\ Goto("main", "send") /\ UNCHANGED <<queue, job>>
           \/ /\ feed = 0 \/ (~(subs' \subseteq sent) /\ ~Begun)
              /\ PutBack
  /\ UNCHANGED <<token, expired, health, read, lock, started, saves,
                 reported, feed, sent, callbacks, threadVars, requests>>

\* Mutant: what is sent is not kept for the next connection.
NotKept == instruments

Desired == instruments \cup subs

\* send(), in the receiver's loop: the list is kept for the next connection
\* even if the socket is closed or fails now; a failure takes what was new off
\* the sent list.  A receiver that was stopped meanwhile may still send it as it
\* closes.
Transmit ==
  /\ pc["main"] = "send"
  /\ \/ /\ PutBack /\ UNCHANGED wire
        /\ \E failed \in SUBSET subs : sent' = IF mine THEN sent \ failed ELSE sent
     \/ /\ IF mine THEN socket = "up" ELSE \E k \in Slots : strays[k].state = "closing"
        /\ wire' = IF mine THEN wire \cup subs ELSE wire
        /\ Goto("main", "sent") /\ UNCHANGED <<queue, job, mine, sent>>
  /\ instruments' = IF mine /\ Begun THEN Desired ELSE instruments
  /\ UNCHANGED <<token, expired, health, read, lock, started, subs,
                 saves, reported, feed, callbacks, socket, takers, strays,
                 dhanConnected, requests>>

\* The loop hears of it later, perhaps after the socket was lost.
Acknowledged ==
  /\ pc["main"] = "sent"
  /\ sent' = IF mine THEN sent \cup subs ELSE sent
  /\ mine' = FALSE
  /\ Goto("main", "confirm")
  /\ UNCHANGED <<redisVars, read, lock, started, job, subs, saves,
                 reported, feed, callbacks, threadVars, requests>>

\* _confirm_dhan_alert_symbol_ticks: if no tick comes and the feed is not
\* connected and nobody brings it back, it is restarted.
Confirm ==
  /\ pc["main"] = "confirm"
  /\ reported' = reported \cup {job.symbol}
  /\ \/ Goto("main", "idle")
     \/ /\ ~health /\ (feed = 0 \/ socket = "dead")
        /\ Goto("main", "restart")
  /\ job' = NoJob
  /\ UNCHANGED <<redisVars, read, lock, started, subs, saves,
                 feedVars, threadVars, requests>>
-----------------------------------------------------------------------------
(* The health loop.                                                        *)

\* Mutant: the record is written when the feed comes up.
GoodNews == health \/ dhanConnected

\* Whichever receiver said so last.
Published == dhanConnected /\ feed # 0

\* What was read may be old when it is written.
Publish ==
  /\ pc["health"] = "idle" /\ started
  /\ read' = [read EXCEPT !["health"] = IF Published THEN 1 ELSE 0]
  /\ Goto("health", "write")
  /\ UNCHANGED <<redisVars, lock, started, job, subs, saves,
                 reported, feedVars, threadVars, requests>>

\* A receiver that runs, or waits for new credentials, looks after itself.
Managed == feed # 0 /\ socket # "dead"

WriteHealth ==
  /\ pc["health"] = "write"
  /\ health' = (read["health"] = 1)
  /\ read' = [read EXCEPT !["health"] = 0]
  /\ Goto("health", "idle")
  /\ UNCHANGED <<token, expired, queue, lock, started, job, subs,
                 saves, reported, feedVars, threadVars, requests>>

\* A feed that stays disconnected is restarted.
Revive ==
  /\ pc["health"] = "write" /\ read["health"] = 0 /\ ~Managed
  /\ health' = FALSE
  /\ Goto("health", "restart")
  /\ UNCHANGED <<token, expired, queue, read, lock, started, job, subs,
                 saves, reported, feedVars, threadVars, requests>>

WatchdogDone ==
  /\ pc["health"] = "restarted"
  /\ started' = Current
  /\ Goto("health", "idle")
  /\ UNCHANGED <<redisVars, read, lock, job, subs, saves,
                 reported, feedVars, threadVars, requests>>

\* _save_feed_health_nowait: tasks of their own, in no order.
SaveHealth ==
  /\ \E up \in saves : health' = up /\ saves' = saves \ {up}
  /\ UNCHANGED <<token, expired, queue, pc, read, lock, started, job, subs,
                 reported, feedVars, threadVars, requests>>

\* The record lives 15 seconds; who publishes it does so every 2.
HealthExpires ==
  /\ health /\ ~started
  /\ health' = FALSE
  /\ UNCHANGED <<token, expired, queue, loopVars, feedVars, threadVars, requests>>
-----------------------------------------------------------------------------
(* The receiver, _QueuedDhanMarketFeed.                                    *)

\* The thread's loop begins to run.
Begin ==
  /\ socket = "new"
  /\ socket' = "down"
  /\ UNCHANGED <<redisVars, loopVars, feedVars, instruments, wire, takers, strays,
                 dhanConnected, requests>>

\* on_state: the flag, and a health write of its own.
Say(up) == dhanConnected' = up /\ saves' = saves \cup {up}

Connect ==
  /\ socket = "down" /\ feed \notin expired
  /\ socket' = "up" /\ wire' = instruments
  /\ callbacks' = Append(callbacks, instruments)
  /\ Say(TRUE)
  /\ UNCHANGED <<redisVars, pc, read, lock, started, job, subs, reported, feed,
                 mine, sent, instruments, takers, strays, requests>>

\* The connection fails or is closed; it is tried again after a while.
Drop ==
  /\ socket = "up"
  /\ socket' = "down" /\ wire' = {}
  /\ callbacks' = <<{}>>  \* clears what is before it
  /\ Say(FALSE)
  /\ UNCHANGED <<redisVars, pc, read, lock, started, job, subs, reported, feed,
                 mine, sent, instruments, takers, strays, requests>>

\* The token has expired or is rejected: only new credentials help.
GiveUp ==
  /\ Begun /\ feed \in expired
  /\ socket' = "ended" /\ wire' = {} /\ takers' = takers - 1
  /\ callbacks' = <<{}>>
  /\ Say(FALSE)
  /\ UNCHANGED <<redisVars, pc, read, lock, started, job, subs, reported, feed,
                 mine, sent, instruments, strays, requests>>

\* The thread ends by an error that the receiver does not handle.
ReceiverDies ==
  /\ socket = "down"
  /\ socket' = "dead" /\ takers' = takers - 1
  /\ UNCHANGED <<redisVars, loopVars, feedVars, instruments, wire, strays, dhanConnected,
                 requests>>

\* A receiver that was left behind goes on as before: it connects ...
StrayConnects(k) ==
  /\ strays[k].state = "down" /\ strays[k].token \notin expired
  /\ strays' = [strays EXCEPT ![k].state = "up"]
  /\ Say(TRUE)
  /\ UNCHANGED <<redisVars, pc, read, lock, started, job, subs, reported, feedVars,
                 socket, instruments, wire, takers, requests>>

\* ... loses its connection ...
StrayDrops(k) ==
  /\ strays[k].state = "up"
  /\ strays' = [strays EXCEPT ![k].state = "down"]
  /\ Say(FALSE)
  /\ UNCHANGED <<redisVars, pc, read, lock, started, job, subs, reported, feedVars,
                 socket, instruments, wire, takers, requests>>

\* ... and ends with its token; one that closes ends, with a last word or without.
StrayEnds(k) ==
  /\ strays[k].state = "closing" \/ strays[k].token \in expired
  /\ strays' = [strays EXCEPT ![k] = NoStray]
  /\ \/ Say(FALSE)
     \/ strays[k].state = "closing" /\ UNCHANGED <<dhanConnected, saves>>
  /\ UNCHANGED <<redisVars, pc, read, lock, started, job, subs, reported, feedVars,
                 socket, instruments, wire, takers, requests>>

\* call_soon_threadsafe: connected adds what it sent, the others clear.
Callback ==
  /\ callbacks # <<>>
  /\ callbacks' = Tail(callbacks)
  /\ sent' = IF Head(callbacks) = {} THEN {} ELSE sent \cup Head(callbacks)
  /\ UNCHANGED <<redisVars, loopVars, feed, mine, threadVars, requests>>
-----------------------------------------------------------------------------
(* The other services, the broker and time.                                *)

MoreInputs == token + requests < MaxInputs

Ask(s) ==
  /\ MoreInputs /\ requests < MaxRequests /\ requests' = requests + 1
  /\ queue' = queue \cup {[symbol |-> s, retries |-> 0]}
  /\ UNCHANGED <<token, expired, health, loopVars, feedVars, threadVars>>

NewToken ==
  /\ MoreInputs /\ token < MaxTokens /\ token' = token + 1
  /\ UNCHANGED <<expired, queue, health, loopVars, feedVars, threadVars, requests>>

TokenExpires ==
  /\ expired' = expired \cup 1 .. token
  /\ expired' # expired
  /\ UNCHANGED <<token, queue, health, loopVars, feedVars, threadVars, requests>>
-----------------------------------------------------------------------------
Restart(l) == StopFeed(l) \/ StartFeed(l)
Drain == Subscribe \/ Transmit \/ Acknowledged \/ Confirm
Main == Ensure \/ Restart("main") \/ Restarted \/ Verify \/ Drain
Watchdog == Restart("health") \/ Publish \/ WriteHealth \/ Revive \/ WatchdogDone

Next ==
  \/ Main \/ Take \/ Watchdog
  \/ SaveHealth \/ HealthExpires
  \/ Begin \/ Connect \/ Drop \/ GiveUp \/ ReceiverDies \/ Callback
  \/ \E k \in Slots : StrayConnects(k) \/ StrayDrops(k) \/ StrayEnds(k)
  \/ \E s \in Symbols : Ask(s)
  \/ NewToken \/ TokenExpires

Spec == Init /\ [][Next]_vars

\* Both loops go on, the restart lock is given in the order it was asked for, the
\* delay of a request ends, and health writes are carried out.
FairSpec ==
  Spec /\ SF_vars(Main) /\ SF_vars(Take) /\ WF_vars(Watchdog) /\ WF_vars(SaveHealth)

\* The watchdog waits before it revives a feed that stays dead, and longer before it does
\* so again: a thread begins meanwhile, and a valid token connects.
Patience == SF_vars(Revive) /\ SF_vars(Begin) /\ SF_vars(Connect)
-----------------------------------------------------------------------------
(* Properties.                                                             *)

\* However the two loops restart the feed, and whatever a stop leaves behind, the
\* packets of one receiver at a time are taken: no tick is handled twice.
TicksTakenOnce == takers <= 1

\* A subscription that was reported as sent is on every connection from then
\* on, through reconnections and restarts.
ReportedIsSubscribed == socket = "up" => reported \subseteq wire

\* A subscription request ends: it is sent, or given up after its retries. As they are
\* finitely many, there are none in the end.
RequestsEnd == []<>(queue = {} /\ job = NoJob)

StrayUp == \E k \in Slots : strays[k].state = "up"

\* If the stored credentials stay valid, the feed comes up on them, again and
\* again, whatever happens to the receiver and to the credentials before them,
\* unless a receiver left behind goes on saying that the feed is connected.
FeedRecovers ==
  Patience /\ <>[](token # 0 /\ token \notin expired)
    => []<>(socket = "up" /\ feed = token) \/ []<>StrayUp

\* A feed that is down for good is not reported as connected for ever, if no
\* receiver left behind is connected.
DeadFeedIsReported == <>[](socket # "up" /\ ~StrayUp) => <>[]~health
=============================================================================

----------------------------- MODULE MarketProofs -----------------------------
(***************************************************************************)
(* Two services that read the market's data.                               *)
(*                                                                         *)
(* The market feed, for any symbols, tokens and requests: however the two  *)
(* loops restart it and whatever a stop leaves running, the packets of one *)
(* receiver at a time are taken, and no reconnection or restart forgets a  *)
(* subscription that was reported as sent. The receiver reports what it    *)
(* sent by callbacks that come late, and the list that the next connection *)
(* is made with is kept in three places: Lists says how they are related.  *)
(*                                                                         *)
(* The turnover ranking, for any stocks, markets, calendar and workers,    *)
(* however prices move: the rows of every snapshot are quotes of its day   *)
(* (RowOf, Listing), so what passes is among the best by today's trades,   *)
(* and a stock whose quotes have stopped makes no other pass.              *)
(***************************************************************************)
EXTENDS MarketFeed, Turnover, FiniteSetTheorems, TLAPS


Stray == [token : Nat, state : {"none", "down", "up", "closing"}]

TypeOK ==
  /\ queue \subseteq Request /\ job \in Request \cup {NoJob}
  /\ pc \in [Loops -> {"idle", "restart", "start", "restarted", "verify",
                       "ensure", "subscribe", "send", "sent", "confirm", "write"}]
  /\ pc["main"] \in {"subscribe", "send", "sent", "confirm"} => job # NoJob
  /\ read \in [Loops -> Nat] /\ lock \in Loops \cup {Nobody}
  /\ token \in Nat /\ feed \in Nat /\ mine \in BOOLEAN
  /\ subs \subseteq Symbols /\ sent \subseteq Symbols /\ reported \subseteq Symbols
  /\ instruments \subseteq Symbols /\ wire \subseteq Symbols
  /\ callbacks \in Seq(SUBSET Symbols)
  /\ socket \in {"none", "new", "down", "up", "ended", "dead"}
  /\ takers \in Nat
  /\ strays \in [Slots -> Stray]
  /\ dhanConnected \in BOOLEAN

\* Who starts a feed has the lock, and has told the one before to stop: what that
\* one still receives is not taken.
Receivers ==
  /\ takers = IF Alive THEN 1 ELSE 0
  /\ Alive => feed # 0
  /\ \A l \in Loops : pc[l] = "start" => lock = l /\ socket = "none" /\ read[l] # 0

\* A list covers what was sent, what the receiver says that it has sent, and what was
\* or will be reported.
Covers(list) ==
  /\ reported \cup sent \subseteq list
  /\ \A k \in 1 .. Len(callbacks) : callbacks[k] \subseteq list
  /\ pc["main"] = "send" /\ ~mine => subs \subseteq list
  /\ pc["main"] = "sent" => subs \subseteq list
  /\ pc["main"] = "confirm" => job.symbol \in list

\* The connection does, and the list that the next one is made with.
Lists ==
  /\ reported \subseteq subs
  /\ pc["main"] \in {"send", "sent", "confirm"} => job.symbol \in subs
  /\ Alive => Covers(instruments)
  /\ socket = "up" => Covers(wire)

Feed == TypeOK /\ Receivers /\ Lists
-----------------------------------------------------------------------------
LEMMA InitFeed == Init => Feed
<1> SUFFICES ASSUME Init PROVE Feed OBVIOUS
<1>1. TypeOK
  <2>1. << >> \in Seq(SUBSET Symbols) OBVIOUS
  <2>2. callbacks \in Seq(SUBSET Symbols) BY <2>1 DEF Init
  <2>3. /\ pc = [l \in Loops |-> "idle"] /\ pc["main"] = "idle"
        /\ read \in [Loops -> Nat] /\ lock \in Loops \cup {Nobody}
    BY DEF Init, Loops
  <2>4. strays \in [Slots -> Stray] BY DEF Init, Stray, NoStray
  <2>5. QED BY <2>2, <2>3, <2>4 DEF Init, TypeOK
<1>2. Receivers BY DEF Init, Receivers, Alive, Loops
<1>3. Lists BY DEF Init, Lists, Alive, Loops
<1>4. QED BY <1>1, <1>2, <1>3 DEF Feed

\* A request that may be retried is a request again.
LEMMA Again ==
  ASSUME job \in Request PROVE MayRetry => Retried \in Request
BY FeedAssumption DEF MayRetry, Retried, Request

\* Every step keeps the types; a receiver that ends was counted.
LEMMA TypeKept == TypeOK /\ Receivers /\ [Next]_vars => TypeOK'
<1> SUFFICES ASSUME TypeOK, Receivers, [Next]_vars PROVE TypeOK' OBVIOUS
<1>1. ASSUME NEW l \in Loops, StopFeed(l) PROVE TypeOK'
  <2>1. takers' \in Nat BY <1>1 DEF TypeOK, Receivers, Alive, StopFeed
  <2>2. pc' \in [Loops -> {"idle", "restart", "start", "restarted", "verify",
                          "ensure", "subscribe", "send", "sent", "confirm", "write"}]
    BY <1>1 DEF TypeOK, StopFeed, Goto
  <2>3. pc'["main"] \in {"subscribe", "send", "sent", "confirm"} => pc["main"] = pc'["main"]
    BY <1>1 DEF TypeOK, StopFeed, Goto, Loops
  <2>4. callbacks' \in Seq(SUBSET Symbols)
    BY <1>1 DEF StopFeed
  <2>5. strays' \in [Slots -> Stray]
    <3> DEFINE left == IF Begun THEN [token |-> 0, state |-> "closing"]
                       ELSE [token |-> feed, state |-> "down"]
    <3>1. left \in Stray BY DEF TypeOK, Stray
    <3>2. ASSUME NEW k \in Slots
          PROVE  [strays EXCEPT ![k] = left] \in [Slots -> Stray]
      BY <3>1 DEF TypeOK
    <3>3. strays \in [Slots -> Stray] BY DEF TypeOK
    <3>4. CASE strays' = strays BY <3>3, <3>4
    <3>5. CASE strays' # strays
      <4>1. strays' \in LeftBehind BY <1>1, <3>5 DEF StopFeed
      <4>2. QED BY <3>2, <4>1 DEF LeftBehind
    <3>6. QED BY <3>4, <3>5
  <2>6. QED
    BY <1>1, <2>1, <2>2, <2>3, <2>4, <2>5 DEF TypeOK, StopFeed, redisVars
<1>2. ASSUME NEW l \in Loops, StartFeed(l) PROVE TypeOK'
  <2>1. takers' \in Nat
    <3>1. takers \in Nat BY DEF TypeOK
    <3>2. CASE read[l] \in expired BY <1>2, <3>1, <3>2 DEF StartFeed
    <3>3. CASE read[l] \notin expired BY <1>2, <3>1, <3>3 DEF StartFeed
    <3>4. QED BY <3>2, <3>3
  <2>2. pc' \in [Loops -> {"idle", "restart", "start", "restarted", "verify",
                          "ensure", "subscribe", "send", "sent", "confirm", "write"}]
    BY <1>2 DEF TypeOK, StartFeed, Goto
  <2>3. pc'["main"] \in {"subscribe", "send", "sent", "confirm"} => pc["main"] = pc'["main"]
    BY <1>2 DEF TypeOK, StartFeed, Goto, Loops
  <2>4. callbacks' \in Seq(SUBSET Symbols)
    BY <1>2 DEF StartFeed
  <2>5. feed' \in Nat /\ read' \in [Loops -> Nat] BY <1>2 DEF TypeOK, StartFeed
  <2>6. QED
    BY <1>2, <2>1, <2>2, <2>3, <2>4, <2>5 DEF TypeOK, StartFeed, redisVars
<1>3. CASE Ensure
  BY <1>3 DEF TypeOK, Receivers, Ensure, Goto, Current, redisVars, feedVars, threadVars,
              NoJob, Alive, Loops
<1>4. CASE Restarted
  BY <1>4, FeedAssumption DEF TypeOK, Restarted, Begun, Goto, redisVars, Loops
<1>5. CASE Verify
  BY <1>5 DEF TypeOK, Receivers, Verify, Goto, Current, feedVars, threadVars, NoJob,
              Alive, Loops
<1>6. CASE Subscribe
  <2>1. job \in Request /\ job.symbol \in Symbols BY <1>6 DEF TypeOK, Subscribe, Request
  <2>2. CASE PutBack
    <3>1. subs' \subseteq Symbols BY <1>6, <2>1 DEF TypeOK, Subscribe
    <3>2. queue' \subseteq Request BY <2>1, <2>2, Again DEF TypeOK, PutBack
    <3>3. QED
      BY <1>6, <2>2, <3>1, <3>2
      DEF TypeOK, Subscribe, PutBack, Goto, threadVars, Loops
  <2>3. CASE ~PutBack
    BY <1>6, <2>1, <2>3 DEF TypeOK, Subscribe, Begun, Goto, threadVars, Loops
  <2>4. QED BY <2>2, <2>3
<1>7. CASE Transmit
  <2>1. job \in Request BY <1>7 DEF TypeOK, Transmit
  <2>2. instruments' \subseteq Symbols /\ wire' \subseteq Symbols
    BY <1>7 DEF TypeOK, Transmit, Desired
  <2>3. CASE PutBack
    <3>1. queue' \subseteq Request BY <2>1, <2>3, Again DEF TypeOK, PutBack
    <3>2. QED
      BY <1>7, <2>2, <2>3, <3>1 DEF TypeOK, Transmit, PutBack, Goto, Loops
  <2>4. CASE ~PutBack
    BY <1>7, <2>2, <2>4 DEF TypeOK, Transmit, Begun, Goto, Loops
  <2>5. QED BY <2>3, <2>4
<1>8. CASE Acknowledged
  BY <1>8 DEF TypeOK, Receivers, Acknowledged, Goto, redisVars, threadVars, Alive,
              Loops
<1>9. CASE Confirm
  <2>1. job.symbol \in Symbols BY <1>9 DEF TypeOK, Confirm, Request
  <2>2. QED
    BY <1>9, <2>1 DEF TypeOK, Confirm, Goto, redisVars, feedVars, threadVars, Loops
<1>10. CASE Take
  BY <1>10 DEF TypeOK, Receivers, Take, Goto, feedVars, threadVars, Alive, Loops
<1>11. CASE Publish
  BY <1>11 DEF TypeOK, Receivers, Publish, Goto, Published, redisVars, feedVars,
               threadVars, Alive, Loops
<1>12. CASE WriteHealth
  BY <1>12 DEF TypeOK, Receivers, WriteHealth, Goto, feedVars, threadVars, Alive,
               Loops
<1>13. CASE Revive
  BY <1>13 DEF TypeOK, Receivers, Revive, Goto, Managed, feedVars, threadVars, Alive,
               Loops
<1>14. CASE WatchdogDone
  BY <1>14 DEF TypeOK, Receivers, WatchdogDone, Goto, Current, redisVars, feedVars,
               threadVars, Alive, Loops
<1>15. CASE SaveHealth
  BY <1>15 DEF TypeOK, Receivers, SaveHealth, feedVars, threadVars, Alive, Loops
<1>16. CASE HealthExpires
  BY <1>16 DEF TypeOK, Receivers, HealthExpires, loopVars, feedVars, threadVars,
               Alive, Loops
<1>17. CASE Connect
  <2>1. callbacks' \in Seq(SUBSET Symbols) BY <1>17 DEF TypeOK, Connect
  <2>2. dhanConnected' \in BOOLEAN BY <1>17 DEF Connect, Say
  <2>3. QED BY <1>17, <2>1, <2>2 DEF TypeOK, Connect, redisVars
<1>18. CASE Drop
  <2>1. callbacks' \in Seq(SUBSET Symbols) BY <1>18 DEF Drop
  <2>2. dhanConnected' \in BOOLEAN BY <1>18 DEF Drop, Say
  <2>3. QED BY <1>18, <2>1, <2>2 DEF TypeOK, Drop, redisVars
<1>19. CASE GiveUp
  <2>1. callbacks' \in Seq(SUBSET Symbols) BY <1>19 DEF GiveUp
  <2>2. dhanConnected' \in BOOLEAN BY <1>19 DEF GiveUp, Say
  <2>3. takers' \in Nat BY <1>19 DEF Receivers, GiveUp, Begun, Alive
  <2>4. QED BY <1>19, <2>1, <2>2, <2>3 DEF TypeOK, GiveUp, redisVars
<1>20. CASE ReceiverDies
  BY <1>20 DEF TypeOK, Receivers, ReceiverDies, redisVars, loopVars, feedVars, Alive,
               Loops
<1>21. CASE Callback
  BY <1>21 DEF TypeOK, Receivers, Callback, redisVars, loopVars, threadVars, Alive,
               Loops
<1>22. CASE NewToken
  BY <1>22 DEF TypeOK, Receivers, NewToken, loopVars, feedVars, threadVars, Alive,
               Loops
<1>23. CASE TokenExpires
  BY <1>23 DEF TypeOK, Receivers, TokenExpires, loopVars, feedVars, threadVars, Alive,
               Loops
<1>24. ASSUME NEW s \in Symbols, Ask(s) PROVE TypeOK'
  BY <1>24, FeedAssumption DEF TypeOK, Ask, loopVars, feedVars, threadVars, Request
<1>25. CASE UNCHANGED vars
  BY <1>25 DEF TypeOK, Receivers, vars, redisVars, loopVars, feedVars, threadVars,
               Alive, Loops
<1>26. CASE Begin
  BY <1>26 DEF TypeOK, Receivers, Begin, redisVars, loopVars, feedVars, Alive, Loops
<1>27. ASSUME NEW k \in Slots, StrayConnects(k) PROVE TypeOK'
  BY <1>27 DEF TypeOK, Receivers, StrayConnects, Say, Stray, redisVars, feedVars,
               Alive, Loops
<1>28. ASSUME NEW k \in Slots, StrayDrops(k) PROVE TypeOK'
  BY <1>28 DEF TypeOK, Receivers, StrayDrops, Say, Stray, redisVars, feedVars,
               Alive, Loops
<1>29. ASSUME NEW k \in Slots, StrayEnds(k) PROVE TypeOK'
  BY <1>29 DEF TypeOK, Receivers, StrayEnds, Say, Stray, NoStray, redisVars,
               feedVars, Alive, Loops
<1>30. QED
  BY <1>1, <1>2, <1>3, <1>4, <1>5, <1>6, <1>7, <1>8, <1>9, <1>10, <1>11, <1>12, <1>13,
     <1>14, <1>15, <1>16, <1>17, <1>18, <1>19, <1>20, <1>21, <1>22, <1>23, <1>24, <1>25,
     <1>26, <1>27, <1>28, <1>29
  DEF Next, Main, Drain, Watchdog, Restart, Loops

\* Who has the restart lock is alone, and starts the feed after stopping it.
LEMMA ReceiversKept == TypeOK /\ Receivers /\ [Next]_vars => Receivers'
<1> SUFFICES ASSUME TypeOK, Receivers, [Next]_vars PROVE Receivers' OBVIOUS
<1>1. ASSUME NEW l \in Loops, StopFeed(l) PROVE Receivers'
  <2>1. socket' = "none" /\ feed' = 0 /\ takers' = 0
    BY <1>1 DEF TypeOK, Receivers, Alive, StopFeed
  <2>2. ASSUME NEW k \in Loops, pc'[k] = "start"
        PROVE  lock' = k /\ read'[k] # 0
    <3>1. k = l
      BY <1>1, <2>2 DEF TypeOK, Receivers, StopFeed, LockFree, Goto, Nobody, Loops
    <3>2. QED BY <1>1, <2>2, <3>1 DEF TypeOK, Receivers, StopFeed, Goto, Loops
  <2>3. QED BY <2>1, <2>2 DEF Receivers, Alive
<1>2. ASSUME NEW l \in Loops, StartFeed(l) PROVE Receivers'
  <2>1. takers = 0 /\ lock = l /\ read[l] # 0
    BY <1>2 DEF TypeOK, Receivers, Alive, StartFeed
  <2>2. \A k \in Loops : pc'[k] # "start"
    BY <1>2, <2>1 DEF TypeOK, Receivers, StartFeed, Goto, Loops
  <2>3. takers' = (IF Alive' THEN 1 ELSE 0) /\ feed' # 0
    <3>1. CASE read[l] \in expired BY <1>2, <2>1, <3>1 DEF StartFeed, Alive
    <3>2. CASE read[l] \notin expired BY <1>2, <2>1, <3>2 DEF StartFeed, Alive
    <3>3. QED BY <3>1, <3>2
  <2>4. QED BY <2>2, <2>3 DEF Receivers, Alive
<1>3. CASE Ensure
  BY <1>3 DEF TypeOK, Receivers, Ensure, Goto, Current, redisVars, feedVars, threadVars,
              NoJob, Alive, Loops
<1>4. CASE Restarted
  BY <1>4 DEF TypeOK, Receivers, Restarted, Begun, Goto, redisVars, Alive, Loops
<1>5. CASE Verify
  BY <1>5 DEF TypeOK, Receivers, Verify, Goto, Current, feedVars, threadVars, NoJob,
              Alive, Loops
<1>6. CASE Subscribe
  BY <1>6 DEF TypeOK, Receivers, Subscribe, Begun, Goto, PutBack, MayRetry, Retried, NoJob,
              threadVars, Alive, Loops
<1>7. CASE Transmit
  BY <1>7 DEF TypeOK, Receivers, Transmit, Begun, Goto, PutBack, MayRetry, Retried, NoJob,
              Desired, Alive, Loops
<1>8. CASE Acknowledged
  BY <1>8 DEF TypeOK, Receivers, Acknowledged, Goto, redisVars, threadVars, Alive,
              Loops
<1>9. CASE Confirm
  BY <1>9 DEF TypeOK, Receivers, Confirm, Goto, redisVars, feedVars, threadVars, NoJob,
              Alive, Loops
<1>10. CASE Take
  BY <1>10 DEF TypeOK, Receivers, Take, Goto, feedVars, threadVars, Alive, Loops
<1>11. CASE Publish
  BY <1>11 DEF TypeOK, Receivers, Publish, Goto, Published, redisVars, feedVars,
               threadVars, Alive, Loops
<1>12. CASE WriteHealth
  BY <1>12 DEF TypeOK, Receivers, WriteHealth, Goto, feedVars, threadVars, Alive,
               Loops
<1>13. CASE Revive
  BY <1>13 DEF TypeOK, Receivers, Revive, Goto, Managed, feedVars, threadVars, Alive,
               Loops
<1>14. CASE WatchdogDone
  BY <1>14 DEF TypeOK, Receivers, WatchdogDone, Goto, Current, redisVars, feedVars,
               threadVars, Alive, Loops
<1>15. CASE SaveHealth
  BY <1>15 DEF TypeOK, Receivers, SaveHealth, feedVars, threadVars, Alive, Loops
<1>16. CASE HealthExpires
  BY <1>16 DEF TypeOK, Receivers, HealthExpires, loopVars, feedVars, threadVars,
               Alive, Loops
<1>17. CASE Connect
  BY <1>17 DEF TypeOK, Receivers, Connect, Say, redisVars, Alive, Loops
<1>18. CASE Drop
  BY <1>18 DEF TypeOK, Receivers, Drop, Say, redisVars, Alive, Loops
<1>19. CASE GiveUp
  BY <1>19 DEF TypeOK, Receivers, GiveUp, Begun, Say, redisVars, Alive, Loops
<1>20. CASE ReceiverDies
  BY <1>20 DEF TypeOK, Receivers, ReceiverDies, redisVars, loopVars, feedVars, Alive,
               Loops
<1>21. CASE Callback
  BY <1>21 DEF TypeOK, Receivers, Callback, redisVars, loopVars, threadVars, Alive,
               Loops
<1>22. CASE NewToken
  BY <1>22 DEF TypeOK, Receivers, NewToken, loopVars, feedVars, threadVars, Alive,
               Loops
<1>23. CASE TokenExpires
  BY <1>23 DEF TypeOK, Receivers, TokenExpires, loopVars, feedVars, threadVars, Alive,
               Loops
<1>24. ASSUME NEW s \in Symbols, Ask(s) PROVE Receivers'
  BY <1>24 DEF TypeOK, Receivers, Ask, loopVars, feedVars, threadVars, Alive, Loops
<1>25. CASE UNCHANGED vars
  BY <1>25 DEF TypeOK, Receivers, vars, redisVars, loopVars, feedVars, threadVars,
               Alive, Loops
<1>26. CASE Begin
  BY <1>26 DEF TypeOK, Receivers, Begin, redisVars, loopVars, feedVars, Alive, Loops
<1>27. ASSUME NEW k \in Slots, StrayConnects(k) PROVE Receivers'
  BY <1>27 DEF TypeOK, Receivers, StrayConnects, Say, Stray, redisVars, feedVars,
               Alive, Loops
<1>28. ASSUME NEW k \in Slots, StrayDrops(k) PROVE Receivers'
  BY <1>28 DEF TypeOK, Receivers, StrayDrops, Say, Stray, redisVars, feedVars,
               Alive, Loops
<1>29. ASSUME NEW k \in Slots, StrayEnds(k) PROVE Receivers'
  BY <1>29 DEF TypeOK, Receivers, StrayEnds, Say, Stray, NoStray, redisVars,
               feedVars, Alive, Loops
<1>30. QED
  BY <1>1, <1>2, <1>3, <1>4, <1>5, <1>6, <1>7, <1>8, <1>9, <1>10, <1>11, <1>12, <1>13,
     <1>14, <1>15, <1>16, <1>17, <1>18, <1>19, <1>20, <1>21, <1>22, <1>23, <1>24, <1>25,
     <1>26, <1>27, <1>28, <1>29
  DEF Next, Main, Drain, Watchdog, Restart, Loops

\* Every list that a connection is made with keeps what was sent.
LEMMA ListsKept == TypeOK /\ Receivers /\ Lists /\ [Next]_vars => Lists'
<1> SUFFICES ASSUME TypeOK, Receivers, Lists, [Next]_vars PROVE Lists' OBVIOUS
<1>1. ASSUME NEW l \in Loops, StopFeed(l) PROVE Lists'
  BY <1>1 DEF TypeOK, Receivers, Lists, Covers, StopFeed, Goto, LockFree, redisVars, Alive,
              Loops
<1>2. ASSUME NEW l \in Loops, StartFeed(l) PROVE Lists'
  <2>1. pc'["main"] \in {"send", "sent", "confirm"} => pc["main"] = pc'["main"]
    BY <1>2 DEF TypeOK, StartFeed, Goto, Loops
  <2>2. UNCHANGED <<reported, subs, job>> /\ sent' = {} /\ callbacks' = <<>>
    BY <1>2 DEF StartFeed
  <2>3. socket' # "up" /\ (socket' \in {"new", "down"} => instruments' = subs)
    BY <1>2 DEF StartFeed
  <2>4. QED BY <2>1, <2>2, <2>3 DEF Lists, Covers, Alive
<1>3. CASE Ensure
  BY <1>3 DEF TypeOK, Receivers, Lists, Covers, Ensure, Goto, Current, redisVars, feedVars,
              threadVars, NoJob, Alive, Loops
<1>4. CASE Restarted
  BY <1>4 DEF TypeOK, Receivers, Lists, Covers, Restarted, Begun, Goto, redisVars, Alive, Loops
<1>5. CASE Verify
  BY <1>5 DEF TypeOK, Receivers, Lists, Covers, Verify, Goto, Current, feedVars, threadVars,
              NoJob, Alive, Loops
<1>6. CASE Subscribe
  BY <1>6 DEF TypeOK, Receivers, Lists, Covers, Subscribe, Begun, Goto, PutBack, MayRetry, Retried,
              NoJob, threadVars, Alive, Loops
<1>7. CASE Transmit
  <2>1. /\ UNCHANGED <<reported, subs, callbacks, socket>>
        /\ instruments \subseteq instruments' /\ wire \subseteq wire'
        /\ sent' \subseteq sent
    BY <1>7 DEF Transmit, Begun, Desired
  <2>2. CASE PutBack
    <3>1. pc'["main"] = "idle" BY <2>2 DEF TypeOK, PutBack, Goto, Loops
    <3>2. QED BY <2>1, <3>1 DEF Lists, Covers, Alive
  <2>3. CASE ~PutBack
    <3>1. pc["main"] = "send" /\ pc'["main"] = "sent" /\ job' = job
      BY <1>7, <2>3 DEF TypeOK, Transmit, Goto, Loops
    <3>2. CASE mine
      <4>1. subs \subseteq instruments' /\ subs \subseteq wire' /\ socket = "up"
        BY <1>7, <2>3, <3>2 DEF Transmit, Begun, Desired
      <4>2. QED BY <2>1, <3>1, <4>1 DEF Lists, Covers, Alive
    <3>3. CASE ~mine BY <2>1, <3>1, <3>3 DEF Lists, Covers, Alive
    <3>4. QED BY <3>2, <3>3
  <2>4. QED BY <2>2, <2>3
<1>8. CASE Acknowledged
  BY <1>8 DEF TypeOK, Receivers, Lists, Covers, Acknowledged, Goto, redisVars, threadVars,
              Alive, Loops
<1>9. CASE Confirm
  BY <1>9 DEF TypeOK, Receivers, Lists, Covers, Confirm, Goto, redisVars, feedVars, threadVars,
              NoJob, Alive, Loops
<1>10. CASE Take
  BY <1>10 DEF TypeOK, Receivers, Lists, Covers, Take, Goto, feedVars, threadVars, Alive,
               Loops
<1>11. CASE Publish
  BY <1>11 DEF TypeOK, Receivers, Lists, Covers, Publish, Goto, Published, redisVars, feedVars,
               threadVars, Alive, Loops
<1>12. CASE WriteHealth
  BY <1>12 DEF TypeOK, Receivers, Lists, Covers, WriteHealth, Goto, feedVars, threadVars,
               Alive, Loops
<1>13. CASE Revive
  BY <1>13 DEF TypeOK, Receivers, Lists, Covers, Revive, Goto, Managed, feedVars, threadVars,
               Alive, Loops
<1>14. CASE WatchdogDone
  BY <1>14 DEF TypeOK, Receivers, Lists, Covers, WatchdogDone, Goto, Current, redisVars,
               feedVars, threadVars, Alive, Loops
<1>15. CASE SaveHealth
  BY <1>15 DEF TypeOK, Receivers, Lists, Covers, SaveHealth, feedVars, threadVars, Alive,
               Loops
<1>16. CASE HealthExpires
  BY <1>16 DEF TypeOK, Receivers, Lists, Covers, HealthExpires, loopVars, feedVars, threadVars,
               Alive, Loops
<1>17. CASE Connect
  BY <1>17 DEF TypeOK, Receivers, Lists, Covers, Connect, Say, redisVars, Alive, Loops
<1>18. CASE Drop
  BY <1>18 DEF TypeOK, Receivers, Lists, Covers, Drop, Say, redisVars, Alive, Loops
<1>19. CASE GiveUp
  BY <1>19 DEF TypeOK, Receivers, Lists, Covers, GiveUp, Begun, Say, redisVars, Alive, Loops
<1>20. CASE ReceiverDies
  BY <1>20 DEF TypeOK, Receivers, Lists, Covers, ReceiverDies, redisVars, loopVars, feedVars,
               Alive, Loops
<1>21. CASE Callback
  <2>1. /\ UNCHANGED <<reported, subs, job, pc, mine, socket, instruments, wire>>
        /\ callbacks # <<>> /\ callbacks' = Tail(callbacks)
        /\ sent' \subseteq sent \cup Head(callbacks)
    BY <1>21 DEF Callback, loopVars, threadVars
  <2>2. callbacks \in Seq(SUBSET Symbols) BY DEF TypeOK
  <2>3. /\ Head(callbacks) = callbacks[1] /\ 1 \in 1 .. Len(callbacks)
        /\ \A k \in 1 .. Len(callbacks') :
             k + 1 \in 1 .. Len(callbacks) /\ callbacks'[k] = callbacks[k + 1]
    BY <2>1, <2>2
  <2>4. Covers(instruments) => Covers(instruments)' BY <2>1, <2>3 DEF Covers
  <2>5. Covers(wire) => Covers(wire)' BY <2>1, <2>3 DEF Covers
  <2>6. QED BY <2>1, <2>4, <2>5 DEF Lists, Alive
<1>22. CASE NewToken
  BY <1>22 DEF TypeOK, Receivers, Lists, Covers, NewToken, loopVars, feedVars, threadVars,
               Alive, Loops
<1>23. CASE TokenExpires
  BY <1>23 DEF TypeOK, Receivers, Lists, Covers, TokenExpires, loopVars, feedVars, threadVars,
               Alive, Loops
<1>24. ASSUME NEW s \in Symbols, Ask(s) PROVE Lists'
  BY <1>24 DEF TypeOK, Receivers, Lists, Covers, Ask, loopVars, feedVars, threadVars, Alive,
               Loops
<1>25. CASE UNCHANGED vars
  BY <1>25 DEF TypeOK, Receivers, Lists, Covers, vars, redisVars, loopVars, feedVars,
               threadVars, Alive, Loops
<1>26. CASE Begin
  BY <1>26 DEF TypeOK, Receivers, Lists, Covers, Begin, redisVars, loopVars, feedVars, Alive, Loops
<1>27. ASSUME NEW k \in Slots, StrayConnects(k) PROVE Lists'
  BY <1>27 DEF TypeOK, Receivers, Lists, Covers, StrayConnects, Say, Stray, redisVars, feedVars,
               Alive, Loops
<1>28. ASSUME NEW k \in Slots, StrayDrops(k) PROVE Lists'
  BY <1>28 DEF TypeOK, Receivers, Lists, Covers, StrayDrops, Say, Stray, redisVars, feedVars,
               Alive, Loops
<1>29. ASSUME NEW k \in Slots, StrayEnds(k) PROVE Lists'
  BY <1>29 DEF TypeOK, Receivers, Lists, Covers, StrayEnds, Say, Stray, NoStray, redisVars,
               feedVars, Alive, Loops
<1>30. QED
  BY <1>1, <1>2, <1>3, <1>4, <1>5, <1>6, <1>7, <1>8, <1>9, <1>10, <1>11, <1>12, <1>13,
     <1>14, <1>15, <1>16, <1>17, <1>18, <1>19, <1>20, <1>21, <1>22, <1>23, <1>24, <1>25,
     <1>26, <1>27, <1>28, <1>29
  DEF Next, Main, Drain, Watchdog, Restart, Loops

LEMMA FeedKept == Feed /\ [Next]_vars => Feed'
BY TypeKept, ReceiversKept, ListsKept DEF Feed
-----------------------------------------------------------------------------
\* Whoever restarts the feed and whatever a stop leaves behind, the lists and the
\* receiver stay as they should be.
THEOREM FeedInvariant == Spec => []Feed
BY InitFeed, FeedKept, PTL DEF Spec

\* However the two loops restart the feed, the packets of one receiver at a time
\* are taken.
THEOREM NoTickTwice == Spec => []TicksTakenOnce
<1>1. Feed => TicksTakenOnce BY DEF Feed, Receivers, TicksTakenOnce
<1>2. QED BY <1>1, FeedInvariant, PTL

\* What was reported as subscribed is on every connection that follows.
THEOREM SubscriptionsKept == Spec => []ReportedIsSubscribed
<1>1. Feed => ReportedIsSubscribed BY DEF Feed, Lists, Covers, ReportedIsSubscribed
<1>2. QED BY <1>1, FeedInvariant, PTL
-----------------------------------------------------------------------------
(* The calendar.                                                            *)

LEMMA Quotient ==
  ASSUME NEW p \in Nat \ {0}, NEW t \in Nat
  PROVE  /\ t \div p \in Nat /\ t % p \in 0 .. p - 1
         /\ t = (t \div p) * p + (t % p)
<1>1. t % p \in 0 .. p - 1 OBVIOUS
<1>2. t = (t \div p) * p + (t % p) OBVIOUS
<1>3. t \div p \in Int OBVIOUS
<1>4. t \div p >= 0 BY <1>1, <1>2, <1>3
<1>5. QED BY <1>1, <1>2, <1>3, <1>4

LEMMA Products ==
  ASSUME NEW p \in Nat, NEW a \in Nat, NEW b \in Nat
  PROVE  a * p \in Nat /\ (a < b => a * p + p <= b * p)
<1>1. a * p \in Nat OBVIOUS
<1>2. ASSUME a < b PROVE a * p + p <= b * p
  <2>1. PICK c \in Nat : b = a + 1 + c
    <3>1. b - a - 1 \in Nat BY <1>2
    <3>2. QED BY <3>1
  <2>2. b * p = a * p + p + c * p BY <2>1
  <2>3. c * p \in Nat OBVIOUS
  <2>4. QED BY <1>1, <2>2, <2>3
<1>3. QED BY <1>1, <1>2

LEMMA QuotientUnique ==
  ASSUME NEW p \in Nat \ {0}, NEW t \in Nat, NEW q \in Nat, NEW r \in 0 .. p - 1,
         t = q * p + r
  PROVE  t \div p = q /\ t % p = r
<1> DEFINE d == t \div p
           m == t % p
<1>1. d \in Nat /\ m \in 0 .. p - 1 /\ t = d * p + m BY Quotient
<1> HIDE DEF d, m
<1>2. /\ d * p \in Nat /\ q * p \in Nat
      /\ d < q => d * p + p <= q * p
      /\ q < d => q * p + p <= d * p
  BY <1>1, Products
<1>3. d = q BY <1>1, <1>2
<1>4. m = r BY <1>1, <1>2, <1>3
<1>5. QED BY <1>3, <1>4 DEF d, m

\* A moment, its morning and its day.
LEMMA Parts ==
  ASSUME NEW t \in Nat
  PROVE  /\ Period \in Nat \ {0} /\ Day(t) \in Nat /\ Morning(t) \in Nat
         /\ t % Period \in 0 .. Period - 1
         /\ t = Morning(t) + (t % Period)
<1>1. Period \in Nat \ {0} BY TurnoverAssumption DEF Period
<1>2. /\ Day(t) \in Nat /\ t % Period \in 0 .. Period - 1
      /\ t = Morning(t) + (t % Period)
  BY <1>1, Quotient DEF Day, Morning
<1>3. Morning(t) \in Nat BY <1>1, <1>2, Products DEF Morning
<1>4. QED BY <1>1, <1>2, <1>3

LEMMA Within ==
  ASSUME NEW t \in Nat
  PROVE  /\ Period \in Nat \ {0} /\ Day(t) \in Nat /\ Morning(t) \in Nat
         /\ Morning(t) <= t /\ t < Morning(t) + Period
<1>1. Period \in Nat \ {0} /\ Day(t) \in Nat /\ Morning(t) \in Nat BY Parts
<1>2. PICK r \in 0 .. Period - 1 : t = Morning(t) + r BY Parts
<1>3. QED BY <1>1, <1>2

LEMMA Mornings ==
  ASSUME NEW t \in Nat, NEW u \in Nat
  PROVE  /\ Day(t) < Day(u) => Morning(t) + Period <= Morning(u)
         /\ Day(t) = Day(u) => Morning(t) = Morning(u)
BY Parts, Products DEF Morning

LEMMA DayMonotone ==
  ASSUME NEW t \in Nat, NEW u \in Nat, t <= u
  PROVE  Day(t) <= Day(u)
<1>1. Day(u) < Day(t) => Morning(u) + Period <= Morning(t) BY Mornings
<1>2. Day(t) \in Nat /\ Morning(t) \in Nat /\ Morning(t) <= t BY Within
<1>3. Day(u) \in Nat /\ Morning(u) \in Nat /\ u < Morning(u) + Period BY Within
<1>4. Period \in Nat BY Within
<1>5. QED BY <1>1, <1>2, <1>3, <1>4

\* Two moments of trading that are less than a night apart are of one day.
LEMMA OneDay ==
  ASSUME NEW t \in Nat, NEW u \in Nat, t <= u, u - t < Night, Open(t), Open(u)
  PROVE  Day(t) = Day(u)
<1>1. Day(t) < Day(u) => Morning(t) + Period <= Morning(u) BY Mornings
<1>2. Day(t) <= Day(u) BY DayMonotone
<1>3. /\ t = Morning(t) + (t % Period) /\ u = Morning(u) + (u % Period)
      /\ Morning(t) \in Nat /\ Morning(u) \in Nat
      /\ t % Period \in Nat /\ u % Period \in Nat
      /\ Day(t) \in Nat /\ Day(u) \in Nat
  BY Parts
<1>4. t % Period < DayLength BY DEF Open
<1>5. Period = DayLength + Night /\ DayLength \in Nat /\ Night \in Nat
  BY TurnoverAssumption DEF Period
<1>6. ~(Morning(t) + Period <= Morning(u)) BY <1>3, <1>4, <1>5
<1>7. QED BY <1>1, <1>2, <1>3, <1>6

\* The clock runs, and stops only while the market is open.
LEMMA LaterIsLater ==
  ASSUME NEW t \in Nat
  PROVE  Later(t) \in Nat /\ Later(t) > t /\ Open(Later(t))
<1>1. CASE Open(t + 1) BY <1>1 DEF Later
<1>2. CASE ~Open(t + 1)
  <2>1. Later(t) = Morning(t) + Period BY <1>2 DEF Later
  <2>2. Later(t) \in Nat /\ Later(t) > t BY <2>1, Within
  <2>3. Period \in Nat \ {0} /\ Day(t) + 1 \in Nat /\ 0 \in 0 .. Period - 1
    BY Within
  <2>4. Later(t) = (Day(t) + 1) * Period + 0
    <3>1. Day(t) \in Nat /\ Period \in Nat BY Within
    <3>2. (Day(t) + 1) * Period = Day(t) * Period + Period BY <3>1
    <3>3. QED BY <2>1, <2>2, <3>2 DEF Morning
  <2>5. Later(t) % Period = 0 BY <2>2, <2>3, <2>4, QuotientUnique
  <2>6. 0 < DayLength BY TurnoverAssumption
  <2>7. QED BY <2>2, <2>5, <2>6 DEF Open
<1>3. QED BY <1>1, <1>2

-----------------------------------------------------------------------------
(* The book and what was made of it.                                        *)

\* A row is a quote of its day: the stock's turnover at some moment between its being
\* asked for and then.
RowOf(r, at, d) ==
  /\ r \in [stock : Stocks, ts : Times, volume : Nat, turnover : Nat]
  /\ r.ts <= at /\ Day(r.ts) = d
  /\ \E t \in Times : r.ts <= t /\ t <= at /\ r.turnover = Worth(r.stock, t)

\* A snapshot has the rows of its moment, and every quote too old to have come since.
Listing(x) ==
  /\ x.ts \in Nat /\ x.ts <= now
  /\ IsFiniteSet(x.rows)
  /\ \A r \in x.rows : RowOf(r, x.ts, x.day)
  /\ \A r \in quotes : x.ts - r.ts > QuoteAge => r \in x.rows

Book ==
  /\ now \in Times /\ market \in Markets
  /\ lease \in Workers \cup {None}
  /\ session \in BOOLEAN /\ request.sent \in BOOLEAN
  /\ session => lease \in Workers
  /\ ~session => quotes = {} /\ ~request.sent
  /\ request.sent => request.at \in Times /\ request.at <= now
  /\ IsFiniteSet(quotes)
  /\ \A r \in quotes : RowOf(r, now, day)

Snapshots ==
  /\ outgoing = [w \in Workers |-> outgoing[w]]
  /\ Listing(snapshot) /\ \A w \in Workers : Listing(outgoing[w])
  /\ lease \in Workers => \/ outgoing[lease] = NoSnapshot
                          \/ outgoing[lease].ts >= snapshot.ts

TurnoverInv == Book /\ Snapshots

LEMMA ZeroIsTime == 0 \in Times
<1>1. Period \in Nat \ {0} BY Within
<1>2. 0 = 0 * Period + 0 /\ 0 \in 0 .. Period - 1 BY <1>1
<1>3. 0 % Period = 0 BY <1>1, <1>2, QuotientUnique
<1>4. Open(0) BY <1>3, TurnoverAssumption DEF Open
<1>5. 0 \in 0 .. LastMoment BY TurnoverAssumption
<1>6. QED BY <1>4, <1>5 DEF Times

LEMMA TimesAreNat == \A t \in Times : t \in Nat /\ t <= LastMoment /\ Open(t)
BY TurnoverAssumption DEF Times

LEMMA TheMarket ==
  ASSUME market \in Markets, NEW s \in Stocks, NEW t \in Times
  PROVE  /\ market[s][t].volume \in Nat /\ Worth(s, t) \in Nat
         /\ market[s][t].volume = 0 => Worth(s, t) = 0
<1>1. market[s][t] \in Trades BY TurnoverAssumption
<1>2. market[s][t].volume \in Nat /\ market[s][t].price \in Nat BY <1>1 DEF Trades
<1>3. QED BY <1>2 DEF Worth

LEMMA InitTurnover == TurnoverInit => TurnoverInv
<1> SUFFICES ASSUME TurnoverInit PROVE TurnoverInv OBVIOUS
<1>1. IsFiniteSet({}) BY FS_EmptySet
<1>2. Book BY <1>1, ZeroIsTime, TurnoverAssumption DEF TurnoverInit, Book, NoRequest
<1>3. Listing(NoSnapshot) BY <1>1 DEF TurnoverInit, Listing, NoSnapshot
<1>4. Snapshots BY <1>3, TurnoverAssumption DEF TurnoverInit, Snapshots
<1>5. QED BY <1>2, <1>4 DEF TurnoverInv

\* What a quote does to the book: what is new in it is fresh.
LEMMA UpdatedKeeps ==
  ASSUME Book, NEW s \in Stocks, NEW at \in Times, at <= now, NEW data \in Said(s, at)
  PROVE  /\ IsFiniteSet(Updated(data, at))
         /\ \A r \in Updated(data, at) :
              RowOf(r, now, day) /\ (r \in quotes \/ now - r.ts <= QuoteAge)
<1> DEFINE row == [stock |-> data.stock, ts |-> at,
                   volume |-> market[data.stock][data.traded].volume,
                   turnover |-> Worth(data.stock, data.traded)]
           previous == {r \in quotes : r.stock = data.stock}
<1>1. CASE day # Day(now)
  BY <1>1, FS_EmptySet DEF Updated
<1>2. CASE Updated(data, at) = quotes BY <1>2 DEF Book
<1>3. CASE /\ day = Day(now) /\ Open(now) /\ now - at <= QuoteAge
           /\ TradedToday(data, now)
           /\ Updated(data, at) = (quotes \ previous) \cup {row}
  <2>1. PICK d \in Times :
          /\ data = [stock |-> s, traded |-> d]
          /\ \/ d \in at .. now
             \/ Day(d) = Day(at) - 1 /\ ~Open(d + 1) /\ market[s][at].volume = 0
    BY DEF Said
  <2>2. /\ now \in Nat /\ at \in Nat /\ d \in Nat /\ now \in Times
        /\ Open(at) /\ QuoteAge \in Nat /\ SnapshotAge \in Nat /\ Night \in Nat
        /\ Night > QuoteAge + SnapshotAge
    BY TimesAreNat, TurnoverAssumption DEF Book
  <2>3. Day(at) = day BY <1>3, <2>2, OneDay
  <2>4. market \in Markets BY DEF Book
  <2>5. \E t \in Times : at <= t /\ t <= now /\ Worth(s, d) = Worth(s, t)
    <3>1. CASE d \in at .. now BY <2>2, <3>1
    <3>2. CASE Day(d) = Day(at) - 1 /\ market[s][at].volume = 0
      <4>1. Day(at) \in Nat BY <2>2, Within
      <4>2. Day(d) # Day(now) BY <1>3, <2>3, <3>2, <4>1
      <4>3. ~(market[s][d].volume > 0) BY <1>3, <2>1, <4>2 DEF TradedToday
      <4>4. market[s][d].volume \in Nat BY <2>4, TheMarket
      <4>5. market[s][d].volume = 0 BY <4>3, <4>4
      <4>6. Worth(s, d) = 0 /\ Worth(s, at) = 0 BY <2>4, <3>2, <4>5, TheMarket
      <4>7. QED BY <2>2, <4>6
    <3>3. QED BY <2>1, <3>1, <3>2
  <2>6. RowOf(row, now, day)
    <3>1. row = [stock |-> s, ts |-> at, volume |-> market[s][d].volume,
                 turnover |-> Worth(s, d)]
      BY <2>1
    <3>2. market[s][d].volume \in Nat /\ Worth(s, d) \in Nat BY <2>4, TheMarket
    <3>3. QED BY <2>3, <2>5, <3>1, <3>2 DEF RowOf
  <2>7. IsFiniteSet(quotes \ previous)
    <3>1. quotes \ previous \in SUBSET quotes OBVIOUS
    <3>2. IsFiniteSet(quotes) BY DEF Book
    <3> HIDE DEF previous
    <3>3. QED BY <3>1, <3>2, FS_Subset
  <2>8. IsFiniteSet((quotes \ previous) \cup {row})
    <3> HIDE DEF previous, row
    <3>1. QED BY <2>7, FS_AddElement
  <2>9. row.ts = at OBVIOUS
  <2>10. \A r \in quotes : RowOf(r, now, day) BY DEF Book
  <2> HIDE DEF row, previous
  <2>11. QED BY <1>3, <2>6, <2>8, <2>9, <2>10
<1>4. QED BY <1>1, <1>2, <1>3 DEF Updated

LEMMA RowLater ==
  ASSUME NEW r, NEW d, NEW a \in Nat, NEW b \in Nat, a <= b, RowOf(r, a, d)
  PROVE  RowOf(r, b, d)
<1>1. r.ts \in Nat BY TimesAreNat DEF RowOf
<1>2. \A t \in Times : t <= a => t <= b BY TimesAreNat
<1>3. QED BY <1>1, <1>2 DEF RowOf

\* Steps that leave the clock and the snapshots alone, and put nothing old into the book.
Collects ==
  /\ UNCHANGED <<now, market, lease, snapshot, outgoing>>
  /\ \A r \in quotes' : r \in quotes \/ now - r.ts <= QuoteAge

LEMMA CollectsKeeps ==
  ASSUME TurnoverInv, Book', Collects
  PROVE  TurnoverInv'
<1>1. ASSUME NEW x, Listing(x) PROVE Listing(x)'
  <2>1. /\ x.ts \in Nat /\ x.ts <= now /\ IsFiniteSet(x.rows)
        /\ \A r \in x.rows : RowOf(r, x.ts, x.day)
    BY <1>1 DEF Listing
  <2>2. \A r : RowOf(r, x.ts, x.day) <=> RowOf(r, x.ts, x.day)'
    BY DEF Collects, RowOf, Worth
  <2>3. ASSUME NEW r \in quotes', x.ts - r.ts > QuoteAge PROVE r \in x.rows
    <3>1. r.ts \in Nat BY TimesAreNat DEF Book, RowOf
    <3>2. now \in Nat /\ QuoteAge \in Nat
      BY TimesAreNat, TurnoverAssumption DEF TurnoverInv, Book
    <3>3. r \in quotes BY <2>1, <2>3, <3>1, <3>2 DEF Collects
    <3>4. QED BY <1>1, <2>3, <3>3 DEF Listing
  <2>4. now' = now BY DEF Collects
  <2>5. QED BY <2>1, <2>2, <2>3, <2>4 DEF Listing
<1>2. UNCHANGED <<lease, snapshot, outgoing>> BY DEF Collects
<1>3. Listing(snapshot)' BY <1>1, <1>2 DEF TurnoverInv, Snapshots
<1>4. \A w \in Workers : Listing(outgoing[w])' BY <1>1, <1>2 DEF TurnoverInv, Snapshots
<1>5. Snapshots' BY <1>2, <1>3, <1>4 DEF TurnoverInv, Snapshots
<1>6. QED BY <1>5 DEF TurnoverInv

LEMMA SessionKeeps ==
  ASSUME TurnoverInv, OnState \/ OnTick \/ AskQuotes \/ Reply
  PROVE  TurnoverInv'
<1>1. Book BY DEF TurnoverInv
<1>2. now \in Nat /\ QuoteAge \in Nat /\ now \in Times
  BY TimesAreNat, TurnoverAssumption DEF TurnoverInv, Book
<1>3. CASE OnState
  <2>1. /\ UNCHANGED <<now, market, lease, snapshot, outgoing, session, day>>
        /\ quotes' = {} /\ session
        /\ request'.sent = request.sent /\ request'.at = 0
    BY <1>3 DEF OnState, shared, NoRequest
  <2>2. 0 <= now BY <1>2
  <2>3. IsFiniteSet(quotes') BY <2>1, FS_EmptySet
  <2>4. Book' BY <1>1, <2>1, <2>2, <2>3, ZeroIsTime DEF Book
  <2>5. Collects BY <2>1 DEF Collects
  <2>6. QED BY <2>4, <2>5, CollectsKeeps
<1>4. ASSUME NEW s \in Stocks, NEW at \in Times, at <= now, NEW data \in Said(s, at),
             session, quotes' = Updated(data, at),
             UNCHANGED <<now, market, lease, snapshot, outgoing, session, day>>,
             request' = request \/ request' = NoRequest
      PROVE  TurnoverInv'
  <2>1. /\ IsFiniteSet(quotes')
        /\ \A r \in quotes' :
             RowOf(r, now, day) /\ (r \in quotes \/ now - r.ts <= QuoteAge)
    BY <1>1, <1>4, UpdatedKeeps
  <2>2. \A r : RowOf(r, now, day)' <=> RowOf(r, now, day) BY <1>4 DEF RowOf, Worth
  <2>3. /\ request'.sent \in BOOLEAN
        /\ request'.sent => request'.at \in Times /\ request'.at <= now
    <3>1. CASE request' = request BY <1>1, <3>1 DEF Book
    <3>2. CASE request' = NoRequest BY <3>2 DEF NoRequest
    <3>3. QED BY <1>4, <3>1, <3>2
  <2>4. Book' BY <1>1, <1>4, <2>1, <2>2, <2>3 DEF Book
  <2>5. Collects BY <1>4, <2>1 DEF Collects
  <2>6. QED BY <2>4, <2>5, CollectsKeeps
<1>5. CASE OnTick
  <2>1a. PICK s \in Stocks : \E data \in Said(s, now) : quotes' = Updated(data, now)
    BY <1>5 DEF OnTick
  <2>1. PICK data \in Said(s, now) : quotes' = Updated(data, now) BY <2>1a
  <2>2. /\ UNCHANGED <<now, market, lease, snapshot, outgoing, session, day, request>>
        /\ session
    BY <1>5 DEF OnTick, shared
  <2>3. now <= now BY <1>2
  <2>4. QED BY <1>2, <1>4, <2>1, <2>2, <2>3
<1>6. ASSUME UNCHANGED <<shared, session, day, quotes>>,
             request'.sent \in BOOLEAN, request'.sent => request'.at = now,
             request'.sent => session
      PROVE  TurnoverInv'
  <2>1. UNCHANGED <<now, market, lease, snapshot, outgoing, session, day, quotes>>
    BY <1>6 DEF shared
  <2>2. \A r : RowOf(r, now, day)' <=> RowOf(r, now, day) BY <2>1 DEF RowOf, Worth
  <2>3. request'.sent => request'.at <= now BY <1>2, <1>6
  <2>4. Book' BY <1>1, <1>2, <1>6, <2>1, <2>2, <2>3 DEF Book
  <2>5. Collects BY <2>1 DEF Collects
  <2>6. QED BY <2>4, <2>5, CollectsKeeps
<1>7. CASE AskQuotes BY <1>6, <1>7 DEF AskQuotes
<1>8. CASE Reply
  <2>1. CASE UNCHANGED quotes BY <1>6, <1>8, <2>1 DEF Reply, NoRequest
  <2>2. CASE quotes' # quotes
    <3>1a. PICK s \in Stocks :
             \E data \in Said(s, request.at) : quotes' = Updated(data, request.at)
      BY <1>8, <2>2 DEF Reply
    <3>1. PICK data \in Said(s, request.at) : quotes' = Updated(data, request.at) BY <3>1a
    <3>2. /\ UNCHANGED <<now, market, lease, snapshot, outgoing, session, day>>
          /\ request.sent /\ request' = NoRequest
      BY <1>8 DEF Reply, shared
    <3>3. request.at \in Times /\ request.at <= now /\ session
      BY <1>1, <3>2 DEF Book
    <3>4. QED BY <1>4, <3>1, <3>2, <3>3
  <2>3. QED BY <2>1, <2>2
<1>9. QED BY <1>3, <1>5, <1>7, <1>8

\* Steps of the workers: the book goes on or is empty, and what is listed was listed
\* before or is of this moment.
Made(x) ==
  \/ Listing(x)
  \/ x.ts = now /\ x.rows = quotes /\ x.day = day
  \/ x.ts = now /\ x.rows = {} /\ quotes' = {}

LEMMA MadeKeep ==
  ASSUME TurnoverInv, Book', UNCHANGED <<now, market>>, quotes' \in {quotes, {}},
         NEW x, Made(x)
  PROVE  Listing(x)'
<1>1. now \in Nat /\ QuoteAge \in Nat
  BY TimesAreNat, TurnoverAssumption DEF TurnoverInv, Book
<1>2. \A r, a, d : RowOf(r, a, d) <=> RowOf(r, a, d)'
  BY DEF RowOf, Worth
<1>3. CASE Listing(x) BY <1>2, <1>3 DEF Listing
<1>4. CASE x.ts = now /\ x.rows = quotes /\ x.day = day
  <2>1. IsFiniteSet(quotes) /\ \A r \in quotes : RowOf(r, now, day)
    BY DEF TurnoverInv, Book
  <2>2. now <= now BY <1>1
  <2>3. QED BY <1>1, <1>2, <1>4, <2>1, <2>2 DEF Listing
<1>5. CASE x.ts = now /\ x.rows = {} /\ quotes' = {}
  <2>1. \A r \in quotes' : now - r.ts > QuoteAge => r \in x.rows BY <1>5
  <2>2. now <= now /\ IsFiniteSet({}) BY <1>1, FS_EmptySet
  <2>3. QED BY <1>1, <1>5, <2>1, <2>2 DEF Listing
<1>6. QED BY <1>3, <1>4, <1>5 DEF Made

LEMMA WorkersKeep ==
  ASSUME TurnoverInv,
         \/ StartSession \/ StopSession \/ Send \/ Lapse
         \/ \E w \in Workers : Acquire(w) \/ PublishSnapshot(w)
  PROVE  TurnoverInv' /\ snapshot'.ts >= snapshot.ts
<1>1. Book /\ Snapshots BY DEF TurnoverInv
<1>2. now \in Nat /\ QuoteAge \in Nat /\ now \in Times /\ None \notin Workers
  BY <1>1, TimesAreNat, TurnoverAssumption DEF Book
<1>4. /\ Listing(snapshot) /\ snapshot.ts \in Nat /\ snapshot.ts <= now
      /\ outgoing = [w \in Workers |-> outgoing[w]]
      /\ \A w \in Workers : /\ Listing(outgoing[w]) /\ outgoing[w].ts \in Nat
                            /\ outgoing[w].ts <= now
  BY <1>1 DEF Snapshots, Listing
<1>5. Listing(NoSnapshot)
  <2>1. \A r \in quotes : r.ts \in Nat BY <1>1, TimesAreNat DEF Book, RowOf
  <2>2. NoSnapshot.ts = 0 /\ NoSnapshot.rows = {} BY DEF NoSnapshot
  <2>3. \A r \in quotes : ~(0 - r.ts > QuoteAge) BY <1>2, <2>1
  <2>4. IsFiniteSet({}) BY FS_EmptySet
  <2>5. QED BY <1>2, <2>2, <2>3, <2>4 DEF Listing
\* The book is as it was, or there is none.
<1>6. ASSUME UNCHANGED <<now, market>>, lease' \in Workers \cup {None},
             \/ UNCHANGED <<session, day, quotes, request>> /\ (session => lease' \in Workers)
             \/ NoBook
             \/ /\ ~session /\ lease' = lease /\ lease \in Workers
                /\ session' = TRUE /\ UNCHANGED <<quotes, request>>
      PROVE  Book' /\ quotes' \in {quotes, {}}
  <2>1. CASE UNCHANGED <<session, day, quotes, request>> /\ (session => lease' \in Workers)
    <3>1. \A r : RowOf(r, now, day)' <=> RowOf(r, now, day) BY <1>6, <2>1 DEF RowOf, Worth
    <3>2. QED BY <1>1, <1>6, <2>1, <3>1 DEF Book
  <2>2. CASE NoBook
    <3>1. /\ session' = FALSE /\ quotes' = {} /\ request'.sent = FALSE
      BY <2>2 DEF NoBook, NoRequest
    <3>2. IsFiniteSet(quotes') BY <3>1, FS_EmptySet
    <3>3. QED BY <1>1, <1>6, <3>1, <3>2 DEF Book
  <2>3. CASE /\ ~session /\ lease' = lease /\ lease \in Workers
             /\ session' = TRUE /\ UNCHANGED <<quotes, request>>
    <3>1. quotes = {} /\ quotes' = {} /\ ~request.sent /\ request.sent \in BOOLEAN
      BY <1>1, <2>3 DEF Book
    <3>2. IsFiniteSet(quotes') BY <3>1, FS_EmptySet
    <3>3. QED BY <1>1, <1>6, <2>3, <3>1, <3>2 DEF Book
  <2>4. QED BY <1>6, <2>1, <2>2, <2>3
\* Of the snapshots, each one lists.
<1>7. ASSUME Book', UNCHANGED <<now, market>>, quotes' \in {quotes, {}},
             Made(snapshot'),
             outgoing' = [w \in Workers |-> outgoing'[w]],
             \A w \in Workers : Made(outgoing'[w]),
             lease' \in Workers => \/ outgoing'[lease'] = NoSnapshot
                                   \/ outgoing'[lease'].ts >= snapshot'.ts
      PROVE  TurnoverInv'
  <2>1. ASSUME NEW x, Made(x) PROVE Listing(x)' BY <1>7, <2>1, MadeKeep
  <2>2. PICK x : x = snapshot' OBVIOUS
  <2>3. Listing(x)' BY <1>7, <2>1, <2>2
  <2>4. Listing(snapshot)' BY <2>2, <2>3 DEF Listing
  <2>5. ASSUME NEW w \in Workers PROVE Listing(outgoing[w])'
    <3>1. PICK y : y = outgoing'[w] OBVIOUS
    <3>2. Listing(y)' BY <1>7, <2>1, <3>1
    <3>3. QED BY <3>1, <3>2 DEF Listing
  <2>6. QED BY <1>7, <2>4, <2>5 DEF TurnoverInv, Snapshots
<1>8. CASE StartSession
  <2>1. /\ UNCHANGED <<now, market, lease, snapshot, outgoing>> /\ ~session
        /\ session' = TRUE /\ UNCHANGED <<quotes, request>> /\ lease # None
    BY <1>8 DEF StartSession, shared
  <2>2. lease \in Workers BY <1>1, <2>1 DEF Book
  <2>3. Book' /\ quotes' \in {quotes, {}} BY <1>6, <2>1, <2>2
  <2>4. Made(snapshot') /\ \A w \in Workers : Made(outgoing'[w])
    BY <1>4, <2>1 DEF Made
  <2>5. lease' \in Workers => \/ outgoing'[lease'] = NoSnapshot
                              \/ outgoing'[lease'].ts >= snapshot'.ts
    BY <1>1, <2>1 DEF Snapshots
  <2>6. TurnoverInv' BY <1>4, <1>7, <2>1, <2>3, <2>4, <2>5
  <2>7. QED BY <1>4, <2>1, <2>6
<1>9. CASE StopSession
  <2>1. /\ NoBook /\ snapshot' = Unready /\ lease' \in {lease, None} /\ session
        /\ outgoing[lease] = NoSnapshot /\ UNCHANGED <<now, market, outgoing>>
    BY <1>9 DEF StopSession
  <2>2. lease' \in Workers \cup {None} BY <1>1, <2>1 DEF Book
  <2>3. Book' /\ quotes' = {} BY <1>6, <2>1, <2>2 DEF NoBook
  <2>4. snapshot'.ts = now /\ snapshot'.rows = {}
    BY <2>1 DEF Unready, NoSnapshot
  <2>5. Made(snapshot') /\ \A w \in Workers : Made(outgoing'[w])
    BY <1>4, <2>1, <2>3, <2>4 DEF Made
  <2>6. lease' \in Workers => outgoing'[lease'] = NoSnapshot
    BY <1>2, <2>1
  <2>7. TurnoverInv' BY <1>4, <1>7, <2>1, <2>3, <2>5, <2>6
  <2>8. QED BY <1>4, <2>4, <2>7
<1>10. CASE Send
  <2>1. /\ outgoing' = [outgoing EXCEPT ![lease] = Snapshot] /\ session
        /\ UNCHANGED <<now, market, lease, snapshot, session, day, quotes, request>>
    BY <1>10 DEF Send, book
  <2>2. lease \in Workers BY <1>1, <2>1 DEF Book
  <2>3. Book' /\ quotes' \in {quotes, {}} BY <1>6, <2>1, <2>2
  <2>4. Snapshot.ts = now /\ Snapshot.rows = quotes /\ Snapshot.day = day
    BY DEF Snapshot, Ranked
  <2>5. /\ outgoing' = [w \in Workers |-> outgoing'[w]]
        /\ outgoing'[lease] = Snapshot
        /\ \A w \in Workers \ {lease} : outgoing'[w] = outgoing[w]
    BY <1>4, <2>1, <2>2
  <2>6. Made(snapshot') BY <1>4, <2>1 DEF Made
  <2>7. \A w \in Workers : Made(outgoing'[w])
    BY <1>4, <2>4, <2>5 DEF Made
  <2>8. outgoing'[lease'].ts >= snapshot'.ts
    BY <1>2, <1>4, <2>1, <2>4, <2>5
  <2>9. TurnoverInv' BY <1>7, <2>1, <2>3, <2>5, <2>6, <2>7, <2>8
  <2>10. QED BY <1>4, <2>1, <2>9
<1>11. CASE Lapse
  <2>1. /\ UNCHANGED <<now, market, snapshot, outgoing>> /\ lease' = None /\ NoBook
    BY <1>11 DEF Lapse
  <2>2. Book' /\ quotes' \in {quotes, {}} BY <1>6, <2>1 DEF NoBook
  <2>3. Made(snapshot') /\ \A w \in Workers : Made(outgoing'[w])
    BY <1>4, <2>1 DEF Made
  <2>4. lease' \notin Workers BY <1>2, <2>1
  <2>5. TurnoverInv' BY <1>4, <1>7, <2>1, <2>2, <2>3, <2>4
  <2>6. QED BY <1>4, <2>1, <2>5
<1>12. ASSUME NEW w \in Workers, Acquire(w)
       PROVE  TurnoverInv' /\ snapshot'.ts >= snapshot.ts
  <2>1. /\ UNCHANGED <<now, market, snapshot, outgoing, session, day, quotes, request>>
        /\ lease = None /\ lease' = w /\ outgoing[w] = NoSnapshot
    BY <1>12 DEF Acquire, book
  <2>2. Book' /\ quotes' \in {quotes, {}} BY <1>6, <2>1
  <2>3. Made(snapshot') /\ \A v \in Workers : Made(outgoing'[v])
    BY <1>4, <2>1 DEF Made
  <2>4. outgoing'[lease'] = NoSnapshot BY <2>1
  <2>5. TurnoverInv' BY <1>4, <1>7, <2>1, <2>2, <2>3, <2>4
  <2>6. QED BY <1>4, <2>1, <2>5
<1>13. ASSUME NEW w \in Workers, PublishSnapshot(w)
       PROVE  TurnoverInv' /\ snapshot'.ts >= snapshot.ts
  <2>1. /\ UNCHANGED <<now, market, lease, session, day, quotes, request>>
        /\ outgoing[w] # NoSnapshot
        /\ snapshot' = IF lease = w THEN outgoing[w] ELSE snapshot
        /\ outgoing' = [outgoing EXCEPT ![w] = NoSnapshot]
    BY <1>13 DEF PublishSnapshot, Written, book
  <2>2. Book' /\ quotes' \in {quotes, {}}
    <3>1. lease' \in Workers \cup {None} /\ (session => lease' \in Workers)
      BY <1>1, <2>1 DEF Book
    <3>2. QED BY <1>6, <2>1, <3>1
  <2>3. /\ outgoing' = [v \in Workers |-> outgoing'[v]]
        /\ outgoing'[w] = NoSnapshot
        /\ \A v \in Workers \ {w} : outgoing'[v] = outgoing[v]
    BY <1>4, <2>1
  <2>4. Made(snapshot') BY <1>4, <2>1 DEF Made
  <2>5. \A v \in Workers : Made(outgoing'[v]) BY <1>4, <1>5, <2>3 DEF Made
  <2>6. CASE lease = w
    <3>1. outgoing[w].ts >= snapshot.ts BY <1>1, <2>1, <2>6 DEF Snapshots
    <3>2. TurnoverInv' BY <1>7, <2>1, <2>2, <2>3, <2>4, <2>5, <2>6
    <3>3. QED BY <2>1, <2>6, <3>1, <3>2
  <2>7. CASE lease # w
    <3>1. lease' \in Workers => \/ outgoing'[lease'] = NoSnapshot
                                \/ outgoing'[lease'].ts >= snapshot'.ts
      BY <1>1, <2>1, <2>3, <2>7 DEF Snapshots
    <3>2. TurnoverInv' BY <1>7, <2>1, <2>2, <2>3, <2>4, <2>5, <3>1
    <3>3. QED BY <1>4, <2>1, <2>7, <3>2
  <2>8. QED BY <2>6, <2>7
<1>14. QED BY <1>8, <1>9, <1>10, <1>11, <1>12, <1>13

LEMMA TickKeeps ==
  ASSUME TurnoverInv, Tick
  PROVE  TurnoverInv' /\ UNCHANGED snapshot
<1>1. /\ UNCHANGED <<market, lease, snapshot, outgoing, session, day, quotes, request>>
      /\ now' = Later(now) /\ now' <= LastMoment
  BY DEF Tick, book
<1>2. Book /\ Snapshots BY DEF TurnoverInv
<1>3. now \in Nat /\ now \in Times BY <1>2, TimesAreNat DEF Book
<1>4. now' \in Nat /\ now' > now /\ Open(now') BY <1>1, <1>3, LaterIsLater
<1>5. now' \in 0 .. LastMoment BY <1>1, <1>4, TurnoverAssumption
<1>6. now' \in Times BY <1>4, <1>5 DEF Times
<1>7. \A r, a, d : RowOf(r, a, d) <=> RowOf(r, a, d)' BY <1>1 DEF RowOf, Worth
<1>8. Book'
  <2>1. ASSUME NEW r \in quotes PROVE RowOf(r, now', day)
    <3>1. RowOf(r, now, day) BY <1>2 DEF Book
    <3>2. PICK later \in Nat : later = now' /\ now <= later BY <1>3, <1>4
    <3>3. RowOf(r, later, day) BY <1>3, <3>1, <3>2, RowLater
    <3>4. QED BY <3>2, <3>3
  <2>2. \A r \in quotes' : RowOf(r, now, day)' BY <1>1, <2>1 DEF RowOf, Worth
  <2>3. request'.sent => request'.at \in Times /\ request'.at <= now'
    <3>1. request.sent => request.at \in Times /\ request.at <= now BY <1>2 DEF Book
    <3>2. request.sent => request.at \in Nat BY <3>1, TimesAreNat
    <3>3. QED BY <1>1, <1>3, <1>4, <3>1, <3>2
  <2>4. QED BY <1>1, <1>2, <1>6, <2>2, <2>3 DEF Book
<1>9. ASSUME NEW x, Listing(x) PROVE Listing(x)'
  <2>1. x.ts \in Nat /\ x.ts <= now BY <1>9 DEF Listing
  <2>2. x.ts <= now' BY <1>3, <1>4, <2>1
  <2>3. QED BY <1>1, <1>7, <1>9, <2>1, <2>2 DEF Listing
<1>10. Listing(snapshot)' BY <1>1, <1>2, <1>9 DEF Snapshots
<1>11. \A w \in Workers : Listing(outgoing[w])' BY <1>1, <1>2, <1>9 DEF Snapshots
<1>12. Snapshots' BY <1>1, <1>2, <1>10, <1>11 DEF Snapshots
<1>13. QED BY <1>1, <1>8, <1>12 DEF TurnoverInv

LEMMA TurnoverStep ==
  ASSUME TurnoverInv, [TurnoverNext]_turnoverVars
  PROVE  TurnoverInv' /\ snapshot'.ts >= snapshot.ts
<1>1. snapshot.ts \in Nat BY DEF TurnoverInv, Snapshots, Listing
<1>2. CASE OnState \/ OnTick \/ AskQuotes \/ Reply
  <2>1. UNCHANGED snapshot BY <1>2 DEF OnState, OnTick, AskQuotes, Reply, shared
  <2>2. TurnoverInv' BY <1>2, SessionKeeps
  <2>3. QED BY <1>1, <2>1, <2>2
<1>3. CASE \/ StartSession \/ StopSession \/ Send \/ Lapse
           \/ \E w \in Workers : Acquire(w) \/ PublishSnapshot(w)
  BY <1>3, WorkersKeep
<1>4. CASE Tick
  <2>1. TurnoverInv' /\ UNCHANGED snapshot BY <1>4, TickKeeps
  <2>2. QED BY <1>1, <2>1
<1>5. CASE UNCHANGED turnoverVars
  <2>1. UNCHANGED <<now, market, lease, session, day, quotes, request, snapshot, outgoing>>
    BY <1>5 DEF turnoverVars
  <2>2. Book' BY <2>1 DEF TurnoverInv, Book, RowOf, Worth
  <2>3. Snapshots' BY <2>1 DEF TurnoverInv, Snapshots, Listing, RowOf, Worth
  <2>4. QED BY <1>1, <2>1, <2>2, <2>3 DEF TurnoverInv
<1>6. QED BY <1>2, <1>3, <1>4, <1>5 DEF TurnoverNext

\* Whatever has been received, lost or asked for, and whoever has the lease, the rows of
\* the book and of the snapshots are quotes of their own day, and a snapshot has every row
\* that was in the book when it was made and is there still.
THEOREM TurnoverInvariance == TurnoverSpec => []TurnoverInv
<1>1. TurnoverInv /\ [TurnoverNext]_turnoverVars => TurnoverInv' BY TurnoverStep
<1>2. QED BY InitTurnover, <1>1, PTL DEF TurnoverSpec

\* The lease and the write are one step, and a worker sends one snapshot at a time: none
\* that was held up replaces a snapshot by an older one.
THEOREM NoOlderSnapshot == TurnoverSpec => SnapshotsInOrder
<1>1. TurnoverInv /\ [TurnoverNext]_turnoverVars => [snapshot'.ts >= snapshot.ts]_turnoverVars
  BY TurnoverStep
<1>2. QED BY TurnoverInvariance, <1>1, PTL DEF TurnoverSpec, SnapshotsInOrder

\* Who is ahead of a row is ahead of those behind it.
LEMMA RankOrder ==
  ASSUME NEW rows, IsFiniteSet(rows),
         \A r \in rows : r.turnover \in Nat /\ r.stock \in Nat,
         NEW a \in rows, NEW b \in rows, Ahead(a, b)
  PROVE  Rank(rows, a) <= Rank(rows, b)
<1> DEFINE A == {r \in rows : Ahead(r, a)}
           B == {r \in rows : Ahead(r, b)}
<1>1. A \subseteq B BY DEF Ahead
<1>2. B \subseteq rows OBVIOUS
<1>3. Rank(rows, a) = 1 + Cardinality(A) /\ Rank(rows, b) = 1 + Cardinality(B)
  BY DEF Rank
<1> HIDE DEF A, B
<1>4. IsFiniteSet(B) BY <1>2, FS_Subset
<1>5. IsFiniteSet(A) /\ Cardinality(A) <= Cardinality(B) BY <1>1, <1>4, FS_Subset
<1>6. Cardinality(A) \in Nat /\ Cardinality(B) \in Nat BY <1>4, <1>5, FS_CardinalityType
<1>7. QED BY <1>3, <1>5, <1>6

\* A fresh row was asked for since Before, and the stock had its turnover since then.
LEMMA SinceBefore ==
  ASSUME now \in Nat, NEW at \in Nat, at <= now,
         NEW r, RowOf(r, at, Day(now)), Fresh(r)
  PROVE  \E t \in Recent : r.turnover = Worth(r.stock, t)
<1>1. PICK t \in Times : r.ts <= t /\ t <= at /\ r.turnover = Worth(r.stock, t)
  BY DEF RowOf
<1>2. /\ QuoteAge \in Nat /\ r.ts \in Nat /\ t \in Nat /\ Day(r.ts) = Day(now)
      /\ now - r.ts <= QuoteAge
  BY TimesAreNat, TurnoverAssumption DEF RowOf, Fresh
<1>3. Morning(now) \in Nat /\ Morning(now) <= now BY Within
<1>4. Morning(r.ts) <= r.ts /\ Morning(r.ts) = Morning(now) BY <1>2, Within DEF Morning
<1>5. Before <= r.ts /\ Before \in Int BY <1>2, <1>3, <1>4 DEF Before
<1>6. Before <= t /\ t <= now BY <1>1, <1>2, <1>5
<1>7. QED BY <1>1, <1>6 DEF Recent

\* What a pass stands on.
LEMMA Passing ==
  ASSUME TurnoverInv, NEW s \in Stocks, Allowed(s)
  PROVE  /\ now \in Nat /\ market \in Markets /\ QuoteAge \in Nat /\ TopN \in Nat
         /\ IsFiniteSet(snapshot.rows) /\ snapshot.ts \in Nat /\ snapshot.ts <= now
         /\ \A r \in snapshot.rows :
              /\ RowOf(r, snapshot.ts, Day(now)) /\ r.stock \in Stocks /\ r.stock \in Nat
              /\ r.ts \in Nat /\ r.turnover \in Nat
              /\ Rank(snapshot.rows, r) \in Nat
              /\ Fresh(r) => \E t \in Recent : r.turnover = Worth(r.stock, t)
         /\ \E r \in snapshot.rows :
              r.stock = s /\ Fresh(r) /\ Rank(snapshot.rows, r) <= TopN
         /\ \A r \in snapshot.rows : Rank(snapshot.rows, r) <= TopN => Fresh(r)
<1>1. Book /\ Listing(snapshot) BY DEF TurnoverInv, Snapshots
<1>2. now \in Nat /\ market \in Markets BY <1>1, TimesAreNat DEF Book
<1>3. /\ snapshot.day = Day(now)
      /\ \E r \in snapshot.rows :
              r.stock = s /\ Fresh(r) /\ Rank(snapshot.rows, r) <= TopN
      /\ \A r \in snapshot.rows : Rank(snapshot.rows, r) <= TopN => Fresh(r)
  BY DEF Allowed
<1>4. IsFiniteSet(snapshot.rows) /\ snapshot.ts \in Nat /\ snapshot.ts <= now
  BY <1>1 DEF Listing
<1>5. ASSUME NEW r \in snapshot.rows
      PROVE  /\ RowOf(r, snapshot.ts, Day(now)) /\ r.stock \in Stocks /\ r.stock \in Nat
             /\ r.ts \in Nat /\ r.turnover \in Nat
             /\ Rank(snapshot.rows, r) \in Nat
             /\ Fresh(r) => \E t \in Recent : r.turnover = Worth(r.stock, t)
  <2>1. RowOf(r, snapshot.ts, Day(now)) BY <1>1, <1>3 DEF Listing
  <2>2. r.stock \in Stocks /\ r.ts \in Times /\ r.turnover \in Nat BY <2>1 DEF RowOf
  <2>3. Fresh(r) => \E t \in Recent : r.turnover = Worth(r.stock, t)
    BY <1>2, <1>4, <2>1, SinceBefore
  <2>4. Rank(snapshot.rows, r) \in Nat
    <3> DEFINE A == {y \in snapshot.rows : Ahead(y, r)}
    <3>1. A \subseteq snapshot.rows OBVIOUS
    <3>2. Rank(snapshot.rows, r) = 1 + Cardinality(A) BY DEF Rank
    <3> HIDE DEF A
    <3>3. IsFiniteSet(A) BY <1>4, <3>1, FS_Subset
    <3>4. QED BY <3>2, <3>3, FS_CardinalityType
  <2>5. QED BY <2>1, <2>2, <2>3, <2>4, TimesAreNat, TurnoverAssumption
<1>6. QED BY <1>2, <1>3, <1>4, <1>5, TurnoverAssumption

LEMMA Silence ==
  ASSUME TurnoverInv
  PROVE  NoneIsPromotedBySilence
<1> SUFFICES ASSUME NEW s \in Stocks, Allowed(s)
             PROVE  \E t \in Recent :
                      \A r \in quotes :
                        snapshot.ts - r.ts > QuoteAge => r.turnover <= Worth(s, t)
  BY DEF NoneIsPromotedBySilence
<1>1. PICK q \in snapshot.rows :
        q.stock = s /\ Fresh(q) /\ Rank(snapshot.rows, q) <= TopN
  BY Passing
<1>2. PICK t \in Recent : q.turnover = Worth(s, t) BY <1>1, Passing
<1>3. ASSUME NEW r \in quotes, snapshot.ts - r.ts > QuoteAge
      PROVE  r.turnover <= q.turnover
  <2>1. r \in snapshot.rows BY <1>3 DEF TurnoverInv, Snapshots, Listing
  <2>2. /\ now \in Nat /\ snapshot.ts \in Nat /\ snapshot.ts <= now /\ QuoteAge \in Nat
        /\ r.ts \in Nat /\ r.turnover \in Nat /\ r.stock \in Nat
        /\ q.turnover \in Nat /\ q.stock \in Nat /\ TopN \in Nat
        /\ Rank(snapshot.rows, r) \in Nat /\ Rank(snapshot.rows, q) \in Nat
        /\ Rank(snapshot.rows, r) <= TopN => Fresh(r)
    BY <2>1, Passing
  <2>3. ~(Rank(snapshot.rows, r) <= TopN) BY <1>3, <2>2 DEF Fresh
  <2>4. /\ IsFiniteSet(snapshot.rows)
        /\ \A x \in snapshot.rows : x.turnover \in Nat /\ x.stock \in Nat
    BY Passing
  <2>5. Ahead(r, q) => Rank(snapshot.rows, r) <= Rank(snapshot.rows, q)
    BY <2>1, <2>4, RankOrder
  <2>6. ~Ahead(r, q) BY <1>1, <2>2, <2>3, <2>5
  <2>7. QED BY <2>2, <2>6 DEF Ahead
<1>4. QED BY <1>2, <1>3

\* A stock does not pass because the quotes of better ones have stopped: their rows stay in
\* the snapshot and keep their rank, and a stale row among the first stops every stock.
THEOREM SilenceHolds == TurnoverSpec => []NoneIsPromotedBySilence
BY TurnoverInvariance, Silence, PTL

LEMMA Near ==
  ASSUME TurnoverInv
  PROVE  AllowedIsNearTop
<1> DEFINE Above(r, s) == \A t, u \in Recent : Worth(r.stock, t) > Worth(s, u)
<1> SUFFICES ASSUME NEW s \in Stocks, Allowed(s)
             PROVE  Cardinality({r \in snapshot.rows : Fresh(r) /\ Above(r, s)}) < TopN
  BY DEF AllowedIsNearTop
<1>1. PICK q \in snapshot.rows :
        q.stock = s /\ Fresh(q) /\ Rank(snapshot.rows, q) <= TopN
  BY Passing
<1>2. PICK u \in Recent : q.turnover = Worth(s, u) BY <1>1, Passing
<1>3. ASSUME NEW r \in snapshot.rows, Fresh(r), Above(r, s)
      PROVE  Ahead(r, q)
  <2>1. PICK t \in Recent : r.turnover = Worth(r.stock, t) BY <1>3, Passing
  <2>2. r.turnover > q.turnover BY <1>2, <1>3, <2>1
  <2>3. QED BY <2>2 DEF Ahead
<1> DEFINE A == {r \in snapshot.rows : Fresh(r) /\ Above(r, s)}
           B == {r \in snapshot.rows : Ahead(r, q)}
<1>4. A \subseteq B BY <1>3
<1>5. B \subseteq snapshot.rows OBVIOUS
<1>6. Rank(snapshot.rows, q) = 1 + Cardinality(B) BY DEF Rank
<1> HIDE DEF A, B
<1>7. IsFiniteSet(B) BY <1>5, FS_Subset, Passing
<1>8. IsFiniteSet(A) /\ Cardinality(A) <= Cardinality(B) BY <1>4, <1>7, FS_Subset
<1>9. Cardinality(A) \in Nat /\ Cardinality(B) \in Nat BY <1>7, <1>8, FS_CardinalityType
<1>10. TopN \in Nat BY TurnoverAssumption
<1>11. Cardinality(A) < TopN BY <1>1, <1>6, <1>8, <1>9, <1>10
<1>12. QED BY <1>11 DEF A

\* A stock that passes belongs to the TopN by today's trades, up to the age of the quotes:
\* a volume is that of its day, and rows of another day do not count.
THEOREM NearTopHolds == TurnoverSpec => []AllowedIsNearTop
BY TurnoverInvariance, Near, PTL
=============================================================================

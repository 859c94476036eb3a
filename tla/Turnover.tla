------------------------------ MODULE Turnover ------------------------------
(***************************************************************************)
(* The ranking of stocks by turnover (turnover.py, turnover_service.py): one *)
(* worker at a time keeps a book of quotes, from the websocket and from REST *)
(* requests, and publishes snapshots; the engine lets a stock pass whose     *)
(* rank in the newest snapshot is high enough.                               *)
(***************************************************************************)
EXTENDS Integers, FiniteSets

CONSTANTS
  Stocks,      \* the universe: numbers, in the order of the symbols
  TopN,        \* turnover_top_n
  Needed,      \* how many must have a fresh quote: all, or min_coverage_pct of them
  QuoteAge,    \* QUOTE_MAX_AGE
  SnapshotAge, \* SNAPSHOT_MAX_AGE
  DayLength,   \* moments in which the market is open, in a day
  LastMoment,  \* bound: of the time
  Night,       \* moments in which it is closed
  Markets,     \* the day's volume and the price of each stock at each moment, that there may be
  Workers,     \* instances of the service
  MaxLapses,   \* bound: leases that lapse
  None

Period == DayLength + Night
Day(t) == t \div Period
Morning(t) == Day(t) * Period
Open(t) == t % Period < DayLength
Times == {t \in 0 .. LastMoment : Open(t)}

Trades == [volume : Nat, price : Nat \ {0}]

ASSUME TurnoverAssumption ==
  /\ Stocks \subseteq Nat /\ IsFiniteSet(Stocks) /\ None \notin Workers
  /\ TopN \in Nat \ {0} /\ Needed \in 1 .. Cardinality(Stocks)
  /\ QuoteAge \in Nat /\ SnapshotAge \in Nat /\ MaxLapses \in Nat
  /\ DayLength \in Nat \ {0} /\ LastMoment \in Nat
  /\ Night \in Nat /\ Night > QuoteAge + SnapshotAge
  /\ Markets \subseteq [Stocks -> [Times -> Trades]]

\* A worker that has lost the lease publishes nothing more of its book, so there is one
\* book, that of the worker with the lease.
VARIABLES
  now,       \* the time
  market,    \* what the stocks' volume and price are, were and will be
  lease,     \* turnover:worker:lease
  lapses,
  snapshot,  \* turnover:snapshot:<user>
  outgoing,  \* what each worker has on its way to Redis
  session,   \* is there a TurnoverSession
  day,       \* of the book
  connected, \* of the feed
  since,     \* when that came about
  quotes,    \* the book
  request    \* the REST request that is under way, and is its generation still the same

turnoverVars == <<now, market, lease, lapses, snapshot, outgoing, session, day,
                  connected, since, quotes, request>>

NoRequest == [sent |-> FALSE, at |-> 0, current |-> FALSE]
NoSnapshot == [ready |-> FALSE, ts |-> 0, day |-> -1, rows |-> {}]

TurnoverInit ==
  /\ now = 0 /\ market \in Markets /\ lease = None /\ lapses = 0
  /\ snapshot = NoSnapshot /\ outgoing = [w \in Workers |-> NoSnapshot]
  /\ session = FALSE /\ day = 0 /\ connected = FALSE /\ since = 0
  /\ quotes = {} /\ request = NoRequest
-----------------------------------------------------------------------------
(* The book: quotes as [stock, volume, turnover, ts].                      *)

\* The turnover, at a moment: all of the day's volume at the price of then.
Worth(s, t) == market[s][t].price * market[s][t].volume

Fresh(row) == now - row.ts <= QuoteAge

Ahead(row, other) ==
  \/ row.turnover > other.turnover
  \/ row.turnover = other.turnover /\ row.stock < other.stock

Rank(rows, row) == 1 + Cardinality({r \in rows : Ahead(r, row)})

\* Mutant: the last trade may have been yesterday.
AnyDay(data, at) == TRUE

\* A volume that is not zero has to be of today.
TradedToday(data, at) == market[data.stock][data.traded].volume > 0 => Day(data.traded) = Day(at)

\* update(): what becomes of the rows of the book when a quote comes in.
Updated(data, at) ==
  LET row      == [stock |-> data.stock, ts |-> at,
                   volume |-> market[data.stock][data.traded].volume,
                   turnover |-> Worth(data.stock, data.traded)]
      previous == {r \in quotes : r.stock = data.stock}
  IN IF day # Day(now) THEN {}
     ELSE IF /\ Open(now) /\ now - at <= QuoteAge /\ TradedToday(data, now)
             /\ \A r \in previous : at >= r.ts /\ row.volume >= r.volume
     THEN (quotes \ previous) \cup {row}
     ELSE quotes

\* What the broker says of a stock that was asked for at a time: its trades since, or those
\* of the day before if it was not traded until then.
Said(s, at) ==
  {[stock |-> s, traded |-> t] :
     t \in {d \in Times :
              \/ d \in at .. now
              \/ Day(d) = Day(at) - 1 /\ ~Open(d + 1) /\ market[s][at].volume = 0}}
-----------------------------------------------------------------------------
(* The session of the worker with the lease.                               *)

shared == <<now, market, lease, lapses, snapshot, outgoing>>

\* The feed reports a connection or its loss: nothing from before is kept.
OnState ==
  /\ session /\ connected' = ~connected /\ since' = IF connected THEN 0 ELSE now
  /\ quotes' = {} /\ request' = [NoRequest EXCEPT !.sent = request.sent]
  /\ UNCHANGED <<shared, session, day>>

\* A packet of the websocket.
OnTick ==
  /\ session /\ connected /\ Open(now)
  /\ \E s \in Stocks : \E data \in Said(s, now) : quotes' = Updated(data, now)
  /\ UNCHANGED <<shared, session, day, connected, since, request>>

\* refresh_once, up to the request: for what is pending or due, in batches.
AskQuotes ==
  /\ session /\ connected /\ Open(now) /\ ~request.sent
  /\ request' = [sent |-> TRUE, at |-> now, current |-> TRUE]
  /\ UNCHANGED <<shared, session, day, connected, since, quotes>>

\* The reply is to this connection.
Usable == request.current /\ connected

\* The reply counts from when it was asked for; a batch of one, or no (good) reply.
Reply ==
  /\ request.sent /\ request' = NoRequest
  /\ \/ UNCHANGED quotes
     \/ /\ Usable
        /\ \E s \in Stocks : \E data \in Said(s, request.at) :
             quotes' = Updated(data, request.at)
  /\ UNCHANGED <<shared, session, day, connected, since>>
-----------------------------------------------------------------------------
(* The workers.                                                            *)

book == <<session, day, connected, since, quotes, request>>

NoBook ==
  /\ session' = FALSE /\ day' = 0 /\ connected' = FALSE /\ since' = 0
  /\ quotes' = {} /\ request' = NoRequest

Acquire(w) ==
  /\ lease = None /\ outgoing[w] = NoSnapshot /\ lease' = w
  /\ UNCHANGED <<now, market, lapses, snapshot, outgoing, book>>

\* The worker was held up for longer than the lease, or its process has died: what it has
\* sent may still arrive.
Lapse ==
  /\ lease # None /\ lapses < MaxLapses
  /\ lease' = None /\ lapses' = lapses + 1 /\ NoBook
  /\ UNCHANGED <<now, market, snapshot, outgoing>>

\* A user wants the filter, and the master list of this day was read.
StartSession ==
  /\ lease # None /\ outgoing[lease] = NoSnapshot /\ ~session /\ Open(now)
  /\ session' = TRUE /\ day' = Day(now)
  /\ UNCHANGED <<shared, connected, since, quotes, request>>

Unready == [NoSnapshot EXCEPT !.ts = now, !.day = Day(now)]

\* Other credentials, the filter is off, or a new day; or the service is told to end.
StopSession ==
  /\ session /\ outgoing[lease] = NoSnapshot
  /\ NoBook /\ snapshot' = Unready /\ lease' \in {lease, None}
  /\ UNCHANGED <<now, market, lapses, outgoing>>

\* Mutant: a stock with a stale quote has no rank.
FreshOnly == {r \in quotes : Fresh(r)}

\* Stale rows keep their rank.
Ranked == quotes

Snapshot ==
  [ready |-> /\ Open(now) /\ Day(now) = day /\ connected
             /\ Cardinality({r \in quotes : Fresh(r)}) >= Needed,
   ts |-> now, day |-> day, rows |-> Ranked]

\* The lease is renewed, and the snapshot sent.
Send ==
  /\ session /\ outgoing[lease] = NoSnapshot
  /\ outgoing' = [outgoing EXCEPT ![lease] = Snapshot]
  /\ UNCHANGED <<now, market, lease, lapses, snapshot, book>>

\* Mutant: the lease is looked at before.
WrittenAnyway(w) == outgoing[w]

\* PUBLISH: the lease and the write are one step.
Written(w) == IF lease = w THEN outgoing[w] ELSE snapshot

PublishSnapshot(w) ==
  /\ outgoing[w] # NoSnapshot /\ snapshot' = Written(w)
  /\ outgoing' = [outgoing EXCEPT ![w] = NoSnapshot]
  /\ UNCHANGED <<now, market, lease, lapses, book>>

Later(t) == IF Open(t + 1) THEN t + 1 ELSE Morning(t) + Period

Tick ==
  /\ now' = Later(now) /\ now' <= LastMoment
  /\ UNCHANGED <<market, lease, lapses, snapshot, outgoing, book>>

TurnoverNext ==
  \/ OnState \/ OnTick \/ AskQuotes \/ Reply
  \/ StartSession \/ StopSession \/ Send
  \/ \E w \in Workers : Acquire(w) \/ PublishSnapshot(w)
  \/ Lapse \/ Tick

TurnoverSpec == TurnoverInit /\ [][TurnoverNext]_turnoverVars
-----------------------------------------------------------------------------
(* turnover_decision.                                                      *)

Allowed(s) ==
  /\ snapshot.ready /\ now - snapshot.ts <= SnapshotAge
  /\ snapshot.day = Day(now) /\ Open(now)
  /\ Cardinality({r \in snapshot.rows : Fresh(r)}) >= Needed
  /\ \E r \in snapshot.rows :
       /\ r.stock = s /\ Fresh(r)
       /\ Rank(snapshot.rows, r) <= TopN /\ r.turnover > 0
  /\ \A r \in snapshot.rows : Rank(snapshot.rows, r) <= TopN => Fresh(r)
-----------------------------------------------------------------------------
(* Properties.                                                             *)

\* The time of which a quote that counts may be.
Before == IF now - QuoteAge < Morning(now) THEN Morning(now) ELSE now - QuoteAge
Recent == {t \in Times : Before <= t /\ t <= now}

\* A stock does not pass because the quotes of better ones have stopped: what the book
\* last saw of any stock, too long before the snapshot to count, is no more than its own
\* turnover at some moment since then.
NoneIsPromotedBySilence ==
  \A s \in Stocks :
    Allowed(s) =>
      \E t \in Recent :
        \A r \in quotes : snapshot.ts - r.ts > QuoteAge => r.turnover <= Worth(s, t)

\* A stock that passes belongs to the TopN by today's trades, however prices move: of those
\* with a fresh quote, fewer than TopN had more at every moment that a quote may be of than
\* it had at any.
AllowedIsNearTop ==
  \A s \in Stocks :
    Allowed(s) =>
      Cardinality({r \in snapshot.rows :
                     Fresh(r) /\ \A t, u \in Recent : Worth(r.stock, t) > Worth(s, u)})
        < TopN

\* No worker that was held up replaces a snapshot by an older one.
SnapshotsInOrder == [][snapshot'.ts >= snapshot.ts]_turnoverVars
=============================================================================

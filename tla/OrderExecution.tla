--------------------------- MODULE OrderExecution ---------------------------
(***************************************************************************)
(* TradeEngine._place_order_with_execution: one request for Qty shares is  *)
(* turned into a series of broker orders.  Each order is placed, watched   *)
(* until a deadline, checked against the order book and the trade book,    *)
(* cancelled if it is still open, watched again, and what it did not fill  *)
(* is placed again while attempts are left.                                *)
(*                                                                         *)
(* The broker fills, cancels and rejects on its own; its order updates     *)
(* (websocket callbacks) arrive late, twice, out of order or not at all,   *)
(* its queries fail, and the reply to a placement may be lost.             *)
(*                                                                         *)
(* Statuses that are not final (PENDING, PARTIAL, UNKNOWN, no answer) are  *)
(* one value here, "OPEN": the code treats them alike.  Prices are left    *)
(* out, and an order is known by the number of the attempt that placed it. *)
(***************************************************************************)
EXTENDS Integers

CONSTANTS
  Qty,          \* shares requested
  MaxAttempts,  \* order_pending_retry_count + 1
  BookLags      \* the order and trade book may answer with an older state

ASSUME OrderAssumption ==
  /\ Qty \in Nat \ {0}
  /\ MaxAttempts \in Nat \ {0}
  /\ BookLags \in BOOLEAN

VARIABLES
  status, size, filled,  \* broker: the orders
  pc,                    \* where _place_order_with_execution is
  attempts,              \* orders placed so far; the current order
  total,                 \* total_filled: fills booked so far
  cache,                 \* _order_updates_by_id
  snap,                  \* the snapshot of the current order worked with
  late,                  \* the deadline of _wait_for_order_execution passed
  cancelRequested,       \* the current order was sent a cancellation
  kill,                  \* the user's kill switch
  caller,                \* who asked: an entry or an exit
  outcome                \* how the request ended

vars == <<status, size, filled, pc, attempts, total, cache, snap, late,
          cancelRequested, kill, caller, outcome>>
broker == <<status, size, filled>>
program == <<pc, attempts, total, snap, late, cancelRequested, kill, caller,
             outcome>>

Orders == 1 .. MaxAttempts
Final == {"COMPLETE", "CANCELLED", "REJECTED"}
Snapshots == [status : Final \cup {"OPEN"}, filled : 0 .. Qty]
Unknown == [status |-> "OPEN", filled |-> 0]

IsFinal(s) == s.status \in Final
Remaining == Qty - total

Init ==
  /\ status = [o \in Orders |-> "none"]
  /\ size = [o \in Orders |-> 0]
  /\ filled = [o \in Orders |-> 0]
  /\ pc = "next"
  /\ attempts = 0
  /\ total = 0
  /\ cache = [o \in Orders |-> Unknown]
  /\ snap = Unknown
  /\ late = FALSE
  /\ cancelRequested = FALSE
  /\ kill = FALSE
  /\ caller \in {"entry", "exit"}
  /\ outcome = "none"
-----------------------------------------------------------------------------
(* The broker.                                                             *)

\* A request that was sent reaches the exchange, perhaps after the program
\* stopped waiting for the reply.
Accept(o) ==
  /\ status[o] = "none" /\ size[o] > 0
  /\ status' = [status EXCEPT ![o] = "OPEN"]
  /\ UNCHANGED <<size, filled, cache, program>>

Fill(o, n) ==
  /\ status[o] = "OPEN" /\ filled[o] + n <= size[o]
  /\ filled' = [filled EXCEPT ![o] = @ + n]
  /\ status' = [status EXCEPT ![o] =
                  IF filled[o] + n = size[o] THEN "COMPLETE" ELSE @]
  /\ UNCHANGED <<size, cache, program>>

\* A cancellation takes effect: the program's, the user's or an expiry.
CancelOrder(o) ==
  /\ status[o] = "OPEN"
  /\ status' = [status EXCEPT ![o] = "CANCELLED"]
  /\ UNCHANGED <<size, filled, cache, program>>

RejectOrder(o) ==
  /\ status[o] = "OPEN" /\ filled[o] = 0
  /\ status' = [status EXCEPT ![o] = "REJECTED"]
  /\ UNCHANGED <<size, filled, cache, program>>

\* What the broker says of an order now, and what a message it sent at any
\* earlier time may say.
Current(o) == [status |-> IF status[o] \in Final THEN status[o] ELSE "OPEN",
               filled |-> filled[o]]
Reports(o) == {Current(o)} \cup [status : {"OPEN"}, filled : 0 .. filled[o]]
BookAnswers(o) == IF BookLags THEN Reports(o) ELSE {Current(o)}

\* on_order_update: the callback stores the update, whatever it replaces.
Update(o) ==
  /\ status[o] # "none"
  /\ \E r \in Reports(o) : cache' = [cache EXCEPT ![o] = r]
  /\ UNCHANGED <<broker, program>>
-----------------------------------------------------------------------------
(* Placement.                                                              *)

\* Mutant: a replacement asks for the whole quantity again.
FullQuantity == Qty

\* attempt_qty: what is not filled yet.
AttemptQty == Remaining

Place ==
  /\ pc = "next"
  /\ attempts' = attempts + 1
  /\ size' = [size EXCEPT ![attempts + 1] = AttemptQty]
  /\ pc' = "placing"
  /\ cancelRequested' = FALSE
  /\ UNCHANGED <<status, filled, total, cache, snap, late, kill, caller,
                 outcome>>

StartWait == pc' = "wait" /\ snap' = cache[attempts] /\ late' = FALSE

PlaceReplied ==
  /\ pc = "placing" /\ status[attempts] # "none"
  /\ StartWait
  /\ UNCHANGED <<broker, attempts, total, cache, cancelRequested, kill,
                 caller, outcome>>

End(how, alarm) ==
  /\ pc' = "ended"
  /\ outcome' = how
  /\ kill' = (kill \/ alarm)

\* The reply carries no order id.
PlaceWithoutId ==
  /\ pc = "placing" /\ status[attempts] # "none"
  /\ End("raised", TRUE)
  /\ UNCHANGED <<broker, attempts, total, cache, snap, late, cancelRequested,
                 caller>>

\* Mutant: the kill switch is left alone when a replacement fails.
PlacementFailedQuietly(how) ==
  End(IF total > 0 THEN "partial" ELSE how, FALSE)

\* An exception from _place_order: fills already booked are reported and the
\* kill switch is set, otherwise the exception goes to the caller.
PlacementFailed(how) ==
  IF total > 0 THEN End("partial", TRUE) ELSE End(how, FALSE)

\* The broker, or a guard before the broker, refused the placement.
PlaceRefused ==
  /\ pc = "placing" /\ status[attempts] = "none"
  /\ status' = [status EXCEPT ![attempts] = "refused"]
  /\ PlacementFailed("refused")
  /\ UNCHANGED <<size, filled, attempts, total, cache, snap, late,
                 cancelRequested, caller>>

\* The placement timed out: the order may exist, or come to exist.
PlaceLost ==
  /\ pc = "placing"
  /\ PlacementFailed("lost")
  /\ UNCHANGED <<broker, attempts, total, cache, snap, late, cancelRequested,
                 caller>>
-----------------------------------------------------------------------------
(* _wait_for_order_execution.                                              *)

\* One turn looks at the cached update first and returns a final one.
Look ==
  /\ pc = "wait"
  /\ snap' = cache[attempts]
  /\ pc' = IF IsFinal(cache[attempts]) THEN "reconcile" ELSE "poll"
  /\ UNCHANGED <<broker, attempts, total, cache, late, cancelRequested, kill,
                 caller, outcome>>

\* Mutant: the wait goes on until a final status is seen.
WaitForFinal(s) == IF IsFinal(s) THEN "reconcile" ELSE "wait"

AfterPoll(s) == IF IsFinal(s) \/ late THEN "reconcile" ELSE "wait"

\* The status query answers, and its answer replaces the cached update, or
\* it fails; then the turn ends at the deadline or goes on.
Poll ==
  /\ pc = "poll"
  /\ \/ /\ \E r \in Reports(attempts) :
             /\ snap' = r
             /\ cache' = [cache EXCEPT ![attempts] = r]
        /\ pc' = AfterPoll(snap')
     \/ pc' = AfterPoll(Unknown) /\ UNCHANGED <<snap, cache>>
  /\ UNCHANGED <<broker, attempts, total, late, cancelRequested, kill, caller,
                 outcome>>

Deadline ==
  /\ pc \in {"wait", "poll"} /\ ~late
  /\ late' = TRUE
  /\ UNCHANGED <<broker, pc, attempts, total, cache, snap, cancelRequested,
                 kill, caller, outcome>>
-----------------------------------------------------------------------------
(* _reconcile_dhan_execution_snapshot.                                     *)

\* The order book row replaces the snapshot's non-zero fields, but a final
\* status stays.
WithOrderBook(s, row) ==
  [status |-> IF IsFinal(s) THEN s.status ELSE row.status,
   filled |-> IF row.filled # 0 THEN row.filled ELSE s.filled]

\* The trade book counts if it knows of more fills.
WithTradeBook(s, traded) ==
  IF traded > s.filled THEN [s EXCEPT !.filled = traded] ELSE s

\* Fills are capped at the order's size; an order filled in full is COMPLETE
\* whatever the status said, unless that was final.
Capped(s) ==
  LET f == IF s.filled > size[attempts] THEN size[attempts] ELSE s.filled
  IN  [status |-> IF f > 0 /\ f = size[attempts] /\ ~IsFinal(s)
                  THEN "COMPLETE" ELSE s.status,
       filled |-> f]

FullFill(s) == s.status = "COMPLETE" /\ s.filled = size[attempts]

\* A full fill needs no other evidence.  Either book may fail to answer.
ReadOrderBook ==
  /\ pc = "reconcile"
  /\ IF FullFill(snap)
     THEN pc' = "settle" /\ UNCHANGED snap
     ELSE /\ pc' = "trades"
          /\ \/ \E row \in BookAnswers(attempts) : snap' = WithOrderBook(snap, row)
             \/ UNCHANGED snap
  /\ UNCHANGED <<broker, attempts, total, cache, late, cancelRequested, kill,
                 caller, outcome>>

ReadTradeBook ==
  /\ pc = "trades"
  /\ pc' = "settle"
  /\ \/ \E row \in BookAnswers(attempts) :
          snap' = Capped(WithTradeBook(snap, row.filled))
     \/ snap' = Capped(snap)
  /\ UNCHANGED <<broker, attempts, total, cache, late, cancelRequested, kill,
                 caller, outcome>>
-----------------------------------------------------------------------------
(* What one order's evidence leads to.                                     *)

\* Not final: cancel once and read the order again.
AskToCancel ==
  /\ pc = "settle" /\ ~IsFinal(snap) /\ ~cancelRequested
  /\ cancelRequested' = TRUE
  /\ StartWait
  /\ UNCHANGED <<broker, attempts, total, cache, kill, caller, outcome>>

\* Mutant: an unconfirmed cancellation counts as an order without fills.
CancelTrusted == End("unfilled", FALSE)

CancelUnconfirmed == End("raised", TRUE)

\* Still not final after the cancellation.
GiveUp ==
  /\ pc = "settle" /\ ~IsFinal(snap) /\ cancelRequested
  /\ CancelUnconfirmed
  /\ UNCHANGED <<broker, attempts, total, cache, snap, late, cancelRequested,
                 caller>>

\* May the remainder be placed again?  A rejection only if its reason is
\* retryable (isRetryable), a cancellation only if the program asked for it.
MayRetry(isRetryable) ==
  /\ attempts < MaxAttempts
  /\ \/ snap.status = "CANCELLED" /\ cancelRequested
     \/ snap.status = "REJECTED" /\ isRetryable

\* Mutant: the ordered quantity is booked, not the filled one.
BookedAsOrdered == size[attempts]

Booked == snap.filled

Settle ==
  /\ pc = "settle" /\ IsFinal(snap)
  /\ total' = total + Booked
  /\ IF snap.status = "COMPLETE" \/ total' = Qty
     THEN IF total' > 0
          THEN End(IF total' = Qty THEN "complete" ELSE "partial", FALSE)
          ELSE End("raised", TRUE)
     ELSE \E isRetryable \in BOOLEAN :
            IF MayRetry(isRetryable)
            THEN pc' = "next" /\ UNCHANGED <<kill, outcome>>
            ELSE End(IF total' > 0 THEN "partial" ELSE "unfilled", FALSE)
  /\ UNCHANGED <<broker, attempts, cache, snap, late, cancelRequested, caller>>
-----------------------------------------------------------------------------
\* The caller.  An exit that failed for any reason but a refusal or an order
\* known to be unfilled sets the kill switch (_exit_position); an entry notes
\* ORDER_FAIL and goes on (on_chartink_alert).
Return ==
  /\ pc = "ended"
  /\ pc' = "returned"
  /\ kill' = (kill \/ (caller = "exit" /\ outcome \in {"raised", "lost"}))
  /\ UNCHANGED <<broker, attempts, total, cache, snap, late, cancelRequested,
                 caller, outcome>>

\* The task is cancelled while it waits: its lease was lost, or the service
\* stops.  The records left behind are ExecutionQueue's and OrderLock's.
Interrupt ==
  /\ pc \notin {"ended", "returned"}
  /\ pc' = "returned"
  /\ outcome' = "interrupted"
  /\ UNCHANGED <<broker, attempts, total, cache, snap, late, cancelRequested,
                 kill, caller>>

Broker ==
  \E o \in Orders :
    \/ Accept(o) \/ CancelOrder(o) \/ RejectOrder(o) \/ Update(o)
    \/ \E n \in 1 .. Qty : Fill(o, n)

Program ==
  \/ Place \/ PlaceReplied \/ PlaceWithoutId \/ PlaceRefused \/ PlaceLost
  \/ Look \/ Poll \/ ReadOrderBook \/ ReadTradeBook
  \/ AskToCancel \/ GiveUp \/ Settle \/ Return

Next == Broker \/ Program \/ Deadline \/ Interrupt
Spec == Init /\ [][Next]_vars

\* The event loop schedules the coroutine and every await ends: placements
\* return or time out, queries answer or fail, and time passes.
FairSpec == Spec /\ WF_vars(Program) /\ WF_vars(Deadline)
-----------------------------------------------------------------------------
(* Properties.                                                             *)

Pcs == {"next", "placing", "wait", "poll", "reconcile", "trades", "settle",
        "ended", "returned"}
Outcomes == {"none", "complete", "partial", "raised", "refused", "lost",
             "unfilled", "interrupted"}

\* Every variable has its type.
TypeOK ==
  /\ status \in [Orders -> Final \cup {"none", "OPEN", "refused"}]
  /\ size \in [Orders -> 0 .. Qty]
  /\ filled \in [Orders -> 0 .. Qty]
  /\ pc \in Pcs
  /\ attempts \in 0 .. MaxAttempts
  /\ total \in 0 .. Qty
  /\ cache \in [Orders -> Snapshots]
  /\ snap \in Snapshots
  /\ late \in BOOLEAN
  /\ cancelRequested \in BOOLEAN
  /\ kill \in BOOLEAN
  /\ caller \in {"entry", "exit"}
  /\ outcome \in Outcomes

\* A replacement is placed only after the order it replaces is over at the
\* broker, and asks for exactly what that order left unfilled: fills racing
\* with the cancellation are counted.  So however many orders the request
\* takes, their fills and what is still open never exceed Qty, and at most
\* one of them can trade.
ReplacementIsRemainder ==
  /\ attempts > 0 => size[1] = Qty
  /\ \A o \in Orders :
       o < attempts => /\ status[o] \in Final
                       /\ size[o + 1] = size[o] - filled[o]

\* Shares traded by all orders of the request, and shares that still may.
Traded ==
  IF attempts = 0 THEN 0 ELSE Qty - size[attempts] + filled[attempts]
MayStillTrade ==
  attempts > 0 /\ status[attempts] \in {"none", "OPEN"}

\* A result returned to the caller never claims more than was traded, and if
\* it comes without the kill switch it is exact and final: all fills are in
\* it and no order of the request is left at the broker.
ResultsAreTrue ==
  outcome \in {"complete", "partial"} =>
    /\ 0 < total /\ total <= Traded
    /\ outcome = "complete" => total = Qty
    /\ kill \/ (total = Traded /\ ~MayStillTrade)

\* A request never ends, other than by cancellation of its task, with an open
\* order or an unreported fill behind it, unless the kill switch is set.  The
\* exception is an entry whose last placement was lost before any fill.
NothingLeftUnnoticed ==
  /\ pc = "returned" /\ outcome # "interrupted"
  /\ MayStillTrade \/ total # Traded
  => kill \/ (caller = "entry" /\ outcome = "lost")

\* The request ends although the broker may never answer: every wait has a
\* deadline and the attempts are bounded.
Terminates == <>(pc = "returned")

\* The promise to the callers.
Intent == INSTANCE OrderIntent WITH
  bought <- Traded,
  working <- IF attempts > 0 /\ status[attempts] = "OPEN"
             THEN size[attempts] - filled[attempts] ELSE 0,
  answer <- IF outcome \in {"complete", "partial"} THEN total ELSE -1,
  alarm <- kill
ImplementsIntent == Intent!Spec
=============================================================================

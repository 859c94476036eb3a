--------------------------- MODULE EntryPathProofs ---------------------------
(* Proofs of the safety of EntryPath, for any symbols, calls, watches, limit   *)
(* and number of restarts: what holds of each caller where it is (Sane), the   *)
(* counter against the orders (CountCovers), who holds a lock (HeldInside),    *)
(* and where an entry that is held is known (Known).                           *)
EXTENDS EntryPath, FiniteSetTheorems, TLAPS

\* Under the lock with the watch in hand; and with the watch claimed.
Inside == {"guard", "filter", "level", "feed", "check", "limit", "send", "order", "record"}
Committed == {"limit", "send", "order", "record"}

\* What holds of a caller wherever it is.
Sane(c) ==
  /\ pc[c] # "idle" => up /\ sym[c] \in Symbols
  /\ c \in Watches => sym[c] = SymbolOf[c]
  /\ pc[c] \in Locked => lock[sym[c]] = c
  /\ c \in Watches /\ pc[c] \in Inside => watch[c] = c
  /\ c \in Calls /\ pc[c] \in {"lock", "guard"} => watch[c] = Nothing
  /\ pc[c] = "filter" /\ watch[c] # Nothing => seen[c] = "WAITING"
  /\ pc[c] \in Locked /\ watch[c] # Nothing =>
       SymbolOf[watch[c]] = sym[c] /\ seen[c] \in Live
  /\ c \in Watches /\ pc[c] \in {"polled", "lock", "alarm"} => seen[c] \in Live
  /\ c \in Watches /\ pc[c] # "idle" => phase[c] # "none"
  /\ pc[c] = "alarm" => kill
  /\ pc[c] = "check" => watch[c] # Nothing
  /\ pc[c] \in {"limit", "send"} /\ watch[c] # Nothing =>
       phase[watch[c]] \in {"EXECUTING", "DONE"} /\ sent[watch[c]] = 0
  /\ c \in Watches /\ pc[c] \in Committed => phase[c] = "EXECUTING"
  /\ pc[c] = "finish" => answer[c] \in {"SKIPPED", "WAITING", "ERROR", "ENTERED"}

\* No order is sent for a watch before it is claimed.
UnclaimedUnsent == \A w \in Watches : phase[w] \in {"none", "WAITING"} => sent[w] = 0

\* The trades that were counted cover the orders that were placed and those that will be.
Sending == {c \in Callers : pc[c] = "send"}
CountCovers == IsFiniteSet(Sending) /\ placed + Cardinality(Sending) <= count

\* Nothing is in the memory of a process that is down.
Remembers == \A s \in Symbols : mem[s] => up

Books ==
  /\ TypeOK /\ CountCovers /\ UnclaimedUnsent /\ Remembers
  /\ \A c \in Callers : Sane(c)

\* Where an entry has been looked for, there is none that is not forgotten; and a claimed
\* watch that ends without one leaves none in memory.
Clear(c) ==
  /\ pc[c] \in {"guard", "filter"} =>
       held[sym[c]] = 0 \/ row[sym[c]] \/ mem[sym[c]] \/ forgotten[sym[c]]
  /\ pc[c] \in {"level", "feed", "check", "limit", "send", "order"} =>
       ~mem[sym[c]] /\ (held[sym[c]] = 0 \/ forgotten[sym[c]])
  /\ pc[c] = "finish" /\ watch[c] # Nothing /\ seen[c] = "EXECUTING"
       /\ answer[c] # "ENTERED" => ~mem[sym[c]]

\* An entry that is held is recorded, or in memory, or the kill switch says that there
\* is doubt, or the restart will, or it is forgotten.
Interrupted == owed \/ \E w \in Watches : phase[w] = "EXECUTING"
Accounted(s) ==
  held[s] > 0 =>
    row[s] \/ mem[s] \/ kill \/ forgotten[s] \/ (~up /\ Interrupted)

\* What is only in memory is about to be recorded, or could not be.
AboutToRecord(s) ==
  held[s] > 0 /\ mem[s] /\ ~row[s]
    => \/ unwritten[s] \/ forgotten[s]
       \/ \E c \in Callers : pc[c] = "record" /\ sym[c] = s

OneHeld(s) == held[s] \in {0, 1} \/ forgotten[s]

Known ==
  /\ \A c \in Callers : Clear(c)
  /\ \A s \in Symbols : Accounted(s) /\ AboutToRecord(s) /\ OneHeld(s)
-----------------------------------------------------------------------------
(* A step of one caller.                                                   *)

\* Its own place, symbol, watch, reading and answer are all that it changes of them.
OwnOnly(c) ==
  /\ pc' = [pc EXCEPT ![c] = pc'[c]]
  /\ sym' = [sym EXCEPT ![c] = sym'[c]]
  /\ watch' = [watch EXCEPT ![c] = watch'[c]]
  /\ seen' = [seen EXCEPT ![c] = seen'[c]]
  /\ answer' = [answer EXCEPT ![c] = answer'[c]]

\* It takes a free lock or gives its own back; a watch goes forward, and one that is
\* executing only if it is its own; and it sends orders for none but its own.
Respects(c) ==
  /\ kill => kill'
  /\ up' = up
  /\ \A s \in Symbols : mem'[s] => mem[s] \/ up
  /\ \A s \in Symbols : lock'[s] # lock[s] => lock[s] \in {Nothing, c}
  /\ \A w \in Watches :
       /\ phase'[w] = "none" => phase[w] = "none"
       /\ phase'[w] = "WAITING" => phase[w] \in {"none", "WAITING"}
       /\ phase'[w] = "EXECUTING" => phase[w] \in {"WAITING", "EXECUTING"}
       /\ phase[w] = "EXECUTING" /\ phase'[w] # "EXECUTING"
            => c = w \/ (pc[c] \in Locked /\ watch[c] = w)
       /\ sent'[w] # sent[w]
            => pc[c] \in Locked /\ watch[c] = w /\ phase'[w] \in {"EXECUTING", "DONE"}

\* A trade is counted before its order is placed.
Counts(c) ==
  \/ pc[c] # "send" /\ pc'[c] # "send" /\ UNCHANGED <<count, placed>>
  \/ pc[c] # "send" /\ pc'[c] = "send" /\ count' = count + 1 /\ placed' = placed
  \/ pc[c] = "send" /\ pc'[c] # "send" /\ count' = count /\ placed' \in {placed, placed + 1}

Moves(c) == TypeOK' /\ OwnOnly(c) /\ Respects(c) /\ Counts(c) /\ Sane(c)'

LEMMA CountKept ==
  ASSUME NEW c \in Callers, TypeOK, CountCovers, OwnOnly(c), Counts(c)
  PROVE  CountCovers'
<1> pc \in [Callers -> Places] /\ count \in Nat /\ placed \in Nat
  BY EntryAssumption DEF TypeOK
<1>1. \A d \in Callers : d # c => pc'[d] = pc[d] BY DEF OwnOnly
<1>2. IsFiniteSet(Sending) /\ Cardinality(Sending) \in Nat
  BY FS_CardinalityType DEF CountCovers
<1>3. CASE pc[c] # "send" /\ pc'[c] # "send" /\ UNCHANGED <<count, placed>>
  <2>1. Sending' = Sending BY <1>1, <1>3 DEF Sending
  <2>2. QED BY <1>3, <2>1 DEF CountCovers
<1>4. CASE pc[c] # "send" /\ pc'[c] = "send" /\ count' = count + 1 /\ placed' = placed
  <2>1. Sending' = Sending \cup {c} /\ c \notin Sending BY <1>1, <1>4 DEF Sending
  <2>2. IsFiniteSet(Sending') /\ Cardinality(Sending') = Cardinality(Sending) + 1
    BY <1>2, <2>1, FS_AddElement
  <2>3. QED BY <1>2, <1>4, <2>2 DEF CountCovers
<1>5. CASE /\ pc[c] = "send" /\ pc'[c] # "send" /\ count' = count
           /\ placed' \in {placed, placed + 1}
  <2>1. Sending' = Sending \ {c} /\ c \in Sending BY <1>1, <1>5 DEF Sending
  <2>2. IsFiniteSet(Sending') /\ Cardinality(Sending') = Cardinality(Sending) - 1
    BY <1>2, <2>1, FS_RemoveElement
  <2>3. QED BY <1>2, <1>5, <2>2 DEF CountCovers
<1>6. QED BY <1>3, <1>4, <1>5 DEF Counts

\* What holds of the other callers is not disturbed.
LEMMA OthersSane ==
  ASSUME Books, NEW c \in Callers, Moves(c), NEW d \in Callers, d # c
  PROVE  Sane(d)'
<1>1. /\ pc'[d] = pc[d] /\ sym'[d] = sym[d] /\ watch'[d] = watch[d]
      /\ seen'[d] = seen[d] /\ answer'[d] = answer[d]
  BY DEF Moves, OwnOnly, Books, TypeOK
<1>2. Sane(d) /\ Sane(c) BY DEF Books
<1>3. watch[d] \in Watches \cup {Nothing} /\ watch[c] \in Watches \cup {Nothing}
  BY DEF Books, TypeOK
<1>4. Nothing \notin Callers /\ Nothing \notin Symbols BY EntryAssumption
<1>5. pc[d] \in Locked => lock'[sym[d]] = d
  BY <1>2, <1>4, "send" \in Locked DEF Moves, Respects, Sane, Locked
<1>6. pc[c] \in Locked /\ pc[d] \in Locked => sym[c] # sym[d]
  BY <1>2 DEF Sane
<1>7. d \in Watches /\ pc[d] \in Committed => phase'[d] = "EXECUTING"
  <2>1. SUFFICES ASSUME d \in Watches, pc[d] \in Committed PROVE phase'[d] = "EXECUTING"
    OBVIOUS
  <2>2. phase[d] = "EXECUTING" /\ sym[d] = SymbolOf[d] /\ pc[d] \in Locked
    BY <1>2, <2>1 DEF Sane, Committed, Locked
  <2>3. pc[c] \in Locked => watch[c] # d
    BY <1>2, <1>4, <1>6, <2>1, <2>2 DEF Sane, Callers
  <2>4. QED BY <2>1, <2>2, <2>3 DEF Moves, Respects
<1>8. pc[d] \in {"limit", "send"} /\ watch[d] # Nothing =>
        phase'[watch[d]] \in {"EXECUTING", "DONE"} /\ sent'[watch[d]] = 0
  <2>1. SUFFICES ASSUME pc[d] \in {"limit", "send"}, watch[d] # Nothing
                 PROVE  phase'[watch[d]] \in {"EXECUTING", "DONE"} /\ sent'[watch[d]] = 0
    OBVIOUS
  <2>2. /\ watch[d] \in Watches /\ SymbolOf[watch[d]] = sym[d] /\ pc[d] \in Locked
        /\ phase[watch[d]] \in {"EXECUTING", "DONE"} /\ sent[watch[d]] = 0
    BY <1>2, <1>3, <2>1 DEF Sane, Locked
  <2>3. ~(pc[c] \in Locked /\ watch[c] = watch[d])
    BY <1>2, <1>6, <2>1, <2>2 DEF Sane
  <2>4. sent'[watch[d]] = 0 BY <2>2, <2>3 DEF Moves, Respects
  <2>5. phase' \in [Watches -> Live \cup {"none", "DONE"}] BY DEF Moves, TypeOK
  <2>6. phase'[watch[d]] \in {"EXECUTING", "DONE"}
    BY <2>2, <2>5 DEF Moves, Respects, Live
  <2>7. QED BY <2>4, <2>6
<1>9. d \in Watches /\ pc[d] # "idle" => phase'[d] # "none"
  BY <1>2 DEF Sane, Moves, Respects
<1>10. pc[d] = "alarm" => kill' BY <1>2 DEF Sane, Moves, Respects
<1>11. pc[d] # "idle" => up' BY <1>2 DEF Sane, Moves, Respects
<1>12. QED BY <1>1, <1>2, <1>5, <1>7, <1>8, <1>9, <1>10, <1>11 DEF Sane

LEMMA MovesKeeps ==
  ASSUME Books, NEW c \in Callers, Moves(c)
  PROVE  Books'
<1>1. TypeOK' BY DEF Moves
<1>2. CountCovers' BY CountKept DEF Books, Moves
<1>3. UnclaimedUnsent'
  <2>1. SUFFICES ASSUME NEW w \in Watches, phase'[w] \in {"none", "WAITING"}
                 PROVE  sent'[w] = 0
    BY DEF UnclaimedUnsent
  <2>2. phase[w] \in {"none", "WAITING"} /\ sent'[w] = sent[w]
    BY <2>1 DEF Moves, Respects
  <2>3. QED BY <2>1, <2>2 DEF Books, UnclaimedUnsent
<1>4. \A d \in Callers : Sane(d)'
  BY OthersSane DEF Moves
<1>5. Remembers' BY DEF Books, Remembers, Moves, Respects
<1>6. QED BY <1>1, <1>2, <1>3, <1>4, <1>5 DEF Books
-----------------------------------------------------------------------------
(* The steps of a caller, one by one.                                      *)

\* The types of what a caller's step reads, and what is known of the caller.
LEMMA AtCaller ==
  ASSUME Books, NEW c \in Callers
  PROVE  /\ Sane(c)
         /\ kill \in BOOLEAN /\ up \in BOOLEAN
         /\ lock \in [Symbols -> Callers \cup {Nothing}]
         /\ phase \in [Watches -> Live \cup {"none", "DONE"}]
         /\ result \in [Watches -> {"SKIPPED", "ERROR", "ENTERED", Nothing}]
         /\ pc \in [Callers -> Places]
         /\ sym \in [Callers -> Symbols \cup {Nothing}]
         /\ watch \in [Callers -> Watches \cup {Nothing}]
         /\ seen \in [Callers -> Live \cup {"none", "DONE"}]
         /\ answer \in [Callers -> {"SKIPPED", "BUSY", "WAITING", "ERROR", "ENTERED",
                                    Nothing}]
         /\ c \in Watches => c \notin Calls
         /\ Nothing \notin Callers /\ Nothing \notin Watches
  BY EntryAssumption DEF Books, TypeOK, Callers

\* Of the senders that are gone, one at most had an order out for a symbol.
LEMMA OrphansFill ==
  ASSUME Books, NEW dead \in SUBSET Callers, Orphaned(dead)
  PROVE  /\ held' \in [Symbols -> Nat]
         /\ \A s \in Symbols :
              \/ held'[s] = held[s]
              \/ /\ held'[s] = held[s] + 1
                 /\ \E c \in dead : pc[c] = "order" /\ sym[c] = s
<1>1. PICK filled \in SUBSET {c \in dead : pc[c] = "order"} :
        held' = [s \in Symbols |-> held[s] + Cardinality({c \in filled : sym[c] = s})]
  BY DEF Orphaned
<1>2. held \in [Symbols -> Nat] BY DEF Books, TypeOK
<1>3. ASSUME NEW s \in Symbols
      PROVE  \/ held'[s] = held[s]
             \/ /\ held'[s] = held[s] + 1
                /\ \E c \in dead : pc[c] = "order" /\ sym[c] = s
  <2> DEFINE mine == {c \in filled : sym[c] = s}
  <2>1. \A c \in mine : lock[s] = c /\ c \in dead /\ pc[c] = "order" /\ sym[c] = s
    BY DEF Books, Sane, Locked
  <2>2. CASE mine = {}
    BY <1>1, <1>2, <2>2, FS_EmptySet
  <2>3. CASE mine # {}
    <3>1. mine = {lock[s]} BY <2>1, <2>3
    <3>2. Cardinality(mine) = 1 BY <3>1, FS_Singleton
    <3>3. QED BY <1>1, <1>2, <2>1, <2>3, <3>2
  <2>4. QED BY <2>2, <2>3
<1>4. QED BY <1>1, <1>2, <1>3

LEMMA ArriveMoves ==
  ASSUME Books, NEW c \in Callers, NEW s \in Symbols, Arrive(c, s)
  PROVE  Moves(c)
<1> USE AtCaller DEF Arrive, Goto, redisVars, timeVars, processVars, brokerVars
<1>1. TypeOK' BY DEF Books, TypeOK, Places, Locked, Live
<1>2. OwnOnly(c) /\ Respects(c) /\ Counts(c) BY DEF OwnOnly, Respects, Counts
<1>3. Sane(c)' BY DEF Sane, Locked, Inside, Committed
<1>4. QED BY <1>1, <1>2, <1>3 DEF Moves

LEMMA LockMoves ==
  ASSUME Books, NEW c \in Callers, Lock(c)
  PROVE  Moves(c)
<1> USE AtCaller DEF Lock, Goto, Return, redisVars, timeVars, processVars, brokerVars
<1>1. TypeOK' BY SMTT(30) DEF Books, TypeOK, Places, Locked, Live, Callers
<1>2. OwnOnly(c) /\ Respects(c) /\ Counts(c) BY DEF OwnOnly, Respects, Counts
<1>3. Sane(c)' BY DEF Sane, Locked, Inside, Committed, Live
<1>4. QED BY <1>1, <1>2, <1>3 DEF Moves

LEMMA GuardWatchMoves ==
  ASSUME Books, NEW c \in Callers, GuardWatch(c)
  PROVE  Moves(c)
<1> USE AtCaller DEF GuardWatch, Goto, Answer, redisVars, timeVars, processVars, brokerVars
<1>1. TypeOK' BY DEF Books, TypeOK, Places, Locked, Live
<1>2. OwnOnly(c) BY DEF OwnOnly
<1>3. Respects(c) BY DEF Respects, Sane, Locked
<1>4. Counts(c) BY DEF Counts
<1>5. Sane(c)'
  <2>1. CASE phase[c] # "WAITING"
    BY <2>1 DEF Sane, Locked, Inside, Committed, Live
  <2>2. CASE phase[c] = "WAITING"
    BY <2>2 DEF Sane, Locked, Inside, Committed, Live
  <2>3. QED BY <2>1, <2>2
<1>6. QED BY <1>1, <1>2, <1>3, <1>4, <1>5 DEF Moves

LEMMA GuardAlertMoves ==
  ASSUME Books, NEW c \in Callers, GuardAlert(c)
  PROVE  Moves(c)
<1> USE AtCaller DEF GuardAlert, Goto, Answer, redisVars, timeVars, processVars, brokerVars
<1>1. TypeOK' BY DEF Books, TypeOK, Places, Locked, Live
<1>2. OwnOnly(c) BY DEF OwnOnly
<1>3. Respects(c) BY DEF Respects, Sane, Locked
<1>4. Counts(c) BY DEF Counts
<1>5. Sane(c)' BY DEF Sane, Locked, Inside, Committed, Live
<1>6. QED BY <1>1, <1>2, <1>3, <1>4, <1>5 DEF Moves

LEMMA FilterMoves ==
  ASSUME Books, NEW c \in Callers, Filter(c)
  PROVE  Moves(c)
<1> USE AtCaller DEF Filter, Goto, Answer, redisVars, timeVars, processVars, brokerVars
<1>1. TypeOK' BY DEF Books, TypeOK, Places, Locked, Live
<1>2. OwnOnly(c) BY DEF OwnOnly
<1>3. Respects(c) BY DEF Respects, Sane, Locked
<1>4. Counts(c) BY DEF Counts
<1>5. Sane(c)' BY DEF Sane, Locked, Inside, Committed, Live
<1>6. QED BY <1>1, <1>2, <1>3, <1>4, <1>5 DEF Moves

LEMMA FindLevelMoves ==
  ASSUME Books, NEW c \in Callers, FindLevel(c)
  PROVE  Moves(c)
<1> USE AtCaller DEF FindLevel, Goto, Answer, Expected, timeVars, processVars, brokerVars
<1>1. TypeOK'
  <2>1. pc' \in [Callers -> Places] BY DEF Places, Locked
  <2>2. /\ phase' \in [Watches -> Live \cup {"none", "DONE"}]
        /\ level' \in [Watches -> BOOLEAN]
    BY DEF Books, TypeOK, Live
  <2>3. answer' \in [Callers -> {"SKIPPED", "BUSY", "WAITING", "ERROR", "ENTERED", Nothing}]
    OBVIOUS
  <2>4. QED BY <2>1, <2>2, <2>3 DEF Books, TypeOK
<1>2. OwnOnly(c) BY DEF OwnOnly
<1>3. Respects(c) BY DEF Respects, Sane, Locked
<1>4. Counts(c) BY DEF Counts
<1>5. Sane(c)' BY DEF Sane, Locked, Inside, Committed, Live
<1>6. QED BY <1>1, <1>2, <1>3, <1>4, <1>5 DEF Moves

LEMMA PriceMoves ==
  ASSUME Books, NEW c \in Callers, Price(c)
  PROVE  Moves(c)
<1> USE AtCaller DEF Price, Goto, Answer, redisVars, timeVars, processVars, brokerVars
<1>1. TypeOK' BY DEF Books, TypeOK, Places, Locked, Live
<1>2. OwnOnly(c) BY DEF OwnOnly
<1>3. Respects(c) BY DEF Respects, Sane, Locked
<1>4. Counts(c) BY DEF Counts
<1>5. Sane(c)' BY DEF Sane, Locked, Inside, Committed, Live
<1>6. QED BY <1>1, <1>2, <1>3, <1>4, <1>5 DEF Moves

LEMMA ClaimMoves ==
  ASSUME Books, NEW c \in Callers, Claim(c)
  PROVE  Moves(c)
<1> USE AtCaller DEF Claim, Goto, Answer, Expected, timeVars, processVars, brokerVars
<1>1. TypeOK' BY DEF Books, TypeOK, Places, Locked, Live
<1>2. OwnOnly(c) BY DEF OwnOnly
<1>3. Respects(c) BY DEF Respects, Sane, Locked
<1>4. Counts(c) BY DEF Counts
<1>5. Sane(c)'
  <2>1. watch[c] \in Watches /\ (c \in Watches => watch[c] = c)
    BY DEF Sane, Inside
  <2>2. CASE pc'[c] = "finish"
    BY <2>1, <2>2 DEF Sane, Locked, Inside, Committed, Live
  <2>3. CASE pc'[c] = "limit"
    <3>1. sent'[watch[c]] = 0 BY <2>1, <2>3 DEF Books, UnclaimedUnsent
    <3>2. phase'[watch[c]] = "EXECUTING" BY <2>1, <2>3
    <3>3. QED BY <2>1, <2>3, <3>1, <3>2 DEF Sane, Locked, Inside, Committed, Live
  <2>4. QED BY <2>2, <2>3
<1>6. QED BY <1>1, <1>2, <1>3, <1>4, <1>5 DEF Moves

LEMMA CountTradeMoves ==
  ASSUME Books, NEW c \in Callers, CountTrade(c)
  PROVE  Moves(c)
<1> USE AtCaller DEF CountTrade, Goto, Answer, MayTrade, timeVars, processVars, brokerVars
<1>1. TypeOK'
  <2>1. count' \in 0 .. Limit BY EntryAssumption DEF Books, TypeOK
  <2>2. QED BY <2>1 DEF Books, TypeOK, Places, Locked, Live
<1>2. OwnOnly(c) BY DEF OwnOnly
<1>3. Respects(c) BY DEF Respects, Sane, Locked
<1>4. Counts(c) BY DEF Counts
<1>5. Sane(c)' BY DEF Sane, Locked, Inside, Committed, Live
<1>6. QED BY <1>1, <1>2, <1>3, <1>4, <1>5 DEF Moves

LEMMA SendMoves ==
  ASSUME Books, NEW c \in Callers, Send(c)
  PROVE  Moves(c)
<1> USE AtCaller DEF Send, Goto, Answer, redisVars, timeVars, processVars
<1>1. TypeOK' BY DEF Books, TypeOK, Places, Locked, Live
<1>2. OwnOnly(c) BY DEF OwnOnly
<1>3. Respects(c)
  <2>1. \A w \in Watches :
          sent'[w] # sent[w] => watch[c] = w /\ phase'[w] \in {"EXECUTING", "DONE"}
    BY DEF Books, TypeOK, Sane
  <2>2. QED BY <2>1 DEF Respects, Locked
<1>4. Counts(c) BY DEF Counts
<1>5. Sane(c)' BY DEF Sane, Locked, Inside, Committed, Live
<1>6. QED BY <1>1, <1>2, <1>3, <1>4, <1>5 DEF Moves

LEMMA OrderResultMoves ==
  ASSUME Books, NEW c \in Callers, OrderResult(c)
  PROVE  Moves(c)
<1> USE AtCaller DEF OrderResult, Goto, Answer, timeVars
<1>1. TypeOK'
  <2>1. held' \in [Symbols -> Nat]
    <3>1. PICK o \in Outcomes :
            \E n \in CASE o = "filled" -> {1} [] o = "unfilled" -> {0} [] OTHER -> {0, 1} :
              held' = [held EXCEPT ![sym[c]] = @ + n]
      OBVIOUS
    <3>2. PICK n \in {0, 1} : held' = [held EXCEPT ![sym[c]] = @ + n] BY <3>1
    <3>3. held \in [Symbols -> Nat] BY DEF Books, TypeOK
    <3>4. \A k \in Nat : k + n \in Nat BY <3>2
    <3>5. QED BY <3>2, <3>3, <3>4
  <2>2. kill' \in BOOLEAN OBVIOUS
  <2>3. pc' \in [Callers -> Places] BY DEF Places, Locked
  <2>4. mem' \in [Symbols -> BOOLEAN]
    <3>1. mem \in [Symbols -> BOOLEAN] BY DEF Books, TypeOK
    <3>2. mem' = mem \/ mem' = [mem EXCEPT ![sym[c]] = TRUE] OBVIOUS
    <3>3. QED BY <3>1, <3>2
  <2>5. answer' \in [Callers -> {"SKIPPED", "BUSY", "WAITING", "ERROR", "ENTERED", Nothing}]
    OBVIOUS
  <2>6. QED BY <2>1, <2>2, <2>3, <2>4, <2>5 DEF Books, TypeOK
<1>2. OwnOnly(c) BY DEF OwnOnly
<1>3. Respects(c) BY DEF Respects, Sane, Locked
<1>4. Counts(c) BY DEF Counts
<1>5. Sane(c)' BY DEF Sane, Locked, Inside, Committed, Live
<1>6. QED BY <1>1, <1>2, <1>3, <1>4, <1>5 DEF Moves

LEMMA RecordMoves ==
  ASSUME Books, NEW c \in Callers, Record(c)
  PROVE  Moves(c)
<1> USE AtCaller DEF Record, Goto, Answer, timeVars, brokerVars
<1>1. TypeOK' BY DEF Books, TypeOK, Places, Locked, Live
<1>2. OwnOnly(c) BY DEF OwnOnly
<1>3. Respects(c) BY DEF Respects, Sane, Locked
<1>4. Counts(c) BY DEF Counts
<1>5. Sane(c)' BY DEF Sane, Locked, Inside, Committed, Live
<1>6. QED BY <1>1, <1>2, <1>3, <1>4, <1>5 DEF Moves

LEMMA FinishMoves ==
  ASSUME Books, NEW c \in Callers, Finish(c)
  PROVE  Moves(c)
<1> USE AtCaller DEF Finish, Goto, Settled, Expected, timeVars, processVars, brokerVars
<1>1. TypeOK'
  <2>1. /\ answer[c] # "WAITING" => answer[c] \in {"SKIPPED", "ERROR", "ENTERED"}
        /\ watch[c] # Nothing => watch[c] \in Watches
    BY DEF Sane
  <2>2. phase' \in [Watches -> Live \cup {"none", "DONE"}] BY <2>1
  <2>3. result' \in [Watches -> {"SKIPPED", "ERROR", "ENTERED", Nothing}] BY <2>1
  <2>4. pc' \in [Callers -> Places] BY DEF Places, Locked
  <2>5. QED BY <2>2, <2>3, <2>4 DEF Books, TypeOK
<1>2. OwnOnly(c) BY DEF OwnOnly
<1>3. Respects(c) BY DEF Respects, Sane, Locked
<1>4. Counts(c) BY DEF Counts
<1>5. Sane(c)' BY DEF Sane, Locked, Inside, Committed, Live
<1>6. QED BY <1>1, <1>2, <1>3, <1>4, <1>5 DEF Moves

LEMMA UnlockMoves ==
  ASSUME Books, NEW c \in Callers, Unlock(c)
  PROVE  Moves(c)
<1> USE AtCaller DEF Unlock, Goto, Return, timeVars, processVars, brokerVars
<1>1. TypeOK' BY DEF Books, TypeOK, Places, Locked, Live
<1>2. OwnOnly(c) BY DEF OwnOnly
<1>3. Respects(c) BY DEF Respects, Sane, Locked
<1>4. Counts(c) BY DEF Counts
<1>5. Sane(c)' BY DEF Sane, Locked, Inside, Committed, Live
<1>6. QED BY <1>1, <1>2, <1>3, <1>4, <1>5 DEF Moves

LEMMA StoreFailsMoves ==
  ASSUME Books, NEW c \in Callers, StoreFails(c)
  PROVE  Moves(c)
<1> USE AtCaller DEF StoreFails, Goto, timeVars, processVars, brokerVars
<1>1. TypeOK' BY DEF Books, TypeOK, Places, Locked, Live
<1>2. OwnOnly(c) BY DEF OwnOnly
<1>3. Respects(c) BY DEF Respects, Sane, Locked
<1>4. Counts(c) BY DEF Counts
<1>5. Sane(c)' BY DEF Sane, Locked, Inside, Committed, Live
<1>6. QED BY <1>1, <1>2, <1>3, <1>4, <1>5 DEF Moves

LEMMA LeaseLostMoves ==
  ASSUME Books, NEW c \in Callers, LeaseLost(c)
  PROVE  Moves(c)
<1> USE AtCaller DEF LeaseLost, Goto, timeVars
<1>1. TypeOK'
  <2>1. held' \in [Symbols -> Nat] BY OrphansFill, {c} \subseteq Callers
  <2>2. QED BY <2>1 DEF Books, TypeOK, Places, Locked
<1>2. OwnOnly(c) BY DEF OwnOnly
<1>3. Respects(c) BY DEF Respects, Sane, Locked
<1>4. Counts(c) BY DEF Counts
<1>5. Sane(c)' BY DEF Sane, Locked, Inside, Committed, Live
<1>6. QED BY <1>1, <1>2, <1>3, <1>4, <1>5 DEF Moves

LEMMA CancelledMoves ==
  ASSUME Books, NEW c \in Callers, Cancelled(c)
  PROVE  Moves(c)
<1> USE AtCaller DEF Cancelled, Goto, Settled, Expected, timeVars, processVars, brokerVars
<1>1. TypeOK' BY DEF Books, TypeOK, Places, Locked, Live
<1>2. OwnOnly(c) BY DEF OwnOnly
<1>3. Respects(c) BY DEF Respects, Sane, Locked
<1>4. Counts(c) BY DEF Counts
<1>5. Sane(c)' BY DEF Sane, Locked, Inside, Committed, Live
<1>6. QED BY <1>1, <1>2, <1>3, <1>4, <1>5 DEF Moves

LEMMA ArmMoves ==
  ASSUME Books, NEW c \in Callers, NEW w \in Watches, Arm(c, w)
  PROVE  Moves(c)
<1> USE AtCaller DEF Arm, timeVars, processVars, brokerVars
<1>1. TypeOK' BY DEF Books, TypeOK, Places, Locked, Live
<1>2. OwnOnly(c) BY DEF OwnOnly
<1>3. Respects(c) BY DEF Respects, Sane, Locked
<1>4. Counts(c) BY DEF Counts
<1>5. Sane(c)' BY DEF Sane, Locked, Inside, Committed, Live
<1>6. QED BY <1>1, <1>2, <1>3, <1>4, <1>5 DEF Moves

LEMMA PollMoves ==
  ASSUME Books, NEW w \in Watches, Poll(w)
  PROVE  Moves(w)
<1>0. w \in Callers BY DEF Callers
<1> USE AtCaller, <1>0 DEF Poll, Goto, redisVars, timeVars, processVars, brokerVars
<1>1. TypeOK' BY DEF Books, TypeOK, Places, Locked, Live
<1>2. OwnOnly(w) BY DEF OwnOnly
<1>3. Respects(w) BY DEF Respects, Sane, Locked
<1>4. Counts(w) BY DEF Counts
<1>5. Sane(w)'
  <2>1. sym[w] \in Symbols BY EntryAssumption DEF Sane
  <2>2. QED BY <2>1 DEF Sane, Locked, Inside, Committed, Live
<1>6. QED BY <1>1, <1>2, <1>3, <1>4, <1>5 DEF Moves

LEMMA CheckExecutingMoves ==
  ASSUME Books, NEW w \in Watches, CheckExecuting(w)
  PROVE  Moves(w)
<1>0. w \in Callers BY DEF Callers
<1> USE AtCaller, <1>0 DEF CheckExecuting, Goto, Alarmed, timeVars, processVars, brokerVars
<1>1. TypeOK'
  <2>1. kill' \in BOOLEAN OBVIOUS
  <2>2. pc' \in [Callers -> Places] BY DEF Places
  <2>3. QED BY <2>1, <2>2 DEF Books, TypeOK
<1>2. OwnOnly(w) BY DEF OwnOnly
<1>3. Respects(w) BY DEF Respects, Sane, Locked
<1>4. Counts(w) BY DEF Counts
<1>5. Sane(w)' BY DEF Sane, Locked, Inside, Committed, Live
<1>6. QED BY <1>1, <1>2, <1>3, <1>4, <1>5 DEF Moves

LEMMA AlarmMoves ==
  ASSUME Books, NEW w \in Watches, Alarm(w)
  PROVE  Moves(w)
<1>0. w \in Callers BY DEF Callers
<1> USE AtCaller, <1>0 DEF Alarm, Goto, Uncertain, Settled, Expected, timeVars, processVars, brokerVars
<1>1. TypeOK' BY DEF Books, TypeOK, Places, Locked, Live
<1>2. OwnOnly(w) BY DEF OwnOnly
<1>3. Respects(w) BY DEF Respects, Sane, Locked
<1>4. Counts(w) BY DEF Counts
<1>5. Sane(w)' BY DEF Sane, Locked, Inside, Committed, Live
<1>6. QED BY <1>1, <1>2, <1>3, <1>4, <1>5 DEF Moves

LEMMA CheckWaitingMoves ==
  ASSUME Books, NEW w \in Watches, CheckWaiting(w)
  PROVE  Moves(w)
<1>0. w \in Callers BY DEF Callers
<1> USE AtCaller, <1>0 DEF CheckWaiting, Goto, Settled, Expected, timeVars, processVars, brokerVars
<1>1. TypeOK' BY DEF Books, TypeOK, Places, Locked, Live
<1>2. OwnOnly(w) BY DEF OwnOnly
<1>3. Respects(w) BY DEF Respects, Sane, Locked
<1>4. Counts(w) BY DEF Counts
<1>5. Sane(w)' BY DEF Sane, Locked, Inside, Committed, Live
<1>6. QED BY <1>1, <1>2, <1>3, <1>4, <1>5 DEF Moves

LEMMA SettleMoves ==
  ASSUME Books, NEW w \in Watches, Settle(w)
  PROVE  Moves(w)
<1>0. w \in Callers BY DEF Callers
<1> USE AtCaller, <1>0 DEF Settle, Goto, Settled, Expected, timeVars, processVars, brokerVars
<1>1. TypeOK' BY DEF Books, TypeOK, Places, Locked, Live
<1>2. OwnOnly(w) BY DEF OwnOnly
<1>3. Respects(w) BY DEF Respects, Sane, Locked
<1>4. Counts(w) BY DEF Counts
<1>5. Sane(w)' BY DEF Sane, Locked, Inside, Committed, Live
<1>6. QED BY <1>1, <1>2, <1>3, <1>4, <1>5 DEF Moves

\* Every step of a caller is one of those.
LEMMA CallersMove ==
  ASSUME Books, NEW c \in Callers,
         \/ \E s \in Symbols : Arrive(c, s)
         \/ Engine(c) \/ StoreFails(c) \/ LeaseLost(c) \/ Cancelled(c)
         \/ c \in Watches /\ (Poll(c) \/ Check(c))
  PROVE  Moves(c)
<1>1. CASE \E s \in Symbols : Arrive(c, s) BY <1>1, ArriveMoves
<1>2. CASE Engine(c)
  BY <1>2, LockMoves, GuardWatchMoves, GuardAlertMoves, FilterMoves, ArmMoves,
     FindLevelMoves, PriceMoves, ClaimMoves, CountTradeMoves, SendMoves,
     OrderResultMoves, RecordMoves, FinishMoves, UnlockMoves
  DEF Engine
<1>3. CASE StoreFails(c) \/ LeaseLost(c) \/ Cancelled(c)
  BY <1>3, StoreFailsMoves, LeaseLostMoves, CancelledMoves
<1>4. CASE c \in Watches /\ (Poll(c) \/ Check(c))
  BY <1>4, PollMoves, CheckExecutingMoves, AlarmMoves, CheckWaitingMoves, SettleMoves
  DEF Check
<1>5. QED BY <1>1, <1>2, <1>3, <1>4
-----------------------------------------------------------------------------
(* The steps of time, the rest of the program, and failures.               *)

LEMMA OutsideKeepsBooks ==
  ASSUME Books,
         \/ \E w \in Watches : Expire(w) \/ Overdue(w)
         \/ (\E s \in Symbols : Rewrite(s) \/ Close(s)) \/ UserKills \/ UserResumes
  PROVE  Books'
<1>1. /\ UNCHANGED <<callVars, lock, phase, up, sent, placed, count, level, result, crashes,
                     owed>>
      /\ kill => kill' \/ \A c \in Callers : pc[c] # "alarm"
  BY DEF Expire, Overdue, Rewrite, Close, UserKills, UserResumes, redisVars, timeVars,
         processVars, callVars, brokerVars
<1>2. TypeOK'
  <2>0. /\ held \in [Symbols -> Nat] /\ kill \in BOOLEAN
        /\ row \in [Symbols -> BOOLEAN] /\ unwritten \in [Symbols -> BOOLEAN]
        /\ forgotten \in [Symbols -> BOOLEAN]
    BY DEF Books, TypeOK
  <2>1. /\ held' \in [Symbols -> Nat] /\ kill' \in BOOLEAN
        /\ row' \in [Symbols -> BOOLEAN] /\ unwritten' \in [Symbols -> BOOLEAN]
        /\ forgotten' \in [Symbols -> BOOLEAN]
    <3>1. ASSUME NEW s \in Symbols, Close(s)
          PROVE  /\ held' \in [Symbols -> Nat] /\ kill' \in BOOLEAN
                 /\ row' \in [Symbols -> BOOLEAN] /\ unwritten' \in [Symbols -> BOOLEAN]
                 /\ forgotten' \in [Symbols -> BOOLEAN]
      <4>1. (IF held[s] = 0 THEN 0 ELSE held[s] - 1) \in Nat BY <2>0
      <4>2. QED BY <2>0, <3>1, <4>1 DEF Close
    <3>2. CASE UserKills BY <2>0, <3>2 DEF UserKills, processVars, brokerVars
    <3>3. CASE UserResumes BY <2>0, <3>3 DEF UserResumes, processVars
    <3>4. CASE \E w \in Watches : Expire(w) \/ Overdue(w)
      BY <2>0, <3>4 DEF Expire, Overdue, redisVars, processVars, brokerVars
    <3>5. CASE \E s \in Symbols : Rewrite(s)
      BY <2>0, <3>5 DEF Rewrite, brokerVars
    <3>6. QED BY <3>1, <3>2, <3>3, <3>4, <3>5
  <2>2. mem' \in [Symbols -> BOOLEAN]
    <3>0. mem \in [Symbols -> BOOLEAN] BY DEF Books, TypeOK
    <3>1. CASE \E s \in Symbols : Close(s) BY <3>0, <3>1 DEF Close
    <3>2. CASE mem' = mem BY <3>0, <3>2
    <3>3. CASE UserKills \/ UserResumes
      BY <3>2, <3>3 DEF UserKills, UserResumes, processVars
    <3>4. CASE \E w \in Watches : Expire(w) \/ Overdue(w)
      BY <3>2, <3>4 DEF Expire, Overdue, processVars
    <3>5. CASE \E s \in Symbols : Rewrite(s) BY <3>2, <3>5 DEF Rewrite
    <3>6. QED BY <3>1, <3>3, <3>4, <3>5
  <2>3. expired' \in [Watches -> BOOLEAN] /\ overdue' \in [Watches -> BOOLEAN]
    <3>0. expired \in [Watches -> BOOLEAN] /\ overdue \in [Watches -> BOOLEAN]
      BY DEF Books, TypeOK
    <3>1. CASE \E w \in Watches : Expire(w) BY <3>0, <3>1 DEF Expire
    <3>2. CASE \E w \in Watches : Overdue(w) BY <3>0, <3>2 DEF Overdue
    <3>3. CASE UNCHANGED timeVars BY <3>0, <3>3 DEF timeVars
    <3>4. CASE \E s \in Symbols : Rewrite(s) \/ Close(s)
      BY <3>3, <3>4 DEF Rewrite, Close
    <3>5. CASE UserKills \/ UserResumes BY <3>3, <3>5 DEF UserKills, UserResumes
    <3>6. QED BY <3>1, <3>2, <3>4, <3>5
  <2>4. QED BY <1>1, <2>1, <2>2, <2>3 DEF Books, TypeOK, callVars
<1>3. CountCovers' BY <1>1 DEF Books, CountCovers, Sending, callVars
<1>4. UnclaimedUnsent' BY <1>1 DEF Books, UnclaimedUnsent
<1>5. ASSUME NEW c \in Callers PROVE Sane(c)'
  BY <1>1 DEF Books, Sane, callVars
<1>6. Remembers'
  <2>1. \A s \in Symbols : mem'[s] => mem[s]
    <3>1. mem \in [Symbols -> BOOLEAN] BY DEF Books, TypeOK
    <3>2. ASSUME NEW r \in Symbols, Close(r) PROVE \A s \in Symbols : mem'[s] => mem[s]
      BY <3>1, <3>2 DEF Close
    <3>3. CASE mem' = mem BY <3>3
    <3>4. QED
      BY <3>2, <3>3 DEF Expire, Overdue, Rewrite, UserKills, UserResumes, processVars
  <2>2. QED BY <1>1, <2>1 DEF Books, Remembers
<1>7. QED BY <1>2, <1>3, <1>4, <1>5, <1>6 DEF Books

LEMMA DieKeepsBooks ==
  ASSUME Books, Die
  PROVE  Books'
<1>1. /\ \A c \in Callers : pc'[c] = "idle"
      /\ UNCHANGED <<sym, watch, seen, answer, phase, sent, placed, count, kill, level,
                     result, row, expired, overdue>>
  BY DEF Die, timeVars
<1>2. TypeOK'
  <2>1. held' \in [Symbols -> Nat] BY OrphansFill DEF Die
  <2>1a. crashes' \in 0 .. MaxCrashes BY EntryAssumption DEF Die, Books, TypeOK
  <2>2. /\ pc' \in [Callers -> Places] /\ lock' \in [Symbols -> Callers \cup {Nothing}]
        /\ mem' \in [Symbols -> BOOLEAN] /\ up' \in BOOLEAN
        /\ unwritten' \in [Symbols -> BOOLEAN] /\ forgotten' \in [Symbols -> BOOLEAN]
    BY DEF Die, Places, Books, TypeOK
  <2>3. owed' \in BOOLEAN BY DEF Die
  <2>4. QED BY <1>1, <2>1, <2>1a, <2>2, <2>3 DEF Books, TypeOK
<1>3. CountCovers'
  <2>1. Sending' = {} BY <1>1 DEF Sending
  <2>2. IsFiniteSet(Sending') /\ Cardinality(Sending') = 0 BY <2>1, FS_EmptySet
  <2>3. placed <= count
    BY FS_CardinalityType, EntryAssumption DEF Books, CountCovers, TypeOK
  <2>4. QED BY <1>1, <2>2, <2>3 DEF CountCovers, Books, TypeOK
<1>4. UnclaimedUnsent' BY <1>1 DEF Books, UnclaimedUnsent
<1>5. ASSUME NEW c \in Callers PROVE Sane(c)'
  BY <1>1 DEF Books, Sane, Locked, Inside, Committed
<1>6. Remembers' BY DEF Die, Remembers
<1>7. QED BY <1>2, <1>3, <1>4, <1>5, <1>6 DEF Books

LEMMA RestartKeepsBooks ==
  ASSUME Books, Restart
  PROVE  Books'
<1>1. /\ UNCHANGED <<pc, sym, watch, seen, answer, sent, placed, count, lock, unwritten,
                     forgotten>>
      /\ \A c \in Callers : pc[c] = "idle"
  BY DEF Restart, Books, Sane, callVars, brokerVars
<1>2. \A w \in Watches :
        phase'[w] = IF phase[w] = "EXECUTING" THEN "DONE" ELSE phase[w]
  BY DEF Restart, Recovered
<1>3. TypeOK'
  <2>1. phase' \in [Watches -> Live \cup {"none", "DONE"}]
    BY DEF Books, TypeOK, Restart, Recovered
  <2>2. result' \in [Watches -> {"SKIPPED", "ERROR", "ENTERED", Nothing}]
    BY DEF Books, TypeOK, Restart
  <2>3. kill' \in BOOLEAN BY DEF Restart
  <2>4. /\ up' \in BOOLEAN /\ owed' \in BOOLEAN /\ mem' \in [Symbols -> BOOLEAN]
    BY DEF Books, TypeOK, Restart, Rehydrated
  <2>5. QED
    BY <1>1, <2>1, <2>2, <2>3, <2>4 DEF Books, TypeOK, Restart, timeVars, brokerVars
<1>4. CountCovers' BY <1>1 DEF Books, CountCovers, Sending
<1>5. UnclaimedUnsent' BY <1>1, <1>2 DEF Books, UnclaimedUnsent
<1>6. ASSUME NEW c \in Callers PROVE Sane(c)'
  BY <1>1 DEF Books, Sane, Locked, Inside, Committed
<1>7. Remembers' BY DEF Restart, Remembers
<1>8. QED BY <1>3, <1>4, <1>5, <1>6, <1>7 DEF Books
-----------------------------------------------------------------------------
LEMMA InitBooks == Init => Books
<1> SUFFICES ASSUME Init PROVE Books
  OBVIOUS
<1>1. TypeOK
  <2>1. crashes \in 0 .. MaxCrashes /\ count \in 0 .. Limit
    BY EntryAssumption DEF Init
  <2>2. sym \in [Callers -> Symbols \cup {Nothing}] BY EntryAssumption DEF Init
  <2>3. /\ phase \in [Watches -> Live \cup {"none", "DONE"}]
        /\ pc \in [Callers -> Places]
        /\ seen \in [Callers -> Live \cup {"none", "DONE"}]
    BY DEF Init, Places
  <2>4. QED BY <2>1, <2>2, <2>3 DEF Init, TypeOK
<1>2. Sending = {} BY DEF Init, Sending
<1>3. CountCovers BY <1>2, FS_EmptySet DEF Init, CountCovers
<1>4. UnclaimedUnsent BY DEF Init, UnclaimedUnsent
<1>5. ASSUME NEW c \in Callers PROVE Sane(c)
  BY DEF Init, Sane, Locked, Inside, Committed
<1>6. Remembers BY DEF Init, Remembers
<1>7. QED BY <1>1, <1>3, <1>4, <1>5, <1>6 DEF Books

LEMMA BooksKept == Books /\ [Next]_vars => Books'
<1> SUFFICES ASSUME Books, [Next]_vars PROVE Books'
  OBVIOUS
<1>1. CASE \E c \in Callers :
        \/ \E s \in Symbols : Arrive(c, s)
        \/ Engine(c) \/ StoreFails(c) \/ LeaseLost(c) \/ Cancelled(c)
        \/ c \in Watches /\ (Poll(c) \/ Check(c))
  BY <1>1, CallersMove, MovesKeeps
<1>2. CASE \/ \E w \in Watches : Expire(w) \/ Overdue(w)
           \/ (\E s \in Symbols : Rewrite(s) \/ Close(s)) \/ UserKills \/ UserResumes
  BY <1>2, OutsideKeepsBooks
<1>3. CASE Die BY <1>3, DieKeepsBooks
<1>4. CASE Restart BY <1>4, RestartKeepsBooks
<1>5. CASE UNCHANGED vars
  BY <1>5
  DEF vars, redisVars, timeVars, processVars, callVars, brokerVars, Books, TypeOK,
      CountCovers, Sending, UnclaimedUnsent, Remembers, Sane
<1>6. QED BY <1>1, <1>2, <1>3, <1>4, <1>5 DEF Next, Callers

\* Every variable has its type.
THEOREM TypeCorrect == Spec => []TypeOK
<1>1. Books => TypeOK BY DEF Books
<1>2. QED BY InitBooks, BooksKept, <1>1, PTL DEF Spec

\* Not more orders are placed on an alert in a day than its limit, for any number of
\* calls and watches that compete for it, through lost locks and restarts.
THEOREM LimitKept == Spec => []LimitHolds
<1>1. ASSUME Books PROVE LimitHolds
  <2>1. Cardinality(Sending) \in Nat BY <1>1, FS_CardinalityType DEF Books, CountCovers
  <2>2. QED BY <1>1, <2>1, EntryAssumption DEF Books, CountCovers, TypeOK, LimitHolds
<1>2. QED BY InitBooks, BooksKept, <1>1, PTL DEF Spec
-----------------------------------------------------------------------------
(* Locks are given back.                                                    *)

\* Who holds the lock of a symbol is a call of that symbol that has not left it.
HeldInside ==
  \A s \in Symbols : \A c \in Callers : lock[s] = c => pc[c] \in Locked /\ sym[c] = s

LEMMA GivesBack ==
  ASSUME Books, HeldInside, NEW c \in Callers, NEW s \in Symbols, lock'[s] = c,
         \/ \E r \in Symbols : Arrive(c, r)
         \/ Engine(c) \/ StoreFails(c) \/ LeaseLost(c) \/ Cancelled(c)
         \/ c \in Watches /\ (Poll(c) \/ Check(c))
  PROVE  pc'[c] \in Locked /\ sym'[c] = s
<1>1. lock[s] = c => pc[c] \in Locked /\ sym[c] = s BY DEF HeldInside
<1> USE <1>1, AtCaller DEF Goto, Answer, Return, redisVars, processVars, callVars
<1>2. CASE (\E r \in Symbols : Arrive(c, r)) \/ (c \in Watches /\ Poll(c))
  BY <1>2 DEF Arrive, Poll, Locked
<1>3. CASE Lock(c) BY <1>3 DEF Lock, Locked
<1>4. CASE GuardWatch(c) \/ GuardAlert(c) \/ Filter(c)
  BY <1>4 DEF GuardWatch, GuardAlert, Filter, Locked
<1>5. CASE \E w \in Watches : Arm(c, w) BY <1>5 DEF Arm
<1>6. CASE FindLevel(c) BY <1>6 DEF FindLevel, Locked
<1>7. CASE Price(c) BY <1>7 DEF Price, Locked
<1>8. CASE Claim(c) \/ CountTrade(c) \/ Send(c)
  BY <1>8 DEF Claim, CountTrade, Send, Locked
<1>9. CASE OrderResult(c) BY <1>9 DEF OrderResult, Locked
<1>10. CASE Record(c) \/ Finish(c) BY <1>10 DEF Record, Finish, Locked
<1>11. CASE Unlock(c) \/ StoreFails(c) \/ LeaseLost(c)
  <2>1. pc[c] \in Locked /\ lock' = [lock EXCEPT ![sym[c]] = Nothing]
    BY <1>11 DEF Unlock, StoreFails, LeaseLost, Locked
  <2>2. lock'[s] = c => s # sym[c] /\ lock[s] = c BY <2>1
  <2>3. QED BY <2>2
<1>12. CASE Cancelled(c) BY <1>12 DEF Cancelled, Locked
<1>13. CASE c \in Watches /\ Check(c)
  BY <1>13 DEF Check, CheckExecuting, Alarm, CheckWaiting, Settle, Locked
<1>14. QED
  BY <1>2, <1>3, <1>4, <1>5, <1>6, <1>7, <1>8, <1>9, <1>10, <1>11, <1>12, <1>13 DEF Engine

LEMMA TakesOwn ==
  ASSUME Books, NEW c \in Callers, NEW s \in Symbols,
         \/ \E r \in Symbols : Arrive(c, r)
         \/ Engine(c) \/ StoreFails(c) \/ LeaseLost(c) \/ Cancelled(c)
         \/ c \in Watches /\ (Poll(c) \/ Check(c))
  PROVE  lock'[s] \in {lock[s], c, Nothing}
<1>1. CASE Lock(c) BY <1>1, AtCaller DEF Lock
<1>2. CASE Unlock(c) \/ StoreFails(c) \/ LeaseLost(c)
  BY <1>2, AtCaller DEF Unlock, StoreFails, LeaseLost
<1>3. CASE lock' = lock BY <1>3
<1>4. QED
  BY <1>1, <1>2, <1>3
  DEF Arrive, Engine, GuardWatch, GuardAlert, Filter, Arm, FindLevel, Price, Claim,
      CountTrade, Send, OrderResult, Record, Finish, Cancelled, Poll, Check, CheckExecuting,
      Alarm, CheckWaiting, Settle, redisVars

\* A symbol's entry lock is held only by a call of that symbol that is still under it:
\* no refusal, failure, cancellation or death leaves a symbol locked.
THEOREM LocksAreGivenBack == Spec => []HeldInside
<1>1. Init => HeldInside BY EntryAssumption DEF Init, HeldInside
<1>2. Books /\ HeldInside /\ [Next]_vars => HeldInside'
  <2> SUFFICES ASSUME Books, HeldInside, [Next]_vars PROVE HeldInside'
    OBVIOUS
  <2>1. ASSUME NEW c \in Callers,
               \/ \E s \in Symbols : Arrive(c, s)
               \/ Engine(c) \/ StoreFails(c) \/ LeaseLost(c) \/ Cancelled(c)
               \/ c \in Watches /\ (Poll(c) \/ Check(c))
        PROVE  HeldInside'
    <3>1. Moves(c) BY <2>1, CallersMove
    <3>2. ASSUME NEW s \in Symbols, NEW d \in Callers, d # c, lock'[s] = d
          PROVE  pc'[d] \in Locked /\ sym'[d] = s
      <4>1. lock[s] = d BY <2>1, <3>2, TakesOwn, EntryAssumption
      <4>2. pc'[d] = pc[d] /\ sym'[d] = sym[d]
        BY <3>1, <3>2, AtCaller DEF Moves, OwnOnly
      <4>3. QED BY <4>1, <4>2 DEF HeldInside
    <3>3. ASSUME NEW s \in Symbols, lock'[s] = c PROVE pc'[c] \in Locked /\ sym'[c] = s
      BY <2>1, <3>3, GivesBack
    <3>4. QED BY <3>2, <3>3 DEF HeldInside
  <2>2. CASE \/ \E w \in Watches : Expire(w) \/ Overdue(w)
             \/ (\E s \in Symbols : Rewrite(s) \/ Close(s)) \/ UserKills \/ UserResumes
             \/ Restart \/ UNCHANGED vars
    <3>1. UNCHANGED <<lock, pc, sym>>
      BY <2>2 DEF Expire, Overdue, Rewrite, Close, UserKills, UserResumes, Restart,
                  redisVars, callVars, vars
    <3>2. QED BY <3>1 DEF HeldInside
  <2>3. CASE Die BY <2>3, EntryAssumption DEF Die, HeldInside
  <2>4. QED BY <2>1, <2>2, <2>3 DEF Next, Callers
<1>3. QED BY InitBooks, BooksKept, <1>1, <1>2, PTL DEF Spec
-----------------------------------------------------------------------------
(* Where an entry is known.                                                *)

\* A step that leaves what is held, recorded and in memory alone.
LEMMA QuietKeepsKnown ==
  ASSUME Books, Known, NEW c \in Callers, Moves(c), up,
         UNCHANGED <<held, row, mem, unwritten, forgotten>>, pc[c] # "record", Clear(c)'
  PROVE  Known'
<1>1. \A d \in Callers : d # c =>
        /\ pc'[d] = pc[d] /\ sym'[d] = sym[d] /\ watch'[d] = watch[d]
        /\ seen'[d] = seen[d] /\ answer'[d] = answer[d]
  BY DEF Moves, OwnOnly, Books, TypeOK
<1>2. ASSUME NEW d \in Callers PROVE Clear(d)'
  BY <1>1 DEF Known, Clear
<1>3. ASSUME NEW s \in Symbols PROVE Accounted(s)'
  BY DEF Known, Accounted, Moves, Respects
<1>4. ASSUME NEW s \in Symbols PROVE AboutToRecord(s)'
  BY <1>1 DEF Known, AboutToRecord, Moves, Respects
<1>5. ASSUME NEW s \in Symbols PROVE OneHeld(s)' BY DEF Known, OneHeld
<1>6. QED BY <1>2, <1>3, <1>4, <1>5 DEF Known

LEMMA EngineKeepsKnown ==
  ASSUME Books, Known, NEW c \in Callers, Engine(c), ~OrderResult(c), ~Record(c)
  PROVE  Known'
<1> USE AtCaller
<1>1. Moves(c) BY CallersMove
<1>2. Clear(c) /\ (sym[c] \in Symbols => Accounted(sym[c])) BY DEF Known
<1>3. CASE Lock(c)
  <2>1. up /\ sym[c] \in Symbols BY <1>3 DEF Sane, Lock
  <2>2. UNCHANGED <<held, row, mem, unwritten, forgotten>> /\ pc[c] # "record" /\ sym' = sym
    BY <1>3 DEF Lock, brokerVars, processVars
  <2>3. pc'[c] = "guard" => ~kill
    BY <1>3 DEF Lock, Goto, Return
  <2>4. pc'[c] \in {"idle", "settle", "guard"} BY <1>3 DEF Lock, Goto, Return
  <2>5. Clear(c)'
    BY <1>2, <2>1, <2>2, <2>3, <2>4 DEF Clear, Accounted, Books, TypeOK
  <2>6. QED BY <1>1, <2>1, <2>2, <2>5, QuietKeepsKnown
<1>4. CASE GuardWatch(c) \/ GuardAlert(c)
  <2>1. up /\ UNCHANGED <<held, row, mem, unwritten, forgotten, sym>> /\ pc[c] = "guard"
    BY <1>4 DEF Sane, GuardWatch, GuardAlert, redisVars, processVars, brokerVars
  <2>2. pc'[c] \in {"finish", "filter"}
    BY <1>4 DEF GuardWatch, GuardAlert, Goto, Answer
  <2>3. pc'[c] = "finish" /\ watch'[c] # Nothing => seen'[c] # "EXECUTING"
    BY <1>4 DEF GuardWatch, GuardAlert, Sane
  <2>4. Clear(c)' BY <1>2, <2>1, <2>2, <2>3 DEF Clear
  <2>5. QED BY <1>1, <2>1, <2>4, QuietKeepsKnown
<1>5. CASE Filter(c)
  <2>1. up /\ UNCHANGED <<held, row, mem, unwritten, forgotten, sym>> /\ pc[c] = "filter"
    BY <1>5 DEF Sane, Filter, redisVars, processVars, brokerVars
  <2>2. \/ pc'[c] = "finish"
        \/ pc'[c] \in {"level", "feed"} /\ ~AlreadyOpen(sym[c])
    BY <1>5 DEF Filter, Goto, Answer
  <2>3. watch'[c] # Nothing => seen'[c] # "EXECUTING" BY <1>5 DEF Filter, Sane
  <2>4. Clear(c)' BY <1>2, <2>1, <2>2, <2>3 DEF Clear, AlreadyOpen
  <2>5. QED BY <1>1, <2>1, <2>4, QuietKeepsKnown
<1>6. CASE \/ \E w \in Watches : Arm(c, w)
           \/ FindLevel(c) \/ Price(c) \/ Claim(c) \/ CountTrade(c) \/ Send(c)
  <2>1. pc[c] \in {"level", "feed", "check", "limit", "send"}
    BY <1>6 DEF Arm, FindLevel, Price, Claim, CountTrade, Send
  <2>2. up /\ UNCHANGED <<held, row, mem, unwritten, forgotten, sym>>
    BY <1>6, <2>1
    DEF Sane, Arm, FindLevel, Price, Claim, CountTrade, Send, redisVars, processVars,
        brokerVars
  <2>3. pc'[c] \in {"level", "feed", "check", "limit", "send", "order", "finish"}
    BY <1>6 DEF Arm, FindLevel, Price, Claim, CountTrade, Send, Goto, Answer
  <2>4. Clear(c)' BY <1>2, <2>1, <2>2, <2>3 DEF Clear
  <2>5. QED BY <1>1, <2>1, <2>2, <2>4, QuietKeepsKnown
<1>7. CASE Finish(c) \/ Unlock(c)
  <2>1. pc[c] \in {"finish", "unlock"} BY <1>7 DEF Finish, Unlock
  <2>2. up /\ UNCHANGED <<held, row, mem, unwritten, forgotten, sym>>
    BY <1>7, <2>1 DEF Sane, Finish, Unlock, processVars, brokerVars
  <2>3. pc'[c] \in {"unlock", "settle", "idle"}
    BY <1>7 DEF Finish, Unlock, Goto, Return
  <2>4. Clear(c)' BY <2>3 DEF Clear
  <2>5. QED BY <1>1, <2>1, <2>2, <2>4, QuietKeepsKnown
<1>8. QED BY <1>3, <1>4, <1>5, <1>6, <1>7 DEF Engine

LEMMA OthersKeepKnown ==
  ASSUME Books, Known, NEW c \in Callers,
         \/ \E s \in Symbols : Arrive(c, s)
         \/ StoreFails(c) \/ Cancelled(c)
         \/ c \in Watches /\ (Poll(c) \/ Check(c))
  PROVE  Known'
<1> USE AtCaller
<1>1. Moves(c) BY CallersMove
<1>2. up /\ UNCHANGED <<held, row, mem, unwritten, forgotten>> /\ pc[c] # "record"
  BY DEF Sane, Arrive, StoreFails, Cancelled, Poll, Check, CheckExecuting, Alarm,
         CheckWaiting, Settle, redisVars, processVars, brokerVars
<1>3. pc'[c] \in {"idle", "lock", "polled", "alarm", "settle"}
  BY DEF Arrive, StoreFails, Cancelled, Poll, Check, CheckExecuting, Alarm,
         CheckWaiting, Settle, Goto
<1>4. Clear(c)' BY <1>3 DEF Clear
<1>5. QED BY <1>1, <1>2, <1>4, QuietKeepsKnown

\* An order that comes back raises what is held of a symbol of which nothing was, and no
\* other caller is under that symbol's lock.
LEMMA AloneUnderLock ==
  ASSUME Books, NEW c \in Callers, pc[c] \in Locked, NEW d \in Callers, d # c,
         pc[d] \in Locked
  PROVE  sym[d] # sym[c]
BY DEF Books, Sane

LEMMA OrderResultKeepsKnown ==
  ASSUME "lost" \notin Outcomes, Books, Known, NEW c \in Callers, OrderResult(c)
  PROVE  Known'
<1> USE AtCaller
<1>1. Moves(c) BY CallersMove DEF Engine
<1>2. /\ pc[c] = "order" /\ pc[c] \in Locked /\ up /\ sym[c] \in Symbols
      /\ ~mem[sym[c]] /\ (held[sym[c]] = 0 \/ forgotten[sym[c]])
      /\ UNCHANGED <<row, sym, up, owed, phase, unwritten, forgotten>>
  BY DEF OrderResult, Sane, Locked, Known, Clear
<1>3. PICK o \in Outcomes : \E n \in {0, 1} :
        /\ held' = [held EXCEPT ![sym[c]] = @ + n]
        /\ kill' = (kill \/ o = "uncertain")
        /\ o = "filled" => mem' = [mem EXCEPT ![sym[c]] = TRUE] /\ pc'[c] = "record"
        /\ o # "filled" => mem' = mem /\ pc'[c] = "finish"
        /\ o = "unfilled" => n = 0
  BY DEF OrderResult, Goto, Answer
<1>4. o \in {"filled", "unfilled", "uncertain"} BY EntryAssumption
<1>5. /\ held \in [Symbols -> Nat] /\ mem \in [Symbols -> BOOLEAN]
      /\ row \in [Symbols -> BOOLEAN]
  BY DEF Books, TypeOK
<1>6. \A s \in Symbols : s # sym[c] => held'[s] = held[s] /\ mem'[s] = mem[s]
  BY <1>3, <1>5
<1>7. \A d \in Callers : d # c =>
        /\ pc'[d] = pc[d] /\ watch'[d] = watch[d] /\ seen'[d] = seen[d]
        /\ answer'[d] = answer[d]
  BY <1>1 DEF Moves, OwnOnly
<1>8. ASSUME NEW d \in Callers PROVE Clear(d)'
  <2>1. CASE d = c BY <1>2, <1>3, <2>1 DEF Clear
  <2>2. CASE d # c /\ pc[d] \in Locked
    <3>1. sym[d] # sym[c] /\ sym[d] \in Symbols
      BY <1>2, <2>2, AloneUnderLock DEF Books, Sane, Locked
    <3>2. QED BY <1>2, <1>6, <1>7, <2>2, <3>1 DEF Known, Clear
  <2>3. CASE d # c /\ pc[d] \notin Locked
    BY <1>7, <2>3 DEF Clear, Locked
  <2>4. QED BY <2>1, <2>2, <2>3
<1>9. OneHeld(sym[c])' BY <1>2, <1>3, <1>5 DEF OneHeld
<1>10. Accounted(sym[c])' /\ AboutToRecord(sym[c])'
  <2>1. CASE o = "unfilled"
    <3>1. held'[sym[c]] = 0 \/ forgotten'[sym[c]] BY <1>2, <1>3, <1>5, <2>1
    <3>2. QED BY <1>2, <3>1 DEF Accounted, AboutToRecord
  <2>2. CASE o = "uncertain"
    <3>1. kill' /\ ~mem'[sym[c]] BY <1>2, <1>3, <2>2
    <3>2. QED BY <1>2, <3>1 DEF Accounted, AboutToRecord
  <2>3. CASE o = "filled"
    <3>1. mem'[sym[c]] /\ pc'[c] = "record" /\ sym'[c] = sym[c]
      BY <1>2, <1>3, <1>5, <2>3
    <3>2. QED BY <1>2, <3>1 DEF Accounted, AboutToRecord
  <2>4. QED BY <1>4, <2>1, <2>2, <2>3
<1>11. ASSUME NEW s \in Symbols, s # sym[c]
       PROVE  Accounted(s)' /\ AboutToRecord(s)' /\ OneHeld(s)'
  <2>1. Accounted(s) /\ AboutToRecord(s) /\ OneHeld(s) BY DEF Known
  <2>2. (kill => kill') /\ row' = row /\ up' = up BY <1>2, <1>3
  <2>3. Accounted(s)' BY <1>2, <1>6, <1>11, <2>1, <2>2 DEF Accounted, Interrupted
  <2>4. AboutToRecord(s)'
    BY <1>2, <1>6, <1>7, <1>11, <2>1, <2>2 DEF AboutToRecord
  <2>5. OneHeld(s)' BY <1>2, <1>6, <1>11, <2>1 DEF OneHeld
  <2>6. QED BY <2>3, <2>4, <2>5
<1>12. QED BY <1>2, <1>8, <1>9, <1>10, <1>11 DEF Known

LEMMA RecordKeepsKnown ==
  ASSUME Books, Known, NEW c \in Callers, Record(c)
  PROVE  Known'
<1> USE AtCaller
<1>1. /\ pc[c] = "record" /\ sym[c] \in Symbols
      /\ \/ row' = [row EXCEPT ![sym[c]] = TRUE] /\ unwritten' = unwritten
         \/ row' = row /\ unwritten' = [unwritten EXCEPT ![sym[c]] = TRUE]
      /\ pc' = [pc EXCEPT ![c] = "finish"]
      /\ answer' = [answer EXCEPT ![c] = "ENTERED"]
      /\ UNCHANGED <<held, mem, kill, sym, watch, seen, up, owed, phase, forgotten>>
  BY DEF Record, Answer, Goto, Sane, brokerVars
<1>2. row \in [Symbols -> BOOLEAN] /\ unwritten \in [Symbols -> BOOLEAN]
  BY DEF Books, TypeOK
<1>3. \A s \in Symbols :
        /\ (row[s] => row'[s]) /\ (unwritten[s] => unwritten'[s])
        /\ s = sym[c] => row'[s] \/ unwritten'[s]
  BY <1>1, <1>2
<1>4. ASSUME NEW d \in Callers PROVE Clear(d)'
  <2>1. CASE d = c BY <1>1, <2>1 DEF Clear
  <2>2. CASE d # c
    <3>1. pc'[d] = pc[d] /\ answer'[d] = answer[d] BY <1>1, <2>2
    <3>2. pc[d] \in {"guard", "filter"} => (row[sym[d]] => row'[sym[d]])
      BY <1>3 DEF Books, Sane
    <3>3. QED BY <1>1, <3>1, <3>2 DEF Known, Clear
  <2>3. QED BY <2>1, <2>2
<1>5. ASSUME NEW s \in Symbols PROVE Accounted(s)'
  BY <1>1, <1>3 DEF Known, Accounted, Interrupted
<1>6. ASSUME NEW s \in Symbols PROVE AboutToRecord(s)'
  BY <1>1, <1>3 DEF Known, AboutToRecord
<1>7. ASSUME NEW s \in Symbols PROVE OneHeld(s)' BY <1>1 DEF Known, OneHeld
<1>8. QED BY <1>4, <1>5, <1>6, <1>7 DEF Known

LEMMA LeaseLostKeepsKnown ==
  ASSUME Books, Known, NEW c \in Callers, LeaseLost(c)
  PROVE  Known'
<1> USE AtCaller
<1>1. /\ pc[c] \in Locked /\ kill' /\ pc' = [pc EXCEPT ![c] = "cancelled"]
      /\ unwritten' = [unwritten EXCEPT ![sym[c]] = @ \/ pc[c] = "record"]
      /\ UNCHANGED <<row, mem, forgotten, sym, watch, seen, answer>> /\ Orphaned({c})
      /\ sym[c] \in Symbols
  BY DEF LeaseLost, Goto, Sane, Locked
<1>2. \A s \in Symbols :
        \/ held'[s] = held[s]
        \/ held'[s] = held[s] + 1 /\ pc[c] = "order" /\ sym[c] = s
  <2>1. {c} \in SUBSET Callers OBVIOUS
  <2>2. QED BY <1>1, <2>1, OrphansFill
<1>3. ASSUME NEW d \in Callers PROVE Clear(d)'
  <2>1. CASE d = c BY <1>1, <2>1 DEF Clear
  <2>2. CASE d # c /\ pc[d] \in Locked
    <3>1. sym[d] # sym[c] /\ sym[d] \in Symbols
      BY <1>1, <2>2, AloneUnderLock DEF Books, Sane, Locked
    <3>2. pc'[d] = pc[d] /\ held'[sym[d]] = held[sym[d]] BY <1>1, <1>2, <2>2, <3>1
    <3>3. QED BY <1>1, <3>2 DEF Known, Clear
  <2>3. CASE d # c /\ pc[d] \notin Locked
    BY <1>1, <2>3 DEF Clear, Locked
  <2>4. QED BY <2>1, <2>2, <2>3
<1>4. ASSUME NEW s \in Symbols
      PROVE  Accounted(s)' /\ AboutToRecord(s)' /\ OneHeld(s)'
  <2>1. AboutToRecord(s) /\ OneHeld(s) BY DEF Known
  <2>2. CASE held'[s] = held[s]
    <3>1. unwritten \in [Symbols -> BOOLEAN] BY DEF Books, TypeOK
    <3>2. unwritten[s] \/ (pc[c] = "record" /\ sym[c] = s) => unwritten'[s]
      BY <1>1, <3>1
    <3>3. AboutToRecord(s)' BY <1>1, <2>1, <2>2, <3>2 DEF AboutToRecord
    <3>4. QED BY <1>1, <2>1, <2>2, <3>3 DEF Accounted, OneHeld
  <2>3. CASE held'[s] # held[s]
    <3>1. /\ held'[s] = held[s] + 1 /\ ~mem[s] /\ (held[s] = 0 \/ forgotten[s])
      BY <1>2, <2>3 DEF Known, Clear
    <3>2. QED BY <1>1, <3>1 DEF Accounted, AboutToRecord, OneHeld
  <2>4. QED BY <2>2, <2>3
<1>5. QED BY <1>3, <1>4 DEF Known

LEMMA OutsideKeepsKnown ==
  ASSUME Books, Known,
         \/ \E w \in Watches : Expire(w) \/ Overdue(w)
         \/ (\E s \in Symbols : Rewrite(s) \/ Close(s)) \/ UserKills \/ UserResumes
  PROVE  Known'
<1>1. /\ held \in [Symbols -> Nat] /\ row \in [Symbols -> BOOLEAN]
      /\ mem \in [Symbols -> BOOLEAN] /\ unwritten \in [Symbols -> BOOLEAN]
      /\ \A c \in Callers : pc[c] # "idle" => sym[c] \in Symbols
  BY DEF Books, TypeOK, Sane
<1>2. UNCHANGED <<callVars, up, owed, phase>>
  BY DEF Expire, Overdue, Rewrite, Close, UserKills, UserResumes, redisVars, timeVars,
         processVars, callVars, brokerVars
<1>3. CASE (\E w \in Watches : Expire(w) \/ Overdue(w)) \/ UserKills
  <2>1. UNCHANGED <<held, row, mem, unwritten, forgotten>> /\ (kill => kill')
    BY <1>3 DEF Expire, Overdue, UserKills, redisVars, processVars, brokerVars
  <2>2. \A c \in Callers : Clear(c)' BY <1>2, <2>1 DEF Known, Clear, callVars
  <2>3. \A s \in Symbols : Accounted(s)' BY <1>2, <2>1 DEF Known, Accounted, Interrupted
  <2>4. \A s \in Symbols : AboutToRecord(s)'
    BY <1>2, <2>1 DEF Known, AboutToRecord, callVars
  <2>5. \A s \in Symbols : OneHeld(s)' BY <2>1 DEF Known, OneHeld
  <2>6. QED BY <2>2, <2>3, <2>4, <2>5 DEF Known
<1>4. ASSUME NEW r \in Symbols, Close(r) PROVE Known'
  <2>1. /\ held' = [held EXCEPT ![r] = IF @ = 0 THEN 0 ELSE @ - 1]
        /\ row' = [row EXCEPT ![r] = FALSE] /\ unwritten' = [unwritten EXCEPT ![r] = FALSE]
        /\ kill' = kill /\ forgotten' = forgotten
        /\ \A s \in Symbols : mem'[s] => mem[s]
        /\ \A s \in Symbols : s # r => mem'[s] = mem[s]
    BY <1>1, <1>4 DEF Close
  <2>2. held'[r] = 0 \/ forgotten[r]
    <3>1. OneHeld(r) BY DEF Known
    <3>2. QED BY <1>1, <2>1, <3>1 DEF OneHeld
  <2>3. \A s \in Symbols : s # r =>
          /\ held'[s] = held[s] /\ row'[s] = row[s] /\ mem'[s] = mem[s]
          /\ unwritten'[s] = unwritten[s]
    BY <1>1, <2>1
  <2>4. ASSUME NEW c \in Callers PROVE Clear(c)'
    BY <1>1, <1>2, <2>1, <2>2, <2>3 DEF Known, Clear, callVars
  <2>5. ASSUME NEW s \in Symbols
        PROVE  Accounted(s)' /\ AboutToRecord(s)' /\ OneHeld(s)'
    <3>1. CASE s = r BY <2>1, <2>2, <3>1 DEF Accounted, AboutToRecord, OneHeld
    <3>2. CASE s # r
      <4>1. Accounted(s) /\ AboutToRecord(s) /\ OneHeld(s) BY DEF Known
      <4>2. Accounted(s)' BY <1>2, <2>1, <2>3, <3>2, <4>1 DEF Accounted, Interrupted
      <4>3. AboutToRecord(s)'
        BY <1>2, <2>1, <2>3, <3>2, <4>1 DEF AboutToRecord, callVars
      <4>4. OneHeld(s)' BY <2>1, <2>3, <3>2, <4>1 DEF OneHeld
      <4>5. QED BY <4>2, <4>3, <4>4
    <3>3. QED BY <3>1, <3>2
  <2>6. QED BY <2>4, <2>5 DEF Known
<1>5. CASE UserResumes
  <2>1. /\ \A s \in Symbols :
             /\ held'[s] = IF row[s] \/ mem[s] THEN held[s] ELSE 0
             /\ forgotten'[s] = (forgotten[s] /\ (row[s] \/ mem[s]))
        /\ UNCHANGED <<row, mem, unwritten>>
    BY <1>5 DEF UserResumes, processVars
  <2>2. ASSUME NEW c \in Callers PROVE Clear(c)'
    BY <1>1, <1>2, <2>1 DEF Known, Clear, callVars
  <2>3. ASSUME NEW s \in Symbols
        PROVE  Accounted(s)' /\ AboutToRecord(s)' /\ OneHeld(s)'
    <3>1. AboutToRecord(s) /\ OneHeld(s) BY DEF Known
    <3>2. CASE row[s] \/ mem[s]
      BY <1>2, <2>1, <3>1, <3>2 DEF Accounted, AboutToRecord, OneHeld, callVars
    <3>3. CASE ~(row[s] \/ mem[s])
      BY <2>1, <3>3 DEF Accounted, AboutToRecord, OneHeld
    <3>4. QED BY <3>2, <3>3
  <2>4. QED BY <2>2, <2>3 DEF Known
<1>6. ASSUME NEW r \in Symbols, Rewrite(r) PROVE Known'
  <2>1. /\ row' = [row EXCEPT ![r] = TRUE] /\ unwritten' = [unwritten EXCEPT ![r] = FALSE]
        /\ UNCHANGED <<held, mem, forgotten, kill>>
    BY <1>6 DEF Rewrite, brokerVars
  <2>2. row'[r] /\ \A s \in Symbols : s # r =>
          row'[s] = row[s] /\ unwritten'[s] = unwritten[s]
    BY <1>1, <2>1
  <2>3. ASSUME NEW c \in Callers PROVE Clear(c)'
    BY <1>1, <1>2, <2>1, <2>2 DEF Known, Clear, callVars
  <2>4. ASSUME NEW s \in Symbols PROVE Accounted(s)'
    BY <1>2, <2>1, <2>2 DEF Known, Accounted, Interrupted
  <2>5. ASSUME NEW s \in Symbols PROVE AboutToRecord(s)'
    BY <1>2, <2>1, <2>2 DEF Known, AboutToRecord, callVars
  <2>6. ASSUME NEW s \in Symbols PROVE OneHeld(s)' BY <2>1 DEF Known, OneHeld
  <2>7. QED BY <2>3, <2>4, <2>5, <2>6 DEF Known
<1>7. QED BY <1>3, <1>4, <1>5, <1>6

LEMMA DieKeepsKnown ==
  ASSUME Books, Known, Die
  PROVE  Known'
<1>1. /\ \A c \in Callers : pc'[c] = "idle"
      /\ \A s \in Symbols : ~mem'[s]
      /\ UNCHANGED <<phase, kill, row>> /\ up /\ ~up'
      /\ owed' = (owed \/ \E c \in Calls : pc[c] # "idle")
      /\ \A s \in Symbols : forgotten'[s] = (forgotten[s] \/ unwritten[s])
      /\ Orphaned(Callers)
  BY DEF Die
<1>2. ASSUME NEW c \in Callers, pc[c] \in Committed PROVE Interrupted'
  <2>1. CASE c \in Calls BY <1>1, <1>2, <2>1 DEF Interrupted, Committed
  <2>2. CASE c \in Watches BY <1>1, <1>2, <2>2 DEF Interrupted, Books, Sane
  <2>3. QED BY <2>1, <2>2 DEF Callers
<1>3. \A s \in Symbols :
        \/ held'[s] = held[s]
        \/ /\ held'[s] = held[s] + 1
           /\ \E c \in Callers : pc[c] = "order" /\ sym[c] = s
  BY <1>1, OrphansFill
<1>4. ASSUME NEW s \in Symbols
      PROVE  Accounted(s)' /\ AboutToRecord(s)' /\ OneHeld(s)'
  <2>1. Accounted(s) /\ AboutToRecord(s) /\ OneHeld(s) BY DEF Known
  <2>2. AboutToRecord(s)' BY <1>1 DEF AboutToRecord
  <2>3. CASE held'[s] = held[s]
    <3>0. OneHeld(s)' BY <1>1, <2>1, <2>3 DEF OneHeld
    <3>1. CASE held[s] > 0 /\ ~row[s] /\ ~kill /\ ~forgotten'[s]
      <4>1. mem[s] /\ ~unwritten[s] /\ ~forgotten[s]
        BY <1>1, <2>1, <3>1 DEF Accounted
      <4>2. PICK c \in Callers : pc[c] = "record" BY <2>1, <3>1, <4>1 DEF AboutToRecord
      <4>3. Interrupted' BY <1>2, <4>2 DEF Committed
      <4>4. QED BY <1>1, <2>2, <2>3, <3>0, <4>3 DEF Accounted
    <3>2. CASE ~(held[s] > 0 /\ ~row[s] /\ ~kill /\ ~forgotten'[s])
      BY <1>1, <2>2, <2>3, <3>0, <3>2 DEF Accounted
    <3>3. QED BY <3>1, <3>2
  <2>4. CASE held'[s] # held[s]
    <3>1. PICK c \in Callers : pc[c] = "order" /\ sym[c] = s BY <1>3, <2>4
    <3>2. held[s] = 0 \/ forgotten[s] BY <3>1 DEF Known, Clear
    <3>3. Interrupted'
      <4>1. CASE c \in Calls BY <1>1, <3>1, <4>1 DEF Interrupted
      <4>2. CASE c \in Watches
        BY <1>1, <3>1, <4>2 DEF Interrupted, Books, Sane, Committed
      <4>3. QED BY <4>1, <4>2 DEF Callers
    <3>4. Accounted(s)' BY <1>1, <3>3 DEF Accounted
    <3>5. OneHeld(s)'
      <4>1. held'[s] = held[s] + 1 BY <1>3, <2>4
      <4>2. forgotten[s] => forgotten'[s] BY <1>1, Zenon
      <4>3. CASE forgotten[s] BY <4>2, <4>3 DEF OneHeld
      <4>4. CASE held[s] = 0 BY <4>1, <4>4 DEF OneHeld
      <4>5. QED BY <3>2, <4>3, <4>4
    <3>6. QED BY <2>2, <3>4, <3>5
  <2>5. QED BY <2>3, <2>4
<1>5. ASSUME NEW c \in Callers PROVE Clear(c)' BY <1>1 DEF Clear
<1>6. QED BY <1>4, <1>5 DEF Known

LEMMA RestartKeepsKnown ==
  ASSUME Books, Known, Restart
  PROVE  Known'
<1>1. /\ UNCHANGED <<pc, held, forgotten, row>> /\ \A c \in Callers : pc[c] = "idle"
      /\ mem' = row /\ ~up
      /\ kill' = (kill \/ owed \/ \E w \in Watches : phase[w] = "EXECUTING")
  BY DEF Restart, Rehydrated, Doubt, Books, Sane, callVars, brokerVars
<1>2. \A c \in Callers : Clear(c)' BY <1>1 DEF Clear
<1>3. ASSUME NEW s \in Symbols PROVE Accounted(s)' /\ AboutToRecord(s)' /\ OneHeld(s)'
  <2>1. Accounted(s)'
    <3>1. ~mem[s] BY <1>1 DEF Books, Remembers
    <3>2. QED BY <1>1, <3>1 DEF Known, Accounted, Interrupted
  <2>2. AboutToRecord(s)'
    <3>1. mem'[s] = row'[s] BY <1>1
    <3>2. QED BY <3>1, Zenon DEF AboutToRecord
  <2>3. OneHeld(s)'
    <3>1. OneHeld(s) BY DEF Known
    <3>2. QED BY <1>1, <3>1 DEF OneHeld
  <2>4. QED BY <2>1, <2>2, <2>3
<1>4. QED BY <1>1, <1>2, <1>3 DEF Known

LEMMA InitKnown == Init => Known
<1> SUFFICES ASSUME Init PROVE Known
  OBVIOUS
<1>1. \A c \in Callers : Clear(c) BY DEF Init, Clear
<1>2. \A s \in Symbols : Accounted(s) /\ AboutToRecord(s) /\ OneHeld(s)
  BY DEF Init, Accounted, AboutToRecord, OneHeld
<1>3. QED BY <1>1, <1>2 DEF Known

LEMMA KnownKept ==
  ASSUME "lost" \notin Outcomes, Books, Known, [Next]_vars
  PROVE  Known'
<1>1. CASE \E c \in Callers : Engine(c)
  BY <1>1, EngineKeepsKnown, OrderResultKeepsKnown, RecordKeepsKnown
<1>2. CASE \E c \in Callers :
        \/ \E s \in Symbols : Arrive(c, s)
        \/ StoreFails(c) \/ Cancelled(c)
        \/ c \in Watches /\ (Poll(c) \/ Check(c))
  BY <1>2, OthersKeepKnown
<1>3. CASE \E c \in Callers : LeaseLost(c) BY <1>3, LeaseLostKeepsKnown
<1>4. CASE \/ \E w \in Watches : Expire(w) \/ Overdue(w)
           \/ (\E s \in Symbols : Rewrite(s) \/ Close(s)) \/ UserKills \/ UserResumes
  BY <1>4, OutsideKeepsKnown
<1>5. CASE Die \/ Restart BY <1>5, DieKeepsKnown, RestartKeepsKnown
<1>6. CASE UNCHANGED vars
  BY <1>6
  DEF vars, redisVars, timeVars, processVars, callVars, brokerVars, Known, Clear,
      Accounted, AboutToRecord, OneHeld, Interrupted
<1>7. QED BY <1>1, <1>2, <1>3, <1>4, <1>5, <1>6 DEF Next, Callers

\* If no reply to an order is lost for good, a symbol is never entered while an entry of it
\* is held that was not forgotten, for any number of calls, watches and restarts.
THEOREM EnteredAtMostOnce == ASSUME "lost" \notin Outcomes PROVE Spec => []EnteredOnce
<1>1. Books /\ Known /\ [Next]_vars => Books' /\ Known' BY BooksKept, KnownKept
<1>2. Known => EnteredOnce BY DEF Known, EnteredOnce, OneHeld
<1>3. QED BY InitBooks, InitKnown, <1>1, <1>2, PTL DEF Spec

\* No claimed watch is settled in silence while its order is out or its entry unknown,
\* for any number of calls, watches and restarts.
THEOREM NothingLostInSilence ==
  ASSUME "lost" \notin Outcomes PROVE Spec => NoSilentLoss
<1>1. ASSUME Books, Known, Next, NEW w \in Watches,
             phase[w] = "EXECUTING", phase'[w] = "DONE", result'[w] # "ENTERED",
             held[SymbolOf[w]] > 0, ~row[SymbolOf[w]], ~forgotten[SymbolOf[w]]
      PROVE  kill'
  <2>1. phase \in [Watches -> Live \cup {"none", "DONE"}] BY <1>1 DEF Books, TypeOK
  <2>2. SymbolOf[w] \in Symbols BY EntryAssumption
  <2>3. ASSUME NEW c \in Callers, Finish(c) PROVE kill'
    <3>0. w # Nothing BY EntryAssumption DEF Callers
    <3>1. pc[c] = "finish" /\ watch[c] = w /\ kill' = kill
      BY <1>1, <2>1, <2>3 DEF Finish, Settled, Expected
    <3>2. up /\ SymbolOf[w] = sym[c] BY <1>1, <3>0, <3>1 DEF Books, Sane, Locked
    <3>3. seen[c] = "EXECUTING" /\ answer[c] # "ENTERED"
      <4>1. result \in [Watches -> {"SKIPPED", "ERROR", "ENTERED", Nothing}]
        BY <1>1 DEF Books, TypeOK
      <4>2. QED BY <1>1, <2>1, <2>3, <3>1, <4>1 DEF Finish, Settled, Expected
    <3>4. Accounted(SymbolOf[w]) /\ Clear(c) BY <1>1, <2>2 DEF Known
    <3>5. ~mem[SymbolOf[w]] BY <3>0, <3>1, <3>2, <3>3, <3>4 DEF Clear
    <3>6. QED BY <1>1, <3>1, <3>2, <3>4, <3>5 DEF Accounted
  <2>4. CASE \E v \in Watches : Alarm(v)
    BY <1>1, <2>4 DEF Alarm, Books, Sane, Callers
  <2>5. CASE \E c \in Callers : Cancelled(c) BY <2>5 DEF Cancelled
  <2>6. CASE Restart BY <1>1, <2>6 DEF Restart, Doubt
  <2>7. CASE \E v \in Watches : CheckWaiting(v) \/ Settle(v)
    BY <1>1, <2>1, <2>7 DEF CheckWaiting, Settle, Settled, Expected
  <2>8. CASE \E c \in Callers, v \in Watches : Arm(c, v)
    BY <1>1, <2>1, <2>8 DEF Arm
  <2>9. CASE \E c \in Callers : Claim(c)
    BY <1>1, <2>1, <2>9 DEF Claim, Expected
  <2>10. CASE phase' = phase BY <1>1, <2>10
  <2>11. QED
    BY <1>1, <2>3, <2>4, <2>5, <2>6, <2>7, <2>8, <2>9, <2>10, ZenonT(40)
    DEF Next, Engine, Check, Arrive, Lock, GuardWatch, GuardAlert, Filter, FindLevel,
        Price, CountTrade, Send, OrderResult, Record, Unlock, StoreFails, LeaseLost, Poll,
        CheckExecuting, Expire, Overdue, Rewrite, Close, UserKills, UserResumes, Die,
        redisVars
<1>2. Books /\ Known /\ [Next]_vars => Books' /\ Known' BY BooksKept, KnownKept
<1>3. ASSUME Books, Known, [Next]_vars
      PROVE  [\A w \in Watches :
                /\ phase[w] = "EXECUTING" /\ phase'[w] = "DONE" /\ result'[w] # "ENTERED"
                /\ held[SymbolOf[w]] > 0 /\ ~row[SymbolOf[w]] /\ ~forgotten[SymbolOf[w]]
                => kill']_vars
  BY <1>1, <1>3
<1>4. QED BY InitBooks, InitKnown, <1>2, <1>3, PTL DEF Spec, NoSilentLoss
-----------------------------------------------------------------------------
(* A watch implements WatchOnce.                                           *)

LEMMA InitOnce == Init => Once!Init
BY DEF Init, Once!Init

\* What a step that writes the records of watches does to them.
LEMMA OneWatchStep ==
  ASSUME Books, NEW w \in Watches, sent' = sent,
         \/ phase[w] = "none" /\ phase' = [phase EXCEPT ![w] = "WAITING"]
         \/ phase[w] = "WAITING" /\ phase' = [phase EXCEPT ![w] = "EXECUTING"]
         \/ phase[w] \in Live /\ phase' = [phase EXCEPT ![w] = "DONE"]
  PROVE  Once!Next
<1>1. phase \in [Watches -> Live \cup {"none", "DONE"}] BY DEF Books, TypeOK
<1>2. CASE phase[w] = "none" /\ phase' = [phase EXCEPT ![w] = "WAITING"]
  <2>1. Once!Arm(w) BY <1>1, <1>2 DEF Once!Arm
  <2>2. QED BY <2>1 DEF Once!Next
<1>3. CASE phase[w] = "WAITING" /\ phase' = [phase EXCEPT ![w] = "EXECUTING"]
  <2>1. Once!Commit(w) BY <1>1, <1>3 DEF Once!Commit
  <2>2. QED BY <2>1 DEF Once!Next
<1>4. CASE phase[w] \in Live /\ phase' = [phase EXCEPT ![w] = "DONE"]
  <2>1. Once!Settle({w}) BY <1>1, <1>4 DEF Once!Settle, Live
  <2>2. QED BY <2>1 DEF Once!Next
<1>5. QED BY <1>2, <1>3, <1>4

\* A conditional write ends a live watch, or nothing happens.
LEMMA SettledOnce ==
  ASSUME Books, NEW w \in Watches, NEW from, NEW status, Settled(w, from, status),
         sent' = sent, from # "none"
  PROVE  [Once!Next]_(Once!vars)
<1>1. phase \in [Watches -> Live \cup {"none", "DONE"}] BY DEF Books, TypeOK
<1>2. CASE phase[w] = from /\ from \in Live
  BY <1>2, OneWatchStep DEF Settled, Expected
<1>3. CASE phase[w] = from /\ from \notin Live
  BY <1>1, <1>3 DEF Settled, Expected, Once!vars
<1>4. CASE phase[w] # from
  BY <1>4 DEF Settled, Expected, Once!vars
<1>5. QED BY <1>2, <1>3, <1>4

LEMMA StepOnce == Books /\ [Next]_vars => [Once!Next]_(Once!vars)
<1> SUFFICES ASSUME Books, [Next]_vars PROVE [Once!Next]_(Once!vars)
  OBVIOUS
<1>1. CASE UNCHANGED <<phase, sent>> BY <1>1 DEF Once!vars
<1>2. ASSUME NEW c \in Callers, NEW w \in Watches, Arm(c, w) PROVE Once!Next
  BY <1>2, OneWatchStep DEF Arm, brokerVars
<1>3. ASSUME NEW c \in Callers, Claim(c) PROVE [Once!Next]_(Once!vars)
  <2>1. CASE phase' = phase BY <1>3, <2>1, <1>1 DEF Claim, brokerVars
  <2>2. CASE phase' # phase
    <3>1. watch[c] \in Watches BY <1>3 DEF Claim, Books, Sane, TypeOK
    <3>2. QED BY <1>3, <2>2, <3>1, OneWatchStep DEF Claim, Expected, brokerVars
  <2>3. QED BY <2>1, <2>2
<1>4. ASSUME NEW c \in Callers, Send(c) PROVE [Once!Next]_(Once!vars)
  <2>1. phase' = phase BY <1>4 DEF Send, redisVars
  <2>2. CASE sent' = sent BY <1>1, <2>1, <2>2
  <2>3. CASE sent' # sent
    <3>1. /\ watch[c] \in Watches /\ pc[c] = "send"
          /\ sent' = [sent EXCEPT ![watch[c]] = @ + 1]
      BY <1>4, <2>3 DEF Send
    <3>2. phase[watch[c]] \in {"EXECUTING", "DONE"} /\ sent[watch[c]] = 0
      BY <3>1, EntryAssumption DEF Books, Sane, Callers
    <3>3. sent \in [Watches -> Nat] BY DEF Books, TypeOK
    <3>4. Once!Order(watch[c]) BY <2>1, <3>1, <3>2, <3>3 DEF Once!Order
    <3>5. QED BY <3>1, <3>4 DEF Once!Next
  <2>4. QED BY <2>2, <2>3
<1>5. ASSUME NEW c \in Callers, Finish(c) PROVE [Once!Next]_(Once!vars)
  <2>1. CASE watch[c] # Nothing /\ answer[c] # "WAITING"
    <3>1. watch[c] \in Watches /\ seen[c] # "none"
      BY <1>5, <2>1 DEF Finish, Books, TypeOK, Sane, Locked, Live
    <3>2. QED BY <1>5, <2>1, <3>1, SettledOnce DEF Finish, brokerVars
  <2>2. CASE ~(watch[c] # Nothing /\ answer[c] # "WAITING")
    BY <1>1, <1>5, <2>2 DEF Finish, brokerVars
  <2>3. QED BY <2>1, <2>2
<1>6. ASSUME NEW w \in Watches, Alarm(w) PROVE [Once!Next]_(Once!vars)
  <2>1. seen[w] # "none" BY <1>6 DEF Alarm, Books, Sane, Callers, Live
  <2>2. QED BY <1>6, <2>1, SettledOnce DEF Alarm, Uncertain, brokerVars
<1>7. ASSUME NEW w \in Watches, CheckWaiting(w) PROVE [Once!Next]_(Once!vars)
  <2>1. CASE Settled(w, "WAITING", "SKIPPED")
    BY <1>7, <2>1, SettledOnce DEF CheckWaiting, brokerVars
  <2>2. CASE phase' = phase BY <1>1, <1>7, <2>2 DEF CheckWaiting, brokerVars
  <2>3. QED BY <1>7, <2>1, <2>2 DEF CheckWaiting
<1>8. ASSUME NEW w \in Watches, Settle(w) PROVE [Once!Next]_(Once!vars)
  <2>1. CASE Settled(w, "WAITING", answer[w])
    BY <1>8, <2>1, SettledOnce DEF Settle, brokerVars
  <2>2. CASE phase' = phase BY <1>1, <1>8, <2>2 DEF Settle, brokerVars
  <2>3. QED BY <1>8, <2>1, <2>2 DEF Settle
<1>9. ASSUME NEW c \in Callers, Cancelled(c) PROVE [Once!Next]_(Once!vars)
  <2>1. CASE c \in Watches /\ phase[c] # "DONE"
    <3>1. phase[c] # "none" BY <1>9, <2>1 DEF Cancelled, Books, Sane
    <3>2. QED BY <1>9, <2>1, <3>1, SettledOnce DEF Cancelled, brokerVars
  <2>2. CASE ~(c \in Watches /\ phase[c] # "DONE")
    BY <1>1, <1>9, <2>2 DEF Cancelled, brokerVars
  <2>3. QED BY <2>1, <2>2
<1>10. CASE Restart
  <2>1. PICK over \in SUBSET Watches : over = {w \in Watches : phase[w] = "EXECUTING"}
    OBVIOUS
  <2>2. Once!Settle(over)
    BY <1>10, <2>1 DEF Restart, Recovered, brokerVars, Once!Settle
  <2>3. Once!Next BY <2>2 DEF Once!Next
  <2>4. QED BY <2>3
<1>11. CASE \E c \in Callers, s \in Symbols : Arrive(c, s)
  BY <1>1, <1>11 DEF Arrive, redisVars, brokerVars
<1>12. ASSUME NEW c \in Callers,
              \/ Lock(c) \/ GuardWatch(c) \/ GuardAlert(c) \/ Filter(c) \/ FindLevel(c)
              \/ Price(c) \/ CountTrade(c) \/ OrderResult(c) \/ Record(c) \/ Unlock(c)
              \/ StoreFails(c) \/ LeaseLost(c)
       PROVE  UNCHANGED <<phase, sent>>
  BY <1>12
  DEF Lock, GuardWatch, GuardAlert, Filter, FindLevel, Price, CountTrade, OrderResult,
      Record, Unlock, StoreFails, LeaseLost, redisVars, brokerVars
<1>13. ASSUME NEW w \in Watches, Poll(w) \/ CheckExecuting(w) \/ Expire(w) \/ Overdue(w)
       PROVE  UNCHANGED <<phase, sent>>
  BY <1>13 DEF Poll, CheckExecuting, Expire, Overdue, redisVars, brokerVars
<1>14. CASE (\E s \in Symbols : Rewrite(s) \/ Close(s)) \/ UserKills \/ UserResumes \/ Die
  BY <1>1, <1>14 DEF Rewrite, Close, UserKills, UserResumes, Die, brokerVars
<1>15. CASE UNCHANGED vars BY <1>1, <1>15 DEF vars, redisVars, brokerVars
<1>16. ASSUME NEW c \in Callers, Engine(c) PROVE [Once!Next]_(Once!vars)
  BY <1>1, <1>2, <1>3, <1>4, <1>5, <1>12, <1>16 DEF Engine
<1>17. ASSUME NEW w \in Watches, Check(w) PROVE [Once!Next]_(Once!vars)
  BY <1>1, <1>6, <1>7, <1>8, <1>13, <1>17 DEF Check
<1>18. CASE Next
  BY <1>1, <1>9, <1>10, <1>11, <1>12, <1>13, <1>14, <1>16, <1>17, <1>18 DEF Next, Callers
<1>19. QED BY <1>15, <1>18

\* Through expiry, alarms, lost locks, cancelled calls and restarts, every watch is
\* committed to one order at most, and stays settled.
THEOREM WatchRefinement == Spec => ImplementsWatchOnce
<1>1. Once!Init /\ [][Once!Next]_(Once!vars) => Once!Spec BY DEF Once!Spec
<1>2. QED BY InitBooks, BooksKept, InitOnce, StepOnce, PTL
  DEF Spec, ImplementsWatchOnce, Once!Spec
=============================================================================

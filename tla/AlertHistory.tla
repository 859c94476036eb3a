---------------------------- MODULE AlertHistory ----------------------------
(***************************************************************************)
(* The alert history, a Redis list that the alert service, the execution   *)
(* service and the trading engines write.  save_alert is optimistic: WATCH, *)
(* LRANGE, and a transaction that is refused when the list was touched in  *)
(* between.  update_alert_status, by which an engine marks the exit of a   *)
(* position, reads the list, deletes it and pushes it again.               *)
(***************************************************************************)
EXTENDS Naturals, Sequences

CONSTANTS
  Alerts,    \* identities of alerts: name and time
  Results,   \* what a saved row may say
  Exited,    \* what an engine makes it say
  Savers,    \* coroutines in save_alert
  Markers,   \* coroutines in update_alert_status
  NoEntry,
  Cap,       \* rows kept (200)
  MaxTries,  \* attempts of a save (8)
  MaxRows    \* bound on the rows a marker finds

ASSUME HistoryAssumption ==
  /\ Exited \notin Results /\ Savers \cap Markers = {}
  /\ NoEntry \notin [alert : Alerts, result : Results \cup {Exited}]
  /\ Cap \in Nat \ {0} /\ MaxTries \in Nat \ {0}

VARIABLES
  rows,      \* Redis: the list, newest first
  pc, copy,  \* writers: where each is, and the list as it read it
  entry,     \* writers: the row to save or to mark
  touched,   \* the savers that watch the list and saw it written
  tries

historyVars == <<rows, pc, copy, entry, touched, tries>>
Writers == Savers \cup Markers
Row == [alert : Alerts, result : Results \cup {Exited}]

HasRow(list, a) == \E i \in 1 .. Len(list) : list[i].alert = a

\* The list with the rows of e's alert replaced by e.
Replaced(list, e) ==
  [i \in 1 .. Len(list) |-> IF list[i].alert = e.alert THEN e ELSE list[i]]

\* LTRIM.
Trimmed(list) ==
  [i \in 1 .. (IF Len(list) < Cap THEN Len(list) ELSE Cap) |-> list[i]]

\* LPUSH and LTRIM.
Pushed(list, e) ==
  [i \in 1 .. (IF Len(list) < Cap THEN Len(list) + 1 ELSE Cap) |->
     IF i = 1 THEN e ELSE list[i - 1]]

HistoryInit ==
  /\ rows = <<>>
  /\ pc = [w \in Writers |-> "idle"]
  /\ copy = [w \in Writers |-> <<>>]
  /\ entry = [w \in Writers |-> NoEntry]
  /\ touched = {}
  /\ tries = [w \in Writers |-> 0]

Watching == {s \in Savers : pc[s] \in {"read", "commit"}}

\* A writer returns.
Leave(w) ==
  /\ pc' = [pc EXCEPT ![w] = "idle"]
  /\ copy' = [copy EXCEPT ![w] = <<>>]
  /\ entry' = [entry EXCEPT ![w] = NoEntry]
  /\ tries' = [tries EXCEPT ![w] = 0]
-----------------------------------------------------------------------------
(* save_alert.                                                             *)

Save(s) ==
  /\ pc[s] = "idle"
  /\ \E a \in Alerts, r \in Results :
       entry' = [entry EXCEPT ![s] = [alert |-> a, result |-> r]]
  /\ pc' = [pc EXCEPT ![s] = "watch"]
  /\ UNCHANGED <<rows, copy, touched, tries>>

Watch(s) ==
  /\ pc[s] = "watch"
  /\ pc' = [pc EXCEPT ![s] = "read"]
  /\ UNCHANGED <<rows, copy, entry, touched, tries>>

Read(s) ==
  /\ pc[s] = "read"
  /\ copy' = [copy EXCEPT ![s] = Trimmed(rows)]
  /\ pc' = [pc EXCEPT ![s] = "commit"]
  /\ UNCHANGED <<rows, entry, touched, tries>>

\* Mutant: the transaction is not conditional.
NoWatch(s) == TRUE

Undisturbed(s) == s \notin touched

\* LSET where the copy has the alert, LPUSH where it has not.
Saved(s) ==
  IF HasRow(copy[s], entry[s].alert)
  THEN Replaced(copy[s], entry[s])
  ELSE Pushed(rows, entry[s])

Commit(s) ==
  /\ pc[s] = "commit" /\ Undisturbed(s)
  /\ rows' = Saved(s)
  /\ touched' = Watching \ {s}
  /\ Leave(s)

NextTry(s) == tries[s] + 1

\* WatchError: after MaxTries of them save_alert raises.
Refused(s) ==
  /\ pc[s] = "commit" /\ ~Undisturbed(s)
  /\ touched' = touched \ {s}
  /\ UNCHANGED rows
  /\ \/ /\ NextTry(s) < MaxTries
        /\ tries' = [tries EXCEPT ![s] = NextTry(s)]
        /\ pc' = [pc EXCEPT ![s] = "watch"]
        /\ copy' = [copy EXCEPT ![s] = <<>>]
        /\ UNCHANGED entry
     \/ NextTry(s) >= MaxTries /\ Leave(s)
-----------------------------------------------------------------------------
(* update_alert_status.                                                    *)

\* Rebuilds may leave the list longer than Cap, which the next save cuts.
ReadAll(u) ==
  /\ pc[u] = "idle" /\ Len(rows) <= MaxRows
  /\ \E a \in Alerts :
       /\ HasRow(rows, a)
       /\ entry' = [entry EXCEPT ![u] = [alert |-> a, result |-> Exited]]
  /\ copy' = [copy EXCEPT ![u] = rows]
  /\ pc' = [pc EXCEPT ![u] = "delete"]
  /\ UNCHANGED <<rows, touched, tries>>

Delete(u) ==
  /\ pc[u] = "delete"
  /\ rows' = <<>>
  /\ touched' = Watching
  /\ pc' = [pc EXCEPT ![u] = "rebuild"]
  /\ UNCHANGED <<copy, entry, tries>>

\* RPUSH: behind what others have pushed since.
Rebuild(u) ==
  /\ pc[u] = "rebuild"
  /\ rows' = rows \o Replaced(copy[u], entry[u])
  /\ touched' = Watching
  /\ Leave(u)
-----------------------------------------------------------------------------
\* A writer's process dies, or Redis fails it.
Die(w) ==
  /\ pc[w] # "idle"
  /\ touched' = touched \ {w}
  /\ Leave(w)
  /\ UNCHANGED rows

\* The user, or the daily cleanup, clears the history.
Clear ==
  /\ rows # <<>>
  /\ rows' = <<>>
  /\ touched' = Watching
  /\ UNCHANGED <<pc, copy, entry, tries>>

SaverStep(s) == Watch(s) \/ Read(s) \/ Commit(s) \/ Refused(s)

HistoryNext ==
  \/ \E s \in Savers : Save(s) \/ SaverStep(s)
  \/ \E u \in Markers : ReadAll(u) \/ Delete(u) \/ Rebuild(u)
  \/ \E w \in Writers : Die(w)
  \/ Clear

HistorySpec == HistoryInit /\ [][HistoryNext]_historyVars

-----------------------------------------------------------------------------
(* Properties.                                                             *)

\* Every variable has its type; only a saver between WATCH and EXEC is told
\* of a write.
HistoryTypeOK ==
  /\ rows \in Seq(Row)
  /\ pc \in [Writers -> {"idle", "watch", "read", "commit", "delete", "rebuild"}]
  /\ copy \in [Writers -> Seq(Row)]
  /\ entry \in [Writers -> Row \cup {NoEntry}]
  /\ touched \in SUBSET {s \in Savers : pc[s] \in {"read", "commit"}}
  /\ tries \in [Writers -> 0 .. MaxTries - 1]

\* A save, prepared from what was read earlier, is what a save of the list
\* as it is would be: whatever the others write, it changes or adds the row of
\* its alert and drops none but the oldest.
AtomicSave(list, e) ==
  IF HasRow(Trimmed(list), e.alert)
  THEN Replaced(Trimmed(list), e)
  ELSE Pushed(list, e)
SavesAreAtomic ==
  [][\A s \in Savers : Commit(s) => rows' = AtomicSave(rows, entry[s])]_historyVars

\* When nobody rebuilds the list, it is the table its writers expect: saves
\* happen one after the other, and an alert has one row.
Table == INSTANCE AlertTable
ImplementsTable == Table!Spec

\* However many coroutines save an alert at the same time, it has one row.
OneRowPerAlert ==
  \A i, k \in 1 .. Len(rows) : rows[i].alert = rows[k].alert => i = k
=============================================================================

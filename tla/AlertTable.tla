----------------------------- MODULE AlertTable -----------------------------
(***************************************************************************)
(* What the alert history promises its writers: a table of at most Cap     *)
(* alerts, newest first, in which a save changes one row and no other, or  *)
(* adds one and drops the oldest.                                          *)
(***************************************************************************)
EXTENDS Naturals, Sequences

CONSTANTS
  Alerts,    \* identities of alerts: name and time
  Results,   \* what a row may say
  Cap        \* rows kept

VARIABLE rows

HasRow(a) == \E i \in 1 .. Len(rows) : rows[i].alert = a

Change(a, r) ==
  /\ HasRow(a)
  /\ rows' = [i \in 1 .. Len(rows) |->
                IF rows[i].alert = a THEN [alert |-> a, result |-> r] ELSE rows[i]]

Add(a, r) ==
  /\ ~HasRow(a)
  /\ rows' = [i \in 1 .. (IF Len(rows) < Cap THEN Len(rows) + 1 ELSE Cap) |->
                IF i = 1 THEN [alert |-> a, result |-> r] ELSE rows[i - 1]]

Clear == rows' = <<>>

Init == rows = <<>>
Next ==
  \/ \E a \in Alerts, r \in Results : Change(a, r) \/ Add(a, r)
  \/ Clear
Spec == Init /\ [][Next]_rows
=============================================================================

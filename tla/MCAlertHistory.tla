--------------------------- MODULE MCAlertHistory ---------------------------
(* Two coroutines that save two alerts, and one that marks an exit.         *)
EXTENDS AlertHistory

CONSTANTS a1, a2, s1, s2, u1

MCAlerts == {a1, a2}
MCResults == {"RESULT"}
MCSavers == {s1, s2}
MCMarkers == {u1}
=============================================================================

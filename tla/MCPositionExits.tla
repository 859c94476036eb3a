--------------------------- MODULE MCPositionExits ---------------------------
(* Small instances of PositionExits: one service, one exit task and one target. *)
EXTENDS PositionExits

CONSTANTS p1, t1, tp1

MCProcesses == {p1}
MCTasks == {t1}
MCHome == [t \in MCTasks |-> p1]
MCTargets == {tp1}
MCTargetQty == [g \in MCTargets |-> 1]

\* Every result is known and final, or else anything may become of an order.
MCExact == {"full", "part", "rejected"}
MCAny == {"full", "part", "rejected", "lost", "uncertain"}
=============================================================================

----------------------------- MODULE MCOrderLock -----------------------------
(* Two operations on one entry key, three tokens.                          *)
EXTENDS OrderLock

CONSTANTS t1, t2, entry

MCTasks == {t1, t2}
MCKeys == {entry}
=============================================================================

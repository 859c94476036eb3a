-------------------------- MODULE MCExecutionQueue --------------------------
(* Two worker processes; two alerts, one of them malformed.                 *)
EXTENDS ExecutionQueue

CONSTANTS j1, bad, w1, w2

MCJobs == {j1, bad}
MCBadJobs == {bad}
MCWorkers == {w1, w2}
=============================================================================

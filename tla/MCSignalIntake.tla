--------------------------- MODULE MCSignalIntake ---------------------------
(* A small instance of SignalIntake. *)
EXTENDS SignalIntake

CONSTANTS w1, v1
MCCrews == <<{w1}, {v1}>>
=============================================================================

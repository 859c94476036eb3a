---------------------------- MODULE MCEntryPath ----------------------------
(* One worker's call and one watch on one symbol: the call can arm the watch,
   or meet it while it is waiting or executing. *)
EXTENDS EntryPath

CONSTANTS s1, c1, w1

MCSymbols == {s1}
MCCalls == {c1}
MCWatches == {w1}
MCSymbolOf == [w \in MCWatches |-> s1]
MCOutcomes == {"filled", "unfilled", "uncertain"}
=============================================================================

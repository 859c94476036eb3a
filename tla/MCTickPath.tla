----------------------------- MODULE MCTickPath -----------------------------
(* A small instance of TickPath. *)
EXTENDS TickPath

MCPrices == {-2, 0, 2, 4, 6}
MCLadderPrice == <<2, 4, 6>>
MCBrokers == {"ZERODHA", "DHAN"}

\* The classic rules with all of their stops, and the ladder in three ways.
Classic == [ladder |-> FALSE, partial |-> FALSE, useTrail |-> FALSE,
            fullExit |-> FALSE, trailing |-> TRUE, stepwise |-> FALSE, cost |-> TRUE,
            reversal |-> FALSE]
Ladder == [Classic EXCEPT !.ladder = TRUE, !.useTrail = TRUE, !.fullExit = TRUE,
                          !.reversal = TRUE]
MCSettings ==
  {Classic, [Classic EXCEPT !.stepwise = TRUE], Ladder,
   [Ladder EXCEPT !.fullExit = FALSE, !.partial = TRUE]}
=============================================================================

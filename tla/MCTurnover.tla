----------------------------- MODULE MCTurnover -----------------------------
(* A small instance of Turnover. *)
EXTENDS Turnover, TLC

MCStocks == 1 .. 2

\* The first is overtaken while its price falls and comes back when it rises; it is traded
\* later on the next day.
Volumes == <<<<1, 2, 2, 9, 9, 0>>, <<1, 3, 3, 9, 9, 1>>>>
Prices == <<<<4, 1, 3, 9, 9, 1>>, <<3, 1, 1, 9, 9, 1>>>>
MCMarkets ==
  {[s \in MCStocks |-> [t \in Times |->
      [volume |-> Volumes[s][t + 1], price |-> Prices[s][t + 1]]]]}

Symmetric == Permutations(Workers)
=============================================================================

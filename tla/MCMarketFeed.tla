---------------------------- MODULE MCMarketFeed ----------------------------
(* One symbol, for which one request is made or none. *)
EXTENDS MarketFeed

CONSTANT a

MCSymbols == {a}
MCActive == {}
=============================================================================

-------------------------- MODULE MCTradeOperation --------------------------
(* One trade whose settlements are resumed and mined, nothing fails: one or *)
(* two requests, two settlements in flight.                                 *)
EXTENDS TradeOperation

\* One lock empties the wallet or leaves enough for a second one.
MCPrice == 1
MCFunds == 2
=============================================================================

---------------------------- MODULE MCStockLedger ----------------------------
(* Instances of StockLedger for TLC. *)
EXTENDS StockLedger

CONSTANTS a, b
Of(x, n) == [product |-> x, quantity |-> n]
Crossed == {<<Of(a, 1), Of(b, 1)>>, <<Of(b, 2), Of(a, 1)>>}
=============================================================================

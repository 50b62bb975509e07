---------------------------- MODULE MCStockCache ----------------------------
(* Small instances of the stock counters.                                  *)
EXTENDS StockCache, TLC

AnyQuantity == {-1, 2}
=============================================================================

------------------------ MODULE MCStockTransactions ------------------------
(* Two products, baskets that overlap on both, and stock for one of the    *)
(* large basket or one of each small one: every lock order and every       *)
(* sufficient/insufficient combination occurs.                             *)
EXTENDS StockTransactions, TLC

CONSTANTS p1, p2, c1, c2, both, single, t1, t2, t3

MCItems == both :> (p1 :> 1 @@ p2 :> 1) @@ single :> (p1 :> 0 @@ p2 :> 2)
MCInitialStock == p1 :> 1 @@ p2 :> 2
MCRank == p1 :> 1 @@ p2 :> 2
MCSymmetry == Permutations({t1, t2, t3}) \cup Permutations({c1, c2})
=============================================================================

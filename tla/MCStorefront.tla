---------------------------- MODULE MCStorefront ----------------------------
(* Two people and one address both may register; four bodies: two forms of *)
(* one order, another order, and one whose entries add up to too much.     *)
EXTENDS Storefront, TLC

CONSTANTS p1

Of(q) == [product |-> p1, quantity |-> q]
MCBody == {<<Of(1), Of(1)>>, <<Of(2)>>, <<Of(1)>>, <<Of(2), Of(1)>>}
MCInitialStock == p1 :> 2
=============================================================================

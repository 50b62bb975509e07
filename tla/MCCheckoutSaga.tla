--------------------------- MODULE MCCheckoutSaga ---------------------------
(* Small instances of the checkout saga: one product; the small basket     *)
(* takes the only unit, the large one is more than there is.               *)
EXTENDS CheckoutSaga, TLC

CONSTANTS p1, small, large, h1, h2, c1, c2

MCItems == [b \in Basket |-> p1 :> IF b = small THEN 1 ELSE 2]
MCInitialStock == p1 :> 1
NoStalls == [c \in Checkout |-> 0]
OneStall == [c \in Checkout |-> IF c = c1 THEN 1 ELSE 0]
TwoStalls == [c \in Checkout |-> 2]
MCSymmetry == Permutations({h1, h2}) \cup Permutations({c1, c2})
=============================================================================

-------------------------- MODULE MCEventDelivery --------------------------
(* Small instances of the delivery of order events.                        *)
EXTENDS EventDelivery, TLC

CONSTANTS p1, p2, c1, c2

MCSymmetry == Permutations({p1, p2}) \cup Permutations({c1, c2})
=============================================================================

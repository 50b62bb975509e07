\* One product, whose stock is enough for a purchase of 2 only once a unit is
\* returned or bought with a negative quantity; two overlapping sync rounds.
CONSTANTS
    Product = {p1}
    Buyer = {b1, b2}
    Syncer = {s1, s2}
    Quantity = {1}
    PurchaseQuantity <- AnyQuantity
    InitialStock = 1
    Missing = Missing
    MaxDisturbances = 1
\* Every purchase may be done and the bound used up.
CHECK_DEADLOCK FALSE
SPECIFICATION LiveSpec
INVARIANTS
    TypeOK
    OversellIsAccounted
PROPERTY DriftHeals

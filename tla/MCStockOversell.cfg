\* A purchase beside a reservation Redis does not know of.
CONSTANTS
    Product = {p1}
    Buyer = {b1, b2}
    Syncer = {s1}
    Quantity = {1, 2}
    PurchaseQuantity = {1, 2}
    InitialStock = 2
    Missing = Missing
    MaxDisturbances = 1
\* Every purchase may be done and the bound used up.
CHECK_DEADLOCK FALSE
SPECIFICATION Spec
INVARIANT StockNotNegative

\* A late ReserveStock after its checkout FAILED.
CONSTANTS
    p1 = p1
    small = small
    large = large
    h1 = h1
    h2 = h2
    c1 = c1
    c2 = c2
    Product = {p1}
    Checkout = {c1, c2}
    Basket = {small, large}
    NoBasket = NoBasket
    NoCheckout = NoCheckout
    Handler = {h1, h2}
    Worker = {}
    Free = Free
    Gone = Gone
    MaxStalls <- NoStalls
    Items <- MCItems
    InitialStock <- MCInitialStock
SPECIFICATION Spec
INVARIANT FailedHoldsNoStock

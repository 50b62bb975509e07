\* One checkout, a request and a worker, two leases expire under live owners.
CONSTANTS
    p1 = p1
    small = small
    large = large
    h1 = h1
    h2 = h2
    c1 = c1
    c2 = c2
    Product = {p1}
    Checkout = {c1}
    Basket = {small, large}
    NoBasket = NoBasket
    NoCheckout = NoCheckout
    Handler = {h1}
    Worker = {w1}
    Free = Free
    Gone = Gone
    MaxStalls <- TwoStalls
    Items <- MCItems
    InitialStock <- MCInitialStock
SPECIFICATION Spec
INVARIANTS
    OneEventPerOrder
    CompletedHasOrder
    CompensatedHoldsNothing

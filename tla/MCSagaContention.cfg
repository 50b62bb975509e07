\* Two checkouts compete for the last unit: a request, its concurrent retry
\* or another order, and a recovery worker.
CONSTANTS
    p1 = p1
    small = small
    large = large
    h1 = h1
    h2 = h2
    c1 = c1
    c2 = c2
    Product = {p1}
    Checkout = {c1, c2}
    Basket = {small}
    NoBasket = NoBasket
    NoCheckout = NoCheckout
    Handler = {h1, h2}
    Worker = {w1}
    Free = Free
    Gone = Gone
    MaxStalls <- NoStalls
    Items <- MCItems
    InitialStock <- MCInitialStock
SPECIFICATION Spec
SYMMETRY MCSymmetry
INVARIANTS
    TypeOK
    ConfirmedHoldsStock
    AnswersAreTruthful
    SingleDriver
    CompensatedHoldsNothing
PROPERTIES
    DecisionIsFinal
    FailedTakesNoMore

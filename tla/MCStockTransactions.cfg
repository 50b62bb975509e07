\* Three concurrent transactions on two reservations.
CONSTANTS
    p1 = p1
    p2 = p2
    c1 = c1
    c2 = c2
    both = both
    single = single
    t1 = t1
    t2 = t2
    t3 = t3
    Product = {p1, p2}
    Checkout = {c1, c2}
    Basket = {both, single}
    NoBasket = NoBasket
    Tx = {t1, t2, t3}
    Items <- MCItems
    InitialStock <- MCInitialStock
    Rank <- MCRank
SPECIFICATION Spec
SYMMETRY MCSymmetry
INVARIANTS
    TypeOK
    NoOversell
    StockConserved
    NoDeadlock
    AnswersHold
PROPERTY ImplementsLedger

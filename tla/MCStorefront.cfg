\* Both may register the address; whoever has it orders, retries and
\* signs in again, one request at a time and one order per window.
CONSTANTS
    p1 = p1
    Person = {ann, bob}
    Email = {e1}
    Form = {f1, f2}
    Nobody = Nobody
    NoEmail = NoEmail
    Product = {p1}
    InitialStock <- MCInitialStock
    NoBasket = NoBasket
    Key = {k1}
    Body <- MCBody
    MaxQuantity = 2
    Request = {r1}
    Points = 1
    NoGoal = NoGoal
SPECIFICATION LiveSpec
INVARIANTS
    TypeOK
    TokensOpenTheirAccount
    CacheAgreesWithOrder
    AnswersStayTrue
PROPERTY RetriesAreAnswered

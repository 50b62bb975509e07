\* One event and one malformed message, two publishers and two consumers; the
\* stream may be trimmed to one entry.
CONSTANTS
    p1 = p1
    p2 = p2
    c1 = c1
    c2 = c2
    Event = {e1}
    Malformed = {bad}
    Publisher = {p1, p2}
    Consumer = {c1, c2}
    Free = Free
    Gone = Gone
    BatchSize = 2
    StreamLimit = 1
    MaxMessages = 2
    MaxLapses = 1
\* Every event may be delivered and every bound used up: the system then idles.
CHECK_DEADLOCK FALSE
SPECIFICATION Spec
SYMMETRY MCSymmetry
INVARIANTS
    TypeOK
    DuplicatesHaveReason
    AckedIsHandled
    OnlyTrimmingLoses
PROPERTIES
    ImplementsContract

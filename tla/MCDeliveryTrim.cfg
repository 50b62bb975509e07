\* Two events and a stream that keeps one entry.
CONSTANTS
    p1 = p1
    p2 = p2
    c1 = c1
    c2 = c2
    Event = {e1, e2}
    Malformed = {}
    Publisher = {p1}
    Consumer = {c1}
    Free = Free
    Gone = Gone
    BatchSize = 2
    StreamLimit = 1
    MaxMessages = 2
    MaxLapses = 0
\* Every bound may be used up.
CHECK_DEADLOCK FALSE
SPECIFICATION Spec
INVARIANT PublishedIsNotLost

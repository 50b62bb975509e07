\* One event and a malformed message, one publisher and one consumer.
CONSTANTS
    p1 = p1
    p2 = p2
    c1 = c1
    c2 = c2
    Event = {e1}
    Malformed = {bad}
    Publisher = {p1}
    Consumer = {c1}
    Free = Free
    Gone = Gone
    BatchSize = 2
    StreamLimit = 9
    MaxMessages = 2
    MaxLapses = 0
\* Every event may be delivered and every bound used up: the system then idles.
CHECK_DEADLOCK FALSE
SPECIFICATION LiveSpec
PROPERTY EventuallyMailed

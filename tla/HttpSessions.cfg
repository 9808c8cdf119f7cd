\* Two threads, two connections with two requests each, failing accepts and
\* request handlers that throw.  When the clients have left, nothing happens.
SPECIFICATION Spec
CONSTANTS
    Threads = {t1, t2}
    Sessions = {s1, s2, s3}
    Conns = {c1, c2}
    NoConn = NoConn
    MaxRequests <- TwoEach
    Careless = {c1, c2}
    MaxErrors = 1
    Throws = TRUE
SYMMETRY Swap
INVARIANTS
    TypeOK
    OneHandlerPerSession
    OneAccept
    AnswersInOrder
    OpenConnectionsAreServed
    OnlyMalformedAreDropped
CHECK_DEADLOCK FALSE

\* One io thread that two connections wait for, and an accept that fails.
SPECIFICATION FairSpec
CONSTANTS
    Threads = {t1}
    Sessions = {s1, s2, s3}
    Conns = {c1, c2}
    NoConn = NoConn
    MaxRequests <- OneIsShort
    Careless = {c1}
    MaxErrors = 1
    Throws = FALSE
PROPERTIES
    RequestsAreAnswered
    ConnectionsAreAccepted
CHECK_DEADLOCK FALSE

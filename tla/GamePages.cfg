\* Two windows of one player, two calls at a time, two logins;
\* answers get lost, windows are closed, the server restarts.
SPECIFICATION SpecPages
CONSTANTS
    Threads = {t1, t2}
    Names = {n1}
    Passwords = {p1}
    Types = {"hoe"}
    Requests <- PageRequests
    NoRequest = NoRequest
    SessionIds = {k1, k2}
    NoSession = NoSession
    NotMentioned = NotMentioned
    Garbage = 99
    Pages = {w1, w2}
    NoPage = NoPage
    NoName = NoName
    NoSave = NoSave
    Counts <- FewCounts
SYMMETRY Swap
INVARIANTS
    PagesTypeOK
    NoOrphanSessions
PROPERTIES
    NoStaleSaves

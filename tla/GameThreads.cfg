\* Two io threads, two users, right and wrong passwords, statements that fail
\* and a process that may be killed between any two of them.
SPECIFICATION Spec
CONSTANTS
    Threads = {t1, t2}
    Names = {n1, n2}
    NoName = NoName
    Passwords = {p1, p2}
    NoPass = NoPass
    Types = {"hoe"}
    Saves <- OneSave
    NoSave = NoSave
    MaxLogins = 2
    DiskFaults = TRUE
    Crashes = TRUE
SYMMETRY Swap
INVARIANTS
    TypeOK
    TransactionsExclude
    LoginIsCurrent
    SessionsOpenOwnProgress
PROPERTIES
    ProgressChangesBySaves
    AtomicGame

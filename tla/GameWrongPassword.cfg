\* One request at a time.
SPECIFICATION Spec
CONSTANTS
    Threads = {t1}
    Names = {n1}
    NoName = NoName
    Passwords = {p1, p2}
    NoPass = NoPass
    Types = {"hoe"}
    Saves <- OneSave
    NoSave = NoSave
    MaxLogins = 1
    DiskFaults = FALSE
    Crashes = FALSE
SYMMETRY Swap
INVARIANTS
    WrongPasswordIsRefused

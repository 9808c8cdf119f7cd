\* Two io threads that are scheduled fairly, saves of several upgrades.
SPECIFICATION FairSpec
CONSTANTS
    Threads = {t1, t2}
    Names = {n1}
    NoName = NoName
    Passwords = {p1}
    NoPass = NoPass
    Types = {"hoe", "can"}
    Saves <- TwoSaves
    NoSave = NoSave
    MaxLogins = 2
    DiskFaults = FALSE
    Crashes = FALSE
PROPERTIES
    AcknowledgedSavesAreKept
    EveryRequestIsAnswered

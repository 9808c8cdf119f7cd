\* Two io threads, a disk whose calls may fail, a process that may be killed
\* between any two system calls, and ids that std::stoi refuses.
SPECIFICATION Spec
CONSTANTS
    Threads = {t1, t2}
    Entities = {Shoes}
    BadPath = BadPath
    Blocks = {"a", "b", "c"}
    Bodies <- ShortAndLong
    NotJson = NotJson
    Inodes = {i1, i2}
    NoInode = NoInode
    Nothing = Nothing
    Missing = Missing
    NoReply = NoReply
    MaxInt = 2
    RequestIds = {0, 1, 3}
    DiskFaults = TRUE
    Crashes = TRUE
SYMMETRY Swap
INVARIANTS
    TypeOK
    CreateStompsOnlyInARace
    WholeDocument
    WholeAnswer

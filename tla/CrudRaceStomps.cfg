\* Two creates at once.
SPECIFICATION Spec
CONSTANTS
    Threads = {t1, t2}
    Entities = {Shoes}
    BadPath = BadPath
    Blocks = {"a", "b", "c"}
    Bodies <- ShortAndLong
    NotJson = NotJson
    Inodes = {i1, i2, i3}
    NoInode = NoInode
    Nothing = Nothing
    Missing = Missing
    NoReply = NoReply
    MaxInt = 2
    RequestIds = {0}
    DiskFaults = FALSE
    Crashes = FALSE
SYMMETRY Swap
INVARIANTS
    NeverStomps

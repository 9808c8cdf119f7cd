\* One request at a time: the store is an atomic map.
SPECIFICATION Spec
CONSTANTS
    Threads = {t1}
    Entities = {Shoes, Books}
    BadPath = BadPath
    Blocks = {"a", "b", "c"}
    Bodies <- ShortAndLong
    NotJson = NotJson
    Inodes = {i1, i2, i3}
    NoInode = NoInode
    Nothing = Nothing
    Missing = Missing
    NoReply = NoReply
    MaxInt = 2
    RequestIds = {0, 1, 2}
    DiskFaults = FALSE
    Crashes = FALSE
PROPERTIES
    AtomicStore

\* Every configuration with up to five locations and three handlers.  After an
\* exit or a crash nothing happens.
SPECIFICATION SpecHandlers
CONSTANTS
    Chars = {"/", ".", "a", "b", "html", "css"}
    Locations <- Keys
    Targets <- Paths
    Handlers = {"FileRequestHandler", "NotFoundHandler", "Typo"}
    Registered = {"FileRequestHandler", "NotFoundHandler"}
    Uninitialised = "Uninitialised"
    Roots <- KeyRoots
    Files <- StoredFiles
    Faults <- FaultyPaths
INVARIANTS
    TypeOK
    LongestMatch
    FilesAreServed
CHECK_DEADLOCK FALSE

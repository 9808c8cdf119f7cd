\* Every short text and every file of up to three statements.
SPECIFICATION Spec
CONSTANTS
    Texts <- AllTexts
    Numbers <- PortNumbers
    Paths <- NamedPaths
INVARIANTS
    TypeOK
    ParsedIsPrinted
    LocationsAreDistinct
    LocationsAreServed
    DirectivesAreServed
CHECK_DEADLOCK FALSE

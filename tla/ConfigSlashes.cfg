\* Files whose locations end with no slash, one or two.
SPECIFICATION FairSpec
CONSTANTS
    Texts <- SlashTexts
    Numbers <- PortNumbers
    Paths <- NamedPaths
PROPERTIES
    StartupEnds
CHECK_DEADLOCK FALSE

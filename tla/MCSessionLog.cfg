CONSTANTS
    MaxChunks = 8
    MaxSize = 2
    MaxFiles = 3
    MaxEarlier = 3
    NoFile = NoFile
SPECIFICATION FileSpec
INVARIANTS
    LogIntact
    SshLogKeepsUp
    CloseKeepsOutput
PROPERTY
    Closes
CHECK_DEADLOCK FALSE

CONSTANTS
    Size = 3
    Byte = {"o", "k", "n"}
    Newline = "n"
    Pattern <- MCPattern
    Chunk <- MCChunk
    Writer = {"tty"}
    MaxBytes = 4
    MaxCalls = 2
SPECIFICATION Spec
INVARIANTS
    WaiterSound
    ResultHonest
PROPERTY
    WaitReturns
CHECK_DEADLOCK FALSE

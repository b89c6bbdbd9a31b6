CONSTANTS
    Size = 2
    Byte = {"a", "$"}
    Chunk <- MCChunk
    Writer = {"tty"}
    MaxBytes = 4
    Caller = {"c1"}
    Prompt = "$"
    MaxRequests = 2
SPECIFICATION ReaderSpec
INVARIANTS
    OutputAccounted
    CompleteIsSettled
    TruncationFlagged
PROPERTY
    CallReturns
CHECK_DEADLOCK FALSE

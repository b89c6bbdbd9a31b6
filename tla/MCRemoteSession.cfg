CONSTANTS
    MaxCalls = 2
    Op = {"input", "raw", "input_wait", "wait", "read", "resize", "close", "detach"}
    Wanted = {2}
    MaxOut = 2
    None = None
SPECIFICATION RemoteSpec
INVARIANTS
    ConnectionShared
    OutputKept
PROPERTY
    AllEnd
CHECK_DEADLOCK FALSE

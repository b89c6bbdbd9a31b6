CONSTANTS
    MaxCalls = 2
    Op = {"input", "raw", "input_wait", "wait", "read", "resize", "close", "detach"}
    Wanted = {2}
    MaxOut = 2
    None = None
SPECIFICATION RemoteSpec
INVARIANT
    WaitIsPolled
CHECK_DEADLOCK FALSE

CONSTANTS
    Request <- MCRequest
    Notification = {"n"}
    KeyOf <- MCKeyOf
    Stalling = {"r1", "r2"}
    MaxConcurrent = 2
    RespCap = 1
    None = None
SPECIFICATION Spec
INVARIANTS
    NothingLeaks
    OneOutcome
    CleanShutdown
PROPERTIES
    RequestsProgress
    ShutdownEnds
CHECK_DEADLOCK FALSE

CONSTANTS
    MaxCalls = 2
    MaxBundles = 2
    MaxBegun = 2
    MaxSessions = 2
    Entry <- MCEntry
    QueueCap = 1
    MaxAttempts = 2
    None = None
    Stopped = Stopped
SPECIFICATION Spec
INVARIANTS
    TrailAccounted
    StrictRecorded
    CmdBeforeOutput
    CredentialsSafe
PROPERTY
    Settled
CHECK_DEADLOCK FALSE

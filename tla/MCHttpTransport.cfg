CONSTANTS
    Post <- MCPost
    Client <- MCClient
    Body <- MCBody
    Stalling = {"workB"}
    Leaving = {"workA"}
    Sid = {"s1", "s2"}
    MaxConcurrent = 1
    NoSid = NoSid
SPECIFICATION Spec
INVARIANTS
    NothingLeaks
    BatchAnswered
    CancelledByOwner
PROPERTY
    PostsProgress
CHECK_DEADLOCK FALSE

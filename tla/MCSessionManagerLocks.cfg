CONSTANTS
    Id = {"s1", "s2"}
    Created = {"s1", "s2"}
    Remote = {"s2"}
    Request = {r1, r2, r3}
    Op = {"send_input", "close", "prepare_secret", "send_secret"}
    Cancellable = {r1}
    MaxSessions = 2
    Reaping = FALSE
    None = None
SPECIFICATION Spec
INVARIANT
    SecretHasSession
PROPERTIES
    NoCloseInOperation
    CallsEnd
CHECK_DEADLOCK FALSE

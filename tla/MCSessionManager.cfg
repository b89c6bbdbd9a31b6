CONSTANTS
    Id = {"s1", "s2"}
    Created = {}
    Remote = {"s2"}
    Request = {r1, r2, r3, r4}
    Op = {"create", "list", "send_input", "read_output", "close", "detach", "prepare_secret", "send_secret", "get_session_state"}
    Cancellable = {r1, r2, r3, r4}
    MaxSessions = 1
    Reaping = TRUE
    None = None
SPECIFICATION Spec
SYMMETRY Symmetry
INVARIANTS
    TableExact
    SecretsGuarded
    TornDownOnce
CHECK_DEADLOCK FALSE

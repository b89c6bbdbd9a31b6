CONSTANTS
    Client = {c1, c2}
    MaxDaemons = 2
    MaxForks = 2
    MaxSessions = 1
    PlainFile = PlainFile
    None = None
SPECIFICATION Spec
INVARIANTS
    TableExact
    PathSound
PROPERTY
    Settles
CHECK_DEADLOCK FALSE

CONSTANTS
    Size = 3
    Byte = {"z", "a", "b"}
    Zero = "z"
    Chunk <- MCChunk
    Writer = {"stdout", "stderr"}
    MaxBytes = 6
SPECIFICATION Spec
INVARIANTS
    Window
    ReadsExact
PROPERTY
    ImplementsLog

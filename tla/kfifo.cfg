SPECIFICATION Spec
CONSTANTS
    CacheSize = 4
    CacheStep = 2
    MaxChunk = 2
    MallocMayFail = FALSE
    MaxBytes = 8
INVARIANTS
    TypeOK
    InOrder
    NoTornChunk
PROPERTIES
    DropOnlyWhenFull
    ImplementsLossyStream

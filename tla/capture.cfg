SPECIFICATION CaptureSpec
CONSTANTS
    CacheSize = 4
    CacheStep = 2
    MaxChunk = 2
    MallocMayFail = FALSE
    MaxBytes = 9
    DiskSize = 7
    FileLimit = 3
    HeaderSize = 1
INVARIANTS
    AllOnDisk
    

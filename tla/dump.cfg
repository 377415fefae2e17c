SPECIFICATION DumpSpec
CONSTANTS
    SaharaTables <- MCTables
    RawBuf = 4
    Table32Max = 2
    Word = 8
    SaharaFaults = 2
    AsrFiles <- MCFiles
    WaitRetries = 3
    AsrAhead = 3
    AsrFaults = 2
    EigenCells <- MCCells
    ReadMax = 2
    ReadTimes = 2
    CellMax = 6
    AddrHalf = 8
    EigenLimit = 2
    EigenPackets = 5
    EigenSessions = 2
    EigenAhead = 2
    EigenFaults = 2
    BlueTable <- MCBlueTable
    BlueBits = {4}
    BlueMax = 2
    RidMax = 3
    BlueQueries = 3
    ApChunks = 2
    BlueFaults = 1
INVARIANTS
    DumpTypeOK
    SaharaImage
    YmodemFiles
    EigenFiles
    BlueImage
PROPERTIES
    DumpsEnd
CHECK_DEADLOCK FALSE

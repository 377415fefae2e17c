SPECIFICATION FairSpec
CONSTANTS
    FileLen <- HashFiles
    MaxRead = 2
    MaxSessions = 3
    MaxLate = 3
INVARIANTS
    TypeOK
    QdbIsPrefix
    HeaderAtEnd
PROPERTIES
    GetsThrough

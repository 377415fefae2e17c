SPECIFICATION FairSpec
CONSTANTS
    Parts <- TwoParts
    MaxLogs = 4
    Options <- MCOptions
INVARIANTS
    TypeOK
    RingBounded
    PreDumpKept
    FilesInPlace
PROPERTIES
    EvictsOldest
    CheckEnds

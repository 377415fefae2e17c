SPECIFICATION FairSpec
CONSTANTS
    Codes <- MCCodes
    Kinds <- MCKinds
    Plain = "plain"
    Script <- LongScript
    Builds <- AllBuilds
    MaxSessions <- TwoForBoth
    MaxLink = 2
INVARIANTS
    TypeOK
    
PROPERTIES
    ThreadsEnd
CHECK_DEADLOCK FALSE

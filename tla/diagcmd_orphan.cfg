SPECIFICATION FairSpec
CONSTANTS
    Codes <- MCCodes
    Kinds <- MCKinds
    Plain = "plain"
    Script <- ShortScript
    Builds <- CancelOnly
    MaxSessions <- TwoSessions
    MaxLink = 1
PROPERTIES
    ExitOnSignal
CHECK_DEADLOCK FALSE

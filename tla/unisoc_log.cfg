SPECIFICATION UniSpec
CONSTANTS
    AtCommands = 2
    AtTries = 2
    UeTries = 1
    UniLimit = 2
    UniLogs = 1
    UniCrash = 1
    UniRounds = 1
    UniSessions = 2
INVARIANTS
    UniTypeOK
    ArmedIsAccepted
    UniFiles
CHECK_DEADLOCK FALSE

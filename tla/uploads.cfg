SPECIFICATION UploadsSpec
CONSTANTS
    FtpNames = 2
    FtpCommands = 8
    FtpAhead = 2
    FtpBlocks = 2
    FtpFaults = 1
    FtpMixed = 1
    BlockSize = 2
    BlockNumbers = 4
    TftpRetry = 2
    TftpUnits = 8
    TftpFaults = 2
INVARIANTS
    Uploaded
    TftpDelivers
PROPERTIES
    RepliesInStep
    UploadsEnd
CHECK_DEADLOCK FALSE

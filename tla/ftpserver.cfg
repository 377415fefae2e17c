SPECIFICATION FtpServerSpec
CONSTANTS
    FtpNames = 1
    FtpCommands = 4
    FtpAhead = 2
    FtpBlocks = 2
    FtpFaults = 1
    FtpIps = {1, 2}
    FtpPids = {1, 2, 3}
    MaxClients = 2
    MaxPerIp = 2
    FtpAccepts = 4
INVARIANTS
    SessionInv
    ListenerInv
PROPERTIES
    UploadExact
CHECK_DEADLOCK FALSE

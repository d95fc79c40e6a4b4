CONSTANTS
    short = short
    long = long
    Files <- MCFiles
    FileLen <- MCFileLen
    Missing = missing
    None = none
    DefaultSize = 1
    BigSize = 2
    BufLen = 4
    BlockMod = 6
    MaxRetries = 1
    Rexmt = 1
    RexmtLimit = 2
    Servers <- MCServers
    AnySeek = FALSE
    MaxSessions = 2
    MaxCalls = 3
    MaxRead = 3
SPECIFICATION FairSpec
INVARIANTS TypeOK BufferIsFile
PROPERTIES ReadsTheFile CallsReturn
CHECK_DEADLOCK FALSE

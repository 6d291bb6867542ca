\* One connection, three packets, two timestamps (so a packet can be older
\* than the first one), channels of capacity 1, all skip values.
CONSTANTS
    Timestamps = {1, 2}
    MaxPackets = 3
    ChanCap = 1
    SkipValues <- MCSkipValues
    Banners <- MCBanners
    InitialDecoder = "tcp"
    Disabled = {}
    AllowMissingInit = TRUE
    IgnoreFSMerr = FALSE
    NoOptCheck = TRUE
    Checksum = TRUE
    WaitForConnections = TRUE
    FlushEvery = 2
    CloseInactiveTimeOut = 0
SPECIFICATION Spec
INVARIANT TypeOK
PROPERTY CleanupTerminates

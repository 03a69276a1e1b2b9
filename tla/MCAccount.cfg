CONSTANTS
    Streams <- TwoStreams
    MaxTimers = 3
    MaxQueued = 2
SPECIFICATION FairSpec
INVARIANTS
    TypeOK
    NoStreamLeft
    OfflineIsKept
    ShownOnlineIsOnline
    CrashHasCause
PROPERTIES
    Reconnects
CHECK_DEADLOCK FALSE

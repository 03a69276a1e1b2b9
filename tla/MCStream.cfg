CONSTANTS
    Options <- SomeOptions
    MaxRounds = 1
    MaxWrites = 1
    MaxPushed = 1
SPECIFICATION FairSpec
INVARIANTS
    TypeOK
    PlainIsProtected
    NoTLSIsWarned
    NoLostWakeup
PROPERTIES
    ImplementsSession
    LoginEnds
    CloseEnds
CHECK_DEADLOCK FALSE

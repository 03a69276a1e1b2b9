CONSTANTS
    Options <- SomeOptions
    MaxRounds = 1
    MaxWrites = 1
    MaxPushed = 1
SPECIFICATION Spec
INVARIANT EveryStanzaAnnounced
CHECK_DEADLOCK FALSE

CONSTANTS
    Requester = Requester
    Acceptor = Acceptor
    PacketSize = 2
    MaxSessions = 2
    MaxBytes <- TwoAndNone
SPECIFICATION FairSpec
INVARIANTS
    TypeOK
    NoLostWakeup
    AckedWasDelivered
    CloseFinishedMeansDelivered
    ErrDataHasCause
    InOrderIfSmall
PROPERTY PendingCloseCompletes
CHECK_DEADLOCK FALSE

CONSTANTS
    Sender = Sender
    Receiver = Receiver
    MaxSize = 9
    SendBufSize = 2
    IntLimit = 4
    CsMin = 2
    CsMax = 5
SPECIFICATION FairSpec
INVARIANTS
    TypeOK
    ReceivedFileIsWhole
    SenderDoneMeansSent
    NeverSendsTooMuch
    FailsOnlyWithCause
    CrashNeedsLostStream
PROPERTY AcceptedTransferEnds
CHECK_DEADLOCK FALSE

CONSTANTS
    Requester = Requester
    Acceptor = Acceptor
    PacketSize = 1
    MaxSessions = 1
    MaxBytes <- TwoAndOne
SPECIFICATION Spec
INVARIANT CloseFinishedMeansWritten
CHECK_DEADLOCK FALSE

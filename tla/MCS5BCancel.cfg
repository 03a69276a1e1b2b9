CONSTANTS
    Initiator = Initiator
    Target = Target
    InitiatorProxy = InitiatorProxy
    TargetProxy = TargetProxy
    NoStream = NoStream
SPECIFICATION Spec
PROPERTY CancelAnswersPeer
CHECK_DEADLOCK FALSE

CONSTANTS
    Initiator = Initiator
    Target = Target
    InitiatorProxy = InitiatorProxy
    TargetProxy = TargetProxy
    NoStream = NoStream
SPECIFICATION Spec
PROPERTY EstablishedStays
CHECK_DEADLOCK FALSE

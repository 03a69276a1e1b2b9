CONSTANTS
    Initiator = Initiator
    Target = Target
    InitiatorProxy = InitiatorProxy
    TargetProxy = TargetProxy
    NoStream = NoStream
SPECIFICATION FairSpec
INVARIANTS
    TypeOK
    SameStream
    NeverCrashes
    NoStrayCR
    InitiatorNotAlone
    TargetNotAlone
PROPERTY NegotiationEnds
CHECK_DEADLOCK FALSE

CONSTANTS
    a = a
    b = b
    Peers <- TwoPeers
    Rids <- FourRids
    InitItems <- TwoItems
    Values = {"u", "v"}
    One = 16
    MaxOps = 4
SPECIFICATION Spec
INVARIANTS
    TypeOK
    Converged
    VersionsAgree
    NeverAhead
    OneAttribute
    LostEditHasRival
SYMMETRY PeerSymmetry
CHECK_DEADLOCK FALSE

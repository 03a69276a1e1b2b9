CONSTANTS
    a = a
    b = b
    Peers <- TwoPeers
    Rids <- FourRids
    InitItems <- TwoItems
    Values = {"u", "v"}
    One = 16
    MaxOps = 4
SPECIFICATION Spec
INVARIANT SnapshotIsDocument
SYMMETRY PeerSymmetry
CHECK_DEADLOCK FALSE

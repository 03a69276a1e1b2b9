------------------------------- MODULE MCSxe -------------------------------
(* TLC instance of Sxe: two ends, two items at first, and ids left on both  *)
(* sides of theirs, so that a new node may be the smaller or the larger.    *)
EXTENDS Sxe, TLC

CONSTANTS a, b

TwoPeers == {a, b}
FourRids == 1..4
TwoItems == {2, 3}
PeerSymmetry == Permutations(TwoPeers)

=============================================================================

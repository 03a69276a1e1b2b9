------------------------------- MODULE MCIBB -------------------------------
(* TLC instances of IBB: MCIBB.cfg, two sessions, so that the object is      *)
(* reused, with a second byte that waits for the answer to the first; and,  *)
(* for one session longer than a packet, MCIBBOrder.cfg and MCIBBClose.cfg. *)
EXTENDS IBB, TLC

TwoAndNone == Requester :> 2 @@ Acceptor :> 0
TwoAndOne == Requester :> 2 @@ Acceptor :> 1
=============================================================================

----------------------------- MODULE MCAccount -----------------------------
(* TLC instance of Account: a stream, and one more for a stream left behind *)
(* or for the login that follows.                                           *)
EXTENDS Account

TwoStreams == {1, 2}

=============================================================================

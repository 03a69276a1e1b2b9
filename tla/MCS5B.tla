------------------------------- MODULE MCS5B -------------------------------
(* TLC instance of S5B: every combination of servers and proxies.           *)
EXTENDS S5B

=============================================================================

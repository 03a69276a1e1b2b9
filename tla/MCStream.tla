------------------------------ MODULE MCStream ------------------------------
(* TLC instance of Stream: every way to be secured; compression, and a      *)
(* connection without login, with one choice of the other options each.     *)
EXTENDS Stream

SomeOptions ==
    {o \in OptionSpace :
       \/ o.auth /\ ~o.compress
       \/ o.auth /\ o.compress /\ o.plain = "AllowPlainOverTLS" /\ ~o.ssl
       \/ ~o.auth /\ ~o.compress /\ o.plain = "NoAllowPlain" /\ ~o.ssl}

=============================================================================

------------------------------ MODULE Session ------------------------------
(***************************************************************************)
(* What a ClientStream promises to the account that uses it                *)
(* (iris/include/xmpp.h, the signals of Stream and ClientStream): an        *)
(* attempt to log in becomes a session at most once, and a stream that      *)
(* ends says so exactly once, unless the account itself gave it up          *)
(* before it was a session.                                                *)
(***************************************************************************)
VARIABLES
    phase,   \* "idle", "trying", "online", "closing"
    told     \* the signal that ended the last attempt, "none" before

Ends == {"error", "connectionClosed", "delayedCloseFinished"}

Init == phase = "idle" /\ told = "none"

(* connectToServer()                                                       *)
Start == phase = "idle" /\ phase' = "trying" /\ told' = "none"

(* authenticated()                                                         *)
LogIn == phase = "trying" /\ phase' = "online" /\ UNCHANGED told

(* close() of a session: it ends when the last bytes are out.               *)
Leave == phase = "online" /\ phase' = "closing" /\ UNCHANGED told

(* close() of an attempt: nothing is signalled.                             *)
GiveUp == phase = "trying" /\ phase' = "idle" /\ UNCHANGED told

(* error() or connectionClosed() at any time, delayedCloseFinished() only   *)
(* after close().                                                          *)
End ==
    /\ phase # "idle" /\ phase' = "idle"
    /\ told = "none"
    /\ told' \in Ends
    /\ told' = "delayedCloseFinished" => phase = "closing"

Next == Start \/ LogIn \/ Leave \/ GiveUp \/ End

Spec == Init /\ [][Next]_<<phase, told>>

=============================================================================

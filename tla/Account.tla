------------------------------ MODULE Account ------------------------------
(***************************************************************************)
(* The connection of an account (src/psiaccount.cpp): login, logout, status *)
(* changes, errors and automatic reconnection, over streams that keep the   *)
(* promise of Session.                                                     *)
(*                                                                         *)
(* What is deferred is state: the end of a stream (queued connections), the *)
(* end of the task that starts a session (a zero timer), disconnect() 100   *)
(* ms after logout() and reconnect() 5 s after an error.  The account and   *)
(* its Client point to one stream, but a stream they no longer point to     *)
(* stays alive, with its signals connected, unless it was deleted.          *)
(*                                                                         *)
(* Not in the model: PGP signatures, the password dialog, link-local        *)
(* accounts, and what a stream signals inside its own close().              *)
(***************************************************************************)
EXTENDS Naturals, Sequences

CONSTANTS
    Streams,     \* slots for ClientStream objects
    MaxTimers,   \* bound on pending timers of a kind
    MaxQueued    \* bound on queued ends of streams

ASSUME AccountAssumption ==
    /\ Streams \subseteq Nat \ {0}
    /\ MaxTimers \in Nat
    /\ MaxQueued \in Nat

VARIABLES
    opt,          \* reconnect: automatic; mustTLS: acc.ssl is SSL_Yes
    acc,          \* the fields of PsiAccount; stream is 0 for no stream
    stream,       \* the state of each slot
    alive,        \* the slots that hold an object
    queued,       \* ends of streams not yet delivered
    tasks,        \* the JT_Session and the JT_Roster
    disconnects,  \* pending timers for disconnect()
    reconnects,   \* pending timers for reconnect()
    dialog,       \* the stream whose certificate is in question, or 0
    wants,        \* history: the account has been asked to be online since
                  \* it was last asked, or reported, to be offline
    odd,          \* history: steps after which less is promised
    crashed       \* a null pointer was used

vars == <<opt, acc, stream, alive, queued, tasks, disconnects, reconnects,
          dialog, wants, odd, crashed>>
timers == <<disconnects, reconnects>>

Errors == {"Disconnected", "ErrStream", "ErrConnection", "ErrNeg", "ErrTLS",
           "ErrSecurityLayer"}
Oddities == {"overlap", "late", "waiting", "dialog"}
Phases == {"idle", "trying", "online", "closing"}
Signals == {"none", "error", "connectionClosed", "delayedCloseFinished"}

Fields == [active : BOOLEAN, disconnecting : BOOLEAN, doReconnect : BOOLEAN,
           rosterDone : BOOLEAN, presenceSent : BOOLEAN, stream : Streams \cup {0}]

TypeOK ==
    /\ opt \in [reconnect : BOOLEAN, mustTLS : BOOLEAN]
    /\ acc \in Fields
    /\ stream \in [Streams -> [phase : Phases, told : Signals]]
    /\ alive \subseteq Streams
    /\ queued \in Seq(Errors)
    /\ tasks \in [session : {"none", "asked", "ended"}, roster : BOOLEAN]
    /\ disconnects \in Nat /\ reconnects \in Nat
    /\ dialog \in Streams \cup {0}
    /\ wants \in BOOLEAN /\ odd \subseteq Oddities /\ crashed \in BOOLEAN

(* Each slot is a session of its own.                                       *)
Ses(s) == INSTANCE Session WITH phase <- stream[s].phase, told <- stream[s].told

Unused == [phase |-> "idle", told |-> "none"]
Step(s) == \E p \in Phases, t \in Signals :
             stream' = [stream EXCEPT ![s] = [phase |-> p, told |-> t]]

Init ==
    /\ opt \in [reconnect : BOOLEAN, mustTLS : BOOLEAN]
    /\ acc = [active |-> FALSE, disconnecting |-> FALSE, doReconnect |-> FALSE,
              rosterDone |-> FALSE, presenceSent |-> FALSE, stream |-> 0]
    /\ stream = [s \in Streams |-> Unused] /\ alive = {}
    /\ queued = <<>>
    /\ tasks = [session |-> "none", roster |-> FALSE]
    /\ disconnects = 0 /\ reconnects = 0 /\ dialog = 0
    /\ wants = FALSE /\ odd = {} /\ crashed = FALSE

(* A stream and its task may each start a timer when they end.              *)
TimersLeft == reconnects + 2 <= MaxTimers

(* Posted events and zero timers come before any other timer.               *)
Calm == queued = <<>> /\ tasks.session # "ended"

----------------------------------------------------------------------------
(* What the handlers are made of.                                          *)

(* disconnected() of Client: the task of the session ends by a zero timer;  *)
(* that of the roster does not report a disconnection.                      *)
Ended == [session |-> IF tasks.session = "asked" THEN "ended" ELSE tasks.session,
          roster |-> FALSE]

(* close() of Client and cleanupStream(); the tasks are left to the caller. *)
CloseStream ==
    /\ alive' = alive \ {acc.stream}
    /\ stream' = [s \in Streams |-> IF s = acc.stream THEN Unused ELSE stream[s]]

(* Mutant of LoggingIn: rosterDone is kept from the last session.           *)
LoggingInWithRoster(s) ==
    [acc EXCEPT !.active = TRUE, !.disconnecting = FALSE, !.doReconnect = FALSE,
                !.presenceSent = FALSE, !.stream = s]

LoggingIn(s) ==
    [acc EXCEPT !.active = TRUE, !.disconnecting = FALSE, !.doReconnect = FALSE,
                !.rosterDone = FALSE, !.presenceSent = FALSE, !.stream = s]

(* login(): a new stream, whether or not there still is one.  doReconnect   *)
(* has been cleared by setStatus() or reconnect().                          *)
Login ==
    \E s \in Streams \ alive :
      /\ acc' = LoggingIn(s)
      /\ alive' = alive \cup {s}
      /\ Step(s) /\ Ses(s)!Start

(* setStatusDirect() and setStatusActual(), without PGP                     *)
SendPresence(a) == [a EXCEPT !.presenceSent = TRUE]
LoggedIn == acc.active /\ acc.presenceSent

(* Mutant of LoggedOut: a reconnection is not cancelled.                    *)
LoggedOutReconnecting == [acc EXCEPT !.active = FALSE, !.disconnecting = TRUE]

LoggedOut ==
    [acc EXCEPT !.active = FALSE, !.disconnecting = TRUE, !.doReconnect = FALSE]

(* logout()                                                                *)
Logout ==
    /\ disconnects < MaxTimers
    /\ acc' = LoggedOut
    /\ disconnects' = disconnects + 1
    /\ wants' = FALSE

(* getErrorInfo() reads the cause of an error from the connector or the     *)
(* stream the account has by now.  "Disconnected" stands for ErrParse and   *)
(* ErrProtocol too, ErrNeg for ErrAuth, ErrSecurityLayer for ErrBind.       *)
NeedsStream(err) == err \in {"ErrConnection", "ErrNeg", "ErrTLS"}
MayReconnect(err) ==
    CASE err = "Disconnected" -> {TRUE}
      [] err = "ErrStream" -> IF acc.stream = 0 THEN {FALSE} ELSE BOOLEAN
      [] err \in {"ErrConnection", "ErrNeg"} -> BOOLEAN
      [] OTHER -> {FALSE}

(* Mutant of WaitToReconnect: the timer is not started.                     *)
WaitForNothing ==
    /\ acc' = [acc EXCEPT !.stream = 0, !.disconnecting = TRUE,
                          !.presenceSent = FALSE, !.doReconnect = TRUE]
    /\ UNCHANGED <<reconnects, dialog, wants>>

WaitToReconnect ==
    /\ acc' = [acc EXCEPT !.stream = 0, !.disconnecting = TRUE,
                          !.presenceSent = FALSE, !.doReconnect = TRUE]
    /\ reconnects' = reconnects + 1
    /\ UNCHANGED <<dialog, wants>>

(* Mutant of ReportError: disconnected() is not emitted.                    *)
ReportSilently ==
    /\ acc' = [acc EXCEPT !.stream = 0, !.disconnecting = TRUE,
                          !.presenceSent = FALSE, !.active = FALSE]
    /\ wants' = FALSE
    /\ UNCHANGED <<reconnects, dialog>>

ReportError ==
    /\ acc' = [acc EXCEPT !.stream = 0, !.disconnecting = TRUE,
                          !.presenceSent = FALSE, !.active = FALSE]
    /\ dialog' = 0 /\ wants' = FALSE
    /\ UNCHANGED reconnects

(* cs_error(): ignored once the account is inactive.  An error that is     *)
(* about a stream already closed by another one is late.                    *)
CsError(err) ==
    /\ UNCHANGED <<opt, disconnects>>
    /\ odd' = IF acc.active /\ acc.stream = 0 /\ err # "Disconnected"
              THEN odd \cup {"late"} ELSE odd
    /\ crashed' = (acc.active /\ NeedsStream(err) /\ acc.stream = 0)
    /\ IF ~acc.active \/ crashed'
       THEN UNCHANGED <<acc, stream, alive, reconnects, dialog, wants>>
       ELSE /\ CloseStream
            /\ \E retry \in MayReconnect(err) :
                 IF opt.reconnect /\ retry THEN WaitToReconnect ELSE ReportError

----------------------------------------------------------------------------
(* The user.  The question about a certificate is a modal dialog.          *)

(* setStatus(), available, when the account is not active                  *)
GoOnline ==
    /\ ~crashed /\ dialog = 0
    /\ ~acc.active /\ TimersLeft
    /\ Login
    /\ wants' = TRUE
    /\ odd' = IF acc.stream = 0 THEN odd ELSE odd \cup {"overlap"}
    /\ UNCHANGED <<opt, queued, tasks, timers, dialog, crashed>>

(* setStatus(), available, when it is: a presence once there is a roster,   *)
(* and no reconnection.                                                     *)
ChangeStatus ==
    /\ ~crashed /\ dialog = 0
    /\ acc.active
    /\ LET a == [acc EXCEPT !.doReconnect = FALSE]
       IN acc' = IF acc.rosterDone THEN SendPresence(a) ELSE a
    /\ wants' = TRUE
    /\ odd' = IF acc.stream = 0 THEN odd \cup {"waiting"} ELSE odd
    /\ UNCHANGED <<opt, stream, alive, queued, tasks, timers, dialog, crashed>>

(* setStatus(), not available                                              *)
GoOffline ==
    /\ ~crashed /\ dialog = 0
    /\ IF acc.active THEN Logout
       ELSE /\ acc' = [acc EXCEPT !.doReconnect = FALSE]
            /\ wants' = FALSE
            /\ UNCHANGED disconnects
    /\ UNCHANGED <<opt, stream, alive, queued, tasks, reconnects, dialog, odd, crashed>>

(* tls_handshaken(): "Continue" uses the handler of the current stream.     *)
AcceptCertificate ==
    /\ ~crashed /\ dialog # 0
    /\ dialog' = 0
    /\ crashed' = (acc.stream = 0)
    /\ odd' = IF acc.stream = 0 /\ acc.doReconnect THEN odd \cup {"dialog"} ELSE odd
    /\ UNCHANGED <<opt, acc, stream, alive, queued, tasks, timers, wants>>

RefuseCertificate ==
    /\ ~crashed /\ dialog # 0
    /\ dialog' = 0
    /\ IF acc.active THEN Logout ELSE UNCHANGED <<acc, disconnects, wants>>
    /\ UNCHANGED <<opt, stream, alive, queued, tasks, reconnects, odd, crashed>>

----------------------------------------------------------------------------
(* Signals of a stream, whether the account still points to it or not.     *)

(* tls_handshaken(): the certificate is not valid.                          *)
AskCertificate(s) ==
    /\ ~crashed /\ s \in alive /\ stream[s].phase = "trying"
    /\ acc.stream # 0 /\ dialog = 0
    /\ dialog' = s
    /\ UNCHANGED <<opt, acc, stream, alive, queued, tasks, timers, wants, odd, crashed>>

(* cs_connected(), cs_needAuthParams(), cs_warning() and the like answer to  *)
(* the current stream: there must be one.                                   *)
StraySignal(s) ==
    /\ ~crashed /\ s \in alive /\ stream[s].phase = "trying"
    /\ acc.stream = 0
    /\ crashed' = TRUE
    /\ UNCHANGED <<opt, acc, stream, alive, queued, tasks, timers, dialog, wants, odd>>

(* cs_warning() about missing TLS when the account demands it               *)
NoTLS(s) ==
    /\ ~crashed /\ s \in alive /\ stream[s].phase = "trying"
    /\ opt.mustTLS /\ dialog # s
    /\ CloseStream /\ tasks' = Ended
    /\ acc' = [acc EXCEPT !.stream = 0, !.active = FALSE]
    /\ dialog' = 0 /\ wants' = FALSE
    /\ UNCHANGED <<opt, queued, timers, odd, crashed>>

(* cs_authenticated(): a session is asked for, of an old server the roster. *)
(* One request of each kind at a time.                                      *)
Authenticated(s) ==
    /\ ~crashed /\ s \in alive /\ dialog # s
    /\ acc.stream # 0
    /\ Step(s) /\ Ses(s)!LogIn
    /\ \/ tasks.session = "none" /\ tasks' = [tasks EXCEPT !.session = "asked"]
       \/ tasks' = [tasks EXCEPT !.roster = TRUE]
    /\ UNCHANGED <<opt, acc, alive, queued, timers, dialog, wants, odd, crashed>>

(* error() ends the tasks of the client at once; it and connectionClosed()   *)
(* reach the account through the queue.                                     *)
EndsOf(s) ==
    CASE stream'[s].told = "connectionClosed" -> {"Disconnected"}
      [] stream[s].phase = "trying" -> Errors
      [] OTHER -> Errors \ {"ErrConnection", "ErrNeg"}

StreamEnds(s) ==
    /\ ~crashed /\ s \in alive
    /\ Len(queued) < MaxQueued /\ TimersLeft
    /\ Step(s) /\ Ses(s)!End
    /\ tasks' = IF stream'[s].told = "error" THEN Ended ELSE tasks
    /\ \E err \in EndsOf(s) : queued' = Append(queued, err)
    /\ UNCHANGED <<opt, acc, alive, timers, dialog, wants, odd, crashed>>

----------------------------------------------------------------------------
(* Answers of the server to the session of the current stream.             *)

Online == acc.stream # 0 /\ stream[acc.stream].phase = "online"

(* sessionStart_finished(), with success                                   *)
SessionStarted ==
    /\ ~crashed /\ Online /\ tasks.session = "asked"
    /\ tasks' = [session |-> "none", roster |-> TRUE]
    /\ UNCHANGED <<opt, acc, stream, alive, queued, timers, dialog, wants, odd, crashed>>

(* client_rosterRequestFinished(): the status is sent, with or without the  *)
(* roster.                                                                  *)
RosterFinished ==
    /\ ~crashed /\ Online /\ tasks.roster
    /\ tasks' = [tasks EXCEPT !.roster = FALSE]
    /\ acc' = SendPresence([acc EXCEPT !.rosterDone = TRUE])
    /\ UNCHANGED <<opt, stream, alive, queued, timers, dialog, wants, odd, crashed>>

----------------------------------------------------------------------------
(* Deferred calls.                                                         *)

(* An end of a stream is delivered.                                        *)
Deliver ==
    /\ ~crashed /\ queued # <<>>
    /\ queued' = Tail(queued)
    /\ CsError(Head(queued))
    /\ tasks' = IF acc.active THEN Ended ELSE tasks

(* sessionStart_finished(), without success: the server refuses, or the     *)
(* zero timer fires.                                                        *)
SessionFailed ==
    /\ ~crashed
    /\ \/ tasks.session = "ended"
       \/ tasks.session = "asked" /\ Online /\ reconnects + 1 < MaxTimers
    /\ CsError("Disconnected")
    /\ tasks' = [session |-> "none", roster |-> tasks.roster /\ ~acc.active]
    /\ UNCHANGED queued

(* Mutant of DisconnectTimer: the timer is not a single shot.               *)
DisconnectRepeats ==
    /\ ~crashed /\ Calm
    /\ disconnects' = disconnects - 1
    /\ IF acc.disconnecting
       THEN /\ CloseStream /\ tasks' = Ended
            /\ acc' = [acc EXCEPT !.stream = 0]
            /\ dialog' = 0
       ELSE UNCHANGED <<acc, stream, alive, tasks, dialog>>
    /\ UNCHANGED <<opt, queued, reconnects, wants, odd, crashed>>

(* disconnect()                                                            *)
DisconnectTimer ==
    /\ ~crashed /\ Calm /\ disconnects > 0
    /\ disconnects' = disconnects - 1
    /\ IF acc.disconnecting
       THEN /\ CloseStream /\ tasks' = Ended
            /\ acc' = [acc EXCEPT !.stream = 0]
            /\ dialog' = 0
       ELSE UNCHANGED <<acc, stream, alive, tasks, dialog>>
    /\ UNCHANGED <<opt, queued, reconnects, wants, odd, crashed>>

(* Mutant of ReconnectTimer: it does not ask whether it is still wanted.    *)
ReconnectAnyway ==
    /\ ~crashed /\ Calm /\ reconnects > 0
    /\ reconnects' = reconnects - 1
    /\ IF acc.active THEN Login /\ dialog' = 0
       ELSE UNCHANGED <<acc, stream, alive, dialog>>
    /\ UNCHANGED <<opt, queued, tasks, disconnects, wants, odd, crashed>>

(* reconnect()                                                             *)
ReconnectTimer ==
    /\ ~crashed /\ Calm /\ reconnects > 0
    /\ reconnects' = reconnects - 1
    /\ IF acc.doReconnect THEN Login /\ dialog' = 0
       ELSE UNCHANGED <<acc, stream, alive, dialog>>
    /\ UNCHANGED <<opt, queued, tasks, disconnects, wants, odd, crashed>>

Next ==
    \/ GoOnline \/ ChangeStatus \/ GoOffline
    \/ AcceptCertificate \/ RefuseCertificate
    \/ \E s \in Streams :
         AskCertificate(s) \/ StraySignal(s) \/ NoTLS(s) \/ Authenticated(s) \/ StreamEnds(s)
    \/ SessionStarted \/ RosterFinished
    \/ Deliver \/ SessionFailed \/ DisconnectTimer \/ ReconnectTimer

Spec == Init /\ [][Next]_vars

(* The event loop delivers what is posted, and timers fire.                 *)
Fairness ==
    /\ WF_vars(Deliver) /\ WF_vars(SessionFailed /\ tasks.session = "ended")
    /\ WF_vars(DisconnectTimer) /\ WF_vars(ReconnectTimer)

FairSpec == Spec /\ Fairness

----------------------------------------------------------------------------
(* Properties.                                                             *)

(* login() overwrites the stream without looking: unless the user logs in   *)
(* within 100 ms of logging out, it never leaves a connection behind that   *)
(* nobody closes, whatever errors, answers and timers are still pending.    *)
NoStreamLeft == "overlap" \notin odd => alive \subseteq {acc.stream}

(* After logout() has had its 100 ms there is no connection, and no login   *)
(* of an account that is meant to be offline: neither a timer of an older   *)
(* error nor the end of a task brings it back.  Only an error delivered     *)
(* after the end of the task has already closed the stream is reported as   *)
(* final and followed by a login.                                          *)
OfflineIsKept ==
    "overlap" \notin odd /\ "late" \notin odd =>
      /\ wants \/ ~acc.active
      /\ acc.active \/ disconnects > 0 \/ alive = {}

(* The contact list shows the account as logged in only over a session that *)
(* exists, or whose end is about to be delivered.  The exception is a       *)
(* status set while waiting to reconnect.                                   *)
ShownOnlineIsOnline ==
    LoggedIn /\ odd = {} =>
      /\ acc.stream # 0
      /\ stream[acc.stream].phase = "online" \/ queued # <<>>

(* Handlers run on whatever stream the account has when they are called; it *)
(* has one, but for a stream left behind, an error that is late, or a       *)
(* certificate accepted when the connection is gone.                        *)
CrashHasCause == crashed => odd \cap {"overlap", "late", "dialog"} # {}

(* An active account without a connection gets a new one, or gives up.      *)
Reconnects ==
    acc.active /\ acc.stream = 0 ~> acc.stream # 0 \/ ~acc.active \/ odd # {} \/ crashed

=============================================================================

--------------------------- MODULE AccountProofs ---------------------------
(***************************************************************************)
(* Proofs about Account: for any number of slots and any bounds.           *)
(***************************************************************************)
EXTENDS Account, TLAPS

----------------------------------------------------------------------------
(* Types.                                                                  *)

LEMMA EndedType ==
    ASSUME TypeOK
    PROVE Ended \in [session : {"none", "asked", "ended"}, roster : BOOLEAN]
BY DEF TypeOK, Ended

LEMMA CloseStreamType ==
    ASSUME TypeOK, CloseStream
    PROVE /\ alive' \subseteq Streams
          /\ stream' \in [Streams -> [phase : Phases, told : Signals]]
BY DEF TypeOK, CloseStream, Unused, Phases, Signals

LEMMA StepType ==
    ASSUME TypeOK, NEW s \in Streams, Step(s)
    PROVE stream' \in [Streams -> [phase : Phases, told : Signals]]
BY DEF TypeOK, Step

LEMMA LoginType ==
    ASSUME TypeOK, Login
    PROVE /\ acc' \in Fields
          /\ stream' \in [Streams -> [phase : Phases, told : Signals]]
          /\ alive' \subseteq Streams
BY StepType DEF TypeOK, Login, LoggingIn, Fields

(* Whatever the account does with an error, it keeps its type.              *)
LEMMA CsErrorType ==
    ASSUME TypeOK, NEW err \in Errors, CsError(err)
    PROVE /\ opt' = opt /\ disconnects' = disconnects
          /\ acc' \in Fields
          /\ stream' \in [Streams -> [phase : Phases, told : Signals]]
          /\ alive' \subseteq Streams
          /\ reconnects' \in Nat /\ dialog' \in Streams \cup {0}
          /\ wants' \in BOOLEAN /\ odd' \subseteq Oddities /\ crashed' \in BOOLEAN
<1>1. crashed' \in BOOLEAN
  BY DEF CsError
<1>2. /\ opt' = opt /\ disconnects' = disconnects
      /\ odd' \subseteq Oddities
  BY DEF CsError, TypeOK, Oddities
<1>3. CASE ~acc.active \/ crashed'
  BY <1>2, <1>3 DEF CsError, TypeOK
<1>4. CASE ~(~acc.active \/ crashed')
  <2>1. CloseStream /\ (WaitToReconnect \/ ReportError)
    BY <1>4 DEF CsError
  <2>2. alive' \subseteq Streams /\ stream' \in [Streams -> [phase : Phases, told : Signals]]
    BY <2>1, CloseStreamType
  <2>3. acc' \in Fields
    BY <2>1, Zenon DEF WaitToReconnect, ReportError, TypeOK, Fields
  <2>4. /\ reconnects' \in {reconnects, reconnects + 1}
        /\ dialog' \in Streams \cup {0} /\ wants' \in BOOLEAN
    BY <2>1, Zenon DEF WaitToReconnect, ReportError, TypeOK
  <2>5. reconnects' \in Nat
    BY <2>4 DEF TypeOK
  <2> QED BY <1>1, <1>2, <2>2, <2>3, <2>4, <2>5, Zenon
<1> QED BY <1>3, <1>4

LEMMA InitType == Init => TypeOK
<1> SUFFICES ASSUME Init PROVE TypeOK
  OBVIOUS
<1>1. acc \in Fields
  BY DEF Init, Fields
<1>2. stream \in [Streams -> [phase : Phases, told : Signals]]
  BY DEF Init, Unused, Phases, Signals
<1>3. /\ queued \in Seq(Errors)
      /\ tasks \in [session : {"none", "asked", "ended"}, roster : BOOLEAN]
  BY DEF Init
<1> QED BY <1>1, <1>2, <1>3 DEF Init, TypeOK

LEMMA TypeStep == TypeOK /\ [Next]_vars => TypeOK'
<1> SUFFICES ASSUME TypeOK, [Next]_vars PROVE TypeOK'
  OBVIOUS
<1>1. CASE GoOnline
  BY <1>1, LoginType DEF GoOnline, TypeOK, timers, Oddities
<1>2. CASE ChangeStatus
  <2>1. acc' \in Fields
    BY <1>2, Zenon DEF ChangeStatus, SendPresence, TypeOK, Fields
  <2> QED BY <1>2, <2>1, Zenon DEF ChangeStatus, TypeOK, timers, Oddities
<1>3. CASE GoOffline
  <2>1. acc' \in Fields
    BY <1>3, ZenonT(30) DEF GoOffline, Logout, LoggedOut, TypeOK, Fields
  <2>2. disconnects' \in {disconnects, disconnects + 1} /\ wants' \in BOOLEAN
    BY <1>3, Zenon DEF GoOffline, Logout
  <2>3. disconnects' \in Nat
    BY <2>2 DEF TypeOK
  <2> QED BY <1>3, <2>1, <2>2, <2>3, Zenon DEF GoOffline, TypeOK
<1>4. CASE AcceptCertificate
  BY <1>4 DEF AcceptCertificate, TypeOK, timers, Oddities
<1>5. CASE RefuseCertificate
  <2>1. acc' \in Fields
    BY <1>5, Zenon DEF RefuseCertificate, Logout, LoggedOut, TypeOK, Fields
  <2>2. disconnects' \in {disconnects, disconnects + 1} /\ wants' \in BOOLEAN
    BY <1>5, Zenon DEF RefuseCertificate, Logout, TypeOK
  <2>3. disconnects' \in Nat
    BY <2>2 DEF TypeOK
  <2> QED BY <1>5, <2>1, <2>2, <2>3, Zenon DEF RefuseCertificate, TypeOK
<1>6. ASSUME NEW s \in Streams, AskCertificate(s) PROVE TypeOK'
  BY <1>6 DEF AskCertificate, TypeOK, timers
<1>7. ASSUME NEW s \in Streams, StraySignal(s) PROVE TypeOK'
  BY <1>7 DEF StraySignal, TypeOK, timers
<1>8. ASSUME NEW s \in Streams, NoTLS(s) PROVE TypeOK'
  <2>1. acc' \in Fields
    BY <1>8, Zenon DEF NoTLS, TypeOK, Fields
  <2> QED BY <1>8, <2>1, CloseStreamType, EndedType DEF NoTLS, TypeOK, timers
<1>9. ASSUME NEW s \in Streams, Authenticated(s) PROVE TypeOK'
  BY <1>9, StepType DEF Authenticated, TypeOK, timers
<1>10. ASSUME NEW s \in Streams, StreamEnds(s) PROVE TypeOK'
  <2>1. PICK err \in EndsOf(s) : queued' = Append(queued, err)
    BY <1>10 DEF StreamEnds
  <2>2. err \in Errors
    BY DEF EndsOf, Errors
  <2>3. queued' \in Seq(Errors)
    BY <2>1, <2>2 DEF TypeOK
  <2> QED BY <1>10, <2>3, StepType, EndedType DEF StreamEnds, TypeOK, timers
<1>11. CASE SessionStarted
  BY <1>11 DEF SessionStarted, TypeOK, timers
<1>12. CASE RosterFinished
  <2>1. acc' \in Fields
    BY <1>12, Zenon DEF RosterFinished, SendPresence, TypeOK, Fields
  <2> QED BY <1>12, <2>1 DEF RosterFinished, TypeOK, timers
<1>13. CASE Deliver
  <2>1. Head(queued) \in Errors /\ queued' \in Seq(Errors)
    BY <1>13 DEF Deliver, TypeOK
  <2> QED BY <1>13, CsErrorType, EndedType DEF Deliver, TypeOK
<1>14. CASE SessionFailed
  <2>1. "Disconnected" \in Errors
    BY DEF Errors
  <2>2. tasks' \in [session : {"none", "asked", "ended"}, roster : BOOLEAN]
    BY <1>14 DEF SessionFailed
  <2> QED BY <1>14, <2>1, CsErrorType DEF SessionFailed, TypeOK
<1>15. CASE DisconnectTimer
  <2>1. acc' \in Fields
    BY <1>15, Zenon DEF DisconnectTimer, TypeOK, Fields
  <2>2. disconnects' \in Nat
    BY <1>15 DEF DisconnectTimer, TypeOK
  <2> QED BY <1>15, <2>1, <2>2, CloseStreamType, EndedType, Zenon
             DEF DisconnectTimer, TypeOK
<1>16. CASE ReconnectTimer
  <2>1. reconnects' \in Nat
    BY <1>16 DEF ReconnectTimer, TypeOK
  <2> QED BY <1>16, <2>1, LoginType, Zenon DEF ReconnectTimer, TypeOK
<1>17. CASE UNCHANGED vars
  BY <1>17 DEF vars, TypeOK
<1> QED BY <1>1, <1>2, <1>3, <1>4, <1>5, <1>6, <1>7, <1>8, <1>9,
           <1>10, <1>11, <1>12, <1>13, <1>14, <1>15, <1>16, <1>17
        DEF Next

(* Every reachable state is well typed.                                     *)
THEOREM TypeCorrect == Spec => []TypeOK
BY InitType, TypeStep, PTL DEF Spec

----------------------------------------------------------------------------
(* The stream of the account.                                              *)

(* While an account waits to reconnect, or is closing although active, it    *)
(* has no stream: this is why reconnect() may overwrite it.                  *)
StreamKnown ==
    /\ acc.doReconnect => acc.stream = 0
    /\ acc.active /\ acc.disconnecting => acc.stream = 0
    /\ NoStreamLeft

(* What cs_error() can do: nothing, crash, wait, or report.                 *)
Ignored == UNCHANGED <<acc, stream, alive, reconnects, dialog, wants>>

LEMMA CsErrorCases ==
    ASSUME TypeOK, NEW err \in Errors, CsError(err)
    PROVE /\ opt' = opt /\ disconnects' = disconnects
          /\ odd \subseteq odd'
          /\ odd' \subseteq odd \cup {"late"}
          /\ acc.active /\ acc.stream = 0 /\ err # "Disconnected" => "late" \in odd'
          /\ crashed' => "late" \in odd'
          /\ \/ Ignored /\ (~acc.active \/ crashed')
             \/ /\ acc.active /\ CloseStream
                /\ \/ WaitToReconnect /\ opt.reconnect
                   \/ ReportError /\ ~(err = "Disconnected" /\ opt.reconnect)
<1>1. /\ opt' = opt /\ disconnects' = disconnects
      /\ odd \subseteq odd' /\ odd' \subseteq odd \cup {"late"}
      /\ acc.active /\ acc.stream = 0 /\ err # "Disconnected" => "late" \in odd'
  BY DEF CsError
<1>2. crashed' => "late" \in odd'
  <2>1. crashed' => acc.active /\ NeedsStream(err) /\ acc.stream = 0
    BY Zenon DEF CsError
  <2>2. NeedsStream(err) => err # "Disconnected"
    BY DEF NeedsStream
  <2> QED BY <1>1, <2>1, <2>2
<1>3. CASE ~acc.active \/ crashed'
  <2>1. Ignored
    BY <1>3, Zenon DEF CsError, Ignored
  <2> QED BY <1>1, <1>2, <1>3, <2>1, Zenon
<1>4. CASE ~(~acc.active \/ crashed')
  <2>1. /\ CloseStream
        /\ \E retry \in MayReconnect(err) :
             IF opt.reconnect /\ retry THEN WaitToReconnect ELSE ReportError
    BY <1>4, Zenon DEF CsError
  <2>2. err = "Disconnected" => MayReconnect(err) = {TRUE}
    BY DEF MayReconnect
  <2>3. PICK retry \in MayReconnect(err) :
             IF opt.reconnect /\ retry THEN WaitToReconnect ELSE ReportError
    BY <2>1, Zenon
  <2>4. \/ WaitToReconnect /\ opt.reconnect
        \/ ReportError /\ ~(err = "Disconnected" /\ opt.reconnect)
    <3>1. err = "Disconnected" => retry = TRUE
      BY <2>2
    <3> QED BY <3>1, <2>3, Zenon
  <2> QED BY <1>1, <1>4, <2>1, <2>4, Zenon
<1> QED BY <1>3, <1>4, Zenon

(* cs_error() is called for what was queued, or for the failed session.     *)
LEMMA DeliverCalls ==
    ASSUME TypeOK, Deliver
    PROVE Head(queued) \in Errors /\ CsError(Head(queued))
BY DEF Deliver, TypeOK

LEMMA SessionFailedCalls ==
    ASSUME SessionFailed
    PROVE "Disconnected" \in Errors /\ CsError("Disconnected")
BY DEF SessionFailed, Errors

LEMMA AccFields ==
    ASSUME TypeOK
    PROVE /\ acc \in [active : BOOLEAN, disconnecting : BOOLEAN, doReconnect : BOOLEAN,
                      rosterDone : BOOLEAN, presenceSent : BOOLEAN, stream : Streams \cup {0}]
          /\ disconnects \in Nat /\ 0 \notin Streams /\ alive \subseteq Streams
BY AccountAssumption DEF TypeOK, Fields

LEMMA StreamKnownStep == TypeOK /\ StreamKnown /\ [Next]_vars => StreamKnown'
<1> SUFFICES ASSUME TypeOK, StreamKnown, [Next]_vars PROVE StreamKnown'
  OBVIOUS
<1>1. CASE GoOnline
  BY <1>1, AccFields DEF GoOnline, Login, LoggingIn, StreamKnown, NoStreamLeft
<1>2. CASE ChangeStatus
  BY <1>2 DEF ChangeStatus, SendPresence, StreamKnown, NoStreamLeft
<1>3. CASE GoOffline
  BY <1>3, AccFields DEF GoOffline, Logout, LoggedOut, StreamKnown, NoStreamLeft
<1>4. CASE AcceptCertificate
  BY <1>4 DEF AcceptCertificate, StreamKnown, NoStreamLeft
<1>5. CASE RefuseCertificate
  BY <1>5, AccFields DEF RefuseCertificate, Logout, LoggedOut, StreamKnown, NoStreamLeft
<1>6. ASSUME NEW s \in Streams, AskCertificate(s) PROVE StreamKnown'
  BY <1>6 DEF AskCertificate, StreamKnown, NoStreamLeft
<1>7. ASSUME NEW s \in Streams, StraySignal(s) PROVE StreamKnown'
  BY <1>7 DEF StraySignal, StreamKnown, NoStreamLeft
<1>8. ASSUME NEW s \in Streams, NoTLS(s) PROVE StreamKnown'
  BY <1>8 DEF NoTLS, CloseStream, StreamKnown, NoStreamLeft
<1>9. ASSUME NEW s \in Streams, Authenticated(s) PROVE StreamKnown'
  BY <1>9 DEF Authenticated, StreamKnown, NoStreamLeft
<1>10. ASSUME NEW s \in Streams, StreamEnds(s) PROVE StreamKnown'
  BY <1>10 DEF StreamEnds, StreamKnown, NoStreamLeft
<1>11. CASE SessionStarted
  BY <1>11 DEF SessionStarted, StreamKnown, NoStreamLeft
<1>12. CASE RosterFinished
  BY <1>12 DEF RosterFinished, SendPresence, StreamKnown, NoStreamLeft
<1>13. CASE Deliver
  <2>1. PICK err \in Errors : CsError(err)
    BY <1>13, DeliverCalls
  <2> USE CsErrorCases, AccFields
  <2>2. CASE Ignored /\ (~acc.active \/ crashed')
    BY <2>1, <2>2 DEF Ignored, StreamKnown, NoStreamLeft
  <2>3. CASE acc.active /\ CloseStream /\ WaitToReconnect /\ opt.reconnect
    BY <2>1, <2>3 DEF CloseStream, WaitToReconnect, StreamKnown, NoStreamLeft
  <2>4. CASE /\ acc.active /\ CloseStream /\ ReportError
             /\ ~(err = "Disconnected" /\ opt.reconnect)
    BY <2>1, <2>4 DEF CloseStream, ReportError, StreamKnown, NoStreamLeft
  <2> QED BY <2>1, <2>2, <2>3, <2>4
<1>14. CASE SessionFailed
  <2>1. PICK err \in Errors : CsError(err)
    BY <1>14, SessionFailedCalls
  <2> USE CsErrorCases, AccFields
  <2>2. CASE Ignored /\ (~acc.active \/ crashed')
    BY <2>1, <2>2 DEF Ignored, StreamKnown, NoStreamLeft
  <2>3. CASE acc.active /\ CloseStream /\ WaitToReconnect /\ opt.reconnect
    BY <2>1, <2>3 DEF CloseStream, WaitToReconnect, StreamKnown, NoStreamLeft
  <2>4. CASE /\ acc.active /\ CloseStream /\ ReportError
             /\ ~(err = "Disconnected" /\ opt.reconnect)
    BY <2>1, <2>4 DEF CloseStream, ReportError, StreamKnown, NoStreamLeft
  <2> QED BY <2>1, <2>2, <2>3, <2>4
<1>15. CASE DisconnectTimer
  BY <1>15, AccFields DEF DisconnectTimer, CloseStream, StreamKnown, NoStreamLeft
<1>16. CASE ReconnectTimer
  BY <1>16, AccFields DEF ReconnectTimer, Login, LoggingIn, StreamKnown, NoStreamLeft
<1>17. CASE UNCHANGED vars
  BY <1>17 DEF vars, StreamKnown, NoStreamLeft
<1> QED BY <1>1, <1>2, <1>3, <1>4, <1>5, <1>6, <1>7, <1>8, <1>9,
           <1>10, <1>11, <1>12, <1>13, <1>14, <1>15, <1>16, <1>17
        DEF Next

----------------------------------------------------------------------------
(* Offline.                                                                *)

(* An inactive account that still has a stream has a timer that will close  *)
(* it, and waits for no reconnection.                                       *)
OfflineKnown ==
    "overlap" \notin odd /\ "late" \notin odd =>
      /\ wants \/ ~acc.active
      /\ acc.active \/ disconnects > 0 \/ alive = {}
      /\ acc.active \/ acc.disconnecting \/ alive = {}
      /\ acc.doReconnect => acc.active /\ opt.reconnect

LEMMA OfflineKnownStep == TypeOK /\ StreamKnown /\ OfflineKnown /\ [Next]_vars => OfflineKnown'
<1> SUFFICES ASSUME TypeOK, StreamKnown, OfflineKnown, [Next]_vars PROVE OfflineKnown'
  OBVIOUS
<1>1. CASE GoOnline
  BY <1>1 DEF GoOnline, Login, LoggingIn, OfflineKnown
<1>2. CASE ChangeStatus
  BY <1>2 DEF ChangeStatus, SendPresence, OfflineKnown
<1>3. CASE GoOffline
  <2>1. CASE acc.active
    <3>1. /\ acc' = LoggedOut /\ disconnects' = disconnects + 1
          /\ UNCHANGED <<opt, alive, odd>>
      BY <1>3, <2>1, Zenon DEF GoOffline, Logout
    <3>2. disconnects' > 0
      BY <3>1, AccFields
    <3>3. ~acc'.active /\ acc'.disconnecting /\ ~acc'.doReconnect
      BY <3>1 DEF LoggedOut
    <3> QED BY <3>2, <3>3 DEF OfflineKnown
  <2>2. CASE ~acc.active
    <3>1. /\ UNCHANGED <<opt, alive, odd, disconnects>>
          /\ acc' = [acc EXCEPT !.doReconnect = FALSE] /\ ~wants'
      BY <1>3, <2>2, Zenon DEF GoOffline
    <3> QED BY <3>1, <2>2 DEF OfflineKnown
  <2> QED BY <2>1, <2>2
<1>4. CASE AcceptCertificate
  BY <1>4 DEF AcceptCertificate, OfflineKnown, timers
<1>5. CASE RefuseCertificate
  <2>1. CASE acc.active
    <3>1. /\ acc' = LoggedOut /\ disconnects' = disconnects + 1
          /\ UNCHANGED <<opt, alive, odd>>
      BY <1>5, <2>1, Zenon DEF RefuseCertificate, Logout
    <3>2. disconnects' > 0
      BY <3>1, AccFields
    <3>3. ~acc'.active /\ acc'.disconnecting /\ ~acc'.doReconnect
      BY <3>1 DEF LoggedOut
    <3> QED BY <3>2, <3>3 DEF OfflineKnown
  <2>2. CASE ~acc.active
    <3>1. /\ UNCHANGED <<opt, alive, odd, disconnects>>
          /\ UNCHANGED <<acc, wants>>
      BY <1>5, <2>2, Zenon DEF RefuseCertificate
    <3> QED BY <3>1 DEF OfflineKnown
  <2> QED BY <2>1, <2>2
<1>6. ASSUME NEW s \in Streams, AskCertificate(s) PROVE OfflineKnown'
  BY <1>6 DEF AskCertificate, OfflineKnown, timers
<1>7. ASSUME NEW s \in Streams, StraySignal(s) PROVE OfflineKnown'
  BY <1>7 DEF StraySignal, OfflineKnown, timers
<1>8. ASSUME NEW s \in Streams, NoTLS(s) PROVE OfflineKnown'
  BY <1>8, AccFields DEF NoTLS, CloseStream, OfflineKnown, StreamKnown, NoStreamLeft
<1>9. ASSUME NEW s \in Streams, Authenticated(s) PROVE OfflineKnown'
  BY <1>9 DEF Authenticated, OfflineKnown, timers
<1>10. ASSUME NEW s \in Streams, StreamEnds(s) PROVE OfflineKnown'
  BY <1>10 DEF StreamEnds, OfflineKnown, timers
<1>11. CASE SessionStarted
  BY <1>11 DEF SessionStarted, OfflineKnown, timers
<1>12. CASE RosterFinished
  BY <1>12 DEF RosterFinished, SendPresence, OfflineKnown, timers
<1>13. CASE Deliver
  <2>1. PICK err \in Errors : CsError(err)
    BY <1>13, DeliverCalls
  <2> USE CsErrorCases, AccFields
  <2>2. CASE Ignored /\ (~acc.active \/ crashed')
    BY <2>1, <2>2 DEF Ignored, OfflineKnown
  <2>3. CASE acc.active /\ CloseStream /\ WaitToReconnect /\ opt.reconnect
    BY <2>1, <2>3 DEF WaitToReconnect, OfflineKnown
  <2>4. CASE /\ acc.active /\ CloseStream /\ ReportError
             /\ ~(err = "Disconnected" /\ opt.reconnect)
    BY <2>1, <2>4 DEF CloseStream, ReportError, OfflineKnown, StreamKnown, NoStreamLeft
  <2> QED BY <2>1, <2>2, <2>3, <2>4
<1>14. CASE SessionFailed
  <2>1. PICK err \in Errors : CsError(err)
    BY <1>14, SessionFailedCalls
  <2> USE CsErrorCases, AccFields
  <2>2. CASE Ignored /\ (~acc.active \/ crashed')
    BY <2>1, <2>2 DEF Ignored, OfflineKnown
  <2>3. CASE acc.active /\ CloseStream /\ WaitToReconnect /\ opt.reconnect
    BY <2>1, <2>3 DEF WaitToReconnect, OfflineKnown
  <2>4. CASE /\ acc.active /\ CloseStream /\ ReportError
             /\ ~(err = "Disconnected" /\ opt.reconnect)
    BY <2>1, <2>4 DEF CloseStream, ReportError, OfflineKnown, StreamKnown, NoStreamLeft
  <2> QED BY <2>1, <2>2, <2>3, <2>4
<1>15. CASE DisconnectTimer
  BY <1>15, AccFields
     DEF DisconnectTimer, CloseStream, OfflineKnown, StreamKnown, NoStreamLeft
<1>16. CASE ReconnectTimer
  BY <1>16, AccFields DEF ReconnectTimer, Login, LoggingIn, OfflineKnown
<1>17. CASE UNCHANGED vars
  BY <1>17 DEF vars, OfflineKnown
<1> QED BY <1>1, <1>2, <1>3, <1>4, <1>5, <1>6, <1>7, <1>8, <1>9,
           <1>10, <1>11, <1>12, <1>13, <1>14, <1>15, <1>16, <1>17
        DEF Next

----------------------------------------------------------------------------
(* What the contact list shows.                                            *)

(* The account has a roster only of its present stream.                     *)
ShownKnown ==
    odd = {} =>
      /\ LoggedIn => acc.rosterDone /\ acc.stream # 0
      /\ acc.active /\ acc.stream # 0 /\ acc.rosterDone =>
           stream[acc.stream].phase = "online" \/ queued # <<>>

LEMMA ShownKnownStep == TypeOK /\ StreamKnown /\ ShownKnown /\ [Next]_vars => ShownKnown'
<1> SUFFICES ASSUME TypeOK, StreamKnown, ShownKnown, [Next]_vars PROVE ShownKnown'
  OBVIOUS
<1>1. CASE GoOnline
  BY <1>1 DEF GoOnline, Login, LoggingIn, ShownKnown, LoggedIn
<1>2. CASE ChangeStatus
  BY <1>2 DEF ChangeStatus, SendPresence, ShownKnown, LoggedIn
<1>3. CASE GoOffline
  BY <1>3, AccFields DEF GoOffline, Logout, LoggedOut, ShownKnown, LoggedIn
<1>4. CASE AcceptCertificate
  BY <1>4 DEF AcceptCertificate, ShownKnown, LoggedIn
<1>5. CASE RefuseCertificate
  BY <1>5, AccFields DEF RefuseCertificate, Logout, LoggedOut, ShownKnown, LoggedIn
<1>6. ASSUME NEW s \in Streams, AskCertificate(s) PROVE ShownKnown'
  BY <1>6 DEF AskCertificate, ShownKnown, LoggedIn
<1>7. ASSUME NEW s \in Streams, StraySignal(s) PROVE ShownKnown'
  BY <1>7 DEF StraySignal, ShownKnown, LoggedIn
<1>8. ASSUME NEW s \in Streams, NoTLS(s) PROVE ShownKnown'
  BY <1>8 DEF NoTLS, ShownKnown, LoggedIn
<1>9. ASSUME NEW s \in Streams, Authenticated(s) PROVE ShownKnown'
  BY <1>9 DEF Authenticated, Ses!LogIn, ShownKnown, LoggedIn, StreamKnown, NoStreamLeft
<1>10. ASSUME NEW s \in Streams, StreamEnds(s) PROVE ShownKnown'
  BY <1>10 DEF StreamEnds, ShownKnown, LoggedIn
<1>11. CASE SessionStarted
  BY <1>11 DEF SessionStarted, ShownKnown, LoggedIn
<1>12. CASE RosterFinished
  BY <1>12 DEF RosterFinished, SendPresence, Online, ShownKnown
<1>13. CASE Deliver
  <2>1. PICK err \in Errors : CsError(err)
    BY <1>13, DeliverCalls
  <2> USE CsErrorCases, AccFields
  <2>2. CASE Ignored /\ (~acc.active \/ crashed')
    BY <2>1, <2>2 DEF Ignored, ShownKnown, LoggedIn
  <2>3. CASE acc.active /\ CloseStream /\ WaitToReconnect /\ opt.reconnect
    BY <2>3 DEF WaitToReconnect, ShownKnown, LoggedIn
  <2>4. CASE /\ acc.active /\ CloseStream /\ ReportError
             /\ ~(err = "Disconnected" /\ opt.reconnect)
    BY <2>4 DEF ReportError, ShownKnown, LoggedIn
  <2> QED BY <2>1, <2>2, <2>3, <2>4
<1>14. CASE SessionFailed
  <2>1. PICK err \in Errors : CsError(err)
    BY <1>14, SessionFailedCalls
  <2> USE CsErrorCases, AccFields
  <2>2. CASE Ignored /\ (~acc.active \/ crashed')
    BY <2>1, <2>2 DEF Ignored, ShownKnown, LoggedIn
  <2>3. CASE acc.active /\ CloseStream /\ WaitToReconnect /\ opt.reconnect
    BY <2>3 DEF WaitToReconnect, ShownKnown, LoggedIn
  <2>4. CASE /\ acc.active /\ CloseStream /\ ReportError
             /\ ~(err = "Disconnected" /\ opt.reconnect)
    BY <2>4 DEF ReportError, ShownKnown, LoggedIn
  <2> QED BY <2>1, <2>2, <2>3, <2>4
<1>15. CASE DisconnectTimer
  BY <1>15, AccFields DEF DisconnectTimer, ShownKnown, LoggedIn, StreamKnown
<1>16. CASE ReconnectTimer
  BY <1>16, AccFields DEF ReconnectTimer, Login, LoggingIn, ShownKnown, LoggedIn
<1>17. CASE UNCHANGED vars
  BY <1>17 DEF vars, ShownKnown, LoggedIn
<1> QED BY <1>1, <1>2, <1>3, <1>4, <1>5, <1>6, <1>7, <1>8, <1>9,
           <1>10, <1>11, <1>12, <1>13, <1>14, <1>15, <1>16, <1>17
        DEF Next

----------------------------------------------------------------------------
(* Null pointers.                                                          *)

(* While a certificate is in question the account has a stream or waits to  *)
(* reconnect.                                                              *)
CauseKnown ==
    /\ CrashHasCause
    /\ dialog # 0 /\ acc.stream = 0 => acc.doReconnect

LEMMA CauseKnownStep == TypeOK /\ StreamKnown /\ CauseKnown /\ [Next]_vars => CauseKnown'
<1> SUFFICES ASSUME TypeOK, StreamKnown, CauseKnown, [Next]_vars PROVE CauseKnown'
  OBVIOUS
<1>1. CASE GoOnline
  BY <1>1 DEF GoOnline, CauseKnown, CrashHasCause
<1>2. CASE ChangeStatus
  BY <1>2 DEF ChangeStatus, CauseKnown, CrashHasCause
<1>3. CASE GoOffline
  BY <1>3 DEF GoOffline, CauseKnown, CrashHasCause
<1>4. CASE AcceptCertificate
  BY <1>4 DEF AcceptCertificate, CauseKnown, CrashHasCause
<1>5. CASE RefuseCertificate
  BY <1>5 DEF RefuseCertificate, CauseKnown, CrashHasCause
<1>6. ASSUME NEW s \in Streams, AskCertificate(s) PROVE CauseKnown'
  BY <1>6 DEF AskCertificate, CauseKnown, CrashHasCause
<1>7. ASSUME NEW s \in Streams, StraySignal(s) PROVE CauseKnown'
  BY <1>7, AccFields DEF StraySignal, CauseKnown, CrashHasCause, StreamKnown, NoStreamLeft
<1>8. ASSUME NEW s \in Streams, NoTLS(s) PROVE CauseKnown'
  BY <1>8 DEF NoTLS, CauseKnown, CrashHasCause
<1>9. ASSUME NEW s \in Streams, Authenticated(s) PROVE CauseKnown'
  BY <1>9 DEF Authenticated, CauseKnown, CrashHasCause
<1>10. ASSUME NEW s \in Streams, StreamEnds(s) PROVE CauseKnown'
  BY <1>10 DEF StreamEnds, CauseKnown, CrashHasCause
<1>11. CASE SessionStarted
  BY <1>11 DEF SessionStarted, CauseKnown, CrashHasCause
<1>12. CASE RosterFinished
  BY <1>12 DEF RosterFinished, SendPresence, CauseKnown, CrashHasCause
<1>13. CASE Deliver
  <2>1. PICK err \in Errors : CsError(err)
    BY <1>13, DeliverCalls
  <2> USE CsErrorCases, AccFields
  <2>2. CASE Ignored /\ (~acc.active \/ crashed')
    BY <2>1, <2>2 DEF Ignored, CauseKnown, CrashHasCause
  <2>3. CASE acc.active /\ CloseStream /\ WaitToReconnect /\ opt.reconnect
    BY <2>1, <2>3 DEF WaitToReconnect, CauseKnown, CrashHasCause
  <2>4. CASE /\ acc.active /\ CloseStream /\ ReportError
             /\ ~(err = "Disconnected" /\ opt.reconnect)
    BY <2>1, <2>4 DEF ReportError, CauseKnown, CrashHasCause
  <2> QED BY <2>1, <2>2, <2>3, <2>4
<1>14. CASE SessionFailed
  <2>1. PICK err \in Errors : CsError(err)
    BY <1>14, SessionFailedCalls
  <2> USE CsErrorCases, AccFields
  <2>2. CASE Ignored /\ (~acc.active \/ crashed')
    BY <2>1, <2>2 DEF Ignored, CauseKnown, CrashHasCause
  <2>3. CASE acc.active /\ CloseStream /\ WaitToReconnect /\ opt.reconnect
    BY <2>1, <2>3 DEF WaitToReconnect, CauseKnown, CrashHasCause
  <2>4. CASE /\ acc.active /\ CloseStream /\ ReportError
             /\ ~(err = "Disconnected" /\ opt.reconnect)
    BY <2>1, <2>4 DEF ReportError, CauseKnown, CrashHasCause
  <2> QED BY <2>1, <2>2, <2>3, <2>4
<1>15. CASE DisconnectTimer
  BY <1>15 DEF DisconnectTimer, CauseKnown, CrashHasCause
<1>16. CASE ReconnectTimer
  BY <1>16 DEF ReconnectTimer, CauseKnown, CrashHasCause
<1>17. CASE UNCHANGED vars
  BY <1>17 DEF vars, CauseKnown, CrashHasCause
<1> QED BY <1>1, <1>2, <1>3, <1>4, <1>5, <1>6, <1>7, <1>8, <1>9,
           <1>10, <1>11, <1>12, <1>13, <1>14, <1>15, <1>16, <1>17
        DEF Next

----------------------------------------------------------------------------
(* The theorems.                                                           *)

Known == StreamKnown /\ OfflineKnown /\ ShownKnown /\ CauseKnown

LEMMA InitKnown == Init => Known
BY DEF Init, Known, StreamKnown, NoStreamLeft, OfflineKnown, ShownKnown, LoggedIn,
       CauseKnown, CrashHasCause

LEMMA InvariantCorrect == Spec => [](TypeOK /\ Known)
<1>1. TypeOK /\ Known /\ [Next]_vars => Known'
  BY StreamKnownStep, OfflineKnownStep, ShownKnownStep, CauseKnownStep, Zenon DEF Known
<1> QED BY <1>1, InitType, TypeStep, InitKnown, PTL DEF Spec

(* No login leaves a stream behind, unless the user logs in within 100 ms   *)
(* of logging out.                                                          *)
THEOREM NoStreamLeftCorrect == Spec => []NoStreamLeft
<1>1. Known => NoStreamLeft
  BY DEF Known, StreamKnown
<1> QED BY <1>1, InvariantCorrect, PTL

(* An account that was asked, or reported, to be offline stays offline and  *)
(* its connection is closed, whatever timers are still to fire.             *)
THEOREM OfflineIsKeptCorrect == Spec => []OfflineIsKept
<1>1. Known => OfflineIsKept
  BY DEF Known, OfflineKnown, OfflineIsKept
<1> QED BY <1>1, InvariantCorrect, PTL

(* An account that is shown as logged in has a session, or is about to      *)
(* learn of its end.                                                        *)
THEOREM ShownOnlineCorrect == Spec => []ShownOnlineIsOnline
<1>1. Known => ShownOnlineIsOnline
  BY DEF Known, ShownKnown, ShownOnlineIsOnline, LoggedIn
<1> QED BY <1>1, InvariantCorrect, PTL

(* No handler uses a null pointer but for the causes named.                 *)
THEOREM CrashHasCauseCorrect == Spec => []CrashHasCause
<1>1. Known => CrashHasCause
  BY DEF Known, CauseKnown
<1> QED BY <1>1, InvariantCorrect, PTL

=============================================================================

------------------------------- MODULE Stream -------------------------------
(***************************************************************************)
(* An XMPP client stream from connectToServer() to its end: ClientStream    *)
(* (iris/xmpp-core/stream.cpp) over CoreProtocol, BasicProtocol and         *)
(* XmlProtocol (protocol.cpp, xmlprotocol.cpp), with a server that keeps    *)
(* to the protocol but may refuse anything and may go at any time.          *)
(*                                                                         *)
(* ClientStream::processNext() is a loop over processStep().  One turn of   *)
(* the loop is one action here; while `busy' only the loop takes steps, as  *)
(* the thread is in it.  The loop pauses where processStep() returns false. *)
(* Data is a whole element or message: how bytes are cut is not modelled.   *)
(***************************************************************************)
EXTENDS Integers, Sequences

CONSTANTS
    Options,     \* what the account may choose, see OptionSpace
    MaxRounds,   \* bound: challenges of the SASL mechanism
    MaxWrites,   \* bound: stanzas the application writes in a session
    MaxPushed    \* bound: stanzas the server sends in a session

(* tls: a TLSHandler is given; ssl: the connector uses SSL at once;          *)
(* compress: setCompress(); plain: setAllowPlain(); auth: connectToServer() *)
(* is to log in, not only to connect.                                       *)
OptionSpace ==
    {o \in [tls : BOOLEAN, ssl : BOOLEAN, compress : BOOLEAN,
            plain : {"NoAllowPlain", "AllowPlain", "AllowPlainOverTLS"}, auth : BOOLEAN] :
       o.ssl => o.tls}

ASSUME StreamAssumption ==
    /\ Options \subseteq OptionSpace
    /\ MaxRounds \in Nat /\ MaxWrites \in Nat /\ MaxPushed \in Nat

Offers == {"tls", "sasl", "zlib", "bind", "v1", "digest", "plain"}
Elements ==
    {"stream", "features", "proceed", "tlsFailure", "compressed", "compressFailure",
     "challenge", "success", "successData", "saslFailure", "bound", "boundBadly",
     "bindError", "authFields", "authOk", "authError", "stanza",
     "streamError", "endStream", "malformed"}
Messages ==
    {"open", "starttls", "compress", "auth", "response", "bind", "authGet", "authSet",
     "stanza", "ping", "close"}
Steps ==
    {"Start", "GetFeatures", "HandleFeatures", "GetTLSProceed", "GetCompressProceed",
     "GetSASLFirst", "GetSASLChallenge", "GetSASLNext", "HandleSASLSuccess",
     "GetBindResponse", "HandleAuthGet", "GetAuthGetResponse", "HandleAuthSet",
     "GetAuthSetResponse", "Done"}

VARIABLES
    opt,     \* the options of this connection
    cs,      \* ClientStream: state, notify, usingTls, tlsWarned
    bs,      \* BOOLEAN: there is a connection
    core,    \* CoreProtocol
    layer,   \* SecureStream: tls in "none", "handshake", "on"; zip
    sasl,    \* the SASL object: what it works on, and whether it may use PLAIN
    busy,    \* BOOLEAN: processNext() is running
    out,     \* Seq: messages written to the SecureStream, not yet on the wire
    inbox,   \* Seq: messages the server has
    host,    \* the server: up, its document open, in session, rounds of SASL
    net,     \* Seq: elements on their way to the client
    buf,     \* Seq: elements in the client's parser
    app,     \* the application: stanzas waiting, a timer for readyRead(), counts
    told     \* the signal that ended the last connection: history

vars == <<opt, cs, bs, core, layer, sasl, busy, out, inbox, host, net, buf, app, told>>

El(k) == [k |-> k, a |-> {}]

InitCs == [state |-> "Idle", notify |-> {}, usingTls |-> FALSE, tlsWarned |-> FALSE]
InitCore ==
    [xml |-> "SendOpen", step |-> "Start", old |-> FALSE, features |-> {},
     tlsStarted |-> FALSE, compressStarted |-> FALSE, saslAuthed |-> FALSE,
     digest |-> FALSE, ready |-> FALSE, doShutdown |-> FALSE, refused |-> FALSE,
     sendList |-> <<>>, pending |-> 0, written |-> 0, track |-> <<>>, closeWritten |-> FALSE]
InitLayer == [tls |-> "none", zip |-> FALSE]
InitSasl == [at |-> "none", plain |-> FALSE]
InitHost ==
    [up |-> TRUE, open |-> FALSE, authed |-> FALSE, session |-> FALSE, rounds |-> 0,
     pushed |-> 0]

----------------------------------------------------------------------------
(* What the actions are built from.                                        *)

(* ClientStream::reset(): the connection is closed, everything is as new,   *)
(* but stanzas that wait for readyRead() are kept.                          *)
Reset ==
    /\ cs' = InitCs /\ bs' = FALSE /\ core' = InitCore /\ layer' = InitLayer
    /\ sasl' = InitSasl /\ busy' = FALSE /\ host' = InitHost
    /\ out' = <<>> /\ inbox' = <<>> /\ net' = <<>> /\ buf' = <<>>

(* reset(), then a signal.                                                 *)
EndWith(signal) == Reset /\ told' = signal /\ UNCHANGED <<opt, app>>

(* handleError()                                                           *)
Fail == EndWith("error")

(* A message is written through the layers there are.  trackQueue has it    *)
(* until the SecureStream reports it.                                       *)
Message(k) ==
    [k |-> k, enc |-> layer.tls = "on",
     plain |-> \/ k = "auth" /\ sasl.plain
               \/ k = "authSet" /\ ~core.digest]
Write(k) == out' = Append(out, Message(k))
Tracked(c, k) == [c EXCEPT !.track = Append(@, k)]

(* The loop goes on: d->notify = 0.                                         *)
Continue == busy' = TRUE /\ cs' = [cs EXCEPT !.notify = {}]

(* handleNeed() returns false.  What came in is announced by a timer.       *)
Announce(a) == [a EXCEPT !.timer = @ \/ a.in > 0]
PauseAs(c) == busy' = FALSE /\ cs' = c /\ app' = Announce(app)
Pause(notify) == PauseAs([cs EXCEPT !.notify = notify])

(* The steps at which the parser is read.                                  *)
StepRequiresElement ==
    core.step \in {"GetFeatures", "GetTLSProceed", "GetCompressProceed", "GetSASLChallenge",
                   "GetBindResponse", "GetAuthGetResponse", "GetAuthSetResponse"}
ReadsParser ==
    \/ core.xml = "RecvOpen"
    \/ core.xml \notin {"RecvOpen", "Closing"} /\ (StepRequiresElement \/ core.ready)

Nothing == buf = <<>>
Got(k) == ~Nothing /\ Head(buf).k = k
Take == buf' = Tail(buf)

Wire == <<inbox, host, net>>

----------------------------------------------------------------------------
(* One turn of the loop of processNext(), by the state of XmlProtocol ...   *)

(* processStep(): the close tag or a parse error comes before any step.     *)
PeerClosed == busy /\ ReadsParser /\ Got("endStream") /\ EndWith("connectionClosed")
ParseError == busy /\ ReadsParser /\ Got("malformed") /\ Fail

NeedsData ==
    /\ busy /\ ReadsParser /\ Nothing
    /\ core.xml = "RecvOpen" \/ StepRequiresElement
    /\ Pause({"NRecv"})
    /\ UNCHANGED <<opt, bs, core, layer, sasl, out, Wire, buf, told>>

SendTagOpen ==
    /\ busy /\ core.xml = "SendOpen"
    /\ core' = Tracked([core EXCEPT !.xml = "RecvOpen"], "raw")
    /\ Write("open")
    /\ Continue
    /\ UNCHANGED <<opt, bs, layer, sasl, Wire, buf, app, told>>

(* handleStreamOpen(), then ERecvOpen.                                     *)
RecvTagOpen ==
    /\ busy /\ core.xml = "RecvOpen" /\ Got("stream") /\ Take
    /\ LET old == "v1" \notin Head(buf).a
       IN /\ core' = [core EXCEPT !.xml = "Open", !.old = old]
          /\ busy' = ~old
          /\ cs' = [cs EXCEPT !.notify = {}, !.state = IF old THEN "WaitVersion" ELSE @]
    /\ UNCHANGED <<opt, bs, layer, sasl, out, Wire, app, told>>

(* Closing: handleCloseFinished() when the close tag is out.               *)
CloseFinished ==
    /\ busy /\ core.xml = "Closing" /\ core.closeWritten
    /\ EndWith("delayedCloseFinished")
CloseWaits ==
    /\ busy /\ core.xml = "Closing" /\ ~core.closeWritten
    /\ Pause({"NSend"})
    /\ UNCHANGED <<opt, bs, core, layer, sasl, out, Wire, buf, told>>

(* ... and in an open document by the step of CoreProtocol.                *)
At(step) == busy /\ core.xml = "Open" /\ core.step = step
AtElement(step, k) == At(step) /\ Got(k) /\ Take

(* doStep(): shutdown comes first; an element that was read is dropped.     *)
Shutdown ==
    /\ busy /\ core.xml = "Open" /\ core.doShutdown
    /\ ~(ReadsParser /\ (Got("endStream") \/ Got("malformed")))
    /\ core' = Tracked([core EXCEPT !.doShutdown = FALSE, !.xml = "Closing"], "close")
    /\ Write("close")
    /\ Continue
    /\ buf' = IF Nothing THEN buf ELSE Tail(buf)
    /\ UNCHANGED <<opt, bs, layer, sasl, Wire, app, told>>

StreamError ==
    /\ busy /\ core.xml = "Open" /\ ~core.doShutdown /\ ReadsParser
    /\ Got("streamError") /\ Fail

(* A step that sends an element.                                           *)
Send(c, k) ==
    /\ core' = Tracked(c, "raw")
    /\ Write(k)
    /\ Continue
    /\ UNCHANGED <<opt, bs, layer, sasl, Wire, app, told>>

(* loginComplete() and EReady.  The application may write at once, from its *)
(* handler of authenticated(): the loop goes on with that.                  *)
LoginComplete(c) ==
    /\ cs' = [cs EXCEPT !.state = "Active", !.notify = {}]
    /\ busy' = TRUE
    /\ \E n \in {0, 1} :
         /\ app.wrote + n <= MaxWrites
         /\ app' = [app EXCEPT !.wrote = @ + n]
         /\ core' = [c EXCEPT !.ready = TRUE, !.step = "Done",
                               !.sendList = IF n = 0 THEN <<>> ELSE <<"stanza">>]
    /\ UNCHANGED <<opt, bs, layer, sasl, out, Wire, told>>

StartStep ==
    /\ At("Start")
    /\ IF core.old /\ ~opt.auth THEN LoginComplete(core)
       ELSE /\ core' = [core EXCEPT !.step = IF core.old THEN "HandleAuthGet" ELSE "GetFeatures"]
            /\ Continue
            /\ UNCHANGED <<opt, bs, layer, sasl, out, Wire, app, told>>
    /\ UNCHANGED buf

(* EFeatures: the account is warned, once, of a stream without TLS.         *)
OnFeatures(features) ==
    LET warn == ~cs.tlsWarned /\ ~cs.usingTls /\ "tls" \notin features
    IN /\ busy' = ~warn
       /\ cs' = [cs EXCEPT !.notify = {}, !.tlsWarned = @ \/ warn,
                           !.state = IF warn THEN "WaitTLS" ELSE @]
       /\ UNCHANGED <<opt, bs, layer, sasl, out, Wire, app, told>>

GetFeatures ==
    /\ AtElement("GetFeatures", "features")
    /\ core' = [core EXCEPT !.features = Head(buf).a, !.step = "HandleFeatures"]
    /\ OnFeatures(Head(buf).a)

WantsTLS ==
    opt.tls /\ ~core.tlsStarted /\ ~core.saslAuthed /\ "tls" \in core.features
WantsCompression ==
    opt.compress /\ ~core.compressStarted /\ "zlib" \in core.features

(* Mutant of MayUsePlain: TLS will do when it is only offered.              *)
MayUsePlainOffered ==
    \/ opt.plain = "AllowPlain"
    \/ opt.plain = "AllowPlainOverTLS" /\ (cs.usingTls \/ "tls" \in core.features)

MayUsePlain ==
    \/ opt.plain = "AllowPlain"
    \/ opt.plain = "AllowPlainOverTLS" /\ cs.usingTls

HandleFeatures ==
    /\ At("HandleFeatures")
    /\ UNCHANGED buf
    /\ \/ /\ WantsTLS
          /\ Send([core EXCEPT !.step = "GetTLSProceed"], "starttls")
       \/ /\ ~WantsTLS /\ ~opt.auth
          /\ LoginComplete(core)
       \/ /\ ~WantsTLS /\ opt.auth /\ WantsCompression
          /\ Send([core EXCEPT !.step = "GetCompressProceed"], "compress")
       \/ /\ ~WantsTLS /\ opt.auth /\ ~WantsCompression /\ ~core.saslAuthed
          /\ \/ /\ "sasl" \notin core.features    \* returns with the event EFeatures
                /\ core' = [core EXCEPT !.step = "HandleAuthGet", !.old = TRUE]
                /\ OnFeatures(core.features)
             \/ /\ "sasl" \in core.features
                /\ core' = [core EXCEPT !.step = "GetSASLFirst"]
                /\ sasl' = [at |-> "first", plain |-> MayUsePlain]
                /\ Pause({})
                /\ UNCHANGED <<opt, bs, layer, out, Wire, told>>
       \/ /\ ~WantsTLS /\ opt.auth /\ ~WantsCompression /\ core.saslAuthed
          /\ "bind" \in core.features
          /\ Send([core EXCEPT !.step = "GetBindResponse"], "bind")
NoBind ==
    /\ At("HandleFeatures") /\ ~WantsTLS /\ opt.auth /\ ~WantsCompression
    /\ core.saslAuthed /\ "bind" \notin core.features
    /\ Fail

(* resetStream(): a new document; what was not parsed is `spare'.           *)
ResetStream(c) == [c EXCEPT !.xml = "SendOpen", !.step = "Start"]

(* NStartTLS: the loop is left until the handshake is done.                 *)
Proceed ==
    /\ AtElement("GetTLSProceed", "proceed")
    /\ core' = ResetStream([core EXCEPT !.tlsStarted = TRUE])
    /\ layer' = [layer EXCEPT !.tls = "handshake"]
    /\ PauseAs([cs EXCEPT !.notify = {}, !.usingTls = TRUE])
    /\ UNCHANGED <<opt, bs, sasl, out, Wire, told>>

(* NCompress: what is left in the parser is compressed and comes back.      *)
Compressed ==
    /\ At("GetCompressProceed") /\ Got("compressed")
    /\ core' = ResetStream([core EXCEPT !.compressStarted = TRUE])
    /\ layer' = [layer EXCEPT !.zip = TRUE]
    /\ net' = Tail(buf) \o net /\ buf' = <<>>
    /\ Continue /\ app' = Announce(app)
    /\ UNCHANGED <<opt, bs, sasl, out, inbox, host, told>>

(* ErrCompress: handleError() has no case for it, and nothing happens.      *)
CompressionRefused ==
    /\ AtElement("GetCompressProceed", "compressFailure")
    /\ core' = [core EXCEPT !.refused = TRUE]
    /\ busy' = FALSE /\ cs' = [cs EXCEPT !.notify = {}]
    /\ UNCHANGED <<opt, bs, layer, sasl, out, Wire, app, told>>

GetSASLFirst ==
    /\ At("GetSASLFirst")
    /\ Send([core EXCEPT !.step = "GetSASLChallenge"], "auth")
    /\ UNCHANGED buf

(* A challenge, or success with data: NSASLNext.                           *)
SASLChallenge ==
    /\ At("GetSASLChallenge") /\ (Got("challenge") \/ Got("successData")) /\ Take
    /\ core' = [core EXCEPT !.step = "GetSASLNext",
                           !.saslAuthed = Got("successData")]
    /\ sasl' = [sasl EXCEPT !.at = "next"]
    /\ Pause({})
    /\ UNCHANGED <<opt, bs, layer, out, Wire, told>>

SASLSuccess ==
    /\ \/ AtElement("GetSASLChallenge", "success")
       \/ At("GetSASLNext") /\ core.saslAuthed /\ UNCHANGED buf
    /\ core' = [core EXCEPT !.step = "HandleSASLSuccess", !.saslAuthed = TRUE]
    /\ Continue
    /\ UNCHANGED <<opt, bs, layer, sasl, out, Wire, app, told>>

GetSASLNext ==
    /\ At("GetSASLNext") /\ ~core.saslAuthed
    /\ Send([core EXCEPT !.step = "GetSASLChallenge"], "response")
    /\ UNCHANGED buf

(* NSASLLayer: processNext() does not call handleNeed() for it, so no layer *)
(* is set and `spare' is lost.  The loop goes on.                           *)
HandleSASLSuccess ==
    /\ At("HandleSASLSuccess")
    /\ core' = ResetStream(core)
    /\ buf' = <<>>
    /\ Continue
    /\ UNCHANGED <<opt, bs, layer, sasl, out, Wire, app, told>>

Bound == AtElement("GetBindResponse", "bound") /\ LoginComplete(core)

HandleAuthGet ==
    /\ At("HandleAuthGet")
    /\ Send([core EXCEPT !.step = "GetAuthGetResponse"], "authGet")
    /\ UNCHANGED buf

(* setAllowPlain() at the start of the stream, for the old protocol.        *)
OldPlainAllowed ==
    opt.plain = "AllowPlain" \/ (opt.plain = "AllowPlainOverTLS" /\ opt.ssl)

(* NPassword                                                               *)
AuthFields ==
    /\ AtElement("GetAuthGetResponse", "authFields")
    /\ "digest" \in Head(buf).a \/ ("plain" \in Head(buf).a /\ OldPlainAllowed)
    /\ core' = [core EXCEPT !.digest = "digest" \in Head(buf).a, !.step = "HandleAuthSet"]
    /\ PauseAs([cs EXCEPT !.state = "NeedParams", !.notify = {}])
    /\ UNCHANGED <<opt, bs, layer, sasl, out, Wire, told>>

HandleAuthSet ==
    /\ At("HandleAuthSet")
    /\ Send([core EXCEPT !.step = "GetAuthSetResponse"], "authSet")
    /\ UNCHANGED buf

AuthOk == AtElement("GetAuthSetResponse", "authOk") /\ LoginComplete(core)

(* What the server may refuse, at each step.                               *)
TLSRefused == At("GetTLSProceed") /\ Got("tlsFailure") /\ Fail
SASLRefused == At("GetSASLChallenge") /\ Got("saslFailure") /\ Fail
BindRefused == At("GetBindResponse") /\ (Got("boundBadly") \/ Got("bindError")) /\ Fail
AuthGetRefused ==
    /\ At("GetAuthGetResponse")
    /\ \/ Got("authError")
       \/ /\ Got("authFields") /\ "digest" \notin Head(buf).a
          /\ "plain" \in Head(buf).a => ~OldPlainAllowed
    /\ Fail
AuthSetRefused == At("GetAuthSetResponse") /\ Got("authError") /\ Fail
Refused == TLSRefused \/ SASLRefused \/ BindRefused \/ AuthGetRefused \/ AuthSetRefused

(* The session.  Whatever doStep() does, it drops the element it was given  *)
(* unless it comes to the end.                                             *)
InSession ==
    /\ At("Done") /\ ~core.doShutdown
    /\ ~Got("endStream") /\ ~Got("malformed") /\ ~Got("streamError")
TakeAny == buf' = IF Nothing THEN buf ELSE Tail(buf)

(* Mutant of StanzaSent: the counter is not looked at.                      *)
StanzaSentAnyway ==
    /\ InSession /\ core.pending > 0 /\ TakeAny
    /\ core' = [core EXCEPT !.written = @ - 1]
    /\ Continue
    /\ UNCHANGED <<opt, bs, layer, sasl, out, Wire, app, told>>

StanzaSent ==
    /\ InSession /\ core.written > 0 /\ TakeAny
    /\ core' = [core EXCEPT !.written = @ - 1]
    /\ Continue
    /\ UNCHANGED <<opt, bs, layer, sasl, out, Wire, app, told>>

SendItem ==
    /\ InSession /\ core.written = 0 /\ core.sendList # <<>> /\ TakeAny
    /\ LET item == Head(core.sendList)
           stanza == item = "stanza"
       IN /\ core' = Tracked([core EXCEPT !.sendList = Tail(@),
                                          !.pending = @ + IF stanza THEN 1 ELSE 0], item)
          /\ Write(item)
    /\ Continue
    /\ UNCHANGED <<opt, bs, layer, sasl, Wire, app, told>>

StanzaReady ==
    /\ InSession /\ core.written = 0 /\ core.sendList = <<>> /\ Got("stanza") /\ Take
    /\ app' = [app EXCEPT !.in = @ + 1]
    /\ Continue
    /\ UNCHANGED <<opt, bs, core, layer, sasl, out, Wire, told>>

SessionWaits ==
    /\ InSession /\ core.written = 0 /\ core.sendList = <<>> /\ Nothing
    /\ Pause({"NRecv"} \cup IF core.pending > 0 THEN {"NSend"} ELSE {})
    /\ UNCHANGED <<opt, bs, core, layer, sasl, out, Wire, buf, told>>

Loop ==
    \/ PeerClosed \/ ParseError \/ NeedsData \/ SendTagOpen \/ RecvTagOpen
    \/ CloseFinished \/ CloseWaits \/ Shutdown \/ StreamError \/ StartStep
    \/ GetFeatures \/ HandleFeatures \/ NoBind \/ Proceed \/ Compressed
    \/ CompressionRefused \/ GetSASLFirst \/ SASLChallenge \/ SASLSuccess
    \/ GetSASLNext \/ HandleSASLSuccess \/ Bound \/ HandleAuthGet \/ AuthFields
    \/ HandleAuthSet \/ AuthOk \/ Refused
    \/ StanzaSent \/ SendItem \/ StanzaReady \/ SessionWaits

----------------------------------------------------------------------------
(* What calls processNext(): the connection ...                            *)

ConnectToServer(o) ==
    /\ ~busy /\ cs.state = "Idle"
    /\ opt' = o
    /\ cs' = [InitCs EXCEPT !.state = "Connecting"]
    /\ app' = [app EXCEPT !.in = 0, !.wrote = 0, !.heard = 0]
    /\ told' = "none"
    /\ UNCHANGED <<bs, core, layer, sasl, busy, out, inbox, host, net, buf>>

(* cr_connected(): startClientOut(), and TLS at once or the first step.     *)
Connected ==
    /\ ~busy /\ cs.state = "Connecting" /\ ~bs
    /\ bs' = TRUE
    /\ core' = [core EXCEPT !.tlsStarted = opt.ssl]
    /\ cs' = [cs EXCEPT !.usingTls = opt.ssl]
    /\ layer' = [layer EXCEPT !.tls = IF opt.ssl THEN "handshake" ELSE @]
    /\ busy' = ~opt.ssl
    /\ UNCHANGED <<opt, sasl, out, Wire, buf, app, told>>

ConnectorFails == ~busy /\ cs.state = "Connecting" /\ ~bs /\ Fail

(* bs_connectionClosed(), ss_tlsClosed().                                  *)
ConnectionClosed == ~busy /\ bs /\ EndWith("connectionClosed")

TLSHandshaken ==
    /\ ~busy /\ layer.tls = "handshake"
    /\ layer' = [layer EXCEPT !.tls = "on"]
    /\ busy' = TRUE
    /\ UNCHANGED <<opt, cs, bs, core, sasl, out, Wire, buf, app, told>>

(* ss_error()                                                              *)
TLSFails == ~busy /\ layer.tls # "none" /\ Fail

(* ss_bytesWritten(): a message is on the wire, and reported, unless there  *)
(* is a compression layer: that one never reports.                          *)
ItemWritten(c) ==
    LET item == Head(c.track)
        stanza == IF item = "stanza" THEN 1 ELSE 0
    IN IF c.track = <<>> THEN c
       ELSE [c EXCEPT !.track = Tail(@), !.pending = @ - stanza, !.written = @ + stanza,
                      !.closeWritten = @ \/ item = "close"]
Written ==
    /\ ~busy /\ out # <<>>
    /\ out' = Tail(out) /\ inbox' = Append(inbox, Head(out))
    /\ core' = IF layer.zip THEN core ELSE ItemWritten(core)
    /\ busy' = (~layer.zip /\ "NSend" \in cs.notify)
    /\ UNCHANGED <<opt, cs, bs, layer, sasl, host, net, buf, app, told>>

(* Mutant of Receive: data is only looked at when a step has waited for it, *)
(* not while stanzas are being written.                                    *)
ReceiveIfOnlyRecv ==
    /\ ~busy /\ net # <<>>
    /\ \E n \in 1..Len(net) :
         /\ buf' = buf \o SubSeq(net, 1, n)
         /\ net' = SubSeq(net, n + 1, Len(net))
    /\ busy' = (cs.notify = {"NRecv"})
    /\ UNCHANGED <<opt, cs, bs, core, layer, sasl, out, inbox, host, app, told>>

(* ss_readyRead(): one or more elements in one packet.                     *)
Receive ==
    /\ ~busy /\ net # <<>>
    /\ \E n \in 1..Len(net) :
         /\ buf' = buf \o SubSeq(net, 1, n)
         /\ net' = SubSeq(net, n + 1, Len(net))
    /\ busy' = ("NRecv" \in cs.notify)
    /\ UNCHANGED <<opt, cs, bs, core, layer, sasl, out, inbox, host, app, told>>

(* ... the SASL object ...                                                 *)
SaslWorks == ~busy /\ cs.state = "Connecting" /\ sasl.at # "none"

(* sasl_clientFirstStep(), sasl_nextStep()                                 *)
SaslStep ==
    /\ SaslWorks
    /\ sasl' = [sasl EXCEPT !.at = "none"]
    /\ busy' = TRUE
    /\ UNCHANGED <<opt, cs, bs, core, layer, out, Wire, buf, app, told>>
(* sasl_needParams(): PLAIN asks for them at its first step, DIGEST-MD5 after *)
(* the challenge; neither asks again when it has just been told.             *)
SaslNeedsParams ==
    /\ SaslWorks /\ sasl.at # "told"
    /\ cs' = [cs EXCEPT !.state = "NeedParams"]
    /\ UNCHANGED <<opt, bs, core, layer, sasl, busy, out, Wire, buf, app, told>>
SaslFails == SaslWorks /\ Fail

(* ... and the account.                                                    *)
(* Mutant of ContinueAfterParams: the mechanism is not told to go on.        *)
ContinueAfterParamsOnly ==
    /\ ~busy /\ cs.state = "NeedParams"
    /\ cs' = [cs EXCEPT !.state = "Connecting"]
    /\ busy' = core.old
    /\ UNCHANGED <<opt, bs, core, layer, sasl, out, Wire, buf, app, told>>

ContinueAfterParams ==
    /\ ~busy /\ cs.state = "NeedParams"
    /\ cs' = [cs EXCEPT !.state = "Connecting"]
    /\ IF core.old THEN busy' = TRUE /\ UNCHANGED sasl
       ELSE busy' = FALSE /\ sasl' = [sasl EXCEPT !.at = "told"]
    /\ UNCHANGED <<opt, bs, core, layer, out, Wire, buf, app, told>>

(* Mutant of ContinueAfterWarning: an old server is not warned of twice.    *)
ContinueAfterWarningOnce ==
    /\ ~busy /\ cs.state \in {"WaitVersion", "WaitTLS"}
    /\ cs' = [cs EXCEPT !.state = "Connecting"]
    /\ busy' = TRUE
    /\ UNCHANGED <<opt, bs, core, layer, sasl, out, Wire, buf, app, told>>

ContinueAfterWarning ==
    /\ ~busy /\ cs.state \in {"WaitVersion", "WaitTLS"}
    /\ LET warn == cs.state = "WaitVersion" /\ ~cs.tlsWarned /\ ~cs.usingTls
       IN /\ cs' = [cs EXCEPT !.state = IF warn THEN "WaitTLS" ELSE "Connecting",
                              !.tlsWarned = @ \/ warn]
          /\ busy' = ~warn
    /\ UNCHANGED <<opt, bs, core, layer, sasl, out, Wire, buf, app, told>>

(* Mutant of Close: a second close() is taken for one during the login.     *)
CloseAgain ==
    /\ ~busy
    /\ \/ /\ cs.state = "Active"
          /\ cs' = [cs EXCEPT !.state = "Closing"]
          /\ core' = [core EXCEPT !.doShutdown = TRUE]
          /\ busy' = TRUE
          /\ UNCHANGED <<opt, bs, layer, sasl, out, Wire, buf, app, told>>
       \/ /\ cs.state \notin {"Idle", "Active"}
          /\ Reset
          /\ UNCHANGED <<opt, app, told>>

(* Mutant of Close: the next event is to send the close tag.                *)
CloseLater ==
    /\ ~busy
    /\ \/ /\ cs.state = "Active"
          /\ cs' = [cs EXCEPT !.state = "Closing"]
          /\ core' = [core EXCEPT !.doShutdown = TRUE]
          /\ UNCHANGED <<opt, bs, layer, sasl, busy, out, Wire, buf, app, told>>
       \/ /\ cs.state \in {"Connecting", "WaitVersion", "WaitTLS", "NeedParams"}
          /\ Reset
          /\ UNCHANGED <<opt, app, told>>

Close ==
    /\ ~busy
    /\ \/ /\ cs.state = "Active"
          /\ cs' = [cs EXCEPT !.state = "Closing"]
          /\ core' = [core EXCEPT !.doShutdown = TRUE]
          /\ busy' = TRUE
          /\ UNCHANGED <<opt, bs, layer, sasl, out, Wire, buf, app, told>>
       \/ /\ cs.state \in {"Connecting", "WaitVersion", "WaitTLS", "NeedParams"}
          /\ Reset
          /\ UNCHANGED <<opt, app, told>>

(* write() of a stanza, doNoop().                                          *)
WriteItem ==
    /\ ~busy /\ cs.state = "Active" /\ app.wrote < MaxWrites
    /\ \E item \in {"stanza", "ping"} :
         core' = [core EXCEPT !.sendList = Append(@, item)]
    /\ app' = [app EXCEPT !.wrote = @ + 1]
    /\ busy' = TRUE
    /\ UNCHANGED <<opt, cs, bs, layer, sasl, out, Wire, buf, told>>

(* doReadyRead(): the application reads all stanzas there are.              *)
ReadyRead ==
    /\ ~busy /\ app.timer
    /\ app' = [app EXCEPT !.timer = FALSE, !.in = 0, !.heard = @ + app.in]
    /\ UNCHANGED <<opt, cs, bs, core, layer, sasl, busy, out, Wire, buf, told>>

----------------------------------------------------------------------------
(* The server.                                                             *)

(* It may offer whatever makes sense: TLS once, SASL until it has succeeded, *)
(* then binding.                                                           *)
One(kinds) == {<<El(k)>> : k \in kinds}
Offered(enc) ==
    {"zlib"} \cup (IF host.authed THEN {"bind"} ELSE {"sasl"})
            \cup (IF enc \/ host.authed THEN {} ELSE {"tls"})
Replies(m) ==
    LET k == m.k IN
    CASE k = "open" ->
           {<<[k |-> "stream", a |-> {"v1"}], [k |-> "features", a |-> f]>> :
              f \in SUBSET Offered(m.enc)} \cup One({"stream"})
      [] k = "starttls" -> One({"proceed", "tlsFailure"})
      [] k = "compress" -> One({"compressed", "compressFailure"})
      [] k \in {"auth", "response"} ->
           One({"success", "successData", "saslFailure"}
               \cup IF host.rounds < MaxRounds THEN {"challenge"} ELSE {})
      [] k = "bind" -> One({"bound", "boundBadly", "bindError"})
      [] k = "authGet" ->
           {<<[k |-> "authFields", a |-> f]>> : f \in SUBSET {"digest", "plain"}}
             \cup One({"authError"})
      [] k = "authSet" -> One({"authOk", "authError"})
      [] k = "close" -> One({"endStream"})
      [] OTHER -> {<<>>}

Answer ==
    /\ ~busy /\ host.up /\ inbox # <<>>
    /\ inbox' = Tail(inbox)
    /\ \E r \in Replies(Head(inbox)) :
         /\ net' = net \o r
         /\ host' = [host EXCEPT
              !.up = Head(inbox).k # "close",
              !.open = \/ Head(inbox).k = "open"
                       \/ @ /\ r \notin One({"proceed", "compressed", "success", "successData"}),
              !.authed = @ \/ r \in One({"success", "successData"}),
              !.session = @ \/ r \in One({"bound", "authOk"}),
              !.rounds = @ + IF r \in One({"challenge"}) THEN 1 ELSE 0]
    /\ UNCHANGED <<opt, cs, bs, core, layer, sasl, busy, out, buf, app, told>>

Push ==
    /\ ~busy /\ host.up /\ host.session /\ host.pushed < MaxPushed
    /\ net' = Append(net, El("stanza"))
    /\ host' = [host EXCEPT !.pushed = @ + 1]
    /\ UNCHANGED <<opt, cs, bs, core, layer, sasl, busy, out, inbox, buf, app, told>>

(* It gives up, but not in the middle of a TLS handshake.                   *)
ServerEnds ==
    /\ ~busy /\ bs /\ host.up /\ layer.tls # "handshake"
    /\ El("proceed") \notin {net[i] : i \in 1..Len(net)}
    /\ \E k \in {"malformed"} \cup IF host.open THEN {"endStream", "streamError"} ELSE {} :
         net' = Append(net, El(k))
    /\ host' = [host EXCEPT !.up = FALSE]
    /\ UNCHANGED <<opt, cs, bs, core, layer, sasl, busy, out, inbox, buf, app, told>>

----------------------------------------------------------------------------
Init ==
    /\ opt \in Options
    /\ cs = InitCs /\ bs = FALSE /\ core = InitCore /\ layer = InitLayer
    /\ sasl = InitSasl /\ busy = FALSE /\ host = InitHost
    /\ out = <<>> /\ inbox = <<>> /\ net = <<>> /\ buf = <<>>
    /\ app = [in |-> 0, timer |-> FALSE, wrote |-> 0, heard |-> 0]
    /\ told = "none"

User == (\E o \in Options : ConnectToServer(o)) \/ Close \/ WriteItem
Account == ContinueAfterParams \/ ContinueAfterWarning \/ ReadyRead
Sasl == SaslStep \/ SaslNeedsParams \/ SaslFails
Network ==
    \/ Connected \/ ConnectorFails \/ ConnectionClosed \/ TLSHandshaken \/ TLSFails
    \/ Written \/ Receive
Server == Answer \/ Push \/ ServerEnds

Next == Loop \/ User \/ Account \/ Sasl \/ Network \/ Server

Spec == Init /\ [][Next]_vars

(* The event loop runs, the account answers at once, the connector, TLS and *)
(* the SASL object come to a result, TCP delivers, the server answers, and  *)
(* one that is gone takes its connection with it.                           *)
Fairness ==
    /\ WF_vars(Loop)
    /\ WF_vars(ContinueAfterParams) /\ WF_vars(ContinueAfterWarning)
    /\ WF_vars(SaslStep \/ SaslFails)
    /\ WF_vars(Connected \/ ConnectorFails)
    /\ WF_vars(TLSHandshaken \/ TLSFails)
    /\ WF_vars(Written) /\ WF_vars(Receive) /\ WF_vars(Answer)
    /\ WF_vars(ConnectionClosed /\ ~host.up)

FairSpec == Spec /\ Fairness

----------------------------------------------------------------------------
(* Properties.                                                             *)

States ==
    {"Idle", "Connecting", "WaitVersion", "WaitTLS", "NeedParams", "Active", "Closing"}
Clients ==
    [state : States, notify : SUBSET {"NSend", "NRecv"}, usingTls : BOOLEAN,
     tlsWarned : BOOLEAN]
Els == [k : Elements, a : SUBSET Offers]
Msgs == [k : Messages, enc : BOOLEAN, plain : BOOLEAN]
Cores ==
    [xml : {"SendOpen", "RecvOpen", "Open", "Closing"}, step : Steps, old : BOOLEAN,
     features : SUBSET Offers, tlsStarted : BOOLEAN, compressStarted : BOOLEAN,
     saslAuthed : BOOLEAN, digest : BOOLEAN, ready : BOOLEAN, doShutdown : BOOLEAN,
     refused : BOOLEAN, sendList : Seq({"stanza", "ping"}), pending : Int,
     written : Nat, track : Seq({"raw", "stanza", "ping", "close"}), closeWritten : BOOLEAN]
Layers == [tls : {"none", "handshake", "on"}, zip : BOOLEAN]
Sasls == [at : {"none", "first", "next", "told"}, plain : BOOLEAN]
Hosts ==
    [up : BOOLEAN, open : BOOLEAN, authed : BOOLEAN, session : BOOLEAN, rounds : Nat,
     pushed : Nat]
Apps == [in : Nat, timer : BOOLEAN, wrote : Nat, heard : Nat]
Endings == {"none", "error", "connectionClosed", "delayedCloseFinished"}

(* Types of the variables.                                                 *)
TypeOK ==
    /\ opt \in Options /\ told \in Endings
    /\ cs \in Clients /\ core \in Cores /\ layer \in Layers /\ sasl \in Sasls
    /\ bs \in BOOLEAN /\ busy \in BOOLEAN
    /\ host \in Hosts /\ app \in Apps
    /\ out \in Seq(Msgs) /\ inbox \in Seq(Msgs) /\ net \in Seq(Els) /\ buf \in Seq(Els)

Protected(m) ==
    m.plain => opt.plain = "AllowPlain" \/ (opt.plain = "AllowPlainOverTLS" /\ m.enc)

(* A password goes out in plain text only when the account allows that, or  *)
(* allows it over TLS and TLS is on by then: allowPlain is looked at when   *)
(* the stream starts in the old protocol and when SASL starts in the new.   *)
PlainIsProtected ==
    /\ \A i \in 1..Len(out) : Protected(out[i])
    /\ \A i \in 1..Len(inbox) : Protected(inbox[i])

(* An account that can use TLS does not log in without it unless it has     *)
(* been warned: by ERecvOpen, by EFeatures or in continueAfterWarning().    *)
Warned(m) ==
    m.k \in {"auth", "response", "bind", "authGet", "authSet"} => m.enc \/ cs.tlsWarned
NoTLSIsWarned ==
    opt.tls => /\ \A i \in 1..Len(out) : Warned(out[i])
               /\ \A i \in 1..Len(inbox) : Warned(inbox[i])
               /\ cs.state = "Active" => layer.tls = "on" \/ cs.tlsWarned

(* Where processNext() has left off, something that is due will call it     *)
(* again: `notify' has what the stream waits for, parsed data waits only    *)
(* for TLS, SASL or the account, the stanzas that came in have their timer, *)
(* and a stream that is closing still has its close tag to write.           *)
NoLostWakeup ==
    ~busy =>
      /\ cs.state = "Active" =>
           /\ buf = <<>> /\ core.sendList = <<>> /\ core.written = 0
           /\ "NRecv" \in cs.notify
           /\ core.pending > 0 => "NSend" \in cs.notify
           /\ app.in > 0 => app.timer
      /\ cs.state = "Connecting" /\ bs /\ ~core.refused =>
           \/ "NRecv" \in cs.notify /\ buf = <<>>
           \/ layer.tls = "handshake" \/ sasl.at # "none"
      /\ cs.state = "Closing" => "NSend" \in cs.notify /\ (out # <<>> \/ layer.zip)

(* What the stream is to the account.                                      *)
Phase ==
    CASE cs.state = "Idle" -> "idle"
      [] cs.state = "Active" -> "online"
      [] cs.state = "Closing" -> "closing"
      [] OTHER -> "trying"
S == INSTANCE Session WITH phase <- Phase, told <- told

(* The stream implements the session: one authenticated() per attempt, one  *)
(* signal at its end, none after the account gave up.                       *)
ImplementsSession == S!Spec

(* A login does not go on for ever, with one exception: after ErrCompress   *)
(* nothing happens until the connection breaks.                             *)
LoginEnds ==
    (Phase = "trying") ~> (Phase # "trying" \/ core.refused)

(* A stream that is closing comes to its end.                              *)
CloseEnds == (Phase = "closing") ~> (Phase = "idle")

(* "store the stanza for now, announce after processing all events": what   *)
(* the server has sent and the client received in a session is announced.   *)
EveryStanzaAnnounced ==
    cs.state = "Active" /\ ~busy /\ net = <<>> => app.heard + app.in = host.pushed

=============================================================================

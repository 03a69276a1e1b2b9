-------------------------------- MODULE S5B --------------------------------
(***************************************************************************)
(* The SOCKS5 bytestream negotiation of iris/jabber/s5b.cpp, both ends of  *)
(* it: one S5BConnection with its S5BManager::Item at the Initiator and    *)
(* one at the Target, each with a S5BServer or without, and each with a    *)
(* proxy to offer or without.                                              *)
(*                                                                         *)
(* In "fast mode" both ends offer streamhosts and both dial at once: four  *)
(* TCP streams may come up, iq answers cross, and the initiator picks the  *)
(* stream by writing one byte, a CR, into it.  A stream has the name of    *)
(* the streamhost it was dialled to.  net[p] holds the XMPP stanzas on     *)
(* their way to p, in order.  The TCP side is not ordered with it.         *)
(*                                                                         *)
(* Stream mode only: the UDP associate mode of the code is left out.       *)
(***************************************************************************)
EXTENDS Naturals, Sequences

CONSTANTS
    Initiator, Target,   \* the two XMPP entities
    InitiatorProxy,      \* the proxy the initiator may offer
    TargetProxy,         \* the proxy the target may offer
    NoStream             \* a SocksClient pointer that is null

ASSUME S5BAssumption ==
    \A a, b \in 1..5 :
        LET names == <<Initiator, Target, InitiatorProxy, TargetProxy, NoStream>>
        IN  a # b => names[a] # names[b]

VARIABLES
    hasServer,   \* [Peers -> BOOLEAN] the peer's S5BServer is active
    hasProxy,    \* [Peers -> BOOLEAN] the peer's proxy query succeeds
    con,         \* [Peers -> the S5BConnection]
    item,        \* [Peers -> the S5BManager::Item of its entry]
    net,         \* [Peers -> Seq(stanza)]
    dialing,     \* streamhosts whose server has a SOCKS request to decide on
    granted,     \* streamhosts whose server has granted one
    crInFlight,  \* streams with the initiator's CR on its way to the target
    crUnread,    \* streams with the CR in the target's receive buffer
    excuse       \* what went wrong outside the two items (see Excuses)

vars == <<hasServer, hasProxy, con, item, net, dialing, granted, crInFlight,
          crUnread, excuse>>

Peers == {Initiator, Target}
Other(p) == IF p = Initiator THEN Target ELSE Initiator
Proxy(p) == IF p = Initiator THEN InitiatorProxy ELSE TargetProxy
Proxies == {InitiatorProxy, TargetProxy}
StreamHosts == Peers \cup Proxies
Streams == StreamHosts \cup {NoStream}

(* What can end a negotiation badly, recorded when it happens: a user       *)
(* closed, a proxy let an end down, a socket broke, a connector gave up a   *)
(* stream that the other end had already granted, or an answer arrived when *)
(* the stream was established (the run S5BLate is about that one).          *)
Excuses == {"closed", "proxyFailed", "streamError", "lateFailure", "lateAnswer"}

(* An Item after reset(); `hosts' is in_hosts, `conn' the streamhosts its   *)
(* S5BConnector still tries ({}: no connector), `task' the unanswered       *)
(* request, `proxyConn' and `proxyTask' the way to our own proxy.           *)
NoItem ==
    [state |-> "Idle", targetMode |-> "Unknown", fast |-> FALSE, proxy |-> FALSE,
     hosts |-> {}, conn |-> {}, client |-> NoStream, clientOut |-> NoStream,
     task |-> FALSE, proxyConn |-> FALSE, proxyTask |-> FALSE,
     activated |-> FALSE, lateProxy |-> FALSE, connSuccess |-> FALSE,
     localFailed |-> FALSE, remoteFailed |-> FALSE, allowIncoming |-> FALSE]

(* The S5BConnection: its state, and the socket it owns once Active.        *)
(* "Failed" and "Closed" are Idle after error() and after close().          *)
Connection(st, sc) == [st |-> st, sc |-> sc]

(* A stanza.  `of' names the peer whose request an answer is for: that is   *)
(* what the iq id tells.                                                    *)

(* Mutants: a kind nobody knows; a streamhost-used that names our proxy.    *)
RequestUntyped(hosts) == [kind |-> "bytestreams", of |-> NoStream, hosts |-> hosts]
SuccessWrongHost(of, host) ==
    [kind |-> "success", of |-> of, hosts |-> {Proxy(Other(of))}]

Request(hosts) == [kind |-> "request", of |-> NoStream, hosts |-> hosts]
Success(of, host) == [kind |-> "success", of |-> of, hosts |-> {host}]
Error(of) == [kind |-> "error", of |-> of, hosts |-> {}]

Init ==
    /\ hasServer \in [Peers -> BOOLEAN]
    /\ hasProxy \in [Peers -> BOOLEAN]
    /\ con = [p \in Peers |-> Connection("Idle", NoStream)]
    /\ item = [p \in Peers |-> NoItem]
    /\ net = [p \in Peers |-> <<>>]
    /\ dialing = {} /\ granted = {}
    /\ crInFlight = {} /\ crUnread = {}
    /\ excuse = {}

-----------------------------------------------------------------------------
(* The Item's methods call each other, and may end by deleting the item, so *)
(* each is an operator from effects to effects: what peer p's handler has   *)
(* done so far to its item and connection, to the CRs, and what it sent.    *)

Start(p) == [it |-> item[p], con |-> con[p], out |-> <<>>, dial |-> dialing,
             cr |-> crInFlight, unread |-> crUnread]

Send(e, m) == [e EXCEPT !.out = Append(@, m)]

(* The handler's effects become the next state; `rest' is what p reads off  *)
(* net[p], if anything.                                                     *)
Apply(p, e, rest) ==
    /\ item' = [item EXCEPT ![p] = e.it]
    /\ con' = [con EXCEPT ![p] = e.con]
    /\ net' = [net EXCEPT ![p] = rest, ![Other(p)] = @ \o e.out]
    /\ dialing' = e.dial
    /\ crInFlight' = e.cr
    /\ crUnread' = e.unread
    /\ UNCHANGED <<hasServer, hasProxy>>

(* reset(); error(): the manager's item_error() has the connection reset    *)
(* itself, which deletes the item.                                          *)
Fail(e) == [e EXCEPT !.it = NoItem, !.con = Connection("Failed", NoStream)]

(* finished(): the connection gets the item's client.  Without one the code *)
(* dereferences a null pointer.                                             *)
Finished(e) ==
    IF e.it.client = NoStream
    THEN [e EXCEPT !.con = Connection("Crashed", NoStream)]
    ELSE [e EXCEPT !.it.state = "Active", !.it.client = NoStream,
                   !.con = Connection("Active", e.it.client)]

(* Mutants of TryActivation: the task is kept; a CR is sent in every mode.  *)
TryActivationKeepsTask(e) ==
    CASE ~e.it.activated /\ e.it.targetMode = "NotFast" -> Finished(e)
      [] ~e.it.activated /\ e.it.targetMode = "Fast" ->
             [e EXCEPT !.it.activated = TRUE, !.cr = @ \cup {e.it.client}]
      [] OTHER -> e

TryActivationAlwaysCR(e) ==
    CASE ~e.it.activated /\ e.it.targetMode # "Unknown" ->
             [e EXCEPT !.it.task = FALSE, !.it.activated = TRUE,
                       !.cr = @ \cup {e.it.client}]
      [] OTHER -> e

(* tryActivation(), initiator only.                                         *)
TryActivation(e) ==
    CASE e.it.activated -> e
      [] ~e.it.activated /\ e.it.targetMode = "NotFast" -> Finished(e)
      [] ~e.it.activated /\ e.it.targetMode = "Fast" ->
             [e EXCEPT !.it.task = FALSE, !.it.activated = TRUE,
                       !.cr = @ \cup {e.it.client}]
      [] OTHER -> e

(* Mutant of CheckForActivation: any client will do, CR or not.             *)
CheckForActivationNoCR(e) ==
    LET Becomes(s) == Finished([e EXCEPT !.it.client = s, !.it.clientOut = NoStream,
                                         !.it.activated = TRUE])
    IN  CASE e.it.client # NoStream -> Becomes(e.it.client)
          [] e.it.client = NoStream /\ e.it.clientOut # NoStream -> Becomes(e.it.clientOut)
          [] OTHER -> e

(* checkForActivation(), target only: a client with a CR to read, or any    *)
(* client when not in fast mode, becomes the stream; the other is deleted.  *)
CheckForActivation(e) ==
    LET it == e.it
        Ready(s) == s # NoStream /\ (~it.fast \/ s \in e.unread)
        Becomes(s) == Finished([e EXCEPT
                          !.it.client = s, !.it.clientOut = NoStream,
                          !.it.activated = TRUE,
                          !.unread = IF it.fast THEN @ \ {s} ELSE @])
    IN  CASE Ready(it.client) -> Becomes(it.client)
          [] ~Ready(it.client) /\ Ready(it.clientOut) -> Becomes(it.clientOut)
          [] OTHER -> IF it.activated THEN Finished(e) ELSE e

(* Mutant of GaveUp: the target does not wait for the initiator's attempt.  *)
GaveUpAlone(p, it) ==
    IF p = Initiator
    THEN it.remoteFailed /\ (it.targetMode = "NotFast"
                             \/ (it.targetMode = "Fast" /\ it.localFailed))
    ELSE it.localFailed

(* checkFailure(): give up when nothing is left to wait for.                *)
GaveUp(p, it) ==
    IF p = Initiator
    THEN it.remoteFailed /\ (it.targetMode = "NotFast"
                             \/ (it.targetMode = "Fast" /\ it.localFailed))
    ELSE it.localFailed /\ (it.remoteFailed \/ ~it.fast)

CheckFailure(p, e) == IF GaveUp(p, e.it) THEN Fail(e) ELSE e

(* doConnectError(): answer the peer's request with 404.                    *)
DoConnectError(p, e) ==
    CheckFailure(p, Send([e EXCEPT !.it.localFailed = TRUE], Error(Other(p))))

(* doOutgoing(): offer our streamhosts; a target without any is not fast.   *)
DoOutgoing(p, e) ==
    LET hosts == (IF hasServer[p] THEN {p} ELSE {})
                   \cup (IF e.it.proxy THEN {Proxy(p)} ELSE {})
    IN  IF p = Target /\ hosts = {}
        THEN [e EXCEPT !.it.fast = FALSE]
        ELSE Send([e EXCEPT !.it.allowIncoming = TRUE, !.it.task = TRUE],
                  Request(hosts))

(* Start a S5BConnector on these streamhosts.                               *)
Dial(e, hosts) == [e EXCEPT !.it.conn = hosts, !.dial = @ \cup (hosts \cap Peers)]

(* doIncoming(): dial the peer's streamhosts.  In fast mode, without a      *)
(* proxy of our own, the peer's proxies are kept for later ("lateProxy").   *)
DoIncoming(p, e) ==
    LET it == e.it
        direct == it.hosts \ Proxies
        trick == (p = Initiator \/ it.fast) /\ ~it.proxy
        late == [e EXCEPT !.it.lateProxy = TRUE]
    IN  CASE it.hosts = {} -> DoConnectError(p, e)
          [] it.hosts # {} /\ it.lateProxy ->
                 Dial([e EXCEPT !.it.lateProxy = FALSE], it.hosts \cap Proxies)
          [] it.hosts # {} /\ ~it.lateProxy /\ trick ->
                 IF direct = it.hosts THEN Dial(e, direct)
                 ELSE IF direct = {} THEN late ELSE Dial(late, direct)
          [] OTHER -> Dial(e, it.hosts)

-----------------------------------------------------------------------------
(* The application's calls.                                                 *)

(* connectToJid() of the initiator, with the query for its proxy done.      *)
Connect ==
    LET e == [Start(Initiator) EXCEPT
                 !.con.st = "Requesting",
                 !.it = [NoItem EXCEPT !.state = "Initiator",
                                       !.proxy = hasProxy[Initiator]]]
    IN  /\ con[Initiator].st = "Idle"
        /\ Apply(Initiator, DoOutgoing(Initiator, e), net[Initiator])
        /\ UNCHANGED <<granted, excuse>>

(* targetShouldOfferProxy(): only when the initiator offered none.          *)
TargetOffersProxy(hosts) == hasProxy[Target] /\ hosts \cap Proxies = {}

(* accept() of the target: con_accept(), the query, then startTarget().     *)
Accept ==
    LET hosts == item[Target].hosts
        e == [Start(Target) EXCEPT
                 !.con.st = "Connecting",
                 !.it = [NoItem EXCEPT !.state = "Target", !.fast = TRUE,
                                       !.hosts = hosts,
                                       !.proxy = TargetOffersProxy(hosts)]]
    IN  /\ con[Target].st = "WaitingForAccept"
        /\ Apply(Target, DoIncoming(Target, DoOutgoing(Target, e)), net[Target])
        /\ UNCHANGED <<granted, excuse>>

(* What close() sends: a rejection when not accepted yet; otherwise         *)
(* con_unlink() sends a 406 when a connector is at work, with the id of our *)
(* OWN request.                                                             *)
CloseStanzas(p) ==
    IF con[p].st = "WaitingForAccept" THEN <<Error(Other(p))>>
    ELSE IF item[p].conn # {} THEN <<Error(p)>> ELSE <<>>

Close(p) ==
    /\ con[p].st \notin {"Idle", "Failed", "Closed", "Crashed"}
    /\ Apply(p, [Start(p) EXCEPT !.it = NoItem, !.out = CloseStanzas(p),
                                 !.con = Connection("Closed", NoStream)],
             net[p])
    /\ excuse' = excuse \cup {"closed"}
    /\ UNCHANGED granted

-----------------------------------------------------------------------------
(* XMPP stanzas.                                                            *)

Arrives(p, kind) == net[p] # <<>> /\ Head(net[p]).kind = kind

(* ps_incoming() at the target: a connection waits for accept().            *)
RecvInitialRequest ==
    /\ Arrives(Target, "request")
    /\ Apply(Target, [Start(Target) EXCEPT
                         !.con.st = "WaitingForAccept",
                         !.it.hosts = Head(net[Target]).hosts],
             Tail(net[Target]))
    /\ UNCHANGED <<granted, excuse>>

(* handleFast(): bounce the request if the target has connected already.    *)
HandleFast(e, hosts) ==
    LET fastE == [e EXCEPT !.it.targetMode = "Fast"]
    IN  IF e.it.client # NoStream
        THEN Send(fastE, Error(Target))
        ELSE DoIncoming(Initiator, [fastE EXCEPT !.it.hosts = hosts])

(* ps_incoming() at the initiator: the target's fast-mode request.  Without *)
(* an item that still expects one it is refused, by the manager or by the   *)
(* application that finds no use for it.                                    *)
Expected == item[Initiator].state = "Initiator" /\ item[Initiator].targetMode = "Unknown"

RecvFastRequest ==
    LET e == Start(Initiator)
    IN  /\ Arrives(Initiator, "request")
        /\ Apply(Initiator,
                 IF Expected THEN HandleFast(e, Head(net[Initiator]).hosts)
                             ELSE Send(e, Error(Target)),
                 Tail(net[Initiator]))
        /\ UNCHANGED <<granted, excuse>>

(* The first lines of jt_finished(): the task is over, and an initiator     *)
(* that had no fast request by now will get none.                           *)
TaskOver(p, e) ==
    [e EXCEPT !.it.task = FALSE,
              !.it.targetMode = IF e.it.state = "Initiator" /\ @ = "Unknown"
                                THEN "NotFast" ELSE @]

(* "if we've already reported successfully connecting to them, then this    *)
(* response doesn't matter".                                                *)
Moot(it) == it.state = "Initiator" /\ it.connSuccess

StopConnecting(p, e) ==
    IF e.it.conn # {} \/ e.it.lateProxy
    THEN DoConnectError(p, [e EXCEPT !.it.conn = {}]) ELSE e

(* jt_finished(), success: the peer says which streamhost it used.          *)
PeerConnected(p, e, host) ==
    LET s == StopConnecting(p, e)
    IN  CASE host = p /\ s.it.client # NoStream ->
                 IF s.it.state = "Initiator" THEN TryActivation(s)
                                             ELSE CheckForActivation(s)
          [] host = Proxy(p) ->
                 [s EXCEPT !.it.client = NoStream, !.it.allowIncoming = FALSE,
                           !.it.proxyConn = TRUE]
          [] OTHER -> Fail(s)

(* Mutant of PeerFailed: the late proxies are forgotten.                    *)
PeerFailedNoLateProxy(p, e) ==
    LET f == [e EXCEPT !.it.remoteFailed = TRUE]
    IN  IF f.it.connSuccess THEN CheckForActivation(f) ELSE CheckFailure(p, f)

(* jt_finished(), failure: the peer could not connect to us.                *)
PeerFailed(p, e) ==
    LET f == [e EXCEPT !.it.remoteFailed = TRUE]
    IN  CASE f.it.lateProxy -> IF f.it.conn = {} THEN DoIncoming(p, f) ELSE f
          [] ~f.it.lateProxy /\ f.it.connSuccess -> CheckForActivation(f)
          [] OTHER -> CheckFailure(p, f)

JtFinished(p, m) ==
    LET e == TaskOver(p, Start(p))
    IN  CASE Moot(e.it) -> TryActivation(e)
          [] ~Moot(e.it) /\ m.kind = "success" ->
                 PeerConnected(p, e, CHOOSE h \in m.hosts : TRUE)
          [] OTHER -> PeerFailed(p, e)

RecvAnswer(p) ==
    LET m == Head(net[p])
    IN  /\ Arrives(p, "success") \/ Arrives(p, "error")
        /\ m.of = p /\ item[p].task
        /\ Apply(p, JtFinished(p, m), Tail(net[p]))
        /\ excuse' = IF con[p].st = "Active" THEN excuse \cup {"lateAnswer"} ELSE excuse
        /\ UNCHANGED granted

(* An answer that no task waits for (any more) is dropped.                  *)
RecvStale(p) ==
    /\ Arrives(p, "success") \/ Arrives(p, "error")
    /\ ~(Head(net[p]).of = p /\ item[p].task)
    /\ Apply(p, Start(p), Tail(net[p]))
    /\ UNCHANGED <<granted, excuse>>

-----------------------------------------------------------------------------
(* The connector and the server.                                            *)

(* srv_incomingReady(): the server p decides on the SOCKS request.  Without *)
(* an item for the key (srv_ownsHash) it throws the socket away.            *)
Grant(p) ==
    /\ p \in dialing
    /\ dialing' = dialing \ {p}
    /\ IF item[p].allowIncoming
       THEN /\ item' = [item EXCEPT ![p].client = p, ![p].allowIncoming = FALSE]
            /\ granted' = granted \cup {p}
       ELSE UNCHANGED <<item, granted>>
    /\ UNCHANGED <<hasServer, hasProxy, con, net, crInFlight, crUnread, excuse>>

(* conn_result(true): a streamhost let p in; the connector drops the rest.  *)
ConnResultTrue(p, e, h) ==
    LET done == Send([e EXCEPT !.it.conn = {}, !.it.connSuccess = TRUE,
                               !.it.lateProxy = FALSE],
                     Success(Other(p), h))
    IN  IF p = Initiator
        THEN TryActivation([done EXCEPT !.it.client = h, !.it.allowIncoming = FALSE])
        ELSE CheckForActivation([done EXCEPT !.it.clientOut = h])

ConnectorSucceeds(p, h) ==
    /\ h \in item[p].conn
    /\ h \in granted \cup Proxies
    /\ Apply(p, ConnResultTrue(p, Start(p), h), net[p])
    /\ UNCHANGED <<granted, excuse>>

(* conn_result(false): now the late proxies, or nothing.                    *)
ConnResultFalse(p, e) ==
    IF e.it.lateProxy
    THEN IF e.it.remoteFailed THEN DoIncoming(p, e) ELSE e
    ELSE DoConnectError(p, e)

(* A streamhost refuses p, cannot be reached, or the timer of the connector *)
(* fires; the connector fails with the last one.  `late': the SOCKS request *)
(* gets, or got, to the server all the same.                                *)
ConnectorFails(p, h, late) ==
    LET e == [Start(p) EXCEPT !.it.conn = @ \ {h},
                              !.dial = IF late THEN @ ELSE @ \ {h}]
    IN  /\ h \in item[p].conn
        /\ IF late THEN h \in granted \cup dialing ELSE h \notin granted
        /\ Apply(p, IF e.it.conn = {} THEN ConnResultFalse(p, e) ELSE e, net[p])
        /\ excuse' = IF late THEN excuse \cup {"lateFailure"} ELSE excuse
        /\ UNCHANGED granted

(* proxy_result(): connected to our own proxy, ask it to activate.          *)
ProxyResult(p, ok) ==
    LET e == Start(p)
    IN  /\ item[p].proxyConn
        /\ Apply(p, IF ok THEN [e EXCEPT !.it.proxyConn = FALSE, !.it.proxyTask = TRUE,
                                         !.it.client = Proxy(p)]
                          ELSE Fail(e),
                 net[p])
        /\ excuse' = IF ok THEN excuse ELSE excuse \cup {"proxyFailed"}
        /\ UNCHANGED granted

(* proxy_finished(): the proxy has activated the stream, or will not.  It   *)
(* can do so only while the other end is connected to it.                   *)
Holds(p, s) == s \in {item[p].client, item[p].clientOut, con[p].sc}

ProxyFinished(p, ok) ==
    LET e == [Start(p) EXCEPT !.it.proxyTask = FALSE]
    IN  /\ item[p].proxyTask
        /\ ok => Holds(Other(p), Proxy(p))
        /\ Apply(p, IF ~ok THEN Fail(e)
                    ELSE IF p = Initiator THEN TryActivation(e)
                                          ELSE CheckForActivation(e),
                 net[p])
        /\ excuse' = IF ok THEN excuse ELSE excuse \cup {"proxyFailed"}
        /\ UNCHANGED granted

(* sc_bytesWritten() at the initiator: its CR is written.                   *)
CRWritten ==
    /\ item[Initiator].state = "Initiator" /\ item[Initiator].activated
    /\ Apply(Initiator, Finished(Start(Initiator)), net[Initiator])
    /\ UNCHANGED <<granted, excuse>>

(* The CR reaches the target's socket: sc_readyRead().  A proxy relays it   *)
(* only after the activation, which proxy_finished() of the initiator       *)
(* precedes, and which the target waits for when the proxy is its own.      *)
CRArrives(s) ==
    LET e == [Start(Target) EXCEPT !.cr = @ \ {s}, !.unread = @ \cup {s}]
        it == item[Target]
    IN  /\ s \in crInFlight
        /\ Holds(Target, s)
        /\ Apply(Target,
                 IF it.state = "Target" /\ ~it.task /\ ~it.proxyTask
                 THEN CheckForActivation(e) ELSE e,
                 net[Target])
        /\ UNCHANGED <<granted, excuse>>

(* sc_error(): a socket the item holds breaks before the stream is up.      *)
StreamError(p) ==
    /\ item[p].client # NoStream \/ item[p].clientOut # NoStream
    /\ item[p].state \in {"Initiator", "Target"}
    /\ Apply(p, Fail(Start(p)), net[p])
    /\ excuse' = excuse \cup {"streamError"}
    /\ UNCHANGED granted

-----------------------------------------------------------------------------
Stanza(p) ==
    \/ p = Target /\ RecvInitialRequest
    \/ p = Initiator /\ RecvFastRequest
    \/ RecvAnswer(p)
    \/ RecvStale(p)

Connector(p) ==
    \E h \in StreamHosts :
        \/ ConnectorSucceeds(p, h)
        \/ \E late \in BOOLEAN : ConnectorFails(p, h, late)

OwnProxy(p) ==
    \E ok \in BOOLEAN : ProxyResult(p, ok) \/ ProxyFinished(p, ok)

Next ==
    \/ Connect \/ Accept \/ CRWritten
    \/ \E p \in Peers :
           \/ Stanza(p) \/ Grant(p) \/ Connector(p) \/ OwnProxy(p)
           \/ Close(p) \/ StreamError(p)
    \/ \E s \in StreamHosts : CRArrives(s)

(* The XMPP server delivers; a connector ends by its timer if not before;   *)
(* proxies answer; TCP delivers; the application accepts what came in       *)
(* (FileTransferManager does so at once).  Nobody has to close or fail.     *)
Fairness ==
    /\ WF_vars(Accept) /\ WF_vars(CRWritten)
    /\ \A p \in Peers :
           WF_vars(Stanza(p)) /\ WF_vars(Grant(p)) /\ WF_vars(Connector(p))
             /\ WF_vars(OwnProxy(p))
    /\ \A s \in StreamHosts : WF_vars(CRArrives(s))

Spec == Init /\ [][Next]_vars
FairSpec == Spec /\ Fairness

-----------------------------------------------------------------------------
Items ==
    [state : {"Idle", "Initiator", "Target", "Active"},
     targetMode : {"Unknown", "Fast", "NotFast"}, fast : BOOLEAN, proxy : BOOLEAN,
     hosts : SUBSET StreamHosts, conn : SUBSET StreamHosts,
     client : Streams, clientOut : Streams,
     task : BOOLEAN, proxyConn : BOOLEAN, proxyTask : BOOLEAN,
     activated : BOOLEAN, lateProxy : BOOLEAN, connSuccess : BOOLEAN,
     localFailed : BOOLEAN, remoteFailed : BOOLEAN, allowIncoming : BOOLEAN]

Connections ==
    [st : {"Idle", "Requesting", "WaitingForAccept", "Connecting", "Active",
           "Failed", "Closed", "Crashed"},
     sc : Streams]

Stanzas == [kind : {"request", "success", "error"}, of : Peers \cup {NoStream},
            hosts : SUBSET StreamHosts]

TypeOK ==
    /\ hasServer \in [Peers -> BOOLEAN]
    /\ hasProxy \in [Peers -> BOOLEAN]
    /\ con \in [Peers -> Connections]
    /\ item \in [Peers -> Items]
    /\ net \in [Peers -> Seq(Stanzas)]
    /\ dialing \subseteq Peers /\ granted \subseteq Peers
    /\ crInFlight \subseteq Streams /\ crUnread \subseteq Streams
    /\ excuse \subseteq Excuses

Up(p) == con[p].st = "Active"

(* Both ends run on the same TCP stream, out of the up to four they opened. *)
SameStream == Up(Initiator) /\ Up(Target) => con[Initiator].sc = con[Target].sc

(* No handler runs into a client that is not there any more: finished() is  *)
(* never called twice, and a CR never written to a null client.             *)
NeverCrashes ==
    /\ \A p \in Peers : con[p].st # "Crashed"
    /\ NoStream \notin crInFlight

(* The CR never ends up in the application's bytes: the target consumes it  *)
(* before it hands the stream over, and none is sent when it does not ask.  *)
NoStrayCR == Up(Target) => con[Target].sc \notin crInFlight \cup crUnread

(* The initiator is not left alone on a stream: when it is connected, the   *)
(* target has not given up, unless something outside the negotiation failed. *)
InitiatorNotAlone ==
    Up(Initiator) /\ con[Target].st = "Failed" => excuse # {}

TargetNotAlone ==
    Up(Target) /\ con[Initiator].st = "Failed" => excuse # {}

(* A negotiation comes to its end at both sides.                            *)
Pending(p) == con[p].st \in {"Requesting", "WaitingForAccept", "Connecting"}

NegotiationEnds ==
    \A p \in Peers : Pending(p) ~> (~Pending(p) \/ excuse # {})

(* An established stream is not torn down by the negotiation that made it.  *)
(* The comment in sc_readyRead() states the rule that is to ensure it: the  *)
(* target only checks for activation "if there is no pending outgoing       *)
(* iq-set", whose answer would find the item without its client.            *)
EstablishedStays ==
    [][\A p \in Peers : Up(p) => con'[p].st \in {"Active", "Closed"}]_vars

(* A close while a connector is at work answers the peer's request, as the  *)
(* comment in con_unlink() says: "active incoming request?  cancel it".     *)
CancelAnswersPeer ==
    [][\A p \in Peers :
          item[p].conn # {} /\ con[p].st # "Closed" /\ con'[p].st = "Closed" =>
              \E i \in 1..Len(net'[Other(p)]) : net'[Other(p)][i] = Error(Other(p))]_vars
=============================================================================

------------------------------ MODULE S5BProofs -----------------------------
(***************************************************************************)
(* Proofs about S5B for any two peers and any two proxies: it is well       *)
(* typed, both ends are on the same stream, an end does not fail while the  *)
(* other is up, and the CR is never left among the application's bytes.     *)
(*                                                                         *)
(* Every handler of the manager is a function of the effects it starts      *)
(* from (the item, the connection, what it sends and dials), so each        *)
(* helper is first shown to turn effects into effects, and each action to   *)
(* set the variables from effects. Then every form of step of S5BKnown is   *)
(* shown to keep Known (the ...Keeps lemmas), and every action to be one of *)
(* those forms (the ...Does lemmas). The safety properties follow from      *)
(* Known.                                                                   *)
(***************************************************************************)
EXTENDS S5BKnown, SequenceTheorems, TLAPS

-----------------------------------------------------------------------------
(* Types.  A handler turns effects into effects.                            *)

Effects ==
    [it : Items, con : Connections, out : Seq(Stanzas), dial : SUBSET Peers,
     cr : SUBSET Streams, unread : SUBSET Streams]

LEMMA NamesDiffer ==
    /\ Initiator # Target /\ InitiatorProxy # TargetProxy
    /\ Initiator \notin Proxies /\ Target \notin Proxies
    /\ NoStream \notin StreamHosts
    /\ Peers \subseteq StreamHosts /\ Proxies \subseteq StreamHosts
    /\ \A p \in Peers : Other(p) \in Peers /\ Other(p) # p /\ Proxy(p) \in Proxies
<1> DEFINE names == <<Initiator, Target, InitiatorProxy, TargetProxy, NoStream>>
<1>1. \A a, b \in 1..5 : a # b => names[a] # names[b]
  BY S5BAssumption
<1>2. /\ names[1] = Initiator /\ names[2] = Target /\ names[3] = InitiatorProxy
      /\ names[4] = TargetProxy /\ names[5] = NoStream
  OBVIOUS
<1>3. /\ Initiator # Target /\ Initiator # InitiatorProxy /\ Initiator # TargetProxy
      /\ Initiator # NoStream /\ Target # InitiatorProxy /\ Target # TargetProxy
      /\ Target # NoStream /\ InitiatorProxy # TargetProxy /\ InitiatorProxy # NoStream
      /\ TargetProxy # NoStream
  <2> HIDE DEF names
  <2> QED BY <1>1, <1>2
<1> QED BY <1>3 DEF Peers, Proxies, StreamHosts, Other, Proxy

LEMMA StanzaTypes ==
    ASSUME NEW p \in Peers, NEW h \in StreamHosts, NEW hosts \in SUBSET StreamHosts
    PROVE  Request(hosts) \in Stanzas /\ Success(p, h) \in Stanzas /\ Error(p) \in Stanzas
  BY DEF Request, Success, Error, Stanzas

LEMMA NoItemType == NoItem \in Items
  BY DEF NoItem, Items, Streams

LEMMA StartType ==
    ASSUME TypeOK, NEW p \in Peers
    PROVE  Start(p) \in Effects
  BY DEF TypeOK, Start, Effects

LEMMA SendType ==
    ASSUME NEW e \in Effects, NEW m \in Stanzas
    PROVE  Send(e, m) \in Effects
<1>1. e.out \in Seq(Stanzas)
  BY DEF Effects
<1>2. Append(e.out, m) \in Seq(Stanzas)
  BY <1>1
<1> QED BY <1>2 DEF Send, Effects

LEMMA FailType ==
    ASSUME NEW e \in Effects
    PROVE  Fail(e) \in Effects
  BY NoItemType DEF Fail, Effects, Connection, Connections, Streams

LEMMA FinishedType ==
    ASSUME NEW e \in Effects
    PROVE  Finished(e) \in Effects
<1>1. CASE e.it.client = NoStream
  BY <1>1 DEF Finished, Effects, Connection, Connections, Streams
<1>2. CASE e.it.client # NoStream
  <2>1. [e.it EXCEPT !.state = "Active", !.client = NoStream] \in Items
    BY DEF Effects, Items, Streams
  <2>2. Connection("Active", e.it.client) \in Connections
    BY DEF Effects, Items, Connection, Connections
  <2> QED BY <1>2, <2>1, <2>2 DEF Finished, Effects
<1> QED BY <1>1, <1>2

LEMMA TryActivationType ==
    ASSUME NEW e \in Effects
    PROVE  TryActivation(e) \in Effects
<1>1. [e.it EXCEPT !.task = FALSE, !.activated = TRUE] \in Items
  BY DEF Effects, Items
<1>2. e.cr \cup {e.it.client} \in SUBSET Streams
  BY DEF Effects, Items
<1>3. [e EXCEPT !.it.task = FALSE, !.it.activated = TRUE, !.cr = @ \cup {e.it.client}] \in Effects
  BY <1>1, <1>2 DEF Effects
<1> QED BY <1>3, FinishedType DEF TryActivation

LEMMA CheckForActivationType ==
    ASSUME NEW e \in Effects
    PROVE  CheckForActivation(e) \in Effects
<1> DEFINE Becomes(s) == [e EXCEPT !.it.client = s, !.it.clientOut = NoStream,
                                   !.it.activated = TRUE,
                                   !.unread = IF e.it.fast THEN @ \ {s} ELSE @]
<1>1. e.it.client \in Streams /\ e.it.clientOut \in Streams
  BY DEF Effects, Items
<1>2. ASSUME NEW s \in Streams
      PROVE  Becomes(s) \in Effects
  <2>1. [e.it EXCEPT !.client = s, !.clientOut = NoStream, !.activated = TRUE] \in Items
    BY DEF Effects, Items, Streams
  <2>2. (IF e.it.fast THEN e.unread \ {s} ELSE e.unread) \in SUBSET Streams
    BY DEF Effects
  <2> QED BY <2>1, <2>2 DEF Effects
<1>3. Finished(Becomes(e.it.client)) \in Effects /\ Finished(Becomes(e.it.clientOut)) \in Effects
  BY <1>1, <1>2, FinishedType
<1>4. Finished(e) \in Effects
  BY FinishedType
<1> QED BY <1>3, <1>4 DEF CheckForActivation

LEMMA DoConnectErrorType ==
    ASSUME NEW p \in Peers, NEW e \in Effects
    PROVE  DoConnectError(p, e) \in Effects
<1>1. [e.it EXCEPT !.localFailed = TRUE] \in Items
  BY DEF Effects, Items
<1>2. [e EXCEPT !.it.localFailed = TRUE] \in Effects
  BY <1>1 DEF Effects
<1>3. Error(Other(p)) \in Stanzas
  BY NamesDiffer, StanzaTypes
<1>4. Send([e EXCEPT !.it.localFailed = TRUE], Error(Other(p))) \in Effects
  BY <1>2, <1>3, SendType
<1> QED BY <1>4, FailType DEF DoConnectError, CheckFailure

LEMMA DoOutgoingType ==
    ASSUME NEW p \in Peers, NEW e \in Effects
    PROVE  DoOutgoing(p, e) \in Effects
<1>1. /\ [e.it EXCEPT !.fast = FALSE] \in Items
      /\ [e.it EXCEPT !.allowIncoming = TRUE, !.task = TRUE] \in Items
  BY DEF Effects, Items
<1>2. /\ [e EXCEPT !.it.fast = FALSE] \in Effects
      /\ [e EXCEPT !.it.allowIncoming = TRUE, !.it.task = TRUE] \in Effects
  BY <1>1 DEF Effects
<1>3. (IF hasServer[p] THEN {p} ELSE {}) \cup (IF e.it.proxy THEN {Proxy(p)} ELSE {})
        \in SUBSET StreamHosts
  BY NamesDiffer
<1> QED BY <1>2, <1>3, NamesDiffer, StanzaTypes, SendType DEF DoOutgoing

LEMMA DialType ==
    ASSUME NEW e \in Effects, NEW hosts \in SUBSET StreamHosts
    PROVE  Dial(e, hosts) \in Effects
<1>1. [e.it EXCEPT !.conn = hosts] \in Items
  BY DEF Effects, Items
<1>2. e.dial \cup (hosts \cap Peers) \in SUBSET Peers
  BY DEF Effects
<1> QED BY <1>1, <1>2 DEF Dial, Effects

LEMMA DoIncomingType ==
    ASSUME NEW p \in Peers, NEW e \in Effects
    PROVE  DoIncoming(p, e) \in Effects
<1>1. ASSUME NEW b \in BOOLEAN
      PROVE  [e EXCEPT !.it.lateProxy = b] \in Effects
  <2>1. [e.it EXCEPT !.lateProxy = b] \in Items
    BY DEF Effects, Items
  <2> QED BY <2>1 DEF Effects
<1>2. /\ e.it.hosts \in SUBSET StreamHosts
      /\ e.it.hosts \ Proxies \in SUBSET StreamHosts
      /\ e.it.hosts \cap Proxies \in SUBSET StreamHosts
  BY DEF Effects, Items
<1>3. /\ [e EXCEPT !.it.lateProxy = TRUE] \in Effects
      /\ [e EXCEPT !.it.lateProxy = FALSE] \in Effects
  BY <1>1
<1>4. /\ Dial([e EXCEPT !.it.lateProxy = FALSE], e.it.hosts \cap Proxies) \in Effects
      /\ Dial([e EXCEPT !.it.lateProxy = TRUE], e.it.hosts \ Proxies) \in Effects
      /\ Dial(e, e.it.hosts \ Proxies) \in Effects
      /\ Dial(e, e.it.hosts) \in Effects
  BY <1>2, <1>3, DialType
<1>5. DoConnectError(p, e) \in Effects
  BY DoConnectErrorType
<1> QED BY <1>3, <1>4, <1>5 DEF DoIncoming

-----------------------------------------------------------------------------
(* Types of the handlers, and of the whole.                                 *)

LEMMA ApplyType ==
    ASSUME TypeOK, NEW p \in Peers, NEW e \in Effects, NEW rest \in Seq(Stanzas),
           Apply(p, e, rest), granted' \subseteq Peers, excuse' \subseteq Excuses
    PROVE  TypeOK'
<1>1. e.out \in Seq(Stanzas) /\ Other(p) \in Peers
  BY NamesDiffer DEF Effects
<1>2. net[Other(p)] \in Seq(Stanzas)
  BY <1>1 DEF TypeOK
<1>3. net[Other(p)] \o e.out \in Seq(Stanzas)
  BY <1>1, <1>2, ConcatProperties
<1>4. net' \in [Peers -> Seq(Stanzas)]
  <2>1. net' = [net EXCEPT ![p] = rest, ![Other(p)] = @ \o e.out]
    BY DEF Apply
  <2>2. net' = [[net EXCEPT ![p] = rest] EXCEPT ![Other(p)] = net[Other(p)] \o e.out]
    BY <2>1, <1>1, NamesDiffer DEF TypeOK
  <2> QED BY <2>2, <1>1, <1>3 DEF TypeOK
<1>5. item' \in [Peers -> Items] /\ con' \in [Peers -> Connections]
  BY DEF Apply, Effects, TypeOK
<1>6. /\ dialing' \subseteq Peers /\ crInFlight' \subseteq Streams /\ crUnread' \subseteq Streams
      /\ hasServer' \in [Peers -> BOOLEAN] /\ hasProxy' \in [Peers -> BOOLEAN]
  BY DEF Apply, Effects, TypeOK
<1> QED BY <1>4, <1>5, <1>6 DEF TypeOK

LEMMA NetTypes ==
    ASSUME TypeOK, NEW p \in Peers
    PROVE  /\ net[p] \in Seq(Stanzas)
           /\ net[p] # <<>> => Head(net[p]) \in Stanzas /\ Tail(net[p]) \in Seq(Stanzas)
  BY DEF TypeOK

LEMMA ExcuseTypes ==
    ASSUME TypeOK, NEW x \in Excuses
    PROVE  excuse \cup {x} \subseteq Excuses /\ excuse \subseteq Excuses /\ granted \subseteq Peers
  BY DEF TypeOK

LEMMA PeersAre == Initiator \in Peers /\ Target \in Peers
  BY DEF Peers

LEMMA ConnectType ==
    ASSUME TypeOK, Connect
    PROVE  TypeOK'
<1> DEFINE e == [Start(Initiator) EXCEPT
                    !.con.st = "Requesting",
                    !.it = [NoItem EXCEPT !.state = "Initiator",
                                          !.proxy = hasProxy[Initiator]]]
<1>1. Start(Initiator) \in Effects
  BY PeersAre, StartType
<1>2. [NoItem EXCEPT !.state = "Initiator", !.proxy = hasProxy[Initiator]] \in Items
  BY NoItemType, PeersAre DEF TypeOK, Items
<1>3. [Start(Initiator).con EXCEPT !.st = "Requesting"] \in Connections
  BY <1>1 DEF Effects, Connections
<1>4. e \in Effects
  BY <1>1, <1>2, <1>3 DEF Effects
<1> HIDE DEF e
<1>5. DoOutgoing(Initiator, e) \in Effects
  BY <1>4, PeersAre, DoOutgoingType
<1>6. /\ Apply(Initiator, DoOutgoing(Initiator, e), net[Initiator])
      /\ granted' = granted /\ excuse' = excuse
  BY DEF Connect, e
<1> QED BY <1>5, <1>6, PeersAre, NetTypes, ApplyType DEF TypeOK

LEMMA AcceptType ==
    ASSUME TypeOK, Accept
    PROVE  TypeOK'
<1> DEFINE hosts == item[Target].hosts
           e == [Start(Target) EXCEPT
                    !.con.st = "Connecting",
                    !.it = [NoItem EXCEPT !.state = "Target", !.fast = TRUE,
                                          !.hosts = hosts,
                                          !.proxy = TargetOffersProxy(hosts)]]
<1>1. Start(Target) \in Effects
  BY PeersAre, StartType
<1>2. hosts \in SUBSET StreamHosts /\ TargetOffersProxy(hosts) \in BOOLEAN
  BY PeersAre DEF TypeOK, Items, TargetOffersProxy
<1>3. [NoItem EXCEPT !.state = "Target", !.fast = TRUE, !.hosts = hosts,
                     !.proxy = TargetOffersProxy(hosts)] \in Items
  <2> HIDE DEF hosts
  <2> QED BY <1>2, NoItemType DEF Items
<1>4. [Start(Target).con EXCEPT !.st = "Connecting"] \in Connections
  BY <1>1 DEF Effects, Connections
<1>5. e \in Effects
  <2> HIDE DEF hosts
  <2> QED BY <1>1, <1>3, <1>4 DEF Effects
<1> HIDE DEF e
<1>6. DoIncoming(Target, DoOutgoing(Target, e)) \in Effects
  BY <1>5, PeersAre, DoOutgoingType, DoIncomingType
<1>7. /\ Apply(Target, DoIncoming(Target, DoOutgoing(Target, e)), net[Target])
      /\ granted' = granted /\ excuse' = excuse
  BY DEF Accept, e
<1> QED BY <1>6, <1>7, PeersAre, NetTypes, ApplyType DEF TypeOK

LEMMA CloseType ==
    ASSUME TypeOK, NEW p \in Peers, Close(p)
    PROVE  TypeOK'
<1> DEFINE e == [Start(p) EXCEPT !.it = NoItem, !.out = CloseStanzas(p),
                                 !.con = Connection("Closed", NoStream)]
<1>1. Error(p) \in Stanzas /\ Error(Other(p)) \in Stanzas
  BY NamesDiffer, StanzaTypes
<1>2. CloseStanzas(p) \in Seq(Stanzas)
  BY <1>1 DEF CloseStanzas
<1>3. Connection("Closed", NoStream) \in Connections
  BY DEF Connection, Connections, Streams
<1>4. e \in Effects
  BY <1>2, <1>3, StartType, NoItemType, ZenonT(30) DEF Effects
<1> HIDE DEF e
<1>5. Apply(p, e, net[p]) /\ granted' = granted /\ excuse' = excuse \cup {"closed"}
  BY DEF Close, e
<1>6. excuse' \subseteq Excuses
  BY <1>5, ExcuseTypes DEF Excuses
<1> QED BY <1>4, <1>5, <1>6, NetTypes, ApplyType DEF TypeOK

LEMMA RecvInitialRequestType ==
    ASSUME TypeOK, RecvInitialRequest
    PROVE  TypeOK'
<1> DEFINE e == [Start(Target) EXCEPT !.con.st = "WaitingForAccept",
                                      !.it.hosts = Head(net[Target]).hosts]
<1>1. Start(Target) \in Effects
  BY PeersAre, StartType
<1>2. /\ net[Target] # <<>> /\ Apply(Target, e, Tail(net[Target]))
      /\ granted' = granted /\ excuse' = excuse
  BY DEF RecvInitialRequest, Arrives
<1>3. Head(net[Target]).hosts \in SUBSET StreamHosts /\ Tail(net[Target]) \in Seq(Stanzas)
  BY <1>2, PeersAre, NetTypes DEF Stanzas
<1>4. /\ [Start(Target).con EXCEPT !.st = "WaitingForAccept"] \in Connections
      /\ [Start(Target).it EXCEPT !.hosts = Head(net[Target]).hosts] \in Items
  BY <1>1, <1>3 DEF Effects, Connections, Items
<1>5. e \in Effects
  BY <1>1, <1>4 DEF Effects
<1> HIDE DEF e
<1> QED BY <1>2, <1>3, <1>5, PeersAre, ApplyType DEF TypeOK

LEMMA RecvFastRequestType ==
    ASSUME TypeOK, RecvFastRequest
    PROVE  TypeOK'
<1> DEFINE e == Start(Initiator)
           hosts == Head(net[Initiator]).hosts
           fastE == [e EXCEPT !.it.targetMode = "Fast"]
           dialE == [fastE EXCEPT !.it.hosts = hosts]
<1>1. e \in Effects
  BY PeersAre, StartType
<1>2. /\ net[Initiator] # <<>>
      /\ Apply(Initiator, IF Expected THEN HandleFast(e, hosts) ELSE Send(e, Error(Target)),
               Tail(net[Initiator]))
      /\ granted' = granted /\ excuse' = excuse
  BY DEF RecvFastRequest, Arrives
<1>3. hosts \in SUBSET StreamHosts /\ Tail(net[Initiator]) \in Seq(Stanzas)
  BY <1>2, PeersAre, NetTypes DEF Stanzas
<1> HIDE DEF e, hosts
<1>4. [e.it EXCEPT !.targetMode = "Fast"] \in Items
  BY <1>1 DEF Effects, Items
<1>5. fastE \in Effects
  BY <1>1, <1>4 DEF Effects
<1>6. [fastE.it EXCEPT !.hosts = hosts] \in Items
  BY <1>3, <1>5 DEF Effects, Items
<1>7. dialE \in Effects
  BY <1>5, <1>6 DEF Effects
<1>8. Error(Target) \in Stanzas
  BY PeersAre, StanzaTypes, NamesDiffer
<1>9. HandleFast(e, hosts) \in Effects
  <2>1. DoIncoming(Initiator, dialE) \in Effects
    BY <1>7, PeersAre, DoIncomingType
  <2>2. Send(fastE, Error(Target)) \in Effects
    BY <1>5, <1>8, SendType
  <2> QED BY <2>1, <2>2 DEF HandleFast
<1>10. (IF Expected THEN HandleFast(e, hosts) ELSE Send(e, Error(Target))) \in Effects
  BY <1>1, <1>8, <1>9, SendType
<1> QED BY <1>2, <1>3, <1>10, PeersAre, ApplyType DEF TypeOK

LEMMA JtFinishedType ==
    ASSUME TypeOK, NEW p \in Peers, NEW m \in Stanzas
    PROVE  JtFinished(p, m) \in Effects
<1> DEFINE e == TaskOver(p, Start(p))
           host == CHOOSE h \in m.hosts : TRUE
           s == StopConnecting(p, e)
           f == [e EXCEPT !.it.remoteFailed = TRUE]
<1>1. Start(p) \in Effects
  BY StartType
<1>2. e \in Effects
  <2>1. [Start(p).it EXCEPT !.task = FALSE,
            !.targetMode = IF Start(p).it.state = "Initiator" /\ @ = "Unknown"
                           THEN "NotFast" ELSE @] \in Items
    BY <1>1 DEF Effects, Items
  <2> QED BY <1>1, <2>1 DEF Effects, TaskOver
<1> HIDE DEF e
<1>3. s \in Effects
  <2>1. [e.it EXCEPT !.conn = {}] \in Items
    BY <1>2 DEF Effects, Items
  <2>2. [e EXCEPT !.it.conn = {}] \in Effects
    BY <1>2, <2>1 DEF Effects
  <2> QED BY <1>2, <2>2, DoConnectErrorType DEF StopConnecting
<1>4. f \in Effects
  <2>1. [e.it EXCEPT !.remoteFailed = TRUE] \in Items
    BY <1>2 DEF Effects, Items
  <2> QED BY <1>2, <2>1 DEF Effects
<1>5. PeerConnected(p, e, host) \in Effects
  <2> HIDE DEF host, s
  <2>1. [s.it EXCEPT !.client = NoStream, !.allowIncoming = FALSE, !.proxyConn = TRUE] \in Items
    BY <1>3 DEF Effects, Items, Streams
  <2>2. [s EXCEPT !.it.client = NoStream, !.it.allowIncoming = FALSE, !.it.proxyConn = TRUE] \in Effects
    BY <1>3, <2>1 DEF Effects
  <2>3. TryActivation(s) \in Effects /\ CheckForActivation(s) \in Effects /\ Fail(s) \in Effects
    BY <1>3, TryActivationType, CheckForActivationType, FailType
  <2> QED BY <2>2, <2>3 DEF PeerConnected, s
<1>6. PeerFailed(p, e) \in Effects
  <2> HIDE DEF f
  <2>1. /\ DoIncoming(p, f) \in Effects /\ CheckForActivation(f) \in Effects
        /\ CheckFailure(p, f) \in Effects
    BY <1>4, DoIncomingType, CheckForActivationType, FailType DEF CheckFailure
  <2> QED BY <1>4, <2>1 DEF PeerFailed, f
<1>7. TryActivation(e) \in Effects
  BY <1>2, TryActivationType
<1> QED BY <1>5, <1>6, <1>7 DEF JtFinished, e

LEMMA AnswerType ==
    ASSUME TypeOK, NEW p \in Peers, RecvAnswer(p) \/ RecvStale(p)
    PROVE  TypeOK'
<1>1. CASE RecvAnswer(p)
  <2>1. /\ net[p] # <<>> /\ Apply(p, JtFinished(p, Head(net[p])), Tail(net[p]))
        /\ granted' = granted /\ excuse' \in {excuse, excuse \cup {"lateAnswer"}}
    BY <1>1 DEF RecvAnswer, Arrives
  <2>2. excuse' \subseteq Excuses
    BY <2>1, ExcuseTypes DEF Excuses
  <2> QED BY <2>1, <2>2, NetTypes, JtFinishedType, ApplyType DEF TypeOK
<1>2. CASE RecvStale(p)
  <2>1. /\ net[p] # <<>> /\ Apply(p, Start(p), Tail(net[p]))
        /\ granted' = granted /\ excuse' = excuse
    BY <1>2 DEF RecvStale, Arrives
  <2> QED BY <2>1, NetTypes, StartType, ApplyType DEF TypeOK
<1> QED BY <1>1, <1>2

LEMMA GrantType ==
    ASSUME TypeOK, NEW p \in Peers, Grant(p)
    PROVE  TypeOK'
<1>1. [item[p] EXCEPT !.client = p, !.allowIncoming = FALSE] \in Items
  <2>1. item[p] \in Items /\ p \in Streams
    BY NamesDiffer DEF TypeOK, Streams
  <2> QED BY <2>1 DEF Items
<1>2. item' \in [Peers -> Items] /\ granted' \subseteq Peers
  <2>1. CASE item[p].allowIncoming
    <3>1. item' = [item EXCEPT ![p] = [item[p] EXCEPT !.client = p, !.allowIncoming = FALSE]]
      BY <2>1 DEF Grant, TypeOK
    <3> QED BY <2>1, <3>1, <1>1 DEF Grant, TypeOK
  <2>2. CASE ~item[p].allowIncoming
    BY <2>2 DEF Grant, TypeOK
  <2> QED BY <2>1, <2>2
<1>3. /\ dialing' \subseteq Peers
      /\ UNCHANGED <<hasServer, hasProxy, con, net, crInFlight, crUnread, excuse>>
  BY DEF Grant, TypeOK
<1> QED BY <1>2, <1>3 DEF TypeOK

LEMMA ConnectorType ==
    ASSUME TypeOK, NEW p \in Peers, NEW h \in StreamHosts,
           ConnectorSucceeds(p, h) \/ \E late \in BOOLEAN : ConnectorFails(p, h, late)
    PROVE  TypeOK'
<1>1. Start(p) \in Effects
  BY StartType
<1>2. CASE ConnectorSucceeds(p, h)
  <2> DEFINE e == Start(p)
             up == [e EXCEPT !.it.conn = {}, !.it.connSuccess = TRUE, !.it.lateProxy = FALSE]
             done == Send(up, Success(Other(p), h))
             i == [done EXCEPT !.it.client = h, !.it.allowIncoming = FALSE]
             t == [done EXCEPT !.it.clientOut = h]
  <2>1. up \in Effects
    <3>1. [e.it EXCEPT !.conn = {}, !.connSuccess = TRUE, !.lateProxy = FALSE] \in Items
      <4> HIDE DEF e
      <4> QED BY <1>1 DEF e, Effects, Items
    <3> HIDE DEF e
    <3> QED BY <1>1, <3>1 DEF e, Effects
  <2> HIDE DEF up
  <2>2. done \in Effects
    BY <2>1, NamesDiffer, StanzaTypes, SendType
  <2> HIDE DEF done
  <2>3. /\ [done.it EXCEPT !.client = h, !.allowIncoming = FALSE] \in Items
        /\ [done.it EXCEPT !.clientOut = h] \in Items
    BY <2>2 DEF Effects, Items, Streams
  <2>4. i \in Effects /\ t \in Effects
    BY <2>2, <2>3 DEF Effects
  <2>5. TryActivation(i) \in Effects /\ CheckForActivation(t) \in Effects
    BY <2>4, TryActivationType, CheckForActivationType
  <2>6. ConnResultTrue(p, e, h) \in Effects
    BY <2>5 DEF ConnResultTrue, done, up
  <2>7. /\ Apply(p, ConnResultTrue(p, e, h), net[p])
        /\ granted' = granted /\ excuse' = excuse
    BY <1>2 DEF ConnectorSucceeds
  <2> QED BY <2>6, <2>7, NetTypes, ApplyType DEF TypeOK
<1>3. ASSUME NEW late \in BOOLEAN, ConnectorFails(p, h, late)
      PROVE  TypeOK'
  <2> DEFINE e == [Start(p) EXCEPT !.it.conn = @ \ {h},
                                   !.dial = IF late THEN @ ELSE @ \ {h}]
  <2>1. e \in Effects
    <3>1. [Start(p).it EXCEPT !.conn = @ \ {h}] \in Items
      BY <1>1 DEF Effects, Items
    <3>2. (IF late THEN Start(p).dial ELSE Start(p).dial \ {h}) \in SUBSET Peers
      BY <1>1 DEF Effects
    <3> QED BY <1>1, <3>1, <3>2 DEF Effects
  <2>2. /\ Apply(p, IF e.it.conn = {} THEN ConnResultFalse(p, e) ELSE e, net[p])
        /\ granted' = granted /\ excuse' \in {excuse, excuse \cup {"lateFailure"}}
    BY <1>3 DEF ConnectorFails
  <2> HIDE DEF e
  <2>3. ConnResultFalse(p, e) \in Effects
    BY <2>1, DoIncomingType, DoConnectErrorType DEF ConnResultFalse
  <2>4. excuse' \subseteq Excuses
    BY <2>2, ExcuseTypes DEF Excuses
  <2> QED BY <2>1, <2>2, <2>3, <2>4, NetTypes, ApplyType DEF TypeOK
<1> QED BY <1>2, <1>3

LEMMA OwnProxyType ==
    ASSUME TypeOK, NEW p \in Peers, NEW ok \in BOOLEAN,
           ProxyResult(p, ok) \/ ProxyFinished(p, ok)
    PROVE  TypeOK'
<1>1. Start(p) \in Effects /\ Fail(Start(p)) \in Effects
  BY StartType, FailType
<1>2. CASE ProxyResult(p, ok)
  <2> DEFINE e == [Start(p) EXCEPT !.it.proxyConn = FALSE, !.it.proxyTask = TRUE,
                                   !.it.client = Proxy(p)]
  <2>1. [Start(p).it EXCEPT !.proxyConn = FALSE, !.proxyTask = TRUE, !.client = Proxy(p)] \in Items
    BY <1>1, NamesDiffer DEF Effects, Items, Streams
  <2>2. e \in Effects
    BY <1>1, <2>1 DEF Effects
  <2>3. /\ Apply(p, IF ok THEN e ELSE Fail(Start(p)), net[p])
        /\ granted' = granted /\ excuse' \in {excuse, excuse \cup {"proxyFailed"}}
    BY <1>2 DEF ProxyResult
  <2>4. excuse' \subseteq Excuses
    BY <2>3, ExcuseTypes DEF Excuses
  <2> HIDE DEF e
  <2> QED BY <1>1, <2>2, <2>3, <2>4, NetTypes, ApplyType DEF TypeOK
<1>3. CASE ProxyFinished(p, ok)
  <2> DEFINE e == [Start(p) EXCEPT !.it.proxyTask = FALSE]
             r == IF ~ok THEN Fail(e)
                  ELSE IF p = Initiator THEN TryActivation(e) ELSE CheckForActivation(e)
  <2>1. [Start(p).it EXCEPT !.proxyTask = FALSE] \in Items
    BY <1>1 DEF Effects, Items
  <2>2. e \in Effects
    BY <1>1, <2>1 DEF Effects
  <2>3. /\ Apply(p, r, net[p])
        /\ granted' = granted /\ excuse' \in {excuse, excuse \cup {"proxyFailed"}}
    BY <1>3 DEF ProxyFinished
  <2> HIDE DEF e
  <2>4. r \in Effects
    BY <2>2, FailType, TryActivationType, CheckForActivationType
  <2>5. excuse' \subseteq Excuses
    BY <2>3, ExcuseTypes DEF Excuses
  <2> QED BY <2>3, <2>4, <2>5, NetTypes, ApplyType DEF TypeOK
<1> QED BY <1>2, <1>3

LEMMA CRWrittenType ==
    ASSUME TypeOK, CRWritten
    PROVE  TypeOK'
  BY PeersAre, StartType, FinishedType, NetTypes, ApplyType DEF CRWritten, TypeOK

LEMMA CRArrivesType ==
    ASSUME TypeOK, NEW s \in StreamHosts, CRArrives(s)
    PROVE  TypeOK'
<1> DEFINE e == [Start(Target) EXCEPT !.cr = @ \ {s}, !.unread = @ \cup {s}]
<1>1. Start(Target) \in Effects
  BY PeersAre, StartType
<1>2. e \in Effects
  BY <1>1 DEF Effects, Streams
<1>3. /\ Apply(Target, IF item[Target].state = "Target" /\ ~item[Target].task
                            /\ ~item[Target].proxyTask
                       THEN CheckForActivation(e) ELSE e,
               net[Target])
      /\ granted' = granted /\ excuse' = excuse
  BY DEF CRArrives
<1> HIDE DEF e
<1> QED BY <1>2, <1>3, PeersAre, CheckForActivationType, NetTypes, ApplyType DEF TypeOK

LEMMA StreamErrorType ==
    ASSUME TypeOK, NEW p \in Peers, StreamError(p)
    PROVE  TypeOK'
<1>1. /\ Apply(p, Fail(Start(p)), net[p])
      /\ granted' = granted /\ excuse' = excuse \cup {"streamError"}
  BY DEF StreamError
<1>2. excuse' \subseteq Excuses
  BY <1>1, ExcuseTypes DEF Excuses
<1> QED BY <1>1, <1>2, StartType, FailType, NetTypes, ApplyType DEF TypeOK

LEMMA InitType == Init => TypeOK
<1> SUFFICES ASSUME Init
             PROVE  TypeOK
  OBVIOUS
<1>1. Connection("Idle", NoStream) \in Connections
  BY DEF Connection, Connections, Streams
<1>2. <<>> \in Seq(Stanzas)
  OBVIOUS
<1> QED BY <1>1, <1>2, NoItemType DEF Init, TypeOK

LEMMA NextType == TypeOK /\ [Next]_vars => TypeOK'
<1> SUFFICES ASSUME TypeOK, [Next]_vars
             PROVE  TypeOK'
  OBVIOUS
<1>1. CASE Connect
  BY <1>1, ConnectType
<1>2. CASE Accept
  BY <1>2, AcceptType
<1>3. CASE CRWritten
  BY <1>3, CRWrittenType
<1>4. ASSUME NEW p \in Peers, Stanza(p)
      PROVE  TypeOK'
  BY <1>4, RecvInitialRequestType, RecvFastRequestType, AnswerType DEF Stanza
<1>5. ASSUME NEW p \in Peers, Connector(p)
      PROVE  TypeOK'
  BY <1>5, ConnectorType DEF Connector
<1>6. ASSUME NEW p \in Peers, OwnProxy(p)
      PROVE  TypeOK'
  BY <1>6, OwnProxyType DEF OwnProxy
<1>7. ASSUME NEW p \in Peers, Grant(p) \/ Close(p) \/ StreamError(p)
      PROVE  TypeOK'
  BY <1>7, GrantType, CloseType, StreamErrorType
<1>8. ASSUME NEW s \in StreamHosts, CRArrives(s)
      PROVE  TypeOK'
  BY <1>8, CRArrivesType
<1>9. CASE UNCHANGED vars
  BY <1>9 DEF vars, TypeOK
<1> QED BY <1>1, <1>2, <1>3, <1>4, <1>5, <1>6, <1>7, <1>8, <1>9 DEF Next

(* The variables keep their types: an item never gets a stream, a streamhost *)
(* or a stanza that the negotiation does not know.                          *)
THEOREM TypeCorrect == Spec => []TypeOK
<1>1. Init => TypeOK
  BY InitType
<1>2. TypeOK /\ [Next]_vars => TypeOK'
  BY NextType
<1> QED BY <1>1, <1>2, PTL DEF Spec

-----------------------------------------------------------------------------
(* Names, stanzas and empty queues.                                         *)

LEMMA Names ==
    /\ Initiator # Target /\ Initiator # InitiatorProxy /\ Initiator # TargetProxy
    /\ Target # InitiatorProxy /\ Target # TargetProxy /\ InitiatorProxy # TargetProxy
    /\ Initiator # NoStream /\ Target # NoStream
    /\ InitiatorProxy # NoStream /\ TargetProxy # NoStream
  BY NamesDiffer DEF Proxies, Peers, Other, Proxy, StreamHosts

LEMMA Messages ==
    /\ \A p, h : Success(p, h).kind = "success" /\ Error(p).kind = "error"
    /\ \A p, h, q : Success(p, h) # Error(q)
    /\ \A h : Request(h).hosts = h
    /\ \A p : \A m \in Answers(p) : m.kind \in {"success", "error"}
  BY DEF Success, Error, Request, Answers, IsAnswer

LEMMA SuccessDiffers ==
    ASSUME NEW p, NEW g, NEW h, Success(p, g) = Success(p, h)
    PROVE  g = h
<1>1. Success(p, g).hosts = {g} /\ Success(p, h).hosts = {h}
  BY DEF Success
<1> QED BY <1>1

LEMMA EmptyNet ==
    ASSUME NEW p, net[p] = <<>>
    PROVE  Requests(p) = {} /\ Answers(p) = {}
<1>1. Len(net[p]) = 0 /\ 1..0 = {}
  OBVIOUS
<1> QED BY <1>1 DEF Requests, Answers

-----------------------------------------------------------------------------
(* What is read and sent, as the requests and answers on their way.         *)

(* p reads the first stanza, or sends one.                                  *)
Reads(p) == net[p] # <<>> /\ net'[p] = Tail(net[p])
Sends(p, m) == net'[p] = Append(net[p], m)

LEMMA Vocabulary ==
    ASSUME TypeOK
    PROVE  /\ I \in Items /\ T \in Items /\ CI \in Connections /\ CT \in Connections
           /\ net[Initiator] \in Seq(Stanzas) /\ net[Target] \in Seq(Stanzas)
           /\ Other(Initiator) = Target /\ Other(Target) = Initiator
           /\ Proxy(Initiator) = InitiatorProxy /\ Proxy(Target) = TargetProxy
  BY PeersAre, NamesDiffer DEF TypeOK, I, T, CI, CT, Other, Proxy

(* The stanzas that p has still to read, after it has read one.             *)
LEMMA ReadsOne ==
    ASSUME TypeOK, NetOK, NEW p \in Peers, Reads(p)
    PROVE  /\ Head(net[p]) \in Stanzas
           /\ IsRequest(Head(net[p])) => Head(net[p]) \in Requests(p)
           /\ IsAnswer(Head(net[p]), p) => Head(net[p]) \in Answers(p) /\ Answers(p)' = {}
           /\ ~IsAnswer(Head(net[p]), p) => Answers(p)' = Answers(p)
           /\ Requests(p)' = {}
           /\ \A k, l \in 1..Len(net'[p]) :
                /\ IsRequest(net'[p][k]) => k = 1
                /\ IsAnswer(net'[p][k], p) /\ IsAnswer(net'[p][l], p) => k = l
<1> DEFINE q == net[p]
           n == Len(q)
<1>1. q \in Seq(Stanzas) /\ q # <<>>
  BY DEF TypeOK, Reads
<1>2. /\ n \in Nat /\ n > 0 /\ Head(q) = q[1] /\ q[1] \in Stanzas
      /\ Len(Tail(q)) = n - 1 /\ \A k \in 1..(n - 1) : Tail(q)[k] = q[k + 1]
  BY <1>1
<1>3. net'[p] = Tail(q)
  BY DEF Reads
<1>4. \A k, l \in 1..n : /\ IsRequest(q[k]) => k = 1
                         /\ IsAnswer(q[k], p) /\ IsAnswer(q[l], p) => k = l
  BY DEF NetOK
<1>5. /\ Requests(p) = {m \in {q[k] : k \in 1..n} : IsRequest(m)}
      /\ Answers(p) = {m \in {q[k] : k \in 1..n} : IsAnswer(m, p)}
  BY DEF Requests, Answers
<1>6. /\ Requests(p)' = {m \in {Tail(q)[k] : k \in 1..(n - 1)} : IsRequest(m)}
      /\ Answers(p)' = {m \in {Tail(q)[k] : k \in 1..(n - 1)} : IsAnswer(m, p)}
  BY <1>2, <1>3 DEF Requests, Answers
<1> HIDE DEF q, n
<1>7. \A k, l \in 1..(n - 1) :
        /\ k + 1 \in 1..n /\ k + 1 # 1 /\ (k = l <=> k + 1 = l + 1)
  BY <1>2
<1>8. \A k, l \in 1..(n - 1) :
        /\ ~IsRequest(Tail(q)[k])
        /\ IsAnswer(Tail(q)[k], p) /\ IsAnswer(Tail(q)[l], p) => k = l
  BY <1>2, <1>4, <1>7
<1>9. Requests(p)' = {}
  BY <1>6, <1>8
<1>10. 1 \in 1..n
  BY <1>2
<1>11. (IsRequest(q[1]) => q[1] \in Requests(p)) /\ (IsAnswer(q[1], p) => q[1] \in Answers(p))
  BY <1>5, <1>10
<1>12. ASSUME IsAnswer(q[1], p)
       PROVE  Answers(p)' = {}
  <2>1. \A k \in 1..(n - 1) : ~IsAnswer(Tail(q)[k], p)
    BY <1>2, <1>4, <1>7, <1>10, <1>12
  <2> QED BY <2>1, <1>6
<1>13. ASSUME ~IsAnswer(q[1], p)
       PROVE  Answers(p)' = Answers(p)
  <2>1. ASSUME NEW m, IsAnswer(m, p)
        PROVE  (\E k \in 1..n : m = q[k]) <=> (\E k \in 1..(n - 1) : m = Tail(q)[k])
    <3>1. ASSUME NEW k \in 1..n, m = q[k]
          PROVE  \E l \in 1..(n - 1) : m = Tail(q)[l]
      <4>1. k # 1
        BY <3>1, <2>1, <1>13
      <4>2. k - 1 \in 1..(n - 1) /\ (k - 1) + 1 = k
        BY <4>1, <1>2
      <4> QED BY <4>2, <3>1, <1>2
    <3>2. ASSUME NEW k \in 1..(n - 1), m = Tail(q)[k]
          PROVE  \E l \in 1..n : m = q[l]
      BY <3>2, <1>2, <1>7
    <3> QED BY <3>1, <3>2
  <2> QED BY <2>1, <1>5, <1>6, ZenonT(30)
<1>14. Len(net'[p]) = n - 1
  BY <1>2, <1>3
<1> QED BY <1>2, <1>3, <1>8, <1>9, <1>11, <1>12, <1>13, <1>14 DEF q, n

LEMMA SendsOne ==
    ASSUME TypeOK, NetOK, NEW p \in Peers, NEW m \in Stanzas, Sends(p, m),
           IsAnswer(m, p) => Answers(p) = {},
           IsRequest(m) => net[p] = <<>>
    PROVE  /\ Requests(p)' = Requests(p) \cup (IF IsRequest(m) THEN {m} ELSE {})
           /\ Answers(p)' = Answers(p) \cup (IF IsAnswer(m, p) THEN {m} ELSE {})
           /\ \A k, l \in 1..Len(net'[p]) :
                /\ IsRequest(net'[p][k]) => k = 1
                /\ IsAnswer(net'[p][k], p) /\ IsAnswer(net'[p][l], p) => k = l
<1> DEFINE q == net[p]
           n == Len(q)
<1>1. q \in Seq(Stanzas)
  BY DEF TypeOK
<1>2. /\ n \in Nat /\ Len(Append(q, m)) = n + 1 /\ Append(q, m)[n + 1] = m
      /\ \A k \in 1..n : Append(q, m)[k] = q[k]
      /\ q = <<>> => n = 0
  BY <1>1
<1>3. net'[p] = Append(q, m)
  BY DEF Sends
<1>4. \A k, l \in 1..n : /\ IsRequest(q[k]) => k = 1
                         /\ IsAnswer(q[k], p) /\ IsAnswer(q[l], p) => k = l
  BY DEF NetOK
<1>5. /\ Requests(p) = {x \in {q[k] : k \in 1..n} : IsRequest(x)}
      /\ Answers(p) = {x \in {q[k] : k \in 1..n} : IsAnswer(x, p)}
  BY DEF Requests, Answers
<1>6. /\ Requests(p)' = {x \in {Append(q, m)[k] : k \in 1..(n + 1)} : IsRequest(x)}
      /\ Answers(p)' = {x \in {Append(q, m)[k] : k \in 1..(n + 1)} : IsAnswer(x, p)}
  BY <1>2, <1>3 DEF Requests, Answers
<1>a. q = net[p]
  OBVIOUS
<1> HIDE DEF q, n
<1>7. \A k \in 1..(n + 1) : k \in 1..n \/ k = n + 1
  BY <1>2
<1>8. \A k \in 1..n : k \in 1..(n + 1) /\ k # n + 1
  BY <1>2
<1>9. n + 1 \in 1..(n + 1)
  BY <1>2
<1>10. ASSUME NEW x
       PROVE  (\E k \in 1..(n + 1) : x = Append(q, m)[k]) <=> (x = m \/ \E k \in 1..n : x = q[k])
  BY <1>2, <1>7, <1>8, <1>9
<1>11. /\ Requests(p)' = Requests(p) \cup (IF IsRequest(m) THEN {m} ELSE {})
       /\ Answers(p)' = Answers(p) \cup (IF IsAnswer(m, p) THEN {m} ELSE {})
  <2>1. \A x : x \in Requests(p)' <=> x \in Requests(p) \/ (IsRequest(m) /\ x = m)
    BY <1>5, <1>6, <1>10
  <2>2. \A x : x \in Answers(p)' <=> x \in Answers(p) \/ (IsAnswer(m, p) /\ x = m)
    BY <1>5, <1>6, <1>10
  <2> QED BY <2>1, <2>2
<1>12. ASSUME NEW k \in 1..(n + 1), IsRequest(Append(q, m)[k])
       PROVE  k = 1
  BY <1>2, <1>4, <1>7, <1>12, <1>a
<1>13. ASSUME NEW k \in 1..(n + 1), NEW l \in 1..(n + 1),
              IsAnswer(Append(q, m)[k], p), IsAnswer(Append(q, m)[l], p)
       PROVE  k = l
  <2>1. IsAnswer(m, p) => \A j \in 1..n : ~IsAnswer(q[j], p)
    BY <1>5
  <2> QED BY <2>1, <1>2, <1>4, <1>7, <1>13
<1>14. Len(net'[p]) = n + 1
  BY <1>2, <1>3
<1> QED BY <1>3, <1>11, <1>12, <1>13, <1>14

LEMMA SendsNothing ==
    ASSUME NetOK, NEW p \in Peers, net'[p] = net[p]
    PROVE  /\ Requests(p)' = Requests(p) /\ Answers(p)' = Answers(p)
           /\ \A k, l \in 1..Len(net'[p]) :
                /\ IsRequest(net'[p][k]) => k = 1
                /\ IsAnswer(net'[p][k], p) /\ IsAnswer(net'[p][l], p) => k = l
  BY DEF NetOK, Requests, Answers

-----------------------------------------------------------------------------
(* What follows for the initiator.                                          *)

LEMMA Started ==
    ASSUME Known,
           AskI # {} \/ ToI # {} \/ I.client # NoStream \/ I.targetMode # "Unknown"
    PROVE  CT.st # "Idle" /\ CT.st # "WaitingForAccept"
<1>1. net[Initiator] = <<>> => AskI = {} /\ ToI = {}
  BY EmptyNet DEF AskI, ToI
<1> QED BY <1>1 DEF Known, KnownParts, NetOK, Beginning

(* As long as the initiator has not picked a stream.                        *)
LEMMA Undecided ==
    ASSUME Known, I.state = "Initiator", ~I.activated
    PROVE  /\ \A s \in Streams : ~Picked(s)
           /\ crInFlight = {} /\ crUnread = {}
           /\ T.state = "Active" => ~T.fast /\ I.targetMode # "Fast"
           /\ ~I.connSuccess
           /\ \A m \in ToT : m.kind = "error"
           /\ T.state = "Target" /\ T.fast /\ ~T.task => T.remoteFailed
           /\ T.state = "Target" => ~T.proxyConn /\ ~T.proxyTask /\ T.client # TargetProxy
<1>1. \A s \in Streams : ~Picked(s)
  BY DEF Known, KnownParts, OneStream, PickedOK
<1>2. crInFlight \subseteq Streams /\ crUnread \subseteq Streams
  BY DEF Known, TypeOK
<1>3. crInFlight = {} /\ crUnread = {}
  BY <1>1, <1>2 DEF Picked
<1>4. ~I.connSuccess
  BY DEF Known, KnownParts, InitiatorOK
<1>5. T.state = "Active" => ~T.fast /\ I.targetMode # "Fast"
  BY DEF Known, KnownParts, TargetUp, ModeKnown
<1>6. \A m \in ToT : m.kind = "error"
  BY <1>4, Messages DEF Known, KnownParts, SuccessTrue, ToT
<1>7. T.state = "Target" /\ T.fast /\ ~T.task => T.remoteFailed
  BY <1>4 DEF Known, KnownParts, SuccessTrue
<1>8. T.state = "Target" => ~T.proxyConn /\ ~T.proxyTask /\ T.client # TargetProxy
  BY <1>7, Names DEF Known, KnownParts, TargetOK
<1> QED BY <1>1, <1>3, <1>4, <1>5, <1>6, <1>7, <1>8

(* An answer has come: the target gives no other.                           *)
LEMMA Answered ==
    ASSUME Known, ToI # {}
    PROVE  ~AnswersI /\ CT.st # "Idle" /\ CT.st # "WaitingForAccept"
  BY Started DEF Known, KnownParts, OneAnswer

LEMMA TargetConnected ==
    ASSUME Known, NEW s \in InitiatorHosts, Success(Initiator, s) \in ToI
    PROVE  /\ T.state = "Target" => T.clientOut = s /\ T.fast
           /\ T.state = "Active" /\ ~T.fast => CT.sc = s
           /\ CT.st = "Failed" => excuse # {}
           /\ s = Initiator /\ I.state = "Initiator" => I.client # NoStream
<1>1. s # NoStream
  BY Names DEF InitiatorHosts
<1>2. PICK h \in InitiatorHosts : /\ Success(Initiator, s) = Success(Initiator, h)
                                  /\ T.state = "Target" => T.clientOut = h
                                  /\ T.state = "Active" /\ ~T.fast => CT.sc = h
  BY Messages DEF Known, KnownParts, SuccessTrue
<1>3. h = s
  BY <1>2, SuccessDiffers
<1>4. CT.st = "Failed" => excuse # {}
  BY Messages DEF Known, KnownParts, Failures
<1>5. s = Initiator /\ I.state = "Initiator" => I.client # NoStream
  BY Messages DEF Known, KnownParts, SuccessTrue
<1>6. T.state = "Target" => T.fast
  BY <1>1, <1>2, <1>3 DEF Known, KnownParts, TargetOK
<1> QED BY <1>2, <1>3, <1>4, <1>5, <1>6

-----------------------------------------------------------------------------
(* What follows for the target.                                             *)

LEMMA Negotiating ==
    ASSUME Known, T.state # "Idle" \/ CT.st = "WaitingForAccept"
    PROVE  /\ CT.st # "Idle" /\ CI.st # "Idle" /\ AskT = {}
           /\ T.state # "Idle" => CT.st # "WaitingForAccept"
  BY DEF Known, KnownParts, Linked, Beginning

LEMMA Accepting ==
    ASSUME Known, CT.st = "WaitingForAccept"
    PROVE  /\ T.state = "Idle" /\ Nothing(T) /\ AskI = {} /\ AskT = {} /\ ToI = {} /\ ToT = {}
           /\ granted = {} /\ crInFlight = {} /\ crUnread = {}
           /\ CI.st \in {"Requesting", "Closed"} /\ I.state \in {"Initiator", "Idle"}
           /\ I.targetMode = "Unknown" /\ ~I.activated /\ ~I.proxyConn /\ ~I.proxyTask
           /\ ~I.connSuccess /\ ~AnswersT
           /\ I.state = "Initiator" => I.task /\ ~I.remoteFailed
<1>1. net[Initiator] = <<>>
  BY DEF Known, NetOK
<1>2. AskI = {} /\ ToI = {}
  BY <1>1, EmptyNet DEF AskI, ToI
<1>3. /\ CI.st \in {"Requesting", "Closed"} /\ I.targetMode = "Unknown" /\ I.client = NoStream
      /\ granted = {} /\ crInFlight = {} /\ crUnread = {} /\ ToT = {} /\ AskT = {}
  BY DEF Known, KnownParts, Beginning
<1>4. /\ T.state = "Idle" /\ Nothing(T) /\ I.state \in {"Initiator", "Idle"}
      /\ I.state = "Idle" => Nothing(I)
  BY <1>3 DEF Known, KnownParts, Linked
<1>5. I.state = "Initiator" => /\ I.task /\ I.conn = {} /\ ~I.lateProxy /\ ~I.activated
                               /\ ~I.connSuccess /\ ~I.proxyConn /\ ~I.proxyTask /\ ~I.remoteFailed
  BY <1>3 DEF Known, KnownParts, InitiatorOK, ItemOK
<1>6. I.conn = {} /\ ~I.lateProxy /\ ~I.activated /\ ~I.connSuccess /\ ~I.proxyConn /\ ~I.proxyTask
  BY <1>4, <1>5 DEF Nothing
<1> QED BY <1>2, <1>3, <1>4, <1>5, <1>6 DEF AnswersT

(* An answer has come: the initiator gives no other.                        *)
LEMMA TargetAnswered ==
    ASSUME Known, ToT # {}
    PROVE  ~AnswersT /\ CT.st # "Idle" /\ CT.st # "WaitingForAccept"
  BY DEF Known, KnownParts, OneAnswer, Beginning

LEMMA InitiatorConnected ==
    ASSUME Known, NEW s \in TargetHosts, Success(Target, s) \in ToT, T.state = "Target", T.task
    PROVE  /\ I.state = "Initiator" => I.connSuccess /\ I.activated
           /\ s = Target => T.client = Target
           /\ CI.st = "Failed" => excuse # {}
           /\ \A r \in Streams : Picked(r) => r = s
           /\ T.fast /\ ~T.remoteFailed /\ ~T.proxyConn /\ ~T.proxyTask
<1>1. I.state = "Initiator" => I.connSuccess /\ I.activated
  BY Messages DEF Known, KnownParts, SuccessTrue, InitiatorOK
<1>2. s = Target => T.client = Target
  BY Messages DEF Known, KnownParts, SuccessTrue
<1>3. CI.st = "Failed" => excuse # {}
  BY Messages DEF Known, KnownParts, Failures
<1>4. ASSUME NEW r \in Streams, Picked(r)
      PROVE  r = s
  <2>1. PickedOK(r)
    BY <1>4 DEF Known, KnownParts, OneStream
  <2>2. r \in TargetHosts \/ r \in InitiatorHosts
    BY <2>1 DEF PickedOK, StreamHosts, Peers, Proxies, TargetHosts, InitiatorHosts
  <2>3. CASE r \in TargetHosts
    <3>1. Success(Target, s) = Success(Target, r)
      BY <2>1, <2>3 DEF PickedOK
    <3> QED BY <3>1, SuccessDiffers
  <2>4. CASE r \in InitiatorHosts
    BY <2>1, <2>4, Messages DEF PickedOK
  <2> QED BY <2>2, <2>3, <2>4
<1>5. T.fast /\ ~T.remoteFailed /\ ~T.proxyConn /\ ~T.proxyTask
  BY DEF Known, KnownParts, TargetOK, ItemOK
<1> QED BY <1>1, <1>2, <1>3, <1>4, <1>5

LEMMA IAsksKeeps ==
    ASSUME Known, IAsks
    PROVE  KnownParts'
<1>1. /\ I'.state = "Initiator" /\ I'.targetMode = "Unknown" /\ I'.fast = FALSE
      /\ I'.hosts = {} /\ I'.conn = {} /\ I'.client = NoStream
      /\ I'.clientOut = NoStream /\ I'.task = TRUE /\ I'.proxyConn = FALSE
      /\ I'.proxyTask = FALSE /\ I'.activated = FALSE /\ I'.lateProxy = FALSE
      /\ I'.connSuccess = FALSE /\ I'.localFailed = FALSE /\ I'.remoteFailed = FALSE
      /\ I'.allowIncoming = TRUE
  BY DEF IAsks, NoItem
<1>2. /\ CI.st = "Idle" /\ CI'.st = "Requesting" /\ T' = T /\ CT' = CT /\ Early
      /\ crInFlight' = crInFlight /\ crUnread' = crUnread /\ granted' = granted
      /\ excuse' = excuse /\ AskI' = AskI /\ ToT' = ToT /\ ToI' = ToI
      /\ \E hosts \in SUBSET InitiatorHosts : AskT' = {Request(hosts)}
  BY DEF IAsks, SameTarget, SameCR
<1>3. /\ CT.st = "Idle" /\ I.state = "Idle" /\ T.state = "Idle" /\ excuse = {} /\ ToT = {}
      /\ granted = {} /\ dialing = {} /\ crInFlight = {} /\ crUnread = {}
  BY <1>2 DEF Known, KnownParts, Linked, Beginning
<1>4. net[Initiator] = <<>>
  BY <1>3 DEF Known, NetOK
<1>5. ToI = {} /\ AskI = {}
  BY <1>4, EmptyNet DEF ToI, AskI
<1>6. AskT' # {} /\ (\A m \in AskT' : m.hosts \subseteq InitiatorHosts)
  BY <1>2, Messages
<1>7. Nothing(T)
  BY <1>3 DEF Known, KnownParts, Linked
<1>8. Linked'
  BY <1>1, <1>2 DEF Known, KnownParts, Linked
<1>9. InitiatorOK'
  BY <1>1, Names DEF InitiatorOK, ItemOK, TargetHosts
<1>10. TargetOK'
  BY <1>2 DEF Known, KnownParts, TargetOK
<1>11. Beginning'
  BY <1>1, <1>2, <1>6 DEF Known, KnownParts, Beginning, Early
<1>12. OneAnswer'
  BY <1>1, <1>2, <1>5 DEF Known, KnownParts, OneAnswer, AnswersT
<1>13. SuccessTrue'
  BY <1>2, <1>3, <1>5 DEF SuccessTrue
<1>14. ModeKnown'
  BY <1>2, <1>3, <1>5 DEF ModeKnown
<1>15. OneStream'
  <2>1. ASSUME NEW s \in Streams, Picked(s)'
        PROVE  Picked(s)
    BY <1>1, <1>2, <2>1 DEF Picked
  <2>2. ASSUME NEW s \in Streams, Picked(s), PickedOK(s)
        PROVE  PickedOK(s)'
    BY <1>3, <2>2 DEF PickedOK
  <2> QED
    BY <1>2, <2>1, <2>2 DEF Known, KnownParts, OneStream
<1>16. TargetUp'
  BY <1>2, <1>3 DEF TargetUp
<1>17. Failures'
  BY <1>2, <1>3 DEF Failures
<1> QED
  BY <1>8, <1>9, <1>10, <1>11, <1>12, <1>13, <1>14, <1>15, <1>16, <1>17 DEF KnownParts

LEMMA IRefusesKeeps ==
    ASSUME Known, IRefuses
    PROVE  KnownParts'
<1>1. /\ I'.state = I.state
      /\ I'.targetMode = IF I.state = "Initiator" THEN "Fast" ELSE I.targetMode
      /\ I'.fast = I.fast /\ I'.hosts = I.hosts /\ I'.conn = I.conn
      /\ I'.client = I.client /\ I'.clientOut = I.clientOut /\ I'.task = I.task
      /\ I'.proxyConn = I.proxyConn /\ I'.proxyTask = I.proxyTask
      /\ I'.activated = I.activated /\ I'.lateProxy = I.lateProxy
      /\ I'.connSuccess = I.connSuccess /\ I'.localFailed = I.localFailed
      /\ I'.remoteFailed = I.remoteFailed /\ I'.allowIncoming = I.allowIncoming
  BY Vocabulary DEF Known, IRefuses, Items
<1>2. /\ AskI # {} /\ AskI' = {} /\ AskT' = AskT /\ ToI' = ToI
      /\ ToT' = ToT \cup {Error(Target)} /\ CI' = CI /\ T' = T /\ CT' = CT /\ Early
      /\ crInFlight' = crInFlight /\ crUnread' = crUnread /\ granted' = granted
      /\ excuse' = excuse
      /\ (I.state = "Initiator" => I.targetMode = "Unknown" /\ I.client # NoStream)
  BY DEF IRefuses, SameTarget, SameCR, FastRequestRead
<1>3. ToT = {} /\ (\A m \in ToT' : m.kind = "error")
  BY <1>2, Messages DEF Known, KnownParts, OneAnswer, AnswersT
<1>4. CT.st # "Idle" /\ CT.st # "WaitingForAccept"
  BY <1>2, Started
<1>5. I.conn = {} /\ ~I.lateProxy /\ I.state # "Active" /\ (I.state = "Initiator" => I.task)
  BY <1>2 DEF Known, KnownParts, Linked, Nothing, InitiatorOK, ModeKnown
<1>6. Linked'
  BY <1>1, <1>2 DEF Known, KnownParts, Linked, Nothing
<1>7. InitiatorOK'
  BY <1>1 DEF Known, KnownParts, InitiatorOK, ItemOK
<1>8. TargetOK'
  BY <1>2 DEF Known, KnownParts, TargetOK
<1>9. Beginning'
  BY <1>2, <1>4 DEF Known, KnownParts, Beginning
<1>10. OneAnswer'
  BY <1>1, <1>2, <1>5 DEF Known, KnownParts, OneAnswer, AnswersT, AnswersI
<1>11. SuccessTrue'
  BY <1>1, <1>2, <1>3 DEF Known, KnownParts, SuccessTrue
<1>12. ModeKnown'
  BY <1>1, <1>2 DEF Known, KnownParts, ModeKnown
<1>13. OneStream'
  <2>1. ASSUME NEW s \in Streams, Picked(s)'
        PROVE  Picked(s)
    BY <1>1, <1>2, <2>1 DEF Picked
  <2>2. ASSUME NEW s \in Streams, Picked(s), PickedOK(s)
        PROVE  PickedOK(s)'
    BY <1>2, <2>2 DEF PickedOK, AnswersT
  <2> QED
    BY <1>2, <2>1, <2>2 DEF Known, KnownParts, OneStream
<1>14. TargetUp'
  BY <1>1, <1>2 DEF Known, KnownParts, TargetUp, AnswersT
<1>15. Failures'
  BY <1>2, <1>3 DEF Known, KnownParts, Failures, AnswersT, AnswersI
<1> QED
  BY <1>6, <1>7, <1>8, <1>9, <1>10, <1>11, <1>12, <1>13, <1>14, <1>15 DEF KnownParts

LEMMA IDialsKeeps ==
    ASSUME Known, NEW H, NEW D, NEW L, IDials(H, D, L)
    PROVE  KnownParts'
<1>1. /\ I'.state = I.state /\ I'.targetMode = "Fast" /\ I'.fast = I.fast
      /\ I'.hosts = H /\ I'.conn = D /\ I'.client = I.client
      /\ I'.clientOut = I.clientOut /\ I'.task = I.task /\ I'.proxyConn = I.proxyConn
      /\ I'.proxyTask = I.proxyTask /\ I'.activated = I.activated /\ I'.lateProxy = L
      /\ I'.connSuccess = I.connSuccess /\ I'.localFailed = I.localFailed
      /\ I'.remoteFailed = I.remoteFailed /\ I'.allowIncoming = I.allowIncoming
  BY DEF IDials
<1>2. /\ AskI # {} /\ AskI' = {} /\ AskT' = AskT /\ ToT' = ToT /\ ToI' = ToI /\ CI' = CI
      /\ T' = T /\ CT' = CT /\ Early /\ crInFlight' = crInFlight /\ crUnread' = crUnread
      /\ granted' = granted /\ excuse' = excuse /\ I.state = "Initiator"
      /\ I.targetMode = "Unknown" /\ I.client = NoStream /\ H \subseteq TargetHosts
      /\ D \subseteq H /\ (L => H \cap Proxies # {}) /\ (D # {} \/ L)
  BY DEF IDials, SameTarget, SameCR, FastRequestRead
<1>3. /\ ToT = {} /\ I.task /\ ~I.connSuccess /\ ~I.activated /\ ~I.localFailed
      /\ ~I.remoteFailed /\ ~I.proxyConn /\ ~I.proxyTask
  BY <1>2 DEF Known, KnownParts, OneAnswer, AnswersT, InitiatorOK, ItemOK
<1>4. CT.st # "Idle" /\ CT.st # "WaitingForAccept"
  BY <1>2, Started
<1>5. Linked'
  BY <1>1, <1>2 DEF Known, KnownParts, Linked
<1>6. InitiatorOK'
  BY <1>1, <1>2 DEF Known, KnownParts, InitiatorOK, ItemOK
<1>7. TargetOK'
  BY <1>2 DEF Known, KnownParts, TargetOK
<1>8. Beginning'
  BY <1>2, <1>4 DEF Known, KnownParts, Beginning
<1>9. OneAnswer'
  BY <1>1, <1>2 DEF Known, KnownParts, OneAnswer, AnswersT, AnswersI
<1>10. SuccessTrue'
  BY <1>1, <1>2 DEF Known, KnownParts, SuccessTrue
<1>11. ModeKnown'
  BY <1>1, <1>2 DEF Known, KnownParts, ModeKnown
<1>12. OneStream'
  <2>1. ASSUME NEW s \in Streams, Picked(s)'
        PROVE  Picked(s)
    BY <1>1, <1>2, <2>1 DEF Picked
  <2>2. ASSUME NEW s \in Streams, Picked(s), PickedOK(s)
        PROVE  PickedOK(s)'
    BY <1>2, <2>2 DEF PickedOK, AnswersT
  <2> QED
    BY <1>2, <2>1, <2>2 DEF Known, KnownParts, OneStream
<1>13. TargetUp'
  BY <1>1, <1>2 DEF Known, KnownParts, TargetUp, AnswersT
<1>14. Failures'
  BY <1>2 DEF Known, KnownParts, Failures, AnswersT, Linked
<1> QED
  BY <1>5, <1>6, <1>7, <1>8, <1>9, <1>10, <1>11, <1>12, <1>13, <1>14 DEF KnownParts

LEMMA IPicksOwnKeeps ==
    ASSUME Known, IPicksOwn
    PROVE  KnownParts'
<1>1. /\ I'.state = I.state /\ I'.targetMode = I.targetMode /\ I'.fast = I.fast
      /\ I'.hosts = I.hosts /\ I'.conn = {} /\ I'.client = I.client
      /\ I'.clientOut = I.clientOut /\ I'.task = FALSE /\ I'.proxyConn = I.proxyConn
      /\ I'.proxyTask = I.proxyTask /\ I'.activated = TRUE /\ I'.lateProxy = I.lateProxy
      /\ I'.connSuccess = I.connSuccess
      /\ I'.localFailed = (I.localFailed \/ I.conn # {} \/ I.lateProxy)
      /\ I'.remoteFailed = I.remoteFailed /\ I'.allowIncoming = I.allowIncoming
  BY DEF IPicksOwn
<1>2. /\ I.state = "Initiator" /\ I.task /\ CI' = CI /\ ~I.connSuccess
      /\ I.targetMode = "Fast" /\ I.client = Initiator
      /\ Success(Initiator, Initiator) \in ToI /\ T' = T /\ CT' = CT /\ Early
      /\ AskI' = AskI /\ AskT' = AskT /\ granted' = granted
      /\ (excuse' = {} => excuse = {}) /\ ToT' = ToT \cup Sorry(Target, I) /\ ToI' = {}
      /\ crInFlight' = crInFlight \cup {Initiator} /\ crUnread' = crUnread
  BY DEF IPicksOwn, InitiatorSays, SameTarget, SameRequests, NewCR, Asking
<1>3. /\ ~I.remoteFailed /\ ~I.proxyConn /\ ~I.proxyTask /\ ~I.activated
      /\ (I.lateProxy => ~I.localFailed)
  BY <1>2 DEF Known, KnownParts, InitiatorOK, ItemOK
<1>4. /\ (\A s \in Streams : ~Picked(s)) /\ crInFlight = {} /\ crUnread = {} /\ ~I.connSuccess
      /\ (T.state = "Active" => ~T.fast /\ I.targetMode # "Fast") /\ (\A m \in ToT : m.kind = "error")
      /\ (T.state = "Target" /\ T.fast /\ ~T.task => T.remoteFailed)
      /\ (T.state = "Target" => ~T.proxyConn /\ ~T.proxyTask /\ T.client # TargetProxy)
  BY <1>2, <1>3, Undecided
<1>5. ~AnswersI /\ CT.st # "Idle" /\ CT.st # "WaitingForAccept"
  BY <1>2, Answered
<1>6. /\ (T.state = "Target" => T.clientOut = Initiator /\ T.fast)
      /\ (T.state = "Active" /\ ~T.fast => CT.sc = Initiator) /\ (CT.st = "Failed" => excuse # {})
  BY <1>2, TargetConnected DEF InitiatorHosts
<1>7. /\ AskI = {} /\ ~AnswersT' /\ (AnswersT \/ ToT' = ToT) /\ (AnswersT => ToT = {})
      /\ (\A m \in ToT' : m.kind = "error")
  BY <1>1, <1>2, <1>3, <1>4, <1>5, <1>6, Messages, ZenonT(30)
     DEF Known, KnownParts, ModeKnown, AnswersT, Sorry, OneAnswer
<1>8. Linked'
  BY <1>1, <1>2 DEF Known, KnownParts, Linked
<1>9. InitiatorOK'
  BY <1>1, <1>2, Names DEF Known, KnownParts, InitiatorOK, ItemOK
<1>10. TargetOK'
  BY <1>2 DEF Known, KnownParts, TargetOK
<1>11. Beginning'
  BY <1>2 DEF Known, KnownParts, Beginning
<1>12. OneAnswer'
  BY <1>2, <1>7 DEF Known, KnownParts, OneAnswer, AnswersI
<1>13. SuccessTrue'
  BY <1>1, <1>2, <1>7 DEF Known, KnownParts, SuccessTrue
<1>14. ModeKnown'
  BY <1>1, <1>2 DEF Known, KnownParts, ModeKnown
<1>15. OneStream'
  <2>1. \A s \in Streams : Picked(s)' => s = Initiator
    BY <1>1, <1>2, <1>4 DEF Picked
  <2>2. PickedOK(Initiator)'
    BY <1>1, <1>2, <1>4, <1>5, <1>6, <1>7, Names
       DEF Known, KnownParts, Linked, PickedOK, TargetHosts, StreamHosts, Peers
  <2>3. crInFlight' \cap crUnread' = {}
    BY <1>2, <1>4
  <2> QED
    BY <2>1, <2>2, <2>3 DEF OneStream
<1>16. TargetUp'
  BY <1>2, <1>4 DEF TargetUp
<1>17. Failures'
  BY <1>2, <1>6 DEF Known, KnownParts, Failures, Linked
<1> QED
  BY <1>8, <1>9, <1>10, <1>11, <1>12, <1>13, <1>14, <1>15, <1>16, <1>17 DEF KnownParts

LEMMA IUpSlowKeeps ==
    ASSUME Known, IUpSlow
    PROVE  KnownParts'
<1>1. /\ I'.state = "Active" /\ I'.targetMode = "NotFast" /\ I'.fast = I.fast
      /\ I'.hosts = I.hosts /\ I'.conn = I.conn /\ I'.client = NoStream
      /\ I'.clientOut = I.clientOut /\ I'.task = FALSE /\ I'.proxyConn = I.proxyConn
      /\ I'.proxyTask = I.proxyTask /\ I'.activated = I.activated
      /\ I'.lateProxy = I.lateProxy /\ I'.connSuccess = I.connSuccess
      /\ I'.localFailed = I.localFailed /\ I'.remoteFailed = I.remoteFailed
      /\ I'.allowIncoming = I.allowIncoming
  BY DEF IUpSlow
<1>2. /\ I.state = "Initiator" /\ I.task /\ I.targetMode = "Unknown"
      /\ I.client = Initiator /\ Success(Initiator, Initiator) \in ToI
      /\ CI'.st = "Active" /\ CI'.sc = Initiator /\ T' = T /\ CT' = CT /\ Early
      /\ AskI' = AskI /\ AskT' = AskT /\ granted' = granted
      /\ (excuse' = {} => excuse = {}) /\ ToT' = ToT /\ ToI' = {} /\ AskI = {}
      /\ crInFlight' = crInFlight /\ crUnread' = crUnread
  BY DEF IUpSlow, InitiatorSays, SameTarget, SameRequests, SameCR, Asking, Connection
<1>3. /\ ~I.remoteFailed /\ ~I.proxyConn /\ ~I.proxyTask /\ ~I.activated
      /\ (I.lateProxy => ~I.localFailed)
  BY <1>2 DEF Known, KnownParts, InitiatorOK, ItemOK
<1>4. /\ (\A s \in Streams : ~Picked(s)) /\ crInFlight = {} /\ crUnread = {} /\ ~I.connSuccess
      /\ (T.state = "Active" => ~T.fast /\ I.targetMode # "Fast") /\ (\A m \in ToT : m.kind = "error")
      /\ (T.state = "Target" /\ T.fast /\ ~T.task => T.remoteFailed)
      /\ (T.state = "Target" => ~T.proxyConn /\ ~T.proxyTask /\ T.client # TargetProxy)
  BY <1>2, <1>3, Undecided
<1>5. ~AnswersI /\ CT.st # "Idle" /\ CT.st # "WaitingForAccept"
  BY <1>2, Answered
<1>6. /\ (T.state = "Target" => T.clientOut = Initiator /\ T.fast)
      /\ (T.state = "Active" /\ ~T.fast => CT.sc = Initiator) /\ (CT.st = "Failed" => excuse # {})
  BY <1>2, TargetConnected DEF InitiatorHosts
<1>7. T.state # "Target" /\ (T.state = "Active" => ~T.fast) /\ I.conn = {} /\ ~I.lateProxy
  BY <1>2, <1>6 DEF Known, KnownParts, ModeKnown, InitiatorOK
<1>8. Linked'
  BY <1>1, <1>2, Names DEF Known, KnownParts, Linked
<1>9. InitiatorOK'
  BY <1>1, <1>3, <1>7 DEF Known, KnownParts, InitiatorOK, ItemOK
<1>10. TargetOK'
  BY <1>2 DEF Known, KnownParts, TargetOK
<1>11. Beginning'
  BY <1>2, Names DEF Known, KnownParts, Beginning
<1>12. OneAnswer'
  BY <1>1, <1>2 DEF Known, KnownParts, OneAnswer, AnswersT
<1>13. SuccessTrue'
  BY <1>1, <1>2 DEF Known, KnownParts, SuccessTrue
<1>14. ModeKnown'
  BY <1>1, <1>2, <1>7 DEF ModeKnown
<1>15. OneStream'
  <2>1. \A s \in Streams : ~Picked(s)'
    BY <1>1, <1>2, <1>4 DEF Picked
  <2> QED
    BY <1>2, <1>4, <2>1 DEF OneStream
<1>16. TargetUp'
  BY <1>1, <1>2, <1>6 DEF Known, KnownParts, TargetUp, AnswersT
<1>17. Failures'
  BY <1>2, <1>6 DEF Failures
<1> QED
  BY <1>8, <1>9, <1>10, <1>11, <1>12, <1>13, <1>14, <1>15, <1>16, <1>17 DEF KnownParts

LEMMA IProxiesKeeps ==
    ASSUME Known, IProxies
    PROVE  KnownParts'
<1>1. /\ I'.state = I.state
      /\ I'.targetMode = (IF I.targetMode = "Unknown" THEN "NotFast" ELSE I.targetMode)
      /\ I'.fast = I.fast /\ I'.hosts = I.hosts /\ I'.conn = {} /\ I'.client = NoStream
      /\ I'.clientOut = I.clientOut /\ I'.task = FALSE /\ I'.proxyConn = TRUE
      /\ I'.proxyTask = I.proxyTask /\ I'.activated = I.activated
      /\ I'.lateProxy = I.lateProxy /\ I'.connSuccess = I.connSuccess
      /\ I'.localFailed = (I.localFailed \/ I.conn # {} \/ I.lateProxy)
      /\ I'.remoteFailed = I.remoteFailed /\ I'.allowIncoming = FALSE
  BY DEF IProxies
<1>2. /\ I.state = "Initiator" /\ I.task /\ CI' = CI /\ ~I.connSuccess
      /\ Success(Initiator, InitiatorProxy) \in ToI /\ T' = T /\ CT' = CT /\ Early
      /\ AskI' = AskI /\ AskT' = AskT /\ granted' = granted
      /\ (excuse' = {} => excuse = {}) /\ ToT' = ToT \cup Sorry(Target, I) /\ ToI' = {}
      /\ AskI = {} /\ crInFlight' = crInFlight /\ crUnread' = crUnread
  BY DEF IProxies, InitiatorSays, SameTarget, SameRequests, SameCR, Asking
<1>3. /\ ~I.remoteFailed /\ ~I.proxyConn /\ ~I.proxyTask /\ ~I.activated
      /\ (I.lateProxy => ~I.localFailed)
  BY <1>2 DEF Known, KnownParts, InitiatorOK, ItemOK
<1>4. /\ (\A s \in Streams : ~Picked(s)) /\ crInFlight = {} /\ crUnread = {} /\ ~I.connSuccess
      /\ (T.state = "Active" => ~T.fast /\ I.targetMode # "Fast") /\ (\A m \in ToT : m.kind = "error")
      /\ (T.state = "Target" /\ T.fast /\ ~T.task => T.remoteFailed)
      /\ (T.state = "Target" => ~T.proxyConn /\ ~T.proxyTask /\ T.client # TargetProxy)
  BY <1>2, <1>3, Undecided
<1>5. ~AnswersI /\ CT.st # "Idle" /\ CT.st # "WaitingForAccept"
  BY <1>2, Answered
<1>6. /\ (T.state = "Target" => T.clientOut = InitiatorProxy /\ T.fast)
      /\ (T.state = "Active" /\ ~T.fast => CT.sc = InitiatorProxy) /\ (CT.st = "Failed" => excuse # {})
  BY <1>2, TargetConnected DEF InitiatorHosts
<1>7. /\ ~AnswersT' /\ (AnswersT \/ ToT' = ToT) /\ (AnswersT => ToT = {})
      /\ (\A m \in ToT' : m.kind = "error")
  BY <1>1, <1>2, <1>3, <1>4, <1>5, <1>6, Messages, ZenonT(30)
     DEF Known, KnownParts, AnswersT, Sorry, OneAnswer
<1>8. I.targetMode = "Unknown" => ~T.fast /\ T.state # "Target" /\ I.conn = {} /\ ~I.lateProxy
  BY <1>2, <1>6 DEF Known, KnownParts, ModeKnown, InitiatorOK, Linked, Nothing
<1>9. Linked'
  BY <1>1, <1>2 DEF Known, KnownParts, Linked
<1>10. InitiatorOK'
  BY <1>1, <1>2, Names DEF Known, KnownParts, InitiatorOK, ItemOK, TargetHosts
<1>11. TargetOK'
  BY <1>2 DEF Known, KnownParts, TargetOK
<1>12. Beginning'
  BY <1>2, <1>5 DEF Known, KnownParts, Beginning
<1>13. OneAnswer'
  BY <1>2, <1>7 DEF Known, KnownParts, OneAnswer, AnswersI
<1>14. SuccessTrue'
  BY <1>1, <1>2, <1>6, <1>7 DEF Known, KnownParts, SuccessTrue
<1>15. ModeKnown'
  BY <1>1, <1>2, <1>8 DEF Known, KnownParts, ModeKnown
<1>16. OneStream'
  <2>1. \A s \in Streams : ~Picked(s)'
    BY <1>1, <1>2, <1>3, <1>4 DEF Picked
  <2> QED
    BY <1>2, <1>4, <2>1 DEF OneStream
<1>17. TargetUp'
  BY <1>1, <1>2, <1>6, <1>7 DEF Known, KnownParts, TargetUp
<1>18. Failures'
  BY <1>2, <1>6 DEF Known, KnownParts, Failures, Linked
<1> QED
  BY <1>9, <1>10, <1>11, <1>12, <1>13, <1>14, <1>15, <1>16, <1>17, <1>18 DEF KnownParts

LEMMA ITriesKeeps ==
    ASSUME Known, NEW D, NEW L, NEW read, ITries(D, L, read)
    PROVE  KnownParts'
<1>1. /\ I'.state = I.state /\ I'.targetMode = I.targetMode /\ I'.fast = I.fast
      /\ I'.hosts = I.hosts /\ I'.conn = D /\ I'.client = I.client
      /\ I'.clientOut = I.clientOut /\ I'.task = (I.task /\ ~read)
      /\ I'.proxyConn = I.proxyConn /\ I'.proxyTask = I.proxyTask
      /\ I'.activated = I.activated /\ I'.lateProxy = L
      /\ I'.connSuccess = I.connSuccess /\ I'.localFailed = I.localFailed
      /\ I'.remoteFailed = (I.remoteFailed \/ read)
      /\ I'.allowIncoming = I.allowIncoming
  BY DEF ITries
<1>2. /\ I.state = "Initiator" /\ CI' = CI /\ I.targetMode = "Fast" /\ ~I.activated
      /\ D \subseteq I.hosts /\ (L => I.lateProxy)
      /\ (D # {} \/ (L /\ ~I.localFailed) => CanDial(I))
      /\ (L /\ D = {} => I.localFailed \/ (~I.remoteFailed /\ ~read))
      /\ (read => I.task /\ \E m \in ToI : m.kind = "error") /\ T' = T /\ CT' = CT
      /\ Early /\ AskI' = AskI /\ AskT' = AskT /\ granted' = granted
      /\ (excuse' = {} => excuse = {}) /\ ToT' = ToT
      /\ ToI' = (IF read THEN {} ELSE ToI) /\ crInFlight' = crInFlight
      /\ crUnread' = crUnread
  BY DEF ITries, InitiatorSays, SameTarget, SameRequests, SameCR
<1>3. /\ (\A s \in Streams : ~Picked(s)) /\ crInFlight = {} /\ crUnread = {} /\ ~I.connSuccess
      /\ (T.state = "Active" => ~T.fast /\ I.targetMode # "Fast") /\ (\A m \in ToT : m.kind = "error")
      /\ (T.state = "Target" /\ T.fast /\ ~T.task => T.remoteFailed)
      /\ (T.state = "Target" => ~T.proxyConn /\ ~T.proxyTask /\ T.client # TargetProxy)
  BY <1>2, Undecided
<1>4. CT.st # "Idle" /\ CT.st # "WaitingForAccept"
  BY <1>2, Started
<1>5. (AnswersT' => AnswersT) /\ (read => ~AnswersI)
  BY <1>1, <1>2 DEF Known, KnownParts, AnswersT, CanDial, OneAnswer
<1>6. read /\ T.state = "Target" => ~T.connSuccess
  BY <1>2 DEF Known, KnownParts, SuccessTrue
<1>7. Linked'
  BY <1>1, <1>2 DEF Known, KnownParts, Linked
<1>8. InitiatorOK'
  BY <1>1, <1>2 DEF Known, KnownParts, InitiatorOK, ItemOK, CanDial
<1>9. TargetOK'
  BY <1>2 DEF Known, KnownParts, TargetOK
<1>10. Beginning'
  BY <1>2 DEF Known, KnownParts, Beginning
<1>11. OneAnswer'
  BY <1>1, <1>2, <1>5 DEF Known, KnownParts, OneAnswer, AnswersI
<1>12. SuccessTrue'
  BY <1>1, <1>2 DEF Known, KnownParts, SuccessTrue
<1>13. ModeKnown'
  BY <1>1, <1>2 DEF Known, KnownParts, ModeKnown
<1>14. OneStream'
  <2>1. \A s \in Streams : ~Picked(s)'
    BY <1>1, <1>2, <1>3 DEF Picked
  <2> QED
    BY <1>2, <1>3, <2>1 DEF OneStream
<1>15. TargetUp'
  BY <1>2, <1>3 DEF TargetUp
<1>16. Failures'
  BY <1>1, <1>2, <1>5 DEF Known, KnownParts, Failures, Linked
<1> QED
  BY <1>7, <1>8, <1>9, <1>10, <1>11, <1>12, <1>13, <1>14, <1>15, <1>16 DEF KnownParts

LEMMA IGivesUpKeeps ==
    ASSUME Known, IGivesUp
    PROVE  KnownParts'
<1>1. /\ I'.state = I.state /\ I'.targetMode = I.targetMode /\ I'.fast = I.fast
      /\ I'.hosts = I.hosts /\ I'.conn = {} /\ I'.client = I.client
      /\ I'.clientOut = I.clientOut /\ I'.task = I.task /\ I'.proxyConn = I.proxyConn
      /\ I'.proxyTask = I.proxyTask /\ I'.activated = I.activated
      /\ I'.lateProxy = I.lateProxy /\ I'.connSuccess = I.connSuccess
      /\ I'.localFailed = TRUE /\ I'.remoteFailed = I.remoteFailed
      /\ I'.allowIncoming = I.allowIncoming
  BY DEF IGivesUp
<1>2. /\ I.state = "Initiator" /\ CI' = CI /\ I.conn # {} /\ ~I.lateProxy /\ T' = T
      /\ CT' = CT /\ Early /\ AskI' = AskI /\ AskT' = AskT /\ granted' = granted
      /\ (excuse' = {} => excuse = {}) /\ ToT' = ToT \cup {Error(Target)} /\ ToI' = ToI
      /\ crInFlight' = crInFlight /\ crUnread' = crUnread
  BY DEF IGivesUp, InitiatorSays, SameTarget, SameRequests, SameCR
<1>3. ToT = {} /\ (\A m \in ToT' : m.kind = "error")
  BY <1>2, Messages DEF Known, KnownParts, OneAnswer, AnswersT
<1>4. I.targetMode = "Fast" /\ ~I.activated /\ AskI = {} /\ ~AnswersT'
  BY <1>1, <1>2 DEF Known, KnownParts, InitiatorOK, ItemOK, ModeKnown, AnswersT
<1>5. /\ (\A s \in Streams : ~Picked(s)) /\ crInFlight = {} /\ crUnread = {} /\ ~I.connSuccess
      /\ (T.state = "Active" => ~T.fast /\ I.targetMode # "Fast") /\ (\A m \in ToT : m.kind = "error")
      /\ (T.state = "Target" /\ T.fast /\ ~T.task => T.remoteFailed)
      /\ (T.state = "Target" => ~T.proxyConn /\ ~T.proxyTask /\ T.client # TargetProxy)
  BY <1>2, <1>4, Undecided
<1>6. CT.st # "Idle" /\ CT.st # "WaitingForAccept"
  BY <1>4, Started
<1>7. Linked'
  BY <1>1, <1>2 DEF Known, KnownParts, Linked
<1>8. InitiatorOK'
  BY <1>1, <1>2 DEF Known, KnownParts, InitiatorOK, ItemOK
<1>9. TargetOK'
  BY <1>2 DEF Known, KnownParts, TargetOK
<1>10. Beginning'
  BY <1>2, <1>6 DEF Known, KnownParts, Beginning
<1>11. OneAnswer'
  BY <1>1, <1>2, <1>4 DEF Known, KnownParts, OneAnswer, AnswersT, AnswersI
<1>12. SuccessTrue'
  BY <1>1, <1>2, <1>3 DEF Known, KnownParts, SuccessTrue
<1>13. ModeKnown'
  BY <1>1, <1>2 DEF Known, KnownParts, ModeKnown
<1>14. OneStream'
  <2>1. \A s \in Streams : ~Picked(s)'
    BY <1>1, <1>2, <1>5 DEF Picked
  <2> QED
    BY <1>2, <1>5, <2>1 DEF OneStream
<1>15. TargetUp'
  BY <1>2, <1>4, <1>5 DEF TargetUp
<1>16. Failures'
  BY <1>2 DEF Known, KnownParts, Failures, AnswersT, Linked
<1> QED
  BY <1>7, <1>8, <1>9, <1>10, <1>11, <1>12, <1>13, <1>14, <1>15, <1>16 DEF KnownParts

LEMMA IConnectsKeeps ==
    ASSUME Known, NEW h, IConnects(h)
    PROVE  KnownParts'
<1>1. /\ I'.state = I.state /\ I'.targetMode = I.targetMode /\ I'.fast = I.fast
      /\ I'.hosts = I.hosts /\ I'.conn = {} /\ I'.client = h
      /\ I'.clientOut = I.clientOut /\ I'.task = FALSE /\ I'.proxyConn = I.proxyConn
      /\ I'.proxyTask = I.proxyTask /\ I'.activated = TRUE /\ I'.lateProxy = FALSE
      /\ I'.connSuccess = TRUE /\ I'.localFailed = I.localFailed
      /\ I'.remoteFailed = I.remoteFailed /\ I'.allowIncoming = FALSE
  BY DEF IConnects
<1>2. /\ I.state = "Initiator" /\ CI' = CI /\ h \in I.conn /\ h \in granted \cup Proxies
      /\ T' = T /\ CT' = CT /\ Early /\ AskI' = AskI /\ AskT' = AskT
      /\ granted' = granted /\ (excuse' = {} => excuse = {})
      /\ ToT' = ToT \cup {Success(Target, h)} /\ ToI' = ToI
      /\ crInFlight' = crInFlight \cup {h} /\ crUnread' = crUnread
  BY DEF IConnects, InitiatorSays, SameTarget, SameRequests, NewCR
<1>3. AnswersT /\ ToT = {} /\ ToT' = {Success(Target, h)}
  BY <1>2 DEF Known, KnownParts, OneAnswer, AnswersT
<1>4. /\ I.targetMode = "Fast" /\ ~I.activated /\ h \in TargetHosts /\ ~I.localFailed
      /\ ~I.proxyConn /\ ~I.proxyTask
  BY <1>2 DEF Known, KnownParts, InitiatorOK, ItemOK
<1>5. /\ (\A s \in Streams : ~Picked(s)) /\ crInFlight = {} /\ crUnread = {} /\ ~I.connSuccess
      /\ (T.state = "Active" => ~T.fast /\ I.targetMode # "Fast") /\ (\A m \in ToT : m.kind = "error")
      /\ (T.state = "Target" /\ T.fast /\ ~T.task => T.remoteFailed)
      /\ (T.state = "Target" => ~T.proxyConn /\ ~T.proxyTask /\ T.client # TargetProxy)
  BY <1>2, <1>4, Undecided
<1>6. CT.st # "Idle" /\ CT.st # "WaitingForAccept"
  BY <1>4, Started
<1>7. AskI = {} /\ ~AnswersT' /\ (Success(Target, h) = Success(Target, Target) => h = Target)
  BY <1>1, <1>2, <1>4, SuccessDiffers DEF Known, KnownParts, ModeKnown, AnswersT
<1>8. T.state # "Active" /\ (T.state = "Target" => T.fast /\ T.task /\ ~T.remoteFailed)
  BY <1>3, <1>4, <1>5 DEF Known, KnownParts, ModeKnown, OneAnswer, TargetOK, ItemOK
<1>9. (CT.st = "Failed" => excuse # {}) /\ (T.state = "Target" /\ h = Target => T.client = Target)
  BY <1>2, <1>3, <1>8, Names DEF Known, KnownParts, Failures, SuccessTrue, Proxies
<1>10. Linked'
  BY <1>1, <1>2 DEF Known, KnownParts, Linked
<1>11. InitiatorOK'
  BY <1>1, <1>4, Names DEF Known, KnownParts, InitiatorOK, ItemOK, TargetHosts
<1>12. TargetOK'
  BY <1>2 DEF Known, KnownParts, TargetOK
<1>13. Beginning'
  BY <1>2, <1>6 DEF Known, KnownParts, Beginning
<1>14. OneAnswer'
  BY <1>1, <1>2, <1>7 DEF Known, KnownParts, OneAnswer, AnswersT, AnswersI
<1>15. SuccessTrue'
  BY <1>1, <1>2, <1>4, <1>7, <1>9, Names DEF Known, KnownParts, SuccessTrue, TargetHosts
<1>16. ModeKnown'
  BY <1>1, <1>2 DEF Known, KnownParts, ModeKnown
<1>17. OneStream'
  <2>1. \A s \in Streams : Picked(s)' => s = h
    BY <1>1, <1>2, <1>5 DEF Picked
  <2>2. PickedOK(h)'
    BY <1>1, <1>2, <1>3, <1>4, <1>5, <1>6, <1>7, <1>8, <1>9, Names
       DEF Known, KnownParts, Linked, PickedOK, InitiatorHosts, TargetHosts, StreamHosts,
           Peers, Proxies
  <2>3. crInFlight' \cap crUnread' = {}
    BY <1>2, <1>5
  <2> QED
    BY <2>1, <2>2, <2>3 DEF OneStream
<1>18. TargetUp'
  BY <1>2, <1>8 DEF TargetUp
<1>19. Failures'
  BY <1>2 DEF Known, KnownParts, Failures, AnswersT, Linked
<1> QED
  BY <1>10, <1>11, <1>12, <1>13, <1>14, <1>15, <1>16, <1>17, <1>18, <1>19 DEF KnownParts

LEMMA IGrantsKeeps ==
    ASSUME Known, IGrants
    PROVE  KnownParts'
<1>1. /\ I'.state = I.state /\ I'.targetMode = I.targetMode /\ I'.fast = I.fast
      /\ I'.hosts = I.hosts /\ I'.conn = I.conn /\ I'.client = Initiator
      /\ I'.clientOut = I.clientOut /\ I'.task = I.task /\ I'.proxyConn = I.proxyConn
      /\ I'.proxyTask = I.proxyTask /\ I'.activated = I.activated
      /\ I'.lateProxy = I.lateProxy /\ I'.connSuccess = I.connSuccess
      /\ I'.localFailed = I.localFailed /\ I'.remoteFailed = I.remoteFailed
      /\ I'.allowIncoming = FALSE
  BY DEF IGrants
<1>2. /\ I.allowIncoming /\ CI' = CI /\ CT.st # "Idle" /\ CT.st # "WaitingForAccept"
      /\ T' = T /\ CT' = CT /\ crInFlight' = crInFlight /\ crUnread' = crUnread
      /\ AskI' = AskI /\ AskT' = AskT /\ ToT' = ToT /\ ToI' = ToI
      /\ granted' = granted \cup {Initiator} /\ excuse' = excuse
  BY DEF IGrants, SameTarget, SameRequests, SameCR
<1>3. /\ I.state # "Idle" /\ ~I.proxyConn /\ ~I.proxyTask
      /\ (I.state = "Initiator" => I.client = NoStream /\ ~I.activated)
  BY <1>2, Names DEF Known, KnownParts, Linked, Nothing, InitiatorOK, ItemOK
<1>4. Linked'
  BY <1>1, <1>2 DEF Known, KnownParts, Linked, Nothing
<1>5. InitiatorOK'
  BY <1>1, <1>3, Names DEF Known, KnownParts, InitiatorOK, ItemOK, TargetHosts
<1>6. TargetOK'
  BY <1>2 DEF Known, KnownParts, TargetOK
<1>7. Beginning'
  BY <1>2 DEF Known, KnownParts, Beginning
<1>8. OneAnswer'
  BY <1>1, <1>2 DEF Known, KnownParts, OneAnswer, AnswersT, AnswersI
<1>9. SuccessTrue'
  BY <1>1, <1>2, Names DEF Known, KnownParts, SuccessTrue
<1>10. ModeKnown'
  BY <1>1, <1>2 DEF Known, KnownParts, ModeKnown
<1>11. OneStream'
  <2>1. ASSUME NEW s \in Streams, Picked(s)'
        PROVE  Picked(s)
    BY <1>1, <1>2, <1>3, <2>1 DEF Picked
  <2>2. ASSUME NEW s \in Streams, Picked(s), PickedOK(s)
        PROVE  PickedOK(s)'
    BY <1>1, <1>2, <2>2 DEF PickedOK, AnswersT
  <2> QED
    BY <1>2, <2>1, <2>2 DEF Known, KnownParts, OneStream
<1>12. TargetUp'
  BY <1>1, <1>2 DEF Known, KnownParts, TargetUp, AnswersT
<1>13. Failures'
  BY <1>1, <1>2 DEF Known, KnownParts, Failures, AnswersT, AnswersI
<1> QED
  BY <1>4, <1>5, <1>6, <1>7, <1>8, <1>9, <1>10, <1>11, <1>12, <1>13 DEF KnownParts

LEMMA IProxyUpKeeps ==
    ASSUME Known, IProxyUp
    PROVE  KnownParts'
<1>1. /\ I'.state = I.state /\ I'.targetMode = I.targetMode /\ I'.fast = I.fast
      /\ I'.hosts = I.hosts /\ I'.conn = I.conn /\ I'.client = InitiatorProxy
      /\ I'.clientOut = I.clientOut /\ I'.task = I.task /\ I'.proxyConn = FALSE
      /\ I'.proxyTask = TRUE /\ I'.activated = I.activated /\ I'.lateProxy = I.lateProxy
      /\ I'.connSuccess = I.connSuccess /\ I'.localFailed = I.localFailed
      /\ I'.remoteFailed = I.remoteFailed /\ I'.allowIncoming = I.allowIncoming
  BY DEF IProxyUp
<1>2. /\ I.proxyConn /\ CI' = CI /\ T' = T /\ CT' = CT /\ Early /\ AskI' = AskI
      /\ AskT' = AskT /\ granted' = granted /\ (excuse' = {} => excuse = {})
      /\ ToT' = ToT /\ ToI' = ToI /\ crInFlight' = crInFlight /\ crUnread' = crUnread
  BY DEF IProxyUp, InitiatorSays, SameTarget, SameRequests, SameCR
<1>3. /\ I.state = "Initiator" /\ ~I.activated /\ I.client = NoStream /\ ~I.task /\ I.conn = {}
      /\ I.targetMode # "Unknown" /\ ~I.proxyTask
  BY <1>2 DEF Known, KnownParts, Linked, Nothing, InitiatorOK, ItemOK
<1>4. /\ (\A s \in Streams : ~Picked(s)) /\ crInFlight = {} /\ crUnread = {} /\ ~I.connSuccess
      /\ (T.state = "Active" => ~T.fast /\ I.targetMode # "Fast") /\ (\A m \in ToT : m.kind = "error")
      /\ (T.state = "Target" /\ T.fast /\ ~T.task => T.remoteFailed)
      /\ (T.state = "Target" => ~T.proxyConn /\ ~T.proxyTask /\ T.client # TargetProxy)
  BY <1>3, Undecided
<1>5. CT.st # "Idle" /\ CT.st # "WaitingForAccept"
  BY <1>3, Started
<1>6. Linked'
  BY <1>1, <1>2 DEF Known, KnownParts, Linked, Nothing
<1>7. InitiatorOK'
  BY <1>1, <1>2, Names DEF Known, KnownParts, InitiatorOK, ItemOK, TargetHosts
<1>8. TargetOK'
  BY <1>2 DEF Known, KnownParts, TargetOK
<1>9. Beginning'
  BY <1>2, <1>5 DEF Known, KnownParts, Beginning
<1>10. OneAnswer'
  BY <1>1, <1>2 DEF Known, KnownParts, OneAnswer, AnswersT, AnswersI
<1>11. SuccessTrue'
  BY <1>1, <1>2, Names DEF Known, KnownParts, SuccessTrue
<1>12. ModeKnown'
  BY <1>1, <1>2 DEF Known, KnownParts, ModeKnown
<1>13. OneStream'
  <2>1. \A s \in Streams : ~Picked(s)'
    BY <1>1, <1>2, <1>3, <1>4 DEF Picked
  <2> QED
    BY <1>2, <1>4, <2>1 DEF OneStream
<1>14. TargetUp'
  BY <1>1, <1>2 DEF Known, KnownParts, TargetUp, AnswersT
<1>15. Failures'
  BY <1>2, <1>3 DEF Known, KnownParts, Failures, Linked
<1> QED
  BY <1>6, <1>7, <1>8, <1>9, <1>10, <1>11, <1>12, <1>13, <1>14, <1>15 DEF KnownParts

LEMMA IProxyUpSlowKeeps ==
    ASSUME Known, IProxyUpSlow
    PROVE  KnownParts'
<1>1. /\ I'.state = "Active" /\ I'.targetMode = I.targetMode /\ I'.fast = I.fast
      /\ I'.hosts = I.hosts /\ I'.conn = I.conn /\ I'.client = NoStream
      /\ I'.clientOut = I.clientOut /\ I'.task = I.task /\ I'.proxyConn = I.proxyConn
      /\ I'.proxyTask = FALSE /\ I'.activated = I.activated
      /\ I'.lateProxy = I.lateProxy /\ I'.connSuccess = I.connSuccess
      /\ I'.localFailed = I.localFailed /\ I'.remoteFailed = I.remoteFailed
      /\ I'.allowIncoming = I.allowIncoming
  BY DEF IProxyUpSlow
<1>2. /\ I.proxyTask /\ I.targetMode = "NotFast"
      /\ (T.clientOut = InitiatorProxy \/ CT.sc = InitiatorProxy) /\ CI'.st = "Active"
      /\ CI'.sc = InitiatorProxy /\ T' = T /\ CT' = CT /\ Early /\ AskI' = AskI
      /\ AskT' = AskT /\ granted' = granted /\ (excuse' = {} => excuse = {})
      /\ ToT' = ToT /\ ToI' = ToI /\ crInFlight' = crInFlight /\ crUnread' = crUnread
  BY DEF IProxyUpSlow, InitiatorSays, SameTarget, SameRequests, SameCR, Connection
<1>3. /\ I.state = "Initiator" /\ ~I.activated /\ ~I.task /\ I.conn = {} /\ T.state # "Target" /\ ~I.lateProxy
      /\ (T.state = "Active" => CT.sc = InitiatorProxy)
  BY <1>2 DEF Known, KnownParts, Linked, Nothing, InitiatorOK, ItemOK, ModeKnown, TargetUp
<1>4. /\ (\A s \in Streams : ~Picked(s)) /\ crInFlight = {} /\ crUnread = {} /\ ~I.connSuccess
      /\ (T.state = "Active" => ~T.fast /\ I.targetMode # "Fast") /\ (\A m \in ToT : m.kind = "error")
      /\ (T.state = "Target" /\ T.fast /\ ~T.task => T.remoteFailed)
      /\ (T.state = "Target" => ~T.proxyConn /\ ~T.proxyTask /\ T.client # TargetProxy)
  BY <1>3, Undecided
<1>5. CT.st # "Idle" /\ CT.st # "WaitingForAccept"
  BY <1>2, Started
<1>6. Linked'
  BY <1>1, <1>2, Names DEF Known, KnownParts, Linked
<1>7. InitiatorOK'
  BY <1>1, <1>2 DEF Known, KnownParts, InitiatorOK, ItemOK
<1>8. TargetOK'
  BY <1>2 DEF Known, KnownParts, TargetOK
<1>9. Beginning'
  BY <1>2 DEF Known, KnownParts, Beginning
<1>10. OneAnswer'
  BY <1>1, <1>2 DEF Known, KnownParts, OneAnswer, AnswersT, AnswersI
<1>11. SuccessTrue'
  BY <1>1, <1>2 DEF Known, KnownParts, SuccessTrue
<1>12. ModeKnown'
  BY <1>1, <1>2 DEF Known, KnownParts, ModeKnown
<1>13. OneStream'
  <2>1. \A s \in Streams : ~Picked(s)'
    BY <1>1, <1>2, <1>4 DEF Picked
  <2> QED
    BY <1>2, <1>4, <2>1 DEF OneStream
<1>14. TargetUp'
  BY <1>1, <1>2, <1>3 DEF Known, KnownParts, TargetUp
<1>15. Failures'
  BY <1>2, <1>3 DEF Known, KnownParts, Failures
<1> QED
  BY <1>6, <1>7, <1>8, <1>9, <1>10, <1>11, <1>12, <1>13, <1>14, <1>15 DEF KnownParts

LEMMA IPicksProxyKeeps ==
    ASSUME Known, IPicksProxy
    PROVE  KnownParts'
<1>1. /\ I'.state = I.state /\ I'.targetMode = I.targetMode /\ I'.fast = I.fast
      /\ I'.hosts = I.hosts /\ I'.conn = I.conn /\ I'.client = I.client
      /\ I'.clientOut = I.clientOut /\ I'.task = FALSE /\ I'.proxyConn = I.proxyConn
      /\ I'.proxyTask = FALSE /\ I'.activated = TRUE /\ I'.lateProxy = I.lateProxy
      /\ I'.connSuccess = I.connSuccess /\ I'.localFailed = I.localFailed
      /\ I'.remoteFailed = I.remoteFailed /\ I'.allowIncoming = I.allowIncoming
  BY DEF IPicksProxy
<1>2. /\ I.proxyTask /\ I.targetMode = "Fast" /\ CI' = CI
      /\ (T.clientOut = InitiatorProxy \/ CT.sc = InitiatorProxy) /\ T' = T /\ CT' = CT
      /\ Early /\ AskI' = AskI /\ AskT' = AskT /\ granted' = granted
      /\ (excuse' = {} => excuse = {}) /\ ToT' = ToT /\ ToI' = ToI
      /\ crInFlight' = crInFlight \cup {InitiatorProxy} /\ crUnread' = crUnread
  BY DEF IPicksProxy, InitiatorSays, SameTarget, SameRequests, NewCR
<1>3. /\ I.state = "Initiator" /\ I.client = InitiatorProxy /\ ~I.activated /\ ~I.connSuccess
      /\ (I.lateProxy => I.localFailed) /\ I.conn = {} /\ ~I.task
  BY <1>2 DEF Known, KnownParts, Linked, Nothing, InitiatorOK, ItemOK
<1>4. /\ (\A s \in Streams : ~Picked(s)) /\ crInFlight = {} /\ crUnread = {} /\ ~I.connSuccess
      /\ (T.state = "Active" => ~T.fast /\ I.targetMode # "Fast") /\ (\A m \in ToT : m.kind = "error")
      /\ (T.state = "Target" /\ T.fast /\ ~T.task => T.remoteFailed)
      /\ (T.state = "Target" => ~T.proxyConn /\ ~T.proxyTask /\ T.client # TargetProxy)
  BY <1>3, Undecided
<1>5. CT.st # "Idle" /\ CT.st # "WaitingForAccept"
  BY <1>2, Started
<1>6. AskI = {} /\ ~AnswersT /\ T.state # "Active" /\ (CT.st = "Failed" => excuse # {})
  BY <1>2, <1>3, <1>4 DEF Known, KnownParts, ModeKnown, AnswersT, Failures
<1>7. T.state = "Target" => T.clientOut = InitiatorProxy /\ T.fast
  BY <1>2, <1>3 DEF Known, KnownParts, SuccessTrue, ModeKnown
<1>8. Linked'
  BY <1>1, <1>2 DEF Known, KnownParts, Linked, Nothing
<1>9. InitiatorOK'
  BY <1>1, <1>2, Names DEF Known, KnownParts, InitiatorOK, ItemOK
<1>10. TargetOK'
  BY <1>2 DEF Known, KnownParts, TargetOK
<1>11. Beginning'
  BY <1>2 DEF Known, KnownParts, Beginning
<1>12. OneAnswer'
  BY <1>1, <1>2 DEF Known, KnownParts, OneAnswer, AnswersT, AnswersI
<1>13. SuccessTrue'
  BY <1>1, <1>2 DEF Known, KnownParts, SuccessTrue
<1>14. ModeKnown'
  BY <1>1, <1>2 DEF Known, KnownParts, ModeKnown
<1>15. OneStream'
  <2>1. \A s \in Streams : Picked(s)' => s = InitiatorProxy
    BY <1>1, <1>2, <1>3, <1>4 DEF Picked
  <2>2. PickedOK(InitiatorProxy)'
    BY <1>1, <1>2, <1>4, <1>5, <1>6, <1>7, Names
       DEF Known, KnownParts, Linked, PickedOK, AnswersT, TargetHosts, StreamHosts,
           Proxies
  <2>3. crInFlight' \cap crUnread' = {}
    BY <1>2, <1>4
  <2> QED
    BY <2>1, <2>2, <2>3 DEF OneStream
<1>16. TargetUp'
  BY <1>2, <1>6 DEF TargetUp
<1>17. Failures'
  BY <1>2, <1>3 DEF Known, KnownParts, Failures, Linked
<1> QED
  BY <1>8, <1>9, <1>10, <1>11, <1>12, <1>13, <1>14, <1>15, <1>16, <1>17 DEF KnownParts

LEMMA IUpKeeps ==
    ASSUME Known, IUp
    PROVE  KnownParts'
<1>1. /\ I'.state = "Active" /\ I'.targetMode = I.targetMode /\ I'.fast = I.fast
      /\ I'.hosts = I.hosts /\ I'.conn = I.conn /\ I'.client = NoStream
      /\ I'.clientOut = I.clientOut /\ I'.task = I.task /\ I'.proxyConn = I.proxyConn
      /\ I'.proxyTask = I.proxyTask /\ I'.activated = I.activated
      /\ I'.lateProxy = I.lateProxy /\ I'.connSuccess = I.connSuccess
      /\ I'.localFailed = I.localFailed /\ I'.remoteFailed = I.remoteFailed
      /\ I'.allowIncoming = I.allowIncoming
  BY Vocabulary DEF Known, IUp, Items
<1>2. /\ I.state = "Initiator" /\ I.activated /\ CI'.st = "Active" /\ CI'.sc = I.client
      /\ T' = T /\ CT' = CT /\ Early /\ AskI' = AskI /\ AskT' = AskT
      /\ granted' = granted /\ (excuse' = {} => excuse = {}) /\ ToT' = ToT /\ ToI' = ToI
      /\ crInFlight' = crInFlight /\ crUnread' = crUnread
  BY DEF IUp, InitiatorSays, SameTarget, SameRequests, SameCR, Connection
<1>3. I.targetMode = "Fast" /\ I.client # NoStream /\ ~I.task
  BY <1>2 DEF Known, KnownParts, InitiatorOK
<1>4. CT.st # "Idle" /\ CT.st # "WaitingForAccept"
  BY <1>3, Started
<1>5. Linked'
  BY <1>1, <1>2, <1>3 DEF Known, KnownParts, Linked
<1>6. InitiatorOK'
  BY <1>1, <1>2 DEF Known, KnownParts, InitiatorOK, ItemOK
<1>7. TargetOK'
  BY <1>2 DEF Known, KnownParts, TargetOK
<1>8. Beginning'
  BY <1>2, <1>4 DEF Known, KnownParts, Beginning
<1>9. OneAnswer'
  BY <1>1, <1>2 DEF Known, KnownParts, OneAnswer, AnswersT, AnswersI
<1>10. SuccessTrue'
  BY <1>1, <1>2 DEF Known, KnownParts, SuccessTrue
<1>11. ModeKnown'
  BY <1>1, <1>2, <1>3 DEF Known, KnownParts, ModeKnown
<1>12. OneStream'
  <2>1. ASSUME NEW s \in Streams, Picked(s)'
        PROVE  Picked(s)
    BY <1>1, <1>2, <2>1 DEF Picked
  <2>2. ASSUME NEW s \in Streams, Picked(s), PickedOK(s)
        PROVE  PickedOK(s)'
    BY <1>1, <1>2, <1>3, <2>2 DEF PickedOK, AnswersT
  <2> QED
    BY <1>2, <2>1, <2>2 DEF Known, KnownParts, OneStream
<1>13. TargetUp'
  BY <1>1, <1>2, <1>3 DEF Known, KnownParts, TargetUp, AnswersT, ModeKnown
<1>14. Failures'
  BY <1>2 DEF Known, KnownParts, Failures
<1> QED
  BY <1>5, <1>6, <1>7, <1>8, <1>9, <1>10, <1>11, <1>12, <1>13, <1>14 DEF KnownParts

LEMMA IGoneKeeps ==
    ASSUME Known, IGone
    PROVE  KnownParts'
<1>1. /\ I'.state = "Idle" /\ I'.targetMode = "Unknown" /\ I'.fast = FALSE
      /\ I'.hosts = {} /\ I'.conn = {} /\ I'.client = NoStream
      /\ I'.clientOut = NoStream /\ I'.task = FALSE /\ I'.proxyConn = FALSE
      /\ I'.proxyTask = FALSE /\ I'.activated = FALSE /\ I'.lateProxy = FALSE
      /\ I'.connSuccess = FALSE /\ I'.localFailed = FALSE /\ I'.remoteFailed = FALSE
      /\ I'.allowIncoming = FALSE
  BY DEF IGone, NoItem
<1>2. /\ I.state # "Idle" /\ CI'.st \in {"Failed", "Closed"} /\ CI'.sc = NoStream
      /\ T' = T /\ CT' = CT /\ Early /\ AskI' = AskI /\ AskT' = AskT
      /\ granted' = granted /\ (excuse' = {} => excuse = {}) /\ crInFlight' = crInFlight
      /\ crUnread' = crUnread /\ ToI' \in {ToI, {}}
      /\ (ToT' = ToT \/ (CanDial(I) /\ ToT' = {Error(Target)}))
      /\ (CI'.st = "Closed" => excuse' # {})
      /\ (CI'.st = "Failed" => CT.st # "Idle" /\ CT.st # "WaitingForAccept")
      /\ (excuse' = {} =>
            /\ I.state = "Initiator" /\ ~I.connSuccess /\ ~I.activated
            /\ ~I.proxyConn /\ ~I.proxyTask
            /\ \/ I.localFailed \/ I.targetMode = "Unknown"
               \/ I.conn # {} /\ ~I.lateProxy /\ ToT' = {Error(Target)}
            /\ IF I.task THEN \E m \in ToI : m.kind = "error" ELSE I.remoteFailed)
  BY DEF IGone, SameTarget, SameRequests, SameCR, Connection
<1>3. /\ (AskI = {} \/ I.targetMode = "Unknown")
      /\ (CanDial(I) => ToT = {} /\ AskI = {} /\ AnswersT /\ I.targetMode = "Fast")
  BY <1>2
     DEF Known, KnownParts, CanDial, AnswersT, OneAnswer, ModeKnown, Linked, InitiatorOK,
         ItemOK
<1>4. /\ (AnswersT' => AskI # {} /\ ToT' = ToT /\ AnswersT) /\ (~AnswersT => ToT' = ToT)
      /\ (\A m \in ToT' : m.kind = "success" => m \in ToT)
  BY <1>1, <1>2, <1>3, Messages DEF AnswersT
<1>5. excuse' = {} =>
           /\ T.state # "Active" /\ ~AnswersI /\ crInFlight = {} /\ crUnread = {}
           /\ T.state = "Target" => ~T.connSuccess /\ ~T.proxyConn /\ ~T.proxyTask
           /\ \A m \in ToT : m.kind = "error"
  <2> SUFFICES ASSUME excuse' = {}
               PROVE  /\ T.state # "Active" /\ ~AnswersI /\ crInFlight = {} /\ crUnread = {}
                      /\ T.state = "Target" => ~T.connSuccess /\ ~T.proxyConn /\ ~T.proxyTask
                      /\ \A m \in ToT : m.kind = "error"
    OBVIOUS
  <2>1. I.state = "Initiator" /\ ~I.activated
    BY <1>2
  <2>2. /\ crInFlight = {} /\ crUnread = {} /\ (T.state = "Active" => ~T.fast)
        /\ \A m \in ToT : m.kind = "error"
        /\ T.state = "Target" => ~T.proxyConn /\ ~T.proxyTask
    BY <2>1, Undecided
  <2>3. ~AnswersI
    BY <1>2 DEF Known, KnownParts, OneAnswer
  <2>4. T.state = "Target" => ~T.connSuccess
    BY <1>2 DEF Known, KnownParts, SuccessTrue
  <2>5. T.state # "Active"
    BY <1>2, Messages DEF Known, KnownParts, TargetUp, ModeKnown, InitiatorOK
  <2> QED
    BY <2>2, <2>3, <2>4, <2>5
<1>6. Linked'
  BY <1>1, <1>2 DEF Known, KnownParts, Linked, Nothing
<1>7. InitiatorOK'
  BY <1>1 DEF InitiatorOK, ItemOK
<1>8. TargetOK'
  BY <1>2 DEF Known, KnownParts, TargetOK
<1>9. Beginning'
  BY <1>1, <1>2, <1>3 DEF Known, KnownParts, Beginning, Early
<1>10. OneAnswer'
  BY <1>1, <1>2, <1>4 DEF Known, KnownParts, OneAnswer, AnswersI
<1>11. SuccessTrue'
  BY <1>1, <1>2, <1>4 DEF Known, KnownParts, SuccessTrue
<1>12. ModeKnown'
  BY <1>1, <1>2 DEF Known, KnownParts, ModeKnown
<1>13. OneStream'
  <2>1. ASSUME NEW s \in Streams, Picked(s)'
        PROVE  Picked(s)
    BY <1>1, <1>2, <2>1 DEF Picked
  <2>2. ASSUME NEW s \in Streams, Picked(s), PickedOK(s)
        PROVE  PickedOK(s)'
    BY <1>1, <1>2, <1>4, <2>2 DEF PickedOK
  <2> QED
    BY <1>2, <2>1, <2>2 DEF Known, KnownParts, OneStream
<1>14. TargetUp'
  BY <1>1, <1>2, <1>4, <1>5 DEF Known, KnownParts, TargetUp
<1>15. Failures'
  BY <1>1, <1>2, <1>4, <1>5 DEF Known, KnownParts, Failures, AnswersI
<1> QED
  BY <1>6, <1>7, <1>8, <1>9, <1>10, <1>11, <1>12, <1>13, <1>14, <1>15 DEF KnownParts

LEMMA IDropsKeeps ==
    ASSUME Known, IDrops
    PROVE  KnownParts'
<1>1. I' = I
  BY DEF IDrops, SameInitiator
<1>2. /\ CI' = CI /\ T' = T /\ CT' = CT /\ crInFlight' = crInFlight
      /\ crUnread' = crUnread /\ AskI' = AskI /\ AskT' = AskT /\ granted' = granted
      /\ excuse' = excuse /\ dialing' \subseteq dialing /\ ToI' \in {ToI, {}}
      /\ ToT' \in {ToT, {}}
  BY DEF IDrops, SameTarget, SameInitiator, SameRequests, SameCR
<1>3. Linked'
  BY <1>1, <1>2 DEF Known, KnownParts, Linked
<1>4. InitiatorOK'
  BY <1>1 DEF Known, KnownParts, InitiatorOK
<1>5. TargetOK'
  BY <1>2 DEF Known, KnownParts, TargetOK
<1>6. Beginning'
  BY <1>1, <1>2 DEF Known, KnownParts, Beginning
<1>7. OneAnswer'
  BY <1>1, <1>2 DEF Known, KnownParts, OneAnswer, AnswersT, AnswersI
<1>8. SuccessTrue'
  BY <1>1, <1>2 DEF Known, KnownParts, SuccessTrue
<1>9. ModeKnown'
  BY <1>1, <1>2 DEF Known, KnownParts, ModeKnown
<1>10. OneStream'
  <2>1. ASSUME NEW s \in Streams, Picked(s)'
        PROVE  Picked(s)
    BY <1>1, <1>2, <2>1 DEF Picked
  <2>2. ASSUME NEW s \in Streams, Picked(s), PickedOK(s)
        PROVE  PickedOK(s)'
    BY <1>1, <1>2, <2>2 DEF PickedOK, AnswersT
  <2> QED
    BY <1>2, <2>1, <2>2 DEF Known, KnownParts, OneStream
<1>11. TargetUp'
  BY <1>1, <1>2 DEF Known, KnownParts, TargetUp, AnswersT
<1>12. Failures'
  BY <1>1, <1>2 DEF Known, KnownParts, Failures, AnswersT, AnswersI
<1> QED
  BY <1>3, <1>4, <1>5, <1>6, <1>7, <1>8, <1>9, <1>10, <1>11, <1>12 DEF KnownParts


LEMMA TIsAskedKeeps ==
    ASSUME Known, TIsAsked
    PROVE  KnownParts'
<1>1. /\ T'.state = T.state /\ T'.targetMode = T.targetMode /\ T'.fast = T.fast
      /\ T'.conn = T.conn /\ T'.client = T.client /\ T'.clientOut = T.clientOut
      /\ T'.task = T.task /\ T'.proxyConn = T.proxyConn /\ T'.proxyTask = T.proxyTask
      /\ T'.activated = T.activated /\ T'.lateProxy = T.lateProxy
      /\ T'.connSuccess = T.connSuccess /\ T'.localFailed = T.localFailed
      /\ T'.remoteFailed = T.remoteFailed /\ T'.allowIncoming = T.allowIncoming
  BY DEF TIsAsked
<1>2. /\ CT'.st = "WaitingForAccept" /\ I' = I /\ CI' = CI /\ crInFlight' = crInFlight
      /\ crUnread' = crUnread /\ AskT # {} /\ (T'.hosts \subseteq InitiatorHosts)
      /\ AskT' = {} /\ AskI' = AskI /\ ToT' = ToT /\ ToI' = ToI /\ dialing' = dialing
      /\ granted' = granted /\ excuse' = excuse
  BY DEF TIsAsked, SameInitiator, SameCR, Known, KnownParts, Beginning
<1>3. CT.st = "Idle"
  BY <1>2 DEF Known, KnownParts, Beginning
<1>4. net[Target] # <<>>
  BY <1>2, EmptyNet DEF AskT
<1>5. CI.st # "Idle" /\ AnswersI
  BY <1>2, <1>4 DEF Known, NetOK, AnswersI
<1>6. T.state = "Idle" /\ Nothing(T)
  BY <1>3 DEF Known, KnownParts, Linked
<1>7. Linked'
  BY <1>1, <1>2, <1>6 DEF Known, KnownParts, Linked, Nothing
<1>8. InitiatorOK'
  BY <1>2 DEF Known, KnownParts, InitiatorOK
<1>9. TargetOK'
  BY <1>1, <1>2, <1>6 DEF TargetOK, ItemOK, Nothing
<1>10. Beginning'
  BY <1>2, <1>5 DEF Known, KnownParts, Beginning
<1>11. OneAnswer'
  BY <1>1, <1>2 DEF Known, KnownParts, OneAnswer, AnswersT, AnswersI
<1>12. SuccessTrue'
  BY <1>1, <1>2, <1>6 DEF Known, KnownParts, SuccessTrue
<1>13. ModeKnown'
  BY <1>1, <1>2 DEF Known, KnownParts, ModeKnown
<1>14. OneStream'
  <2>1. ASSUME NEW s \in Streams, Picked(s)'
        PROVE  Picked(s)
    BY <1>2, <2>1 DEF Picked
  <2>2. ASSUME NEW s \in Streams, Picked(s), PickedOK(s)
        PROVE  PickedOK(s)'
    BY <1>3, <2>2 DEF PickedOK
  <2> QED
    BY <1>2, <2>1, <2>2 DEF Known, KnownParts, OneStream
<1>15. TargetUp'
  BY <1>1, <1>6 DEF TargetUp
<1>16. Failures'
  BY <1>2 DEF Known, KnownParts, Failures, AnswersI
<1> QED
  BY <1>7, <1>8, <1>9, <1>10, <1>11, <1>12, <1>13, <1>14, <1>15, <1>16 DEF KnownParts

LEMMA TAcceptsKeeps ==
    ASSUME Known, NEW F, NEW D, NEW L, NEW X, TAccepts(F, D, L, X)
    PROVE  KnownParts'
<1>1. /\ T'.state = "Target" /\ T'.targetMode = "Unknown" /\ T'.fast = F
      /\ T'.hosts = T.hosts /\ T'.conn = D /\ T'.client = NoStream
      /\ T'.clientOut = NoStream /\ T'.task = F /\ T'.proxyConn = FALSE
      /\ T'.proxyTask = FALSE /\ T'.activated = FALSE /\ T'.lateProxy = L
      /\ T'.connSuccess = FALSE /\ T'.localFailed = X /\ T'.remoteFailed = FALSE
      /\ T'.allowIncoming = F
  BY DEF TAccepts, NoItem
<1>2. /\ CT.st = "WaitingForAccept" /\ CT'.st = "Connecting" /\ I' = I /\ CI' = CI
      /\ crInFlight' = crInFlight /\ crUnread' = crUnread /\ granted' = granted
      /\ excuse' = excuse /\ AskT' = AskT /\ ToT' = ToT /\ (D \subseteq T.hosts)
      /\ (L => T.hosts \cap Proxies # {}) /\ (X <=> (D = {} /\ ~L))
      /\ (~F => D # {} /\ ~L)
      /\ (IF F THEN \E hosts \in SUBSET TargetHosts : hosts # {} /\ AskI' = {Request(hosts)} ELSE AskI' = AskI)
      /\ ToI' = ToI \cup (IF X THEN {Error(Initiator)} ELSE {})
  BY DEF TAccepts, SameInitiator, SameCR
<1>3. /\ T.state = "Idle" /\ Nothing(T) /\ AskI = {} /\ AskT = {} /\ ToI = {} /\ ToT = {}
      /\ granted = {} /\ crInFlight = {} /\ crUnread = {} /\ ~AnswersT
      /\ CI.st \in {"Requesting", "Closed"} /\ I.state \in {"Initiator", "Idle"}
      /\ I.targetMode = "Unknown" /\ ~I.activated /\ ~I.proxyConn /\ ~I.proxyTask
      /\ ~I.connSuccess /\ (I.state = "Initiator" => I.task /\ ~I.remoteFailed)
  BY <1>2, Accepting
<1>4. /\ (F => AskI' # {} /\ \A m \in AskI' : m.hosts \subseteq TargetHosts /\ m.hosts # {})
      /\ (~F => AskI' = {}) /\ (\A m \in ToI' : m.kind = "error")
  BY <1>2, <1>3, Messages
<1>5. Linked'
  BY <1>1, <1>2 DEF Known, KnownParts, Linked
<1>6. InitiatorOK'
  BY <1>2 DEF Known, KnownParts, InitiatorOK
<1>7. TargetOK'
  BY <1>1, <1>2, Names DEF Known, KnownParts, TargetOK, ItemOK
<1>8. Beginning'
  BY <1>2, <1>4 DEF Known, KnownParts, Beginning
<1>9. OneAnswer'
  BY <1>1, <1>2, <1>3 DEF OneAnswer, AnswersI
<1>10. SuccessTrue'
  BY <1>1, <1>2, <1>3, <1>4 DEF SuccessTrue
<1>11. ModeKnown'
  BY <1>1, <1>2, <1>3 DEF ModeKnown
<1>12. OneStream'
  <2>1. \A s \in Streams : ~Picked(s)'
    BY <1>2, <1>3 DEF Picked
  <2> QED
    BY <1>2, <1>3, <2>1 DEF OneStream
<1>13. TargetUp'
  BY <1>1 DEF TargetUp
<1>14. Failures'
  BY <1>2 DEF Known, KnownParts, Failures, AnswersI
<1> QED
  BY <1>5, <1>6, <1>7, <1>8, <1>9, <1>10, <1>11, <1>12, <1>13, <1>14 DEF KnownParts

LEMMA TConnectedToKeeps ==
    ASSUME Known, TConnectedTo
    PROVE  KnownParts'
<1>1. /\ T'.state = T.state /\ T'.targetMode = T.targetMode /\ T'.fast = T.fast
      /\ T'.hosts = T.hosts /\ T'.conn = {} /\ T'.client = T.client
      /\ T'.clientOut = T.clientOut /\ T'.task = FALSE /\ T'.proxyConn = T.proxyConn
      /\ T'.proxyTask = T.proxyTask /\ T'.activated = T.activated
      /\ T'.lateProxy = T.lateProxy /\ T'.connSuccess = T.connSuccess
      /\ T'.localFailed = (T.localFailed \/ T.conn # {} \/ T.lateProxy)
      /\ T'.remoteFailed = T.remoteFailed /\ T'.allowIncoming = T.allowIncoming
  BY DEF TConnectedTo
<1>2. /\ T.state = "Target" /\ T.task /\ CT' = CT /\ Success(Target, Target) \in ToT
      /\ I' = I /\ CI' = CI /\ AskI' = AskI /\ AskT' = AskT /\ granted' = granted
      /\ (excuse' = {} => excuse = {}) /\ ToI' = ToI \cup Sorry(Initiator, T)
      /\ ToT' = {} /\ crInFlight' = crInFlight /\ crUnread' = crUnread
  BY DEF TConnectedTo, TargetSays, SameInitiator, SameRequests, SameCR
<1>3. /\ CT.st # "Idle" /\ CI.st # "Idle" /\ AskT = {}
      /\ (T.state # "Idle" => CT.st # "WaitingForAccept")
  BY <1>2, Negotiating
<1>4. ~AnswersT
  BY <1>2, TargetAnswered
<1>5. /\ (I.state = "Initiator" => I.connSuccess /\ I.activated)
      /\ (Target = Target => T.client = Target) /\ (CI.st = "Failed" => excuse # {})
      /\ (\A r \in Streams : Picked(r) => r = Target)
      /\ T.fast /\ ~T.remoteFailed /\ ~T.proxyConn /\ ~T.proxyTask
  BY <1>2, InitiatorConnected DEF TargetHosts
<1>6. /\ ~AnswersI' /\ (AnswersI => ToI = {})
      /\ (T.conn # {} \/ T.lateProxy => AnswersI /\ ~T.connSuccess) /\ (AnswersI \/ ToI' = ToI)
      /\ (T.connSuccess => ToI' = ToI)
      /\ (\A m \in ToI' : m.kind = "success" => m \in ToI)
  BY <1>1, <1>2, <1>3, Messages
     DEF Known, KnownParts, AnswersI, Sorry, OneAnswer, TargetOK, ItemOK
<1>7. Linked'
  BY <1>1, <1>2 DEF Known, KnownParts, Linked
<1>8. InitiatorOK'
  BY <1>2 DEF Known, KnownParts, InitiatorOK
<1>9. TargetOK'
  BY <1>1, <1>5 DEF Known, KnownParts, TargetOK, ItemOK
<1>10. Beginning'
  BY <1>2 DEF Known, KnownParts, Beginning
<1>11. OneAnswer'
  BY <1>2, <1>6 DEF Known, KnownParts, OneAnswer, AnswersT
<1>12. SuccessTrue'
  BY <1>1, <1>2, <1>5, <1>6 DEF Known, KnownParts, SuccessTrue
<1>13. ModeKnown'
  BY <1>1, <1>2 DEF Known, KnownParts, ModeKnown
<1>14. OneStream'
  <2>1. ASSUME NEW s \in Streams, Picked(s)'
        PROVE  Picked(s)
    BY <1>2, <2>1 DEF Picked
  <2>2. ASSUME NEW s \in Streams, Picked(s), PickedOK(s)
        PROVE  PickedOK(s)'
    BY <1>1, <1>2, <1>5, <2>2 DEF PickedOK, AnswersT
  <2> QED
    BY <1>2, <2>1, <2>2 DEF Known, KnownParts, OneStream
<1>15. TargetUp'
  BY <1>1, <1>2 DEF TargetUp
<1>16. Failures'
  BY <1>2, <1>5 DEF Known, KnownParts, Failures, Linked
<1> QED
  BY <1>7, <1>8, <1>9, <1>10, <1>11, <1>12, <1>13, <1>14, <1>15, <1>16 DEF KnownParts

LEMMA TProxiesKeeps ==
    ASSUME Known, TProxies
    PROVE  KnownParts'
<1>1. /\ T'.state = T.state /\ T'.targetMode = T.targetMode /\ T'.fast = T.fast
      /\ T'.hosts = T.hosts /\ T'.conn = {} /\ T'.client = NoStream
      /\ T'.clientOut = T.clientOut /\ T'.task = FALSE /\ T'.proxyConn = TRUE
      /\ T'.proxyTask = T.proxyTask /\ T'.activated = T.activated
      /\ T'.lateProxy = T.lateProxy /\ T'.connSuccess = T.connSuccess
      /\ T'.localFailed = (T.localFailed \/ T.conn # {} \/ T.lateProxy)
      /\ T'.remoteFailed = T.remoteFailed /\ T'.allowIncoming = FALSE
  BY DEF TProxies
<1>2. /\ T.state = "Target" /\ T.task /\ CT' = CT
      /\ Success(Target, TargetProxy) \in ToT /\ I' = I /\ CI' = CI /\ AskI' = AskI
      /\ AskT' = AskT /\ granted' = granted /\ (excuse' = {} => excuse = {})
      /\ ToI' = ToI \cup Sorry(Initiator, T) /\ ToT' = {} /\ crInFlight' = crInFlight
      /\ crUnread' = crUnread
  BY DEF TProxies, TargetSays, SameInitiator, SameRequests, SameCR
<1>3. /\ CT.st # "Idle" /\ CI.st # "Idle" /\ AskT = {}
      /\ (T.state # "Idle" => CT.st # "WaitingForAccept")
  BY <1>2, Negotiating
<1>4. ~AnswersT
  BY <1>2, TargetAnswered
<1>5. /\ (I.state = "Initiator" => I.connSuccess /\ I.activated)
      /\ (TargetProxy = Target => T.client = Target) /\ (CI.st = "Failed" => excuse # {})
      /\ (\A r \in Streams : Picked(r) => r = TargetProxy)
      /\ T.fast /\ ~T.remoteFailed /\ ~T.proxyConn /\ ~T.proxyTask
  BY <1>2, InitiatorConnected DEF TargetHosts
<1>6. /\ ~AnswersI' /\ (AnswersI => ToI = {})
      /\ (T.conn # {} \/ T.lateProxy => AnswersI /\ ~T.connSuccess) /\ (AnswersI \/ ToI' = ToI)
      /\ (T.connSuccess => ToI' = ToI)
      /\ (\A m \in ToI' : m.kind = "success" => m \in ToI)
  BY <1>1, <1>2, <1>3, Messages
     DEF Known, KnownParts, AnswersI, Sorry, OneAnswer, TargetOK, ItemOK
<1>7. Linked'
  BY <1>1, <1>2 DEF Known, KnownParts, Linked
<1>8. InitiatorOK'
  BY <1>2 DEF Known, KnownParts, InitiatorOK
<1>9. TargetOK'
  BY <1>1, <1>2 DEF Known, KnownParts, TargetOK, ItemOK
<1>10. Beginning'
  BY <1>2 DEF Known, KnownParts, Beginning
<1>11. OneAnswer'
  BY <1>2, <1>6 DEF Known, KnownParts, OneAnswer, AnswersT
<1>12. SuccessTrue'
  BY <1>1, <1>2, <1>5, <1>6 DEF Known, KnownParts, SuccessTrue
<1>13. ModeKnown'
  BY <1>1, <1>2 DEF Known, KnownParts, ModeKnown
<1>14. OneStream'
  <2>1. ASSUME NEW s \in Streams, Picked(s)'
        PROVE  Picked(s)
    BY <1>2, <2>1 DEF Picked
  <2>2. ASSUME NEW s \in Streams, Picked(s), PickedOK(s)
        PROVE  PickedOK(s)'
    BY <1>1, <1>2, <1>5, <2>2, Names DEF PickedOK, AnswersT, InitiatorHosts
  <2> QED
    BY <1>2, <2>1, <2>2 DEF Known, KnownParts, OneStream
<1>15. TargetUp'
  BY <1>1, <1>2 DEF TargetUp
<1>16. Failures'
  BY <1>2, <1>5 DEF Known, KnownParts, Failures, Linked
<1> QED
  BY <1>7, <1>8, <1>9, <1>10, <1>11, <1>12, <1>13, <1>14, <1>15, <1>16 DEF KnownParts

LEMMA TTriesKeeps ==
    ASSUME Known, NEW D, NEW L, NEW read, TTries(D, L, read)
    PROVE  KnownParts'
<1>1. /\ T'.state = T.state /\ T'.targetMode = T.targetMode /\ T'.fast = T.fast
      /\ T'.hosts = T.hosts /\ T'.conn = D /\ T'.client = T.client
      /\ T'.clientOut = T.clientOut /\ T'.task = (T.task /\ ~read)
      /\ T'.proxyConn = T.proxyConn /\ T'.proxyTask = T.proxyTask
      /\ T'.activated = T.activated /\ T'.lateProxy = L
      /\ T'.connSuccess = T.connSuccess /\ T'.localFailed = T.localFailed
      /\ T'.remoteFailed = (T.remoteFailed \/ read)
      /\ T'.allowIncoming = T.allowIncoming
  BY DEF TTries
<1>2. /\ T.state = "Target" /\ CT' = CT /\ (D \subseteq T.hosts) /\ (L => T.lateProxy)
      /\ (T.connSuccess => D = {} /\ ~L)
      /\ (D # {} \/ (L /\ ~T.localFailed) => CanDial(T)) /\ (~T.fast => D # {})
      /\ (L /\ D = {} => T.localFailed \/ (~T.remoteFailed /\ ~read))
      /\ (read => T.task /\ ~T.localFailed /\ ToT # {} /\ \E m \in ToT : m.kind = "error")
      /\ I' = I /\ CI' = CI /\ AskI' = AskI /\ AskT' = AskT /\ granted' = granted
      /\ (excuse' = {} => excuse = {}) /\ ToI' = ToI
      /\ ToT' = (IF read THEN {} ELSE ToT) /\ crInFlight' = crInFlight
      /\ crUnread' = crUnread
  BY DEF TTries, TargetSays, SameInitiator, SameRequests, SameCR
<1>3. /\ CT.st # "Idle" /\ CI.st # "Idle" /\ AskT = {}
      /\ (T.state # "Idle" => CT.st # "WaitingForAccept")
  BY <1>2, Negotiating
<1>4. (AnswersI' => AnswersI) /\ (read => ~AnswersT)
  BY <1>1, <1>2 DEF Known, KnownParts, AnswersI, CanDial, OneAnswer
<1>5. T.fast \/ ~read
  BY <1>2 DEF Known, KnownParts, TargetOK
<1>6. \A s \in Streams : Picked(s) /\ read => s \notin TargetHosts
  BY <1>2, Messages DEF Known, KnownParts, OneStream, PickedOK
<1>7. Linked'
  BY <1>1, <1>2 DEF Known, KnownParts, Linked
<1>8. InitiatorOK'
  BY <1>2 DEF Known, KnownParts, InitiatorOK
<1>9. TargetOK'
  BY <1>1, <1>2 DEF Known, KnownParts, TargetOK, ItemOK, CanDial
<1>10. Beginning'
  BY <1>2, <1>3 DEF Known, KnownParts, Beginning
<1>11. OneAnswer'
  BY <1>1, <1>2, <1>4 DEF Known, KnownParts, OneAnswer, AnswersT
<1>12. SuccessTrue'
  BY <1>1, <1>2, Names DEF Known, KnownParts, SuccessTrue
<1>13. ModeKnown'
  BY <1>1, <1>2 DEF Known, KnownParts, ModeKnown
<1>14. OneStream'
  <2>1. ASSUME NEW s \in Streams, Picked(s)'
        PROVE  Picked(s)
    BY <1>2, <2>1 DEF Picked
  <2>2. ASSUME NEW s \in Streams, Picked(s), PickedOK(s)
        PROVE  PickedOK(s)'
    BY <1>1, <1>2, <1>3, <1>4, <1>5, <1>6, <2>2, Names, ZenonT(30)
       DEF Known, KnownParts, PickedOK, AnswersT, CanDial, TargetHosts, InitiatorHosts,
           TargetOK
  <2> QED
    BY <1>2, <2>1, <2>2 DEF Known, KnownParts, OneStream
<1>15. TargetUp'
  BY <1>1, <1>2 DEF TargetUp
<1>16. Failures'
  BY <1>1, <1>2, <1>4 DEF Known, KnownParts, Failures, Linked
<1> QED
  BY <1>7, <1>8, <1>9, <1>10, <1>11, <1>12, <1>13, <1>14, <1>15, <1>16 DEF KnownParts

LEMMA TGivesUpKeeps ==
    ASSUME Known, TGivesUp
    PROVE  KnownParts'
<1>1. /\ T'.state = T.state /\ T'.targetMode = T.targetMode /\ T'.fast = T.fast
      /\ T'.hosts = T.hosts /\ T'.conn = {} /\ T'.client = T.client
      /\ T'.clientOut = T.clientOut /\ T'.task = T.task /\ T'.proxyConn = T.proxyConn
      /\ T'.proxyTask = T.proxyTask /\ T'.activated = T.activated
      /\ T'.lateProxy = T.lateProxy /\ T'.connSuccess = T.connSuccess
      /\ T'.localFailed = TRUE /\ T'.remoteFailed = T.remoteFailed
      /\ T'.allowIncoming = T.allowIncoming
  BY Vocabulary DEF Known, TGivesUp, Items
<1>2. /\ T.state = "Target" /\ CT' = CT /\ T.conn # {} /\ ~T.lateProxy /\ T.fast
      /\ ~T.remoteFailed /\ I' = I /\ CI' = CI /\ AskI' = AskI /\ AskT' = AskT
      /\ granted' = granted /\ (excuse' = {} => excuse = {})
      /\ ToI' = ToI \cup {Error(Initiator)} /\ ToT' = ToT /\ crInFlight' = crInFlight
      /\ crUnread' = crUnread
  BY DEF TGivesUp, TargetSays, SameInitiator, SameRequests, SameCR
<1>3. /\ CT.st # "Idle" /\ CI.st # "Idle" /\ AskT = {}
      /\ (T.state # "Idle" => CT.st # "WaitingForAccept")
  BY <1>2, Negotiating
<1>4. AnswersI /\ ToI = {} /\ ~AnswersI' /\ (\A m \in ToI' : m.kind = "error")
  BY <1>1, <1>2, <1>3, Messages DEF Known, KnownParts, OneAnswer, AnswersI
<1>5. ~T.connSuccess
  BY <1>2 DEF Known, KnownParts, TargetOK, ItemOK
<1>6. Linked'
  BY <1>1, <1>2 DEF Known, KnownParts, Linked
<1>7. InitiatorOK'
  BY <1>2 DEF Known, KnownParts, InitiatorOK
<1>8. TargetOK'
  BY <1>1, <1>2 DEF Known, KnownParts, TargetOK, ItemOK
<1>9. Beginning'
  BY <1>2, <1>3 DEF Known, KnownParts, Beginning
<1>10. OneAnswer'
  BY <1>1, <1>2, <1>4 DEF Known, KnownParts, OneAnswer, AnswersT
<1>11. SuccessTrue'
  BY <1>1, <1>2, <1>4, <1>5 DEF Known, KnownParts, SuccessTrue
<1>12. ModeKnown'
  BY <1>1, <1>2 DEF Known, KnownParts, ModeKnown
<1>13. OneStream'
  <2>1. ASSUME NEW s \in Streams, Picked(s)'
        PROVE  Picked(s)
    BY <1>2, <2>1 DEF Picked
  <2>2. ASSUME NEW s \in Streams, Picked(s), PickedOK(s)
        PROVE  PickedOK(s)'
    BY <1>1, <1>2, <2>2 DEF PickedOK, AnswersT
  <2> QED
    BY <1>2, <2>1, <2>2 DEF Known, KnownParts, OneStream
<1>14. TargetUp'
  BY <1>1, <1>2 DEF TargetUp
<1>15. Failures'
  BY <1>2 DEF Known, KnownParts, Failures, AnswersI, Linked
<1> QED
  BY <1>6, <1>7, <1>8, <1>9, <1>10, <1>11, <1>12, <1>13, <1>14, <1>15 DEF KnownParts

LEMMA TConnectsKeeps ==
    ASSUME Known, NEW h, TConnects(h)
    PROVE  KnownParts'
<1>1. /\ T'.state = T.state /\ T'.targetMode = T.targetMode /\ T'.fast = T.fast
      /\ T'.hosts = T.hosts /\ T'.conn = {} /\ T'.client = T.client /\ T'.clientOut = h
      /\ T'.task = T.task /\ T'.proxyConn = T.proxyConn /\ T'.proxyTask = T.proxyTask
      /\ T'.activated = T.activated /\ T'.lateProxy = FALSE /\ T'.connSuccess = TRUE
      /\ T'.localFailed = T.localFailed /\ T'.remoteFailed = T.remoteFailed
      /\ T'.allowIncoming = T.allowIncoming
  BY Vocabulary DEF Known, TConnects, Items
<1>2. /\ T.state = "Target" /\ T.fast /\ CT' = CT /\ h \in T.conn
      /\ h \in granted \cup Proxies /\ I' = I /\ CI' = CI /\ AskI' = AskI
      /\ AskT' = AskT /\ granted' = granted /\ (excuse' = {} => excuse = {})
      /\ ToI' = ToI \cup {Success(Initiator, h)} /\ ToT' = ToT
      /\ crInFlight' = crInFlight /\ crUnread' = crUnread
  BY DEF TConnects, TargetSays, SameInitiator, SameRequests, SameCR
<1>3. /\ CT.st # "Idle" /\ CI.st # "Idle" /\ AskT = {}
      /\ (T.state # "Idle" => CT.st # "WaitingForAccept")
  BY <1>2, Negotiating
<1>4. AnswersI /\ ToI' = {Success(Initiator, h)} /\ ~AnswersI'
  BY <1>1, <1>2, <1>3 DEF Known, KnownParts, OneAnswer, AnswersI
<1>5. /\ h \in InitiatorHosts /\ h # NoStream /\ ~T.connSuccess /\ ~T.localFailed
      /\ T.clientOut = NoStream /\ ~T.proxyConn /\ ~T.proxyTask
  BY <1>2, Names DEF Known, KnownParts, TargetOK, ItemOK, InitiatorHosts
<1>6. I.state = "Initiator" => ~I.remoteFailed /\ (I.task \/ I.activated) /\ ~I.proxyConn /\ ~I.proxyTask
  BY <1>2, <1>4, <1>5, Names DEF Known, KnownParts, OneAnswer, SuccessTrue
<1>7. h = Initiator /\ I.state = "Initiator" => I.client # NoStream
  BY <1>2, <1>6, Names DEF Known, KnownParts, SuccessTrue, InitiatorOK, Proxies
<1>8. Success(Initiator, h) = Success(Initiator, Initiator) => h = Initiator
  BY SuccessDiffers
<1>9. \A m \in ToI' : m.kind = "success"
  BY <1>4, Messages
<1>10. Linked'
  BY <1>1, <1>2 DEF Known, KnownParts, Linked
<1>11. InitiatorOK'
  BY <1>2 DEF Known, KnownParts, InitiatorOK
<1>12. TargetOK'
  BY <1>1, <1>2, Names DEF Known, KnownParts, TargetOK, ItemOK, InitiatorHosts
<1>13. Beginning'
  BY <1>2, <1>3 DEF Known, KnownParts, Beginning
<1>14. OneAnswer'
  BY <1>1, <1>2, <1>4 DEF Known, KnownParts, OneAnswer, AnswersT
<1>15. SuccessTrue'
  BY <1>1, <1>2, <1>4, <1>5, <1>6, <1>7, <1>8, <1>9 DEF Known, KnownParts, SuccessTrue
<1>16. ModeKnown'
  BY <1>1, <1>2 DEF Known, KnownParts, ModeKnown
<1>17. OneStream'
  <2>1. ASSUME NEW s \in Streams, Picked(s)'
        PROVE  Picked(s)
    BY <1>2, <2>1 DEF Picked
  <2>2. ASSUME NEW s \in Streams, Picked(s), PickedOK(s)
        PROVE  PickedOK(s)'
    BY <1>1, <1>2, <1>5, <2>2, Names DEF PickedOK, AnswersT, InitiatorHosts
  <2> QED
    BY <1>2, <2>1, <2>2 DEF Known, KnownParts, OneStream
<1>18. TargetUp'
  BY <1>1, <1>2 DEF TargetUp
<1>19. Failures'
  BY <1>2 DEF Known, KnownParts, Failures, AnswersI, Linked
<1> QED
  BY <1>10, <1>11, <1>12, <1>13, <1>14, <1>15, <1>16, <1>17, <1>18, <1>19 DEF KnownParts

LEMMA TUpSlowKeeps ==
    ASSUME Known, NEW h, TUpSlow(h)
    PROVE  KnownParts'
<1>1. /\ T'.state = "Active" /\ T'.targetMode = T.targetMode /\ T'.fast = T.fast
      /\ T'.hosts = T.hosts /\ T'.conn = {} /\ T'.client = T.client
      /\ T'.clientOut = NoStream /\ T'.task = T.task /\ T'.proxyConn = T.proxyConn
      /\ T'.proxyTask = T.proxyTask /\ T'.activated = TRUE /\ T'.lateProxy = FALSE
      /\ T'.connSuccess = TRUE /\ T'.localFailed = T.localFailed
      /\ T'.remoteFailed = T.remoteFailed /\ T'.allowIncoming = T.allowIncoming
  BY DEF TUpSlow
<1>2. /\ T.state = "Target" /\ ~T.fast /\ CT'.st = "Active" /\ CT'.sc = h
      /\ h \in T.conn /\ h \in granted \cup Proxies /\ I' = I /\ CI' = CI
      /\ AskI' = AskI /\ AskT' = AskT /\ granted' = granted
      /\ (excuse' = {} => excuse = {}) /\ ToI' = ToI \cup {Success(Initiator, h)}
      /\ ToT' = ToT /\ crInFlight' = crInFlight /\ crUnread' = crUnread
  BY DEF TUpSlow, TargetSays, SameInitiator, SameRequests, SameCR, Connection
<1>3. /\ CT.st # "Idle" /\ CI.st # "Idle" /\ AskT = {}
      /\ (T.state # "Idle" => CT.st # "WaitingForAccept")
  BY <1>2, Negotiating
<1>4. AnswersI /\ ToI' = {Success(Initiator, h)} /\ ~AnswersI'
  BY <1>1, <1>2, <1>3 DEF Known, KnownParts, OneAnswer, AnswersI
<1>5. /\ h \in InitiatorHosts /\ h # NoStream /\ ~T.localFailed /\ ~T.task
      /\ ~T.proxyConn /\ ~T.proxyTask
  BY <1>2, Names DEF Known, KnownParts, TargetOK, ItemOK, InitiatorHosts
<1>6. I.state # "Active" /\ I.targetMode = "Unknown" /\ (I.state = "Initiator" => I.task /\ ~I.activated)
  BY <1>2 DEF Known, KnownParts, ModeKnown, InitiatorOK
<1>7. h = Initiator /\ I.state = "Initiator" => I.client # NoStream
  BY <1>2, <1>6, Names DEF Known, KnownParts, SuccessTrue, Proxies
<1>8. Success(Initiator, h) = Success(Initiator, Initiator) => h = Initiator
  BY SuccessDiffers
<1>9. \A s \in Streams : ~Picked(s)
  BY <1>2 DEF Known, KnownParts, OneStream, PickedOK
<1>10. CI.st = "Failed" => excuse # {}
  BY <1>4 DEF Known, KnownParts, Failures
<1>11. crInFlight = {} /\ crUnread = {}
  BY <1>9 DEF Known, TypeOK, Picked
<1>12. Linked'
  BY <1>1, <1>2, <1>5 DEF Known, KnownParts, Linked
<1>13. InitiatorOK'
  BY <1>2 DEF Known, KnownParts, InitiatorOK
<1>14. TargetOK'
  BY <1>1, <1>5 DEF Known, KnownParts, TargetOK, ItemOK
<1>15. Beginning'
  BY <1>2, <1>3 DEF Known, KnownParts, Beginning
<1>16. OneAnswer'
  BY <1>1, <1>2, <1>4 DEF Known, KnownParts, OneAnswer, AnswersT
<1>17. SuccessTrue'
  BY <1>1, <1>2, <1>4, <1>5, <1>7, <1>8 DEF Known, KnownParts, SuccessTrue
<1>18. ModeKnown'
  BY <1>1, <1>2 DEF Known, KnownParts, ModeKnown
<1>19. OneStream'
  <2>1. \A s \in Streams : ~Picked(s)'
    BY <1>2, <1>9 DEF Picked
  <2> QED
    BY <1>2, <1>11, <2>1 DEF OneStream
<1>20. TargetUp'
  BY <1>1, <1>2, <1>4, <1>6, <1>10, <1>11 DEF TargetUp
<1>21. Failures'
  BY <1>2 DEF Known, KnownParts, Failures, AnswersI
<1> QED
  BY <1>12, <1>13, <1>14, <1>15, <1>16, <1>17, <1>18, <1>19, <1>20, <1>21 DEF KnownParts

LEMMA TGrantsKeeps ==
    ASSUME Known, TGrants
    PROVE  KnownParts'
<1>1. /\ T'.state = T.state /\ T'.targetMode = T.targetMode /\ T'.fast = T.fast
      /\ T'.hosts = T.hosts /\ T'.conn = T.conn /\ T'.client = Target
      /\ T'.clientOut = T.clientOut /\ T'.task = T.task /\ T'.proxyConn = T.proxyConn
      /\ T'.proxyTask = T.proxyTask /\ T'.activated = T.activated
      /\ T'.lateProxy = T.lateProxy /\ T'.connSuccess = T.connSuccess
      /\ T'.localFailed = T.localFailed /\ T'.remoteFailed = T.remoteFailed
      /\ T'.allowIncoming = FALSE
  BY DEF TGrants
<1>2. /\ T.allowIncoming /\ CT' = CT /\ I' = I /\ CI' = CI /\ crInFlight' = crInFlight
      /\ crUnread' = crUnread /\ AskI' = AskI /\ AskT' = AskT /\ ToT' = ToT
      /\ ToI' = ToI /\ granted' = granted \cup {Target} /\ excuse' = excuse
  BY DEF TGrants, SameInitiator, SameRequests, SameCR
<1>3. /\ T.state # "Idle" /\ ~T.proxyConn /\ ~T.proxyTask /\ (T.state = "Active" => ~T.task)
      /\ (T.state = "Target" => T.client = NoStream /\ T.fast)
  BY <1>2, Names DEF Known, KnownParts, Linked, Nothing, TargetOK, ItemOK
<1>4. /\ CT.st # "Idle" /\ CI.st # "Idle" /\ AskT = {}
      /\ (T.state # "Idle" => CT.st # "WaitingForAccept")
  BY <1>3, Negotiating
<1>5. Linked'
  BY <1>1, <1>2 DEF Known, KnownParts, Linked, Nothing
<1>6. InitiatorOK'
  BY <1>2 DEF Known, KnownParts, InitiatorOK
<1>7. TargetOK'
  BY <1>1, <1>3, Names DEF Known, KnownParts, TargetOK, ItemOK, TargetHosts
<1>8. Beginning'
  BY <1>2, <1>3, <1>4 DEF Known, KnownParts, Beginning
<1>9. OneAnswer'
  BY <1>1, <1>2 DEF Known, KnownParts, OneAnswer, AnswersT, AnswersI
<1>10. SuccessTrue'
  BY <1>1, <1>2, Names DEF Known, KnownParts, SuccessTrue
<1>11. ModeKnown'
  BY <1>1, <1>2 DEF Known, KnownParts, ModeKnown
<1>12. OneStream'
  <2>1. ASSUME NEW s \in Streams, Picked(s)'
        PROVE  Picked(s)
    BY <1>2, <2>1 DEF Picked
  <2>2. ASSUME NEW s \in Streams, Picked(s), PickedOK(s)
        PROVE  PickedOK(s)'
    BY <1>1, <1>2, <1>3, <2>2, Names DEF PickedOK, AnswersT
  <2> QED
    BY <1>2, <2>1, <2>2 DEF Known, KnownParts, OneStream
<1>13. TargetUp'
  BY <1>1, <1>2 DEF Known, KnownParts, TargetUp, AnswersT
<1>14. Failures'
  BY <1>1, <1>2 DEF Known, KnownParts, Failures, AnswersT, AnswersI
<1> QED
  BY <1>5, <1>6, <1>7, <1>8, <1>9, <1>10, <1>11, <1>12, <1>13, <1>14 DEF KnownParts

LEMMA TProxyUpKeeps ==
    ASSUME Known, TProxyUp
    PROVE  KnownParts'
<1>1. /\ T'.state = T.state /\ T'.targetMode = T.targetMode /\ T'.fast = T.fast
      /\ T'.hosts = T.hosts /\ T'.conn = T.conn /\ T'.client = TargetProxy
      /\ T'.clientOut = T.clientOut /\ T'.task = T.task /\ T'.proxyConn = FALSE
      /\ T'.proxyTask = TRUE /\ T'.activated = T.activated /\ T'.lateProxy = T.lateProxy
      /\ T'.connSuccess = T.connSuccess /\ T'.localFailed = T.localFailed
      /\ T'.remoteFailed = T.remoteFailed /\ T'.allowIncoming = T.allowIncoming
  BY DEF TProxyUp
<1>2. /\ T.proxyConn /\ CT' = CT /\ I' = I /\ CI' = CI /\ AskI' = AskI /\ AskT' = AskT
      /\ granted' = granted /\ (excuse' = {} => excuse = {}) /\ ToT' = ToT /\ ToI' = ToI
      /\ crInFlight' = crInFlight /\ crUnread' = crUnread
  BY DEF TProxyUp, TargetSays, SameInitiator, SameRequests, SameCR
<1>3. /\ T.state = "Target" /\ T.fast /\ ~T.task /\ ~T.remoteFailed /\ T.client = NoStream /\ T.conn = {}
      /\ ~T.proxyTask
  BY <1>2 DEF Known, KnownParts, Linked, Nothing, TargetOK, ItemOK
<1>4. /\ CT.st # "Idle" /\ CI.st # "Idle" /\ AskT = {}
      /\ (T.state # "Idle" => CT.st # "WaitingForAccept")
  BY <1>3, Negotiating
<1>5. ToT = {}
  BY <1>3 DEF Known, KnownParts, OneAnswer
<1>6. Linked'
  BY <1>1, <1>2 DEF Known, KnownParts, Linked, Nothing
<1>7. InitiatorOK'
  BY <1>2 DEF Known, KnownParts, InitiatorOK
<1>8. TargetOK'
  BY <1>1, <1>2 DEF Known, KnownParts, TargetOK, ItemOK, TargetHosts
<1>9. Beginning'
  BY <1>2, <1>3, <1>4 DEF Known, KnownParts, Beginning
<1>10. OneAnswer'
  BY <1>1, <1>2 DEF Known, KnownParts, OneAnswer, AnswersT, AnswersI
<1>11. SuccessTrue'
  BY <1>1, <1>2, <1>3, Names DEF Known, KnownParts, SuccessTrue
<1>12. ModeKnown'
  BY <1>1, <1>2 DEF Known, KnownParts, ModeKnown
<1>13. OneStream'
  <2>1. ASSUME NEW s \in Streams, Picked(s)'
        PROVE  Picked(s)
    BY <1>2, <2>1 DEF Picked
  <2>2. ASSUME NEW s \in Streams, Picked(s), PickedOK(s)
        PROVE  PickedOK(s)'
    BY <1>1, <1>2, <2>2 DEF PickedOK, AnswersT
  <2> QED
    BY <1>2, <2>1, <2>2 DEF Known, KnownParts, OneStream
<1>14. TargetUp'
  BY <1>1, <1>3 DEF TargetUp
<1>15. Failures'
  BY <1>2, <1>3 DEF Known, KnownParts, Failures, Linked
<1> QED
  BY <1>6, <1>7, <1>8, <1>9, <1>10, <1>11, <1>12, <1>13, <1>14, <1>15 DEF KnownParts

LEMMA TProxyDoneKeeps ==
    ASSUME Known, TProxyDone
    PROVE  KnownParts'
<1>1. /\ T'.state = T.state /\ T'.targetMode = T.targetMode /\ T'.fast = T.fast
      /\ T'.hosts = T.hosts /\ T'.conn = T.conn /\ T'.client = T.client
      /\ T'.clientOut = T.clientOut /\ T'.task = T.task /\ T'.proxyConn = T.proxyConn
      /\ T'.proxyTask = FALSE /\ T'.activated = T.activated
      /\ T'.lateProxy = T.lateProxy /\ T'.connSuccess = T.connSuccess
      /\ T'.localFailed = T.localFailed /\ T'.remoteFailed = T.remoteFailed
      /\ T'.allowIncoming = T.allowIncoming
  BY DEF TProxyDone
<1>2. /\ T.proxyTask /\ CT' = CT /\ I' = I /\ CI' = CI /\ AskI' = AskI /\ AskT' = AskT
      /\ granted' = granted /\ (excuse' = {} => excuse = {}) /\ ToT' = ToT /\ ToI' = ToI
      /\ crInFlight' = crInFlight /\ crUnread' = crUnread
  BY DEF TProxyDone, TargetSays, SameInitiator, SameRequests, SameCR
<1>3. /\ T.state = "Target" /\ T.fast /\ ~T.task /\ ~T.remoteFailed /\ T.client = TargetProxy
  BY <1>2 DEF Known, KnownParts, Linked, Nothing, TargetOK, ItemOK
<1>4. /\ CT.st # "Idle" /\ CI.st # "Idle" /\ AskT = {}
      /\ (T.state # "Idle" => CT.st # "WaitingForAccept")
  BY <1>3, Negotiating
<1>5. Linked'
  BY <1>1, <1>2 DEF Known, KnownParts, Linked, Nothing
<1>6. InitiatorOK'
  BY <1>2 DEF Known, KnownParts, InitiatorOK
<1>7. TargetOK'
  BY <1>1 DEF Known, KnownParts, TargetOK, ItemOK
<1>8. Beginning'
  BY <1>2, <1>3, <1>4 DEF Known, KnownParts, Beginning
<1>9. OneAnswer'
  BY <1>1, <1>2 DEF Known, KnownParts, OneAnswer, AnswersT, AnswersI
<1>10. SuccessTrue'
  BY <1>1, <1>2 DEF Known, KnownParts, SuccessTrue
<1>11. ModeKnown'
  BY <1>1, <1>2 DEF Known, KnownParts, ModeKnown
<1>12. OneStream'
  <2>1. ASSUME NEW s \in Streams, Picked(s)'
        PROVE  Picked(s)
    BY <1>2, <2>1 DEF Picked
  <2>2. ASSUME NEW s \in Streams, Picked(s), PickedOK(s)
        PROVE  PickedOK(s)'
    BY <1>1, <1>2, <2>2 DEF PickedOK, AnswersT
  <2> QED
    BY <1>2, <2>1, <2>2 DEF Known, KnownParts, OneStream
<1>13. TargetUp'
  BY <1>1, <1>3 DEF TargetUp
<1>14. Failures'
  BY <1>2, <1>3 DEF Known, KnownParts, Failures, Linked
<1> QED
  BY <1>5, <1>6, <1>7, <1>8, <1>9, <1>10, <1>11, <1>12, <1>13, <1>14 DEF KnownParts

LEMMA CRComesKeeps ==
    ASSUME Known, NEW s, CRComes(s)
    PROVE  KnownParts'
<1>1. T' = T
  BY DEF CRComes
<1>2. /\ CT' = CT /\ I' = I /\ CI' = CI /\ AskI' = AskI /\ AskT' = AskT
      /\ granted' = granted /\ excuse' = excuse /\ ToT' = ToT /\ ToI' = ToI
      /\ s \in crInFlight /\ crInFlight' = crInFlight \ {s}
      /\ crUnread' = crUnread \cup {s}
  BY DEF CRComes, TargetSays, SameInitiator, SameRequests
<1>3. /\ CT.st # "Idle" /\ CT.st # "WaitingForAccept" /\ T.state # "Active"
  BY <1>2 DEF Known, KnownParts, Beginning, TargetUp
<1>4. Linked'
  BY <1>1, <1>2 DEF Known, KnownParts, Linked
<1>5. InitiatorOK'
  BY <1>2 DEF Known, KnownParts, InitiatorOK
<1>6. TargetOK'
  BY <1>1 DEF Known, KnownParts, TargetOK
<1>7. Beginning'
  BY <1>2 DEF Known, KnownParts, Beginning
<1>8. OneAnswer'
  BY <1>1, <1>2 DEF Known, KnownParts, OneAnswer, AnswersT, AnswersI
<1>9. SuccessTrue'
  BY <1>1, <1>2 DEF Known, KnownParts, SuccessTrue
<1>10. ModeKnown'
  BY <1>1, <1>2 DEF Known, KnownParts, ModeKnown
<1>11. OneStream'
  <2>1. ASSUME NEW r \in Streams, Picked(r)'
        PROVE  Picked(r)
    BY <1>2, <2>1 DEF Picked
  <2>2. ASSUME NEW r \in Streams, PickedOK(r), Picked(r)'
        PROVE  PickedOK(r)'
    BY <1>1, <1>2, <2>2 DEF PickedOK, AnswersT
  <2>3. crInFlight' \cap crUnread' = {}
    BY <1>2 DEF Known, KnownParts, OneStream
  <2> QED
    BY <2>1, <2>2, <2>3 DEF Known, KnownParts, OneStream
<1>12. TargetUp'
  BY <1>1, <1>3 DEF TargetUp
<1>13. Failures'
  BY <1>2 DEF Known, KnownParts, Failures, AnswersT
<1> QED
  BY <1>4, <1>5, <1>6, <1>7, <1>8, <1>9, <1>10, <1>11, <1>12, <1>13 DEF KnownParts

LEMMA TUpFastKeeps ==
    ASSUME Known, NEW s, NEW said, NEW read, TUpFast(s, said, read)
    PROVE  KnownParts'
<1>1. Linked /\ OneAnswer
  BY DEF Known, KnownParts
<1>2. /\ T.state = "Target" /\ T.fast /\ s \in crInFlight \cup crUnread
      /\ T'.state = "Active" /\ T'.fast /\ TargetOK' /\ CT'.st = "Active" /\ CT'.sc = s
      /\ (T'.task => s = Target /\ T.task /\ ~read) /\ I' = I /\ CI' = CI
      /\ AskI' = AskI /\ AskT' = AskT /\ granted' = granted
      /\ (excuse' = {} => excuse = {}) /\ crInFlight' = crInFlight \ {s}
      /\ crUnread' = crUnread \ {s}
      /\ ((said = {}) \/ (CanDial(T) /\ said = {Error(Initiator)})
          \/ \E h \in T.conn : h \in granted \cup Proxies /\ said = {Success(Initiator, h)})
      /\ ToI' = ToI \cup said /\ (IF read THEN ToT' = {} ELSE ToT' = ToT)
  BY DEF TUpFast, TargetSays, SameInitiator, SameRequests, Connection
<1>3. /\ CT.st # "Idle" /\ CI.st # "Idle" /\ AskT = {}
      /\ (T.state # "Idle" => CT.st # "WaitingForAccept")
  BY <1>2, Negotiating
<1>4. s \in Streams /\ Picked(s) /\ PickedOK(s) /\ (\A r \in Streams : Picked(r) => r = s)
  BY <1>2 DEF Known, KnownParts, TypeOK, OneStream, Picked
<1>5. crInFlight' = {} /\ crUnread' = {}
  BY <1>2, <1>4 DEF Known, TypeOK, Picked
<1>6. /\ s # NoStream /\ ~AnswersT /\ (I.state = "Initiator" => I.activated)
      /\ (I.state = "Active" => I.targetMode = "Fast") /\ (s = Target => \A m \in ToT : m = Success(Target, Target))
  BY <1>2, <1>4, Names DEF PickedOK, StreamHosts, Peers, Proxies, TargetHosts
<1>7. ~AnswersI' /\ (said # {} => AnswersI)
  BY <1>2, <1>3 DEF TargetOK, ItemOK, AnswersI, CanDial
<1>8. said # {} => ToI = {}
  BY <1>7 DEF Known, KnownParts, OneAnswer
<1>9. \A m \in ToI' : m.kind = "success" => m \in ToI \/ \E h \in InitiatorHosts : m = Success(Initiator, h)
  BY <1>2, Messages DEF Known, KnownParts, TargetOK, ItemOK
<1>10. CI.st = "Failed" => excuse # {}
  BY <1>2 DEF Known, KnownParts, Failures
<1>11. I.state = "Initiator" => I.client # NoStream /\ ~I.task
  BY <1>6 DEF Known, KnownParts, InitiatorOK
<1>12. Linked'
  BY <1>2, <1>6 DEF Known, KnownParts, Linked
<1>13. InitiatorOK'
  BY <1>2 DEF Known, KnownParts, InitiatorOK
<1>14. TargetOK'
  BY <1>2
<1>15. Beginning'
  BY <1>2 DEF Known, KnownParts, Beginning
<1>16. OneAnswer'
  BY <1>2, <1>7 DEF Known, KnownParts, OneAnswer, AnswersT
<1>17. SuccessTrue'
  BY <1>2, <1>9, <1>11 DEF Known, KnownParts, SuccessTrue
<1>18. ModeKnown'
  BY <1>2 DEF Known, KnownParts, ModeKnown
<1>19. OneStream'
  <2>1. \A r \in Streams : Picked(r)' => Picked(r)
    BY <1>2 DEF Picked
  <2>2. ASSUME Picked(s)'
        PROVE  PickedOK(s)'
    BY <1>2, <1>4, <1>5 DEF PickedOK, AnswersT
  <2>3. \A r \in Streams : Picked(r)' => r = s /\ PickedOK(r)'
    BY <1>4, <2>1, <2>2
  <2> QED
    BY <1>5, <2>3 DEF OneStream
<1>20. TargetUp'
  BY <1>2, <1>5, <1>6, <1>10 DEF TargetUp, AnswersT
<1>21. Failures'
  BY <1>2 DEF Known, KnownParts, Failures
<1> QED
  BY <1>12, <1>13, <1>14, <1>15, <1>16, <1>17, <1>18, <1>19, <1>20, <1>21 DEF KnownParts

LEMMA TGoneKeeps ==
    ASSUME Known, TGone
    PROVE  KnownParts'
<1>1. /\ T'.state = "Idle" /\ T'.targetMode = "Unknown" /\ T'.fast = FALSE
      /\ T'.hosts = {} /\ T'.conn = {} /\ T'.client = NoStream
      /\ T'.clientOut = NoStream /\ T'.task = FALSE /\ T'.proxyConn = FALSE
      /\ T'.proxyTask = FALSE /\ T'.activated = FALSE /\ T'.lateProxy = FALSE
      /\ T'.connSuccess = FALSE /\ T'.localFailed = FALSE /\ T'.remoteFailed = FALSE
      /\ T'.allowIncoming = FALSE
  BY DEF TGone, NoItem
<1>2. /\ (T.state # "Idle" \/ CT.st = "WaitingForAccept")
      /\ CT'.st \in {"Failed", "Closed"} /\ I' = I /\ CI' = CI /\ AskI' = AskI
      /\ AskT' = AskT /\ granted' = granted /\ (excuse' = {} => excuse = {})
      /\ crInFlight' = crInFlight /\ crUnread' = crUnread /\ ToT' \in {ToT, {}}
      /\ (ToI' = ToI \/ (CT.st = "WaitingForAccept" /\ ToI' = {Error(Initiator)})
               \/ (CanDial(T) /\ ToI' = {Error(Initiator)}))
      /\ (CT'.st = "Closed" => excuse' # {})
      /\ (excuse' = {} =>
         \/ T.state = "Idle" /\ ToI' = {Error(Initiator)}
         \/ /\ T.state = "Target" /\ ~T.connSuccess
            /\ \/ T.localFailed
               \/ T.conn # {} /\ ~T.lateProxy /\ ToI' = {Error(Initiator)}
            /\ T.fast => IF T.task THEN \E m \in ToT : m.kind = "error" ELSE T.remoteFailed)
  BY DEF TGone, SameInitiator, SameRequests, SameCR, Connection
<1>3. /\ CT.st # "Idle" /\ CI.st # "Idle" /\ AskT = {}
      /\ (T.state # "Idle" => CT.st # "WaitingForAccept")
  BY <1>2, Negotiating
<1>4. /\ ~AnswersI' /\ (\A m \in ToI' : m.kind = "success" => m \in ToI)
      /\ (ToI' # ToI => AnswersI) /\ AnswersT' = AnswersT
  BY <1>1, <1>2, <1>3, Messages DEF AnswersI, AnswersT, CanDial
<1>5. excuse' = {} =>
           /\ I.state # "Active" /\ ~AnswersT /\ (\A s \in Streams : ~Picked(s))
           /\ crInFlight = {} /\ crUnread = {}
           /\ I.state = "Initiator" => ~I.connSuccess /\ ~I.proxyConn /\ ~I.proxyTask /\ ~I.activated
           /\ \A m \in ToI' : m.kind = "error"
  <2> SUFFICES ASSUME excuse' = {}
               PROVE  /\ I.state # "Active" /\ ~AnswersT /\ (\A s \in Streams : ~Picked(s))
                      /\ crInFlight = {} /\ crUnread = {}
                      /\ I.state = "Initiator" =>
                           ~I.connSuccess /\ ~I.proxyConn /\ ~I.proxyTask /\ ~I.activated
                      /\ \A m \in ToI' : m.kind = "error"
    OBVIOUS
  <2>1. CASE T.state = "Idle"
    <3>1. CT.st = "WaitingForAccept" /\ ToI' = {Error(Initiator)}
      BY <1>2, <2>1
    <3> QED
      BY <3>1, Accepting, Messages DEF Picked
  <2>2. CASE T.state = "Target"
    <3>1. /\ T.fast => IF T.task THEN \E m \in ToT : m.kind = "error" ELSE T.remoteFailed
          /\ ~T.connSuccess /\ T.clientOut = NoStream
      BY <1>2, <2>2 DEF Known, KnownParts, TargetOK
    <3>2. ASSUME NEW s \in Streams, Picked(s)
          PROVE  FALSE
      <4>1. PickedOK(s)
        BY <3>2 DEF Known, KnownParts, OneStream
      <4>2. s \in TargetHosts \/ s \in InitiatorHosts
        BY <4>1 DEF PickedOK, StreamHosts, Peers, Proxies, TargetHosts, InitiatorHosts
      <4>3. CASE s \in TargetHosts
        BY <2>2, <3>1, <4>1, <4>3, Messages DEF PickedOK
      <4>4. CASE s \in InitiatorHosts
        BY <2>2, <3>1, <4>1, <4>4, Names DEF PickedOK, InitiatorHosts
      <4> QED
        BY <4>2, <4>3, <4>4
    <3>3. crInFlight = {} /\ crUnread = {}
      BY <3>2 DEF Known, TypeOK, Picked
    <3>4. I.state = "Initiator" => ~I.activated /\ ~I.connSuccess
      BY <3>2, Vocabulary DEF Known, KnownParts, Picked, InitiatorOK, Items
    <3>5. I.state # "Active"
      <4>1. I.state = "Active" => I.targetMode # "Fast"
        BY <3>2, Vocabulary DEF Known, Picked, Connections
      <4> QED
        BY <2>2, <4>1 DEF Known, KnownParts, ModeKnown, InitiatorOK
    <3>6. I.state = "Initiator" => ~I.proxyConn /\ ~I.proxyTask
      BY <2>2, <3>1, Names DEF Known, KnownParts, SuccessTrue
    <3>7. \A m \in ToI' : m.kind = "error"
      <4>1. \A m \in ToI : m.kind # "success"
        BY <2>2, <3>1, Names DEF Known, KnownParts, SuccessTrue, InitiatorHosts
      <4>2. \A m \in ToI' : m.kind \in {"success", "error"}
        BY DEF ToI, Answers, IsAnswer
      <4> QED
        BY <1>4, <4>1, <4>2
    <3>8. ~AnswersT
      <4>1. CASE T.fast
        BY <2>2, <3>1, <4>1 DEF Known, KnownParts, OneAnswer
      <4>2. CASE ~T.fast
        <5>1. AskI = {} /\ I.targetMode # "Fast"
          BY <2>2, <4>2 DEF Known, KnownParts, ModeKnown
        <5>2. I.conn = {} /\ ~I.lateProxy
          BY <3>5, <5>1 DEF Known, KnownParts, InitiatorOK, Linked, Nothing
        <5> QED
          BY <5>1, <5>2 DEF AnswersT
      <4> QED
        BY <4>1, <4>2
    <3> QED
      BY <3>2, <3>3, <3>4, <3>5, <3>6, <3>7, <3>8
  <2> QED
    BY <1>2, <2>1, <2>2
<1>6. Linked'
  BY <1>1, <1>2 DEF Known, KnownParts, Linked, Nothing
<1>7. InitiatorOK'
  BY <1>2 DEF Known, KnownParts, InitiatorOK
<1>8. TargetOK'
  BY <1>1 DEF TargetOK, ItemOK
<1>9. Beginning'
  BY <1>2, <1>3 DEF Known, KnownParts, Beginning
<1>10. OneAnswer'
  BY <1>1, <1>2, <1>4 DEF Known, KnownParts, OneAnswer
<1>11. SuccessTrue'
  BY <1>1, <1>2, <1>4 DEF Known, KnownParts, SuccessTrue
<1>12. ModeKnown'
  BY <1>1, <1>2 DEF Known, KnownParts, ModeKnown
<1>13. OneStream'
  <2>1. ASSUME NEW s \in Streams, Picked(s)'
        PROVE  Picked(s)
    BY <1>2, <2>1 DEF Picked
  <2>2. ASSUME NEW s \in Streams, Picked(s), PickedOK(s)
        PROVE  PickedOK(s)'
    BY <1>1, <1>2, <1>5, <2>2 DEF PickedOK, AnswersT
  <2> QED
    BY <1>2, <2>1, <2>2 DEF Known, KnownParts, OneStream
<1>14. TargetUp'
  BY <1>1 DEF TargetUp
<1>15. Failures'
  BY <1>1, <1>2, <1>5 DEF Known, KnownParts, Failures, AnswersT, AnswersI
<1> QED
  BY <1>6, <1>7, <1>8, <1>9, <1>10, <1>11, <1>12, <1>13, <1>14, <1>15 DEF KnownParts


-----------------------------------------------------------------------------
(* The handlers, on effects taken apart: item, connection, what is sent,    *)
(* what is dialled, and the CRs on their way and unread.                    *)
Is(e, it, c, out, dial, cr, un) ==
    /\ e \in Effects
    /\ e.it = it /\ e.con = c /\ e.out = out /\ e.dial = dial /\ e.cr = cr /\ e.unread = un

LEMMA StartIs ==
    ASSUME TypeOK
    PROVE  /\ Is(Start(Initiator), I, CI, <<>>, dialing, crInFlight, crUnread)
           /\ Is(Start(Target), T, CT, <<>>, dialing, crInFlight, crUnread)
<1>1. Start(Initiator) \in Effects /\ Start(Target) \in Effects
  BY PeersAre, StartType
<1> QED BY <1>1 DEF Start, Is, I, T, CI, CT

LEMMA IsTypes ==
    ASSUME NEW e, NEW it, NEW c, NEW out, NEW dial, NEW cr, NEW un,
           Is(e, it, c, out, dial, cr, un)
    PROVE  /\ e \in Effects /\ it \in Items /\ c \in Connections /\ out \in Seq(Stanzas)
           /\ dial \in SUBSET Peers /\ cr \in SUBSET Streams /\ un \in SUBSET Streams
  BY DEF Is, Effects

(* An item, or a connection, is given another value.                        *)
LEMMA ItemIs ==
    ASSUME NEW e, NEW it, NEW c, NEW out, NEW dial, NEW cr, NEW un, NEW x \in Items,
           Is(e, it, c, out, dial, cr, un)
    PROVE  Is([e EXCEPT !.it = x], x, c, out, dial, cr, un)
  BY DEF Is, Effects

LEMMA SendIs ==
    ASSUME NEW e, NEW it, NEW c, NEW out, NEW dial, NEW cr, NEW un, NEW m \in Stanzas,
           Is(e, it, c, out, dial, cr, un)
    PROVE  Is(Send(e, m), it, c, Append(out, m), dial, cr, un)
<1>1. Send(e, m) \in Effects
  BY SendType DEF Is
<1> QED BY <1>1 DEF Is, Send, Effects

LEMMA FailIs ==
    ASSUME NEW e, NEW it, NEW c, NEW out, NEW dial, NEW cr, NEW un,
           Is(e, it, c, out, dial, cr, un)
    PROVE  Is(Fail(e), NoItem, Connection("Failed", NoStream), out, dial, cr, un)
<1>1. Fail(e) \in Effects
  BY FailType DEF Is
<1> QED BY <1>1 DEF Is, Fail, Effects

LEMMA FinishedIs ==
    ASSUME NEW e, NEW it, NEW c, NEW out, NEW dial, NEW cr, NEW un,
           Is(e, it, c, out, dial, cr, un), it.client # NoStream
    PROVE  Is(Finished(e), [it EXCEPT !.state = "Active", !.client = NoStream],
              Connection("Active", it.client), out, dial, cr, un)
<1>1. Finished(e) \in Effects
  BY FinishedType DEF Is
<1> QED BY <1>1 DEF Is, Finished, Effects

LEMMA TryActivationIs ==
    ASSUME NEW e, NEW it, NEW c, NEW out, NEW dial, NEW cr, NEW un,
           Is(e, it, c, out, dial, cr, un), ~it.activated
    PROVE  /\ it.targetMode = "NotFast" => TryActivation(e) = Finished(e)
           /\ it.targetMode = "Fast" =>
                Is(TryActivation(e), [it EXCEPT !.task = FALSE, !.activated = TRUE], c, out, dial,
                   cr \cup {it.client}, un)
<1>1. TryActivation(e) \in Effects
  BY TryActivationType DEF Is
<1>2. it.targetMode = "NotFast" => TryActivation(e) = Finished(e)
  BY DEF TryActivation, Is
<1>3. ASSUME it.targetMode = "Fast"
      PROVE  Is(TryActivation(e), [it EXCEPT !.task = FALSE, !.activated = TRUE], c, out, dial,
                cr \cup {it.client}, un)
  <2>1. TryActivation(e) = [e EXCEPT !.it.task = FALSE, !.it.activated = TRUE,
                                     !.cr = @ \cup {e.it.client}]
    BY <1>3 DEF TryActivation, Is
  <2> QED BY <1>1, <2>1 DEF Is, Effects
<1> QED BY <1>2, <1>3

LEMMA CheckForActivationIs ==
    ASSUME NEW e, NEW it, NEW c, NEW out, NEW dial, NEW cr, NEW un,
           Is(e, it, c, out, dial, cr, un), ~it.activated
    PROVE  LET r == CheckForActivation(e)
               Chosen(s) == Is(r, [it EXCEPT !.state = "Active", !.client = NoStream,
                                             !.clientOut = NoStream, !.activated = TRUE],
                               Connection("Active", s), out, dial, cr,
                               IF it.fast THEN un \ {s} ELSE un)
               Ready(s) == s # NoStream /\ (~it.fast \/ s \in un)
           IN  /\ Ready(it.client) => Chosen(it.client)
               /\ ~Ready(it.client) /\ Ready(it.clientOut) => Chosen(it.clientOut)
               /\ ~Ready(it.client) /\ ~Ready(it.clientOut) => r = e
<1> DEFINE r == CheckForActivation(e)
           Up2(s) == [it EXCEPT !.state = "Active", !.client = NoStream,
                                !.clientOut = NoStream, !.activated = TRUE]
           un2(s) == IF it.fast THEN un \ {s} ELSE un
           Ready(s) == s # NoStream /\ (~it.fast \/ s \in un)
           Picking(s) == [e EXCEPT !.it.client = s, !.it.clientOut = NoStream,
                                   !.it.activated = TRUE,
                                   !.unread = IF it.fast THEN @ \ {s} ELSE @]
<1>1. e \in Effects /\ e.it = it /\ e.unread = un /\ it \in Items /\ un \in SUBSET Streams
  BY DEF Is, Effects
<1>2. ASSUME NEW s \in Streams, s # NoStream
      PROVE  Is(Finished(Picking(s)), Up2(s), Connection("Active", s), out, dial, cr, un2(s))
  <2> DEFINE it2 == [it EXCEPT !.client = s, !.clientOut = NoStream, !.activated = TRUE]
  <2>1. it2 \in Items /\ it2.client = s
    BY <1>1 DEF Items, Streams
  <2>2. Picking(s) \in Effects
    <3>1. (IF it.fast THEN e.unread \ {s} ELSE e.unread) \in SUBSET Streams
      BY <1>1
    <3>2. [e.it EXCEPT !.client = s, !.clientOut = NoStream, !.activated = TRUE] \in Items
      BY <1>1, <2>1
    <3> QED BY <1>1, <3>1, <3>2 DEF Effects
  <2>3. Is(Picking(s), it2, c, out, dial, cr, un2(s))
    <3>1. Picking(s).it = it2 /\ Picking(s).unread = un2(s)
      BY <1>1 DEF Effects
    <3>2. /\ Picking(s).con = c /\ Picking(s).out = out
          /\ Picking(s).dial = dial /\ Picking(s).cr = cr
      BY <1>1 DEF Effects, Is
    <3> QED BY <2>2, <3>1, <3>2 DEF Is
  <2>4. [it2 EXCEPT !.state = "Active", !.client = NoStream] = Up2(s)
    BY <1>1 DEF Items
  <2> HIDE DEF it2, Picking
  <2> QED BY <2>1, <2>3, <2>4, <1>2, FinishedIs
<1>3. it.client \in Streams /\ it.clientOut \in Streams
  BY <1>1 DEF Items
<1>4. r = CASE Ready(it.client) -> Finished(Picking(it.client))
            [] ~Ready(it.client) /\ Ready(it.clientOut) -> Finished(Picking(it.clientOut))
            [] OTHER -> IF it.activated THEN Finished(e) ELSE e
  BY <1>1 DEF CheckForActivation
<1> HIDE DEF Picking
<1>5. CASE Ready(it.client)
  BY <1>2, <1>3, <1>4, <1>5
<1>6. CASE ~Ready(it.client) /\ Ready(it.clientOut)
  BY <1>2, <1>3, <1>4, <1>6
<1>7. CASE ~Ready(it.client) /\ ~Ready(it.clientOut)
  BY <1>4, <1>7
<1> QED BY <1>5, <1>6, <1>7

LEMMA DoConnectErrorIs ==
    ASSUME NEW p \in Peers, NEW e, NEW it, NEW c, NEW out, NEW dial, NEW cr, NEW un,
           Is(e, it, c, out, dial, cr, un)
    PROVE  LET it2 == [it EXCEPT !.localFailed = TRUE]
               out2 == Append(out, Error(Other(p)))
               r == DoConnectError(p, e)
           IN  IF GaveUp(p, it2)
               THEN Is(r, NoItem, Connection("Failed", NoStream), out2, dial, cr, un)
               ELSE Is(r, it2, c, out2, dial, cr, un)
<1> DEFINE it2 == [it EXCEPT !.localFailed = TRUE]
           e2 == [e EXCEPT !.it.localFailed = TRUE]
           e3 == Send(e2, Error(Other(p)))
<1>1. it2 \in Items
  BY DEF Is, Effects, Items
<1>2. Is(e2, it2, c, out, dial, cr, un)
  BY <1>1 DEF Is, Effects
<1>3. Error(Other(p)) \in Stanzas
  BY NamesDiffer, StanzaTypes
<1> HIDE DEF e2, it2
<1>4. Is(e3, it2, c, Append(out, Error(Other(p))), dial, cr, un)
  BY <1>2, <1>3, SendIs
<1>5. DoConnectError(p, e) = IF GaveUp(p, e3.it) THEN Fail(e3) ELSE e3
  BY DEF DoConnectError, CheckFailure, e2
<1>6. e3.it = it2
  BY <1>4 DEF Is
<1> HIDE DEF e3
<1> QED BY <1>4, <1>5, <1>6, FailIs DEF it2

LEMMA DialIs ==
    ASSUME NEW e, NEW it, NEW c, NEW out, NEW dial, NEW cr, NEW un,
           NEW hosts \in SUBSET StreamHosts, Is(e, it, c, out, dial, cr, un)
    PROVE  Is(Dial(e, hosts), [it EXCEPT !.conn = hosts], c, out, dial \cup (hosts \cap Peers),
              cr, un)
<1>1. Dial(e, hosts) \in Effects
  BY DialType DEF Is
<1> QED BY <1>1 DEF Is, Dial, Effects

(* The late proxies are dialled.                                            *)
LEMMA DoIncomingLateIs ==
    ASSUME NEW p, NEW e, NEW it, NEW c, NEW out, NEW dial, NEW cr, NEW un,
           Is(e, it, c, out, dial, cr, un), it.lateProxy, it.hosts # {}
    PROVE  Is(DoIncoming(p, e), [it EXCEPT !.lateProxy = FALSE, !.conn = it.hosts \cap Proxies],
              c, out, dial \cup ((it.hosts \cap Proxies) \cap Peers), cr, un)
<1> DEFINE it2 == [it EXCEPT !.lateProxy = FALSE]
           e2 == [e EXCEPT !.it.lateProxy = FALSE]
           hosts == it.hosts \cap Proxies
<1>1. it2 \in Items /\ hosts \in SUBSET StreamHosts
  BY DEF Is, Effects, Items
<1>2. Is(e2, it2, c, out, dial, cr, un)
  BY <1>1 DEF Is, Effects
<1>3. DoIncoming(p, e) = Dial(e2, hosts)
  BY DEF DoIncoming, Is
<1>4. [it2 EXCEPT !.conn = hosts] = [it EXCEPT !.lateProxy = FALSE, !.conn = hosts]
  OBVIOUS
<1> HIDE DEF e2, it2, hosts
<1>5. Is(DoIncoming(p, e), [it2 EXCEPT !.conn = hosts], c, out, dial \cup (hosts \cap Peers), cr, un)
  BY <1>1, <1>2, <1>3, DialIs
<1> QED BY <1>4, <1>5 DEF hosts

(* The streamhosts are dialled for the first time.                          *)
LEMMA DoIncomingIs ==
    ASSUME NEW p, NEW e, NEW it, NEW c, NEW out, NEW dial, NEW cr, NEW un,
           Is(e, it, c, out, dial, cr, un), ~it.lateProxy, it.hosts # {}, it.conn = {}
    PROVE  \E D \in SUBSET it.hosts, L \in BOOLEAN :
             /\ Is(DoIncoming(p, e), [it EXCEPT !.lateProxy = L, !.conn = D], c, out,
                   dial \cup (D \cap Peers), cr, un)
             /\ D # {} \/ L
             /\ L => it.hosts \cap Proxies # {} /\ (p = Initiator \/ it.fast)
<1> DEFINE direct == it.hosts \ Proxies
           late == [e EXCEPT !.it.lateProxy = TRUE]
           itL == [it EXCEPT !.lateProxy = TRUE]
           Result(D, L) == Is(DoIncoming(p, e), [it EXCEPT !.lateProxy = L, !.conn = D], c, out,
                              dial \cup (D \cap Peers), cr, un)
<1>1. /\ e.it = it /\ it \in Items /\ it.hosts \in SUBSET StreamHosts
      /\ direct \in SUBSET StreamHosts /\ itL \in Items
  <2>1. e.it = it /\ it \in Items
    BY DEF Is, Effects
  <2>2. it.hosts \in SUBSET StreamHosts /\ itL \in Items
    BY <2>1 DEF Items
  <2> QED BY <2>1, <2>2
<1>2. Is(late, itL, c, out, dial, cr, un)
  BY <1>1 DEF Is, Effects
<1>3. ASSUME NEW D
      PROVE  /\ [itL EXCEPT !.conn = D] = [it EXCEPT !.lateProxy = TRUE, !.conn = D]
             /\ [it EXCEPT !.conn = D] = [it EXCEPT !.lateProxy = FALSE, !.conn = D]
  BY <1>1 DEF Items
<1>9. ASSUME NEW D \in SUBSET StreamHosts
      PROVE  /\ DoIncoming(p, e) = Dial(e, D) => Result(D, FALSE)
             /\ DoIncoming(p, e) = Dial(late, D) => Result(D, TRUE)
  <2>1. /\ [itL EXCEPT !.conn = D] = [it EXCEPT !.lateProxy = TRUE, !.conn = D]
        /\ [it EXCEPT !.conn = D] = [it EXCEPT !.lateProxy = FALSE, !.conn = D]
    BY <1>3
  <2> HIDE DEF late, itL
  <2>2. /\ Is(Dial(e, D), [it EXCEPT !.conn = D], c, out, dial \cup (D \cap Peers), cr, un)
        /\ Is(Dial(late, D), [itL EXCEPT !.conn = D], c, out, dial \cup (D \cap Peers), cr, un)
    BY <1>2, DialIs
  <2> QED BY <2>1, <2>2
<1>4. [it EXCEPT !.lateProxy = TRUE, !.conn = {}] = itL
  BY <1>1 DEF Items
<1> HIDE DEF late, itL
<1>5. CASE ~((p = Initiator \/ it.fast) /\ ~it.proxy)
  <2>1. DoIncoming(p, e) = Dial(e, it.hosts)
    BY <1>1, <1>5 DEF DoIncoming
  <2>2. Result(it.hosts, FALSE)
    BY <2>1, <1>1, <1>9
  <2> QED BY <2>2
<1>6. CASE (p = Initiator \/ it.fast) /\ ~it.proxy /\ direct = it.hosts
  <2>1. DoIncoming(p, e) = Dial(e, it.hosts)
    BY <1>1, <1>6 DEF DoIncoming
  <2>2. Result(it.hosts, FALSE)
    BY <2>1, <1>1, <1>9
  <2> QED BY <2>2
<1>7. CASE (p = Initiator \/ it.fast) /\ ~it.proxy /\ direct # it.hosts /\ direct = {}
  <2>1. DoIncoming(p, e) = late
    BY <1>1, <1>7 DEF DoIncoming, late
  <2>2. dial \cup ({} \cap Peers) = dial
    OBVIOUS
  <2>3. Result({}, TRUE)
    BY <2>1, <2>2, <1>2, <1>4
  <2>4. it.hosts \cap Proxies # {}
    BY <1>7
  <2> QED BY <2>3, <2>4, <1>7
<1>8. CASE (p = Initiator \/ it.fast) /\ ~it.proxy /\ direct # it.hosts /\ direct # {}
  <2>1. DoIncoming(p, e) = Dial(late, direct)
    BY <1>1, <1>8 DEF DoIncoming, late
  <2>2. Result(direct, TRUE)
    BY <2>1, <1>1, <1>9
  <2>3. it.hosts \cap Proxies # {} /\ direct \in SUBSET it.hosts
    BY <1>8
  <2> QED BY <2>2, <2>3, <1>8
<1> QED BY <1>5, <1>6, <1>7, <1>8

-----------------------------------------------------------------------------
(* What a handler's effects make of the state.                              *)

(* A stanza that p may send.                                                *)
MaySend(p, m) ==
    /\ m \in Stanzas
    /\ IsAnswer(m, Other(p)) => Answers(Other(p)) = {}
    /\ IsRequest(m) => net[Other(p)] = <<>>

Sent(p, out) ==
    /\ out = <<>> => Answers(p)' = Answers(p) /\ Requests(p)' = Requests(p)
    /\ \A m : out = <<m>> =>
         /\ Answers(p)' = Answers(p) \cup (IF IsAnswer(m, p) THEN {m} ELSE {})
         /\ Requests(p)' = Requests(p) \cup (IF IsRequest(m) THEN {m} ELSE {})

Kept(p) == Answers(p)' = Answers(p) /\ Requests(p)' = Requests(p)

HasRead(p) ==
    /\ Requests(p)' = {}
    /\ IsAnswer(Head(net[p]), p) => Head(net[p]) \in Answers(p) /\ Answers(p)' = {}
    /\ ~IsAnswer(Head(net[p]), p) => Answers(p)' = Answers(p)
    /\ IsRequest(Head(net[p])) => Head(net[p]) \in Requests(p)
    /\ ~IsRequest(Head(net[p])) => Requests(p) = {}

InOrder(p) ==
    \A k, l \in 1..Len(net[p]) :
        /\ IsRequest(net[p][k]) => k = 1
        /\ IsAnswer(net[p][k], p) /\ IsAnswer(net[p][l], p) => k = l

(* p's handler has these effects, and leaves rest of net[p].                *)
Applies(p, e, it, c, out, dial, cr, un, rest) ==
    /\ Apply(p, e, rest) /\ Is(e, it, c, out, dial, cr, un)
    /\ rest = net[p] \/ (net[p] # <<>> /\ rest = Tail(net[p]))
    /\ out = <<>> \/ \E m : out = <<m>> /\ MaySend(p, m)

LEMMA OnlyFirst ==
    ASSUME TypeOK, NetOK, NEW p \in Peers, net[p] # <<>>, ~IsRequest(Head(net[p]))
    PROVE  Requests(p) = {}
<1>1. net[p] \in Seq(Stanzas)
  BY DEF TypeOK
<1>2. Head(net[p]) = net[p][1]
  BY <1>1
<1>3. \A k \in 1..Len(net[p]) : IsRequest(net[p][k]) => k = 1
  BY DEF NetOK
<1> QED BY <1>2, <1>3 DEF Requests

LEMMA Applied ==
    ASSUME TypeOK, NetOK, NEW p \in Peers,
           NEW e, NEW it, NEW c, NEW out, NEW dial, NEW cr, NEW un, NEW rest,
           Applies(p, e, it, c, out, dial, cr, un, rest)
    PROVE  /\ item'[p] = it /\ con'[p] = c
           /\ item'[Other(p)] = item[Other(p)] /\ con'[Other(p)] = con[Other(p)]
           /\ dialing' = dial /\ crInFlight' = cr /\ crUnread' = un
           /\ net'[p] = rest /\ (out = <<>> => net'[Other(p)] = net[Other(p)])
           /\ rest = net[p] => Kept(p)
           /\ net[p] # <<>> /\ rest = Tail(net[p]) => HasRead(p)
           /\ Sent(Other(p), out)
           /\ InOrder(p)' /\ InOrder(Other(p))'
<1> DEFINE q == Other(p)
<1>0. /\ Apply(p, e, rest) /\ Is(e, it, c, out, dial, cr, un)
      /\ rest = net[p] \/ (net[p] # <<>> /\ rest = Tail(net[p]))
      /\ out = <<>> \/ \E m : out = <<m>> /\ MaySend(p, m)
  BY DEF Applies
<1>1. q \in Peers /\ q # p
  BY NamesDiffer
<1>2. /\ item'[p] = it /\ con'[p] = c /\ item'[q] = item[q] /\ con'[q] = con[q]
      /\ dialing' = dial /\ crInFlight' = cr /\ crUnread' = un
  BY <1>0, <1>1 DEF Apply, Is, TypeOK
<1>3. net'[p] = rest /\ net'[q] = net[q] \o out
  BY <1>0, <1>1 DEF Apply, Is, TypeOK
<1>4. net[q] \in Seq(Stanzas)
  BY <1>1 DEF TypeOK
<1>5. /\ rest = net[p] => Kept(p)
      /\ net[p] # <<>> /\ rest = Tail(net[p]) => HasRead(p)
      /\ InOrder(p)'
  <2>1. CASE rest = net[p]
    <3>1. Kept(p) /\ InOrder(p)'
      BY <2>1, <1>3, SendsNothing DEF Kept, InOrder
    <3>2. net[p] # <<>> => rest # Tail(net[p])
      <4>1. net[p] \in Seq(Stanzas)
        BY DEF TypeOK
      <4>2. net[p] # <<>> => Len(Tail(net[p])) # Len(net[p])
        BY <4>1
      <4> QED BY <2>1, <4>2
    <3> QED BY <3>1, <3>2
  <2>2. CASE net[p] # <<>> /\ rest = Tail(net[p]) /\ rest # net[p]
    <3>1. Reads(p)
      BY <2>2, <1>3 DEF Reads
    <3>2. HasRead(p) /\ InOrder(p)'
      BY <2>2, <3>1, ReadsOne, OnlyFirst DEF HasRead, InOrder
    <3> QED BY <2>2, <3>2
  <2> QED BY <1>0, <2>1, <2>2
<1>6. Sent(q, out) /\ InOrder(q)' /\ (out = <<>> => net'[q] = net[q])
  <2>1. CASE out = <<>>
    <3>1. net'[q] = net[q]
      BY <1>3, <1>4, <2>1
    <3>2. \A m : out # <<m>>
      BY <2>1
    <3>3. Answers(q)' = Answers(q) /\ Requests(q)' = Requests(q) /\ InOrder(q)'
      BY <3>1, <1>1, SendsNothing DEF InOrder
    <3> QED BY <3>1, <3>2, <3>3 DEF Sent
  <2>2. ASSUME NEW m, out = <<m>>, MaySend(p, m)
        PROVE  Sent(q, out) /\ InOrder(q)' /\ out # <<>>
    <3>1. Sends(q, m)
      BY <1>3, <1>4, <2>2 DEF Sends, MaySend
    <3>2. m \in Stanzas /\ (IsAnswer(m, q) => Answers(q) = {}) /\ (IsRequest(m) => net[q] = <<>>)
      BY <2>2 DEF MaySend
    <3>3. /\ Requests(q)' = Requests(q) \cup (IF IsRequest(m) THEN {m} ELSE {})
          /\ Answers(q)' = Answers(q) \cup (IF IsAnswer(m, q) THEN {m} ELSE {})
          /\ InOrder(q)'
      <4> HIDE DEF q
      <4> QED BY <3>1, <3>2, <1>1, SendsOne DEF InOrder
    <3>4. \A n : out = <<n>> => n = m
      BY <2>2
    <3>5. out # <<>>
      BY <2>2
    <3> QED BY <3>3, <3>4, <3>5 DEF Sent
  <2> QED BY <1>0, <2>1, <2>2
<1> QED BY <1>2, <1>3, <1>5, <1>6

LEMMA NetIs ==
    ASSUME InOrder(Initiator)', InOrder(Target)',
           CI'.st = "Idle" => net'[Target] = <<>>,
           CT'.st \in {"Idle", "WaitingForAccept"} => net'[Initiator] = <<>>
    PROVE  NetOK'
  BY DEF NetOK, InOrder, Peers, CI, CT

(* The initiator's handlers.                                                *)
LEMMA InitiatorHandles ==
    ASSUME Known, NEW e, NEW it, NEW c, NEW out, NEW dial, NEW cr, NEW un, NEW rest,
           Applies(Initiator, e, it, c, out, dial, cr, un, rest),
           c.st = "Idle" => CI.st = "Idle" /\ out = <<>>
    PROVE  /\ I' = it /\ CI' = c /\ SameTarget
           /\ dialing' = dial /\ crInFlight' = cr /\ crUnread' = un
           /\ rest = net[Initiator] => ToI' = ToI /\ AskI' = AskI
           /\ net[Initiator] # <<>> /\ rest = Tail(net[Initiator]) => HasRead(Initiator)
           /\ out = <<>> => ToT' = ToT /\ AskT' = AskT
           /\ \A m : out = <<m>> =>
                /\ ToT' = ToT \cup (IF IsAnswer(m, Target) THEN {m} ELSE {})
                /\ AskT' = AskT \cup (IF IsRequest(m) THEN {m} ELSE {})
           /\ NetOK'
<1>1. TypeOK /\ NetOK /\ Other(Initiator) = Target
  BY Vocabulary DEF Known
<1>2. /\ item'[Initiator] = it /\ con'[Initiator] = c
      /\ item'[Target] = item[Target] /\ con'[Target] = con[Target]
      /\ dialing' = dial /\ crInFlight' = cr /\ crUnread' = un
      /\ net'[Initiator] = rest /\ (out = <<>> => net'[Target] = net[Target])
      /\ rest = net[Initiator] => Kept(Initiator)
      /\ net[Initiator] # <<>> /\ rest = Tail(net[Initiator]) => HasRead(Initiator)
      /\ Sent(Target, out)
      /\ InOrder(Initiator)' /\ InOrder(Target)'
  BY <1>1, PeersAre, Applied
<1>3. CI'.st = "Idle" => net'[Target] = <<>>
  BY <1>1, <1>2 DEF NetOK, CI, Applies
<1>4. CT'.st \in {"Idle", "WaitingForAccept"} => net'[Initiator] = <<>>
  BY <1>1, <1>2 DEF NetOK, CT, Applies
<1>5. NetOK'
  BY <1>2, <1>3, <1>4, NetIs
<1> QED BY <1>2, <1>5 DEF SameTarget, I, CI, T, CT, ToI, AskI, ToT, AskT, Kept, Sent

LEMMA TargetHandles ==
    ASSUME Known, NEW e, NEW it, NEW c, NEW out, NEW dial, NEW cr, NEW un, NEW rest,
           Applies(Target, e, it, c, out, dial, cr, un, rest),
           c.st \in {"Idle", "WaitingForAccept"} =>
               CT.st \in {"Idle", "WaitingForAccept"} /\ out = <<>>
    PROVE  /\ T' = it /\ CT' = c /\ SameInitiator
           /\ dialing' = dial /\ crInFlight' = cr /\ crUnread' = un
           /\ rest = net[Target] => ToT' = ToT /\ AskT' = AskT
           /\ net[Target] # <<>> /\ rest = Tail(net[Target]) => HasRead(Target)
           /\ out = <<>> => ToI' = ToI /\ AskI' = AskI
           /\ \A m : out = <<m>> =>
                /\ ToI' = ToI \cup (IF IsAnswer(m, Initiator) THEN {m} ELSE {})
                /\ AskI' = AskI \cup (IF IsRequest(m) THEN {m} ELSE {})
           /\ NetOK'
<1>1. TypeOK /\ NetOK /\ Other(Target) = Initiator
  BY Vocabulary DEF Known
<1>2. /\ item'[Target] = it /\ con'[Target] = c
      /\ item'[Initiator] = item[Initiator] /\ con'[Initiator] = con[Initiator]
      /\ dialing' = dial /\ crInFlight' = cr /\ crUnread' = un
      /\ net'[Target] = rest /\ (out = <<>> => net'[Initiator] = net[Initiator])
      /\ rest = net[Target] => Kept(Target)
      /\ net[Target] # <<>> /\ rest = Tail(net[Target]) => HasRead(Target)
      /\ Sent(Initiator, out)
      /\ InOrder(Target)' /\ InOrder(Initiator)'
  BY <1>1, PeersAre, Applied
<1>3. CI'.st = "Idle" => net'[Target] = <<>>
  BY <1>1, <1>2 DEF NetOK, CI, Applies
<1>4. CT'.st \in {"Idle", "WaitingForAccept"} => net'[Initiator] = <<>>
  BY <1>1, <1>2 DEF NetOK, CT, Applies
<1>5. NetOK'
  BY <1>2, <1>3, <1>4, NetIs
<1> QED BY <1>2, <1>5 DEF SameInitiator, I, CI, T, CT, ToI, AskI, ToT, AskT, Kept, Sent

LEMMA MessageKinds ==
    ASSUME NEW p \in Peers, NEW q \in Peers, NEW h \in StreamHosts, NEW hosts \in SUBSET StreamHosts
    PROVE  /\ IsRequest(Request(hosts)) /\ ~IsAnswer(Request(hosts), q)
           /\ ~IsRequest(Error(p)) /\ ~IsRequest(Success(p, h))
           /\ IsAnswer(Error(p), q) <=> p = q
           /\ IsAnswer(Success(p, h), q) <=> p = q
           /\ Error(p) \in Stanzas /\ Success(p, h) \in Stanzas /\ Request(hosts) \in Stanzas
<1>1. Error(p) \in Stanzas /\ Success(p, h) \in Stanzas /\ Request(hosts) \in Stanzas
  BY StanzaTypes
<1> QED BY <1>1 DEF IsRequest, IsAnswer, Error, Success, Request

(* A handler that answers nothing, or the other end's request.              *)
Answer(p, out, said) ==
    \/ out = <<>> /\ said = {}
    \/ /\ Answers(Other(p)) = {}
       /\ \E m \in Stanzas : IsAnswer(m, Other(p)) /\ out = <<m>> /\ said = {m}

LEMMA AnswerIs ==
    ASSUME NEW p \in Peers, NEW h \in StreamHosts, Answers(Other(p)) = {}
    PROVE  /\ Answer(p, <<Error(Other(p))>>, {Error(Other(p))})
           /\ Answer(p, <<Success(Other(p), h)>>, {Success(Other(p), h)})
<1>1. Other(p) \in Peers
  BY NamesDiffer
<1>2. /\ Error(Other(p)) \in Stanzas /\ Success(Other(p), h) \in Stanzas
      /\ IsAnswer(Error(Other(p)), Other(p)) /\ IsAnswer(Success(Other(p), h), Other(p))
  BY <1>1, MessageKinds
<1> QED BY <1>2 DEF Answer

(* What p's handler does: said is what it answers, and read whether it reads *)
(* an answer.                                                               *)
Handler(p, e, it, c, out, dial, cr, un, said, read) ==
    /\ Is(e, it, c, out, dial, cr, un) /\ Answer(p, out, said)
    /\ Apply(p, e, IF read THEN Tail(net[p]) ELSE net[p])
    /\ read \in BOOLEAN /\ (read => net[p] # <<>> /\ IsAnswer(Head(net[p]), p))
    /\ c.st \notin {"Idle", "WaitingForAccept"}
    /\ granted' = granted /\ excuse \subseteq excuse'

LEMMA InitiatorActs ==
    ASSUME Known, NEW e, NEW it, NEW c, NEW out, NEW dial, NEW cr, NEW un,
           NEW said, NEW read,
           Handler(Initiator, e, it, c, out, dial, cr, un, said, read),
           CT.st \in {"Idle", "WaitingForAccept"} => dial = {}
    PROVE  /\ I' = it /\ CI' = c /\ crInFlight' = cr /\ crUnread' = un
           /\ InitiatorSays(said, read) /\ NetOK'
<1> DEFINE rest == IF read THEN Tail(net[Initiator]) ELSE net[Initiator]
<1>0. /\ Is(e, it, c, out, dial, cr, un) /\ Answer(Initiator, out, said)
      /\ Apply(Initiator, e, rest) /\ read \in BOOLEAN
      /\ read => net[Initiator] # <<>> /\ IsAnswer(Head(net[Initiator]), Initiator)
      /\ c.st \notin {"Idle", "WaitingForAccept"}
      /\ granted' = granted /\ excuse \subseteq excuse'
  BY DEF Handler
<1>1. rest = net[Initiator] \/ (net[Initiator] # <<>> /\ rest = Tail(net[Initiator]))
  BY <1>0
<1>2. Other(Initiator) = Target
  BY Vocabulary DEF Known
<1>3. out = <<>> \/ \E m : out = <<m>> /\ MaySend(Initiator, m)
  BY <1>0, <1>2 DEF Answer, MaySend, IsAnswer, IsRequest
<1>4. \A m : IsAnswer(m, Target) => ~IsRequest(m)
  BY DEF IsAnswer, IsRequest
<1> HIDE DEF rest
<1>5. Applies(Initiator, e, it, c, out, dial, cr, un, rest)
  BY <1>0, <1>1, <1>3 DEF Applies
<1>6. /\ I' = it /\ CI' = c /\ SameTarget
      /\ dialing' = dial /\ crInFlight' = cr /\ crUnread' = un
      /\ rest = net[Initiator] => ToI' = ToI /\ AskI' = AskI
      /\ net[Initiator] # <<>> /\ rest = Tail(net[Initiator]) => HasRead(Initiator)
      /\ out = <<>> => ToT' = ToT /\ AskT' = AskT
      /\ \A m : out = <<m>> =>
           /\ ToT' = ToT \cup (IF IsAnswer(m, Target) THEN {m} ELSE {})
           /\ AskT' = AskT \cup (IF IsRequest(m) THEN {m} ELSE {})
      /\ NetOK'
  BY <1>0, <1>5, InitiatorHandles
<1>7. ToT' = ToT \cup said /\ AskT' = AskT
  <2>1. CASE out = <<>> /\ said = {}
    BY <2>1, <1>6
  <2>2. ASSUME NEW m, IsAnswer(m, Target), out = <<m>>, said = {m}
        PROVE  ToT' = ToT \cup said /\ AskT' = AskT
    BY <2>2, <1>4, <1>6
  <2> QED BY <1>0, <2>1, <2>2, <1>2 DEF Answer
<1>8. /\ AskI' = AskI
      /\ IF read THEN AskI = {} /\ ToI # {} /\ ToI' = {} ELSE ToI' = ToI
  <2>1. CASE read
    <3>1. HasRead(Initiator) /\ ~IsRequest(Head(net[Initiator]))
      BY <1>0, <2>1, <1>6 DEF rest, IsAnswer, IsRequest
    <3>2. AskI' = {} /\ AskI = {} /\ ToI # {} /\ ToI' = {}
      BY <1>0, <2>1, <3>1 DEF HasRead, AskI, ToI
    <3> QED BY <2>1, <3>2
  <2>2. CASE ~read
    BY <2>2, <1>6 DEF rest
  <2> QED BY <1>0, <2>1, <2>2
<1>9. Early
  BY <1>6 DEF Early
<1> QED BY <1>0, <1>6, <1>7, <1>8, <1>9 DEF InitiatorSays, SameRequests

LEMMA TargetActs ==
    ASSUME Known, NEW e, NEW it, NEW c, NEW out, NEW dial, NEW cr, NEW un,
           NEW said, NEW read,
           Handler(Target, e, it, c, out, dial, cr, un, said, read)
    PROVE  /\ T' = it /\ CT' = c /\ crInFlight' = cr /\ crUnread' = un
           /\ TargetSays(said, read) /\ NetOK'
<1> DEFINE rest == IF read THEN Tail(net[Target]) ELSE net[Target]
<1>0. /\ Is(e, it, c, out, dial, cr, un) /\ Answer(Target, out, said)
      /\ Apply(Target, e, rest) /\ read \in BOOLEAN
      /\ read => net[Target] # <<>> /\ IsAnswer(Head(net[Target]), Target)
      /\ c.st \notin {"Idle", "WaitingForAccept"}
      /\ granted' = granted /\ excuse \subseteq excuse'
  BY DEF Handler
<1>1. rest = net[Target] \/ (net[Target] # <<>> /\ rest = Tail(net[Target]))
  BY <1>0
<1>2. Other(Target) = Initiator
  BY Vocabulary DEF Known
<1>3. out = <<>> \/ \E m : out = <<m>> /\ MaySend(Target, m)
  BY <1>0, <1>2 DEF Answer, MaySend, IsAnswer, IsRequest
<1>4. \A m : IsAnswer(m, Initiator) => ~IsRequest(m)
  BY DEF IsAnswer, IsRequest
<1> HIDE DEF rest
<1>5. Applies(Target, e, it, c, out, dial, cr, un, rest)
  BY <1>0, <1>1, <1>3 DEF Applies
<1>6. /\ T' = it /\ CT' = c /\ SameInitiator
      /\ dialing' = dial /\ crInFlight' = cr /\ crUnread' = un
      /\ rest = net[Target] => ToT' = ToT /\ AskT' = AskT
      /\ net[Target] # <<>> /\ rest = Tail(net[Target]) => HasRead(Target)
      /\ out = <<>> => ToI' = ToI /\ AskI' = AskI
      /\ \A m : out = <<m>> =>
           /\ ToI' = ToI \cup (IF IsAnswer(m, Initiator) THEN {m} ELSE {})
           /\ AskI' = AskI \cup (IF IsRequest(m) THEN {m} ELSE {})
      /\ NetOK'
  BY <1>0, <1>5, TargetHandles
<1>7. ToI' = ToI \cup said /\ AskI' = AskI
  <2>1. CASE out = <<>> /\ said = {}
    BY <2>1, <1>6
  <2>2. ASSUME NEW m, IsAnswer(m, Initiator), out = <<m>>, said = {m}
        PROVE  ToI' = ToI \cup said /\ AskI' = AskI
    BY <2>2, <1>4, <1>6
  <2> QED BY <1>0, <2>1, <2>2, <1>2 DEF Answer
<1>8. /\ AskT' = AskT
      /\ IF read THEN ToT # {} /\ ToT' = {} ELSE ToT' = ToT
  <2>1. CASE read
    <3>1. HasRead(Target) /\ ~IsRequest(Head(net[Target]))
      BY <1>0, <2>1, <1>6 DEF rest, IsAnswer, IsRequest
    <3>2. AskT' = {} /\ AskT = {} /\ ToT # {} /\ ToT' = {}
      BY <1>0, <2>1, <3>1 DEF HasRead, AskT, ToT
    <3> QED BY <2>1, <3>2
  <2>2. CASE ~read
    BY <2>2, <1>6 DEF rest
  <2> QED BY <2>1, <2>2
<1> QED BY <1>0, <1>6, <1>7, <1>8 DEF TargetSays, SameRequests

-----------------------------------------------------------------------------
(* The initiator's steps are those of InitiatorSteps.                       *)

LEMMA Quiet ==
    ASSUME Known
    PROVE  /\ CT.st \in {"Idle", "WaitingForAccept"} => dialing = {}
           /\ TypeOK /\ I \in Items /\ T \in Items /\ CI \in Connections /\ CT \in Connections
           /\ Other(Initiator) = Target /\ Other(Target) = Initiator
           /\ Answers(Initiator) = ToI /\ Answers(Target) = ToT
           /\ Answer(Initiator, <<>>, {}) /\ Answer(Target, <<>>, {})
  BY Vocabulary DEF Known, KnownParts, Beginning, Answer, ToI, ToT

LEMMA CRWrittenDoes ==
    ASSUME Known, CRWritten
    PROVE  NetOK' /\ Step
<1> DEFINE e == Start(Initiator)
<1>1. /\ I.state = "Initiator" /\ I.activated /\ granted' = granted /\ excuse' = excuse
      /\ Apply(Initiator, Finished(e), net[Initiator])
  BY DEF CRWritten, I
<1>2. I.client # NoStream
  BY <1>1 DEF Known, KnownParts, InitiatorOK
<1>3. Is(Finished(e), [I EXCEPT !.state = "Active", !.client = NoStream],
         Connection("Active", I.client), <<>>, dialing, crInFlight, crUnread)
  BY <1>2, Quiet, StartIs, FinishedIs
<1>4. Connection("Active", I.client).st = "Active"
  BY DEF Connection
<1> HIDE DEF e
<1>6. Handler(Initiator, Finished(e), [I EXCEPT !.state = "Active", !.client = NoStream],
              Connection("Active", I.client), <<>>, dialing, crInFlight, crUnread, {}, FALSE)
  BY <1>1, <1>3, <1>4, Quiet DEF Handler
<1>5. /\ I' = [I EXCEPT !.state = "Active", !.client = NoStream]
      /\ CI' = Connection("Active", I.client) /\ SameCR
      /\ InitiatorSays({}, FALSE) /\ NetOK'
  BY <1>6, Quiet, InitiatorActs DEF SameCR
<1> QED BY <1>1, <1>5 DEF IUp, Step, InitiatorSteps

(* The item is deleted.                                                     *)
LEMMA InitiatorFails ==
    ASSUME Known, NEW e, NEW out, NEW dial, NEW said, NEW read,
           Handler(Initiator, e, NoItem, Connection("Failed", NoStream), out, dial,
                   crInFlight, crUnread, said, read),
           I.state # "Idle",
           said = {} \/ (CanDial(I) /\ said = {Error(Target)}),
           CT.st \notin {"Idle", "WaitingForAccept"},
           excuse' = {} =>
             /\ I.state = "Initiator" /\ ~I.connSuccess /\ ~I.activated
             /\ ~I.proxyConn /\ ~I.proxyTask
             /\ I.localFailed \/ I.targetMode = "Unknown"
                  \/ (I.conn # {} /\ ~I.lateProxy /\ said = {Error(Target)})
             /\ IF I.task THEN \E m \in ToI : m.kind = "error" ELSE I.remoteFailed
    PROVE  NetOK' /\ Step
<1>1. Connection("Failed", NoStream).st = "Failed" /\ excuse \subseteq excuse'
  BY DEF Connection, Handler
<1>2. /\ I' = NoItem /\ CI' = Connection("Failed", NoStream) /\ SameCR
      /\ InitiatorSays(said, read) /\ NetOK'
  BY InitiatorActs DEF SameCR
<1>3. ToI' \in {ToI, {}}
  BY <1>2 DEF InitiatorSays
<1>4. ToT' = ToT \/ (CanDial(I) /\ ToT' = {Error(Target)})
  <2>1. CASE said = {}
    BY <2>1, <1>2 DEF InitiatorSays
  <2>2. CASE CanDial(I) /\ said = {Error(Target)}
    <3>1. ToT = {}
      BY <2>2 DEF CanDial, Known, KnownParts, OneAnswer, AnswersT
    <3> QED BY <2>2, <3>1, <1>2 DEF InitiatorSays
  <2> QED BY <2>1, <2>2
<1>5. said = {Error(Target)} /\ I.conn # {} => ToT' = {Error(Target)}
  <2> SUFFICES ASSUME said = {Error(Target)}, I.conn # {}
               PROVE  ToT' = {Error(Target)}
    OBVIOUS
  <2>1. ToT = {}
    BY DEF Known, KnownParts, OneAnswer, AnswersT
  <2> QED BY <2>1, <1>2 DEF InitiatorSays
<1>6. IGone
  BY <1>1, <1>2, <1>3, <1>4, <1>5 DEF IGone, InitiatorSays
<1> QED BY <1>2, <1>6 DEF Step, InitiatorSteps

LEMMA InitiatorErrorDoes ==
    ASSUME Known, StreamError(Initiator)
    PROVE  NetOK' /\ Step
<1> DEFINE e == Fail(Start(Initiator))
<1>1. /\ I.client # NoStream \/ I.clientOut # NoStream
      /\ I.state \in {"Initiator", "Target"} /\ granted' = granted
      /\ Apply(Initiator, e, net[Initiator]) /\ excuse' = excuse \cup {"streamError"}
  BY DEF StreamError, I
<1>2. I.clientOut = NoStream
  BY DEF Known, KnownParts, InitiatorOK
<1>3. CT.st \notin {"Idle", "WaitingForAccept"}
  BY <1>1, <1>2, Started
<1>4. Is(e, NoItem, Connection("Failed", NoStream), <<>>, dialing, crInFlight, crUnread)
  BY Quiet, StartIs, FailIs
<1> HIDE DEF e
<1>5. Connection("Failed", NoStream).st = "Failed"
  BY DEF Connection
<1>6. Handler(Initiator, e, NoItem, Connection("Failed", NoStream), <<>>, dialing,
              crInFlight, crUnread, {}, FALSE)
  BY <1>1, <1>4, <1>5, Quiet DEF Handler
<1> QED BY <1>1, <1>3, <1>6, InitiatorFails

LEMMA InitiatorClosesDoes ==
    ASSUME Known, Close(Initiator)
    PROVE  NetOK' /\ Step
<1> DEFINE out == CloseStanzas(Initiator)
           e == [Start(Initiator) EXCEPT !.it = NoItem, !.out = out,
                                         !.con = Connection("Closed", NoStream)]
<1>1. /\ CI.st \notin {"Idle", "Failed", "Closed", "Crashed"}
      /\ granted' = granted /\ Apply(Initiator, e, net[Initiator])
      /\ excuse' = excuse \cup {"closed"}
  BY DEF Close, CI
<1>2. I.state # "Idle" /\ CI.st # "WaitingForAccept"
  BY <1>1 DEF Known, KnownParts, Linked
<1>3. out = <<>> \/ out = <<Error(Initiator)>>
  BY <1>2 DEF CloseStanzas, CI
<1>4. /\ Error(Initiator) \in Stanzas /\ ~IsRequest(Error(Initiator))
      /\ ~IsAnswer(Error(Initiator), Target)
  BY PeersAre, NamesDiffer, MessageKinds DEF StreamHosts
<1>5. out \in Seq(Stanzas)
  <2>1. <<>> \in Seq(Stanzas) /\ <<Error(Initiator)>> \in Seq(Stanzas)
    BY <1>4
  <2> QED BY <1>3, <2>1
<1>6. Connection("Closed", NoStream) \in Connections /\ Connection("Closed", NoStream).st = "Closed"
  BY DEF Connection, Connections, Streams
<1>7. Is(e, NoItem, Connection("Closed", NoStream), out, dialing, crInFlight, crUnread)
  <2> HIDE DEF out
  <2>1. Is(Start(Initiator), I, CI, <<>>, dialing, crInFlight, crUnread)
    BY Quiet, StartIs
  <2> QED BY <1>5, <1>6, <2>1, NoItemType DEF Is, Effects
<1>8. out = <<>> \/ \E m : out = <<m>> /\ MaySend(Initiator, m)
  BY <1>3, <1>4, Quiet DEF MaySend
<1> HIDE DEF e, out
<1>13. Applies(Initiator, e, NoItem, Connection("Closed", NoStream), out, dialing,
               crInFlight, crUnread, net[Initiator])
  BY <1>1, <1>7, <1>8 DEF Applies
<1>9. /\ I' = NoItem /\ CI' = Connection("Closed", NoStream) /\ SameTarget
      /\ dialing' = dialing /\ SameCR /\ ToI' = ToI /\ AskI' = AskI
      /\ out = <<>> => ToT' = ToT /\ AskT' = AskT
      /\ \A m : out = <<m>> =>
           /\ ToT' = ToT \cup (IF IsAnswer(m, Target) THEN {m} ELSE {})
           /\ AskT' = AskT \cup (IF IsRequest(m) THEN {m} ELSE {})
      /\ NetOK'
  BY <1>6, <1>13, InitiatorHandles DEF SameCR
<1>10. ToT' = ToT /\ AskT' = AskT
  BY <1>3, <1>4, <1>9
<1>11. Early
  BY <1>9, Quiet DEF Early
<1>12. IGone
  BY <1>1, <1>2, <1>6, <1>9, <1>10, <1>11 DEF IGone, SameRequests
<1> QED BY <1>9, <1>12 DEF Step, InitiatorSteps

LEMMA InitiatorProxyResultDoes ==
    ASSUME Known, NEW ok \in BOOLEAN, ProxyResult(Initiator, ok)
    PROVE  NetOK' /\ Step
<1> DEFINE e == Start(Initiator)
           up == [e EXCEPT !.it.proxyConn = FALSE, !.it.proxyTask = TRUE,
                           !.it.client = Proxy(Initiator)]
           it == [I EXCEPT !.proxyConn = FALSE, !.proxyTask = TRUE, !.client = InitiatorProxy]
<1>1. /\ I.proxyConn /\ Apply(Initiator, IF ok THEN up ELSE Fail(e), net[Initiator])
      /\ granted' = granted
      /\ excuse' = IF ok THEN excuse ELSE excuse \cup {"proxyFailed"}
  BY DEF ProxyResult, I
<1>2. I.state = "Initiator" /\ I.targetMode # "Unknown" /\ CI.st = "Requesting"
  <2>1. I.state = "Initiator"
    BY <1>1 DEF Known, KnownParts, Linked, Nothing, InitiatorOK, ItemOK
  <2> QED BY <2>1, <1>1 DEF Known, KnownParts, Linked, InitiatorOK, ItemOK
<1>3. CT.st \notin {"Idle", "WaitingForAccept"}
  BY <1>2, Started
<1>4. Is(e, I, CI, <<>>, dialing, crInFlight, crUnread)
  BY Quiet, StartIs
<1>5. CASE ok
  <2>1. it \in Items /\ Proxy(Initiator) = InitiatorProxy
    BY Quiet, Vocabulary DEF Items, Streams, StreamHosts, Proxies
  <2>2. Is(up, it, CI, <<>>, dialing, crInFlight, crUnread)
    <3> HIDE DEF e
    <3> QED BY <1>4, <2>1 DEF Is, Effects
  <2> HIDE DEF e, up, it
  <2>3. Apply(Initiator, up, net[Initiator]) /\ excuse' = excuse
    BY <1>1, <1>5
  <2>5. Handler(Initiator, up, it, CI, <<>>, dialing, crInFlight, crUnread, {}, FALSE)
    BY <1>1, <1>2, <2>2, <2>3, Quiet DEF Handler
  <2>4. I' = it /\ CI' = CI /\ SameCR /\ InitiatorSays({}, FALSE) /\ NetOK'
    BY <2>5, Quiet, InitiatorActs DEF SameCR
  <2> QED BY <1>1, <2>4 DEF IProxyUp, Step, InitiatorSteps, it
<1>6. CASE ~ok
  <2>1. Is(Fail(e), NoItem, Connection("Failed", NoStream), <<>>, dialing, crInFlight, crUnread)
    BY <1>4, FailIs
  <2> HIDE DEF e
  <2>2. Connection("Failed", NoStream).st = "Failed"
    BY DEF Connection
  <2>3. Handler(Initiator, Fail(e), NoItem, Connection("Failed", NoStream), <<>>, dialing,
                crInFlight, crUnread, {}, FALSE)
    BY <1>1, <1>6, <2>1, <2>2, Quiet DEF Handler
  <2> QED BY <1>1, <1>2, <1>3, <1>6, <2>3, InitiatorFails
<1> QED BY <1>5, <1>6

LEMMA InitiatorProxyFinishedDoes ==
    ASSUME Known, NEW ok \in BOOLEAN, ProxyFinished(Initiator, ok)
    PROVE  NetOK' /\ Step
<1> DEFINE e == [Start(Initiator) EXCEPT !.it.proxyTask = FALSE]
           it == [I EXCEPT !.proxyTask = FALSE]
<1>1. /\ I.proxyTask
      /\ Apply(Initiator, IF ok THEN TryActivation(e) ELSE Fail(e), net[Initiator])
      /\ granted' = granted
      /\ excuse' = IF ok THEN excuse ELSE excuse \cup {"proxyFailed"}
      /\ ok => Holds(Other(Initiator), Proxy(Initiator))
  BY DEF ProxyFinished, I
<1>2. /\ I.state = "Initiator" /\ I.targetMode # "Unknown" /\ CI.st = "Requesting"
      /\ I.client = InitiatorProxy /\ ~I.activated
  <2>1. I.state = "Initiator"
    BY <1>1 DEF Known, KnownParts, Linked, Nothing, InitiatorOK, ItemOK
  <2> QED BY <2>1, <1>1 DEF Known, KnownParts, Linked, InitiatorOK, ItemOK
<1>3. CT.st \notin {"Idle", "WaitingForAccept"}
  BY <1>2, Started
<1>4. it \in Items /\ I.targetMode \in {"Fast", "NotFast"}
  BY <1>2, Quiet DEF Items
<1>5. Is(e, it, CI, <<>>, dialing, crInFlight, crUnread)
  <2>1. Is(Start(Initiator), I, CI, <<>>, dialing, crInFlight, crUnread)
    BY Quiet, StartIs
  <2> QED BY <2>1, <1>4 DEF Is, Effects
<1>6. it.client = InitiatorProxy /\ ~it.activated /\ it.targetMode = I.targetMode
  BY <1>2, Quiet DEF Items
<1>7. ASSUME ok
      PROVE  T.clientOut = InitiatorProxy \/ CT.sc = InitiatorProxy
  <2>1. InitiatorProxy \in {T.client, T.clientOut, CT.sc}
    BY <1>1, <1>7, Vocabulary, Quiet DEF Holds, T, CT
  <2>2. CASE T.state = "Target"
    BY <2>1, <2>2, Names DEF Known, KnownParts, TargetOK, TargetHosts
  <2>3. CASE T.state = "Active"
    BY <1>2, <2>3, <1>4 DEF Known, KnownParts, TargetUp, ModeKnown
  <2>4. CASE T.state = "Idle"
    BY <2>1, <2>4, Names DEF Known, KnownParts, Linked, Nothing
  <2> QED BY <2>2, <2>3, <2>4 DEF Known, KnownParts, Linked
<1>8. CASE ok /\ I.targetMode = "NotFast"
  <2>1. TryActivation(e) = Finished(e)
    BY <1>5, <1>6, <1>8, TryActivationIs
  <2>2. InitiatorProxy # NoStream /\ Connection("Active", InitiatorProxy).st = "Active"
    BY Names DEF Connection
  <2> HIDE DEF e
  <2>3. Is(Finished(e), [it EXCEPT !.state = "Active", !.client = NoStream],
           Connection("Active", InitiatorProxy), <<>>, dialing, crInFlight, crUnread)
    <3> HIDE DEF it
    <3> QED BY <1>5, <1>6, <2>2, FinishedIs
  <2>4. /\ I' = [it EXCEPT !.state = "Active", !.client = NoStream] /\ SameCR
        /\ CI' = Connection("Active", InitiatorProxy)
        /\ InitiatorSays({}, FALSE) /\ NetOK'
    <3> HIDE DEF it
    <3>1. Apply(Initiator, Finished(e), net[Initiator]) /\ excuse' = excuse
      BY <1>1, <1>8, <2>1
    <3>2. Handler(Initiator, Finished(e), [it EXCEPT !.state = "Active", !.client = NoStream],
                  Connection("Active", InitiatorProxy), <<>>, dialing, crInFlight, crUnread,
                  {}, FALSE)
      BY <1>1, <3>1, <2>2, <2>3, Quiet DEF Handler
    <3> QED BY <3>2, Quiet, InitiatorActs DEF SameCR
  <2> QED BY <1>1, <1>7, <1>8, <2>4 DEF IProxyUpSlow, Step, InitiatorSteps
<1>9. CASE ok /\ I.targetMode = "Fast"
  <2> HIDE DEF e
  <2>1. Is(TryActivation(e), [it EXCEPT !.task = FALSE, !.activated = TRUE], CI, <<>>, dialing,
           crInFlight \cup {InitiatorProxy}, crUnread)
    <3> HIDE DEF it
    <3> QED BY <1>5, <1>6, <1>9, TryActivationIs
  <2>2. /\ I' = [it EXCEPT !.task = FALSE, !.activated = TRUE] /\ NewCR(InitiatorProxy)
        /\ CI' = CI /\ InitiatorSays({}, FALSE) /\ NetOK'
    <3> HIDE DEF it
    <3>1. Apply(Initiator, TryActivation(e), net[Initiator]) /\ excuse' = excuse
      BY <1>1, <1>9
    <3>2. Handler(Initiator, TryActivation(e), [it EXCEPT !.task = FALSE, !.activated = TRUE],
                  CI, <<>>, dialing, crInFlight \cup {InitiatorProxy}, crUnread, {}, FALSE)
      BY <1>1, <1>2, <3>1, <2>1, Quiet DEF Handler
    <3> QED BY <3>2, Quiet, InitiatorActs DEF NewCR
  <2> QED BY <1>1, <1>7, <1>9, <2>2 DEF IPicksProxy, Step, InitiatorSteps
<1>10. CASE ~ok
  <2>1. Is(Fail(e), NoItem, Connection("Failed", NoStream), <<>>, dialing, crInFlight, crUnread)
    BY <1>5, FailIs
  <2> HIDE DEF e
  <2>2. Connection("Failed", NoStream).st = "Failed"
    BY DEF Connection
  <2>3. Handler(Initiator, Fail(e), NoItem, Connection("Failed", NoStream), <<>>, dialing,
                crInFlight, crUnread, {}, FALSE)
    BY <1>1, <1>10, <2>1, <2>2, Quiet DEF Handler
  <2> QED BY <1>1, <1>2, <1>3, <1>10, <2>3, InitiatorFails
<1> QED BY <1>4, <1>8, <1>9, <1>10

LEMMA ConnectDoes ==
    ASSUME Known, Connect
    PROVE  NetOK' /\ Step
<1> DEFINE it1 == [NoItem EXCEPT !.state = "Initiator", !.proxy = hasProxy[Initiator]]
           c1 == [CI EXCEPT !.st = "Requesting"]
           e == [Start(Initiator) EXCEPT !.con.st = "Requesting", !.it = it1]
           hosts == (IF hasServer[Initiator] THEN {Initiator} ELSE {})
                      \cup (IF e.it.proxy THEN {Proxy(Initiator)} ELSE {})
           e2 == [e EXCEPT !.it.allowIncoming = TRUE, !.it.task = TRUE]
           it2 == [NoItem EXCEPT !.state = "Initiator", !.proxy = hasProxy[Initiator],
                                 !.allowIncoming = TRUE, !.task = TRUE]
<1>1. /\ CI.st = "Idle" /\ granted' = granted /\ excuse' = excuse
      /\ Apply(Initiator, DoOutgoing(Initiator, e), net[Initiator])
  BY DEF Connect, CI
<1>2. hasProxy[Initiator] \in BOOLEAN
  BY Quiet, PeersAre DEF TypeOK
<1>3. it1 \in Items /\ it2 \in Items /\ c1 \in Connections
  BY <1>2, Quiet, NoItemType DEF Items, Connections
<1>4. Is(e, it1, c1, <<>>, dialing, crInFlight, crUnread)
  <2>1. Is(Start(Initiator), I, CI, <<>>, dialing, crInFlight, crUnread)
    BY Quiet, StartIs
  <2> HIDE DEF it1
  <2> QED BY <1>3, <2>1 DEF Is, Effects
<1>5. DoOutgoing(Initiator, e) = Send(e2, Request(hosts))
  BY Names DEF DoOutgoing
<1>6. hosts \in SUBSET InitiatorHosts /\ InitiatorHosts \in SUBSET StreamHosts
  BY Vocabulary, Quiet DEF InitiatorHosts, StreamHosts, Peers, Proxies
<1>7. [it1 EXCEPT !.allowIncoming = TRUE, !.task = TRUE] = it2
  BY NoItemType DEF Items
<1> HIDE DEF e, it1, it2, c1, hosts
<1>8. Is(e2, it2, c1, <<>>, dialing, crInFlight, crUnread)
  BY <1>3, <1>4, <1>7 DEF Is, Effects
<1>9. /\ IsRequest(Request(hosts)) /\ ~IsAnswer(Request(hosts), Target)
      /\ Request(hosts) \in Stanzas
  BY <1>6, PeersAre, MessageKinds, NamesDiffer
<1> HIDE DEF e2
<1>10. Is(Send(e2, Request(hosts)), it2, c1, <<Request(hosts)>>, dialing, crInFlight, crUnread)
  <2>1. Append(<<>>, Request(hosts)) = <<Request(hosts)>>
    BY <1>9
  <2> QED BY <1>8, <1>9, <2>1, SendIs
<1>11. net[Target] = <<>> /\ AskT = {}
  <2>1. net[Target] = <<>>
    BY <1>1 DEF Known, NetOK
  <2> QED BY <2>1, EmptyNet DEF AskT
<1>12. MaySend(Initiator, Request(hosts))
  BY <1>9, <1>11, Quiet DEF MaySend
<1>13. c1.st = "Requesting"
  BY Quiet DEF c1, Connections
<1>18. Applies(Initiator, Send(e2, Request(hosts)), it2, c1, <<Request(hosts)>>, dialing,
               crInFlight, crUnread, net[Initiator])
  BY <1>1, <1>5, <1>10, <1>12 DEF Applies
<1>14. /\ I' = it2 /\ CI' = c1 /\ SameTarget
       /\ dialing' = dialing /\ SameCR /\ ToI' = ToI /\ AskI' = AskI
       /\ ToT' = ToT \cup (IF IsAnswer(Request(hosts), Target) THEN {Request(hosts)} ELSE {})
       /\ AskT' = AskT \cup (IF IsRequest(Request(hosts)) THEN {Request(hosts)} ELSE {})
       /\ NetOK'
  BY <1>13, <1>18, InitiatorHandles DEF SameCR
<1>15. Early
  BY <1>14, Quiet DEF Early
<1>16. AskT' = {Request(hosts)} /\ ToT' = ToT
  BY <1>9, <1>11, <1>14
<1>17. IAsks
  BY <1>1, <1>2, <1>6, <1>14, <1>15, <1>16 DEF IAsks, it2, c1
<1> QED BY <1>14, <1>17 DEF Step, InitiatorSteps

(* A stanza that nobody waits for, and a SOCKS request.                     *)
LEMMA StaleDoes ==
    ASSUME Known, NEW p \in Peers, RecvStale(p)
    PROVE  NetOK' /\ Step
<1>1. /\ Apply(p, Start(p), Tail(net[p])) /\ granted' = granted /\ excuse' = excuse
      /\ net[p] # <<>> /\ ~IsRequest(Head(net[p]))
  BY DEF RecvStale, Arrives, IsRequest
<1>2. TypeOK
  BY Quiet
<1>3. CASE p = Initiator
  <2> DEFINE e == Start(Initiator)
  <2>1. Is(e, I, CI, <<>>, dialing, crInFlight, crUnread)
    BY <1>2, StartIs
  <2>2. Apply(Initiator, e, Tail(net[Initiator])) /\ net[Initiator] # <<>>
    BY <1>1, <1>3
  <2> HIDE DEF e
  <2>5. Applies(Initiator, e, I, CI, <<>>, dialing, crInFlight, crUnread, Tail(net[Initiator]))
    BY <2>1, <2>2 DEF Applies
  <2>3. /\ I' = I /\ CI' = CI /\ SameTarget
        /\ dialing' = dialing /\ SameCR /\ HasRead(Initiator)
        /\ ToT' = ToT /\ AskT' = AskT /\ NetOK'
    BY <2>2, <2>5, InitiatorHandles DEF SameCR
  <2>4. ToI' \in {ToI, {}} /\ AskI' = AskI
    BY <1>1, <1>3, <2>3 DEF HasRead, ToI, AskI
  <2> QED BY <1>1, <2>3, <2>4 DEF IDrops, SameInitiator, SameRequests, Step, InitiatorSteps
<1>4. CASE p = Target
  <2> DEFINE e == Start(Target)
             rest == Tail(net[Target])
  <2>1. Is(e, T, CT, <<>>, dialing, crInFlight, crUnread)
    BY <1>2, StartIs
  <2>2. Apply(Target, e, rest) /\ net[Target] # <<>>
    BY <1>1, <1>4
  <2> HIDE DEF e
  <2>3. Applies(Target, e, T, CT, <<>>, dialing, crInFlight, crUnread, rest)
    BY <2>1, <2>2 DEF Applies
  <2>4. rest = Tail(net[Target])
    OBVIOUS
  <2> HIDE DEF rest
  <2>5. /\ T' = T /\ CT' = CT /\ SameInitiator
        /\ dialing' = dialing /\ crInFlight' = crInFlight /\ crUnread' = crUnread
        /\ net[Target] # <<>> /\ rest = Tail(net[Target]) => HasRead(Target)
        /\ ToI' = ToI /\ AskI' = AskI /\ NetOK'
    BY <2>3, TargetHandles
  <2>6. ToT' \in {ToT, {}} /\ AskT' = AskT
    BY <1>1, <1>4, <2>2, <2>4, <2>5 DEF HasRead, ToT, AskT
  <2> QED BY <1>1, <2>5, <2>6 DEF IDrops, SameTarget, SameRequests, SameCR, Step, InitiatorSteps
<1> QED BY <1>3, <1>4 DEF Peers

LEMMA GrantDoes ==
    ASSUME Known, NEW p \in Peers, Grant(p)
    PROVE  NetOK' /\ Step
<1>1. /\ p \in dialing /\ dialing' \subseteq dialing
      /\ con' = con /\ net' = net /\ SameCR /\ excuse' = excuse
  BY DEF Grant, SameCR
<1>2. /\ NetOK' /\ CI' = CI /\ CT' = CT /\ AskI' = AskI /\ AskT' = AskT /\ ToI' = ToI /\ ToT' = ToT
  BY <1>1, Quiet DEF Known, NetOK, CI, CT, AskI, AskT, ToI, ToT, Requests, Answers
<1>3. CASE ~item[p].allowIncoming
  <2>1. item' = item /\ granted' = granted
    BY <1>3 DEF Grant
  <2> QED BY <1>1, <1>2, <2>1 DEF IDrops, SameInitiator, SameTarget, SameRequests, I, T,
        Step, InitiatorSteps
<1>4. CASE item[p].allowIncoming
  <2>1. /\ item' = [item EXCEPT ![p] = [item[p] EXCEPT !.client = p, !.allowIncoming = FALSE]]
        /\ granted' = granted \cup {p}
    BY <1>4 DEF Grant
  <2>2. item \in [Peers -> Items]
    BY Quiet DEF TypeOK
  <2>3. CASE p = Initiator
    <3>1. I' = [I EXCEPT !.client = Initiator, !.allowIncoming = FALSE] /\ T' = T
      BY <2>1, <2>2, <2>3, PeersAre, Names DEF I, T
    <3>2. CT.st \notin {"Idle", "WaitingForAccept"} /\ I.allowIncoming
      BY <1>1, <1>4, <2>3, Quiet DEF I
    <3> QED BY <1>1, <1>2, <2>1, <2>3, <3>1, <3>2
          DEF IGrants, SameTarget, SameRequests, Step, InitiatorSteps
  <2>4. CASE p = Target
    <3>1. T' = [T EXCEPT !.client = Target, !.allowIncoming = FALSE] /\ I' = I
      BY <2>1, <2>2, <2>4, PeersAre, Names DEF I, T
    <3>2. T.allowIncoming
      BY <1>4, <2>4 DEF T
    <3> QED BY <1>1, <1>2, <2>1, <2>4, <3>1, <3>2
          DEF TGrants, SameInitiator, SameRequests, Step, TargetSteps
  <2> QED BY <2>3, <2>4 DEF Peers
<1> QED BY <1>3, <1>4

LEMMA FastRequestDoes ==
    ASSUME Known, RecvFastRequest
    PROVE  NetOK' /\ Step
<1> DEFINE m == Head(net[Initiator])
           rest == Tail(net[Initiator])
           hosts == m.hosts
           e == Start(Initiator)
           fastE == [e EXCEPT !.it.targetMode = "Fast"]
           fastI == [I EXCEPT !.targetMode = "Fast"]
           dialE == [fastE EXCEPT !.it.hosts = hosts]
           dialI == [I EXCEPT !.targetMode = "Fast", !.hosts = hosts]
<1>1. /\ net[Initiator] # <<>> /\ m.kind = "request"
      /\ granted' = granted /\ excuse' = excuse
      /\ Apply(Initiator, IF Expected THEN HandleFast(e, hosts) ELSE Send(e, Error(Target)), rest)
  BY DEF RecvFastRequest, Arrives
<1>2. IsRequest(m) /\ ~IsAnswer(m, Initiator)
  BY <1>1 DEF IsRequest, IsAnswer
<1>3. m \in AskI
  <2>1. net[Initiator] \in Seq(Stanzas)
    BY Vocabulary, Quiet
  <2>2. m = net[Initiator][1] /\ 1 \in 1..Len(net[Initiator])
    BY <1>1, <2>1
  <2> QED BY <1>2, <2>2 DEF AskI, Requests
<1>4. hosts \subseteq TargetHosts /\ hosts # {} /\ hosts \in SUBSET StreamHosts
  BY <1>3 DEF Known, KnownParts, Beginning, TargetHosts, StreamHosts, Peers, Proxies
<1>5. /\ CT.st \notin {"Idle", "WaitingForAccept"} /\ CI.st # "Idle"
      /\ I.targetMode = "Unknown" /\ ToT = {}
  BY <1>3, Started DEF Known, KnownParts, Beginning, ModeKnown, OneAnswer, AnswersT
<1>6. /\ Error(Target) \in Stanzas /\ IsAnswer(Error(Target), Target) /\ ~IsRequest(Error(Target))
      /\ MaySend(Initiator, Error(Target))
  BY <1>5, PeersAre, NamesDiffer, MessageKinds, Quiet DEF MaySend
<1>7. Append(<<>>, Error(Target)) = <<Error(Target)>>
  BY <1>6
<1>8. Is(e, I, CI, <<>>, dialing, crInFlight, crUnread)
  BY Quiet, StartIs
<1>9. fastI \in Items /\ dialI \in Items
  BY <1>4, Quiet DEF Items
<1>10. Is(fastE, fastI, CI, <<>>, dialing, crInFlight, crUnread)
  <2> HIDE DEF e
  <2> QED BY <1>8, <1>9 DEF Is, Effects
<1>11. ASSUME NEW x, NEW it, NEW out, NEW dial,
              Applies(Initiator, x, it, CI, out, dial, crInFlight, crUnread, rest),
              out = <<>> \/ out = <<Error(Target)>>
       PROVE  /\ I' = it /\ NetOK' /\ FastRequestRead
              /\ ToT' = ToT \cup (IF out = <<>> THEN {} ELSE {Error(Target)})
  <2>0. rest = Tail(net[Initiator]) /\ m = Head(net[Initiator])
    OBVIOUS
  <2> HIDE DEF m, rest
  <2>1. /\ I' = it /\ CI' = CI /\ SameTarget
        /\ dialing' = dial /\ crInFlight' = crInFlight /\ crUnread' = crUnread
        /\ net[Initiator] # <<>> /\ rest = Tail(net[Initiator]) => HasRead(Initiator)
        /\ out = <<>> => ToT' = ToT /\ AskT' = AskT
        /\ \A x2 : out = <<x2>> =>
             /\ ToT' = ToT \cup (IF IsAnswer(x2, Target) THEN {x2} ELSE {})
             /\ AskT' = AskT \cup (IF IsRequest(x2) THEN {x2} ELSE {})
        /\ NetOK'
    BY <1>5, <1>11, InitiatorHandles
  <2>2. AskT' = AskT /\ ToT' = ToT \cup (IF out = <<>> THEN {} ELSE {Error(Target)})
    BY <1>6, <1>11, <2>1
  <2>3. AskI # {} /\ AskI' = {} /\ ToI' = ToI
    BY <1>1, <1>2, <1>3, <2>0, <2>1 DEF HasRead, AskI, ToI
  <2>4. Early
    BY <1>5 DEF Early
  <2> QED BY <1>1, <2>1, <2>2, <2>3, <2>4 DEF FastRequestRead, SameCR
<1> HIDE DEF m, rest, hosts
<1>12. CASE ~Expected
  <2> HIDE DEF e
  <2>1. Is(Send(e, Error(Target)), I, CI, <<Error(Target)>>, dialing, crInFlight, crUnread)
    BY <1>6, <1>7, <1>8, SendIs
  <2>2. Applies(Initiator, Send(e, Error(Target)), I, CI, <<Error(Target)>>, dialing,
                crInFlight, crUnread, rest)
    BY <1>1, <1>6, <1>12, <2>1 DEF Applies, rest
  <2>3. I' = I /\ NetOK' /\ FastRequestRead /\ ToT' = ToT \cup {Error(Target)}
    BY <1>11, <2>2
  <2>4. I.state # "Initiator"
    BY <1>5, <1>12 DEF Expected, I
  <2> QED BY <2>3, <2>4 DEF IRefuses, Step, InitiatorSteps
<1>13. CASE Expected /\ I.client # NoStream
  <2>1. HandleFast(e, hosts) = Send(fastE, Error(Target))
    BY <1>8, <1>13 DEF HandleFast, Is
  <2> HIDE DEF e, fastE, fastI
  <2>2. Is(Send(fastE, Error(Target)), fastI, CI, <<Error(Target)>>, dialing, crInFlight, crUnread)
    BY <1>6, <1>7, <1>10, SendIs
  <2>3. Applies(Initiator, Send(fastE, Error(Target)), fastI, CI, <<Error(Target)>>, dialing,
                crInFlight, crUnread, rest)
    BY <1>1, <1>6, <1>13, <2>1, <2>2 DEF Applies, rest
  <2>4. I' = fastI /\ NetOK' /\ FastRequestRead /\ ToT' = ToT \cup {Error(Target)}
    BY <1>11, <2>3
  <2>5. I.state = "Initiator"
    BY <1>13 DEF Expected, I
  <2> QED BY <1>5, <1>13, <2>4, <2>5 DEF IRefuses, Step, InitiatorSteps, fastI
<1>14. CASE Expected /\ I.client = NoStream
  <2>1. HandleFast(e, hosts) = DoIncoming(Initiator, dialE)
    BY <1>8, <1>14 DEF HandleFast, Is
  <2>2. I.state = "Initiator" /\ ~I.lateProxy /\ I.conn = {}
    BY <1>5, <1>14 DEF Expected, I, Known, KnownParts, InitiatorOK
  <2>3. Is(dialE, dialI, CI, <<>>, dialing, crInFlight, crUnread)
    <3> HIDE DEF e
    <3>1. [fastI EXCEPT !.hosts = hosts] = dialI
      OBVIOUS
    <3> HIDE DEF fastE, fastI, dialI
    <3> QED BY <1>9, <1>10, <3>1 DEF Is, Effects
  <2>4. ~dialI.lateProxy /\ dialI.hosts = hosts /\ dialI.conn = {}
    BY <2>2, Quiet DEF Items
  <2> HIDE DEF e, fastE, fastI, dialE, dialI
  <2>5. PICK D \in SUBSET hosts, L \in BOOLEAN :
          /\ Is(DoIncoming(Initiator, dialE), [dialI EXCEPT !.lateProxy = L, !.conn = D], CI,
                <<>>, dialing \cup (D \cap Peers), crInFlight, crUnread)
          /\ D # {} \/ L
          /\ L => hosts \cap Proxies # {}
    BY <1>4, <2>3, <2>4, DoIncomingIs
  <2> DEFINE it == [dialI EXCEPT !.lateProxy = L, !.conn = D]
             dial == dialing \cup (D \cap Peers)
  <2>6. Applies(Initiator, DoIncoming(Initiator, dialE), it, CI, <<>>, dial,
                crInFlight, crUnread, rest)
    BY <1>1, <1>14, <2>1, <2>5 DEF Applies, rest
  <2> HIDE DEF it, dial
  <2>7. I' = it /\ NetOK' /\ FastRequestRead /\ ToT' = ToT \cup {}
    BY <1>11, <2>6
  <2>8. I' = [I EXCEPT !.targetMode = "Fast", !.hosts = hosts, !.conn = D, !.lateProxy = L]
    BY <2>7, Quiet DEF it, dialI, Items
  <2>9. IDials(hosts, D, L)
    BY <1>4, <1>5, <1>14, <2>2, <2>5, <2>7, <2>8 DEF IDials
  <2>10. hosts \in SUBSET TargetHosts /\ D \in SUBSET TargetHosts
    BY <1>4, <2>5
  <2> QED BY <2>7, <2>9, <2>10 DEF Step, InitiatorSteps
<1> QED BY <1>12, <1>13, <1>14

(* While its connector is at work.                                          *)
LEMMA InitiatorDialling ==
    ASSUME Known, I.conn # {}
    PROVE  /\ I.state = "Initiator" /\ CI.st = "Requesting" /\ I.targetMode = "Fast"
           /\ ~I.activated /\ ~I.connSuccess /\ ~I.localFailed /\ ~I.proxyConn /\ ~I.proxyTask
           /\ ToT = {} /\ CT.st \notin {"Idle", "WaitingForAccept"} /\ CanDial(I)
           /\ I.hosts \subseteq TargetHosts /\ I.conn \subseteq I.hosts
           /\ I.lateProxy => I.hosts \cap Proxies # {}
           /\ I.task => ~I.remoteFailed
<1>1. I.state = "Initiator"
  BY DEF Known, KnownParts, Linked, Nothing, InitiatorOK, ItemOK
<1>2. CI.st = "Requesting"
  BY <1>1 DEF Known, KnownParts, Linked
<1>3. /\ I.targetMode = "Fast" /\ ~I.activated /\ ~I.connSuccess /\ ~I.localFailed
      /\ ~I.proxyConn /\ ~I.proxyTask /\ I.hosts \subseteq TargetHosts /\ I.conn \subseteq I.hosts
      /\ I.lateProxy => I.hosts \cap Proxies # {}
      /\ I.task => ~I.remoteFailed
  BY <1>1 DEF Known, KnownParts, InitiatorOK, ItemOK
<1>4. ToT = {}
  BY DEF Known, KnownParts, OneAnswer, AnswersT
<1>5. CT.st \notin {"Idle", "WaitingForAccept"}
  BY <1>3, Started
<1> QED BY <1>1, <1>2, <1>3, <1>4, <1>5 DEF CanDial

LEMMA InitiatorConnectsDoes ==
    ASSUME Known, NEW h \in StreamHosts, ConnectorSucceeds(Initiator, h)
    PROVE  NetOK' /\ Step
<1> DEFINE e == Start(Initiator)
           it == [I EXCEPT !.conn = {}, !.connSuccess = TRUE, !.lateProxy = FALSE]
           e1 == [e EXCEPT !.it.conn = {}, !.it.connSuccess = TRUE, !.it.lateProxy = FALSE]
           done == Send(e1, Success(Target, h))
           e2 == [done EXCEPT !.it.client = h, !.it.allowIncoming = FALSE]
           it2 == [it EXCEPT !.client = h, !.allowIncoming = FALSE]
<1>1. /\ h \in I.conn /\ h \in granted \cup Proxies
      /\ granted' = granted /\ excuse' = excuse
      /\ Apply(Initiator, ConnResultTrue(Initiator, e, h), net[Initiator])
  BY DEF ConnectorSucceeds, I
<1>2. /\ I.state = "Initiator" /\ CI.st = "Requesting" /\ I.targetMode = "Fast" /\ ~I.activated
      /\ ToT = {} /\ CT.st \notin {"Idle", "WaitingForAccept"} /\ h \in TargetHosts
  BY <1>1, InitiatorDialling
<1>3. it \in Items /\ it2 \in Items
  <2>1. I \in Items /\ h \in Streams
    BY Quiet DEF Streams
  <2> QED BY <2>1 DEF Items
<1>4. Is(e, I, CI, <<>>, dialing, crInFlight, crUnread)
  BY Quiet, StartIs
<1>5. ConnResultTrue(Initiator, e, h) = TryActivation(e2)
  BY Quiet DEF ConnResultTrue
<1>6. it2.targetMode = "Fast" /\ ~it2.activated /\ it2.client = h
  BY <1>2, Quiet DEF Items
<1> HIDE DEF e
<1>7. Is(e1, it, CI, <<>>, dialing, crInFlight, crUnread)
  BY <1>3, <1>4 DEF Is, Effects
<1> HIDE DEF e1
<1>8. Is(done, it, CI, <<Success(Target, h)>>, dialing, crInFlight, crUnread)
  <2>1. Success(Target, h) \in Stanzas
    BY StanzaTypes, PeersAre
  <2>2. Append(<<>>, Success(Target, h)) = <<Success(Target, h)>>
    BY <2>1
  <2> HIDE DEF it
  <2> QED BY <1>7, <2>1, <2>2, SendIs
<1> HIDE DEF done
<1>9. Is(e2, it2, CI, <<Success(Target, h)>>, dialing, crInFlight, crUnread)
  <2> HIDE DEF it
  <2> QED BY <1>3, <1>8 DEF Is, Effects
<1> HIDE DEF e2
<1>10. Is(TryActivation(e2), [it2 EXCEPT !.task = FALSE, !.activated = TRUE], CI,
          <<Success(Target, h)>>, dialing, crInFlight \cup {h}, crUnread)
  <2> HIDE DEF it2
  <2> QED BY <1>6, <1>9, TryActivationIs
<1>11. Answer(Initiator, <<Success(Target, h)>>, {Success(Target, h)})
  BY <1>2, Quiet, PeersAre, AnswerIs
<1> DEFINE it3 == [it2 EXCEPT !.task = FALSE, !.activated = TRUE]
<1>12. it3 = [I EXCEPT !.conn = {}, !.connSuccess = TRUE, !.lateProxy = FALSE, !.client = h,
                       !.allowIncoming = FALSE, !.task = FALSE, !.activated = TRUE]
  BY Quiet DEF Items
<1> HIDE DEF it2, it3
<1>13. Handler(Initiator, TryActivation(e2), it3, CI, <<Success(Target, h)>>, dialing,
               crInFlight \cup {h}, crUnread, {Success(Target, h)}, FALSE)
  BY <1>1, <1>2, <1>5, <1>10, <1>11 DEF Handler, it3
<1>14. /\ I' = it3 /\ CI' = CI /\ NewCR(h) /\ InitiatorSays({Success(Target, h)}, FALSE) /\ NetOK'
  BY <1>2, <1>13, InitiatorActs DEF NewCR
<1>15. IConnects(h)
  BY <1>1, <1>2, <1>12, <1>14 DEF IConnects
<1> QED BY <1>2, <1>14, <1>15 DEF Step, InitiatorSteps

LEMMA InitiatorConnectorFailsDoes ==
    ASSUME Known, NEW h \in StreamHosts, NEW late \in BOOLEAN, ConnectorFails(Initiator, h, late)
    PROVE  NetOK' /\ Step
<1> DEFINE e == [Start(Initiator) EXCEPT !.it.conn = @ \ {h},
                                         !.dial = IF late THEN @ ELSE @ \ {h}]
           D == I.conn \ {h}
           it == [I EXCEPT !.conn = D]
           dial == IF late THEN dialing ELSE dialing \ {h}
           r == IF e.it.conn = {} THEN ConnResultFalse(Initiator, e) ELSE e
<1>1. /\ h \in I.conn /\ granted' = granted /\ excuse \subseteq excuse'
      /\ Apply(Initiator, r, net[Initiator])
  BY DEF ConnectorFails, I
<1>2. /\ I.state = "Initiator" /\ CI.st = "Requesting" /\ I.targetMode = "Fast"
      /\ ~I.activated /\ ~I.connSuccess /\ ~I.localFailed /\ ~I.proxyConn /\ ~I.proxyTask
      /\ ToT = {} /\ CT.st \notin {"Idle", "WaitingForAccept"} /\ CanDial(I)
      /\ I.hosts \subseteq TargetHosts /\ I.conn \subseteq I.hosts
      /\ I.lateProxy => I.hosts \cap Proxies # {}
      /\ I.task => ~I.remoteFailed
  BY <1>1, InitiatorDialling
<1>3. it \in Items /\ D \in SUBSET I.hosts
  <2>1. I \in Items /\ D \in SUBSET StreamHosts
    BY Quiet DEF Items
  <2> HIDE DEF D
  <2>2. it \in Items
    BY <2>1 DEF Items
  <2> QED BY <1>2, <2>2 DEF D
<1>4. Is(e, it, CI, <<>>, dial, crInFlight, crUnread)
  <2>1. Is(Start(Initiator), I, CI, <<>>, dialing, crInFlight, crUnread)
    BY Quiet, StartIs
  <2> QED BY <2>1, <1>3 DEF Is, Effects
<1>5. /\ it.conn = D /\ it.lateProxy = I.lateProxy /\ it.remoteFailed = I.remoteFailed
      /\ it.hosts = I.hosts /\ it.targetMode = I.targetMode
  BY Quiet DEF Items
<1>6. r = IF D = {} THEN ConnResultFalse(Initiator, e) ELSE e
  BY <1>4, <1>5 DEF Is
<1> HIDE DEF r
<1>7. ASSUME NEW it2, NEW D2 \in SUBSET I.hosts, NEW L \in BOOLEAN, NEW dial2,
             Is(r, it2, CI, <<>>, dial2, crInFlight, crUnread),
             it2 = [I EXCEPT !.conn = D2, !.lateProxy = L],
             L => I.lateProxy, L /\ D2 = {} => ~I.remoteFailed
      PROVE  NetOK' /\ Step
  <2>1. Handler(Initiator, r, it2, CI, <<>>, dial2, crInFlight, crUnread, {}, FALSE)
    BY <1>1, <1>2, <1>7, Quiet DEF Handler
  <2>2. I' = it2 /\ CI' = CI /\ SameCR /\ InitiatorSays({}, FALSE) /\ NetOK'
    BY <1>2, <2>1, InitiatorActs DEF SameCR
  <2>3. it2 = [I EXCEPT !.conn = D2, !.lateProxy = L, !.task = I.task /\ ~FALSE,
                        !.remoteFailed = I.remoteFailed \/ FALSE]
    BY <1>7, Quiet DEF Items
  <2>4. ITries(D2, L, FALSE)
    BY <1>2, <1>7, <2>2, <2>3 DEF ITries
  <2>5. D2 \in SUBSET TargetHosts
    BY <1>2
  <2> QED BY <2>2, <2>4, <2>5 DEF Step, InitiatorSteps
<1>8. CASE D # {}
  <2>1. it = [I EXCEPT !.conn = D, !.lateProxy = I.lateProxy] /\ I.lateProxy \in BOOLEAN
    BY Quiet DEF Items
  <2> HIDE DEF it, e, D, dial
  <2> QED BY <1>3, <1>4, <1>6, <1>7, <1>8, <2>1
<1>9. CASE D = {} /\ I.lateProxy
  <2>1. r = IF I.remoteFailed THEN DoIncoming(Initiator, e) ELSE e
    BY <1>4, <1>5, <1>6, <1>9 DEF ConnResultFalse, Is
  <2>2. CASE I.remoteFailed
    <3> DEFINE D2 == I.hosts \cap Proxies
               it2 == [it EXCEPT !.lateProxy = FALSE, !.conn = it.hosts \cap Proxies]
    <3>1. it2 = [I EXCEPT !.conn = D2, !.lateProxy = FALSE] /\ D2 \in SUBSET I.hosts
      BY <1>5, Quiet DEF Items
    <3>2. I.hosts # {}
      BY <1>2, <1>9
    <3> HIDE DEF e, it, dial
    <3>3. Is(r, it2, CI, <<>>, dial \cup ((it.hosts \cap Proxies) \cap Peers), crInFlight, crUnread)
      BY <1>4, <1>5, <1>9, <2>1, <2>2, <3>2, DoIncomingLateIs
    <3> HIDE DEF D2, it2
    <3> QED BY <1>7, <3>1, <3>3
  <2>3. CASE ~I.remoteFailed
    <3>1. it = [I EXCEPT !.conn = D, !.lateProxy = TRUE]
      BY <1>9, Quiet DEF Items
    <3> HIDE DEF it, e, D, dial
    <3> QED BY <1>3, <1>4, <1>7, <1>9, <2>1, <2>3, <3>1
  <2> QED BY <2>2, <2>3
<1>10. CASE D = {} /\ ~I.lateProxy
  <2> DEFINE it2 == [it EXCEPT !.localFailed = TRUE]
  <2>1. r = DoConnectError(Initiator, e)
    BY <1>4, <1>5, <1>6, <1>10 DEF ConnResultFalse, Is
  <2>2. /\ it2.remoteFailed = I.remoteFailed /\ it2.targetMode = "Fast" /\ it2.localFailed
        /\ it2 = [I EXCEPT !.conn = {}, !.localFailed = TRUE]
    BY <1>2, <1>10, Quiet DEF Items
  <2>3. GaveUp(Initiator, it2) <=> I.remoteFailed
    BY <2>2 DEF GaveUp
  <2>4. Append(<<>>, Error(Other(Initiator))) = <<Error(Target)>>
    <3>1. Error(Target) \in Stanzas
      BY PeersAre, NamesDiffer, StanzaTypes
    <3> QED BY <3>1, Quiet
  <2> HIDE DEF e, it, dial
  <2>5. IF GaveUp(Initiator, it2)
        THEN Is(r, NoItem, Connection("Failed", NoStream), <<Error(Target)>>, dial,
                crInFlight, crUnread)
        ELSE Is(r, it2, CI, <<Error(Target)>>, dial, crInFlight, crUnread)
    <3> DEFINE out2 == Append(<<>>, Error(Other(Initiator)))
    <3>1. IF GaveUp(Initiator, it2)
          THEN Is(r, NoItem, Connection("Failed", NoStream), out2, dial, crInFlight, crUnread)
          ELSE Is(r, it2, CI, out2, dial, crInFlight, crUnread)
      BY <1>4, <2>1, PeersAre, DoConnectErrorIs
    <3> QED BY <2>4, <3>1
  <2> HIDE DEF it2
  <2>6. Answer(Initiator, <<Error(Target)>>, {Error(Target)})
    BY <1>2, Quiet, PeersAre, AnswerIs
  <2>7. CASE I.remoteFailed
    <3>1. Connection("Failed", NoStream).st = "Failed"
      BY DEF Connection
    <3>2. Handler(Initiator, r, NoItem, Connection("Failed", NoStream), <<Error(Target)>>, dial,
                  crInFlight, crUnread, {Error(Target)}, FALSE)
      BY <1>1, <2>3, <2>5, <2>6, <2>7, <3>1 DEF Handler
    <3> QED BY <1>1, <1>2, <1>10, <2>7, <3>2, InitiatorFails
  <2>8. CASE ~I.remoteFailed
    <3>1. Handler(Initiator, r, it2, CI, <<Error(Target)>>, dial, crInFlight, crUnread,
                  {Error(Target)}, FALSE)
      BY <1>1, <1>2, <2>3, <2>5, <2>6, <2>8 DEF Handler
    <3>2. I' = it2 /\ CI' = CI /\ SameCR /\ InitiatorSays({Error(Target)}, FALSE) /\ NetOK'
      BY <1>2, <3>1, InitiatorActs DEF SameCR
    <3>3. IGivesUp
      BY <1>1, <1>2, <1>10, <2>2, <3>2 DEF IGivesUp
    <3> QED BY <3>2, <3>3 DEF Step, InitiatorSteps
  <2> QED BY <2>7, <2>8
<1> QED BY <1>8, <1>9, <1>10

LEMMA StopConnectingIs ==
    ASSUME NEW p \in Peers, NEW e, NEW it, NEW c, NEW dial, NEW cr, NEW un,
           Is(e, it, c, <<>>, dial, cr, un),
           ~GaveUp(p, [it EXCEPT !.conn = {}, !.localFailed = TRUE])
    PROVE  LET sorry == it.conn # {} \/ it.lateProxy
               it2 == [it EXCEPT !.conn = {}, !.localFailed = it.localFailed \/ sorry]
           IN  Is(StopConnecting(p, e), it2, c, IF sorry THEN <<Error(Other(p))>> ELSE <<>>,
                  dial, cr, un)
<1> DEFINE sorry == it.conn # {} \/ it.lateProxy
           it2 == [it EXCEPT !.conn = {}, !.localFailed = it.localFailed \/ sorry]
           it1 == [it EXCEPT !.conn = {}]
           e1 == [e EXCEPT !.it.conn = {}]
<1>1. e.it = it /\ it \in Items
  BY DEF Is, Effects
<1>2. CASE sorry
  <2>1. it1 \in Items
    BY <1>1 DEF Items
  <2>2. Is(e1, it1, c, <<>>, dial, cr, un)
    BY <2>1 DEF Is, Effects
  <2>3. StopConnecting(p, e) = DoConnectError(p, e1)
    BY <1>1, <1>2 DEF StopConnecting
  <2>4. [it1 EXCEPT !.localFailed = TRUE] = [it EXCEPT !.conn = {}, !.localFailed = TRUE]
    OBVIOUS
  <2>5. [it1 EXCEPT !.localFailed = TRUE] = it2
    BY <1>1, <1>2 DEF Items
  <2>6. Append(<<>>, Error(Other(p))) = <<Error(Other(p))>>
    <3>1. Error(Other(p)) \in Stanzas
      BY NamesDiffer, StanzaTypes
    <3> QED BY <3>1
  <2> HIDE DEF it1, e1, it2
  <2> DEFINE out2 == Append(<<>>, Error(Other(p)))
             it3 == [it1 EXCEPT !.localFailed = TRUE]
  <2>7. IF GaveUp(p, it3)
        THEN Is(DoConnectError(p, e1), NoItem, Connection("Failed", NoStream), out2, dial, cr, un)
        ELSE Is(DoConnectError(p, e1), it3, c, out2, dial, cr, un)
    BY <2>2, DoConnectErrorIs
  <2>8. Is(DoConnectError(p, e1), it3, c, out2, dial, cr, un)
    BY <2>4, <2>7
  <2>9. Is(StopConnecting(p, e), it2, c, <<Error(Other(p))>>, dial, cr, un)
    BY <2>3, <2>5, <2>6, <2>8
  <2> QED BY <1>2, <2>9 DEF it2
<1>3. CASE ~sorry
  <2>1. StopConnecting(p, e) = e
    BY <1>1, <1>3 DEF StopConnecting
  <2>2. it2 = it
    BY <1>1, <1>3 DEF Items
  <2> HIDE DEF it2
  <2>3. Is(StopConnecting(p, e), it2, c, <<>>, dial, cr, un)
    BY <2>1, <2>2
  <2> QED BY <1>3, <2>3 DEF it2
<1> QED BY <1>2, <1>3

(* p reads an answer to its own request.                                    *)
LEMMA AnswerRead ==
    ASSUME TypeOK, NEW p \in Peers, RecvAnswer(p)
    PROVE  LET m == Head(net[p])
           IN  /\ net[p] # <<>> /\ IsAnswer(m, p) /\ m \in Answers(p)
               /\ item[p].task /\ granted' = granted
               /\ Apply(p, JtFinished(p, m), Tail(net[p]))
               /\ excuse' = IF con[p].st = "Active" THEN excuse \cup {"lateAnswer"} ELSE excuse
<1> DEFINE m == Head(net[p])
<1>1. /\ net[p] # <<>> /\ IsAnswer(m, p)
      /\ item[p].task /\ granted' = granted
      /\ Apply(p, JtFinished(p, m), Tail(net[p]))
      /\ excuse' = IF con[p].st = "Active" THEN excuse \cup {"lateAnswer"} ELSE excuse
  BY DEF RecvAnswer, Arrives, IsAnswer
<1>2. net[p] \in Seq(Stanzas)
  BY DEF TypeOK
<1>3. m = net[p][1] /\ 1 \in 1..Len(net[p])
  BY <1>1, <1>2
<1>4. m \in Answers(p)
  BY <1>1, <1>3 DEF Answers
<1> QED BY <1>1, <1>4

LEMMA ChosenHost ==
    ASSUME NEW p, NEW s
    PROVE  (CHOOSE h \in Success(p, s).hosts : TRUE) = s
  BY DEF Success

LEMMA PeerConnectedIs ==
    ASSUME NEW p \in Peers, NEW e
    PROVE  LET s == StopConnecting(p, e)
           IN  /\ PeerConnected(p, e, p)
                    = IF s.it.client = NoStream THEN Fail(s)
                      ELSE IF s.it.state = "Initiator" THEN TryActivation(s)
                      ELSE CheckForActivation(s)
               /\ PeerConnected(p, e, Proxy(p))
                    = [s EXCEPT !.it.client = NoStream, !.it.allowIncoming = FALSE,
                                !.it.proxyConn = TRUE]
<1>1. p # Proxy(p)
  BY NamesDiffer DEF Peers
<1> QED BY <1>1 DEF PeerConnected

(* While the initiator waits for its answer.                                *)
LEMMA InitiatorAsking ==
    ASSUME Known, I.task
    PROVE  /\ Asking /\ CI.st = "Requesting" /\ I.targetMode \in {"Unknown", "Fast"}
           /\ ~I.activated /\ ~I.connSuccess /\ ~I.remoteFailed /\ ~I.proxyConn /\ ~I.proxyTask
           /\ I.lateProxy => ~I.localFailed
           /\ I.targetMode = "Unknown" =>
                /\ I.conn = {} /\ ~I.lateProxy /\ ~I.localFailed
                /\ I.client \in {NoStream, Initiator}
           /\ I.client \in {NoStream, Initiator}
           /\ I.conn # {} \/ I.lateProxy => ToT = {} /\ CanDial(I)
           /\ I.hosts \subseteq TargetHosts /\ I.conn \subseteq I.hosts
           /\ I.lateProxy => I.hosts \cap Proxies # {}
           /\ \A m \in ToI : m.kind \in {"success", "error"}
           /\ \A m \in ToI : m.kind = "success" => \E s \in InitiatorHosts : m = Success(Initiator, s)
<1>1. I.state = "Initiator"
  BY DEF Known, KnownParts, Linked, Nothing, InitiatorOK
<1>2. CI.st = "Requesting"
  BY <1>1 DEF Known, KnownParts, Linked
<1>3. /\ I.targetMode \in {"Unknown", "Fast"}
      /\ ~I.activated /\ ~I.connSuccess /\ ~I.remoteFailed /\ ~I.proxyConn /\ ~I.proxyTask
      /\ I.lateProxy => ~I.localFailed
      /\ I.hosts \subseteq TargetHosts /\ I.conn \subseteq I.hosts
      /\ I.lateProxy => I.hosts \cap Proxies # {}
      /\ I.targetMode = "Unknown" =>
           /\ I.conn = {} /\ ~I.lateProxy /\ ~I.localFailed
           /\ I.client \in {NoStream, Initiator}
      /\ I.client \in {NoStream, Initiator, InitiatorProxy} \cup TargetHosts
  BY <1>1 DEF Known, KnownParts, InitiatorOK, ItemOK
<1>4. I.client \in {NoStream, Initiator}
  BY <1>1, <1>3 DEF Known, KnownParts, InitiatorOK
<1>5. I.conn # {} \/ I.lateProxy => ToT = {} /\ CanDial(I)
  BY <1>3 DEF Known, KnownParts, OneAnswer, AnswersT, CanDial
<1>6. \A m \in ToI : m.kind = "success" => \E s \in InitiatorHosts : m = Success(Initiator, s)
  BY DEF Known, KnownParts, SuccessTrue
<1>7. \A m \in ToI : m.kind \in {"success", "error"}
  BY Messages DEF ToI
<1> QED BY <1>1, <1>2, <1>3, <1>4, <1>5, <1>6, <1>7 DEF Asking

LEMMA InitiatorAnswerDoes ==
    ASSUME Known, RecvAnswer(Initiator)
    PROVE  NetOK' /\ Step
<1> DEFINE m == Head(net[Initiator])
           mode == IF I.targetMode = "Unknown" THEN "NotFast" ELSE I.targetMode
           e == TaskOver(Initiator, Start(Initiator))
           it == [I EXCEPT !.task = FALSE, !.targetMode = mode]
           r == JtFinished(Initiator, m)
<1>1. /\ net[Initiator] # <<>> /\ IsAnswer(m, Initiator) /\ m \in ToI
      /\ I.task /\ granted' = granted
      /\ Apply(Initiator, r, Tail(net[Initiator]))
      /\ excuse' = IF CI.st = "Active" THEN excuse \cup {"lateAnswer"} ELSE excuse
  BY Quiet, PeersAre, AnswerRead DEF I, CI
<1>2. /\ Asking /\ CI.st = "Requesting" /\ I.targetMode \in {"Unknown", "Fast"}
      /\ ~I.activated /\ ~I.connSuccess /\ ~I.remoteFailed /\ ~I.proxyConn /\ ~I.proxyTask
      /\ I.lateProxy => ~I.localFailed
      /\ I.targetMode = "Unknown" =>
           /\ I.conn = {} /\ ~I.lateProxy /\ ~I.localFailed
           /\ I.client \in {NoStream, Initiator}
      /\ I.client \in {NoStream, Initiator}
      /\ I.conn # {} \/ I.lateProxy => ToT = {} /\ CanDial(I)
      /\ I.hosts \subseteq TargetHosts /\ I.conn \subseteq I.hosts
      /\ I.lateProxy => I.hosts \cap Proxies # {}
      /\ m.kind \in {"success", "error"}
      /\ m.kind = "success" => \E s \in InitiatorHosts : m = Success(Initiator, s)
  BY <1>1, InitiatorAsking
<1>3. excuse' = excuse /\ I.state = "Initiator"
  BY <1>1, <1>2 DEF Asking
<1>4. CT.st \notin {"Idle", "WaitingForAccept"}
  BY <1>1, Started
<1>5. it \in Items
  BY <1>2, Quiet DEF Items
<1>6. Is(e, it, CI, <<>>, dialing, crInFlight, crUnread)
  <2>1. Is(Start(Initiator), I, CI, <<>>, dialing, crInFlight, crUnread)
    BY Quiet, StartIs
  <2> QED BY <2>1, <1>3, <1>5 DEF Is, Effects, TaskOver
<1>7. /\ it.state = "Initiator" /\ it.conn = I.conn /\ it.lateProxy = I.lateProxy
      /\ it.localFailed = I.localFailed /\ ~it.remoteFailed /\ ~it.connSuccess
      /\ it.client = I.client /\ it.targetMode = mode /\ it.hosts = I.hosts /\ ~it.activated
  BY <1>2, <1>3, Quiet DEF Items
<1>8. r = IF m.kind = "success" THEN PeerConnected(Initiator, e, CHOOSE h \in m.hosts : TRUE)
          ELSE PeerFailed(Initiator, e)
  <2> HIDE DEF e, it
  <2> QED BY <1>6, <1>7 DEF JtFinished, Moot, Is, e
<1> HIDE DEF m, r
<1>9. ASSUME NEW it2, NEW c2, NEW out, NEW said, NEW dial2, NEW cr2, c2.st # "Idle",
             c2.st # "WaitingForAccept",
             Is(r, it2, c2, out, dial2, cr2, crUnread), Answer(Initiator, out, said)
      PROVE  Handler(Initiator, r, it2, c2, out, dial2, cr2, crUnread, said, TRUE)
  BY <1>1, <1>3, <1>9 DEF Handler, m
<1>10. CASE m.kind = "success"
  <2> DEFINE stopped == StopConnecting(Initiator, e)
             sorry == I.conn # {} \/ I.lateProxy
             it1 == [it EXCEPT !.conn = {}, !.localFailed = I.localFailed \/ sorry]
             out == IF sorry THEN <<Error(Target)>> ELSE <<>>
  <2>1. PICK s \in InitiatorHosts : m = Success(Initiator, s)
    BY <1>2, <1>10
  <2>2. s \in StreamHosts /\ (s = Initiator \/ s = InitiatorProxy)
    BY DEF InitiatorHosts, StreamHosts, Peers, Proxies
  <2>3. r = PeerConnected(Initiator, e, s)
    <3> HIDE DEF e
    <3>1. (CHOOSE h \in m.hosts : TRUE) = s
      BY <2>1, ChosenHost
    <3> QED BY <1>8, <1>10, <3>1
  <2>4. Is(stopped, it1, CI, out, dialing, crInFlight, crUnread)
    <3>1. ~GaveUp(Initiator, [it EXCEPT !.conn = {}, !.localFailed = TRUE])
      BY <1>5, <1>7 DEF GaveUp, Items
    <3> HIDE DEF e, it
    <3>2. Is(stopped, [it EXCEPT !.conn = {}, !.localFailed = it.localFailed
                                                  \/ (it.conn # {} \/ it.lateProxy)],
             CI, IF it.conn # {} \/ it.lateProxy THEN <<Error(Other(Initiator))>> ELSE <<>>,
             dialing, crInFlight, crUnread)
      BY <1>6, <3>1, PeersAre, StopConnectingIs
    <3> QED BY <1>7, <3>2, Quiet
  <2>5. it1 \in Items /\ it1.client = I.client /\ it1.state = "Initiator" /\ ~it1.activated
        /\ it1.targetMode = mode
    <3>1. I.localFailed \in BOOLEAN
      BY Quiet DEF Items
    <3> HIDE DEF it
    <3> QED BY <3>1, <1>7, <1>5 DEF Items
  <2>6. Answer(Initiator, out, Sorry(Target, I))
    BY <1>2, Quiet, PeersAre, NamesDiffer, AnswerIs DEF Sorry
  <2>7. stopped.it = it1
    BY <2>4 DEF Is
  <2>8. /\ it1 = [I EXCEPT !.task = FALSE, !.targetMode = mode, !.conn = {},
                           !.localFailed = I.localFailed \/ I.conn # {} \/ I.lateProxy]
    BY Quiet DEF Items
  <2>9. CASE s = Initiator
    <3>1. I.client = Initiator
      <4>1. I.client # NoStream
        BY <1>1, <1>3, <2>1, <2>9, TargetConnected
      <4> QED BY <4>1, <1>2
    <3>2. r = TryActivation(stopped)
      <4>1. stopped = StopConnecting(Initiator, e)
        OBVIOUS
      <4>2. r = PeerConnected(Initiator, e, Initiator)
        BY <2>3, <2>9
      <4> HIDE DEF e, it1, stopped
      <4> QED BY <2>5, <2>7, <3>1, <4>1, <4>2, Names, PeersAre, PeerConnectedIs
    <3> HIDE DEF stopped, e, it
    <3>3. CASE I.targetMode = "Fast"
      <4> DEFINE it2 == [it1 EXCEPT !.task = FALSE, !.activated = TRUE]
                 cr2 == crInFlight \cup {Initiator}
      <4>1. Is(r, it2, CI, out, dialing, cr2, crUnread)
        <5> HIDE DEF it1, out
        <5> QED BY <2>4, <2>5, <3>1, <3>2, <3>3, TryActivationIs
      <4>2. it2 = [I EXCEPT !.task = FALSE, !.conn = {}, !.activated = TRUE,
                      !.localFailed = I.localFailed \/ I.conn # {} \/ I.lateProxy]
        BY <2>8, <3>3, Quiet, ZenonT(30) DEF Items
      <4> HIDE DEF it1, it2, out, cr2
      <4>3. Handler(Initiator, r, it2, CI, out, dialing, cr2, crUnread, Sorry(Target, I), TRUE)
        BY <1>2, <1>9, <2>6, <4>1
      <4>4. /\ I' = it2 /\ CI' = CI /\ crInFlight' = cr2 /\ crUnread' = crUnread
            /\ InitiatorSays(Sorry(Target, I), TRUE) /\ NetOK'
        BY <1>4, <4>3, InitiatorActs
      <4>5. IPicksOwn
        BY <1>1, <1>2, <2>1, <2>9, <3>1, <3>3, <4>2, <4>4 DEF IPicksOwn, NewCR, cr2
      <4> QED BY <4>4, <4>5 DEF Step, InitiatorSteps
    <3>4. CASE I.targetMode = "Unknown"
      <4> DEFINE it2 == [it1 EXCEPT !.state = "Active", !.client = NoStream]
                 c2 == Connection("Active", Initiator)
      <4>1. r = Finished(stopped)
        <5> HIDE DEF it1, out
        <5> QED BY <2>4, <2>5, <3>2, <3>4, TryActivationIs
      <4>2. Is(r, it2, c2, out, dialing, crInFlight, crUnread)
        <5> HIDE DEF it1, out
        <5> QED BY <2>4, <2>5, <3>1, <4>1, Names, FinishedIs
      <4>3. it2 = [I EXCEPT !.task = FALSE, !.targetMode = "NotFast", !.state = "Active",
                            !.client = NoStream]
        BY <1>2, <2>8, <3>4, Quiet DEF Items
      <4>4. Sorry(Target, I) = {}
        BY <1>2, <3>4 DEF Sorry
      <4>5. c2.st = "Active"
        BY DEF Connection
      <4> HIDE DEF it1, it2, out, c2
      <4>6. Handler(Initiator, r, it2, c2, out, dialing, crInFlight, crUnread, {}, TRUE)
        BY <1>9, <2>6, <4>2, <4>4, <4>5
      <4>7. I' = it2 /\ CI' = c2 /\ SameCR /\ InitiatorSays({}, TRUE) /\ NetOK'
        BY <1>4, <4>6, InitiatorActs DEF SameCR
      <4>8. IUpSlow
        BY <1>1, <1>2, <2>1, <2>9, <3>1, <3>4, <4>3, <4>7 DEF IUpSlow, c2
      <4> QED BY <4>7, <4>8 DEF Step, InitiatorSteps
    <3> QED BY <1>2, <3>3, <3>4
  <2>10. CASE s = InitiatorProxy
    <3> DEFINE it2 == [it1 EXCEPT !.client = NoStream, !.allowIncoming = FALSE, !.proxyConn = TRUE]
               r2 == [stopped EXCEPT !.it.client = NoStream, !.it.allowIncoming = FALSE,
                                     !.it.proxyConn = TRUE]
    <3>1. r = r2
      <4>1. stopped = StopConnecting(Initiator, e) /\ Proxy(Initiator) = InitiatorProxy
        BY Vocabulary, Quiet
      <4>2. r = PeerConnected(Initiator, e, Proxy(Initiator))
        BY <2>3, <2>10, <4>1
      <4> HIDE DEF e, it1, stopped
      <4> QED BY <4>1, <4>2, PeersAre, PeerConnectedIs
    <3>2. it2 \in Items
      <4> HIDE DEF it1
      <4> QED BY <2>5 DEF Items, Streams
    <3>3. it2 = [I EXCEPT !.task = FALSE, !.conn = {}, !.client = NoStream,
                      !.allowIncoming = FALSE, !.proxyConn = TRUE,
                      !.targetMode = IF @ = "Unknown" THEN "NotFast" ELSE @,
                      !.localFailed = I.localFailed \/ I.conn # {} \/ I.lateProxy]
      BY <2>8, Quiet DEF Items
    <3> HIDE DEF stopped, e, it, it1, out
    <3>4. Is(r2, it2, CI, out, dialing, crInFlight, crUnread)
      BY <2>4, <3>2 DEF Is, Effects
    <3> HIDE DEF it2, r2
    <3>5. Handler(Initiator, r, it2, CI, out, dialing, crInFlight, crUnread, Sorry(Target, I), TRUE)
      BY <1>2, <1>9, <2>6, <3>1, <3>4
    <3>6. I' = it2 /\ CI' = CI /\ SameCR /\ InitiatorSays(Sorry(Target, I), TRUE) /\ NetOK'
      BY <1>4, <3>5, InitiatorActs DEF SameCR
    <3>7. IProxies
      BY <1>1, <1>2, <2>1, <2>10, <3>3, <3>6 DEF IProxies
    <3> QED BY <3>6, <3>7 DEF Step, InitiatorSteps
  <2> QED BY <2>2, <2>9, <2>10
<1>11. CASE m.kind = "error"
  <2> DEFINE f == [e EXCEPT !.it.remoteFailed = TRUE]
             it1 == [it EXCEPT !.remoteFailed = TRUE]
  <2>1. it1 \in Items
    <3> HIDE DEF it
    <3> QED BY <1>5 DEF Items
  <2>2. Is(f, it1, CI, <<>>, dialing, crInFlight, crUnread)
    <3> HIDE DEF it, e
    <3> QED BY <1>6, <2>1 DEF Is, Effects
  <2>3. /\ it1.lateProxy = I.lateProxy /\ it1.conn = I.conn /\ it1.hosts = I.hosts
        /\ ~it1.connSuccess /\ it1.remoteFailed /\ it1.targetMode = mode
        /\ it1.localFailed = I.localFailed
    BY <1>5, <1>7, Quiet DEF Items
  <2>4. r = PeerFailed(Initiator, e)
    BY <1>8, <1>11
  <2>5. f.it = it1
    BY <2>2 DEF Is
  <2>6. r = IF I.lateProxy THEN IF I.conn = {} THEN DoIncoming(Initiator, f) ELSE f
            ELSE CheckFailure(Initiator, f)
    <3> HIDE DEF it1, e
    <3> QED BY <2>3, <2>4, <2>5 DEF PeerFailed
  <2>7. \E x \in ToI : x.kind = "error"
    BY <1>1, <1>11
  <2>8. ASSUME NEW it2, NEW D \in SUBSET I.hosts, NEW L \in BOOLEAN, NEW dial2,
               Is(r, it2, CI, <<>>, dial2, crInFlight, crUnread),
               it2 = [it1 EXCEPT !.conn = D, !.lateProxy = L],
               I.targetMode = "Fast", L => I.lateProxy, L /\ D = {} => I.localFailed,
               D # {} => CanDial(I)
        PROVE  NetOK' /\ Step
    <3>1. Handler(Initiator, r, it2, CI, <<>>, dial2, crInFlight, crUnread, {}, TRUE)
      BY <1>2, <1>9, <2>8, Quiet
    <3>2. I' = it2 /\ CI' = CI /\ SameCR /\ InitiatorSays({}, TRUE) /\ NetOK'
      BY <1>4, <3>1, InitiatorActs DEF SameCR
    <3>3. it2 = [I EXCEPT !.conn = D, !.lateProxy = L, !.task = I.task /\ ~TRUE,
                          !.remoteFailed = I.remoteFailed \/ TRUE]
      BY <1>2, <2>8, Quiet DEF Items
    <3>4. ITries(D, L, TRUE)
      BY <1>1, <1>2, <1>3, <2>7, <2>8, <3>2, <3>3 DEF ITries
    <3>5. D \in SUBSET TargetHosts
      BY <1>2
    <3> QED BY <3>2, <3>4, <3>5 DEF Step, InitiatorSteps
  <2>9. CASE I.lateProxy /\ I.conn = {}
    <3> DEFINE it2 == [it1 EXCEPT !.lateProxy = FALSE, !.conn = I.hosts \cap Proxies]
               dial2 == dialing \cup ((I.hosts \cap Proxies) \cap Peers)
    <3>1. I.targetMode = "Fast" /\ I.hosts # {}
      BY <1>2, <2>9
    <3> HIDE DEF it1, f
    <3>2. Is(r, it2, CI, <<>>, dial2, crInFlight, crUnread)
      BY <2>2, <2>3, <2>6, <2>9, <3>1, DoIncomingLateIs
    <3>3. it2 = [it1 EXCEPT !.conn = I.hosts \cap Proxies, !.lateProxy = FALSE]
      BY <2>1 DEF Items
    <3> HIDE DEF it2, dial2
    <3> QED BY <1>2, <2>8, <2>9, <3>1, <3>2, <3>3
  <2>10. CASE I.lateProxy /\ I.conn # {}
    <3>1. it1 = [it1 EXCEPT !.conn = I.conn, !.lateProxy = TRUE]
      BY <2>1, <2>3, <2>10 DEF Items
    <3>2. I.targetMode = "Fast"
      BY <1>2, <2>10
    <3>3. r = f /\ I.conn \in SUBSET I.hosts
      BY <1>2, <2>6, <2>10
    <3> HIDE DEF it1, f
    <3> QED BY <1>2, <2>2, <2>8, <2>10, <3>1, <3>2, <3>3
  <2>11. CASE ~I.lateProxy /\ GaveUp(Initiator, it1)
    <3>1. r = Fail(f)
      BY <2>5, <2>6, <2>11 DEF CheckFailure
    <3>2. I.localFailed \/ I.targetMode = "Unknown"
      BY <1>2, <2>3, <2>11 DEF GaveUp
    <3>3. Connection("Failed", NoStream).st = "Failed"
      BY DEF Connection
    <3> HIDE DEF it1, f
    <3>4. Is(r, NoItem, Connection("Failed", NoStream), <<>>, dialing, crInFlight, crUnread)
      BY <2>2, <3>1, FailIs
    <3>5. Handler(Initiator, r, NoItem, Connection("Failed", NoStream), <<>>, dialing,
                  crInFlight, crUnread, {}, TRUE)
      BY <1>9, <3>3, <3>4, Quiet
    <3>6. CT.st \in {"Idle", "WaitingForAccept"} => dialing = {}
      BY <1>4
    <3> QED BY <1>1, <1>2, <1>3, <1>4, <2>7, <3>2, <3>5, InitiatorFails
  <2>12. CASE ~I.lateProxy /\ ~GaveUp(Initiator, it1)
    <3>1. r = f
      BY <2>5, <2>6, <2>12 DEF CheckFailure
    <3>2. I.targetMode = "Fast"
      BY <1>2, <2>3, <2>12 DEF GaveUp
    <3>3. it1 = [it1 EXCEPT !.conn = I.conn, !.lateProxy = FALSE]
      BY <2>1, <2>3, <2>12 DEF Items
    <3>4. I.conn \in SUBSET I.hosts
      BY <1>2
    <3> HIDE DEF it1, f
    <3> QED BY <1>2, <2>2, <2>8, <2>12, <3>1, <3>2, <3>3, <3>4
  <2> QED BY <2>9, <2>10, <2>11, <2>12
<1> QED BY <1>2, <1>10, <1>11

-----------------------------------------------------------------------------
(* The target's steps are those of TargetSteps.                             *)

(* The item is deleted.                                                     *)
LEMMA TargetFails ==
    ASSUME Known, NEW e, NEW out, NEW dial, NEW said, NEW read,
           Handler(Target, e, NoItem, Connection("Failed", NoStream), out, dial,
                   crInFlight, crUnread, said, read),
           T.state # "Idle",
           said = {} \/ (CanDial(T) /\ said = {Error(Initiator)}),
           excuse' = {} =>
             /\ T.state = "Target" /\ ~T.connSuccess
             /\ T.localFailed \/ (T.conn # {} /\ ~T.lateProxy /\ said = {Error(Initiator)})
             /\ T.fast => IF T.task THEN \E m \in ToT : m.kind = "error" ELSE T.remoteFailed
    PROVE  NetOK' /\ Step
<1>1. Connection("Failed", NoStream).st = "Failed" /\ excuse \subseteq excuse'
  BY DEF Connection, Handler
<1>2. /\ T' = NoItem /\ CT' = Connection("Failed", NoStream) /\ SameCR
      /\ TargetSays(said, read) /\ NetOK'
  BY TargetActs DEF SameCR
<1>3. ToT' \in {ToT, {}}
  BY <1>2 DEF TargetSays
<1>4. said = {Error(Initiator)} /\ CanDial(T) => ToI' = {Error(Initiator)}
  <2> SUFFICES ASSUME said = {Error(Initiator)}, CanDial(T)
               PROVE  ToI' = {Error(Initiator)}
    OBVIOUS
  <2>1. ToI = {}
    BY DEF CanDial, Known, KnownParts, OneAnswer, AnswersI
  <2> QED BY <2>1, <1>2 DEF TargetSays
<1>5. ToI' = ToI \/ (CanDial(T) /\ ToI' = {Error(Initiator)})
  <2>1. said = {} => ToI' = ToI
    BY <1>2 DEF TargetSays
  <2> QED BY <2>1, <1>4
<1>6. T.conn # {} => CanDial(T)
  BY DEF CanDial
<1>7. TGone
  BY <1>1, <1>2, <1>3, <1>4, <1>5, <1>6 DEF TGone, TargetSays
<1> QED BY <1>2, <1>7 DEF Step, TargetSteps

(* The stream on which the CR has been sent.                                *)
LEMMA TargetCR ==
    ASSUME Known, T.state = "Target", NEW s, s # NoStream, s \in {T.client, T.clientOut},
           s \in crInFlight \cup crUnread
    PROVE  /\ s \in StreamHosts /\ T.fast /\ ~T.activated
           /\ \A r \in crInFlight \cup crUnread : r = s
           /\ crInFlight \cap crUnread = {}
           /\ T.conn = {} \/ T.task
           /\ T.lateProxy => T.localFailed \/ T.task
           /\ ~T.proxyConn /\ (T.proxyTask => s = TargetProxy)
           /\ s \in TargetHosts /\ T.task => s = Target /\ T.client = Target /\ ~T.allowIncoming
           /\ s \in InitiatorHosts => s = T.clientOut /\ T.connSuccess
           /\ s = T.clientOut => s \in InitiatorHosts /\ T.connSuccess
           /\ s # T.clientOut => s \in TargetHosts /\ s = T.client
<1>1. T \in Items /\ crInFlight \subseteq Streams /\ crUnread \subseteq Streams
  BY Quiet DEF TypeOK
<1>2. s \in Streams /\ Picked(s)
  BY <1>1 DEF Picked
<1>3. PickedOK(s) /\ crInFlight \cap crUnread = {}
  BY <1>2 DEF Known, KnownParts, OneStream
<1>4. ASSUME NEW r \in crInFlight \cup crUnread
      PROVE  r = s
  <2>1. r \in Streams /\ Picked(r)
    BY <1>1, <1>4 DEF Picked
  <2> QED BY <2>1, <1>2 DEF Known, KnownParts, OneStream
<1>5. /\ T.client \in {NoStream} \cup TargetHosts /\ T.clientOut \in {NoStream} \cup InitiatorHosts
      /\ (T.connSuccess <=> T.clientOut # NoStream) /\ ~T.activated /\ T.fast
      /\ T.client # NoStream => ~T.allowIncoming
      /\ T.client = TargetProxy => ~T.task
      /\ T.proxyConn => T.client = NoStream
      /\ T.connSuccess => T.conn = {} /\ ~T.lateProxy
      /\ T.proxyTask => T.client = TargetProxy
  BY <1>3 DEF Known, KnownParts, TargetOK, ItemOK, PickedOK
<1>6. s \in StreamHosts /\ (s \in TargetHosts \/ s \in InitiatorHosts)
  BY <1>3 DEF PickedOK, StreamHosts, Peers, Proxies, TargetHosts, InitiatorHosts
<1>7. TargetHosts \cap InitiatorHosts = {}
  BY Names DEF TargetHosts, InitiatorHosts
<1>8. CASE s \in TargetHosts
  <2>1. s = T.client
    BY <1>5, <1>7, <1>8
  <2>2. /\ ~T.task => T.conn = {} /\ (T.lateProxy => T.localFailed)
        /\ s = Target => ~T.proxyConn /\ ~T.proxyTask
    BY <1>3, <1>8 DEF PickedOK
  <2>3. T.task => s = Target
    BY <1>5, <1>8, <2>1 DEF TargetHosts
  <2>4. ~T.proxyConn
    BY <1>5, <2>1
  <2>5. T.proxyTask => s = TargetProxy
    BY <1>5, <2>1
  <2> QED BY <1>3, <1>4, <1>5, <1>6, <1>7, <1>8, <2>1, <2>2, <2>3, <2>4, <2>5
<1>9. CASE s \in InitiatorHosts
  <2>1. s = T.clientOut
    BY <1>5, <1>7, <1>9
  <2>2. ~T.proxyConn /\ ~T.proxyTask /\ T.connSuccess /\ T.conn = {} /\ ~T.lateProxy
    BY <1>3, <1>5, <1>9, <2>1 DEF PickedOK
  <2> QED BY <1>3, <1>4, <1>5, <1>6, <1>7, <1>9, <2>1, <2>2
<1> QED BY <1>6, <1>8, <1>9

(* The item with which the target's connection becomes active on s.         *)
UpFrom(s, it, read) ==
    /\ it \in Items /\ it.fast /\ it.targetMode = T.targetMode /\ it.hosts = T.hosts
    /\ it.conn = {} /\ ~it.proxyConn /\ ~it.proxyTask
    /\ it.lateProxy => T.lateProxy /\ it.localFailed /\ ~it.connSuccess /\ ~it.task
    /\ it.task => T.task /\ s = Target /\ ~read /\ ~it.remoteFailed
    /\ it.localFailed => ~it.connSuccess
    /\ it.allowIncoming = T.allowIncoming

LEMMA TargetUpDoes ==
    ASSUME Known, T.state = "Target", NEW s, s # NoStream, s \in {T.client, T.clientOut},
           s \in crInFlight \cup crUnread,
           NEW it, NEW r, NEW out, NEW dial, NEW said, NEW read, UpFrom(s, it, read),
           Handler(Target, r, [it EXCEPT !.state = "Active", !.client = NoStream,
                                         !.clientOut = NoStream, !.activated = TRUE],
                   Connection("Active", s), out, dial, crInFlight \ {s}, crUnread \ {s},
                   said, read),
           \/ said = {}
           \/ CanDial(T) /\ said = {Error(Initiator)}
           \/ \E h \in T.conn : h \in granted \cup Proxies /\ said = {Success(Initiator, h)}
    PROVE  NetOK' /\ Step
<1> DEFINE it2 == [it EXCEPT !.state = "Active", !.client = NoStream,
                             !.clientOut = NoStream, !.activated = TRUE]
<1>1. /\ T' = it2 /\ CT' = Connection("Active", s)
      /\ crInFlight' = crInFlight \ {s} /\ crUnread' = crUnread \ {s}
      /\ TargetSays(said, read) /\ NetOK'
  BY TargetActs
<1>2. /\ s \in StreamHosts /\ T.fast
      /\ s \in TargetHosts /\ T.task => s = Target /\ T.client = Target /\ ~T.allowIncoming
  BY TargetCR
<1>3. /\ ItemOK(T, InitiatorHosts, TargetProxy) /\ T.targetMode = "Unknown"
      /\ T.conn \subseteq InitiatorHosts
  BY DEF Known, KnownParts, TargetOK, ItemOK
<1>4. /\ it.fast /\ it.targetMode = T.targetMode /\ it.hosts = T.hosts
      /\ it.conn = {} /\ ~it.proxyConn /\ ~it.proxyTask
      /\ it.lateProxy => T.lateProxy /\ it.localFailed /\ ~it.connSuccess /\ ~it.task
      /\ it.task => T.task /\ s = Target /\ ~read /\ ~it.remoteFailed
      /\ it.localFailed => ~it.connSuccess
      /\ it.allowIncoming = T.allowIncoming /\ it \in Items
  BY DEF UpFrom
<1>5. /\ it2.state = "Active" /\ it2.client = NoStream /\ it2.activated
      /\ it2.fast /\ it2.targetMode = "Unknown" /\ it2.hosts = T.hosts
      /\ it2.conn = {} /\ ~it2.proxyConn /\ ~it2.proxyTask
      /\ it2.lateProxy = it.lateProxy /\ it2.localFailed = it.localFailed
      /\ it2.connSuccess = it.connSuccess /\ it2.task = it.task
      /\ it2.remoteFailed = it.remoteFailed /\ it2.allowIncoming = T.allowIncoming
  BY <1>3, <1>4 DEF Items
<1> HIDE DEF it2
<1>6. ItemOK(it2, InitiatorHosts, TargetProxy)
  BY <1>3, <1>4, <1>5 DEF ItemOK
<1>7. it2.task => ~it2.allowIncoming
  <2>1. Target \in TargetHosts
    BY DEF TargetHosts
  <2> QED BY <1>2, <1>4, <1>5, <2>1
<1>8. TargetOK'
  <2>1. ItemOK(T, InitiatorHosts, TargetProxy)'
    BY <1>1, <1>6 DEF InitiatorHosts
  <2> QED BY <1>1, <1>5, <1>7, <2>1 DEF TargetOK
<1>9. TUpFast(s, said, read)
  BY <1>1, <1>2, <1>4, <1>5, <1>8 DEF TUpFast
<1>10. said \in SUBSET ({Error(Initiator)} \cup {Success(Initiator, h) : h \in InitiatorHosts})
  BY <1>3
<1>11. read \in BOOLEAN
  BY DEF Handler
<1> QED BY <1>1, <1>2, <1>9, <1>10, <1>11 DEF Step, TargetSteps

(* checkForActivation() at the target: it goes on, or s is the stream.      *)
LEMMA TargetChecks ==
    ASSUME Known, T.state = "Target", NEW e, NEW it, NEW out, NEW dial, NEW cr, NEW un,
           Is(e, it, CT, out, dial, cr, un), it.fast, ~it.activated, it.client = T.client,
           it.clientOut \in {T.clientOut} \cup InitiatorHosts,
           un \subseteq crInFlight \cup crUnread
    PROVE  \/ CheckForActivation(e) = e
           \/ \E s : /\ s # NoStream /\ s \in {T.client, T.clientOut} /\ s \in un
                     /\ Is(CheckForActivation(e),
                           [it EXCEPT !.state = "Active", !.client = NoStream,
                                      !.clientOut = NoStream, !.activated = TRUE],
                           Connection("Active", s), out, dial, cr, un \ {s})
<1> DEFINE r == CheckForActivation(e)
           up == [it EXCEPT !.state = "Active", !.client = NoStream,
                            !.clientOut = NoStream, !.activated = TRUE]
           Ready(s) == s # NoStream /\ s \in un
           Chosen(s) == Is(r, up, Connection("Active", s), out, dial, cr, un \ {s})
<1>1. /\ Ready(it.client) => Chosen(it.client)
      /\ ~Ready(it.client) /\ Ready(it.clientOut) => Chosen(it.clientOut)
      /\ ~Ready(it.client) /\ ~Ready(it.clientOut) => r = e
  BY CheckForActivationIs
<1>2. ASSUME Ready(it.clientOut)
      PROVE  it.clientOut = T.clientOut
  <2>1. CASE it.clientOut \in InitiatorHosts
    <3>1. it.clientOut \in Streams /\ Picked(it.clientOut)
      BY <1>2, <2>1 DEF Picked, InitiatorHosts, Streams, StreamHosts, Peers, Proxies
    <3> QED BY <2>1, <3>1 DEF Known, KnownParts, OneStream, PickedOK
  <2> QED BY <2>1
<1> HIDE DEF r, up
<1>3. CASE Ready(it.client)
  BY <1>1, <1>3 DEF r, up
<1>4. CASE ~Ready(it.client) /\ Ready(it.clientOut)
  BY <1>1, <1>2, <1>4 DEF r, up
<1>5. CASE ~Ready(it.client) /\ ~Ready(it.clientOut)
  BY <1>1, <1>5 DEF r
<1> QED BY <1>3, <1>4, <1>5

LEMMA TargetErrorDoes ==
    ASSUME Known, StreamError(Target)
    PROVE  NetOK' /\ Step
<1> DEFINE e == Fail(Start(Target))
<1>1. /\ T.state \in {"Initiator", "Target"} /\ granted' = granted
      /\ Apply(Target, e, net[Target]) /\ excuse' = excuse \cup {"streamError"}
  BY DEF StreamError, T
<1>2. Is(e, NoItem, Connection("Failed", NoStream), <<>>, dialing, crInFlight, crUnread)
  BY Quiet, StartIs, FailIs
<1> HIDE DEF e
<1>3. Connection("Failed", NoStream).st = "Failed"
  BY DEF Connection
<1>4. Handler(Target, e, NoItem, Connection("Failed", NoStream), <<>>, dialing,
              crInFlight, crUnread, {}, FALSE)
  BY <1>1, <1>2, <1>3, Quiet DEF Handler
<1> QED BY <1>1, <1>4, TargetFails

LEMMA TargetClosesDoes ==
    ASSUME Known, Close(Target)
    PROVE  NetOK' /\ Step
<1> DEFINE out == CloseStanzas(Target)
           waits == CT.st = "WaitingForAccept"
           e == [Start(Target) EXCEPT !.it = NoItem, !.out = out,
                                      !.con = Connection("Closed", NoStream)]
<1>1. /\ CT.st \notin {"Idle", "Failed", "Closed", "Crashed"}
      /\ granted' = granted /\ Apply(Target, e, net[Target])
      /\ excuse' = excuse \cup {"closed"}
  BY DEF Close, CT
<1>2. T.state # "Idle" \/ waits
  BY <1>1 DEF Known, KnownParts, Linked
<1>3. IF waits THEN out = <<Error(Initiator)>> ELSE out = <<>> \/ out = <<Error(Target)>>
  BY Quiet DEF CloseStanzas, CT
<1>4. /\ Error(Target) \in Stanzas /\ ~IsRequest(Error(Target))
      /\ ~IsAnswer(Error(Target), Initiator)
      /\ Error(Initiator) \in Stanzas /\ ~IsRequest(Error(Initiator))
      /\ IsAnswer(Error(Initiator), Initiator)
  BY PeersAre, NamesDiffer, MessageKinds DEF StreamHosts
<1>5. waits => ToI = {}
  BY Accepting
<1>6. out \in Seq(Stanzas)
  <2>1. <<>> \in Seq(Stanzas) /\ <<Error(Initiator)>> \in Seq(Stanzas)
        /\ <<Error(Target)>> \in Seq(Stanzas)
    BY <1>4
  <2> QED BY <1>3, <2>1
<1>7. Connection("Closed", NoStream) \in Connections /\ Connection("Closed", NoStream).st = "Closed"
  BY DEF Connection, Connections, Streams
<1>8. Is(e, NoItem, Connection("Closed", NoStream), out, dialing, crInFlight, crUnread)
  <2> HIDE DEF out
  <2>1. Is(Start(Target), T, CT, <<>>, dialing, crInFlight, crUnread)
    BY Quiet, StartIs
  <2> QED BY <1>6, <1>7, <2>1, NoItemType DEF Is, Effects
<1>9. out = <<>> \/ \E m : out = <<m>> /\ MaySend(Target, m)
  BY <1>3, <1>4, <1>5, Quiet DEF MaySend
<1> HIDE DEF e, out
<1>10. Applies(Target, e, NoItem, Connection("Closed", NoStream), out, dialing,
               crInFlight, crUnread, net[Target])
  BY <1>1, <1>8, <1>9 DEF Applies
<1>11. /\ T' = NoItem /\ CT' = Connection("Closed", NoStream) /\ SameInitiator
       /\ dialing' = dialing /\ SameCR /\ ToT' = ToT /\ AskT' = AskT
       /\ out = <<>> => ToI' = ToI /\ AskI' = AskI
       /\ \A m : out = <<m>> =>
            /\ ToI' = ToI \cup (IF IsAnswer(m, Initiator) THEN {m} ELSE {})
            /\ AskI' = AskI \cup (IF IsRequest(m) THEN {m} ELSE {})
       /\ NetOK'
  BY <1>7, <1>10, TargetHandles DEF SameCR
<1>12. AskI' = AskI /\ (ToI' = ToI \/ (waits /\ ToI' = {Error(Initiator)}))
  BY <1>3, <1>4, <1>5, <1>11
<1>13. TGone
  BY <1>1, <1>2, <1>7, <1>11, <1>12 DEF TGone, SameRequests
<1> QED BY <1>11, <1>13 DEF Step, TargetSteps

LEMMA InitialRequestDoes ==
    ASSUME Known, RecvInitialRequest
    PROVE  NetOK' /\ Step
<1> DEFINE m == Head(net[Target])
           rest == Tail(net[Target])
           hosts == m.hosts
           it == [T EXCEPT !.hosts = hosts]
           c == [CT EXCEPT !.st = "WaitingForAccept"]
           e == [Start(Target) EXCEPT !.con.st = "WaitingForAccept", !.it.hosts = hosts]
<1>1. /\ net[Target] # <<>> /\ m.kind = "request"
      /\ granted' = granted /\ excuse' = excuse /\ Apply(Target, e, rest)
  BY DEF RecvInitialRequest, Arrives
<1>2. IsRequest(m) /\ ~IsAnswer(m, Target)
  BY <1>1 DEF IsRequest, IsAnswer
<1>3. m \in AskT
  <2>1. net[Target] \in Seq(Stanzas)
    BY Vocabulary, Quiet
  <2>2. m = net[Target][1] /\ 1 \in 1..Len(net[Target])
    BY <1>1, <2>1
  <2> QED BY <1>2, <2>2 DEF AskT, Requests
<1>4. hosts \in SUBSET StreamHosts
  BY <1>3 DEF Known, KnownParts, Beginning, InitiatorHosts, StreamHosts, Peers, Proxies
<1>5. CT.st = "Idle"
  BY <1>3 DEF Known, KnownParts, Beginning
<1>6. it \in Items /\ c \in Connections /\ c.st = "WaitingForAccept"
  BY <1>4, Quiet DEF Items, Connections
<1>7. Is(e, it, c, <<>>, dialing, crInFlight, crUnread)
  <2> HIDE DEF hosts
  <2>1. Is(Start(Target), T, CT, <<>>, dialing, crInFlight, crUnread)
    BY Quiet, StartIs
  <2> QED BY <1>6, <2>1 DEF Is, Effects
<1> HIDE DEF e, it, c, rest
<1>8. Applies(Target, e, it, c, <<>>, dialing, crInFlight, crUnread, rest)
  BY <1>1, <1>7 DEF Applies, rest
<1>9. /\ T' = it /\ CT' = c /\ SameInitiator
      /\ dialing' = dialing /\ SameCR
      /\ net[Target] # <<>> /\ rest = Tail(net[Target]) => HasRead(Target)
      /\ ToI' = ToI /\ AskI' = AskI /\ NetOK'
  BY <1>5, <1>6, <1>8, TargetHandles DEF SameCR
<1>10. HasRead(Target)
  BY <1>1, <1>9 DEF rest
<1>11. AskT' = {} /\ ToT' = ToT
  BY <1>2, <1>10 DEF HasRead, AskT, ToT
<1>12. TIsAsked
  BY <1>1, <1>3, <1>9, <1>11 DEF TIsAsked, it, c
<1> QED BY <1>9, <1>12 DEF Step, TargetSteps

LEMMA TargetProxyResultDoes ==
    ASSUME Known, NEW ok \in BOOLEAN, ProxyResult(Target, ok)
    PROVE  NetOK' /\ Step
<1> DEFINE e == Start(Target)
           up == [e EXCEPT !.it.proxyConn = FALSE, !.it.proxyTask = TRUE,
                           !.it.client = Proxy(Target)]
           it == [T EXCEPT !.proxyConn = FALSE, !.proxyTask = TRUE, !.client = TargetProxy]
<1>1. /\ T.proxyConn /\ Apply(Target, IF ok THEN up ELSE Fail(e), net[Target])
      /\ granted' = granted
      /\ excuse' = IF ok THEN excuse ELSE excuse \cup {"proxyFailed"}
  BY DEF ProxyResult, T
<1>2. T.state = "Target" /\ CT.st = "Connecting"
  <2>1. T.state = "Target"
    BY <1>1 DEF Known, KnownParts, Linked, Nothing, TargetOK, ItemOK
  <2> QED BY <2>1, <1>1 DEF Known, KnownParts, Linked
<1>4. Is(e, T, CT, <<>>, dialing, crInFlight, crUnread)
  BY Quiet, StartIs
<1>5. CASE ok
  <2>1. it \in Items /\ Proxy(Target) = TargetProxy
    BY Quiet, Vocabulary DEF Items, Streams, StreamHosts, Proxies
  <2>2. Is(up, it, CT, <<>>, dialing, crInFlight, crUnread)
    <3> HIDE DEF e
    <3> QED BY <1>4, <2>1 DEF Is, Effects
  <2> HIDE DEF e, up, it
  <2>3. Apply(Target, up, net[Target]) /\ excuse' = excuse
    BY <1>1, <1>5
  <2>4. Handler(Target, up, it, CT, <<>>, dialing, crInFlight, crUnread, {}, FALSE)
    BY <1>1, <1>2, <2>2, <2>3, Quiet DEF Handler
  <2>5. T' = it /\ CT' = CT /\ SameCR /\ TargetSays({}, FALSE) /\ NetOK'
    BY <2>4, TargetActs DEF SameCR
  <2> QED BY <1>1, <2>5 DEF TProxyUp, Step, TargetSteps, it
<1>6. CASE ~ok
  <2>1. Is(Fail(e), NoItem, Connection("Failed", NoStream), <<>>, dialing, crInFlight, crUnread)
    BY <1>4, FailIs
  <2> HIDE DEF e
  <2>2. Connection("Failed", NoStream).st = "Failed"
    BY DEF Connection
  <2>3. Handler(Target, Fail(e), NoItem, Connection("Failed", NoStream), <<>>, dialing,
                crInFlight, crUnread, {}, FALSE)
    BY <1>1, <1>6, <2>1, <2>2, Quiet DEF Handler
  <2> QED BY <1>1, <1>2, <1>6, <2>3, TargetFails
<1> QED BY <1>5, <1>6

LEMMA TargetProxyFinishedDoes ==
    ASSUME Known, NEW ok \in BOOLEAN, ProxyFinished(Target, ok)
    PROVE  NetOK' /\ Step
<1> DEFINE e == [Start(Target) EXCEPT !.it.proxyTask = FALSE]
           it == [T EXCEPT !.proxyTask = FALSE]
           up == [it EXCEPT !.state = "Active", !.client = NoStream,
                            !.clientOut = NoStream, !.activated = TRUE]
           r == CheckForActivation(e)
<1>1. /\ T.proxyTask
      /\ Apply(Target, IF ok THEN r ELSE Fail(e), net[Target])
      /\ granted' = granted
      /\ excuse' = IF ok THEN excuse ELSE excuse \cup {"proxyFailed"}
  BY Names DEF ProxyFinished, T
<1>2. T.state = "Target" /\ CT.st = "Connecting"
  <2>1. T.state = "Target"
    BY <1>1 DEF Known, KnownParts, Linked, Nothing, TargetOK, ItemOK
  <2> QED BY <2>1 DEF Known, KnownParts, Linked
<1>3. /\ T.fast /\ ~T.activated /\ ~T.task /\ ~T.proxyConn
      /\ T.lateProxy => ~T.connSuccess
      /\ T.localFailed => ~T.connSuccess
  BY <1>1, <1>2 DEF Known, KnownParts, TargetOK, ItemOK
<1>4. it \in Items
  BY Quiet DEF Items
<1>5. Is(e, it, CT, <<>>, dialing, crInFlight, crUnread)
  <2>1. Is(Start(Target), T, CT, <<>>, dialing, crInFlight, crUnread)
    BY Quiet, StartIs
  <2> QED BY <2>1, <1>4 DEF Is, Effects
<1>6. /\ it.fast /\ ~it.activated /\ it.client = T.client /\ it.clientOut = T.clientOut
      /\ it.targetMode = T.targetMode /\ it.hosts = T.hosts /\ it.conn = T.conn
      /\ ~it.proxyConn /\ ~it.proxyTask /\ it.lateProxy = T.lateProxy /\ ~it.task
      /\ it.localFailed = T.localFailed /\ it.connSuccess = T.connSuccess
      /\ it.allowIncoming = T.allowIncoming
  BY <1>3, Quiet DEF Items
<1> HIDE DEF e
<1>7. CASE ok /\ r = e
  <2>1. Apply(Target, e, net[Target]) /\ excuse' = excuse
    BY <1>1, <1>7
  <2> HIDE DEF it
  <2>2. Handler(Target, e, it, CT, <<>>, dialing, crInFlight, crUnread, {}, FALSE)
    BY <1>1, <1>2, <1>5, <2>1, Quiet DEF Handler
  <2>3. T' = it /\ CT' = CT /\ SameCR /\ TargetSays({}, FALSE) /\ NetOK'
    BY <2>2, TargetActs DEF SameCR
  <2> QED BY <1>1, <2>3 DEF TProxyDone, Step, TargetSteps, it
<1> HIDE DEF it, r, up
<1>8. ASSUME ok, NEW s, s # NoStream, s \in {T.client, T.clientOut}, s \in crUnread,
             Is(r, up, Connection("Active", s), <<>>, dialing, crInFlight, crUnread \ {s})
      PROVE  NetOK' /\ Step
  <2>1. /\ crInFlight \ {s} = crInFlight
        /\ T.conn = {} /\ (T.lateProxy => T.localFailed)
    BY <1>2, <1>3, <1>8, TargetCR
  <2>2. UpFrom(s, it, FALSE)
    BY <1>3, <1>4, <1>6, <2>1 DEF UpFrom
  <2>3. Apply(Target, r, net[Target]) /\ excuse' = excuse
    BY <1>1, <1>8
  <2>4. Connection("Active", s).st = "Active"
    BY DEF Connection
  <2>5. Handler(Target, r, up, Connection("Active", s), <<>>, dialing, crInFlight \ {s},
                crUnread \ {s}, {}, FALSE)
    BY <1>1, <1>8, <2>1, <2>3, <2>4, Quiet DEF Handler
  <2> QED BY <1>2, <1>8, <2>2, <2>5, TargetUpDoes DEF up
<1>9. CASE ok /\ r # e
  <2>1. PICK s : /\ s # NoStream /\ s \in {T.client, T.clientOut} /\ s \in crUnread
                 /\ Is(r, up, Connection("Active", s), <<>>, dialing, crInFlight, crUnread \ {s})
    BY <1>2, <1>5, <1>6, <1>9, TargetChecks DEF r, up
  <2> QED BY <1>8, <1>9, <2>1
<1>10. CASE ~ok
  <2>1. Is(Fail(e), NoItem, Connection("Failed", NoStream), <<>>, dialing, crInFlight, crUnread)
    BY <1>5, FailIs
  <2>2. Connection("Failed", NoStream).st = "Failed"
    BY DEF Connection
  <2>3. Handler(Target, Fail(e), NoItem, Connection("Failed", NoStream), <<>>, dialing,
                crInFlight, crUnread, {}, FALSE)
    BY <1>1, <1>10, <2>1, <2>2, Quiet DEF Handler
  <2> QED BY <1>1, <1>2, <1>10, <2>3, TargetFails
<1> QED BY <1>7, <1>9, <1>10

LEMMA CRArrivesDoes ==
    ASSUME Known, NEW s \in StreamHosts, CRArrives(s)
    PROVE  NetOK' /\ Step
<1> DEFINE e == [Start(Target) EXCEPT !.cr = @ \ {s}, !.unread = @ \cup {s}]
           checks == T.state = "Target" /\ ~T.task /\ ~T.proxyTask
           r == IF checks THEN CheckForActivation(e) ELSE e
           up == [T EXCEPT !.state = "Active", !.client = NoStream,
                           !.clientOut = NoStream, !.activated = TRUE]
           cr == crInFlight \ {s}
           un == crUnread \cup {s}
<1>1. /\ s \in crInFlight /\ Apply(Target, r, net[Target])
      /\ granted' = granted /\ excuse' = excuse
  BY DEF CRArrives, T
<1>2. /\ s \in Streams /\ Picked(s)
      /\ \A x \in Streams : Picked(x) => x = s /\ PickedOK(s)
      /\ crInFlight \cap crUnread = {}
  BY <1>1 DEF Streams, Picked, Known, KnownParts, OneStream
<1>3. CT.st \in {"Connecting", "Active", "Failed", "Closed"} /\ (T.state = "Target" => T.fast)
  BY <1>2 DEF PickedOK
<1>4. Is(e, T, CT, <<>>, dialing, cr, un)
  <2>1. Is(Start(Target), T, CT, <<>>, dialing, crInFlight, crUnread)
    BY Quiet, StartIs
  <2>2. cr \in SUBSET Streams /\ un \in SUBSET Streams
    BY <1>2, <2>1, IsTypes
  <2> QED BY <2>1, <2>2 DEF Is, Effects
<1> HIDE DEF e
<1>5. CASE r = e
  <2> HIDE DEF r, cr, un
  <2>1. Handler(Target, e, T, CT, <<>>, dialing, cr, un, {}, FALSE)
    BY <1>1, <1>3, <1>4, <1>5, Quiet DEF Handler
  <2>2. T' = T /\ CT' = CT /\ crInFlight' = cr /\ crUnread' = un /\ TargetSays({}, FALSE) /\ NetOK'
    BY <2>1, TargetActs
  <2>3. CRComes(s)
    BY <1>1, <2>2 DEF CRComes, cr, un
  <2> QED BY <2>2, <2>3 DEF Step, TargetSteps
<1>6. CASE r # e
  <2>1. /\ checks /\ r = CheckForActivation(e) /\ ~T.activated
        /\ T.lateProxy => ~T.connSuccess
        /\ T.localFailed => ~T.connSuccess
    BY <1>6 DEF Known, KnownParts, TargetOK, ItemOK
  <2>2. un \subseteq crInFlight \cup crUnread
    BY <1>1
  <2> HIDE DEF r, up, cr, un
  <2>3. PICK x : /\ x # NoStream /\ x \in {T.client, T.clientOut} /\ x \in un
                 /\ Is(r, up, Connection("Active", x), <<>>, dialing, cr, un \ {x})
    BY <1>3, <1>4, <1>6, <2>1, <2>2, TargetChecks DEF up
  <2>4. x = s
    <3>1. x \in crInFlight \cup crUnread
      BY <2>2, <2>3
    <3>2. x \in Streams /\ Picked(x)
      BY <3>1, Quiet DEF TypeOK, Picked
    <3> QED BY <1>2, <3>2
  <2>5. un \ {s} = crUnread \ {s}
    BY DEF un
  <2>6. /\ T.conn = {} /\ (T.lateProxy => T.localFailed) /\ ~T.proxyConn
    BY <1>1, <2>1, <2>3, <2>4, TargetCR
  <2>7. UpFrom(s, T, FALSE)
    BY <1>3, <2>1, <2>6, Quiet DEF UpFrom
  <2>8. Connection("Active", s).st = "Active"
    BY DEF Connection
  <2>9. Handler(Target, r, up, Connection("Active", s), <<>>, dialing, crInFlight \ {s},
                crUnread \ {s}, {}, FALSE)
    BY <1>1, <2>3, <2>4, <2>5, <2>8, Quiet DEF Handler, cr
  <2> QED BY <1>1, <2>1, <2>3, <2>4, <2>7, <2>9, TargetUpDoes DEF up
<1> QED BY <1>5, <1>6

(* While the target's connector is at work.                                 *)
LEMMA TargetDialling ==
    ASSUME Known, T.conn # {}
    PROVE  /\ T.state = "Target" /\ CT.st = "Connecting" /\ ~T.activated
           /\ ~T.connSuccess /\ ~T.localFailed /\ ~T.proxyConn /\ ~T.proxyTask
           /\ T.clientOut = NoStream /\ ToI = {} /\ CanDial(T)
           /\ T.hosts \subseteq InitiatorHosts /\ T.conn \subseteq T.hosts
           /\ T.lateProxy => T.hosts \cap Proxies # {} /\ T.fast
           /\ T.task => ~T.remoteFailed
           /\ ~T.fast => T.client = NoStream /\ ~T.task /\ ~T.remoteFailed
<1>1. T.state = "Target"
  BY DEF Known, KnownParts, Linked, Nothing, TargetOK, ItemOK
<1>2. CT.st = "Connecting"
  BY <1>1 DEF Known, KnownParts, Linked
<1>3. /\ ~T.activated /\ ~T.connSuccess /\ ~T.localFailed /\ ~T.proxyConn /\ ~T.proxyTask
      /\ T.hosts \subseteq InitiatorHosts /\ T.conn \subseteq T.hosts
      /\ T.lateProxy => T.hosts \cap Proxies # {}
      /\ T.task => ~T.remoteFailed
  BY <1>1 DEF Known, KnownParts, TargetOK, ItemOK
<1>4. /\ T.clientOut = NoStream /\ (T.lateProxy => T.fast)
      /\ ~T.fast => T.client = NoStream /\ ~T.task /\ ~T.remoteFailed
  BY <1>1, <1>3 DEF Known, KnownParts, TargetOK
<1>5. ToI = {}
  BY DEF Known, KnownParts, OneAnswer, AnswersI
<1> QED BY <1>1, <1>2, <1>3, <1>4, <1>5 DEF CanDial

LEMMA TargetConnectsDoes ==
    ASSUME Known, NEW h \in StreamHosts, ConnectorSucceeds(Target, h)
    PROVE  NetOK' /\ Step
<1> DEFINE e == Start(Target)
           it == [T EXCEPT !.conn = {}, !.connSuccess = TRUE, !.lateProxy = FALSE]
           it2 == [it EXCEPT !.clientOut = h]
           e1 == [e EXCEPT !.it.conn = {}, !.it.connSuccess = TRUE, !.it.lateProxy = FALSE]
           done == Send(e1, Success(Initiator, h))
           e2 == [done EXCEPT !.it.clientOut = h]
           r == CheckForActivation(e2)
           out == <<Success(Initiator, h)>>
           said == {Success(Initiator, h)}
           up == [it2 EXCEPT !.state = "Active", !.client = NoStream,
                             !.clientOut = NoStream, !.activated = TRUE]
<1>1. /\ h \in T.conn /\ h \in granted \cup Proxies
      /\ granted' = granted /\ excuse' = excuse
      /\ Apply(Target, ConnResultTrue(Target, e, h), net[Target])
  BY DEF ConnectorSucceeds, T
<1>2. /\ T.state = "Target" /\ CT.st = "Connecting" /\ ~T.activated
      /\ ~T.connSuccess /\ ~T.localFailed /\ ~T.proxyConn /\ ~T.proxyTask
      /\ T.clientOut = NoStream /\ ToI = {} /\ h \in InitiatorHosts
      /\ T.task => ~T.remoteFailed
      /\ ~T.fast => T.client = NoStream
  BY <1>1, TargetDialling
<1>3. it \in Items /\ it2 \in Items
  <2>1. T \in Items /\ h \in Streams
    BY Quiet DEF Streams
  <2> QED BY <2>1 DEF Items
<1>4. Is(e, T, CT, <<>>, dialing, crInFlight, crUnread)
  BY Quiet, StartIs
<1>5. ConnResultTrue(Target, e, h) = r
  BY Quiet, NamesDiffer DEF ConnResultTrue
<1>6. /\ it2.fast = T.fast /\ ~it2.activated /\ it2.client = T.client /\ it2.clientOut = h
      /\ it2.targetMode = T.targetMode /\ it2.hosts = T.hosts /\ it2.conn = {}
      /\ ~it2.proxyConn /\ ~it2.proxyTask /\ ~it2.lateProxy /\ it2.task = T.task
      /\ it2.remoteFailed = T.remoteFailed /\ ~it2.localFailed
      /\ it2.allowIncoming = T.allowIncoming
  BY <1>2, Quiet DEF Items
<1>7. it2 = [T EXCEPT !.conn = {}, !.connSuccess = TRUE, !.lateProxy = FALSE, !.clientOut = h]
  BY Quiet DEF Items
<1> HIDE DEF e
<1>8. Is(e1, it, CT, <<>>, dialing, crInFlight, crUnread)
  BY <1>3, <1>4 DEF Is, Effects
<1> HIDE DEF e1
<1>9. Is(done, it, CT, out, dialing, crInFlight, crUnread)
  <2>1. Success(Initiator, h) \in Stanzas
    BY StanzaTypes, PeersAre
  <2>2. Append(<<>>, Success(Initiator, h)) = out
    BY <2>1
  <2> HIDE DEF it, out
  <2> QED BY <1>8, <2>1, <2>2, SendIs
<1> HIDE DEF done
<1>10. Is(e2, it2, CT, out, dialing, crInFlight, crUnread)
  <2> HIDE DEF it
  <2> QED BY <1>3, <1>9 DEF Is, Effects
<1>11. Answer(Target, out, said)
  BY <1>2, Quiet, PeersAre, AnswerIs
<1>12. Apply(Target, r, net[Target])
  BY <1>1, <1>5
<1> HIDE DEF e2, it2, it, r, out, said, up
<1>13. CASE T.fast /\ r = e2
  <2>1. Handler(Target, e2, it2, CT, out, dialing, crInFlight, crUnread, said, FALSE)
    BY <1>1, <1>2, <1>10, <1>11, <1>12, <1>13 DEF Handler
  <2>2. T' = it2 /\ CT' = CT /\ SameCR /\ TargetSays(said, FALSE) /\ NetOK'
    BY <2>1, TargetActs DEF SameCR
  <2>3. TConnects(h)
    BY <1>1, <1>2, <1>7, <1>13, <2>2 DEF TConnects, said
  <2> QED BY <1>2, <2>2, <2>3 DEF Step, TargetSteps
<1>14. CASE T.fast /\ r # e2
  <2>1. PICK s : /\ s # NoStream /\ s \in {T.client, T.clientOut} /\ s \in crUnread
                 /\ Is(r, up, Connection("Active", s), out, dialing, crInFlight, crUnread \ {s})
    BY <1>2, <1>6, <1>10, <1>14, TargetChecks DEF r, up
  <2>2. /\ crInFlight \ {s} = crInFlight /\ s \in TargetHosts /\ s = T.client
        /\ T.task => s = Target
    BY <1>1, <1>2, <2>1, TargetCR
  <2>3. UpFrom(s, it2, FALSE)
    BY <1>2, <1>3, <1>6, <1>14, <2>2 DEF UpFrom
  <2>4. Connection("Active", s).st = "Active"
    BY DEF Connection
  <2>5. Handler(Target, r, up, Connection("Active", s), out, dialing, crInFlight \ {s},
                crUnread \ {s}, said, FALSE)
    BY <1>1, <1>11, <1>12, <2>1, <2>2, <2>4 DEF Handler
  <2>6. \E x \in T.conn : x \in granted \cup Proxies /\ said = {Success(Initiator, x)}
    BY <1>1 DEF said
  <2> QED BY <1>2, <2>1, <2>3, <2>5, <2>6, TargetUpDoes DEF up
<1>15. CASE ~T.fast
  <2>1. it2.clientOut # NoStream
    BY <1>2, <1>6, Names DEF InitiatorHosts
  <2>2. Is(r, up, Connection("Active", h), out, dialing, crInFlight, crUnread)
    BY <1>2, <1>6, <1>10, <1>15, <2>1, CheckForActivationIs DEF r, up
  <2>3. Connection("Active", h).st = "Active"
    BY DEF Connection
  <2>4. Handler(Target, r, up, Connection("Active", h), out, dialing, crInFlight,
                crUnread, said, FALSE)
    BY <1>1, <1>11, <1>12, <2>2, <2>3 DEF Handler
  <2>5. T' = up /\ CT' = Connection("Active", h) /\ SameCR /\ TargetSays(said, FALSE) /\ NetOK'
    BY <2>4, TargetActs DEF SameCR
  <2>6. up = [T EXCEPT !.state = "Active", !.conn = {}, !.connSuccess = TRUE,
                       !.lateProxy = FALSE, !.clientOut = NoStream, !.activated = TRUE]
    BY <1>2, <1>7, <1>15, Quiet DEF up, Items
  <2>7. TUpSlow(h)
    BY <1>1, <1>2, <1>15, <2>5, <2>6 DEF TUpSlow, said
  <2> QED BY <1>2, <2>5, <2>7 DEF Step, TargetSteps
<1> QED BY <1>13, <1>14, <1>15

LEMMA TargetConnectorFailsDoes ==
    ASSUME Known, NEW h \in StreamHosts, NEW late \in BOOLEAN, ConnectorFails(Target, h, late)
    PROVE  NetOK' /\ Step
<1> DEFINE e == [Start(Target) EXCEPT !.it.conn = @ \ {h},
                                      !.dial = IF late THEN @ ELSE @ \ {h}]
           D == T.conn \ {h}
           it == [T EXCEPT !.conn = D]
           dial == IF late THEN dialing ELSE dialing \ {h}
           r == IF e.it.conn = {} THEN ConnResultFalse(Target, e) ELSE e
<1>1. /\ h \in T.conn /\ granted' = granted /\ excuse \subseteq excuse'
      /\ Apply(Target, r, net[Target])
  BY DEF ConnectorFails, T
<1>2. /\ T.state = "Target" /\ CT.st = "Connecting" /\ ~T.activated
      /\ ~T.connSuccess /\ ~T.localFailed /\ ~T.proxyConn /\ ~T.proxyTask
      /\ T.clientOut = NoStream /\ ToI = {} /\ CanDial(T)
      /\ T.hosts \subseteq InitiatorHosts /\ T.conn \subseteq T.hosts
      /\ T.lateProxy => T.hosts \cap Proxies # {} /\ T.fast
      /\ T.task => ~T.remoteFailed
      /\ ~T.fast => T.client = NoStream /\ ~T.task /\ ~T.remoteFailed
  BY <1>1, TargetDialling
<1>3. it \in Items /\ D \in SUBSET T.hosts
  <2>1. T \in Items /\ D \in SUBSET StreamHosts
    BY Quiet DEF Items
  <2> HIDE DEF D
  <2>2. it \in Items
    BY <2>1 DEF Items
  <2> QED BY <1>2, <2>2 DEF D
<1>4. Is(e, it, CT, <<>>, dial, crInFlight, crUnread)
  <2>1. Is(Start(Target), T, CT, <<>>, dialing, crInFlight, crUnread)
    BY Quiet, StartIs
  <2> QED BY <2>1, <1>3 DEF Is, Effects
<1>5. /\ it.conn = D /\ it.lateProxy = T.lateProxy /\ it.remoteFailed = T.remoteFailed
      /\ it.hosts = T.hosts /\ it.fast = T.fast
  BY Quiet DEF Items
<1>6. r = IF D = {} THEN ConnResultFalse(Target, e) ELSE e
  BY <1>4, <1>5 DEF Is
<1> HIDE DEF r
<1>7. ASSUME NEW it2, NEW D2 \in SUBSET T.hosts, NEW L \in BOOLEAN, NEW dial2,
             Is(r, it2, CT, <<>>, dial2, crInFlight, crUnread),
             it2 = [T EXCEPT !.conn = D2, !.lateProxy = L],
             L => T.lateProxy, L /\ D2 = {} => ~T.remoteFailed,
             ~T.fast => D2 # {}
      PROVE  NetOK' /\ Step
  <2>1. Handler(Target, r, it2, CT, <<>>, dial2, crInFlight, crUnread, {}, FALSE)
    BY <1>1, <1>2, <1>7, Quiet DEF Handler
  <2>2. T' = it2 /\ CT' = CT /\ SameCR /\ TargetSays({}, FALSE) /\ NetOK'
    BY <2>1, TargetActs DEF SameCR
  <2>3. it2 = [T EXCEPT !.conn = D2, !.lateProxy = L, !.task = T.task /\ ~FALSE,
                        !.remoteFailed = T.remoteFailed \/ FALSE]
    BY <1>7, Quiet DEF Items
  <2>4. TTries(D2, L, FALSE)
    BY <1>2, <1>7, <2>2, <2>3 DEF TTries
  <2>5. D2 \in SUBSET InitiatorHosts
    BY <1>2
  <2> QED BY <2>2, <2>4, <2>5 DEF Step, TargetSteps
<1>8. CASE D # {}
  <2>1. it = [T EXCEPT !.conn = D, !.lateProxy = T.lateProxy] /\ T.lateProxy \in BOOLEAN
    BY Quiet DEF Items
  <2> HIDE DEF it, e, D, dial
  <2> QED BY <1>3, <1>4, <1>6, <1>7, <1>8, <2>1
<1>9. CASE D = {} /\ T.lateProxy
  <2>1. r = IF T.remoteFailed THEN DoIncoming(Target, e) ELSE e
    BY <1>4, <1>5, <1>6, <1>9 DEF ConnResultFalse, Is
  <2>2. CASE T.remoteFailed
    <3> DEFINE D2 == T.hosts \cap Proxies
               it2 == [it EXCEPT !.lateProxy = FALSE, !.conn = it.hosts \cap Proxies]
    <3>1. it2 = [T EXCEPT !.conn = D2, !.lateProxy = FALSE] /\ D2 \in SUBSET T.hosts
      BY <1>5, Quiet DEF Items
    <3>2. T.hosts # {} /\ D2 # {}
      BY <1>2, <1>9
    <3> HIDE DEF e, it, dial
    <3>3. Is(r, it2, CT, <<>>, dial \cup ((it.hosts \cap Proxies) \cap Peers), crInFlight, crUnread)
      BY <1>4, <1>5, <1>9, <2>1, <2>2, <3>2, DoIncomingLateIs
    <3> HIDE DEF D2, it2
    <3> QED BY <1>7, <3>1, <3>2, <3>3
  <2>3. CASE ~T.remoteFailed
    <3>1. it = [T EXCEPT !.conn = D, !.lateProxy = TRUE]
      BY <1>9, Quiet DEF Items
    <3> HIDE DEF it, e, D, dial
    <3> QED BY <1>2, <1>3, <1>4, <1>7, <1>9, <2>1, <2>3, <3>1
  <2> QED BY <2>2, <2>3
<1>10. CASE D = {} /\ ~T.lateProxy
  <2> DEFINE it2 == [it EXCEPT !.localFailed = TRUE]
  <2>1. r = DoConnectError(Target, e)
    BY <1>4, <1>5, <1>6, <1>10 DEF ConnResultFalse, Is
  <2>2. /\ it2.remoteFailed = T.remoteFailed /\ it2.fast = T.fast /\ it2.localFailed
        /\ it2 = [T EXCEPT !.conn = {}, !.localFailed = TRUE]
    BY <1>2, <1>10, Quiet DEF Items
  <2>3. GaveUp(Target, it2) <=> T.remoteFailed \/ ~T.fast
    BY <2>2, NamesDiffer DEF GaveUp
  <2>4. Append(<<>>, Error(Other(Target))) = <<Error(Initiator)>>
    <3>1. Error(Initiator) \in Stanzas
      BY PeersAre, NamesDiffer, StanzaTypes
    <3> QED BY <3>1, Quiet
  <2> HIDE DEF e, it, dial
  <2>5. IF GaveUp(Target, it2)
        THEN Is(r, NoItem, Connection("Failed", NoStream), <<Error(Initiator)>>, dial,
                crInFlight, crUnread)
        ELSE Is(r, it2, CT, <<Error(Initiator)>>, dial, crInFlight, crUnread)
    <3> DEFINE out2 == Append(<<>>, Error(Other(Target)))
    <3>1. IF GaveUp(Target, it2)
          THEN Is(r, NoItem, Connection("Failed", NoStream), out2, dial, crInFlight, crUnread)
          ELSE Is(r, it2, CT, out2, dial, crInFlight, crUnread)
      BY <1>4, <2>1, PeersAre, DoConnectErrorIs
    <3> QED BY <2>4, <3>1
  <2> HIDE DEF it2
  <2>6. Answer(Target, <<Error(Initiator)>>, {Error(Initiator)})
    BY <1>2, Quiet, PeersAre, AnswerIs
  <2>7. CASE T.remoteFailed \/ ~T.fast
    <3>1. Connection("Failed", NoStream).st = "Failed"
      BY DEF Connection
    <3>2. Handler(Target, r, NoItem, Connection("Failed", NoStream), <<Error(Initiator)>>, dial,
                  crInFlight, crUnread, {Error(Initiator)}, FALSE)
      BY <1>1, <2>3, <2>5, <2>6, <2>7, <3>1 DEF Handler
    <3> QED BY <1>1, <1>2, <1>10, <2>7, <3>2, TargetFails
  <2>8. CASE ~T.remoteFailed /\ T.fast
    <3>1. Handler(Target, r, it2, CT, <<Error(Initiator)>>, dial, crInFlight, crUnread,
                  {Error(Initiator)}, FALSE)
      BY <1>1, <1>2, <2>3, <2>5, <2>6, <2>8 DEF Handler
    <3>2. T' = it2 /\ CT' = CT /\ SameCR /\ TargetSays({Error(Initiator)}, FALSE) /\ NetOK'
      BY <3>1, TargetActs DEF SameCR
    <3>3. TGivesUp
      BY <1>1, <1>2, <1>10, <2>2, <2>8, <3>2 DEF TGivesUp
    <3> QED BY <3>2, <3>3 DEF Step, TargetSteps
  <2> QED BY <2>7, <2>8
<1> QED BY <1>8, <1>9, <1>10

(* While the target waits for an answer.                                    *)
LEMMA TargetAsking ==
    ASSUME Known, T.task
    PROVE  /\ T.state \in {"Target", "Active"}
           /\ T.state = "Target" <=> CT.st = "Connecting"
           /\ T.state = "Active" <=> CT.st = "Active"
           /\ T.fast /\ ~T.remoteFailed /\ ~T.proxyConn /\ ~T.proxyTask
           /\ T.lateProxy => ~T.localFailed
           /\ T.hosts \subseteq InitiatorHosts /\ T.conn \subseteq T.hosts
           /\ T.lateProxy => T.hosts \cap Proxies # {}
           /\ T.conn # {} \/ T.lateProxy => ToI = {} /\ CanDial(T) /\ ~T.connSuccess
           /\ T.localFailed => ~T.connSuccess
           /\ T.state = "Target" => ~T.activated
           /\ T.state = "Active" => T.conn = {} /\ ~T.lateProxy /\ T.client = NoStream
           /\ \A m \in ToT : m.kind \in {"success", "error"}
           /\ \A m \in ToT : m.kind = "success" => \E s \in TargetHosts : m = Success(Target, s)
<1>1. /\ T.state \in {"Target", "Active"}
      /\ T.state = "Target" <=> CT.st = "Connecting"
      /\ T.state = "Active" <=> CT.st = "Active"
  BY DEF Known, KnownParts, Linked, Nothing
<1>2. /\ ~T.remoteFailed /\ ~T.proxyConn /\ ~T.proxyTask
      /\ T.lateProxy => ~T.localFailed
      /\ T.hosts \subseteq InitiatorHosts /\ T.conn \subseteq T.hosts
      /\ T.lateProxy => T.hosts \cap Proxies # {}
      /\ T.localFailed => ~T.connSuccess
      /\ T.conn # {} \/ T.lateProxy => ~T.connSuccess
      /\ T.state = "Active" => T.conn = {} /\ (T.lateProxy => T.localFailed)
  BY DEF Known, KnownParts, TargetOK, ItemOK
<1>3. /\ T.fast /\ (T.state = "Target" => ~T.activated)
      /\ T.state = "Active" => T.client = NoStream
  BY <1>1 DEF Known, KnownParts, TargetOK
<1>4. T.conn # {} \/ T.lateProxy => ToI = {} /\ CanDial(T)
  BY <1>2 DEF Known, KnownParts, OneAnswer, AnswersI, CanDial
<1>5. \A m \in ToT : m.kind = "success" => \E s \in TargetHosts : m = Success(Target, s)
  BY DEF Known, KnownParts, SuccessTrue
<1>6. \A m \in ToT : m.kind \in {"success", "error"}
  BY Messages DEF ToT
<1> QED BY <1>1, <1>2, <1>3, <1>4, <1>5, <1>6

LEMMA TargetAnswerDoes ==
    ASSUME Known, RecvAnswer(Target)
    PROVE  NetOK' /\ Step
<1> DEFINE m == Head(net[Target])
           e == TaskOver(Target, Start(Target))
           it == [T EXCEPT !.task = FALSE]
           r == JtFinished(Target, m)
<1>1. /\ net[Target] # <<>> /\ IsAnswer(m, Target) /\ m \in ToT
      /\ T.task /\ granted' = granted
      /\ Apply(Target, r, Tail(net[Target]))
      /\ excuse' = IF CT.st = "Active" THEN excuse \cup {"lateAnswer"} ELSE excuse
  BY Quiet, PeersAre, AnswerRead DEF T, CT
<1>2. /\ T.state \in {"Target", "Active"}
      /\ T.state = "Target" <=> CT.st = "Connecting"
      /\ T.state = "Active" <=> CT.st = "Active"
      /\ T.fast /\ ~T.remoteFailed /\ ~T.proxyConn /\ ~T.proxyTask
      /\ T.lateProxy => ~T.localFailed
      /\ T.hosts \subseteq InitiatorHosts /\ T.conn \subseteq T.hosts
      /\ T.lateProxy => T.hosts \cap Proxies # {}
      /\ T.conn # {} \/ T.lateProxy => ToI = {} /\ CanDial(T) /\ ~T.connSuccess
      /\ T.localFailed => ~T.connSuccess
      /\ T.state = "Target" => ~T.activated
      /\ T.state = "Active" => T.conn = {} /\ ~T.lateProxy /\ T.client = NoStream
      /\ m.kind \in {"success", "error"}
      /\ m.kind = "success" => \E s \in TargetHosts : m = Success(Target, s)
  BY <1>1, TargetAsking
<1>3. excuse \subseteq excuse'
  BY <1>1
<1>5. it \in Items
  BY Quiet DEF Items
<1>6. Is(e, it, CT, <<>>, dialing, crInFlight, crUnread)
  <2>1. Is(Start(Target), T, CT, <<>>, dialing, crInFlight, crUnread)
    BY Quiet, StartIs
  <2>2. [T EXCEPT !.task = FALSE, !.targetMode = T.targetMode] = it
    BY Quiet DEF Items
  <2>3. e = [Start(Target) EXCEPT !.it.task = FALSE, !.it.targetMode = @]
    BY <1>2, <2>1 DEF Is, TaskOver
  <2> QED BY <2>1, <2>2, <2>3, <1>5 DEF Is, Effects
<1>7. /\ it.state = T.state /\ it.conn = T.conn /\ it.lateProxy = T.lateProxy
      /\ it.localFailed = T.localFailed /\ ~it.remoteFailed /\ it.connSuccess = T.connSuccess
      /\ it.client = T.client /\ it.clientOut = T.clientOut /\ it.targetMode = T.targetMode
      /\ it.hosts = T.hosts /\ it.fast /\ it.activated = T.activated /\ ~it.task
      /\ ~it.proxyConn /\ ~it.proxyTask /\ it.allowIncoming = T.allowIncoming
  BY <1>2, Quiet DEF Items
<1>8. r = IF m.kind = "success" THEN PeerConnected(Target, e, CHOOSE h \in m.hosts : TRUE)
          ELSE PeerFailed(Target, e)
  <2> HIDE DEF e, it
  <2> QED BY <1>2, <1>6, <1>7 DEF JtFinished, Moot, Is, e
<1> HIDE DEF m, r
<1>9. ASSUME NEW it2, NEW c2, NEW out, NEW said, NEW dial2, NEW cr2, NEW un2,
             c2.st # "Idle", c2.st # "WaitingForAccept",
             Is(r, it2, c2, out, dial2, cr2, un2), Answer(Target, out, said)
      PROVE  Handler(Target, r, it2, c2, out, dial2, cr2, un2, said, TRUE)
  BY <1>1, <1>3, <1>9 DEF Handler, m
<1>10. Connection("Failed", NoStream).st = "Failed"
  BY DEF Connection
<1>11. ASSUME NEW x, x # NoStream, x \in {T.client, T.clientOut}, x \in crUnread,
              T.state = "Target", NEW it1, UpFrom(x, it1, TRUE), NEW out, NEW said,
              said = {} \/ (CanDial(T) /\ said = {Error(Initiator)}), Answer(Target, out, said),
              Is(r, [it1 EXCEPT !.state = "Active", !.client = NoStream,
                                !.clientOut = NoStream, !.activated = TRUE],
                 Connection("Active", x), out, dialing, crInFlight, crUnread \ {x})
       PROVE  NetOK' /\ Step
  <2> DEFINE up == [it1 EXCEPT !.state = "Active", !.client = NoStream,
                               !.clientOut = NoStream, !.activated = TRUE]
  <2>1. crInFlight \ {x} = crInFlight
    BY <1>11, TargetCR
  <2>2. Connection("Active", x).st = "Active"
    BY DEF Connection
  <2> HIDE DEF up
  <2>3. Handler(Target, r, up, Connection("Active", x), out, dialing, crInFlight \ {x},
                crUnread \ {x}, said, TRUE)
    BY <1>9, <1>11, <2>1, <2>2 DEF up
  <2> QED BY <1>11, <2>3, TargetUpDoes DEF up
<1>12. CASE m.kind = "success"
  <2> DEFINE stopped == StopConnecting(Target, e)
             sorry == T.conn # {} \/ T.lateProxy
             it1 == [it EXCEPT !.conn = {}, !.localFailed = T.localFailed \/ sorry]
             out == IF sorry THEN <<Error(Initiator)>> ELSE <<>>
  <2>1. PICK s \in TargetHosts : m = Success(Target, s)
    BY <1>2, <1>12
  <2>2. s = Target \/ s = TargetProxy
    BY DEF TargetHosts
  <2>3. r = PeerConnected(Target, e, s)
    <3> HIDE DEF e
    <3>1. (CHOOSE h \in m.hosts : TRUE) = s
      BY <2>1, ChosenHost
    <3> QED BY <1>8, <1>12, <3>1
  <2>4. Is(stopped, it1, CT, out, dialing, crInFlight, crUnread)
    <3>1. ~GaveUp(Target, [it EXCEPT !.conn = {}, !.localFailed = TRUE])
      BY <1>5, <1>7, NamesDiffer DEF GaveUp, Items
    <3> HIDE DEF e, it
    <3>2. Is(stopped, [it EXCEPT !.conn = {}, !.localFailed = it.localFailed
                                                  \/ (it.conn # {} \/ it.lateProxy)],
             CT, IF it.conn # {} \/ it.lateProxy THEN <<Error(Other(Target))>> ELSE <<>>,
             dialing, crInFlight, crUnread)
      BY <1>6, <3>1, PeersAre, StopConnectingIs
    <3> QED BY <1>7, <3>2, Quiet
  <2>5. /\ it1 \in Items /\ it1.client = T.client /\ it1.clientOut = T.clientOut
        /\ it1.state = T.state /\ it1.activated = T.activated
        /\ it1.targetMode = T.targetMode /\ it1.hosts = T.hosts /\ it1.fast /\ it1.conn = {}
        /\ ~it1.task /\ ~it1.proxyConn /\ ~it1.proxyTask /\ it1.lateProxy = T.lateProxy
        /\ it1.connSuccess = T.connSuccess /\ it1.allowIncoming = T.allowIncoming
        /\ it1.localFailed <=> T.localFailed \/ sorry
    <3>1. T.localFailed \in BOOLEAN
      BY Quiet DEF Items
    <3> HIDE DEF it
    <3> QED BY <3>1, <1>7, <1>5 DEF Items
  <2>6. Answer(Target, out, Sorry(Initiator, T))
    BY <1>2, Quiet, PeersAre, NamesDiffer, AnswerIs DEF Sorry
  <2>7. stopped.it = it1
    BY <2>4 DEF Is
  <2>8. it1 = [T EXCEPT !.task = FALSE, !.conn = {},
                        !.localFailed = T.localFailed \/ T.conn # {} \/ T.lateProxy]
    BY Quiet DEF Items
  <2>9. Sorry(Initiator, T) = {} \/ (CanDial(T) /\ Sorry(Initiator, T) = {Error(Initiator)})
    BY <1>2 DEF Sorry
  <2>10. CASE T.state = "Target" /\ s = Target
    <3>1. T.client = Target
      BY <1>1, <2>1, <2>10, InitiatorConnected
    <3>2. r = CheckForActivation(stopped)
      <4>1. stopped = StopConnecting(Target, e)
        OBVIOUS
      <4>2. r = PeerConnected(Target, e, Target)
        BY <2>3, <2>10
      <4> HIDE DEF e, it1, stopped
      <4> QED BY <2>5, <2>7, <2>10, <3>1, <4>1, <4>2, Names, PeersAre, PeerConnectedIs
    <3> DEFINE up == [it1 EXCEPT !.state = "Active", !.client = NoStream,
                                 !.clientOut = NoStream, !.activated = TRUE]
    <3> HIDE DEF stopped, e, it, it1, out, up
    <3>3. CASE r = stopped
      <4>1. Is(r, it1, CT, out, dialing, crInFlight, crUnread)
        BY <2>4, <3>3
      <4>2. Handler(Target, r, it1, CT, out, dialing, crInFlight, crUnread, Sorry(Initiator, T), TRUE)
        BY <1>2, <1>9, <2>6, <2>10, <4>1
      <4>3. T' = it1 /\ CT' = CT /\ SameCR /\ TargetSays(Sorry(Initiator, T), TRUE) /\ NetOK'
        BY <4>2, TargetActs DEF SameCR
      <4>4. TConnectedTo
        BY <1>1, <2>1, <2>8, <2>10, <4>3 DEF TConnectedTo
      <4> QED BY <4>3, <4>4 DEF Step, TargetSteps
    <3>4. CASE r # stopped
      <4>1. PICK x : /\ x # NoStream /\ x \in {T.client, T.clientOut} /\ x \in crUnread
                     /\ Is(r, up, Connection("Active", x), out, dialing, crInFlight, crUnread \ {x})
        BY <1>2, <2>4, <2>5, <2>10, <3>2, <3>4, TargetChecks DEF up
      <4>2. UpFrom(x, it1, TRUE)
        BY <1>2, <2>5 DEF UpFrom
      <4> QED BY <1>11, <2>6, <2>9, <2>10, <4>1, <4>2 DEF up
    <3> QED BY <3>3, <3>4
  <2>11. CASE T.state = "Target" /\ s = TargetProxy
    <3> DEFINE it2 == [it1 EXCEPT !.client = NoStream, !.allowIncoming = FALSE, !.proxyConn = TRUE]
               r2 == [stopped EXCEPT !.it.client = NoStream, !.it.allowIncoming = FALSE,
                                     !.it.proxyConn = TRUE]
    <3>1. r = r2
      <4>1. stopped = StopConnecting(Target, e) /\ Proxy(Target) = TargetProxy
        BY Vocabulary, Quiet
      <4>2. r = PeerConnected(Target, e, Proxy(Target))
        BY <2>3, <2>11, <4>1
      <4> HIDE DEF e, it1, stopped
      <4> QED BY <4>1, <4>2, PeersAre, PeerConnectedIs
    <3>2. it2 \in Items
      <4> HIDE DEF it1
      <4> QED BY <2>5 DEF Items, Streams
    <3>3. it2 = [T EXCEPT !.task = FALSE, !.conn = {}, !.client = NoStream,
                      !.allowIncoming = FALSE, !.proxyConn = TRUE,
                      !.localFailed = T.localFailed \/ T.conn # {} \/ T.lateProxy]
      BY <2>8, Quiet DEF Items
    <3> HIDE DEF stopped, e, it, it1, out
    <3>4. Is(r2, it2, CT, out, dialing, crInFlight, crUnread)
      BY <2>4, <3>2 DEF Is, Effects
    <3> HIDE DEF it2, r2
    <3>5. Handler(Target, r, it2, CT, out, dialing, crInFlight, crUnread, Sorry(Initiator, T), TRUE)
      BY <1>2, <1>9, <2>6, <2>11, <3>1, <3>4
    <3>6. T' = it2 /\ CT' = CT /\ SameCR /\ TargetSays(Sorry(Initiator, T), TRUE) /\ NetOK'
      BY <3>5, TargetActs DEF SameCR
    <3>7. TProxies
      BY <1>1, <2>1, <2>11, <3>3, <3>6 DEF TProxies
    <3> QED BY <3>6, <3>7 DEF Step, TargetSteps
  <2>12. CASE T.state = "Active"
    <3>1. s = Target
      <4>1. \A x \in ToT : x = Success(Target, Target)
        BY <1>1, <1>2, <2>12 DEF Known, KnownParts, TargetUp
      <4>2. Success(Target, s) = Success(Target, Target)
        BY <1>1, <2>1, <4>1
      <4>3. Success(Target, s).hosts = {s} /\ Success(Target, Target).hosts = {Target}
        BY DEF Success
      <4> QED BY <4>2, <4>3
    <3>2. r = Fail(stopped)
      <4>1. stopped = StopConnecting(Target, e)
        OBVIOUS
      <4>2. r = PeerConnected(Target, e, Target)
        BY <2>3, <3>1
      <4>3. stopped.it.client = NoStream
        BY <1>2, <2>5, <2>7, <2>12
      <4> HIDE DEF e, it1, stopped
      <4> QED BY <4>1, <4>2, <4>3, PeersAre, PeerConnectedIs
    <3> HIDE DEF stopped, e, it, it1, out
    <3>3. Is(r, NoItem, Connection("Failed", NoStream), out, dialing, crInFlight, crUnread)
      BY <2>4, <3>2, FailIs
    <3>4. Handler(Target, r, NoItem, Connection("Failed", NoStream), out, dialing,
                  crInFlight, crUnread, Sorry(Initiator, T), TRUE)
      BY <1>9, <1>10, <2>6, <3>3
    <3>5. excuse' # {}
      BY <1>1, <1>2, <2>12
    <3> QED BY <2>9, <2>12, <3>4, <3>5, TargetFails
  <2> QED BY <1>2, <2>2, <2>10, <2>11, <2>12
<1>13. CASE m.kind = "error"
  <2> DEFINE f == [e EXCEPT !.it.remoteFailed = TRUE]
             it1 == [it EXCEPT !.remoteFailed = TRUE]
             up == [it1 EXCEPT !.state = "Active", !.client = NoStream,
                               !.clientOut = NoStream, !.activated = TRUE]
  <2>1. it1 \in Items
    <3> HIDE DEF it
    <3> QED BY <1>5 DEF Items
  <2>2. Is(f, it1, CT, <<>>, dialing, crInFlight, crUnread)
    <3> HIDE DEF it, e
    <3> QED BY <1>6, <2>1 DEF Is, Effects
  <2>3. /\ it1.lateProxy = T.lateProxy /\ it1.conn = T.conn /\ it1.hosts = T.hosts
        /\ it1.connSuccess = T.connSuccess /\ it1.remoteFailed /\ it1.fast
        /\ it1.localFailed = T.localFailed /\ it1.client = T.client
        /\ it1.clientOut = T.clientOut /\ it1.activated = T.activated /\ ~it1.task
        /\ it1.targetMode = T.targetMode /\ ~it1.proxyConn /\ ~it1.proxyTask
        /\ it1.allowIncoming = T.allowIncoming
    BY <1>2, <1>5, <1>7, Quiet DEF Items
  <2>4. r = PeerFailed(Target, e)
    BY <1>8, <1>13
  <2>5. f.it = it1
    BY <2>2 DEF Is
  <2>6. /\ T.lateProxy => r = IF T.conn = {} THEN DoIncoming(Target, f) ELSE f
        /\ ~T.lateProxy /\ T.connSuccess => r = CheckForActivation(f)
        /\ ~T.lateProxy /\ ~T.connSuccess => r = CheckFailure(Target, f)
    <3> HIDE DEF it1, e
    <3> QED BY <2>3, <2>4, <2>5 DEF PeerFailed
  <2>7. \E x \in ToT : x.kind = "error"
    BY <1>1, <1>13
  <2>8. T.state = "Target"
    <3>1. T.state = "Active" => m = Success(Target, Target)
      BY <1>1, <1>2 DEF Known, KnownParts, TargetUp
    <3>2. Success(Target, Target).kind = "success"
      BY DEF Success
    <3> QED BY <1>2, <1>13, <3>1, <3>2
  <2>9. ASSUME NEW it2, NEW D \in SUBSET T.hosts, NEW L \in BOOLEAN, NEW dial2,
               Is(r, it2, CT, <<>>, dial2, crInFlight, crUnread),
               it2 = [it1 EXCEPT !.conn = D, !.lateProxy = L], ~T.localFailed,
               L => T.lateProxy, L => D # {}, D # {} => CanDial(T),
               T.connSuccess => D = {} /\ ~L
        PROVE  NetOK' /\ Step
    <3>1. Handler(Target, r, it2, CT, <<>>, dial2, crInFlight, crUnread, {}, TRUE)
      BY <1>2, <1>9, <2>8, <2>9, Quiet
    <3>2. T' = it2 /\ CT' = CT /\ SameCR /\ TargetSays({}, TRUE) /\ NetOK'
      BY <3>1, TargetActs DEF SameCR
    <3>3. it2 = [T EXCEPT !.conn = D, !.lateProxy = L, !.task = T.task /\ ~TRUE,
                          !.remoteFailed = T.remoteFailed \/ TRUE]
      BY <1>2, <2>9, Quiet DEF Items
    <3>4. TTries(D, L, TRUE)
      BY <1>1, <1>2, <2>7, <2>8, <2>9, <3>2, <3>3 DEF TTries
    <3>5. D \in SUBSET InitiatorHosts
      BY <1>2
    <3> QED BY <3>2, <3>4, <3>5 DEF Step, TargetSteps
  <2>10. CASE T.lateProxy /\ T.conn = {}
    <3> DEFINE it2 == [it1 EXCEPT !.lateProxy = FALSE, !.conn = T.hosts \cap Proxies]
               dial2 == dialing \cup ((T.hosts \cap Proxies) \cap Peers)
    <3>1. T.hosts # {} /\ ~T.localFailed /\ ~T.connSuccess /\ CanDial(T)
      BY <1>2, <2>10
    <3> HIDE DEF it1, f
    <3>2. Is(r, it2, CT, <<>>, dial2, crInFlight, crUnread)
      <4>1. r = DoIncoming(Target, f) /\ it1.lateProxy /\ it1.hosts = T.hosts /\ it1.hosts # {}
        BY <2>3, <2>6, <2>10, <3>1
      <4>2. Is(DoIncoming(Target, f),
               [it1 EXCEPT !.lateProxy = FALSE, !.conn = it1.hosts \cap Proxies],
               CT, <<>>, dialing \cup ((it1.hosts \cap Proxies) \cap Peers), crInFlight, crUnread)
        BY <2>2, <4>1, DoIncomingLateIs
      <4> QED BY <4>1, <4>2
    <3>3. it2 = [it1 EXCEPT !.conn = T.hosts \cap Proxies, !.lateProxy = FALSE]
      BY <2>1 DEF Items
    <3> HIDE DEF it2, dial2
    <3> QED BY <2>9, <3>1, <3>2, <3>3
  <2>11. CASE T.lateProxy /\ T.conn # {}
    <3>1. it1 = [it1 EXCEPT !.conn = T.conn, !.lateProxy = TRUE]
      BY <2>1, <2>3, <2>11 DEF Items
    <3>2. r = f /\ T.conn \in SUBSET T.hosts /\ ~T.localFailed /\ ~T.connSuccess /\ CanDial(T)
      BY <1>2, <2>6, <2>11
    <3> HIDE DEF it1, f
    <3> QED BY <2>2, <2>9, <2>11, <3>1, <3>2
  <2>12. CASE ~T.lateProxy /\ T.connSuccess /\ r = f
    <3>1. it1 = [it1 EXCEPT !.conn = {}, !.lateProxy = FALSE]
      BY <1>2, <2>1, <2>3, <2>12 DEF Items
    <3>2. ~T.localFailed
      BY <1>2, <2>12
    <3> HIDE DEF it1, f
    <3> QED BY <2>2, <2>9, <2>12, <3>1, <3>2
  <2>13. CASE ~T.lateProxy /\ T.connSuccess /\ r # f
    <3> HIDE DEF it1, f, up
    <3>1. PICK x : /\ x # NoStream /\ x \in {T.client, T.clientOut} /\ x \in crUnread
                   /\ Is(r, up, Connection("Active", x), <<>>, dialing, crInFlight, crUnread \ {x})
      <4>1. r = CheckForActivation(f) /\ ~it1.activated
        BY <1>2, <2>3, <2>6, <2>8, <2>13
      <4> QED BY <2>2, <2>3, <2>8, <2>13, <4>1, TargetChecks DEF up
    <3>2. UpFrom(x, it1, TRUE)
      BY <1>2, <2>1, <2>3, <2>13 DEF UpFrom
    <3> QED BY <1>11, <2>8, <3>1, <3>2, Quiet DEF up
  <2>14. CASE ~T.lateProxy /\ ~T.connSuccess /\ T.localFailed
    <3>1. GaveUp(Target, it1)
      BY <2>3, <2>14, NamesDiffer DEF GaveUp
    <3>2. r = Fail(f)
      BY <2>5, <2>6, <2>14, <3>1 DEF CheckFailure
    <3> HIDE DEF it1, f
    <3>3. Is(r, NoItem, Connection("Failed", NoStream), <<>>, dialing, crInFlight, crUnread)
      BY <2>2, <3>2, FailIs
    <3>4. Handler(Target, r, NoItem, Connection("Failed", NoStream), <<>>, dialing,
                  crInFlight, crUnread, {}, TRUE)
      BY <1>9, <1>10, <3>3, Quiet
    <3> QED BY <1>1, <2>7, <2>8, <2>14, <3>4, TargetFails
  <2>15. CASE ~T.lateProxy /\ ~T.connSuccess /\ ~T.localFailed
    <3>1. ~GaveUp(Target, it1)
      BY <2>3, <2>15, NamesDiffer DEF GaveUp
    <3>2. r = f
      BY <2>5, <2>6, <2>15, <3>1 DEF CheckFailure
    <3>3. it1 = [it1 EXCEPT !.conn = T.conn, !.lateProxy = FALSE]
      BY <2>1, <2>3, <2>15 DEF Items
    <3>4. T.conn \in SUBSET T.hosts /\ (T.conn # {} => CanDial(T))
      BY <1>2
    <3> HIDE DEF it1, f
    <3> QED BY <2>2, <2>9, <2>15, <3>2, <3>3, <3>4
  <2> QED BY <2>10, <2>11, <2>12, <2>13, <2>14, <2>15
<1> QED BY <1>2, <1>12, <1>13

(* accept() of a fast target that has nothing to dial sends two stanzas.    *)
LEMMA AppliedTwo ==
    ASSUME Known, net[Initiator] = <<>>, NEW hosts \in SUBSET StreamHosts,
           NEW e, NEW it, NEW c, NEW dial, NEW cr, NEW un, Apply(Target, e, net[Target]),
           Is(e, it, c, <<Request(hosts), Error(Initiator)>>, dial, cr, un),
           c.st \notin {"Idle", "WaitingForAccept"}
    PROVE  /\ T' = it /\ CT' = c /\ SameInitiator
           /\ dialing' = dial /\ crInFlight' = cr /\ crUnread' = un
           /\ ToT' = ToT /\ AskT' = AskT
           /\ ToI' = {Error(Initiator)} /\ AskI' = {Request(hosts)}
           /\ NetOK'
<1> DEFINE out == <<Request(hosts), Error(Initiator)>>
           R == Request(hosts)
           E == Error(Initiator)
<1>1. TypeOK /\ NetOK /\ Other(Target) = Initiator
  BY Quiet DEF Known
<1>2. /\ item'[Target] = it /\ con'[Target] = c
      /\ item'[Initiator] = item[Initiator] /\ con'[Initiator] = con[Initiator]
      /\ dialing' = dial /\ crInFlight' = cr /\ crUnread' = un
  BY <1>1, PeersAre, NamesDiffer DEF Apply, Is, TypeOK
<1>3. /\ IsRequest(R) /\ ~IsAnswer(R, Initiator) /\ R \in Stanzas
      /\ ~IsRequest(E) /\ IsAnswer(E, Initiator) /\ E \in Stanzas
  <2>1. Initiator \in Peers /\ Initiator \in StreamHosts
    BY PeersAre, NamesDiffer
  <2> QED BY <2>1, MessageKinds
<1>4. net'[Target] = net[Target] /\ net'[Initiator] = out
  <2>1. net'[Target] = net[Target] /\ net'[Initiator] = net[Initiator] \o out
    BY <1>1, PeersAre, NamesDiffer DEF Apply, Is, TypeOK
  <2>2. <<>> \o out = out
    <3> HIDE DEF R, E
    <3>1. <<R, E>> \in Seq(Stanzas)
      BY <1>3
    <3>2. <<>> \o <<R, E>> = <<R, E>>
      BY <3>1
    <3> QED BY <3>2 DEF R, E
  <2> QED BY <2>1, <2>2
<1>5. ToT' = ToT /\ AskT' = AskT /\ InOrder(Target)'
  BY <1>1, <1>4, PeersAre, SendsNothing DEF ToT, AskT, InOrder
<1>6. /\ Len(out) = 2 /\ out[1] = R /\ out[2] = E
  OBVIOUS
<1> HIDE DEF out, R, E
<1>7. InOrder(Initiator)'
  BY <1>3, <1>4, <1>6 DEF InOrder
<1>8. {net'[Initiator][k] : k \in 1..Len(net'[Initiator])} = {R, E}
  BY <1>4, <1>6
<1>9. ToI' = {E} /\ AskI' = {R}
  BY <1>3, <1>8 DEF ToI, AskI, Answers, Requests
<1>10. NetOK'
  <2>1. CI'.st = "Idle" => net'[Target] = <<>>
    BY <1>1, <1>2, <1>4 DEF NetOK, CI
  <2>2. CT'.st \in {"Idle", "WaitingForAccept"} => net'[Initiator] = <<>>
    BY <1>2 DEF CT
  <2> QED BY <1>5, <1>7, <2>1, <2>2, NetIs
<1> QED BY <1>2, <1>5, <1>9, <1>10 DEF SameInitiator, I, CI, T, CT, R, E

LEMMA AcceptDoes ==
    ASSUME Known, Accept
    PROVE  NetOK' /\ Step
<1> DEFINE b == TargetOffersProxy(T.hosts)
           e == [Start(Target) EXCEPT
                    !.con.st = "Connecting",
                    !.it = [NoItem EXCEPT !.state = "Target", !.fast = TRUE,
                                          !.hosts = T.hosts, !.proxy = b]]
           c == [CT EXCEPT !.st = "Connecting"]
           own == (IF hasServer[Target] THEN {Target} ELSE {})
                    \cup (IF b THEN {TargetProxy} ELSE {})
           F == own # {}
           it0 == [NoItem EXCEPT !.state = "Target", !.fast = TRUE,
                                 !.hosts = T.hosts, !.proxy = b]
           it == [NoItem EXCEPT !.state = "Target", !.fast = F, !.proxy = b, !.hosts = T.hosts,
                                !.allowIncoming = F, !.task = F]
           offer == DoOutgoing(Target, e)
           out == IF F THEN <<Request(own)>> ELSE <<>>
           r == DoIncoming(Target, offer)
<1>1. /\ CT.st = "WaitingForAccept" /\ granted' = granted /\ excuse' = excuse
      /\ Apply(Target, r, net[Target])
  BY DEF Accept, T, CT
<1>2. /\ T.state = "Idle" /\ AskI = {} /\ ToI = {} /\ ToT = {} /\ net[Initiator] = <<>>
      /\ T.hosts \subseteq InitiatorHosts /\ T.hosts \in SUBSET StreamHosts /\ T \in Items
  <2>1. T \in Items /\ net[Initiator] = <<>>
    BY <1>1, Quiet DEF Known, NetOK
  <2>2. T.hosts \subseteq InitiatorHosts /\ T.hosts \in SUBSET StreamHosts
    BY <2>1 DEF Known, KnownParts, TargetOK, ItemOK, Items
  <2> QED BY <1>1, <2>1, <2>2, Accepting
<1>3. b \in BOOLEAN
  BY Quiet, PeersAre DEF TypeOK, TargetOffersProxy
<1>4. own \in SUBSET TargetHosts /\ own \in SUBSET StreamHosts
  BY DEF TargetHosts, StreamHosts, Peers, Proxies
<1>17. /\ NoItem \in Items /\ NoItem.task = FALSE /\ NoItem.allowIncoming = FALSE
       /\ NoItem.fast = FALSE /\ NoItem.lateProxy = FALSE /\ NoItem.conn = {}
       /\ NoItem.localFailed = FALSE
  BY NoItemType DEF NoItem
<1>18. F \in BOOLEAN
  OBVIOUS
<1>5. it0 \in Items /\ c \in Connections /\ c.st = "Connecting" /\ it \in Items
  <2> HIDE DEF b, own, F
  <2>1. c \in Connections /\ c.st = "Connecting"
    BY Quiet DEF Connections
  <2>2. it0 \in Items
    BY <1>2, <1>3, <1>17 DEF Items
  <2>3. it \in Items
    BY <1>2, <1>3, <1>17, <1>18 DEF Items
  <2> QED BY <2>1, <2>2, <2>3
<1>6. Is(e, it0, c, <<>>, dialing, crInFlight, crUnread)
  <2>1. Is(Start(Target), T, CT, <<>>, dialing, crInFlight, crUnread)
    BY Quiet, StartIs
  <2> HIDE DEF it0, b
  <2>2. e = [Start(Target) EXCEPT !.con.st = "Connecting", !.it = it0]
    BY DEF it0
  <2> QED BY <1>5, <2>1, <2>2 DEF Is, Effects
<1>7. /\ it.state = "Target" /\ it.fast = F /\ it.hosts = T.hosts /\ it.conn = {}
      /\ ~it.lateProxy /\ ~it.remoteFailed
  BY <1>5 DEF NoItem
<1>8. offer = IF F THEN Send([e EXCEPT !.it.allowIncoming = TRUE, !.it.task = TRUE], Request(own))
              ELSE [e EXCEPT !.it.fast = FALSE]
  <2>1. e.it.proxy = b /\ Proxy(Target) = TargetProxy
    <3>1. e.it = it0 /\ it0.proxy = b
      BY <1>6 DEF Is, NoItem
    <3> HIDE DEF e, it0, b
    <3> QED BY <3>1, Vocabulary, Quiet
  <2> HIDE DEF e, b
  <2> QED BY <2>1 DEF DoOutgoing
<1>9. /\ F => [it0 EXCEPT !.allowIncoming = TRUE, !.task = TRUE] = it
      /\ ~F => [it0 EXCEPT !.fast = FALSE] = it
  <2> HIDE DEF b, own, F
  <2> QED BY <1>17, <1>18 DEF Items
<1>10. Request(own) \in Stanzas /\ IsRequest(Request(own)) /\ ~IsAnswer(Request(own), Initiator)
  BY <1>4, PeersAre, NamesDiffer, MessageKinds
<1>11. /\ Error(Initiator) \in Stanzas /\ IsAnswer(Error(Initiator), Initiator)
       /\ ~IsRequest(Error(Initiator))
  BY PeersAre, NamesDiffer, MessageKinds
<1> HIDE DEF e, it0, it, own, b, c
<1>12. Is(offer, it, c, out, dialing, crInFlight, crUnread)
  <2> HIDE DEF offer
  <2>1. CASE F
    <3> DEFINE e2 == [e EXCEPT !.it.allowIncoming = TRUE, !.it.task = TRUE]
    <3>1. Is(e2, it, c, <<>>, dialing, crInFlight, crUnread)
      BY <1>5, <1>6, <1>9, <2>1 DEF Is, Effects
    <3>2. Append(<<>>, Request(own)) = <<Request(own)>>
      BY <1>10
    <3>3. offer = Send(e2, Request(own)) /\ out = <<Request(own)>>
      BY <1>8, <2>1
    <3> HIDE DEF e2, out
    <3> QED BY <1>10, <3>1, <3>2, <3>3, SendIs
  <2>2. CASE ~F
    BY <1>5, <1>6, <1>8, <1>9, <2>2 DEF Is, Effects
  <2> QED BY <2>1, <2>2
<1> HIDE DEF offer
<1>13. ASSUME NEW it2, NEW c2, NEW out2, NEW dial2, Apply(Target, r, net[Target]),
              Is(r, it2, c2, out2, dial2, crInFlight, crUnread),
              c2.st \notin {"Idle", "WaitingForAccept"},
              out2 = <<>> \/ out2 = <<Request(own)>> \/ out2 = <<Error(Initiator)>>
       PROVE  /\ T' = it2 /\ CT' = c2 /\ SameInitiator /\ SameCR
              /\ ToT' = ToT /\ AskT' = AskT
              /\ ToI' = (IF out2 = <<Error(Initiator)>> THEN {Error(Initiator)} ELSE {})
              /\ AskI' = (IF out2 = <<Request(own)>> THEN {Request(own)} ELSE {})
              /\ NetOK'
  <2>1. out2 = <<>> \/ \E m : out2 = <<m>> /\ MaySend(Target, m)
    BY <1>2, <1>10, <1>11, <1>13, Quiet DEF MaySend
  <2> HIDE DEF r
  <2>2. Applies(Target, r, it2, c2, out2, dial2, crInFlight, crUnread, net[Target])
    BY <1>13, <2>1 DEF Applies
  <2>3. /\ T' = it2 /\ CT' = c2 /\ SameInitiator
        /\ crInFlight' = crInFlight /\ crUnread' = crUnread
        /\ ToT' = ToT /\ AskT' = AskT
        /\ out2 = <<>> => ToI' = ToI /\ AskI' = AskI
        /\ \A m : out2 = <<m>> =>
             /\ ToI' = ToI \cup (IF IsAnswer(m, Initiator) THEN {m} ELSE {})
             /\ AskI' = AskI \cup (IF IsRequest(m) THEN {m} ELSE {})
        /\ NetOK'
    BY <1>13, <2>2, TargetHandles
  <2>4. <<Request(own)>> # <<Error(Initiator)>>
    BY <1>10, <1>11
  <2>5. /\ ToI' = (IF out2 = <<Error(Initiator)>> THEN {Error(Initiator)} ELSE {})
        /\ AskI' = (IF out2 = <<Request(own)>> THEN {Request(own)} ELSE {})
    BY <1>2, <1>10, <1>11, <1>13, <2>3, <2>4
  <2> QED BY <2>3, <2>5 DEF SameCR
<1>14. ASSUME NEW D \in SUBSET T.hosts, NEW L \in BOOLEAN, NEW X \in BOOLEAN,
              T' = [it EXCEPT !.lateProxy = L, !.conn = D, !.localFailed = X],
              L => T.hosts \cap Proxies # {} /\ F, X <=> (D = {} /\ ~L), ~F => D # {},
              CT' = c, SameInitiator, SameCR, ToT' = ToT, AskT' = AskT, NetOK',
              AskI' = (IF F THEN {Request(own)} ELSE {}),
              ToI' = (IF X THEN {Error(Initiator)} ELSE {})
       PROVE  NetOK' /\ Step
  <2>1. T' = [NoItem EXCEPT !.state = "Target", !.fast = F, !.proxy = b,
                            !.hosts = T.hosts, !.conn = D, !.lateProxy = L,
                            !.localFailed = X, !.allowIncoming = F, !.task = F]
    <3> HIDE DEF F
    <3> QED BY <1>14, <1>17 DEF it, Items
  <2>2. IF F THEN \E hosts \in SUBSET TargetHosts : hosts # {} /\ AskI' = {Request(hosts)}
             ELSE AskI' = AskI
    BY <1>2, <1>4, <1>14
  <2>3. ToI' = ToI \cup (IF X THEN {Error(Initiator)} ELSE {})
    BY <1>2, <1>14
  <2>4. TAccepts(F, D, L, X)
    BY <1>1, <1>3, <1>14, <2>1, <2>2, <2>3 DEF TAccepts, c
  <2>5. D \in SUBSET InitiatorHosts /\ F \in BOOLEAN
    BY <1>2
  <2> QED BY <1>14, <2>4, <2>5 DEF Step, TargetSteps
<1>15. CASE T.hosts # {}
  <2>1. PICK D \in SUBSET T.hosts, L \in BOOLEAN :
          /\ Is(r, [it EXCEPT !.lateProxy = L, !.conn = D], c, out, dialing \cup (D \cap Peers),
                crInFlight, crUnread)
          /\ D # {} \/ L
          /\ L => T.hosts \cap Proxies # {} /\ F
    <3>1. \E D \in SUBSET it.hosts, L \in BOOLEAN :
            /\ Is(r, [it EXCEPT !.lateProxy = L, !.conn = D], c, out, dialing \cup (D \cap Peers),
                  crInFlight, crUnread)
            /\ D # {} \/ L
            /\ L => it.hosts \cap Proxies # {} /\ (Target = Initiator \/ it.fast)
      <4> HIDE DEF out, F
      <4> QED BY <1>7, <1>12, <1>15, DoIncomingIs
    <3> HIDE DEF r, out
    <3> QED BY <1>7, <3>1, NamesDiffer
  <2> DEFINE it2 == [it EXCEPT !.lateProxy = L, !.conn = D]
             dial2 == dialing \cup (D \cap Peers)
  <2>2. out = <<>> \/ out = <<Request(own)>>
    OBVIOUS
  <2> HIDE DEF it2, dial2, r
  <2>3. /\ T' = it2 /\ CT' = c /\ SameInitiator /\ SameCR
        /\ ToT' = ToT /\ AskT' = AskT
        /\ ToI' = (IF out = <<Error(Initiator)>> THEN {Error(Initiator)} ELSE {})
        /\ AskI' = (IF out = <<Request(own)>> THEN {Request(own)} ELSE {})
        /\ NetOK'
    <3> HIDE DEF out
    <3> QED BY <1>1, <1>5, <1>13, <2>1, <2>2 DEF it2, dial2, r
  <2>4. /\ out # <<Error(Initiator)>> /\ (out = <<Request(own)>> <=> F)
    BY <1>10, <1>11
  <2>5. it2 = [it EXCEPT !.lateProxy = L, !.conn = D, !.localFailed = FALSE]
    <3> HIDE DEF F
    <3> QED BY <1>17 DEF it2, it, Items
  <2> HIDE DEF out, F
  <2> QED BY <1>14, <2>1, <2>3, <2>4, <2>5
<1>16. CASE T.hosts = {}
  <2> DEFINE it2 == [it EXCEPT !.localFailed = TRUE]
             out2 == Append(out, Error(Other(Target)))
  <2>1. r = DoConnectError(Target, offer)
    BY <1>7, <1>12, <1>16 DEF DoIncoming, Is
  <2>2. GaveUp(Target, it2) <=> ~F
    <3>1. it2.localFailed /\ it2.remoteFailed = it.remoteFailed /\ it2.fast = it.fast
      BY <1>5 DEF Items
    <3> HIDE DEF it2
    <3> QED BY <1>7, <3>1, NamesDiffer DEF GaveUp
  <2>3. IF GaveUp(Target, it2)
        THEN Is(r, NoItem, Connection("Failed", NoStream), out2, dialing, crInFlight, crUnread)
        ELSE Is(r, it2, c, out2, dialing, crInFlight, crUnread)
    <3> HIDE DEF r, out
    <3> QED BY <1>12, <2>1, PeersAre, DoConnectErrorIs
  <2>4. /\ F => out2 = <<Request(own), Error(Initiator)>>
        /\ ~F => out2 = <<Error(Initiator)>>
    <3> DEFINE R == Request(own)
               E == Error(Initiator)
    <3>1. Error(Other(Target)) = E /\ R \in Stanzas /\ E \in Stanzas
      BY <1>10, <1>11, Quiet
    <3> HIDE DEF R, E
    <3>2. Append(<<R>>, E) = <<R, E>>
      <4>1. /\ <<R>> \in Seq(Stanzas) /\ Len(<<R>>) = 1 /\ <<R>>[1] = R
            /\ <<R, E>> \in Seq(Stanzas) /\ Len(<<R, E>>) = 2
            /\ <<R, E>>[1] = R /\ <<R, E>>[2] = E
        BY <3>1
      <4>2. /\ Append(<<R>>, E) \in Seq(Stanzas) /\ Len(Append(<<R>>, E)) = 2
            /\ Append(<<R>>, E)[1] = R /\ Append(<<R>>, E)[2] = E
        BY <3>1, <4>1
      <4>3. \A k \in 1..2 : Append(<<R>>, E)[k] = <<R, E>>[k]
        BY <4>1, <4>2
      <4> QED BY <4>1, <4>2, <4>3, SeqEqual
    <3>4. Append(<<>>, E) = <<E>>
      BY <3>1
    <3>3. (F => out = <<R>>) /\ (~F => out = <<>>)
      BY DEF R
    <3> HIDE DEF out, F
    <3> QED BY <3>1, <3>2, <3>3, <3>4 DEF R, E
  <2> HIDE DEF r, out2, out
  <2>5. CASE F
    <3>1. Is(r, it2, c, <<Request(own), Error(Initiator)>>, dialing, crInFlight, crUnread)
      BY <2>2, <2>3, <2>4, <2>5
    <3> HIDE DEF it2
    <3>2. /\ T' = it2 /\ CT' = c /\ SameInitiator
          /\ crInFlight' = crInFlight /\ crUnread' = crUnread
          /\ ToT' = ToT /\ AskT' = AskT
          /\ ToI' = {Error(Initiator)} /\ AskI' = {Request(own)} /\ NetOK'
      BY <1>1, <1>2, <1>4, <1>5, <3>1, AppliedTwo DEF r
    <3>3. it2 = [it EXCEPT !.lateProxy = FALSE, !.conn = {}, !.localFailed = TRUE]
      <4> HIDE DEF F
      <4> QED BY <1>17 DEF it2, it, Items
    <3> QED BY <1>14, <2>5, <3>2, <3>3 DEF SameCR
  <2>6. CASE ~F
    <3>1. Is(r, NoItem, Connection("Failed", NoStream), <<Error(Initiator)>>, dialing,
             crInFlight, crUnread)
      BY <2>2, <2>3, <2>4, <2>6
    <3>2. Connection("Failed", NoStream).st = "Failed"
      BY DEF Connection
    <3>3. /\ T' = NoItem /\ CT' = Connection("Failed", NoStream) /\ SameInitiator /\ SameCR
          /\ ToT' = ToT /\ AskT' = AskT
          /\ ToI' = {Error(Initiator)} /\ NetOK'
          /\ AskI' = (IF <<Error(Initiator)>> = <<Request(own)>> THEN {Request(own)} ELSE {})
      BY <1>1, <1>13, <3>1, <3>2 DEF r
    <3>4. AskI' = AskI
      <4>1. <<Error(Initiator)>> # <<Request(own)>>
        BY <1>10, <1>11
      <4> QED BY <1>2, <3>3, <4>1
    <3>5. TGone
      BY <1>1, <1>2, <3>2, <3>3, <3>4 DEF TGone, SameRequests
    <3> QED BY <3>3, <3>5 DEF Step, TargetSteps
  <2> QED BY <2>5, <2>6
<1> QED BY <1>15, <1>16

-----------------------------------------------------------------------------
(* The invariant.                                                           *)

LEMMA InitKnown ==
    ASSUME Init
    PROVE  Known
<1>1. /\ I = NoItem /\ T = NoItem
      /\ CI = Connection("Idle", NoStream) /\ CT = Connection("Idle", NoStream)
      /\ net[Initiator] = <<>> /\ net[Target] = <<>>
      /\ dialing = {} /\ granted = {} /\ crInFlight = {} /\ crUnread = {} /\ excuse = {}
  BY PeersAre DEF Init, I, T, CI, CT
<1>2. CI.st = "Idle" /\ CT.st = "Idle"
  BY <1>1 DEF Connection
<1>3. Nothing(NoItem) /\ NoItem.state = "Idle" /\ NoItem.hosts = {}
  BY DEF NoItem, Nothing
<1>4. AskI = {} /\ AskT = {} /\ ToI = {} /\ ToT = {}
  BY <1>1, EmptyNet DEF AskI, AskT, ToI, ToT
<1>5. TypeOK
  BY InitType
<1>6. NetOK
  <2>1. \A p \in Peers : net[p] = <<>>
    BY <1>1 DEF Peers
  <2>2. \A p \in Peers : 1..Len(net[p]) = {}
    BY <2>1
  <2> QED BY <1>1, <2>2 DEF NetOK
<1>7. \A s \in Streams : ~Picked(s)
  BY <1>1, <1>3 DEF Picked
<1>8. ~AnswersT /\ ~AnswersI
  BY <1>1, <1>2, <1>3, <1>4 DEF AnswersT, AnswersI, Nothing
<1>9. Linked /\ Beginning
  BY <1>1, <1>2, <1>3, <1>4 DEF Linked, Beginning, Nothing
<1>10. InitiatorOK /\ TargetOK
  BY <1>1, <1>3 DEF InitiatorOK, TargetOK, ItemOK, Nothing
<1>11. OneAnswer /\ SuccessTrue /\ ModeKnown
  BY <1>1, <1>3, <1>4, <1>8 DEF OneAnswer, SuccessTrue, ModeKnown, Nothing
<1>12. OneStream /\ TargetUp /\ Failures
  BY <1>1, <1>2, <1>3, <1>7 DEF OneStream, TargetUp, Failures
<1> QED BY <1>5, <1>6, <1>9, <1>10, <1>11, <1>12 DEF Known, KnownParts

LEMMA InitiatorKeeps ==
    ASSUME Known, InitiatorSteps
    PROVE  KnownParts'
BY IAsksKeeps, IRefusesKeeps, IDialsKeeps, IPicksOwnKeeps, IUpSlowKeeps, IProxiesKeeps,
   ITriesKeeps, IGivesUpKeeps, IConnectsKeeps, IGrantsKeeps, IProxyUpKeeps,
   IProxyUpSlowKeeps, IPicksProxyKeeps, IUpKeeps, IGoneKeeps, IDropsKeeps
   DEF InitiatorSteps

LEMMA TargetKeeps ==
    ASSUME Known, TargetSteps
    PROVE  KnownParts'
BY TIsAskedKeeps, TAcceptsKeeps, TConnectedToKeeps, TProxiesKeeps, TTriesKeeps,
   TGivesUpKeeps, TConnectsKeeps, TUpSlowKeeps, TGrantsKeeps, TProxyUpKeeps,
   TProxyDoneKeeps, CRComesKeeps, TUpFastKeeps, TGoneKeeps
   DEF TargetSteps

LEMMA NextDoes ==
    ASSUME Known, Next
    PROVE  NetOK' /\ Step
<1>1. CASE Connect \/ Accept \/ CRWritten
  BY <1>1, ConnectDoes, AcceptDoes, CRWrittenDoes
<1>2. ASSUME NEW s \in StreamHosts, CRArrives(s)
      PROVE  NetOK' /\ Step
  BY <1>2, CRArrivesDoes
<1>3. CASE Stanza(Initiator)
  BY <1>3, PeersAre, NamesDiffer, FastRequestDoes, InitiatorAnswerDoes, StaleDoes DEF Stanza
<1>4. CASE Stanza(Target)
  BY <1>4, PeersAre, NamesDiffer, InitialRequestDoes, TargetAnswerDoes, StaleDoes DEF Stanza
<1>5. CASE Connector(Initiator) \/ Connector(Target)
  BY <1>5, InitiatorConnectsDoes, InitiatorConnectorFailsDoes, TargetConnectsDoes,
     TargetConnectorFailsDoes DEF Connector
<1>6. CASE OwnProxy(Initiator) \/ OwnProxy(Target)
  BY <1>6, InitiatorProxyResultDoes, InitiatorProxyFinishedDoes, TargetProxyResultDoes,
     TargetProxyFinishedDoes DEF OwnProxy
<1>7. ASSUME NEW p \in Peers, Grant(p)
      PROVE  NetOK' /\ Step
  BY <1>7, GrantDoes
<1>8. CASE Close(Initiator) \/ Close(Target) \/ StreamError(Initiator) \/ StreamError(Target)
  BY <1>8, InitiatorClosesDoes, TargetClosesDoes, InitiatorErrorDoes, TargetErrorDoes
<1> QED BY <1>1, <1>2, <1>3, <1>4, <1>5, <1>6, <1>7, <1>8 DEF Next, Peers

LEMMA NextKnown == Known /\ [Next]_vars => Known'
<1> SUFFICES ASSUME Known, [Next]_vars
             PROVE  Known'
  OBVIOUS
<1>1. TypeOK'
  BY NextType DEF Known
<1>2. CASE Next
  <2>1. NetOK' /\ Step
    BY <1>2, NextDoes
  <2>2. KnownParts'
    BY <2>1, InitiatorKeeps, TargetKeeps DEF Step
  <2> QED BY <1>1, <2>1, <2>2 DEF Known
<1>3. CASE UNCHANGED vars
  <2>1. /\ I' = I /\ T' = T /\ CI' = CI /\ CT' = CT
        /\ AskI' = AskI /\ AskT' = AskT /\ ToI' = ToI /\ ToT' = ToT
        /\ granted' = granted /\ excuse' = excuse /\ dialing' = dialing
        /\ crInFlight' = crInFlight /\ crUnread' = crUnread /\ net' = net
    BY <1>3 DEF vars, I, T, CI, CT, AskI, AskT, ToI, ToT, Requests, Answers
  <2>2. IDrops
    BY <2>1 DEF IDrops, SameInitiator, SameTarget, SameCR, SameRequests
  <2>3. KnownParts'
    BY <2>2, IDropsKeeps
  <2>4. NetOK'
    BY <2>1 DEF Known, NetOK
  <2> QED BY <1>1, <2>3, <2>4 DEF Known
<1> QED BY <1>2, <1>3

(* Known is an invariant: the two ends' items, the stanzas between them and *)
(* the CR keep to what the parts of it say.                                 *)
THEOREM KnownCorrect == Spec => []Known
<1>1. Init => Known
  BY InitKnown
<1>2. Known /\ [Next]_vars => Known'
  BY NextKnown
<1> QED BY <1>1, <1>2, PTL DEF Spec

(* Both ends run on the same TCP stream, whatever order the up to four      *)
(* connections, the answers and the CR come in (s5b.cpp, tryActivation()    *)
(* and checkForActivation()).                                               *)
THEOREM SameStreamCorrect == Spec => []SameStream
<1>1. Known => SameStream
  <2> SUFFICES ASSUME Known, Up(Initiator), Up(Target)
               PROVE  CI.sc = CT.sc
    BY DEF SameStream, CI, CT
  <2>1. I.state = "Active" /\ T.state = "Active"
    BY DEF Known, KnownParts, Linked, Up, CI, CT
  <2>2. CI.sc \in Streams
    BY Quiet DEF Connections
  <2>3. I.targetMode \in {"Fast", "NotFast"}
    BY <2>1 DEF Known, KnownParts, InitiatorOK
  <2>4. CASE I.targetMode = "Fast"
    <3>1. Picked(CI.sc)
      BY <2>1, <2>4 DEF Picked
    <3> QED BY <2>1, <2>2, <3>1 DEF Known, KnownParts, OneStream, PickedOK
  <2>5. CASE I.targetMode = "NotFast"
    <3>1. ~T.fast
      BY <2>1, <2>5 DEF Known, KnownParts, ModeKnown
    <3> QED BY <2>1, <3>1 DEF Known, KnownParts, TargetUp
  <2> QED BY <2>3, <2>4, <2>5
<1> QED BY <1>1, KnownCorrect, PTL

(* finished() and tryActivation() never find the client gone.               *)
THEOREM NeverCrashesCorrect == Spec => []NeverCrashes
<1>1. Known => NeverCrashes
  <2> SUFFICES ASSUME Known
               PROVE  NeverCrashes
    OBVIOUS
  <2>1. CI.st # "Crashed" /\ CT.st # "Crashed"
    BY DEF Known, KnownParts, Linked
  <2>2. NoStream \notin crInFlight
    <3> SUFFICES ASSUME NoStream \in crInFlight
                 PROVE  FALSE
      OBVIOUS
    <3>1. NoStream \in Streams /\ Picked(NoStream)
      BY DEF Streams, Picked
    <3> QED BY <3>1, NamesDiffer DEF Known, KnownParts, OneStream, PickedOK
  <2> QED BY <2>1, <2>2 DEF NeverCrashes, CI, CT, Peers
<1> QED BY <1>1, KnownCorrect, PTL

(* The application never reads the CR (sc_readyRead() and the clean-up of   *)
(* checkForActivation()).                                                   *)
THEOREM NoStrayCRCorrect == Spec => []NoStrayCR
<1>1. Known => NoStrayCR
  <2>1. Known /\ Up(Target) => crInFlight = {} /\ crUnread = {}
    BY DEF Known, KnownParts, Linked, TargetUp, Up, CT
  <2> QED BY <2>1 DEF NoStrayCR
<1> QED BY <1>1, KnownCorrect, PTL

(* The target does not give up while the initiator is on a stream, unless   *)
(* something outside the negotiation went wrong (checkFailure()).           *)
THEOREM InitiatorNotAloneCorrect == Spec => []InitiatorNotAlone
<1>1. Known => InitiatorNotAlone
  BY DEF Known, KnownParts, Linked, Failures, InitiatorNotAlone, Up, CI, CT
<1> QED BY <1>1, KnownCorrect, PTL

(* The initiator does not give up while the target is on a stream, unless   *)
(* something outside the negotiation went wrong (checkFailure()).           *)
THEOREM TargetNotAloneCorrect == Spec => []TargetNotAlone
<1>1. Known => TargetNotAlone
  BY DEF Known, KnownParts, Linked, Failures, TargetNotAlone, Up, CI, CT
<1> QED BY <1>1, KnownCorrect, PTL
=============================================================================

------------------------------ MODULE S5BKnown -----------------------------
(***************************************************************************)
(* Known, what is known of every state of S5B: which requests and answers   *)
(* can be on the net, what each end can be doing then, and what each end    *)
(* knows of the other. Its parts are stated first, in a few words: I and T  *)
(* for the items of the two ends, CI and CT for their connections, AskI and *)
(* ToI for the requests and the answers on their way to the initiator, AskT *)
(* and ToT for those to the target.                                         *)
(*                                                                         *)
(* Then comes what a step can do in those words: whatever the order of its  *)
(* calls, a handler asks, dials, connects, grants, goes through its proxy,  *)
(* is up, gives up or reads the CR. Step joins those forms, and every       *)
(* action of S5B is one of them.                                            *)
(***************************************************************************)
EXTENDS S5B

-----------------------------------------------------------------------------
(* What is known of every state.                                            *)

I == item[Initiator]
T == item[Target]
CI == con[Initiator]
CT == con[Target]
InitiatorHosts == {Initiator, InitiatorProxy}
TargetHosts == {Target, TargetProxy}

(* The requests on their way to p, and the answers to its own.              *)
IsRequest(m) == m.kind = "request"
IsAnswer(m, p) == m.kind \in {"success", "error"} /\ m.of = p
Requests(p) == {m \in {net[p][k] : k \in 1..Len(net[p])} : IsRequest(m)}
Answers(p) == {m \in {net[p][k] : k \in 1..Len(net[p])} : IsAnswer(m, p)}
AskI == Requests(Initiator)
AskT == Requests(Target)
ToI == Answers(Initiator)
ToT == Answers(Target)

(* A request is the first stanza of its sender, and is answered at most     *)
(* once.  Before accept() the target has sent nothing.                      *)
NetOK ==
    /\ \A p \in Peers : \A k, l \in 1..Len(net[p]) :
         /\ IsRequest(net[p][k]) => k = 1
         /\ IsAnswer(net[p][k], p) /\ IsAnswer(net[p][l], p) => k = l
    /\ CI.st = "Idle" => net[Target] = <<>>
    /\ CT.st \in {"Idle", "WaitingForAccept"} => net[Initiator] = <<>>

(* The connection goes with its item.                                       *)
Nothing(it) ==
    /\ it.targetMode = "Unknown" /\ ~it.fast /\ it.conn = {}
    /\ it.client = NoStream /\ it.clientOut = NoStream
    /\ ~it.task /\ ~it.proxyConn /\ ~it.proxyTask /\ ~it.activated /\ ~it.lateProxy
    /\ ~it.connSuccess /\ ~it.localFailed /\ ~it.remoteFailed /\ ~it.allowIncoming

Linked ==
    /\ I.state \in {"Idle", "Initiator", "Active"}
    /\ T.state \in {"Idle", "Target", "Active"}
    /\ CI.st \in {"Idle", "Requesting", "Active", "Failed", "Closed"}
    /\ CT.st \in {"Idle", "WaitingForAccept", "Connecting", "Active", "Failed", "Closed"}
    /\ I.state = "Initiator" <=> CI.st = "Requesting"
    /\ I.state = "Active" <=> CI.st = "Active"
    /\ T.state = "Target" <=> CT.st = "Connecting"
    /\ T.state = "Active" <=> CT.st = "Active"
    /\ I.state = "Idle" => Nothing(I)
    /\ T.state = "Idle" => Nothing(T)
    /\ I.state = "Active" => CI.sc # NoStream
    /\ T.state = "Active" => CT.sc # NoStream

(* One streamhost is offered by us or is our proxy, and one thing is done   *)
(* at a time.                                                               *)
ItemOK(it, hosts, proxy) ==
    /\ it.hosts \subseteq hosts /\ it.conn \subseteq it.hosts
    /\ it.lateProxy => it.hosts \cap Proxies # {}
    /\ it.task => ~it.proxyConn /\ ~it.proxyTask /\ ~it.remoteFailed
    /\ it.conn # {} => ~it.connSuccess /\ ~it.localFailed /\ ~it.proxyConn /\ ~it.proxyTask
    /\ it.proxyConn => ~it.proxyTask /\ it.client = NoStream
    /\ it.proxyTask => it.client = proxy
    /\ it.localFailed => ~it.connSuccess
    /\ it.lateProxy => ~it.connSuccess /\ (it.localFailed => ~it.task)
                         /\ (it.localFailed \/ (~it.proxyConn /\ ~it.proxyTask))
                         /\ (it.conn = {} => it.localFailed \/ ~it.remoteFailed)
    /\ it.activated \/ it.state = "Active" =>
         /\ it.conn = {} /\ ~it.proxyConn /\ ~it.proxyTask
         /\ it.lateProxy => it.localFailed

InitiatorOK ==
    /\ ItemOK(I, TargetHosts, InitiatorProxy)
    /\ I.targetMode \in {"Unknown", "Fast", "NotFast"}
    /\ ~I.fast /\ I.clientOut = NoStream
    /\ I.state = "Initiator" =>
         /\ I.client \in {NoStream, Initiator, InitiatorProxy} \cup TargetHosts
         /\ I.connSuccess <=> I.client \in TargetHosts
         /\ I.connSuccess => I.activated
         /\ I.client = InitiatorProxy => I.proxyTask \/ I.activated
         /\ I.proxyConn \/ I.client # NoStream => ~I.allowIncoming
         /\ I.targetMode = "NotFast" => ~I.task /\ (I.proxyConn \/ I.proxyTask)
         /\ I.targetMode = "Unknown" =>
              I.task /\ I.client \in {NoStream, Initiator} /\ ~I.localFailed
         /\ I.targetMode # "Fast" => I.conn = {} /\ ~I.activated /\ ~I.lateProxy
         /\ I.activated => ~I.task /\ I.client # NoStream
    /\ I.state = "Active" => ~I.task /\ I.targetMode # "Unknown"

TargetOK ==
    /\ ItemOK(T, InitiatorHosts, TargetProxy)
    /\ T.targetMode = "Unknown"
    /\ T.state = "Target" =>
         /\ ~T.activated
         /\ T.client \in {NoStream} \cup TargetHosts
         /\ T.clientOut \in {NoStream} \cup InitiatorHosts
         /\ T.connSuccess <=> T.clientOut # NoStream
         /\ T.proxyConn \/ T.client # NoStream => ~T.allowIncoming
         /\ ~T.fast =>
              /\ T.client = NoStream /\ T.clientOut = NoStream /\ ~T.task /\ ~T.allowIncoming
              /\ ~T.proxyConn /\ ~T.proxyTask /\ ~T.remoteFailed /\ ~T.lateProxy /\ T.conn # {}
         /\ T.localFailed => ~T.remoteFailed
         /\ T.proxyConn \/ T.proxyTask \/ T.client = TargetProxy => ~T.remoteFailed /\ ~T.task
    /\ T.state = "Active" /\ T.task => T.fast /\ T.client = NoStream /\ ~T.allowIncoming

(* Before accept() nothing has happened but the request of the initiator.   *)
Beginning ==
    /\ CI.st = "Idle" => CT.st = "Idle" /\ excuse = {}
    /\ CT.st \in {"Idle", "WaitingForAccept"} =>
         /\ granted = {} /\ dialing = {} /\ crInFlight = {} /\ crUnread = {}
         /\ CI.st \in {"Idle", "Requesting", "Closed"}
         /\ I.targetMode = "Unknown" /\ I.client = NoStream
         /\ ToT = {}
    /\ AskT # {} => CT.st = "Idle"
    /\ \A m \in AskT : m.hosts \subseteq InitiatorHosts
    /\ \A m \in AskI : m.hosts \subseteq TargetHosts /\ m.hosts # {}

(* Whether the initiator, and the target, may still answer the other.       *)
AnswersT == AskI # {} \/ I.conn # {} \/ (I.lateProxy /\ ~I.localFailed)
AnswersI == \/ AskT # {} \/ CT.st = "WaitingForAccept"
            \/ T.conn # {} \/ (T.lateProxy /\ ~T.localFailed)

(* Each request is answered at most once.                                   *)
OneAnswer ==
    /\ AnswersT => ToT = {}
    /\ AnswersI => ToI = {} /\ (I.state = "Initiator" => ~I.remoteFailed)
    /\ T.state = "Target" /\ ~T.task /\ T.fast => ~AnswersT /\ ToT = {}
    /\ I.state = "Initiator" /\ ~I.task /\ ~I.activated => ~AnswersI /\ ToI = {}

(* Who says it is connected to a streamhost is, and the other end knows.    *)
SuccessTrue ==
    /\ \A m \in ToT : m.kind = "success" =>
         /\ \E s \in TargetHosts : m = Success(Target, s)
         /\ m = Success(Target, Target) /\ T.state = "Target" => T.client = Target
         /\ I.state = "Initiator" => I.connSuccess
    /\ \A m \in ToI : m.kind = "success" =>
         /\ \E s \in InitiatorHosts :
              /\ m = Success(Initiator, s)
              /\ T.state = "Target" => T.clientOut = s
              /\ T.state = "Active" /\ ~T.fast => CT.sc = s
         /\ m = Success(Initiator, Initiator) /\ I.state = "Initiator" => I.client # NoStream
    /\ T.state = "Target" /\ T.fast /\ ~T.task /\ ~T.remoteFailed /\ I.state = "Initiator" =>
         I.connSuccess
    /\ T.state = "Target" /\ I.state = "Initiator" /\ (I.proxyConn \/ I.proxyTask) =>
         T.clientOut = InitiatorProxy
    /\ T.state = "Target" /\ T.connSuccess =>
         /\ \A m \in ToI : m.kind = "success"
         /\ I.state = "Initiator" => ~I.remoteFailed
    /\ Target \in granted /\ T.state = "Target" /\ T.task => T.client = Target
    /\ Initiator \in granted /\ I.state = "Initiator" /\ I.task => I.client # NoStream

(* The initiator knows whether the target is fast.                          *)
ModeKnown ==
    /\ T.state \in {"Target", "Active"} =>
         IF T.fast
         THEN /\ I.targetMode # "NotFast"
              /\ I.state = "Initiator" /\ I.targetMode = "Unknown" => AskI # {}
         ELSE I.targetMode # "Fast" /\ AskI = {}
    /\ AskI # {} => I.state # "Active" /\ I.targetMode = "Unknown"
    /\ I.targetMode = "NotFast" => T.state # "Target"

(* The stream the initiator has sent its CR on, or will have.               *)
Picked(s) ==
    \/ s \in crInFlight \cup crUnread
    \/ I.state = "Initiator" /\ I.activated /\ I.client = s
    \/ I.state = "Active" /\ I.targetMode = "Fast" /\ CI.sc = s

PickedOK(s) ==
    /\ s \in StreamHosts
    /\ CT.st \in {"Connecting", "Active", "Failed", "Closed"}
    /\ ~AnswersT
    /\ I.state = "Initiator" => I.activated
    /\ I.state = "Active" => I.targetMode = "Fast"
    /\ T.state = "Target" /\ s \in TargetHosts =>
         /\ \A m \in ToT : m = Success(Target, s)
         /\ ~T.remoteFailed
         /\ ~T.task => T.conn = {} /\ (T.lateProxy => T.localFailed)
         /\ s = Target => T.client = Target /\ ~T.proxyConn /\ ~T.proxyTask
         /\ s = TargetProxy /\ ~T.task => T.proxyConn \/ T.client = TargetProxy
    /\ T.state = "Target" /\ s \in InitiatorHosts =>
         /\ \A m \in ToT : m.kind = "error"
         /\ T.clientOut = s /\ ~T.proxyConn /\ ~T.proxyTask /\ T.client # TargetProxy
    /\ T.state = "Target" => T.fast
    /\ T.state = "Active" => CT.sc = s /\ crInFlight = {} /\ crUnread = {}
    /\ CT.st = "Failed" => excuse # {}

OneStream ==
    /\ \A s \in Streams : Picked(s) => PickedOK(s)
    /\ \A s, r \in Streams : Picked(s) /\ Picked(r) => s = r
    /\ crInFlight \cap crUnread = {}

TargetUp ==
    T.state = "Active" =>
      /\ crInFlight = {} /\ crUnread = {}
      /\ T.fast =>
           /\ ~AnswersT
           /\ I.state = "Initiator" => I.activated
           /\ T.task => CT.sc = Target /\ \A m \in ToT : m = Success(Target, Target)
      /\ ~T.fast =>
           /\ I.state = "Initiator" /\ I.targetMode = "Unknown" =>
                \A m \in ToI : m = Success(Initiator, CT.sc)
           /\ I.state = "Initiator" /\ I.targetMode = "NotFast" => CT.sc = InitiatorProxy
           /\ I.state = "Active" => CI.sc = CT.sc
      /\ CI.st = "Failed" => excuse # {}

(* An end that failed, with nothing outside the negotiation to blame, has   *)
(* told the other one, which cannot connect any more.                       *)
Failures ==
    /\ CT.st = "Failed" /\ excuse = {} =>
         /\ I.state # "Active" /\ ~AnswersT
         /\ I.state = "Initiator" =>
              ~I.connSuccess /\ ~I.proxyConn /\ ~I.proxyTask /\ ~I.activated
         /\ \A m \in ToI : m.kind # "success"
    /\ CI.st = "Failed" /\ excuse = {} =>
         /\ T.state # "Active" /\ ~AnswersI
         /\ crInFlight = {} /\ crUnread = {}
         /\ T.state = "Target" => ~T.connSuccess /\ ~T.proxyConn /\ ~T.proxyTask
         /\ \A m \in ToT : m.kind # "success"

KnownParts ==
    /\ Linked /\ InitiatorOK /\ TargetOK /\ Beginning /\ OneAnswer
    /\ SuccessTrue /\ ModeKnown /\ OneStream /\ TargetUp /\ Failures

Known == TypeOK /\ NetOK /\ KnownParts

-----------------------------------------------------------------------------
(* What the initiator does, in those words.  `said' is what it answers, and *)
(* `read' whether it reads an answer.                                       *)

SameTarget == T' = T /\ CT' = CT
SameInitiator == I' = I /\ CI' = CI
SameCR == crInFlight' = crInFlight /\ crUnread' = crUnread
SameRequests == AskI' = AskI /\ AskT' = AskT
Early == CT.st \in {"Idle", "WaitingForAccept"} => dialing' = {}
NewCR(s) == crInFlight' = crInFlight \cup {s} /\ crUnread' = crUnread

InitiatorSays(said, read) ==
    /\ SameTarget /\ Early /\ SameRequests
    /\ granted' = granted /\ excuse \subseteq excuse'
    /\ ToT' = ToT \cup said
    /\ IF read THEN AskI = {} /\ ToI # {} /\ ToI' = {} ELSE ToI' = ToI

Asking == I.state = "Initiator" /\ I.task
CanDial(it) == it.conn # {} \/ (it.lateProxy /\ ~it.localFailed)
Sorry(of, it) == IF it.conn # {} \/ it.lateProxy THEN {Error(of)} ELSE {}

IAsks ==
    /\ CI.st = "Idle" /\ CI' = [CI EXCEPT !.st = "Requesting"]
    /\ \E b \in BOOLEAN : I' = [NoItem EXCEPT !.state = "Initiator", !.proxy = b,
                                              !.allowIncoming = TRUE, !.task = TRUE]
    /\ SameTarget /\ Early /\ SameCR /\ granted' = granted /\ excuse' = excuse
    /\ AskI' = AskI /\ ToT' = ToT /\ ToI' = ToI
    /\ \E hosts \in SUBSET InitiatorHosts : AskT' = {Request(hosts)}

(* A fast request comes when it is of no use, and when it is.               *)
FastRequestRead ==
    /\ AskI # {} /\ AskI' = {} /\ AskT' = AskT /\ ToI' = ToI
    /\ SameTarget /\ Early /\ SameCR /\ granted' = granted /\ excuse' = excuse
    /\ CI' = CI
IRefuses ==
    /\ FastRequestRead /\ ToT' = ToT \cup {Error(Target)}
    /\ \/ I.state # "Initiator" /\ I' = I
       \/ /\ I.state = "Initiator" /\ I.targetMode = "Unknown" /\ I.client # NoStream
          /\ I' = [I EXCEPT !.targetMode = "Fast"]
IDials(H, D, L) ==
    /\ FastRequestRead /\ ToT' = ToT
    /\ I.state = "Initiator" /\ I.targetMode = "Unknown" /\ I.client = NoStream
    /\ I' = [I EXCEPT !.targetMode = "Fast", !.hosts = H, !.conn = D, !.lateProxy = L]
    /\ H \subseteq TargetHosts /\ D \subseteq H /\ (L => H \cap Proxies # {})
    /\ D # {} \/ L

(* The answers of the target.                                               *)
IPicksOwn ==
    /\ Asking /\ CI' = CI /\ ~I.connSuccess /\ I.targetMode = "Fast" /\ I.client = Initiator
    /\ Success(Initiator, Initiator) \in ToI
    /\ I' = [I EXCEPT !.task = FALSE, !.conn = {}, !.activated = TRUE,
                      !.localFailed = I.localFailed \/ I.conn # {} \/ I.lateProxy]
    /\ InitiatorSays(Sorry(Target, I), TRUE) /\ NewCR(Initiator)
IUpSlow ==
    /\ Asking /\ I.targetMode = "Unknown" /\ I.client = Initiator
    /\ Success(Initiator, Initiator) \in ToI
    /\ I' = [I EXCEPT !.task = FALSE, !.targetMode = "NotFast", !.state = "Active",
                      !.client = NoStream]
    /\ CI' = Connection("Active", Initiator)
    /\ InitiatorSays({}, TRUE) /\ SameCR
IProxies ==
    /\ Asking /\ CI' = CI /\ ~I.connSuccess /\ Success(Initiator, InitiatorProxy) \in ToI
    /\ I' = [I EXCEPT !.task = FALSE, !.conn = {}, !.client = NoStream,
                      !.allowIncoming = FALSE, !.proxyConn = TRUE,
                      !.targetMode = IF @ = "Unknown" THEN "NotFast" ELSE @,
                      !.localFailed = I.localFailed \/ I.conn # {} \/ I.lateProxy]
    /\ InitiatorSays(Sorry(Target, I), TRUE) /\ SameCR

(* The connector goes on, or an error is read and it is not over yet.       *)
ITries(D, L, read) ==
    /\ I.state = "Initiator" /\ CI' = CI /\ I.targetMode = "Fast" /\ ~I.activated
    /\ I' = [I EXCEPT !.conn = D, !.lateProxy = L, !.task = I.task /\ ~read,
                      !.remoteFailed = I.remoteFailed \/ read]
    /\ D \subseteq I.hosts /\ (L => I.lateProxy)
    /\ D # {} \/ (L /\ ~I.localFailed) => CanDial(I)
    /\ L /\ D = {} => I.localFailed \/ (~I.remoteFailed /\ ~read)
    /\ read => I.task /\ \E m \in ToI : m.kind = "error"
    /\ InitiatorSays({}, read) /\ SameCR
IGivesUp ==
    /\ I.state = "Initiator" /\ CI' = CI /\ I.conn # {} /\ ~I.lateProxy
    /\ I' = [I EXCEPT !.conn = {}, !.localFailed = TRUE]
    /\ InitiatorSays({Error(Target)}, FALSE) /\ SameCR
IConnects(h) ==
    /\ I.state = "Initiator" /\ CI' = CI /\ h \in I.conn /\ h \in granted \cup Proxies
    /\ I' = [I EXCEPT !.conn = {}, !.connSuccess = TRUE, !.lateProxy = FALSE,
                      !.client = h, !.allowIncoming = FALSE, !.task = FALSE,
                      !.activated = TRUE]
    /\ InitiatorSays({Success(Target, h)}, FALSE) /\ NewCR(h)

IGrants ==
    /\ I.allowIncoming /\ CI' = CI
    /\ I' = [I EXCEPT !.client = Initiator, !.allowIncoming = FALSE]
    /\ CT.st \notin {"Idle", "WaitingForAccept"}
    /\ SameTarget /\ SameCR /\ SameRequests /\ ToI' = ToI /\ ToT' = ToT
    /\ granted' = granted \cup {Initiator} /\ excuse' = excuse

IProxyUp ==
    /\ I.proxyConn /\ CI' = CI
    /\ I' = [I EXCEPT !.proxyConn = FALSE, !.proxyTask = TRUE, !.client = InitiatorProxy]
    /\ InitiatorSays({}, FALSE) /\ SameCR
IProxyUpSlow ==
    /\ I.proxyTask /\ I.targetMode = "NotFast"
    /\ T.clientOut = InitiatorProxy \/ CT.sc = InitiatorProxy
    /\ I' = [I EXCEPT !.proxyTask = FALSE, !.state = "Active", !.client = NoStream]
    /\ CI' = Connection("Active", InitiatorProxy)
    /\ InitiatorSays({}, FALSE) /\ SameCR
IPicksProxy ==
    /\ I.proxyTask /\ I.targetMode = "Fast" /\ CI' = CI
    /\ T.clientOut = InitiatorProxy \/ CT.sc = InitiatorProxy
    /\ I' = [I EXCEPT !.proxyTask = FALSE, !.task = FALSE, !.activated = TRUE]
    /\ InitiatorSays({}, FALSE) /\ NewCR(InitiatorProxy)
IUp ==
    /\ I.state = "Initiator" /\ I.activated
    /\ I' = [I EXCEPT !.state = "Active", !.client = NoStream]
    /\ CI' = Connection("Active", I.client)
    /\ InitiatorSays({}, FALSE) /\ SameCR

(* The item is deleted.  Without an excuse that is because both have told   *)
(* the other that they cannot connect.                                      *)
IGone ==
    /\ I.state # "Idle" /\ I' = NoItem
    /\ CI' \in {Connection("Failed", NoStream), Connection("Closed", NoStream)}
    /\ SameTarget /\ Early /\ SameCR /\ SameRequests
    /\ granted' = granted /\ excuse \subseteq excuse'
    /\ ToI' \in {ToI, {}}
    /\ ToT' = ToT \/ (CanDial(I) /\ ToT' = {Error(Target)})
    /\ CI'.st = "Closed" => excuse' # {}
    /\ CI'.st = "Failed" => CT.st \notin {"Idle", "WaitingForAccept"}
    /\ excuse' = {} =>
         /\ I.state = "Initiator" /\ ~I.connSuccess /\ ~I.activated
         /\ ~I.proxyConn /\ ~I.proxyTask
         /\ I.localFailed \/ I.targetMode = "Unknown"
              \/ (I.conn # {} /\ ~I.lateProxy /\ ToT' = {Error(Target)})
         /\ IF I.task THEN \E m \in ToI : m.kind = "error" ELSE I.remoteFailed

(* A stanza is dropped, or a SOCKS request.                                 *)
IDrops ==
    /\ SameInitiator /\ SameTarget /\ SameCR /\ SameRequests
    /\ granted' = granted /\ excuse' = excuse /\ dialing' \subseteq dialing
    /\ ToI' \in {ToI, {}} /\ ToT' \in {ToT, {}}

InitiatorSteps ==
    \/ IAsks \/ IRefuses \/ IPicksOwn \/ IUpSlow \/ IProxies \/ IGivesUp
    \/ \E H, D \in SUBSET TargetHosts, L \in BOOLEAN : IDials(H, D, L)
    \/ \E D \in SUBSET TargetHosts, L, read \in BOOLEAN : ITries(D, L, read)
    \/ \E h \in TargetHosts : IConnects(h)
    \/ IGrants \/ IProxyUp \/ IProxyUpSlow \/ IPicksProxy \/ IUp \/ IGone \/ IDrops

-----------------------------------------------------------------------------
(* What the target does.                                                    *)

TargetSays(said, read) ==
    /\ SameInitiator /\ SameRequests
    /\ granted' = granted /\ excuse \subseteq excuse'
    /\ ToI' = ToI \cup said
    /\ IF read THEN ToT # {} /\ ToT' = {} ELSE ToT' = ToT

TIsAsked ==
    /\ \E m \in AskT : T' = [T EXCEPT !.hosts = m.hosts]
    /\ CT' = [CT EXCEPT !.st = "WaitingForAccept"]
    /\ SameInitiator /\ SameCR /\ AskT' = {} /\ AskI' = AskI /\ ToI' = ToI /\ ToT' = ToT
    /\ dialing' = dialing /\ granted' = granted /\ excuse' = excuse

(* accept(): F if the target is fast, X if there is nothing to dial.        *)
TAccepts(F, D, L, X) ==
    /\ CT.st = "WaitingForAccept" /\ CT' = [CT EXCEPT !.st = "Connecting"]
    /\ \E b \in BOOLEAN :
         T' = [NoItem EXCEPT !.state = "Target", !.fast = F, !.proxy = b,
                             !.hosts = T.hosts, !.conn = D, !.lateProxy = L,
                             !.localFailed = X, !.allowIncoming = F, !.task = F]
    /\ D \subseteq T.hosts /\ (L => T.hosts \cap Proxies # {})
    /\ X <=> (D = {} /\ ~L)
    /\ ~F => D # {} /\ ~L
    /\ SameInitiator /\ SameCR /\ AskT' = AskT
    /\ granted' = granted /\ excuse' = excuse
    /\ IF F THEN \E hosts \in SUBSET TargetHosts : hosts # {} /\ AskI' = {Request(hosts)}
            ELSE AskI' = AskI
    /\ ToT' = ToT /\ ToI' = ToI \cup (IF X THEN {Error(Initiator)} ELSE {})

(* The answers of the initiator.                                            *)
TConnectedTo ==
    /\ T.state = "Target" /\ T.task /\ CT' = CT
    /\ Success(Target, Target) \in ToT
    /\ T' = [T EXCEPT !.task = FALSE, !.conn = {},
                      !.localFailed = T.localFailed \/ T.conn # {} \/ T.lateProxy]
    /\ TargetSays(Sorry(Initiator, T), TRUE) /\ SameCR
TProxies ==
    /\ T.state = "Target" /\ T.task /\ CT' = CT
    /\ Success(Target, TargetProxy) \in ToT
    /\ T' = [T EXCEPT !.task = FALSE, !.conn = {}, !.client = NoStream,
                      !.allowIncoming = FALSE, !.proxyConn = TRUE,
                      !.localFailed = T.localFailed \/ T.conn # {} \/ T.lateProxy]
    /\ TargetSays(Sorry(Initiator, T), TRUE) /\ SameCR

TTries(D, L, read) ==
    /\ T.state = "Target" /\ CT' = CT
    /\ T' = [T EXCEPT !.conn = D, !.lateProxy = L, !.task = T.task /\ ~read,
                      !.remoteFailed = T.remoteFailed \/ read]
    /\ D \subseteq T.hosts /\ (L => T.lateProxy) /\ (T.connSuccess => D = {} /\ ~L)
    /\ D # {} \/ (L /\ ~T.localFailed) => CanDial(T)
    /\ ~T.fast => D # {}
    /\ L /\ D = {} => T.localFailed \/ (~T.remoteFailed /\ ~read)
    /\ read => /\ T.task /\ ~T.localFailed
               /\ \E m \in ToT : m.kind = "error"
    /\ TargetSays({}, read) /\ SameCR
TGivesUp ==
    /\ T.state = "Target" /\ CT' = CT /\ T.conn # {} /\ ~T.lateProxy
    /\ T.fast /\ ~T.remoteFailed
    /\ T' = [T EXCEPT !.conn = {}, !.localFailed = TRUE]
    /\ TargetSays({Error(Initiator)}, FALSE) /\ SameCR
TConnects(h) ==
    /\ T.state = "Target" /\ T.fast /\ CT' = CT /\ h \in T.conn /\ h \in granted \cup Proxies
    /\ T' = [T EXCEPT !.conn = {}, !.connSuccess = TRUE, !.lateProxy = FALSE,
                      !.clientOut = h]
    /\ TargetSays({Success(Initiator, h)}, FALSE) /\ SameCR
TUpSlow(h) ==
    /\ T.state = "Target" /\ ~T.fast /\ h \in T.conn /\ h \in granted \cup Proxies
    /\ T' = [T EXCEPT !.state = "Active", !.conn = {}, !.connSuccess = TRUE,
                      !.lateProxy = FALSE, !.clientOut = NoStream, !.activated = TRUE]
    /\ CT' = Connection("Active", h)
    /\ TargetSays({Success(Initiator, h)}, FALSE) /\ SameCR

TGrants ==
    /\ T.allowIncoming /\ CT' = CT
    /\ T' = [T EXCEPT !.client = Target, !.allowIncoming = FALSE]
    /\ SameInitiator /\ SameCR /\ SameRequests /\ ToI' = ToI /\ ToT' = ToT
    /\ granted' = granted \cup {Target} /\ excuse' = excuse

TProxyUp ==
    /\ T.proxyConn /\ CT' = CT
    /\ T' = [T EXCEPT !.proxyConn = FALSE, !.proxyTask = TRUE, !.client = TargetProxy]
    /\ TargetSays({}, FALSE) /\ SameCR
TProxyDone ==
    /\ T.proxyTask /\ CT' = CT
    /\ T' = [T EXCEPT !.proxyTask = FALSE]
    /\ TargetSays({}, FALSE) /\ SameCR

(* The CR comes; and it, or what the target waited for with the CR read,    *)
(* makes s the stream.                                                      *)
CRComes(s) ==
    /\ s \in crInFlight /\ T' = T /\ CT' = CT
    /\ crInFlight' = crInFlight \ {s} /\ crUnread' = crUnread \cup {s}
    /\ TargetSays({}, FALSE) /\ excuse' = excuse
TUpFast(s, said, read) ==
    /\ T.state = "Target" /\ T.fast /\ s \in crInFlight \cup crUnread
    /\ s \in {T.client, T.clientOut}
    /\ T'.state = "Active" /\ T'.fast /\ TargetOK' /\ CT' = Connection("Active", s)
    /\ T'.task => s = Target /\ T.task /\ ~read
    /\ crInFlight' = crInFlight \ {s} /\ crUnread' = crUnread \ {s}
    /\ \/ said = {}
       \/ CanDial(T) /\ said = {Error(Initiator)}
       \/ \E h \in T.conn : h \in granted \cup Proxies /\ said = {Success(Initiator, h)}
    /\ TargetSays(said, read)

TGone ==
    /\ T.state # "Idle" \/ CT.st = "WaitingForAccept"
    /\ T' = NoItem
    /\ CT' \in {Connection("Failed", NoStream), Connection("Closed", NoStream)}
    /\ SameInitiator /\ SameCR /\ SameRequests
    /\ granted' = granted /\ excuse \subseteq excuse'
    /\ ToT' \in {ToT, {}}
    /\ ToI' = ToI \/ (CT.st = "WaitingForAccept" /\ ToI' = {Error(Initiator)})
         \/ (CanDial(T) /\ ToI' = {Error(Initiator)})
    /\ CT'.st = "Closed" => excuse' # {}
    /\ excuse' = {} =>
         \/ T.state = "Idle" /\ ToI' = {Error(Initiator)}
         \/ /\ T.state = "Target" /\ ~T.connSuccess
            /\ T.localFailed \/ (T.conn # {} /\ ~T.lateProxy /\ ToI' = {Error(Initiator)})
            /\ T.fast => IF T.task THEN \E m \in ToT : m.kind = "error" ELSE T.remoteFailed

TargetSteps ==
    \/ TIsAsked \/ TConnectedTo \/ TProxies \/ TGivesUp
    \/ \E F, L, X \in BOOLEAN, D \in SUBSET InitiatorHosts : TAccepts(F, D, L, X)
    \/ \E D \in SUBSET InitiatorHosts, L, read \in BOOLEAN : TTries(D, L, read)
    \/ \E h \in InitiatorHosts : TConnects(h) \/ TUpSlow(h)
    \/ TGrants \/ TProxyUp \/ TProxyDone \/ TGone
    \/ \E s \in StreamHosts : CRComes(s)
    \/ \E s \in StreamHosts, read \in BOOLEAN :
         \E said \in SUBSET ({Error(Initiator)} \cup {Success(Initiator, h) : h \in InitiatorHosts}) :
            TUpFast(s, said, read)

Step == InitiatorSteps \/ TargetSteps
=============================================================================

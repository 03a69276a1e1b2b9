---------------------------- MODULE StreamProofs ----------------------------
(***************************************************************************)
(* Proofs about Stream for all options and all bounds: it is well typed,    *)
(* it implements Session, no password and no login goes out unprotected     *)
(* without leave, and whatever happens while it rests wakes it.             *)
(*                                                                         *)
(* What the stream may do next follows from its step alone only because    *)
(* ClientStream's state, the step, the layers and the SASL object agree,   *)
(* which Agreement says: the loop of processNext() cannot run while a TLS   *)
(* handshake or the SASL object is at work.                                *)
(***************************************************************************)
EXTENDS Stream, FiniteSetTheorems, TLAPS

(* Without a connection everything is as reset() leaves it.                 *)
NothingWithoutConnection ==
    /\ cs.state = "Idle" => ~bs
    /\ ~bs => /\ ~busy
              /\ cs.state \in {"Idle", "Connecting"} /\ cs = [InitCs EXCEPT !.state = cs.state]
              /\ core = InitCore /\ layer = InitLayer /\ sasl = InitSasl
              /\ out = <<>> /\ inbox = <<>>

(* ClientStream and CoreProtocol agree on where the stream is.              *)
StateAgrees ==
    /\ busy => cs.state \in {"Connecting", "Active", "Closing"}
    /\ core.ready <=> cs.state \in {"Active", "Closing"}
    /\ core.ready <=> core.step = "Done"
    /\ core.xml \in {"SendOpen", "RecvOpen"} => core.step = "Start"
    /\ core.old => core.step \in {"Start", "HandleAuthGet", "GetAuthGetResponse",
                                 "HandleAuthSet", "GetAuthSetResponse", "Done"}
    /\ core.doShutdown \/ core.xml = "Closing" => cs.state = "Closing"
    /\ cs.notify # {} => cs.state \in {"Connecting", "Active", "Closing"}
    /\ cs.state # "Idle" => told = "none"

(* Nothing happens while TLS or SASL is at work.                            *)
LayersAgree ==
    /\ cs.usingTls <=> layer.tls # "none"
    /\ cs.usingTls <=> core.tlsStarted
    /\ bs /\ opt.ssl => cs.usingTls
    /\ layer.tls = "handshake" =>
         ~busy /\ cs.notify = {} /\ cs.state = "Connecting" /\ sasl.at = "none"
    /\ sasl.at # "none" =>
         ~busy /\ cs.notify = {} /\ cs.state \in {"Connecting", "NeedParams"} /\ ~core.old

Agreeing == NothingWithoutConnection /\ StateAgrees /\ LayersAgree
Agreement == TypeOK /\ Agreeing

(* What the steps know about the password ...                              *)
PlainKnown ==
    /\ sasl.plain => MayUsePlain
    /\ core.step = "HandleAuthSet" => core.digest \/ OldPlainAllowed

(* ... and about TLS: on, or the account has been warned.                   *)
Secure == cs.usingTls \/ cs.tlsWarned
WarningKnown ==
    opt.tls =>
      /\ core.step \notin {"Start", "GetFeatures", "HandleFeatures", "GetTLSProceed"} => Secure
      /\ core.step = "HandleFeatures" => Secure \/ "tls" \in core.features
      /\ core.saslAuthed => Secure
      /\ core.old /\ cs.state # "WaitVersion" => Secure

-----------------------------------------------------------------------------
(* The types of what the actions are built from.                            *)

LEMMA EmptySeq ==
    ASSUME NEW X
    PROVE  <<>> \in Seq(X)
  OBVIOUS

LEMMA HeadTail ==
    ASSUME NEW X, NEW s \in Seq(X), s # <<>>
    PROVE  Head(s) \in X /\ Tail(s) \in Seq(X)
  OBVIOUS

LEMMA AppendType ==
    ASSUME NEW X, NEW s \in Seq(X), NEW e \in X
    PROVE  Append(s, e) \in Seq(X)
  OBVIOUS

LEMMA ConcatType ==
    ASSUME NEW X, NEW s \in Seq(X), NEW t \in Seq(X)
    PROVE  s \o t \in Seq(X)
  OBVIOUS

LEMMA SplitType ==
    ASSUME NEW X, NEW s \in Seq(X), NEW n \in 1..Len(s)
    PROVE  SubSeq(s, 1, n) \in Seq(X) /\ SubSeq(s, n + 1, Len(s)) \in Seq(X)
  OBVIOUS

LEMMA ElementType ==
    ASSUME NEW k \in Elements, NEW f \in SUBSET Offers
    PROVE  El(k) \in Els /\ [k |-> k, a |-> f] \in Els
  BY Zenon DEF El, Els

(* The server answers with elements.                                        *)
LEMMA RepliesType ==
    ASSUME NEW m, NEW r \in Replies(m)
    PROVE  r \in Seq(Els)
<1>1. ASSUME NEW kinds \in SUBSET Elements, r \in One(kinds)
      PROVE  r \in Seq(Els)
  <2> PICK k \in Elements : r = <<El(k)>>
    BY <1>1, Zenon DEF One
  <2>1. El(k) \in Els
    BY ElementType, Zenon
  <2> QED
    BY <2>1
<1>2. ASSUME NEW f \in SUBSET Offers,
             r = <<[k |-> "stream", a |-> {"v1"}], [k |-> "features", a |-> f]>>
      PROVE  r \in Seq(Els)
  <2>1. [k |-> "stream", a |-> {"v1"}] \in Els /\ [k |-> "features", a |-> f] \in Els
    BY Zenon DEF Els, Elements, Offers
  <2> QED
    BY <1>2, <2>1
<1>3. ASSUME NEW f \in SUBSET Offers, r = <<[k |-> "authFields", a |-> f]>>
      PROVE  r \in Seq(Els)
  <2>1. [k |-> "authFields", a |-> f] \in Els
    BY Zenon DEF Els, Elements
  <2> QED
    BY <1>3, <2>1
<1>4. Offered(m.enc) \subseteq Offers /\ {"digest", "plain"} \subseteq Offers
  BY Zenon DEF Offered, Offers
<1>5. CASE r = <<>>
  BY <1>5, EmptySeq, Zenon
<1>6. \/ r = <<>>
      \/ \E kinds \in SUBSET Elements : r \in One(kinds)
      \/ \E f \in SUBSET Offers :
           r = <<[k |-> "stream", a |-> {"v1"}], [k |-> "features", a |-> f]>>
      \/ \E f \in SUBSET Offers : r = <<[k |-> "authFields", a |-> f]>>
  BY <1>4, Zenon DEF Replies, Elements
<1> QED
  BY <1>1, <1>2, <1>3, <1>5, <1>6, Zenon

LEMMA InitialTypes ==
    /\ InitCs \in Clients /\ InitCore \in Cores /\ InitLayer \in Layers
    /\ InitSasl \in Sasls /\ InitHost \in Hosts
<1>1. InitCs \in Clients
  BY Zenon DEF InitCs, Clients, States
<1>2. "Start" \in Steps
  BY DEF Steps
<1>3. InitCore \in Cores
  BY <1>2, SMT DEF InitCore, Cores
<1>4. InitLayer \in Layers /\ InitSasl \in Sasls /\ InitHost \in Hosts
  BY SMT DEF InitLayer, Layers, InitSasl, Sasls, InitHost, Hosts
<1> QED
  BY <1>1, <1>3, <1>4

LEMMA InitType == Init => TypeOK
<1>1. Init => app \in Apps
  BY SMT DEF Init, Apps
<1> QED
  BY <1>1, EmptySeq, InitialTypes, Zenon DEF Init, TypeOK, Endings

LEMMA EndType ==
    ASSUME TypeOK, NEW signal \in Endings, EndWith(signal)
    PROVE  TypeOK'
  BY EmptySeq, InitialTypes, Zenon DEF TypeOK, EndWith, Reset

LEMMA FailType ==
    ASSUME TypeOK, Fail
    PROVE  TypeOK'
  BY EndType, Zenon DEF Fail, Endings

LEMMA WriteType ==
    ASSUME TypeOK, NEW k \in Messages, Write(k)
    PROVE  out' \in Seq(Msgs)
<1>1. Message(k) \in Msgs
  BY SMT DEF TypeOK, Message, Msgs
<1>2. out \in Seq(Msgs) /\ out' = Append(out, Message(k))
  BY DEF TypeOK, Write
<1> QED
  BY <1>1, <1>2, AppendType, Zenon

LEMMA TrackedType ==
    ASSUME NEW c \in Cores, NEW k \in {"raw", "stanza", "ping", "close"}
    PROVE  Tracked(c, k) \in Cores
  BY SMTT(30) DEF Cores, Tracked

LEMMA ContinueType ==
    ASSUME TypeOK, Continue
    PROVE  busy' \in BOOLEAN /\ cs' \in Clients
  BY Zenon DEF TypeOK, Continue, Clients

LEMMA AnnounceType ==
    ASSUME TypeOK
    PROVE  Announce(app) \in Apps
  BY Zenon DEF TypeOK, Announce, Apps

LEMMA PauseType ==
    ASSUME TypeOK, NEW c \in Clients, PauseAs(c)
    PROVE  busy' \in BOOLEAN /\ cs' \in Clients /\ app' \in Apps
  BY AnnounceType, Zenon DEF PauseAs

LEMMA SendType ==
    ASSUME TypeOK, NEW c \in Cores, NEW k \in Messages, Send(c, k), buf' \in Seq(Els)
    PROVE  TypeOK'
<1>1. core' \in Cores
  BY TrackedType, Zenon DEF Send
<1>2. out' \in Seq(Msgs) /\ busy' \in BOOLEAN /\ cs' \in Clients
  BY WriteType, ContinueType DEF Send
<1> QED
  BY <1>1, <1>2, Zenon DEF TypeOK, Send, Wire

(* What is taken from the parser is an element.                             *)
LEMMA GotType ==
    ASSUME TypeOK, NEW k, Got(k)
    PROVE  Head(buf).a \in SUBSET Offers /\ Tail(buf) \in Seq(Els)
<1>1. buf \in Seq(Els) /\ buf # <<>>
  BY Zenon DEF TypeOK, Got, Nothing
<1>2. Head(buf) \in Els /\ Tail(buf) \in Seq(Els)
  BY <1>1, HeadTail, Zenon
<1> QED
  BY <1>2, Zenon DEF Els

LEMMA TakeType ==
    ASSUME TypeOK, TakeAny \/ (buf' = IF Nothing THEN buf ELSE Tail(buf))
    PROVE  buf' \in Seq(Els)
  BY HeadTail, Zenon DEF TypeOK, TakeAny, Nothing

LEMMA LoginType ==
    ASSUME TypeOK, NEW c \in Cores, LoginComplete(c), buf' \in Seq(Els)
    PROVE  TypeOK'
<1> PICK n \in {0, 1} :
      /\ app' = [app EXCEPT !.wrote = @ + n]
      /\ core' = [c EXCEPT !.ready = TRUE, !.step = "Done",
                           !.sendList = IF n = 0 THEN <<>> ELSE <<"stanza">>]
  BY Zenon DEF LoginComplete
<1>1. <<>> \in Seq({"stanza", "ping"}) /\ <<"stanza">> \in Seq({"stanza", "ping"})
  OBVIOUS
<1>2. (IF n = 0 THEN <<>> ELSE <<"stanza">>) \in Seq({"stanza", "ping"})
  BY <1>1, Zenon
<1>3. "Done" \in Steps
  BY DEF Steps
<1>4. core' \in Cores
  BY <1>2, <1>3, Zenon DEF Cores
<1>5. app.wrote + n \in Nat
  BY SMT DEF TypeOK, Apps
<1>6. app' \in Apps
  BY <1>5, Zenon DEF TypeOK, Apps
<1>7. "Active" \in States
  BY DEF States
<1>8. cs' \in Clients /\ busy' \in BOOLEAN
  BY <1>7, Zenon DEF TypeOK, LoginComplete, Clients
<1> QED
  BY <1>4, <1>6, <1>8, Zenon DEF TypeOK, LoginComplete, Wire

LEMMA OnFeaturesType ==
    ASSUME TypeOK, NEW f, OnFeatures(f), core' \in Cores, buf' \in Seq(Els)
    PROVE  TypeOK'
<1>1. "WaitTLS" \in States
  BY DEF States
<1>2. cs' \in Clients /\ busy' \in BOOLEAN
  BY <1>1, Zenon DEF TypeOK, OnFeatures, Clients
<1> QED
  BY <1>2, Zenon DEF TypeOK, OnFeatures, Wire

-----------------------------------------------------------------------------
(* Every step keeps the types: first the turns of the loop ...              *)

LEMMA LoopType ==
    ASSUME TypeOK, Loop
    PROVE  TypeOK'
<1> USE Zenon DEF At, AtElement
<1>1. CASE \/ PeerClosed \/ ParseError \/ CloseFinished \/ StreamError \/ NoBind \/ Refused
  BY <1>1, EndType, FailType DEF PeerClosed, ParseError, CloseFinished, StreamError, NoBind,
     Refused, TLSRefused, SASLRefused, BindRefused, AuthGetRefused, AuthSetRefused, Endings
<1>2. CASE NeedsData \/ CloseWaits \/ SessionWaits
  <2>1. \E n \in SUBSET {"NSend", "NRecv"} : Pause(n)
    BY <1>2 DEF NeedsData, CloseWaits, SessionWaits
  <2>2. \E c \in Clients : PauseAs(c)
    BY <2>1 DEF Pause, TypeOK, Clients
  <2>3. busy' \in BOOLEAN /\ cs' \in Clients /\ app' \in Apps
    BY <2>2, PauseType
  <2> QED
    BY <1>2, <2>3 DEF NeedsData, CloseWaits, SessionWaits, TypeOK, Wire
<1>3. CASE SendTagOpen
  <2>1. [core EXCEPT !.xml = "RecvOpen"] \in Cores
    BY DEF TypeOK, Cores
  <2>2. core' \in Cores
    BY <1>3, <2>1, TrackedType DEF SendTagOpen
  <2>3. out' \in Seq(Msgs) /\ busy' \in BOOLEAN /\ cs' \in Clients
    BY <1>3, WriteType, ContinueType DEF SendTagOpen, Messages
  <2> QED
    BY <1>3, <2>2, <2>3 DEF SendTagOpen, TypeOK, Wire
<1>4. CASE RecvTagOpen
  <2>1. buf' \in Seq(Els)
    BY <1>4, GotType DEF RecvTagOpen, Take
  <2>2. core' \in Cores /\ busy' \in BOOLEAN
    BY <1>4 DEF RecvTagOpen, TypeOK, Cores
  <2>3. cs' \in Clients
    BY <1>4 DEF RecvTagOpen, TypeOK, Clients, States
  <2> QED
    BY <1>4, <2>1, <2>2, <2>3 DEF RecvTagOpen, TypeOK, Wire
<1>5. CASE Shutdown
  <2>1. [core EXCEPT !.doShutdown = FALSE, !.xml = "Closing"] \in Cores
    BY DEF TypeOK, Cores
  <2>2. core' \in Cores
    BY <1>5, <2>1, TrackedType DEF Shutdown
  <2>3. out' \in Seq(Msgs) /\ busy' \in BOOLEAN /\ cs' \in Clients /\ buf' \in Seq(Els)
    BY <1>5, WriteType, ContinueType, TakeType DEF Shutdown, Messages
  <2> QED
    BY <1>5, <2>2, <2>3 DEF Shutdown, TypeOK, Wire
<1>6. CASE StartStep
  <2>1. buf' \in Seq(Els)
    BY <1>6 DEF StartStep, TypeOK
  <2>2. CASE LoginComplete(core)
    BY <2>1, <2>2, LoginType DEF TypeOK
  <2>3. CASE ~LoginComplete(core)
    <3>1. core' \in Cores
      BY <1>6, <2>3, ZenonT(30) DEF StartStep, TypeOK, Cores, Steps
    <3>2. busy' \in BOOLEAN /\ cs' \in Clients
      BY <1>6, <2>3, ContinueType DEF StartStep
    <3> QED
      BY <1>6, <2>1, <2>3, <3>1, <3>2 DEF StartStep, TypeOK, Wire
  <2> QED
    BY <2>2, <2>3
<1>7. CASE GetFeatures
  <2>1. Head(buf).a \in SUBSET Offers /\ buf' \in Seq(Els)
    BY <1>7, GotType DEF GetFeatures, Take
  <2>2. core' \in Cores
    BY <1>7, <2>1 DEF GetFeatures, TypeOK, Cores, Steps
  <2> QED
    BY <1>7, <2>1, <2>2, OnFeaturesType DEF GetFeatures
<1>8. CASE HandleFeatures
  <2>1. buf' \in Seq(Els)
    BY <1>8 DEF HandleFeatures, TypeOK
  <2>2. \A s \in Steps : [core EXCEPT !.step = s] \in Cores
    BY DEF TypeOK, Cores
  <2>3. CASE \/ Send([core EXCEPT !.step = "GetTLSProceed"], "starttls")
             \/ Send([core EXCEPT !.step = "GetCompressProceed"], "compress")
             \/ Send([core EXCEPT !.step = "GetBindResponse"], "bind")
    BY <2>1, <2>2, <2>3, SendType DEF Steps, Messages
  <2>4. CASE LoginComplete(core)
    BY <2>1, <2>4, LoginType DEF TypeOK
  <2>5. CASE /\ core' = [core EXCEPT !.step = "HandleAuthGet", !.old = TRUE]
             /\ OnFeatures(core.features)
    <3>1. core' \in Cores
      BY <2>5 DEF TypeOK, Cores, Steps
    <3> QED
      BY <2>1, <2>5, <3>1, OnFeaturesType
  <2>6. CASE /\ core' = [core EXCEPT !.step = "GetSASLFirst"]
             /\ sasl' = [at |-> "first", plain |-> MayUsePlain]
             /\ Pause({})
             /\ UNCHANGED <<opt, bs, layer, out, Wire, told>>
    <3>1. core' \in Cores
      BY <2>2, <2>6 DEF Steps
    <3>2. sasl' \in Sasls
      BY <2>6 DEF Sasls, MayUsePlain
    <3>3. [cs EXCEPT !.notify = {}] \in Clients
      BY DEF TypeOK, Clients
    <3>4. busy' \in BOOLEAN /\ cs' \in Clients /\ app' \in Apps
      BY <2>6, <3>3, PauseType DEF Pause
    <3> QED
      BY <2>1, <2>6, <3>1, <3>2, <3>4 DEF TypeOK, Wire
  <2> QED
    BY <1>8, <2>3, <2>4, <2>5, <2>6 DEF HandleFeatures
<1>9. CASE Proceed
  <2>1. buf' \in Seq(Els)
    BY <1>9, GotType DEF Proceed, Take
  <2>2. core' \in Cores
    BY <1>9 DEF Proceed, ResetStream, TypeOK, Cores, Steps
  <2>3. layer' \in Layers
    BY <1>9 DEF Proceed, TypeOK, Layers
  <2>4. [cs EXCEPT !.notify = {}, !.usingTls = TRUE] \in Clients
    BY DEF TypeOK, Clients
  <2>5. busy' \in BOOLEAN /\ cs' \in Clients /\ app' \in Apps
    BY <1>9, <2>4, PauseType DEF Proceed
  <2> QED
    BY <1>9, <2>1, <2>2, <2>3, <2>5 DEF Proceed, TypeOK, Wire
<1>10. CASE Compressed
  <2>1. Tail(buf) \in Seq(Els) /\ net \in Seq(Els)
    BY <1>10, GotType DEF Compressed, TypeOK
  <2>2. net' \in Seq(Els) /\ buf' \in Seq(Els)
    BY <1>10, <2>1, ConcatType, EmptySeq DEF Compressed
  <2>3. core' \in Cores
    BY <1>10 DEF Compressed, ResetStream, TypeOK, Cores, Steps
  <2>4. layer' \in Layers
    BY <1>10 DEF Compressed, TypeOK, Layers
  <2>5. busy' \in BOOLEAN /\ cs' \in Clients /\ app' \in Apps
    BY <1>10, ContinueType, AnnounceType DEF Compressed
  <2> QED
    BY <1>10, <2>2, <2>3, <2>4, <2>5 DEF Compressed, TypeOK
<1>11. CASE CompressionRefused
  <2>1. buf' \in Seq(Els)
    BY <1>11, GotType DEF CompressionRefused, Take
  <2>2. core' \in Cores /\ busy' \in BOOLEAN
    BY <1>11 DEF CompressionRefused, TypeOK, Cores
  <2>3. cs' \in Clients
    BY <1>11 DEF CompressionRefused, TypeOK, Clients
  <2> QED
    BY <1>11, <2>1, <2>2, <2>3 DEF CompressionRefused, TypeOK, Wire
<1>12. CASE GetSASLFirst \/ GetSASLNext \/ HandleAuthGet \/ HandleAuthSet
  <2>1. \A s \in Steps : [core EXCEPT !.step = s] \in Cores
    BY DEF TypeOK, Cores
  <2>2. buf' \in Seq(Els)
    BY <1>12 DEF GetSASLFirst, GetSASLNext, HandleAuthGet, HandleAuthSet, TypeOK
  <2> QED
    BY <1>12, <2>1, <2>2, SendType
       DEF GetSASLFirst, GetSASLNext, HandleAuthGet, HandleAuthSet, Steps, Messages
<1>13. CASE SASLChallenge
  <2>1. buf' \in Seq(Els)
    BY <1>13, GotType DEF SASLChallenge, Take
  <2>2. core' \in Cores
    BY <1>13 DEF SASLChallenge, Got, TypeOK, Cores, Steps
  <2>3. sasl' \in Sasls
    BY <1>13 DEF SASLChallenge, TypeOK, Sasls
  <2>4. [cs EXCEPT !.notify = {}] \in Clients
    BY DEF TypeOK, Clients
  <2>5. busy' \in BOOLEAN /\ cs' \in Clients /\ app' \in Apps
    BY <1>13, <2>4, PauseType DEF SASLChallenge, Pause
  <2> QED
    BY <1>13, <2>1, <2>2, <2>3, <2>5 DEF SASLChallenge, TypeOK, Wire
<1>14. CASE SASLSuccess \/ HandleSASLSuccess
  <2>1. buf' \in Seq(Els)
    BY <1>14, GotType, EmptySeq DEF SASLSuccess, HandleSASLSuccess, Take, TypeOK
  <2>2. core' = [core EXCEPT !.step = "HandleSASLSuccess", !.saslAuthed = TRUE] \/
        core' = [core EXCEPT !.xml = "SendOpen", !.step = "Start"]
    BY <1>14 DEF SASLSuccess, HandleSASLSuccess, ResetStream
  <2>3. "HandleSASLSuccess" \in Steps /\ "Start" \in Steps
    BY DEF Steps
  <2>4. core' \in Cores
    BY <2>2, <2>3 DEF TypeOK, Cores
  <2>5. busy' \in BOOLEAN /\ cs' \in Clients
    BY <1>14, ContinueType DEF SASLSuccess, HandleSASLSuccess
  <2> QED
    BY <1>14, <2>1, <2>4, <2>5 DEF SASLSuccess, HandleSASLSuccess, TypeOK, Wire
<1>15. CASE Bound \/ AuthOk
  <2>1. buf' \in Seq(Els)
    BY <1>15, GotType DEF Bound, AuthOk, Take
  <2> QED
    BY <1>15, <2>1, LoginType DEF Bound, AuthOk, TypeOK
<1>16. CASE AuthFields
  <2>1. buf' \in Seq(Els)
    BY <1>16, GotType DEF AuthFields, Take
  <2> DEFINE digest == "digest" \in Head(buf).a
  <2>2. core' = [core EXCEPT !.digest = digest, !.step = "HandleAuthSet"]
    BY <1>16 DEF AuthFields
  <2>3. digest \in BOOLEAN /\ "HandleAuthSet" \in Steps
    BY SMT DEF Steps
  <2> HIDE DEF digest
  <2>4. core' \in Cores
    BY <2>2, <2>3 DEF TypeOK, Cores
  <2>5. [cs EXCEPT !.state = "NeedParams", !.notify = {}] \in Clients
    BY DEF TypeOK, Clients, States
  <2>6. busy' \in BOOLEAN /\ cs' \in Clients /\ app' \in Apps
    BY <1>16, <2>5, PauseType DEF AuthFields
  <2> QED
    BY <1>16, <2>1, <2>4, <2>6 DEF AuthFields, TypeOK, Wire
<1>17. CASE StanzaSent
  <2>1. core.written - 1 \in Nat
    BY <1>17, SMT DEF StanzaSent, TypeOK, Cores
  <2>2. core' \in Cores
    BY <1>17, <2>1 DEF StanzaSent, TypeOK, Cores
  <2>3. busy' \in BOOLEAN /\ cs' \in Clients /\ buf' \in Seq(Els)
    BY <1>17, ContinueType, TakeType DEF StanzaSent
  <2> QED
    BY <1>17, <2>2, <2>3 DEF StanzaSent, TypeOK, Wire
<1>18. CASE SendItem
  <2> DEFINE item == Head(core.sendList)
             n == core.pending + IF item = "stanza" THEN 1 ELSE 0
             c == [core EXCEPT !.sendList = Tail(@), !.pending = n]
  <2>1. core.sendList \in Seq({"stanza", "ping"}) /\ core.sendList # <<>>
    BY <1>18 DEF SendItem, TypeOK, Cores
  <2>2. item \in {"stanza", "ping"} /\ Tail(core.sendList) \in Seq({"stanza", "ping"})
    BY <2>1, HeadTail
  <2>3. n \in Int
    BY SMT DEF TypeOK, Cores
  <2>4. c \in Cores
    BY <2>2, <2>3 DEF TypeOK, Cores
  <2>5. core' = Tracked(c, item) /\ Write(item)
    BY <1>18 DEF SendItem
  <2> HIDE DEF c, item
  <2>6. core' \in Cores /\ out' \in Seq(Msgs)
    BY <2>2, <2>4, <2>5, TrackedType, WriteType DEF Messages
  <2>7. busy' \in BOOLEAN /\ cs' \in Clients /\ buf' \in Seq(Els)
    BY <1>18, ContinueType, TakeType DEF SendItem
  <2> QED
    BY <1>18, <2>6, <2>7 DEF SendItem, TypeOK, Wire
<1>19. CASE StanzaReady
  <2>1. app.in + 1 \in Nat
    BY SMT DEF TypeOK, Apps
  <2>2. app' \in Apps
    BY <1>19, <2>1 DEF StanzaReady, TypeOK, Apps
  <2>3. busy' \in BOOLEAN /\ cs' \in Clients /\ buf' \in Seq(Els)
    BY <1>19, ContinueType, GotType DEF StanzaReady, Take
  <2> QED
    BY <1>19, <2>2, <2>3 DEF StanzaReady, TypeOK, Wire
<1> QED
  BY <1>1, <1>2, <1>3, <1>4, <1>5, <1>6, <1>7, <1>8, <1>9, <1>10, <1>11, <1>12, <1>13, <1>14,
     <1>15, <1>16, <1>17, <1>18, <1>19 DEF Loop

(* ... then what calls processNext(), and the server.                       *)

LEMMA ItemWrittenType ==
    ASSUME NEW c \in Cores
    PROVE  ItemWritten(c) \in Cores
<1>0. CASE c.track = <<>>
  BY <1>0, Zenon DEF ItemWritten
<1> SUFFICES ASSUME c.track # <<>> PROVE ItemWritten(c) \in Cores
  BY <1>0
<1> DEFINE item == Head(c.track)
           n == IF item = "stanza" THEN 1 ELSE 0
<1>1. Tail(c.track) \in Seq({"raw", "stanza", "ping", "close"})
  BY HeadTail, Zenon DEF Cores
<1>2. c.pending - n \in Int /\ c.written + n \in Nat
  BY SMT DEF Cores
<1>3. ItemWritten(c) = [c EXCEPT !.track = Tail(@), !.pending = @ - n, !.written = @ + n,
                                 !.closeWritten = @ \/ item = "close"]
  BY Zenon DEF ItemWritten
<1> HIDE DEF n, item
<1> QED
  BY <1>1, <1>2, <1>3, Zenon DEF Cores

LEMMA ServerType ==
    ASSUME TypeOK, Server
    PROVE  TypeOK'
<1>1. CASE Answer
  <2> PICK r \in Replies(Head(inbox)) :
        /\ net' = net \o r
        /\ host' = [host EXCEPT
              !.up = Head(inbox).k # "close",
              !.open = \/ Head(inbox).k = "open"
                       \/ @ /\ r \notin One({"proceed", "compressed", "success", "successData"}),
              !.authed = @ \/ r \in One({"success", "successData"}),
              !.session = @ \/ r \in One({"bound", "authOk"}),
              !.rounds = @ + IF r \in One({"challenge"}) THEN 1 ELSE 0]
    BY <1>1, Zenon DEF Answer
  <2>1. inbox' \in Seq(Msgs)
    BY <1>1, HeadTail, Zenon DEF Answer, TypeOK
  <2>2. r \in Seq(Els)
    BY RepliesType
  <2>3. net' \in Seq(Els)
    BY <2>2, ConcatType, Zenon DEF TypeOK
  <2> DEFINE o == \/ Head(inbox).k = "open"
                  \/ host.open /\ r \notin One({"proceed", "compressed", "success", "successData"})
             n == host.rounds + IF r \in One({"challenge"}) THEN 1 ELSE 0
             u == Head(inbox).k # "close"
             a == r \in One({"success", "successData"})
             s == r \in One({"bound", "authOk"})
  <2>4. o \in BOOLEAN /\ u \in BOOLEAN /\ a \in BOOLEAN /\ s \in BOOLEAN
    <3>1. host.open \in BOOLEAN
      BY Zenon DEF TypeOK, Hosts
    <3>2. o \in BOOLEAN
      BY <3>1, SMT
    <3>3. u \in BOOLEAN /\ a \in BOOLEAN /\ s \in BOOLEAN
      BY SMT
    <3> QED
      BY <3>2, <3>3
  <2>5. n \in Nat
    BY SMT DEF TypeOK, Hosts
  <2>6. host' = [host EXCEPT !.up = u, !.open = o, !.authed = @ \/ a, !.session = @ \/ s,
                             !.rounds = n]
    BY Zenon DEF TypeOK, Hosts
  <2> HIDE DEF o, n, u, a, s
  <2>7. host' \in Hosts
    BY <2>4, <2>5, <2>6, Zenon DEF TypeOK, Hosts
  <2> QED
    BY <1>1, <2>1, <2>3, <2>7, Zenon DEF Answer, TypeOK
<1>2. CASE Push
  <2>1. host.pushed + 1 \in Nat
    BY SMT DEF TypeOK, Hosts
  <2>2. host' \in Hosts
    BY <1>2, <2>1, Zenon DEF Push, TypeOK, Hosts
  <2>3. net' \in Seq(Els)
    BY <1>2, ElementType, AppendType, Zenon DEF Push, TypeOK, Elements
  <2> QED
    BY <1>2, <2>2, <2>3, Zenon DEF Push, TypeOK
<1>3. CASE ServerEnds
  <2>1. host' \in Hosts
    BY <1>3, Zenon DEF ServerEnds, TypeOK, Hosts
  <2>2. PICK k \in Elements : net' = Append(net, El(k))
    BY <1>3, Zenon DEF ServerEnds, Elements
  <2>3. net' \in Seq(Els)
    BY <2>2, ElementType, AppendType, Zenon DEF TypeOK
  <2> QED
    BY <1>3, <2>1, <2>3, Zenon DEF ServerEnds, TypeOK
<1> QED
  BY <1>1, <1>2, <1>3, Zenon DEF Server

LEMMA NetworkType ==
    ASSUME TypeOK, Network
    PROVE  TypeOK'
<1> USE Zenon
<1>1. CASE ConnectorFails \/ ConnectionClosed \/ TLSFails
  BY <1>1, EndType, FailType DEF ConnectorFails, ConnectionClosed, TLSFails, Endings
<1>2. CASE Connected
  <2>1. opt.ssl \in BOOLEAN
    BY StreamAssumption DEF TypeOK, OptionSpace
  <2>2. core' \in Cores
    BY <1>2, <2>1 DEF Connected, TypeOK, Cores
  <2>3. cs' \in Clients /\ busy' \in BOOLEAN /\ bs' \in BOOLEAN
    BY <1>2, <2>1 DEF Connected, TypeOK, Clients
  <2>4. layer' \in Layers
    BY <1>2 DEF Connected, TypeOK, Layers
  <2> QED
    BY <1>2, <2>2, <2>3, <2>4 DEF Connected, TypeOK, Wire
<1>3. CASE TLSHandshaken
  <2>1. layer' \in Layers /\ busy' \in BOOLEAN
    BY <1>3 DEF TLSHandshaken, TypeOK, Layers
  <2> QED
    BY <1>3, <2>1 DEF TLSHandshaken, TypeOK, Wire
<1>4. CASE Written
  <2>1. out \in Seq(Msgs) /\ inbox \in Seq(Msgs) /\ out # <<>>
    BY <1>4 DEF Written, TypeOK
  <2>2. out' \in Seq(Msgs) /\ inbox' \in Seq(Msgs)
    BY <1>4, <2>1, HeadTail, AppendType DEF Written
  <2>3. core' \in Cores
    BY <1>4, ItemWrittenType DEF Written, TypeOK
  <2>4. busy' \in BOOLEAN
    BY <1>4, SMT DEF Written
  <2> QED
    BY <1>4, <2>2, <2>3, <2>4 DEF Written, TypeOK
<1>5. CASE Receive
  <2> PICK n \in 1..Len(net) :
        buf' = buf \o SubSeq(net, 1, n) /\ net' = SubSeq(net, n + 1, Len(net))
    BY <1>5 DEF Receive
  <2>1. net \in Seq(Els) /\ buf \in Seq(Els)
    BY DEF TypeOK
  <2>2. SubSeq(net, 1, n) \in Seq(Els) /\ SubSeq(net, n + 1, Len(net)) \in Seq(Els)
    BY <2>1, SplitType
  <2>3. buf' \in Seq(Els) /\ net' \in Seq(Els)
    BY <2>1, <2>2, ConcatType
  <2>4. busy' \in BOOLEAN
    BY <1>5, SMT DEF Receive
  <2> QED
    BY <1>5, <2>3, <2>4 DEF Receive, TypeOK
<1> QED
  BY <1>1, <1>2, <1>3, <1>4, <1>5 DEF Network

LEMMA UserType ==
    ASSUME TypeOK, User \/ Account \/ Sasl
    PROVE  TypeOK'
<1> USE Zenon
<1>1. ASSUME NEW o \in Options, ConnectToServer(o)
      PROVE  TypeOK'
  <2>1. cs' \in Clients
    BY <1>1, InitialTypes DEF ConnectToServer, Clients, States
  <2>2. app' \in Apps
    BY <1>1 DEF ConnectToServer, TypeOK, Apps
  <2> QED
    BY <1>1, <2>1, <2>2 DEF ConnectToServer, TypeOK, Endings
<1>2. CASE Close
  <2>1. CASE Reset /\ UNCHANGED <<opt, app, told>>
    BY <2>1, EmptySeq, InitialTypes DEF Reset, TypeOK
  <2>2. CASE ~Reset
    <3>1. core' \in Cores
      BY <1>2, <2>2 DEF Close, TypeOK, Cores
    <3>2. cs' \in Clients /\ busy' \in BOOLEAN
      BY <1>2, <2>2 DEF Close, TypeOK, Clients, States
    <3> QED
      BY <1>2, <2>2, <3>1, <3>2 DEF Close, TypeOK, Wire
  <2>3. CASE Reset /\ ~UNCHANGED <<opt, app, told>>
    BY <1>2, <2>3 DEF Close, Reset, TypeOK
  <2> QED
    BY <2>1, <2>2, <2>3
<1>3. CASE WriteItem
  <2> PICK item \in {"stanza", "ping"} : core' = [core EXCEPT !.sendList = Append(@, item)]
    BY <1>3 DEF WriteItem
  <2>1. Append(core.sendList, item) \in Seq({"stanza", "ping"})
    BY AppendType DEF TypeOK, Cores
  <2>2. core' \in Cores
    BY <2>1 DEF TypeOK, Cores
  <2>3. app.wrote + 1 \in Nat
    BY SMT DEF TypeOK, Apps
  <2>4. app' \in Apps /\ busy' \in BOOLEAN
    BY <1>3, <2>3 DEF WriteItem, TypeOK, Apps
  <2> QED
    BY <1>3, <2>2, <2>4 DEF WriteItem, TypeOK, Wire
<1>4. CASE ContinueAfterParams
  <2>1. cs' \in Clients /\ busy' \in BOOLEAN
    BY <1>4 DEF ContinueAfterParams, TypeOK, Clients, States
  <2>2. sasl' \in Sasls
    BY <1>4 DEF ContinueAfterParams, TypeOK, Sasls
  <2> QED
    BY <1>4, <2>1, <2>2 DEF ContinueAfterParams, TypeOK, Wire
<1>5. CASE ContinueAfterWarning
  <2>1. cs' \in Clients /\ busy' \in BOOLEAN
    BY <1>5 DEF ContinueAfterWarning, TypeOK, Clients, States
  <2> QED
    BY <1>5, <2>1 DEF ContinueAfterWarning, TypeOK, Wire
<1>6. CASE ReadyRead
  <2>1. app.heard + app.in \in Nat
    BY SMT DEF TypeOK, Apps
  <2>2. app' \in Apps
    BY <1>6, <2>1 DEF ReadyRead, TypeOK, Apps
  <2> QED
    BY <1>6, <2>2 DEF ReadyRead, TypeOK, Wire
<1>7. CASE SaslStep
  <2>1. sasl' \in Sasls /\ busy' \in BOOLEAN
    BY <1>7 DEF SaslStep, TypeOK, Sasls
  <2> QED
    BY <1>7, <2>1 DEF SaslStep, TypeOK, Wire
<1>8. CASE SaslNeedsParams
  <2>1. cs' \in Clients
    BY <1>8 DEF SaslNeedsParams, TypeOK, Clients, States
  <2> QED
    BY <1>8, <2>1 DEF SaslNeedsParams, TypeOK, Wire
<1>9. CASE SaslFails
  BY <1>9, FailType DEF SaslFails
<1> QED
  BY <1>1, <1>2, <1>3, <1>4, <1>5, <1>6, <1>7, <1>8, <1>9 DEF User, Account, Sasl

LEMMA NextType == TypeOK /\ [Next]_vars => TypeOK'
<1>1. ASSUME TypeOK, UNCHANGED vars
      PROVE  TypeOK'
  BY <1>1, Zenon DEF vars, TypeOK
<1> QED
  BY <1>1, LoopType, UserType, NetworkType, ServerType, Zenon DEF Next

(* Every reachable state is well typed.                                     *)
THEOREM TypeCorrect == Spec => []TypeOK
  BY InitType, NextType, PTL DEF Spec

-----------------------------------------------------------------------------
(* ClientStream, CoreProtocol and the layers agree after every step.        *)

(* The loop runs on a connection, and never during a handshake or while     *)
(* the SASL object works.                                                  *)
LEMMA LoopRunsAlone ==
    ASSUME Agreement
    PROVE  /\ busy => /\ bs /\ layer.tls # "handshake" /\ sasl.at = "none"
                      /\ cs.state \in {"Connecting", "Active", "Closing"}
           /\ sasl.at # "none" \/ layer.tls # "none" \/ cs.notify # {} => bs
           /\ cs \in Clients /\ core \in Cores /\ layer \in Layers /\ sasl \in Sasls
           /\ bs \in BOOLEAN
<1>1. cs = [InitCs EXCEPT !.state = cs.state] => cs.notify = {}
  BY SMT DEF InitCs
<1>2. InitLayer.tls = "none" /\ InitSasl.at = "none"
  BY Zenon DEF InitLayer, InitSasl
<1> QED
  BY <1>1, <1>2, Zenon DEF Agreement, Agreeing, TypeOK, NothingWithoutConnection, StateAgrees,
     LayersAgree

LEMMA InitialState ==
    /\ InitCs = [InitCs EXCEPT !.state = "Idle"]
    /\ InitCs.state = "Idle" /\ InitCs.notify = {} /\ InitCs.usingTls = FALSE
    /\ InitCs.tlsWarned = FALSE
    /\ InitCore.ready = FALSE /\ InitCore.step = "Start" /\ InitCore.xml = "SendOpen"
    /\ InitCore.old = FALSE /\ InitCore.doShutdown = FALSE /\ InitCore.tlsStarted = FALSE
    /\ InitCore.saslAuthed = FALSE
    /\ InitLayer.tls = "none" /\ InitSasl.at = "none" /\ InitSasl.plain = FALSE
<1>1. InitCs = [InitCs EXCEPT !.state = "Idle"]
  BY SMT DEF InitCs
<1> QED
  BY <1>1, Zenon DEF InitCs, InitCore, InitLayer, InitSasl

LEMMA ResetAgrees ==
    ASSUME Agreement, Reset
    PROVE  Agreeing'
<1>1. cs'.state = "Idle" /\ cs' = [InitCs EXCEPT !.state = cs'.state]
  BY InitialState, Zenon DEF Reset
<1> QED
  BY <1>1, InitialState, Zenon
     DEF Agreeing, NothingWithoutConnection, StateAgrees, LayersAgree, Reset

LEMMA LoopAgrees ==
    ASSUME Agreement, Loop
    PROVE  Agreeing'
<1> USE LoopRunsAlone, Zenon
    DEF Agreement, Agreeing, NothingWithoutConnection, StateAgrees, LayersAgree,
        Clients, Cores, Layers, Sasls, Wire, At, AtElement, InSession,
        Send, Continue, Tracked, Pause, PauseAs, OnFeatures, ResetStream
<1>1. CASE \/ PeerClosed \/ ParseError \/ CloseFinished \/ StreamError \/ NoBind \/ Refused
  BY <1>1, ResetAgrees DEF PeerClosed, ParseError, CloseFinished, StreamError, NoBind,
     Refused, TLSRefused, SASLRefused, BindRefused, AuthGetRefused, AuthSetRefused,
     Fail, EndWith
<1>2. CASE NeedsData
  BY <1>2 DEF NeedsData
<1>3. CASE SendTagOpen
  BY <1>3 DEF SendTagOpen
<1>4. CASE RecvTagOpen
  BY <1>4 DEF RecvTagOpen
<1>5. CASE CloseWaits
  BY <1>5 DEF CloseWaits
<1>6. CASE Shutdown
  BY <1>6 DEF Shutdown
<1>7. CASE GetFeatures
  BY <1>7 DEF GetFeatures
<1>8. CASE Proceed
  BY <1>8 DEF Proceed
<1>9. CASE Compressed
  BY <1>9 DEF Compressed
<1>10. CASE CompressionRefused
  BY <1>10 DEF CompressionRefused
<1>11. CASE GetSASLFirst
  BY <1>11 DEF GetSASLFirst
<1>12. CASE SASLChallenge
  BY <1>12 DEF SASLChallenge
<1>13. CASE SASLSuccess
  BY <1>13 DEF SASLSuccess
<1>14. CASE GetSASLNext
  BY <1>14 DEF GetSASLNext
<1>15. CASE HandleSASLSuccess
  BY <1>15 DEF HandleSASLSuccess
<1>16. CASE Bound
  BY <1>16 DEF Bound, LoginComplete
<1>17. CASE HandleAuthGet
  BY <1>17 DEF HandleAuthGet
<1>18. CASE AuthFields
  BY <1>18 DEF AuthFields
<1>19. CASE HandleAuthSet
  BY <1>19 DEF HandleAuthSet
<1>20. CASE AuthOk
  BY <1>20 DEF AuthOk, LoginComplete
<1>21. CASE StanzaSent
  BY <1>21 DEF StanzaSent
<1>22. CASE SendItem
  BY <1>22 DEF SendItem
<1>23. CASE StanzaReady
  BY <1>23 DEF StanzaReady
<1>24. CASE SessionWaits
  BY <1>24 DEF SessionWaits
<1>25. CASE StartStep
  <2>1. CASE LoginComplete(core)
    BY <1>25, <2>1 DEF StartStep, LoginComplete
  <2>2. CASE ~LoginComplete(core)
    BY <1>25, <2>2, SMTT(30) DEF StartStep
  <2> QED
    BY <2>1, <2>2
<1>26. CASE HandleFeatures
  <2>1. CASE LoginComplete(core)
    BY <1>26, <2>1 DEF HandleFeatures, LoginComplete
  <2>2. CASE Send([core EXCEPT !.step = "GetTLSProceed"], "starttls")
    BY <1>26, <2>2 DEF HandleFeatures
  <2>3. CASE Send([core EXCEPT !.step = "GetCompressProceed"], "compress")
    BY <1>26, <2>3 DEF HandleFeatures
  <2>4. CASE Send([core EXCEPT !.step = "GetBindResponse"], "bind")
    BY <1>26, <2>4 DEF HandleFeatures
  <2>5. CASE /\ core' = [core EXCEPT !.step = "HandleAuthGet", !.old = TRUE]
             /\ OnFeatures(core.features)
    BY <1>26, <2>5 DEF HandleFeatures
  <2>6. CASE /\ core' = [core EXCEPT !.step = "GetSASLFirst"]
             /\ sasl' = [at |-> "first", plain |-> MayUsePlain]
             /\ Pause({})
             /\ UNCHANGED <<opt, bs, layer, out, Wire, told>>
    BY <1>26, <2>6 DEF HandleFeatures
  <2> HIDE DEF Send, LoginComplete, OnFeatures, Pause
  <2> QED
    BY <1>26, <2>1, <2>2, <2>3, <2>4, <2>5, <2>6 DEF HandleFeatures
<1> QED
  BY <1>1, <1>2, <1>3, <1>4, <1>5, <1>6, <1>7, <1>8, <1>9, <1>10, <1>11, <1>12, <1>13, <1>14, <1>15, <1>16, <1>17, <1>18, <1>19, <1>20, <1>21, <1>22, <1>23, <1>24, <1>25, <1>26 DEF Loop

LEMMA OthersAgree ==
    ASSUME Agreement, User \/ Account \/ Sasl \/ Network \/ Server
    PROVE  Agreeing'
<1> USE LoopRunsAlone, Zenon
    DEF Agreement, Agreeing, NothingWithoutConnection, StateAgrees, LayersAgree,
        Clients, Cores, Layers, Sasls, Wire, SaslWorks
<1>1. CASE ConnectorFails \/ ConnectionClosed \/ TLSFails \/ SaslFails
  BY <1>1, ResetAgrees DEF ConnectorFails, ConnectionClosed, TLSFails, SaslFails, Fail, EndWith
<1>2. ASSUME NEW o \in Options, ConnectToServer(o)
      PROVE  Agreeing'
  BY <1>2, InitialState DEF ConnectToServer, InitCs
<1>3. CASE Close
  <2>1. CASE Reset
    BY <2>1, ResetAgrees
  <2>2. CASE cs.state = "Active"
    <3>1. /\ cs' = [cs EXCEPT !.state = "Closing"]
          /\ core' = [core EXCEPT !.doShutdown = TRUE]
          /\ busy' = TRUE
          /\ UNCHANGED <<opt, bs, layer, sasl, out, Wire, buf, app, told>>
      BY <1>3, <2>2 DEF Close
    <3>2. bs /\ layer.tls # "handshake" /\ sasl.at = "none"
      BY <2>2
    <3> QED
      BY <2>2, <3>1, <3>2
  <2> QED
    BY <1>3, <2>1, <2>2 DEF Close
<1>4. CASE Connected
  <2>1. opt.ssl \in BOOLEAN
    BY StreamAssumption DEF TypeOK, OptionSpace
  <2>2. /\ cs.notify = {} /\ cs.usingTls = FALSE /\ layer.tls = "none" /\ sasl.at = "none"
        /\ core.tlsStarted = FALSE /\ core.old = FALSE /\ core.ready = FALSE
        /\ core.step = "Start" /\ core.xml = "SendOpen" /\ core.doShutdown = FALSE
    <3>1. /\ cs = [InitCs EXCEPT !.state = cs.state] /\ core = InitCore
          /\ layer = InitLayer /\ sasl = InitSasl
      BY <1>4 DEF Connected
    <3>2. cs.notify = {} /\ cs.usingTls = FALSE
      BY <3>1, SMT DEF InitCs
    <3> QED
      BY <3>1, <3>2, InitialState
  <2> QED
    BY <1>4, <2>1, <2>2 DEF Connected
<1>5. CASE ContinueAfterParams
  <2>1. CASE core.old
    BY <1>5, <2>1 DEF ContinueAfterParams
  <2>2. CASE ~core.old
    BY <1>5, <2>2 DEF ContinueAfterParams
  <2> QED
    BY <2>1, <2>2
<1>6. CASE WriteItem
  BY <1>6 DEF WriteItem
<1>7. CASE ContinueAfterWarning
  BY <1>7 DEF ContinueAfterWarning
<1>8. CASE ReadyRead
  BY <1>8 DEF ReadyRead
<1>9. CASE SaslStep
  BY <1>9 DEF SaslStep
<1>10. CASE SaslNeedsParams
  BY <1>10 DEF SaslNeedsParams
<1>11. CASE TLSHandshaken
  BY <1>11 DEF TLSHandshaken
<1>12. CASE Written
  BY <1>12 DEF Written, ItemWritten
<1>13. CASE Receive
  BY <1>13 DEF Receive
<1>14. CASE Answer
  BY <1>14 DEF Answer
<1>15. CASE Push
  BY <1>15 DEF Push
<1>16. CASE ServerEnds
  BY <1>16 DEF ServerEnds
<1> QED
  BY <1>1, <1>2, <1>3, <1>4, <1>5, <1>6, <1>7, <1>8, <1>9, <1>10, <1>11, <1>12, <1>13, <1>14, <1>15, <1>16 DEF User, Account, Sasl, Network, Server

LEMMA InitAgrees == Init => Agreeing
<1> SUFFICES ASSUME Init PROVE Agreeing
  OBVIOUS
<1>1. cs.state = "Idle" /\ cs = [InitCs EXCEPT !.state = cs.state]
  BY InitialState, Zenon DEF Init
<1> QED
  BY <1>1, InitialState, Zenon
     DEF Init, Agreeing, NothingWithoutConnection, StateAgrees, LayersAgree

LEMMA NextAgrees == Agreement /\ [Next]_vars => Agreement'
<1>1. ASSUME Agreement, UNCHANGED vars
      PROVE  Agreeing'
  BY <1>1, Zenon DEF Agreement, Agreeing, vars, NothingWithoutConnection, StateAgrees,
     LayersAgree
<1> QED
  BY <1>1, NextType, LoopAgrees, OthersAgree, Zenon DEF Agreement, Next

(* The client, the protocol and the layers always agree.                    *)
THEOREM AgreementCorrect == Spec => []Agreement
<1>1. Init => Agreement
  BY InitType, InitAgrees DEF Agreement
<1> QED
  BY <1>1, NextAgrees, PTL DEF Spec

-----------------------------------------------------------------------------
(* The stream implements Session.                                          *)

LEMMA PhaseOf ==
    ASSUME Agreement
    PROVE  /\ cs.state \in States
           /\ Phase = "idle" <=> cs.state = "Idle"
           /\ Phase = "online" <=> cs.state = "Active"
           /\ Phase = "closing" <=> cs.state = "Closing"
           /\ Phase = "trying" <=> cs.state \in {"Connecting", "WaitVersion", "WaitTLS",
                                                 "NeedParams"}
  BY Zenon DEF Agreement, TypeOK, Clients, States, Phase

(* An end of the stream is an end of the session.                           *)
LEMMA EndImplements ==
    ASSUME Agreement, Agreement', NEW signal \in S!Ends, EndWith(signal), cs.state # "Idle",
           signal = "delayedCloseFinished" => cs.state = "Closing"
    PROVE  S!Next
<1>1. cs'.state = "Idle" /\ told' = signal
  BY InitialState, Zenon DEF EndWith, Reset
<1>2. told = "none"
  BY Zenon DEF Agreement, Agreeing, StateAgrees
<1> QED
  BY <1>1, <1>2, PhaseOf, Zenon DEF S!Next, S!End, Phase

(* The steps of the loop up to the login are not to be told from outside.   *)
LEMMA LoopImplements ==
    ASSUME Agreement, Agreement', Loop
    PROVE  S!Next \/ UNCHANGED <<Phase, told>>
<1> USE Zenon DEF At, AtElement
<1>1. busy /\ cs.state # "Idle"
  BY DEF Loop, PeerClosed, ParseError, NeedsData, SendTagOpen, RecvTagOpen, CloseFinished,
     CloseWaits, Shutdown, StreamError, StartStep, GetFeatures, HandleFeatures, NoBind,
     Proceed, Compressed, CompressionRefused, GetSASLFirst, SASLChallenge, SASLSuccess,
     GetSASLNext, HandleSASLSuccess, Bound, HandleAuthGet, AuthFields, HandleAuthSet, AuthOk,
     Refused, TLSRefused, SASLRefused, BindRefused, AuthGetRefused, AuthSetRefused,
     StanzaSent, SendItem, StanzaReady, SessionWaits, InSession,
     Agreement, Agreeing, StateAgrees
<1>2. ASSUME NEW signal \in {"error", "connectionClosed"}, EndWith(signal)
      PROVE  S!Next
  BY <1>1, <1>2, EndImplements DEF S!Ends
<1>3. CASE \/ PeerClosed \/ ParseError \/ StreamError \/ NoBind \/ Refused
  BY <1>2, <1>3 DEF PeerClosed, ParseError, StreamError, NoBind, Refused, TLSRefused,
     SASLRefused, BindRefused, AuthGetRefused, AuthSetRefused, Fail
<1>4. CASE CloseFinished
  <2>1. cs.state = "Closing"
    BY <1>4 DEF CloseFinished, Agreement, Agreeing, StateAgrees
  <2> QED
    BY <1>4, <2>1, EndImplements DEF CloseFinished, S!Ends
<1>5. CASE LoginComplete(core) /\ core.step # "Done"
  <2>1. cs.state \notin {"Idle", "Active", "Closing"}
    BY <1>1, <1>5 DEF Agreement, Agreeing, StateAgrees
  <2>2. cs'.state = "Active" /\ told' = told
    BY <1>5 DEF LoginComplete, Agreement, TypeOK, Clients
  <2> QED
    BY <2>1, <2>2, PhaseOf DEF S!Next, S!LogIn, Phase
<1>6. ASSUME told' = told,
             \/ cs'.state = cs.state
             \/ cs.state = "Connecting" /\ cs'.state \in {"WaitVersion", "WaitTLS", "NeedParams"}
      PROVE  UNCHANGED <<Phase, told>>
  BY <1>6 DEF Phase
<1>7. CASE \/ NeedsData \/ SendTagOpen \/ CloseWaits \/ Shutdown \/ Proceed \/ Compressed
           \/ CompressionRefused \/ GetSASLFirst \/ SASLChallenge \/ SASLSuccess
           \/ GetSASLNext \/ HandleSASLSuccess \/ HandleAuthGet \/ HandleAuthSet
           \/ StanzaSent \/ SendItem \/ StanzaReady \/ SessionWaits
  <2>1. told' = told
    BY <1>7 DEF NeedsData, SendTagOpen, CloseWaits, Shutdown, Proceed, Compressed,
       CompressionRefused, GetSASLFirst, SASLChallenge, SASLSuccess, GetSASLNext,
       HandleSASLSuccess, HandleAuthGet, HandleAuthSet, StanzaSent, SendItem, StanzaReady,
       SessionWaits, Send
  <2>2. cs'.state = cs.state
    BY <1>7 DEF NeedsData, SendTagOpen, CloseWaits, Shutdown, Proceed, Compressed,
       CompressionRefused, GetSASLFirst, SASLChallenge, SASLSuccess, GetSASLNext,
       HandleSASLSuccess, HandleAuthGet, HandleAuthSet, StanzaSent, SendItem, StanzaReady,
       SessionWaits, Send, Continue, Pause, PauseAs, Agreement, TypeOK, Clients
  <2> QED
    BY <1>6, <2>1, <2>2
<1>8. CASE RecvTagOpen \/ GetFeatures \/ AuthFields
  <2>1. cs.state = "Connecting"
    BY <1>1, <1>8 DEF RecvTagOpen, GetFeatures, AuthFields, Agreement, Agreeing, StateAgrees
  <2>2. told' = told
    BY <1>8 DEF RecvTagOpen, GetFeatures, AuthFields, OnFeatures
  <2>3. cs'.state \in {cs.state, "WaitVersion", "WaitTLS", "NeedParams"}
    BY <1>8 DEF RecvTagOpen, GetFeatures, AuthFields, OnFeatures, PauseAs, Agreement, TypeOK,
       Clients
  <2> QED
    BY <1>6, <2>1, <2>2, <2>3
<1>9. CASE StartStep
  <2>1. CASE ~LoginComplete(core)
    <3>1. told' = told /\ cs'.state = cs.state
      BY <1>9, <2>1 DEF StartStep, Continue, Agreement, TypeOK, Clients
    <3> QED
      BY <1>6, <3>1
  <2> QED
    BY <1>5, <1>9, <2>1 DEF StartStep
<1>10. CASE HandleFeatures /\ ~LoginComplete(core)
  <2>1. cs.state = "Connecting"
    BY <1>1, <1>10 DEF HandleFeatures, Agreement, Agreeing, StateAgrees
  <2>2. told' = told
    BY <1>10 DEF HandleFeatures, OnFeatures, Send
  <2>3. cs'.state \in {cs.state, "WaitTLS"}
    BY <1>10 DEF HandleFeatures, OnFeatures, Send, Continue, Pause, PauseAs, Agreement, TypeOK,
       Clients
  <2> QED
    BY <1>6, <2>1, <2>2, <2>3
<1>11. CASE HandleFeatures /\ LoginComplete(core)
  BY <1>5, <1>11 DEF HandleFeatures
<1>12. CASE Bound \/ AuthOk
  BY <1>5, <1>12 DEF Bound, AuthOk
<1> QED
  BY <1>3, <1>4, <1>7, <1>8, <1>9, <1>10, <1>11, <1>12 DEF Loop

LEMMA OthersImplement ==
    ASSUME Agreement, Agreement', User \/ Account \/ Sasl \/ Network \/ Server
    PROVE  S!Next \/ UNCHANGED <<Phase, told>>
<1> USE Zenon
<1>1. CASE ConnectorFails \/ ConnectionClosed \/ TLSFails \/ SaslFails
  <2>1. cs.state # "Idle"
    BY <1>1, LoopRunsAlone DEF ConnectorFails, ConnectionClosed, TLSFails, SaslFails, SaslWorks,
       Agreement, Agreeing, NothingWithoutConnection
  <2> QED
    BY <1>1, <2>1, EndImplements DEF ConnectorFails, ConnectionClosed, TLSFails, SaslFails,
       Fail, S!Ends
<1>2. ASSUME NEW o \in Options, ConnectToServer(o)
      PROVE  S!Next
  <2>1. cs.state = "Idle" /\ cs'.state = "Connecting" /\ told' = "none"
    BY <1>2 DEF ConnectToServer, InitCs
  <2> QED
    BY <2>1, PhaseOf DEF S!Next, S!Start, Phase
<1>3. CASE Close
  <2>1. CASE cs.state = "Active"
    <3>1. cs'.state = "Closing" /\ told' = told
      BY <1>3, <2>1 DEF Close, Agreement, TypeOK, Clients
    <3> QED
      BY <2>1, <3>1 DEF S!Next, S!Leave, Phase
  <2>2. CASE cs.state # "Active"
    <3>1. cs.state \in {"Connecting", "WaitVersion", "WaitTLS", "NeedParams"} /\ Reset
          /\ told' = told
      BY <1>3, <2>2 DEF Close
    <3>2. cs'.state = "Idle"
      BY <3>1, InitialState DEF Reset
    <3> QED
      BY <3>1, <3>2 DEF S!Next, S!GiveUp, Phase
  <2> QED
    BY <2>1, <2>2
<1>4. ASSUME told' = told,
             \/ cs'.state = cs.state
             \/ {cs.state, cs'.state} \subseteq {"Connecting", "WaitVersion", "WaitTLS",
                                                 "NeedParams"}
      PROVE  UNCHANGED <<Phase, told>>
  BY <1>4 DEF Phase
<1>5. CASE \/ WriteItem \/ ReadyRead \/ SaslStep \/ TLSHandshaken \/ Connected \/ Written
           \/ Receive \/ Server
  <2>1. told' = told /\ cs'.state = cs.state
    BY <1>5 DEF WriteItem, ReadyRead, SaslStep, TLSHandshaken, Connected, Written, Receive,
       Server, Answer, Push, ServerEnds, Agreement, TypeOK, Clients
  <2> QED
    BY <1>4, <2>1
<1>6. CASE ContinueAfterParams \/ ContinueAfterWarning \/ SaslNeedsParams
  <2>1. told' = told /\ {cs.state, cs'.state} \subseteq {"Connecting", "WaitVersion", "WaitTLS",
                                                        "NeedParams"}
    BY <1>6 DEF ContinueAfterParams, ContinueAfterWarning, SaslNeedsParams, SaslWorks,
       Agreement, TypeOK, Clients
  <2> QED
    BY <1>4, <2>1
<1> QED
  BY <1>1, <1>2, <1>3, <1>5, <1>6 DEF User, Account, Sasl, Network

(* The stream implements the session it promises: one authenticated() per   *)
(* attempt, one signal at its end, and none after the account gave up.      *)
THEOREM SessionImplemented == Spec => ImplementsSession
<1>1. Init => S!Init
  BY InitialState, Zenon DEF Init, S!Init, Phase
<1>2. Agreement /\ Agreement' /\ [Next]_vars => [S!Next]_<<Phase, told>>
  <2>1. UNCHANGED vars => UNCHANGED <<Phase, told>>
    BY Zenon DEF vars, Phase
  <2> QED
    BY <2>1, LoopImplements, OthersImplement, Zenon DEF Next
<1> QED
  BY <1>1, <1>2, AgreementCorrect, PTL DEF Spec, ImplementsSession, S!Spec

-----------------------------------------------------------------------------
(* What the steps know about the password and about TLS.                    *)

LEMMA ResetKnows ==
    ASSUME Reset
    PROVE  (PlainKnown /\ WarningKnown)'
  BY InitialState, Zenon DEF Reset, PlainKnown, WarningKnown

LEMMA LoopKnows ==
    ASSUME Agreement, PlainKnown, WarningKnown, Loop
    PROVE  (PlainKnown /\ WarningKnown)'
<1> USE LoopRunsAlone, Zenon
    DEF Agreement, Agreeing, NothingWithoutConnection, StateAgrees, LayersAgree,
        PlainKnown, WarningKnown, Secure, MayUsePlain, OldPlainAllowed,
        Clients, Cores, Layers, Sasls, Wire, At, AtElement, InSession,
        Send, Continue, Tracked, Pause, PauseAs, OnFeatures, ResetStream
<1>1. CASE \/ PeerClosed \/ ParseError \/ CloseFinished \/ StreamError \/ NoBind \/ Refused
  BY <1>1, ResetKnows DEF PeerClosed, ParseError, CloseFinished, StreamError, NoBind,
     Refused, TLSRefused, SASLRefused, BindRefused, AuthGetRefused, AuthSetRefused,
     Fail, EndWith
<1>2. CASE NeedsData
  BY <1>2 DEF NeedsData
<1>3. CASE SendTagOpen
  BY <1>3 DEF SendTagOpen
<1>4. CASE RecvTagOpen
  BY <1>4 DEF RecvTagOpen
<1>5. CASE CloseWaits
  BY <1>5 DEF CloseWaits
<1>6. CASE Shutdown
  BY <1>6 DEF Shutdown
<1>7. CASE GetFeatures
  BY <1>7 DEF GetFeatures
<1>8. CASE Proceed
  BY <1>8 DEF Proceed
<1>9. CASE Compressed
  BY <1>9 DEF Compressed
<1>10. CASE CompressionRefused
  BY <1>10 DEF CompressionRefused
<1>11. CASE GetSASLFirst
  BY <1>11 DEF GetSASLFirst
<1>12. CASE SASLChallenge
  BY <1>12 DEF SASLChallenge
<1>13. CASE SASLSuccess
  BY <1>13 DEF SASLSuccess
<1>14. CASE GetSASLNext
  BY <1>14 DEF GetSASLNext
<1>15. CASE HandleSASLSuccess
  BY <1>15 DEF HandleSASLSuccess
<1>16. CASE Bound
  BY <1>16 DEF Bound, LoginComplete
<1>17. CASE HandleAuthGet
  BY <1>17 DEF HandleAuthGet
<1>18. CASE AuthFields
  BY <1>18 DEF AuthFields
<1>19. CASE HandleAuthSet
  BY <1>19 DEF HandleAuthSet
<1>20. CASE AuthOk
  BY <1>20 DEF AuthOk, LoginComplete
<1>21. CASE StanzaSent
  BY <1>21 DEF StanzaSent
<1>22. CASE SendItem
  BY <1>22 DEF SendItem
<1>23. CASE StanzaReady
  BY <1>23 DEF StanzaReady
<1>24. CASE SessionWaits
  BY <1>24 DEF SessionWaits
<1>25. CASE StartStep
  <2>1. CASE LoginComplete(core)
    BY <1>25, <2>1, ZenonT(30) DEF StartStep, LoginComplete
  <2>2. CASE ~LoginComplete(core)
    BY <1>25, <2>2, SMTT(30) DEF StartStep
  <2> QED
    BY <2>1, <2>2
<1>26. CASE HandleFeatures
  <2>1. CASE LoginComplete(core)
    BY <1>26, <2>1 DEF HandleFeatures, WantsTLS, LoginComplete
  <2>2. CASE Send([core EXCEPT !.step = "GetTLSProceed"], "starttls")
    BY <1>26, <2>2 DEF HandleFeatures, WantsTLS
  <2>3. CASE Send([core EXCEPT !.step = "GetCompressProceed"], "compress")
    BY <1>26, <2>3 DEF HandleFeatures, WantsTLS
  <2>4. CASE Send([core EXCEPT !.step = "GetBindResponse"], "bind")
    BY <1>26, <2>4 DEF HandleFeatures, WantsTLS
  <2>5. CASE /\ core' = [core EXCEPT !.step = "HandleAuthGet", !.old = TRUE]
             /\ OnFeatures(core.features)
    BY <1>26, <2>5 DEF HandleFeatures, WantsTLS
  <2>6. CASE /\ core' = [core EXCEPT !.step = "GetSASLFirst"]
             /\ sasl' = [at |-> "first", plain |-> MayUsePlain]
             /\ Pause({})
             /\ UNCHANGED <<opt, bs, layer, out, Wire, told>>
    BY <1>26, <2>6 DEF HandleFeatures, WantsTLS
  <2> HIDE DEF Send, LoginComplete, OnFeatures, Pause
  <2> QED
    BY <1>26, <2>1, <2>2, <2>3, <2>4, <2>5, <2>6 DEF HandleFeatures
<1> QED
  BY <1>1, <1>2, <1>3, <1>4, <1>5, <1>6, <1>7, <1>8, <1>9, <1>10, <1>11, <1>12, <1>13, <1>14, <1>15, <1>16, <1>17, <1>18, <1>19, <1>20, <1>21, <1>22, <1>23, <1>24, <1>25, <1>26 DEF Loop

LEMMA OthersKnow ==
    ASSUME Agreement, PlainKnown, WarningKnown, User \/ Account \/ Sasl \/ Network \/ Server
    PROVE  (PlainKnown /\ WarningKnown)'
<1> USE LoopRunsAlone, Zenon
    DEF Agreement, Agreeing, NothingWithoutConnection, StateAgrees, LayersAgree,
        PlainKnown, WarningKnown, Secure, MayUsePlain, OldPlainAllowed,
        Clients, Cores, Layers, Sasls, Wire, SaslWorks
<1>1. CASE ConnectorFails \/ ConnectionClosed \/ TLSFails \/ SaslFails
  BY <1>1, ResetKnows DEF ConnectorFails, ConnectionClosed, TLSFails, SaslFails, Fail, EndWith
<1>2. ASSUME NEW o \in Options, ConnectToServer(o)
      PROVE  (PlainKnown /\ WarningKnown)'
  BY <1>2, InitialState DEF ConnectToServer
<1>3. CASE Close
  <2>1. CASE Reset
    BY <2>1, ResetKnows
  <2>2. CASE ~Reset
    BY <1>3, <2>2 DEF Close
  <2> QED
    BY <2>1, <2>2
<1>4. CASE Connected
  <2>1. opt.ssl \in BOOLEAN
    BY StreamAssumption DEF TypeOK, OptionSpace
  <2>2. core = InitCore /\ sasl = InitSasl
    BY <1>4 DEF Connected
  <2> QED
    BY <1>4, <2>1, <2>2, InitialState DEF Connected
<1>5. CASE ContinueAfterParams
  BY <1>5 DEF ContinueAfterParams
<1>6. CASE WriteItem
  BY <1>6 DEF WriteItem
<1>7. CASE ContinueAfterWarning
  BY <1>7 DEF ContinueAfterWarning
<1>8. CASE ReadyRead
  BY <1>8 DEF ReadyRead
<1>9. CASE SaslStep
  BY <1>9 DEF SaslStep
<1>10. CASE SaslNeedsParams
  BY <1>10 DEF SaslNeedsParams
<1>11. CASE TLSHandshaken
  BY <1>11 DEF TLSHandshaken
<1>12. CASE Written
  BY <1>12 DEF Written, ItemWritten
<1>13. CASE Receive
  BY <1>13 DEF Receive
<1>14. CASE Answer
  BY <1>14 DEF Answer
<1>15. CASE Push
  BY <1>15 DEF Push
<1>16. CASE ServerEnds
  BY <1>16 DEF ServerEnds
<1> QED
  BY <1>1, <1>2, <1>3, <1>4, <1>5, <1>6, <1>7, <1>8, <1>9, <1>10, <1>11, <1>12, <1>13, <1>14, <1>15, <1>16 DEF User, Account, Sasl, Network, Server

-----------------------------------------------------------------------------
(* What is said of one message, and of all that are out or with the server. *)
Fine(m) == Protected(m) /\ (opt.tls => Warned(m))
In(m, s) == \E i \in 1..Len(s) : m = s[i]
AllFine == \A m : In(m, out) \/ In(m, inbox) => Fine(m)

(* A message that was fine stays so, as warnings are not taken back.        *)
LEMMA StaysFine ==
    ASSUME UNCHANGED opt, cs.tlsWarned => cs'.tlsWarned
    PROVE  \A m : Fine(m) => Fine(m)'
  BY Zenon DEF Fine, Protected, Warned

LEMMA InAppend ==
    ASSUME NEW X, NEW s \in Seq(X), NEW e \in X, NEW m, In(m, Append(s, e))
    PROVE  m = e \/ In(m, s)
  BY DEF In

LEMMA InTail ==
    ASSUME NEW X, NEW s \in Seq(X), s # <<>>
    PROVE  In(Head(s), s) /\ \A m : In(m, Tail(s)) => In(m, s)
<1>1. ASSUME NEW i \in 1..Len(Tail(s))
      PROVE  i + 1 \in 1..Len(s) /\ Tail(s)[i] = s[i + 1]
  OBVIOUS
<1>2. 1 \in 1..Len(s) /\ Head(s) = s[1]
  OBVIOUS
<1> QED
  BY <1>1, <1>2, Zenon DEF In

LEMMA InNothing ==
    ASSUME NEW m
    PROVE  ~In(m, <<>>)
  BY SMT DEF In

(* A message that is written now is fine, whichever step writes it.         *)
LEMMA WritesFine ==
    ASSUME Agreement, PlainKnown, WarningKnown, busy, NEW k \in Messages,
           k = "auth" => core.step = "GetSASLFirst",
           k = "response" => core.step = "GetSASLNext",
           k = "bind" => core.step = "HandleFeatures" /\ core.saslAuthed,
           k = "authGet" => core.step = "HandleAuthGet",
           k = "authSet" => core.step = "HandleAuthSet"
    PROVE  Fine(Message(k))
<1>1. Message(k).k = k /\ Message(k).enc = (layer.tls = "on")
  BY Zenon DEF Message
<1>2. cs.usingTls => layer.tls = "on"
  BY LoopRunsAlone, Zenon DEF Agreement, Agreeing, LayersAgree, Layers
<1>3. Protected(Message(k))
  <2>1. Message(k).plain => (k = "auth" /\ sasl.plain) \/ (k = "authSet" /\ ~core.digest)
    BY SMT DEF Message
  <2>2. OldPlainAllowed => opt.plain = "AllowPlain" \/
                           (opt.plain = "AllowPlainOverTLS" /\ cs.usingTls)
    BY LoopRunsAlone, Zenon DEF OldPlainAllowed, Agreement, Agreeing, LayersAgree
  <2>3. k = "authSet" /\ ~core.digest => OldPlainAllowed
    BY Zenon DEF PlainKnown
  <2>4. k = "auth" /\ sasl.plain => MayUsePlain
    BY Zenon DEF PlainKnown
  <2> QED
    BY <1>1, <1>2, <2>1, <2>2, <2>3, <2>4, Zenon DEF Protected, MayUsePlain
<1>4. ASSUME opt.tls PROVE Warned(Message(k))
  <2>1. k \in {"auth", "response", "bind", "authGet", "authSet"} => Secure
    BY <1>4, Zenon DEF WarningKnown
  <2> QED
    BY <1>1, <1>2, <2>1, Zenon DEF Warned, Secure
<1> QED
  BY <1>3, <1>4 DEF Fine

LEMMA AppendFine ==
    ASSUME Agreement, PlainKnown, WarningKnown, AllFine, busy, NEW k \in Messages, Write(k),
           UNCHANGED <<opt, inbox>>, cs.tlsWarned => cs'.tlsWarned,
           k = "auth" => core.step = "GetSASLFirst",
           k = "response" => core.step = "GetSASLNext",
           k = "bind" => core.step = "HandleFeatures" /\ core.saslAuthed,
           k = "authGet" => core.step = "HandleAuthGet",
           k = "authSet" => core.step = "HandleAuthSet"
    PROVE  AllFine'
<1>1. PICK e : e = Message(k)
  OBVIOUS
<1>2. Fine(e)
  BY <1>1, WritesFine, Zenon
<1>3. e \in Msgs /\ out \in Seq(Msgs)
  BY <1>1, SMT DEF Agreement, TypeOK, Message, Msgs
<1>4. out' = Append(out, e) /\ inbox' = inbox
  BY <1>1, Zenon DEF Write
<1>5. ASSUME NEW m, In(m, out') \/ In(m, inbox')
      PROVE  Fine(m)'
  <2>1. m = e \/ In(m, out) \/ In(m, inbox)
    BY <1>3, <1>4, <1>5, InAppend, Zenon
  <2>2. Fine(m)
    BY <1>2, <2>1, Zenon DEF AllFine
  <2> QED
    BY <2>2, StaysFine, Zenon
<1> QED
  BY <1>5, Zenon DEF AllFine, In

LEMMA KeepFine ==
    ASSUME AllFine, UNCHANGED <<opt, out, inbox>>, cs.tlsWarned => cs'.tlsWarned
    PROVE  AllFine'
<1>1. ASSUME NEW m, In(m, out') \/ In(m, inbox')
      PROVE  Fine(m)'
  BY <1>1, StaysFine, Zenon DEF AllFine
<1> QED
  BY <1>1, Zenon DEF AllFine, In

LEMMA NothingFine ==
    ASSUME out' = <<>>, inbox' = <<>>
    PROVE  AllFine'
<1>1. ASSUME NEW m
      PROVE  ~In(m, out') /\ ~In(m, inbox')
  BY InNothing, Zenon
<1> QED
  BY <1>1, Zenon DEF AllFine, In

LEMMA LoopFine ==
    ASSUME Agreement, PlainKnown, WarningKnown, AllFine, Loop
    PROVE  AllFine'
<1> USE Zenon DEF At, AtElement, Wire
<1>0. Continue => (cs.tlsWarned => cs'.tlsWarned)
  BY LoopRunsAlone DEF Continue, Clients
<1>1. CASE \/ PeerClosed \/ ParseError \/ CloseFinished \/ StreamError \/ NoBind \/ Refused
  BY <1>1, NothingFine DEF PeerClosed, ParseError, CloseFinished, StreamError, NoBind, Refused,
     TLSRefused, SASLRefused, BindRefused, AuthGetRefused, AuthSetRefused, Fail, EndWith, Reset
<1>2. CASE \/ NeedsData \/ RecvTagOpen \/ CloseWaits \/ GetFeatures \/ Proceed \/ Compressed
           \/ CompressionRefused \/ SASLChallenge \/ SASLSuccess \/ HandleSASLSuccess \/ Bound
           \/ AuthFields \/ AuthOk \/ StanzaSent \/ StanzaReady \/ SessionWaits
  <2>1. UNCHANGED <<opt, out, inbox>>
    BY <1>2 DEF NeedsData, RecvTagOpen, CloseWaits, GetFeatures, Proceed, Compressed,
       CompressionRefused, SASLChallenge, SASLSuccess, HandleSASLSuccess, Bound, AuthFields,
       AuthOk, StanzaSent, StanzaReady, SessionWaits, OnFeatures, LoginComplete
  <2>2. cs.tlsWarned => cs'.tlsWarned
    BY <1>2, LoopRunsAlone DEF NeedsData, RecvTagOpen, CloseWaits, GetFeatures, Proceed,
       Compressed, CompressionRefused, SASLChallenge, SASLSuccess, HandleSASLSuccess, Bound,
       AuthFields, AuthOk, StanzaSent, StanzaReady, SessionWaits, OnFeatures, LoginComplete,
       Continue, Pause, PauseAs, Clients
  <2> QED
    BY <2>1, <2>2, KeepFine
<1>3. CASE SendTagOpen
  BY <1>0, <1>3, AppendFine DEF SendTagOpen, Messages
<1>4. CASE Shutdown
  BY <1>0, <1>4, AppendFine DEF Shutdown, Messages
<1>5. CASE SendItem
  <2>1. core.sendList \in Seq({"stanza", "ping"}) /\ core.sendList # <<>>
    BY <1>5 DEF SendItem, Agreement, TypeOK, Cores
  <2>2. Head(core.sendList) \in {"stanza", "ping"}
    BY <2>1, HeadTail
  <2> QED
    BY <1>0, <1>5, <2>2, AppendFine DEF SendItem, Messages, InSession
<1>6. ASSUME NEW c, NEW k \in Messages, Send(c, k), busy,
             k = "auth" => core.step = "GetSASLFirst",
             k = "response" => core.step = "GetSASLNext",
             k = "bind" => core.step = "HandleFeatures" /\ core.saslAuthed,
             k = "authGet" => core.step = "HandleAuthGet",
             k = "authSet" => core.step = "HandleAuthSet"
      PROVE  AllFine'
  BY <1>0, <1>6, AppendFine DEF Send
<1>7. CASE GetSASLFirst \/ GetSASLNext \/ HandleAuthGet \/ HandleAuthSet
  BY <1>6, <1>7 DEF GetSASLFirst, GetSASLNext, HandleAuthGet, HandleAuthSet, Messages
<1>8. CASE StartStep
  <2>1. UNCHANGED <<opt, out, inbox>>
    BY <1>8 DEF StartStep, LoginComplete
  <2>2. cs.tlsWarned => cs'.tlsWarned
    BY <1>8, LoopRunsAlone DEF StartStep, LoginComplete, Continue, Clients
  <2> QED
    BY <2>1, <2>2, KeepFine
<1>9. CASE HandleFeatures
  <2>1. CASE \/ Send([core EXCEPT !.step = "GetTLSProceed"], "starttls")
             \/ Send([core EXCEPT !.step = "GetCompressProceed"], "compress")
             \/ /\ Send([core EXCEPT !.step = "GetBindResponse"], "bind")
                /\ core.saslAuthed
    BY <1>6, <1>9, <2>1 DEF HandleFeatures, Messages
  <2>2. CASE \/ LoginComplete(core) \/ OnFeatures(core.features)
             \/ Pause({}) /\ UNCHANGED <<opt, bs, layer, out, Wire, told>>
    <3>1. UNCHANGED <<opt, out, inbox>>
      BY <2>2 DEF LoginComplete, OnFeatures
    <3>2. cs.tlsWarned => cs'.tlsWarned
      BY <2>2, LoopRunsAlone DEF LoginComplete, OnFeatures, Pause, PauseAs, Clients
    <3> QED
      BY <3>1, <3>2, KeepFine
  <2> QED
    BY <1>9, <2>1, <2>2 DEF HandleFeatures
<1> QED
  BY <1>1, <1>2, <1>3, <1>4, <1>5, <1>7, <1>8, <1>9 DEF Loop

LEMMA OthersFine ==
    ASSUME Agreement, AllFine, User \/ Account \/ Sasl \/ Network \/ Server
    PROVE  AllFine'
<1> USE Zenon DEF Wire
<1>1. CASE ConnectorFails \/ ConnectionClosed \/ TLSFails \/ SaslFails
  BY <1>1, NothingFine DEF ConnectorFails, ConnectionClosed, TLSFails, SaslFails, Fail, EndWith,
     Reset
<1>2. ASSUME NEW o \in Options, ConnectToServer(o)
      PROVE  AllFine'
  <2>1. out = <<>> /\ inbox = <<>>
    BY <1>2 DEF ConnectToServer, Agreement, Agreeing, NothingWithoutConnection
  <2> QED
    BY <1>2, <2>1, NothingFine DEF ConnectToServer
<1>3. CASE Close
  <2>1. CASE Reset
    BY <2>1, NothingFine DEF Reset
  <2>2. CASE ~Reset
    <3>1. UNCHANGED <<opt, out, inbox>> /\ cs' = [cs EXCEPT !.state = "Closing"]
      BY <1>3, <2>2 DEF Close
    <3>2. cs.tlsWarned => cs'.tlsWarned
      BY <3>1, LoopRunsAlone DEF Clients
    <3> QED
      BY <3>1, <3>2, KeepFine
  <2> QED
    BY <2>1, <2>2
<1>4. CASE \/ WriteItem \/ ReadyRead \/ ContinueAfterParams \/ ContinueAfterWarning \/ SaslStep
           \/ SaslNeedsParams \/ Connected \/ TLSHandshaken \/ Receive \/ Push \/ ServerEnds
  <2>1. UNCHANGED <<opt, out, inbox>>
    BY <1>4 DEF WriteItem, ReadyRead, ContinueAfterParams, ContinueAfterWarning, SaslStep,
       SaslNeedsParams, Connected, TLSHandshaken, Receive, Push, ServerEnds
  <2>2. cs.tlsWarned => cs'.tlsWarned
    BY <1>4, LoopRunsAlone DEF WriteItem, ReadyRead, ContinueAfterParams, ContinueAfterWarning,
       SaslStep, SaslNeedsParams, Connected, TLSHandshaken, Receive, Push, ServerEnds, Clients
  <2> QED
    BY <2>1, <2>2, KeepFine
<1>5. ASSUME UNCHANGED opt, cs' = cs,
             \A m : In(m, out') \/ In(m, inbox') => In(m, out) \/ In(m, inbox)
      PROVE  AllFine'
  <2>1. ASSUME NEW m, In(m, out') \/ In(m, inbox')
        PROVE  Fine(m)'
    BY <1>5, <2>1, StaysFine DEF AllFine
  <2> QED
    BY <2>1 DEF AllFine, In
<1>6. out \in Seq(Msgs) /\ inbox \in Seq(Msgs)
  BY DEF Agreement, TypeOK
<1>7. CASE Written
  <2>1. PICK e : e = Head(out)
    OBVIOUS
  <2>2. out # <<>> /\ out' = Tail(out) /\ inbox' = Append(inbox, e) /\ UNCHANGED <<opt, cs>>
    BY <1>7, <2>1 DEF Written
  <2>3. e \in Msgs
    BY <1>6, <2>1, <2>2, HeadTail
  <2>4. In(e, out)
    BY <1>6, <2>1, <2>2, InTail
  <2>5. ASSUME NEW m, In(m, out') \/ In(m, inbox')
        PROVE  In(m, out) \/ In(m, inbox)
    BY <1>6, <2>2, <2>3, <2>4, <2>5, InTail, InAppend
  <2> QED
    BY <1>5, <2>2, <2>5
<1>8. CASE Answer
  <2>1. inbox # <<>> /\ inbox' = Tail(inbox) /\ UNCHANGED <<opt, cs, out>>
    BY <1>8 DEF Answer
  <2>2. ASSUME NEW m, In(m, out') \/ In(m, inbox')
        PROVE  In(m, out) \/ In(m, inbox)
    BY <1>6, <2>1, <2>2, InTail
  <2> QED
    BY <1>5, <2>1, <2>2
<1> QED
  BY <1>1, <1>2, <1>3, <1>4, <1>7, <1>8 DEF User, Account, Sasl, Network, Server

(* The inductive invariant of the two properties.                           *)
Invariant == Agreement /\ PlainKnown /\ WarningKnown /\ AllFine

LEMMA InvariantCorrect == Spec => []Invariant
<1>1. Init => Invariant
  <2> SUFFICES ASSUME Init PROVE Invariant
    OBVIOUS
  <2>1. PlainKnown /\ WarningKnown
    BY InitialState, Zenon DEF Init, PlainKnown, WarningKnown
  <2>2. AllFine
    BY InNothing, Zenon DEF Init, AllFine
  <2>3. Agreement
    BY InitType, InitAgrees, Zenon DEF Agreement
  <2> QED
    BY <2>1, <2>2, <2>3 DEF Invariant
<1>2. Invariant /\ [Next]_vars => Invariant'
  <2> SUFFICES ASSUME Invariant, [Next]_vars PROVE Invariant'
    OBVIOUS
  <2>1. Agreement'
    BY NextAgrees, Zenon DEF Invariant
  <2>2. (PlainKnown /\ WarningKnown)'
    <3>1. ASSUME UNCHANGED vars
          PROVE  (PlainKnown /\ WarningKnown)'
      BY <3>1, Zenon DEF Invariant, vars, PlainKnown, WarningKnown, MayUsePlain,
         OldPlainAllowed, Secure
    <3> QED
      BY <3>1, LoopKnows, OthersKnow, Zenon DEF Invariant, Next
  <2>3. AllFine'
    <3>1. ASSUME UNCHANGED vars
          PROVE  AllFine'
      BY <3>1, KeepFine, Zenon DEF Invariant, vars
    <3> QED
      BY <3>1, LoopFine, OthersFine, Zenon DEF Invariant, Next
  <2> QED
    BY <2>1, <2>2, <2>3, Zenon DEF Invariant
<1> QED
  BY <1>1, <1>2, PTL DEF Spec

(* A password goes out in plain text only with leave: always, or over TLS   *)
(* when it is on.                                                          *)
THEOREM PlainProtected == Spec => []PlainIsProtected
<1>1. Invariant => PlainIsProtected
  BY Zenon DEF Invariant, AllFine, In, Fine, PlainIsProtected
<1> QED
  BY <1>1, InvariantCorrect, PTL

(* An account that can use TLS does not log in without it unless warned.    *)
THEOREM TLSOrWarned == Spec => []NoTLSIsWarned
<1>1. ASSUME Invariant, opt.tls
      PROVE  /\ \A i \in 1..Len(out) : Warned(out[i])
             /\ \A i \in 1..Len(inbox) : Warned(inbox[i])
  BY <1>1, Zenon DEF Invariant, AllFine, In, Fine
<1>2. ASSUME Invariant, opt.tls, cs.state = "Active"
      PROVE  layer.tls = "on" \/ cs.tlsWarned
  <2>1. core.step = "Done" /\ layer.tls # "handshake" /\ (cs.usingTls => layer.tls # "none")
    BY <1>2, Zenon DEF Invariant, Agreement, Agreeing, StateAgrees, LayersAgree
  <2>2. Secure
    BY <1>2, <2>1, Zenon DEF Invariant, WarningKnown
  <2>3. layer.tls \in {"none", "handshake", "on"}
    BY <1>2, Zenon DEF Invariant, Agreement, TypeOK, Layers
  <2> QED
    BY <2>1, <2>2, <2>3, Zenon DEF Secure
<1>3. Invariant => NoTLSIsWarned
  BY <1>1, <1>2, Zenon DEF NoTLSIsWarned
<1> QED
  BY <1>3, InvariantCorrect, PTL

-----------------------------------------------------------------------------
(* No lost wakeup.  That a stanza on the wire wakes the loop, and that a    *)
(* stream that is closing has something to wait for, follows from what      *)
(* trackQueue holds, which TrackKnown says: as long as the SecureStream     *)
(* reports what it has written, one item for every message in out; as many  *)
(* stanzas as are pending; and the close tag until it is out.               *)

Places(t, item) == {i \in 1..Len(t) : t[i] = item}
Tracks == Seq({"raw", "stanza", "ping", "close"})

TrackKnown ==
    /\ ~layer.zip => Len(core.track) = Len(out)
    /\ core.pending = Cardinality(Places(core.track, "stanza"))
    /\ core.xml = "Closing" => core.closeWritten \/ Places(core.track, "close") # {}
    /\ cs.state = "Closing" => core.doShutdown \/ core.xml = "Closing"

Awake == TrackKnown /\ NoLostWakeup

(* An item more, or the first one less, in the queue.                       *)
LEMMA PlacesFinite ==
    ASSUME NEW t \in Tracks, NEW item
    PROVE  /\ IsFiniteSet(Places(t, item)) /\ Cardinality(Places(t, item)) \in Nat
           /\ Cardinality(Places(t, item)) = 0 <=> Places(t, item) = {}
<1>1. Len(t) \in Nat
  BY DEF Tracks
<1>2. IsFiniteSet(1..Len(t)) /\ Places(t, item) \in SUBSET (1..Len(t))
  BY <1>1, FS_Interval DEF Places
<1>3. IsFiniteSet(Places(t, item))
  BY <1>2, FS_Subset
<1> QED
  BY <1>3, FS_CardinalityType, FS_EmptySet

LEMMA PlacesAppend ==
    ASSUME NEW t \in Tracks, NEW item, NEW k \in {"raw", "stanza", "ping", "close"},
           NEW u, u = Append(t, k)
    PROVE  /\ k = item => Cardinality(Places(u, item)) = Cardinality(Places(t, item)) + 1
           /\ k # item => Cardinality(Places(u, item)) = Cardinality(Places(t, item))
           /\ Places(t, item) # {} \/ k = item => Places(u, item) # {}
           /\ u \in Tracks /\ Len(u) = Len(t) + 1
<1>1. /\ Len(t) \in Nat /\ u \in Tracks /\ Len(u) = Len(t) + 1 /\ u[Len(t) + 1] = k
      /\ \A i \in 1..Len(t) : u[i] = t[i]
  BY DEF Tracks
<1>2. Places(u, item) = Places(t, item) \cup (IF k = item THEN {Len(t) + 1} ELSE {})
  BY <1>1 DEF Places
<1>3. Len(t) + 1 \notin Places(t, item)
  BY <1>1 DEF Places
<1>4. Cardinality(Places(t, item)) \in Nat /\ IsFiniteSet(Places(t, item))
  BY PlacesFinite
<1>5. CASE k = item
  <2>1. Places(u, item) = Places(t, item) \cup {Len(t) + 1}
    BY <1>2, <1>5
  <2>2. Cardinality(Places(u, item)) = Cardinality(Places(t, item)) + 1
    BY <1>3, <1>4, <2>1, FS_AddElement
  <2> QED
    BY <1>1, <1>5, <2>1, <2>2
<1>6. CASE k # item
  <2>1. Places(u, item) = Places(t, item)
    BY <1>2, <1>6
  <2> QED
    BY <1>1, <1>4, <1>6, <2>1
<1> QED
  BY <1>5, <1>6

LEMMA PlacesTail ==
    ASSUME NEW t \in Tracks, t # <<>>, NEW item, NEW u, u = Tail(t)
    PROVE  /\ Cardinality(Places(t, item)) =
                Cardinality(Places(u, item)) + IF Head(t) = item THEN 1 ELSE 0
           /\ Places(t, item) # {} => Head(t) = item \/ Places(u, item) # {}
           /\ u \in Tracks /\ Len(u) = Len(t) - 1
<1> DEFINE rest == Places(t, item) \ {1}
           f == [i \in Places(u, item) |-> i + 1]
<1>1. /\ Len(t) \in Nat /\ Len(t) > 0 /\ u \in Tracks /\ Len(u) = Len(t) - 1
      /\ \A i \in 1..Len(u) : u[i] = t[i + 1]
      /\ Head(t) = t[1]
  BY DEF Tracks
<1>2. \A i \in Places(u, item) : i \in Nat /\ i > 0 /\ i + 1 \in rest
  BY <1>1 DEF Places
<1>3. \A j \in rest : j - 1 \in Places(u, item) /\ j \in Nat /\ (j - 1) + 1 = j
  BY <1>1 DEF Places
<1>4. ExistsBijection(Places(u, item), rest)
  <2>1. f \in [Places(u, item) -> rest]
    BY <1>2
  <2>2. \A a, b \in Places(u, item) : f[a] = f[b] => a = b
    BY <1>2
  <2>3. \A j \in rest : \E i \in Places(u, item) : f[i] = j
    BY <1>3
  <2>4. f \in Bijection(Places(u, item), rest)
    BY <2>1, <2>2, <2>3 DEF Bijection, Injection, Surjection, IsInjective
  <2> QED
    BY <2>4 DEF ExistsBijection
<1>5. Cardinality(rest) = Cardinality(Places(u, item))
  BY <1>1, <1>4, PlacesFinite, FS_Bijection
<1>6. 1 \in Places(t, item) <=> Head(t) = item
  BY <1>1 DEF Places
<1>7. Cardinality(rest) = IF Head(t) = item THEN Cardinality(Places(t, item)) - 1
                                            ELSE Cardinality(Places(t, item))
  BY <1>6, PlacesFinite, FS_RemoveElement
<1>8. Cardinality(Places(t, item)) \in Nat /\ Cardinality(Places(u, item)) \in Nat
  BY <1>1, PlacesFinite
<1>9. Places(t, item) # {} => Head(t) = item \/ Places(u, item) # {}
  BY <1>3, <1>6
<1> QED
  BY <1>1, <1>5, <1>7, <1>8, <1>9

LEMMA NoPlaces == Cardinality(Places(<<>>, "stanza")) = 0 /\ <<>> \in Tracks /\ Len(<<>>) = 0
<1>1. Places(<<>>, "stanza") = {}
  BY DEF Places
<1> QED
  BY <1>1, FS_EmptySet DEF Tracks

(* Whatever ends the connection leaves nothing that must be woken.          *)
LEMMA ResetAwake ==
    ASSUME Reset
    PROVE  Awake'
<1>1. /\ core'.track = <<>> /\ core'.pending = 0 /\ core'.xml = "SendOpen" /\ out' = <<>>
      /\ cs'.state = "Idle"
  BY Zenon DEF Reset, InitCore, InitCs
<1> QED
  BY <1>1, NoPlaces, Zenon DEF Awake, TrackKnown, NoLostWakeup

(* A step that leaves the queue alone, and one that adds a message to it.   *)
LEMMA TrackKept ==
    ASSUME TrackKnown, core'.track = core.track, core'.pending = core.pending,
           core'.xml = core.xml \/ core'.xml # "Closing",
           core.closeWritten => core'.closeWritten,
           layer.zip => layer'.zip, out' = out,
           cs'.state = "Closing" => core'.doShutdown \/ core'.xml = "Closing"
    PROVE  TrackKnown'
  BY Zenon DEF TrackKnown

LEMMA TrackGrows ==
    ASSUME TypeOK, TrackKnown, NEW k \in {"raw", "stanza", "ping", "close"}, NEW m,
           core'.track = Append(core.track, k),
           core'.pending = core.pending + IF k = "stanza" THEN 1 ELSE 0,
           core'.xml = "Closing" => core.xml = "Closing" \/ k = "close",
           core'.closeWritten = core.closeWritten,
           layer' = layer, out' = Append(out, m),
           cs'.state = "Closing" => core'.doShutdown \/ core'.xml = "Closing"
    PROVE  TrackKnown'
<1>1. core.track \in Tracks /\ out \in Seq(Msgs)
  BY Zenon DEF TypeOK, Cores, Tracks
<1>2. Len(out') = Len(out) + 1
  BY <1>1
<1>3. PICK t \in Tracks, u \in Tracks : t = core.track /\ u = core'.track /\ u = Append(t, k)
  BY <1>1, AppendType, Zenon DEF Tracks
<1>4. /\ k = "stanza" => Cardinality(Places(u, "stanza")) = Cardinality(Places(t, "stanza")) + 1
      /\ k # "stanza" => Cardinality(Places(u, "stanza")) = Cardinality(Places(t, "stanza"))
      /\ Len(u) = Len(t) + 1
  BY <1>3, PlacesAppend, ZenonT(30)
<1>5. Places(t, "close") # {} \/ k = "close" => Places(u, "close") # {}
  BY <1>3, PlacesAppend, ZenonT(30)
<1> QED
  BY <1>1, <1>2, <1>3, <1>4, <1>5 DEF TrackKnown, TypeOK, Cores

(* What a step of the loop that writes nothing may do.                      *)
WritesNothing ==
    /\ out' = out /\ (layer.zip => layer'.zip)
    /\ core'.track = core.track /\ core'.pending = core.pending
    /\ core'.xml = core.xml \/ (core.xml # "Closing" /\ core'.xml # "Closing")
    /\ core'.closeWritten = core.closeWritten
    /\ core'.doShutdown = core.doShutdown
    /\ cs'.state = "Closing" => cs.state = "Closing"

LEMMA LoopWritesNothing ==
    ASSUME Agreement,
           \/ NeedsData \/ RecvTagOpen \/ CloseWaits \/ GetFeatures \/ Proceed \/ Compressed
           \/ CompressionRefused \/ SASLChallenge \/ SASLSuccess \/ HandleSASLSuccess \/ Bound
           \/ AuthFields \/ AuthOk \/ StanzaSent \/ StanzaReady \/ SessionWaits
    PROVE  WritesNothing
<1> USE LoopRunsAlone, Zenon
    DEF WritesNothing, Clients, Cores, Layers, Wire, At, AtElement, InSession,
        Continue, Pause, PauseAs, OnFeatures, ResetStream, LoginComplete
<1>1. CASE NeedsData
  BY <1>1 DEF NeedsData
<1>2. CASE RecvTagOpen
  BY <1>2 DEF RecvTagOpen
<1>3. CASE CloseWaits
  BY <1>3 DEF CloseWaits
<1>4. CASE GetFeatures
  BY <1>4 DEF GetFeatures
<1>5. CASE Proceed
  BY <1>5 DEF Proceed
<1>6. CASE Compressed
  BY <1>6 DEF Compressed
<1>7. CASE CompressionRefused
  BY <1>7 DEF CompressionRefused
<1>8. CASE SASLChallenge
  BY <1>8 DEF SASLChallenge
<1>9. CASE SASLSuccess
  BY <1>9 DEF SASLSuccess
<1>10. CASE HandleSASLSuccess
  BY <1>10 DEF HandleSASLSuccess
<1>11. CASE Bound
  BY <1>11 DEF Bound
<1>12. CASE AuthFields
  BY <1>12 DEF AuthFields
<1>13. CASE AuthOk
  BY <1>13 DEF AuthOk
<1>14. CASE StanzaSent
  BY <1>14 DEF StanzaSent
<1>15. CASE StanzaReady
  BY <1>15 DEF StanzaReady
<1>16. CASE SessionWaits
  BY <1>16 DEF SessionWaits
<1> QED
  BY <1>1, <1>2, <1>3, <1>4, <1>5, <1>6, <1>7, <1>8, <1>9, <1>10, <1>11, <1>12, <1>13, <1>14, <1>15, <1>16

LEMMA LoopTracks ==
    ASSUME Agreement, TrackKnown, Loop
    PROVE  TrackKnown'
<1> USE Zenon DEF Wire, At, AtElement, InSession, Continue
<1>1. TypeOK /\ cs \in Clients /\ core \in Cores
  BY DEF Agreement, TypeOK
<1>2. CASE WritesNothing
  BY <1>2, TrackKept DEF WritesNothing, TrackKnown
<1>3. CASE \/ PeerClosed \/ ParseError \/ CloseFinished \/ StreamError \/ NoBind \/ Refused
  BY <1>3, ResetAwake DEF PeerClosed, ParseError, CloseFinished, StreamError, NoBind,
     Refused, TLSRefused, SASLRefused, BindRefused, AuthGetRefused, AuthSetRefused,
     Fail, EndWith, Awake
<1>4. ASSUME NEW k \in {"raw", "stanza", "ping", "close"}, NEW m, NEW c \in Cores,
             core' = Tracked(c, k), Write(m), Continue, layer' = layer,
             c.track = core.track,
             c.pending = core.pending + IF k = "stanza" THEN 1 ELSE 0,
             c.xml = "Closing" => core.xml = "Closing" \/ k = "close",
             c.closeWritten = core.closeWritten,
             cs.state = "Closing" => c.doShutdown \/ c.xml = "Closing"
      PROVE  TrackKnown'
  <2>1. /\ core'.track = Append(core.track, k) /\ core'.pending = c.pending
        /\ core'.xml = c.xml /\ core'.closeWritten = c.closeWritten
        /\ core'.doShutdown = c.doShutdown /\ cs'.state = cs.state
    BY <1>1, <1>4 DEF Tracked, Cores, Clients
  <2>2. out' = Append(out, Message(m))
    BY <1>4 DEF Write
  <2> QED
    BY <1>1, <1>4, <2>1, <2>2, TrackGrows
<1>5. ASSUME NEW c \in Cores, NEW m, Send(c, m),
             c.track = core.track, c.pending = core.pending, c.xml = core.xml,
             c.closeWritten = core.closeWritten, c.doShutdown = core.doShutdown
      PROVE  TrackKnown'
  <2>1. c.pending = core.pending + IF "raw" = "stanza" THEN 1 ELSE 0
    BY <1>1, <1>5, SMT DEF Cores
  <2>2. cs.state = "Closing" => c.doShutdown \/ c.xml = "Closing"
    BY <1>5 DEF TrackKnown
  <2> QED
    BY <1>4, <1>5, <2>1, <2>2 DEF Send
<1>6. CASE SendTagOpen
  <2> DEFINE c == [core EXCEPT !.xml = "RecvOpen"]
  <2>1. /\ c \in Cores /\ c.track = core.track /\ c.pending = core.pending
        /\ c.xml = "RecvOpen" /\ c.closeWritten = core.closeWritten
        /\ c.doShutdown = core.doShutdown
    BY <1>1 DEF Cores
  <2>2. c.pending = core.pending + IF "raw" = "stanza" THEN 1 ELSE 0
    BY <1>1, <2>1, SMT DEF Cores
  <2>3. core' = Tracked(c, "raw") /\ Write("open") /\ Continue /\ layer' = layer
    BY <1>6 DEF SendTagOpen
  <2>4. cs.state = "Closing" => c.doShutdown \/ c.xml = "Closing"
    BY <1>6, <2>1 DEF TrackKnown, SendTagOpen
  <2> HIDE DEF c
  <2> QED
    BY <1>4, <2>1, <2>2, <2>3, <2>4
<1>7. CASE Shutdown
  <2> DEFINE c == [core EXCEPT !.doShutdown = FALSE, !.xml = "Closing"]
  <2>1. /\ c \in Cores /\ c.track = core.track /\ c.pending = core.pending
        /\ c.xml = "Closing" /\ c.closeWritten = core.closeWritten
    BY <1>1 DEF Cores
  <2>2. c.pending = core.pending + IF "close" = "stanza" THEN 1 ELSE 0
    BY <1>1, <2>1, SMT DEF Cores
  <2>3. core' = Tracked(c, "close") /\ Write("close") /\ Continue /\ layer' = layer
    BY <1>7 DEF Shutdown
  <2> HIDE DEF c
  <2> QED
    BY <1>4, <2>1, <2>2, <2>3
<1>8. CASE SendItem
  <2> DEFINE item == Head(core.sendList)
             c == [core EXCEPT !.sendList = Tail(@),
                               !.pending = @ + IF item = "stanza" THEN 1 ELSE 0]
  <2>1. core.sendList \in Seq({"stanza", "ping"}) /\ core.sendList # <<>>
    BY <1>1, <1>8 DEF SendItem, Cores
  <2>2. item \in {"stanza", "ping"} /\ Tail(core.sendList) \in Seq({"stanza", "ping"})
    BY <2>1, HeadTail
  <2>3. core.pending + (IF item = "stanza" THEN 1 ELSE 0) \in Int
    BY <1>1, SMT DEF Cores
  <2>4. /\ c \in Cores /\ c.track = core.track /\ c.closeWritten = core.closeWritten
        /\ c.pending = core.pending + IF item = "stanza" THEN 1 ELSE 0
        /\ c.xml = core.xml /\ c.doShutdown = core.doShutdown
    BY <1>1, <2>2, <2>3 DEF Cores
  <2>5. core' = Tracked(c, item) /\ Write(item) /\ Continue /\ layer' = layer
    BY <1>8 DEF SendItem
  <2>6. cs.state = "Closing" => c.doShutdown \/ c.xml = "Closing"
    BY <2>4 DEF TrackKnown
  <2> HIDE DEF c, item
  <2> QED
    BY <1>4, <2>2, <2>4, <2>5, <2>6
<1>9. ASSUME NEW c, NEW m, Send(c, m), NEW step \in Steps,
             c = [core EXCEPT !.step = step]
      PROVE  TrackKnown'
  <2>1. /\ c \in Cores /\ c.track = core.track /\ c.pending = core.pending
        /\ c.xml = core.xml /\ c.closeWritten = core.closeWritten
        /\ c.doShutdown = core.doShutdown
    BY <1>1, <1>9 DEF Cores
  <2> QED
    BY <1>5, <1>9, <2>1
<1>10. CASE GetSASLFirst \/ GetSASLNext \/ HandleAuthGet \/ HandleAuthSet
  BY <1>9, <1>10 DEF GetSASLFirst, GetSASLNext, HandleAuthGet, HandleAuthSet, Steps
<1>11. ASSUME LoginComplete(core)
       PROVE  TrackKnown'
  <2>1. WritesNothing
    BY <1>1, <1>11 DEF LoginComplete, WritesNothing, Cores, Clients
  <2> QED
    BY <1>2, <2>1
<1>12. CASE StartStep
  <2>1. CASE ~LoginComplete(core)
    <3>1. WritesNothing
      BY <1>1, <1>12, <2>1 DEF StartStep, WritesNothing, Cores, Clients
    <3> QED
      BY <1>2, <3>1
  <2> QED
    BY <1>11, <2>1
<1>13. CASE HandleFeatures
  <2>1. CASE \/ Send([core EXCEPT !.step = "GetTLSProceed"], "starttls")
             \/ Send([core EXCEPT !.step = "GetCompressProceed"], "compress")
             \/ Send([core EXCEPT !.step = "GetBindResponse"], "bind")
    BY <1>9, <2>1 DEF Steps
  <2>2. CASE /\ core' = [core EXCEPT !.step = "HandleAuthGet", !.old = TRUE]
             /\ OnFeatures(core.features)
    <3>1. WritesNothing
      BY <1>1, <2>2 DEF WritesNothing, OnFeatures, Cores, Clients
    <3> QED
      BY <1>2, <3>1
  <2>3. CASE /\ core' = [core EXCEPT !.step = "GetSASLFirst"]
             /\ Pause({})
             /\ UNCHANGED <<opt, bs, layer, out, Wire, told>>
    <3>1. WritesNothing
      BY <1>1, <2>3 DEF WritesNothing, Pause, PauseAs, Cores, Clients
    <3> QED
      BY <1>2, <3>1
  <2> QED
    BY <1>11, <1>13, <2>1, <2>2, <2>3 DEF HandleFeatures
<1> QED
  BY <1>2, <1>3, <1>6, <1>7, <1>8, <1>10, <1>12, <1>13, LoopWritesNothing DEF Loop

LEMMA OthersTrack ==
    ASSUME Agreement, TrackKnown, User \/ Account \/ Sasl \/ Network \/ Server
    PROVE  TrackKnown'
<1> USE Zenon DEF Wire
<1>1. TypeOK /\ cs \in Clients /\ core \in Cores /\ layer \in Layers
  BY DEF Agreement, TypeOK
<1>2. CASE ConnectorFails \/ ConnectionClosed \/ TLSFails \/ SaslFails
  BY <1>2, ResetAwake DEF ConnectorFails, ConnectionClosed, TLSFails, SaslFails, Fail, EndWith,
     Awake
<1>3. CASE Close
  <2>1. CASE Reset
    BY <2>1, ResetAwake DEF Awake
  <2>2. CASE ~Reset
    <3>1. /\ UNCHANGED <<out, layer>> /\ core' = [core EXCEPT !.doShutdown = TRUE]
      BY <1>3, <2>2 DEF Close
    <3>2. /\ core'.track = core.track /\ core'.pending = core.pending
          /\ core'.xml = core.xml /\ core'.closeWritten = core.closeWritten
          /\ core'.doShutdown
      BY <1>1, <3>1 DEF Cores
    <3> QED
      BY <3>1, <3>2, TrackKept
  <2> QED
    BY <2>1, <2>2
<1>4. CASE \/ (\E o \in Options : ConnectToServer(o)) \/ WriteItem \/ ReadyRead
           \/ ContinueAfterParams \/ ContinueAfterWarning \/ SaslStep
           \/ SaslNeedsParams \/ Connected \/ TLSHandshaken \/ Receive \/ Push \/ ServerEnds
           \/ Answer
  <2>1. out' = out /\ layer'.zip = layer.zip
    BY <1>1, <1>4 DEF ConnectToServer, WriteItem, ReadyRead, ContinueAfterParams,
       ContinueAfterWarning, SaslStep,
       SaslNeedsParams, Connected, TLSHandshaken, Receive, Push, ServerEnds, Answer, Layers
  <2>2. /\ core'.track = core.track /\ core'.pending = core.pending
        /\ core'.xml = core.xml /\ core'.closeWritten = core.closeWritten
        /\ core'.doShutdown = core.doShutdown
    BY <1>1, <1>4 DEF ConnectToServer, WriteItem, ReadyRead, ContinueAfterParams,
       ContinueAfterWarning, SaslStep,
       SaslNeedsParams, Connected, TLSHandshaken, Receive, Push, ServerEnds, Answer, Cores
  <2>3. cs'.state = "Closing" => cs.state = "Closing"
    BY <1>1, <1>4 DEF ConnectToServer, WriteItem, ReadyRead, ContinueAfterParams,
       ContinueAfterWarning, SaslStep, InitCs,
       SaslNeedsParams, Connected, TLSHandshaken, Receive, Push, ServerEnds, Answer, Clients
  <2> QED
    BY <2>1, <2>2, <2>3, TrackKept DEF TrackKnown
<1>5. CASE Written
  <2>1. /\ out # <<>> /\ out' = Tail(out) /\ UNCHANGED <<cs, layer>>
        /\ core' = IF layer.zip THEN core ELSE ItemWritten(core)
    BY <1>5 DEF Written
  <2>2. CASE layer.zip
    BY <2>1, <2>2 DEF TrackKnown
  <2>3. CASE ~layer.zip
    <3> DEFINE item == Head(core.track)
    <3>1. core.track \in Tracks /\ out \in Seq(Msgs) /\ core.pending \in Int
      BY <1>1 DEF TypeOK, Cores, Tracks
    <3>2. Len(core.track) = Len(out) /\ Len(out) > 0 /\ core.track # <<>>
          /\ Len(out') = Len(out) - 1
      <4>1. Len(core.track) = Len(out)
        BY <2>3 DEF TrackKnown
      <4> QED
        BY <2>1, <3>1, <4>1, SMT DEF Tracks
    <3>3. core' = [core EXCEPT !.track = Tail(@),
                     !.pending = @ - (IF item = "stanza" THEN 1 ELSE 0),
                     !.written = @ + (IF item = "stanza" THEN 1 ELSE 0),
                     !.closeWritten = @ \/ item = "close"]
      BY <2>1, <2>3, <3>2 DEF ItemWritten
    <3>4. /\ core'.track = Tail(core.track)
          /\ core'.pending = core.pending - IF item = "stanza" THEN 1 ELSE 0
          /\ core'.closeWritten = (core.closeWritten \/ item = "close")
          /\ core'.xml = core.xml /\ core'.doShutdown = core.doShutdown
      BY <1>1, <3>3 DEF Cores
    <3>5. /\ Cardinality(Places(core.track, "stanza")) =
               Cardinality(Places(core'.track, "stanza")) + IF item = "stanza" THEN 1 ELSE 0
          /\ Places(core.track, "close") # {} => item = "close" \/ Places(core'.track, "close") # {}
          /\ core'.track \in Tracks /\ Len(core'.track) = Len(core.track) - 1
      <4>1. PICK t \in Tracks, u \in Tracks : t = core.track /\ u = core'.track /\ u = Tail(t) /\ t # <<>>
        BY <3>1, <3>2, <3>4, HeadTail DEF Tracks
      <4>2. /\ Cardinality(Places(t, "stanza")) =
                 Cardinality(Places(u, "stanza")) + IF Head(t) = "stanza" THEN 1 ELSE 0
            /\ u \in Tracks /\ Len(u) = Len(t) - 1
        BY <4>1, PlacesTail
      <4>3. Places(t, "close") # {} => Head(t) = "close" \/ Places(u, "close") # {}
        BY <4>1, PlacesTail
      <4> QED
        BY <4>1, <4>2, <4>3
    <3>6. core'.pending = Cardinality(Places(core'.track, "stanza"))
      <4>1. core.pending = Cardinality(Places(core.track, "stanza"))
        BY DEF TrackKnown
      <4>2. Cardinality(Places(core'.track, "stanza")) \in Nat
        BY <3>5, PlacesFinite
      <4> QED
        BY <3>1, <3>4, <3>5, <4>1, <4>2, SMT
    <3>7. Len(core'.track) = Len(out')
      BY <3>2, <3>5
    <3> QED
      BY <2>1, <3>4, <3>5, <3>6, <3>7 DEF TrackKnown
  <2> QED
    BY <2>2, <2>3
<1> QED
  BY <1>2, <1>3, <1>4, <1>5 DEF User, Account, Sasl, Network, Server

(* Where the loop is left, something is due.                                *)
LEMMA LoopWakes ==
    ASSUME Agreement, TrackKnown, Loop
    PROVE  NoLostWakeup'
<1> USE Zenon DEF At, AtElement, InSession
<1>1. busy /\ cs.state \in {"Connecting", "Active", "Closing"} /\ cs \in Clients
  BY LoopRunsAlone DEF Loop, PeerClosed, ParseError, NeedsData, SendTagOpen, RecvTagOpen,
     CloseFinished, CloseWaits, Shutdown, StreamError, StartStep, GetFeatures, HandleFeatures,
     NoBind, Proceed, Compressed, CompressionRefused, GetSASLFirst, SASLChallenge, SASLSuccess,
     GetSASLNext, HandleSASLSuccess, Bound, HandleAuthGet, AuthFields, HandleAuthSet, AuthOk,
     Refused, TLSRefused, SASLRefused, BindRefused, AuthGetRefused, AuthSetRefused,
     StanzaSent, SendItem, StanzaReady, SessionWaits
<1>2. core \in Cores /\ layer \in Layers /\ sasl \in Sasls /\ app \in Apps /\ out \in Seq(Msgs)
  BY DEF Agreement, TypeOK
<1>3. core.step # "Done" => cs.state = "Connecting"
  BY <1>1 DEF Agreement, Agreeing, StateAgrees
<1>4. ASSUME busy'
      PROVE  NoLostWakeup'
  BY <1>4 DEF NoLostWakeup
<1>5. ASSUME cs'.state \in {"Idle", "WaitVersion", "WaitTLS", "NeedParams"}
      PROVE  NoLostWakeup'
  BY <1>5 DEF NoLostWakeup
<1>6. ASSUME cs'.state = "Connecting", sasl'.at # "none" \/ layer'.tls = "handshake" \/ core'.refused
      PROVE  NoLostWakeup'
  BY <1>6 DEF NoLostWakeup
<1>7. CASE \/ PeerClosed \/ ParseError \/ CloseFinished \/ StreamError \/ NoBind \/ Refused
  BY <1>5, <1>7, InitialState DEF PeerClosed, ParseError, CloseFinished, StreamError, NoBind,
     Refused, TLSRefused, SASLRefused, BindRefused, AuthGetRefused, AuthSetRefused, Fail,
     EndWith, Reset
<1>8. CASE \/ SendTagOpen \/ Shutdown \/ StartStep \/ Compressed \/ GetSASLFirst \/ SASLSuccess
           \/ GetSASLNext \/ HandleSASLSuccess \/ Bound \/ HandleAuthGet \/ HandleAuthSet
           \/ AuthOk \/ StanzaSent \/ SendItem \/ StanzaReady
  BY <1>4, <1>8 DEF SendTagOpen, Shutdown, StartStep, Compressed, GetSASLFirst, SASLSuccess,
     GetSASLNext, HandleSASLSuccess, Bound, HandleAuthGet, HandleAuthSet, AuthOk, StanzaSent,
     SendItem, StanzaReady, Send, LoginComplete, Continue
<1>9. ASSUME NEW f, OnFeatures(f)
      PROVE  NoLostWakeup'
  <2>1. busy' \/ cs'.state = "WaitTLS"
    BY <1>1, <1>9 DEF OnFeatures, Clients
  <2> QED
    BY <1>4, <1>5, <2>1
<1>10. CASE RecvTagOpen
  <2>1. busy' \/ cs'.state = "WaitVersion"
    BY <1>1, <1>10 DEF RecvTagOpen, Clients
  <2> QED
    BY <1>4, <1>5, <2>1
<1>11. CASE GetFeatures
  BY <1>9, <1>11 DEF GetFeatures
<1>12. CASE HandleFeatures
  <2>1. CASE sasl' = [at |-> "first", plain |-> MayUsePlain] /\ Pause({})
    <3>1. cs'.state = "Connecting" /\ sasl'.at = "first"
      BY <1>1, <1>3, <1>12, <2>1 DEF Pause, PauseAs, HandleFeatures, Clients
    <3> QED
      BY <1>6, <3>1
  <2> QED
    BY <1>4, <1>9, <1>12, <2>1 DEF HandleFeatures, Send, LoginComplete, Continue
<1>13. CASE Proceed
  <2>1. cs'.state = "Connecting" /\ layer'.tls = "handshake"
    BY <1>1, <1>2, <1>3, <1>13 DEF Proceed, PauseAs, Clients, Layers
  <2> QED
    BY <1>6, <2>1
<1>14. CASE CompressionRefused
  <2>1. cs'.state = "Connecting" /\ core'.refused
    BY <1>1, <1>2, <1>3, <1>14 DEF CompressionRefused, Clients, Cores
  <2> QED
    BY <1>6, <2>1
<1>15. CASE SASLChallenge
  <2>1. cs'.state = "Connecting" /\ sasl'.at = "next"
    BY <1>1, <1>2, <1>3, <1>15 DEF SASLChallenge, Pause, PauseAs, Clients, Sasls
  <2> QED
    BY <1>6, <2>1
<1>16. CASE AuthFields
  <2>1. cs'.state = "NeedParams"
    BY <1>1, <1>16 DEF AuthFields, PauseAs, Clients
  <2> QED
    BY <1>5, <2>1
<1>17. CASE NeedsData
  <2>1. cs.state = "Connecting"
    BY <1>1, <1>3, <1>17 DEF NeedsData, StepRequiresElement, Agreement, Agreeing, StateAgrees
  <2>2. cs'.state = "Connecting" /\ cs'.notify = {"NRecv"} /\ buf' = <<>>
    BY <1>1, <1>17, <2>1 DEF NeedsData, Pause, PauseAs, Clients, Nothing
  <2> QED
    BY <2>2 DEF NoLostWakeup
<1>18. CASE CloseWaits
  <2>1. cs'.state = "Closing" /\ cs'.notify = {"NSend"}
    BY <1>1, <1>18 DEF CloseWaits, Pause, PauseAs, Clients, Agreement, Agreeing, StateAgrees
  <2>2. ~layer.zip => out # <<>>
    <3>1. Places(core.track, "close") # {} /\ core.track \in Seq({"raw", "stanza", "ping", "close"})
      BY <1>2, <1>18 DEF CloseWaits, TrackKnown, Cores
    <3>2. Len(core.track) > 0
      BY <3>1, SMT DEF Places
    <3>3. ~layer.zip => Len(out) > 0
      BY <3>2 DEF TrackKnown
    <3> QED
      BY <1>2, <3>3, SMT
  <2>3. out' = out /\ layer' = layer /\ layer.zip \in BOOLEAN
    BY <1>2, <1>18 DEF CloseWaits, Layers
  <2> QED
    BY <2>1, <2>2, <2>3 DEF NoLostWakeup
<1>19. CASE SessionWaits
  <2>1. cs.state = "Active"
    BY <1>1, <1>19 DEF SessionWaits, TrackKnown, Agreement, Agreeing, StateAgrees
  <2>2. cs'.state = "Active" /\ cs'.notify = {"NRecv"} \cup IF core.pending > 0 THEN {"NSend"} ELSE {}
    BY <1>1, <1>19, <2>1 DEF SessionWaits, Pause, PauseAs, Clients
  <2>3. core' = core /\ core.written = 0 /\ core.sendList = <<>> /\ buf' = <<>>
    BY <1>19 DEF SessionWaits, Nothing
  <2>4. app'.in = app.in /\ (app.in > 0 => app'.timer)
    BY <1>2, <1>19 DEF SessionWaits, Pause, PauseAs, Announce, Apps
  <2> QED
    BY <2>2, <2>3, <2>4 DEF NoLostWakeup
<1> QED
  BY <1>7, <1>8, <1>10, <1>11, <1>12, <1>13, <1>14, <1>15, <1>16, <1>17, <1>18, <1>19 DEF Loop

(* Between two runs of the loop the stream does not miss what happens.      *)
LEMMA OthersWake ==
    ASSUME Agreement, Awake, User \/ Account \/ Sasl \/ Network \/ Server
    PROVE  NoLostWakeup'
<1> USE Zenon DEF Wire
<1>1. /\ cs \in Clients /\ core \in Cores /\ layer \in Layers /\ sasl \in Sasls /\ app \in Apps
      /\ out \in Seq(Msgs) /\ NoLostWakeup /\ TrackKnown
  BY DEF Agreement, TypeOK, Awake
<1>2. ASSUME busy'
      PROVE  NoLostWakeup'
  BY <1>2 DEF NoLostWakeup
<1>3. ASSUME cs'.state \in {"Idle", "WaitVersion", "WaitTLS", "NeedParams"}
      PROVE  NoLostWakeup'
  BY <1>3 DEF NoLostWakeup
<1>4. ASSUME cs'.state = "Connecting", ~bs' \/ sasl'.at # "none" \/ layer'.tls = "handshake"
      PROVE  NoLostWakeup'
  BY <1>4 DEF NoLostWakeup
<1>5. ASSUME ~busy, UNCHANGED <<cs, bs, core, layer, sasl, out, buf, app>>
      PROVE  NoLostWakeup'
  BY <1>1, <1>5 DEF NoLostWakeup
<1>6. CASE ConnectorFails \/ ConnectionClosed \/ TLSFails \/ SaslFails
  BY <1>3, <1>6, InitialState DEF ConnectorFails, ConnectionClosed, TLSFails, SaslFails, Fail,
     EndWith, Reset
<1>7. CASE Close
  BY <1>2, <1>3, <1>7, InitialState DEF Close, Reset
<1>8. CASE WriteItem \/ SaslStep \/ TLSHandshaken
  BY <1>2, <1>8 DEF WriteItem, SaslStep, TLSHandshaken
<1>9. CASE \E o \in Options : ConnectToServer(o)
  <2>1. PICK o \in Options : ConnectToServer(o)
    BY <1>9
  <2>2. cs'.state = "Connecting"
    BY <2>1 DEF ConnectToServer, InitCs
  <2>3. ~bs'
    BY <2>1 DEF ConnectToServer, Agreement, Agreeing, NothingWithoutConnection
  <2> QED
    BY <1>4, <2>2, <2>3
<1>10. CASE ContinueAfterParams
  <2>1. busy' \/ (cs'.state = "Connecting" /\ sasl'.at = "told")
    BY <1>1, <1>10 DEF ContinueAfterParams, Clients, Sasls
  <2> QED
    BY <1>2, <1>4, <2>1
<1>11. CASE ContinueAfterWarning
  <2>1. busy' \/ cs'.state = "WaitTLS"
    BY <1>1, <1>11 DEF ContinueAfterWarning, Clients
  <2> QED
    BY <1>2, <1>3, <2>1
<1>12. CASE ReadyRead
  <2>1. ~busy /\ app'.in = 0 /\ UNCHANGED <<cs, bs, core, layer, sasl, out, buf>>
    BY <1>1, <1>12 DEF ReadyRead, Apps
  <2>2. ~(app'.in > 0)
    BY <2>1, SMT
  <2> QED
    BY <1>1, <2>1, <2>2 DEF NoLostWakeup
<1>13. CASE SaslNeedsParams
  <2>1. cs'.state = "NeedParams"
    BY <1>1, <1>13 DEF SaslNeedsParams, Clients
  <2> QED
    BY <1>3, <2>1
<1>14. CASE Connected
  <2>1. busy' \/ (cs'.state = "Connecting" /\ layer'.tls = "handshake")
    BY <1>1, <1>14 DEF Connected, Clients, Layers
  <2> QED
    BY <1>2, <1>4, <2>1
<1>15. CASE Receive
  <2>1. /\ ~busy /\ UNCHANGED <<cs, bs, core, layer, sasl, out, app>>
        /\ busy' = ("NRecv" \in cs.notify)
    BY <1>15 DEF Receive
  <2> QED
    BY <1>1, <1>2, <2>1 DEF NoLostWakeup
<1>16. CASE Push \/ ServerEnds \/ Answer
  BY <1>5, <1>16 DEF Push, ServerEnds, Answer
<1>17. CASE Written
  <2>1. /\ ~busy /\ UNCHANGED <<cs, bs, layer, sasl, buf, app>>
        /\ core' = IF layer.zip THEN core ELSE ItemWritten(core)
        /\ busy' = (~layer.zip /\ "NSend" \in cs.notify)
    BY <1>17 DEF Written
  <2>2. CASE layer.zip
    BY <1>1, <2>1, <2>2 DEF NoLostWakeup
  <2>3. CASE ~layer.zip /\ "NSend" \notin cs.notify
    <3> DEFINE item == Head(core.track)
    <3>1. core'.sendList = core.sendList /\ core'.refused = core.refused
      BY <1>1, <2>1, <2>3 DEF ItemWritten, Cores
    <3>2. CASE core.track # <<>> /\ item = "stanza"
      <4>1. core.track \in Seq({"raw", "stanza", "ping", "close"}) /\ 1 \in Places(core.track, "stanza")
        BY <1>1, <3>2, SMT DEF Cores, Places
      <4>2. PICK t \in Tracks : t = core.track
        BY <4>1 DEF Tracks
      <4>3. Cardinality(Places(t, "stanza")) \in Nat /\ Cardinality(Places(t, "stanza")) # 0
        BY <4>1, <4>2, PlacesFinite
      <4>4. core.pending > 0
        BY <1>1, <4>2, <4>3, SMT DEF TrackKnown
      <4> QED
        BY <1>1, <2>1, <2>3, <3>1, <4>4 DEF NoLostWakeup
    <3>3. CASE ~(core.track # <<>> /\ item = "stanza")
      <4>1. core.written \in Nat /\ core.pending \in Int
        BY <1>1 DEF Cores
      <4>2. core'.written = core.written /\ core'.pending = core.pending
        BY <1>1, <2>1, <2>3, <3>3, <4>1, SMT DEF ItemWritten, Cores
      <4> QED
        BY <1>1, <2>1, <2>3, <3>1, <4>2 DEF NoLostWakeup
    <3> QED
      BY <3>2, <3>3
  <2> QED
    BY <1>2, <2>1, <2>2, <2>3
<1> QED
  BY <1>6, <1>7, <1>8, <1>9, <1>10, <1>11, <1>12, <1>13, <1>14, <1>15, <1>16, <1>17
     DEF User, Account, Sasl, Network, Server

LEMMA InitAwake == Init => Awake
<1> HAVE Init
<1>1. /\ core.track = <<>> /\ core.pending = 0 /\ core.xml = "SendOpen" /\ out = <<>>
      /\ cs.state = "Idle"
  BY Zenon DEF Init, InitCore, InitCs
<1> QED
  BY <1>1, NoPlaces, Zenon DEF Awake, TrackKnown, NoLostWakeup

(* Where processNext() has left off, something that is due will call it      *)
(* again: data, a written message, TLS, the SASL object or the account.     *)
THEOREM NothingLost == Spec => []NoLostWakeup
<1>1. ASSUME Agreement, Awake, [Next]_vars
      PROVE  Awake'
  <2>1. CASE Loop
    BY <1>1, <2>1, LoopTracks, LoopWakes DEF Awake
  <2>2. CASE User \/ Account \/ Sasl \/ Network \/ Server
    BY <1>1, <2>2, OthersTrack, OthersWake DEF Awake
  <2>3. CASE UNCHANGED vars
    BY <1>1, <2>3, Zenon DEF vars, Awake, TrackKnown, NoLostWakeup, Wire
  <2> QED
    BY <1>1, <2>1, <2>2, <2>3 DEF Next
<1>2. Awake => NoLostWakeup
  BY DEF Awake
<1> QED
  BY <1>1, <1>2, InitAwake, AgreementCorrect, PTL DEF Spec

=============================================================================

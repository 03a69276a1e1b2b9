----------------------------- MODULE IBBProofs -----------------------------
(***************************************************************************)
(* Proofs about IBB for every number of sessions, every packet size and    *)
(* every bound on the bytes written.                                       *)
(*                                                                         *)
(* TypeOK is inductive by itself.  NoLostWakeup is not: a connection that  *)
(* is reset or acknowledged keeps the promise only because its fields      *)
(* agree with its state (an Idle connection has nothing to send, an Active *)
(* one waits for no request), which ConnectionsOK says.                    *)
(*                                                                         *)
(* Basis is what is known of every state besides: whose the ids of the     *)
(* stanzas on the net are, and which session each connection and each      *)
(* stanza belongs to. Each action is then reduced to what it does to those *)
(* and to the history of the applications: the ...Step definitions, which  *)
(* Step joins.                                                             *)
(***************************************************************************)
EXTENDS IBB, SequenceTheorems, TLAPS

-----------------------------------------------------------------------------
(* The types of what the handlers are built from.                           *)

LEMMA SidsType == 0 \in Sids /\ 0 \in Conns /\ Conns = Sids /\ Sids \subseteq Nat
  BY IBBAssumption DEF Sids, Conns

LEMMA OtherType ==
    ASSUME NEW p \in Peers
    PROVE  Other(p) \in Peers
  BY DEF Other, Peers

LEMMA OwnerType ==
    ASSUME NEW i \in Conns
    PROVE  Owner(i) \in Peers
  BY DEF Owner, Peers

LEMMA NoTaskType == NoTask \in Tasks /\ NoTask.mode = "none"
  BY DEF NoTask, Tasks

LEMMA TaskType ==
    ASSUME NEW mode \in {"request", "data", "deleted"}, NEW id \in Nat
    PROVE  /\ Task(mode, id) \in Tasks
           /\ Task(mode, id).mode = mode
           /\ Task(mode, id) # NoTask
  BY DEF Task, Tasks, NoTask

LEMMA FreshType == Fresh \in Connections /\ ConnectionOK(Fresh)
<1>1. <<>> \in Seq(Nat)
  OBVIOUS
<1>2. Fresh \in Connections
  BY <1>1, NoTaskType, SidsType DEF Fresh, Connections, States
<1>3. ConnectionOK(Fresh)
  BY DEF Fresh, ConnectionOK, Quiet, HasWork
<1> QED
  BY <1>2, <1>3

(* Whatever is reset has nothing left to do.                                *)
LEMMA ResetType ==
    ASSUME NEW c \in Connections
    PROVE  /\ Reset(c) \in Connections /\ ConnectionOK(Reset(c))
           /\ ResetClear(c) \in Connections /\ ConnectionOK(ResetClear(c))
           /\ Reset(c).st = "Idle" /\ ResetClear(c).st = "Idle"
<1>1. <<>> \in Seq(Nat)
  OBVIOUS
<1>2. Reset(c) \in Connections
  BY <1>1, NoTaskType DEF Reset, Connections, States
<1>3. ResetClear(c) \in Connections
  BY <1>1, <1>2 DEF ResetClear, Connections
<1>4. /\ Reset(c).st = "Idle" /\ Reset(c).j = NoTask /\ Reset(c).sendbuf = <<>>
      /\ Reset(c).closePending = FALSE /\ Reset(c).closing = FALSE
  BY DEF Reset, Connections
<1>5. /\ ResetClear(c).st = "Idle" /\ ResetClear(c).j = NoTask
      /\ ResetClear(c).sendbuf = <<>>
      /\ ResetClear(c).closePending = FALSE /\ ResetClear(c).closing = FALSE
  BY <1>2, <1>4 DEF ResetClear, Connections
<1> QED
  BY <1>2, <1>3, <1>4, <1>5 DEF ConnectionOK, Quiet, HasWork

LEMMA StanzaType ==
    ASSUME NEW kind \in {"request", "data", "result", "error"}, NEW id \in Nat,
           NEW s \in Sids, NEW data \in Seq(Nat), NEW close \in BOOLEAN
    PROVE  Stanza(kind, id, s, data, close) \in Stanzas
  BY DEF Stanza, Stanzas

LEMMA AnswerType ==
    ASSUME NEW id \in Nat, NEW s \in Sids
    PROVE  Result(id, s) \in Stanzas /\ Error(id) \in Stanzas
<1>1. <<>> \in Seq(Nat) /\ 0 \in Sids
  BY SidsType
<1> QED
  BY <1>1, StanzaType DEF Result, Error, Stanza, Stanzas

(* A packet is at most a PacketSize of bytes from the send buffer, and what  *)
(* trySend() leaves in the buffer is a buffer again.                        *)
LEMMA ChunkType ==
    ASSUME NEW c \in Connections
    PROVE  /\ ChunkSize(c) \in Nat /\ ChunkSize(c) <= PacketSize
           /\ ChunkSize(c) <= Len(c.sendbuf)
           /\ Chunk(c) \in Seq(Nat)
           /\ Rest(c) \in Seq(Nat)
<1>1. c.sendbuf \in Seq(Nat) /\ Len(c.sendbuf) \in Nat
  BY DEF Connections
<1>2. /\ ChunkSize(c) \in Nat /\ ChunkSize(c) <= PacketSize
      /\ ChunkSize(c) <= Len(c.sendbuf)
  BY <1>1, IBBAssumption DEF ChunkSize
<1>3. Chunk(c) \in Seq(Nat)
  BY <1>1, <1>2, SubSeqProperties DEF Chunk
<1>4. Rest(c) \in Seq(Nat)
  BY <1>1, <1>2, SubSeqProperties DEF Rest
<1> QED
  BY <1>2, <1>3, <1>4

LEMMA PacketType ==
    ASSUME NEW c \in Connections, NEW id \in Nat
    PROVE  Packet(c, id) \in Stanzas
<1>1. c.session \in Sids /\ Chunk(c) \in Seq(Nat) /\ DoClose(c) \in BOOLEAN
  BY ChunkType DEF Connections, DoClose
<1> QED
  BY <1>1, StanzaType DEF Packet

LEMMA AfterSendType ==
    ASSUME NEW c \in Connections, NEW task \in Tasks
    PROVE  /\ AfterSend(c, task) \in Connections
           /\ AfterSend(c, task).st = c.st
           /\ AfterSend(c, task).j = task
<1>1. /\ Rest(c) \in Seq(Nat) /\ ChunkSize(c) \in Nat
      /\ DoClose(c) \in BOOLEAN
  BY ChunkType DEF DoClose
<1> QED
  BY <1>1 DEF AfterSend, Connections

-----------------------------------------------------------------------------
(* Type correctness.                                                        *)

(* The variables trySend() assigns keep their types.                        *)
LEMMA TrySendType ==
    ASSUME TypeOK, NEW i \in Conns, NEW c \in Connections, TrySend(i, c)
    PROVE  /\ conn' \in [Conns -> Connections]
           /\ net' \in [Peers -> Seq(Stanzas)]
           /\ nextId' \in [Peers -> Nat]
<1> DEFINE p == Owner(i)
           id == nextId[p]
           task == Task(IF up[p] THEN "data" ELSE "deleted", id)
<1>1. p \in Peers /\ Other(p) \in Peers /\ id \in Nat /\ id + 1 \in Nat
  BY OwnerType, OtherType DEF TypeOK
<1>2. /\ conn \in [Conns -> Connections] /\ net \in [Peers -> Seq(Stanzas)]
      /\ nextId \in [Peers -> Nat]
  BY DEF TypeOK
<1>3. AfterSend(c, task) \in Connections /\ Packet(c, id) \in Stanzas
  <2>1. task \in Tasks
    BY <1>1, TaskType
  <2> QED
    BY <1>1, <2>1, AfterSendType, PacketType
<1>4. Append(net[Other(p)], Packet(c, id)) \in Seq(Stanzas)
  BY <1>1, <1>2, <1>3
<1>5. CASE CanSend(c)
  BY <1>1, <1>2, <1>3, <1>4, <1>5 DEF TrySend
<1>6. CASE ~CanSend(c)
  BY <1>2, <1>6 DEF TrySend
<1> QED
  BY <1>5, <1>6

(* Taking the head off the stanzas for p and sending replies.               *)
LEMMA PopType ==
    ASSUME NEW p \in Peers, net \in [Peers -> Seq(Stanzas)], net[p] # <<>>,
           NEW replies \in Seq(Stanzas), Pop(p, replies)
    PROVE  net' \in [Peers -> Seq(Stanzas)]
<1>1. Tail(net[p]) \in Seq(Stanzas)
  BY HeadTailProperties
<1>2. Other(p) \in Peers /\ Other(p) # p
  BY IBBAssumption DEF Other, Peers
<1>3. net[Other(p)] \o replies \in Seq(Stanzas)
  BY <1>2, ConcatProperties
<1> QED
  BY <1>1, <1>2, <1>3 DEF Pop

LEMMA HeadType ==
    ASSUME NEW p \in Peers, net \in [Peers -> Seq(Stanzas)], net[p] # <<>>
    PROVE  /\ Head(net[p]).kind \in {"request", "data", "result", "error"}
           /\ Head(net[p]).id \in Nat
           /\ Head(net[p]).session \in Sids
           /\ Head(net[p]).data \in Seq(Nat)
           /\ Head(net[p]).close \in BOOLEAN
<1>1. Head(net[p]) \in Stanzas
  BY HeadTailProperties
<1> QED
  BY <1>1 DEF Stanzas

LEMMA EndType ==
    ASSUME NEW h \in Histories
    PROVE  /\ \A how \in Ends : [h EXCEPT !.end = how] \in Histories
           /\ \A n \in Nat : [h EXCEPT !.acked = n] \in Histories
           /\ \A bytes \in Seq(Nat) : [h EXCEPT !.got = bytes] \in Histories
           /\ [h EXCEPT !.hasty = TRUE] \in Histories
           /\ [h EXCEPT !.again = TRUE] \in Histories
<1>1. \A how \in Ends : [h EXCEPT !.end = how] \in Histories
  BY ZenonT(30) DEF Histories
<1>2. \A n \in Nat : [h EXCEPT !.acked = n] \in Histories
  BY ZenonT(30) DEF Histories
<1>3. \A bytes \in Seq(Nat) : [h EXCEPT !.got = bytes] \in Histories
  BY ZenonT(30) DEF Histories
<1>4. [h EXCEPT !.hasty = TRUE] \in Histories /\ [h EXCEPT !.again = TRUE] \in Histories
  BY ZenonT(30) DEF Histories
<1> QED
  BY <1>1, <1>2, <1>3, <1>4

(* Ending a session is well typed for any session number a connection has.  *)
LEMMA FinishType ==
    ASSUME NEW p \in Peers, NEW s, NEW how \in Ends,
           hist \in [Peers -> [Sids -> Histories]], Finish(p, s, how)
    PROVE  hist' \in [Peers -> [Sids -> Histories]]
<1>1. [hist[p] EXCEPT ![s].end = how] \in [Sids -> Histories]
  <2>1. \A t \in Sids : [hist[p][t] EXCEPT !.end = how] \in Histories
    BY EndType
  <2> QED
    BY <2>1
<1>2. hist' = [hist EXCEPT ![p] = [hist[p] EXCEPT ![s].end = how]]
  BY DEF Finish
<1> QED
  BY <1>1, <1>2

LEMMA TypeInit == Init => TypeOK
<1> SUFFICES ASSUME Init PROVE TypeOK
  OBVIOUS
<1>1. conn \in [Conns -> Connections]
  BY FreshType DEF Init
<1>2. net \in [Peers -> Seq(Stanzas)] /\ nextId \in [Peers -> Nat]
      /\ up \in [Peers -> BOOLEAN] /\ nSessions \in Sids
  BY SidsType DEF Init
<1>3. NoHistory \in Histories
  BY DEF NoHistory, Histories, Ends
<1>4. hist \in [Peers -> [Sids -> Histories]]
  BY <1>3 DEF Init
<1> QED
  BY <1>1, <1>2, <1>4 DEF TypeOK

(* What close() sends at once is a sequence of stanzas.                      *)
LEMMA CloseStanzasType ==
    ASSUME TypeOK, NEW i \in Conns
    PROVE  CloseStanzas(i) \in Seq(Stanzas)
<1>1. conn[i] \in Connections /\ nextId[Owner(i)] \in Nat /\ <<>> \in Seq(Nat)
  BY OwnerType DEF TypeOK
<1>2. Error(conn[i].iqId) \in Stanzas
  BY <1>1, AnswerType, SidsType DEF Connections
<1> DEFINE close == Stanza("data", nextId[Owner(i)], conn[i].session, <<>>, TRUE)
<1>3. close \in Stanzas
  BY <1>1, StanzaType DEF Connections
<1>4. CASE conn[i].st = "WaitingForAccept"
  BY <1>2, <1>4 DEF CloseStanzas
<1>5. CASE conn[i].st = "Active"
  <2>1. CloseStanzas(i) = <<close>>
    BY <1>5 DEF CloseStanzas
  <2> HIDE DEF close
  <2> QED
    BY <1>3, <2>1
<1>6. CASE conn[i].st \notin {"WaitingForAccept", "Active"}
  <2>1. CloseStanzas(i) = <<>>
    BY <1>6 DEF CloseStanzas
  <2> QED
    BY <2>1
<1> QED
  BY <1>4, <1>5, <1>6

(* The requester may always start over with its connection.                 *)
LEMMA RequestingType ==
    ASSUME NEW c \in Connections, NEW id \in Nat
    PROVE  LET new == [ResetClear(c) EXCEPT !.st = "Requesting", !.session = 0,
                                            !.j = Task("request", id)]
           IN  /\ new \in Connections
               /\ ConnectionOK(new)
<1> DEFINE r == ResetClear(c)
           new == [r EXCEPT !.st = "Requesting", !.session = 0,
                            !.j = Task("request", id)]
<1>1. r \in Connections /\ ConnectionOK(r) /\ r.st = "Idle"
  BY ResetType
<1>2. Task("request", id) \in Tasks /\ Task("request", id).mode = "request"
  BY TaskType
<1>3. 0 \in Sids
  BY SidsType
<1> HIDE DEF r
<1>4. new \in Connections
  BY <1>1, <1>2, <1>3 DEF Connections, States
<1>5. /\ new.st = "Requesting" /\ new.j = Task("request", id)
      /\ new.sendbuf = r.sendbuf /\ new.closePending = r.closePending
      /\ new.closing = r.closing
  BY <1>1 DEF Connections
<1>6. ConnectionOK(new)
  BY <1>1, <1>2, <1>5 DEF ConnectionOK, Quiet, HasWork
<1> QED
  BY <1>4, <1>6 DEF r

LEMMA TypeConnectToJid ==
    ASSUME TypeOK, ConnectToJid
    PROVE  TypeOK'
<1> DEFINE c == conn[0]
           lingering == c.st = "Active" /\ c.sendbuf # <<>>
           pending == [c EXCEPT !.closePending = TRUE]
           farewell == IF lingering
                       THEN IF CanSend(pending)
                            THEN <<Packet(pending, nextId[Requester])>> ELSE <<>>
                       ELSE CloseStanzas(0)
           id == nextId[Requester] + Len(farewell)
           s == nSessions + 1
           request == Stanza("request", id, s, <<>>, FALSE)
           new == [ResetClear(c) EXCEPT !.st = "Requesting", !.session = 0,
                                        !.j = Task("request", id)]
<1>1. /\ 0 \in Conns /\ Requester \in Peers /\ Acceptor \in Peers
      /\ c \in Connections /\ nextId[Requester] \in Nat
      /\ s \in Sids /\ <<>> \in Seq(Nat)
  <2>1. 0 \in Conns /\ Requester \in Peers /\ Acceptor \in Peers
    BY SidsType DEF Peers
  <2>2. nSessions < MaxSessions /\ nSessions \in Sids
    BY DEF TypeOK, ConnectToJid
  <2> QED
    BY <2>1, <2>2, IBBAssumption DEF TypeOK, Sids
<1>2. farewell \in Seq(Stanzas)
  <2>1. pending \in Connections
    BY <1>1 DEF Connections
  <2>2. Packet(pending, nextId[Requester]) \in Stanzas
    BY <1>1, <2>1, PacketType
  <2>3. CloseStanzas(0) \in Seq(Stanzas)
    BY <1>1, CloseStanzasType
  <2> QED
    BY <2>2, <2>3
<1>3. id \in Nat
  BY <1>1, <1>2, LenProperties
<1>4. request \in Stanzas
  BY <1>1, <1>3, StanzaType
<1>5. Append(farewell, request) \in Seq(Stanzas)
  BY <1>2, <1>4, AppendProperties
<1>6. net' \in [Peers -> Seq(Stanzas)]
  <2>1. net' = [net EXCEPT ![Acceptor] = @ \o Append(farewell, request)]
    BY DEF ConnectToJid
  <2>2. net[Acceptor] \o Append(farewell, request) \in Seq(Stanzas)
    BY <1>1, <1>5, ConcatProperties DEF TypeOK
  <2> QED
    BY <2>1, <2>2 DEF TypeOK
<1>7. conn' \in [Conns -> Connections]
  <2>1. new \in Connections
    BY <1>1, <1>3, RequestingType
  <2>2. conn' = [conn EXCEPT ![0] = new]
    BY DEF ConnectToJid
  <2> QED
    BY <2>1, <2>2 DEF TypeOK
<1>8. hist' \in [Peers -> [Sids -> Histories]]
  <2> DEFINE how == IF c.st = "Requesting" \/ lingering THEN "abandoned" ELSE "closed"
  <2>1. CASE c.st = "Idle"
    BY <2>1 DEF ConnectToJid, TypeOK
  <2>2. CASE c.st # "Idle"
    <3>1. Finish(Requester, nSessions, how)
      BY <2>2 DEF ConnectToJid, Finish
    <3>2. how \in Ends
      BY DEF Ends
    <3> QED
      BY <1>1, <3>1, <3>2, FinishType DEF TypeOK
  <2> QED
    BY <2>1, <2>2
<1>9. nextId' \in [Peers -> Nat] /\ up' \in [Peers -> BOOLEAN]
      /\ nSessions' \in Sids
  <2>1. id + 1 \in Nat
    BY <1>3
  <2>2. nextId' = [nextId EXCEPT ![Requester] = id + 1]
    BY DEF ConnectToJid
  <2> QED
    BY <1>1, <2>1, <2>2 DEF ConnectToJid, TypeOK
<1> QED
  BY <1>6, <1>7, <1>8, <1>9 DEF TypeOK

(* The history keeps its type when one session of one peer changes.         *)
LEMMA HistoryType ==
    ASSUME NEW p \in Peers, NEW s \in Sids, NEW h \in Histories,
           hist \in [Peers -> [Sids -> Histories]],
           hist' = [hist EXCEPT ![p][s] = h]
    PROVE  hist' \in [Peers -> [Sids -> Histories]]
<1>1. [hist[p] EXCEPT ![s] = h] \in [Sids -> Histories]
  OBVIOUS
<1>2. hist' = [hist EXCEPT ![p] = [hist[p] EXCEPT ![s] = h]]
  OBVIOUS
<1> QED
  BY <1>1, <1>2

(* The application's calls keep the types.                                  *)
LEMMA TypeApplication == TypeOK /\ Application => TypeOK'
<1> SUFFICES ASSUME TypeOK, Application PROVE TypeOK'
  OBVIOUS
<1>1. CASE ConnectToJid
  BY <1>1, TypeConnectToJid
<1>2. ASSUME NEW i \in Conns, Accept(i)
      PROVE  TypeOK'
  <2>1. conn' \in [Conns -> Connections]
    <3>1. [conn[i] EXCEPT !.st = "Active"] \in Connections
      BY DEF TypeOK, Connections, States
    <3>2. conn' = [conn EXCEPT ![i] = [conn[i] EXCEPT !.st = "Active"]]
      BY <1>2 DEF Accept, TypeOK
    <3> QED
      BY <3>1, <3>2 DEF TypeOK
  <2>2. net' \in [Peers -> Seq(Stanzas)]
    <3>1. conn[i].iqId \in Nat /\ conn[i].session \in Sids
      BY DEF TypeOK, Connections
    <3>2. Append(net[Requester], Result(conn[i].iqId, conn[i].session)) \in Seq(Stanzas)
      BY <3>1, AnswerType, AppendProperties DEF TypeOK, Peers
    <3> QED
      BY <1>2, <3>2 DEF Accept, TypeOK
  <2> QED
    BY <1>2, <2>1, <2>2 DEF Accept, TypeOK
<1>3. ASSUME NEW i \in Conns, ClosePend(i)
      PROVE  TypeOK'
  <2>1. [conn[i] EXCEPT !.closePending = TRUE] \in Connections
    BY DEF TypeOK, Connections
  <2>2. hist' \in [Peers -> [Sids -> Histories]]
    <3> DEFINE p == Owner(i)
               s == conn[i].session
    <3>1. p \in Peers /\ s \in Sids /\ hist[p][s] \in Histories
      BY OwnerType DEF TypeOK, Connections
    <3>2. [hist[p][s] EXCEPT !.hasty = TRUE] \in Histories
      BY <3>1, EndType
    <3>3. hist' = hist \/ hist' = [hist EXCEPT ![p][s] = [hist[p][s] EXCEPT !.hasty = TRUE]]
      BY <1>3, <3>1 DEF ClosePend, TypeOK
    <3> QED
      BY <3>1, <3>2, <3>3, HistoryType DEF TypeOK
  <2> QED
    BY <1>3, <2>1, <2>2, TrySendType DEF ClosePend, TypeOK
<1>4. ASSUME NEW i \in Conns, CloseNow(i)
      PROVE  TypeOK'
  <2> DEFINE c == conn[i]
             p == Owner(i)
             s == SessionOf(i)
             how == IF c.st = "WaitingForAccept" THEN "refused"
                    ELSE IF c.st = "Requesting" THEN "abandoned" ELSE "closed"
  <2>1. p \in Peers /\ Other(p) \in Peers /\ c \in Connections
    BY OwnerType, OtherType DEF TypeOK
  <2>2. conn' \in [Conns -> Connections]
    BY <1>4, <2>1, ResetType DEF CloseNow, TypeOK
  <2>3. net' \in [Peers -> Seq(Stanzas)]
    <3>1. net[Other(p)] \o CloseStanzas(i) \in Seq(Stanzas)
      BY <2>1, CloseStanzasType, ConcatProperties DEF TypeOK
    <3> QED
      BY <1>4, <2>1, <3>1 DEF CloseNow, TypeOK
  <2>4. nextId' \in [Peers -> Nat]
    BY <1>4, <2>1 DEF CloseNow, TypeOK
  <2>5. hist' \in [Peers -> [Sids -> Histories]]
    <3>1. Finish(p, s, how)
      BY <1>4 DEF CloseNow
    <3>2. how \in Ends
      BY DEF Ends
    <3> QED
      BY <2>1, <3>1, <3>2, FinishType DEF TypeOK
  <2> QED
    BY <1>4, <2>2, <2>3, <2>4, <2>5 DEF CloseNow, TypeOK
<1>5. ASSUME NEW i \in Conns, DropIncoming(i)
      PROVE  TypeOK'
  <2>1. conn' \in [Conns -> Connections]
    BY <1>5, ResetType DEF DropIncoming, TypeOK
  <2>2. hist' \in [Peers -> [Sids -> Histories]]
    BY <1>5, FinishType DEF DropIncoming, TypeOK, Peers, Ends
  <2> QED
    BY <1>5, <2>1, <2>2 DEF DropIncoming, TypeOK
<1>6. ASSUME NEW i \in Conns, NEW n \in 1..MaxBytes[Owner(i)], Write(i, n)
      PROVE  TypeOK'
  <2> DEFINE c == conn[i]
             p == Owner(i)
             s == c.session
             bytes == [b \in 1..n |-> Len(hist[p][s].sent) + b]
             h == [hist[p][s] EXCEPT !.sent = @ \o bytes]
  <2>1. p \in Peers /\ c \in Connections /\ n \in Nat
    BY OwnerType, IBBAssumption DEF TypeOK, Peers
  <2>2. s \in Sids /\ hist[p][s] \in Histories
    BY <2>1 DEF Connections, TypeOK
  <2>3. Len(hist[p][s].sent) \in Nat /\ hist[p][s].sent \in Seq(Nat)
    BY <2>2 DEF Histories
  <2>4. bytes \in Seq(Nat)
    BY <2>1, <2>3, SMTT(30)
  <2>5. hist[p][s].sent \o bytes \in Seq(Nat)
    BY <2>3, <2>4, ConcatProperties
  <2>6. /\ TrySend(i, [c EXCEPT !.sendbuf = @ \o bytes])
        /\ hist' = [hist EXCEPT ![p][s] = h]
    BY <1>6, <2>1, <2>2 DEF Write, TypeOK
  <2> HIDE DEF bytes
  <2>7. [c EXCEPT !.sendbuf = @ \o bytes] \in Connections
    BY <2>1, <2>4, ConcatProperties DEF Connections
  <2>8. h \in Histories
    BY <2>2, <2>5 DEF Histories
  <2>9. hist' \in [Peers -> [Sids -> Histories]]
    BY <2>1, <2>2, <2>6, <2>8, HistoryType DEF TypeOK
  <2> QED
    BY <1>6, <2>6, <2>7, <2>9, TrySendType DEF Write, TypeOK
<1>7. ASSUME NEW i \in Conns, Read(i)
      PROVE  TypeOK'
  <2>1. [conn[i] EXCEPT !.recvbuf = <<>>] \in Connections
    <3>1. <<>> \in Seq(Nat)
      OBVIOUS
    <3> QED
      BY <3>1 DEF TypeOK, Connections
  <2>2. conn' = [conn EXCEPT ![i] = [conn[i] EXCEPT !.recvbuf = <<>>]]
    BY <1>7 DEF Read, TypeOK
  <2> QED
    BY <1>7, <2>1, <2>2 DEF Read, TypeOK
<1> QED
  BY <1>1, <1>2, <1>3, <1>4, <1>5, <1>6, <1>7 DEF Application

(* An empty or a one-stanza reply.                                          *)
LEMMA RepliesType ==
    /\ <<>> \in Seq(Stanzas)
    /\ \A m \in Stanzas : <<m>> \in Seq(Stanzas)
  OBVIOUS

LEMMA AfterAckType ==
    ASSUME NEW c \in Connections
    PROVE  AfterAck(c) \in Connections
<1>1. CASE Completed(c)
  BY <1>1, ResetType DEF AfterAck
<1>2. CASE ~Completed(c)
  <2>1. (c.timer \/ HasWork(c)) \in BOOLEAN
    BY DEF HasWork
  <2>2. AfterAck(c) = [c EXCEPT !.timer = @ \/ HasWork(c)]
    BY <1>2 DEF AfterAck
  <2> QED
    BY <2>1, <2>2 DEF Connections
<1> QED
  BY <1>1, <1>2

(* Stanzas that arrive keep the types.                                      *)
LEMMA TypeReceive ==
    ASSUME TypeOK, NEW p \in Peers, Receive(p)
    PROVE  TypeOK'
<1> DEFINE m == Head(net[p])
<1>1. /\ net \in [Peers -> Seq(Stanzas)] /\ conn \in [Conns -> Connections]
      /\ hist \in [Peers -> [Sids -> Histories]]
  BY DEF TypeOK
<1>2. net[p] # <<>>
  BY DEF Receive, RecvRequest, RecvData, RecvNoStream, RecvAccepted, RecvAck,
         RecvError, RecvStale, Bounce, Arrives
<1>3. /\ m.id \in Nat /\ m.session \in Sids /\ m.data \in Seq(Nat)
      /\ m.close \in BOOLEAN
  BY <1>1, <1>2, HeadType
<1>4. Result(m.id, 0) \in Stanzas /\ Error(m.id) \in Stanzas
  BY <1>3, AnswerType, SidsType
<1> HIDE DEF m
<1>5. ASSUME NEW replies \in {<<>>, <<Result(m.id, 0)>>, <<Error(m.id)>>},
             Pop(p, replies)
      PROVE  net' \in [Peers -> Seq(Stanzas)]
  <2>1. replies \in Seq(Stanzas)
    BY <1>4, <1>5, RepliesType
  <2> QED
    BY <1>1, <1>2, <1>5, <2>1, PopType
<1>6. CASE p = Acceptor /\ RecvRequest
  <2>1. [Fresh EXCEPT !.st = "WaitingForAccept", !.session = m.session,
                      !.iqId = m.id] \in Connections
    BY <1>3, FreshType DEF Connections, States
  <2>2. conn' = [conn EXCEPT ![m.session] =
           [Fresh EXCEPT !.st = "WaitingForAccept", !.session = m.session,
                         !.iqId = m.id]]
    BY <1>6 DEF RecvRequest, m
  <2>3. net' \in [Peers -> Seq(Stanzas)]
    BY <1>5, <1>6 DEF RecvRequest
  <2> QED
    BY <1>1, <1>6, <2>1, <2>2, <2>3, ZenonT(30) DEF RecvRequest, TypeOK
<1>7. CASE RecvData(p)
  <2>1. conn' \in [Conns -> Connections]
    <3> DEFINE e == IF m.close THEN "readyRead" ELSE "none"
    <3>1. PICK i \in Found(p, m.session) :
             conn' = [conn EXCEPT ![i].recvbuf = @ \o m.data, ![i].emits = e]
      BY <1>7 DEF RecvData, m
    <3>2. i \in Conns /\ conn[i] \in Connections
      BY <1>1 DEF Found, ConnsOf
    <3>3. e \in {"none", "bytesWritten", "readyRead"}
      OBVIOUS
    <3>4. conn[i].recvbuf \o m.data \in Seq(Nat)
      BY <1>3, <3>2, ConcatProperties DEF Connections
    <3> HIDE DEF e
    <3>5. [conn[i] EXCEPT !.recvbuf = @ \o m.data, !.emits = e] \in Connections
      BY <3>2, <3>3, <3>4 DEF Connections
    <3>6. conn' = [conn EXCEPT ![i] = [conn[i] EXCEPT !.recvbuf = @ \o m.data, !.emits = e]]
      BY <1>1, <3>1, <3>2
    <3> QED
      BY <1>1, <3>2, <3>5, <3>6
  <2>2. hist' \in [Peers -> [Sids -> Histories]]
    <3> DEFINE h == [hist[p][m.session] EXCEPT !.got = @ \o m.data]
    <3>1. hist[p][m.session] \in Histories
      BY <1>1, <1>3
    <3>2. h \in Histories
      <4>1. hist[p][m.session].got \o m.data \in Seq(Nat)
        BY <1>3, <3>1, ConcatProperties DEF Histories
      <4> QED
        BY <3>1, <4>1, EndType
    <3>3. hist' = [hist EXCEPT ![p][m.session] = h]
      BY <1>1, <1>3, <1>7 DEF RecvData, m
    <3> QED
      BY <1>1, <1>3, <3>2, <3>3, HistoryType
  <2>3. net' \in [Peers -> Seq(Stanzas)]
    BY <1>5, <1>7 DEF RecvData, m
  <2> QED
    BY <1>7, <2>1, <2>2, <2>3 DEF RecvData, TypeOK
<1>8. CASE RecvNoStream(p)
  <2>1. net' \in [Peers -> Seq(Stanzas)]
    BY <1>5, <1>8 DEF RecvNoStream, m
  <2> QED
    BY <1>8, <2>1 DEF RecvNoStream, TypeOK
<1>9. CASE RecvAccepted(p)
  <2>1. PICK i \in Awaiting(p, m.id, "request") :
           conn' = [conn EXCEPT ![i].st = "Active", ![i].j = NoTask,
                                ![i].session = m.session]
    BY <1>9 DEF RecvAccepted, m
  <2>2. i \in Conns
    BY DEF Awaiting, ConnsOf
  <2>3. [conn[i] EXCEPT !.st = "Active", !.j = NoTask, !.session = m.session]
           \in Connections
    BY <1>1, <1>3, <2>2, NoTaskType DEF Connections, States
  <2>4. conn' \in [Conns -> Connections]
    BY <1>1, <2>1, <2>2, <2>3
  <2>5. net' \in [Peers -> Seq(Stanzas)]
    BY <1>5, <1>9 DEF RecvAccepted
  <2> QED
    BY <1>9, <2>4, <2>5 DEF RecvAccepted, TypeOK
<1>10. CASE RecvAck(p)
  <2>1. PICK i \in Awaiting(p, m.id, "data") :
           /\ conn' = [conn EXCEPT ![i].j = NoTask, ![i].emits = "bytesWritten"]
           /\ hist' = [hist EXCEPT ![p][conn[i].session].acked = @ + conn[i].blockSize]
    BY <1>10 DEF RecvAck, m
  <2> DEFINE c == conn[i]
             d == [c EXCEPT !.j = NoTask, !.emits = "bytesWritten"]
             h == [hist[p][c.session] EXCEPT !.acked = @ + c.blockSize]
  <2>2. i \in Conns /\ c \in Connections /\ c.session \in Sids /\ c.blockSize \in Nat
    BY <1>1 DEF Awaiting, ConnsOf, Connections
  <2>3. conn' \in [Conns -> Connections]
    <3>1. d \in Connections
      BY <2>2, NoTaskType DEF Connections
    <3>2. conn' = [conn EXCEPT ![i] = d]
      BY <1>1, <2>1, <2>2
    <3> QED
      BY <1>1, <2>2, <3>1, <3>2
  <2>4. h \in Histories
    <3>1. hist[p][c.session] \in Histories
      BY <1>1, <2>2
    <3>2. hist[p][c.session].acked + c.blockSize \in Nat
      BY <2>2, <3>1 DEF Histories
    <3> QED
      BY <3>1, <3>2, EndType
  <2>5. hist' = [hist EXCEPT ![p][c.session] = h]
    BY <1>1, <2>1, <2>2
  <2>6. hist' \in [Peers -> [Sids -> Histories]]
    BY <1>1, <2>2, <2>4, <2>5, HistoryType
  <2>7. net' \in [Peers -> Seq(Stanzas)]
    BY <1>5, <1>10 DEF RecvAck
  <2> QED
    BY <1>10, <2>3, <2>6, <2>7 DEF RecvAck, TypeOK
<1>11. CASE RecvError(p)
  <2>1. PICK i \in Awaiting(p, m.id, "request") \cup Awaiting(p, m.id, "data") :
           /\ conn' = [conn EXCEPT ![i] = ResetClear(conn[i])]
           /\ IF conn[i].j.mode = "request"
              THEN Finish(p, nSessions, "ErrRequest")
              ELSE Finish(p, conn[i].session, "ErrData")
    BY <1>11 DEF RecvError, m
  <2>2. i \in Conns
    BY DEF Awaiting, ConnsOf
  <2>3. conn' \in [Conns -> Connections]
    BY <1>1, <2>1, <2>2, ResetType
  <2>4. hist' \in [Peers -> [Sids -> Histories]]
    BY <1>1, <2>1, FinishType DEF Ends
  <2>5. net' \in [Peers -> Seq(Stanzas)]
    BY <1>5, <1>11 DEF RecvError
  <2> QED
    BY <1>11, <2>3, <2>4, <2>5 DEF RecvError, TypeOK
<1>12. CASE RecvStale(p)
  <2>1. net' \in [Peers -> Seq(Stanzas)]
    BY <1>5, <1>12 DEF RecvStale
  <2> QED
    BY <1>12, <2>1 DEF RecvStale, TypeOK
<1>13. CASE Bounce(p)
  <2>1. net' \in [Peers -> Seq(Stanzas)]
    BY <1>5, <1>13 DEF Bounce, m
  <2> QED
    BY <1>13, <2>1 DEF Bounce, TypeOK
<1> QED
  BY <1>6, <1>7, <1>8, <1>9, <1>10, <1>11, <1>12, <1>13 DEF Receive

LEMMA TypeGoOffline ==
    ASSUME TypeOK, NEW p \in Peers, GoOffline(p)
    PROVE  TypeOK'
<1>1. conn' \in [Conns -> Connections]
  BY ResetType DEF GoOffline, TypeOK
<1>2. hist' \in [Peers -> [Sids -> Histories]]
  <2> DEFINE new == [s \in Sids |->
           IF \E i \in ConnsOf(p) : conn[i].j.mode = "data" /\ conn[i].session = s
           THEN [hist[p][s] EXCEPT !.end = "ErrData"]
           ELSE IF p = Requester /\ conn[0].j.mode = "request" /\ s = nSessions
                THEN [hist[p][s] EXCEPT !.end = "ErrRequest"]
                ELSE hist[p][s]]
  <2>1. hist[p] \in [Sids -> Histories] /\ "ErrData" \in Ends /\ "ErrRequest" \in Ends
    BY DEF TypeOK, Ends
  <2>2. \A s \in Sids : \A how \in Ends : [hist[p][s] EXCEPT !.end = how] \in Histories
    BY <2>1, EndType
  <2>3. new \in [Sids -> Histories]
    BY <2>1, <2>2
  <2>4. hist' = [hist EXCEPT ![p] = new]
    BY DEF GoOffline, TypeOK
  <2> HIDE DEF new
  <2> QED
    BY <2>3, <2>4 DEF TypeOK
<1> QED
  BY <1>1, <1>2 DEF GoOffline, TypeOK

LEMMA TypeTimerFires ==
    ASSUME TypeOK, NEW i \in Conns, TimerFires(i)
    PROVE  TypeOK'
<1>1. [conn[i] EXCEPT !.timer = FALSE] \in Connections
  BY DEF TypeOK, Connections
<1> QED
  BY <1>1, TrySendType DEF TimerFires, TypeOK

LEMMA SessionOfType ==
    ASSUME TypeOK, NEW i \in Conns
    PROVE  SessionOf(i) \in Sids
  BY SidsType DEF SessionOf, TypeOK

(* A handler that returns, and what it leaves to be done.                   *)
LEMMA TypeReturn ==
    ASSUME TypeOK, NEW i \in Conns, Return(i)
    PROVE  TypeOK'
<1>1. /\ conn[i] \in Connections /\ Owner(i) \in Peers /\ SessionOf(i) \in Sids
      /\ hist \in [Peers -> [Sids -> Histories]]
      /\ {"connectionClosed", "undone", "delayedCloseFinished"} \subseteq Ends
  BY OwnerType, SessionOfType DEF TypeOK, Ends
<1>2. \A c \in Connections : [c EXCEPT !.emits = "none"] \in Connections
  BY DEF Connections
<1>3. conn' \in [Conns -> Connections]
  <2>1. Reset(conn[i]) \in Connections /\ AfterAck(conn[i]) \in Connections
    BY <1>1, ResetType, AfterAckType
  <2>2. \/ conn' = [conn EXCEPT ![i] = [Reset(conn[i]) EXCEPT !.emits = "none"]]
        \/ conn' = [conn EXCEPT ![i] = [AfterAck(conn[i]) EXCEPT !.emits = "none"]]
    BY DEF Return, ReadyReadReturns, BytesWrittenReturns
  <2> QED
    BY <1>2, <2>1, <2>2 DEF TypeOK
<1>4. hist' \in [Peers -> [Sids -> Histories]]
  <2> DEFINE p == Owner(i)
             s == SessionOf(i)
  <2>1. [hist[p][s] EXCEPT !.again = TRUE] \in Histories
    BY <1>1, EndType
  <2>2. \/ \E t : \E how \in Ends : Finish(p, t, how)
        \/ hist' = [hist EXCEPT ![p][s] = [hist[p][s] EXCEPT !.again = TRUE]]
        \/ hist' = hist
    BY <1>1 DEF Return, ReadyReadReturns, BytesWrittenReturns
  <2> QED
    BY <1>1, <2>1, <2>2, FinishType, HistoryType
<1> QED
  BY <1>3, <1>4 DEF Return, ReadyReadReturns, BytesWrittenReturns, TypeOK

LEMMA TypeStep == TypeOK /\ [Next]_vars => TypeOK'
<1> SUFFICES ASSUME TypeOK, [Next]_vars PROVE TypeOK'
  OBVIOUS
<1>1. CASE UNCHANGED vars
  BY <1>1 DEF TypeOK, vars
<1> QED
  BY <1>1, TypeApplication, TypeTimerFires, TypeReturn, TypeReceive, TypeGoOffline DEF Next

(* The variables keep their types in every behaviour of the specification.  *)
THEOREM TypeCorrect == Spec => []TypeOK
  BY TypeInit, TypeStep, PTL DEF Spec

-----------------------------------------------------------------------------
(* No lost wakeup.                                                          *)

(* trySend() keeps the fields in order when it is handed any connection     *)
(* whose state and task agree, even one with bytes to send and nobody to    *)
(* wake it: that is what its caller relies on.                              *)
LEMMA TrySendOK ==
    ASSUME TypeOK, ConnectionsOK, NEW i \in Conns, NEW c \in Connections,
           c.st \in {"Idle", "WaitingForAccept"} => c.j = NoTask /\ Quiet(c),
           c.st = "Requesting" => c.j.mode = "request" /\ Quiet(c),
           c.st = "Active" => c.j.mode # "request",
           TrySend(i, c)
    PROVE  ConnectionsOK'
<1> DEFINE mode == IF up[Owner(i)] THEN "data" ELSE "deleted"
           task == Task(mode, nextId[Owner(i)])
<1>1. nextId[Owner(i)] \in Nat /\ conn \in [Conns -> Connections]
  BY OwnerType DEF TypeOK
<1>2. CASE CanSend(c)
  <2>1. task \in Tasks /\ task.mode # "request" /\ task # NoTask
    BY <1>1, TaskType
  <2> HIDE DEF task
  <2>2. AfterSend(c, task).st = c.st /\ AfterSend(c, task).j = task
    BY <2>1, AfterSendType
  <2>3. ConnectionOK(AfterSend(c, task))
    <3>1. c.st = "Active"
      BY <1>2 DEF CanSend, HasWork, Quiet, Connections, States
    <3> QED
      BY <2>1, <2>2, <3>1 DEF ConnectionOK
  <2>4. conn' = [conn EXCEPT ![i] = AfterSend(c, task)]
    BY <1>2 DEF TrySend, task
  <2> QED
    BY <1>1, <2>3, <2>4 DEF ConnectionsOK
<1>3. CASE ~CanSend(c)
  <2>1. ConnectionOK(c)
    BY <1>3 DEF ConnectionOK, CanSend
  <2>2. conn' = [conn EXCEPT ![i] = c]
    BY <1>3 DEF TrySend
  <2> QED
    BY <1>1, <2>1, <2>2 DEF ConnectionsOK
<1> QED
  BY <1>2, <1>3

(* A connection that is given other bytes received, or whose application    *)
(* has something to handle, is as good as before.                           *)
LEMMA RecvbufOK ==
    ASSUME NEW c \in Connections, NEW bytes \in Seq(Nat),
           NEW e \in {"none", "bytesWritten", "readyRead"},
           c.emits = "bytesWritten" => e = "bytesWritten"
    PROVE  LET d == [c EXCEPT !.recvbuf = bytes, !.emits = e]
           IN  d \in Connections /\ (ConnectionOK(c) => ConnectionOK(d))
<1> DEFINE d == [c EXCEPT !.recvbuf = bytes, !.emits = e]
<1>1. d \in Connections
  BY DEF Connections
<1>2. /\ d.st = c.st /\ d.j = c.j /\ d.sendbuf = c.sendbuf /\ d.timer = c.timer
      /\ d.closePending = c.closePending /\ d.closing = c.closing /\ d.emits = e
  BY DEF Connections
<1>3. HasWork(d) = HasWork(c) /\ Quiet(d) = Quiet(c)
  BY <1>2 DEF HasWork, Quiet
<1> QED
  BY <1>1, <1>2, <1>3 DEF ConnectionOK

(* One connection changes, for one whose fields are in order.               *)
LEMMA OneConnectionOK ==
    ASSUME TypeOK, ConnectionsOK, NEW i, NEW c, ConnectionOK(c),
           conn' = [conn EXCEPT ![i] = c]
    PROVE  ConnectionsOK'
  BY DEF TypeOK, ConnectionsOK

(* What the rest of a handler does to the fields that were left to it.      *)
LEMMA HandlerDone ==
    ASSUME NEW c \in Connections, c.st = "Idle" \/ ~HasWork(c) \/ c.timer, ConnectionOK(c)
    PROVE  ConnectionOK([c EXCEPT !.emits = "none"])
<1> DEFINE d == [c EXCEPT !.emits = "none"]
<1>1. /\ d.st = c.st /\ d.j = c.j /\ d.sendbuf = c.sendbuf /\ d.timer = c.timer
      /\ d.closePending = c.closePending /\ d.closing = c.closing
  BY DEF Connections
<1>2. HasWork(d) = HasWork(c) /\ Quiet(d) = Quiet(c)
  BY <1>1 DEF HasWork, Quiet
<1> QED
  BY <1>1, <1>2 DEF ConnectionOK, Quiet

LEMMA AfterAckOK ==
    ASSUME NEW c \in Connections, ConnectionOK(c)
    PROVE  ConnectionOK([AfterAck(c) EXCEPT !.emits = "none"])
<1>1. AfterAck(c) \in Connections
  BY AfterAckType
<1>2. CASE Completed(c)
  <2>1. AfterAck(c) = Reset(c)
    BY <1>2 DEF AfterAck
  <2> QED
    BY <1>1, <2>1, ResetType, HandlerDone
<1>3. CASE ~Completed(c)
  <2> DEFINE timer == c.timer \/ HasWork(c)
             d == [c EXCEPT !.timer = timer]
  <2>1. AfterAck(c) = d /\ c.timer \in BOOLEAN
    BY <1>3 DEF AfterAck, Connections
  <2>2. /\ d.st = c.st /\ d.j = c.j /\ d.sendbuf = c.sendbuf /\ d.timer = timer
        /\ d.closePending = c.closePending /\ d.closing = c.closing
    BY DEF Connections
  <2>3. HasWork(d) = HasWork(c) /\ Quiet(d) = Quiet(c)
    BY <2>2 DEF HasWork, Quiet
  <2>4. ConnectionOK(d) /\ (HasWork(d) => d.timer)
    BY <2>2, <2>3 DEF ConnectionOK
  <2> HIDE DEF d
  <2> QED
    BY <1>1, <2>1, <2>4, HandlerDone
<1> QED
  BY <1>2, <1>3

LEMMA ConnectionsInit == Init => ConnectionsOK
  BY FreshType DEF Init, ConnectionsOK

(* The application's calls keep the connections in order.                   *)
LEMMA ConnectionsApplication == TypeOK /\ ConnectionsOK /\ Application => ConnectionsOK'
<1> SUFFICES ASSUME TypeOK, ConnectionsOK, Application PROVE ConnectionsOK'
  OBVIOUS
<1>1. CASE ConnectToJid
  <2> DEFINE new(id) == [ResetClear(conn[0]) EXCEPT
                           !.st = "Requesting", !.session = 0,
                           !.j = Task("request", id)]
  <2>1. PICK id \in Nat : conn' = [conn EXCEPT ![0] = new(id)]
    <3> DEFINE c == conn[0]
               lingering == c.st = "Active" /\ c.sendbuf # <<>>
               pending == [c EXCEPT !.closePending = TRUE]
               farewell == IF lingering
                           THEN IF CanSend(pending)
                                THEN <<Packet(pending, nextId[Requester])>> ELSE <<>>
                           ELSE CloseStanzas(0)
    <3>1. farewell \in Seq(Stanzas) \/ ~lingering
      <4>1. c \in Connections /\ nextId[Requester] \in Nat
        BY SidsType DEF TypeOK, Peers
      <4>2. pending \in Connections
        BY <4>1 DEF Connections
      <4>3. Packet(pending, nextId[Requester]) \in Stanzas
        BY <4>1, <4>2, PacketType
      <4> QED
        BY <4>3
    <3>2. farewell \in Seq(Stanzas)
      BY <3>1, CloseStanzasType, SidsType
    <3>3. nextId[Requester] + Len(farewell) \in Nat
      BY <3>2, LenProperties DEF TypeOK, Peers
    <3> QED
      BY <1>1, <3>3 DEF ConnectToJid
  <2>2. ConnectionOK(new(id))
    BY RequestingType, SidsType DEF TypeOK
  <2> QED
    BY <2>1, <2>2, OneConnectionOK
<1>2. ASSUME NEW i \in Conns, Accept(i)
      PROVE  ConnectionsOK'
  <2> DEFINE c == conn[i]
             d == [c EXCEPT !.st = "Active"]
  <2>1. c \in Connections /\ ConnectionOK(c) /\ c.st = "WaitingForAccept"
    BY <1>2 DEF TypeOK, ConnectionsOK, Accept
  <2>2. /\ d.st = "Active" /\ d.j = c.j /\ d.sendbuf = c.sendbuf
        /\ d.closePending = c.closePending
    BY <2>1 DEF Connections
  <2>3. ConnectionOK(d)
    BY <2>1, <2>2, NoTaskType DEF ConnectionOK, Quiet, HasWork
  <2>4. conn' = [conn EXCEPT ![i] = d]
    BY <1>2 DEF Accept, TypeOK
  <2> QED
    BY <2>3, <2>4, OneConnectionOK
<1>3. ASSUME NEW i \in Conns, ClosePend(i)
      PROVE  ConnectionsOK'
  <2> DEFINE d == [conn[i] EXCEPT !.closePending = TRUE]
  <2>1. conn[i] \in Connections /\ ConnectionOK(conn[i]) /\ conn[i].st = "Active"
    BY <1>3 DEF TypeOK, ConnectionsOK, ClosePend
  <2>2. d \in Connections /\ d.st = "Active" /\ d.j = conn[i].j /\ TrySend(i, d)
    BY <1>3, <2>1 DEF Connections, ClosePend
  <2>3. d.j.mode # "request"
    BY <2>1, <2>2 DEF ConnectionOK
  <2> HIDE DEF d
  <2> QED
    BY <2>2, <2>3, TrySendOK
<1>4. ASSUME NEW i \in Conns, CloseNow(i)
      PROVE  ConnectionsOK'
  BY <1>4, ResetType, OneConnectionOK DEF CloseNow, TypeOK
<1>5. ASSUME NEW i \in Conns, DropIncoming(i)
      PROVE  ConnectionsOK'
  BY <1>5, ResetType, OneConnectionOK DEF DropIncoming, TypeOK
<1>6. ASSUME NEW i \in Conns, NEW n \in 1..MaxBytes[Owner(i)], Write(i, n)
      PROVE  ConnectionsOK'
  <2> DEFINE c == conn[i]
             bytes == [b \in 1..n |-> Len(hist[Owner(i)][c.session].sent) + b]
             d == [c EXCEPT !.sendbuf = @ \o bytes]
  <2>1. c \in Connections /\ ConnectionOK(c) /\ c.st = "Active"
    BY <1>6 DEF TypeOK, ConnectionsOK, Write
  <2>2. bytes \in Seq(Nat)
    <3>1. hist[Owner(i)][c.session] \in Histories /\ n \in Nat
      BY <2>1, OwnerType DEF Connections, TypeOK
    <3>2. Len(hist[Owner(i)][c.session].sent) \in Nat
      BY <3>1 DEF Histories
    <3> QED
      BY <3>1, <3>2, SMTT(30)
  <2>3. TrySend(i, d)
    BY <1>6 DEF Write
  <2> HIDE DEF bytes
  <2>4. d \in Connections /\ d.st = "Active" /\ d.j = c.j
    BY <2>1, <2>2, ConcatProperties DEF Connections
  <2>5. d.j.mode # "request"
    BY <2>1, <2>4 DEF ConnectionOK
  <2> HIDE DEF d
  <2> QED
    BY <2>3, <2>4, <2>5, TrySendOK
<1>7. ASSUME NEW i \in Conns, Read(i)
      PROVE  ConnectionsOK'
  <2> DEFINE d == [conn[i] EXCEPT !.recvbuf = <<>>, !.emits = conn[i].emits]
  <2>1. conn[i] \in Connections /\ ConnectionOK(conn[i]) /\ <<>> \in Seq(Nat)
        /\ conn[i].emits \in {"none", "bytesWritten", "readyRead"}
    BY DEF TypeOK, ConnectionsOK, Connections
  <2>2. ConnectionOK(d)
    BY <2>1, RecvbufOK
  <2>3. conn' = [conn EXCEPT ![i] = d]
    <3>1. d = [conn[i] EXCEPT !.recvbuf = <<>>]
      BY <2>1 DEF Connections
    <3> QED
      BY <1>7, <3>1 DEF Read, TypeOK
  <2> QED
    BY <2>2, <2>3, OneConnectionOK
<1> QED
  BY <1>1, <1>2, <1>3, <1>4, <1>5, <1>6, <1>7 DEF Application

(* So do the stanzas that arrive.                                           *)
LEMMA ConnectionsReceive ==
    ASSUME TypeOK, ConnectionsOK, NEW p \in Peers, Receive(p)
    PROVE  ConnectionsOK'
<1> DEFINE m == Head(net[p])
<1>1. \A i \in Conns : conn[i] \in Connections /\ ConnectionOK(conn[i])
  BY DEF TypeOK, ConnectionsOK
<1>2. m.id \in Nat /\ m.session \in Sids /\ m.data \in Seq(Nat)
  <2>1. net[p] # <<>>
    BY DEF Receive, RecvRequest, RecvData, RecvNoStream, RecvAccepted, RecvAck,
           RecvError, RecvStale, Bounce, Arrives
  <2> QED
    BY <2>1, HeadType DEF TypeOK
<1> HIDE DEF m
<1>3. \A mode \in {"request", "data"} : \A i \in Awaiting(p, m.id, mode) :
          i \in Conns /\ conn[i].j.mode = mode /\ conn[i].j # NoTask
  BY <1>2, TaskType DEF Awaiting, ConnsOf
<1>4. CASE p = Acceptor /\ RecvRequest
  <2> DEFINE d == [Fresh EXCEPT !.st = "WaitingForAccept", !.session = m.session,
                                !.iqId = m.id]
  <2>1. /\ d.st = "WaitingForAccept" /\ d.j = NoTask /\ d.sendbuf = <<>>
        /\ d.closePending = FALSE /\ d.closing = FALSE
    BY DEF Fresh
  <2>2. ConnectionOK(d)
    BY <2>1 DEF ConnectionOK, Quiet, HasWork
  <2>3. conn' = [conn EXCEPT ![m.session] = d]
    BY <1>4 DEF RecvRequest, m
  <2> QED
    BY <2>2, <2>3, OneConnectionOK
<1>5. CASE RecvData(p)
  <2> DEFINE e == IF m.close THEN "readyRead" ELSE "none"
  <2>1. PICK i \in Found(p, m.session) :
           conn' = [conn EXCEPT ![i].recvbuf = @ \o m.data, ![i].emits = e]
    BY <1>5 DEF RecvData, m
  <2> DEFINE d == [conn[i] EXCEPT !.recvbuf = conn[i].recvbuf \o m.data, !.emits = e]
  <2>2. /\ conn[i] \in Connections /\ ConnectionOK(conn[i]) /\ i \in Conns
        /\ conn[i].emits = "none" /\ e \in {"none", "bytesWritten", "readyRead"}
    BY <1>1, <1>5 DEF Found, RecvData, Arrives, Free, ConnsOf
  <2>3. conn[i].recvbuf \o m.data \in Seq(Nat)
    BY <1>2, <2>2, ConcatProperties DEF Connections
  <2>4. conn' = [conn EXCEPT ![i] = d]
    BY <2>1, <2>2 DEF TypeOK
  <2> HIDE DEF e
  <2>5. ConnectionOK(d)
    BY <2>2, <2>3, RecvbufOK
  <2> QED
    BY <2>4, <2>5, OneConnectionOK
<1>6. CASE RecvAccepted(p)
  <2>1. PICK i \in Awaiting(p, m.id, "request") :
           conn' = [conn EXCEPT ![i].st = "Active", ![i].j = NoTask,
                                ![i].session = m.session]
    BY <1>6 DEF RecvAccepted, m
  <2> DEFINE c == conn[i]
             d == [c EXCEPT !.st = "Active", !.j = NoTask, !.session = m.session]
  <2>2. i \in Conns /\ c \in Connections /\ ConnectionOK(c)
        /\ c.j.mode = "request" /\ c.j # NoTask
    BY <1>1, <1>3
  <2>3. c.st = "Requesting" /\ Quiet(c)
    BY <2>2 DEF ConnectionOK, Connections, States
  <2>4. /\ d.st = "Active" /\ d.j = NoTask /\ d.sendbuf = c.sendbuf
        /\ d.closePending = c.closePending
    BY <2>2 DEF Connections
  <2>5. ConnectionOK(d)
    BY <2>3, <2>4, NoTaskType DEF ConnectionOK, Quiet, HasWork
  <2>6. conn' = [conn EXCEPT ![i] = d]
    BY <2>1, <2>2 DEF TypeOK
  <2> QED
    BY <2>5, <2>6, OneConnectionOK
<1>7. CASE RecvAck(p)
  <2>1. PICK i \in Awaiting(p, m.id, "data") :
           conn' = [conn EXCEPT ![i].j = NoTask, ![i].emits = "bytesWritten"]
    BY <1>7 DEF RecvAck, m
  <2> DEFINE d == [conn[i] EXCEPT !.j = NoTask, !.emits = "bytesWritten"]
  <2>2. i \in Conns /\ conn[i] \in Connections /\ ConnectionOK(conn[i]) /\ conn[i].j.mode = "data"
    BY <1>1, <1>3
  <2>3. conn[i].st = "Active"
    BY <2>2, NoTaskType DEF ConnectionOK, Connections, States
  <2>4. d.st = "Active" /\ d.j = NoTask /\ d.emits = "bytesWritten"
    BY <2>2, <2>3 DEF Connections
  <2>5. ConnectionOK(d)
    BY <2>4, NoTaskType DEF ConnectionOK
  <2>6. conn' = [conn EXCEPT ![i] = d]
    BY <2>1, <2>2 DEF TypeOK
  <2> QED
    BY <2>5, <2>6, OneConnectionOK
<1>8. CASE RecvError(p)
  <2>1. PICK i \in Awaiting(p, m.id, "request") \cup Awaiting(p, m.id, "data") :
           conn' = [conn EXCEPT ![i] = ResetClear(conn[i])]
    BY <1>8 DEF RecvError, m
  <2>2. ConnectionOK(ResetClear(conn[i]))
    BY <1>1, <1>3, ResetType
  <2> QED
    BY <2>1, <2>2, OneConnectionOK
<1>9. CASE RecvNoStream(p) \/ RecvStale(p) \/ Bounce(p)
  BY <1>9 DEF RecvNoStream, RecvStale, Bounce, ConnectionsOK
<1> QED
  BY <1>4, <1>5, <1>6, <1>7, <1>8, <1>9 DEF Receive

LEMMA ConnectionsStep == TypeOK /\ ConnectionsOK /\ [Next]_vars => ConnectionsOK'
<1> SUFFICES ASSUME TypeOK, ConnectionsOK, [Next]_vars PROVE ConnectionsOK'
  OBVIOUS
<1>1. ASSUME NEW i \in Conns, TimerFires(i)
      PROVE  ConnectionsOK'
  <2> DEFINE d == [conn[i] EXCEPT !.timer = FALSE]
  <2>1. conn[i] \in Connections /\ ConnectionOK(conn[i])
    BY DEF TypeOK, ConnectionsOK
  <2>2. /\ d \in Connections /\ d.st = conn[i].st /\ d.j = conn[i].j
        /\ d.sendbuf = conn[i].sendbuf
        /\ d.closePending = conn[i].closePending /\ d.closing = conn[i].closing
    BY <2>1 DEF Connections
  <2>3. TrySend(i, d)
    BY <1>1 DEF TimerFires
  <2>4. Quiet(d) = Quiet(conn[i])
    BY <2>2 DEF Quiet, HasWork
  <2> HIDE DEF d
  <2> QED
    BY <2>1, <2>2, <2>3, <2>4, TrySendOK DEF ConnectionOK
<1>2. ASSUME NEW p \in Peers, GoOffline(p)
      PROVE  ConnectionsOK'
  BY <1>2, ResetType DEF GoOffline, TypeOK, ConnectionsOK
<1>3. CASE UNCHANGED vars
  BY <1>3 DEF vars, ConnectionsOK
<1>4. ASSUME NEW i \in Conns, Return(i)
      PROVE  ConnectionsOK'
  <2>1. conn[i] \in Connections /\ ConnectionOK(conn[i])
    BY DEF TypeOK, ConnectionsOK
  <2>2. ConnectionOK([Reset(conn[i]) EXCEPT !.emits = "none"])
    BY <2>1, ResetType, HandlerDone
  <2>3. ConnectionOK([AfterAck(conn[i]) EXCEPT !.emits = "none"])
    BY <2>1, AfterAckOK
  <2>4. \/ conn' = [conn EXCEPT ![i] = [Reset(conn[i]) EXCEPT !.emits = "none"]]
        \/ conn' = [conn EXCEPT ![i] = [AfterAck(conn[i]) EXCEPT !.emits = "none"]]
    BY <1>4 DEF Return, ReadyReadReturns, BytesWrittenReturns
  <2> QED
    BY <2>2, <2>3, <2>4, OneConnectionOK
<1> QED
  BY <1>1, <1>2, <1>3, <1>4, ConnectionsApplication, ConnectionsReceive DEF Next

(* The fields of a connection agree with its state in every behaviour.      *)
THEOREM ConnectionsCorrect == Spec => []ConnectionsOK
  BY TypeCorrect, ConnectionsInit, ConnectionsStep, PTL DEF Spec

LEMMA BytesType ==
    ASSUME NEW k \in Nat, NEW n \in Nat
    PROVE  /\ [b \in 1..n |-> k + b] \in Seq(Nat)
           /\ Len([b \in 1..n |-> k + b]) = n
  OBVIOUS

(* What one connection may turn to while the stream of its owner is up.     *)
LEMMA StreamsKept ==
    ASSUME TypeOK, StreamsOK, NEW i \in Conns, up[Owner(i)], up' = up,
           \A k \in Conns : k # i => conn'[k] = conn[k],
           conn'[i].j.mode # "deleted"
    PROVE  StreamsOK'
  BY DEF StreamsOK

LEMMA StreamsInit == Init => StreamsOK
  BY NoTaskType, OwnerType DEF Init, StreamsOK, Fresh

(* Writing while the stream is up makes no task that deletes itself.        *)
LEMMA StreamsTrySend ==
    ASSUME TypeOK, StreamsOK, NEW i \in Conns, NEW c \in Connections, TrySend(i, c),
           c.j = conn[i].j, c.emits = conn[i].emits, up' = up
    PROVE  StreamsOK'
<1> DEFINE mode == IF up[Owner(i)] THEN "data" ELSE "deleted"
           task == Task(mode, nextId[Owner(i)])
<1>1. /\ conn \in [Conns -> Connections] /\ nextId[Owner(i)] \in Nat
      /\ Owner(i) \in Peers /\ up \in [Peers -> BOOLEAN]
  BY OwnerType DEF TypeOK
<1>2. task \in Tasks /\ task.mode = mode
  BY <1>1, TaskType
<1>3. CASE CanSend(c)
  <2>1. conn' = [conn EXCEPT ![i] = AfterSend(c, task)]
    BY <1>3 DEF TrySend
  <2> HIDE DEF task
  <2>2. AfterSend(c, task).j = task /\ AfterSend(c, task).emits = c.emits
    BY <1>2 DEF AfterSend, Connections
  <2> QED
    BY <1>1, <1>2, <2>1, <2>2 DEF StreamsOK
<1>4. CASE ~CanSend(c)
  <2>1. conn' = [conn EXCEPT ![i] = c]
    BY <1>4 DEF TrySend
  <2> QED
    BY <1>1, <2>1 DEF StreamsOK
<1> QED
  BY <1>3, <1>4

LEMMA StreamsStep == TypeOK /\ TypeOK' /\ StreamsOK /\ [Next]_vars => StreamsOK'
<1> SUFFICES ASSUME TypeOK, TypeOK', StreamsOK, [Next]_vars PROVE StreamsOK'
  OBVIOUS
<1>1. /\ conn \in [Conns -> Connections]
      /\ \A i \in Conns : conn[i] \in Connections /\ Owner(i) \in Peers
      /\ up \in [Peers -> BOOLEAN] /\ 0 \in Conns /\ Owner(0) = Requester
  BY OwnerType, SidsType DEF TypeOK, Owner
<1>2. \A c \in Connections :
        /\ Reset(c).j.mode = "none" /\ ResetClear(c).j.mode = "none"
        /\ Reset(c).emits = c.emits /\ ResetClear(c).emits = c.emits
        /\ Reset(c) \in Connections
  BY NoTaskType, ResetType DEF Reset, ResetClear, Connections
<1>3. CASE ConnectToJid
  <2>1. PICK id : conn' = [conn EXCEPT ![0] = [ResetClear(conn[0]) EXCEPT
                    !.st = "Requesting", !.session = 0, !.j = Task("request", id)]]
    BY <1>3 DEF ConnectToJid
  <2>2. ResetClear(conn[0]) \in Connections
    BY <1>1, ResetType
  <2>3. conn'[0].j = Task("request", id) /\ \A k \in Conns : k # 0 => conn'[k] = conn[k]
    BY <1>1, <2>1, <2>2 DEF Connections
  <2>4. Task("request", id).mode = "request"
    BY DEF Task
  <2> QED
    BY <1>1, <1>3, <2>3, <2>4, StreamsKept DEF ConnectToJid
<1>4. ASSUME NEW i \in Conns, Accept(i)
      PROVE  StreamsOK'
  <2>1. conn'[i].j = conn[i].j /\ conn'[i].emits = conn[i].emits
        /\ \A k \in Conns : k # i => conn'[k] = conn[k]
    BY <1>1, <1>4 DEF Accept, Connections
  <2> QED
    BY <1>4, <2>1 DEF Accept, StreamsOK
<1>5. ASSUME NEW i \in Conns, ClosePend(i)
      PROVE  StreamsOK'
  <2> DEFINE c == [conn[i] EXCEPT !.closePending = TRUE]
  <2>1. c \in Connections /\ c.j = conn[i].j /\ c.emits = conn[i].emits
    BY <1>1 DEF Connections
  <2>2. TrySend(i, c) /\ up' = up
    BY <1>5 DEF ClosePend
  <2> HIDE DEF c
  <2> QED
    BY <2>1, <2>2, StreamsTrySend
<1>6. ASSUME NEW i \in Conns, CloseNow(i) \/ DropIncoming(i)
      PROVE  StreamsOK'
  <2>1. conn'[i].j.mode = "none" /\ conn'[i].emits = conn[i].emits
        /\ \A k \in Conns : k # i => conn'[k] = conn[k]
    BY <1>1, <1>2, <1>6 DEF CloseNow, DropIncoming
  <2> QED
    BY <1>6, <2>1 DEF CloseNow, DropIncoming, StreamsOK
<1>7. ASSUME NEW i \in Conns, NEW n \in 1..MaxBytes[Owner(i)], Write(i, n)
      PROVE  StreamsOK'
  <2> DEFINE bytes == [b \in 1..n |-> Len(hist[Owner(i)][conn[i].session].sent) + b]
             c == [conn[i] EXCEPT !.sendbuf = @ \o bytes]
  <2>1. bytes \in Seq(Nat)
    <3>1. hist[Owner(i)][conn[i].session] \in Histories /\ n \in Nat
      BY <1>1 DEF Connections, TypeOK
    <3>2. Len(hist[Owner(i)][conn[i].session].sent) \in Nat
      BY <3>1 DEF Histories
    <3> QED
      BY <3>1, <3>2, BytesType
  <2>2. TrySend(i, c) /\ up' = up
    BY <1>7 DEF Write
  <2> HIDE DEF bytes
  <2>3. c \in Connections /\ c.j = conn[i].j /\ c.emits = conn[i].emits
    BY <1>1, <2>1, ConcatProperties DEF Connections
  <2> HIDE DEF c
  <2> QED
    BY <2>2, <2>3, StreamsTrySend
<1>8. ASSUME NEW i \in Conns, Read(i)
      PROVE  StreamsOK'
  <2>1. conn'[i].j = conn[i].j /\ conn'[i].emits = conn[i].emits
        /\ \A k \in Conns : k # i => conn'[k] = conn[k]
    BY <1>1, <1>8 DEF Read, Connections
  <2> QED
    BY <1>8, <2>1 DEF Read, StreamsOK
<1>9. ASSUME NEW i \in Conns, TimerFires(i)
      PROVE  StreamsOK'
  <2> DEFINE c == [conn[i] EXCEPT !.timer = FALSE]
  <2>1. c \in Connections /\ c.j = conn[i].j /\ c.emits = conn[i].emits
    BY <1>1 DEF Connections
  <2>2. TrySend(i, c) /\ up' = up
    BY <1>9 DEF TimerFires
  <2> HIDE DEF c
  <2> QED
    BY <2>1, <2>2, StreamsTrySend
<1>10. ASSUME NEW i \in Conns, Return(i)
       PROVE  StreamsOK'
  <2>1. AfterAck(conn[i]) \in Connections /\ AfterAck(conn[i]).j \in {conn[i].j, NoTask}
    <3>1. AfterAck(conn[i]) = Reset(conn[i]) \/ AfterAck(conn[i]).j = conn[i].j
      BY <1>1 DEF AfterAck, Connections
    <3>2. Reset(conn[i]).j = NoTask
      BY <1>1 DEF Reset, Connections
    <3> QED
      BY <1>1, <3>1, <3>2, AfterAckType
  <2>2. \E d \in {Reset(conn[i]), AfterAck(conn[i])} :
          conn' = [conn EXCEPT ![i] = [d EXCEPT !.emits = "none"]]
    BY <1>10 DEF Return, ReadyReadReturns, BytesWrittenReturns
  <2>3. \A d \in Connections : LET e == [d EXCEPT !.emits = "none"]
                               IN  e.j = d.j /\ e.emits = "none"
    BY DEF Connections
  <2>4. conn'[i].emits = "none" /\ (conn'[i].j = conn[i].j \/ conn'[i].j.mode = "none")
        /\ \A k \in Conns : k # i => conn'[k] = conn[k]
    BY <1>1, <1>2, <2>1, <2>2, <2>3, NoTaskType
  <2>5. up' = up
    BY <1>10 DEF Return, ReadyReadReturns, BytesWrittenReturns
  <2> QED
    BY <2>4, <2>5 DEF StreamsOK
<1>11. ASSUME NEW p \in Peers, RecvData(p) \/ RecvAccepted(p) \/ RecvAck(p) \/ RecvError(p)
       PROVE  StreamsOK'
  <2>1. up[p] /\ up' = up
    BY <1>11 DEF RecvData, RecvAccepted, RecvAck, RecvError, Arrives
  <2>2. PICK i \in Conns : /\ Owner(i) = p /\ \A k \in Conns : k # i => conn'[k] = conn[k]
                           /\ conn'[i].j \in {conn[i].j, NoTask}
    <3>1. CASE RecvData(p)
      <4> DEFINE m == Head(net[p])
                 e == IF m.close THEN "readyRead" ELSE "none"
      <4>1. PICK i \in Found(p, m.session) :
               conn' = [conn EXCEPT ![i].recvbuf = @ \o m.data, ![i].emits = e]
        BY <3>1 DEF RecvData
      <4>2. i \in Conns /\ Owner(i) = p /\ conn[i] \in Connections
        BY <1>1 DEF Found, ConnsOf
      <4> HIDE DEF m, e
      <4> DEFINE d == [conn[i] EXCEPT !.recvbuf = @ \o m.data, !.emits = e]
      <4>3. conn' = [conn EXCEPT ![i] = d]
        BY <1>1, <4>1, <4>2
      <4>4. d.j = conn[i].j
        BY <4>2 DEF Connections
      <4> HIDE DEF d
      <4> QED
        BY <1>1, <4>2, <4>3, <4>4
    <3>2. CASE RecvAccepted(p)
      BY <1>1, <3>2 DEF RecvAccepted, Awaiting, ConnsOf, Connections
    <3>3. CASE RecvAck(p)
      BY <1>1, <3>3 DEF RecvAck, Awaiting, ConnsOf, Connections
    <3>4. CASE RecvError(p)
      <4>1. \A c \in Connections : ResetClear(c).j = NoTask
        BY DEF ResetClear, Reset, Connections
      <4> QED
        BY <1>1, <3>4, <4>1 DEF RecvError, Awaiting, ConnsOf
    <3> QED
      BY <1>11, <3>1, <3>2, <3>3, <3>4
  <2> QED
    BY <2>1, <2>2, StreamsKept, NoTaskType DEF StreamsOK
<1>12. CASE RecvRequest
  <2>1. up[Acceptor] /\ up' = up
    BY <1>12 DEF RecvRequest, Arrives
  <2> DEFINE m == Head(net[Acceptor])
  <2>2. conn' = [conn EXCEPT ![m.session] = [Fresh EXCEPT !.st = "WaitingForAccept",
                                !.session = m.session, !.iqId = m.id]]
    BY <1>12 DEF RecvRequest
  <2>3. \A k \in Conns : conn'[k] = conn[k] \/ (conn'[k].j = NoTask /\ conn'[k].emits = "none")
    BY <1>1, <2>2 DEF Fresh
  <2> QED
    BY <2>1, <2>3, NoTaskType DEF StreamsOK
<1>13. ASSUME NEW p \in Peers, RecvNoStream(p) \/ RecvStale(p) \/ Bounce(p)
       PROVE  StreamsOK'
  BY <1>13 DEF RecvNoStream, RecvStale, Bounce, StreamsOK
<1>14. ASSUME NEW p \in Peers, GoOffline(p)
       PROVE  StreamsOK'
  <2>1. /\ \A r \in Peers : r # p => up'[r] = up[r]
        /\ up'[p] = FALSE /\ Free(p)
    BY <1>1, <1>14 DEF GoOffline
  <2>2. \A k \in Conns : conn'[k].emits = conn[k].emits /\ (Owner(k) # p => conn'[k] = conn[k])
    BY <1>1, <1>2, <1>14 DEF GoOffline
  <2> QED
    BY <1>1, <2>1, <2>2 DEF StreamsOK, Free, ConnsOf
<1>15. CASE UNCHANGED vars
  BY <1>15 DEF vars, StreamsOK
<1> QED
  BY <1>3, <1>4, <1>5, <1>6, <1>7, <1>8, <1>9, <1>10, <1>11, <1>12, <1>13, <1>14, <1>15
  DEF Next, Application, Receive

(* A handler runs only while the stream of its owner is up, and a task      *)
(* deletes itself only while it is down.                                    *)
THEOREM StreamsCorrect == Spec => []StreamsOK
  BY TypeCorrect, StreamsInit, StreamsStep, PTL DEF Spec

(* Whatever is in a send buffer, and a close that waits for it, always has  *)
(* a packet, a timer or a handler to wake it up while the stream is up:     *)
(* trySend(), write(), close() and ibb_finished() of xmpp_ibb.cpp never     *)
(* leave it stranded, whatever is called in between.                        *)
THEOREM NoLostWakeupCorrect == Spec => []NoLostWakeup
<1>1. TypeOK /\ ConnectionsOK /\ StreamsOK => NoLostWakeup
  <2> SUFFICES ASSUME TypeOK, ConnectionsOK, StreamsOK, NEW i \in Conns,
                      HasWork(conn[i]), up[Owner(i)]
               PROVE  conn[i].j.mode = "data" \/ conn[i].timer \/ conn[i].emits = "bytesWritten"
    BY DEF NoLostWakeup
  <2>1. conn[i] \in Connections /\ ConnectionOK(conn[i]) /\ conn[i].j.mode # "deleted"
    BY DEF TypeOK, ConnectionsOK, StreamsOK
  <2>2. conn[i].st = "Active" /\ conn[i].j \in Tasks
    BY <2>1 DEF ConnectionOK, Quiet, Connections, States
  <2> QED
    BY <2>1, <2>2 DEF ConnectionOK, Tasks
<1> QED
  BY <1>1, TypeCorrect, ConnectionsCorrect, StreamsCorrect, PTL

-----------------------------------------------------------------------------
(* What is known of every state.                                            *)

(* The stanzas on their way to p.                                           *)
Coming == [p \in Peers |-> {net[p][k] : k \in 1..Len(net[p])}]
Data(m) == m.kind = "data"
Runs(i, p, s) == Owner(i) = p /\ conn[i].st = "Active" /\ conn[i].session = s

(* Nothing has happened to p in session s, and nothing it sent is on its    *)
(* way.                                                                     *)
Silent(p, s) ==
    /\ hist[p][s].sent = <<>> /\ hist[p][s].got = <<>>
    /\ hist[p][s].acked = 0 /\ hist[p][s].end = "open"
    /\ \A m \in Coming[Other(p)] : Data(m) => m.session # s

(* An id is used once: by a set, or by its answer, or by a request that     *)
(* waits for the application.                                               *)
IdsUsed ==
    /\ \A p \in Peers : nextId[p] > 0
    /\ \A p \in Peers : \A m \in Coming[p] :
         m.id < nextId[IF IsSet(m) THEN Other(p) ELSE p]
    /\ \A i \in Conns : conn[i].j.id < nextId[Owner(i)]
    /\ \A i \in Conns : conn[i].st = "WaitingForAccept" => conn[i].iqId < nextId[Requester]
IdsDistinct ==
    /\ \A p \in Peers : \A k, l \in 1..Len(net[p]) :
         IsSet(net[p][k]) /\ IsSet(net[p][l]) /\ net[p][k].id = net[p][l].id => k = l
    /\ \A p \in Peers : \A m \in Coming[p], a \in Coming[Other(p)] :
         IsSet(m) /\ ~IsSet(a) => m.id # a.id
    /\ \A i \in Conns : \A m \in Coming[Acceptor] :
         conn[i].st = "WaitingForAccept" /\ IsSet(m) => conn[i].iqId # m.id

(* What carries the id of a task is its packet, its request, or the answer. *)
TasksMatch ==
    /\ \A i \in Conns : \A m \in Coming[Other(Owner(i))] :
         IsSet(m) /\ conn[i].j = Task("data", m.id) =>
           /\ Data(m) /\ m.session = conn[i].session
           /\ Len(m.data) = conn[i].blockSize /\ m.close = conn[i].closing
    /\ \A m \in Coming[Acceptor] :
         IsSet(m) /\ conn[0].j = Task("request", m.id) =>
           m.kind = "request" /\ m.session = nSessions
    /\ \A i \in Conns :
         conn[i].st = "WaitingForAccept" =>
           /\ conn[0].j # Task("data", conn[i].iqId)
           /\ conn[0].j = Task("request", conn[i].iqId) => i = nSessions
    /\ \A a \in Coming[Requester] :
         a.kind = "result" /\ conn[0].j = Task("request", a.id) => a.session = nSessions

Ids == IdsUsed /\ IdsDistinct /\ TasksMatch

(* The packet that carries the close is the last one.  It is under way, or  *)
(* its answer is being handled; both at once only when close() was called   *)
(* in the handler of bytesWritten() and sent it there.                      *)
Closes(i) ==
    conn[i].closing =>
      /\ conn[i].sendbuf = <<>>
      /\ conn[i].j # NoTask \/ conn[i].emits = "bytesWritten"
      /\ conn[i].j # NoTask /\ conn[i].emits = "bytesWritten" =>
           hist[Owner(i)][conn[i].session].hasty

(* Connection i is the acceptor's end of session i; the requester has one   *)
(* for all of them.                                                         *)
EndsKnown ==
    /\ conn[0].st # "WaitingForAccept"
    /\ conn[0].st # "Idle" => nSessions > 0
    /\ conn[0].st = "Active" => conn[0].session = nSessions
    /\ \A i \in Sessions :
         /\ conn[i].st # "Requesting"
         /\ conn[i].st # "Idle" => conn[i].session = i
    /\ \A i \in Conns :
         /\ conn[i].st = "Active" => hist[Owner(i)][conn[i].session].end = "open"
         /\ Closes(i)
Starting ==
    /\ conn[0].st = "Requesting" => Silent(Requester, nSessions)
    /\ \A s \in Sessions : conn[s].st = "WaitingForAccept" => Silent(Acceptor, s)
    /\ \A s \in Sessions : s > nSessions =>
         conn[s].st = "Idle" /\ Silent(Requester, s) /\ Silent(Acceptor, s)
    /\ \A m \in Coming[Acceptor] : m.kind = "request" =>
         /\ m.session \in Sessions /\ m.session <= nSessions
         /\ conn[m.session].st = "Idle" /\ Silent(Acceptor, m.session)
    /\ \A m, n \in Coming[Acceptor] :
         m.kind = "request" /\ n.kind = "request" /\ m.session = n.session => m.id = n.id

SessionsKnown == EndsKnown /\ Starting
Basis == TypeOK /\ ConnectionsOK /\ Ids /\ SessionsKnown

-----------------------------------------------------------------------------
(* What a step does to the stanzas on their way.                            *)

LEMMA PeersType ==
    /\ Requester \in Peers /\ Acceptor \in Peers /\ Requester # Acceptor
    /\ Other(Requester) = Acceptor /\ Other(Acceptor) = Requester
    /\ \A p \in Peers : Other(p) \in Peers /\ Other(p) # p /\ Other(Other(p)) = p
    /\ \A p, q \in Peers : q # p => q = Other(p)
    /\ Owner(0) = Requester /\ \A i \in Sessions : Owner(i) = Acceptor
    /\ \A i \in Conns : Owner(i) \in Peers /\ i \in Nat
    /\ 0 \in Conns /\ \A i \in Conns : i = 0 \/ i \in Sessions
    /\ Sessions \subseteq Conns /\ Conns = Sids /\ 0 \notin Sessions
  BY IBBAssumption DEF Peers, Other, Owner, Conns, Sids, Sessions

LEMMA TaskFields ==
    /\ \A mode, id : Task(mode, id).mode = mode /\ Task(mode, id).id = id
    /\ NoTask.mode = "none" /\ NoTask.id = 0
    /\ \A mode, id : mode # "none" => Task(mode, id) # NoTask
    /\ \A t \in Tasks : t = Task(t.mode, t.id)
  BY DEF Task, NoTask, Tasks

LEMMA StanzaFields ==
    /\ \A kind, id, s, data, close :
         LET m == Stanza(kind, id, s, data, close)
         IN  /\ m.kind = kind /\ m.id = id /\ m.session = s
             /\ m.data = data /\ m.close = close
    /\ \A id, s : Result(id, s).kind = "result" /\ Result(id, s).id = id
                  /\ Result(id, s).session = s
    /\ \A id : Error(id).kind = "error" /\ Error(id).id = id
  BY DEF Stanza, Result, Error

(* A stanza is taken off ...                                                *)
Popped(p) ==
    /\ net[p] # <<>> /\ Head(net[p]) \in Coming[p] /\ Head(net[p]) = net[p][1]
    /\ 1 \in 1..Len(net[p])
    /\ Coming'[p] \subseteq Coming[p]
    /\ Len(net'[p]) = Len(net[p]) - 1
    /\ \A k \in 1..Len(net'[p]) : net'[p][k] = net[p][k + 1] /\ k + 1 \in 1..Len(net[p])
    /\ \A k \in 1..Len(net[p]) : k > 1 => k - 1 \in 1..Len(net'[p]) /\ net'[p][k - 1] = net[p][k]

(* ... or added.                                                            *)
Pushed(p, m) ==
    /\ Coming'[p] = Coming[p] \cup {m}
    /\ Len(net'[p]) = Len(net[p]) + 1
    /\ net'[p][Len(net[p]) + 1] = m
    /\ \A k \in 1..Len(net[p]) : net'[p][k] = net[p][k] /\ k \in 1..Len(net'[p])

Unmoved(p) == net'[p] = net[p] /\ Coming'[p] = Coming[p]

LEMMA ComingType ==
    ASSUME TypeOK
    PROVE  \A p \in Peers : /\ net[p] \in Seq(Stanzas) /\ Len(net[p]) \in Nat
                            /\ Coming[p] = {net[p][k] : k \in 1..Len(net[p])}
                            /\ Coming[p] \subseteq Stanzas
                            /\ \A k \in 1..Len(net[p]) : net[p][k] \in Coming[p]
<1>1. \A p \in Peers : net[p] \in Seq(Stanzas)
  BY DEF TypeOK
<1>2. \A p \in Peers : Coming[p] = {net[p][k] : k \in 1..Len(net[p])}
  BY DEF Coming
<1> QED
  BY <1>1, <1>2

LEMMA TailComes ==
    ASSUME TypeOK, TypeOK', NEW p \in Peers, net[p] # <<>>, net'[p] = Tail(net[p])
    PROVE  Popped(p)
<1>1. net[p] \in Seq(Stanzas) /\ Len(net[p]) \in Nat /\ Len(net[p]) > 0
  BY ComingType
<1>2. /\ Len(net'[p]) = Len(net[p]) - 1 /\ Head(net[p]) = net[p][1]
      /\ \A k \in 1..Len(net'[p]) : net'[p][k] = net[p][k + 1] /\ k + 1 \in 1..Len(net[p])
  BY <1>1
<1>3. /\ Coming[p] = {net[p][k] : k \in 1..Len(net[p])}
      /\ Coming'[p] = {net'[p][k] : k \in 1..Len(net'[p])}
  BY DEF Coming
<1>4. Coming'[p] \subseteq Coming[p] /\ net[p][1] \in Coming[p]
  BY <1>1, <1>2, <1>3
<1>5. \A k \in 1..Len(net[p]) : k > 1 => k - 1 \in 1..Len(net'[p]) /\ net'[p][k - 1] = net[p][k]
  BY <1>1, <1>2
<1> QED
  BY <1>1, <1>2, <1>4, <1>5 DEF Popped

LEMMA AppendComes ==
    ASSUME TypeOK, NEW p \in Peers, NEW m, net'[p] = Append(net[p], m)
    PROVE  Pushed(p, m)
<1>1. net[p] \in Seq(Stanzas) /\ Len(net[p]) \in Nat
  BY ComingType
<1>2. /\ Len(net'[p]) = Len(net[p]) + 1 /\ net'[p][Len(net[p]) + 1] = m
      /\ \A k \in 1..Len(net[p]) : net'[p][k] = net[p][k] /\ k \in 1..Len(net'[p])
  BY <1>1
<1>3. /\ Coming[p] = {net[p][k] : k \in 1..Len(net[p])}
      /\ Coming'[p] = {net'[p][k] : k \in 1..Len(net'[p])}
  BY DEF Coming
<1>4. Coming'[p] = Coming[p] \cup {m}
  <2>1. \A k \in 1..Len(net'[p]) : k \in 1..Len(net[p]) \/ k = Len(net[p]) + 1
    BY <1>1, <1>2
  <2>2. Len(net[p]) + 1 \in 1..Len(net'[p])
    BY <1>1, <1>2
  <2> QED
    BY <1>2, <1>3, <2>1, <2>2
<1> QED
  BY <1>2, <1>4 DEF Pushed

LEMMA Stays ==
    ASSUME NEW p \in Peers, net'[p] = net[p]
    PROVE  Unmoved(p)
  BY DEF Unmoved, Coming

(* Pop() for no reply and for one.                                          *)
LEMMA PopSilently ==
    ASSUME TypeOK, TypeOK', NEW p \in Peers, net[p] # <<>>, Pop(p, <<>>)
    PROVE  Popped(p) /\ Unmoved(Other(p))
<1>1. net'[p] = Tail(net[p]) /\ net'[Other(p)] = net[Other(p)] \o <<>>
  BY PeersType DEF Pop, TypeOK
<1>2. net[Other(p)] \in Seq(Stanzas)
  BY ComingType, PeersType
<1>3. net'[Other(p)] = net[Other(p)]
  BY <1>1, <1>2
<1> QED
  BY <1>1, <1>3, TailComes, Stays, PeersType

LEMMA PopAnswering ==
    ASSUME TypeOK, TypeOK', NEW p \in Peers, net[p] # <<>>, NEW r, Pop(p, <<r>>)
    PROVE  Popped(p) /\ Pushed(Other(p), r)
<1>1. net'[p] = Tail(net[p]) /\ net'[Other(p)] = net[Other(p)] \o <<r>>
  BY PeersType DEF Pop, TypeOK
<1>2. net[Other(p)] \in Seq(Stanzas)
  BY ComingType, PeersType
<1>3. net'[Other(p)] = Append(net[Other(p)], r)
  BY <1>1, <1>2
<1> QED
  BY <1>1, <1>3, TailComes, AppendComes, PeersType

LEMMA NetSame ==
    ASSUME net' = net, NEW p \in Peers
    PROVE  Unmoved(p)
  BY Stays

LEMMA SendsOne ==
    ASSUME TypeOK, NEW p \in Peers, NEW m, net' = [net EXCEPT ![p] = Append(@, m)]
    PROVE  Pushed(p, m) /\ Unmoved(Other(p))
<1>1. net'[p] = Append(net[p], m) /\ net'[Other(p)] = net[Other(p)]
  BY PeersType DEF TypeOK
<1> QED
  BY <1>1, AppendComes, Stays, PeersType


-----------------------------------------------------------------------------
(* The ids.                                                                 *)

(* Facts about ids in the form the proofs below use them.                   *)
LEMMA IdTypes ==
    ASSUME TypeOK
    PROVE  /\ \A p \in Peers : nextId[p] \in Nat
           /\ \A p \in Peers : \A m \in Coming[p] : m.id \in Nat /\ m.session \in Sids
                /\ m.data \in Seq(Nat) /\ m.close \in BOOLEAN
                /\ m.kind \in {"request", "data", "result", "error"}
           /\ \A i \in Conns : conn[i].j \in Tasks /\ conn[i].j.id \in Nat /\ conn[i].iqId \in Nat
<1>1. \A p \in Peers : \A m \in Coming[p] : m \in Stanzas
  BY ComingType
<1>2. \A i \in Conns : conn[i].j \in Tasks /\ conn[i].iqId \in Nat
  BY DEF TypeOK, Connections
<1>3. \A t \in Tasks : t.id \in Nat
  BY DEF Tasks, NoTask
<1> QED
  BY <1>1, <1>2, <1>3 DEF TypeOK, Stanzas

LEMMA HeadAlone ==
    ASSUME IdsDistinct, NEW p \in Peers, Popped(p), IsSet(Head(net[p])), TypeOK'
    PROVE  \A n \in Coming'[p] : IsSet(n) => n.id # Head(net[p]).id
<1>1. TAKE n \in Coming'[p]
<1>2. PICK k \in 1..Len(net'[p]) : n = net'[p][k]
  BY DEF Coming
<1>3. k + 1 \in 1..Len(net[p]) /\ net[p][k + 1] = n /\ k + 1 # 1
  BY <1>2 DEF Popped
<1> QED
  BY <1>3 DEF Popped, IdsDistinct

(* The ids of the sets on their way to p stay distinct.                     *)
SetsDistinct(p) ==
    \A k, l \in 1..Len(net[p]) :
      IsSet(net[p][k]) /\ IsSet(net[p][l]) /\ net[p][k].id = net[p][l].id => k = l

LEMMA PoppedDistinct ==
    ASSUME NEW p \in Peers, SetsDistinct(p), Popped(p)
    PROVE  SetsDistinct(p)'
<1> SUFFICES ASSUME NEW k \in 1..Len(net'[p]), NEW l \in 1..Len(net'[p]),
                    IsSet(net'[p][k]), IsSet(net'[p][l]), net'[p][k].id = net'[p][l].id
             PROVE  k = l
  BY DEF SetsDistinct
<1>1. k + 1 = l + 1
  BY DEF Popped, SetsDistinct
<1> QED
  BY <1>1

LEMMA PushedDistinct ==
    ASSUME TypeOK, NEW p \in Peers, SetsDistinct(p), NEW m, Pushed(p, m),
           IsSet(m) => \A n \in Coming[p] : IsSet(n) => n.id # m.id
    PROVE  SetsDistinct(p)'
<1> SUFFICES ASSUME NEW k \in 1..Len(net'[p]), NEW l \in 1..Len(net'[p]),
                    IsSet(net'[p][k]), IsSet(net'[p][l]), net'[p][k].id = net'[p][l].id
             PROVE  k = l
  BY DEF SetsDistinct
<1>1. \A j \in 1..Len(net'[p]) : (j \in 1..Len(net[p]) /\ net'[p][j] = net[p][j]
                                   /\ net[p][j] \in Coming[p])
                                 \/ (j = Len(net[p]) + 1 /\ net'[p][j] = m)
  BY ComingType DEF Pushed
<1> QED
  BY <1>1 DEF SetsDistinct

LEMMA UnmovedDistinct ==
    ASSUME NEW p \in Peers, SetsDistinct(p), Unmoved(p)
    PROVE  SetsDistinct(p)'
  BY DEF SetsDistinct, Unmoved

(* No connection takes up a task or a request.                              *)
Retires(k) ==
    /\ \/ conn'[k].j = NoTask
       \/ /\ conn'[k].j = conn[k].j /\ conn'[k].session = conn[k].session
          /\ conn'[k].blockSize = conn[k].blockSize /\ conn'[k].closing = conn[k].closing
    /\ conn'[k].st = "WaitingForAccept" =>
         conn[k].st = "WaitingForAccept" /\ conn'[k].iqId = conn[k].iqId

LEMMA RetiredIds ==
    ASSUME Ids, TypeOK, \A k \in Conns : Retires(k), UNCHANGED <<nextId, nSessions>>,
           \A p \in Peers : Coming'[p] \subseteq Coming[p],
           \A p \in Peers : SetsDistinct(p)'
    PROVE  Ids'
<1>1. IdsUsed'
  BY IdTypes, TaskFields, PeersType DEF Ids, IdsUsed, Retires
<1>2. IdsDistinct'
  BY PeersType DEF Ids, IdsDistinct, Retires, SetsDistinct
<1>3. TasksMatch'
  BY PeersType, TaskFields DEF Ids, TasksMatch, Retires
<1> QED
  BY <1>1, <1>2, <1>3 DEF Ids

LEMMA QuietIds ==
    ASSUME Ids, TypeOK, \A k \in Conns : Retires(k), UNCHANGED <<nextId, nSessions>>,
           \/ \A p \in Peers : Unmoved(p)
           \/ \E p \in Peers : Popped(p) /\ Unmoved(Other(p))
    PROVE  Ids'
<1>1. \A p \in Peers : SetsDistinct(p)
  BY DEF Ids, IdsDistinct, SetsDistinct
<1>2. \A p \in Peers : SetsDistinct(p)' /\ Coming'[p] \subseteq Coming[p]
  <2>1. CASE \A p \in Peers : Unmoved(p)
    BY <1>1, <2>1, UnmovedDistinct DEF Unmoved
  <2>2. ASSUME NEW p \in Peers, Popped(p), Unmoved(Other(p))
        PROVE  \A r \in Peers : SetsDistinct(r)' /\ Coming'[r] \subseteq Coming[r]
    <3>1. SetsDistinct(p)' /\ SetsDistinct(Other(p))'
      BY <1>1, <2>2, PoppedDistinct, UnmovedDistinct, PeersType
    <3>2. Coming'[p] \subseteq Coming[p] /\ Coming'[Other(p)] \subseteq Coming[Other(p)]
      BY <2>2 DEF Popped, Unmoved
    <3> QED
      BY <3>1, <3>2, PeersType
  <2> QED
    BY <2>1, <2>2
<1> QED
  BY <1>2, RetiredIds

(* A set is answered, or bounced.                                           *)
LEMMA AnsweredIds ==
    ASSUME Ids, TypeOK, TypeOK', \A k \in Conns : Retires(k), UNCHANGED <<nextId, nSessions>>,
           NEW p \in Peers, IsSet(Head(net[p])), NEW r, ~IsSet(r), r.id = Head(net[p]).id,
           r.kind = "result" => Data(Head(net[p])), Popped(p), Pushed(Other(p), r)
    PROVE  Ids'
<1> DEFINE m == Head(net[p])
<1>1. m \in Coming[p] /\ IsSet(m) /\ r.id = m.id
  BY DEF Popped
<1>2. \A n \in Coming'[p] : n \in Coming[p] /\ (IsSet(n) => n.id # m.id)
  BY HeadAlone DEF Ids, Popped
<1>3. \A a \in Coming'[Other(p)] : a \in Coming[Other(p)] \/ a = r
  BY DEF Pushed
<1>4. \A t \in Peers : SetsDistinct(t)'
  <2>1. \A t \in Peers : SetsDistinct(t)
    BY DEF Ids, IdsDistinct, SetsDistinct
  <2>2. SetsDistinct(p)' /\ SetsDistinct(Other(p))'
    BY <2>1, PoppedDistinct, PushedDistinct, PeersType
  <2> QED
    BY <2>2, PeersType
<1> HIDE DEF m
<1>5. IdsUsed'
  <2>1. \A t \in Peers : \A n \in Coming'[t] :
          n.id < nextId'[IF IsSet(n) THEN Other(t) ELSE t]
    BY <1>1, <1>2, <1>3, PeersType DEF Ids, IdsUsed
  <2> QED
    BY <2>1, IdTypes, TaskFields, PeersType DEF Ids, IdsUsed, Retires
<1>6. IdsDistinct'
  <2>1. \A t \in Peers : \A n \in Coming'[t], a \in Coming'[Other(t)] :
          IsSet(n) /\ ~IsSet(a) => n.id # a.id
    BY <1>1, <1>2, <1>3, PeersType DEF Ids, IdsDistinct
  <2>2. \A i \in Conns : \A n \in Coming'[Acceptor] :
          conn'[i].st = "WaitingForAccept" /\ IsSet(n) => conn'[i].iqId # n.id
    BY <1>2, <1>3, PeersType DEF Ids, IdsDistinct, Retires
  <2> QED
    BY <1>4, <2>1, <2>2 DEF IdsDistinct, SetsDistinct
<1>7. TasksMatch'
  <2>1. \A t \in Peers : \A n \in Coming'[t] : IsSet(n) => n \in Coming[t]
    BY <1>2, <1>3, PeersType
  <2>2. \A a \in Coming'[Requester] :
          a.kind = "result" /\ conn'[0].j = Task("request", a.id) => a.session = nSessions'
    <3>1. TAKE a \in Coming'[Requester]
    <3>2. HAVE a.kind = "result" /\ conn'[0].j = Task("request", a.id)
    <3>3. conn[0].j = Task("request", a.id)
      BY <3>2, PeersType, TaskFields DEF Retires
    <3>4. a \in Coming[Requester] \/ (p = Acceptor /\ a = r)
      BY <1>2, <1>3, PeersType
    <3>5. CASE p = Acceptor /\ a = r
      <4>1. m.kind = "request" /\ Data(m)
        BY <1>1, <3>2, <3>3, <3>5 DEF Ids, TasksMatch, m
      <4> QED
        BY <4>1 DEF Data
    <3> QED
      BY <3>2, <3>3, <3>4, <3>5 DEF Ids, TasksMatch
  <2>3. \A i \in Conns : \A n \in Coming'[Other(Owner(i))] :
         IsSet(n) /\ conn'[i].j = Task("data", n.id) =>
           /\ Data(n) /\ n.session = conn'[i].session
           /\ Len(n.data) = conn'[i].blockSize /\ n.close = conn'[i].closing
    BY <2>1, PeersType, TaskFields DEF Ids, TasksMatch, Retires
  <2>4. \A n \in Coming'[Acceptor] :
         IsSet(n) /\ conn'[0].j = Task("request", n.id) =>
           n.kind = "request" /\ n.session = nSessions'
    BY <2>1, PeersType, TaskFields DEF Ids, TasksMatch, Retires
  <2>5. \A i \in Conns :
         conn'[i].st = "WaitingForAccept" =>
           /\ conn'[0].j # Task("data", conn'[i].iqId)
           /\ conn'[0].j = Task("request", conn'[i].iqId) => i = nSessions'
    BY PeersType, TaskFields DEF Ids, TasksMatch, Retires
  <2> QED
    BY <2>2, <2>3, <2>4, <2>5 DEF TasksMatch
<1> QED
  BY <1>5, <1>6, <1>7 DEF Ids


(* A request comes to wait for the application ...                          *)
LEMMA RequestIds ==
    ASSUME Ids, TypeOK, TypeOK', UNCHANGED <<nextId, nSessions>>, NEW s \in Sessions,
           Head(net[Acceptor]).kind = "request", Head(net[Acceptor]).session = s,
           \A k \in Conns \ {s} : Retires(k),
           conn'[s].iqId = Head(net[Acceptor]).id, conn'[s].j = NoTask,
           Popped(Acceptor), Unmoved(Requester)
    PROVE  Ids'
<1> DEFINE m == Head(net[Acceptor])
<1>1. m \in Coming[Acceptor] /\ m.kind = "request" /\ m.session = s /\ conn'[s].iqId = m.id
  BY DEF Popped
<1>2. \A n \in Coming'[Acceptor] : n \in Coming[Acceptor] /\ (IsSet(n) => n.id # m.id)
  BY HeadAlone, PeersType DEF Ids, Popped, IsSet
<1>3. Coming'[Requester] = Coming[Requester]
  BY DEF Unmoved
<1>4. \A t \in Peers : SetsDistinct(t)'
  <2>1. \A t \in Peers : SetsDistinct(t)
    BY DEF Ids, IdsDistinct, SetsDistinct
  <2>2. SetsDistinct(Acceptor)' /\ SetsDistinct(Requester)'
    BY <2>1, PoppedDistinct, UnmovedDistinct, PeersType
  <2> QED
    BY <2>2, PeersType
<1> HIDE DEF m
<1>5. conn'[0].j = conn[0].j \/ conn'[0].j = NoTask
  BY PeersType DEF Retires
<1>6. IdsUsed'
  <2>1. m.id < nextId[Requester]
    BY <1>1, PeersType DEF Ids, IdsUsed, IsSet
  <2>2. \A i \in Conns : conn'[i].j.id < nextId'[Owner(i)]
    BY IdTypes, TaskFields, PeersType DEF Ids, IdsUsed, Retires
  <2>3. \A i \in Conns : conn'[i].st = "WaitingForAccept" => conn'[i].iqId < nextId'[Requester]
    BY <1>1, <2>1 DEF Ids, IdsUsed, Retires
  <2>4. \A t \in Peers : \A n \in Coming'[t] : n.id < nextId'[IF IsSet(n) THEN Other(t) ELSE t]
    BY <1>2, <1>3, PeersType DEF Ids, IdsUsed
  <2> QED
    BY <2>2, <2>3, <2>4 DEF Ids, IdsUsed
<1>7. IdsDistinct'
  <2>1. \A t \in Peers : \A n \in Coming'[t], a \in Coming'[Other(t)] :
          IsSet(n) /\ ~IsSet(a) => n.id # a.id
    BY <1>2, <1>3, PeersType DEF Ids, IdsDistinct
  <2>2. \A i \in Conns : \A n \in Coming'[Acceptor] :
          conn'[i].st = "WaitingForAccept" /\ IsSet(n) => conn'[i].iqId # n.id
    BY <1>1, <1>2 DEF Ids, IdsDistinct, Retires
  <2> QED
    BY <1>4, <2>1, <2>2 DEF IdsDistinct, SetsDistinct
<1>8. TasksMatch'
  <2>1. \A t \in Peers : \A n \in Coming'[t] : n \in Coming[t]
    BY <1>2, <1>3, PeersType
  <2>2. \A i \in Conns : \A n \in Coming'[Other(Owner(i))] :
         IsSet(n) /\ conn'[i].j = Task("data", n.id) =>
           /\ Data(n) /\ n.session = conn'[i].session
           /\ Len(n.data) = conn'[i].blockSize /\ n.close = conn'[i].closing
    BY <2>1, PeersType, TaskFields DEF Ids, TasksMatch, Retires
  <2>3. \A n \in Coming'[Acceptor] :
         IsSet(n) /\ conn'[0].j = Task("request", n.id) =>
           n.kind = "request" /\ n.session = nSessions'
    BY <1>5, <2>1, PeersType, TaskFields DEF Ids, TasksMatch
  <2>4. conn[0].j # Task("data", m.id) /\ (conn[0].j = Task("request", m.id) => s = nSessions)
    BY <1>1, PeersType DEF Ids, TasksMatch, IsSet, Data
  <2>5. \A i \in Conns :
         conn'[i].st = "WaitingForAccept" =>
           /\ conn'[0].j # Task("data", conn'[i].iqId)
           /\ conn'[0].j = Task("request", conn'[i].iqId) => i = nSessions'
    BY <1>1, <1>5, <2>4, TaskFields DEF Ids, TasksMatch, Retires
  <2>6. \A a \in Coming'[Requester] :
          a.kind = "result" /\ conn'[0].j = Task("request", a.id) => a.session = nSessions'
    BY <1>5, <2>1, TaskFields, PeersType DEF Ids, TasksMatch
  <2> QED
    BY <2>2, <2>3, <2>5, <2>6 DEF TasksMatch
<1> QED
  BY <1>6, <1>7, <1>8 DEF Ids

(* ... and is answered by it.                                               *)
LEMMA ReplyIds ==
    ASSUME Ids, TypeOK, UNCHANGED <<nextId, nSessions>>, \A k \in Conns : Retires(k),
           NEW i \in Conns, conn[i].st = "WaitingForAccept", NEW r, ~IsSet(r),
           r.id = conn[i].iqId, r.kind = "result" => r.session = i,
           Pushed(Requester, r), Unmoved(Acceptor), conn'[i].st # "WaitingForAccept"
    PROVE  Ids'
<1>1. Coming'[Acceptor] = Coming[Acceptor] /\ Coming'[Requester] = Coming[Requester] \cup {r}
  BY DEF Unmoved, Pushed
<1>2. \A t \in Peers : SetsDistinct(t)'
  <2>1. \A t \in Peers : SetsDistinct(t)
    BY DEF Ids, IdsDistinct, SetsDistinct
  <2>2. SetsDistinct(Acceptor)' /\ SetsDistinct(Requester)'
    BY <2>1, PushedDistinct, UnmovedDistinct, PeersType
  <2> QED
    BY <2>2, PeersType
<1>3. conn'[0].j = conn[0].j \/ conn'[0].j = NoTask
  BY PeersType DEF Retires
<1>4. IdsUsed'
  <2>1. r.id < nextId[Requester]
    BY DEF Ids, IdsUsed
  <2>2. \A t \in Peers : \A n \in Coming'[t] : n.id < nextId'[IF IsSet(n) THEN Other(t) ELSE t]
    BY <1>1, <2>1, PeersType DEF Ids, IdsUsed
  <2>3. \A k \in Conns : conn'[k].j.id < nextId'[Owner(k)]
    BY IdTypes, TaskFields, PeersType DEF Ids, IdsUsed, Retires
  <2>4. \A k \in Conns : conn'[k].st = "WaitingForAccept" => conn'[k].iqId < nextId'[Requester]
    BY DEF Ids, IdsUsed, Retires
  <2> QED
    BY <2>2, <2>3, <2>4 DEF Ids, IdsUsed
<1>5. IdsDistinct'
  <2>1. \A n \in Coming[Acceptor] : IsSet(n) => n.id # r.id
    BY DEF Ids, IdsDistinct
  <2>2. \A t \in Peers : \A n \in Coming'[t], a \in Coming'[Other(t)] :
          IsSet(n) /\ ~IsSet(a) => n.id # a.id
    BY <1>1, <2>1, PeersType DEF Ids, IdsDistinct
  <2>3. \A k \in Conns : \A n \in Coming'[Acceptor] :
          conn'[k].st = "WaitingForAccept" /\ IsSet(n) => conn'[k].iqId # n.id
    BY <1>1 DEF Ids, IdsDistinct, Retires
  <2> QED
    BY <1>2, <2>2, <2>3 DEF IdsDistinct, SetsDistinct
<1>6. TasksMatch'
  <2>1. \A t \in Peers : \A n \in Coming'[t] : IsSet(n) => n \in Coming[t]
    BY <1>1, PeersType
  <2>2. \A k \in Conns : \A n \in Coming'[Other(Owner(k))] :
         IsSet(n) /\ conn'[k].j = Task("data", n.id) =>
           /\ Data(n) /\ n.session = conn'[k].session
           /\ Len(n.data) = conn'[k].blockSize /\ n.close = conn'[k].closing
    BY <2>1, PeersType, TaskFields DEF Ids, TasksMatch, Retires
  <2>3. \A n \in Coming'[Acceptor] :
         IsSet(n) /\ conn'[0].j = Task("request", n.id) =>
           n.kind = "request" /\ n.session = nSessions'
    BY <1>3, <2>1, PeersType, TaskFields DEF Ids, TasksMatch
  <2>4. \A k \in Conns :
         conn'[k].st = "WaitingForAccept" =>
           /\ conn'[0].j # Task("data", conn'[k].iqId)
           /\ conn'[0].j = Task("request", conn'[k].iqId) => k = nSessions'
    BY <1>3, TaskFields DEF Ids, TasksMatch, Retires
  <2>5. \A a \in Coming'[Requester] :
          a.kind = "result" /\ conn'[0].j = Task("request", a.id) => a.session = nSessions'
    BY <1>1, <1>3, TaskFields, PeersType DEF Ids, TasksMatch
  <2> QED
    BY <2>2, <2>3, <2>4, <2>5 DEF TasksMatch
<1> QED
  BY <1>4, <1>5, <1>6 DEF Ids

(* A packet takes a new id, which is its connection's task if that goes on; *)
(* it is lost if the stream is down.                                        *)
LEMMA PacketIds ==
    ASSUME Ids, TypeOK, TypeOK', nSessions' = nSessions, NEW i \in Conns, NEW m, Data(m),
           m.id = nextId[Owner(i)],
           nextId' = [nextId EXCEPT ![Owner(i)] = @ + 1],
           \A k \in Conns \ {i} : Retires(k), conn'[i].st # "WaitingForAccept",
           \/ conn'[i].j = NoTask \/ conn'[i].j = Task("deleted", m.id)
           \/ /\ conn'[i].j = Task("data", m.id) /\ m.session = conn'[i].session
              /\ Len(m.data) = conn'[i].blockSize /\ m.close = conn'[i].closing,
           Pushed(Other(Owner(i)), m) \/ Unmoved(Other(Owner(i))), Unmoved(Owner(i))
    PROVE  Ids'
<1> DEFINE p == Owner(i)
           q == Other(p)
<1>1. /\ p \in Peers /\ q \in Peers /\ p # q /\ Other(q) = p /\ Other(p) = q
      /\ nextId'[p] = nextId[p] + 1 /\ nextId'[q] = nextId[q]
      /\ nextId[p] \in Nat /\ nextId[q] \in Nat
      /\ \A t \in Peers : t = p \/ t = q
  BY PeersType DEF TypeOK
<1>2. /\ Coming'[p] = Coming[p]
      /\ \A n \in Coming'[q] : n \in Coming[q] \/ n = m
  BY DEF Unmoved, Pushed
<1>3. \A n \in Coming[q] : IsSet(n) => n.id # m.id
  BY <1>1, IdTypes DEF Ids, IdsUsed
<1>4. \A n \in Coming[p] : ~IsSet(n) => n.id # m.id
  BY <1>1, IdTypes DEF Ids, IdsUsed
<1>5. \A t \in Peers : SetsDistinct(t)'
  <2>1. \A t \in Peers : SetsDistinct(t)
    BY DEF Ids, IdsDistinct, SetsDistinct
  <2>2. SetsDistinct(p)' /\ SetsDistinct(q)'
    BY <1>1, <1>3, <2>1, PushedDistinct, UnmovedDistinct
  <2> QED
    BY <1>1, <2>2
<1>6. \A k \in Conns : \/ conn'[k].j = NoTask
                       \/ k = i /\ conn'[k].j \in {Task("data", m.id), Task("deleted", m.id)}
                       \/ k # i /\ conn'[k].j = conn[k].j
  BY DEF Retires
<1>7. IsSet(m) /\ m.id = nextId[p]
  BY DEF IsSet, Data
<1>8. \A k \in Conns : conn'[k].st = "WaitingForAccept" =>
        k # i /\ conn[k].st = "WaitingForAccept" /\ conn'[k].iqId = conn[k].iqId
  BY DEF Retires
<1> HIDE DEF p, q
<1>9. IdsUsed'
  <2>1. \A t \in Peers : \A n \in Coming'[t] : n.id < nextId'[IF IsSet(n) THEN Other(t) ELSE t]
    <3>1. \A t \in Peers : \A n \in Coming'[t] : n \in Coming[t] \/ (t = q /\ n = m)
      BY <1>1, <1>2
    <3>2. \A t \in Peers : \A n \in Coming[t] : n.id < nextId[IF IsSet(n) THEN Other(t) ELSE t] /\ n.id \in Nat
      BY IdTypes DEF Ids, IdsUsed
    <3>3. \A t \in Peers : nextId[t] <= nextId'[t] /\ nextId[t] \in Nat /\ nextId'[t] \in Nat
                           /\ Other(t) \in Peers
      BY <1>1
    <3>4. m.id < nextId'[p]
      BY <1>1, <1>7
    <3>5. \A t \in Peers : \A n \in Coming[t] : n.id < nextId'[IF IsSet(n) THEN Other(t) ELSE t]
      BY <3>2, <3>3
    <3> QED
      BY <1>1, <1>7, <3>1, <3>4, <3>5
  <2>2. \A k \in Conns : conn'[k].j.id < nextId'[Owner(k)]
    <3>1. \A k \in Conns : conn[k].j.id < nextId[Owner(k)] /\ conn[k].j.id \in Nat
                           /\ Owner(k) \in Peers
      BY IdTypes, PeersType DEF Ids, IdsUsed
    <3>2. \A t \in Peers : nextId[t] <= nextId'[t] /\ nextId[t] \in Nat /\ nextId'[t] > 0
      BY <1>1 DEF Ids, IdsUsed
    <3>3. Owner(i) = p
      BY DEF p
    <3> QED
      BY <1>1, <1>6, <1>7, <3>1, <3>2, <3>3, TaskFields
  <2>3. \A k \in Conns : conn'[k].st = "WaitingForAccept" => conn'[k].iqId < nextId'[Requester]
    BY <1>1, <1>8, IdTypes, PeersType DEF Ids, IdsUsed
  <2> QED
    BY <1>1, <2>1, <2>2, <2>3 DEF Ids, IdsUsed
<1>10. IdsDistinct'
  <2>1. \A t \in Peers : \A n \in Coming'[t], a \in Coming'[Other(t)] :
          IsSet(n) /\ ~IsSet(a) => n.id # a.id
    BY <1>1, <1>2, <1>4, <1>7 DEF Ids, IdsDistinct
  <2>2. \A k \in Conns : \A n \in Coming'[Acceptor] :
          conn'[k].st = "WaitingForAccept" /\ IsSet(n) => conn'[k].iqId # n.id
    <3>1. \A n \in Coming'[Acceptor] : n \in Coming[Acceptor] \/ (p = Requester /\ n = m)
      BY <1>1, <1>2, PeersType
    <3>2. \A k \in Conns : conn[k].st = "WaitingForAccept" => conn[k].iqId < nextId[Requester]
                           /\ conn[k].iqId \in Nat
      BY IdTypes DEF Ids, IdsUsed
    <3> QED
      BY <1>1, <1>7, <1>8, <3>1, <3>2 DEF Ids, IdsDistinct
  <2> QED
    BY <1>5, <2>1, <2>2 DEF IdsDistinct, SetsDistinct
<1>11. TasksMatch'
  <2>1. \A k \in Conns : \A n \in Coming'[Other(Owner(k))] :
         IsSet(n) /\ conn'[k].j = Task("data", n.id) =>
           /\ Data(n) /\ n.session = conn'[k].session
           /\ Len(n.data) = conn'[k].blockSize /\ n.close = conn'[k].closing
    <3> SUFFICES ASSUME NEW k \in Conns, NEW n \in Coming'[Other(Owner(k))], IsSet(n),
                        conn'[k].j = Task("data", n.id)
                 PROVE  /\ Data(n) /\ n.session = conn'[k].session
                        /\ Len(n.data) = conn'[k].blockSize /\ n.close = conn'[k].closing
      OBVIOUS
    <3>1. Owner(k) \in Peers /\ Owner(i) = p
      BY PeersType DEF p
    <3>2. n \in Coming[Other(Owner(k))] \/ (Owner(k) = p /\ n = m)
      BY <1>1, <1>2, <3>1
    <3>3. CASE k = i
      <4>1. n.id = m.id
        BY <1>6, <3>3, TaskFields
      <4>2. n = m
        BY <1>1, <1>3, <3>1, <3>2, <3>3, <4>1 DEF q
      <4> QED
        BY <3>3, <4>2, TaskFields
    <3>4. CASE k # i
      <4>1. conn'[k].j = conn[k].j /\ conn[k].j = Task("data", n.id) /\ conn[k].j.id = n.id
        BY <1>6, <3>4, TaskFields
      <4>2. CASE n = m /\ Owner(k) = p
        <5>1. conn[k].j.id < nextId[p] /\ conn[k].j.id \in Nat
          BY <4>2, IdTypes DEF Ids, IdsUsed
        <5> QED
          BY <1>1, <1>7, <4>1, <4>2, <5>1
      <4>3. CASE n \in Coming[Other(Owner(k))]
        <5>1. conn'[k].session = conn[k].session /\ conn'[k].blockSize = conn[k].blockSize
              /\ conn'[k].closing = conn[k].closing
          BY <3>4, <4>1, TaskFields DEF Retires
        <5> QED
          BY <4>1, <4>3, <5>1 DEF Ids, TasksMatch
      <4> QED
        BY <3>2, <4>2, <4>3
    <3> QED
      BY <3>3, <3>4
  <2>2. \A n \in Coming'[Acceptor] :
         IsSet(n) /\ conn'[0].j = Task("request", n.id) =>
           n.kind = "request" /\ n.session = nSessions'
    <3> SUFFICES ASSUME NEW n \in Coming'[Acceptor], IsSet(n),
                        conn'[0].j = Task("request", n.id)
                 PROVE  n.kind = "request" /\ n.session = nSessions
      OBVIOUS
    <3>1. conn[0].j = Task("request", n.id) /\ conn[0].j.id = n.id /\ i # 0
      BY <1>6, PeersType, TaskFields
    <3>2. p = Acceptor
      BY <3>1, PeersType DEF p
    <3>3. n \in Coming[Acceptor]
      BY <1>2, <3>2
    <3> QED
      BY <3>1, <3>3 DEF Ids, TasksMatch
  <2>3. \A k \in Conns :
         conn'[k].st = "WaitingForAccept" =>
           /\ conn'[0].j # Task("data", conn'[k].iqId)
           /\ conn'[0].j = Task("request", conn'[k].iqId) => k = nSessions'
    <3> SUFFICES ASSUME NEW k \in Conns, conn'[k].st = "WaitingForAccept"
                 PROVE  /\ conn'[0].j # Task("data", conn'[k].iqId)
                        /\ conn'[0].j = Task("request", conn'[k].iqId) => k = nSessions
      OBVIOUS
    <3>1. conn'[k].iqId = conn[k].iqId /\ conn[k].st = "WaitingForAccept"
          /\ conn[k].iqId \in Nat /\ conn[k].iqId < nextId[Requester]
      BY <1>8, IdTypes DEF Ids, IdsUsed
    <3>2. CASE i = 0
      <4>1. conn[k].iqId # m.id
        BY <1>1, <1>7, <3>1, <3>2, PeersType DEF p
      <4> QED
        BY <1>6, <3>1, <3>2, <4>1, TaskFields
    <3>3. CASE i # 0
      <4>1. conn'[0].j = conn[0].j \/ conn'[0].j = NoTask
        BY <1>6, <3>3, PeersType
      <4> QED
        BY <3>1, <4>1, TaskFields DEF Ids, TasksMatch
    <3> QED
      BY <3>2, <3>3
  <2>4. \A a \in Coming'[Requester] :
          a.kind = "result" /\ conn'[0].j = Task("request", a.id) => a.session = nSessions'
    <3> SUFFICES ASSUME NEW a \in Coming'[Requester], a.kind = "result",
                        conn'[0].j = Task("request", a.id)
                 PROVE  a.session = nSessions
      OBVIOUS
    <3>1. conn[0].j = Task("request", a.id)
      BY <1>6, PeersType, TaskFields
    <3>2. a \in Coming[Requester]
      BY <1>1, <1>2, PeersType DEF Data
    <3> QED
      BY <3>1, <3>2 DEF Ids, TasksMatch
  <2> QED
    BY <2>1, <2>2, <2>3, <2>4 DEF TasksMatch
<1> QED
  BY <1>9, <1>10, <1>11 DEF Ids


-----------------------------------------------------------------------------
(* What each action does.                                                   *)

(* A connection is what it was but for what waits to be read, its timer and *)
(* the signal being handled ...                                             *)
Keeps(k) ==
    /\ conn'[k].st = conn[k].st /\ conn'[k].session = conn[k].session
    /\ conn'[k].j = conn[k].j /\ conn'[k].iqId = conn[k].iqId
    /\ conn'[k].blockSize = conn[k].blockSize /\ conn'[k].closing = conn[k].closing
    /\ conn'[k].sendbuf = conn[k].sendbuf
(* ... and if a handler of it has returned, nothing was left to be done.    *)
Settles(k) ==
    \/ conn'[k].emits = conn[k].emits
    \/ /\ conn'[k].emits = "none"
       /\ \/ conn[k].emits = "bytesWritten" /\ ~conn[k].closing
          \/ conn[k].emits = "readyRead" /\ conn[k].st = "Idle"
Rests(k) == Keeps(k) /\ Settles(k)
RestBut(i) == \A k \in Conns \ {i} : Rests(k)
Stops(k) ==
    /\ conn'[k].st = "Idle" /\ conn'[k].j = NoTask /\ conn'[k].closing = FALSE
    /\ conn'[k].sendbuf = <<>>

(* What the two applications saw is not changed by a step ...               *)
Same(p, s) ==
    /\ hist'[p][s].sent = hist[p][s].sent /\ hist'[p][s].got = hist[p][s].got
    /\ hist'[p][s].acked = hist[p][s].acked /\ hist'[p][s].end = hist[p][s].end
Remembered == \A p \in Peers, s \in Sids : hist[p][s].hasty => hist'[p][s].hasty
SameHist == (\A p \in Peers, s \in Sids : Same(p, s)) /\ Remembered
(* ... or one session of one end has a new history.                         *)
Only(p, s) ==
    \A r \in Peers, t \in Sids : r # p \/ t # s => hist'[r][t] = hist[r][t]
Ended(p, s, how) ==
    /\ Only(p, s)
    /\ hist'[p][s].sent = hist[p][s].sent /\ hist'[p][s].got = hist[p][s].got
    /\ hist'[p][s].acked = hist[p][s].acked /\ hist'[p][s].end = how
    /\ hist'[p][s].hasty = hist[p][s].hasty
Grown(p, s, bytes) ==
    /\ Only(p, s)
    /\ hist'[p][s].sent = hist[p][s].sent \o bytes /\ hist'[p][s].got = hist[p][s].got
    /\ hist'[p][s].acked = hist[p][s].acked /\ hist'[p][s].end = hist[p][s].end
    /\ hist[p][s].hasty => hist'[p][s].hasty

LEMMA FieldTypes ==
    ASSUME TypeOK
    PROVE  /\ \A i \in Conns :
                /\ conn[i] \in Connections /\ conn[i].session \in Sids
                /\ conn[i].sendbuf \in Seq(Nat) /\ conn[i].blockSize \in Nat
                /\ conn[i].closing \in BOOLEAN /\ conn[i].st \in States
                /\ Len(conn[i].sendbuf) \in Nat
           /\ \A p \in Peers, s \in Sids :
                /\ hist[p][s] \in Histories /\ hist[p][s].sent \in Seq(Nat)
                /\ hist[p][s].got \in Seq(Nat) /\ hist[p][s].acked \in Nat
                /\ Len(hist[p][s].sent) \in Nat /\ Len(hist[p][s].got) \in Nat
           /\ nSessions \in Nat /\ nSessions \in Sids
<1>1. /\ \A i \in Conns : conn[i] \in Connections
      /\ \A p \in Peers, s \in Sids : hist[p][s] \in Histories
      /\ nSessions \in Sids
  BY DEF TypeOK
<1>2. \A c \in Connections :
        /\ c.session \in Sids /\ c.sendbuf \in Seq(Nat) /\ c.blockSize \in Nat
        /\ c.closing \in BOOLEAN /\ c.st \in States /\ Len(c.sendbuf) \in Nat
  BY DEF Connections
<1>3. \A h \in Histories :
        /\ h.sent \in Seq(Nat) /\ h.got \in Seq(Nat) /\ h.acked \in Nat
        /\ Len(h.sent) \in Nat /\ Len(h.got) \in Nat
  BY DEF Histories
<1> QED
  BY <1>1, <1>2, <1>3, SidsType

LEMMA FinishDoes ==
    ASSUME TypeOK, NEW p \in Peers, NEW s \in Sids, NEW how, Finish(p, s, how)
    PROVE  Ended(p, s, how)
<1>1. hist \in [Peers -> [Sids -> Histories]] /\ hist[p][s] \in Histories
  BY DEF TypeOK
<1>2. hist' = [hist EXCEPT ![p] = [hist[p] EXCEPT ![s].end = how]]
  BY DEF Finish
<1>3. hist'[p][s] = [hist[p][s] EXCEPT !.end = how]
  <2>1. hist'[p] = [hist[p] EXCEPT ![s].end = how]
    BY <1>1, <1>2
  <2> QED
    BY <1>1, <2>1
<1>4. Only(p, s)
  BY <1>1, <1>2 DEF Only
<1> QED
  BY <1>1, <1>3, <1>4 DEF Ended, Histories

LEMMA ResetDoes ==
    ASSUME TypeOK, NEW i \in Conns, NEW c \in Connections,
           conn' = [conn EXCEPT ![i] = Reset(c)] \/ conn' = [conn EXCEPT ![i] = ResetClear(c)]
    PROVE  /\ Stops(i) /\ RestBut(i) /\ conn'[i].session = c.session
           /\ conn'[i].emits = c.emits
<1>1. /\ Reset(c).st = "Idle" /\ Reset(c).j = NoTask /\ Reset(c).closing = FALSE
      /\ Reset(c).sendbuf = <<>> /\ Reset(c).session = c.session
      /\ ResetClear(c).st = "Idle" /\ ResetClear(c).j = NoTask /\ ResetClear(c).closing = FALSE
      /\ ResetClear(c).sendbuf = <<>> /\ ResetClear(c).session = c.session
      /\ Reset(c).emits = c.emits /\ ResetClear(c).emits = c.emits
  BY DEF Reset, ResetClear, Connections
<1> QED
  BY <1>1 DEF TypeOK, Stops, RestBut, Rests, Keeps, Settles

RestStep == (\A k \in Conns : Rests(k)) /\ SameHist /\ UNCHANGED <<net, nextId, up, nSessions>>

(* Bytes are added to the buffer while a packet is under way ...            *)
WriteStep(i, bytes) ==
    /\ conn[i].st = "Active" /\ ~conn[i].closing /\ conn[i].j # NoTask
    /\ RestBut(i)
    /\ conn'[i].st = "Active" /\ conn'[i].session = conn[i].session
    /\ conn'[i].j = conn[i].j /\ conn'[i].iqId = conn[i].iqId
    /\ conn'[i].blockSize = conn[i].blockSize /\ conn'[i].closing = conn[i].closing
    /\ conn'[i].sendbuf = conn[i].sendbuf \o bytes /\ conn'[i].emits = conn[i].emits
    /\ Grown(Owner(i), conn[i].session, bytes)
    /\ UNCHANGED <<net, nextId, up, nSessions>>

(* ... or a packet m of what is in it then is sent, if the stream is up.    *)
SendStep(i, bytes, m) ==
    /\ conn[i].st = "Active" /\ conn[i].j = NoTask /\ ~conn[i].closing
    /\ RestBut(i)
    /\ Data(m) /\ m.id = nextId[Owner(i)] /\ m.session = conn[i].session
    /\ m.data \in Seq(Nat)
    /\ conn'[i].st = "Active" /\ conn'[i].session = conn[i].session
    /\ conn'[i].j = Task(IF up[Owner(i)] THEN "data" ELSE "deleted", m.id)
    /\ conn'[i].blockSize = Len(m.data)
    /\ conn'[i].closing = m.close /\ conn'[i].emits = conn[i].emits
    /\ m.close /\ conn[i].emits = "bytesWritten" =>
         hist'[Owner(i)][conn[i].session].hasty
    /\ Len(m.data) + Len(conn'[i].sendbuf) = Len(conn[i].sendbuf) + Len(bytes)
    /\ m.close => conn'[i].sendbuf = <<>>
    /\ Len(conn[i].sendbuf) + Len(bytes) <= PacketSize =>
         conn'[i].sendbuf = <<>> /\ m.data = conn[i].sendbuf \o bytes
    /\ Grown(Owner(i), conn[i].session, bytes)
    /\ IF up[Owner(i)] THEN Pushed(Other(Owner(i)), m) ELSE Unmoved(Other(Owner(i)))
    /\ Unmoved(Owner(i))
    /\ nextId' = [nextId EXCEPT ![Owner(i)] = @ + 1]
    /\ UNCHANGED <<up, nSessions>>

LEMMA GrownByNothing ==
    ASSUME TypeOK, NEW p \in Peers, NEW s \in Sids, Grown(p, s, <<>>)
    PROVE  SameHist
<1>1. hist[p][s].sent \o <<>> = hist[p][s].sent
  BY FieldTypes
<1> QED
  BY <1>1 DEF Grown, Only, SameHist, Same, Remembered

LEMMA TrySendDoes ==
    ASSUME TypeOK, TypeOK', ConnectionsOK, NEW i \in Conns, NEW c \in Connections,
           NEW bytes \in Seq(Nat), TrySend(i, c),
           c.st = conn[i].st, c.session = conn[i].session, c.j = conn[i].j,
           c.iqId = conn[i].iqId, c.blockSize = conn[i].blockSize,
           c.closing = conn[i].closing, c.sendbuf = conn[i].sendbuf \o bytes,
           c.st # "Active" => bytes = <<>> /\ c.closePending = conn[i].closePending,
           c.closing => bytes = <<>> /\ ~CanSend(c), c.emits = conn[i].emits,
           Grown(Owner(i), conn[i].session, bytes),
           c.closePending /\ c.emits = "bytesWritten" =>
             hist'[Owner(i)][conn[i].session].hasty,
           UNCHANGED <<up, nSessions>>
    PROVE  RestStep \/ WriteStep(i, bytes) \/ \E m \in Stanzas : SendStep(i, bytes, m)
<1>1. /\ Owner(i) \in Peers /\ Other(Owner(i)) \in Peers /\ nextId[Owner(i)] \in Nat
      /\ conn[i].sendbuf \in Seq(Nat) /\ conn[i].st \in States
      /\ c.st \in States /\ c.sendbuf \in Seq(Nat) /\ conn[i].session \in Sids
      /\ c.closing \in BOOLEAN
  BY PeersType, FieldTypes DEF TypeOK, Connections
<1>2. CASE ~CanSend(c)
  <2>1. conn' = [conn EXCEPT ![i] = c] /\ UNCHANGED <<net, nextId>>
    BY <1>2 DEF TrySend
  <2>2. RestBut(i) /\ conn'[i] = c
    BY <2>1 DEF RestBut, Rests, Keeps, Settles, TypeOK
  <2>3. CASE bytes = <<>>
    <3>1. c.sendbuf = conn[i].sendbuf
      BY <1>1, <2>3
    <3>2. SameHist
      BY <1>1, <2>3, GrownByNothing
    <3> QED
      BY <2>1, <2>2, <2>3, <3>1, <3>2 DEF RestStep, Rests, Keeps, Settles, RestBut
  <2>4. CASE bytes # <<>>
    <3>1. c.sendbuf # <<>>
      BY <1>1, <2>4
    <3>2. conn[i].j # NoTask /\ conn[i].st = "Active" /\ ~conn[i].closing
      BY <1>2, <2>4, <3>1 DEF CanSend, HasWork
    <3> QED
      BY <2>1, <2>2, <3>2 DEF WriteStep
  <2> QED
    BY <2>3, <2>4
<1>3. CASE CanSend(c)
  <2> DEFINE p == Owner(i)
             m == Packet(c, nextId[p])
             task == Task(IF up[p] THEN "data" ELSE "deleted", nextId[p])
             d == AfterSend(c, task)
  <2>1. /\ conn' = [conn EXCEPT ![i] = d] /\ nextId' = [nextId EXCEPT ![p] = @ + 1]
        /\ net' = IF up[p] THEN [net EXCEPT ![Other(p)] = Append(@, m)] ELSE net
    BY <1>3 DEF TrySend
  <2>2. conn[i].st = "Active" /\ conn[i].j = NoTask
    <3>1. conn[i].j = NoTask /\ (conn[i].sendbuf \o bytes # <<>> \/ c.closePending)
      BY <1>3 DEF CanSend, HasWork
    <3>2. CASE c.st # "Active"
      <4>1. HasWork(conn[i])
        BY <1>1, <3>1, <3>2 DEF HasWork
      <4> QED
        BY <1>1, <3>1, <3>2, <4>1, TaskFields DEF ConnectionsOK, ConnectionOK, Quiet, States
    <3> QED
      BY <3>1, <3>2
  <2>3. /\ m.kind = "data" /\ m.id = nextId[p] /\ m.session = c.session
        /\ m.data = Chunk(c) /\ m.close = DoClose(c) /\ m \in Stanzas
    BY <1>1, StanzaFields, PacketType DEF Packet
  <2>4. /\ d.st = c.st /\ d.session = c.session
        /\ d.j = Task(IF up[p] THEN "data" ELSE "deleted", m.id)
        /\ d.sendbuf = Rest(c) /\ d.blockSize = ChunkSize(c) /\ d.emits = c.emits
        /\ d.closing = (c.closing \/ DoClose(c))
    <3> HIDE DEF m
    <3>1. task = Task(IF up[p] THEN "data" ELSE "deleted", m.id)
      BY <2>3
    <3> HIDE DEF task
    <3> QED
      BY <3>1 DEF AfterSend, Connections
  <2>5. /\ Len(Chunk(c)) = ChunkSize(c) /\ Chunk(c) \in Seq(Nat)
        /\ Len(Chunk(c)) + Len(Rest(c)) = Len(c.sendbuf)
        /\ Len(c.sendbuf) <= PacketSize => Rest(c) = <<>> /\ Chunk(c) = c.sendbuf
    <3>1. ChunkSize(c) \in 0..Len(c.sendbuf) /\ Len(c.sendbuf) \in Nat
      BY <1>1, ChunkType
    <3>2. Len(Chunk(c)) = ChunkSize(c) /\ Len(Rest(c)) = Len(c.sendbuf) - ChunkSize(c)
      BY <1>1, <3>1 DEF Chunk, Rest
    <3>3. ASSUME Len(c.sendbuf) <= PacketSize
          PROVE  Rest(c) = <<>> /\ Chunk(c) = c.sendbuf
      <4>1. Len(c.sendbuf) \in Nat /\ PacketSize \in Nat
        BY <3>1, IBBAssumption
      <4>2. Len(c.sendbuf) < PacketSize \/ Len(c.sendbuf) = PacketSize
        BY <3>3, <4>1
      <4>3. ChunkSize(c) = Len(c.sendbuf)
        BY <4>2, Zenon DEF ChunkSize
      <4> QED
        BY <1>1, <3>1, <4>3 DEF Rest, Chunk
    <3>4. Chunk(c) \in Seq(Nat)
      BY ChunkType
    <3>5. Len(Chunk(c)) + Len(Rest(c)) = Len(c.sendbuf)
      BY <3>1, <3>2
    <3> QED
      BY <3>2, <3>3, <3>4, <3>5
  <2>6. DoClose(c) => Rest(c) = <<>> /\ c.closePending
    BY DEF DoClose
  <2>7. Len(c.sendbuf) = Len(conn[i].sendbuf) + Len(bytes)
    BY <1>1
  <2> HIDE DEF m, d
  <2>8. conn'[i] = d /\ RestBut(i)
    BY <2>1 DEF RestBut, Rests, Keeps, Settles, TypeOK
  <2>9. /\ IF up[p] THEN Pushed(Other(p), m) ELSE Unmoved(Other(p))
        /\ Unmoved(p)
    BY <1>1, <2>1, SendsOne, Stays, PeersType
  <2>10. ~c.closing /\ conn[i].closing = FALSE /\ m.close \in BOOLEAN
    BY <1>1, <1>3, <2>3 DEF Stanzas, Connections
  <2>11. /\ conn'[i].closing = m.close /\ conn'[i].emits = conn[i].emits
         /\ m.close /\ conn[i].emits = "bytesWritten" => hist'[p][conn[i].session].hasty
    BY <2>3, <2>4, <2>6, <2>8, <2>10
  <2>12. /\ Len(m.data) + Len(conn'[i].sendbuf) = Len(conn[i].sendbuf) + Len(bytes)
         /\ m.close => conn'[i].sendbuf = <<>>
         /\ Len(conn[i].sendbuf) + Len(bytes) <= PacketSize =>
              conn'[i].sendbuf = <<>> /\ m.data = conn[i].sendbuf \o bytes
         /\ m.data \in Seq(Nat) /\ conn'[i].blockSize = Len(m.data)
    BY <2>3, <2>4, <2>5, <2>6, <2>7, <2>8
  <2>13. /\ Data(m) /\ m.id = nextId[p] /\ m.session = conn[i].session
         /\ conn'[i].st = "Active" /\ conn'[i].session = conn[i].session
         /\ conn'[i].j = Task(IF up[p] THEN "data" ELSE "deleted", m.id)
    BY <2>2, <2>3, <2>4, <2>8 DEF Data
  <2>14. SendStep(i, bytes, m)
    BY <2>1, <2>2, <2>8, <2>9, <2>10, <2>11, <2>12, <2>13 DEF SendStep
  <2> QED
    BY <2>3, <2>14
<1> QED
  BY <1>2, <1>3

LEMMA GrowsNothing ==
    ASSUME TypeOK, hist' = hist, NEW p \in Peers, NEW s \in Sids
    PROVE  Grown(p, s, <<>>)
<1>1. hist[p][s].sent \o <<>> = hist[p][s].sent
  BY FieldTypes
<1> QED
  BY <1>1 DEF Grown, Only

(* The value of a byte is its place.                                        *)
Numbered(i, bytes) ==
    \A b \in 1..Len(bytes) : bytes[b] = Len(hist[Owner(i)][conn[i].session].sent) + b

LEMMA WriteDoes ==
    ASSUME TypeOK, TypeOK', ConnectionsOK, NEW i \in Conns, NEW n \in Nat \ {0}, Write(i, n)
    PROVE  \E bytes \in Seq(Nat) :
             /\ Numbered(i, bytes)
             /\ RestStep \/ WriteStep(i, bytes) \/ \E m \in Stanzas : SendStep(i, bytes, m)
<1> DEFINE p == Owner(i)
           s == conn[i].session
           sent == hist[p][s].sent
           bytes == [b \in 1..n |-> Len(sent) + b]
           c == [conn[i] EXCEPT !.sendbuf = @ \o bytes]
<1>1. p \in Peers /\ s \in Sids /\ conn[i] \in Connections /\ sent \in Seq(Nat)
      /\ Len(sent) \in Nat
  BY FieldTypes, PeersType
<1>2. bytes \in Seq(Nat) /\ Len(bytes) = n /\ \A b \in 1..n : bytes[b] = Len(sent) + b
  BY <1>1, BytesType
<1>3. /\ conn[i].st = "Active" /\ ~conn[i].closing /\ ~conn[i].closePending /\ TrySend(i, c)
      /\ hist' = [hist EXCEPT ![p][s].sent = @ \o bytes]
      /\ UNCHANGED <<up, nSessions>>
  BY DEF Write
<1> HIDE DEF bytes
<1>4. conn[i].sendbuf \o bytes \in Seq(Nat)
  BY <1>1, <1>2, FieldTypes, ConcatProperties
<1>5. /\ c \in Connections /\ c.st = conn[i].st /\ c.session = conn[i].session /\ c.j = conn[i].j
      /\ c.iqId = conn[i].iqId /\ c.blockSize = conn[i].blockSize
      /\ c.closing = conn[i].closing /\ c.sendbuf = conn[i].sendbuf \o bytes
      /\ c.emits = conn[i].emits /\ c.closePending = conn[i].closePending
  BY <1>1, <1>4 DEF Connections
<1>6. Grown(p, s, bytes)
  <2>1. hist \in [Peers -> [Sids -> Histories]] /\ hist[p][s] \in Histories
    BY <1>1 DEF TypeOK
  <2>2. hist' = [hist EXCEPT ![p] = [hist[p] EXCEPT ![s].sent = sent \o bytes]]
    BY <1>1, <1>3
  <2>3. hist'[p][s] = [hist[p][s] EXCEPT !.sent = sent \o bytes]
    <3>1. hist'[p] = [hist[p] EXCEPT ![s].sent = sent \o bytes]
      BY <1>1, <2>1, <2>2
    <3> QED
      BY <1>1, <2>1, <3>1
  <2>4. Only(p, s)
    BY <1>1, <2>1, <2>2 DEF Only
  <2> QED
    BY <2>1, <2>3, <2>4 DEF Grown, Histories
<1> HIDE DEF c
<1>7. bytes # <<>>
  BY <1>2
<1>8. RestStep \/ WriteStep(i, bytes) \/ \E m \in Stanzas : SendStep(i, bytes, m)
  BY <1>2, <1>3, <1>5, <1>6, <1>7, TrySendDoes
<1> QED
  BY <1>2, <1>8 DEF Numbered

(* close() in a handler of bytesWritten() is remembered.                    *)
LEMMA HastyDoes ==
    ASSUME TypeOK, NEW p \in Peers, NEW s \in Sids,
           hist' = [hist EXCEPT ![p][s].hasty = TRUE]
    PROVE  Grown(p, s, <<>>) /\ hist'[p][s].hasty
<1>1. hist \in [Peers -> [Sids -> Histories]] /\ hist[p][s] \in Histories
  BY DEF TypeOK
<1>2. hist' = [hist EXCEPT ![p] = [hist[p] EXCEPT ![s].hasty = TRUE]]
  OBVIOUS
<1>3. hist'[p][s] = [hist[p][s] EXCEPT !.hasty = TRUE]
  <2>1. hist'[p] = [hist[p] EXCEPT ![s].hasty = TRUE]
    BY <1>1, <1>2
  <2> QED
    BY <1>1, <2>1
<1>4. Only(p, s)
  BY <1>1, <1>2 DEF Only
<1>5. hist[p][s].sent \o <<>> = hist[p][s].sent
  BY FieldTypes
<1> QED
  BY <1>1, <1>3, <1>4, <1>5 DEF Grown, Histories

(* The timer, a close() that waits, and read().                             *)
LEMMA SmallStepsDo ==
    ASSUME TypeOK, TypeOK', ConnectionsOK, EndsKnown, NEW i \in Conns,
           TimerFires(i) \/ ClosePend(i) \/ Read(i)
    PROVE  RestStep \/ WriteStep(i, <<>>) \/ \E m \in Stanzas : SendStep(i, <<>>, m)
<1>1. conn[i] \in Connections /\ conn[i].sendbuf \in Seq(Nat) /\ <<>> \in Seq(Nat)
      /\ conn[i].session \in Sids /\ Owner(i) \in Peers /\ conn[i].sendbuf \o <<>> = conn[i].sendbuf
      /\ Closes(i)
  BY FieldTypes, PeersType DEF EndsKnown
<1>2. CASE TimerFires(i)
  <2> DEFINE c == [conn[i] EXCEPT !.timer = FALSE]
  <2>1. TrySend(i, c) /\ UNCHANGED <<up, nSessions, hist>> /\ conn[i].emits = "none"
    BY <1>2 DEF TimerFires, Free, ConnsOf
  <2>2. /\ c \in Connections /\ c.st = conn[i].st /\ c.session = conn[i].session
        /\ c.j = conn[i].j /\ c.iqId = conn[i].iqId /\ c.blockSize = conn[i].blockSize
        /\ c.closing = conn[i].closing /\ c.sendbuf = conn[i].sendbuf
        /\ c.closePending = conn[i].closePending /\ c.emits = "none"
    BY <1>1, <2>1 DEF Connections
  <2>3. Grown(Owner(i), conn[i].session, <<>>)
    BY <1>1, <2>1, GrowsNothing
  <2> HIDE DEF c
  <2>4. c.closing => ~CanSend(c)
    BY <1>1, <2>1, <2>2 DEF Closes, CanSend
  <2> QED
    BY <1>1, <2>1, <2>2, <2>3, <2>4, TrySendDoes
<1>3. CASE ClosePend(i)
  <2> DEFINE c == [conn[i] EXCEPT !.closePending = TRUE]
  <2>1. /\ TrySend(i, c) /\ UNCHANGED <<up, nSessions>> /\ conn[i].st = "Active"
        /\ conn[i].sendbuf # <<>>
        /\ hist' = IF conn[i].emits = "bytesWritten"
                   THEN [hist EXCEPT ![Owner(i)][conn[i].session].hasty = TRUE] ELSE hist
    BY <1>3 DEF ClosePend
  <2>2. /\ c \in Connections /\ c.st = conn[i].st /\ c.session = conn[i].session
        /\ c.j = conn[i].j /\ c.iqId = conn[i].iqId /\ c.blockSize = conn[i].blockSize
        /\ c.closing = conn[i].closing /\ c.sendbuf = conn[i].sendbuf
        /\ c.emits = conn[i].emits
    BY <1>1 DEF Connections
  <2>3. /\ Grown(Owner(i), conn[i].session, <<>>)
        /\ conn[i].emits = "bytesWritten" => hist'[Owner(i)][conn[i].session].hasty
    BY <1>1, <2>1, GrowsNothing, HastyDoes
  <2>4. ~conn[i].closing
    BY <1>1, <2>1 DEF Closes
  <2> HIDE DEF c
  <2> QED
    BY <1>1, <2>1, <2>2, <2>3, <2>4, TrySendDoes
<1>4. CASE Read(i)
  <2>1. conn' = [conn EXCEPT ![i] = [conn[i] EXCEPT !.recvbuf = <<>>]]
        /\ UNCHANGED <<net, nextId, up, nSessions, hist>>
    BY <1>4 DEF Read, TypeOK
  <2>2. \A k \in Conns : Rests(k)
    BY <1>1, <2>1 DEF Rests, Keeps, Settles, TypeOK, Connections
  <2> QED
    BY <2>1, <2>2 DEF RestStep, SameHist, Same, Remembered
<1> QED
  BY <1>2, <1>3, <1>4


AcceptStep(i) ==
    /\ i \in Sessions /\ conn[i].st = "WaitingForAccept" /\ RestBut(i)
    /\ conn'[i].st = "Active" /\ conn'[i].session = conn[i].session
    /\ conn'[i].j = conn[i].j /\ conn'[i].closing = conn[i].closing
    /\ conn'[i].blockSize = conn[i].blockSize /\ conn'[i].sendbuf = conn[i].sendbuf
    /\ conn'[i].emits = conn[i].emits
    /\ Pushed(Requester, Result(conn[i].iqId, i)) /\ Unmoved(Acceptor)
    /\ UNCHANGED <<nextId, up, nSessions, hist>>

LEMMA AcceptDoes ==
    ASSUME TypeOK, EndsKnown, NEW i \in Conns, Accept(i)
    PROVE  AcceptStep(i)
<1>1. i \in Sessions /\ conn[i].session = i
  BY PeersType DEF Accept, EndsKnown
<1>2. conn' = [conn EXCEPT ![i] = [conn[i] EXCEPT !.st = "Active"]] /\ conn[i] \in Connections
  BY DEF Accept, TypeOK
<1>3. net' = [net EXCEPT ![Requester] = Append(@, Result(conn[i].iqId, i))]
  BY <1>1 DEF Accept
<1>4. Pushed(Requester, Result(conn[i].iqId, i)) /\ Unmoved(Acceptor)
  BY <1>3, SendsOne, PeersType
<1>5. RestBut(i)
  BY <1>2 DEF RestBut, Rests, Keeps, Settles, TypeOK
<1>6. conn'[i] = [conn[i] EXCEPT !.st = "Active"]
  BY <1>2 DEF TypeOK
<1> QED
  BY <1>1, <1>2, <1>4, <1>5, <1>6 DEF AcceptStep, Accept, Connections

(* A request, or an answer to one, is given up without a word ...           *)
LeaveStep(i, how) ==
    /\ conn[i].st \in {"Requesting", "WaitingForAccept"}
    /\ IF i = 0 THEN how \in {"abandoned", "undone"} ELSE how = "dropped"
    /\ IF how = "undone" THEN conn'[i].emits = "none" ELSE conn'[i].emits = conn[i].emits
    /\ Stops(i) /\ RestBut(i) /\ conn'[i].session = conn[i].session
    /\ Ended(Owner(i), SessionOf(i), how)
    /\ UNCHANGED <<net, nextId, up, nSessions>>
(* ... or refused ...                                                       *)
RefuseStep(i) ==
    /\ i \in Sessions /\ conn[i].st = "WaitingForAccept"
    /\ Stops(i) /\ RestBut(i) /\ conn'[i].session = conn[i].session
    /\ conn'[i].emits = conn[i].emits
    /\ Ended(Acceptor, i, "refused")
    /\ Pushed(Requester, Error(conn[i].iqId)) /\ Unmoved(Acceptor)
    /\ UNCHANGED <<nextId, up, nSessions>>
(* ... and a stream is closed.                                              *)
Goodbye(i) == Stanza("data", nextId[Owner(i)], conn[i].session, <<>>, TRUE)
CloseStep(i) ==
    /\ conn[i].st = "Active" /\ conn[i].sendbuf = <<>>
    /\ Stops(i) /\ RestBut(i) /\ conn'[i].session = conn[i].session
    /\ Ended(Owner(i), conn[i].session, "closed")
    /\ Pushed(Other(Owner(i)), Goodbye(i)) /\ Unmoved(Owner(i))
    /\ nextId' = [nextId EXCEPT ![Owner(i)] = @ + 1]
    /\ UNCHANGED <<up, nSessions>>

(* A handler returns, and the stream ends.                                  *)
EndStep(i, how) ==
    /\ conn[i].st = "Active" /\ conn'[i].emits = "none"
    /\ \/ /\ how = "delayedCloseFinished"
          /\ conn[i].emits = "bytesWritten" /\ conn[i].closing
       \/ how = "connectionClosed" /\ conn[i].emits = "readyRead"
    /\ Stops(i) /\ RestBut(i) /\ conn'[i].session = conn[i].session
    /\ Ended(Owner(i), conn[i].session, how)
    /\ UNCHANGED <<net, nextId, up, nSessions>>

LEMMA CloseDoes ==
    ASSUME TypeOK, EndsKnown, NEW i \in Conns, CloseNow(i) \/ DropIncoming(i)
    PROVE  (\E how \in Ends : LeaveStep(i, how)) \/ RefuseStep(i) \/ CloseStep(i)
<1>1. /\ SessionOf(i) \in Sids /\ Owner(i) \in Peers /\ conn[i] \in Connections
      /\ conn[i].session \in Sids /\ {"abandoned", "dropped"} \subseteq Ends
  BY FieldTypes, PeersType DEF SessionOf, Ends
<1>2. /\ conn[i].st = "WaitingForAccept" => i \in Sessions /\ Owner(i) = Acceptor
      /\ conn[i].st = "Active" => SessionOf(i) = conn[i].session
      /\ conn[i].st = "Requesting" => i = 0
  BY PeersType DEF EndsKnown, SessionOf
<1>3. CASE DropIncoming(i)
  <2>1. /\ Stops(i) /\ RestBut(i) /\ conn'[i].session = conn[i].session
        /\ conn'[i].emits = conn[i].emits
    BY <1>1, <1>3, ResetDoes DEF DropIncoming, TypeOK
  <2>2. Ended(Owner(i), SessionOf(i), "dropped") /\ i # 0
    BY <1>1, <1>2, <1>3, FinishDoes, PeersType DEF DropIncoming, SessionOf
  <2>3. LeaveStep(i, "dropped")
    BY <1>3, <2>1, <2>2 DEF LeaveStep, DropIncoming
  <2> QED
    BY <1>1, <2>3
<1>4. CASE CloseNow(i)
  <2>1. /\ conn[i].st # "Idle" /\ ~(conn[i].st = "Active" /\ conn[i].sendbuf # <<>>)
        /\ conn' = [conn EXCEPT ![i] = Reset(conn[i])]
        /\ net' = [net EXCEPT ![Other(Owner(i))] = @ \o CloseStanzas(i)]
        /\ nextId' = [nextId EXCEPT ![Owner(i)] = IF conn[i].st = "Active" THEN @ + 1 ELSE @]
        /\ Finish(Owner(i), SessionOf(i), IF conn[i].st = "WaitingForAccept" THEN "refused"
                        ELSE IF conn[i].st = "Requesting" THEN "abandoned" ELSE "closed")
        /\ UNCHANGED <<up, nSessions>>
    BY <1>4 DEF CloseNow, SessionOf
  <2>2. /\ Stops(i) /\ RestBut(i) /\ conn'[i].session = conn[i].session
        /\ conn'[i].emits = conn[i].emits
    BY <1>1, <2>1, ResetDoes
  <2>3. net \in [Peers -> Seq(Stanzas)] /\ Other(Owner(i)) \in Peers /\ nextId \in [Peers -> Nat]
    BY <1>1, PeersType DEF TypeOK
  <2>4. CASE conn[i].st = "Active"
    <3>1. CloseStanzas(i) = <<Goodbye(i)>>
      BY <2>4 DEF CloseStanzas, Goodbye
    <3>2. net' = [net EXCEPT ![Other(Owner(i))] = Append(@, Goodbye(i))]
      <4>1. net[Other(Owner(i))] \in Seq(Stanzas)
        BY <2>3
      <4>2. net[Other(Owner(i))] \o <<Goodbye(i)>> = Append(net[Other(Owner(i))], Goodbye(i))
        BY <4>1
      <4>3. net' = [net EXCEPT ![Other(Owner(i))] = net[Other(Owner(i))] \o <<Goodbye(i)>>]
        BY <2>1, <3>1
      <4> QED
        BY <4>2, <4>3
    <3>3. Pushed(Other(Owner(i)), Goodbye(i)) /\ Unmoved(Owner(i))
      BY <1>1, <2>3, <3>2, SendsOne, PeersType, ZenonT(30)
    <3>4. Ended(Owner(i), conn[i].session, "closed")
      BY <1>1, <1>2, <2>1, <2>4, FinishDoes
    <3>5. nextId' = [nextId EXCEPT ![Owner(i)] = @ + 1]
      BY <2>1, <2>4
    <3> QED
      BY <2>1, <2>2, <2>4, <3>3, <3>4, <3>5 DEF CloseStep
  <2>5. CASE conn[i].st = "WaitingForAccept"
    <3>1. CloseStanzas(i) = <<Error(conn[i].iqId)>>
      BY <2>5 DEF CloseStanzas
    <3>2. net' = [net EXCEPT ![Requester] = Append(@, Error(conn[i].iqId))]
      <4>1. net[Requester] \in Seq(Stanzas) /\ Other(Owner(i)) = Requester
        BY <1>2, <2>3, <2>5, PeersType
      <4>2. net[Requester] \o <<Error(conn[i].iqId)>> = Append(net[Requester], Error(conn[i].iqId))
        BY <4>1
      <4>3. net' = [net EXCEPT ![Requester] = net[Requester] \o <<Error(conn[i].iqId)>>]
        BY <2>1, <3>1, <4>1
      <4> QED
        BY <4>2, <4>3
    <3>3. Pushed(Requester, Error(conn[i].iqId)) /\ Unmoved(Acceptor)
      BY <3>2, SendsOne, PeersType
    <3>4. Ended(Acceptor, i, "refused")
      <4>1. SessionOf(i) = i
        BY <1>2, <2>5, PeersType DEF SessionOf
      <4> QED
        BY <1>1, <1>2, <2>1, <2>5, <4>1, FinishDoes
    <3>5. nextId' = nextId
      BY <2>1, <2>3, <2>5
    <3> QED
      BY <1>2, <2>1, <2>2, <2>5, <3>3, <3>4, <3>5 DEF RefuseStep
  <2>6. CASE conn[i].st = "Requesting"
    <3>1. CloseStanzas(i) = <<>>
      BY <2>6 DEF CloseStanzas
    <3>2. net' = net /\ nextId' = nextId
      <4>1. net[Other(Owner(i))] \o <<>> = net[Other(Owner(i))]
        BY <2>3
      <4> QED
        BY <2>1, <2>3, <2>6, <3>1, <4>1
    <3>3. Ended(Owner(i), SessionOf(i), "abandoned")
      BY <1>1, <2>1, <2>6, FinishDoes
    <3>4. LeaveStep(i, "abandoned")
      BY <1>2, <2>1, <2>2, <2>6, <3>2, <3>3 DEF LeaveStep
    <3> QED
      BY <1>1, <3>4
  <2> QED
    BY <1>1, <2>1, <2>4, <2>5, <2>6 DEF Connections, States
<1> QED
  BY <1>3, <1>4

(* A handler returns to a connection that is not in use (any more), or to   *)
(* one whose close is not sent yet, or it ends what the connection does.    *)
LEMMA ReturnDoes ==
    ASSUME TypeOK, ConnectionsOK, EndsKnown, NEW i \in Conns, Return(i)
    PROVE  RestStep \/ (\E how \in Ends : LeaveStep(i, how) \/ EndStep(i, how))
<1> DEFINE p == Owner(i)
           s == SessionOf(i)
<1>1. /\ s \in Sids /\ p \in Peers /\ conn[i] \in Connections /\ ConnectionOK(conn[i])
      /\ conn[i].session \in Sids /\ conn \in [Conns -> Connections]
      /\ conn[i].st \in States /\ conn[i].closing \in BOOLEAN
      /\ {"undone", "connectionClosed", "delayedCloseFinished"} \subseteq Ends
  BY FieldTypes, PeersType, SessionOfType DEF Ends, TypeOK, ConnectionsOK
<1>2. /\ conn[i].st = "Active" => s = conn[i].session
      /\ conn[i].st = "Requesting" => i = 0
  BY PeersType DEF EndsKnown, SessionOf
<1> DEFINE r == [Reset(conn[i]) EXCEPT !.emits = "none"]
<1>3. /\ r.st = "Idle" /\ r.j = NoTask /\ r.closing = FALSE /\ r.sendbuf = <<>>
      /\ r.session = conn[i].session /\ r.iqId = conn[i].iqId /\ r.emits = "none"
      /\ r.blockSize = conn[i].blockSize
  BY <1>1 DEF Reset, Connections
<1> HIDE DEF r
<1>4. ASSUME conn' = [conn EXCEPT ![i] = r]
      PROVE  /\ Stops(i) /\ RestBut(i) /\ conn'[i].session = conn[i].session
             /\ conn'[i].emits = "none" /\ conn'[i] = r
  BY <1>1, <1>3, <1>4 DEF Stops, RestBut, Rests, Keeps, Settles
<1>5. CASE ReadyReadReturns(i)
  <2>1. /\ conn[i].emits = "readyRead" /\ conn' = [conn EXCEPT ![i] = r]
        /\ UNCHANGED <<net, nextId, up, nSessions>>
    BY <1>5 DEF ReadyReadReturns, r
  <2>2. CASE conn[i].st = "Active" /\ Finish(p, s, "connectionClosed")
    <3>1. Ended(p, conn[i].session, "connectionClosed")
      BY <1>1, <1>2, <2>2, FinishDoes
    <3>2. EndStep(i, "connectionClosed")
      BY <1>4, <2>1, <2>2, <3>1 DEF EndStep
    <3> QED
      BY <1>1, <3>2
  <2>3. CASE conn[i].st = "Requesting" /\ Finish(p, s, "undone")
    <3>1. Ended(p, s, "undone")
      BY <1>1, <2>3, FinishDoes
    <3>2. LeaveStep(i, "undone")
      BY <1>2, <1>4, <2>1, <2>3, <3>1 DEF LeaveStep
    <3> QED
      BY <1>1, <3>2
  <2>4. CASE conn[i].st = "Idle" /\ hist' = [hist EXCEPT ![p][s].again = TRUE]
    <3>1. Rests(i)
      <4>1. conn[i].j = NoTask /\ conn[i].sendbuf = <<>> /\ conn[i].closing = FALSE
        BY <1>1, <2>4 DEF ConnectionOK, Quiet, HasWork
      <4> QED
        BY <1>3, <1>4, <2>1, <2>4, <4>1 DEF Rests, Keeps, Settles
    <3>2. SameHist
      <4>1. hist \in [Peers -> [Sids -> Histories]] /\ hist[p][s] \in Histories
        BY <1>1 DEF TypeOK
      <4> DEFINE h == [hist[p][s] EXCEPT !.again = TRUE]
      <4>2. hist' = [hist EXCEPT ![p][s] = h]
        BY <1>1, <2>4, <4>1
      <4>3. /\ h.sent = hist[p][s].sent /\ h.got = hist[p][s].got /\ h.end = hist[p][s].end
            /\ h.acked = hist[p][s].acked /\ h.hasty = hist[p][s].hasty
        BY <4>1 DEF Histories
      <4> HIDE DEF h, p, s
      <4>4. \A q \in Peers, u \in Sids :
              hist'[q][u] = IF q = p /\ u = s THEN h ELSE hist[q][u]
        BY <4>1, <4>2
      <4> QED
        BY <4>3, <4>4 DEF SameHist, Same, Remembered
    <3> QED
      BY <1>4, <2>1, <3>1, <3>2 DEF RestStep, RestBut
  <2> QED
    BY <1>5, <2>2, <2>3, <2>4 DEF ReadyReadReturns
<1>6. CASE BytesWrittenReturns(i)
  <2>1. /\ conn[i].emits = "bytesWritten" /\ UNCHANGED <<net, nextId, up, nSessions>>
        /\ conn' = [conn EXCEPT ![i] = [AfterAck(conn[i]) EXCEPT !.emits = "none"]]
        /\ IF conn[i].closing THEN Finish(p, conn[i].session, "delayedCloseFinished")
                              ELSE UNCHANGED hist
    BY <1>6 DEF BytesWrittenReturns, Completed
  <2>2. CASE conn[i].closing
    <3>1. conn' = [conn EXCEPT ![i] = r]
      BY <2>1, <2>2 DEF AfterAck, Completed, r
    <3>2. conn[i].st = "Active"
      BY <1>1, <2>2 DEF ConnectionOK, Quiet, States
    <3>3. Ended(p, conn[i].session, "delayedCloseFinished")
      BY <1>1, <2>1, <2>2, FinishDoes
    <3>4. EndStep(i, "delayedCloseFinished")
      BY <1>4, <2>1, <2>2, <3>1, <3>2, <3>3 DEF EndStep
    <3> QED
      BY <1>1, <3>4
  <2>3. CASE ~conn[i].closing
    <3> DEFINE timer == conn[i].timer \/ HasWork(conn[i])
               d == [[conn[i] EXCEPT !.timer = timer] EXCEPT !.emits = "none"]
    <3>1. conn' = [conn EXCEPT ![i] = d] /\ hist' = hist
      BY <2>1, <2>3 DEF AfterAck, Completed
    <3>2. /\ d.st = conn[i].st /\ d.session = conn[i].session /\ d.j = conn[i].j
          /\ d.iqId = conn[i].iqId /\ d.blockSize = conn[i].blockSize
          /\ d.closing = conn[i].closing /\ d.sendbuf = conn[i].sendbuf /\ d.emits = "none"
      BY <1>1 DEF Connections
    <3> HIDE DEF d
    <3>3. \A k \in Conns : Rests(k)
      BY <1>1, <2>1, <2>3, <3>1, <3>2 DEF Rests, Keeps, Settles
    <3> QED
      BY <2>1, <3>1, <3>3 DEF RestStep, SameHist, Same, Remembered
  <2> QED
    BY <2>2, <2>3
<1> QED
  BY <1>5, <1>6 DEF Return

(* What comes in.  Each step takes the head m of what is on its way to p.   *)
TakeRequestStep(s) ==
    LET m == Head(net[Acceptor])
    IN  /\ m.kind = "request" /\ m.session = s /\ s \in Sessions /\ conn[s].st = "Idle"
        /\ RestBut(s)
        /\ conn'[s].st = "WaitingForAccept" /\ conn'[s].session = s /\ conn'[s].iqId = m.id
        /\ conn'[s].j = NoTask /\ conn'[s].closing = FALSE /\ conn'[s].sendbuf = <<>>
        /\ conn'[s].emits = "none"
        /\ Popped(Acceptor) /\ Unmoved(Requester)
        /\ UNCHANGED <<nextId, up, nSessions, hist>>
TakeDataStep(p, i) ==
    LET m == Head(net[p])
        s == conn[i].session
    IN  /\ Data(m) /\ m.session = s /\ Runs(i, p, s) /\ RestBut(i)
        /\ Keeps(i) /\ conn[i].emits = "none"
        /\ conn'[i].emits = IF m.close THEN "readyRead" ELSE "none"
        /\ Popped(p) /\ Pushed(Other(p), Result(m.id, 0))
        /\ Only(p, s)
        /\ hist'[p][s].sent = hist[p][s].sent /\ hist'[p][s].got = hist[p][s].got \o m.data
        /\ hist'[p][s].acked = hist[p][s].acked
        /\ hist'[p][s].end = hist[p][s].end /\ hist'[p][s].hasty = hist[p][s].hasty
        /\ UNCHANGED <<nextId, up, nSessions>>
RepulseStep(p) ==
    LET m == Head(net[p])
    IN  /\ IsSet(m)
        /\ up[p] => Data(m) /\ \A i \in Conns : ~Runs(i, p, m.session)
        /\ Popped(p) /\ Pushed(Other(p), Error(m.id))
        /\ UNCHANGED <<conn, nextId, up, nSessions, hist>>
AcceptedStep ==
    LET m == Head(net[Requester])
    IN  /\ m.kind = "result" /\ conn[0].j = Task("request", m.id)
        /\ conn[0].st = "Requesting" /\ RestBut(0)
        /\ conn'[0].st = "Active" /\ conn'[0].j = NoTask /\ conn'[0].session = m.session
        /\ conn'[0].closing = FALSE /\ conn'[0].sendbuf = <<>> /\ conn'[0].emits = "none"
        /\ Popped(Requester) /\ Unmoved(Acceptor)
        /\ UNCHANGED <<nextId, up, nSessions, hist>>
AckStep(p, i) ==
    LET m == Head(net[p])
        s == conn[i].session
    IN  /\ m.kind = "result" /\ conn[i].j = Task("data", m.id) /\ Runs(i, p, s)
        /\ RestBut(i)
        /\ conn'[i].session = s
        /\ conn'[i].st = "Active" /\ conn'[i].j = NoTask
        /\ conn'[i].sendbuf = conn[i].sendbuf /\ conn'[i].closing = conn[i].closing
        /\ conn[i].emits = "none" /\ conn'[i].emits = "bytesWritten"
        /\ Popped(p) /\ Unmoved(Other(p))
        /\ Only(p, s)
        /\ hist'[p][s].sent = hist[p][s].sent /\ hist'[p][s].got = hist[p][s].got
        /\ hist'[p][s].acked = hist[p][s].acked + conn[i].blockSize
        /\ hist'[p][s].end = hist[p][s].end /\ hist'[p][s].hasty = hist[p][s].hasty
        /\ UNCHANGED <<nextId, up, nSessions>>
FailStep(p, i) ==
    LET m == Head(net[p])
    IN  /\ m.kind = "error" /\ Owner(i) = p
        /\ \/ i = 0 /\ conn[0].j = Task("request", m.id) /\ conn[0].st = "Requesting"
              /\ Ended(p, nSessions, "ErrRequest")
           \/ conn[i].j = Task("data", m.id) /\ conn[i].st = "Active"
              /\ Ended(p, conn[i].session, "ErrData")
        /\ Stops(i) /\ RestBut(i) /\ conn'[i].session = conn[i].session
        /\ conn[i].emits = "none" /\ conn'[i].emits = "none"
        /\ Popped(p) /\ Unmoved(Other(p))
        /\ UNCHANGED <<nextId, up, nSessions>>
DiscardStep(p) ==
    /\ Popped(p) /\ Unmoved(Other(p)) /\ ~IsSet(Head(net[p]))
    /\ up[p] => \A i \in Conns : Owner(i) = p =>
         /\ conn[i].j # Task("request", Head(net[p]).id)
         /\ conn[i].j # Task("data", Head(net[p]).id)
    /\ UNCHANGED <<conn, nextId, up, nSessions, hist>>

LEMMA TasksKnown ==
    ASSUME TypeOK, ConnectionsOK, EndsKnown, NEW i \in Conns, NEW id
    PROVE  /\ conn[i].j = Task("request", id) =>
                i = 0 /\ conn[0].st = "Requesting" /\ conn[0].closing = FALSE /\ conn[0].sendbuf = <<>>
           /\ conn[i].j = Task("data", id) => conn[i].st = "Active"
<1>1. conn[i].st \in States /\ conn[i].closing \in BOOLEAN
  BY FieldTypes
<1>2. conn[i].j = Task("request", id) => conn[i].st = "Requesting"
  BY <1>1, TaskFields DEF ConnectionsOK, ConnectionOK, States
<1>3. conn[i].st = "Requesting" => i = 0 /\ conn[i].closing = FALSE /\ conn[i].sendbuf = <<>>
  BY <1>1, PeersType DEF ConnectionsOK, ConnectionOK, Quiet, HasWork, EndsKnown
<1>4. conn[i].j = Task("data", id) => conn[i].st = "Active"
  BY <1>1, TaskFields DEF ConnectionsOK, ConnectionOK, States
<1> QED
  BY <1>2, <1>3, <1>4

LEMMA ReceiveDoes ==
    ASSUME TypeOK, TypeOK', ConnectionsOK, EndsKnown, Starting, NEW p \in Peers, Receive(p)
    PROVE  \/ \E s \in Sessions : TakeRequestStep(s)
           \/ \E i \in Conns : TakeDataStep(p, i) \/ AckStep(p, i) \/ FailStep(p, i)
           \/ RepulseStep(p) \/ AcceptedStep \/ DiscardStep(p)
<1> DEFINE m == Head(net[p])
<1>1. net[p] # <<>> /\ net[p] \in Seq(Stanzas) /\ m \in Coming[p]
  <2>1. net[p] # <<>>
    BY DEF Receive, RecvRequest, RecvData, RecvNoStream, RecvAccepted, RecvAck,
           RecvError, RecvStale, Bounce, Arrives
  <2>2. net[p] \in Seq(Stanzas) /\ Len(net[p]) \in Nat /\ Coming[p] = {net[p][k] : k \in 1..Len(net[p])}
    BY ComingType
  <2> QED
    BY <2>1, <2>2
<1>2. /\ m.id \in Nat /\ m.session \in Sids /\ m.data \in Seq(Nat) /\ m.close \in BOOLEAN
      /\ m.kind \in {"request", "data", "result", "error"}
  BY <1>1, IdTypes
<1>3. Pop(p, <<>>) => Popped(p) /\ Unmoved(Other(p))
  BY <1>1, PopSilently
<1>4. \A r : Pop(p, <<r>>) => Popped(p) /\ Pushed(Other(p), r)
  BY <1>1, PopAnswering
<1>5. conn \in [Conns -> Connections] /\ hist \in [Peers -> [Sids -> Histories]]
  BY DEF TypeOK
<1> HIDE DEF m
<1>6. CASE p = Acceptor /\ RecvRequest
  <2>1. m.kind = "request" /\ m.session \in Sessions /\ conn[m.session].st = "Idle"
    BY <1>1, <1>6 DEF RecvRequest, Arrives, Starting, m
  <2> DEFINE c == [Fresh EXCEPT !.st = "WaitingForAccept", !.session = m.session, !.iqId = m.id]
  <2>2. conn' = [conn EXCEPT ![m.session] = c]
    BY <1>6 DEF RecvRequest, m
  <2>3. /\ c.st = "WaitingForAccept" /\ c.session = m.session /\ c.iqId = m.id
        /\ c.j = NoTask /\ c.closing = FALSE /\ c.sendbuf = <<>> /\ c.emits = "none"
    BY DEF Fresh
  <2>4. m.session \in Conns
    BY <2>1, PeersType
  <2> HIDE DEF c
  <2>5. conn'[m.session] = c /\ RestBut(m.session)
    BY <1>5, <2>2, <2>4 DEF RestBut, Rests, Keeps, Settles
  <2>6. TakeRequestStep(m.session)
    BY <1>3, <1>6, <2>1, <2>3, <2>5, PeersType DEF TakeRequestStep, RecvRequest, m
  <2> QED
    BY <2>1, <2>6
<1>7. CASE RecvData(p)
  <2> DEFINE e == IF m.close THEN "readyRead" ELSE "none"
  <2>1. PICK i \in Found(p, m.session) :
           conn' = [conn EXCEPT ![i].recvbuf = @ \o m.data, ![i].emits = e]
    BY <1>7 DEF RecvData, m
  <2>2. /\ i \in Conns /\ Owner(i) = p /\ conn[i].st = "Active" /\ conn[i].session = m.session
        /\ conn[i] \in Connections /\ conn[i].emits = "none"
    BY <1>5, <1>7 DEF Found, ConnsOf, RecvData, Arrives, Free
  <2> DEFINE c == [conn[i] EXCEPT !.recvbuf = @ \o m.data, !.emits = e]
             h == hist[p][m.session]
  <2>3. Data(m) /\ UNCHANGED <<nextId, up, nSessions>> /\ Pop(p, <<Result(m.id, 0)>>)
        /\ hist' = [hist EXCEPT ![p][m.session].got = @ \o m.data]
    BY <1>7 DEF RecvData, Arrives, Data, m
  <2>4. RestBut(i) /\ Keeps(i) /\ conn'[i].emits = e
    <3> HIDE DEF e
    <3>1. conn' = [conn EXCEPT ![i] = c]
      BY <1>5, <2>1, <2>2
    <3>2. /\ c.st = conn[i].st /\ c.session = conn[i].session /\ c.j = conn[i].j
          /\ c.iqId = conn[i].iqId /\ c.blockSize = conn[i].blockSize
          /\ c.closing = conn[i].closing /\ c.sendbuf = conn[i].sendbuf /\ c.emits = e
      BY <2>2 DEF Connections
    <3> HIDE DEF c
    <3> QED
      BY <1>5, <2>2, <3>1, <3>2 DEF RestBut, Rests, Keeps, Settles
  <2>5. /\ Only(p, m.session)
        /\ hist'[p][m.session].sent = h.sent /\ hist'[p][m.session].got = h.got \o m.data
        /\ hist'[p][m.session].acked = h.acked /\ hist'[p][m.session].end = h.end
        /\ hist'[p][m.session].hasty = h.hasty
    <3> DEFINE new == [h EXCEPT !.got = @ \o m.data]
    <3>1. hist' = [hist EXCEPT ![p][m.session] = new]
      BY <1>2, <1>5, <2>3
    <3>2. h \in Histories
      BY <1>2, <1>5
    <3>3. /\ new.sent = h.sent /\ new.got = h.got \o m.data /\ new.acked = h.acked
          /\ new.end = h.end /\ new.hasty = h.hasty
      BY <3>2 DEF Histories
    <3> HIDE DEF new
    <3>4. hist'[p][m.session] = new /\ Only(p, m.session)
      BY <1>2, <1>5, <3>1 DEF Only
    <3> QED
      BY <3>3, <3>4
  <2>6. TakeDataStep(p, i)
    BY <1>4, <2>2, <2>3, <2>4, <2>5 DEF TakeDataStep, Runs, m
  <2> QED
    BY <2>2, <2>6
<1>8. CASE RecvNoStream(p)
  <2>1. Data(m) /\ Pop(p, <<Error(m.id)>>) /\ Found(p, m.session) = {} /\ up[p]
        /\ UNCHANGED <<conn, nextId, up, nSessions, hist>>
    BY <1>8 DEF RecvNoStream, Arrives, Data, m
  <2>2. \A i \in Conns : ~Runs(i, p, m.session)
    BY <2>1 DEF Runs, Found, ConnsOf
  <2>3. RepulseStep(p)
    BY <1>4, <2>1, <2>2 DEF RepulseStep, m, IsSet, Data
  <2> QED
    BY <2>3
<1>9. CASE RecvAccepted(p)
  <2>1. PICK i \in Awaiting(p, m.id, "request") :
           conn' = [conn EXCEPT ![i].st = "Active", ![i].j = NoTask, ![i].session = m.session]
    BY <1>9 DEF RecvAccepted, m
  <2>2. i \in Conns /\ Owner(i) = p /\ conn[i].j = Task("request", m.id) /\ conn[i] \in Connections
    BY <1>5 DEF Awaiting, ConnsOf
  <2>3. i = 0 /\ conn[0].st = "Requesting" /\ conn[0].closing = FALSE /\ conn[0].sendbuf = <<>>
    BY <2>2, TasksKnown
  <2>4. p = Requester
    BY <2>2, <2>3, PeersType
  <2> DEFINE c == [conn[0] EXCEPT !.st = "Active", !.j = NoTask, !.session = m.session]
  <2>5. conn' = [conn EXCEPT ![0] = c]
    BY <1>5, <2>1, <2>2, <2>3
  <2>6. /\ c.st = "Active" /\ c.j = NoTask /\ c.session = m.session
        /\ c.closing = FALSE /\ c.sendbuf = <<>> /\ c.emits = "none"
    <3>1. conn[0].emits = "none"
      BY <1>9, <2>2, <2>3 DEF RecvAccepted, Arrives, Free, ConnsOf
    <3> QED
      BY <2>2, <2>3, <3>1 DEF Connections
  <2> HIDE DEF c
  <2>7. conn'[0] = c /\ RestBut(0)
    BY <1>5, <2>2, <2>3, <2>5 DEF RestBut, Rests, Keeps, Settles
  <2>8. m.kind = "result" /\ Pop(p, <<>>) /\ UNCHANGED <<nextId, up, nSessions, hist>>
    BY <1>9 DEF RecvAccepted, Arrives, m
  <2>9. AcceptedStep
    BY <1>3, <2>2, <2>3, <2>4, <2>6, <2>7, <2>8, PeersType DEF AcceptedStep, m
  <2> QED
    BY <2>9
<1>10. CASE RecvAck(p)
  <2>1. PICK i \in Awaiting(p, m.id, "data") :
           /\ conn' = [conn EXCEPT ![i].j = NoTask, ![i].emits = "bytesWritten"]
           /\ hist' = [hist EXCEPT ![p][conn[i].session].acked = @ + conn[i].blockSize]
    BY <1>10 DEF RecvAck, m
  <2> DEFINE c == [conn[i] EXCEPT !.j = NoTask, !.emits = "bytesWritten"]
             s == conn[i].session
             h == hist[p][s]
  <2>2. i \in Conns /\ Owner(i) = p /\ conn[i].j = Task("data", m.id) /\ conn[i] \in Connections
        /\ s \in Sids /\ conn[i].emits = "none"
    BY <1>5, <1>10 DEF Awaiting, ConnsOf, Connections, RecvAck, Arrives, Free
  <2>3. Runs(i, p, s)
    BY <2>2, TasksKnown DEF Runs
  <2>4. /\ RestBut(i) /\ conn'[i].session = s
        /\ conn'[i].st = "Active" /\ conn'[i].j = NoTask /\ conn'[i].emits = "bytesWritten"
        /\ conn'[i].sendbuf = conn[i].sendbuf /\ conn'[i].closing = conn[i].closing
    <3>1. conn' = [conn EXCEPT ![i] = c]
      BY <1>5, <2>1, <2>2
    <3>2. /\ c.session = s /\ c.st = conn[i].st /\ c.j = NoTask /\ c.sendbuf = conn[i].sendbuf
          /\ c.closing = conn[i].closing /\ c.emits = "bytesWritten"
      BY <2>2 DEF Connections
    <3> HIDE DEF c
    <3>3. conn'[i] = c /\ RestBut(i)
      BY <1>5, <2>2, <3>1 DEF RestBut, Rests, Keeps, Settles
    <3> QED
      BY <2>3, <3>2, <3>3 DEF Runs
  <2>5. /\ Only(p, s)
        /\ hist'[p][s].sent = h.sent /\ hist'[p][s].got = h.got
        /\ hist'[p][s].acked = h.acked + conn[i].blockSize
        /\ hist'[p][s].end = h.end /\ hist'[p][s].hasty = h.hasty
    <3> DEFINE new == [h EXCEPT !.acked = @ + conn[i].blockSize]
    <3>1. hist' = [hist EXCEPT ![p][s] = new]
      BY <1>5, <2>1, <2>2
    <3>2. h \in Histories
      BY <1>5, <2>2
    <3>3. /\ new.sent = h.sent /\ new.got = h.got /\ new.acked = h.acked + conn[i].blockSize
          /\ new.end = h.end /\ new.hasty = h.hasty
      BY <3>2 DEF Histories
    <3> HIDE DEF new
    <3>4. hist'[p][s] = new /\ Only(p, s)
      BY <1>5, <2>2, <3>1 DEF Only
    <3> QED
      BY <3>3, <3>4
  <2>6. m.kind = "result" /\ Pop(p, <<>>) /\ UNCHANGED <<nextId, up, nSessions>>
    BY <1>10 DEF RecvAck, Arrives, m
  <2>7. AckStep(p, i)
    BY <1>3, <2>2, <2>3, <2>4, <2>5, <2>6 DEF AckStep, m
  <2> QED
    BY <2>2, <2>7
<1>11. CASE RecvError(p)
  <2>1. PICK i \in Awaiting(p, m.id, "request") \cup Awaiting(p, m.id, "data") :
           /\ conn' = [conn EXCEPT ![i] = ResetClear(conn[i])]
           /\ IF conn[i].j.mode = "request"
              THEN Finish(p, nSessions, "ErrRequest")
              ELSE Finish(p, conn[i].session, "ErrData")
    BY <1>11 DEF RecvError, m
  <2>2. i \in Conns /\ Owner(i) = p /\ conn[i] \in Connections
        /\ (conn[i].j = Task("request", m.id) \/ conn[i].j = Task("data", m.id))
        /\ conn[i].session \in Sids /\ nSessions \in Sids
    BY <1>5, FieldTypes DEF Awaiting, ConnsOf
  <2>3. /\ Stops(i) /\ RestBut(i) /\ conn'[i].session = conn[i].session
        /\ conn[i].emits = "none" /\ conn'[i].emits = "none"
    <3>1. conn[i].emits = "none"
      BY <1>11, <2>2 DEF RecvError, Arrives, Free, ConnsOf
    <3>2. ResetClear(conn[i]).emits = "none"
      BY <2>2, <3>1 DEF ResetClear, Reset, Connections
    <3>3. conn'[i].emits = "none"
      BY <1>5, <2>1, <2>2, <3>2
    <3> QED
      BY <2>1, <2>2, <3>1, <3>3, ResetDoes
  <2>4. \/ i = 0 /\ conn[0].j = Task("request", m.id) /\ conn[0].st = "Requesting"
           /\ Ended(p, nSessions, "ErrRequest")
        \/ conn[i].j = Task("data", m.id) /\ conn[i].st = "Active"
           /\ Ended(p, conn[i].session, "ErrData")
    <3>1. CASE conn[i].j = Task("request", m.id)
      <4>0. conn[i].j.mode = "request"
        BY <3>1, TaskFields
      <4>1. i = 0 /\ conn[0].st = "Requesting" /\ conn[i].j.mode = "request"
        BY <2>2, <3>1, <4>0, TasksKnown
      <4>2. Ended(p, nSessions, "ErrRequest")
        BY <2>1, <2>2, <4>1, FinishDoes
      <4> QED
        BY <3>1, <4>1, <4>2
    <3>2. CASE conn[i].j = Task("data", m.id)
      <4>0. conn[i].j.mode = "data"
        BY <3>2, TaskFields
      <4>1. conn[i].st = "Active" /\ conn[i].j.mode # "request"
        BY <2>2, <3>2, <4>0, TasksKnown
      <4>2. Ended(p, conn[i].session, "ErrData")
        BY <2>1, <2>2, <4>1, FinishDoes
      <4> QED
        BY <3>2, <4>1, <4>2
    <3> QED
      BY <2>2, <3>1, <3>2
  <2>5. m.kind = "error" /\ Pop(p, <<>>) /\ UNCHANGED <<nextId, up, nSessions>>
    BY <1>11 DEF RecvError, Arrives, m
  <2>6. FailStep(p, i)
    BY <1>3, <2>2, <2>3, <2>4, <2>5 DEF FailStep, m
  <2> QED
    BY <2>2, <2>6
<1>12. CASE RecvStale(p)
  <2>1. /\ m.kind \in {"result", "error"} /\ Pop(p, <<>>)
        /\ UNCHANGED <<conn, nextId, up, nSessions, hist>>
        /\ \A mode \in {"request", "data"} : Awaiting(p, m.id, mode) = {}
    BY <1>12 DEF RecvStale, Arrives, m
  <2>2. \A i \in Conns : Owner(i) = p =>
          conn[i].j # Task("request", m.id) /\ conn[i].j # Task("data", m.id)
    BY <2>1 DEF Awaiting, ConnsOf
  <2>3. DiscardStep(p)
    BY <1>3, <2>1, <2>2 DEF DiscardStep, IsSet, m
  <2> QED
    BY <2>3
<1>13. CASE Bounce(p)
  <2>1. ~up[p] /\ Pop(p, IF IsSet(m) THEN <<Error(m.id)>> ELSE <<>>)
        /\ UNCHANGED <<conn, nextId, up, nSessions, hist>>
    BY <1>13 DEF Bounce, m
  <2>2. CASE IsSet(m)
    BY <1>4, <2>1, <2>2 DEF RepulseStep, m
  <2>3. CASE ~IsSet(m)
    BY <1>3, <2>1, <2>3 DEF DiscardStep, m
  <2> QED
    BY <2>2, <2>3
<1> QED
  BY <1>6, <1>7, <1>8, <1>9, <1>10, <1>11, <1>12, <1>13 DEF Receive


-----------------------------------------------------------------------------
(* A new request on an object that may still be in use: what close() has to *)
(* say, if anything, goes before it.                                        *)
Farewell(m) ==
    /\ conn[0].st = "Active" /\ Data(m) /\ m.id = nextId[Requester]
    /\ m.session = conn[0].session /\ m.data \in Seq(Nat)
    /\ \/ conn[0].sendbuf = <<>> /\ m.data = <<>> /\ m.close
       \/ /\ conn[0].sendbuf # <<>> /\ conn[0].j = NoTask
          /\ Len(m.data) <= Len(conn[0].sendbuf)
          /\ Len(conn[0].sendbuf) <= PacketSize => m.data = conn[0].sendbuf
ConnectStep(before, m) ==
    /\ up[Requester] /\ nSessions' = nSessions + 1
    /\ m.kind = "request" /\ m.session = nSessions + 1
    /\ \/ /\ before = {} /\ m.id = nextId[Requester]
          /\ Len(net'[Acceptor]) = Len(net[Acceptor]) + 1
          /\ ~(conn[0].st = "Active" /\ conn[0].sendbuf = <<>>)
       \/ \E f \in Stanzas :
            /\ before = {f} /\ Farewell(f) /\ m.id = nextId[Requester] + 1
            /\ Len(net'[Acceptor]) = Len(net[Acceptor]) + 2
            /\ net'[Acceptor][Len(net[Acceptor]) + 1] = f
    /\ net'[Acceptor][Len(net'[Acceptor])] = m
    /\ \A k \in 1..Len(net[Acceptor]) :
         k \in 1..Len(net'[Acceptor]) /\ net'[Acceptor][k] = net[Acceptor][k]
    /\ Coming'[Acceptor] = Coming[Acceptor] \cup before \cup {m} /\ Unmoved(Requester)
    /\ RestBut(0)
    /\ conn'[0].st = "Requesting" /\ conn'[0].j = Task("request", m.id)
    /\ conn'[0].closing = FALSE /\ conn'[0].sendbuf = <<>>
    /\ IF conn[0].st = "Idle" THEN hist' = hist
       ELSE Ended(Requester, nSessions,
                  IF conn[0].st = "Active" /\ conn[0].sendbuf = <<>> THEN "closed"
                                                                     ELSE "abandoned")
    /\ nextId' = [nextId EXCEPT ![Requester] = m.id + 1] /\ up' = up

PushedBoth(p, f, m) ==
    /\ Len(net'[p]) = Len(net[p]) + 2
    /\ net'[p][Len(net[p]) + 1] = f /\ net'[p][Len(net[p]) + 2] = m
    /\ \A k \in 1..Len(net[p]) : k \in 1..Len(net'[p]) /\ net'[p][k] = net[p][k]
    /\ Coming'[p] = Coming[p] \cup {f} \cup {m}

LEMMA TwoCome ==
    ASSUME TypeOK, NEW p \in Peers, NEW f, NEW m,
           net'[p] = net[p] \o Append(<<f>>, m)
    PROVE  PushedBoth(p, f, m)
<1>1. net[p] \in Seq(Stanzas) /\ Len(net[p]) \in Nat
  BY ComingType
<1>2. /\ Len(net'[p]) = Len(net[p]) + 2
      /\ net'[p][Len(net[p]) + 1] = f /\ net'[p][Len(net[p]) + 2] = m
      /\ \A k \in 1..Len(net[p]) : k \in 1..Len(net'[p]) /\ net'[p][k] = net[p][k]
  <2> DEFINE y == Append(<<f>>, m)
  <2>1. <<f>> \in Seq(Stanzas \cup {f, m}) /\ Len(<<f>>) = 1 /\ <<f>>[1] = f
    OBVIOUS
  <2>2. y \in Seq(Stanzas \cup {f, m}) /\ Len(y) = 2 /\ y[1] = f /\ y[2] = m
    BY <2>1
  <2>3. net[p] \in Seq(Stanzas \cup {f, m}) /\ net'[p] = net[p] \o y
    BY <1>1
  <2> HIDE DEF y
  <2> QED
    BY <1>1, <2>2, <2>3
<1>3. /\ Coming[p] = {net[p][k] : k \in 1..Len(net[p])}
      /\ Coming'[p] = {net'[p][k] : k \in 1..Len(net'[p])}
  BY DEF Coming
<1>4. /\ \A k \in 1..Len(net'[p]) :
           k \in 1..Len(net[p]) \/ k = Len(net[p]) + 1 \/ k = Len(net[p]) + 2
      /\ Len(net[p]) + 1 \in 1..Len(net'[p]) /\ Len(net[p]) + 2 \in 1..Len(net'[p])
  BY <1>1, <1>2, SMTT(30)
<1>5. Coming'[p] \subseteq Coming[p] \cup {f} \cup {m}
  BY <1>2, <1>3, <1>4
<1>6. Coming[p] \cup {f} \cup {m} \subseteq Coming'[p]
  BY <1>2, <1>3, <1>4
<1> QED
  BY <1>2, <1>5, <1>6 DEF PushedBoth

LEMMA ConnectDoes ==
    ASSUME TypeOK, EndsKnown, ConnectToJid
    PROVE  \E before, m : ConnectStep(before, m)
<1> DEFINE c == conn[0]
           lingering == c.st = "Active" /\ c.sendbuf # <<>>
           pending == [c EXCEPT !.closePending = TRUE]
           last == Packet(pending, nextId[Requester])
           farewell == IF lingering
                       THEN IF CanSend(pending) THEN <<last>> ELSE <<>>
                       ELSE CloseStanzas(0)
           id == nextId[Requester] + Len(farewell)
           m == Stanza("request", id, nSessions + 1, <<>>, FALSE)
           how == IF c.st = "Requesting" \/ lingering THEN "abandoned" ELSE "closed"
           new == [ResetClear(c) EXCEPT !.st = "Requesting", !.session = 0,
                                        !.j = Task("request", id)]
<1>1. /\ 0 \in Conns /\ Requester \in Peers /\ Acceptor \in Peers /\ Requester # Acceptor
      /\ c \in Connections /\ nextId[Requester] \in Nat /\ nSessions \in Sids
      /\ Owner(0) = Requester /\ c.st \in States /\ c.st # "WaitingForAccept"
      /\ conn \in [Conns -> Connections] /\ net \in [Peers -> Seq(Stanzas)]
      /\ nextId \in [Peers -> Nat] /\ net[Acceptor] \in Seq(Stanzas) /\ c.sendbuf \in Seq(Nat)
      /\ Len(c.sendbuf) \in Nat
  BY PeersType, FieldTypes DEF TypeOK, EndsKnown
<1>2. /\ up[Requester] /\ nSessions' = nSessions + 1 /\ up' = up
      /\ conn' = [conn EXCEPT ![0] = new]
      /\ net' = [net EXCEPT ![Acceptor] = @ \o Append(farewell, m)]
      /\ nextId' = [nextId EXCEPT ![Requester] = id + 1]
      /\ hist' = IF c.st = "Idle" THEN hist ELSE [hist EXCEPT ![Requester][nSessions].end = how]
  BY DEF ConnectToJid
<1>3. /\ new.st = "Requesting" /\ new.j = Task("request", id)
      /\ new.closing = FALSE /\ new.sendbuf = <<>>
  BY <1>1 DEF ResetClear, Reset, Connections
<1>4. conn'[0] = new /\ RestBut(0)
  BY <1>1, <1>2 DEF RestBut, Rests, Keeps, Settles
<1>5. m.kind = "request" /\ m.session = nSessions + 1 /\ m.id = id
  BY DEF Stanza
<1>6. IF c.st = "Idle" THEN hist' = hist
      ELSE Ended(Requester, nSessions, IF c.st = "Active" /\ c.sendbuf = <<>> THEN "closed"
                                                                             ELSE "abandoned")
  <2>1. CASE c.st = "Idle"
    BY <1>2, <2>1
  <2>2. CASE c.st # "Idle"
    <3>1. Finish(Requester, nSessions, how)
      BY <1>2, <2>2 DEF Finish
    <3>2. Ended(Requester, nSessions, how)
      BY <1>1, <3>1, FinishDoes
    <3>3. how = IF c.st = "Active" /\ c.sendbuf = <<>> THEN "closed" ELSE "abandoned"
      BY <1>1, <2>2 DEF States
    <3> QED
      BY <2>2, <3>2, <3>3
  <2> QED
    BY <2>1, <2>2
<1>7. /\ net'[Acceptor] = net[Acceptor] \o Append(farewell, m) /\ Unmoved(Requester)
  BY <1>1, <1>2, Stays
<1>8. CASE (lingering /\ ~CanSend(pending)) \/ c.st \in {"Idle", "Requesting"}
  <2>1. farewell = <<>>
    BY <1>8 DEF CloseStanzas
  <2>2. net'[Acceptor] = Append(net[Acceptor], m) /\ id = nextId[Requester]
    <3> HIDE DEF m
    <3>1. Append(<<>>, m) = <<m>> /\ Len(<<>>) = 0
      OBVIOUS
    <3>2. net[Acceptor] \o <<m>> = Append(net[Acceptor], m)
      BY <1>1
    <3>3. id = nextId[Requester]
      BY <1>1, <2>1, <3>1
    <3>4. net'[Acceptor] = net[Acceptor] \o Append(<<>>, m)
      BY <1>7, <2>1
    <3> QED
      BY <3>1, <3>2, <3>3, <3>4
  <2>3. Pushed(Acceptor, m)
    BY <1>1, <2>2, AppendComes
  <2>4. ~(c.st = "Active" /\ c.sendbuf = <<>>)
    BY <1>8
  <2> HIDE DEF m, new, farewell, id
  <2>5. ConnectStep({}, m)
    BY <1>1, <1>2, <1>3, <1>4, <1>5, <1>6, <1>7, <2>2, <2>3, <2>4 DEF ConnectStep, Pushed
  <2> QED
    BY <2>5
<1>9. ASSUME NEW f \in Stanzas, farewell = <<f>>, Farewell(f)
      PROVE  ConnectStep({f}, m)
  <2>1. id = nextId[Requester] + 1
    BY <1>9
  <2>2. PushedBoth(Acceptor, f, m)
    <3> HIDE DEF m
    <3>1. net'[Acceptor] = net[Acceptor] \o Append(<<f>>, m)
      BY <1>7, <1>9
    <3>2. Acceptor \in Peers
      BY <1>1
    <3> QED
      BY <3>1, <3>2, TwoCome, ZenonT(30)
  <2> HIDE DEF m, new, farewell, id
  <2> QED
    BY <1>1, <1>2, <1>3, <1>4, <1>5, <1>6, <1>7, <1>9, <2>1, <2>2 DEF ConnectStep, PushedBoth
<1>10. CASE lingering /\ CanSend(pending)
  <2>1. /\ pending \in Connections /\ pending.sendbuf = c.sendbuf /\ pending.j = c.j
        /\ pending.session = c.session
    BY <1>1 DEF Connections
  <2>2. last \in Stanzas /\ last.kind = "data" /\ last.id = nextId[Requester]
        /\ last.session = c.session /\ last.data = Chunk(pending)
    BY <1>1, <2>1, PacketType DEF Packet, Stanza
  <2>3. /\ ChunkSize(pending) \in Nat /\ ChunkSize(pending) <= Len(c.sendbuf)
        /\ Chunk(pending) \in Seq(Nat)
    BY <2>1, ChunkType
  <2>4. Len(Chunk(pending)) = ChunkSize(pending)
    BY <1>1, <2>1, <2>3 DEF Chunk
  <2>5. ASSUME Len(c.sendbuf) <= PacketSize
        PROVE  Chunk(pending) = c.sendbuf
    <3>1. PacketSize \in Nat
      BY IBBAssumption
    <3>2. Len(c.sendbuf) < PacketSize \/ Len(c.sendbuf) = PacketSize
      BY <1>1, <2>5, <3>1
    <3>3. ChunkSize(pending) = Len(c.sendbuf)
      BY <2>1, <3>2, Zenon DEF ChunkSize
    <3> QED
      BY <1>1, <2>1, <3>3 DEF Chunk
  <2>6. c.j = NoTask
    BY <1>10, <2>1 DEF CanSend
  <2>7. Farewell(last)
    BY <1>10, <2>2, <2>3, <2>4, <2>5, <2>6 DEF Farewell, Data
  <2>8. farewell = <<last>>
    BY <1>10
  <2> QED
    BY <1>9, <2>2, <2>7, <2>8
<1>11. CASE c.st = "Active" /\ ~lingering
  <2> DEFINE g == Stanza("data", nextId[Requester], c.session, <<>>, TRUE)
  <2>1. farewell = <<g>>
    BY <1>1, <1>11 DEF CloseStanzas
  <2>2. g \in Stanzas
    <3>1. c.session \in Sids /\ <<>> \in Seq(Nat)
      BY <1>1 DEF Connections
    <3> QED
      BY <1>1, <3>1, StanzaType
  <2>3. Farewell(g)
    BY <1>1, <1>11 DEF Farewell, Data, Stanza
  <2> QED
    BY <1>9, <2>1, <2>2, <2>3
<1> QED
  BY <1>1, <1>8, <1>9, <1>10, <1>11 DEF States


LEMMA ConnectIds ==
    ASSUME Ids, TypeOK, TypeOK', EndsKnown, Starting,
           NEW before, NEW m, ConnectStep(before, m)
    PROVE  Ids'
<1> DEFINE n == nextId[Requester]
<1>1. /\ n \in Nat /\ m.id \in Nat /\ n <= m.id /\ nextId'[Requester] = m.id + 1
      /\ nextId'[Acceptor] = nextId[Acceptor] /\ IsSet(m) /\ nSessions' = nSessions + 1
      /\ nSessions \in Nat /\ m.session = nSessions'
  <2>1. n \in Nat /\ nSessions \in Nat
    BY PeersType, FieldTypes DEF TypeOK
  <2>2. /\ m.id = n \/ m.id = n + 1
        /\ nextId' = [nextId EXCEPT ![Requester] = m.id + 1]
        /\ m.kind = "request" /\ nSessions' = nSessions + 1 /\ m.session = nSessions + 1
    BY DEF ConnectStep
  <2> QED
    BY <2>1, <2>2, PeersType, SMTT(30) DEF TypeOK, IsSet
<1>2. \A f \in before : /\ Data(f) /\ f.id = n /\ f.id \in Nat /\ f.id < m.id /\ IsSet(f)
  BY <1>1 DEF ConnectStep, Farewell, IsSet, Data
<1>3. /\ Coming'[Requester] = Coming[Requester]
      /\ \A k \in Coming'[Acceptor] : k \in Coming[Acceptor] \/ k \in before \/ k = m
  BY DEF ConnectStep, Unmoved
<1>4. \A k \in Coming[Acceptor] : k.id \in Nat /\ (IsSet(k) => k.id < n)
  BY IdTypes, PeersType DEF Ids, IdsUsed
<1>5. \A k \in Coming[Requester] : k.id \in Nat /\ (~IsSet(k) => k.id < n)
  BY IdTypes, PeersType DEF Ids, IdsUsed
<1>6. \A k \in Conns \ {0} : Keeps(k) /\ Owner(k) = Acceptor
  BY PeersType DEF ConnectStep, RestBut, Rests
<1>7. conn'[0].j = Task("request", m.id) /\ conn'[0].j.id = m.id /\ conn'[0].st = "Requesting"
  BY TaskFields DEF ConnectStep
<1>8. SetsDistinct(Acceptor)' /\ SetsDistinct(Requester)'
  <2>1. SetsDistinct(Acceptor) /\ SetsDistinct(Requester)
    BY PeersType DEF Ids, IdsDistinct, SetsDistinct
  <2> DEFINE a == net[Acceptor]
             b == net'[Acceptor]
  <2>2. Len(a) \in Nat /\ \A k \in 1..Len(a) : b[k] = a[k] /\ a[k] \in Coming[Acceptor]
    BY ComingType, PeersType DEF ConnectStep
  <2>3. \A k \in 1..Len(b) :
          \/ k \in 1..Len(a) /\ b[k] = a[k] /\ (IsSet(b[k]) => b[k].id < n)
          \/ k = Len(b) /\ b[k] = m /\ b[k].id >= n /\ k > Len(a)
          \/ k = Len(a) + 1 /\ k # Len(b) /\ b[k].id = n /\ n < m.id
    <3>1. TAKE k \in 1..Len(b)
    <3>2. \/ before = {} /\ Len(b) = Len(a) + 1
          \/ \E f : before = {f} /\ Len(b) = Len(a) + 2 /\ b[Len(a) + 1] = f
      BY DEF ConnectStep
    <3>3. b[Len(b)] = m
      BY DEF ConnectStep
    <3>4. k \in 1..Len(a) \/ k = Len(b) \/ (k = Len(a) + 1 /\ k # Len(b) /\ b[k] \in before)
      BY <2>2, <3>2
    <3> QED
      BY <1>1, <1>2, <1>4, <2>2, <3>2, <3>3, <3>4
  <2>4. SetsDistinct(Acceptor)'
    <3> SUFFICES ASSUME NEW k \in 1..Len(b), NEW l \in 1..Len(b),
                        IsSet(b[k]), IsSet(b[l]), b[k].id = b[l].id
                 PROVE  k = l
      BY DEF SetsDistinct
    <3>1. CASE k \in 1..Len(a) /\ l \in 1..Len(a)
      BY <2>1, <2>2, <3>1 DEF SetsDistinct
    <3>2. CASE k \notin 1..Len(a) \/ l \notin 1..Len(a)
      <4> HIDE DEF a, b
      <4>1. n \in Nat /\ m.id \in Nat /\ \A j \in 1..Len(a) : IsSet(b[j]) => b[j].id \in Nat /\ b[j].id < n
        BY <1>1, <1>4, <2>2
      <4> QED
        BY <1>1, <2>3, <3>2, <4>1
    <3> QED
      BY <3>1, <3>2
  <2>5. SetsDistinct(Requester)'
    BY <2>1, UnmovedDistinct, PeersType DEF ConnectStep
  <2> QED
    BY <2>4, <2>5
<1> HIDE DEF n
<1>9. IdsUsed'
  <2>1. \A k \in Coming'[Acceptor] : k.id < nextId'[IF IsSet(k) THEN Requester ELSE Acceptor]
    BY <1>1, <1>2, <1>3, <1>4, PeersType DEF Ids, IdsUsed
  <2>2. \A k \in Coming'[Requester] : k.id < nextId'[IF IsSet(k) THEN Acceptor ELSE Requester]
    <3>1. \A k \in Coming[Requester] : k.id < nextId[IF IsSet(k) THEN Acceptor ELSE Requester]
      BY PeersType DEF Ids, IdsUsed
    <3> QED
      BY <1>1, <1>3, <1>5, <3>1
  <2>3. \A t \in Peers : \A k \in Coming'[t] : k.id < nextId'[IF IsSet(k) THEN Other(t) ELSE t]
    BY <2>1, <2>2, PeersType
  <2>4. \A i \in Conns : conn'[i].j.id < nextId'[Owner(i)]
    BY <1>1, <1>6, <1>7, IdTypes, PeersType DEF Ids, IdsUsed, Keeps
  <2>5. \A i \in Conns : conn'[i].st = "WaitingForAccept" => conn'[i].iqId < nextId'[Requester]
    <3>1. \A i \in Conns : conn[i].st = "WaitingForAccept" => conn[i].iqId < n /\ conn[i].iqId \in Nat
      BY IdTypes DEF Ids, IdsUsed, n
    <3> QED
      BY <1>1, <1>6, <1>7, <3>1 DEF Keeps
  <2>6. \A t \in Peers : nextId'[t] > 0
    BY <1>1, PeersType DEF Ids, IdsUsed
  <2> QED
    BY <2>3, <2>4, <2>5, <2>6 DEF IdsUsed
<1>10. IdsDistinct'
  <2>1. \A t \in Peers : \A k \in Coming'[t], a \in Coming'[Other(t)] :
          IsSet(k) /\ ~IsSet(a) => k.id # a.id
    <3>1. \A k \in Coming'[Acceptor], a \in Coming'[Requester] :
            IsSet(k) /\ ~IsSet(a) => k.id # a.id
      BY <1>1, <1>2, <1>3, <1>5, PeersType DEF Ids, IdsDistinct
    <3>2. \A k \in Coming'[Requester], a \in Coming'[Acceptor] :
            IsSet(k) /\ ~IsSet(a) => k.id # a.id
      BY <1>1, <1>2, <1>3, PeersType DEF Ids, IdsDistinct
    <3> QED
      BY <3>1, <3>2, PeersType
  <2>2. \A i \in Conns : \A k \in Coming'[Acceptor] :
          conn'[i].st = "WaitingForAccept" /\ IsSet(k) => conn'[i].iqId # k.id
    <3>1. \A i \in Conns : conn[i].st = "WaitingForAccept" => conn[i].iqId < n /\ conn[i].iqId \in Nat
      BY IdTypes DEF Ids, IdsUsed, n
    <3>2. \A k \in before \cup {m} : k.id \in Nat /\ k.id >= n
      BY <1>1, <1>2
    <3> QED
      BY <1>1, <1>3, <1>6, <1>7, <3>1, <3>2 DEF Ids, IdsDistinct, Keeps
  <2> QED
    BY <1>8, <2>1, <2>2, PeersType DEF IdsDistinct, SetsDistinct
<1>11. TasksMatch'
  <2>1. \A i \in Conns : \A k \in Coming'[Other(Owner(i))] :
         IsSet(k) /\ conn'[i].j = Task("data", k.id) =>
           /\ Data(k) /\ k.session = conn'[i].session
           /\ Len(k.data) = conn'[i].blockSize /\ k.close = conn'[i].closing
    <3>1. \A id : conn'[0].j # Task("data", id)
      <4>1. conn'[0].j.mode = "request"
        BY <1>7, TaskFields
      <4> QED
        BY <4>1, TaskFields
    <3>2. ASSUME NEW i \in Conns \ {0}, NEW k \in Coming'[Other(Owner(i))], IsSet(k),
                 conn'[i].j = Task("data", k.id)
          PROVE  /\ Data(k) /\ k.session = conn'[i].session
                 /\ Len(k.data) = conn'[i].blockSize /\ k.close = conn'[i].closing
      <4>1. Other(Owner(i)) = Requester
        BY <1>6, PeersType
      <4>2. k \in Coming[Other(Owner(i))] /\ conn[i].j = Task("data", k.id)
        BY <1>3, <1>6, <3>2, <4>1 DEF Keeps
      <4> QED
        BY <1>6, <3>2, <4>2 DEF Ids, TasksMatch, Keeps
    <3> QED
      BY <3>1, <3>2
  <2>2. \A k \in Coming'[Acceptor] :
         IsSet(k) /\ conn'[0].j = Task("request", k.id) => k.kind = "request" /\ k.session = nSessions'
    <3>1. TAKE k \in Coming'[Acceptor]
    <3>2. HAVE IsSet(k) /\ conn'[0].j = Task("request", k.id)
    <3>3. k.id = m.id
      BY <1>7, <3>2, TaskFields
    <3>4. k = m
      BY <1>1, <1>2, <1>3, <1>4, <3>2, <3>3
    <3> QED
      BY <1>1, <3>4 DEF ConnectStep
  <2>3. \A i \in Conns :
         conn'[i].st = "WaitingForAccept" =>
           /\ conn'[0].j # Task("data", conn'[i].iqId)
           /\ conn'[0].j = Task("request", conn'[i].iqId) => i = nSessions'
    <3>1. TAKE i \in Conns
    <3>2. HAVE conn'[i].st = "WaitingForAccept"
    <3>3. i # 0 /\ conn[i].st = "WaitingForAccept" /\ conn'[i].iqId = conn[i].iqId
      BY <1>6, <1>7, <3>2 DEF Keeps
    <3>4. conn[i].iqId < n /\ conn[i].iqId \in Nat
      BY <3>3, IdTypes DEF Ids, IdsUsed, n
    <3> QED
      BY <1>1, <1>7, <3>3, <3>4, TaskFields
  <2>4. \A a \in Coming'[Requester] :
          a.kind = "result" /\ conn'[0].j = Task("request", a.id) => a.session = nSessions'
    <3>1. TAKE a \in Coming'[Requester]
    <3>2. HAVE a.kind = "result" /\ conn'[0].j = Task("request", a.id)
    <3>3. a.id = m.id /\ ~IsSet(a) /\ a \in Coming[Requester]
      BY <1>3, <1>7, <3>2, TaskFields DEF IsSet
    <3> QED
      BY <1>1, <1>5, <3>3
  <2> QED
    BY <2>1, <2>2, <2>3, <2>4 DEF TasksMatch
<1> QED
  BY <1>9, <1>10, <1>11 DEF Ids

(* An end goes offline: its tasks fail.                                     *)
Fails(p, r, s) ==
    /\ r = p
    /\ \/ \E i \in Conns : Owner(i) = p /\ conn[i].j.mode = "data" /\ conn[i].session = s
       \/ p = Requester /\ conn[0].j.mode = "request" /\ s = nSessions
OfflineStep(p) ==
    /\ up[p] /\ up' = [up EXCEPT ![p] = FALSE]
    /\ \A k \in Conns : IF Owner(k) = p /\ conn[k].j # NoTask
                        THEN Stops(k) /\ conn'[k].session = conn[k].session
                        ELSE Rests(k)
    /\ \A r \in Peers, s \in Sids :
         /\ hist'[r][s].sent = hist[r][s].sent /\ hist'[r][s].got = hist[r][s].got
         /\ hist'[r][s].acked = hist[r][s].acked /\ hist'[r][s].hasty = hist[r][s].hasty
         /\ \/ hist'[r][s] = hist[r][s]
            \/ Fails(p, r, s) /\ hist'[r][s].end \in {"ErrData", "ErrRequest"}
    /\ UNCHANGED <<net, nextId, nSessions>>

LEMMA OfflineDoes ==
    ASSUME TypeOK, NEW p \in Peers, GoOffline(p)
    PROVE  OfflineStep(p)
<1>1. /\ conn \in [Conns -> Connections] /\ hist \in [Peers -> [Sids -> Histories]]
  BY DEF TypeOK
<1>2. \A c \in Connections :
        /\ ResetClear(c).st = "Idle" /\ ResetClear(c).j = NoTask
        /\ ResetClear(c).closing = FALSE /\ ResetClear(c).sendbuf = <<>>
        /\ ResetClear(c).session = c.session
  BY DEF ResetClear, Reset, Connections
<1>3. conn' = [i \in Conns |-> IF Owner(i) = p /\ conn[i].j # NoTask
                               THEN ResetClear(conn[i]) ELSE conn[i]]
  BY DEF GoOffline
<1>4. \A k \in Conns : IF Owner(k) = p /\ conn[k].j # NoTask
                       THEN Stops(k) /\ conn'[k].session = conn[k].session
                       ELSE Rests(k)
  BY <1>1, <1>2, <1>3 DEF Stops, Rests, Keeps, Settles
<1> DEFINE new == [s \in Sids |->
           IF \E i \in ConnsOf(p) : conn[i].j.mode = "data" /\ conn[i].session = s
           THEN [hist[p][s] EXCEPT !.end = "ErrData"]
           ELSE IF p = Requester /\ conn[0].j.mode = "request" /\ s = nSessions
                THEN [hist[p][s] EXCEPT !.end = "ErrRequest"]
                ELSE hist[p][s]]
<1>5. hist' = [hist EXCEPT ![p] = new]
  BY <1>1 DEF GoOffline
<1>6. \A s \in Sids :
        /\ new[s].sent = hist[p][s].sent /\ new[s].got = hist[p][s].got
        /\ new[s].acked = hist[p][s].acked /\ new[s].hasty = hist[p][s].hasty
        /\ \/ new[s] = hist[p][s]
           \/ Fails(p, p, s) /\ new[s].end \in {"ErrData", "ErrRequest"}
  <2>1. TAKE s \in Sids
  <2>2. hist[p][s] \in Histories
    BY <1>1
  <2>3. \A how : /\ [hist[p][s] EXCEPT !.end = how].sent = hist[p][s].sent
                 /\ [hist[p][s] EXCEPT !.end = how].got = hist[p][s].got
                 /\ [hist[p][s] EXCEPT !.end = how].acked = hist[p][s].acked
                 /\ [hist[p][s] EXCEPT !.end = how].hasty = hist[p][s].hasty
                 /\ [hist[p][s] EXCEPT !.end = how].end = how
    BY <2>2 DEF Histories
  <2>4. CASE \E i \in ConnsOf(p) : conn[i].j.mode = "data" /\ conn[i].session = s
    <3>1. new[s] = [hist[p][s] EXCEPT !.end = "ErrData"] /\ Fails(p, p, s)
      BY <2>4 DEF Fails, ConnsOf
    <3> QED
      BY <2>3, <3>1
  <2>5. CASE /\ ~\E i \in ConnsOf(p) : conn[i].j.mode = "data" /\ conn[i].session = s
             /\ p = Requester /\ conn[0].j.mode = "request" /\ s = nSessions
    <3>1. new[s] = [hist[p][s] EXCEPT !.end = "ErrRequest"] /\ Fails(p, p, s)
      BY <2>5 DEF Fails
    <3> QED
      BY <2>3, <3>1
  <2>6. CASE /\ ~\E i \in ConnsOf(p) : conn[i].j.mode = "data" /\ conn[i].session = s
             /\ ~(p = Requester /\ conn[0].j.mode = "request" /\ s = nSessions)
    <3>1. new[s] = hist[p][s]
      BY <2>6
    <3> QED
      BY <3>1
  <2> QED
    BY <2>4, <2>5, <2>6
<1> HIDE DEF new
<1>7. \A r \in Peers, s \in Sids : hist'[r][s] = IF r = p THEN new[s] ELSE hist[r][s]
  BY <1>1, <1>5
<1>8. \A r \in Peers, s \in Sids :
         /\ hist'[r][s].sent = hist[r][s].sent /\ hist'[r][s].got = hist[r][s].got
         /\ hist'[r][s].acked = hist[r][s].acked /\ hist'[r][s].hasty = hist[r][s].hasty
         /\ \/ hist'[r][s] = hist[r][s]
            \/ Fails(p, r, s) /\ hist'[r][s].end \in {"ErrData", "ErrRequest"}
  BY <1>6, <1>7
<1> QED
  BY <1>4, <1>8 DEF OfflineStep, GoOffline

-----------------------------------------------------------------------------
(* All that can happen.                                                     *)
Taken(p) ==
    \/ \E s \in Sessions : TakeRequestStep(s)
    \/ \E i \in Conns : TakeDataStep(p, i) \/ AckStep(p, i) \/ FailStep(p, i)
    \/ RepulseStep(p) \/ AcceptedStep \/ DiscardStep(p)
Step ==
    \/ RestStep
    \/ \E i \in Conns, bytes \in Seq(Nat) :
         Numbered(i, bytes) /\ (WriteStep(i, bytes) \/ \E m \in Stanzas : SendStep(i, bytes, m))
    \/ \E i \in Conns : AcceptStep(i) \/ (\E how \in Ends : LeaveStep(i, how) \/ EndStep(i, how))
                        \/ RefuseStep(i) \/ CloseStep(i)
    \/ \E before, m : ConnectStep(before, m)
    \/ \E p \in Peers : Taken(p) \/ OfflineStep(p)

LEMMA Steps ==
    ASSUME TypeOK, TypeOK', ConnectionsOK, EndsKnown, Starting, [Next]_vars
    PROVE  Step
<1>1. CASE UNCHANGED vars
  BY <1>1 DEF vars, Step, RestStep, Rests, Keeps, Settles, SameHist, Same, Remembered
<1>2. CASE ConnectToJid
  BY <1>2, ConnectDoes DEF Step
<1>3. ASSUME NEW i \in Conns, Accept(i)
      PROVE  Step
  BY <1>3, AcceptDoes DEF Step
<1>4. ASSUME NEW i \in Conns, ClosePend(i) \/ Read(i) \/ TimerFires(i)
      PROVE  Step
  <2>1. <<>> \in Seq(Nat) /\ Numbered(i, <<>>)
    BY DEF Numbered
  <2>2. RestStep \/ WriteStep(i, <<>>) \/ \E m \in Stanzas : SendStep(i, <<>>, m)
    BY <1>4, SmallStepsDo
  <2> QED
    BY <2>1, <2>2 DEF Step
<1>5. ASSUME NEW i \in Conns, CloseNow(i) \/ DropIncoming(i)
      PROVE  Step
  <2>1. (\E how \in Ends : LeaveStep(i, how)) \/ RefuseStep(i) \/ CloseStep(i)
    BY <1>5, CloseDoes
  <2> QED
    BY <2>1 DEF Step
<1>6. ASSUME NEW i \in Conns, NEW n \in 1..MaxBytes[Owner(i)], Write(i, n)
      PROVE  Step
  <2>1. n \in Nat \ {0}
    BY <1>6, PeersType, IBBAssumption DEF Peers
  <2>2. \E bytes \in Seq(Nat) :
             /\ Numbered(i, bytes)
             /\ RestStep \/ WriteStep(i, bytes) \/ \E m \in Stanzas : SendStep(i, bytes, m)
    BY <1>6, <2>1, WriteDoes
  <2> QED
    BY <2>2 DEF Step
<1>7. ASSUME NEW p \in Peers, Receive(p)
      PROVE  Step
  <2>1. Taken(p)
    BY <1>7, ReceiveDoes DEF Taken
  <2> QED
    BY <2>1 DEF Step
<1>8. ASSUME NEW p \in Peers, GoOffline(p)
      PROVE  Step
  BY <1>8, OfflineDoes DEF Step
<1>9. ASSUME NEW i \in Conns, Return(i)
      PROVE  Step
  <2>1. RestStep \/ (\E how \in Ends : LeaveStep(i, how) \/ EndStep(i, how))
    BY <1>9, ReturnDoes
  <2> QED
    BY <2>1 DEF Step
<1> QED
  BY <1>1, <1>2, <1>3, <1>4, <1>5, <1>6, <1>7, <1>8, <1>9 DEF Next, Application

(* A close() in a handler of bytesWritten() is not forgotten.               *)
LEMMA StepRemembers ==
    ASSUME Step
    PROVE  Remembered
<1>1. \A p \in Peers, s \in Sids, how \in Ends : Ended(p, s, how) => Remembered
  BY DEF Ended, Only, Remembered
<1>2. \A p, s, bytes : Grown(p, s, bytes) => Remembered
  BY DEF Grown, Only, Remembered
<1>3. ASSUME NEW p \in Peers, NEW s, Only(p, s),
             s \in Sids => (hist[p][s].hasty => hist'[p][s].hasty)
      PROVE  Remembered
  BY <1>3 DEF Only, Remembered
<1>4. CASE RestStep
  BY <1>4 DEF RestStep, SameHist
<1>5. ASSUME NEW i \in Conns, NEW bytes \in Seq(Nat),
             WriteStep(i, bytes) \/ \E m \in Stanzas : SendStep(i, bytes, m)
      PROVE  Remembered
  BY <1>2, <1>5 DEF WriteStep, SendStep
<1>6. ASSUME NEW i \in Conns,
             AcceptStep(i) \/ (\E how \in Ends : LeaveStep(i, how) \/ EndStep(i, how))
                          \/ RefuseStep(i) \/ CloseStep(i)
      PROVE  Remembered
  BY <1>6 DEF AcceptStep, LeaveStep, EndStep, RefuseStep, CloseStep, Ended, Only, Remembered
<1>7. ASSUME NEW before, NEW m, ConnectStep(before, m)
      PROVE  Remembered
  BY <1>7 DEF ConnectStep, Ended, Only, Remembered
<1>8. ASSUME NEW p \in Peers, Taken(p)
      PROVE  Remembered
  BY <1>3, <1>8 DEF Taken, TakeRequestStep, TakeDataStep, AckStep, FailStep, RepulseStep,
                    AcceptedStep, DiscardStep, Ended, Only, Remembered
<1>9. ASSUME NEW p \in Peers, OfflineStep(p)
      PROVE  Remembered
  BY <1>9 DEF OfflineStep, Remembered
<1> QED
  BY <1>4, <1>5, <1>6, <1>7, <1>8, <1>9 DEF Step

-----------------------------------------------------------------------------
(* The ids stay in order.                                                   *)
LEMMA Retiring ==
    /\ \A k \in Conns : Keeps(k) \/ Stops(k) => Retires(k)
    /\ \A k \in Conns : Rests(k) => Retires(k)
    /\ \A i : RestBut(i) => \A k \in Conns \ {i} : Retires(k)
  BY DEF Rests, Keeps, Stops, Retires, RestBut

LEMMA OwnIds ==
    ASSUME Basis, TypeOK', NEW i \in Conns,
           \/ RestStep \/ AcceptStep(i) \/ RefuseStep(i) \/ CloseStep(i)
           \/ \E how \in Ends : LeaveStep(i, how) \/ EndStep(i, how)
           \/ \E bytes \in Seq(Nat) : WriteStep(i, bytes) \/ \E m \in Stanzas : SendStep(i, bytes, m)
    PROVE  Ids'
<1>1. Ids /\ TypeOK /\ EndsKnown
  BY DEF Basis, SessionsKnown
<1>2. CASE RestStep
  <2>1. \A p \in Peers : Unmoved(p)
    BY <1>2, NetSame DEF RestStep
  <2> QED
    BY <1>1, <1>2, <2>1, Retiring, QuietIds DEF RestStep
<1>3. CASE AcceptStep(i)
  <2> DEFINE r == Result(conn[i].iqId, i)
  <2>1. ~IsSet(r) /\ r.id = conn[i].iqId /\ r.session = i
    BY StanzaFields DEF IsSet
  <2>2. \A k \in Conns : Retires(k)
    BY <1>3, Retiring DEF AcceptStep, Retires
  <2>3. UNCHANGED <<nextId, nSessions>> /\ conn[i].st = "WaitingForAccept"
        /\ conn'[i].st # "WaitingForAccept" /\ Pushed(Requester, r) /\ Unmoved(Acceptor)
    BY <1>3 DEF AcceptStep
  <2> HIDE DEF r
  <2> QED
    BY <1>1, <2>1, <2>2, <2>3, ReplyIds
<1>4. CASE RefuseStep(i)
  <2> DEFINE r == Error(conn[i].iqId)
  <2>1. ~IsSet(r) /\ r.id = conn[i].iqId /\ r.kind # "result"
    BY StanzaFields DEF IsSet
  <2>2. \A k \in Conns : Retires(k)
    BY <1>4, Retiring DEF RefuseStep
  <2>3. UNCHANGED <<nextId, nSessions>> /\ conn[i].st = "WaitingForAccept"
        /\ conn'[i].st # "WaitingForAccept" /\ Pushed(Requester, r) /\ Unmoved(Acceptor)
    BY <1>4 DEF RefuseStep, Stops
  <2> HIDE DEF r
  <2> QED
    BY <1>1, <2>1, <2>2, <2>3, ReplyIds
<1>5. CASE CloseStep(i)
  <2>1. Data(Goodbye(i)) /\ Goodbye(i).id = nextId[Owner(i)]
    BY DEF Goodbye, Data, Stanza
  <2>2. \A k \in Conns \ {i} : Retires(k)
    BY <1>5, Retiring DEF CloseStep
  <2>3. /\ nSessions' = nSessions /\ nextId' = [nextId EXCEPT ![Owner(i)] = @ + 1]
        /\ conn'[i].st # "WaitingForAccept" /\ conn'[i].j = NoTask
        /\ Pushed(Other(Owner(i)), Goodbye(i)) /\ Unmoved(Owner(i))
    BY <1>5 DEF CloseStep, Stops
  <2> QED
    BY <1>1, <2>1, <2>2, <2>3, PacketIds
<1>6. ASSUME NEW how \in Ends, LeaveStep(i, how) \/ EndStep(i, how)
      PROVE  Ids'
  <2>1. \A p \in Peers : Unmoved(p)
    BY <1>6, NetSame DEF LeaveStep, EndStep
  <2>2. \A k \in Conns : Retires(k)
    BY <1>6, Retiring DEF LeaveStep, EndStep
  <2> QED
    BY <1>1, <1>6, <2>1, <2>2, QuietIds DEF LeaveStep, EndStep
<1>7. ASSUME NEW bytes \in Seq(Nat), WriteStep(i, bytes)
      PROVE  Ids'
  <2>1. \A p \in Peers : Unmoved(p)
    BY <1>7, NetSame DEF WriteStep
  <2>2. \A k \in Conns : Retires(k)
    BY <1>7, Retiring DEF WriteStep, Retires
  <2> QED
    BY <1>1, <1>7, <2>1, <2>2, QuietIds DEF WriteStep
<1>8. ASSUME NEW bytes \in Seq(Nat), NEW m \in Stanzas, SendStep(i, bytes, m)
      PROVE  Ids'
  <2>1. /\ Data(m) /\ m.id = nextId[Owner(i)] /\ m.session = conn'[i].session
        /\ conn'[i].j = Task("data", m.id) \/ conn'[i].j = Task("deleted", m.id)
        /\ Len(m.data) = conn'[i].blockSize
        /\ nSessions' = nSessions /\ nextId' = [nextId EXCEPT ![Owner(i)] = @ + 1]
        /\ conn'[i].st # "WaitingForAccept" /\ Unmoved(Owner(i))
        /\ Pushed(Other(Owner(i)), m) \/ Unmoved(Other(Owner(i)))
    BY <1>8 DEF SendStep
  <2>2. m.close = conn'[i].closing
    BY <1>8 DEF SendStep
  <2>3. \A k \in Conns \ {i} : Retires(k)
    BY <1>8, Retiring DEF SendStep
  <2> QED
    BY <1>1, <2>1, <2>2, <2>3, PacketIds
<1> QED
  BY <1>2, <1>3, <1>4, <1>5, <1>6, <1>7, <1>8

LEMMA TakenIds ==
    ASSUME Basis, TypeOK', NEW p \in Peers, Taken(p) \/ OfflineStep(p)
    PROVE  Ids'
<1>1. Ids /\ TypeOK
  BY DEF Basis
<1> DEFINE m == Head(net[p])
<1>2. ASSUME NEW s \in Sessions, TakeRequestStep(s)
      PROVE  Ids'
  <2>1. \A k \in Conns \ {s} : Retires(k)
    BY <1>2, Retiring DEF TakeRequestStep
  <2> QED
    BY <1>1, <1>2, <2>1, RequestIds DEF TakeRequestStep
<1>3. ASSUME NEW i \in Conns, TakeDataStep(p, i)
      PROVE  Ids'
  <2> DEFINE r == Result(m.id, 0)
  <2>1. ~IsSet(r) /\ r.id = m.id
    BY StanzaFields DEF IsSet
  <2>2. \A k \in Conns : Retires(k)
    BY <1>3, Retiring DEF TakeDataStep
  <2>3. UNCHANGED <<nextId, nSessions>> /\ Data(m) /\ IsSet(m) /\ Popped(p) /\ Pushed(Other(p), r)
    BY <1>3 DEF TakeDataStep, IsSet, Data
  <2> HIDE DEF r
  <2> QED
    BY <1>1, <2>1, <2>2, <2>3, AnsweredIds
<1>4. ASSUME NEW i \in Conns, AckStep(p, i) \/ FailStep(p, i)
      PROVE  Ids'
  <2>1. \A k \in Conns : Retires(k)
    BY <1>4, Retiring DEF AckStep, FailStep, Retires
  <2> QED
    BY <1>1, <1>4, <2>1, QuietIds DEF AckStep, FailStep
<1>5. CASE RepulseStep(p)
  <2> DEFINE r == Error(m.id)
  <2>1. ~IsSet(r) /\ r.id = m.id /\ r.kind # "result"
    BY StanzaFields DEF IsSet
  <2>2. \A k \in Conns : Retires(k)
    BY <1>5 DEF RepulseStep, Retires
  <2>3. UNCHANGED <<nextId, nSessions>> /\ IsSet(m) /\ Popped(p) /\ Pushed(Other(p), r)
    BY <1>5 DEF RepulseStep
  <2> HIDE DEF r
  <2> QED
    BY <1>1, <2>1, <2>2, <2>3, AnsweredIds
<1>6. CASE AcceptedStep
  <2>1. \A k \in Conns : Retires(k)
    BY <1>6, Retiring DEF AcceptedStep, Retires
  <2>2. Popped(Requester) /\ Unmoved(Other(Requester)) /\ UNCHANGED <<nextId, nSessions>>
    BY <1>6, PeersType DEF AcceptedStep
  <2> QED
    BY <1>1, <2>1, <2>2, QuietIds, PeersType
<1>7. CASE DiscardStep(p)
  <2>1. \A k \in Conns : Retires(k)
    BY <1>7 DEF DiscardStep, Retires
  <2> QED
    BY <1>1, <1>7, <2>1, QuietIds DEF DiscardStep
<1>8. CASE OfflineStep(p)
  <2>1. \A k \in Conns : Retires(k)
    BY <1>8, Retiring DEF OfflineStep
  <2>2. \A r \in Peers : Unmoved(r)
    BY <1>8, NetSame DEF OfflineStep
  <2> QED
    BY <1>1, <1>8, <2>1, <2>2, QuietIds DEF OfflineStep
<1> QED
  BY <1>2, <1>3, <1>4, <1>5, <1>6, <1>7, <1>8 DEF Taken

LEMMA IdsStep ==
    ASSUME Basis, TypeOK', Step
    PROVE  Ids'
<1>1. CASE \E before, m : ConnectStep(before, m)
  BY <1>1, ConnectIds DEF Basis, SessionsKnown
<1>2. ASSUME NEW p \in Peers, Taken(p) \/ OfflineStep(p)
      PROVE  Ids'
  BY <1>2, TakenIds
<1>3. CASE RestStep \/ (\E i \in Conns, bytes \in Seq(Nat) :
         Numbered(i, bytes) /\ (WriteStep(i, bytes) \/ \E m \in Stanzas : SendStep(i, bytes, m)))
    \/ \E i \in Conns : AcceptStep(i) \/ (\E how \in Ends : LeaveStep(i, how) \/ EndStep(i, how))
                        \/ RefuseStep(i) \/ CloseStep(i)
  BY <1>3, OwnIds, PeersType
<1> QED
  BY <1>1, <1>2, <1>3 DEF Step


-----------------------------------------------------------------------------
(* Each end of a session stays where it is known to be.                     *)

(* The session of connection i is s.                                        *)
IsOf(i, s) ==
    \/ conn[i].st = "Active" /\ conn[i].session = s
    \/ conn[i].st \in {"Requesting", "WaitingForAccept"} /\ s = SessionOf(i)

LEMMA OneEnd ==
    ASSUME EndsKnown
    PROVE  /\ \A i \in Conns : \A s : IsOf(i, s) => (i = 0 /\ s = nSessions) \/ (i = s /\ i \in Sessions)
           /\ \A i, k \in Conns : \A s : Owner(i) = Owner(k) /\ IsOf(i, s) /\ IsOf(k, s) => i = k
           /\ \A i \in Conns : \A p, s : Runs(i, p, s) => IsOf(i, s) /\ p = Owner(i)
           /\ \A i \in Conns : \A s : IsOf(i, s) => conn[i].st # "Idle"
<1>1. \A i \in Conns : \A s : IsOf(i, s) => (i = 0 /\ s = nSessions) \/ (i = s /\ i \in Sessions)
  BY PeersType DEF EndsKnown, IsOf, SessionOf
<1>2. \A i, k \in Conns : \A s : Owner(i) = Owner(k) /\ IsOf(i, s) /\ IsOf(k, s) => i = k
  <2>1. \A i \in Conns : \A s : IsOf(i, s) => IF Owner(i) = Requester THEN i = 0 ELSE i = s
    BY <1>1, PeersType
  <2>2. \A i \in Conns : Owner(i) = Requester => i = 0
    BY PeersType
  <2> QED
    BY <2>1, <2>2
<1>3. \A i \in Conns : \A p, s : Runs(i, p, s) => IsOf(i, s) /\ p = Owner(i)
  BY DEF IsOf, Runs
<1>4. \A i \in Conns : \A s : IsOf(i, s) => conn[i].st # "Idle"
  BY DEF IsOf
<1> QED
  BY <1>1, <1>2, <1>3, <1>4

(* Nothing starts, and what was silent stays so unless it is the session of *)
(* a connection that is not waiting for an answer.                          *)
LEMMA StartingKept ==
    ASSUME Starting, EndsKnown, TypeOK, nSessions' = nSessions,
           \A k \in Conns : /\ conn'[k].st \in {"Requesting", "WaitingForAccept"} =>
                                 conn'[k].st = conn[k].st
                            /\ conn[k].st = "Idle" => conn'[k].st = "Idle",
           \A m \in Coming'[Acceptor] : m.kind = "request" => m \in Coming[Acceptor],
           \A p \in Peers, s \in Sids :
              \/ /\ Same(p, s)
                 /\ \A m \in Coming'[Other(p)] : Data(m) /\ m.session = s => m \in Coming[Other(p)]
              \/ \E i \in Conns : /\ Owner(i) = p /\ IsOf(i, s)
                                  /\ conn'[i].st \notin {"Requesting", "WaitingForAccept"}
    PROVE  Starting'
<1>1. \A p \in Peers, s \in Sids : Silent(p, s) =>
        \/ Silent(p, s)'
        \/ \E i \in Conns : /\ Owner(i) = p /\ IsOf(i, s)
                            /\ conn'[i].st \notin {"Requesting", "WaitingForAccept"}
  BY DEF Silent, Same
<1>2. nSessions \in Sids /\ nSessions \in Nat /\ Sessions \subseteq Sids /\ Sids \subseteq Nat
  BY PeersType, FieldTypes, SidsType
<1>3. (conn[0].st = "Requesting" => Silent(Requester, nSessions))'
  BY <1>1, <1>2, PeersType DEF Starting
<1>4. \A s \in Sessions : conn'[s].st = "WaitingForAccept" => Silent(Acceptor, s)'
  <2>1. TAKE s \in Sessions
  <2>2. HAVE conn'[s].st = "WaitingForAccept"
  <2>3. Silent(Acceptor, s)
    BY <2>2, PeersType DEF Starting
  <2>4. \A i \in Conns : Owner(i) = Acceptor /\ IsOf(i, s) => i = s
    BY OneEnd, PeersType
  <2> QED
    BY <1>1, <1>2, <2>2, <2>3, <2>4, PeersType
<1>5. \A s \in Sessions : s > nSessions =>
         conn'[s].st = "Idle" /\ Silent(Requester, s)' /\ Silent(Acceptor, s)'
  <2>1. TAKE s \in Sessions
  <2>2. HAVE s > nSessions
  <2>3. conn[s].st = "Idle" /\ Silent(Requester, s) /\ Silent(Acceptor, s)
    BY <2>2 DEF Starting
  <2>4. s # nSessions /\ conn'[s].st = "Idle"
    BY <1>2, <2>2, <2>3, PeersType
  <2>5. \A i \in Conns : ~IsOf(i, s)
    BY <2>3, <2>4, OneEnd
  <2> QED
    BY <1>1, <1>2, <2>3, <2>4, <2>5, PeersType
<1>6. \A m \in Coming'[Acceptor] : m.kind = "request" =>
         /\ m.session \in Sessions /\ m.session <= nSessions
         /\ conn'[m.session].st = "Idle" /\ Silent(Acceptor, m.session)'
  <2>1. TAKE m \in Coming'[Acceptor]
  <2>2. HAVE m.kind = "request"
  <2>3. /\ m.session \in Sessions /\ m.session <= nSessions
        /\ conn[m.session].st = "Idle" /\ Silent(Acceptor, m.session)
    BY <2>2 DEF Starting
  <2>4. \A i \in Conns : ~(Owner(i) = Acceptor /\ IsOf(i, m.session))
    BY <2>3, OneEnd, PeersType
  <2> QED
    BY <1>1, <1>2, <2>3, <2>4, PeersType
<1>7. \A m, n \in Coming'[Acceptor] :
         m.kind = "request" /\ n.kind = "request" /\ m.session = n.session => m.id = n.id
  BY DEF Starting
<1> QED
  BY <1>3, <1>4, <1>5, <1>6, <1>7 DEF Starting

(* Connections stop, or stay, and the history of the ones that stay is      *)
(* still open.                                                              *)
LEMMA EndsKept ==
    ASSUME EndsKnown, nSessions' = nSessions,
           \A k \in Conns :
              \/ conn'[k].st = "Idle" /\ conn'[k].closing = FALSE
              \/ /\ conn'[k].st = conn[k].st /\ conn'[k].session = conn[k].session
                 /\ Closes(k)'
                 /\ conn[k].st = "Active" =>
                      hist'[Owner(k)][conn[k].session].end = hist[Owner(k)][conn[k].session].end
    PROVE  EndsKnown'
<1>1. \A k \in Conns : Closes(k)'
  BY DEF Closes
<1> QED
  BY <1>1, PeersType DEF EndsKnown

LEMMA RestEnds ==
    ASSUME EndsKnown, TypeOK, ConnectionsOK, NEW k \in Conns, Rests(k), Remembered
    PROVE  /\ conn'[k].st = conn[k].st /\ conn'[k].session = conn[k].session
           /\ Closes(k)'
<1>1. Closes(k) /\ conn[k].session \in Sids /\ Owner(k) \in Peers
  BY FieldTypes, PeersType DEF EndsKnown
<1>2. conn[k].st = "Idle" => ~conn[k].closing
  BY DEF ConnectionsOK, ConnectionOK, Quiet
<1> QED
  BY <1>1, <1>2 DEF Rests, Keeps, Settles, Closes, Remembered


(* Each step of an end's own.                                               *)
LEMMA OwnEnds ==
    ASSUME Basis, TypeOK', Remembered, NEW i \in Conns,
           \/ RestStep \/ RefuseStep(i) \/ CloseStep(i)
           \/ \E how \in Ends : LeaveStep(i, how) \/ EndStep(i, how)
           \/ \E bytes \in Seq(Nat) : WriteStep(i, bytes) \/ \E m \in Stanzas : SendStep(i, bytes, m)
    PROVE  SessionsKnown'
<1>1. EndsKnown /\ Starting /\ TypeOK /\ ConnectionsOK
  BY DEF Basis, SessionsKnown
<1>2. nSessions' = nSessions /\ nSessions \in Sids
  BY FieldTypes, <1>1 DEF RestStep, RefuseStep, CloseStep, LeaveStep, EndStep, WriteStep, SendStep
<1>3. \A k \in Conns \ {i} : Rests(k)
  BY DEF RestStep, RefuseStep, CloseStep, LeaveStep, EndStep, WriteStep, SendStep, RestBut
<1>4. /\ conn[i].st \in {"Requesting", "WaitingForAccept"} /\ conn'[i].st # conn[i].st
           => conn'[i].st = "Idle"
      /\ conn'[i].st # conn[i].st => Stops(i)
      /\ conn'[i].st = conn[i].st => Rests(i) \/ conn[i].st = "Active"
      /\ conn'[i].session = conn[i].session
      /\ conn[i].st = "Idle" => conn'[i].st = "Idle"
  BY DEF RestStep, RefuseStep, CloseStep, LeaveStep, EndStep, WriteStep, SendStep, Rests, Keeps, Stops
<1>5. \A p \in Peers, s \in Sids :
        \/ Same(p, s)
        \/ Owner(i) = p /\ IsOf(i, s) /\ conn'[i].st \notin {"Requesting", "WaitingForAccept"}
  <2>1. CASE RestStep
    BY <2>1 DEF RestStep, SameHist
  <2>2. CASE RefuseStep(i)
    <3>1. SessionOf(i) = i /\ Owner(i) = Acceptor
      BY <2>2, PeersType DEF RefuseStep, SessionOf
    <3> QED
      BY <2>2, <3>1, PeersType DEF RefuseStep, Ended, Only, Same, IsOf, Stops
  <2>3. CASE CloseStep(i)
    BY <2>3, PeersType DEF CloseStep, Ended, Only, Same, IsOf, Stops
  <2>4. ASSUME NEW how \in Ends, LeaveStep(i, how) \/ EndStep(i, how)
        PROVE  \A p \in Peers, s \in Sids :
                 \/ Same(p, s)
                 \/ Owner(i) = p /\ IsOf(i, s) /\ conn'[i].st \notin {"Requesting", "WaitingForAccept"}
    BY <2>4, PeersType DEF LeaveStep, EndStep, Ended, Only, Same, IsOf, Stops
  <2>5. ASSUME NEW bytes \in Seq(Nat), WriteStep(i, bytes) \/ \E m \in Stanzas : SendStep(i, bytes, m)
        PROVE  \A p \in Peers, s \in Sids :
                 \/ Same(p, s)
                 \/ Owner(i) = p /\ IsOf(i, s) /\ conn'[i].st \notin {"Requesting", "WaitingForAccept"}
    BY <2>5, PeersType DEF WriteStep, SendStep, Grown, Only, Same, IsOf
  <2> QED
    BY <2>1, <2>2, <2>3, <2>4, <2>5
<1>6. \A m \in Coming'[Acceptor] : m.kind = "request" => m \in Coming[Acceptor]
  <2>1. CASE UNCHANGED net
    BY <2>1, NetSame, PeersType DEF Unmoved
  <2>2. CASE RefuseStep(i)
    BY <2>2 DEF RefuseStep, Unmoved
  <2>3. CASE CloseStep(i)
    <3>1. Goodbye(i).kind = "data"
      BY DEF Goodbye, Stanza
    <3> QED
      BY <2>3, <3>1, PeersType DEF CloseStep, Unmoved, Pushed
  <2>4. ASSUME NEW bytes \in Seq(Nat), NEW m \in Stanzas, SendStep(i, bytes, m)
        PROVE  \A n \in Coming'[Acceptor] : n.kind = "request" => n \in Coming[Acceptor]
    BY <2>4, PeersType DEF SendStep, Unmoved, Pushed, Data
  <2> QED
    BY <2>1, <2>2, <2>3, <2>4 DEF RestStep, LeaveStep, EndStep, WriteStep
<1>7. \A p \in Peers, s \in Sids :
        \/ \A m \in Coming'[Other(p)] : Data(m) /\ m.session = s => m \in Coming[Other(p)]
        \/ Owner(i) = p /\ IsOf(i, s) /\ conn'[i].st \notin {"Requesting", "WaitingForAccept"}
  <2>1. CASE UNCHANGED net
    BY <2>1, NetSame, PeersType DEF Unmoved
  <2>2. CASE RefuseStep(i)
    <3>1. ~Data(Error(conn[i].iqId))
      BY StanzaFields DEF Data
    <3> QED
      BY <2>2, <3>1, PeersType DEF RefuseStep, Unmoved, Pushed
  <2>3. CASE CloseStep(i)
    <3>1. Goodbye(i).session = conn[i].session
      BY DEF Goodbye, Stanza
    <3> QED
      BY <2>3, <3>1, PeersType DEF CloseStep, Unmoved, Pushed, IsOf, Stops
  <2>4. ASSUME NEW bytes \in Seq(Nat), NEW m \in Stanzas, SendStep(i, bytes, m)
        PROVE  \A p \in Peers, s \in Sids :
           \/ \A n \in Coming'[Other(p)] : Data(n) /\ n.session = s => n \in Coming[Other(p)]
           \/ Owner(i) = p /\ IsOf(i, s) /\ conn'[i].st \notin {"Requesting", "WaitingForAccept"}
    BY <2>4, PeersType DEF SendStep, Unmoved, Pushed, IsOf
  <2> QED
    BY <2>1, <2>2, <2>3, <2>4 DEF RestStep, LeaveStep, EndStep, WriteStep
<1>8. Starting'
  <2>1. \A k \in Conns : /\ conn'[k].st \in {"Requesting", "WaitingForAccept"} =>
                                 conn'[k].st = conn[k].st
                         /\ conn[k].st = "Idle" => conn'[k].st = "Idle"
    BY <1>3, <1>4 DEF Rests, Keeps, Stops
  <2>2. \A p \in Peers, s \in Sids :
              \/ /\ Same(p, s)
                 /\ \A m \in Coming'[Other(p)] : Data(m) /\ m.session = s => m \in Coming[Other(p)]
              \/ \E k \in Conns : /\ Owner(k) = p /\ IsOf(k, s)
                                  /\ conn'[k].st \notin {"Requesting", "WaitingForAccept"}
    BY <1>5, <1>7
  <2> QED
    BY <1>1, <1>2, <1>6, <2>1, <2>2, StartingKept
<1>9. EndsKnown'
  <2>1. \A k \in Conns \ {i} :
          /\ conn'[k].st = conn[k].st /\ conn'[k].session = conn[k].session
          /\ Closes(k)'
          /\ conn[k].st = "Active" =>
               hist'[Owner(k)][conn[k].session].end = hist[Owner(k)][conn[k].session].end
    <3>1. TAKE k \in Conns \ {i}
    <3>2. ASSUME conn[k].st = "Active"
          PROVE  Same(Owner(k), conn[k].session)
      <4>1. IsOf(k, conn[k].session) /\ conn[k].session \in Sids /\ Owner(k) \in Peers
        BY <1>1, <3>2, FieldTypes, PeersType DEF IsOf
      <4>2. ~(Owner(i) = Owner(k) /\ IsOf(i, conn[k].session))
        BY <1>1, <3>1, <4>1, OneEnd
      <4> QED
        BY <1>5, <4>1, <4>2
    <3> QED
      BY <1>1, <1>3, <3>2, RestEnds DEF Same
  <2>2. \/ conn'[i].st = "Idle" /\ conn'[i].closing = FALSE
        \/ /\ conn'[i].st = conn[i].st /\ conn'[i].session = conn[i].session
           /\ Closes(i)'
           /\ conn[i].st = "Active" =>
                hist'[Owner(i)][conn[i].session].end = hist[Owner(i)][conn[i].session].end
    <3>0. conn[i].session \in Sids /\ Owner(i) \in Peers /\ Closes(i)
      BY <1>1, FieldTypes, PeersType DEF EndsKnown
    <3>1. CASE RestStep
      BY <1>1, <3>0, <3>1, RestEnds DEF RestStep, SameHist, Same
    <3>2. CASE RefuseStep(i) \/ CloseStep(i) \/ \E how \in Ends : LeaveStep(i, how) \/ EndStep(i, how)
      BY <3>2 DEF RefuseStep, CloseStep, LeaveStep, EndStep, Stops
    <3>3. ASSUME NEW bytes \in Seq(Nat), WriteStep(i, bytes)
          PROVE  /\ conn'[i].st = conn[i].st /\ conn'[i].session = conn[i].session
                 /\ Closes(i)'
                 /\ conn[i].st = "Active" =>
                      hist'[Owner(i)][conn[i].session].end = hist[Owner(i)][conn[i].session].end
      BY <3>3 DEF WriteStep, Grown, Closes
    <3>4. ASSUME NEW bytes \in Seq(Nat), NEW m \in Stanzas, SendStep(i, bytes, m)
          PROVE  /\ conn'[i].st = conn[i].st /\ conn'[i].session = conn[i].session
                 /\ Closes(i)'
                 /\ conn[i].st = "Active" =>
                      hist'[Owner(i)][conn[i].session].end = hist[Owner(i)][conn[i].session].end
      <4>1. conn'[i].j # NoTask
        BY <3>4, TaskFields DEF SendStep
      <4>2. /\ m.close => conn'[i].sendbuf = <<>>
            /\ conn'[i].closing = m.close /\ conn'[i].emits = conn[i].emits
            /\ m.close /\ conn[i].emits = "bytesWritten" =>
                 hist'[Owner(i)][conn[i].session].hasty
            /\ conn'[i].session = conn[i].session
        BY <3>4 DEF SendStep
      <4>3. Closes(i)'
        BY <4>1, <4>2 DEF Closes
      <4> QED
        BY <3>4, <4>3 DEF SendStep, Grown
    <3> QED
      BY <3>1, <3>2, <3>3, <3>4
  <2> QED
    BY <1>1, <1>2, <2>1, <2>2, EndsKept
<1> QED
  BY <1>8, <1>9 DEF SessionsKnown

LEMMA AcceptEnds ==
    ASSUME Basis, Remembered, NEW i \in Conns, AcceptStep(i)
    PROVE  SessionsKnown'
<1>1. /\ EndsKnown /\ Starting /\ TypeOK /\ ConnectionsOK
      /\ i \in Sessions /\ Owner(i) = Acceptor
  BY PeersType DEF Basis, SessionsKnown, AcceptStep
<1>2. /\ nSessions' = nSessions /\ hist' = hist /\ \A k \in Conns \ {i} : Rests(k)
      /\ conn[i].st = "WaitingForAccept" /\ conn'[i].st = "Active"
      /\ conn'[i].session = conn[i].session /\ conn[i].session = i
      /\ conn'[i].closing = conn[i].closing /\ conn'[i].j = conn[i].j
      /\ conn'[i].sendbuf = conn[i].sendbuf /\ i # 0
  BY <1>1, PeersType DEF AcceptStep, RestBut, EndsKnown
<1>3. Coming'[Acceptor] = Coming[Acceptor]
      /\ \A m \in Coming'[Requester] : Data(m) => m \in Coming[Requester]
  BY StanzaFields DEF AcceptStep, Unmoved, Pushed, Data
<1>4. Starting'
  BY <1>1, <1>2, <1>3, StartingKept, PeersType DEF Rests, Keeps, Same
<1>5. hist[Acceptor][i].end = "open"
  BY <1>1, <1>2 DEF Starting, Silent
<1>6. \A k \in Conns : Closes(k)'
  <2>1. \A k \in Conns \ {i} : Closes(k)'
    BY <1>1, <1>2, RestEnds
  <2>2. ~conn[i].closing
    BY <1>1, <1>2 DEF ConnectionsOK, ConnectionOK, Quiet
  <2> QED
    BY <1>2, <2>1, <2>2 DEF Closes
<1>7. EndsKnown'
  BY <1>1, <1>2, <1>5, <1>6, PeersType DEF EndsKnown, Rests, Keeps
<1> QED
  BY <1>4, <1>7 DEF SessionsKnown

LEMMA ConnectEnds ==
    ASSUME Basis, Remembered, TypeOK', NEW before, NEW m, ConnectStep(before, m)
    PROVE  SessionsKnown'
<1> DEFINE s == nSessions + 1
<1>1. /\ EndsKnown /\ Starting /\ TypeOK /\ nSessions' = s /\ nSessions \in Nat /\ s \in Sessions
      /\ s > nSessions /\ ConnectionsOK
  <2>1. EndsKnown /\ Starting /\ TypeOK /\ ConnectionsOK
    BY DEF Basis, SessionsKnown
  <2>2. nSessions' = s /\ nSessions \in Nat /\ nSessions' \in Sids
    BY <2>1, FieldTypes DEF TypeOK, ConnectStep
  <2> QED
    BY <2>1, <2>2 DEF Sessions
<1>2. \A k \in Conns \ {0} : Rests(k) /\ Owner(k) = Acceptor /\ k \in Sessions
  BY PeersType DEF ConnectStep, RestBut
<1>3. /\ conn'[0].st = "Requesting" /\ conn'[0].closing = FALSE
      /\ m.kind = "request" /\ m.session = s
  BY DEF ConnectStep
<1>4. \A r \in Peers, t \in Sids : r # Requester \/ t # nSessions => hist'[r][t] = hist[r][t]
  BY DEF ConnectStep, Ended, Only
<1>5. /\ Coming'[Requester] = Coming[Requester]
      /\ \A n \in Coming'[Acceptor] : Data(n) => n \in Coming[Acceptor] \/ n.session = nSessions
      /\ \A n \in Coming'[Acceptor] : n.kind = "request" => n \in Coming[Acceptor] \/ n = m
  BY <1>1, <1>3 DEF ConnectStep, Unmoved, Farewell, EndsKnown, Data
<1>6. EndsKnown'
  <2>1. \A k \in Conns \ {0} :
          /\ conn'[k].st # "Requesting" /\ conn'[k].st = conn[k].st
          /\ conn'[k].session = conn[k].session
          /\ conn'[k].st # "Idle" => conn'[k].session = k
          /\ Closes(k)'
    <3>1. TAKE k \in Conns \ {0}
    <3>2. Closes(k)'
      BY <1>1, <1>2, RestEnds
    <3> QED
      BY <1>1, <1>2, <3>2 DEF EndsKnown, Rests, Keeps
  <2>2. \A k \in Conns \ {0} : conn'[k].st = "Active" =>
          hist'[Owner(k)][conn'[k].session].end = "open"
    <3>1. TAKE k \in Conns \ {0}
    <3>2. HAVE conn'[k].st = "Active"
    <3>3. conn'[k].session = conn[k].session /\ conn[k].st = "Active" /\ conn[k].session \in Sids
          /\ Owner(k) = Acceptor
      BY <1>1, <1>2, <2>1, <3>2, FieldTypes
    <3> QED
      BY <1>1, <1>4, <3>3, PeersType DEF EndsKnown
  <2>3. Closes(0)'
    BY <1>3 DEF Closes
  <2>4. \A k \in Conns : Closes(k)'
    BY <2>1, <2>3
  <2>5. /\ conn'[0].st # "WaitingForAccept" /\ nSessions' > 0 /\ conn'[0].st # "Active"
    BY <1>1, <1>3
  <2> QED
    BY <2>1, <2>2, <2>4, <2>5, PeersType DEF EndsKnown
<1>7. \A t \in Sids : /\ Silent(Acceptor, t) => Silent(Acceptor, t)'
                      /\ t # nSessions /\ Silent(Requester, t) => Silent(Requester, t)'
  BY <1>4, <1>5, PeersType DEF Silent
<1>8. Silent(Requester, s) /\ Silent(Acceptor, s) /\ conn[s].st = "Idle"
  BY <1>1 DEF Starting
<1>9. Sessions \subseteq Sids /\ Sids \subseteq Nat /\ Sessions \subseteq Conns /\ 0 \notin Sessions
  BY PeersType, SidsType
<1>10. (conn[0].st = "Requesting" => Silent(Requester, nSessions))'
  BY <1>1, <1>7, <1>8, <1>9
<1>11. \A t \in Sessions : conn'[t].st = "WaitingForAccept" => Silent(Acceptor, t)'
  BY <1>1, <1>2, <1>7, <1>9 DEF Starting, Rests, Keeps
<1>12. \A t \in Sessions : t > nSessions' =>
         conn'[t].st = "Idle" /\ Silent(Requester, t)' /\ Silent(Acceptor, t)'
  <2>1. TAKE t \in Sessions
  <2>2. HAVE t > nSessions'
  <2>3. t > nSessions /\ t # nSessions /\ t \in Sids /\ t \in Conns \ {0}
    BY <1>1, <1>9, <2>2
  <2>4. conn[t].st = "Idle" /\ Silent(Requester, t) /\ Silent(Acceptor, t)
    BY <1>1, <2>3 DEF Starting
  <2> QED
    BY <1>2, <1>7, <2>3, <2>4 DEF Rests, Keeps
<1>13. \A n \in Coming'[Acceptor] : n.kind = "request" =>
         /\ n.session \in Sessions /\ n.session <= nSessions'
         /\ conn'[n.session].st = "Idle" /\ Silent(Acceptor, n.session)'
  <2>1. TAKE n \in Coming'[Acceptor]
  <2>2. HAVE n.kind = "request"
  <2>3. /\ n.session \in Sessions /\ n.session <= s
        /\ conn[n.session].st = "Idle" /\ Silent(Acceptor, n.session)
    <3>1. CASE n = m
      BY <1>1, <1>3, <1>8, <1>9, <3>1
    <3>2. CASE n \in Coming[Acceptor]
      <4>1. /\ n.session \in Sessions /\ n.session <= nSessions
            /\ conn[n.session].st = "Idle" /\ Silent(Acceptor, n.session)
        BY <1>1, <2>2, <3>2 DEF Starting
      <4> QED
        <5>1. n.session \in Nat
          BY <1>9, <4>1
        <5> QED
          BY <1>1, <4>1, <5>1
    <3> QED
      BY <1>5, <2>2, <3>1, <3>2
  <2> QED
    BY <1>1, <1>2, <1>7, <1>9, <2>3 DEF Rests, Keeps
<1>14. \A n, l \in Coming'[Acceptor] :
         n.kind = "request" /\ l.kind = "request" /\ n.session = l.session => n.id = l.id
  <2>1. \A n \in Coming[Acceptor] : n.kind = "request" => n.session # s
    BY <1>1, <1>9 DEF Starting
  <2> QED
    BY <1>1, <1>3, <1>5, <2>1 DEF Starting
<1> QED
  BY <1>6, <1>10, <1>11, <1>12, <1>13, <1>14 DEF SessionsKnown, Starting


LEMMA TakeRequestEnds ==
    ASSUME Basis, Remembered, TypeOK', NEW s \in Sessions, TakeRequestStep(s)
    PROVE  SessionsKnown'
<1> DEFINE m == Head(net[Acceptor])
<1>1. /\ EndsKnown /\ Starting /\ TypeOK /\ IdsDistinct /\ nSessions' = nSessions
      /\ ConnectionsOK
      /\ s \in Conns /\ s # 0 /\ hist' = hist /\ s \in Sids /\ Sids \subseteq Nat
      /\ nSessions \in Nat
  BY PeersType, SidsType, FieldTypes DEF Basis, SessionsKnown, Ids, TakeRequestStep
<1>2. /\ m \in Coming[Acceptor] /\ m.kind = "request" /\ m.session = s
      /\ Coming'[Acceptor] \subseteq Coming[Acceptor] /\ Coming'[Requester] = Coming[Requester]
  BY DEF TakeRequestStep, Popped, Unmoved
<1>3. \A n \in Coming'[Acceptor] : n.kind = "request" => n.session # s
  <2>1. \A n \in Coming'[Acceptor] : IsSet(n) => n.id # m.id
    BY <1>1, HeadAlone, PeersType DEF TakeRequestStep, IsSet
  <2> QED
    BY <1>1, <1>2, <2>1 DEF Starting, IsSet
<1>4. \A k \in Conns \ {s} : Rests(k)
  BY DEF TakeRequestStep, RestBut
<1>5. /\ conn'[s].st = "WaitingForAccept" /\ conn'[s].session = s /\ conn'[s].closing = FALSE
  BY DEF TakeRequestStep
<1>6. EndsKnown'
  <2>1. \A k \in Conns \ {s} : Closes(k)'
    BY <1>1, <1>4, RestEnds
  <2>2. \A k \in Conns : Closes(k)'
    BY <1>5, <2>1 DEF Closes
  <2> QED
    BY <1>1, <1>4, <1>5, <2>2, PeersType DEF EndsKnown, Rests, Keeps
<1>7. s <= nSessions /\ Silent(Acceptor, s)
  BY <1>1, <1>2 DEF Starting
<1>8. \A p \in Peers : \A t : Silent(p, t) => Silent(p, t)'
  BY <1>1, <1>2, PeersType DEF Silent
<1>9. (conn[0].st = "Requesting" => Silent(Requester, nSessions))'
  BY <1>1, <1>4, <1>8, PeersType DEF Starting, Rests, Keeps
<1>10. \A t \in Sessions : conn'[t].st = "WaitingForAccept" => Silent(Acceptor, t)'
  BY <1>1, <1>4, <1>7, <1>8, PeersType DEF Starting, Rests, Keeps
<1>11. \A t \in Sessions : t > nSessions' =>
         conn'[t].st = "Idle" /\ Silent(Requester, t)' /\ Silent(Acceptor, t)'
  <2>1. TAKE t \in Sessions
  <2>2. HAVE t > nSessions'
  <2>3. t # s /\ t > nSessions /\ t \in Conns \ {s}
    BY <1>1, <1>7, <2>2, PeersType
  <2> QED
    BY <1>1, <1>4, <1>8, <2>3, PeersType DEF Starting, Rests, Keeps
<1>12. \A n \in Coming'[Acceptor] : n.kind = "request" =>
         /\ n.session \in Sessions /\ n.session <= nSessions'
         /\ conn'[n.session].st = "Idle" /\ Silent(Acceptor, n.session)'
  <2>1. TAKE n \in Coming'[Acceptor]
  <2>2. HAVE n.kind = "request"
  <2>3. /\ n.session \in Sessions /\ n.session <= nSessions
        /\ conn[n.session].st = "Idle" /\ Silent(Acceptor, n.session) /\ n.session # s
    BY <1>1, <1>2, <1>3, <2>2 DEF Starting
  <2>4. conn'[n.session].st = "Idle"
    BY <1>4, <2>3, PeersType DEF Rests, Keeps, Same
  <2> QED
    BY <1>1, <1>8, <2>3, <2>4, PeersType
<1>13. \A n, l \in Coming'[Acceptor] :
         n.kind = "request" /\ l.kind = "request" /\ n.session = l.session => n.id = l.id
  BY <1>1, <1>2 DEF Starting
<1> QED
  BY <1>6, <1>9, <1>10, <1>11, <1>12, <1>13 DEF SessionsKnown, Starting

(* What comes in and touches at most connection i.                          *)
LEMMA ComingEnds ==
    ASSUME Basis, Remembered, TypeOK', NEW p \in Peers, NEW i \in Conns,
           TakeDataStep(p, i) \/ AckStep(p, i) \/ FailStep(p, i)
    PROVE  SessionsKnown'
<1> DEFINE m == Head(net[p])
<1>1. EndsKnown /\ Starting /\ TypeOK /\ nSessions' = nSessions /\ ConnectionsOK
  BY DEF Basis, SessionsKnown, TakeDataStep, AckStep, FailStep
<1>2. /\ \A k \in Conns \ {i} : Rests(k)
      /\ Owner(i) = p /\ conn'[i].session = conn[i].session
      /\ Coming'[p] \subseteq Coming[p]
  BY DEF TakeDataStep, AckStep, FailStep, RestBut, Runs, Popped, Keeps
<1>3. \A n \in Coming'[Other(p)] : IsSet(n) => n \in Coming[Other(p)]
  <2>1. ~IsSet(Result(m.id, 0))
    BY StanzaFields DEF IsSet
  <2> QED
    BY <2>1 DEF TakeDataStep, AckStep, FailStep, Pushed, Unmoved
<1>4. \/ conn[i].st = "Active"
      \/ i = 0 /\ conn[0].st = "Requesting" /\ FailStep(p, i)
  BY DEF TakeDataStep, AckStep, FailStep, Runs
<1>5. \/ Stops(i)
      \/ /\ conn'[i].st = "Active" /\ conn[i].st = "Active"
         /\ hist'[p][conn[i].session].end = hist[p][conn[i].session].end
         /\ Closes(i)'
  <2>1. Closes(i)
    BY <1>1 DEF EndsKnown
  <2>2. CASE TakeDataStep(p, i)
    BY <1>2, <2>1, <2>2 DEF TakeDataStep, Runs, Keeps, Closes
  <2>3. CASE AckStep(p, i)
    BY <1>2, <2>1, <2>3 DEF AckStep, Runs, Closes
  <2>4. CASE FailStep(p, i)
    BY <2>4 DEF FailStep
  <2> QED
    BY <2>2, <2>3, <2>4
<1>6. \A r \in Peers, s \in Sids :
        \/ Same(r, s)
        \/ Owner(i) = r /\ IsOf(i, s) /\ conn'[i].st \notin {"Requesting", "WaitingForAccept"}
  <2>1. conn'[i].st \notin {"Requesting", "WaitingForAccept"}
    BY <1>5 DEF Stops
  <2>2. CASE TakeDataStep(p, i) \/ AckStep(p, i)
    BY <1>2, <2>1, <2>2 DEF TakeDataStep, AckStep, Only, IsOf, Runs, Same
  <2>3. CASE FailStep(p, i)
    BY <1>2, <2>1, <2>3 DEF FailStep, Ended, Only, IsOf, SessionOf, Same
  <2> QED
    BY <2>2, <2>3
<1>7. Starting'
  <2>1. \A k \in Conns : /\ conn'[k].st \in {"Requesting", "WaitingForAccept"} =>
                                 conn'[k].st = conn[k].st
                         /\ conn[k].st = "Idle" => conn'[k].st = "Idle"
    BY <1>2, <1>4, <1>5 DEF Rests, Keeps, Stops
  <2>2. \A n \in Coming'[Acceptor] : n.kind = "request" => n \in Coming[Acceptor]
    BY <1>2, <1>3, PeersType DEF IsSet
  <2>3. \A r \in Peers : \A n \in Coming'[r] : Data(n) => n \in Coming[r]
    BY <1>2, <1>3, PeersType DEF IsSet, Data
  <2> QED
    BY <1>1, <1>6, <2>1, <2>2, <2>3, StartingKept, PeersType
<1>8. EndsKnown'
  <2>1. \A k \in Conns \ {i} : conn[k].st = "Active" =>
               hist'[Owner(k)][conn[k].session].end = hist[Owner(k)][conn[k].session].end
    <3>1. TAKE k \in Conns \ {i}
    <3>2. HAVE conn[k].st = "Active"
    <3>3. IsOf(k, conn[k].session) /\ conn[k].session \in Sids /\ Owner(k) \in Peers
      BY <1>1, <3>2, FieldTypes, PeersType DEF IsOf
    <3>4. ~(Owner(i) = Owner(k) /\ IsOf(i, conn[k].session))
      BY <1>1, <3>1, <3>3, OneEnd
    <3> QED
      BY <1>6, <3>3, <3>4 DEF Same
  <2>2. \A k \in Conns \ {i} :
          /\ conn'[k].st = conn[k].st /\ conn'[k].session = conn[k].session
          /\ Closes(k)'
    BY <1>1, <1>2, RestEnds
  <2> QED
    BY <1>1, <1>2, <1>5, <2>1, <2>2, EndsKept DEF Stops
<1> QED
  BY <1>7, <1>8 DEF SessionsKnown

LEMMA QuietEnds ==
    ASSUME Basis, Remembered, TypeOK', NEW p \in Peers, RepulseStep(p) \/ DiscardStep(p)
    PROVE  SessionsKnown'
<1>1. /\ EndsKnown /\ Starting /\ TypeOK /\ nSessions' = nSessions /\ conn' = conn /\ hist' = hist
  BY DEF Basis, SessionsKnown, RepulseStep, DiscardStep
<1>2. \A r \in Peers : \A n \in Coming'[r] : IsSet(n) => n \in Coming[r]
  <2>1. Coming'[p] \subseteq Coming[p]
    BY DEF RepulseStep, DiscardStep, Popped
  <2>2. \A n \in Coming'[Other(p)] : IsSet(n) => n \in Coming[Other(p)]
    BY StanzaFields DEF RepulseStep, DiscardStep, Pushed, Unmoved, IsSet
  <2> QED
    BY <2>1, <2>2, PeersType
<1>3. Starting'
  BY <1>1, <1>2, StartingKept, PeersType DEF IsSet, Data, Same
<1>4. EndsKnown'
  BY <1>1 DEF EndsKnown, Closes
<1> QED
  BY <1>3, <1>4 DEF SessionsKnown

LEMMA AcceptedEnds ==
    ASSUME Basis, Remembered, TypeOK', AcceptedStep
    PROVE  SessionsKnown'
<1> DEFINE m == Head(net[Requester])
<1>1. /\ EndsKnown /\ Starting /\ TypeOK /\ nSessions' = nSessions /\ hist' = hist
      /\ ConnectionsOK /\ conn[0].st = "Requesting" /\ conn'[0].st = "Active" /\ conn'[0].session = m.session
      /\ conn'[0].closing = FALSE /\ \A k \in Conns \ {0} : Rests(k)
  BY DEF Basis, SessionsKnown, AcceptedStep, RestBut
<1>2. m.session = nSessions
  BY DEF AcceptedStep, Popped, Basis, Ids, TasksMatch
<1>3. Coming'[Requester] \subseteq Coming[Requester] /\ Coming'[Acceptor] = Coming[Acceptor]
  BY DEF AcceptedStep, Popped, Unmoved
<1>4. hist[Requester][nSessions].end = "open" /\ nSessions > 0
  BY <1>1 DEF Starting, EndsKnown, Silent
<1>5. Starting'
  BY <1>1, <1>3, StartingKept, PeersType DEF Rests, Keeps, Same
<1>6. EndsKnown'
  <2>1. \A k \in Conns \ {0} : Closes(k)'
    BY <1>1, RestEnds
  <2>2. \A k \in Conns : Closes(k)'
    BY <1>1, <2>1 DEF Closes
  <2> QED
    BY <1>1, <1>2, <1>4, <2>2, PeersType DEF EndsKnown, Rests, Keeps
<1> QED
  BY <1>5, <1>6 DEF SessionsKnown

LEMMA OfflineEnds ==
    ASSUME Basis, Remembered, TypeOK', NEW p \in Peers, OfflineStep(p)
    PROVE  SessionsKnown'
<1>1. EndsKnown /\ Starting /\ TypeOK /\ nSessions' = nSessions /\ ConnectionsOK
  BY DEF Basis, SessionsKnown, OfflineStep
<1>2. \A r \in Peers : Coming'[r] = Coming[r]
  BY NetSame DEF OfflineStep, Unmoved
<1>3. \A k \in Conns : (Owner(k) = p /\ conn[k].j # NoTask /\ Stops(k))
                       \/ (~(Owner(k) = p /\ conn[k].j # NoTask) /\ Rests(k))
  BY DEF OfflineStep
<1>4. \A k \in Conns : /\ conn[k].j.mode = "data" => conn[k].st = "Active" /\ conn[k].j # NoTask
                       /\ conn[k].j.mode = "request" => conn[k].st = "Requesting" /\ conn[k].j # NoTask
  BY <1>1, FieldTypes, TaskFields DEF ConnectionsOK, ConnectionOK, States
<1>5. \A r \in Peers, s \in Sids :
        \/ Same(r, s)
        \/ \E i \in Conns : Owner(i) = r /\ IsOf(i, s) /\ Stops(i)
  <2>1. \A r \in Peers, s \in Sids : hist'[r][s] = hist[r][s] \/ Fails(p, r, s)
    BY DEF OfflineStep
  <2>2. ASSUME NEW r \in Peers, NEW s \in Sids, Fails(p, r, s)
        PROVE  \E i \in Conns : Owner(i) = r /\ IsOf(i, s) /\ Stops(i)
    <3>1. CASE \E i \in Conns : Owner(i) = p /\ conn[i].j.mode = "data" /\ conn[i].session = s
      BY <1>3, <1>4, <2>2, <3>1 DEF Fails, IsOf
    <3>2. CASE p = Requester /\ conn[0].j.mode = "request" /\ s = nSessions
      BY <1>3, <1>4, <2>2, <3>2, PeersType DEF Fails, IsOf, SessionOf
    <3> QED
      BY <2>2, <3>1, <3>2 DEF Fails
  <2> QED
    BY <2>1, <2>2 DEF Same
<1>6. Starting'
  <2>1. \A k \in Conns : /\ conn'[k].st \in {"Requesting", "WaitingForAccept"} =>
                                 conn'[k].st = conn[k].st
                         /\ conn[k].st = "Idle" => conn'[k].st = "Idle"
    BY <1>3 DEF Rests, Keeps, Stops
  <2>2. \A r \in Peers, s \in Sids :
              \/ /\ Same(r, s)
                 /\ \A m \in Coming'[Other(r)] : Data(m) /\ m.session = s => m \in Coming[Other(r)]
              \/ \E k \in Conns : /\ Owner(k) = r /\ IsOf(k, s)
                                  /\ conn'[k].st \notin {"Requesting", "WaitingForAccept"}
    BY <1>2, <1>5, PeersType DEF Stops
  <2> QED
    BY <1>1, <1>2, <2>1, <2>2, StartingKept, PeersType
<1>7. EndsKnown'
  <2>1. ASSUME NEW k \in Conns, Rests(k), conn[k].st = "Active"
        PROVE  hist'[Owner(k)][conn[k].session].end = hist[Owner(k)][conn[k].session].end
    <3>1. IsOf(k, conn[k].session) /\ conn[k].session \in Sids /\ Owner(k) \in Peers
      BY <1>1, <2>1, FieldTypes, PeersType DEF IsOf
    <3>2. \A i \in Conns : Owner(i) = Owner(k) /\ IsOf(i, conn[k].session) => i = k
      BY <1>1, <3>1, OneEnd
    <3>3. ~Stops(k)
      BY <2>1 DEF Stops, Rests, Keeps
    <3> QED
      BY <1>5, <3>1, <3>2, <3>3 DEF Same
  <2>2. \A k \in Conns :
              \/ conn'[k].st = "Idle" /\ conn'[k].closing = FALSE
              \/ /\ conn'[k].st = conn[k].st /\ conn'[k].session = conn[k].session
                 /\ Closes(k)'
                 /\ conn[k].st = "Active" =>
                      hist'[Owner(k)][conn[k].session].end = hist[Owner(k)][conn[k].session].end
    BY <1>1, <1>3, <2>1, RestEnds DEF Stops
  <2> QED
    BY <1>1, <2>2, EndsKept
<1> QED
  BY <1>6, <1>7 DEF SessionsKnown

LEMMA BasisStep == Basis /\ [Next]_vars => Basis' /\ Step
<1> SUFFICES ASSUME Basis, [Next]_vars PROVE Basis' /\ Step
  OBVIOUS
<1>1. TypeOK' /\ ConnectionsOK'
  BY TypeStep, ConnectionsStep DEF Basis
<1>2. Step
  BY <1>1, Steps DEF Basis, SessionsKnown
<1>3. Ids'
  BY <1>1, <1>2, IdsStep
<1>4. Remembered
  BY <1>2, StepRemembers
<1>5. SessionsKnown'
  <2>1. ASSUME NEW p \in Peers, Taken(p) \/ OfflineStep(p)
        PROVE  SessionsKnown'
    BY <1>1, <1>4, <2>1, TakeRequestEnds, ComingEnds, QuietEnds, AcceptedEnds, OfflineEnds DEF Taken
  <2>2. CASE \E before, m : ConnectStep(before, m)
    BY <1>1, <1>4, <2>2, ConnectEnds
  <2>3. CASE RestStep
    BY <1>1, <1>4, <2>3, OwnEnds, PeersType
  <2>4. ASSUME NEW i \in Conns,
               \/ RefuseStep(i) \/ CloseStep(i) \/ \E how \in Ends : LeaveStep(i, how) \/ EndStep(i, how)
               \/ \E bytes \in Seq(Nat) : WriteStep(i, bytes) \/ \E m \in Stanzas : SendStep(i, bytes, m)
        PROVE  SessionsKnown'
    BY <1>1, <1>4, <2>4, OwnEnds
  <2>5. ASSUME NEW i \in Conns, AcceptStep(i)
        PROVE  SessionsKnown'
    BY <1>4, <2>5, AcceptEnds
  <2> QED
    BY <1>2, <2>1, <2>2, <2>3, <2>4, <2>5 DEF Step
<1> QED
  BY <1>1, <1>2, <1>3, <1>5 DEF Basis

LEMMA BasisInit == Init => Basis
<1> SUFFICES ASSUME Init PROVE Basis
  OBVIOUS
<1>1. TypeOK /\ ConnectionsOK
  BY TypeInit, ConnectionsInit
<1>2. /\ \A i \in Conns : conn[i].st = "Idle" /\ conn[i].j = NoTask /\ conn[i].closing = FALSE
      /\ \A p \in Peers : net[p] = <<>> /\ nextId[p] = 1
      /\ nSessions = 0 /\ \A p \in Peers, s \in Sids : hist[p][s] = NoHistory
  BY DEF Init, Fresh
<1>3. \A p \in Peers : Coming[p] = {} /\ 1..Len(net[p]) = {}
  <2>1. \A p \in Peers : 1..Len(net[p]) = {}
    BY <1>2
  <2> QED
    BY <2>1 DEF Coming
<1>4. Ids
  BY <1>2, <1>3, PeersType, TaskFields DEF Ids, IdsUsed, IdsDistinct, TasksMatch
<1>5. \A p \in Peers, s \in Sids : Silent(p, s)
  BY <1>2, <1>3, PeersType DEF Silent, NoHistory
<1>6. SessionsKnown
  BY <1>2, <1>3, <1>5, PeersType DEF SessionsKnown, EndsKnown, Starting, Closes
<1> QED
  BY <1>1, <1>4, <1>6 DEF Basis

=============================================================================

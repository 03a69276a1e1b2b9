-------------------------------- MODULE IBB --------------------------------
(***************************************************************************)
(* The in-band bytestream of iris/jabber/xmpp_ibb.cpp: a requester and an  *)
(* acceptor exchange bytes in XMPP iq stanzas, one unacknowledged packet   *)
(* at a time.  The requester owns one IBBConnection (index 0) that it may  *)
(* reuse for request after request; the acceptor's IBBManager creates one  *)
(* connection per incoming request (index k for the k-th request).         *)
(*                                                                         *)
(* The XMPP server between the two keeps the stanzas of one sender to one  *)
(* receiver in order, and bounces the iq-sets sent to somebody offline.    *)
(* net[p] is the sequence of stanzas on their way to p.                    *)
(***************************************************************************)
EXTENDS Naturals, SequencesExt, FiniteSetsExt

CONSTANTS
    Requester, Acceptor,   \* the two XMPP entities
    PacketSize,            \* IBB_PACKET_SIZE
    MaxSessions,           \* bound: requests the requester makes
    MaxBytes               \* bound: [Peers -> Nat], bytes an end writes altogether

ASSUME IBBAssumption ==
    /\ Requester # Acceptor
    /\ PacketSize \in Nat \ {0}
    /\ MaxSessions \in Nat \ {0}
    /\ MaxBytes \in [{Requester, Acceptor} -> Nat]

VARIABLES
    conn,      \* [Conns -> the fields of an IBBConnection]
    net,       \* [Peers -> Seq(stanza)] stanzas on their way to a peer
    nextId,    \* [Peers -> Nat] the iq id the next task of a peer gets
    up,        \* [Peers -> BOOLEAN] whether the peer's XMPP stream is up
    nSessions, \* requests made so far
    hist       \* [Peers -> [Sids -> history]] what the two applications saw

vars == <<conn, net, nextId, up, nSessions, hist>>

Peers == {Requester, Acceptor}
Other(p) == IF p = Requester THEN Acceptor ELSE Requester
Sids == 0..MaxSessions       \* 0: a sid that is not known (yet)
Sessions == Sids \ {0}
Conns == 0..MaxSessions
Owner(i) == IF i = 0 THEN Requester ELSE Acceptor
ConnsOf(p) == {i \in Conns : Owner(i) = p}

States == {"Idle", "Requesting", "WaitingForAccept", "Active"}
(* How a session ended for one application: told by the signal it got, or   *)
(* by its own call ("abandoned": given up without a word to the peer;       *)
(* "undone": a request that was reset with the connection's earlier use).   *)
Ends == {"open", "connectionClosed", "delayedCloseFinished", "closed",
         "abandoned", "undone", "refused", "dropped", "ErrRequest", "ErrData"}

NoTask == [mode |-> "none", id |-> 0]
Task(mode, id) == [mode |-> mode, id |-> id]

(* An IBBConnection.  `session' is the sid the acceptor's manager made up   *)
(* (0 when the requester does not know it yet), `timer' says that a         *)
(* QTimer::singleShot for trySend() is queued: reset() does not cancel it.  *)
(* `emits' is the signal the application is handling: it may call anything  *)
(* there, and the rest of the function that emitted it runs afterwards.     *)
Fresh == [st |-> "Idle", session |-> 0, j |-> NoTask, iqId |-> 0,
          sendbuf |-> <<>>, recvbuf |-> <<>>, blockSize |-> 0,
          closePending |-> FALSE, closing |-> FALSE, timer |-> FALSE,
          emits |-> "none"]

(* `hasty': close() was called in the handler of bytesWritten() with bytes  *)
(* left; `again': connectionClosed() came after the application's own end.  *)
NoHistory == [sent |-> <<>>, got |-> <<>>, acked |-> 0, end |-> "open",
              hasty |-> FALSE, again |-> FALSE]

Stanza(kind, id, session, data, close) ==
    [kind |-> kind, id |-> id, session |-> session, data |-> data, close |-> close]
Result(id, session) == Stanza("result", id, session, <<>>, FALSE)

(* Mutants of Error: "No such stream" answered as a success, or with a      *)
(* field outside its type.                                                  *)
ErrorAsAck(id) == Stanza("result", id, 0, <<>>, FALSE)
ErrorUntyped(id) == Stanza("failure", id, 0, <<>>, FALSE)
Error(id) == Stanza("error", id, 0, <<>>, FALSE)
IsSet(m) == m.kind \in {"request", "data"}

(* reset(): unlinks the connection (only Active ones are linked), deletes   *)
(* the task in progress and forgets unsent bytes; received bytes survive    *)
(* unless `clear'.                                                          *)
Reset(c) == [c EXCEPT !.st = "Idle", !.closePending = FALSE, !.closing = FALSE,
                      !.j = NoTask, !.sendbuf = <<>>]
ResetClear(c) == [Reset(c) EXCEPT !.recvbuf = <<>>]

Init ==
    /\ conn = [i \in Conns |-> Fresh]
    /\ net = [p \in Peers |-> <<>>]
    /\ nextId = [p \in Peers |-> 1]
    /\ up = [p \in Peers |-> TRUE]
    /\ nSessions = 0
    /\ hist = [p \in Peers |-> [s \in Sids |-> NoHistory]]

Finish(p, s, how) == hist' = [hist EXCEPT ![p][s].end = how]

(* p is in its event loop, not in a handler of one of these signals.        *)
Free(p) == \A i \in ConnsOf(p) : conn[i].emits = "none"

(* The session that connection i was last used for.                         *)
SessionOf(i) == IF i = 0 THEN nSessions ELSE i

-----------------------------------------------------------------------------
(* trySend() and the packets it makes.                                      *)

HasWork(c) == c.sendbuf # <<>> \/ c.closePending

CanSend(c) == c.j = NoTask /\ HasWork(c)

ChunkSize(c) == IF Len(c.sendbuf) < PacketSize THEN Len(c.sendbuf) ELSE PacketSize

(* Mutant of Rest: the bytes sent are not taken off the buffer.             *)
RestUncut(c) == c.sendbuf

(* The packet takes the first bytes of the buffer ...                       *)
Chunk(c) == SubSeq(c.sendbuf, 1, ChunkSize(c))
(* ... but resize() then drops as many bytes from its END.                  *)
Rest(c) == SubSeq(c.sendbuf, 1, Len(c.sendbuf) - ChunkSize(c))

DoClose(c) == Rest(c) = <<>> /\ c.closePending

Packet(c, id) == Stanza("data", id, c.session, Chunk(c), DoClose(c))

AfterSend(c, task) ==
    [c EXCEPT !.sendbuf = Rest(c),
              !.closePending = c.closePending /\ ~DoClose(c),
              !.closing = c.closing \/ DoClose(c),
              !.blockSize = ChunkSize(c),
              !.j = task]

(* Connection i, whose fields are c by now, runs trySend().  While the      *)
(* client has no stream, Task::go() sends nothing and the task deletes      *)
(* itself: the connection keeps the pointer, and takes it for a task.       *)
TrySend(i, c) ==
    LET p == Owner(i)
        id == nextId[p]
    IN  IF CanSend(c)
        THEN /\ conn' = [conn EXCEPT ![i] =
                     AfterSend(c, Task(IF up[p] THEN "data" ELSE "deleted", id))]
             /\ net' = IF up[p]
                       THEN [net EXCEPT ![Other(p)] = Append(@, Packet(c, id))]
                       ELSE net
             /\ nextId' = [nextId EXCEPT ![p] = @ + 1]
        ELSE /\ conn' = [conn EXCEPT ![i] = c]
             /\ UNCHANGED <<net, nextId>>

-----------------------------------------------------------------------------
(* The requester's and the acceptor's applications.                         *)

(* Mutant of CloseStanzas: an active stream is reset without a close packet. *)
CloseStanzasSilent(i) ==
    IF conn[i].st = "WaitingForAccept" THEN <<Error(conn[i].iqId)>> ELSE <<>>

(* What close() puts on the wire at once, by state.                         *)
CloseStanzas(i) ==
    LET c == conn[i]
    IN  IF c.st = "WaitingForAccept" THEN <<Error(c.iqId)>>
        ELSE IF c.st = "Active"
             THEN <<Stanza("data", nextId[Owner(i)], c.session, <<>>, TRUE)>>
             ELSE <<>>

(* connectToJid(): close() the old use of the object, reset(true), then     *)
(* send a request.  When close() leaves unsent bytes pending, trySend() has *)
(* first pushed one more packet (the close included when it is the last).   *)
ConnectToJid ==
    LET c == conn[0]
        lingering == c.st = "Active" /\ c.sendbuf # <<>>
        pending == [c EXCEPT !.closePending = TRUE]
        farewell == IF lingering
                    THEN IF CanSend(pending)
                         THEN <<Packet(pending, nextId[Requester])>> ELSE <<>>
                    ELSE CloseStanzas(0)
        id == nextId[Requester] + Len(farewell)
        s == nSessions + 1
    IN  /\ up[Requester] /\ nSessions < MaxSessions
        /\ nSessions' = s
        /\ conn' = [conn EXCEPT ![0] =
               [ResetClear(c) EXCEPT !.st = "Requesting", !.session = 0,
                                     !.j = Task("request", id)]]
        /\ net' = [net EXCEPT ![Acceptor] =
               @ \o Append(farewell, Stanza("request", id, s, <<>>, FALSE))]
        /\ nextId' = [nextId EXCEPT ![Requester] = id + 1]
        /\ hist' = IF c.st = "Idle" THEN hist
                   ELSE [hist EXCEPT ![Requester][nSessions].end =
                           IF c.st = "Requesting" \/ lingering
                           THEN "abandoned" ELSE "closed"]
        /\ UNCHANGED up

(* accept(): doAccept() answers the request, the connection is linked.      *)
Accept(i) ==
    /\ conn[i].st = "WaitingForAccept" /\ up[Acceptor]
    /\ conn' = [conn EXCEPT ![i].st = "Active"]
    /\ net' = [net EXCEPT ![Requester] = Append(@, Result(conn[i].iqId, conn[i].session))]
    /\ UNCHANGED <<nextId, up, nSessions, hist>>

(* close() with bytes still to write: the close waits for them.             *)
ClosePend(i) ==
    /\ conn[i].st = "Active" /\ conn[i].sendbuf # <<>> /\ up[Owner(i)]
    /\ TrySend(i, [conn[i] EXCEPT !.closePending = TRUE])
    /\ hist' = IF conn[i].emits = "bytesWritten"
               THEN [hist EXCEPT ![Owner(i)][conn[i].session].hasty = TRUE] ELSE hist
    /\ UNCHANGED <<up, nSessions>>

(* close() otherwise: reject, or send a close packet that nobody waits for, *)
(* or just give the request up; then reset().                               *)
CloseNow(i) ==
    LET c == conn[i]
        p == Owner(i)
    IN  /\ c.st # "Idle" /\ up[p]
        /\ ~(c.st = "Active" /\ c.sendbuf # <<>>)
        /\ conn' = [conn EXCEPT ![i] = Reset(c)]
        /\ net' = [net EXCEPT ![Other(p)] = @ \o CloseStanzas(i)]
        /\ nextId' = [nextId EXCEPT ![p] = IF c.st = "Active" THEN @ + 1 ELSE @]
        /\ Finish(p, SessionOf(i),
                  IF c.st = "WaitingForAccept" THEN "refused"
                  ELSE IF c.st = "Requesting" THEN "abandoned" ELSE "closed")
        /\ UNCHANGED <<up, nSessions>>

(* Client::ibb_incomingReady() deletes the incoming connection: reset(true) *)
(* and not a word to the requester.                                         *)
DropIncoming(i) ==
    /\ conn[i].st = "WaitingForAccept" /\ up[Acceptor]
    /\ conn' = [conn EXCEPT ![i] = ResetClear(@)]
    /\ Finish(Acceptor, i, "dropped")
    /\ UNCHANGED <<net, nextId, up, nSessions>>

Written(p) == MapThenSumSet(LAMBDA s : Len(hist[p][s].sent), Sessions)

(* write(): ignored when closing; otherwise append and trySend().           *)
Write(i, n) ==
    LET c == conn[i]
        p == Owner(i)
        s == c.session
        bytes == [b \in 1..n |-> Len(hist[p][s].sent) + b]
    IN  /\ c.st = "Active" /\ ~c.closePending /\ ~c.closing /\ up[p]
        /\ Written(p) + n <= MaxBytes[p]
        /\ TrySend(i, [c EXCEPT !.sendbuf = @ \o bytes])
        /\ hist' = [hist EXCEPT ![p][s].sent = @ \o bytes]
        /\ UNCHANGED <<up, nSessions>>

(* read(): hands over everything received so far.                           *)
Read(i) ==
    /\ conn[i].recvbuf # <<>>
    /\ conn' = [conn EXCEPT ![i].recvbuf = <<>>]
    /\ UNCHANGED <<net, nextId, up, nSessions, hist>>

(* The single-shot timer set in ibb_finished() fires.                       *)
TimerFires(i) ==
    /\ conn[i].timer /\ Free(Owner(i))
    /\ TrySend(i, [conn[i] EXCEPT !.timer = FALSE])
    /\ UNCHANGED <<up, nSessions, hist>>

-----------------------------------------------------------------------------
(* Stanzas arriving at p.  Pop takes the head off and appends the replies.  *)

Arrives(p, kind) ==
    up[p] /\ Free(p) /\ net[p] # <<>> /\ Head(net[p]).kind = kind

Pop(p, replies) ==
    net' = [net EXCEPT ![p] = Tail(@), ![Other(p)] = @ \o replies]

(* findConnection(): the linked connection of p with that sid.              *)
Found(p, s) == {i \in ConnsOf(p) : conn[i].st = "Active" /\ conn[i].session = s}

(* ibb_incomingRequest(): a connection waits for the application.           *)
RecvRequest ==
    LET m == Head(net[Acceptor])
    IN  /\ Arrives(Acceptor, "request")
        /\ conn' = [conn EXCEPT ![m.session] =
               [Fresh EXCEPT !.st = "WaitingForAccept", !.session = m.session,
                             !.iqId = m.id]]
        /\ Pop(Acceptor, <<>>)
        /\ UNCHANGED <<nextId, up, nSessions, hist>>

(* ibb_incomingData() for a linked connection: ack, then takeIncomingData() *)
(* appends to recvbuf and emits readyRead(), which ends it unless the       *)
(* packet closes the stream.                                                *)
RecvData(p) ==
    LET m == Head(net[p])
    IN  /\ Arrives(p, "data")
        /\ \E i \in Found(p, m.session) :
               conn' = [conn EXCEPT ![i].recvbuf = @ \o m.data,
                                    ![i].emits = IF m.close THEN "readyRead" ELSE "none"]
        /\ Pop(p, <<Result(m.id, 0)>>)
        /\ hist' = [hist EXCEPT ![p][m.session].got = @ \o m.data]
        /\ UNCHANGED <<nextId, up, nSessions>>

(* takeIncomingData() goes on: reset() and connectionClosed(), whatever the *)
(* application has done in its handler of readyRead().  Had it closed the   *)
(* stream, it hears of another end; had it made a request, that is gone.    *)
ReadyReadReturns(i) ==
    LET c == conn[i]
        p == Owner(i)
        s == SessionOf(i)
    IN  /\ c.emits = "readyRead"
        /\ conn' = [conn EXCEPT ![i] = [Reset(c) EXCEPT !.emits = "none"]]
        /\ \/ c.st = "Active" /\ Finish(p, s, "connectionClosed")
           \/ c.st = "Requesting" /\ Finish(p, s, "undone")
           \/ c.st = "Idle" /\ hist' = [hist EXCEPT ![p][s].again = TRUE]
        /\ UNCHANGED <<net, nextId, up, nSessions>>

(* ibb_incomingData() for no linked connection: 404 "No such stream".       *)
RecvNoStream(p) ==
    /\ Arrives(p, "data")
    /\ Found(p, Head(net[p]).session) = {}
    /\ Pop(p, <<Error(Head(net[p]).id)>>)
    /\ UNCHANGED <<conn, nextId, up, nSessions, hist>>

(* The connections of p whose task an answer with this id belongs to.       *)
Awaiting(p, id, mode) == {i \in ConnsOf(p) : conn[i].j = Task(mode, id)}

(* ibb_finished(), success, request: the stream is up under the sid given.  *)
RecvAccepted(p) ==
    LET m == Head(net[p])
    IN  /\ Arrives(p, "result")
        /\ \E i \in Awaiting(p, m.id, "request") :
               conn' = [conn EXCEPT ![i].st = "Active", ![i].j = NoTask,
                                    ![i].session = m.session]
        /\ Pop(p, <<>>)
        /\ UNCHANGED <<nextId, up, nSessions, hist>>

(* Mutant of Completed: a close that still waits for bytes counts as done.  *)
CompletedEarly(c) == c.closing \/ c.closePending

(* d->closing: the packet acknowledged carried the close, or one that was   *)
(* sent in the handler of bytesWritten() did.                               *)
Completed(c) == c.closing

(* Mutant of AfterAck: the timer for the rest of the buffer is forgotten.   *)
AfterAckNoTimer(c) == IF Completed(c) THEN Reset(c) ELSE c

(* After bytesWritten(): either the close is complete, or the timer is set  *)
(* when there is more to send.                                              *)
AfterAck(c) ==
    IF Completed(c) THEN Reset(c) ELSE [c EXCEPT !.timer = @ \/ HasWork(c)]

(* ibb_finished(), success, data, as far as bytesWritten().                 *)
RecvAck(p) ==
    LET m == Head(net[p])
    IN  /\ Arrives(p, "result")
        /\ \E i \in Awaiting(p, m.id, "data") :
               /\ conn' = [conn EXCEPT ![i].j = NoTask, ![i].emits = "bytesWritten"]
               /\ hist' = [hist EXCEPT
                      ![p][conn[i].session].acked = @ + conn[i].blockSize]
        /\ Pop(p, <<>>)
        /\ UNCHANGED <<nextId, up, nSessions>>

(* ... and the rest of it, on the fields the application left.              *)
BytesWrittenReturns(i) ==
    LET c == conn[i]
    IN  /\ c.emits = "bytesWritten"
        /\ conn' = [conn EXCEPT ![i] = [AfterAck(c) EXCEPT !.emits = "none"]]
        /\ IF Completed(c) THEN Finish(Owner(i), c.session, "delayedCloseFinished")
                           ELSE UNCHANGED hist
        /\ UNCHANGED <<net, nextId, up, nSessions>>

(* ibb_finished(), failure: reset(true) and error(ErrRequest / ErrData).    *)
RecvError(p) ==
    LET m == Head(net[p])
    IN  /\ Arrives(p, "error")
        /\ \E i \in Awaiting(p, m.id, "request") \cup Awaiting(p, m.id, "data") :
               /\ conn' = [conn EXCEPT ![i] = ResetClear(conn[i])]
               /\ IF conn[i].j.mode = "request"
                  THEN Finish(p, nSessions, "ErrRequest")
                  ELSE Finish(p, conn[i].session, "ErrData")
        /\ Pop(p, <<>>)
        /\ UNCHANGED <<nextId, up, nSessions>>

(* An answer to a task that was deleted meanwhile: no task takes it.        *)
RecvStale(p) ==
    /\ Arrives(p, "result") \/ Arrives(p, "error")
    /\ \A mode \in {"request", "data"} : Awaiting(p, Head(net[p]).id, mode) = {}
    /\ Pop(p, <<>>)
    /\ UNCHANGED <<conn, nextId, up, nSessions, hist>>

-----------------------------------------------------------------------------
(* The stream of p goes down: Task::onDisconnect() fails every task of p.   *)
GoOffline(p) ==
    /\ up[p] /\ Free(p)
    /\ up' = [up EXCEPT ![p] = FALSE]
    /\ conn' = [i \in Conns |->
                  IF Owner(i) = p /\ conn[i].j # NoTask THEN ResetClear(conn[i])
                                                        ELSE conn[i]]
    /\ hist' = [hist EXCEPT ![p] = [s \in Sids |->
           IF \E i \in ConnsOf(p) : conn[i].j.mode = "data" /\ conn[i].session = s
           THEN [@[s] EXCEPT !.end = "ErrData"]
           ELSE IF p = Requester /\ conn[0].j.mode = "request" /\ s = nSessions
                THEN [@[s] EXCEPT !.end = "ErrRequest"]
                ELSE @[s]]]
    /\ UNCHANGED <<net, nextId, nSessions>>

(* The server answers an iq-set for somebody offline, and drops the rest.   *)
Bounce(p) ==
    /\ ~up[p] /\ net[p] # <<>>
    /\ Pop(p, IF IsSet(Head(net[p])) THEN <<Error(Head(net[p]).id)>> ELSE <<>>)
    /\ UNCHANGED <<conn, nextId, up, nSessions, hist>>

Application ==
    \/ ConnectToJid
    \/ \E i \in Conns :
           \/ Accept(i)
           \/ ClosePend(i)
           \/ CloseNow(i)
           \/ DropIncoming(i)
           \/ \E n \in 1..MaxBytes[Owner(i)] : Write(i, n)
           \/ Read(i)

Receive(p) ==
    \/ p = Acceptor /\ RecvRequest
    \/ RecvData(p) \/ RecvNoStream(p)
    \/ RecvAccepted(p) \/ RecvAck(p) \/ RecvError(p) \/ RecvStale(p)
    \/ Bounce(p)

Return(i) == ReadyReadReturns(i) \/ BytesWrittenReturns(i)

Next ==
    \/ Application
    \/ \E i \in Conns : TimerFires(i) \/ Return(i)
    \/ \E p \in Peers : Receive(p) \/ GoOffline(p)

(* The server and the Qt event loop keep going, and the applications return *)
(* from their handlers; nothing else is assumed of them, nor of anybody     *)
(* going offline.                                                           *)
Fairness ==
    /\ \A p \in Peers : WF_vars(Receive(p))
    /\ \A i \in Conns : WF_vars(TimerFires(i)) /\ WF_vars(Return(i))

Spec == Init /\ [][Next]_vars
FairSpec == Spec /\ Fairness

-----------------------------------------------------------------------------
(* The types of the variables.                                              *)
Tasks == {NoTask} \cup [mode : {"request", "data", "deleted"}, id : Nat]

Stanzas == [kind : {"request", "data", "result", "error"}, id : Nat,
            session : Sids, data : Seq(Nat), close : BOOLEAN]

Connections ==
    [st : States, session : Sids, j : Tasks, iqId : Nat,
     sendbuf : Seq(Nat), recvbuf : Seq(Nat), blockSize : Nat,
     closePending : BOOLEAN, closing : BOOLEAN, timer : BOOLEAN,
     emits : {"none", "bytesWritten", "readyRead"}]

Histories == [sent : Seq(Nat), got : Seq(Nat), acked : Nat, end : Ends,
              hasty : BOOLEAN, again : BOOLEAN]

TypeOK ==
    /\ conn \in [Conns -> Connections]
    /\ net \in [Peers -> Seq(Stanzas)]
    /\ nextId \in [Peers -> Nat]
    /\ up \in [Peers -> BOOLEAN]
    /\ nSessions \in Sids
    /\ hist \in [Peers -> [Sids -> Histories]]

(* No lost wakeup: while the stream is up, bytes in the send buffer, or a   *)
(* close waiting for them, always have somebody left to send them: a packet *)
(* whose answer will call trySend() again, the timer, or ibb_finished(),    *)
(* which will set it.                                                       *)
NoLostWakeup ==
    \A i \in Conns :
        HasWork(conn[i]) /\ up[Owner(i)] =>
            conn[i].j.mode = "data" \/ conn[i].timer \/ conn[i].emits = "bytesWritten"

(* The fields of one connection agree with its state.  Inductive, and it    *)
(* implies NoLostWakeup, together with StreamsOK.                           *)
Quiet(c) == ~HasWork(c) /\ ~c.closing

ConnectionOK(c) ==
    /\ c.st \in {"Idle", "WaitingForAccept"} => c.j = NoTask /\ Quiet(c)
    /\ c.st = "Requesting" => c.j.mode = "request" /\ Quiet(c)
    /\ c.st = "Active" => c.j.mode # "request"
    /\ HasWork(c) => c.j # NoTask \/ c.timer \/ c.emits = "bytesWritten"

ConnectionsOK == \A i \in Conns : ConnectionOK(conn[i])

(* A task deletes itself only while the stream is down, and a signal is     *)
(* handled only while it is up.                                             *)
StreamsOK ==
    \A i \in Conns :
        IF up[Owner(i)] THEN conn[i].j.mode # "deleted" ELSE conn[i].emits = "none"

(* bytesWritten() never reports more bytes than the peer has received.      *)
AckedWasDelivered ==
    \A p \in Peers, s \in Sessions :
        hist[p][s].acked <= Len(hist[Other(p)][s].got)

(* delayedCloseFinished() is emitted only after the peer received as many   *)
(* bytes as the application wrote, unless it called close() in its handler  *)
(* of bytesWritten().                                                       *)
CloseFinishedMeansDelivered ==
    \A p \in Peers, s \in Sessions :
        hist[p][s].end = "delayedCloseFinished" /\ ~hist[p][s].hasty =>
            Len(hist[Other(p)][s].got) = Len(hist[p][s].sent)

(* The same without the exception: ByteStream says of close() that "once    *)
(* all data has been written, the delayedCloseFinished() signal will be     *)
(* emitted", and of bytesWritten() that data "has been successfully         *)
(* written".                                                                *)
CloseFinishedMeansWritten ==
    \A p \in Peers, s \in Sessions :
        hist[p][s].end = "delayedCloseFinished" =>
            hist[p][s].acked = Len(hist[p][s].sent)

(* error(ErrData) has a cause outside the stream: somebody is offline, or   *)
(* the peer gave the session up without a close packet, or lost its request *)
(* with the earlier use of the connection.  In particular two ends that     *)
(* close at the same time never run into "No such stream".                  *)
ErrDataHasCause ==
    \A p \in Peers, s \in Sessions :
        hist[p][s].end = "ErrData" =>
            \/ \E q \in Peers : ~up[q]
            \/ hist[Other(p)][s].end \in {"abandoned", "undone"}

(* What an application reads is what the other one wrote, in order, as long *)
(* as everything written fits one packet (otherwise see InOrder).           *)
InOrderIfSmall ==
    \A p \in Peers, s \in Sessions :
        Len(hist[p][s].sent) <= PacketSize =>
            IsPrefix(hist[Other(p)][s].got, hist[p][s].sent)

(* The same without the restriction: xmpp_ibb.cpp's write() says it appends *)
(* "to the end of our send buffer" and trySend() that it will "take a       *)
(* chunk", which together promise the bytes in order.                       *)
InOrder ==
    \A p \in Peers, s \in Sessions :
        IsPrefix(hist[Other(p)][s].got, hist[p][s].sent)

(* A close that waits for unsent bytes is carried out in the end, unless    *)
(* the stream of its owner goes down.                                       *)
PendingCloseCompletes ==
    \A i \in Conns :
        conn[i].closePending ~> conn[i].st # "Active" \/ ~up[Owner(i)]
=============================================================================

---------------------------- MODULE FileTransfer ----------------------------
(***************************************************************************)
(* One file transfer between two Psi clients: FileTransfer and its manager *)
(* (iris/jabber/filetransfer.cpp) at both ends, under the application's    *)
(* FileTransferHandler and dialogs (src/filetransdlg.cpp).                 *)
(*                                                                         *)
(* The handler lives in a web of deferred calls: zero timers for trySend() *)
(* and doFinish(), a queued connection for ft_error(), and a progress()    *)
(* signal on which the dialog deletes the handler when the last step is    *)
(* reached.  Two counters run in parallel: FileTransfer counts the bytes   *)
(* of the stream, the handler counts from the offset that is resumed.      *)
(*                                                                         *)
(* The bytestream is abstract: S5B is the model of its negotiation.  Byte  *)
(* k of the file is the number k.                                          *)
(***************************************************************************)
EXTENDS Naturals, Sequences, FiniteSets

CONSTANTS
    Sender, Receiver,   \* the two ends
    MaxSize,            \* bound: size of the file and of a .part file
    SendBufSize,        \* SENDBUFSIZE
    IntLimit,           \* an int holds -IntLimit .. IntLimit - 1
    CsMin, CsMax        \* CSMIN, CSMAX: bits of a step count, bits of a size

ASSUME FileTransferAssumption ==
    /\ Sender # Receiver
    /\ MaxSize \in Nat
    /\ SendBufSize \in Nat \ {0}
    /\ IntLimit \in Nat \ {0}
    /\ CsMin \in Nat \ {0} /\ CsMax \in Nat /\ CsMin <= CsMax
    /\ \A k \in 0..CsMax : 2^k \in Nat \ {0}

VARIABLES
    size,        \* the size of the file
    offset,      \* the size of the receiver's .part file
    peer,        \* [Peers -> the fields of an end]
    net,         \* [Peers -> Seq(stanza)] on their way to a peer
    stream,      \* the bytestream
    out,         \* bytes in the sender's S5BConnection, not written yet
    wire,        \* bytes in flight
    file,        \* bytes the receiver has written
    acceptTimer, \* the 30 s timer of the receiver's dialog is running
    excuse       \* what went wrong outside the transfer's own logic

vars == <<size, offset, peer, net, stream, out, wire, file, acceptTimer, excuse>>

Peers == {Sender, Receiver}
Other(p) == IF p = Sender THEN Receiver ELSE Sender

(* The request (JT_FT) and the two answers to it (JT_PushFT).               *)
Request == "request"
Accepted == "accepted"
Rejected == "rejected"

Excuses == {"cancelled", "rejected", "timeout", "badOffset", "notConnected",
            "streamBroke", "fileError"}

(* An end.  `h' and `ft': the handler, and its FileTransfer, exist; `c':    *)
(* FileTransfer's S5BConnection pointer is not null.  `try' counts trySend  *)
(* timers, `finish' and `err' say that doFinish() and ft_error() are queued.*)
(* `end' is what the user was told.                                         *)
NewEnd ==
    [h |-> FALSE, ft |-> FALSE, c |-> FALSE, state |-> "Idle", length |-> 0,
     ftSent |-> 0, sent |-> 0, try |-> 0, finish |-> FALSE, err |-> FALSE,
     end |-> "running"]

(* FileTransfer::reset(), deleting a FileTransfer, deleting a handler: its  *)
(* timers and queued calls go with it.                                      *)
ResetFT(e) == [e EXCEPT !.state = "Idle", !.c = FALSE, !.ftSent = 0]
DeleteFT(e) == [ResetFT(e) EXCEPT !.ft = FALSE]
DeleteHandler(e, how) ==
    [DeleteFT(e) EXCEPT !.h = FALSE, !.try = 0, !.finish = FALSE, !.err = FALSE,
                        !.end = how]

(* Mutant of QueueError: the error reaches the handler at once, and is shown *)
(* with a code nobody knows.                                                *)
QueueErrorUntyped(e) == DeleteHandler(e, "failed")

(* reset(), then error(): the handler is connected to it by a queue.        *)
QueueError(e) == [ResetFT(e) EXCEPT !.err = TRUE]

Init ==
    /\ size \in 0..MaxSize
    /\ offset = 0
    /\ peer = [p \in Peers |-> NewEnd]
    /\ net = [p \in Peers |-> <<>>]
    /\ stream = "none"
    /\ out = <<>> /\ wire = <<>> /\ file = <<>>
    /\ acceptTimer = FALSE
    /\ excuse = {}

(* JT_FT::take() reads the offset of the range into an int: what the sender *)
(* resumes at is the offset without its upper bits.  A negative one, or one *)
(* beyond the file, is refused.                                             *)
RangeOffset == offset % (2 * IntLimit)
BadRange == RangeOffset >= IntLimit \/ RangeOffset > size
OffsetOf(p) == IF p = Sender THEN RangeOffset ELSE offset

-----------------------------------------------------------------------------
(* The progress of a transfer, in steps of 2^shift bytes.                   *)

(* calcShift(): the place of the highest bit, from CSMIN bits on.           *)
CalcShift(big) ==
    Cardinality({n \in 1..(CsMax - CsMin) : big >= 2^(n + CsMin - 1)})

CalcComplement(big, block) == IF big % block = 0 THEN 0 ELSE block - (big % block)

(* Mutant of CalcTotalSteps: rounded down.                                  *)
CalcTotalStepsDown(big, block) == big \div block

CalcTotalSteps(big, block) == IF big < 1 THEN 0 ELSE ((big - 1) \div block) + 1

(* Mutant of CalcProgressStep: the complement is forgotten.                 *)
CalcProgressStepDown(big, complement, block) == big \div block

CalcProgressStep(big, complement, block) == (big + complement) \div block

Block == 2^CalcShift(size)
TotalSteps == CalcTotalSteps(size, Block)
Step(sent) == CalcProgressStep(sent, CalcComplement(size, Block), Block)

(* progress(): FileTransDlg deletes the handler of a finished transfer.     *)
Progress(e) ==
    IF e.h /\ Step(e.sent) = TotalSteps THEN DeleteHandler(e, "done") ELSE e

-----------------------------------------------------------------------------
(* Effects on one end.                                                      *)

Set(p, e) == peer' = [peer EXCEPT ![p] = e]

Finish(e) == Progress(IF e.sent = size THEN DeleteFT(e) ELSE e)

(* FileTransDlg takes the transfer over: one without steps is finished      *)
(* already, any other reports its progress from now on.                     *)
TakeTransfer(e) == IF TotalSteps = 0 THEN DeleteHandler(e, "done") ELSE e

(* ft_connected() of the handler, then of the dialog that started it.       *)
Connected(p, e) ==
    LET started == [e EXCEPT !.state = "Active", !.sent = OffsetOf(p)]
    IN  TakeTransfer(
            IF OffsetOf(p) = size THEN [started EXCEPT !.finish = TRUE]
            ELSE IF p = Sender THEN [started EXCEPT !.try = 1] ELSE started)

(* Mutant of DataSizeNeeded: what is waiting to be written is forgotten.    *)
DataSizeNeededBlind(e) ==
    LET left == e.length - e.ftSent
    IN  IF left < SendBufSize THEN left ELSE SendBufSize

(* dataSizeNeeded(): fill the send buffer, but not beyond the length.       *)
DataSizeNeeded(e) ==
    LET left == e.length - (e.ftSent + Len(out))
        room == SendBufSize - Len(out)
    IN  IF Len(out) >= SendBufSize THEN 0 ELSE IF left < room THEN left ELSE room

(* Mutant of BytesWritten: the handler counts what is still in the buffer.  *)
BytesWrittenEarly(e, n) ==
    LET counted == [e EXCEPT !.ftSent = @ + n, !.sent = @ + Len(out)]
        ft == IF counted.ftSent = e.length THEN ResetFT(counted) ELSE counted
    IN  Progress(IF ft.sent = size THEN DeleteFT(ft) ELSE [ft EXCEPT !.try = @ + 1])

(* Mutant of BytesWritten: one counter is taken for the other.              *)
BytesWrittenMixedUp(e, n) ==
    LET counted == [e EXCEPT !.ftSent = @ + n, !.sent = @ + n]
        ft == IF counted.sent = e.length THEN ResetFT(counted) ELSE counted
    IN  Progress(IF ft.sent = size THEN DeleteFT(ft) ELSE [ft EXCEPT !.try = @ + 1])

(* s5b_bytesWritten(n) and ft_bytesWritten(n).                              *)
BytesWritten(e, n) ==
    LET counted == [e EXCEPT !.ftSent = @ + n, !.sent = @ + n]
        ft == IF counted.ftSent = e.length THEN ResetFT(counted) ELSE counted
    IN  Progress(IF ft.sent = size THEN DeleteFT(ft) ELSE [ft EXCEPT !.try = @ + 1])

(* s5b_readyRead() with n bytes, of which at most `need' are taken, and     *)
(* ft_readyRead().                                                          *)
Needed(e, n) == IF n > e.length - e.ftSent THEN e.length - e.ftSent ELSE n

ReadyRead(e, n) ==
    LET counted == [e EXCEPT !.ftSent = @ + n, !.sent = @ + n]
    IN  Finish(IF counted.ftSent = e.length THEN ResetFT(counted) ELSE counted)

-----------------------------------------------------------------------------
(* Negotiating the transfer.                                                *)

(* FileTransferHandler::send() and sendFile().                              *)
SendFile ==
    /\ peer[Sender] = NewEnd
    /\ Set(Sender, [NewEnd EXCEPT !.h = TRUE, !.ft = TRUE, !.state = "Requesting"])
    /\ net' = [net EXCEPT ![Receiver] = Append(@, Request)]
    /\ UNCHANGED <<size, offset, stream, out, wire, file, acceptTimer, excuse>>

(* pft_incoming(): the transfer waits for the user.                         *)
RecvRequest ==
    /\ net[Receiver] # <<>> /\ Head(net[Receiver]) = Request
    /\ net' = [net EXCEPT ![Receiver] = Tail(@)]
    /\ Set(Receiver, [NewEnd EXCEPT !.h = TRUE, !.ft = TRUE,
                                    !.state = "WaitingForAccept"])
    /\ UNCHANGED <<size, offset, stream, out, wire, file, acceptTimer, excuse>>

(* FileRequestDlg::doStart() and accept(): resume at the end of the .part   *)
(* file, whatever its size.  The length is the size of the file.            *)
AcceptFile(part) ==
    /\ peer[Receiver].state = "WaitingForAccept"
    /\ offset' = part
    /\ Set(Receiver, [peer[Receiver] EXCEPT !.state = "Connecting", !.length = size])
    /\ net' = [net EXCEPT ![Sender] = Append(@, Accepted)]
    /\ acceptTimer' = TRUE
    /\ UNCHANGED <<size, stream, out, wire, file, excuse>>

(* The user cancels, or declines: the handler is deleted, FileTransfer      *)
(* closed.                                                                  *)
Cancel(p) ==
    LET e == peer[p]
        decline == e.state = "WaitingForAccept"
    IN  /\ e.h
        /\ Set(p, DeleteHandler(e, "cancelled"))
        /\ net' = IF decline THEN [net EXCEPT ![Sender] = Append(@, Rejected)] ELSE net
        /\ out' = IF p = Sender THEN <<>> ELSE out
        /\ acceptTimer' = (acceptTimer /\ p = Sender)
        /\ excuse' = excuse \cup {IF decline THEN "rejected" ELSE "cancelled"}
        /\ UNCHANGED <<size, offset, stream, wire, file>>

(* FileRequestDlg::t_timeout(): nothing came of it for 30 seconds.          *)
AcceptTimeout ==
    /\ acceptTimer
    /\ acceptTimer' = FALSE
    /\ Set(Receiver, DeleteHandler(peer[Receiver], "error"))
    /\ excuse' = excuse \cup {"timeout"}
    /\ UNCHANGED <<size, offset, net, stream, out, wire, file>>

(* ft_finished() at the sender: connectToJid(), or an error when declined   *)
(* or when the range does not fit the file.  Nobody is told of an answer    *)
(* that comes too late.                                                     *)
RecvAnswer ==
    LET e == peer[Sender]
        accepted == Head(net[Sender]) = Accepted
    IN  /\ net[Sender] # <<>>
        /\ net' = [net EXCEPT ![Sender] = Tail(@)]
        /\ CASE e.state = "Requesting" /\ accepted /\ ~BadRange ->
                    /\ Set(Sender, [e EXCEPT !.state = "Connecting", !.c = TRUE,
                                             !.length = size - RangeOffset])
                    /\ stream' = "requested"
                    /\ UNCHANGED excuse
             [] e.state = "Requesting" /\ ~(accepted /\ ~BadRange) ->
                    /\ Set(Sender, QueueError(e))
                    /\ excuse' = IF accepted THEN excuse \cup {"badOffset"} ELSE excuse
                    /\ UNCHANGED stream
             [] OTHER -> UNCHANGED <<peer, stream, excuse>>
        /\ UNCHANGED <<size, offset, out, wire, file, acceptTimer>>

-----------------------------------------------------------------------------
(* The bytestream.                                                          *)

(* FileTransferManager::s5b_incomingReady(): the transfer that waits for a  *)
(* stream takes it (and the dialog's timer stops), or it is refused.        *)
RecvStreamRequest ==
    LET e == peer[Receiver]
        takes == e.state = "Connecting" /\ e.ft
    IN  /\ stream = "requested"
        /\ stream' = IF takes THEN "negotiating" ELSE "failed"
        /\ Set(Receiver, [e EXCEPT !.c = takes])
        /\ acceptTimer' = (acceptTimer /\ ~takes)
        /\ UNCHANGED <<size, offset, net, out, wire, file, excuse>>

(* The negotiation ends: never well when an end is gone by then.            *)
Negotiated(ok) ==
    /\ stream = "negotiating"
    /\ ok => \A p \in Peers : peer[p].c
    /\ stream' = IF ok THEN "up" ELSE "failed"
    /\ excuse' = IF ok THEN excuse ELSE excuse \cup {"notConnected"}
    /\ UNCHANGED <<size, offset, peer, net, out, wire, file, acceptTimer>>

(* The stream breaks, with the bytes in flight.                             *)
Break ==
    /\ stream = "up"
    /\ stream' = "failed"
    /\ wire' = <<>>
    /\ excuse' = excuse \cup {"streamBroke"}
    /\ UNCHANGED <<size, offset, peer, net, out, file, acceptTimer>>

(* s5b_connected(); the file is opened, or not.                             *)
StreamUp(p, opened) ==
    LET e == peer[p]
    IN  /\ stream = "up" /\ e.c /\ e.state = "Connecting"
        /\ Set(p, IF opened THEN Connected(p, e) ELSE DeleteHandler(e, "error"))
        /\ excuse' = IF opened THEN excuse ELSE excuse \cup {"fileError"}
        /\ UNCHANGED <<size, offset, net, stream, out, wire, file, acceptTimer>>

(* Mutant of ClosedByOther: the receiver does not read what came before.    *)
ClosedByOtherUnread(p) ==
    stream = "up" /\ peer[p].state = "Active" /\ ~peer[Other(p)].c

(* The other end has closed the stream and (at the receiver) all that came  *)
(* before is read.                                                          *)
ClosedByOther(p) ==
    /\ stream = "up" /\ peer[p].state = "Active" /\ ~peer[Other(p)].c
    /\ p = Receiver => wire = <<>>

(* s5b_error() and s5b_connectionClosed().                                  *)
StreamDown(p) ==
    /\ peer[p].c
    /\ stream = "failed" \/ ClosedByOther(p)
    /\ Set(p, QueueError(peer[p]))
    /\ out' = IF p = Sender THEN <<>> ELSE out
    /\ UNCHANGED <<size, offset, net, stream, wire, file, acceptTimer, excuse>>

(* Bytes leave the sender's buffer.                                         *)
WriteBytes(n) ==
    LET e == BytesWritten(peer[Sender], n)
    IN  /\ stream = "up" /\ peer[Sender].c
        /\ Set(Sender, e)
        /\ wire' = IF peer[Receiver].c THEN wire \o SubSeq(out, 1, n) ELSE wire
        /\ out' = IF e.c THEN SubSeq(out, n + 1, Len(out)) ELSE <<>>
        /\ UNCHANGED <<size, offset, net, stream, file, acceptTimer, excuse>>

(* Bytes reach the receiver, which cuts them to what it still needs; or the *)
(* disk is full.                                                            *)
ReadBytes(n, written) ==
    LET e == peer[Receiver]
        taken == Needed(e, n)
    IN  /\ stream = "up" /\ e.c /\ e.state = "Active"
        /\ wire' = SubSeq(wire, n + 1, Len(wire))
        /\ IF written
           THEN /\ Set(Receiver, ReadyRead(e, taken))
                /\ file' = file \o SubSeq(wire, 1, taken)
                /\ UNCHANGED excuse
           ELSE /\ Set(Receiver, DeleteHandler(e, "error"))
                /\ excuse' = excuse \cup {"fileError"}
                /\ UNCHANGED file
        /\ UNCHANGED <<size, offset, net, stream, out, acceptTimer>>

-----------------------------------------------------------------------------
(* The calls that were put off.                                             *)

(* trySend(): the next block of the file, if it can be read.  It uses the   *)
(* FileTransfer and its connection without looking whether they are still   *)
(* there.                                                                   *)
TrySend(read) ==
    LET e == [peer[Sender] EXCEPT !.try = @ - 1]
        next == RangeOffset + e.ftSent + Len(out)
    IN  /\ peer[Sender].try > 0
        /\ ~read => e.ft /\ e.c /\ DataSizeNeeded(e) > 0
        /\ IF read /\ e.ft /\ e.c
           THEN /\ Set(Sender, e)
                /\ out' = out \o [k \in 1..DataSizeNeeded(e) |-> next + k]
           ELSE /\ Set(Sender, DeleteHandler(e, IF read THEN "crashed" ELSE "error"))
                /\ out' = <<>>
        /\ excuse' = IF read THEN excuse ELSE excuse \cup {"fileError"}
        /\ UNCHANGED <<size, offset, net, stream, wire, file, acceptTimer>>

(* doFinish() from its timer.                                               *)
DoFinish(p) ==
    /\ peer[p].finish
    /\ Set(p, Finish([peer[p] EXCEPT !.finish = FALSE]))
    /\ UNCHANGED <<size, offset, net, stream, out, wire, file, acceptTimer, excuse>>

(* ft_error() from the queue; the dialog deletes the handler.               *)
DeliverError(p) ==
    /\ peer[p].err
    /\ Set(p, DeleteHandler(peer[p], "error"))
    /\ acceptTimer' = (acceptTimer /\ p = Sender)
    /\ UNCHANGED <<size, offset, net, stream, out, wire, file, excuse>>

-----------------------------------------------------------------------------
Deferred(p) == DoFinish(p) \/ DeliverError(p)
Stanza == RecvRequest \/ RecvAnswer \/ RecvStreamRequest
Data ==
    \/ \E n \in 1..Len(out) : WriteBytes(n)
    \/ \E n \in 1..Len(wire) : ReadBytes(n, TRUE)

Next ==
    \/ SendFile \/ Stanza \/ AcceptTimeout \/ Data \/ Break
    \/ \E read \in BOOLEAN : TrySend(read)
    \/ \E part \in 0..MaxSize : AcceptFile(part)
    \/ \E ok \in BOOLEAN : Negotiated(ok)
    \/ \E n \in 1..Len(wire) : ReadBytes(n, FALSE)
    \/ \E p \in Peers :
           \/ Cancel(p) \/ StreamDown(p) \/ Deferred(p)
           \/ \E opened \in BOOLEAN : StreamUp(p, opened)

(* The event loop, the server and TCP keep going, the dialog's timer fires  *)
(* in the end, S5B ends its negotiation.  Nobody has to accept, to cancel   *)
(* or to fail.                                                              *)
Fairness ==
    /\ WF_vars(Stanza) /\ WF_vars(AcceptTimeout) /\ WF_vars(TrySend(TRUE))
    /\ WF_vars(\E n \in 1..Len(out) : WriteBytes(n))
    /\ WF_vars(\E n \in 1..Len(wire) : ReadBytes(n, TRUE))
    /\ WF_vars(\E ok \in BOOLEAN : Negotiated(ok))
    /\ \A p \in Peers : WF_vars(StreamDown(p)) /\ WF_vars(Deferred(p))
                          /\ WF_vars(StreamUp(p, TRUE))

Spec == Init /\ [][Next]_vars
FairSpec == Spec /\ Fairness

-----------------------------------------------------------------------------
Outcomes == {"running", "done", "error", "cancelled", "crashed"}

Ends ==
    [h : BOOLEAN, ft : BOOLEAN, c : BOOLEAN,
     state : {"Idle", "Requesting", "WaitingForAccept", "Connecting", "Active"},
     length : 0..MaxSize, ftSent : 0..MaxSize, sent : 0..(2 * MaxSize),
     try : 0..MaxSize, finish : BOOLEAN, err : BOOLEAN, end : Outcomes]

Bytes == Seq(1..MaxSize)

TypeOK ==
    /\ size \in 0..MaxSize /\ offset \in 0..MaxSize
    /\ peer \in [Peers -> Ends]
    /\ net \in [Peers -> Seq({Request, Accepted, Rejected})]
    /\ stream \in {"none", "requested", "negotiating", "up", "failed"}
    /\ out \in Bytes /\ wire \in Bytes /\ file \in Bytes
    /\ acceptTimer \in BOOLEAN
    /\ excuse \subseteq Excuses

(* The offset survives the int it is read into: no .part of 2 GB or more.   *)
OffsetFits == offset < IntLimit

(* When the receiver's user is told that the file is there, it is: what was *)
(* received is the rest of the file after the .part, in order, no byte      *)
(* twice and none missing.  (A larger .part loses the upper bits of its     *)
(* size on the way to the sender, and gets the wrong bytes appended.)       *)
ReceivedFileIsWhole ==
    peer[Receiver].end = "done" /\ OffsetFits =>
        file = [k \in 1..(size - offset) |-> offset + k]

(* When the sender's user is told so, every byte has left its buffer, and   *)
(* unless something failed it is on the wire or in the receiver's file.     *)
SenderDoneMeansSent ==
    peer[Sender].end = "done" =>
        /\ out = <<>>
        /\ OffsetFits /\ excuse = {} => Len(file) + Len(wire) = size - offset

(* The sender never puts more on the stream than the receiver will take.    *)
NeverSendsTooMuch ==
    stream = "up" /\ OffsetFits => Len(file) + Len(wire) + Len(out) <= size - offset

(* A transfer with nothing wrong outside its own logic fails at neither     *)
(* end, save one case: the .part file was whole already, and the closing of *)
(* the stream by the end that noticed first overtakes doFinish() of the     *)
(* other.                                                                   *)
FailsOnlyWithCause ==
    \A p \in Peers :
        peer[p].end = "error" /\ OffsetFits /\ excuse = {} => size > 0 /\ offset = size

(* trySend() finds its connection gone only when the stream was lost.       *)
CrashNeedsLostStream ==
    peer[Sender].end = "crashed" /\ OffsetFits =>
        excuse \cap {"cancelled", "streamBroke", "fileError"} # {}

(* A transfer that was accepted ends at both ends, well or badly.  (With a  *)
(* .part of 4 GB or more, larger than the file, the receiver's handler      *)
(* counts past the end of the file and stays.)                              *)
AcceptedTransferEnds ==
    peer[Receiver].state = "Connecting" /\ OffsetFits
        ~> \A p \in Peers : peer[p].end # "running"
=============================================================================

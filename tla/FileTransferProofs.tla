------------------------- MODULE FileTransferProofs -------------------------
(***************************************************************************)
(* Proofs about FileTransfer for every size of file, .part file and int:   *)
(* it is well typed, a file reported whole is whole, and failures have a   *)
(* cause.                                                                  *)
(*                                                                         *)
(* Invariant relates the two ends, which share nothing but what is between *)
(* them: the stanzas fix how far each can be (Handshake), and the bytes    *)
(* written, in flight and buffered are together what the sender has read   *)
(* (DataOK).                                                               *)
(***************************************************************************)
EXTENDS FileTransfer, FiniteSetTheorems, SequenceTheorems, TLAPS

-----------------------------------------------------------------------------
(* The progress bar.                                                       *)

(* Division with a remainder.                                              *)
LEMMA DivMod ==
    ASSUME NEW a \in Nat, NEW b \in Nat, b > 0
    PROVE  /\ a \div b \in Nat
           /\ a % b \in 0..(b - 1)
           /\ a = b * (a \div b) + (a % b)
  BY SMT

(* The quotient is at least q when q blocks fit.                           *)
LEMMA DivAtLeast ==
    ASSUME NEW a \in Nat, NEW b \in Nat, b > 0, NEW q \in Nat
    PROVE  a \div b >= q <=> a >= b * q
<1> DEFINE d == a \div b
           r == a % b
<1>1. d \in Nat /\ r \in 0..(b - 1) /\ a = b * d + r
  BY DivMod
<1> HIDE DEF d, r
<1>2. CASE d >= q
  <2>1. b * d >= b * q
    BY <1>1, <1>2, SMT
  <2> QED BY <2>1, <1>1, <1>2, SMT DEF d
<1>3. CASE d + 1 <= q
  <2>1. b * (d + 1) <= b * q
    BY <1>1, <1>3, SMT
  <2>2. b * (d + 1) = b * d + b
    BY <1>1, SMT
  <2> QED BY <2>1, <2>2, <1>1, <1>3, SMT DEF d
<1> QED BY <1>1, <1>2, <1>3, SMT

(* The quotient of a whole number of blocks, and a remainder.              *)
LEMMA DivExact ==
    ASSUME NEW q \in Nat, NEW b \in Nat, b > 0, NEW r \in 0..(b - 1)
    PROVE  (b * q + r) \div b = q
<1>1. b * q + r \in Nat
  BY SMT
<1> DEFINE a == b * q + r
           d == a \div b
<1>2. d >= q
  BY <1>1, DivAtLeast, SMT
<1>3. b * (q + 1) = b * q + b
  BY SMT
<1>4. ~(a >= b * (q + 1))
  BY <1>1, <1>3, SMT
<1>5. ~(d >= q + 1)
  BY <1>1, <1>4, DivAtLeast, q + 1 \in Nat, SMT
<1>6. d \in Nat
  BY <1>1, DivMod
<1> QED BY <1>2, <1>5, <1>6, SMT

(* The number of steps of a file of q blocks and r bytes.                  *)
LEMMA TotalStepsValue ==
    ASSUME NEW q \in Nat, NEW b \in Nat, b > 0, NEW r \in 0..(b - 1)
    PROVE  CalcTotalSteps(b * q + r, b) = IF r = 0 THEN q ELSE q + 1
<1> DEFINE a == b * q + r
<1>1. CASE r > 0
  <2>1. r - 1 \in 0..(b - 1) /\ a - 1 = b * q + (r - 1) /\ a >= 1
    BY <1>1, SMT
  <2>2. (a - 1) \div b = q
    BY <2>1, DivExact
  <2> QED BY <1>1, <2>1, <2>2, SMT DEF CalcTotalSteps
<1>2. CASE r = 0 /\ q = 0
  BY <1>2, SMT DEF CalcTotalSteps
<1>3. CASE r = 0 /\ q > 0
  <2>1. b * q = b * (q - 1) + b
    BY <1>3, SMT
  <2>2. b - 1 \in 0..(b - 1) /\ a - 1 = b * (q - 1) + (b - 1) /\ a >= 1
    BY <1>3, <2>1, SMT
  <2>3. (a - 1) \div b = q - 1
    BY <1>3, <2>2, q - 1 \in Nat, DivExact
  <2> QED BY <1>3, <2>2, <2>3, SMT DEF CalcTotalSteps
<1> QED BY <1>1, <1>2, <1>3, SMT

(* The progress bar is at its last step exactly when the last byte is      *)
(* counted, whatever the size of the file and the size of a step:          *)
(* FileTransDlg::ft_progress() deletes the handler, and with it the        *)
(* transfer, at that step.                                                 *)
THEOREM LastStepIsLastByte ==
    ASSUME NEW b \in Nat, b > 0, NEW big \in Nat, NEW n \in 0..big
    PROVE  CalcProgressStep(n, CalcComplement(big, b), b) = CalcTotalSteps(big, b)
               <=> n = big
<1> DEFINE q == big \div b
           r == big % b
           c == CalcComplement(big, b)
           t == IF r = 0 THEN q ELSE q + 1
<1>1. q \in Nat /\ r \in 0..(b - 1) /\ big = b * q + r
  BY DivMod
<1>2. CalcTotalSteps(big, b) = t
  BY <1>1, TotalStepsValue
<1>3. c = IF r = 0 THEN 0 ELSE b - r
  BY DEF CalcComplement
<1> HIDE DEF q, r, c
<1>4. c \in Nat /\ t \in Nat /\ b * (q + 1) = b * q + b
  BY <1>1, <1>3, SMT
<1>5. big + c = b * t
  BY <1>1, <1>3, <1>4, SMT
<1>6. n + c >= b * t <=> n = big
  BY <1>4, <1>5, <1>1, SMT
<1>7. (n + c) \div b >= t <=> n = big
  BY <1>4, <1>6, n + c \in Nat, DivAtLeast
<1>8. b * (t + 1) = b * t + b
  BY <1>4, SMT
<1>9. ~((n + c) \div b >= t + 1)
  <2>1. ~(n + c >= b * (t + 1))
    BY <1>4, <1>5, <1>8, SMT
  <2> QED BY <2>1, <1>4, n + c \in Nat, t + 1 \in Nat, DivAtLeast
<1>10. (n + c) \div b \in Nat
  BY <1>4, n + c \in Nat, DivMod
<1>11. (n + c) \div b = t <=> n = big
  <2> DEFINE x == (n + c) \div b
  <2> HIDE DEF x, t
  <2> QED BY <1>4, <1>7, <1>9, <1>10, SMT DEF x
<1> QED BY <1>2, <1>11 DEF CalcProgressStep, c

-----------------------------------------------------------------------------
(* What is known of every state.                                            *)

snd == peer[Sender]
rcv == peer[Receiver]

Begun(e) == e.state \in {"Connecting", "Active"}
Fresh(e) == ~e.h /\ e.end = "running"
Lost == excuse \cap {"cancelled", "streamBroke", "fileError"} # {}

(* A handler has a FileTransfer as long as it exists, and everything else   *)
(* goes with it.                                                           *)
EndOK(e) ==
    /\ ~e.h => ~e.ft /\ ~e.c /\ e.state = "Idle" /\ e.try = 0 /\ ~e.finish /\ ~e.err
    /\ e.h => e.ft /\ e.end = "running"
    /\ e.c => Begun(e)
    /\ e.state = "Active" => e.c
    /\ e.err => e.state = "Idle"
    /\ e.state # "Active" => e.ftSent = 0
EndsOK == EndOK(snd) /\ EndOK(rcv)

(* One request, one answer, one stream: how far the two ends can be.        *)
Handshake ==
    /\ net[Receiver] \in {<<>>, <<Request>>}
    /\ net[Sender] \in {<<>>, <<Accepted>>, <<Rejected>>}
    /\ Fresh(snd) => net[Receiver] = <<>> /\ Fresh(rcv)
    /\ net[Receiver] # <<>> => Fresh(rcv)
    /\ Fresh(rcv) \/ rcv.state = "WaitingForAccept" =>
         /\ net[Sender] = <<>> /\ stream = "none" /\ ~acceptTimer
         /\ ~snd.err /\ snd.end \in {"running", "cancelled"}
    /\ net[Sender] # <<>> => stream = "none"
    /\ net[Sender] = <<Rejected>> => "rejected" \in excuse
    /\ net[Sender] = <<Accepted>> \/ stream = "requested" =>
         rcv.state = "Connecting" \/ excuse # {}
    /\ snd.state # "WaitingForAccept" /\ rcv.state # "Requesting"
    /\ acceptTimer => rcv.state = "Connecting" /\ ~rcv.c
    /\ acceptTimer => stream \in {"none", "requested"}
    /\ Begun(snd) => snd.c
    /\ Begun(snd) => stream # "none"
    /\ rcv.c => stream \notin {"none", "requested"}
    /\ snd.end = "done" => stream \in {"up", "failed"}
    /\ stream # "none" => ~BadRange
    /\ stream = "failed" => excuse # {}

SenderOK ==
    /\ Begun(snd) => snd.length = size - RangeOffset
    /\ snd.state # "Active" => out = <<>>
    /\ snd.state = "Active" =>
         /\ stream \in {"up", "failed"} /\ size > 0
         /\ snd.sent = RangeOffset + snd.ftSent
         /\ snd.ftSent + Len(out) <= snd.length
         /\ \/ snd.ftSent < snd.length /\ snd.try <= snd.ftSent + 1
            \/ snd.length = 0 /\ snd.try = 0
    /\ snd.finish => RangeOffset = size /\ snd.sent = size /\ stream \in {"up", "failed"}
    /\ snd.try > 0 => snd.state = "Active" \/ snd.err

ReceiverOK ==
    /\ rcv.try = 0
    /\ Begun(rcv) => rcv.length = size
    /\ rcv.state = "Active" =>
         /\ stream \in {"up", "failed"} /\ size > 0
         /\ rcv.sent = offset + rcv.ftSent
         /\ rcv.ftSent <= size
         /\ OffsetFits => rcv.sent < size \/ rcv.finish
    /\ rcv.finish =>
         /\ stream \in {"up", "failed"}
         /\ OffsetFits => offset = size /\ rcv.sent = size

(* The bytes of the file, of the wire and of the buffer, in this order, are *)
(* what the sender has read of the file.                                   *)
DataOK ==
    /\ stream \notin {"up", "failed"} => wire = <<>> /\ file = <<>>
    /\ OffsetFits =>
         /\ stream # "none" => Len(file) + Len(wire) + Len(out) <= size - offset
         /\ \A k \in 1..Len(file) : file[k] = offset + k
         /\ rcv.c => \A k \in 1..Len(wire) : wire[k] = offset + Len(file) + k
         /\ \A k \in 1..Len(out) : out[k] = offset + snd.ftSent + k
         /\ snd.c => Len(file) + Len(wire) <= snd.ftSent
         /\ snd.c /\ rcv.c /\ stream = "up" => Len(file) + Len(wire) = snd.ftSent
         /\ rcv.c => rcv.ftSent = Len(file)
         /\ rcv.end = "done" => Len(file) = size - offset
         /\ stream = "up" /\ ~snd.c /\ excuse = {} => Len(file) + Len(wire) = size - offset

(* What must have happened for an end to be without its stream.             *)
CauseOK ==
    /\ stream = "failed" /\ snd.state = "Active" => "streamBroke" \in excuse
    /\ OffsetFits =>
         /\ stream = "up" /\ snd.c /\ offset < size /\ ~rcv.c => Lost
         /\ snd.try > 0 /\ ~snd.c => Lost
         /\ snd.end = "crashed" => Lost
         /\ excuse = {} =>
              (snd.err \/ rcv.err \/ "error" \in {snd.end, rcv.end} => size > 0 /\ offset = size)

Invariant ==
    TypeOK /\ EndsOK /\ Handshake /\ SenderOK /\ ReceiverOK /\ DataOK /\ CauseOK

-----------------------------------------------------------------------------
(* Numbers.                                                                *)

(* An offset that fits an int reaches the sender as it is.                 *)
LEMMA RangeFits ==
    ASSUME TypeOK
    PROVE  RangeOffset \in Nat /\ (OffsetFits => RangeOffset = offset)
<1> DEFINE b == 2 * IntLimit
           d == offset \div b
<1>1. IntLimit \in Nat /\ IntLimit > 0 /\ b \in Nat /\ b > 0 /\ offset \in Nat
  BY FileTransferAssumption, SMT DEF TypeOK
<1>2. d \in Nat /\ RangeOffset \in 0..(b - 1) /\ offset = b * d + RangeOffset
  BY <1>1, DivMod DEF RangeOffset
<1> HIDE DEF d
<1>3. CASE d = 0
  BY <1>1, <1>2, <1>3, SMT
<1>4. CASE d >= 1
  <2> QED BY <1>1, <1>2 DEF OffsetFits
<1> QED BY <1>2, <1>3, <1>4

(* A step of the progress is at least one byte.                            *)
LEMMA BlockPositive == Block \in Nat /\ Block > 0
<1> DEFINE W == 1..(CsMax - CsMin)
           S == {n \in W : size >= 2^(n + CsMin - 1)}
<1>1. IsFiniteSet(W) /\ Cardinality(W) = CsMax - CsMin
  BY FS_Interval, FileTransferAssumption
<1>2. S \subseteq W
  OBVIOUS
<1>3. IsFiniteSet(S) /\ Cardinality(S) <= Cardinality(W)
  BY <1>1, <1>2, FS_Subset
<1>4. CalcShift(size) \in Nat /\ CalcShift(size) <= CsMax - CsMin
  BY <1>1, <1>3, FS_CardinalityType DEF CalcShift
<1>5. CalcShift(size) \in 0..CsMax
  BY <1>4, FileTransferAssumption
<1> HIDE DEF S, W
<1> QED BY <1>5, FileTransferAssumption DEF Block

(* The progress of the transfer of this file.                              *)
LEMMA LastStep ==
    ASSUME size \in Nat, NEW n \in 0..size
    PROVE  Step(n) = TotalSteps <=> n = size
BY BlockPositive, LastStepIsLastByte DEF Step, TotalSteps

(* Only a file of nothing has no steps.                                    *)
LEMMA NoSteps ==
    ASSUME size \in Nat
    PROVE  TotalSteps = 0 <=> size = 0
<1>1. CASE size = 0
  BY <1>1 DEF TotalSteps, CalcTotalSteps
<1>2. CASE size >= 1
  <2>1. (size - 1) \div Block \in Nat
    BY <1>2, BlockPositive, DivMod
  <2> QED BY <2>1 DEF TotalSteps, CalcTotalSteps
<1> QED BY <1>1, <1>2

-----------------------------------------------------------------------------
(* What the effects on an end make of it.                                  *)

Gone(e, d, how) ==
    /\ ~d.h /\ ~d.ft /\ ~d.c /\ d.state = "Idle" /\ d.try = 0 /\ ~d.finish /\ ~d.err
    /\ d.ftSent = 0 /\ d.end = how /\ d.length = e.length /\ d.sent = e.sent

(* Zero is within the bounds.                                              *)
LEMMA Zero == 0 \in 0..MaxSize /\ 0 \in 0..(2 * MaxSize)
BY FileTransferAssumption

(* A deleted handler takes everything with it.                             *)
LEMMA Deleted ==
    ASSUME NEW e \in Ends, NEW how \in Outcomes
    PROVE  DeleteHandler(e, how) \in Ends /\ Gone(e, DeleteHandler(e, how), how)
<1> DEFINE d == DeleteHandler(e, how)
<1>1. d \in Ends
  BY Zero DEF Ends, DeleteHandler, DeleteFT, ResetFT
<1>2. Gone(e, d, how)
  BY DEF DeleteHandler, DeleteFT, ResetFT, Gone
<1> QED BY <1>1, <1>2

(* An end whose error is queued is an end.                                 *)
LEMMA Queued ==
    ASSUME NEW e \in Ends
    PROVE  QueueError(e) \in Ends
BY Zero DEF Ends, QueueError, ResetFT

(* What is written of a buffer that fits into what is left also fits.       *)
LEMMA PartFits ==
    ASSUME NEW sent \in Nat, NEW n \in Nat, NEW length \in Nat, NEW have \in Nat,
           sent + have <= length, n <= have
    PROVE  sent + n < length \/ sent + n = length
OBVIOUS

(* What fits into the length from an offset on fits into the file.          *)
LEMMA RestFits ==
    ASSUME NEW from \in Nat, NEW sent \in Nat, NEW have \in Nat, NEW more \in Nat,
           NEW length \in Nat, NEW whole \in Nat, NEW most \in Nat,
           sent + have + more <= length, length = whole - from, whole <= most
    PROVE  /\ from + sent + have \in Nat
           /\ from + sent + have + more <= most
OBVIOUS

(* BytesWritten: the last byte is the end of the transfer.                  *)
LEMMA WrittenEnd ==
    ASSUME TypeOK, NEW e \in Ends, NEW n \in Nat, e.h, NEW from \in Nat,
           e.length = size - from, e.sent = from + e.ftSent, n > 0, e.ftSent + n <= e.length,
           e.try <= e.ftSent + 1
    PROVE  /\ BytesWritten(e, n) \in Ends
           /\ e.ftSent + n < e.length =>
                BytesWritten(e, n) = [e EXCEPT !.ftSent = @ + n, !.sent = @ + n, !.try = @ + 1]
           /\ e.ftSent + n = e.length =>
                /\ ~BytesWritten(e, n).h /\ ~BytesWritten(e, n).ft /\ ~BytesWritten(e, n).c
                /\ BytesWritten(e, n).state = "Idle" /\ BytesWritten(e, n).try = 0
                /\ ~BytesWritten(e, n).finish /\ ~BytesWritten(e, n).err
                /\ BytesWritten(e, n).ftSent = 0 /\ BytesWritten(e, n).end = "done"
<1> DEFINE counted == [e EXCEPT !.ftSent = @ + n, !.sent = @ + n]
           more == [counted EXCEPT !.try = @ + 1]
           last == DeleteFT(ResetFT(counted))
<1>1. /\ size \in 0..MaxSize /\ MaxSize \in Nat
      /\ e.length \in Nat /\ e.ftSent \in Nat /\ e.sent \in Nat /\ e.try \in Nat
      /\ counted.ftSent = e.ftSent + n /\ counted.sent = e.sent + n /\ counted.h
      /\ counted.length = e.length
  BY FileTransferAssumption DEF TypeOK, Ends
<1>2. counted \in Ends
  <2>1. e.ftSent + n \in 0..MaxSize /\ e.sent + n \in 0..(2 * MaxSize)
    BY <1>1
  <2> QED BY <2>1 DEF Ends
<1>3. CASE e.ftSent + n < e.length
  <2>1. more \in Ends /\ more.sent = e.sent + n /\ more.h
    <3>1. counted.try + 1 \in 0..MaxSize
      BY <1>1, <1>3 DEF Ends
    <3> QED BY <1>2, <3>1 DEF Ends
  <2>2. more.sent \in 0..size /\ more.sent # size
    BY <1>1, <1>3, <2>1
  <2>3. Step(more.sent) # TotalSteps
    BY <2>2, <1>1, LastStep
  <2>4. counted.ftSent # e.length /\ counted.sent # size
    BY <1>1, <2>2
  <2>5. BytesWritten(e, n) = Progress(more)
    BY <2>4 DEF BytesWritten
  <2>6. Progress(more) = more
    BY <2>3 DEF Progress
  <2> QED BY <2>1, <2>5, <2>6, <1>1, <1>3
<1>4. CASE e.ftSent + n = e.length
  <2>1. last \in Ends
    BY <1>2, Zero DEF Ends, DeleteFT, ResetFT
  <2>2. last.h = counted.h /\ last.sent = counted.sent /\ ResetFT(counted).sent = counted.sent
    BY DEF DeleteFT, ResetFT
  <2>3. counted.sent = size /\ counted.ftSent = e.length
    BY <1>1, <1>4
  <2>4. Step(last.sent) = TotalSteps
    BY <2>2, <2>3, <1>1, LastStep
  <2>5. BytesWritten(e, n) = DeleteHandler(last, "done")
    BY <2>2, <2>4, <2>3 DEF BytesWritten, Progress
  <2>6. DeleteHandler(last, "done") \in Ends /\ Gone(last, DeleteHandler(last, "done"), "done")
    BY <2>1, Deleted DEF Outcomes
  <2> QED BY <1>1, <1>4, <2>5, <2>6 DEF Gone
<1> QED BY <1>1, <1>3, <1>4

(* Finish and Progress either leave an end as it is or delete it.           *)
LEMMA FinishEnd ==
    ASSUME TypeOK, NEW e \in Ends
    PROVE  /\ Finish(e) \in Ends
           /\ e.sent = size /\ e.h => Gone(e, Finish(e), "done")
           /\ e.sent # size => Finish(e) = e \/ (e.h /\ Gone(e, Finish(e), "done"))
           /\ e.sent < size => Finish(e) = e
<1> DEFINE d == DeleteFT(e)
<1>1. d \in Ends
  BY Zero DEF Ends, DeleteFT, ResetFT
<1>2. /\ size \in Nat /\ e.sent \in Nat /\ d \in Ends
      /\ d.sent = e.sent /\ d.h = e.h /\ d.length = e.length
  BY <1>1 DEF TypeOK, Ends, DeleteFT, ResetFT
<1>3. /\ DeleteHandler(e, "done") \in Ends /\ Gone(e, DeleteHandler(e, "done"), "done")
      /\ DeleteHandler(d, "done") \in Ends /\ Gone(d, DeleteHandler(d, "done"), "done")
  BY <1>2, Deleted DEF Outcomes
<1>4. CASE e.sent = size
  <2>1. Finish(e) = IF e.h THEN DeleteHandler(d, "done") ELSE d
    BY <1>2, <1>4, LastStep DEF Finish, Progress
  <2> QED BY <1>2, <1>3, <1>4, <2>1 DEF Gone
<1>5. CASE e.sent # size
  <2>1. Finish(e) = e \/ (e.h /\ Finish(e) = DeleteHandler(e, "done"))
    BY <1>5 DEF Finish, Progress
  <2>2. e.sent < size => Finish(e) = e
    BY <1>2, LastStep DEF Finish, Progress
  <2> QED BY <1>3, <1>5, <2>1, <2>2
<1> QED BY <1>4, <1>5

(* ft_connected(): a transfer of nothing is over at once.                   *)
LEMMA ConnectedEnd ==
    ASSUME TypeOK, NEW p \in Peers, NEW e \in Ends, e.try = 0, OffsetOf(p) \in 0..MaxSize
    PROVE  /\ Connected(p, e) \in Ends
           /\ size = 0 =>
                /\ ~Connected(p, e).h /\ ~Connected(p, e).ft /\ ~Connected(p, e).c
                /\ Connected(p, e).state = "Idle" /\ Connected(p, e).try = 0
                /\ ~Connected(p, e).finish /\ ~Connected(p, e).err
                /\ Connected(p, e).ftSent = 0 /\ Connected(p, e).end = "done"
           /\ size # 0 =>
                LET d == Connected(p, e)
                IN  /\ d.state = "Active" /\ d.sent = OffsetOf(p)
                    /\ d.h = e.h /\ d.ft = e.ft /\ d.c = e.c /\ d.err = e.err /\ d.end = e.end
                    /\ d.ftSent = e.ftSent /\ d.length = e.length
                    /\ IF OffsetOf(p) = size THEN d.finish /\ d.try = 0
                       ELSE d.finish = e.finish /\ d.try = IF p = Sender THEN 1 ELSE 0
<1> DEFINE started == [e EXCEPT !.state = "Active", !.sent = OffsetOf(p)]
           more == IF OffsetOf(p) = size THEN [started EXCEPT !.finish = TRUE]
                   ELSE IF p = Sender THEN [started EXCEPT !.try = 1] ELSE started
<1>1. size \in 0..MaxSize /\ MaxSize \in Nat
  BY FileTransferAssumption DEF TypeOK
<1>2. OffsetOf(p) \in 0..(2 * MaxSize)
  BY <1>1
<1>3. started \in Ends
  BY <1>2 DEF Ends
<1>4. [started EXCEPT !.finish = TRUE] \in Ends
  BY <1>3 DEF Ends
<1>5. size # 0 => 1 \in 0..MaxSize
  BY <1>1
<1>6. size # 0 => [started EXCEPT !.try = 1] \in Ends
  BY <1>3, <1>5 DEF Ends
<1>7. CASE size = 0
  <2>1. Connected(p, e) = DeleteHandler(more, "done")
    BY <1>7, NoSteps DEF Connected, TakeTransfer
  <2>2. DeleteHandler(started, "done") \in Ends
    BY <1>3, Deleted DEF Outcomes
  <2>3. /\ DeleteHandler([started EXCEPT !.finish = TRUE], "done") = DeleteHandler(started, "done")
        /\ DeleteHandler([started EXCEPT !.try = 1], "done") = DeleteHandler(started, "done")
    BY DEF DeleteHandler, DeleteFT, ResetFT
  <2>4. Connected(p, e) = DeleteHandler(started, "done")
    BY <2>1, <2>3
  <2>5. Gone(started, DeleteHandler(started, "done"), "done")
    BY <1>3, Deleted DEF Outcomes
  <2> HIDE DEF started, more
  <2> QED BY <1>7, <2>2, <2>4, <2>5 DEF Gone
<1>8. CASE size # 0
  <2>1. Connected(p, e) = more
    BY <1>1, <1>8, NoSteps DEF Connected, TakeTransfer
  <2>2. more \in Ends
    BY <1>3, <1>4, <1>6, <1>8
  <2>3. /\ started.state = "Active" /\ started.sent = OffsetOf(p)
        /\ started.h = e.h /\ started.ft = e.ft /\ started.c = e.c /\ started.err = e.err
        /\ started.end = e.end /\ started.ftSent = e.ftSent /\ started.length = e.length
        /\ started.finish = e.finish /\ started.try = 0
    BY DEF Ends
  <2>4. CASE OffsetOf(p) = size
    BY <1>3, <1>8, <2>1, <2>2, <2>3, <2>4
  <2>5. CASE OffsetOf(p) # size /\ p = Sender
    BY <1>3, <1>8, <2>1, <2>2, <2>3, <2>5
  <2>6. CASE OffsetOf(p) # size /\ p # Sender
    BY <1>8, <2>1, <2>2, <2>3, <2>6
  <2> QED BY <2>4, <2>5, <2>6
<1> QED BY <1>7, <1>8

-----------------------------------------------------------------------------
(* Bytes joined, cut and read.                                             *)

(* One sequence of bytes after another.                                    *)
LEMMA Joined ==
    ASSUME NEW s \in Bytes, NEW t \in Bytes
    PROVE  /\ s \o t \in Bytes /\ Len(s \o t) = Len(s) + Len(t)
           /\ \A k \in 1..Len(s) : (s \o t)[k] = s[k]
           /\ \A k \in 1..(Len(s) + Len(t)) : k > Len(s) => (s \o t)[k] = t[k - Len(s)]
<1>1. Len(s) \in Nat /\ Len(t) \in Nat
  BY LenProperties DEF Bytes
<1> QED BY <1>1, ConcatProperties DEF Bytes

(* A sequence of bytes cut in two.                                         *)
LEMMA Cut ==
    ASSUME NEW s \in Bytes, NEW n \in 0..Len(s)
    PROVE  /\ SubSeq(s, 1, n) \in Bytes /\ Len(SubSeq(s, 1, n)) = n
           /\ \A k \in 1..n : SubSeq(s, 1, n)[k] = s[k]
           /\ SubSeq(s, n + 1, Len(s)) \in Bytes /\ Len(SubSeq(s, n + 1, Len(s))) = Len(s) - n
           /\ \A k \in 1..(Len(s) - n) : SubSeq(s, n + 1, Len(s))[k] = s[n + k]
<1>1. Len(s) \in Nat /\ n \in Nat /\ n <= Len(s) /\ \A k \in 1..Len(s) : s[k] \in 1..MaxSize
  <2>1. Len(s) \in Nat
    BY LenProperties DEF Bytes
  <2>2. \A k \in 1..Len(s) : s[k] \in 1..MaxSize
    BY ElementOfSeq DEF Bytes
  <2> QED BY <2>1, <2>2
<1>2. /\ SubSeq(s, 1, n) \in Bytes /\ Len(SubSeq(s, 1, n)) = n
      /\ \A k \in 1..n : SubSeq(s, 1, n)[k] = s[k]
  <2>1. \A k \in 1..n : s[k] \in 1..MaxSize
    BY <1>1
  <2>2. /\ SubSeq(s, 1, n) \in Bytes
        /\ Len(SubSeq(s, 1, n)) = IF 1 <= n THEN n - 1 + 1 ELSE 0
        /\ \A k \in 1..(n - 1 + 1) : SubSeq(s, 1, n)[k] = s[1 + k - 1]
    BY <2>1 DEF Bytes
  <2> QED BY <1>1, <2>2
<1>3. /\ SubSeq(s, n + 1, Len(s)) \in Bytes /\ Len(SubSeq(s, n + 1, Len(s))) = Len(s) - n
      /\ \A k \in 1..(Len(s) - n) : SubSeq(s, n + 1, Len(s))[k] = s[n + k]
  <2>1. \A k \in (n + 1)..Len(s) : s[k] \in 1..MaxSize
    BY <1>1
  <2>2. /\ SubSeq(s, n + 1, Len(s)) \in Bytes
        /\ Len(SubSeq(s, n + 1, Len(s))) = IF n + 1 <= Len(s) THEN Len(s) - (n + 1) + 1 ELSE 0
        /\ \A k \in 1..(Len(s) - (n + 1) + 1) :
             SubSeq(s, n + 1, Len(s))[k] = s[n + 1 + k - 1]
    BY <2>1 DEF Bytes
  <2> QED BY <1>1, <2>2
<1> QED BY <1>2, <1>3

(* The next bytes of the file.                                             *)
LEMMA Chunk ==
    ASSUME NEW d \in Nat, NEW next \in Nat, next + d <= MaxSize
    PROVE  LET c == [k \in 1..d |-> next + k]
           IN  c \in Bytes /\ Len(c) = d /\ \A k \in 1..d : c[k] = next + k
<1> DEFINE c == [k \in 1..d |-> next + k]
<1>1. \A k \in 1..d : next + k \in 1..MaxSize
  BY FileTransferAssumption
<1>2. c \in [1..d -> 1..MaxSize]
  BY <1>1
<1>3. c \in Bytes
  BY <1>2, SeqDef DEF Bytes
<1>4. DOMAIN c = 1..d /\ Len(c) \in Nat /\ DOMAIN c = 1..Len(c)
  OBVIOUS
<1>5. Len(c) = d
  BY <1>4
<1> QED BY <1>3, <1>5

(* What trySend() reads is within the length.                              *)
LEMMA RoomInBuffer ==
    ASSUME NEW e, e.length \in Nat, e.ftSent \in Nat, Len(out) \in Nat,
           e.ftSent + Len(out) <= e.length
    PROVE  DataSizeNeeded(e) \in Nat /\ e.ftSent + Len(out) + DataSizeNeeded(e) <= e.length
BY FileTransferAssumption DEF DataSizeNeeded

(* ReadyRead: the last byte is the end of the transfer.                     *)
LEMMA ReadEnd ==
    ASSUME TypeOK, NEW e \in Ends, NEW n \in Nat, e.h, e.ft, e.length = size,
           e.sent = offset + e.ftSent, e.ftSent + n <= size
    PROVE  LET d == ReadyRead(e, n)
           IN  /\ d \in Ends
               /\ \/ /\ ~d.h /\ ~d.ft /\ ~d.c /\ d.state = "Idle" /\ d.try = 0
                     /\ ~d.finish /\ ~d.err /\ d.ftSent = 0 /\ d.end = "done"
                  \/ /\ d.h /\ d.ft /\ d.try = e.try /\ d.finish = e.finish /\ d.err = e.err
                     /\ d.end = e.end /\ d.length = size /\ d.sent = e.sent + n
                     /\ IF e.ftSent + n = size
                        THEN ~d.c /\ d.state = "Idle" /\ d.ftSent = 0
                        ELSE d.c = e.c /\ d.state = e.state /\ d.ftSent = e.ftSent + n
               /\ e.sent + n = size => ~d.h
               /\ e.sent + n < size => d.h
<1> DEFINE counted == [e EXCEPT !.ftSent = @ + n, !.sent = @ + n]
           ft == IF counted.ftSent = e.length THEN ResetFT(counted) ELSE counted
<1>1. /\ size \in 0..MaxSize /\ offset \in 0..MaxSize /\ MaxSize \in Nat
      /\ e.ftSent \in Nat /\ e.sent \in Nat
      /\ counted.ftSent = e.ftSent + n /\ counted.sent = e.sent + n /\ counted.h
      /\ counted.ft /\ counted.try = e.try /\ counted.finish = e.finish /\ counted.err = e.err
      /\ counted.end = e.end /\ counted.length = size /\ counted.c = e.c
      /\ counted.state = e.state
  BY FileTransferAssumption DEF TypeOK, Ends
<1>2. counted \in Ends
  <2>1. e.ftSent + n \in 0..MaxSize /\ e.sent + n \in 0..(2 * MaxSize)
    BY <1>1
  <2> QED BY <2>1 DEF Ends
<1>3. ResetFT(counted) \in Ends
  BY <1>2, Zero DEF Ends, ResetFT
<1>4. ft \in Ends
  BY <1>2, <1>3
<1>5. /\ ft.h /\ ft.ft /\ ft.try = e.try /\ ft.finish = e.finish /\ ft.err = e.err
      /\ ft.end = e.end /\ ft.length = size /\ ft.sent = e.sent + n
      /\ IF e.ftSent + n = size THEN ~ft.c /\ ft.state = "Idle" /\ ft.ftSent = 0
         ELSE ft.c = e.c /\ ft.state = e.state /\ ft.ftSent = e.ftSent + n
  <2>1. CASE e.ftSent + n = size
    <3>1. ft = ResetFT(counted)
      BY <1>1, <2>1
    <3>2. /\ ResetFT(counted).h /\ ResetFT(counted).ft /\ ResetFT(counted).try = e.try
          /\ ResetFT(counted).finish = e.finish /\ ResetFT(counted).err = e.err
          /\ ResetFT(counted).end = e.end /\ ResetFT(counted).length = size
          /\ ResetFT(counted).sent = e.sent + n /\ ~ResetFT(counted).c
          /\ ResetFT(counted).state = "Idle" /\ ResetFT(counted).ftSent = 0
      BY DEF ResetFT
    <3> QED BY <2>1, <3>1, <3>2
  <2>2. CASE e.ftSent + n # size
    <3>1. ft = counted
      BY <1>1, <2>2
    <3> QED BY <1>1, <2>2, <3>1
  <2> QED BY <2>1, <2>2
<1>6. ReadyRead(e, n) = Finish(ft)
  BY DEF ReadyRead
<1> HIDE DEF counted, ft
<1>7. /\ Finish(ft) \in Ends
      /\ Finish(ft) = ft \/ Gone(ft, Finish(ft), "done")
      /\ ft.sent = size => Gone(ft, Finish(ft), "done")
      /\ ft.sent < size => Finish(ft) = ft
  BY <1>4, <1>5, FinishEnd
<1> QED BY <1>5, <1>6, <1>7 DEF Gone

-----------------------------------------------------------------------------
(* The steps.                                                              *)

(* What the types say of the numbers and the two ends.                     *)
LEMMA TheEnds ==
    ASSUME TypeOK
    PROVE  /\ Sender \in Peers /\ Receiver \in Peers /\ Sender # Receiver
           /\ snd \in Ends /\ rcv \in Ends
           /\ size \in Nat /\ offset \in Nat /\ size <= MaxSize /\ offset <= MaxSize
           /\ snd.length \in Nat /\ snd.ftSent \in Nat /\ snd.sent \in Nat /\ snd.try \in Nat
           /\ rcv.length \in Nat /\ rcv.ftSent \in Nat /\ rcv.sent \in Nat /\ rcv.try \in Nat
           /\ Len(out) \in Nat /\ Len(wire) \in Nat /\ Len(file) \in Nat
BY FileTransferAssumption DEF TypeOK, Ends, snd, rcv, Peers

(* What depends on the two sizes alone.                                    *)
LEMMA SameNumbers ==
    ASSUME UNCHANGED <<size, offset>>
    PROVE  RangeOffset' = RangeOffset /\ BadRange' = BadRange /\ OffsetFits' = OffsetFits
BY DEF RangeOffset, BadRange, OffsetFits

(* An end is replaced, and the other is left alone.                        *)
LEMMA SetEnd ==
    ASSUME TypeOK, NEW p \in Peers, NEW e \in Ends, Set(p, e)
    PROVE  /\ peer' \in [Peers -> Ends]
           /\ p = Sender => snd' = e /\ rcv' = rcv
           /\ p = Receiver => rcv' = e /\ snd' = snd
BY FileTransferAssumption DEF TypeOK, Set, snd, rcv

(* A stanza is posted.                                                     *)
LEMMA Posted ==
    ASSUME TypeOK, NEW p \in Peers, NEW m \in {Request, Accepted, Rejected},
           net' = [net EXCEPT ![p] = Append(@, m)]
    PROVE  /\ net' \in [Peers -> Seq({Request, Accepted, Rejected})]
           /\ net[p] = <<>> => net'[p] = <<m>>
           /\ \A q \in Peers : q # p => net'[q] = net[q]
<1>1. net[p] \in Seq({Request, Accepted, Rejected})
  BY DEF TypeOK
<1>2. Append(net[p], m) \in Seq({Request, Accepted, Rejected})
  BY <1>1
<1>3. net \in [Peers -> Seq({Request, Accepted, Rejected})]
  BY DEF TypeOK
<1>4. net'[p] = Append(net[p], m) /\ \A q \in Peers : q # p => net'[q] = net[q]
  BY <1>3
<1>5. net' \in [Peers -> Seq({Request, Accepted, Rejected})]
  BY <1>2, <1>3
<1>6. net[p] = <<>> => net'[p] = <<m>>
  BY <1>4
<1> QED BY <1>4, <1>5, <1>6

(* The request is the first thing that happens.                            *)
LEMMA SendFileStep ==
    ASSUME Invariant, SendFile
    PROVE  Invariant'
<1> USE DEF Invariant
<1>1. UNCHANGED <<size, offset, stream, out, wire, file, acceptTimer, excuse>>
  BY DEF SendFile
<1>2. snd = NewEnd /\ net[Receiver] = <<>> /\ Fresh(rcv) /\ net[Sender] = <<>>
  BY DEF SendFile, snd, NewEnd, Handshake, Fresh
<1>3. [NewEnd EXCEPT !.h = TRUE, !.ft = TRUE, !.state = "Requesting"] \in Ends
  BY <1>2, TheEnds DEF Ends
<1>4. /\ rcv' = rcv /\ peer' \in [Peers -> Ends]
      /\ snd' = [NewEnd EXCEPT !.h = TRUE, !.ft = TRUE, !.state = "Requesting"]
  BY <1>3, TheEnds, SetEnd DEF SendFile
<1>5. /\ snd'.h /\ snd'.ft /\ ~snd'.c /\ snd'.state = "Requesting" /\ snd'.end = "running"
      /\ ~snd'.err /\ ~snd'.finish /\ snd'.try = 0 /\ snd'.ftSent = 0
  BY <1>4 DEF NewEnd
<1>6. net'[Receiver] = <<Request>> /\ net'[Sender] = <<>>
      /\ net' \in [Peers -> Seq({Request, Accepted, Rejected})]
  BY <1>2, TheEnds DEF SendFile, TypeOK
<1>7. RangeOffset' = RangeOffset /\ BadRange' = BadRange /\ OffsetFits' = OffsetFits
      /\ (Lost' <=> Lost)
  BY <1>1, SameNumbers DEF Lost
<1>8. snd.state = "Idle" /\ ~snd.c /\ snd.try = 0 /\ ~snd.finish /\ ~snd.err
      /\ snd.end = "running"
  BY <1>2 DEF NewEnd
<1>9. TypeOK'
  BY <1>1, <1>4, <1>6 DEF TypeOK
<1>10. EndsOK'
  BY <1>4, <1>5 DEF EndsOK, EndOK
<1>11. Handshake'
  BY <1>1, <1>2, <1>4, <1>6 DEF Handshake, Fresh, Begun
<1>12. SenderOK'
  BY <1>1, <1>5, <1>8 DEF SenderOK, Begun
<1>13. ReceiverOK'
  BY <1>2, <1>4 DEF ReceiverOK, EndsOK, EndOK, Fresh, Begun
<1>14. DataOK'
  BY <1>1, <1>4, <1>5, <1>7, <1>8 DEF DataOK, EndsOK, EndOK
<1>15. CauseOK'
  BY <1>2, <1>4 DEF CauseOK, SenderOK, EndsOK, EndOK, Handshake, Fresh
<1> QED BY <1>9, <1>10, <1>11, <1>12, <1>13, <1>14, <1>15

(* The request reaches a receiver that knows nothing yet.                  *)
LEMMA RecvRequestStep ==
    ASSUME Invariant, RecvRequest
    PROVE  Invariant'
<1> USE DEF Invariant
<1>1. UNCHANGED <<size, offset, stream, out, wire, file, acceptTimer, excuse>>
  BY DEF RecvRequest
<1>2. net[Receiver] = <<Request>> /\ Fresh(rcv) /\ net[Sender] = <<>>
  BY DEF RecvRequest, Handshake
<1>3. [NewEnd EXCEPT !.h = TRUE, !.ft = TRUE, !.state = "WaitingForAccept"] \in Ends
  BY Zero DEF NewEnd, Ends, Outcomes
<1>4. /\ snd' = snd /\ peer' \in [Peers -> Ends]
      /\ rcv' = [NewEnd EXCEPT !.h = TRUE, !.ft = TRUE, !.state = "WaitingForAccept"]
  BY <1>3, TheEnds, SetEnd DEF RecvRequest
<1>5. /\ rcv'.h /\ rcv'.ft /\ ~rcv'.c /\ rcv'.state = "WaitingForAccept" /\ rcv'.end = "running"
      /\ ~rcv'.err /\ ~rcv'.finish /\ rcv'.try = 0 /\ rcv'.ftSent = 0
  BY <1>4 DEF NewEnd
<1>6. net'[Receiver] = <<>> /\ net'[Sender] = <<>>
      /\ net' \in [Peers -> Seq({Request, Accepted, Rejected})]
  BY <1>2, TheEnds DEF RecvRequest, TypeOK
<1>7. RangeOffset' = RangeOffset /\ BadRange' = BadRange /\ OffsetFits' = OffsetFits
  BY <1>1, SameNumbers
<1>8. TypeOK'
  BY <1>1, <1>4, <1>6 DEF TypeOK
<1>9. EndsOK'
  BY <1>4, <1>5 DEF EndsOK, EndOK
<1>10. Handshake'
  BY <1>1, <1>2, <1>4, <1>5, <1>6 DEF Handshake
<1>11. SenderOK'
  BY <1>1, <1>4, <1>7 DEF SenderOK
<1>12. ReceiverOK'
  BY <1>5 DEF ReceiverOK, Begun
<1>13. DataOK'
  BY <1>1, <1>4, <1>5, <1>7 DEF DataOK
<1>14. CauseOK'
  BY <1>2, <1>4, <1>5 DEF CauseOK, SenderOK, EndsOK, EndOK, Handshake
<1> QED BY <1>8, <1>9, <1>10, <1>11, <1>12, <1>13, <1>14

(* The one answer: nothing else is under way.                              *)
LEMMA AcceptFileStep ==
    ASSUME Invariant, NEW part \in 0..MaxSize, AcceptFile(part)
    PROVE  Invariant'
<1> USE DEF Invariant
<1>1. UNCHANGED <<size, stream, out, wire, file, excuse>>
  BY DEF AcceptFile
<1>2. offset' = part /\ acceptTimer' = TRUE
  BY DEF AcceptFile
<1>3. rcv.state = "WaitingForAccept" /\ stream = "none" /\ net[Sender] = <<>>
      /\ net[Receiver] = <<>>
  BY DEF AcceptFile, rcv, Handshake, Fresh, EndsOK, EndOK
<1>4. [rcv EXCEPT !.state = "Connecting", !.length = size] \in Ends
  BY TheEnds DEF Ends, TypeOK
<1>5. /\ snd' = snd /\ peer' \in [Peers -> Ends]
      /\ rcv' = [rcv EXCEPT !.state = "Connecting", !.length = size]
  BY <1>4, TheEnds, SetEnd DEF AcceptFile, rcv
<1>6. /\ rcv'.state = "Connecting" /\ rcv'.length = size /\ rcv'.h = rcv.h /\ rcv'.ft = rcv.ft
      /\ rcv'.c = rcv.c /\ rcv'.end = rcv.end /\ rcv'.err = rcv.err /\ rcv'.finish = rcv.finish
      /\ rcv'.try = rcv.try /\ rcv'.ftSent = rcv.ftSent
  BY <1>5, TheEnds DEF Ends
<1>7. net'[Receiver] = <<>> /\ net'[Sender] = <<Accepted>>
      /\ net' \in [Peers -> Seq({Request, Accepted, Rejected})]
  BY <1>3, TheEnds DEF AcceptFile, TypeOK
<1>8. TypeOK'
  BY <1>1, <1>2, <1>5, <1>7 DEF TypeOK
<1>9. EndsOK'
  BY <1>3, <1>5 DEF EndsOK, EndOK, Begun
<1>10. Handshake'
  BY <1>1, <1>3, <1>5, <1>7 DEF Handshake, Accepted, Rejected, EndsOK, EndOK, Fresh
<1>11. SenderOK'
  BY <1>1, <1>3, <1>5 DEF SenderOK, Handshake
<1>12. ReceiverOK'
  BY <1>1, <1>3, <1>6 DEF ReceiverOK
<1>13. DataOK'
  BY <1>1, <1>3, <1>5 DEF DataOK, SenderOK, EndsOK, EndOK
<1>14. CauseOK'
  BY <1>3, <1>5 DEF CauseOK, SenderOK, EndsOK, EndOK, Handshake
<1> QED BY <1>8, <1>9, <1>10, <1>11, <1>12, <1>13, <1>14

(* The sender gives up, with what was buffered.                            *)
LEMMA CancelSenderStep ==
    ASSUME Invariant, Cancel(Sender)
    PROVE  Invariant'
<1> USE DEF Invariant
<1>1. UNCHANGED <<size, offset, stream, wire, file>>
  BY DEF Cancel
<1>2. DeleteHandler(snd, "cancelled") \in Ends
      /\ Gone(snd, DeleteHandler(snd, "cancelled"), "cancelled")
  BY TheEnds, Deleted DEF Outcomes
<1>3. /\ rcv' = rcv /\ peer' \in [Peers -> Ends]
      /\ snd' = DeleteHandler(snd, "cancelled") /\ Gone(snd, snd', "cancelled")
  BY <1>2, TheEnds, SetEnd DEF Cancel, snd
<1>4. RangeOffset' = RangeOffset /\ BadRange' = BadRange /\ OffsetFits' = OffsetFits
  BY <1>1, SameNumbers
<1>5. out' = <<>> /\ acceptTimer' = acceptTimer /\ net' = net
      /\ excuse' = excuse \cup {"cancelled"}
  BY DEF Cancel, snd, Handshake, TypeOK
<1>6. Lost' /\ excuse' # {}
  BY <1>5 DEF Lost
<1>7. excuse' \subseteq Excuses
  BY <1>5 DEF TypeOK, Excuses
<1>8. out' \in Bytes /\ Len(out') = 0
  BY <1>5 DEF Bytes
<1>9. /\ Len(out) \in Nat /\ Len(wire) \in Nat /\ Len(file) \in Nat /\ size \in Nat
      /\ offset \in Nat
  BY TheEnds
<1>10. TypeOK'
  BY <1>1, <1>3, <1>5, <1>7, <1>8 DEF TypeOK
<1>11. EndsOK'
  BY <1>3 DEF EndsOK, EndOK, Gone
<1>12. Handshake'
  BY <1>1, <1>3, <1>4, <1>5 DEF Handshake, Fresh, Begun, Gone
<1>13. SenderOK'
  BY <1>3, <1>8 DEF SenderOK, Begun, Gone
<1>14. ReceiverOK'
  BY <1>1, <1>3, <1>4 DEF ReceiverOK
<1>15. DataOK'
  BY <1>1, <1>3, <1>4, <1>6, <1>8, <1>9 DEF DataOK, SenderOK, Gone
<1>16. CauseOK'
  BY <1>3, <1>6 DEF CauseOK, Gone
<1> QED BY <1>10, <1>11, <1>12, <1>13, <1>14, <1>15, <1>16

(* The receiver gives up, or declines.                                     *)
LEMMA CancelReceiverStep ==
    ASSUME Invariant, Cancel(Receiver)
    PROVE  Invariant'
<1> USE DEF Invariant
<1>1. UNCHANGED <<size, offset, stream, wire, file>>
  BY DEF Cancel
<1>2. rcv.h
  BY DEF Cancel, rcv
<1>3. DeleteHandler(rcv, "cancelled") \in Ends
      /\ Gone(rcv, DeleteHandler(rcv, "cancelled"), "cancelled")
  BY TheEnds, Deleted DEF Outcomes
<1>4. /\ snd' = snd /\ peer' \in [Peers -> Ends]
      /\ rcv' = DeleteHandler(rcv, "cancelled") /\ Gone(rcv, rcv', "cancelled")
  BY <1>3, TheEnds, SetEnd DEF Cancel, rcv
<1>5. RangeOffset' = RangeOffset /\ BadRange' = BadRange /\ OffsetFits' = OffsetFits
  BY <1>1, SameNumbers
<1>6. out' = out /\ acceptTimer' = FALSE
  BY TheEnds DEF Cancel
<1>7. \/ rcv.state = "WaitingForAccept" /\ excuse' = excuse \cup {"rejected"}
         /\ net' = [net EXCEPT ![Sender] = Append(@, Rejected)]
      \/ rcv.state # "WaitingForAccept" /\ excuse' = excuse \cup {"cancelled"} /\ net' = net
  BY DEF Cancel, rcv
<1>8. \/ rcv.state = "WaitingForAccept" /\ stream = "none" /\ net'[Sender] = <<Rejected>>
         /\ net'[Receiver] = net[Receiver] /\ "rejected" \in excuse'
      \/ rcv.state # "WaitingForAccept" /\ net' = net /\ Lost'
  BY <1>7, TheEnds, Posted DEF Handshake, Lost
<1>9. excuse' # {} /\ excuse' \subseteq Excuses /\ (Lost => Lost') /\ excuse \subseteq excuse'
  BY <1>7 DEF Lost, TypeOK, Excuses
<1>10. net' \in [Peers -> Seq({Request, Accepted, Rejected})]
  BY <1>7, Posted DEF TypeOK
<1>11. TypeOK'
  BY <1>1, <1>4, <1>6, <1>9, <1>10 DEF TypeOK
<1>12. EndsOK'
  BY <1>4 DEF EndsOK, EndOK, Gone
<1>13. Handshake'
  BY <1>1, <1>2, <1>4, <1>5, <1>6, <1>8, <1>9 DEF Handshake, Fresh, Gone
<1>14. SenderOK'
  BY <1>1, <1>4, <1>5, <1>6 DEF SenderOK
<1>15. ReceiverOK'
  BY <1>4 DEF ReceiverOK, Begun, Gone
<1>16. DataOK'
  BY <1>1, <1>4, <1>5, <1>6, <1>9 DEF DataOK, Gone
<1>17. CauseOK'
  BY <1>1, <1>4, <1>8, <1>9 DEF CauseOK, SenderOK, Handshake
<1> QED BY <1>11, <1>12, <1>13, <1>14, <1>15, <1>16, <1>17

(* The receiver waited for a stream in vain.                               *)
LEMMA AcceptTimeoutStep ==
    ASSUME Invariant, AcceptTimeout
    PROVE  Invariant'
<1> USE DEF Invariant
<1>1. UNCHANGED <<size, offset, net, stream, out, wire, file>>
  BY DEF AcceptTimeout
<1>2. acceptTimer /\ acceptTimer' = FALSE /\ excuse' = excuse \cup {"timeout"}
  BY DEF AcceptTimeout
<1>3. DeleteHandler(rcv, "error") \in Ends /\ Gone(rcv, DeleteHandler(rcv, "error"), "error")
  BY TheEnds, Deleted DEF Outcomes
<1>4. /\ snd' = snd /\ peer' \in [Peers -> Ends]
      /\ Gone(rcv, rcv', "error")
  BY <1>3, TheEnds, SetEnd DEF AcceptTimeout, rcv
<1>5. RangeOffset' = RangeOffset /\ BadRange' = BadRange /\ OffsetFits' = OffsetFits
  BY <1>1, SameNumbers
<1>6. excuse' # {} /\ excuse' \subseteq Excuses /\ (Lost => Lost') /\ excuse \subseteq excuse'
  BY <1>2 DEF Lost, TypeOK, Excuses
<1>7. TypeOK'
  BY <1>1, <1>2, <1>4, <1>6 DEF TypeOK
<1>8. EndsOK'
  BY <1>4 DEF EndsOK, EndOK, Gone
<1>9. Handshake'
  BY <1>1, <1>2, <1>4, <1>5 DEF Handshake, Fresh, Gone
<1>10. SenderOK'
  BY <1>1, <1>4, <1>5 DEF SenderOK
<1>11. ReceiverOK'
  BY <1>4 DEF ReceiverOK, Begun, Gone
<1>12. DataOK'
  BY <1>1, <1>4, <1>5, <1>6 DEF DataOK, Gone
<1>13. CauseOK'
  BY <1>1, <1>2, <1>4, <1>5, <1>6 DEF CauseOK, Handshake
<1> QED BY <1>7, <1>8, <1>9, <1>10, <1>11, <1>12, <1>13

(* The answer fixes what is left to send.                                  *)
LEMMA RecvAnswerStep ==
    ASSUME Invariant, RecvAnswer
    PROVE  Invariant'
<1> USE DEF Invariant
<1>1. UNCHANGED <<size, offset, out, wire, file, acceptTimer>>
  BY DEF RecvAnswer
<1>2. stream = "none" /\ ~Begun(snd) /\ net[Sender] \in {<<Accepted>>, <<Rejected>>}
  BY DEF RecvAnswer, Handshake
<1>3. net'[Sender] = <<>> /\ net'[Receiver] = net[Receiver]
      /\ net' \in [Peers -> Seq({Request, Accepted, Rejected})]
  <2>1. Tail(net[Sender]) = <<>>
    <3>1. Tail(<<Accepted>>) = <<>> /\ Tail(<<Rejected>>) = <<>>
      OBVIOUS
    <3> QED BY <1>2, <3>1
  <2>2. <<>> \in Seq({Request, Accepted, Rejected})
    OBVIOUS
  <2> QED BY <2>1, <2>2, TheEnds DEF RecvAnswer, TypeOK
<1>4. /\ RangeOffset \in Nat /\ size \in Nat /\ offset \in Nat /\ size <= MaxSize
      /\ offset <= MaxSize
      /\ Len(out) \in Nat /\ Len(wire) \in Nat /\ Len(file) \in Nat
      /\ snd.ftSent \in Nat /\ rcv.ftSent \in Nat /\ snd.sent \in Nat /\ rcv.sent \in Nat
      /\ OffsetFits => RangeOffset = offset
  BY TheEnds, RangeFits
<1>5. RangeOffset' = RangeOffset /\ BadRange' = BadRange /\ OffsetFits' = OffsetFits
  BY <1>1, SameNumbers
<1>6. rcv' = rcv
  BY TheEnds DEF RecvAnswer, Set, rcv, TypeOK
<1>7. ~BadRange => RangeOffset <= size
  BY FileTransferAssumption, <1>4 DEF BadRange
<1>8. CASE snd.state = "Requesting" /\ Head(net[Sender]) = Accepted /\ ~BadRange
  <2>1. /\ Set(Sender, [snd EXCEPT !.state = "Connecting", !.c = TRUE,
                                   !.length = size - RangeOffset])
        /\ stream' = "requested" /\ excuse' = excuse
    BY <1>8 DEF RecvAnswer, snd
  <2>2. size - RangeOffset \in 0..MaxSize
    BY <1>4, <1>7, <1>8, FileTransferAssumption
  <2>3. [snd EXCEPT !.state = "Connecting", !.c = TRUE, !.length = size - RangeOffset] \in Ends
    BY <2>2, TheEnds DEF Ends
  <2>4. /\ peer' \in [Peers -> Ends]
        /\ snd' = [snd EXCEPT !.state = "Connecting", !.c = TRUE, !.length = size - RangeOffset]
    BY <2>1, <2>3, TheEnds, SetEnd
  <2>5. /\ snd'.state = "Connecting" /\ snd'.c /\ snd'.length = size - RangeOffset
        /\ snd'.h = snd.h /\ snd'.ft = snd.ft /\ snd'.end = snd.end /\ snd'.err = snd.err
        /\ snd'.try = snd.try /\ snd'.finish = snd.finish /\ snd'.ftSent = snd.ftSent
        /\ snd'.sent = snd.sent
    BY <2>4, TheEnds DEF Ends
  <2>6. net[Sender] = <<Accepted>>
    BY <1>2, <1>8
  <2>7. ~rcv.finish /\ rcv.state # "Active"
    <3>1. stream \notin {"up", "failed"} /\ ~(stream # "none")
      BY <1>2
    <3> QED BY <3>1 DEF ReceiverOK
  <2>8. TypeOK'
    BY <1>1, <1>3, <2>1, <2>4 DEF TypeOK
  <2>9. EndsOK'
    BY <1>6, <1>8, <2>5 DEF EndsOK, EndOK, Begun
  <2>10. Handshake'
    BY <1>1, <1>3, <1>5, <1>6, <1>8, <2>1, <2>5, <2>6 DEF Handshake, Fresh
  <2>11. SenderOK'
    BY <1>1, <1>5, <2>5, <2>6 DEF SenderOK, Handshake
  <2>12. ReceiverOK'
    BY <1>1, <1>6, <2>7 DEF ReceiverOK
  <2>13. DataOK'
    BY <1>1, <1>4, <1>5, <1>6, <2>2, <2>5, <2>6 DEF DataOK, SenderOK, Handshake
  <2>14. CauseOK'
    BY <1>6, <1>8, <2>1, <2>5, <2>6 DEF CauseOK, EndsOK, EndOK, Handshake
  <2> QED BY <2>8, <2>9, <2>10, <2>11, <2>12, <2>13, <2>14
<1>9. CASE snd.state = "Requesting" /\ ~(Head(net[Sender]) = Accepted /\ ~BadRange)
  <2>1. /\ Set(Sender, QueueError(snd)) /\ stream' = stream
        /\ excuse' = IF Head(net[Sender]) = Accepted THEN excuse \cup {"badOffset"} ELSE excuse
    BY <1>9 DEF RecvAnswer, snd
  <2>2. excuse' # {} /\ excuse' \subseteq Excuses /\ (Lost => Lost') /\ excuse \subseteq excuse'
    <3>1. Head(net[Sender]) = Accepted \/ "rejected" \in excuse
      BY <1>2 DEF Handshake
    <3> QED BY <2>1, <3>1 DEF Lost, TypeOK, Excuses
  <2>3. peer' \in [Peers -> Ends] /\ snd' = QueueError(snd)
    BY <2>1, TheEnds, Queued, SetEnd
  <2>4. /\ snd'.state = "Idle" /\ ~snd'.c /\ snd'.err /\ snd'.ftSent = 0
        /\ snd'.h = snd.h /\ snd'.ft = snd.ft /\ snd'.end = snd.end
        /\ snd'.try = snd.try /\ snd'.finish = snd.finish /\ snd'.sent = snd.sent
    BY <2>3 DEF QueueError, ResetFT
  <2>5. net[Sender] # <<>>
    BY <1>2
  <2>6. TypeOK'
    BY <1>1, <1>3, <2>1, <2>2, <2>3 DEF TypeOK
  <2>7. EndsOK'
    BY <1>6, <1>9, <2>4 DEF EndsOK, EndOK
  <2>8. Handshake'
    BY <1>1, <1>3, <1>6, <2>1, <2>4, <2>5 DEF Handshake, Fresh, Begun
  <2>9. SenderOK'
    BY <1>1, <2>4, <2>5 DEF SenderOK, Handshake, Begun
  <2>10. ReceiverOK'
    BY <1>1, <1>6, <2>5 DEF ReceiverOK, Handshake
  <2>11. DataOK'
    BY <1>1, <1>5, <1>6, <2>1, <2>4, <2>5 DEF DataOK, EndsOK, EndOK, Handshake
  <2>12. CauseOK'
    BY <1>9, <2>2, <2>4 DEF CauseOK, SenderOK, EndsOK, EndOK
  <2> QED BY <2>6, <2>7, <2>8, <2>9, <2>10, <2>11, <2>12
<1>10. CASE snd.state # "Requesting"
  <2>1. UNCHANGED <<peer, stream, excuse>>
    BY <1>10 DEF RecvAnswer, snd
  <2>2. snd' = snd /\ (Lost' <=> Lost)
    BY <2>1 DEF snd, Lost
  <2>3. TypeOK'
    BY <1>1, <1>3, <2>1 DEF TypeOK
  <2>4. EndsOK'
    BY <1>6, <2>2 DEF EndsOK
  <2>5. Handshake'
    BY <1>1, <1>3, <1>5, <1>6, <2>1, <2>2 DEF Handshake
  <2>6. SenderOK'
    BY <1>1, <1>5, <2>1, <2>2 DEF SenderOK
  <2>7. ReceiverOK'
    BY <1>1, <1>5, <1>6, <2>1 DEF ReceiverOK
  <2>8. DataOK'
    BY <1>1, <1>5, <1>6, <2>1, <2>2 DEF DataOK
  <2>9. CauseOK'
    BY <1>1, <1>5, <1>6, <2>1, <2>2 DEF CauseOK
  <2> QED BY <2>3, <2>4, <2>5, <2>6, <2>7, <2>8, <2>9
<1> QED BY <1>8, <1>9, <1>10

(* The stream reaches a receiver that still waits, or is refused.          *)
LEMMA RecvStreamRequestStep ==
    ASSUME Invariant, RecvStreamRequest
    PROVE  Invariant'
<1> USE DEF Invariant
<1>1. UNCHANGED <<size, offset, net, out, wire, file, excuse>>
  BY DEF RecvStreamRequest
<1>2. stream = "requested" /\ ~rcv.c /\ rcv.state # "Active"
  BY DEF RecvStreamRequest, Handshake, EndsOK, EndOK
<1>3. RangeOffset' = RangeOffset /\ BadRange' = BadRange /\ OffsetFits' = OffsetFits
  BY <1>1, SameNumbers
<1>4. Lost' <=> Lost
  BY <1>1 DEF Lost
<1>5. CASE rcv.state = "Connecting" /\ rcv.ft
  <2>1. Set(Receiver, [rcv EXCEPT !.c = TRUE]) /\ stream' = "negotiating"
        /\ acceptTimer' = FALSE
    BY <1>5 DEF RecvStreamRequest, rcv
  <2>2. [rcv EXCEPT !.c = TRUE] \in Ends
    BY TheEnds DEF Ends
  <2>3. /\ snd' = snd /\ peer' \in [Peers -> Ends]
        /\ rcv' = [rcv EXCEPT !.c = TRUE]
    BY <2>1, <2>2, TheEnds, SetEnd
  <2>4. /\ rcv'.c /\ rcv'.state = rcv.state /\ rcv'.h = rcv.h /\ rcv'.ft = rcv.ft
        /\ rcv'.end = rcv.end
        /\ rcv'.err = rcv.err /\ rcv'.try = rcv.try /\ rcv'.finish = rcv.finish
        /\ rcv'.ftSent = rcv.ftSent /\ rcv'.sent = rcv.sent /\ rcv'.length = rcv.length
    BY <2>3, TheEnds DEF Ends
  <2>5. snd.state # "Active" /\ out = <<>> /\ wire = <<>> /\ file = <<>> /\ snd.end # "done"
    BY <1>2 DEF SenderOK, DataOK, Handshake
  <2>6. TypeOK'
    BY <1>1, <2>1, <2>3 DEF TypeOK
  <2>7. EndsOK'
    BY <1>5, <2>3 DEF EndsOK, EndOK, Begun
  <2>8. Handshake'
    BY <1>1, <1>2, <1>3, <2>1, <2>3 DEF Handshake, Fresh
  <2>9. SenderOK'
    BY <1>1, <1>2, <1>3, <2>3 DEF SenderOK
  <2>10. ReceiverOK'
    BY <1>1, <1>2, <2>4 DEF ReceiverOK, Begun
  <2>11. DataOK'
    BY <1>1, <1>2, <1>3, <2>1, <2>3 DEF DataOK, EndsOK, EndOK
  <2>12. CauseOK'
    BY <1>1, <1>3, <1>4, <2>3, <2>5 DEF CauseOK
  <2> QED BY <2>6, <2>7, <2>8, <2>9, <2>10, <2>11, <2>12
<1>6. CASE ~(rcv.state = "Connecting" /\ rcv.ft)
  <2>1. Set(Receiver, [rcv EXCEPT !.c = FALSE]) /\ stream' = "failed"
        /\ acceptTimer' = acceptTimer
    BY <1>6 DEF RecvStreamRequest, rcv, TypeOK
  <2>2. [rcv EXCEPT !.c = FALSE] = rcv /\ rcv \in Ends
    BY <1>2, TheEnds DEF Ends
  <2>3. snd' = snd /\ rcv' = rcv /\ peer' \in [Peers -> Ends]
    BY <2>1, <2>2, TheEnds, SetEnd
  <2>4. excuse # {} /\ ~acceptTimer
    BY <1>2, <1>6 DEF Handshake, EndsOK, EndOK
  <2>5. snd.state # "Active" /\ out = <<>> /\ wire = <<>> /\ file = <<>> /\ snd.end # "done"
    BY <1>2 DEF SenderOK, DataOK, Handshake
  <2>6. TypeOK'
    BY <1>1, <2>1, <2>3 DEF TypeOK
  <2>7. EndsOK'
    BY <2>3 DEF EndsOK
  <2>8. Handshake'
    BY <1>1, <1>2, <1>3, <2>1, <2>3, <2>4 DEF Handshake
  <2>9. SenderOK'
    BY <1>1, <1>3, <2>1, <2>3 DEF SenderOK
  <2>10. ReceiverOK'
    BY <1>2, <1>6, <2>3 DEF ReceiverOK, EndsOK, EndOK, Begun
  <2>11. DataOK'
    BY <1>1, <1>2, <1>3, <2>3, <2>4 DEF DataOK
  <2>12. CauseOK'
    BY <1>1, <1>3, <1>4, <2>1, <2>3, <2>5 DEF CauseOK
  <2> QED BY <2>6, <2>7, <2>8, <2>9, <2>10, <2>11, <2>12
<1> QED BY <1>5, <1>6

(* The stream is up, or failed.                                            *)
LEMMA NegotiatedStep ==
    ASSUME Invariant, NEW ok \in BOOLEAN, Negotiated(ok)
    PROVE  Invariant'
<1> USE DEF Invariant
<1>1. UNCHANGED <<size, offset, peer, net, out, wire, file, acceptTimer>>
  BY DEF Negotiated
<1>2. /\ stream = "negotiating" /\ snd.state # "Active" /\ rcv.state # "Active"
      /\ snd.end # "done"
      /\ out = <<>> /\ wire = <<>> /\ file = <<>> /\ ~acceptTimer
  BY DEF Negotiated, SenderOK, ReceiverOK, Handshake, DataOK
<1>3. RangeOffset' = RangeOffset /\ BadRange' = BadRange /\ OffsetFits' = OffsetFits
  BY <1>1, SameNumbers
<1>4. snd' = snd /\ rcv' = rcv
  BY <1>1 DEF snd, rcv
<1>5. \/ snd.c /\ rcv.c /\ stream' = "up" /\ excuse' = excuse
      \/ stream' = "failed" /\ excuse' = excuse \cup {"notConnected"}
  BY TheEnds DEF Negotiated, snd, rcv
<1>6. /\ excuse' \subseteq Excuses /\ (Lost => Lost') /\ (stream' = "failed" => excuse' # {})
      /\ excuse \subseteq excuse' /\ stream' \in {"up", "failed"}
  BY <1>5 DEF Lost, TypeOK, Excuses
<1>7. TypeOK'
  BY <1>1, <1>6 DEF TypeOK
<1>8. EndsOK'
  BY <1>4 DEF EndsOK
<1>9. Handshake'
  BY <1>1, <1>2, <1>3, <1>4, <1>6 DEF Handshake
<1>10. SenderOK'
  BY <1>1, <1>3, <1>4, <1>6 DEF SenderOK
<1>11. ReceiverOK'
  BY <1>1, <1>3, <1>4, <1>6 DEF ReceiverOK
<1>12. DataOK'
  BY <1>1, <1>2, <1>3, <1>4, <1>5 DEF DataOK, EndsOK, EndOK
<1>13. CauseOK'
  BY <1>2, <1>3, <1>4, <1>5, <1>6 DEF CauseOK, EndsOK, EndOK, Begun
<1> QED BY <1>7, <1>8, <1>9, <1>10, <1>11, <1>12, <1>13

(* The bytes in flight are gone, and the break is on record.               *)
LEMMA BreakStep ==
    ASSUME Invariant, Break
    PROVE  Invariant'
<1> USE DEF Invariant
<1>1. UNCHANGED <<size, offset, peer, net, out, file, acceptTimer>>
  BY DEF Break
<1>2. /\ stream = "up" /\ stream' = "failed" /\ wire' = <<>>
      /\ excuse' = excuse \cup {"streamBroke"}
      /\ wire' \in Bytes
  BY DEF Break, Bytes
<1>3. /\ RangeOffset \in Nat /\ size \in Nat /\ offset \in Nat /\ size <= MaxSize
      /\ offset <= MaxSize
      /\ Len(out) \in Nat /\ Len(wire) \in Nat /\ Len(file) \in Nat
      /\ snd.ftSent \in Nat /\ rcv.ftSent \in Nat /\ snd.sent \in Nat /\ rcv.sent \in Nat
      /\ OffsetFits => RangeOffset = offset
  BY TheEnds, RangeFits
<1>4. RangeOffset' = RangeOffset /\ BadRange' = BadRange /\ OffsetFits' = OffsetFits
  BY <1>1, SameNumbers
<1>5. snd' = snd /\ rcv' = rcv
  BY <1>1 DEF snd, rcv
<1>6. /\ excuse' \subseteq Excuses /\ Lost' /\ excuse' # {} /\ "streamBroke" \in excuse'
      /\ excuse \subseteq excuse' /\ Len(wire') = 0
  BY <1>2 DEF Lost, TypeOK, Excuses
<1>7. TypeOK'
  BY <1>1, <1>2, <1>6 DEF TypeOK
<1>8. EndsOK'
  BY <1>5 DEF EndsOK
<1>9. Handshake'
  BY <1>1, <1>2, <1>4, <1>5 DEF Handshake
<1>10. SenderOK'
  BY <1>1, <1>2, <1>4, <1>5 DEF SenderOK
<1>11. ReceiverOK'
  BY <1>1, <1>2, <1>4, <1>5 DEF ReceiverOK
<1>12. DataOK'
  BY <1>1, <1>2, <1>3, <1>4, <1>5 DEF DataOK
<1>13. CauseOK'
  BY <1>6 DEF CauseOK
<1> QED BY <1>7, <1>8, <1>9, <1>10, <1>11, <1>12, <1>13

(* The sender starts at the offset, or has nothing to do.                  *)
LEMMA StreamUpSenderStep ==
    ASSUME Invariant, NEW opened \in BOOLEAN, StreamUp(Sender, opened)
    PROVE  Invariant'
<1> USE DEF Invariant
<1>1. UNCHANGED <<size, offset, net, stream, out, wire, file, acceptTimer>>
  BY DEF StreamUp
<1>2. /\ stream = "up" /\ snd.c /\ snd.state = "Connecting" /\ ~acceptTimer
      /\ excuse' = IF opened THEN excuse ELSE excuse \cup {"fileError"}
  BY DEF StreamUp, Handshake, snd
<1>3. /\ RangeOffset \in Nat /\ size \in Nat /\ offset \in Nat /\ size <= MaxSize
      /\ offset <= MaxSize
      /\ Len(out) \in Nat /\ Len(wire) \in Nat /\ Len(file) \in Nat
      /\ snd.ftSent \in Nat /\ rcv.ftSent \in Nat /\ snd.sent \in Nat /\ rcv.sent \in Nat
      /\ OffsetFits => RangeOffset = offset
  BY TheEnds, RangeFits
<1>4. stream # "none" => RangeOffset <= size
  BY RangeFits, TheEnds DEF Handshake, BadRange
<1>5. RangeOffset' = RangeOffset /\ BadRange' = BadRange /\ OffsetFits' = OffsetFits
  BY <1>1, SameNumbers
<1>6. /\ snd.try = 0 /\ snd.ftSent = 0 /\ snd.h /\ snd.ft /\ ~snd.err
      /\ snd.end = "running" /\ out = <<>>
  BY <1>2, TheEnds DEF EndsOK, EndOK, SenderOK
<1>7. OffsetOf(Sender) = RangeOffset /\ (RangeOffset <= size)
  BY <1>2, <1>4 DEF OffsetOf
<1>8. CASE opened
  <2>1. Set(Sender, Connected(Sender, snd)) /\ excuse' = excuse
    BY <1>8 DEF StreamUp, snd
  <2>2. OffsetOf(Sender) \in 0..MaxSize
    BY <1>3, <1>7, FileTransferAssumption
  <2>3. rcv' = rcv /\ peer' \in [Peers -> Ends] /\ snd' = Connected(Sender, snd)
    BY <2>1, <2>2, <1>6, TheEnds, ConnectedEnd, SetEnd
  <2>4. Lost' <=> Lost
    BY <2>1 DEF Lost
  <2>5. size = 0 =>
          /\ ~snd'.h /\ ~snd'.ft /\ ~snd'.c /\ snd'.state = "Idle" /\ snd'.try = 0
          /\ ~snd'.finish /\ ~snd'.err /\ snd'.ftSent = 0 /\ snd'.end = "done"
    BY <2>2, <2>3, <1>6, TheEnds, ConnectedEnd
  <2>6. size # 0 =>
          /\ snd'.state = "Active" /\ snd'.sent = RangeOffset /\ snd'.h /\ snd'.ft /\ snd'.c
          /\ ~snd'.err /\ snd'.end = "running" /\ snd'.ftSent = 0 /\ snd'.length = snd.length
          /\ IF RangeOffset = size THEN snd'.finish /\ snd'.try = 0
             ELSE snd'.finish = snd.finish /\ snd'.try = 1
    BY <2>2, <2>3, <1>2, <1>6, <1>7, TheEnds, ConnectedEnd
  <2>7. TypeOK'
    BY <1>1, <2>1, <2>3 DEF TypeOK
  <2>8. EndsOK'
    BY <2>3, <2>5, <2>6 DEF EndsOK, EndOK, Begun
  <2>9. Handshake'
    BY <1>1, <1>2, <1>5, <2>3, <2>5, <2>6 DEF Handshake, Fresh, Begun
  <2>10. SenderOK'
    BY <1>1, <1>2, <1>3, <1>4, <1>5, <1>6, <2>2, <2>5, <2>6 DEF SenderOK, Begun
  <2>11. ReceiverOK'
    BY <1>1, <1>5, <2>3 DEF ReceiverOK
  <2>12. DataOK'
    BY <1>1, <1>2, <1>3, <1>5, <2>3, <2>5, <2>6 DEF DataOK, EndsOK, EndOK, Begun
  <2>13. CauseOK'
    BY <1>1, <1>2, <1>5, <2>3, <2>4, <2>5, <2>6 DEF CauseOK
  <2> QED BY <2>7, <2>8, <2>9, <2>10, <2>11, <2>12, <2>13
<1>9. CASE ~opened
  <2>1. Set(Sender, DeleteHandler(snd, "error")) /\ excuse' = excuse \cup {"fileError"}
    BY <1>9 DEF StreamUp, snd
  <2>2. DeleteHandler(snd, "error") \in Ends /\ Gone(snd, DeleteHandler(snd, "error"), "error")
    BY TheEnds, Deleted DEF Outcomes
  <2>3. rcv' = rcv /\ peer' \in [Peers -> Ends] /\ Gone(snd, snd', "error")
    BY <2>1, <2>2, TheEnds, SetEnd
  <2>4. excuse' \subseteq Excuses /\ Lost' /\ excuse' # {} /\ excuse \subseteq excuse'
    BY <2>1 DEF Lost, TypeOK, Excuses
  <2>5. TypeOK'
    BY <1>1, <2>3, <2>4 DEF TypeOK
  <2>6. EndsOK'
    BY <2>3 DEF EndsOK, EndOK, Gone
  <2>7. Handshake'
    BY <1>1, <1>2, <1>5, <2>3 DEF Handshake, Fresh, Begun, Gone
  <2>8. SenderOK'
    BY <1>1, <1>6, <2>3 DEF SenderOK, Begun, Gone
  <2>9. ReceiverOK'
    BY <1>1, <1>5, <2>3 DEF ReceiverOK
  <2>10. DataOK'
    BY <1>1, <1>5, <1>6, <2>3, <2>4 DEF DataOK, Gone
  <2>11. CauseOK'
    BY <2>3, <2>4 DEF CauseOK, Gone
  <2> QED BY <2>5, <2>6, <2>7, <2>8, <2>9, <2>10, <2>11
<1> QED BY <1>8, <1>9

(* The receiver starts at the end of its .part file.                       *)
LEMMA StreamUpReceiverStep ==
    ASSUME Invariant, NEW opened \in BOOLEAN, StreamUp(Receiver, opened)
    PROVE  Invariant'
<1> USE DEF Invariant
<1>1. UNCHANGED <<size, offset, net, stream, out, wire, file, acceptTimer>>
  BY DEF StreamUp
<1>2. /\ stream = "up" /\ rcv.c /\ rcv.state = "Connecting" /\ ~acceptTimer
      /\ excuse' = IF opened THEN excuse ELSE excuse \cup {"fileError"}
  BY DEF StreamUp, Handshake, rcv
<1>3. /\ RangeOffset \in Nat /\ size \in Nat /\ offset \in Nat /\ size <= MaxSize
      /\ offset <= MaxSize
      /\ Len(out) \in Nat /\ Len(wire) \in Nat /\ Len(file) \in Nat
      /\ snd.ftSent \in Nat /\ rcv.ftSent \in Nat /\ snd.sent \in Nat /\ rcv.sent \in Nat
      /\ OffsetFits => RangeOffset = offset
  BY TheEnds, RangeFits
<1>4. stream # "none" => RangeOffset <= size
  BY RangeFits, TheEnds DEF Handshake, BadRange
<1>5. RangeOffset' = RangeOffset /\ BadRange' = BadRange /\ OffsetFits' = OffsetFits
  BY <1>1, SameNumbers
<1>6. /\ rcv.try = 0 /\ rcv.ftSent = 0 /\ rcv.h /\ rcv.ft /\ ~rcv.err /\ rcv.end = "running"
  BY <1>2 DEF EndsOK, EndOK, ReceiverOK
<1>7. OffsetOf(Receiver) = offset /\ (OffsetFits => offset <= size)
  BY <1>2, <1>3, <1>4, FileTransferAssumption DEF OffsetOf
<1>8. CASE opened
  <2>1. Set(Receiver, Connected(Receiver, rcv)) /\ excuse' = excuse
    BY <1>8 DEF StreamUp, rcv
  <2>2. OffsetOf(Receiver) \in 0..MaxSize
    BY <1>3, <1>7, FileTransferAssumption
  <2>3. snd' = snd /\ peer' \in [Peers -> Ends] /\ rcv' = Connected(Receiver, rcv)
    BY <2>1, <2>2, <1>6, TheEnds, ConnectedEnd, SetEnd
  <2>4. Lost' <=> Lost
    BY <2>1 DEF Lost
  <2>5. size = 0 =>
          /\ ~rcv'.h /\ ~rcv'.ft /\ ~rcv'.c /\ rcv'.state = "Idle" /\ rcv'.try = 0
          /\ ~rcv'.finish /\ ~rcv'.err /\ rcv'.ftSent = 0 /\ rcv'.end = "done"
    BY <2>2, <2>3, <1>6, TheEnds, ConnectedEnd
  <2>6. size # 0 =>
          /\ rcv'.state = "Active" /\ rcv'.sent = offset /\ rcv'.h /\ rcv'.ft /\ rcv'.c
          /\ ~rcv'.err /\ rcv'.end = "running" /\ rcv'.ftSent = 0 /\ rcv'.length = rcv.length
          /\ IF offset = size THEN rcv'.finish /\ rcv'.try = 0
             ELSE rcv'.finish = rcv.finish /\ rcv'.try = 0
    BY <2>3, <1>2, <1>6, <1>7, TheEnds, ConnectedEnd
  <2>7. TypeOK'
    BY <1>1, <2>1, <2>3 DEF TypeOK
  <2>8. EndsOK'
    BY <2>3, <2>5, <2>6 DEF EndsOK, EndOK, Begun
  <2>9. Handshake'
    BY <1>1, <1>2, <1>5, <2>3, <2>5, <2>6 DEF Handshake, Accepted, Rejected, Fresh
  <2>10. SenderOK'
    BY <1>1, <1>5, <2>3 DEF SenderOK
  <2>11. ReceiverOK'
    BY <1>1, <1>2, <1>3, <1>5, <1>7, <2>5, <2>6 DEF ReceiverOK, Begun
  <2>12. DataOK'
    BY <1>1, <1>2, <1>5, <1>7, <2>2, <2>3, <2>4, <2>5, <2>6 DEF DataOK, EndsOK, EndOK
  <2>13. CauseOK'
    BY <1>1, <1>5, <1>7, <2>1, <2>2, <2>3, <2>4, <2>5, <2>6 DEF CauseOK
  <2> QED BY <2>7, <2>8, <2>9, <2>10, <2>11, <2>12, <2>13
<1>9. CASE ~opened
  <2>1. Set(Receiver, DeleteHandler(rcv, "error")) /\ excuse' = excuse \cup {"fileError"}
    BY <1>9 DEF StreamUp, rcv
  <2>2. DeleteHandler(rcv, "error") \in Ends /\ Gone(rcv, DeleteHandler(rcv, "error"), "error")
    BY TheEnds, Deleted DEF Outcomes
  <2>3. snd' = snd /\ peer' \in [Peers -> Ends] /\ Gone(rcv, rcv', "error")
    BY <2>1, <2>2, TheEnds, SetEnd
  <2>4. excuse' \subseteq Excuses /\ Lost' /\ excuse' # {} /\ excuse \subseteq excuse'
    BY <2>1 DEF Lost, TypeOK, Excuses
  <2>5. TypeOK'
    BY <1>1, <2>3, <2>4 DEF TypeOK
  <2>6. EndsOK'
    BY <2>3 DEF EndsOK, EndOK, Gone
  <2>7. Handshake'
    BY <1>1, <1>2, <1>5, <2>3, <2>4
       DEF Handshake, Accepted, Rejected, Fresh, Begun, Gone
  <2>8. SenderOK'
    BY <1>1, <1>5, <2>3 DEF SenderOK
  <2>9. ReceiverOK'
    BY <2>3 DEF ReceiverOK, Begun, Gone
  <2>10. DataOK'
    BY <1>1, <1>5, <2>3, <2>4 DEF DataOK, Gone
  <2>11. CauseOK'
    BY <1>1, <2>3, <2>4 DEF CauseOK
  <2> QED BY <2>5, <2>6, <2>7, <2>8, <2>9, <2>10, <2>11
<1> QED BY <1>8, <1>9

(* The sender lost the stream: the error is queued.                        *)
LEMMA StreamDownSenderStep ==
    ASSUME Invariant, StreamDown(Sender)
    PROVE  Invariant'
<1> USE DEF Invariant
<1>1. UNCHANGED <<size, offset, net, stream, wire, file, acceptTimer, excuse>>
  BY DEF StreamDown
<1>2. /\ snd.c
      /\ \/ stream = "failed"
         \/ stream = "up" /\ snd.state = "Active" /\ ~rcv.c
  BY DEF StreamDown, ClosedByOther, Other, snd, rcv
<1>3. /\ rcv' = rcv /\ peer' \in [Peers -> Ends] /\ snd' = QueueError(snd)
  BY TheEnds, Queued, SetEnd DEF StreamDown, snd
<1>4. /\ snd'.state = "Idle" /\ ~snd'.c /\ snd'.err /\ snd'.ftSent = 0
      /\ snd'.h = snd.h /\ snd'.ft = snd.ft /\ snd'.end = snd.end
      /\ snd'.try = snd.try /\ snd'.finish = snd.finish /\ snd'.sent = snd.sent
  BY <1>3 DEF QueueError, ResetFT
<1>5. /\ RangeOffset \in Nat /\ size \in Nat /\ offset \in Nat /\ size <= MaxSize
      /\ offset <= MaxSize
      /\ Len(out) \in Nat /\ Len(wire) \in Nat /\ Len(file) \in Nat
      /\ snd.ftSent \in Nat /\ rcv.ftSent \in Nat /\ snd.sent \in Nat /\ rcv.sent \in Nat
      /\ OffsetFits => RangeOffset = offset
  BY TheEnds, RangeFits
<1>6. stream # "none" => RangeOffset <= size
  BY RangeFits, TheEnds DEF Handshake, BadRange
<1>7. RangeOffset' = RangeOffset /\ BadRange' = BadRange /\ OffsetFits' = OffsetFits
  BY <1>1, SameNumbers
<1>8. Lost' <=> Lost
  BY <1>1 DEF Lost
<1>9. snd.h /\ snd.ft /\ snd.end = "running" /\ ~acceptTimer
  BY <1>2 DEF EndsOK, EndOK, Handshake
<1>10. /\ out' \in Bytes /\ out' = <<>> /\ Len(out') = 0
  BY DEF StreamDown, Bytes, TypeOK
<1>11. OffsetFits => (snd.try > 0 \/ (stream = "up" /\ offset < size) => Lost)
  BY <1>2, <1>5 DEF CauseOK, SenderOK, EndsOK, EndOK, Begun, Lost
<1>12. stream = "up" /\ OffsetFits /\ ~Lost => offset = size /\ size > 0
  BY <1>2, <1>5, <1>6, <1>11 DEF SenderOK
<1>13. excuse = {} => ~Lost
  BY DEF Lost
<1>14. TypeOK'
  BY <1>1, <1>3, <1>10 DEF TypeOK
<1>15. EndsOK'
  BY <1>3, <1>4, <1>9 DEF EndsOK, EndOK
<1>16. Handshake'
  BY <1>1, <1>2, <1>3, <1>4, <1>7 DEF Handshake, Fresh, Begun
<1>17. SenderOK'
  BY <1>1, <1>4, <1>7, <1>10 DEF SenderOK, Begun
<1>18. ReceiverOK'
  BY <1>1, <1>3, <1>7 DEF ReceiverOK
<1>19. DataOK'
  BY <1>1, <1>3, <1>4, <1>5, <1>7, <1>10, <1>12, <1>13 DEF DataOK
<1>20. CauseOK'
  BY <1>1, <1>2, <1>4, <1>7, <1>8, <1>11, <1>12, <1>13 DEF CauseOK, Handshake
<1> QED BY <1>14, <1>15, <1>16, <1>17, <1>18, <1>19, <1>20

(* The sender had nothing left to send.                                    *)
LEMMA DoFinishSenderStep ==
    ASSUME Invariant, DoFinish(Sender)
    PROVE  Invariant'
<1> USE DEF Invariant
<1>1. UNCHANGED <<size, offset, net, stream, out, wire, file, acceptTimer, excuse>>
  BY DEF DoFinish
<1>2. snd.finish /\ snd.h
  BY DEF DoFinish, snd, EndsOK, EndOK
<1>3. [snd EXCEPT !.finish = FALSE] \in Ends
  BY TheEnds DEF Ends
<1>4. /\ rcv' = rcv /\ peer' \in [Peers -> Ends]
      /\ snd' = Finish([snd EXCEPT !.finish = FALSE])
  BY <1>3, FinishEnd, TheEnds, SetEnd DEF DoFinish, snd
<1>5. [snd EXCEPT !.finish = FALSE].sent = snd.sent /\ [snd EXCEPT !.finish = FALSE].h = snd.h
  BY TheEnds DEF Ends
<1>6. /\ RangeOffset \in Nat /\ size \in Nat /\ offset \in Nat /\ size <= MaxSize
      /\ offset <= MaxSize
      /\ Len(out) \in Nat /\ Len(wire) \in Nat /\ Len(file) \in Nat
      /\ snd.ftSent \in Nat /\ rcv.ftSent \in Nat /\ snd.sent \in Nat /\ rcv.sent \in Nat
      /\ OffsetFits => RangeOffset = offset
  BY TheEnds, RangeFits
<1>7. RangeOffset' = RangeOffset /\ BadRange' = BadRange /\ OffsetFits' = OffsetFits
  BY <1>1, SameNumbers
<1>8. /\ ~snd'.h /\ ~snd'.ft /\ ~snd'.c /\ snd'.state = "Idle" /\ snd'.try = 0
      /\ ~snd'.finish /\ ~snd'.err /\ snd'.ftSent = 0 /\ snd'.end = "done"
  BY <1>2, <1>3, <1>4, <1>5, FinishEnd DEF SenderOK, Gone
<1>9. out = <<>> /\ RangeOffset = size /\ stream \in {"up", "failed"}
  <2>1. RangeOffset = size /\ stream \in {"up", "failed"}
    BY <1>2 DEF SenderOK
  <2>2. CASE snd.state = "Active"
    <3>1. Len(out) = 0
      BY <2>1, <1>6 DEF SenderOK, Begun
    <3> QED BY <2>1, <3>1
  <2> QED BY <2>1, <2>2 DEF SenderOK
<1>10. TypeOK'
  BY <1>1, <1>4 DEF TypeOK
<1>11. EndsOK'
  BY <1>4, <1>8 DEF EndsOK, EndOK
<1>12. Handshake'
  BY <1>1, <1>4, <1>7, <1>8, <1>9 DEF Handshake, Fresh, Begun
<1>13. SenderOK'
  BY <1>1, <1>8, <1>9 DEF SenderOK, Begun
<1>14. ReceiverOK'
  BY <1>1, <1>4, <1>7 DEF ReceiverOK
<1>15. DataOK'
  BY <1>1, <1>4, <1>6, <1>7, <1>8, <1>9 DEF DataOK
<1>16. CauseOK'
  BY <1>1, <1>4, <1>7, <1>8 DEF CauseOK
<1> QED BY <1>10, <1>11, <1>12, <1>13, <1>14, <1>15, <1>16

(* The sender is told of the error.                                        *)
LEMMA DeliverErrorSenderStep ==
    ASSUME Invariant, DeliverError(Sender)
    PROVE  Invariant'
<1> USE DEF Invariant
<1>1. UNCHANGED <<size, offset, net, stream, out, wire, file, excuse>>
  BY DEF DeliverError
<1>2. snd.err /\ snd.h /\ snd.state = "Idle" /\ ~snd.c
  BY DEF DeliverError, snd, EndsOK, EndOK, Begun
<1>3. acceptTimer' = acceptTimer
  BY FileTransferAssumption DEF DeliverError, TypeOK
<1>4. DeleteHandler(snd, "error") \in Ends /\ Gone(snd, DeleteHandler(snd, "error"), "error")
  BY TheEnds, Deleted DEF Outcomes
<1>5. rcv' = rcv /\ peer' \in [Peers -> Ends] /\ Gone(snd, snd', "error")
  BY <1>4, TheEnds, SetEnd DEF DeliverError, snd
<1>6. RangeOffset' = RangeOffset /\ BadRange' = BadRange /\ OffsetFits' = OffsetFits
  BY <1>1, SameNumbers
<1>7. TypeOK'
  BY <1>1, <1>3, <1>5 DEF TypeOK
<1>8. EndsOK'
  BY <1>5 DEF EndsOK, EndOK, Gone
<1>9. Handshake'
  BY <1>1, <1>2, <1>3, <1>5, <1>6 DEF Handshake, Fresh, Begun, Gone
<1>10. SenderOK'
  BY <1>1, <1>2, <1>5 DEF SenderOK, Begun, Gone
<1>11. ReceiverOK'
  BY <1>1, <1>5, <1>6 DEF ReceiverOK
<1>12. DataOK'
  BY <1>1, <1>2, <1>5, <1>6 DEF DataOK, EndsOK, EndOK, Gone
<1>13. CauseOK'
  BY <1>1, <1>2, <1>5, <1>6 DEF CauseOK, Gone
<1> QED BY <1>7, <1>8, <1>9, <1>10, <1>11, <1>12, <1>13

(* The receiver lost the stream: a close without a cause comes after the   *)
(* last byte.                                                              *)
LEMMA StreamDownReceiverStep ==
    ASSUME Invariant, StreamDown(Receiver)
    PROVE  Invariant'
<1> USE DEF Invariant
<1>1. UNCHANGED <<size, offset, net, stream, wire, file, acceptTimer, excuse>>
  BY DEF StreamDown
<1>2. /\ rcv.c
      /\ \/ stream = "failed"
         \/ stream = "up" /\ rcv.state = "Active" /\ ~snd.c /\ wire = <<>>
  BY DEF StreamDown, ClosedByOther, Other, snd, rcv
<1>3. /\ snd' = snd /\ peer' \in [Peers -> Ends] /\ rcv' = QueueError(rcv)
  BY TheEnds, Queued, SetEnd DEF StreamDown, rcv
<1>4. /\ rcv'.state = "Idle" /\ ~rcv'.c /\ rcv'.err /\ rcv'.ftSent = 0
      /\ rcv'.h = rcv.h /\ rcv'.ft = rcv.ft /\ rcv'.end = rcv.end
      /\ rcv'.try = rcv.try /\ rcv'.finish = rcv.finish /\ rcv'.sent = rcv.sent
  BY <1>3 DEF QueueError, ResetFT
<1>5. /\ RangeOffset \in Nat /\ size \in Nat /\ offset \in Nat /\ size <= MaxSize
      /\ offset <= MaxSize
      /\ Len(out) \in Nat /\ Len(wire) \in Nat /\ Len(file) \in Nat
      /\ snd.ftSent \in Nat /\ rcv.ftSent \in Nat /\ snd.sent \in Nat /\ rcv.sent \in Nat
      /\ OffsetFits => RangeOffset = offset
  BY TheEnds, RangeFits
<1>6. RangeOffset' = RangeOffset /\ BadRange' = BadRange /\ OffsetFits' = OffsetFits
  BY <1>1, SameNumbers
<1>7. Lost' <=> Lost
  BY <1>1 DEF Lost
<1>8. rcv.h /\ rcv.ft /\ rcv.end = "running" /\ ~acceptTimer
  BY <1>2 DEF EndsOK, EndOK, Handshake
<1>9. /\ out' \in Bytes /\ out' = out
  BY FileTransferAssumption DEF StreamDown, TypeOK
<1>10. OffsetFits /\ excuse = {} => size > 0 /\ offset = size
  <2>1. SUFFICES ASSUME OffsetFits, excuse = {}
                 PROVE  size > 0 /\ offset = size
    OBVIOUS
  <2>2. stream = "up" /\ rcv.state = "Active" /\ ~snd.c /\ wire = <<>>
    BY <1>2, <2>1 DEF Handshake
  <2>3. Len(file) + Len(wire) = size - offset /\ rcv.ftSent = Len(file) /\ Len(wire) = 0
    BY <1>2, <2>1, <2>2 DEF DataOK
  <2> QED BY <1>5, <2>1, <2>2, <2>3 DEF ReceiverOK
<1>11. TypeOK'
  BY <1>1, <1>3, <1>9 DEF TypeOK
<1>12. EndsOK'
  BY <1>3, <1>4, <1>8 DEF EndsOK, EndOK
<1>13. Handshake'
  BY <1>1, <1>2, <1>3, <1>4, <1>6 DEF Handshake, Fresh
<1>14. SenderOK'
  BY <1>1, <1>3, <1>6, <1>9 DEF SenderOK
<1>15. ReceiverOK'
  BY <1>1, <1>4, <1>6 DEF ReceiverOK, Begun
<1>16. DataOK'
  BY <1>1, <1>3, <1>4, <1>6, <1>9 DEF DataOK
<1>17. CauseOK'
  BY <1>1, <1>2, <1>3, <1>6, <1>7, <1>10 DEF CauseOK
<1> QED BY <1>11, <1>12, <1>13, <1>14, <1>15, <1>16, <1>17

(* The receiver had the whole file.                                        *)
LEMMA DoFinishReceiverStep ==
    ASSUME Invariant, DoFinish(Receiver)
    PROVE  Invariant'
<1> USE DEF Invariant
<1>1. UNCHANGED <<size, offset, net, stream, out, wire, file, acceptTimer, excuse>>
  BY DEF DoFinish
<1>2. rcv.finish /\ rcv.h
  BY DEF DoFinish, rcv, EndsOK, EndOK
<1>3. [rcv EXCEPT !.finish = FALSE] \in Ends
  BY TheEnds DEF Ends
<1>4. /\ snd' = snd /\ peer' \in [Peers -> Ends]
      /\ rcv' = Finish([rcv EXCEPT !.finish = FALSE])
  BY <1>3, FinishEnd, TheEnds, SetEnd DEF DoFinish, rcv
<1>5. [rcv EXCEPT !.finish = FALSE].sent = rcv.sent /\ [rcv EXCEPT !.finish = FALSE].h = rcv.h
  BY TheEnds DEF Ends
<1>6. /\ RangeOffset \in Nat /\ size \in Nat /\ offset \in Nat /\ size <= MaxSize
      /\ offset <= MaxSize
      /\ Len(out) \in Nat /\ Len(wire) \in Nat /\ Len(file) \in Nat
      /\ snd.ftSent \in Nat /\ rcv.ftSent \in Nat /\ snd.sent \in Nat /\ rcv.sent \in Nat
      /\ OffsetFits => RangeOffset = offset
  BY TheEnds, RangeFits
<1>7. RangeOffset' = RangeOffset /\ BadRange' = BadRange /\ OffsetFits' = OffsetFits
  BY <1>1, SameNumbers
<1>8. Lost' <=> Lost
  BY <1>1 DEF Lost
<1>9. \/ /\ rcv'.h = rcv.h /\ rcv'.ft = rcv.ft /\ rcv'.c = rcv.c /\ rcv'.state = rcv.state
         /\ rcv'.try = rcv.try /\ ~rcv'.finish /\ rcv'.err = rcv.err /\ rcv'.ftSent = rcv.ftSent
         /\ rcv'.sent = rcv.sent /\ rcv'.length = rcv.length /\ rcv'.end = rcv.end
      \/ /\ ~rcv'.h /\ ~rcv'.ft /\ ~rcv'.c /\ rcv'.state = "Idle" /\ rcv'.try = 0
         /\ ~rcv'.finish /\ ~rcv'.err /\ rcv'.ftSent = 0 /\ rcv'.end = "done"
  <2>1. rcv' = [rcv EXCEPT !.finish = FALSE] \/ Gone([rcv EXCEPT !.finish = FALSE], rcv', "done")
    BY <1>2, <1>3, <1>4, <1>5, FinishEnd
  <2>2. CASE rcv' = [rcv EXCEPT !.finish = FALSE]
    BY <2>2, TheEnds DEF Ends
  <2>3. CASE Gone([rcv EXCEPT !.finish = FALSE], rcv', "done")
    BY <2>3 DEF Gone
  <2> QED BY <2>1, <2>2, <2>3
<1>10. stream \in {"up", "failed"} /\ ~acceptTimer
  BY <1>2 DEF ReceiverOK, Handshake
<1>11. OffsetFits => offset = size
  BY <1>2 DEF ReceiverOK
<1>12. OffsetFits => ~rcv'.h
  BY <1>2, <1>3, <1>4, <1>5, FinishEnd DEF ReceiverOK, Gone
<1>13. CASE ~rcv'.h
  <2>1. /\ ~rcv'.ft /\ ~rcv'.c /\ rcv'.state = "Idle" /\ rcv'.try = 0
        /\ ~rcv'.finish /\ ~rcv'.err /\ rcv'.ftSent = 0 /\ rcv'.end = "done"
    BY <1>9, <1>13, <1>2
  <2>2. TypeOK'
    BY <1>1, <1>4 DEF TypeOK
  <2>3. EndsOK'
    BY <1>4, <1>13, <2>1 DEF EndsOK, EndOK
  <2>4. Handshake'
    BY <1>1, <1>4, <1>7, <1>10, <2>1 DEF Handshake, Request, EndsOK, Fresh
  <2>5. SenderOK'
    BY <1>1, <1>4, <1>7 DEF SenderOK
  <2>6. ReceiverOK'
    BY <2>1 DEF ReceiverOK, Begun
  <2>7. DataOK'
    BY <1>1, <1>4, <1>6, <1>7, <1>11, <2>1 DEF DataOK
  <2>8. CauseOK'
    BY <1>1, <1>4, <1>6, <1>7, <1>8, <1>11, <2>1 DEF CauseOK
  <2> QED BY <2>2, <2>3, <2>4, <2>5, <2>6, <2>7, <2>8
<1>14. CASE rcv'.h
  <2>1. /\ rcv'.h = rcv.h /\ rcv'.ft = rcv.ft /\ rcv'.c = rcv.c /\ rcv'.state = rcv.state
        /\ rcv'.try = rcv.try /\ ~rcv'.finish /\ rcv'.err = rcv.err /\ rcv'.ftSent = rcv.ftSent
        /\ rcv'.sent = rcv.sent /\ rcv'.length = rcv.length /\ rcv'.end = rcv.end
    BY <1>9, <1>14
  <2>2. ~OffsetFits
    BY <1>12, <1>14
  <2>3. TypeOK'
    BY <1>1, <1>4 DEF TypeOK
  <2>4. EndsOK'
    BY <1>4, <2>1 DEF EndsOK, EndOK, Begun
  <2>5. Handshake'
    BY <1>1, <1>4, <1>7, <2>1 DEF Handshake, Fresh
  <2>6. SenderOK'
    BY <1>1, <1>4, <1>7 DEF SenderOK
  <2>7. ReceiverOK'
    BY <1>1, <1>7, <2>1, <2>2 DEF ReceiverOK, Begun
  <2>8. DataOK'
    BY <1>1, <1>7, <2>2 DEF DataOK
  <2>9. CauseOK'
    BY <1>1, <1>4, <1>7, <2>2 DEF CauseOK
  <2> QED BY <2>3, <2>4, <2>5, <2>6, <2>7, <2>8, <2>9
<1> QED BY <1>13, <1>14

(* The receiver is told of the error.                                      *)
LEMMA DeliverErrorReceiverStep ==
    ASSUME Invariant, DeliverError(Receiver)
    PROVE  Invariant'
<1> USE DEF Invariant
<1>1. UNCHANGED <<size, offset, net, stream, out, wire, file, excuse>>
  BY DEF DeliverError
<1>2. rcv.err /\ rcv.h /\ rcv.state = "Idle" /\ ~rcv.c
  BY DEF DeliverError, rcv, EndsOK, EndOK, Begun
<1>3. acceptTimer' = FALSE
  BY FileTransferAssumption DEF DeliverError, TypeOK
<1>4. DeleteHandler(rcv, "error") \in Ends /\ Gone(rcv, DeleteHandler(rcv, "error"), "error")
  BY TheEnds, Deleted DEF Outcomes
<1>5. snd' = snd /\ peer' \in [Peers -> Ends] /\ Gone(rcv, rcv', "error")
  BY <1>4, TheEnds, SetEnd DEF DeliverError, rcv
<1>6. RangeOffset' = RangeOffset /\ BadRange' = BadRange /\ OffsetFits' = OffsetFits
  BY <1>1, SameNumbers
<1>7. Lost' <=> Lost
  BY <1>1 DEF Lost
<1>8. TypeOK'
  BY <1>1, <1>3, <1>5 DEF TypeOK
<1>9. EndsOK'
  BY <1>5 DEF EndsOK, EndOK, Gone
<1>10. Handshake'
  BY <1>1, <1>2, <1>3, <1>5, <1>6 DEF Handshake, Fresh, Gone
<1>11. SenderOK'
  BY <1>1, <1>5, <1>6 DEF SenderOK
<1>12. ReceiverOK'
  BY <1>5 DEF ReceiverOK, Begun, Gone
<1>13. DataOK'
  BY <1>1, <1>5, <1>6 DEF DataOK, Gone
<1>14. CauseOK'
  BY <1>1, <1>2, <1>5, <1>6, <1>7 DEF CauseOK
<1> QED BY <1>8, <1>9, <1>10, <1>11, <1>12, <1>13, <1>14

(* The next block of the file follows what is buffered.                    *)
LEMMA TrySendStep ==
    ASSUME Invariant, TrySend(TRUE)
    PROVE  Invariant'
<1> USE DEF Invariant
<1>1. UNCHANGED <<size, offset, net, stream, wire, file, acceptTimer, excuse>>
  BY DEF TrySend
<1>2. /\ snd.try > 0 /\ snd.h /\ snd.ft /\ snd.end = "running"
      /\ snd.c => snd.state = "Active" /\ ~snd.err
      /\ ~snd.c => snd.err /\ out = <<>>
  <2>1. snd.try > 0 /\ snd.h
    BY DEF TrySend, snd, EndsOK, EndOK
  <2> QED BY <2>1 DEF EndsOK, EndOK, SenderOK, Begun
<1>3. /\ RangeOffset \in Nat /\ size \in Nat /\ offset \in Nat /\ size <= MaxSize
      /\ offset <= MaxSize
      /\ Len(out) \in Nat /\ Len(wire) \in Nat /\ Len(file) \in Nat
      /\ snd.ftSent \in Nat /\ rcv.ftSent \in Nat /\ snd.sent \in Nat /\ rcv.sent \in Nat
      /\ OffsetFits => RangeOffset = offset
  BY TheEnds, RangeFits
<1>4. RangeOffset' = RangeOffset /\ BadRange' = BadRange /\ OffsetFits' = OffsetFits
  BY <1>1, SameNumbers
<1>5. Lost' <=> Lost
  BY <1>1 DEF Lost
<1>6. CASE snd.c
  <2> DEFINE e == [snd EXCEPT !.try = @ - 1]
             next == RangeOffset + e.ftSent + Len(out)
             chunk == [k \in 1..DataSizeNeeded(e) |-> next + k]
  <2>1. /\ snd.state = "Active" /\ snd.length = size - RangeOffset /\ snd.length \in Nat
        /\ snd.ftSent + Len(out) <= snd.length /\ snd.ftSent < snd.length
        /\ snd.try <= snd.ftSent + 1 /\ snd.try \in Nat /\ stream \in {"up", "failed"}
    BY <1>2, <1>6, TheEnds DEF SenderOK, Begun
  <2>2. snd.try - 1 \in 0..MaxSize
    BY <1>2, TheEnds, FileTransferAssumption DEF Ends
  <2>3. /\ e \in Ends /\ e.ftSent = snd.ftSent /\ e.length = snd.length /\ e.try = snd.try - 1
        /\ e.sent = snd.sent /\ e.state = snd.state /\ e.h = snd.h /\ e.ft = snd.ft /\ e.c = snd.c
        /\ e.finish = snd.finish /\ e.err = snd.err /\ e.end = snd.end
    BY <2>2, TheEnds DEF Ends
  <2>4. Set(Sender, e) /\ out' = out \o chunk
    BY <1>2, <1>6, <2>3 DEF TrySend, snd
  <2> HIDE DEF e
  <2>5. rcv' = rcv /\ snd' = e /\ peer' \in [Peers -> Ends]
    BY <2>4, <2>3, TheEnds, SetEnd
  <2>6. /\ DataSizeNeeded(e) \in Nat
        /\ snd.ftSent + Len(out) + DataSizeNeeded(e) <= snd.length
    BY <2>1, <2>3, <1>3, RoomInBuffer
  <2>7. next \in Nat /\ next = RangeOffset + snd.ftSent + Len(out)
        /\ next + DataSizeNeeded(e) <= MaxSize
    <3>1. e.ftSent = snd.ftSent /\ MaxSize \in Nat
      BY <2>3, FileTransferAssumption
    <3>2. next = RangeOffset + snd.ftSent + Len(out)
      BY <3>1
    <3>3. /\ RangeOffset + snd.ftSent + Len(out) \in Nat
          /\ RangeOffset + snd.ftSent + Len(out) + DataSizeNeeded(e) <= MaxSize
      BY <2>1, <2>6, <1>3, <3>1, RestFits
    <3> QED BY <3>2, <3>3
  <2> HIDE DEF next
  <2>8. /\ chunk \in Bytes /\ Len(chunk) = DataSizeNeeded(e)
        /\ \A k \in 1..DataSizeNeeded(e) : chunk[k] = next + k
    BY <2>6, <2>7, Chunk
  <2> HIDE DEF chunk
  <2>9. out \in Bytes
    BY DEF TypeOK
  <2>10. out' \in Bytes /\ Len(out') = Len(out) + DataSizeNeeded(e)
    BY <2>4, <2>8, <2>9, Joined
  <2>11. OffsetFits => \A k \in 1..Len(out') : out'[k] = offset + snd.ftSent + k
    <3> SUFFICES ASSUME OffsetFits, NEW k \in 1..Len(out')
                 PROVE  out'[k] = offset + snd.ftSent + k
      OBVIOUS
    <3>1. CASE k <= Len(out)
      <4>1. k \in 1..Len(out)
        BY <3>1
      <4>2. out'[k] = out[k]
        BY <2>4, <4>1
      <4> QED BY <4>1, <4>2 DEF DataOK
    <3>2. CASE k > Len(out)
      <4>1. k \in 1..(Len(out) + Len(chunk)) /\ k - Len(out) \in 1..DataSizeNeeded(e)
        BY <2>8, <2>10, <3>2
      <4>2. out'[k] = chunk[k - Len(out)]
        BY <2>4, <4>1
      <4>3. out'[k] = next + (k - Len(out))
        BY <2>8, <4>1, <4>2
      <4>4. k \in Int /\ Len(out) \in Int /\ RangeOffset = offset /\ offset \in Int
            /\ snd.ftSent \in Int
        BY <1>3, <4>1
      <4>5. next = offset + snd.ftSent + Len(out)
        BY <2>7, <4>4
      <4> QED BY <4>3, <4>4, <4>5
    <3> QED BY <3>1, <3>2
  <2>12. /\ snd'.ftSent = snd.ftSent /\ snd'.length = snd.length /\ snd'.try = snd.try - 1
         /\ snd'.sent = snd.sent /\ snd'.state = "Active" /\ snd'.c
         /\ snd'.finish = snd.finish /\ snd'.err = snd.err /\ rcv' = rcv
    BY <1>6, <2>1, <2>3, <2>5
  <2>13. snd.sent = RangeOffset + snd.ftSent /\ size > 0
    BY <2>1 DEF SenderOK
  <2>14. TypeOK'
    BY <1>1, <2>5, <2>10 DEF TypeOK
  <2>15. EndsOK'
    BY <2>3, <2>5, <2>12 DEF EndsOK, EndOK, Begun
  <2>16. Handshake'
    BY <1>1, <1>4, <2>3, <2>5 DEF Handshake, Fresh, Begun
  <2>17. SenderOK'
    <3>1. snd'.length = size' - RangeOffset' /\ snd'.sent = RangeOffset' + snd'.ftSent
      BY <1>1, <1>4, <2>1, <2>12, <2>13
    <3>2. snd'.ftSent + Len(out') <= snd'.length
      BY <1>3, <2>6, <2>10, <2>12
    <3>3. snd'.ftSent < snd'.length /\ snd'.try <= snd'.ftSent + 1
      BY <1>1, <1>3, <1>4, <2>1, <2>12
    <3>4. stream' \in {"up", "failed"} /\ size' > 0
      BY <1>1, <2>1, <2>13
    <3>5. snd'.finish => RangeOffset' = size' /\ snd'.sent = size'
          /\ stream' \in {"up", "failed"}
      BY <1>3, <2>1, <2>12 DEF SenderOK
    <3> QED BY <2>12, <3>1, <3>2, <3>3, <3>4, <3>5 DEF SenderOK
  <2>18. ReceiverOK'
    BY <1>1, <1>4, <2>12 DEF ReceiverOK
  <2>19. DataOK'
    <3>1. OffsetFits => Len(file) + Len(wire) <= snd.ftSent
      BY <1>6 DEF DataOK
    <3>2. OffsetFits' => Len(file') + Len(wire') + Len(out') <= size' - offset'
      BY <1>1, <1>3, <1>4, <1>6, <2>1, <2>6, <2>10, <3>1
    <3>3. OffsetFits' => \A k \in 1..Len(out') : out'[k] = offset' + snd'.ftSent + k
      BY <1>1, <1>4, <2>11, <2>12
    <3>4. OffsetFits = OffsetFits' /\ snd'.c = snd.c /\ snd'.ftSent = snd.ftSent /\ rcv' = rcv
      BY <1>4, <1>6, <2>12
    <3> QED BY <1>1, <3>2, <3>3, <3>4 DEF DataOK
  <2>20. CauseOK'
    BY <1>1, <1>4, <1>5, <2>1, <2>3, <2>5 DEF CauseOK
  <2> QED BY <2>14, <2>15, <2>16, <2>17, <2>18, <2>19, <2>20
<1>7. CASE ~snd.c
  <2> DEFINE e == [snd EXCEPT !.try = @ - 1]
  <2>1. Set(Sender, DeleteHandler(e, "crashed")) /\ out' = <<>>
    BY <1>7 DEF TrySend, snd
  <2>2. snd.try - 1 \in 0..MaxSize
    BY <1>2, TheEnds, FileTransferAssumption DEF Ends
  <2>3. e \in Ends
    BY <2>2, TheEnds DEF Ends
  <2> HIDE DEF e
  <2>4. DeleteHandler(e, "crashed") \in Ends /\ Gone(e, DeleteHandler(e, "crashed"), "crashed")
    BY <2>3, Deleted DEF Outcomes
  <2>5. rcv' = rcv /\ peer' \in [Peers -> Ends] /\ Gone(e, snd', "crashed")
    BY <2>1, <2>4, TheEnds, SetEnd
  <2>6. out' = out /\ out' \in Bytes
    BY <1>2, <1>7, <2>1 DEF TypeOK
  <2>7. TypeOK'
    BY <1>1, <2>5, <2>6 DEF TypeOK
  <2>8. EndsOK'
    BY <2>5 DEF EndsOK, EndOK, Gone
  <2>9. Handshake'
    BY <1>1, <1>2, <1>4, <2>5 DEF Handshake, Fresh, Begun, Gone
  <2>10. SenderOK'
    BY <2>1, <2>5 DEF SenderOK, Begun, Gone
  <2>11. ReceiverOK'
    BY <1>1, <1>4, <2>5 DEF ReceiverOK
  <2>12. DataOK'
    BY <1>1, <1>3, <1>4, <1>7, <2>2, <2>3, <2>5, <2>6 DEF DataOK, EndsOK, EndOK, Gone
  <2>13. CauseOK'
    BY <1>1, <1>2, <1>4, <1>5, <1>7, <2>5 DEF CauseOK, Gone
  <2> QED BY <2>7, <2>8, <2>9, <2>10, <2>11, <2>12, <2>13
<1> QED BY <1>6, <1>7

(* The file cannot be read: the sender's end is deleted.                   *)
LEMMA ReadErrorStep ==
    ASSUME Invariant, TrySend(FALSE)
    PROVE  Invariant'
<1> USE DEF Invariant
<1>1. /\ UNCHANGED <<size, offset, net, stream, wire, file, acceptTimer>>
      /\ excuse' = excuse \cup {"fileError"}
  BY DEF TrySend
<1>2. /\ snd.h /\ snd.ft /\ snd.c /\ snd.end = "running" /\ snd.try > 0
      /\ snd.state = "Active" /\ ~snd.err
  <2>1. snd.try > 0 /\ snd.h /\ snd.c
    BY DEF TrySend, snd, EndsOK, EndOK
  <2> QED BY <2>1 DEF EndsOK, EndOK, SenderOK, Begun
<1>3. RangeOffset' = RangeOffset /\ BadRange' = BadRange /\ OffsetFits' = OffsetFits
  BY <1>1, SameNumbers
<1>4. Lost' /\ excuse' # {}
  BY <1>1 DEF Lost
<1> DEFINE e == [snd EXCEPT !.try = @ - 1]
<1>5. Set(Sender, DeleteHandler(e, "error")) /\ out' = <<>>
  BY DEF TrySend, snd
<1>6. e \in Ends
  <2>1. snd.try - 1 \in 0..MaxSize
    BY <1>2, TheEnds, FileTransferAssumption DEF Ends
  <2> QED BY <2>1, TheEnds DEF Ends
<1> HIDE DEF e
<1>7. DeleteHandler(e, "error") \in Ends /\ Gone(e, DeleteHandler(e, "error"), "error")
  BY <1>6, Deleted DEF Outcomes
<1>8. rcv' = rcv /\ peer' \in [Peers -> Ends] /\ Gone(e, snd', "error")
  BY <1>5, <1>7, TheEnds, SetEnd
<1>9. /\ Len(out) \in Nat /\ Len(wire) \in Nat /\ Len(file) \in Nat
      /\ out' \in Bytes /\ Len(out') = 0
  BY <1>5, TheEnds DEF Bytes
<1>10. TypeOK'
  BY <1>1, <1>8, <1>9 DEF TypeOK, Excuses
<1>11. EndsOK'
  BY <1>8 DEF EndsOK, EndOK, Gone
<1>12. Handshake'
  BY <1>1, <1>2, <1>3, <1>8 DEF Handshake, Fresh, Begun, Gone
<1>13. SenderOK'
  BY <1>5, <1>8 DEF SenderOK, Begun, Gone
<1>14. ReceiverOK'
  BY <1>1, <1>3, <1>8 DEF ReceiverOK
<1>15. DataOK'
  <2>1. /\ ~snd'.c /\ rcv' = rcv /\ Len(out') = 0 /\ size \in Nat /\ offset \in Nat
        /\ \A k \in 1..Len(out') : FALSE
    BY <1>8, <1>9, TheEnds DEF Gone
  <2>2. OffsetFits /\ stream # "none" => Len(file') + Len(wire') + Len(out') <= size' - offset'
    BY <1>1, <1>9, <2>1 DEF DataOK
  <2> QED BY <1>1, <1>3, <1>4, <2>1, <2>2 DEF DataOK
<1>16. CauseOK'
  BY <1>1, <1>3, <1>4, <1>8 DEF CauseOK, Gone
<1> QED BY <1>10, <1>11, <1>12, <1>13, <1>14, <1>15, <1>16

(* Bytes go from the buffer to the wire, in order.                         *)
LEMMA WriteBytesStep ==
    ASSUME Invariant, NEW n \in 1..Len(out), WriteBytes(n)
    PROVE  Invariant'
<1> USE DEF Invariant
<1>1. UNCHANGED <<size, offset, net, stream, file, acceptTimer, excuse>>
  BY DEF WriteBytes
<1>2. stream = "up" /\ snd.c /\ out # <<>>
  <2>1. Len(<<>>) = 0
    OBVIOUS
  <2> QED BY <2>1 DEF WriteBytes, snd
<1>3. /\ RangeOffset \in Nat /\ size \in Nat /\ offset \in Nat /\ size <= MaxSize
      /\ offset <= MaxSize
      /\ Len(out) \in Nat /\ Len(wire) \in Nat /\ Len(file) \in Nat
      /\ snd.ftSent \in Nat /\ rcv.ftSent \in Nat /\ snd.sent \in Nat /\ rcv.sent \in Nat
      /\ OffsetFits => RangeOffset = offset
  BY TheEnds, RangeFits
<1>4. RangeOffset' = RangeOffset /\ BadRange' = BadRange /\ OffsetFits' = OffsetFits
  BY <1>1, SameNumbers
<1>5. Lost' <=> Lost
  BY <1>1 DEF Lost
<1>6. /\ snd.state = "Active" /\ snd.length = size - RangeOffset /\ snd.h /\ snd.ft
      /\ snd.sent = RangeOffset + snd.ftSent /\ size > 0 /\ snd.length \in Nat
      /\ snd.ftSent + Len(out) <= snd.length /\ snd.try <= snd.ftSent + 1 /\ snd.try \in Nat
      /\ n \in Nat /\ n > 0 /\ n <= Len(out)
      /\ Set(Sender, BytesWritten(snd, n))
  <2>1. snd.state = "Active" /\ snd.h /\ snd.ft
    BY DEF SenderOK, EndsOK, EndOK
  <2>2. snd.length = size - RangeOffset /\ snd.sent = RangeOffset + snd.ftSent /\ size > 0
    BY <2>1 DEF SenderOK, Begun
  <2>3. snd.ftSent + Len(out) <= snd.length /\ snd.length \in Nat /\ snd.try \in Nat
    BY <2>1, TheEnds DEF SenderOK
  <2>4. snd.try <= snd.ftSent + 1
    BY <1>3 DEF SenderOK
  <2>5. Set(Sender, BytesWritten(snd, n))
    BY DEF WriteBytes, snd
  <2> QED BY <2>1, <2>2, <2>3, <2>4, <2>5
<1>7. /\ wire' \in Bytes
      /\ IF rcv.c THEN Len(wire') = Len(wire) + n ELSE wire' = wire
  <2>1. /\ SubSeq(out, 1, n) \in Bytes /\ Len(SubSeq(out, 1, n)) = n
        /\ out \in Bytes /\ wire \in Bytes
    BY Cut DEF TypeOK
  <2>2. wire' = IF rcv.c THEN wire \o SubSeq(out, 1, n) ELSE wire
    BY DEF WriteBytes, rcv
  <2> QED BY <2>1, <2>2, Joined
<1>8. /\ out' \in Bytes /\ Len(out') <= Len(out) - n /\ Len(out') \in Nat /\ Len(wire') \in Nat
      /\ rcv' = rcv /\ snd' = BytesWritten(snd, n) /\ peer' \in [Peers -> Ends]
  <2>1. /\ SubSeq(out, n + 1, Len(out)) \in Bytes
        /\ Len(SubSeq(out, n + 1, Len(out))) = Len(out) - n
    BY Cut DEF TypeOK
  <2>2. out' = SubSeq(out, n + 1, Len(out)) \/ out' = <<>>
    BY DEF WriteBytes
  <2>3. <<>> \in Bytes /\ Len(<<>>) = 0
    BY DEF Bytes
  <2>4. BytesWritten(snd, n) \in Ends
    <3>1. n > 0 /\ n \in Nat /\ snd.ftSent + n <= snd.length /\ snd \in Ends
      BY <1>3, <1>6, TheEnds
    <3> HIDE DEF Invariant
    <3> QED BY <3>1, <1>3, <1>6, WrittenEnd DEF Invariant
  <2>5. rcv' = rcv /\ snd' = BytesWritten(snd, n) /\ peer' \in [Peers -> Ends]
    BY <1>6, <2>4, TheEnds, SetEnd
  <2>6. Len(wire') \in Nat
    BY <1>3, <1>6, <1>7
  <2>7. Len(out') <= Len(out) - n /\ Len(out') \in Nat /\ out' \in Bytes
    <3>1. CASE out' = SubSeq(out, n + 1, Len(out))
      BY <1>3, <1>6, <2>1, <3>1
    <3>2. CASE out' = <<>>
      BY <1>3, <1>6, <2>3, <3>2
    <3> QED BY <2>2, <3>1, <3>2
  <2> QED BY <2>5, <2>6, <2>7
<1>9. OffsetFits /\ rcv.c => \A k \in 1..Len(wire') : wire'[k] = offset + Len(file) + k
  <2> SUFFICES ASSUME OffsetFits, rcv.c, NEW k \in 1..Len(wire')
               PROVE  wire'[k] = offset + Len(file) + k
    OBVIOUS
  <2>1. /\ SubSeq(out, 1, n) \in Bytes /\ Len(SubSeq(out, 1, n)) = n
        /\ \A j \in 1..n : SubSeq(out, 1, n)[j] = out[j]
        /\ out \in Bytes /\ wire \in Bytes /\ wire' = wire \o SubSeq(out, 1, n)
    <3>1. out \in Bytes /\ wire \in Bytes /\ n \in 0..Len(out)
      BY <1>3, <1>6 DEF TypeOK
    <3>2. wire' = wire \o SubSeq(out, 1, n)
      BY DEF WriteBytes, rcv
    <3> QED BY <3>1, <3>2, Cut
  <2>2. Len(file) + Len(wire) = snd.ftSent
    BY <1>2 DEF DataOK
  <2>3. k \in 1..(Len(wire) + n) /\ k \in Int
    BY <1>3, <1>6, <1>7
  <2>4. CASE k <= Len(wire)
    <3>1. k \in 1..Len(wire)
      BY <1>3, <2>3, <2>4
    <3>2. wire'[k] = wire[k]
      BY <2>1, <3>1, Joined
    <3> QED BY <3>1, <3>2 DEF DataOK
  <2>5. CASE k > Len(wire)
    <3>1. k - Len(wire) \in 1..n /\ k - Len(wire) \in 1..Len(out)
      BY <2>3, <2>5
    <3>2. wire'[k] = SubSeq(out, 1, n)[k - Len(wire)]
      BY <2>1, <2>5
    <3>3. wire'[k] = out[k - Len(wire)]
      BY <2>1, <3>1, <3>2
    <3>4. wire'[k] = offset + snd.ftSent + (k - Len(wire))
      BY <3>1, <3>3 DEF DataOK
    <3> QED BY <1>3, <2>2, <3>4
  <2> QED BY <2>4, <2>5
<1>10. OffsetFits /\ ~rcv.c => excuse # {}
  <2>1. OffsetFits /\ ~rcv.c => Lost
    BY <1>2, <1>3, <1>6 DEF CauseOK
  <2> QED BY <2>1 DEF Lost
<1>11. CASE snd.ftSent + n < snd.length
  <2>1. snd' = [snd EXCEPT !.ftSent = @ + n, !.sent = @ + n, !.try = @ + 1]
    <3>1. n > 0 /\ n \in Nat /\ snd.ftSent + n <= snd.length /\ snd \in Ends
      BY <1>3, <1>6, TheEnds
    <3> QED BY <1>11, <3>1, <1>3, <1>6, <1>8, WrittenEnd
  <2>2. out' = SubSeq(out, n + 1, Len(out))
    <3>1. snd'.c
      BY <1>2, <2>1
    <3> QED BY <1>8, <3>1 DEF WriteBytes, snd
  <2>3. /\ snd'.ftSent = snd.ftSent + n /\ snd'.sent = snd.sent + n /\ snd'.try = snd.try + 1
        /\ snd'.h /\ snd'.ft /\ snd'.c /\ snd'.state = "Active" /\ snd'.length = snd.length
        /\ snd'.finish = snd.finish /\ snd'.err = snd.err /\ snd'.end = snd.end
        /\ rcv' = rcv
    BY <1>2, <1>6, <1>8, <2>1
  <2>4. Len(out') = Len(out) - n
        /\ (OffsetFits => \A k \in 1..Len(out') : out'[k] = offset + (snd.ftSent + n) + k)
    <3>1. /\ Len(out') = Len(out) - n
          /\ \A k \in 1..(Len(out) - n) : out'[k] = out[n + k]
      BY <2>2
    <3>2. ASSUME OffsetFits, NEW k \in 1..(Len(out) - n)
          PROVE  out'[k] = offset + (snd.ftSent + n) + k
      <4>1. n + k \in 1..Len(out) /\ k \in Int
        BY <1>3, <1>6
      <4>2. out[n + k] = offset + snd.ftSent + (n + k)
        BY <3>2, <4>1 DEF DataOK
      <4> QED BY <1>3, <3>1, <4>2
    <3> QED BY <3>1, <3>2
  <2>5. ~snd.finish
    BY <1>3, <1>6 DEF SenderOK
  <2>6. OffsetFits =>
          /\ Len(file) + Len(wire') <= snd.ftSent + n
          /\ rcv.c => Len(file) + Len(wire') = snd.ftSent + n
    <3>1. CASE rcv.c
      <4>1. OffsetFits => Len(file) + Len(wire) = snd.ftSent
        BY <1>2, <3>1 DEF DataOK
      <4>2. Len(wire') = Len(wire) + n
        BY <1>7, <3>1
      <4>3. n \in Nat /\ Len(file) \in Nat /\ Len(wire) \in Nat /\ snd.ftSent \in Nat
        BY <1>3, <1>6
      <4> QED BY <4>1, <4>2, <4>3
    <3>2. CASE ~rcv.c
      <4>1. OffsetFits => Len(file) + Len(wire) <= snd.ftSent
        BY <1>2 DEF DataOK
      <4>2. wire' = wire
        BY <1>7, <3>2
      <4> QED BY <1>3, <3>2, <4>1, <4>2
    <3> QED BY <3>1, <3>2
  <2>7. TypeOK'
    BY <1>1, <1>7, <1>8 DEF TypeOK
  <2>8. EndsOK'
    BY <1>6, <2>3 DEF EndsOK, EndOK, Begun
  <2>9. Handshake'
    BY <1>1, <1>4, <1>6, <2>3 DEF Handshake, Fresh, Begun
  <2>10. SenderOK'
    <3>1. snd'.length = size' - RangeOffset' /\ snd'.sent = RangeOffset' + snd'.ftSent
      BY <1>1, <1>3, <1>4, <1>6, <2>3
    <3>2. snd'.ftSent + Len(out') <= snd'.length
      BY <1>3, <1>6, <2>3, <2>4
    <3>3. snd'.ftSent < snd'.length /\ snd'.try <= snd'.ftSent + 1
      <4>1. snd.try + 1 <= snd.ftSent + n + 1
        BY <1>3, <1>6, SMTT(30)
      <4> QED BY <2>3, <1>11, <4>1
    <3> QED BY <1>1, <2>3, <2>5, <3>1, <3>2, <3>3 DEF SenderOK
  <2>11. ReceiverOK'
    BY <1>1, <1>4, <2>3 DEF ReceiverOK
  <2>12. DataOK'
    <3>1. OffsetFits' => Len(file') + Len(wire') + Len(out') <= size' - offset'
      BY <1>1, <1>3, <1>4, <1>7, <1>8, <1>2 DEF DataOK
    <3>2. OffsetFits' => \A k \in 1..Len(file') : file'[k] = offset' + k
      BY <1>1, <1>4 DEF DataOK
    <3>3. OffsetFits' /\ rcv'.c => \A k \in 1..Len(wire') : wire'[k] = offset' + Len(file') + k
      BY <1>1, <1>4, <1>9, <2>3
    <3>4. OffsetFits' => \A k \in 1..Len(out') : out'[k] = offset' + snd'.ftSent + k
      BY <1>1, <1>4, <2>3, <2>4
    <3>5. OffsetFits' => (snd'.c => Len(file') + Len(wire') <= snd'.ftSent)
      BY <1>1, <1>4, <2>3, <2>6
    <3>6. OffsetFits' => (snd'.c /\ rcv'.c => Len(file') + Len(wire') = snd'.ftSent)
      BY <1>1, <1>4, <2>3, <2>6
    <3>7. OffsetFits' => (rcv'.c => rcv'.ftSent = Len(file'))
      BY <1>1, <1>4, <2>3 DEF DataOK
    <3>8. OffsetFits' => (rcv'.end = "done" => Len(file') = size' - offset')
      BY <1>1, <1>4, <2>3 DEF DataOK
    <3>9. OffsetFits' => (~snd'.c /\ excuse' = {} => Len(file') + Len(wire') = size' - offset')
      BY <2>3
    <3> QED BY <1>1, <1>2, <3>1, <3>2, <3>3, <3>4, <3>5, <3>6, <3>7, <3>8, <3>9 DEF DataOK
  <2>13. CauseOK'
    BY <1>1, <1>4, <1>5, <1>2, <2>3 DEF CauseOK
  <2> QED BY <2>7, <2>8, <2>9, <2>10, <2>11, <2>12, <2>13
<1>12. CASE snd.ftSent + n = snd.length
  <2>1. /\ ~snd'.h /\ ~snd'.ft /\ ~snd'.c /\ snd'.state = "Idle" /\ snd'.try = 0
        /\ ~snd'.finish /\ ~snd'.err /\ snd'.ftSent = 0 /\ snd'.end = "done"
        /\ rcv' = rcv /\ out' = <<>> /\ Len(out') = 0
    <3>1. /\ ~snd'.h /\ ~snd'.ft /\ ~snd'.c /\ snd'.state = "Idle" /\ snd'.try = 0
          /\ ~snd'.finish /\ ~snd'.err /\ snd'.ftSent = 0 /\ snd'.end = "done"
      <4>1. n > 0 /\ n \in Nat /\ snd \in Ends /\ snd.h /\ TypeOK /\ RangeOffset \in Nat
        BY <1>3, <1>6, TheEnds
      <4>2. /\ snd.length = size - RangeOffset /\ snd.sent = RangeOffset + snd.ftSent
            /\ snd.try <= snd.ftSent + 1
        BY <1>6
      <4>3. snd.ftSent + n <= snd.length
        BY <1>12, <1>6
      <4>4. LET d == BytesWritten(snd, n)
            IN  /\ ~d.h /\ ~d.ft /\ ~d.c /\ d.state = "Idle" /\ d.try = 0
                /\ ~d.finish /\ ~d.err /\ d.ftSent = 0 /\ d.end = "done"
        BY <1>12, <4>1, <4>2, <4>3, WrittenEnd
      <4> QED BY <4>4, <1>8
    <3>2. out' = <<>>
      BY <1>8, <3>1 DEF WriteBytes, snd
    <3> QED BY <1>8, <3>1, <3>2
  <2>2. OffsetFits /\ excuse = {} =>
          Len(file) + Len(wire') = size - offset
    <3> SUFFICES ASSUME OffsetFits, excuse = {}
                 PROVE  Len(file) + Len(wire') = size - offset
      OBVIOUS
    <3>1. rcv.c
      BY <1>10
    <3>2. Len(file) + Len(wire) = snd.ftSent /\ Len(wire') = Len(wire) + n
      BY <1>2, <1>7, <3>1 DEF DataOK
    <3>3. snd.length = size - offset
      BY <1>3, <1>6
    <3>4. /\ n \in Nat /\ Len(file) \in Nat /\ Len(wire) \in Nat /\ snd.ftSent \in Nat
          /\ snd.ftSent + n = snd.length
      BY <1>3, <1>6, <1>12
    <3>5. Len(file) + Len(wire') = snd.ftSent + n
      BY <3>2, <3>4
    <3> QED BY <3>3, <3>4, <3>5
  <2>3. TypeOK'
    BY <1>1, <1>7, <1>8 DEF TypeOK
  <2>4. EndsOK'
    BY <2>1 DEF EndsOK, EndOK
  <2>5. Handshake'
    BY <1>1, <1>2, <1>4, <2>1 DEF Handshake, Fresh, Begun
  <2>6. SenderOK'
    BY <2>1 DEF SenderOK, Begun
  <2>7. ReceiverOK'
    BY <1>1, <1>4, <2>1 DEF ReceiverOK
  <2>8. DataOK'
    <3>1. OffsetFits' => Len(file') + Len(wire') + Len(out') <= size' - offset'
      BY <1>1, <1>3, <1>4, <1>7, <1>8, <1>2 DEF DataOK
    <3>2. OffsetFits' => \A k \in 1..Len(file') : file'[k] = offset' + k
      BY <1>1, <1>4 DEF DataOK
    <3>3. OffsetFits' /\ rcv'.c => \A k \in 1..Len(wire') : wire'[k] = offset' + Len(file') + k
      BY <1>1, <1>4, <1>9, <2>1
    <3>4. OffsetFits' => \A k \in 1..Len(out') : out'[k] = offset' + snd'.ftSent + k
      BY <2>1
    <3>5. OffsetFits' => (snd'.c => Len(file') + Len(wire') <= snd'.ftSent)
      BY <2>1
    <3>6. OffsetFits' => (snd'.c /\ rcv'.c => Len(file') + Len(wire') = snd'.ftSent)
      BY <2>1
    <3>7. OffsetFits' => (rcv'.c => rcv'.ftSent = Len(file'))
      BY <1>1, <1>4, <2>1 DEF DataOK
    <3>8. OffsetFits' => (rcv'.end = "done" => Len(file') = size' - offset')
      BY <1>1, <1>4, <2>1 DEF DataOK
    <3>9. OffsetFits' => (~snd'.c /\ excuse' = {} => Len(file') + Len(wire') = size' - offset')
      BY <1>1, <1>4, <2>2
    <3> QED BY <1>1, <1>2, <3>1, <3>2, <3>3, <3>4, <3>5, <3>6, <3>7, <3>8, <3>9 DEF DataOK
  <2>9. CauseOK'
    BY <1>1, <1>4, <2>1 DEF CauseOK
  <2> QED BY <2>3, <2>4, <2>5, <2>6, <2>7, <2>8, <2>9
<1>13. snd.ftSent + n < snd.length \/ snd.ftSent + n = snd.length
  BY <1>3, <1>6, PartFits
<1> QED BY <1>11, <1>12, <1>13

(* Bytes go from the wire to the file, in order.                           *)
LEMMA ReadBytesStep ==
    ASSUME Invariant, NEW n \in 1..Len(wire), NEW written \in BOOLEAN, ReadBytes(n, written)
    PROVE  Invariant'
<1> USE DEF Invariant
<1>1. UNCHANGED <<size, offset, net, stream, out, acceptTimer>>
  BY DEF ReadBytes
<1>2. stream = "up" /\ rcv.c /\ rcv.state = "Active" /\ ~acceptTimer
  BY DEF ReadBytes, rcv, Handshake
<1>3. /\ RangeOffset \in Nat /\ size \in Nat /\ offset \in Nat /\ size <= MaxSize
      /\ offset <= MaxSize
      /\ Len(out) \in Nat /\ Len(wire) \in Nat /\ Len(file) \in Nat
      /\ snd.ftSent \in Nat /\ rcv.ftSent \in Nat /\ snd.sent \in Nat /\ rcv.sent \in Nat
      /\ OffsetFits => RangeOffset = offset
  BY TheEnds, RangeFits
<1>4. RangeOffset' = RangeOffset /\ BadRange' = BadRange /\ OffsetFits' = OffsetFits
  BY <1>1, SameNumbers
<1>5. /\ n \in Nat /\ n > 0 /\ n <= Len(wire)
      /\ rcv.length = size /\ rcv.h /\ rcv.ft /\ ~rcv.err /\ rcv.end = "running"
      /\ rcv.sent = offset + rcv.ftSent /\ rcv.ftSent <= size /\ size > 0
      /\ OffsetFits => rcv.sent < size \/ rcv.finish
  <2> QED BY <1>2 DEF ReceiverOK, EndsOK, EndOK
<1>6. Needed(rcv, n) \in Nat /\ Needed(rcv, n) <= n /\ rcv.ftSent + Needed(rcv, n) <= size
  BY <1>3, <1>5 DEF Needed
<1>7. /\ wire' \in Bytes /\ Len(wire') = Len(wire) - n /\ Len(wire') \in Nat
      /\ \A k \in 1..(Len(wire) - n) : wire'[k] = wire[n + k]
  <2>1. wire' = SubSeq(wire, n + 1, Len(wire)) /\ wire \in Bytes /\ n \in 0..Len(wire)
    BY DEF ReadBytes, TypeOK
  <2>2. /\ wire' \in Bytes /\ Len(wire') = Len(wire) - n
        /\ \A k \in 1..(Len(wire) - n) : wire'[k] = wire[n + k]
    BY <2>1, Cut
  <2> QED BY <1>3, <1>5, <2>2
<1>8. OffsetFits => /\ Len(file) = rcv.ftSent /\ Needed(rcv, n) = n
                    /\ Len(file) + Len(wire) + Len(out) <= size - offset
                    /\ snd.c => Len(file) + Len(wire) = snd.ftSent
                    /\ snd.c => Len(file) + Len(wire) < size - offset
                    /\ ~snd.c /\ excuse = {} => Len(file) + Len(wire) = size - offset
  <2> SUFFICES ASSUME OffsetFits
               PROVE  /\ Len(file) = rcv.ftSent /\ Needed(rcv, n) = n
                      /\ Len(file) + Len(wire) + Len(out) <= size - offset
                      /\ snd.c => Len(file) + Len(wire) = snd.ftSent
                      /\ snd.c => Len(file) + Len(wire) < size - offset
                      /\ ~snd.c /\ excuse = {} => Len(file) + Len(wire) = size - offset
    OBVIOUS
  <2>1. /\ Len(file) = rcv.ftSent
        /\ Len(file) + Len(wire) + Len(out) <= size - offset
        /\ snd.c => Len(file) + Len(wire) = snd.ftSent
        /\ ~snd.c /\ excuse = {} => Len(file) + Len(wire) = size - offset
    BY <1>2 DEF DataOK
  <2>2. Needed(rcv, n) = n
    BY <1>3, <1>5, <2>1 DEF Needed
  <2>3. offset < size
    BY <1>3, <1>5, <2>1
  <2>4. snd.c => snd.ftSent < size - offset
    <3>1. snd.c => Begun(snd) /\ snd.length = size - offset
      BY <1>3 DEF EndsOK, EndOK, SenderOK
    <3>2. snd.state = "Active" => snd.ftSent < snd.length \/ snd.length = 0
      BY DEF SenderOK
    <3>3. snd.state # "Active" => snd.ftSent = 0
      BY DEF EndsOK, EndOK
    <3> QED BY <1>3, <2>3, <3>1, <3>2, <3>3
  <2> QED BY <2>1, <2>2, <2>4
<1>9. CASE written
  <2>1. snd' = snd /\ peer' \in [Peers -> Ends] /\ rcv' = ReadyRead(rcv, Needed(rcv, n))
    <3>1. Set(Receiver, ReadyRead(rcv, Needed(rcv, n)))
      BY <1>9 DEF ReadBytes, rcv
    <3>2. ReadyRead(rcv, Needed(rcv, n)) \in Ends
      BY <1>5, <1>6, TheEnds, ReadEnd
    <3> QED BY <3>1, <3>2, TheEnds, SetEnd
  <2>2. excuse' = excuse /\ (Lost' <=> Lost)
    BY <1>9 DEF ReadBytes, Lost
  <2>3. /\ wire \in Bytes /\ file \in Bytes /\ Needed(rcv, n) \in 0..Len(wire)
        /\ file' = file \o SubSeq(wire, 1, Needed(rcv, n))
    <3>1. wire \in Bytes /\ file \in Bytes /\ Needed(rcv, n) \in 0..Len(wire)
      BY <1>6 DEF TypeOK
    <3>2. file' = file \o SubSeq(wire, 1, Needed(rcv, n))
      BY <1>9 DEF ReadBytes, rcv
    <3> QED BY <3>1, <3>2
  <2>4. /\ SubSeq(wire, 1, Needed(rcv, n)) \in Bytes
        /\ Len(SubSeq(wire, 1, Needed(rcv, n))) = Needed(rcv, n)
        /\ \A k \in 1..Needed(rcv, n) : SubSeq(wire, 1, Needed(rcv, n))[k] = wire[k]
    BY <2>3, Cut
  <2>5. file' \in Bytes /\ Len(file') = Len(file) + Needed(rcv, n)
    BY <2>3, <2>4, Joined
  <2>6. /\ \/ /\ ~rcv'.h /\ ~rcv'.ft /\ ~rcv'.c /\ rcv'.state = "Idle" /\ rcv'.try = 0
              /\ ~rcv'.finish /\ ~rcv'.err /\ rcv'.ftSent = 0 /\ rcv'.end = "done"
           \/ /\ rcv'.h /\ rcv'.ft /\ rcv'.try = rcv.try /\ rcv'.finish = rcv.finish
              /\ rcv'.err = rcv.err /\ rcv'.end = rcv.end /\ rcv'.length = size
              /\ rcv'.sent = rcv.sent + Needed(rcv, n)
              /\ IF rcv.ftSent + Needed(rcv, n) = size
                 THEN ~rcv'.c /\ rcv'.state = "Idle" /\ rcv'.ftSent = 0
                 ELSE /\ rcv'.c = rcv.c /\ rcv'.state = rcv.state
                      /\ rcv'.ftSent = rcv.ftSent + Needed(rcv, n)
        /\ rcv.sent + Needed(rcv, n) = size => ~rcv'.h
        /\ rcv.sent + Needed(rcv, n) < size => rcv'.h
    <3>1. LET d == ReadyRead(rcv, Needed(rcv, n))
          IN  /\ \/ /\ ~d.h /\ ~d.ft /\ ~d.c /\ d.state = "Idle" /\ d.try = 0
                    /\ ~d.finish /\ ~d.err /\ d.ftSent = 0 /\ d.end = "done"
                 \/ /\ d.h /\ d.ft /\ d.try = rcv.try /\ d.finish = rcv.finish
                    /\ d.err = rcv.err /\ d.end = rcv.end /\ d.length = size
                    /\ d.sent = rcv.sent + Needed(rcv, n)
                    /\ IF rcv.ftSent + Needed(rcv, n) = size
                       THEN ~d.c /\ d.state = "Idle" /\ d.ftSent = 0
                       ELSE /\ d.c = rcv.c /\ d.state = rcv.state
                            /\ d.ftSent = rcv.ftSent + Needed(rcv, n)
              /\ rcv.sent + Needed(rcv, n) = size => ~d.h
              /\ rcv.sent + Needed(rcv, n) < size => d.h
      <4>1. rcv \in Ends
        BY TheEnds
      <4> QED BY <1>5, <1>6, <4>1, ReadEnd
    <3> QED BY <2>1, <3>1
  <2>7. OffsetFits => \A k \in 1..Len(file') : file'[k] = offset + k
    <3> SUFFICES ASSUME OffsetFits, NEW k \in 1..Len(file')
                 PROVE  file'[k] = offset + k
      OBVIOUS
    <3>1. k \in 1..(Len(file) + n) /\ k \in Int /\ Needed(rcv, n) = n /\ n \in Nat
      BY <1>8, <2>5
    <3>2. CASE k <= Len(file)
      <4>1. k \in 1..Len(file)
        BY <1>3, <3>1, <3>2
      <4>2. file'[k] = file[k]
        BY <2>3, <4>1
      <4> QED BY <4>1, <4>2 DEF DataOK
    <3>3. CASE k > Len(file)
      <4>1. k - Len(file) \in 1..n /\ k - Len(file) \in 1..Len(wire)
        BY <3>1, <3>3
      <4>2. file'[k] = SubSeq(wire, 1, n)[k - Len(file)]
        BY <2>3, <3>1, <3>3
      <4>3. file'[k] = wire[k - Len(file)]
        BY <4>1, <4>2
      <4>4. wire[k - Len(file)] = offset + Len(file) + (k - Len(file))
        BY <1>2, <4>1 DEF DataOK
      <4> QED BY <1>3, <4>3, <4>4
    <3> QED BY <3>2, <3>3
  <2>8. OffsetFits => \A k \in 1..Len(wire') : wire'[k] = offset + Len(file') + k
    <3> SUFFICES ASSUME OffsetFits, NEW k \in 1..Len(wire')
                 PROVE  wire'[k] = offset + Len(file') + k
      OBVIOUS
    <3>1. wire'[k] = offset + Len(file) + (n + k)
      BY <1>2, <1>7 DEF DataOK
    <3>2. Len(file') = Len(file) + n /\ n \in Nat
      BY <1>5, <1>8, <2>5
    <3> QED BY <1>3, <3>1, <3>2
  <2>9. OffsetFits =>
          /\ Len(file') + Len(wire') + Len(out) <= size - offset
          /\ Len(file') = rcv.ftSent + Needed(rcv, n)
          /\ snd.c => Len(file') + Len(wire') = snd.ftSent
          /\ snd.c => Len(file') < size - offset
          /\ ~snd.c /\ excuse = {} => Len(file') + Len(wire') = size - offset
          /\ snd.c => Len(file') + Len(wire') <= snd.ftSent
    <3> SUFFICES ASSUME OffsetFits
                 PROVE  /\ Len(file') + Len(wire') + Len(out) <= size - offset
                        /\ Len(file') = rcv.ftSent + Needed(rcv, n)
                        /\ snd.c => Len(file') + Len(wire') = snd.ftSent
                        /\ snd.c => Len(file') < size - offset
                        /\ ~snd.c /\ excuse = {} => Len(file') + Len(wire') = size - offset
                        /\ snd.c => Len(file') + Len(wire') <= snd.ftSent
      OBVIOUS
    <3>1. Len(file') = rcv.ftSent + Needed(rcv, n) /\ Len(file') = Len(file) + n
      BY <1>8, <2>5
    <3>2. /\ n \in Nat /\ n > 0 /\ n <= Len(wire) /\ Len(wire) \in Nat /\ Len(file) \in Nat
          /\ Len(wire') = Len(wire) - n
      BY <1>3, <1>5, <1>7
    <3>3. Len(file') + Len(wire') = Len(file) + Len(wire) /\ Len(file') <= Len(file) + Len(wire)
      BY <3>1, <3>2
    <3>4. Len(file') + Len(wire') + Len(out) <= size - offset
      BY <1>8, <3>3
    <3>5. snd.c => Len(file') + Len(wire') = snd.ftSent
      BY <1>8, <3>3
    <3>6. snd.c => Len(file') < size - offset
      <4>1. snd.c => Len(file) + Len(wire) < size - offset
        BY <1>8
      <4>2. size - offset \in Int /\ Len(file) + Len(wire) \in Int
        BY <1>3
      <4> QED BY <3>3, <4>1, <4>2
    <3>7. ~snd.c /\ excuse = {} => Len(file') + Len(wire') = size - offset
      BY <1>8, <3>3
    <3> QED BY <3>1, <3>4, <3>5, <3>6, <3>7
  <2>10. OffsetFits =>
          \/ ~rcv'.h /\ ~rcv'.c /\ rcv'.end = "done" /\ Len(file') = size - offset
          \/ /\ rcv'.h /\ rcv'.c /\ rcv'.state = "Active" /\ rcv'.end = "running"
             /\ rcv'.sent < size /\ rcv'.ftSent = Len(file')
    <3> SUFFICES ASSUME OffsetFits
                 PROVE  \/ ~rcv'.h /\ ~rcv'.c /\ rcv'.end = "done" /\ Len(file') = size - offset
                        \/ /\ rcv'.h /\ rcv'.c /\ rcv'.state = "Active" /\ rcv'.end = "running"
                           /\ rcv'.sent < size /\ rcv'.ftSent = Len(file')
      OBVIOUS
    <3>1. /\ Len(file') = rcv.ftSent + Needed(rcv, n) /\ Needed(rcv, n) \in Nat
          /\ rcv.sent = offset + rcv.ftSent
      BY <1>5, <1>6, <2>9
    <3>2. Len(file') <= size - offset /\ rcv.sent + Needed(rcv, n) <= size /\ offset >= 0
      <4>1. Len(wire') \in Nat /\ Len(out) \in Nat /\ Len(file') \in Nat
        BY <1>3, <1>7, <3>1
      <4>2. Len(file') <= size - offset
        BY <1>3, <2>9, <4>1
      <4>3. rcv.sent + Needed(rcv, n) = offset + Len(file')
        BY <1>3, <3>1
      <4> QED BY <1>3, <4>2, <4>3
    <3>3. CASE rcv.sent + Needed(rcv, n) = size
      <4>1. Len(file') = size - offset
        <5>1. Len(file') + offset = size /\ Len(file') \in Nat
          BY <1>3, <3>1, <3>3
        <5> QED BY <1>3, <5>1
      <4> QED BY <2>6, <3>3, <4>1
    <3>4. CASE rcv.sent + Needed(rcv, n) < size
      <4>1. rcv.ftSent + Needed(rcv, n) # size
        BY <1>3, <3>1, <3>4
      <4> QED BY <1>2, <1>5, <2>6, <3>1, <3>4, <4>1
    <3>5. rcv.sent + Needed(rcv, n) \in Int /\ size \in Int
      BY <1>3, <3>1
    <3> QED BY <3>2, <3>3, <3>4, <3>5
  <2>11. rcv.finish => ~OffsetFits
    <3>1. rcv.finish /\ OffsetFits => offset = size
      BY DEF ReceiverOK
    <3> QED BY <1>3, <1>8, <3>1
  <2>12. TypeOK'
    BY <1>1, <1>7, <2>1, <2>2, <2>5 DEF TypeOK
  <2>13. EndsOK'
    BY <1>2, <2>1, <2>6 DEF EndsOK, EndOK, Begun
  <2>14. Handshake'
    BY <1>1, <1>2, <1>4, <2>1, <2>2, <2>6 DEF Handshake, Fresh
  <2>15. SenderOK'
    BY <1>1, <1>4, <2>1 DEF SenderOK
  <2>16. ReceiverOK'
    <3>1. rcv'.state = "Active" => /\ rcv'.length = size /\ rcv'.sent = offset + rcv'.ftSent
                                   /\ rcv'.ftSent <= size
      <4>1. CASE ~rcv'.h
        BY <2>6, <4>1
      <4>2. CASE rcv'.h /\ rcv.ftSent + Needed(rcv, n) = size
        BY <2>6, <4>2
      <4>3. CASE rcv'.h /\ rcv.ftSent + Needed(rcv, n) # size
        <5>1. /\ rcv'.sent = rcv.sent + Needed(rcv, n) /\ rcv'.length = size
              /\ rcv'.ftSent = rcv.ftSent + Needed(rcv, n)
          BY <2>6, <4>3
        <5> QED BY <1>3, <1>5, <1>6, <5>1
      <4> QED BY <4>1, <4>2, <4>3
    <3>2. rcv'.try = 0 /\ rcv'.state \in {"Idle", "Active"} /\ (rcv'.finish => rcv.finish)
      BY <1>2, <2>6 DEF ReceiverOK
    <3>3. OffsetFits /\ rcv'.state = "Active" => rcv'.sent < size
      BY <2>6, <2>10
    <3> QED BY <1>1, <1>2, <1>4, <2>11, <3>1, <3>2, <3>3 DEF ReceiverOK, Begun
  <2>17. DataOK'
    <3>1. OffsetFits' => Len(file') + Len(wire') + Len(out') <= size' - offset'
      BY <1>1, <1>4, <2>9
    <3>2. OffsetFits' => \A k \in 1..Len(file') : file'[k] = offset' + k
      BY <1>1, <1>4, <2>7
    <3>3. OffsetFits' /\ rcv'.c => \A k \in 1..Len(wire') : wire'[k] = offset' + Len(file') + k
      BY <1>1, <1>4, <2>8
    <3>4. OffsetFits' => \A k \in 1..Len(out') : out'[k] = offset' + snd'.ftSent + k
      BY <1>1, <1>4, <2>1 DEF DataOK
    <3>5. OffsetFits' => (snd'.c => Len(file') + Len(wire') <= snd'.ftSent)
      BY <1>4, <2>1, <2>9
    <3>6. OffsetFits' => (snd'.c /\ rcv'.c => Len(file') + Len(wire') = snd'.ftSent)
      BY <1>4, <2>1, <2>9
    <3>7. OffsetFits' => (rcv'.c => rcv'.ftSent = Len(file'))
      BY <1>4, <2>10
    <3>8. OffsetFits' => (rcv'.end = "done" => Len(file') = size' - offset')
      BY <1>1, <1>4, <2>10
    <3>9. OffsetFits' => (~snd'.c /\ excuse' = {} => Len(file') + Len(wire') = size' - offset')
      BY <1>1, <1>4, <2>1, <2>2, <2>9
    <3> QED BY <1>1, <3>1, <3>2, <3>3, <3>4, <3>5, <3>6, <3>7, <3>8, <3>9 DEF DataOK
  <2>18. CauseOK'
    <3>1. OffsetFits /\ snd.c /\ ~rcv'.c => FALSE
      <4>1. OffsetFits /\ snd.c => Len(file') # size - offset
        BY <1>3, <2>9
      <4> QED BY <2>10, <4>1
    <3>2. OffsetFits => ~rcv'.err /\ rcv'.end # "error"
      BY <1>5, <2>6, <2>10
    <3> QED BY <1>1, <1>4, <2>1, <2>2, <3>1, <3>2 DEF CauseOK
  <2> QED BY <2>12, <2>13, <2>14, <2>15, <2>16, <2>17, <2>18
<1>10. CASE ~written
  <2>1. /\ snd' = snd /\ peer' \in [Peers -> Ends]
        /\ ~rcv'.h /\ ~rcv'.ft /\ ~rcv'.c /\ rcv'.state = "Idle" /\ rcv'.try = 0
        /\ ~rcv'.finish /\ ~rcv'.err /\ rcv'.ftSent = 0 /\ rcv'.end = "error"
    <3>1. Set(Receiver, DeleteHandler(rcv, "error"))
      BY <1>10 DEF ReadBytes, rcv
    <3>2. DeleteHandler(rcv, "error") \in Ends
          /\ Gone(rcv, DeleteHandler(rcv, "error"), "error")
      BY TheEnds, Deleted DEF Outcomes
    <3> QED BY <3>1, <3>2, TheEnds, SetEnd DEF Gone
  <2>2. /\ file' = file /\ excuse' \subseteq Excuses /\ Lost' /\ excuse' # {}
        /\ excuse \subseteq excuse'
    <3>1. file' = file /\ excuse' = excuse \cup {"fileError"}
      BY <1>10 DEF ReadBytes
    <3> QED BY <3>1 DEF TypeOK, Excuses, Lost
  <2>3. TypeOK'
    BY <1>1, <1>7, <2>1, <2>2 DEF TypeOK
  <2>4. EndsOK'
    BY <2>1 DEF EndsOK, EndOK
  <2>5. Handshake'
    BY <1>1, <1>2, <1>4, <2>1, <2>2 DEF Handshake, Fresh
  <2>6. SenderOK'
    BY <1>1, <1>4, <2>1 DEF SenderOK
  <2>7. ReceiverOK'
    BY <2>1 DEF ReceiverOK, Begun
  <2>8. DataOK'
    <3>1. OffsetFits' => Len(file') + Len(wire') + Len(out') <= size' - offset'
      BY <1>1, <1>3, <1>4, <1>7, <1>8, <2>2
    <3>2. OffsetFits' => \A k \in 1..Len(file') : file'[k] = offset' + k
      BY <1>1, <1>4, <2>2 DEF DataOK
    <3>3. OffsetFits' /\ rcv'.c => \A k \in 1..Len(wire') : wire'[k] = offset' + Len(file') + k
      BY <2>1
    <3>4. OffsetFits' => \A k \in 1..Len(out') : out'[k] = offset' + snd'.ftSent + k
      BY <1>1, <1>4, <2>1 DEF DataOK
    <3>5. OffsetFits' => (snd'.c => Len(file') + Len(wire') <= snd'.ftSent)
      BY <1>4, <1>7, <1>8, <2>1, <2>2
    <3>6. OffsetFits' => (snd'.c /\ rcv'.c => Len(file') + Len(wire') = snd'.ftSent)
      BY <2>1
    <3>7. OffsetFits' => (rcv'.c => rcv'.ftSent = Len(file'))
      BY <2>1
    <3>8. OffsetFits' => (rcv'.end = "done" => Len(file') = size' - offset')
      BY <2>1
    <3>9. OffsetFits' => (~snd'.c /\ excuse' = {} => Len(file') + Len(wire') = size' - offset')
      BY <2>2
    <3> QED BY <1>1, <3>1, <3>2, <3>3, <3>4, <3>5, <3>6, <3>7, <3>8, <3>9 DEF DataOK
  <2>9. CauseOK'
    BY <1>1, <2>1, <2>2 DEF CauseOK
  <2> QED BY <2>3, <2>4, <2>5, <2>6, <2>7, <2>8, <2>9
<1> QED BY <1>9, <1>10

(* The start is within the invariant.                                      *)
LEMMA InitInvariant == Init => Invariant
<1> SUFFICES ASSUME Init
             PROVE  Invariant
  OBVIOUS
<1>1. /\ size \in 0..MaxSize /\ offset = 0 /\ stream = "none" /\ ~acceptTimer /\ excuse = {}
      /\ out = <<>> /\ wire = <<>> /\ file = <<>> /\ acceptTimer \in BOOLEAN
      /\ peer = [p \in Peers |-> NewEnd] /\ net = [p \in Peers |-> <<>>]
  BY DEF Init
<1>2. NewEnd \in Ends
  BY FileTransferAssumption DEF NewEnd, Ends, Outcomes
<1>3. Sender \in Peers /\ Receiver \in Peers
  BY DEF Peers
<1>4. <<>> \in Bytes /\ Len(<<>>) = 0 /\ <<>> \in Seq({Request, Accepted, Rejected})
  BY DEF Bytes
<1>5. TypeOK
  BY <1>1, <1>2, <1>4, Zero DEF TypeOK
<1>6. /\ snd = NewEnd /\ rcv = NewEnd
      /\ net[Sender] = <<>> /\ net[Receiver] = <<>>
  BY <1>1, <1>3 DEF snd, rcv
<1>7. /\ ~snd.h /\ ~snd.ft /\ ~snd.c /\ snd.state = "Idle" /\ snd.try = 0 /\ ~snd.finish
      /\ ~snd.err /\ snd.ftSent = 0 /\ snd.end = "running"
      /\ ~rcv.h /\ ~rcv.ft /\ ~rcv.c /\ rcv.state = "Idle" /\ rcv.try = 0 /\ ~rcv.finish
      /\ ~rcv.err /\ rcv.ftSent = 0 /\ rcv.end = "running"
  BY <1>6 DEF NewEnd
<1>8. EndsOK
  BY <1>7 DEF EndsOK, EndOK
<1>9. Handshake
  <2>1. ~acceptTimer /\ stream = "none" /\ net[Sender] = <<>> /\ net[Receiver] = <<>>
    BY <1>1, <1>6
  <2> QED BY <2>1, <1>7 DEF Handshake, Fresh, Begun
<1>10. SenderOK /\ ReceiverOK
  BY <1>1, <1>7 DEF SenderOK, ReceiverOK, Begun
<1>11. DataOK
  BY <1>1, <1>7 DEF DataOK
<1>12. CauseOK
  BY <1>1, <1>7 DEF CauseOK
<1> QED BY <1>5, <1>8, <1>9, <1>10, <1>11, <1>12 DEF Invariant

(* Every step keeps the invariant.                                         *)
LEMMA NextInvariant == Invariant /\ [Next]_vars => Invariant'
<1> SUFFICES ASSUME Invariant, [Next]_vars
             PROVE  Invariant'
  OBVIOUS
<1>1. CASE SendFile
  BY <1>1, SendFileStep
<1>2. CASE RecvRequest
  BY <1>2, RecvRequestStep
<1>3. CASE RecvAnswer
  BY <1>3, RecvAnswerStep
<1>4. CASE RecvStreamRequest
  BY <1>4, RecvStreamRequestStep
<1>5. CASE AcceptTimeout
  BY <1>5, AcceptTimeoutStep
<1>6. CASE \E read \in BOOLEAN : TrySend(read)
  BY <1>6, TrySendStep, ReadErrorStep
<1>7. CASE \E n \in 1..Len(out) : WriteBytes(n)
  BY <1>7, WriteBytesStep
<1>8. CASE \E n \in 1..Len(wire), written \in BOOLEAN : ReadBytes(n, written)
  BY <1>8, ReadBytesStep
<1>9. CASE Break
  BY <1>9, BreakStep
<1>10. CASE \E part \in 0..MaxSize : AcceptFile(part)
  BY <1>10, AcceptFileStep
<1>11. CASE \E ok \in BOOLEAN : Negotiated(ok)
  BY <1>11, NegotiatedStep
<1>12. ASSUME NEW p \in Peers, Cancel(p) \/ StreamDown(p) \/ Deferred(p)
       PROVE  Invariant'
  <2>1. CASE p = Sender
    BY <1>12, <2>1, CancelSenderStep, StreamDownSenderStep, DoFinishSenderStep,
       DeliverErrorSenderStep DEF Deferred
  <2>2. CASE p = Receiver
    BY <1>12, <2>2, CancelReceiverStep, StreamDownReceiverStep, DoFinishReceiverStep,
       DeliverErrorReceiverStep DEF Deferred
  <2> QED BY <2>1, <2>2 DEF Peers
<1>13. ASSUME NEW p \in Peers, NEW opened \in BOOLEAN, StreamUp(p, opened)
       PROVE  Invariant'
  <2>1. CASE p = Sender
    BY <1>13, <2>1, StreamUpSenderStep
  <2>2. CASE p = Receiver
    BY <1>13, <2>2, StreamUpReceiverStep
  <2> QED BY <2>1, <2>2 DEF Peers
<1>14. CASE UNCHANGED vars
  <2>1. /\ UNCHANGED <<size, offset, peer, net, stream, out, wire, file, acceptTimer, excuse>>
        /\ UNCHANGED <<size, offset>> /\ snd' = snd /\ rcv' = rcv /\ (Lost' <=> Lost)
    BY <1>14 DEF vars, snd, rcv, Lost
  <2>2. RangeOffset' = RangeOffset /\ BadRange' = BadRange /\ OffsetFits' = OffsetFits
    BY <2>1, SameNumbers
  <2>3. TypeOK' /\ EndsOK'
    BY <2>1 DEF Invariant, TypeOK, EndsOK
  <2>4. Handshake'
    BY <2>1, <2>2 DEF Invariant, Handshake
  <2>5. SenderOK' /\ ReceiverOK'
    BY <2>1, <2>2 DEF Invariant, SenderOK, ReceiverOK
  <2>6. DataOK' /\ CauseOK'
    BY <2>1, <2>2 DEF Invariant, DataOK, CauseOK
  <2> QED BY <2>3, <2>4, <2>5, <2>6 DEF Invariant
<1> QED BY <1>1, <1>2, <1>3, <1>4, <1>5, <1>6, <1>7, <1>8, <1>9, <1>10, <1>11, <1>12, <1>13,
           <1>14 DEF Next, Stanza, Data

(* The invariant holds throughout.                                         *)
THEOREM InvariantCorrect == Spec => []Invariant
BY InitInvariant, NextInvariant, PTL DEF Spec

-----------------------------------------------------------------------------
(* What follows from it.                                                   *)

(* Every variable keeps its type: no counter of an end runs past its file.  *)
THEOREM TypeCorrect == Spec => []TypeOK
<1>1. Invariant => TypeOK
  BY DEF Invariant
<1> QED BY <1>1, InvariantCorrect, PTL

(* The bytes of a finished file are those of the function.                  *)
LEMMA WholeFile ==
    ASSUME Invariant
    PROVE  ReceivedFileIsWhole
<1> SUFFICES ASSUME rcv.end = "done", OffsetFits
             PROVE  file = [k \in 1..(size - offset) |-> offset + k]
  BY DEF ReceivedFileIsWhole, rcv
<1> DEFINE whole == [k \in 1..(size - offset) |-> offset + k]
<1>1. file \in Seq(1..MaxSize) /\ Len(file) = size - offset
  BY DEF Invariant, TypeOK, Bytes, DataOK
<1>2. file \in [1..(size - offset) -> 1..MaxSize]
  BY <1>1, LenProperties
<1>3. \A k \in 1..(size - offset) : file[k] = offset + k
  BY <1>1 DEF Invariant, DataOK
<1>4. file = [k \in 1..(size - offset) |-> file[k]]
  BY <1>2
<1> QED BY <1>3, <1>4

(* When the receiver is told that the file is there, it is, byte for byte.  *)
THEOREM ReceivedFileCorrect == Spec => []ReceivedFileIsWhole
BY InvariantCorrect, WholeFile, PTL

(* When the sender is told that the file was sent, every byte left its      *)
(* buffer and, without an outside failure, is at the receiver or on the way.*)
THEOREM SenderDoneCorrect == Spec => []SenderDoneMeansSent
<1>1. Invariant => SenderDoneMeansSent
  <2> SUFFICES ASSUME Invariant, snd.end = "done"
               PROVE  /\ out = <<>>
                      /\ OffsetFits /\ excuse = {} => Len(file) + Len(wire) = size - offset
    BY DEF SenderDoneMeansSent, snd
  <2>1. ~snd.c /\ snd.state # "Active"
    BY DEF Invariant, EndsOK, EndOK
  <2>2. excuse = {} => stream = "up"
    BY DEF Invariant, Handshake
  <2> QED BY <2>1, <2>2 DEF Invariant, SenderOK, DataOK
<1> QED BY <1>1, InvariantCorrect, PTL

(* The sender never puts more on the stream than the receiver will take.    *)
THEOREM NotTooMuchCorrect == Spec => []NeverSendsTooMuch
<1>1. Invariant => NeverSendsTooMuch
  BY DEF Invariant, DataOK, NeverSendsTooMuch
<1> QED BY <1>1, InvariantCorrect, PTL

(* A transfer fails at an end only with a cause outside its own logic, or   *)
(* when the .part file was whole already.                                   *)
THEOREM FailsOnlyWithCauseCorrect == Spec => []FailsOnlyWithCause
<1>1. Invariant => FailsOnlyWithCause
  <2> SUFFICES ASSUME Invariant, NEW p \in Peers, peer[p].end = "error", OffsetFits, excuse = {}
               PROVE  size > 0 /\ offset = size
    BY DEF FailsOnlyWithCause
  <2>1. "error" \in {snd.end, rcv.end}
    BY DEF Peers, snd, rcv
  <2> QED BY <2>1 DEF Invariant, CauseOK
<1> QED BY <1>1, InvariantCorrect, PTL

(* trySend() meets a missing connection only after the stream was lost.     *)
THEOREM CrashNeedsLostStreamCorrect == Spec => []CrashNeedsLostStream
<1>1. Invariant => CrashNeedsLostStream
  BY DEF Invariant, CauseOK, CrashNeedsLostStream, Lost, snd
<1> QED BY <1>1, InvariantCorrect, PTL

=============================================================================

---------------------------- MODULE IBBDelivery -----------------------------
(***************************************************************************)
(* What the in-band bytestream delivers: bytesWritten() and                *)
(* delayedCloseFinished() tell the truth, and bytes that fit one packet    *)
(* arrive in order. Ledgers is the account of where each byte is, Contents *)
(* says which bytes they are; both are kept step by step, over the forms   *)
(* of IBBProofs.                                                           *)
(*                                                                         *)
(* How it ends: a session ends once for an application, and, while the     *)
(* peers are connected, ErrData is reported only after the other end       *)
(* closed, refused or was told to stop.  Causes says of every stream that  *)
(* is still there why it is, and of every task and answer on the net what  *)
(* caused it.                                                              *)
(***************************************************************************)
EXTENDS IBBProofs

-----------------------------------------------------------------------------
(* The account of the bytes.                                                *)

(* Every byte that p wrote in session s is acknowledged, in the packet      *)
(* under way or in the buffer, no more has arrived than has been sent, and  *)
(* the packet is counted once: before it arrives among what is to come,     *)
(* after that among what has come.                                          *)
Sent(p, s) == Len(hist[p][s].sent)
Acked(p, s) == hist[p][s].acked
Arrived(p, s) == Len(hist[Other(p)][s].got)
Unsent(i) == Len(conn[i].sendbuf)
UnderWay(i) == IF conn[i].j = NoTask THEN 0 ELSE conn[i].blockSize
Finished(p, s) == hist[p][s].end = "delayedCloseFinished" /\ ~hist[p][s].hasty
Packets(p, s) == {m \in Coming[Other(p)] : Data(m) /\ m.session = s}
Answers(i, p) == {a \in Coming[p] : a.kind = "result" /\ conn[i].j = Task("data", a.id)}
Delivered(p, s) ==
    /\ Acked(p, s) <= Arrived(p, s) /\ Arrived(p, s) <= Sent(p, s)
    /\ Finished(p, s) => Arrived(p, s) = Sent(p, s)
    /\ \A m \in Packets(p, s) : Arrived(p, s) + Len(m.data) <= Sent(p, s)
    /\ \A m, n \in Packets(p, s) : m.data # <<>> /\ n.data # <<>> => m.id = n.id
Accounted(i, p, s) ==
    /\ Acked(p, s) + UnderWay(i) + Unsent(i) = Sent(p, s)
    /\ Arrived(p, s) + Unsent(i) <= Sent(p, s)
    /\ Answers(i, p) # {} => Acked(p, s) + UnderWay(i) <= Arrived(p, s)
    /\ \A m \in Packets(p, s) : m.data # <<>> =>
         /\ conn[i].j = Task("data", m.id)
         /\ Arrived(p, s) + Len(m.data) + Unsent(i) <= Sent(p, s)
Ledger(p, s) ==
    /\ Delivered(p, s)
    /\ \A i \in Conns : Runs(i, p, s) => Accounted(i, p, s)
Ledgers == \A p \in Peers, s \in Sessions : Ledger(p, s)

(* The amounts in it.                                                       *)
Counts(p, s) ==
    /\ Sent(p, s) \in Nat /\ Acked(p, s) \in Nat /\ Arrived(p, s) \in Nat
    /\ \A m \in Packets(p, s) : m \in Coming[Other(p)] /\ m.id \in Nat /\ Len(m.data) \in Nat
Amounts(i) == Unsent(i) \in Nat /\ UnderWay(i) \in Nat /\ conn[i].blockSize \in Nat

LEMMA Numbers ==
    ASSUME TypeOK
    PROVE  /\ \A p \in Peers, s \in Sids : Counts(p, s)
           /\ \A i \in Conns : Amounts(i)
<1> SUFFICES ASSUME NEW p \in Peers, NEW s \in Sids, NEW i \in Conns
             PROVE  Counts(p, s) /\ Amounts(i)
  BY PeersType DEF Sids
<1>1. Other(p) \in Peers
  BY PeersType
<1>2. \A m \in Packets(p, s) : m \in Coming[Other(p)] /\ m.id \in Nat /\ Len(m.data) \in Nat
  BY <1>1, IdTypes DEF Packets
<1>3. Counts(p, s)
  BY <1>1, <1>2, FieldTypes DEF Counts, Sent, Acked, Arrived
<1>4. Amounts(i)
  BY FieldTypes DEF Amounts, Unsent, UnderWay
<1> QED
  BY <1>3, <1>4

(* Connection i is what it was as far as the ledger goes, and so is what    *)
(* the two ends counted in session s.                                       *)
SameBuffer(i) ==
    /\ conn'[i].j = conn[i].j
    /\ Unsent(i)' = Unsent(i) /\ UnderWay(i)' = UnderWay(i)
SameCount(p, s) ==
    /\ Sent(p, s)' = Sent(p, s) /\ Acked(p, s)' = Acked(p, s) /\ Arrived(p, s)' = Arrived(p, s)
    /\ Finished(p, s)' => Finished(p, s)

LEMMA LedgerKept ==
    ASSUME NEW p \in Peers, NEW s \in Sessions, Ledger(p, s), SameCount(p, s),
           Packets(p, s)' \subseteq Packets(p, s),
           \A i \in Conns : Runs(i, p, s)' =>
             Runs(i, p, s) /\ SameBuffer(i) /\ Answers(i, p)' \subseteq Answers(i, p)
    PROVE  Ledger(p, s)'
<1>1. Delivered(p, s)'
  BY DEF Ledger, Delivered, SameCount
<1>2. ASSUME NEW i \in Conns, Runs(i, p, s)'
      PROVE  Accounted(i, p, s)'
  BY <1>2 DEF Ledger, Accounted, SameCount, SameBuffer
<1> QED
  BY <1>1, <1>2 DEF Ledger

LEMMA SameCounts ==
    /\ \A p \in Peers, s \in Sids :
         hist'[p][s] = hist[p][s] /\ hist'[Other(p)][s] = hist[Other(p)][s] => SameCount(p, s)
    /\ SameHist => \A p \in Peers, s \in Sids : SameCount(p, s)
    /\ \A p \in Peers, s \in Sids : \A how : how # "delayedCloseFinished" /\ Ended(p, s, how) =>
         \A r \in Peers, t \in Sids : SameCount(r, t)
    /\ \A k \in Conns : Keeps(k) => SameBuffer(k)
    /\ \A k \in Conns : Rests(k) => SameBuffer(k)
<1>1. \A p \in Peers, s \in Sids :
         hist'[p][s] = hist[p][s] /\ hist'[Other(p)][s] = hist[Other(p)][s] => SameCount(p, s)
  BY DEF SameCount, Sent, Acked, Arrived, Finished
<1>2. ASSUME NEW p \in Peers, NEW s \in Sids, NEW how, how # "delayedCloseFinished",
             Ended(p, s, how), NEW r \in Peers, NEW t \in Sids
      PROVE  SameCount(r, t)
  <2>1. \A q \in Peers : hist'[q][t].sent = hist[q][t].sent /\ hist'[q][t].got = hist[q][t].got
                         /\ hist'[q][t].acked = hist[q][t].acked
                         /\ (hist'[q][t].end = "delayedCloseFinished" =>
                                hist[q][t].end = "delayedCloseFinished")
                         /\ hist'[q][t].hasty = hist[q][t].hasty
    BY <1>2 DEF Ended, Only
  <2> QED
    BY <2>1, PeersType DEF SameCount, Sent, Acked, Arrived, Finished
<1>3. ASSUME SameHist, NEW p \in Peers, NEW s \in Sids
      PROVE  SameCount(p, s)
  <2>1. Same(p, s) /\ Same(Other(p), s) /\ (hist[p][s].hasty => hist'[p][s].hasty)
    BY <1>3, PeersType DEF SameHist, Remembered
  <2> QED
    BY <2>1 DEF SameCount, Sent, Acked, Arrived, Finished, Same
<1>4. \A k \in Conns : Keeps(k) => SameBuffer(k)
  BY DEF Keeps, SameBuffer, Unsent, UnderWay
<1> QED
  BY <1>1, <1>2, <1>3, <1>4 DEF Rests

(* A step in which no connection comes up, no packet comes, and an answer   *)
(* only to somebody who does not wait for it.                               *)
LEMMA LedgersKept ==
    ASSUME Ledgers, \A p \in Peers, s \in Sessions : SameCount(p, s),
           \A i \in Conns : conn'[i].st = "Active" =>
             /\ conn[i].st = "Active" /\ conn'[i].session = conn[i].session /\ SameBuffer(i)
             /\ Answers(i, Owner(i))' \subseteq Answers(i, Owner(i)),
           \A p \in Peers : \A m \in Coming'[p] : Data(m) => m \in Coming[p]
    PROVE  Ledgers'
<1> SUFFICES ASSUME NEW p \in Peers, NEW s \in Sessions PROVE Ledger(p, s)'
  BY DEF Ledgers
<1>1. Packets(p, s)' \subseteq Packets(p, s)
  BY PeersType DEF Packets
<1>2. SameCount(p, s) /\ Ledger(p, s)
  BY DEF Ledgers
<1>3. \A i \in Conns : Runs(i, p, s)' =>
             Runs(i, p, s) /\ SameBuffer(i) /\ Answers(i, p)' \subseteq Answers(i, p)
  BY DEF Runs
<1> QED
  BY <1>1, <1>2, <1>3, LedgerKept

(* Answers to a task that is still there.                                   *)
LEMMA AnswersKept ==
    ASSUME NEW i \in Conns, NEW p \in Peers, conn'[i].j = conn[i].j,
           \A a \in Coming'[p] : a.kind = "result" /\ conn[i].j = Task("data", a.id) =>
              a \in Coming[p]
    PROVE  Answers(i, p)' \subseteq Answers(i, p)
BY DEF Answers

(* The steps of an end's own that send no packet.                           *)
LEMMA QuietLedgers ==
    ASSUME Basis, Ledgers, NEW i \in Conns,
           \/ RestStep \/ RefuseStep(i) \/ \E how \in Ends : LeaveStep(i, how)
    PROVE  Ledgers'
<1>1. TypeOK /\ Sessions \subseteq Sids
  BY PeersType DEF Basis
<1>2. \A p \in Peers, s \in Sessions : SameCount(p, s)
  <2>1. CASE RestStep
    BY <1>1, <2>1, SameCounts DEF RestStep
  <2>2. CASE RefuseStep(i)
    BY <1>1, <2>2, SameCounts, PeersType DEF RefuseStep
  <2>3. ASSUME NEW how \in Ends, LeaveStep(i, how)
        PROVE  \A p \in Peers, s \in Sessions : SameCount(p, s)
    <3>1. Owner(i) \in Peers /\ SessionOf(i) \in Sids /\ how # "delayedCloseFinished"
      BY <1>1, <2>3, FieldTypes, PeersType DEF SessionOf, LeaveStep
    <3> QED
      BY <1>1, <2>3, <3>1, SameCounts DEF LeaveStep
  <2> QED
    BY <2>1, <2>2, <2>3
<1>3. \A k \in Conns : conn'[k].st = "Active" =>
        conn[k].st = "Active" /\ conn'[k].session = conn[k].session /\ SameBuffer(k)
  BY SameCounts DEF RestStep, RefuseStep, LeaveStep, RestBut, Stops, Rests, Keeps
<1>4. \A p \in Peers : \A m \in Coming'[p] : Data(m) \/ m.kind = "result" => m \in Coming[p]
  <2>1. CASE UNCHANGED net
    BY <2>1, NetSame DEF Unmoved
  <2>2. CASE RefuseStep(i)
    <3>1. Error(conn[i].iqId).kind = "error"
      BY StanzaFields
    <3> QED
      BY <2>2, <3>1, PeersType DEF RefuseStep, Pushed, Unmoved, Data
  <2> QED
    BY <2>1, <2>2 DEF RestStep, LeaveStep
<1> QED
  <2>1. \A k \in Conns : conn'[k].st = "Active" => Answers(k, Owner(k))' \subseteq Answers(k, Owner(k))
    BY <1>3, <1>4, AnswersKept, PeersType DEF SameBuffer
  <2> QED
    BY <1>2, <1>3, <1>4, <2>1, LedgersKept, PeersType

(* A connection that comes up has an empty account.                         *)
LEMMA FreshLedgers ==
    ASSUME Basis, Ledgers, NEW i \in Conns, NEW s \in Sessions, hist' = hist,
           conn'[i].session = s, conn[i].st # "Active", conn'[i].j = NoTask,
           conn'[i].sendbuf = <<>>, RestBut(i), Silent(Owner(i), s),
           \A k \in Conns \ {i} : conn[k].st = "Active" =>
             Answers(k, Owner(k))' \subseteq Answers(k, Owner(k)),
           \A p \in Peers : \A m \in Coming'[p] : Data(m) => m \in Coming[p]
    PROVE  Ledgers'
<1> SUFFICES ASSUME NEW p \in Peers, NEW t \in Sessions PROVE Ledger(p, t)'
  BY DEF Ledgers
<1>1. TypeOK /\ Sessions \subseteq Sids /\ Other(p) \in Peers
  BY PeersType DEF Basis
<1>2. Packets(p, t)' \subseteq Packets(p, t)
  BY <1>1 DEF Packets
<1>3. SameCount(p, t) /\ Ledger(p, t)
  BY <1>1, SameCounts DEF Ledgers
<1>4. \A k \in Conns \ {i} : Runs(k, p, t)' =>
             Runs(k, p, t) /\ SameBuffer(k) /\ Answers(k, p)' \subseteq Answers(k, p)
  BY SameCounts DEF Runs, RestBut, Rests, Keeps
<1>5. CASE p # Owner(i) \/ t # s
  <2>1. ~Runs(i, p, t)'
    BY <1>5 DEF Runs
  <2> QED
    BY <1>2, <1>3, <1>4, <2>1, LedgerKept
<1>6. CASE p = Owner(i) /\ t = s
  <2>1. Delivered(p, t)'
    BY <1>2, <1>3 DEF Ledger, Delivered, SameCount
  <2>2. ASSUME NEW k \in Conns \ {i}, Runs(k, p, t)'
        PROVE  Accounted(k, p, t)'
    BY <1>2, <1>3, <1>4, <2>2 DEF Ledger, Accounted, SameBuffer, SameCount
  <2>3. Accounted(i, p, t)'
    <3>1. Sent(p, t) = 0 /\ Acked(p, t) = 0 /\ Packets(p, t)' = {}
      BY <1>2, <1>6 DEF Silent, NoHistory, Packets, Sent, Acked
    <3>2. Arrived(p, t)' = 0 /\ Sent(p, t)' = 0 /\ Acked(p, t)' = 0
      BY <1>1, <1>3, <2>1, <3>1, Numbers DEF Delivered, SameCount, Counts
    <3>3. Answers(i, p)' = {}
      BY TaskFields DEF Answers
    <3>4. UnderWay(i)' = 0 /\ Unsent(i)' = 0
      BY DEF UnderWay, Unsent
    <3> QED
      BY <3>1, <3>2, <3>3, <3>4 DEF Accounted
  <2> QED
    BY <2>1, <2>2, <2>3 DEF Ledger
<1> QED
  BY <1>5, <1>6


LEMMA ActiveSession ==
    ASSUME TypeOK, EndsKnown, NEW i \in Conns, conn[i].st = "Active"
    PROVE  conn[i].session \in Sessions
<1>1. CASE i = 0
  <2>1. conn[i].session = nSessions /\ nSessions > 0 /\ nSessions \in Sids
    BY <1>1, FieldTypes DEF EndsKnown
  <2> QED
    BY <2>1 DEF Sessions
<1>2. CASE i # 0
  BY <1>2, PeersType DEF EndsKnown
<1> QED
  BY <1>1, <1>2

(* A connection owns the account of its session alone.                      *)
LEMMA OwnLedger ==
    ASSUME EndsKnown, NEW i \in Conns, NEW p, NEW s, Runs(i, p, s), RestBut(i),
           Delivered(p, s)', Runs(i, p, s)' => Accounted(i, p, s)'
    PROVE  Ledger(p, s)'
<1>1. \A k \in Conns \ {i} : Runs(k, p, s)' => Runs(k, p, s)
  BY DEF RestBut, Rests, Keeps, Runs
<1>2. \A k \in Conns : Runs(k, p, s)' => k = i
  BY <1>1, OneEnd
<1> QED
  BY <1>2 DEF Ledger

(* The ledgers of everybody else.                                           *)
LEMMA OtherLedgers ==
    ASSUME Ledgers, NEW i \in Conns, RestBut(i),
           NEW r \in Peers, NEW t \in Sessions,
           conn'[i].st = "Active" => Owner(i) # r \/ conn'[i].session # t,
           SameCount(r, t), Packets(r, t)' \subseteq Packets(r, t),
           \A k \in Conns \ {i} : Runs(k, r, t) => Answers(k, r)' \subseteq Answers(k, r)
    PROVE  Ledger(r, t)'
<1>1. ~Runs(i, r, t)'
  BY DEF Runs
<1>2. \A k \in Conns : Runs(k, r, t)' =>
        Runs(k, r, t) /\ SameBuffer(k) /\ Answers(k, r)' \subseteq Answers(k, r)
  BY <1>1, SameCounts DEF RestBut, Rests, Keeps, Runs
<1> QED
  BY <1>2, LedgerKept DEF Ledgers

(* What changes the account of one session alone.                           *)
LEMMA OnlyCounts ==
    ASSUME NEW p \in Peers, NEW s \in Sids, Only(p, s),
           hist'[p][s].got = hist[p][s].got
    PROVE  \A r \in Peers, t \in Sids : r # p \/ t # s => SameCount(r, t)
<1> SUFFICES ASSUME NEW r \in Peers, NEW t \in Sids, r # p \/ t # s
             PROVE  SameCount(r, t)
  OBVIOUS
<1>1. hist'[r][t] = hist[r][t] /\ hist'[Other(r)][t].got = hist[Other(r)][t].got
  BY PeersType DEF Only
<1> QED
  BY <1>1 DEF SameCount, Sent, Acked, Arrived, Finished

(* Bytes written wait behind the packet under way.                          *)
LEMMA OwnWrite ==
    ASSUME Basis, NEW i \in Conns, NEW bytes \in Seq(Nat), WriteStep(i, bytes),
           NEW p \in Peers, NEW s \in Sessions, Runs(i, p, s), Ledger(p, s)
    PROVE  Ledger(p, s)'
<1>1. /\ TypeOK /\ EndsKnown /\ Delivered(p, s) /\ Accounted(i, p, s)
      /\ \A r \in Peers : Coming'[r] = Coming[r]
      /\ p = Owner(i) /\ s = conn[i].session /\ s \in Sids /\ RestBut(i)
  BY NetSame, PeersType DEF Basis, SessionsKnown, Ledger, WriteStep, Unmoved, Runs
<1>2. Counts(p, s) /\ Amounts(i) /\ Len(bytes) \in Nat
  BY <1>1, Numbers
<1>3. /\ Acked(p, s)' = Acked(p, s) /\ Arrived(p, s)' = Arrived(p, s)
      /\ hist'[p][s].end = hist[p][s].end
      /\ Packets(p, s)' = Packets(p, s) /\ Answers(i, p)' = Answers(i, p)
      /\ UnderWay(i)' = UnderWay(i) /\ conn'[i].j = conn[i].j
  <2>1. Other(p) \in Peers /\ Other(p) # p
    BY PeersType
  <2>2. Acked(p, s)' = Acked(p, s) /\ hist'[p][s].end = hist[p][s].end
    BY <1>1 DEF WriteStep, Grown, Acked
  <2>3. Arrived(p, s)' = Arrived(p, s)
    BY <1>1, <2>1 DEF WriteStep, Grown, Only, Arrived
  <2>4. Packets(p, s)' = Packets(p, s)
    BY <1>1, <2>1 DEF Packets
  <2>5. UnderWay(i)' = UnderWay(i) /\ conn'[i].j = conn[i].j
    BY DEF WriteStep, UnderWay
  <2>6. Answers(i, p)' = Answers(i, p)
    BY <1>1, <2>5 DEF Answers
  <2> QED
    BY <2>2, <2>3, <2>4, <2>5, <2>6
<1>4. Sent(p, s)' = Sent(p, s) + Len(bytes) /\ Unsent(i)' = Unsent(i) + Len(bytes)
  <2>1. hist[p][s].sent \in Seq(Nat) /\ conn[i].sendbuf \in Seq(Nat)
    BY <1>1, FieldTypes
  <2>2. Len(hist[p][s].sent \o bytes) = Len(hist[p][s].sent) + Len(bytes)
    BY <2>1
  <2>3. Len(conn[i].sendbuf \o bytes) = Len(conn[i].sendbuf) + Len(bytes)
    BY <2>1
  <2> QED
    BY <1>1, <2>2, <2>3 DEF WriteStep, Grown, Sent, Unsent
<1>5. hist[p][s].end = "open"
  BY <1>1 DEF EndsKnown, WriteStep
<1>6. Delivered(p, s)'
  BY <1>1, <1>2, <1>3, <1>4, <1>5 DEF Delivered, Counts, Finished
<1>7. Accounted(i, p, s)'
  BY <1>1, <1>2, <1>3, <1>4, SMTT(30) DEF Accounted, Counts, Amounts
<1> QED
  BY <1>1, <1>6, <1>7, OwnLedger

LEMMA WriteLedgers ==
    ASSUME Basis, Ledgers, NEW i \in Conns, NEW bytes \in Seq(Nat), WriteStep(i, bytes)
    PROVE  Ledgers'
<1> SUFFICES ASSUME NEW r \in Peers, NEW t \in Sessions PROVE Ledger(r, t)'
  BY DEF Ledgers
<1>1. /\ TypeOK /\ EndsKnown /\ Owner(i) \in Peers /\ conn[i].session \in Sessions
      /\ Sessions \subseteq Sids
  BY PeersType, ActiveSession DEF Basis, SessionsKnown, WriteStep
<1>2. CASE r = Owner(i) /\ t = conn[i].session
  BY <1>2, OwnWrite DEF Ledgers, WriteStep, Runs
<1>3. CASE r # Owner(i) \/ t # conn[i].session
  <2>1. SameCount(r, t)
    BY <1>1, <1>3, OnlyCounts DEF WriteStep, Grown
  <2>2. \A q \in Peers : Coming'[q] = Coming[q]
    BY NetSame DEF WriteStep, Unmoved
  <2>3. Packets(r, t)' = Packets(r, t)
    BY <2>2, PeersType DEF Packets
  <2>4. \A k \in Conns \ {i} : Answers(k, r)' \subseteq Answers(k, r)
    BY <2>2, AnswersKept DEF WriteStep, RestBut, Rests, Keeps
  <2>5. RestBut(i) /\ conn'[i].session = conn[i].session
    BY DEF WriteStep
  <2> QED
    BY <1>3, <2>1, <2>3, <2>4, <2>5, OtherLedgers
<1> QED
  BY <1>2, <1>3


(* A packet is sent when none is under way.                                 *)
LEMMA NoPackets ==
    ASSUME NEW i \in Conns, NEW p, NEW s, Accounted(i, p, s), conn[i].j = NoTask
    PROVE  /\ \A m \in Packets(p, s) : m.data = <<>>
           /\ UnderWay(i) = 0
BY TaskFields DEF Accounted, UnderWay

LEMMA OwnSend ==
    ASSUME Basis, NEW i \in Conns, NEW bytes \in Seq(Nat), NEW m, SendStep(i, bytes, m),
           NEW p \in Peers, NEW s \in Sessions, Runs(i, p, s), Ledger(p, s)
    PROVE  Ledger(p, s)'
<1>1. /\ TypeOK /\ EndsKnown /\ Delivered(p, s) /\ Accounted(i, p, s) /\ RestBut(i)
      /\ p = Owner(i) /\ s = conn[i].session /\ s \in Sids
      /\ Other(p) \in Peers /\ Other(p) # p /\ IdsUsed
  BY PeersType DEF Basis, SessionsKnown, Ids, Ledger, SendStep, Runs
<1>2. Counts(p, s) /\ Amounts(i) /\ Len(bytes) \in Nat /\ Len(m.data) \in Nat
  BY <1>1, Numbers DEF SendStep
<1>3. /\ \A n \in Packets(p, s) : n.data = <<>> /\ Len(n.data) = 0
      /\ UnderWay(i) = 0
  BY <1>1, NoPackets DEF SendStep
<1>4. /\ Data(m) /\ m.session = s
      /\ conn'[i].j = Task("data", m.id) \/ conn'[i].j = Task("deleted", m.id)
      /\ Coming'[p] = Coming[p]
      /\ \/ Coming'[Other(p)] = Coming[Other(p)]
         \/ /\ Coming'[Other(p)] = Coming[Other(p)] \cup {m}
            /\ conn'[i].j = Task("data", m.id)
  BY <1>1 DEF SendStep, Pushed, Unmoved
<1>5. \A n \in Packets(p, s)' :
         n \in Packets(p, s) \/ (n = m /\ conn'[i].j = Task("data", m.id))
  BY <1>4 DEF Packets
<1>6. Answers(i, p)' = {}
  <2>1. m.id = nextId[p] /\ nextId[p] \in Nat
    BY <1>1, IdTypes DEF SendStep
  <2>2. \A a \in Coming[p] : a.kind = "result" => a.id \in Nat /\ a.id < nextId[p]
    BY <1>1, IdTypes DEF IdsUsed, IsSet
  <2>3. \A a \in Coming[p] : a.kind = "result" => a.id # m.id
    BY <2>1, <2>2
  <2> QED
    BY <1>4, <2>3, TaskFields DEF Answers
<1>7. UnderWay(i)' = Len(m.data)
  BY <1>4, TaskFields DEF UnderWay, SendStep
<1>8. /\ Acked(p, s)' = Acked(p, s) /\ Arrived(p, s)' = Arrived(p, s)
      /\ hist'[p][s].end = hist[p][s].end
  BY <1>1 DEF SendStep, Grown, Only, Acked, Arrived
<1>9. Sent(p, s)' = Sent(p, s) + Len(bytes)
  <2>1. hist[p][s].sent \in Seq(Nat)
    BY <1>1, FieldTypes
  <2>2. Len(hist[p][s].sent \o bytes) = Len(hist[p][s].sent) + Len(bytes)
    BY <2>1
  <2> QED
    BY <1>1, <2>2 DEF SendStep, Grown, Sent
<1>10. Len(m.data) + Unsent(i)' = Unsent(i) + Len(bytes)
  BY DEF SendStep, Unsent
<1>11. Unsent(i)' \in Nat
  BY <1>1, <1>2 DEF Unsent, SendStep
<1>12. hist[p][s].end = "open"
  BY <1>1 DEF EndsKnown, SendStep
<1>13. /\ Acked(p, s) <= Arrived(p, s) /\ Arrived(p, s) <= Sent(p, s)
       /\ Acked(p, s) + UnderWay(i) + Unsent(i) = Sent(p, s)
       /\ Arrived(p, s) + Unsent(i) <= Sent(p, s)
  BY <1>1 DEF Delivered, Accounted
<1>14. /\ Sent(p, s) \in Nat /\ Acked(p, s) \in Nat /\ Arrived(p, s) \in Nat
       /\ Unsent(i) \in Nat
  BY <1>2 DEF Counts, Amounts
<1>15. /\ Acked(p, s)' <= Arrived(p, s)' /\ Arrived(p, s)' <= Sent(p, s)'
       /\ Arrived(p, s)' + Len(m.data) <= Sent(p, s)'
       /\ Acked(p, s)' + UnderWay(i)' + Unsent(i)' = Sent(p, s)'
       /\ Arrived(p, s)' + Unsent(i)' <= Sent(p, s)'
       /\ Arrived(p, s)' + Len(m.data) + Unsent(i)' <= Sent(p, s)'
       /\ Arrived(p, s)' + 0 <= Sent(p, s)'
  <2>1. UnderWay(i) = 0 /\ Len(m.data) \in Nat /\ Len(bytes) \in Nat
    BY <1>2, <1>3
  <2>2. Acked(p, s)' = Acked(p, s) /\ Arrived(p, s)' = Arrived(p, s)
    BY <1>8
  <2>3. /\ Acked(p, s)' <= Arrived(p, s)' /\ Arrived(p, s)' <= Sent(p, s)'
        /\ Arrived(p, s)' + 0 <= Sent(p, s)'
    BY <1>9, <1>13, <1>14, <2>1, <2>2
  <2>4. Acked(p, s)' + Len(m.data) + Unsent(i)' = Sent(p, s)'
    <3>1. Acked(p, s) + 0 + Unsent(i) = Sent(p, s)
      BY <1>13, <2>1
    <3>2. Acked(p, s) + Unsent(i) = Sent(p, s)
      BY <1>14, <3>1
    <3>3. Sent(p, s)' = Acked(p, s) + (Len(m.data) + Unsent(i)')
      BY <1>9, <1>10, <1>14, <2>1, <3>2
    <3> QED
      BY <1>11, <1>14, <2>1, <2>2, <3>3
  <2>5. /\ Arrived(p, s)' + Unsent(i)' <= Sent(p, s)'
        /\ Arrived(p, s)' + Len(m.data) + Unsent(i)' <= Sent(p, s)'
        /\ Arrived(p, s)' + Len(m.data) <= Sent(p, s)'
    BY <1>9, <1>10, <1>11, <1>13, <1>14, <2>1, <2>2
  <2> QED
    BY <1>7, <2>3, <2>4, <2>5
<1>16. Delivered(p, s)'
  <2>1. \A n \in Packets(p, s)' : Arrived(p, s)' + Len(n.data) <= Sent(p, s)'
    BY <1>3, <1>5, <1>15
  <2>2. \A k, n \in Packets(p, s)' : k.data # <<>> /\ n.data # <<>> => k.id = n.id
    BY <1>3, <1>5
  <2> QED
    BY <1>8, <1>12, <1>15, <2>1, <2>2 DEF Delivered, Finished
<1>17. Accounted(i, p, s)'
  BY <1>3, <1>4, <1>5, <1>6, <1>15 DEF Accounted
<1> QED
  BY <1>1, <1>16, <1>17, OwnLedger

LEMMA SendLedgers ==
    ASSUME Basis, Ledgers, NEW i \in Conns, NEW bytes \in Seq(Nat), NEW m, SendStep(i, bytes, m)
    PROVE  Ledgers'
<1> SUFFICES ASSUME NEW r \in Peers, NEW t \in Sessions PROVE Ledger(r, t)'
  BY DEF Ledgers
<1>1. /\ TypeOK /\ EndsKnown /\ Owner(i) \in Peers /\ conn[i].session \in Sessions
      /\ Sessions \subseteq Sids
  BY PeersType, ActiveSession DEF Basis, SessionsKnown, SendStep
<1>2. CASE r = Owner(i) /\ t = conn[i].session
  BY <1>2, OwnSend DEF Ledgers, SendStep, Runs
<1>3. CASE r # Owner(i) \/ t # conn[i].session
  <2>1. SameCount(r, t)
    BY <1>1, <1>3, OnlyCounts DEF SendStep, Grown
  <2>2. /\ Data(m) /\ m.session = conn[i].session
        /\ \A q \in Peers : \A n \in Coming'[q] :
             n \in Coming[q] \/ (n = m /\ q = Other(Owner(i)))
    BY PeersType DEF SendStep, Unmoved, Pushed
  <2>3. Packets(r, t)' \subseteq Packets(r, t)
    BY <1>1, <1>3, <2>2, PeersType DEF Packets
  <2>4. \A k \in Conns \ {i} : Answers(k, r)' \subseteq Answers(k, r)
    BY <2>2, AnswersKept DEF SendStep, RestBut, Rests, Keeps, Data
  <2>5. RestBut(i) /\ conn'[i].session = conn[i].session
    BY DEF SendStep
  <2> QED
    BY <1>3, <2>1, <2>3, <2>4, <2>5, OtherLedgers
<1> QED
  BY <1>2, <1>3

(* A connection that is accepted.                                           *)
LEMMA AcceptLedgers ==
    ASSUME Basis, Ledgers, NEW i \in Conns, AcceptStep(i)
    PROVE  Ledgers'
<1> DEFINE m == Result(conn[i].iqId, i)
<1>1. /\ TypeOK /\ EndsKnown /\ ConnectionsOK /\ Starting /\ TasksMatch
      /\ i \in Sessions /\ conn[i].session = i /\ conn[i].st = "WaitingForAccept"
      /\ Owner(i) = Acceptor
  BY PeersType DEF Basis, SessionsKnown, EndsKnown, Ids, AcceptStep
<1>2. conn[i].j = NoTask /\ conn[i].sendbuf = <<>>
  BY <1>1 DEF ConnectionsOK, ConnectionOK, Quiet, HasWork
<1>3. m.kind = "result" /\ m.id = conn[i].iqId
  BY StanzaFields
<1>4. \A q \in Peers : \A n \in Coming'[q] :
        n \in Coming[q] \/ (q = Requester /\ n = m)
  BY PeersType DEF AcceptStep, Unmoved, Pushed
<1>5. \A k \in Conns \ {i} : conn[k].st = "Active" =>
        Answers(k, Owner(k))' \subseteq Answers(k, Owner(k))
  <2>1. conn[0].j # Task("data", m.id)
    BY <1>1, <1>3 DEF TasksMatch
  <2>2. \A k \in Conns : Owner(k) = Requester => k = 0
    BY PeersType
  <2> HIDE DEF m
  <2>3. \A k \in Conns : \A a \in Coming'[Owner(k)] :
          a.kind = "result" /\ conn[k].j = Task("data", a.id) => a \in Coming[Owner(k)]
    BY <1>4, <2>1, <2>2, PeersType
  <2> QED
    BY <2>3, AnswersKept, PeersType DEF AcceptStep, RestBut, Rests, Keeps
<1>6. Silent(Owner(i), i)
  BY <1>1 DEF Starting
<1>7. \A q \in Peers : \A n \in Coming'[q] : Data(n) => n \in Coming[q]
  BY <1>3, <1>4 DEF Data
<1> HIDE DEF m
<1>8. /\ hist' = hist /\ conn'[i].session = i /\ conn'[i].j = NoTask
      /\ conn'[i].sendbuf = <<>> /\ RestBut(i)
  BY <1>1, <1>2 DEF AcceptStep
<1> QED
  BY <1>1, <1>5, <1>6, <1>7, <1>8, FreshLedgers

LEMMA AcceptedLedgers ==
    ASSUME Basis, Ledgers, AcceptedStep
    PROVE  Ledgers'
<1> DEFINE m == Head(net[Requester])
<1>1. /\ TypeOK /\ EndsKnown /\ Starting /\ TasksMatch
      /\ 0 \in Conns /\ Owner(0) = Requester /\ m \in Coming[Requester] /\ m.kind = "result"
      /\ conn[0].j = Task("request", m.id) /\ conn[0].st = "Requesting"
  BY PeersType DEF Basis, SessionsKnown, Ids, AcceptedStep, Popped
<1>2. m.session = nSessions /\ nSessions \in Sessions
  <2>1. nSessions > 0 /\ nSessions \in Sids
    BY <1>1, FieldTypes DEF EndsKnown
  <2> QED
    BY <1>1, <2>1 DEF TasksMatch, Sessions
<1>3. Silent(Owner(0), nSessions)
  BY <1>1 DEF Starting
<1>4. \A q \in Peers : Coming'[q] \subseteq Coming[q]
  BY PeersType DEF AcceptedStep, Unmoved, Popped
<1>5. \A k \in Conns \ {0} : Answers(k, Owner(k))' \subseteq Answers(k, Owner(k))
  BY <1>4, AnswersKept, PeersType DEF AcceptedStep, RestBut, Rests, Keeps
<1>6. /\ hist' = hist /\ conn'[0].session = nSessions /\ conn'[0].j = NoTask
      /\ conn'[0].sendbuf = <<>> /\ RestBut(0) /\ conn[0].st # "Active"
  BY <1>1, <1>2 DEF AcceptedStep
<1> HIDE DEF m
<1> QED
  BY <1>1, <1>2, <1>3, <1>4, <1>5, <1>6, FreshLedgers


(* The steps that end streams of one end: nothing comes of a full packet    *)
(* but from a request that gives the old use of the object up.              *)
Small(f, i) ==
    \/ f.data = <<>>
    \/ conn[i].j = NoTask /\ Len(f.data) \in Nat /\ Len(f.data) <= Unsent(i)

LEMMA LastPacket ==
    ASSUME Basis, NEW i \in Conns, RestBut(i), conn'[i].st # "Active",
           NEW p \in Peers, NEW s \in Sessions, Runs(i, p, s), Ledger(p, s), SameCount(p, s),
           NEW f, \A n \in Packets(p, s)' : n \in Packets(p, s) \/ n = f,
           Small(f, i)
    PROVE  Ledger(p, s)'
<1>1. TypeOK /\ EndsKnown /\ Delivered(p, s) /\ Accounted(i, p, s) /\ s \in Sids
  BY PeersType DEF Basis, SessionsKnown, Ledger
<1>2. Counts(p, s) /\ Amounts(i)
  BY <1>1, Numbers
<1>3. /\ Sent(p, s) \in Nat /\ Arrived(p, s) \in Nat /\ Unsent(i) \in Nat
      /\ Arrived(p, s) + Unsent(i) <= Sent(p, s) /\ Arrived(p, s) <= Sent(p, s)
  BY <1>1, <1>2 DEF Counts, Amounts, Delivered, Accounted
<1>4. Arrived(p, s) + Len(f.data) <= Sent(p, s)
  <2>1. CASE f.data = <<>>
    BY <1>3, <2>1
  <2>2. CASE Len(f.data) \in Nat /\ Len(f.data) <= Unsent(i)
    BY <1>3, <2>2
  <2> QED
    BY <2>1, <2>2 DEF Small
<1>5. \A k, n \in Packets(p, s)' : k.data # <<>> /\ n.data # <<>> => k.id = n.id
  <2>1. CASE f.data = <<>>
    BY <1>1, <2>1 DEF Delivered
  <2>2. CASE conn[i].j = NoTask
    BY <1>1, <2>2, NoPackets
  <2> QED
    BY <2>1, <2>2 DEF Small
<1>6. Delivered(p, s)'
  BY <1>1, <1>4, <1>5 DEF Delivered, SameCount
<1>7. ~Runs(i, p, s)'
  BY DEF Runs
<1> QED
  BY <1>1, <1>6, <1>7, OwnLedger

LEMMA CloseLedgers ==
    ASSUME Basis, Ledgers, NEW i \in Conns, CloseStep(i)
    PROVE  Ledgers'
<1> SUFFICES ASSUME NEW r \in Peers, NEW t \in Sessions PROVE Ledger(r, t)'
  BY DEF Ledgers
<1> DEFINE f == Goodbye(i)
<1>1. /\ TypeOK /\ EndsKnown /\ Owner(i) \in Peers /\ conn[i].session \in Sessions
      /\ Sessions \subseteq Sids
  BY PeersType, ActiveSession DEF Basis, SessionsKnown, CloseStep
<1>2. SameCount(r, t)
  BY <1>1, SameCounts DEF CloseStep
<1>3. Data(f) /\ f.session = conn[i].session /\ f.data = <<>>
  BY DEF Goodbye, Stanza, Data
<1>4. \A q \in Peers : \A n \in Coming'[q] :
        n \in Coming[q] \/ (n = f /\ q = Other(Owner(i)))
  BY PeersType DEF CloseStep, Unmoved, Pushed
<1> HIDE DEF f
<1>5. RestBut(i) /\ conn'[i].st # "Active"
  BY DEF CloseStep, Stops
<1>6. CASE r = Owner(i) /\ t = conn[i].session
  <2>1. Runs(i, r, t)
    BY <1>6 DEF Runs, CloseStep
  <2>2. \A n \in Packets(r, t)' : n \in Packets(r, t) \/ n = f
    BY <1>4, PeersType DEF Packets
  <2> QED
    <3>1. Ledger(r, t) /\ Small(f, i)
      BY <1>3 DEF Ledgers, Small
    <3> QED
      BY <1>2, <1>5, <2>1, <2>2, <3>1, LastPacket
<1>7. CASE r # Owner(i) \/ t # conn[i].session
  <2>1. Packets(r, t)' \subseteq Packets(r, t)
    BY <1>1, <1>3, <1>4, <1>7, PeersType DEF Packets
  <2>2. \A k \in Conns \ {i} : Answers(k, r)' \subseteq Answers(k, r)
    BY <1>3, <1>4, <1>5, AnswersKept DEF RestBut, Rests, Keeps, Data
  <2> QED
    BY <1>2, <1>5, <2>1, <2>2, OtherLedgers
<1> QED
  BY <1>6, <1>7

LEMMA ConnectLedgers ==
    ASSUME Basis, Ledgers, NEW before, NEW m, ConnectStep(before, m)
    PROVE  Ledgers'
<1> SUFFICES ASSUME NEW r \in Peers, NEW t \in Sessions PROVE Ledger(r, t)'
  BY DEF Ledgers
<1>1. /\ TypeOK /\ EndsKnown /\ Sessions \subseteq Sids /\ nSessions \in Sids
      /\ 0 \in Conns /\ Owner(0) = Requester /\ Requester \in Peers
  BY PeersType, FieldTypes DEF Basis, SessionsKnown
<1>2. SameCount(r, t)
  <2>1. CASE hist' = hist
    BY <1>1, <2>1, SameCounts
  <2>2. CASE hist' # hist
    <3>1. \E how : how # "delayedCloseFinished" /\ Ended(Requester, nSessions, how)
      <4>1. CASE conn[0].st = "Active" /\ conn[0].sendbuf = <<>>
        BY <2>2, <4>1 DEF ConnectStep
      <4>2. CASE ~(conn[0].st = "Active" /\ conn[0].sendbuf = <<>>)
        BY <2>2, <4>2 DEF ConnectStep
      <4> QED
        BY <4>1, <4>2
    <3> QED
      BY <1>1, <3>1, SameCounts
  <2> QED
    BY <2>1, <2>2
<1>3. /\ Coming'[Acceptor] = Coming[Acceptor] \cup before \cup {m}
      /\ Coming'[Requester] = Coming[Requester] /\ m.kind = "request"
  BY DEF ConnectStep, Unmoved
<1>4. \A f \in before : Farewell(f)
  BY DEF ConnectStep
<1>5. RestBut(0) /\ conn'[0].st # "Active"
  BY DEF ConnectStep
<1>6. \A k \in Conns \ {0} : Answers(k, r)' \subseteq Answers(k, r)
  <2>1. \A k \in Conns \ {0} : conn'[k].j = conn[k].j
    BY <1>5 DEF RestBut, Rests, Keeps
  <2>2. \A q \in Peers : \A a \in Coming'[q] : a.kind = "result" => a \in Coming[q]
    BY <1>3, <1>4 DEF Farewell, Data, Peers
  <2> QED
    BY <2>1, <2>2, AnswersKept
<1>7. \A n \in Packets(r, t)' : n \in Packets(r, t) \/ (n \in before /\ Runs(0, r, t))
  <2>1. CASE r = Requester
    BY <1>1, <1>3, <1>4, <2>1, PeersType DEF Packets, Farewell, Data, Runs
  <2>2. CASE r = Acceptor
    BY <1>3, <2>2, PeersType DEF Packets
  <2> QED
    BY <2>1, <2>2 DEF Peers
<1>8. CASE Runs(0, r, t) /\ before # {}
  <2>1. PICK f \in Stanzas : before = {f} /\ Farewell(f)
    BY <1>8 DEF ConnectStep
  <2>2. Small(f, 0)
    BY <2>1 DEF Farewell, Unsent, Small
  <2>3. \A n \in Packets(r, t)' : n \in Packets(r, t) \/ n = f
    BY <1>7, <2>1
  <2> QED
    BY <1>1, <1>2, <1>5, <1>8, <2>2, <2>3, LastPacket DEF Ledgers
<1>9. CASE ~(Runs(0, r, t) /\ before # {})
  <2>1. Packets(r, t)' \subseteq Packets(r, t)
    BY <1>7, <1>9
  <2> QED
    BY <1>1, <1>2, <1>5, <1>6, <2>1, OtherLedgers
<1> QED
  BY <1>8, <1>9

(* The steps that take something from the net, or an end off it, and leave  *)
(* what was written and what has arrived alone.                             *)
LEMMA SilentLedgers ==
    ASSUME Basis, Ledgers, NEW p \in Peers,
           \/ \E s \in Sessions : TakeRequestStep(s)
           \/ \E i \in Conns : FailStep(p, i)
           \/ RepulseStep(p) \/ DiscardStep(p) \/ OfflineStep(p)
    PROVE  Ledgers'
<1>1. TypeOK /\ EndsKnown /\ Sessions \subseteq Sids /\ nSessions \in Sids
  BY PeersType, FieldTypes DEF Basis, SessionsKnown
<1>2. \A r \in Peers, t \in Sessions : SameCount(r, t)
  <2>1. CASE hist' = hist
    BY <1>1, <2>1, SameCounts
  <2>2. ASSUME NEW i \in Conns, FailStep(p, i)
        PROVE  \A r \in Peers, t \in Sessions : SameCount(r, t)
    <3>1. conn[i].session \in Sids
      BY <1>1, FieldTypes
    <3> QED
      BY <1>1, <2>2, <3>1, SameCounts DEF FailStep
  <2>3. CASE OfflineStep(p)
    <3>1. \A q \in Peers, t \in Sids :
            /\ hist'[q][t].sent = hist[q][t].sent /\ hist'[q][t].got = hist[q][t].got
            /\ hist'[q][t].acked = hist[q][t].acked
            /\ hist'[q][t].end = "delayedCloseFinished" => hist[q][t].end = "delayedCloseFinished"
            /\ hist'[q][t].hasty = hist[q][t].hasty
      BY <2>3 DEF OfflineStep
    <3> QED
      BY <1>1, <3>1, PeersType DEF SameCount, Sent, Acked, Arrived, Finished
  <2> QED
    BY <2>1, <2>2, <2>3 DEF TakeRequestStep, RepulseStep, DiscardStep
<1>3. \A q \in Peers : \A a \in Coming'[q] : Data(a) \/ a.kind = "result" => a \in Coming[q]
  <2>1. CASE RepulseStep(p)
    BY <2>1, PeersType, StanzaFields DEF RepulseStep, Popped, Pushed, Data
  <2>2. CASE OfflineStep(p)
    BY <2>2, NetSame DEF OfflineStep, Unmoved
  <2> QED
    BY <2>1, <2>2, PeersType DEF TakeRequestStep, FailStep, DiscardStep, Popped, Unmoved
<1>4. \A k \in Conns : Rests(k) \/ conn'[k].st # "Active"
  <2>1. CASE conn' = conn
    BY <2>1 DEF Rests, Keeps, Settles
  <2>2. CASE \E s \in Sessions : TakeRequestStep(s)
    BY <2>2 DEF TakeRequestStep, RestBut
  <2>3. CASE \E i \in Conns : FailStep(p, i)
    BY <2>3 DEF FailStep, RestBut, Stops
  <2>4. CASE OfflineStep(p)
    BY <2>4 DEF OfflineStep, Stops
  <2> QED
    BY <2>1, <2>2, <2>3, <2>4 DEF RepulseStep, DiscardStep
<1>5. \A k \in Conns : conn'[k].st = "Active" =>
        /\ conn[k].st = "Active" /\ conn'[k].session = conn[k].session /\ SameBuffer(k)
        /\ Answers(k, Owner(k))' \subseteq Answers(k, Owner(k))
  <2>1. TAKE k \in Conns
  <2>2. HAVE conn'[k].st = "Active"
  <2>3. Rests(k) /\ SameBuffer(k)
    BY <1>4, <2>2, SameCounts
  <2>4. Answers(k, Owner(k))' \subseteq Answers(k, Owner(k))
    BY <1>3, <2>3, AnswersKept, PeersType DEF Rests, Keeps
  <2> QED
    BY <2>2, <2>3, <2>4 DEF Rests, Keeps
<1> QED
  BY <1>2, <1>3, <1>5, LedgersKept


(* A packet arrives: the one that is under way, or an empty one.            *)
LEMMA SenderTakes ==
    ASSUME Basis, TypeOK', NEW q \in Peers, NEW k \in Conns, TakeDataStep(q, k),
           NEW p \in Peers, p = Other(q), NEW s \in Sessions, s = conn[k].session,
           Ledger(p, s)
    PROVE  Ledger(p, s)'
<1> DEFINE m == Head(net[q])
<1>1. /\ TypeOK /\ EndsKnown /\ IdsDistinct /\ TasksMatch /\ s \in Sids
      /\ q # p /\ q = Other(p) /\ Delivered(p, s) /\ RestBut(k) /\ Owner(k) = q
      /\ m \in Packets(p, s) /\ Data(m)
  BY PeersType DEF Basis, SessionsKnown, Ids, Ledger, TakeDataStep, Packets, Popped, Runs
<1>2. Counts(p, s) /\ Len(m.data) \in Nat /\ m.data \in Seq(Nat)
  BY <1>1, Numbers, IdTypes DEF Counts
<1>3. /\ Sent(p, s)' = Sent(p, s) /\ Acked(p, s)' = Acked(p, s)
      /\ Finished(p, s)' = Finished(p, s)
  BY <1>1 DEF TakeDataStep, Only, Sent, Acked, Finished
<1>4. Arrived(p, s)' = Arrived(p, s) + Len(m.data)
  <2>1. hist[q][s].got \in Seq(Nat)
    BY <1>1, FieldTypes
  <2>2. Len(hist[q][s].got \o m.data) = Len(hist[q][s].got) + Len(m.data)
    BY <1>2, <2>1
  <2> QED
    BY <1>1, <2>2 DEF TakeDataStep, Arrived
<1>5. \A n \in Packets(p, s)' :
        /\ n \in Packets(p, s)
        /\ m.data # <<>> => n.data = <<>>
        /\ n.data # <<>> => m.data = <<>>
  <2>1. TAKE n \in Packets(p, s)'
  <2>2. n \in Packets(p, s) /\ n \in Coming'[q] /\ IsSet(n)
    BY <1>1 DEF TakeDataStep, Popped, Packets, Data, IsSet
  <2>3. n.id # m.id
    BY <1>1, <2>2, HeadAlone DEF TakeDataStep, Data, IsSet
  <2> QED
    BY <1>1, <2>2, <2>3 DEF Delivered
<1>6. m.data = <<>> => Len(m.data) = 0
  OBVIOUS
<1>7. /\ Sent(p, s) \in Nat /\ Acked(p, s) \in Nat /\ Arrived(p, s) \in Nat
      /\ Acked(p, s) <= Arrived(p, s) /\ Arrived(p, s) <= Sent(p, s)
      /\ Arrived(p, s) + Len(m.data) <= Sent(p, s)
  BY <1>1, <1>2 DEF Counts, Delivered
<1>8. Delivered(p, s)'
  <2>1. Acked(p, s)' <= Arrived(p, s)' /\ Arrived(p, s)' <= Sent(p, s)'
    BY <1>2, <1>3, <1>4, <1>7
  <2>2. Finished(p, s)' => Arrived(p, s)' = Sent(p, s)'
    <3>1. Finished(p, s) => Arrived(p, s) = Sent(p, s)
      BY <1>1 DEF Delivered
    <3> QED
      BY <1>2, <1>3, <1>4, <1>7, <3>1
  <2>3. \A n \in Packets(p, s)' : Arrived(p, s)' + Len(n.data) <= Sent(p, s)'
    <3>1. CASE m.data = <<>>
      <4>1. Arrived(p, s)' = Arrived(p, s)
        BY <1>4, <1>6, <1>7, <3>1
      <4> QED
        BY <1>1, <1>3, <1>5, <4>1 DEF Delivered
    <3>2. CASE m.data # <<>>
      <4>1. \A n \in Packets(p, s)' : n.data = <<>> /\ Len(n.data) = 0
        BY <1>5, <3>2
      <4>2. Arrived(p, s)' + 0 <= Sent(p, s)'
        BY <1>2, <1>3, <1>4, <1>7
      <4> QED
        BY <4>1, <4>2
    <3> QED
      BY <3>1, <3>2
  <2>4. \A n, l \in Packets(p, s)' : n.data # <<>> /\ l.data # <<>> => n.id = l.id
    BY <1>1, <1>5 DEF Delivered
  <2> QED
    BY <2>1, <2>2, <2>3, <2>4 DEF Delivered
<1>9. ASSUME NEW i \in Conns, Runs(i, p, s)'
      PROVE  Accounted(i, p, s)'
  <2>1. i # k /\ Runs(i, p, s) /\ Rests(i) /\ SameBuffer(i) /\ Accounted(i, p, s)
    BY <1>1, <1>9, SameCounts DEF RestBut, Rests, Keeps, Runs, Ledger
  <2>2. Unsent(i) \in Nat /\ UnderWay(i) \in Nat
    BY <1>1, Numbers DEF Amounts
  <2>3. /\ Acked(p, s) + UnderWay(i) + Unsent(i) = Sent(p, s)
        /\ Arrived(p, s) + Unsent(i) <= Sent(p, s)
        /\ m.data # <<>> => Arrived(p, s) + Len(m.data) + Unsent(i) <= Sent(p, s)
    BY <1>1, <2>1 DEF Accounted
  <2>4. Arrived(p, s)' + Unsent(i) <= Sent(p, s)
    <3>1. CASE m.data = <<>>
      BY <1>4, <1>6, <1>7, <2>2, <2>3, <3>1
    <3>2. CASE m.data # <<>>
      BY <1>4, <2>3, <3>2
    <3> QED
      BY <3>1, <3>2
  <2>5. Answers(i, p)' # {} => Acked(p, s) + UnderWay(i) <= Arrived(p, s)'
    <3>1. CASE Answers(i, p)' \subseteq Answers(i, p)
      <4>1. Answers(i, p) # {} => Acked(p, s) + UnderWay(i) <= Arrived(p, s)
        BY <2>1 DEF Accounted
      <4>2. Arrived(p, s) <= Arrived(p, s)' /\ Arrived(p, s)' \in Nat
        BY <1>2, <1>4, <1>7
      <4>3. Answers(i, p) # {} => Acked(p, s) + UnderWay(i) <= Arrived(p, s)'
        BY <1>7, <2>2, <4>1, <4>2
      <4> QED
        BY <3>1, <4>3
    <3>2. CASE ~(Answers(i, p)' \subseteq Answers(i, p))
      <4>1. conn[i].j = Task("data", m.id)
        <5>1. PICK a \in Coming'[p] : a.kind = "result" /\ conn[i].j = Task("data", a.id)
                                      /\ a \notin Coming[p]
          BY <2>1, <3>2, AnswersKept DEF SameBuffer
        <5>2. a = Result(m.id, 0)
          BY <1>1, <5>1, PeersType DEF TakeDataStep, Pushed
        <5> QED
          BY <5>1, <5>2, StanzaFields
      <4>2. Len(m.data) = conn[i].blockSize
        BY <1>1, <2>1, <4>1, PeersType DEF TasksMatch, Runs, Packets, Data, IsSet
      <4>3. UnderWay(i) = Len(m.data)
        BY <4>1, <4>2, TaskFields DEF UnderWay
      <4> QED
        BY <1>2, <1>4, <1>7, <4>3
    <3> QED
      BY <3>1, <3>2
  <2>6. \A n \in Packets(p, s)' : n.data # <<>> =>
          /\ conn[i].j = Task("data", n.id)
          /\ Arrived(p, s)' + Len(n.data) + Unsent(i) <= Sent(p, s)
    <3>1. TAKE n \in Packets(p, s)'
    <3>2. HAVE n.data # <<>>
    <3>3. Arrived(p, s)' = Arrived(p, s)
      BY <1>4, <1>5, <1>6, <1>7, <3>2
    <3> QED
      BY <1>5, <2>1, <3>2, <3>3 DEF Accounted
  <2> QED
    BY <1>3, <2>1, <2>3, <2>4, <2>5, <2>6 DEF Accounted, SameBuffer
<1> QED
  BY <1>8, <1>9 DEF Ledger

LEMMA TakeDataLedgers ==
    ASSUME Basis, TypeOK', Ledgers, NEW q \in Peers, NEW k \in Conns, TakeDataStep(q, k)
    PROVE  Ledgers'
<1> DEFINE m == Head(net[q])
           s == conn[k].session
<1>1. /\ TypeOK /\ EndsKnown /\ TasksMatch /\ s \in Sessions /\ Owner(k) = q
      /\ Sessions \subseteq Sids /\ RestBut(k) /\ conn'[k].session = s
      /\ m \in Coming[q] /\ Data(m) /\ m.session = s
  BY PeersType, ActiveSession DEF Basis, SessionsKnown, Ids, TakeDataStep, Popped, Runs, Keeps
<1>2. \A u \in Peers : \A n \in Coming'[u] :
        n \in Coming[u] \/ (n = Result(m.id, 0) /\ u = Other(q))
  <2>1. Coming'[q] \subseteq Coming[q]
    BY DEF TakeDataStep, Popped
  <2>2. Coming'[Other(q)] = Coming[Other(q)] \cup {Result(m.id, 0)}
    BY DEF TakeDataStep, Pushed
  <2>3. \A u \in Peers : u = q \/ u = Other(q)
    BY PeersType
  <2> QED
    BY <2>1, <2>2, <2>3
<1>3. Result(m.id, 0).kind = "result" /\ Result(m.id, 0).id = m.id
  BY StanzaFields
<1> SUFFICES ASSUME NEW r \in Peers, NEW t \in Sessions PROVE Ledger(r, t)'
  BY DEF Ledgers
<1>4. CASE r = Other(q) /\ t = s
  BY <1>1, <1>4, SenderTakes DEF Ledgers
<1>5. CASE ~(r = Other(q) /\ t = s)
  <2>1. SameCount(r, t)
    <3>1. r # q \/ t # s => hist'[r][t] = hist[r][t]
      BY <1>1 DEF TakeDataStep, Only
    <3>2. Other(r) \in Peers /\ (Other(r) # q \/ t # s)
      BY <1>5, PeersType
    <3>3. hist'[Other(r)][t] = hist[Other(r)][t]
      BY <1>1, <3>2 DEF TakeDataStep, Only
    <3>4. r = q /\ t = s =>
            /\ hist'[r][t].sent = hist[r][t].sent /\ hist'[r][t].acked = hist[r][t].acked
            /\ hist'[r][t].end = hist[r][t].end /\ hist'[r][t].hasty = hist[r][t].hasty
      BY DEF TakeDataStep
    <3> QED
      BY <3>1, <3>3, <3>4 DEF SameCount, Sent, Acked, Arrived, Finished
  <2>2. Packets(r, t)' \subseteq Packets(r, t)
    BY <1>2, <1>3, PeersType DEF Packets, Data
  <2>3. \A i \in Conns : Runs(i, r, t) /\ conn'[i].j = conn[i].j => Answers(i, r)' \subseteq Answers(i, r)
    <3>1. TAKE i \in Conns
    <3>2. HAVE Runs(i, r, t) /\ conn'[i].j = conn[i].j
    <3>3. r = Other(q) => conn[i].j # Task("data", m.id)
      BY <1>1, <1>5, <3>2, PeersType DEF TasksMatch, Runs, Data, IsSet
    <3> QED
      BY <1>2, <1>3, <3>2, <3>3, AnswersKept
  <2>4. \A i \in Conns : Runs(i, r, t)' => Runs(i, r, t) /\ Keeps(i)
    BY <1>1 DEF TakeDataStep, RestBut, Rests, Keeps, Runs
  <2> QED
    BY <2>1, <2>2, <2>3, <2>4, SameCounts, LedgerKept DEF Ledgers, Rests, Keeps
<1> QED
  BY <1>4, <1>5

(* The packet under way is acknowledged: it is not on its way any more.     *)
LEMMA SenderAcks ==
    ASSUME Basis, NEW p \in Peers, NEW i \in Conns, AckStep(p, i),
           NEW s \in Sessions, s = conn[i].session, Ledger(p, s)
    PROVE  Ledger(p, s)'
<1> DEFINE a == Head(net[p])
<1>1. /\ TypeOK /\ EndsKnown /\ IdsDistinct /\ s \in Sids /\ Runs(i, p, s) /\ RestBut(i)
      /\ Delivered(p, s) /\ Accounted(i, p, s) /\ a \in Coming[p] /\ ~IsSet(a)
      /\ conn[i].j = Task("data", a.id) /\ a \in Answers(i, p)
      /\ Other(p) \in Peers /\ Other(p) # p
  BY PeersType DEF Basis, SessionsKnown, Ids, Ledger, AckStep, Popped, Answers, IsSet
<1>2. Counts(p, s) /\ Amounts(i) /\ UnderWay(i) = conn[i].blockSize
  BY <1>1, Numbers, TaskFields DEF UnderWay
<1>3. \A n \in Packets(p, s) : n.data = <<>>
  <2>1. \A n \in Packets(p, s) : n.id # a.id
    BY <1>1, PeersType DEF IdsDistinct, Packets, Data, IsSet
  <2>2. \A n \in Packets(p, s) : n.data # <<>> => n.id = a.id
    BY <1>1, TaskFields DEF Accounted
  <2> QED
    BY <2>1, <2>2
<1>4. /\ Sent(p, s)' = Sent(p, s) /\ Arrived(p, s)' = Arrived(p, s)
      /\ Acked(p, s)' = Acked(p, s) + UnderWay(i)
      /\ Packets(p, s)' \subseteq Packets(p, s)
  <2>1. Sent(p, s)' = Sent(p, s) /\ Acked(p, s)' = Acked(p, s) + UnderWay(i)
    BY <1>1, <1>2 DEF AckStep, Sent, Acked
  <2>2. Arrived(p, s)' = Arrived(p, s)
    BY <1>1 DEF AckStep, Only, Arrived
  <2>3. Packets(p, s)' \subseteq Packets(p, s)
    BY <1>1 DEF AckStep, Unmoved, Packets
  <2> QED
    BY <2>1, <2>2, <2>3
<1>5. /\ Sent(p, s) \in Nat /\ Acked(p, s) \in Nat /\ Arrived(p, s) \in Nat
      /\ UnderWay(i) \in Nat /\ Unsent(i) \in Nat
      /\ Acked(p, s) + UnderWay(i) + Unsent(i) = Sent(p, s)
      /\ Acked(p, s) + UnderWay(i) <= Arrived(p, s) /\ Arrived(p, s) <= Sent(p, s)
      /\ Arrived(p, s) + Unsent(i) <= Sent(p, s)
  BY <1>1, <1>2 DEF Counts, Amounts, Delivered, Accounted
<1>6. Delivered(p, s)'
  <2>1. hist'[p][s].end = "open"
    BY <1>1 DEF EndsKnown, Runs, AckStep
  <2> QED
    BY <1>1, <1>4, <1>5, <2>1 DEF Delivered, Finished
<1>7. Runs(i, p, s)' => Accounted(i, p, s)'
  <2>1. HAVE Runs(i, p, s)'
  <2>2. conn'[i].j = NoTask /\ conn'[i].sendbuf = conn[i].sendbuf
    BY <1>1, <2>1 DEF AckStep, Runs
  <2>3. UnderWay(i)' = 0 /\ Unsent(i)' = Unsent(i) /\ Answers(i, p)' = {}
    BY <2>2, TaskFields DEF UnderWay, Unsent, Answers
  <2>4. Acked(p, s)' + UnderWay(i)' + Unsent(i)' = Sent(p, s)'
    BY <1>4, <1>5, <2>3
  <2>5. Arrived(p, s)' + Unsent(i)' <= Sent(p, s)'
    BY <1>4, <1>5, <2>3
  <2> QED
    BY <1>3, <1>4, <2>3, <2>4, <2>5 DEF Accounted
<1> QED
  BY <1>1, <1>6, <1>7, OwnLedger

LEMMA AckLedgers ==
    ASSUME Basis, Ledgers, NEW p \in Peers, NEW i \in Conns, AckStep(p, i)
    PROVE  Ledgers'
<1> SUFFICES ASSUME NEW r \in Peers, NEW t \in Sessions PROVE Ledger(r, t)'
  BY DEF Ledgers
<1>1. /\ TypeOK /\ EndsKnown /\ conn[i].session \in Sessions /\ Sessions \subseteq Sids
      /\ RestBut(i) /\ conn'[i].session = conn[i].session /\ Owner(i) = p
  BY PeersType, ActiveSession DEF Basis, SessionsKnown, AckStep, Runs
<1>2. CASE r = p /\ t = conn[i].session
  BY <1>1, <1>2, SenderAcks DEF Ledgers
<1>3. CASE r # p \/ t # conn[i].session
  <2>1. SameCount(r, t)
    BY <1>1, <1>3, OnlyCounts DEF AckStep
  <2>2. \A q \in Peers : Coming'[q] \subseteq Coming[q]
    BY PeersType DEF AckStep, Unmoved, Popped
  <2>3. Packets(r, t)' \subseteq Packets(r, t)
    BY <2>2, PeersType DEF Packets
  <2>4. \A k \in Conns \ {i} : Answers(k, r)' \subseteq Answers(k, r)
    BY <1>1, <2>2, AnswersKept DEF RestBut, Rests, Keeps
  <2> QED
    BY <1>1, <1>3, <2>1, <2>3, <2>4, OtherLedgers
<1> QED
  BY <1>2, <1>3

(* A handler returns and the stream ends: when the close is complete there  *)
(* is nothing in the buffer and no packet under way, unless it was sent in  *)
(* that handler.                                                            *)
LEMMA EndLedgers ==
    ASSUME Basis, Ledgers, NEW i \in Conns, NEW how \in Ends, EndStep(i, how)
    PROVE  Ledgers'
<1> SUFFICES ASSUME NEW r \in Peers, NEW t \in Sessions PROVE Ledger(r, t)'
  BY DEF Ledgers
<1>1. /\ TypeOK /\ EndsKnown /\ Owner(i) \in Peers /\ conn[i].session \in Sessions
      /\ Sessions \subseteq Sids /\ RestBut(i) /\ conn'[i].st # "Active"
      /\ Ended(Owner(i), conn[i].session, how) /\ Closes(i)
      /\ conn[i].st = "Active"
  BY PeersType, ActiveSession DEF Basis, SessionsKnown, EndStep, EndsKnown, Stops
<1>2. \A q \in Peers : Coming'[q] = Coming[q]
  BY NetSame DEF EndStep, Unmoved
<1>3. Packets(r, t)' = Packets(r, t)
  BY <1>2, PeersType DEF Packets
<1>4. CASE r = Owner(i) /\ t = conn[i].session
  <2>1. Runs(i, r, t) /\ Delivered(r, t) /\ Accounted(i, r, t) /\ t \in Sids
    BY <1>1, <1>4 DEF Runs, Ledgers, Ledger
  <2>2. Counts(r, t) /\ Amounts(i)
    BY <1>1, <2>1, Numbers
  <2>3. Sent(r, t)' = Sent(r, t) /\ Acked(r, t)' = Acked(r, t) /\ Arrived(r, t)' = Arrived(r, t)
    <3>1. Other(r) \in Peers /\ Other(r) # r
      BY PeersType
    <3> QED
      BY <1>1, <1>4, <2>1, <3>1 DEF Ended, Only, Sent, Acked, Arrived
  <2>4. Finished(r, t)' => Unsent(i) = 0 /\ UnderWay(i) = 0
    <3>1. HAVE Finished(r, t)'
    <3>2. how = "delayedCloseFinished" /\ ~hist[r][t].hasty
      BY <1>1, <1>4, <3>1 DEF Finished, Ended
    <3>3. conn[i].emits = "bytesWritten" /\ conn[i].closing
      BY <3>2 DEF EndStep
    <3>4. conn[i].sendbuf = <<>> /\ conn[i].j = NoTask
      BY <1>1, <1>4, <3>2, <3>3 DEF Closes
    <3> QED
      BY <3>4 DEF Unsent, UnderWay
  <2>5. Finished(r, t)' => Arrived(r, t) = Sent(r, t)
    <3>1. HAVE Finished(r, t)'
    <3>2. Acked(r, t) + 0 + 0 = Sent(r, t)
      BY <2>1, <2>4, <3>1 DEF Accounted
    <3> QED
      BY <2>1, <2>2, <3>2 DEF Counts, Delivered
  <2>6. Delivered(r, t)'
    BY <1>3, <2>1, <2>3, <2>5 DEF Delivered
  <2>7. ~Runs(i, r, t)'
    BY <1>1 DEF Runs
  <2> QED
    BY <1>1, <2>1, <2>6, <2>7, OwnLedger
<1>5. CASE r # Owner(i) \/ t # conn[i].session
  <2>1. SameCount(r, t)
    BY <1>1, <1>5, OnlyCounts DEF Ended
  <2>2. \A k \in Conns \ {i} : Answers(k, r)' \subseteq Answers(k, r)
    BY <1>1, <1>2, AnswersKept DEF RestBut, Rests, Keeps
  <2> QED
    BY <1>1, <1>3, <2>1, <2>2, OtherLedgers
<1> QED
  BY <1>4, <1>5

LEMMA LedgersStep == Basis /\ Ledgers /\ [Next]_vars => Ledgers'
<1> SUFFICES ASSUME Basis, Ledgers, [Next]_vars PROVE Ledgers'
  OBVIOUS
<1>1. Step /\ TypeOK'
  BY BasisStep DEF Basis
<1>2. CASE RestStep
  BY <1>2, QuietLedgers, PeersType
<1>3. ASSUME NEW i \in Conns, NEW bytes \in Seq(Nat),
             WriteStep(i, bytes) \/ \E m \in Stanzas : SendStep(i, bytes, m)
      PROVE  Ledgers'
  BY <1>3, WriteLedgers, SendLedgers
<1>4. ASSUME NEW i \in Conns,
             \/ AcceptStep(i) \/ RefuseStep(i) \/ CloseStep(i)
             \/ \E how \in Ends : LeaveStep(i, how) \/ EndStep(i, how)
      PROVE  Ledgers'
  BY <1>4, AcceptLedgers, QuietLedgers, CloseLedgers, EndLedgers
<1>5. ASSUME NEW before, NEW m, ConnectStep(before, m)
      PROVE  Ledgers'
  BY <1>5, ConnectLedgers
<1>6. ASSUME NEW p \in Peers, Taken(p) \/ OfflineStep(p)
      PROVE  Ledgers'
  BY <1>1, <1>6, SilentLedgers, TakeDataLedgers, AckLedgers, AcceptedLedgers DEF Taken
<1> QED
  BY <1>1, <1>2, <1>3, <1>4, <1>5, <1>6 DEF Step

LEMMA LedgersInit == Init => Ledgers
<1> SUFFICES ASSUME Init, NEW p \in Peers, NEW s \in Sessions PROVE Ledger(p, s)
  BY DEF Ledgers
<1>1. Other(p) \in Peers /\ s \in Sids
  BY PeersType
<1>2. hist[p][s] = NoHistory /\ hist[Other(p)][s] = NoHistory
  BY <1>1 DEF Init
<1>3. Sent(p, s) = 0 /\ Acked(p, s) = 0 /\ Arrived(p, s) = 0 /\ hist[p][s].end = "open"
  BY <1>2 DEF NoHistory, Sent, Acked, Arrived
<1>4. Packets(p, s) = {}
  <2>1. Coming[Other(p)] = {}
    BY <1>1 DEF Init, Coming
  <2> QED
    BY <2>1 DEF Packets
<1>5. \A i \in Conns : ~Runs(i, p, s)
  BY DEF Init, Fresh, Runs
<1> QED
  BY <1>3, <1>4, <1>5 DEF Ledger, Delivered, Finished

(* bytesWritten() reports no byte that the other end has not taken.         *)
THEOREM AckedDelivered == Spec => []AckedWasDelivered
<1>1. Basis /\ Ledgers => AckedWasDelivered
  BY DEF Ledgers, Ledger, Delivered, AckedWasDelivered, Acked, Arrived
<1> QED
  BY <1>1, BasisInit, BasisStep, LedgersInit, LedgersStep, PTL DEF Spec

(* delayedCloseFinished() is emitted when the other end has everything that *)
(* was written, unless close() was called in the handler of bytesWritten(). *)
THEOREM CloseDelivered == Spec => []CloseFinishedMeansDelivered
<1>1. Basis /\ Ledgers => CloseFinishedMeansDelivered
  BY DEF Ledgers, Ledger, Delivered, CloseFinishedMeansDelivered, Sent, Arrived, Finished
<1> QED
  BY <1>1, BasisInit, BasisStep, LedgersInit, LedgersStep, PTL DEF Spec


-----------------------------------------------------------------------------
(* The order of the bytes.                                                  *)

(* Byte b of a session has the value b; while all of them fit a packet the  *)
(* buffer has the last ones and a packet the next ones to arrive.           *)
From(q, k) == \A b \in 1..Len(q) : q[b] = k + b
Content(p, s) ==
    /\ From(hist[p][s].sent, 0)
    /\ Sent(p, s) <= PacketSize =>
         /\ From(hist[Other(p)][s].got, 0)
         /\ \A i \in Conns : Runs(i, p, s) => From(conn[i].sendbuf, Sent(p, s) - Unsent(i))
         /\ \A m \in Packets(p, s) : From(m.data, Arrived(p, s))
Contents == \A p \in Peers, s \in Sessions : Content(p, s)

LEMMA FromJoin ==
    ASSUME NEW q \in Seq(Nat), NEW r \in Seq(Nat), NEW k \in Nat, NEW n,
           From(q, k), From(r, n), n = k + Len(q)
    PROVE  From(q \o r, k)
<1>1. Len(q) \in Nat /\ Len(r) \in Nat /\ Len(q \o r) = Len(q) + Len(r)
  OBVIOUS
<1>2. SUFFICES ASSUME NEW b \in 1..Len(q \o r) PROVE (q \o r)[b] = k + b
  BY DEF From
<1>3. CASE b <= Len(q)
  <2>1. b \in 1..Len(q) /\ (q \o r)[b] = q[b]
    BY <1>1, <1>3
  <2> QED
    BY <2>1 DEF From
<1>4. CASE ~(b <= Len(q))
  <2>1. b - Len(q) \in 1..Len(r) /\ (q \o r)[b] = r[b - Len(q)]
    BY <1>1, <1>4
  <2>2. r[b - Len(q)] = n + (b - Len(q))
    BY <2>1 DEF From
  <2>3. b \in Nat
    BY <1>1
  <2> QED
    BY <1>1, <2>1, <2>2, <2>3
<1> QED
  BY <1>3, <1>4

LEMMA FromNone == \A k : From(<<>>, k)
<1>1. \A b : b \notin 1..Len(<<>>)
  OBVIOUS
<1> QED
  BY <1>1 DEF From

SameText(p, s) ==
    hist'[p][s].sent = hist[p][s].sent /\ hist'[Other(p)][s].got = hist[Other(p)][s].got

(* Nothing but empty buffers and empty packets come in.                     *)
LEMMA ContentKept ==
    ASSUME NEW p \in Peers, NEW s \in Sessions, Content(p, s), SameText(p, s),
           \A m \in Packets(p, s)' : m \in Packets(p, s) \/ m.data = <<>>,
           \A i \in Conns : Runs(i, p, s)' =>
             \/ conn'[i].sendbuf = <<>>
             \/ Runs(i, p, s) /\ conn'[i].sendbuf = conn[i].sendbuf
    PROVE  Content(p, s)'
<1>1. Sent(p, s)' = Sent(p, s) /\ Arrived(p, s)' = Arrived(p, s)
  BY DEF SameText, Sent, Arrived
<1>2. From(hist[p][s].sent, 0)'
  BY DEF Content, SameText
<1>3. ASSUME Sent(p, s)' <= PacketSize
      PROVE  /\ From(hist'[Other(p)][s].got, 0)
             /\ \A i \in Conns : Runs(i, p, s)' => From(conn'[i].sendbuf, Sent(p, s)' - Unsent(i)')
             /\ \A m \in Packets(p, s)' : From(m.data, Arrived(p, s)')
  <2>1. From(hist'[Other(p)][s].got, 0)
    BY <1>1, <1>3 DEF Content, SameText
  <2>2. ASSUME NEW i \in Conns, Runs(i, p, s)'
        PROVE  From(conn'[i].sendbuf, Sent(p, s)' - Unsent(i)')
    <3>1. CASE conn'[i].sendbuf = <<>>
      BY <3>1, FromNone
    <3>2. CASE Runs(i, p, s) /\ conn'[i].sendbuf = conn[i].sendbuf
      BY <1>1, <1>3, <3>2 DEF Content, Unsent
    <3> QED
      BY <2>2, <3>1, <3>2
  <2>3. ASSUME NEW m \in Packets(p, s)'
        PROVE  From(m.data, Arrived(p, s)')
    BY <1>1, <1>3, <2>3, FromNone DEF Content
  <2> QED
    BY <2>1, <2>2, <2>3
<1> QED
  BY <1>2, <1>3 DEF Content

(* Every step but those that write, send bytes or take them.                *)
PlainStep ==
    \/ RestStep \/ AcceptedStep
    \/ \E s \in Sessions : TakeRequestStep(s)
    \/ \E i \in Conns : AcceptStep(i) \/ (\E how \in Ends : LeaveStep(i, how) \/ EndStep(i, how))
                        \/ RefuseStep(i) \/ CloseStep(i)
    \/ \E p \in Peers : \/ RepulseStep(p) \/ DiscardStep(p) \/ OfflineStep(p)
                        \/ \E i \in Conns : AckStep(p, i) \/ FailStep(p, i)

LEMMA EndedText ==
    ASSUME NEW p \in Peers, NEW s \in Sids, NEW how, Ended(p, s, how)
    PROVE  \A r \in Peers, t \in Sids :
             hist'[r][t].sent = hist[r][t].sent /\ hist'[r][t].got = hist[r][t].got
BY DEF Ended, Only

LEMMA PlainText ==
    ASSUME Basis, PlainStep
    PROVE  \A r \in Peers, t \in Sids :
             hist'[r][t].sent = hist[r][t].sent /\ hist'[r][t].got = hist[r][t].got
<1>1. TypeOK /\ EndsKnown
  BY DEF Basis, SessionsKnown
<1>2. \A i \in Conns : conn[i].session \in Sids /\ SessionOf(i) \in Sids /\ Owner(i) \in Peers
  BY <1>1, FieldTypes, PeersType DEF SessionOf
<1>3. nSessions \in Sids /\ \A i \in Sessions : i \in Sids
  BY <1>1, FieldTypes, PeersType
<1>4. CASE hist' = hist
  BY <1>4
<1>5. CASE \E p \in Peers, s \in Sids : \E how : Ended(p, s, how)
  BY <1>5, EndedText
<1>6. ASSUME NEW p \in Peers, NEW i \in Conns, AckStep(p, i)
      PROVE  \A r \in Peers, t \in Sids :
               hist'[r][t].sent = hist[r][t].sent /\ hist'[r][t].got = hist[r][t].got
  BY <1>2, <1>6 DEF AckStep, Only
<1>7. ASSUME NEW p \in Peers, OfflineStep(p)
      PROVE  \A r \in Peers, t \in Sids :
               hist'[r][t].sent = hist[r][t].sent /\ hist'[r][t].got = hist[r][t].got
  BY <1>7 DEF OfflineStep
<1>8. ASSUME NEW i \in Conns,
             \/ AcceptStep(i) \/ RefuseStep(i) \/ CloseStep(i)
             \/ \E how \in Ends : LeaveStep(i, how) \/ EndStep(i, how)
      PROVE  hist' = hist \/ \E p \in Peers, s \in Sids : \E how : Ended(p, s, how)
  <2>1. AcceptStep(i) => hist' = hist
    BY DEF AcceptStep
  <2>2. ASSUME NEW how \in Ends, LeaveStep(i, how)
        PROVE  Ended(Owner(i), SessionOf(i), how)
    BY <2>2 DEF LeaveStep
  <2>3. RefuseStep(i) => i \in Sids /\ Ended(Acceptor, i, "refused")
    BY <1>3 DEF RefuseStep
  <2>4. CloseStep(i) => Ended(Owner(i), conn[i].session, "closed")
    BY DEF CloseStep
  <2>5. ASSUME NEW how \in Ends, EndStep(i, how)
        PROVE  Ended(Owner(i), conn[i].session, how)
    BY <2>5 DEF EndStep
  <2> QED
    BY <1>2, <1>8, <2>1, <2>2, <2>3, <2>4, <2>5, PeersType
<1>9. ASSUME NEW p \in Peers, NEW i \in Conns, FailStep(p, i)
      PROVE  \E s \in Sids : \E how : Ended(p, s, how)
  BY <1>2, <1>3, <1>9 DEF FailStep
<1>10. ASSUME AcceptedStep \/ (\E s \in Sessions : TakeRequestStep(s))
              \/ (\E p \in Peers : RepulseStep(p) \/ DiscardStep(p))
       PROVE  hist' = hist
  BY <1>10 DEF AcceptedStep, TakeRequestStep, RepulseStep, DiscardStep
<1>11. CASE RestStep
  BY <1>11 DEF RestStep, SameHist, Same
<1> QED
  BY <1>4, <1>5, <1>6, <1>7, <1>8, <1>9, <1>10, <1>11 DEF PlainStep

LEMMA PlainBuffers ==
    ASSUME Basis, PlainStep, NEW k \in Conns, conn'[k].st = "Active"
    PROVE  \/ conn'[k].sendbuf = <<>>
           \/ /\ conn[k].st = "Active" /\ conn'[k].session = conn[k].session
              /\ conn'[k].sendbuf = conn[k].sendbuf
<1>1. ConnectionsOK
  BY DEF Basis
<1>2. CASE Rests(k)
  BY <1>2 DEF Rests, Keeps
<1>3. CASE conn' = conn
  BY <1>3
<1>4. ASSUME NEW i \in Conns,
             \/ AcceptStep(i) \/ (\E how \in Ends : LeaveStep(i, how) \/ EndStep(i, how))
             \/ RefuseStep(i) \/ CloseStep(i)
             \/ \E p \in Peers : AckStep(p, i) \/ FailStep(p, i)
             \/ (i \in Sessions /\ TakeRequestStep(i)) \/ (i = 0 /\ AcceptedStep)
      PROVE  \/ Rests(k)
             \/ conn'[k].sendbuf = <<>>
             \/ /\ conn[k].st = "Active" /\ conn'[k].session = conn[k].session
                /\ conn'[k].sendbuf = conn[k].sendbuf
  <2>1. CASE k # i
    BY <1>4, <2>1
       DEF RestBut, AcceptStep, LeaveStep, EndStep, RefuseStep, CloseStep, AckStep, FailStep,
           TakeRequestStep, AcceptedStep
  <2>2. CASE k = i
    <3>1. CASE AcceptStep(i)
      BY <1>1, <2>2, <3>1 DEF AcceptStep, ConnectionsOK, ConnectionOK, Quiet, HasWork
    <3>2. CASE \E p \in Peers : AckStep(p, i)
      BY <2>2, <3>2 DEF AckStep, Runs
    <3>3. CASE ~AcceptStep(i) /\ ~\E p \in Peers : AckStep(p, i)
      BY <1>4, <2>2, <3>3
         DEF LeaveStep, EndStep, RefuseStep, CloseStep, FailStep, Stops, TakeRequestStep,
             AcceptedStep
    <3> QED
      BY <3>1, <3>2, <3>3
  <2> QED
    BY <2>1, <2>2
<1>5. ASSUME NEW p \in Peers, OfflineStep(p)
      PROVE  Rests(k) \/ conn'[k].sendbuf = <<>>
  BY <1>5 DEF OfflineStep, Stops
<1>6. RestStep => Rests(k)
  BY DEF RestStep
<1>7. ASSUME NEW p \in Peers, RepulseStep(p) \/ DiscardStep(p)
      PROVE  conn' = conn
  BY <1>7 DEF RepulseStep, DiscardStep
<1>8. 0 \in Conns /\ Sessions \subseteq Conns
  BY PeersType
<1> QED
  BY <1>2, <1>3, <1>4, <1>5, <1>6, <1>7, <1>8 DEF PlainStep

LEMMA PlainPackets ==
    ASSUME Basis, PlainStep, NEW q \in Peers, NEW n \in Coming'[q], Data(n)
    PROVE  n \in Coming[q] \/ n.data = <<>>
<1>1. CASE \A r \in Peers : Popped(r) \/ Unmoved(r)
  BY <1>1 DEF Popped, Unmoved
<1>2. ASSUME NEW r \in Peers, NEW m, Pushed(r, m), ~Data(m) \/ m.data = <<>>,
             Popped(Other(r)) \/ Unmoved(Other(r))
      PROVE  n \in Coming[q] \/ n.data = <<>>
  BY <1>2, PeersType DEF Pushed, Popped, Unmoved
<1>3. ASSUME NEW i \in Conns, CloseStep(i)
      PROVE  \E r \in Peers : \E m : Pushed(r, m) /\ (~Data(m) \/ m.data = <<>>)
                                    /\ (Popped(Other(r)) \/ Unmoved(Other(r)))
  <2>1. Goodbye(i).data = <<>>
    BY DEF Goodbye, Stanza
  <2>2. Owner(i) \in Peers /\ Other(Owner(i)) \in Peers /\ Other(Other(Owner(i))) = Owner(i)
    BY PeersType
  <2>3. Pushed(Other(Owner(i)), Goodbye(i)) /\ Unmoved(Owner(i))
    BY <1>3 DEF CloseStep
  <2> QED
    BY <2>1, <2>2, <2>3
<1>4. ASSUME NEW i \in Conns, AcceptStep(i) \/ RefuseStep(i)
      PROVE  \E r \in Peers : \E m : Pushed(r, m) /\ (~Data(m) \/ m.data = <<>>)
                                    /\ (Popped(Other(r)) \/ Unmoved(Other(r)))
  BY <1>4, PeersType, StanzaFields DEF AcceptStep, RefuseStep, Data
<1>5. ASSUME NEW p \in Peers, RepulseStep(p)
      PROVE  \E r \in Peers : \E m : Pushed(r, m) /\ (~Data(m) \/ m.data = <<>>)
                                    /\ (Popped(Other(r)) \/ Unmoved(Other(r)))
  BY <1>5, PeersType, StanzaFields DEF RepulseStep, Data
<1>6. CASE net' = net
  <2>1. \A r \in Peers : Unmoved(r)
    BY <1>6, NetSame
  <2> QED
    BY <1>1, <2>1
<1>7. ASSUME NEW p \in Peers, Popped(p) /\ Unmoved(Other(p))
      PROVE  \A r \in Peers : Popped(r) \/ Unmoved(r)
  BY <1>7, PeersType
<1>8. ASSUME RestStep \/ (\E i \in Conns, how \in Ends : LeaveStep(i, how) \/ EndStep(i, how))
             \/ \E p \in Peers : OfflineStep(p)
      PROVE  net' = net
  BY <1>8 DEF RestStep, LeaveStep, EndStep, OfflineStep
<1>9. ASSUME \/ AcceptedStep \/ \E s \in Sessions : TakeRequestStep(s)
             \/ \E p \in Peers : DiscardStep(p) \/ \E i \in Conns : AckStep(p, i) \/ FailStep(p, i)
      PROVE  \E p \in Peers : Popped(p) /\ Unmoved(Other(p))
  BY <1>9, PeersType DEF AcceptedStep, TakeRequestStep, DiscardStep, AckStep, FailStep
<1> QED
  BY <1>1, <1>2, <1>3, <1>4, <1>5, <1>6, <1>7, <1>8, <1>9 DEF PlainStep

LEMMA PlainContents ==
    ASSUME Basis, Contents, PlainStep
    PROVE  Contents'
<1> SUFFICES ASSUME NEW p \in Peers, NEW s \in Sessions PROVE Content(p, s)'
  BY DEF Contents
<1>1. Other(p) \in Peers /\ s \in Sids /\ Content(p, s)
  BY PeersType DEF Contents
<1>2. SameText(p, s)
  BY <1>1, PlainText DEF SameText
<1>3. \A m \in Packets(p, s)' : m \in Packets(p, s) \/ m.data = <<>>
  BY <1>1, PlainPackets DEF Packets
<1>4. \A i \in Conns : Runs(i, p, s)' =>
             \/ conn'[i].sendbuf = <<>>
             \/ Runs(i, p, s) /\ conn'[i].sendbuf = conn[i].sendbuf
  BY PlainBuffers DEF Runs
<1> QED
  BY <1>1, <1>2, <1>3, <1>4, ContentKept


(* With no packet under way, everything sent but what is in the buffer has  *)
(* arrived.                                                                 *)
LEMMA AllArrived ==
    ASSUME TypeOK, NEW p \in Peers, NEW s \in Sessions, NEW i \in Conns, Ledger(p, s),
           Runs(i, p, s), conn[i].j = NoTask
    PROVE  /\ Arrived(p, s) = Sent(p, s) - Unsent(i)
           /\ \A m \in Packets(p, s) : m.data = <<>>
<1>1. Counts(p, s) /\ Amounts(i) /\ Delivered(p, s) /\ Accounted(i, p, s) /\ UnderWay(i) = 0
  BY Numbers, NoPackets, PeersType DEF Ledger
<1>2. /\ Sent(p, s) \in Nat /\ Acked(p, s) \in Nat /\ Arrived(p, s) \in Nat /\ Unsent(i) \in Nat
      /\ Acked(p, s) <= Arrived(p, s) /\ Arrived(p, s) + Unsent(i) <= Sent(p, s)
      /\ Acked(p, s) + 0 + Unsent(i) = Sent(p, s)
  BY <1>1 DEF Counts, Amounts, Delivered, Accounted
<1>3. Arrived(p, s) = Sent(p, s) - Unsent(i)
  BY <1>2
<1>4. \A m \in Packets(p, s) : m.data = <<>>
  BY <1>1, NoPackets
<1> QED
  BY <1>3, <1>4

(* What an end writes is numbered from where it stopped.                    *)
SameGotten(p, s) == hist'[Other(p)][s].got = hist[Other(p)][s].got

LEMMA SentGrows ==
    ASSUME TypeOK, NEW p \in Peers, NEW s \in Sessions, NEW i \in Conns, Runs(i, p, s),
           Content(p, s), NEW bytes \in Seq(Nat), Numbered(i, bytes), Grown(p, s, bytes)
    PROVE  /\ Sent(p, s)' = Sent(p, s) + Len(bytes)
           /\ From(bytes, Sent(p, s))
           /\ From(hist[p][s].sent, 0)'
           /\ SameGotten(p, s)
<1>1. s \in Sids /\ hist[p][s].sent \in Seq(Nat) /\ Sent(p, s) \in Nat
  BY FieldTypes, PeersType DEF Sent
<1>2. From(bytes, Sent(p, s))
  BY DEF Numbered, From, Runs, Sent
<1>3. hist'[p][s].sent = hist[p][s].sent \o bytes
  BY DEF Grown
<1>4. From(hist'[p][s].sent, 0)
  <2>1. From(hist[p][s].sent, 0) /\ Sent(p, s) = 0 + Len(hist[p][s].sent)
    BY <1>1 DEF Content, Sent
  <2> QED
    BY <1>1, <1>2, <1>3, <2>1, FromJoin
<1>5. Sent(p, s)' = Sent(p, s) + Len(bytes)
  BY <1>1, <1>3 DEF Sent
<1>6. SameGotten(p, s)
  BY <1>1, PeersType DEF Grown, Only, SameGotten
<1> QED
  BY <1>2, <1>4, <1>5, <1>6

(* The contents of everybody else.                                          *)
LEMMA OtherContents ==
    ASSUME NEW i \in Conns, NEW p \in Peers, NEW s \in Sids, p = Owner(i), s = conn[i].session,
           conn[i].st = "Active", RestBut(i), conn'[i].session = s, TypeOK,
           NEW r \in Peers, NEW t \in Sessions, r # p \/ t # s, Content(r, t),
           Only(p, s), hist'[p][s].got = hist[p][s].got,
           \A q \in Peers : \A n \in Coming'[q] :
             n \in Coming[q] \/ (q = Other(p) /\ n.session = s)
    PROVE  Content(r, t)'
<1>1. t \in Sids /\ Other(r) \in Peers
  BY PeersType
<1>2. SameText(r, t)
  BY <1>1 DEF Only, SameText
<1>3. \A m \in Packets(r, t)' : m \in Packets(r, t)
  BY <1>1, PeersType DEF Packets
<1>4. \A k \in Conns : Runs(k, r, t)' => Runs(k, r, t) /\ conn'[k].sendbuf = conn[k].sendbuf
  BY DEF Runs, RestBut, Rests, Keeps
<1> QED
  BY <1>2, <1>3, <1>4, ContentKept

LEMMA WriteContents ==
    ASSUME Basis, Ledgers, Contents, NEW i \in Conns, NEW bytes \in Seq(Nat),
           Numbered(i, bytes), WriteStep(i, bytes)
    PROVE  Contents'
<1> SUFFICES ASSUME NEW p \in Peers, NEW s \in Sessions PROVE Content(p, s)'
  BY DEF Contents
<1>1. /\ TypeOK /\ EndsKnown /\ Content(p, s) /\ Ledger(p, s) /\ s \in Sids
      /\ Owner(i) \in Peers /\ conn[i].session \in Sids /\ RestBut(i)
      /\ \A q \in Peers : Coming'[q] = Coming[q]
  BY NetSame, PeersType, FieldTypes
     DEF Basis, SessionsKnown, Contents, Ledgers, WriteStep, Unmoved
<1>2. CASE p = Owner(i) /\ s = conn[i].session
  <2>1. Runs(i, p, s) /\ Grown(p, s, bytes)
    BY <1>2 DEF Runs, WriteStep
  <2>2. /\ Sent(p, s)' = Sent(p, s) + Len(bytes) /\ From(bytes, Sent(p, s))
        /\ From(hist[p][s].sent, 0)' /\ SameGotten(p, s)
    BY <1>1, <2>1, SentGrows
  <2>3. /\ Sent(p, s) \in Nat /\ Unsent(i) \in Nat /\ Len(bytes) \in Nat
        /\ conn[i].sendbuf \in Seq(Nat) /\ Arrived(p, s) \in Nat
        /\ Arrived(p, s) + Unsent(i) <= Sent(p, s)
    <3>1. Counts(p, s) /\ Amounts(i) /\ Accounted(i, p, s) /\ conn[i].sendbuf \in Seq(Nat)
      BY <1>1, <2>1, Numbers, FieldTypes DEF Ledger
    <3> QED
      BY <3>1 DEF Counts, Amounts, Accounted
  <2>4. Arrived(p, s)' = Arrived(p, s) /\ Packets(p, s)' = Packets(p, s)
    BY <1>1, <2>2, PeersType DEF Packets, SameGotten, Arrived
  <2>5. ASSUME Sent(p, s)' <= PacketSize
        PROVE  /\ From(hist'[Other(p)][s].got, 0)
               /\ \A k \in Conns : Runs(k, p, s)' => From(conn'[k].sendbuf, Sent(p, s)' - Unsent(k)')
               /\ \A m \in Packets(p, s)' : From(m.data, Arrived(p, s)')
    <3>1. Sent(p, s) <= PacketSize
      BY <2>2, <2>3, <2>5, IBBAssumption
    <3>2. From(hist'[Other(p)][s].got, 0)
      BY <2>2, <3>1, <1>1 DEF Content, SameGotten
    <3>3. \A m \in Packets(p, s)' : From(m.data, Arrived(p, s)')
      BY <1>1, <2>4, <3>1 DEF Content
    <3>4. ASSUME NEW k \in Conns, Runs(k, p, s)'
          PROVE  From(conn'[k].sendbuf, Sent(p, s)' - Unsent(k)')
      <4>1. k = i
        <5>1. k # i => Runs(k, p, s)
          BY <1>1, <3>4 DEF RestBut, Rests, Keeps, Runs
        <5> QED
          BY <1>1, <2>1, <5>1, OneEnd
      <4>2. conn'[i].sendbuf = conn[i].sendbuf \o bytes /\ Unsent(i)' = Unsent(i) + Len(bytes)
        BY <2>3 DEF WriteStep, Unsent
      <4>3. From(conn[i].sendbuf, Sent(p, s) - Unsent(i))
        BY <1>1, <2>1, <3>1 DEF Content
      <4>4. /\ Sent(p, s) - Unsent(i) \in Nat
            /\ Sent(p, s) = (Sent(p, s) - Unsent(i)) + Len(conn[i].sendbuf)
        BY <2>3, SMTT(30) DEF Unsent
      <4>5. From(conn[i].sendbuf \o bytes, Sent(p, s) - Unsent(i))
        BY <2>2, <2>3, <4>3, <4>4, FromJoin
      <4>6. Sent(p, s)' - Unsent(i)' = Sent(p, s) - Unsent(i)
        BY <2>2, <2>3, <4>2
      <4> QED
        BY <4>1, <4>2, <4>5, <4>6
    <3> QED
      BY <3>2, <3>3, <3>4
  <2> QED
    BY <2>2, <2>5 DEF Content
<1>3. CASE p # Owner(i) \/ s # conn[i].session
  BY <1>1, <1>3, OtherContents DEF WriteStep, Grown
<1> QED
  BY <1>2, <1>3

LEMMA SendContents ==
    ASSUME Basis, Ledgers, Contents, NEW i \in Conns, NEW bytes \in Seq(Nat),
           Numbered(i, bytes), NEW m, SendStep(i, bytes, m)
    PROVE  Contents'
<1> SUFFICES ASSUME NEW p \in Peers, NEW s \in Sessions PROVE Content(p, s)'
  BY DEF Contents
<1>1. /\ TypeOK /\ EndsKnown /\ Content(p, s) /\ Ledger(p, s) /\ s \in Sids
      /\ Owner(i) \in Peers /\ conn[i].session \in Sids /\ RestBut(i)
      /\ Data(m) /\ m.session = conn[i].session
      /\ \A q \in Peers : \A n \in Coming'[q] :
           n \in Coming[q] \/ (q = Other(Owner(i)) /\ n = m)
  BY PeersType, FieldTypes
     DEF Basis, SessionsKnown, Contents, Ledgers, SendStep, Unmoved, Pushed
<1>2. CASE p = Owner(i) /\ s = conn[i].session
  <2>1. Runs(i, p, s) /\ Grown(p, s, bytes) /\ conn[i].j = NoTask
    BY <1>2 DEF Runs, SendStep
  <2>2. /\ Sent(p, s)' = Sent(p, s) + Len(bytes) /\ From(bytes, Sent(p, s))
        /\ From(hist[p][s].sent, 0)' /\ SameGotten(p, s)
    BY <1>1, <2>1, SentGrows
  <2>3. /\ Sent(p, s) \in Nat /\ Unsent(i) \in Nat /\ Len(bytes) \in Nat
        /\ conn[i].sendbuf \in Seq(Nat) /\ Arrived(p, s) \in Nat
        /\ Arrived(p, s) + Unsent(i) <= Sent(p, s)
    <3>1. Counts(p, s) /\ Amounts(i) /\ Accounted(i, p, s) /\ conn[i].sendbuf \in Seq(Nat)
      BY <1>1, <2>1, Numbers, FieldTypes DEF Ledger
    <3> QED
      BY <3>1 DEF Counts, Amounts, Accounted
  <2>4. /\ Arrived(p, s) = Sent(p, s) - Unsent(i) /\ Arrived(p, s)' = Arrived(p, s)
        /\ \A n \in Packets(p, s) : n.data = <<>>
        /\ \A n \in Packets(p, s)' : n \in Packets(p, s) \/ n = m
    <3>1. Arrived(p, s)' = Arrived(p, s)
      BY <2>2 DEF SameGotten, Arrived
    <3>2. \A n \in Packets(p, s)' : n \in Packets(p, s) \/ n = m
      BY <1>1, PeersType DEF Packets
    <3> QED
      BY <1>1, <2>1, <3>1, <3>2, AllArrived
  <2>5. ASSUME Sent(p, s)' <= PacketSize
        PROVE  /\ From(hist'[Other(p)][s].got, 0)
               /\ \A k \in Conns : Runs(k, p, s)' => From(conn'[k].sendbuf, Sent(p, s)' - Unsent(k)')
               /\ \A n \in Packets(p, s)' : From(n.data, Arrived(p, s)')
    <3>1. Sent(p, s) <= PacketSize
      BY <2>2, <2>3, <2>5, IBBAssumption
    <3>2. From(hist'[Other(p)][s].got, 0)
      BY <2>2, <3>1, <1>1 DEF Content, SameGotten
    <3>3. conn'[i].sendbuf = <<>> /\ m.data = conn[i].sendbuf \o bytes
      <4>1. Unsent(i) + Len(bytes) <= PacketSize
        BY <2>2, <2>3, <2>5, IBBAssumption
      <4> QED
        BY <4>1 DEF SendStep, Unsent
    <3>4. From(m.data, Arrived(p, s))
      <4>1. From(conn[i].sendbuf, Arrived(p, s))
        BY <1>1, <2>1, <2>4, <3>1 DEF Content
      <4>2. Sent(p, s) = Arrived(p, s) + Len(conn[i].sendbuf)
        BY <2>3, <2>4 DEF Unsent
      <4> QED
        <5>1. /\ Arrived(p, s) \in Nat /\ conn[i].sendbuf \in Seq(Nat)
              /\ From(bytes, Sent(p, s))
          BY <2>2, <2>3
        <5>2. From(conn[i].sendbuf \o bytes, Arrived(p, s))
          BY <4>1, <4>2, <5>1, FromJoin
        <5> QED
          BY <3>3, <5>2
    <3>5. \A n \in Packets(p, s)' : From(n.data, Arrived(p, s)')
      BY <2>4, <3>4, FromNone
    <3>6. ASSUME NEW k \in Conns, Runs(k, p, s)'
          PROVE  From(conn'[k].sendbuf, Sent(p, s)' - Unsent(k)')
      <4>1. k = i
        <5>1. k # i => Runs(k, p, s)
          BY <1>1, <3>6 DEF RestBut, Rests, Keeps, Runs
        <5> QED
          BY <1>1, <2>1, <5>1, OneEnd
      <4> QED
        BY <3>3, <4>1, FromNone
    <3> QED
      BY <3>2, <3>5, <3>6
  <2> QED
    BY <2>2, <2>5 DEF Content
<1>3. CASE p # Owner(i) \/ s # conn[i].session
  BY <1>1, <1>3, OtherContents, ZenonT(30) DEF SendStep, Grown
<1> QED
  BY <1>2, <1>3


(* The bytes of a packet are the next ones.                                 *)
LEMMA TakeDataContents ==
    ASSUME Basis, TypeOK', Ledgers, Contents, NEW q \in Peers, NEW k \in Conns, TakeDataStep(q, k)
    PROVE  Contents'
<1> SUFFICES ASSUME NEW p \in Peers, NEW s \in Sessions PROVE Content(p, s)'
  BY DEF Contents
<1> DEFINE m == Head(net[q])
<1>1. /\ TypeOK /\ EndsKnown /\ IdsDistinct /\ Content(p, s) /\ Ledger(p, s) /\ s \in Sids
      /\ Other(p) \in Peers /\ conn[k].session \in Sids /\ RestBut(k)
      /\ Data(m) /\ m.session = conn[k].session /\ m \in Coming[q]
      /\ conn'[k].session = conn[k].session
  BY PeersType, FieldTypes
     DEF Basis, SessionsKnown, Ids, Contents, Ledgers, TakeDataStep, Popped, Keeps
<1>2. Coming'[q] \subseteq Coming[q]
  BY DEF TakeDataStep, Popped
<1>3. \A n \in Coming'[Other(q)] : Data(n) => n \in Coming[Other(q)]
  <2>1. Coming'[Other(q)] = Coming[Other(q)] \cup {Result(m.id, 0)}
    BY DEF TakeDataStep, Pushed
  <2> QED
    BY <2>1, StanzaFields DEF Data
<1>4. Packets(p, s)' \subseteq Packets(p, s)
  BY <1>1, <1>2, <1>3, PeersType DEF Packets
<1>5. \A i \in Conns : Runs(i, p, s)' => Runs(i, p, s) /\ conn'[i].sendbuf = conn[i].sendbuf
  BY <1>1 DEF TakeDataStep, RestBut, Rests, Keeps, Runs
<1>6. hist'[p][s].sent = hist[p][s].sent
  BY <1>1 DEF TakeDataStep, Only
<1>7. CASE Other(p) # q \/ s # conn[k].session
  <2>1. SameText(p, s)
    BY <1>1, <1>6, <1>7 DEF TakeDataStep, Only, SameText
  <2> QED
    BY <1>1, <1>4, <1>5, <2>1, ContentKept
<1>8. CASE Other(p) = q /\ s = conn[k].session
  <2>1. hist'[q][s].got = hist[q][s].got \o m.data /\ m \in Packets(p, s)
    BY <1>1, <1>8 DEF TakeDataStep, Packets
  <2>2. CASE m.data = <<>>
    <3>1. hist[q][s].got \in Seq(Nat)
      BY <1>1, FieldTypes
    <3>2. hist[q][s].got \o <<>> = hist[q][s].got
      BY <3>1
    <3>3. hist'[q][s].got = hist[q][s].got
      BY <2>1, <2>2, <3>2
    <3>4. SameText(p, s)
      BY <1>6, <1>8, <3>3 DEF SameText
    <3> QED
      BY <1>1, <1>4, <1>5, <3>4, ContentKept
  <2>3. CASE m.data # <<>>
    <3>1. \A n \in Packets(p, s)' : n.data = <<>>
      <4>1. TAKE n \in Packets(p, s)'
      <4>2. n \in Packets(p, s) /\ n \in Coming'[q] /\ IsSet(n)
        BY <1>4, <1>8 DEF Packets, Data, IsSet
      <4>3. n.id # m.id
        BY <1>1, <4>2, HeadAlone DEF TakeDataStep, Data, IsSet
      <4> QED
        BY <1>1, <2>1, <2>3, <4>2, <4>3 DEF Ledger, Delivered
    <3>2. Sent(p, s)' = Sent(p, s)
      BY <1>6 DEF Sent
    <3>3. From(hist'[p][s].sent, 0)
      BY <1>1, <1>6 DEF Content
    <3>4. ASSUME Sent(p, s)' <= PacketSize
          PROVE  /\ From(hist'[Other(p)][s].got, 0)
                 /\ \A i \in Conns : Runs(i, p, s)' => From(conn'[i].sendbuf, Sent(p, s)' - Unsent(i)')
                 /\ \A n \in Packets(p, s)' : From(n.data, Arrived(p, s)')
      <4>1. /\ From(hist[q][s].got, 0) /\ From(m.data, Arrived(p, s))
            /\ \A i \in Conns : Runs(i, p, s) => From(conn[i].sendbuf, Sent(p, s) - Unsent(i))
        BY <1>1, <1>8, <2>1, <3>2, <3>4 DEF Content
      <4>2. From(hist'[q][s].got, 0)
        <5>1. hist[q][s].got \in Seq(Nat) /\ m.data \in Seq(Nat)
          BY <1>1, FieldTypes, IdTypes
        <5>2. Arrived(p, s) = 0 + Len(hist[q][s].got)
          BY <1>8, <5>1 DEF Arrived
        <5> QED
          BY <2>1, <4>1, <5>1, <5>2, FromJoin
      <4>3. \A i \in Conns : Runs(i, p, s)' => From(conn'[i].sendbuf, Sent(p, s)' - Unsent(i)')
        BY <1>5, <3>2, <4>1 DEF Unsent
      <4> QED
        BY <1>8, <3>1, <4>2, <4>3, FromNone
    <3> QED
      BY <3>3, <3>4 DEF Content
  <2> QED
    BY <2>2, <2>3
<1> QED
  BY <1>7, <1>8

(* A request gives up an object that may still have to send its buffer.     *)
LEMMA ConnectContents ==
    ASSUME Basis, Ledgers, Contents, NEW before, NEW m, ConnectStep(before, m)
    PROVE  Contents'
<1> SUFFICES ASSUME NEW p \in Peers, NEW s \in Sessions PROVE Content(p, s)'
  BY DEF Contents
<1>1. /\ TypeOK /\ EndsKnown /\ Content(p, s) /\ Ledger(p, s) /\ s \in Sids
      /\ nSessions \in Sids /\ Requester \in Peers /\ Other(p) \in Peers /\ Owner(0) = Requester
      /\ RestBut(0) /\ 0 \in Conns
  BY PeersType, FieldTypes
     DEF Basis, SessionsKnown, Contents, Ledgers, ConnectStep
<1>2. SameText(p, s)
  <2>1. hist' = hist \/ \E how : Ended(Requester, nSessions, how)
    BY DEF ConnectStep
  <2> QED
    BY <1>1, <2>1, EndedText DEF SameText
<1>3. /\ Coming'[Acceptor] = Coming[Acceptor] \cup before \cup {m}
      /\ Coming'[Requester] = Coming[Requester] /\ m.kind = "request"
      /\ \A f \in before : Farewell(f)
  BY DEF ConnectStep, Unmoved
<1>4. \A n \in Packets(p, s)' : n \in Packets(p, s) \/ (n \in before /\ Runs(0, p, s))
  <2>1. CASE p = Requester
    BY <1>1, <1>3, <2>1, PeersType DEF Packets, Farewell, Data, Runs
  <2>2. CASE p = Acceptor
    BY <1>3, <2>2, PeersType DEF Packets
  <2> QED
    BY <2>1, <2>2 DEF Peers
<1>5. \A i \in Conns : Runs(i, p, s)' => Runs(i, p, s) /\ conn'[i].sendbuf = conn[i].sendbuf
  BY <1>1 DEF ConnectStep, RestBut, Rests, Keeps, Runs
<1>6. Sent(p, s)' = Sent(p, s) /\ Arrived(p, s)' = Arrived(p, s)
  BY <1>2 DEF SameText, Sent, Arrived
<1>7. CASE Sent(p, s) <= PacketSize
  <2>1. \A n \in Packets(p, s)' : From(n.data, Arrived(p, s))
    <3>1. TAKE n \in Packets(p, s)'
    <3>2. CASE n \in Packets(p, s)
      BY <1>1, <1>7, <3>2 DEF Content
    <3>3. CASE n \in before /\ Runs(0, p, s) /\ conn[0].sendbuf = <<>>
      BY <1>3, <3>3, FromNone DEF Farewell
    <3>4. CASE n \in before /\ Runs(0, p, s) /\ conn[0].sendbuf # <<>>
      <4>1. conn[0].j = NoTask /\ (Len(conn[0].sendbuf) <= PacketSize => n.data = conn[0].sendbuf)
        BY <1>3, <3>4 DEF Farewell
      <4>2. Arrived(p, s) = Sent(p, s) - Unsent(0)
        BY <1>1, <3>4, <4>1, AllArrived
      <4>3. Unsent(0) <= PacketSize
        <5>1. Arrived(p, s) \in Nat /\ Sent(p, s) \in Nat /\ Unsent(0) \in Nat
          BY <1>1, Numbers DEF Counts, Amounts
        <5> QED
          BY <1>7, <4>2, <5>1, IBBAssumption
      <4>4. n.data = conn[0].sendbuf
        BY <4>1, <4>3 DEF Unsent
      <4> QED
        BY <1>1, <1>7, <3>4, <4>2, <4>4 DEF Content
    <3> QED
      BY <1>4, <3>2, <3>3, <3>4
  <2>2. \A i \in Conns : Runs(i, p, s)' => From(conn'[i].sendbuf, Sent(p, s)' - Unsent(i)')
    BY <1>1, <1>5, <1>6, <1>7 DEF Content, Unsent
  <2>3. From(hist'[p][s].sent, 0) /\ From(hist'[Other(p)][s].got, 0)
    BY <1>1, <1>2, <1>7 DEF Content, SameText
  <2> QED
    BY <1>6, <2>1, <2>2, <2>3 DEF Content
<1>8. CASE ~(Sent(p, s) <= PacketSize)
  BY <1>1, <1>2, <1>6, <1>8 DEF Content, SameText
<1> QED
  BY <1>7, <1>8

LEMMA ContentsStep == Basis /\ Ledgers /\ Contents /\ [Next]_vars => Contents'
<1> SUFFICES ASSUME Basis, Ledgers, Contents, [Next]_vars PROVE Contents'
  OBVIOUS
<1>1. Step /\ TypeOK'
  BY BasisStep DEF Basis
<1>2. CASE PlainStep
  BY <1>2, PlainContents
<1>3. ASSUME NEW i \in Conns, NEW bytes \in Seq(Nat), Numbered(i, bytes),
             WriteStep(i, bytes) \/ \E m \in Stanzas : SendStep(i, bytes, m)
      PROVE  Contents'
  BY <1>3, WriteContents, SendContents
<1>4. ASSUME NEW before, NEW m, ConnectStep(before, m)
      PROVE  Contents'
  BY <1>4, ConnectContents
<1>5. ASSUME NEW p \in Peers, NEW i \in Conns, TakeDataStep(p, i)
      PROVE  Contents'
  BY <1>1, <1>5, TakeDataContents
<1>6. ASSUME NEW p \in Peers, Taken(p) \/ OfflineStep(p),
             \A i \in Conns : ~TakeDataStep(p, i)
      PROVE  PlainStep
  BY <1>6 DEF Taken, PlainStep
<1>7. PlainStep \/ ~(RestStep \/ \E i \in Conns : AcceptStep(i)
                       \/ (\E how \in Ends : LeaveStep(i, how) \/ EndStep(i, how))
                       \/ RefuseStep(i) \/ CloseStep(i))
  BY DEF PlainStep
<1> QED
  BY <1>1, <1>2, <1>3, <1>4, <1>5, <1>6, <1>7 DEF Step

LEMMA ContentsInit == Init => Contents
<1> SUFFICES ASSUME Init, NEW p \in Peers, NEW s \in Sessions PROVE Content(p, s)
  BY DEF Contents
<1>1. Other(p) \in Peers /\ s \in Sids
  BY PeersType
<1>2. hist[p][s].sent = <<>> /\ hist[Other(p)][s].got = <<>>
  BY <1>1 DEF Init, NoHistory
<1>3. Packets(p, s) = {}
  <2>1. Coming[Other(p)] = {}
    BY <1>1 DEF Init, Coming
  <2> QED
    BY <2>1 DEF Packets
<1>4. \A i \in Conns : ~Runs(i, p, s)
  BY DEF Init, Fresh, Runs
<1> QED
  BY <1>2, <1>3, <1>4, FromNone DEF Content

(* As long as what an application wrote fits one packet, what the other one *)
(* reads is the beginning of it.                                            *)
THEOREM SmallInOrder == Spec => []InOrderIfSmall
<1>1. Basis /\ Ledgers /\ Contents => InOrderIfSmall
  <2> SUFFICES ASSUME Basis, Ledgers, Contents, NEW p \in Peers, NEW s \in Sessions,
                      Len(hist[p][s].sent) <= PacketSize
               PROVE  IsPrefix(hist[Other(p)][s].got, hist[p][s].sent)
    BY DEF InOrderIfSmall
  <2> DEFINE g == hist[Other(p)][s].got
             h == hist[p][s].sent
  <2>1. g \in Seq(Nat) /\ h \in Seq(Nat) /\ Len(g) \in Nat /\ Len(h) \in Nat
    BY FieldTypes, PeersType DEF Basis
  <2>2. Len(g) <= Len(h)
    BY DEF Ledgers, Ledger, Delivered, Arrived, Sent
  <2>3. From(g, 0) /\ From(h, 0)
    BY DEF Contents, Content, Sent
  <2> HIDE DEF g, h
  <2>4. \A b \in 1..Len(g) : b \in 1..Len(h) /\ g[b] = h[b]
    BY <2>1, <2>2, <2>3 DEF From
  <2>5. SubSeq(g, 1, Len(g)) = SubSeq(h, 1, Len(g))
    <3>1. SubSeq(g, 1, Len(g)) = [b \in 1..Len(g) |-> g[b]]
      BY <2>1
    <3>2. SubSeq(h, 1, Len(g)) = [b \in 1..Len(g) |-> h[b]]
      BY <2>1, <2>2
    <3> QED
      BY <2>4, <3>1, <3>2
  <2> QED
    BY <2>2, <2>5 DEF IsPrefix, g, h
<1> QED
  BY <1>1, BasisInit, BasisStep, LedgersInit, LedgersStep, ContentsInit, ContentsStep, PTL DEF Spec

-----------------------------------------------------------------------------
(* Why a stream ends.                                                       *)

(* A session ends once for an application ...                               *)
EndKept(p, s) ==
    \/ hist'[p][s].end = hist[p][s].end
    \/ hist[p][s].end = "open" /\ hist'[p][s].end # "open"
EndsKeep == \A p \in Peers, s \in Sids : EndKept(p, s)

(* ... but what it ended itself, in its handler of readyRead(), is ended    *)
(* again by the connectionClosed() that follows.                            *)
Own == {"closed", "abandoned"}
AgainKept == \A p \in Peers, s \in Sids :
    hist'[p][s].again => hist[p][s].again \/ hist[p][s].end \in Own

LEMMA OpenEnds ==
    ASSUME Basis, NEW i \in Conns, NEW s, IsOf(i, s)
    PROVE  s \in Sessions /\ hist[Owner(i)][s].end = "open"
<1>1. /\ TypeOK /\ EndsKnown /\ Starting
      /\ (i = 0 /\ s = nSessions) \/ (i = s /\ i \in Sessions)
      /\ conn[i].st # "Idle"
  BY OneEnd DEF Basis, SessionsKnown
<1>2. s \in Sessions
  BY <1>1, FieldTypes, OneEnd DEF EndsKnown, Sessions
<1>3. CASE conn[i].st = "Active" /\ conn[i].session = s
  BY <1>1, <1>2, <1>3 DEF EndsKnown
<1>4. CASE conn[i].st \in {"Requesting", "WaitingForAccept"} /\ s = SessionOf(i)
  <2>1. Silent(Owner(i), s)
    BY <1>1, <1>4, PeersType DEF EndsKnown, Starting, SessionOf
  <2> QED
    BY <1>2, <2>1 DEF Silent, NoHistory
<1> QED
  BY <1>3, <1>4 DEF IsOf

LEMMA EndedKeeps ==
    ASSUME NEW p, NEW s, NEW how, how # "open", Ended(p, s, how), hist[p][s].end = "open"
    PROVE  EndsKeep
BY DEF EndsKeep, EndKept, Ended, Only

LEMMA EndsOnce ==
    ASSUME Basis, Step
    PROVE  EndsKeep
<1>1. TypeOK /\ EndsKnown /\ Starting /\ ConnectionsOK
  BY DEF Basis, SessionsKnown
<1>2. CASE hist' = hist
  BY <1>2 DEF EndsKeep, EndKept
<1>3. ASSUME NEW i \in Conns, NEW s, IsOf(i, s), NEW how, how # "open",
             Ended(Owner(i), s, how)
      PROVE  EndsKeep
  BY <1>3, OpenEnds, EndedKeeps
<1>4. ASSUME NEW i \in Conns, NEW bytes,
             WriteStep(i, bytes) \/ \E m \in Stanzas : SendStep(i, bytes, m)
      PROVE  EndsKeep
  <2>1. Grown(Owner(i), conn[i].session, bytes)
    BY <1>4 DEF WriteStep, SendStep
  <2> QED
    BY <2>1 DEF Grown, Only, EndsKeep, EndKept
<1>5. ASSUME NEW i \in Conns,
             \/ AcceptStep(i) \/ RefuseStep(i) \/ CloseStep(i)
             \/ \E how \in Ends : LeaveStep(i, how) \/ EndStep(i, how)
      PROVE  EndsKeep
  <2>1. CASE AcceptStep(i)
    BY <1>2, <2>1 DEF AcceptStep
  <2>2. ASSUME NEW how \in Ends, LeaveStep(i, how)
        PROVE  EndsKeep
    <3>1. IsOf(i, SessionOf(i)) /\ how # "open" /\ Ended(Owner(i), SessionOf(i), how)
      BY <2>2 DEF LeaveStep, IsOf
    <3> QED
      BY <1>3, <3>1
  <2>3. CASE RefuseStep(i)
    <3>1. IsOf(i, i) /\ Ended(Owner(i), i, "refused")
      BY <2>3, PeersType DEF RefuseStep, IsOf, SessionOf
    <3> QED
      BY <1>3, <3>1
  <2>4. CASE CloseStep(i)
    <3>1. IsOf(i, conn[i].session) /\ Ended(Owner(i), conn[i].session, "closed")
      BY <2>4 DEF CloseStep, IsOf
    <3> QED
      BY <1>3, <3>1
  <2>5. ASSUME NEW how \in Ends, EndStep(i, how)
        PROVE  EndsKeep
    <3>1. IsOf(i, conn[i].session) /\ how # "open" /\ Ended(Owner(i), conn[i].session, how)
      BY <2>5 DEF EndStep, IsOf
    <3> QED
      BY <1>3, <3>1
  <2> QED
    BY <1>5, <2>1, <2>2, <2>3, <2>4, <2>5
<1>6. ASSUME NEW before, NEW m, ConnectStep(before, m)
      PROVE  EndsKeep
  <2>1. CASE conn[0].st = "Idle"
    BY <1>2, <1>6, <2>1 DEF ConnectStep
  <2>2. CASE conn[0].st # "Idle"
    <3>1. IsOf(0, nSessions)
      BY <1>1, <2>2, FieldTypes, PeersType DEF EndsKnown, IsOf, SessionOf, States
    <3>2. \E how : how # "open" /\ Ended(Owner(0), nSessions, how)
      <4>1. CASE conn[0].st = "Active" /\ conn[0].sendbuf = <<>>
        BY <1>6, <2>2, <4>1, PeersType DEF ConnectStep
      <4>2. CASE ~(conn[0].st = "Active" /\ conn[0].sendbuf = <<>>)
        BY <1>6, <2>2, <4>2, PeersType DEF ConnectStep
      <4> QED
        BY <4>1, <4>2
    <3> QED
      BY <1>3, <3>1, <3>2, PeersType
  <2> QED
    BY <2>1, <2>2
<1>7. ASSUME NEW p \in Peers, NEW i \in Conns, TakeDataStep(p, i) \/ AckStep(p, i)
      PROVE  EndsKeep
  <2>1. /\ Only(p, conn[i].session)
        /\ \/ hist'[p][conn[i].session].end = hist[p][conn[i].session].end
           \/ hist'[p][conn[i].session].end # "open"
        /\ IsOf(i, conn[i].session) /\ Owner(i) = p
    BY <1>7 DEF TakeDataStep, AckStep, Runs, IsOf
  <2>2. hist[p][conn[i].session].end = "open"
    BY <2>1, OpenEnds
  <2> QED
    BY <2>1, <2>2 DEF EndsKeep, EndKept, Only
<1>8. ASSUME NEW p \in Peers, NEW i \in Conns, FailStep(p, i)
      PROVE  EndsKeep
  <2>1. \E s, how : IsOf(i, s) /\ how # "open" /\ Ended(Owner(i), s, how)
    BY <1>8 DEF FailStep, IsOf, SessionOf
  <2> QED
    BY <1>3, <2>1
<1>9. ASSUME NEW p \in Peers, OfflineStep(p)
      PROVE  EndsKeep
  <2>1. ASSUME NEW s \in Sids, Fails(p, p, s)
        PROVE  hist[p][s].end = "open"
    <3>1. \E i \in Conns : Owner(i) = p /\ IsOf(i, s)
      <4>1. ASSUME NEW i \in Conns, conn[i].j.mode = "data"
            PROVE  conn[i].st = "Active"
        <5>1. conn[i].j = Task("data", conn[i].j.id)
          BY <1>1, <4>1, TaskFields, IdTypes
        <5> QED
          BY <1>1, <5>1, TasksKnown
      <4>2. ASSUME conn[0].j.mode = "request"
            PROVE  conn[0].st = "Requesting"
        <5>1. conn[0].j = Task("request", conn[0].j.id)
          BY <1>1, <4>2, TaskFields, IdTypes, PeersType
        <5> QED
          BY <1>1, <5>1, TasksKnown, PeersType, ZenonT(30)
      <4> QED
        BY <2>1, <4>1, <4>2, PeersType DEF Fails, IsOf, SessionOf
    <3> QED
      BY <3>1, OpenEnds
  <2>2. \A r \in Peers, s \in Sids :
         \/ hist'[r][s] = hist[r][s]
         \/ r = p /\ Fails(p, p, s) /\ hist'[r][s].end \in {"ErrData", "ErrRequest"}
    BY <1>9 DEF OfflineStep, Fails
  <2> QED
    BY <2>1, <2>2 DEF EndsKeep, EndKept
<1>10. ASSUME \/ AcceptedStep \/ \E s \in Sessions : TakeRequestStep(s)
              \/ \E p \in Peers : RepulseStep(p) \/ DiscardStep(p)
       PROVE  hist' = hist
  BY <1>10 DEF AcceptedStep, TakeRequestStep, RepulseStep, DiscardStep
<1>11. CASE RestStep
  BY <1>11 DEF RestStep, SameHist, Same, EndsKeep, EndKept
<1> QED
  BY <1>2, <1>4, <1>5, <1>6, <1>7, <1>8, <1>9, <1>10, <1>11 DEF Step, Taken

(* The application's own end is the only thing it can hear of twice: while  *)
(* it is in its handler of readyRead() and the connection is idle, it has   *)
(* closed or given up the session the connection was last used for.         *)
Told ==
    \A i \in Conns : conn[i].emits = "readyRead" =>
        /\ conn[i].st # "WaitingForAccept"
        /\ conn[i].st = "Idle" => hist[Owner(i)][SessionOf(i)].end \in Own

LEMMA RestTold ==
    ASSUME TypeOK, Told, EndsKeep, NEW k \in Conns, Rests(k), SessionOf(k)' = SessionOf(k),
           conn'[k].emits = "readyRead"
    PROVE  /\ conn'[k].st # "WaitingForAccept"
           /\ conn'[k].st = "Idle" => hist'[Owner(k)][SessionOf(k)'].end \in Own
<1>1. conn[k].emits = "readyRead" /\ conn'[k].st = conn[k].st
  BY DEF Rests, Keeps, Settles
<1>2. SessionOf(k) \in Sids /\ Owner(k) \in Peers
  BY PeersType, FieldTypes DEF SessionOf
<1>3. EndKept(Owner(k), SessionOf(k))
  BY <1>2 DEF EndsKeep
<1> QED
  BY <1>1, <1>3 DEF Told, EndKept, Own

LEMMA ToldStep ==
    ASSUME Basis, StreamsOK', Told, Step
    PROVE  Told'
<1>1. TypeOK /\ EndsKnown /\ EndsKeep
  BY EndsOnce DEF Basis, SessionsKnown
<1>2. SUFFICES ASSUME NEW k \in Conns, conn'[k].emits = "readyRead"
               PROVE  /\ conn'[k].st # "WaitingForAccept"
                      /\ conn'[k].st = "Idle" => hist'[Owner(k)][SessionOf(k)'].end \in Own
  BY DEF Told
<1>3. ASSUME Rests(k), k # 0 \/ nSessions' = nSessions
      PROVE  /\ conn'[k].st # "WaitingForAccept"
             /\ conn'[k].st = "Idle" => hist'[Owner(k)][SessionOf(k)'].end \in Own
  <2>1. SessionOf(k)' = SessionOf(k)
    BY <1>3 DEF SessionOf
  <2> QED
    BY <1>1, <1>2, <1>3, <2>1, RestTold
<1>4. ASSUME NEW s, Ended(Owner(k), s, "closed") \/ Ended(Owner(k), s, "abandoned"),
             s = SessionOf(k), nSessions' = nSessions, Stops(k)
      PROVE  /\ conn'[k].st # "WaitingForAccept"
             /\ conn'[k].st = "Idle" => hist'[Owner(k)][SessionOf(k)'].end \in Own
  <2>1. SessionOf(k)' = s /\ hist'[Owner(k)][s].end \in Own
    BY <1>4 DEF SessionOf, Ended, Own
  <2> QED
    BY <1>4, <2>1 DEF Stops
<1>5. /\ conn[k].st = "Active" => SessionOf(k) = conn[k].session
      /\ conn[k].st = "WaitingForAccept" => conn[k].emits # "readyRead"
      /\ k # 0 => conn[k].st # "Requesting"
  BY <1>1, PeersType DEF EndsKnown, SessionOf, Told
<1>6. CASE RestStep
  BY <1>3, <1>6 DEF RestStep
<1>7. ASSUME NEW i \in Conns, NEW bytes \in Seq(Nat),
             WriteStep(i, bytes) \/ \E m \in Stanzas : SendStep(i, bytes, m)
      PROVE  /\ conn'[k].st # "WaitingForAccept"
             /\ conn'[k].st = "Idle" => hist'[Owner(k)][SessionOf(k)'].end \in Own
  BY <1>3, <1>7 DEF WriteStep, SendStep, RestBut
<1>8. ASSUME NEW i \in Conns,
             \/ AcceptStep(i) \/ RefuseStep(i) \/ CloseStep(i)
             \/ \E how \in Ends : LeaveStep(i, how) \/ EndStep(i, how)
      PROVE  /\ conn'[k].st # "WaitingForAccept"
             /\ conn'[k].st = "Idle" => hist'[Owner(k)][SessionOf(k)'].end \in Own
  <2>1. nSessions' = nSessions /\ RestBut(i)
    BY <1>8 DEF AcceptStep, RefuseStep, CloseStep, LeaveStep, EndStep
  <2>2. CASE k # i
    BY <1>3, <2>1, <2>2 DEF RestBut
  <2>3. CASE k = i /\ (AcceptStep(i) \/ RefuseStep(i))
    BY <1>1, <1>2, <1>5, <2>3 DEF AcceptStep, RefuseStep
  <2>4. CASE k = i /\ CloseStep(i)
    BY <1>4, <1>5, <2>1, <2>4 DEF CloseStep
  <2>5. ASSUME NEW how \in Ends, k = i, LeaveStep(i, how)
        PROVE  /\ conn'[k].st # "WaitingForAccept"
               /\ conn'[k].st = "Idle" => hist'[Owner(k)][SessionOf(k)'].end \in Own
    <3>1. CASE how = "abandoned"
      BY <1>4, <2>1, <2>5, <3>1 DEF LeaveStep
    <3>2. CASE how # "abandoned"
      BY <1>2, <1>5, <2>5, <3>2 DEF LeaveStep
    <3> QED
      BY <3>1, <3>2
  <2>6. ASSUME NEW how \in Ends, k = i, EndStep(i, how)
        PROVE  FALSE
    BY <1>2, <2>6 DEF EndStep
  <2> QED
    BY <1>8, <2>2, <2>3, <2>4, <2>5, <2>6
<1>9. ASSUME NEW before, NEW m, ConnectStep(before, m)
      PROVE  /\ conn'[k].st # "WaitingForAccept"
             /\ conn'[k].st = "Idle" => hist'[Owner(k)][SessionOf(k)'].end \in Own
  BY <1>3, <1>9 DEF ConnectStep, RestBut
<1>10. ASSUME NEW p \in Peers, Taken(p)
       PROVE  /\ conn'[k].st # "WaitingForAccept"
              /\ conn'[k].st = "Idle" => hist'[Owner(k)][SessionOf(k)'].end \in Own
  <2>1. CASE RepulseStep(p) \/ DiscardStep(p)
    <3>1. Rests(k) /\ nSessions' = nSessions
      BY <2>1 DEF RepulseStep, DiscardStep, Rests, Keeps, Settles
    <3> QED
      BY <1>3, <3>1
  <2>2. CASE AcceptedStep \/ \E s \in Sessions : TakeRequestStep(s)
    BY <1>2, <1>3, <2>2 DEF AcceptedStep, TakeRequestStep, RestBut
  <2>3. ASSUME NEW i \in Conns, TakeDataStep(p, i) \/ AckStep(p, i)
        PROVE  /\ conn'[k].st # "WaitingForAccept"
               /\ conn'[k].st = "Idle" => hist'[Owner(k)][SessionOf(k)'].end \in Own
    <3>1. conn'[i].st = "Active" /\ RestBut(i) /\ nSessions' = nSessions
      BY <2>3 DEF TakeDataStep, AckStep, Runs, Keeps
    <3> QED
      BY <1>3, <3>1 DEF RestBut
  <2>4. ASSUME NEW i \in Conns, FailStep(p, i)
        PROVE  /\ conn'[k].st # "WaitingForAccept"
               /\ conn'[k].st = "Idle" => hist'[Owner(k)][SessionOf(k)'].end \in Own
    BY <1>2, <1>3, <2>4 DEF FailStep, RestBut
  <2> QED
    BY <1>10, <2>1, <2>2, <2>3, <2>4 DEF Taken
<1>11. ASSUME NEW p \in Peers, OfflineStep(p)
       PROVE  /\ conn'[k].st # "WaitingForAccept"
              /\ conn'[k].st = "Idle" => hist'[Owner(k)][SessionOf(k)'].end \in Own
  <2>1. nSessions' = nSessions /\ up' = [up EXCEPT ![p] = FALSE] /\ up \in [Peers -> BOOLEAN]
    BY <1>1, <1>11 DEF OfflineStep, TypeOK
  <2>2. CASE Rests(k)
    BY <1>3, <2>1, <2>2
  <2>3. CASE ~Rests(k)
    <3>1. Owner(k) = p
      BY <1>11, <2>3 DEF OfflineStep
    <3>2. ~up'[Owner(k)]
      BY <2>1, <3>1
    <3>3. conn'[k].emits = "none"
      BY <3>2 DEF StreamsOK
    <3> QED
      BY <1>2, <3>3
  <2> QED
    BY <2>2, <2>3
<1> QED
  BY <1>6, <1>7, <1>8, <1>9, <1>10, <1>11 DEF Step

LEMMA ToldInit == Init => Told
  BY DEF Init, Fresh, Told

(* `again' is set by what follows readyRead() only.                         *)
SetsField(q, u, x) ==
    \/ hist' = [hist EXCEPT ![q][u].end = x]
    \/ hist' = [hist EXCEPT ![q][u].hasty = x]
    \/ hist' = [hist EXCEPT ![q][u].sent = x]
    \/ hist' = [hist EXCEPT ![q][u].got = x]
    \/ hist' = [hist EXCEPT ![q][u].acked = x]

LEMMA FieldsKeep ==
    ASSUME TypeOK, NEW q \in Peers, NEW u \in Sids, NEW x, SetsField(q, u, x)
    PROVE  \A p \in Peers, s \in Sids : hist'[p][s].again = hist[p][s].again
<1>1. hist \in [Peers -> [Sids -> Histories]] /\ hist[q][u] \in Histories
  BY DEF TypeOK
<1>2. PICK h : h.again = hist[q][u].again
               /\ hist' = [hist EXCEPT ![q] = [hist[q] EXCEPT ![u] = h]]
  <2>1. \A y : /\ [hist[q][u] EXCEPT !.end = y].again = hist[q][u].again
               /\ [hist[q][u] EXCEPT !.hasty = y].again = hist[q][u].again
               /\ [hist[q][u] EXCEPT !.sent = y].again = hist[q][u].again
               /\ [hist[q][u] EXCEPT !.got = y].again = hist[q][u].again
               /\ [hist[q][u] EXCEPT !.acked = y].again = hist[q][u].again
    BY <1>1 DEF Histories
  <2>2. CASE hist' = [hist EXCEPT ![q][u].end = x]
    <3>1. hist' = [hist EXCEPT ![q] = [hist[q] EXCEPT ![u] = [hist[q][u] EXCEPT !.end = x]]]
      BY <2>2
    <3> QED
      BY <2>1, <3>1
  <2>3. CASE hist' = [hist EXCEPT ![q][u].hasty = x]
    <3>1. hist' = [hist EXCEPT ![q] = [hist[q] EXCEPT ![u] = [hist[q][u] EXCEPT !.hasty = x]]]
      BY <2>3
    <3> QED
      BY <2>1, <3>1
  <2>4. CASE hist' = [hist EXCEPT ![q][u].sent = x]
    <3>1. hist' = [hist EXCEPT ![q] = [hist[q] EXCEPT ![u] = [hist[q][u] EXCEPT !.sent = x]]]
      BY <2>4
    <3> QED
      BY <2>1, <3>1
  <2>5. CASE hist' = [hist EXCEPT ![q][u].got = x]
    <3>1. hist' = [hist EXCEPT ![q] = [hist[q] EXCEPT ![u] = [hist[q][u] EXCEPT !.got = x]]]
      BY <2>5
    <3> QED
      BY <2>1, <3>1
  <2>6. CASE hist' = [hist EXCEPT ![q][u].acked = x]
    <3>1. hist' = [hist EXCEPT ![q] = [hist[q] EXCEPT ![u] = [hist[q][u] EXCEPT !.acked = x]]]
      BY <2>6
    <3> QED
      BY <2>1, <3>1
  <2> QED
    BY <2>2, <2>3, <2>4, <2>5, <2>6 DEF SetsField
<1>3. \A p \in Peers, s \in Sids : hist'[p][s] = IF p = q /\ s = u THEN h ELSE hist[p][s]
  BY <1>1, <1>2
<1> QED
  BY <1>2, <1>3

LEMMA AgainStep ==
    ASSUME TypeOK, Told, [Next]_vars
    PROVE  AgainKept
<1>1. /\ \A i \in Conns : Owner(i) \in Peers /\ SessionOf(i) \in Sids /\ conn[i].session \in Sids
      /\ nSessions \in Sids /\ Conns = Sids /\ Requester \in Peers /\ Acceptor \in Peers
  BY PeersType, FieldTypes DEF SessionOf
<1>2. CASE \A p \in Peers, s \in Sids : hist'[p][s].again = hist[p][s].again
  BY <1>2 DEF AgainKept
<1>3. CASE hist' = hist
  BY <1>2, <1>3
<1>4. ASSUME NEW q \in Peers, NEW u \in Sids, NEW x, SetsField(q, u, x)
      PROVE  AgainKept
  BY <1>2, <1>4, FieldsKeep
<1>5. ASSUME NEW i \in Conns, ReadyReadReturns(i)
      PROVE  AgainKept
  <2>1. CASE Finish(Owner(i), SessionOf(i), "connectionClosed") \/ Finish(Owner(i), SessionOf(i), "undone")
    <3>1. \E x : SetsField(Owner(i), SessionOf(i), x)
      BY <2>1 DEF SetsField, Finish
    <3> QED
      BY <1>1, <1>4, <3>1
  <2>2. CASE conn[i].st = "Idle" /\ hist' = [hist EXCEPT ![Owner(i)][SessionOf(i)].again = TRUE]
    <3>1. hist[Owner(i)][SessionOf(i)].end \in Own
      BY <1>5, <2>2 DEF Told, ReadyReadReturns
    <3>2. hist \in [Peers -> [Sids -> Histories]]
      BY DEF TypeOK
    <3>3. \A p \in Peers, s \in Sids :
            p # Owner(i) \/ s # SessionOf(i) => hist'[p][s] = hist[p][s]
      BY <1>1, <2>2, <3>2
    <3> QED
      BY <3>1, <3>3 DEF AgainKept
  <2> QED
    BY <1>5, <2>1, <2>2 DEF ReadyReadReturns
<1>6. ASSUME NEW p \in Peers, GoOffline(p)
      PROVE  AgainKept
  <2>1. hist \in [Peers -> [Sids -> Histories]]
    BY DEF TypeOK
  <2>2. \A s \in Sids : \A x : [hist[p][s] EXCEPT !.end = x].again = hist[p][s].again
    BY <2>1 DEF Histories
  <2>3. \A s \in Sids : hist'[p][s].again = hist[p][s].again
    <3>1. TAKE s \in Sids
    <3>2. hist'[p][s] = hist[p][s] \/ \E x : hist'[p][s] = [hist[p][s] EXCEPT !.end = x]
      BY <1>6, <2>1 DEF GoOffline
    <3>3. hist'[p][s].again = hist[p][s].again
      BY <2>2, <3>1, <3>2
    <3> QED
      BY <3>3
  <2>4. \A q \in Peers, s \in Sids : q # p => hist'[q][s] = hist[q][s]
    BY <1>6, <2>1 DEF GoOffline
  <2> QED
    BY <1>2, <2>3, <2>4
<1>7. ASSUME NEW i \in Conns, NEW n \in 1..MaxBytes[Owner(i)], Write(i, n)
      PROVE  AgainKept
  <2>1. \E x : SetsField(Owner(i), conn[i].session, x)
    BY <1>7 DEF Write, SetsField
  <2> QED
    BY <1>1, <1>4, <2>1
<1>8. ASSUME NEW i \in Conns, ClosePend(i) \/ CloseNow(i) \/ DropIncoming(i)
      PROVE  AgainKept
  <2>1. \/ hist' = hist
        \/ \E x : SetsField(Owner(i), SessionOf(i), x)
        \/ \E x : SetsField(Owner(i), conn[i].session, x)
        \/ \E x : SetsField(Acceptor, i, x)
    <3>1. CASE ClosePend(i)
      BY <3>1 DEF ClosePend, SetsField
    <3>2. CASE CloseNow(i)
      BY <3>2 DEF CloseNow, Finish, SetsField
    <3>3. CASE DropIncoming(i)
      BY <3>3 DEF DropIncoming, Finish, SetsField
    <3> QED
      BY <1>8, <3>1, <3>2, <3>3
  <2> QED
    BY <1>1, <1>3, <1>4, <2>1
<1>9. CASE ConnectToJid
  <2>1. hist' = hist \/ \E x : SetsField(Requester, nSessions, x)
    BY <1>9 DEF ConnectToJid, SetsField
  <2> QED
    BY <1>1, <1>3, <1>4, <2>1
<1>10. ASSUME NEW i \in Conns, BytesWrittenReturns(i)
       PROVE  AgainKept
  <2>1. hist' = hist \/ \E x : SetsField(Owner(i), conn[i].session, x)
    BY <1>10 DEF BytesWrittenReturns, Finish, SetsField
  <2> QED
    BY <1>1, <1>3, <1>4, <2>1
<1>11. ASSUME NEW p \in Peers, RecvData(p)
       PROVE  AgainKept
  <2>1. PICK i \in Found(p, Head(net[p]).session) : TRUE
    BY <1>11 DEF RecvData
  <2>2. Head(net[p]).session \in Sids
    BY <1>1, <2>1 DEF Found, ConnsOf
  <2>3. \E x : SetsField(p, Head(net[p]).session, x)
    BY <1>11 DEF RecvData, SetsField
  <2> QED
    BY <1>4, <2>2, <2>3
<1>12. ASSUME NEW p \in Peers, RecvAck(p)
       PROVE  AgainKept
  <2>1. PICK i \in Awaiting(p, Head(net[p]).id, "data") :
           \E x : SetsField(p, conn[i].session, x)
    BY <1>12 DEF RecvAck, SetsField
  <2>2. conn[i].session \in Sids
    BY <1>1, <2>1 DEF Awaiting, ConnsOf
  <2> QED
    BY <1>4, <2>1, <2>2
<1>13. ASSUME NEW p \in Peers, RecvError(p)
       PROVE  AgainKept
  <2>1. PICK i \in Conns : \/ Finish(p, nSessions, "ErrRequest")
                           \/ Finish(p, conn[i].session, "ErrData")
    BY <1>13 DEF RecvError, Awaiting, ConnsOf
  <2>2. \/ \E x : SetsField(p, nSessions, x)
        \/ \E x : SetsField(p, conn[i].session, x)
    BY <2>1 DEF Finish, SetsField
  <2> QED
    BY <1>1, <1>4, <2>2
<1>14. ASSUME \/ \E i \in Conns : Accept(i) \/ Read(i) \/ TimerFires(i)
              \/ \E p \in Peers : RecvNoStream(p) \/ RecvAccepted(p) \/ RecvStale(p) \/ Bounce(p)
              \/ RecvRequest \/ UNCHANGED vars
       PROVE  AgainKept
  BY <1>3, <1>14
     DEF Accept, Read, TimerFires, RecvNoStream, RecvAccepted, RecvStale, Bounce, RecvRequest, vars
<1> QED
  BY <1>5, <1>6, <1>7, <1>8, <1>9, <1>10, <1>11, <1>12, <1>13, <1>14
     DEF Next, Application, Receive, Return


(* The task of an end is nobody else's at that end.                         *)
TasksAlone ==
    \A i, k \in Conns :
      Owner(i) = Owner(k) /\ conn[i].j = conn[k].j /\ conn[i].j # NoTask => i = k

(* The packet that closes session s, on its way to p, or ahead of position  *)
(* k there.                                                                 *)
IsClose(m, s) == Data(m) /\ m.session = s /\ m.close
CloseComes(p, s) == \E m \in Coming[p] : IsClose(m, s)
ClosesBefore(p, k, s) == \E l \in 1..Len(net[p]) : l < k /\ IsClose(net[p][l], s)

Online == \A p \in Peers : up[p]
Awaits(s) == conn[0].st = "Requesting" /\ nSessions = s

(* Connection k is p's end of session s, and has not taken the close of the *)
(* other end.                                                               *)
There(k, p, s) == Runs(k, p, s) /\ conn[k].emits # "readyRead"
GaveUp(p, s) == hist[p][s].end \in {"abandoned", "undone"}

(* Why connection i is there while everybody is online: the other end is,   *)
(* or will be when it learns that it was accepted; or it gave the session   *)
(* up; or its close is on the way; or it has taken the close of this end.   *)
OtherThere(p, s) == (\E k \in Conns : There(k, Other(p), s)) \/ (p = Acceptor /\ Awaits(s))
Linked(i, p, s) ==
    \/ OtherThere(p, s)
    \/ GaveUp(Other(p), s)
    \/ CloseComes(p, s)
    \/ conn[i].closing /\ (Answers(i, p) # {} \/ conn[i].j = NoTask)
(* A packet of it fails when the other end gave the session up, or else the *)
(* close of that end comes first.                                           *)
Bounced(i, p, s) ==
    \A k \in 1..Len(net[p]) :
      net[p][k].kind = "error" /\ conn[i].j = Task("data", net[p][k].id) =>
        GaveUp(Other(p), s) \/ ClosesBefore(p, k, s)
(* The close of this end is on its way as long as the other end is there.   *)
Parts(i, p, s) == conn[i].closing /\ OtherThere(p, s) => CloseComes(Other(p), s)
CauseKnown(i, p, s) ==
    /\ Linked(i, p, s)
    /\ Bounced(i, p, s)
    /\ \A m \in Coming[Other(p)] : IsClose(m, s) => conn[i].closing /\ conn[i].j = Task("data", m.id)
    /\ Parts(i, p, s)
Caused == \A i \in Conns, p \in Peers, s \in Sessions : There(i, p, s) => CauseKnown(i, p, s)

Refusals ==
    \A a \in Coming[Requester] :
      a.kind = "error" /\ conn[0].j = Task("request", a.id) => hist[Acceptor][nSessions].end # "open"
DataErrors ==
    \A p \in Peers, s \in Sessions :
      hist[p][s].end = "ErrData" => GaveUp(Other(p), s)

(* A request that the acceptor has not dealt with is the one the requester  *)
(* waits for, or the requester has abandoned it.                            *)
AskedFor(s, id) ==
    \/ Awaits(s) /\ conn[0].j = Task("request", id)
    \/ GaveUp(Requester, s)
Asked ==
    /\ \A s \in Sessions : conn[s].st = "WaitingForAccept" => AskedFor(s, conn[s].iqId)
    /\ \A m \in Coming[Acceptor] : m.kind = "request" => AskedFor(m.session, m.id)

(* The answer that a stream was accepted comes before anything sent in it.  *)
Yes(k) == net[Requester][k].kind = "result" /\ conn[0].j = Task("request", net[Requester][k].id)
YesFirst(k, s) ==
    \A l \in 1..Len(net[Requester]) :
      Data(net[Requester][l]) /\ net[Requester][l].session = s => k < l
AnsweredBy(s) ==
    /\ conn[s].st # "Idle" => conn[s].emits = "none"
    /\ conn[s].st = "Active" =>
         /\ \E k \in 1..Len(net[Requester]) : Yes(k)
         /\ conn[s].j # NoTask =>
              \E m \in Coming[Requester] : Data(m) /\ conn[s].j = Task("data", m.id)
    /\ \A k \in 1..Len(net[Requester]) : Yes(k) =>
         /\ conn[s].st = "Active" \/ CloseComes(Requester, s)
         /\ YesFirst(k, s)
Answered == conn[0].st = "Requesting" => AnsweredBy(nSessions)

Causes == TasksAlone /\ (Online => Caused /\ Refusals /\ DataErrors /\ Asked /\ Answered)


LEMMA TasksAloneStep == Basis /\ TasksAlone /\ Step => TasksAlone'
<1> SUFFICES ASSUME Basis, TasksAlone, Step PROVE TasksAlone'
  OBVIOUS
<1>1. TypeOK /\ Ids
  BY DEF Basis
<1>2. ASSUME \A k \in Conns : conn'[k].j = NoTask \/ conn'[k].j = conn[k].j
      PROVE  TasksAlone'
  BY <1>2 DEF TasksAlone
<1>3. \A k \in Conns : Rests(k) \/ Stops(k) => conn'[k].j = NoTask \/ conn'[k].j = conn[k].j
  BY DEF Rests, Keeps, Stops
<1>4. ASSUME NEW i \in Conns, RestBut(i), conn'[i].j = NoTask \/ conn'[i].j = conn[i].j
      PROVE  TasksAlone'
  BY <1>2, <1>4 DEF RestBut, Rests, Keeps
<1>5. ASSUME NEW i \in Conns, NEW bytes, NEW m, SendStep(i, bytes, m)
      PROVE  TasksAlone'
  <2>1. conn'[i].j.id = nextId[Owner(i)] /\ nextId[Owner(i)] \in Nat
    BY <1>1, <1>5, TaskFields, PeersType, IdTypes DEF SendStep
  <2>2. \A k \in Conns \ {i} : conn'[k].j = conn[k].j /\ conn[k].j.id \in Nat
                               /\ conn[k].j.id < nextId[Owner(k)]
    BY <1>1, <1>5, IdTypes DEF SendStep, RestBut, Rests, Keeps, Ids, IdsUsed
  <2>3. \A k \in Conns \ {i} : Owner(k) = Owner(i) => conn'[k].j # conn'[i].j
    BY <2>1, <2>2
  <2> QED
    BY <2>2, <2>3 DEF TasksAlone
<1>6. ASSUME NEW before, NEW m, ConnectStep(before, m)
      PROVE  TasksAlone'
  BY <1>6, PeersType DEF ConnectStep, RestBut, Rests, Keeps, TasksAlone
<1>7. ASSUME NEW i \in Conns,
             \/ AcceptStep(i) \/ (\E how \in Ends : LeaveStep(i, how) \/ EndStep(i, how))
             \/ RefuseStep(i) \/ CloseStep(i) \/ \E bytes \in Seq(Nat) : WriteStep(i, bytes)
      PROVE  TasksAlone'
  BY <1>3, <1>4, <1>7 DEF AcceptStep, LeaveStep, EndStep, RefuseStep, CloseStep, WriteStep
<1>8. ASSUME NEW p \in Peers, NEW i \in Conns, TakeDataStep(p, i) \/ AckStep(p, i) \/ FailStep(p, i)
      PROVE  TasksAlone'
  BY <1>3, <1>4, <1>8 DEF TakeDataStep, AckStep, FailStep, Keeps
<1>9. ASSUME NEW s \in Sessions, TakeRequestStep(s)
      PROVE  TasksAlone'
  BY <1>4, <1>9, PeersType DEF TakeRequestStep
<1>10. AcceptedStep => TasksAlone'
  BY <1>4, PeersType DEF AcceptedStep
<1>11. ASSUME NEW p \in Peers, OfflineStep(p)
       PROVE  TasksAlone'
  BY <1>2, <1>3, <1>11 DEF OfflineStep
<1>12. RestStep => TasksAlone'
  BY <1>2, <1>3 DEF RestStep
<1>13. ASSUME NEW p \in Peers, RepulseStep(p) \/ DiscardStep(p)
       PROVE  TasksAlone'
  BY <1>2, <1>13 DEF RepulseStep, DiscardStep
<1> QED
  BY <1>5, <1>6, <1>7, <1>8, <1>9, <1>10, <1>11, <1>12, <1>13 DEF Step, Taken

(* What is on its way to p tells connection i what it told before.          *)
NetKeeps(i, p, s) ==
    /\ \A k \in 1..Len(net'[p]) :
         net'[p][k].kind = "error" /\ conn[i].j = Task("data", net'[p][k].id) =>
           \E l \in 1..Len(net[p]) :
             net[p][l] = net'[p][k] /\ (ClosesBefore(p, l, s) => ClosesBefore(p, k, s)')
    /\ CloseComes(p, s) => CloseComes(p, s)'
    /\ (Answers(i, p)' # {}) <=> (Answers(i, p) # {})

LEMMA NetUnmoved ==
    ASSUME NEW i, NEW p, NEW s, Unmoved(p), conn'[i].j = conn[i].j
    PROVE  NetKeeps(i, p, s)
BY DEF NetKeeps, Unmoved, ClosesBefore, CloseComes, Answers

LEMMA OthersWait ==
    ASSUME TypeOK, NEW p \in Peers, Popped(p)
    PROVE  \A n \in Coming[p] : n = Head(net[p]) \/ n \in Coming'[p]
<1>1. /\ Coming[p] = {net[p][k] : k \in 1..Len(net[p])}
      /\ Coming'[p] = {net'[p][k] : k \in 1..Len(net'[p])}
  BY DEF Coming
<1>2. TAKE n \in Coming[p]
<1>3. PICK k \in 1..Len(net[p]) : n = net[p][k]
  BY <1>1
<1>4. CASE k = 1
  BY <1>3, <1>4 DEF Popped
<1>5. CASE k > 1
  BY <1>1, <1>3, <1>5 DEF Popped
<1>6. Len(net[p]) \in Nat
  BY ComingType
<1> QED
  BY <1>4, <1>5, <1>6

LEMMA NetPopped ==
    ASSUME TypeOK, TypeOK', NEW i \in Conns, NEW p \in Peers, NEW s, Popped(p),
           conn'[i].j = conn[i].j, ~IsClose(Head(net[p]), s),
           ~(Head(net[p]).kind = "result" /\ conn[i].j = Task("data", Head(net[p]).id))
    PROVE  NetKeeps(i, p, s)
<1>1. Len(net[p]) \in Nat /\ Len(net'[p]) \in Nat /\ Head(net[p]) = net[p][1]
  BY ComingType DEF TypeOK, Popped
<1>2. /\ Coming[p] = {net[p][k] : k \in 1..Len(net[p])}
      /\ Coming'[p] = {net'[p][k] : k \in 1..Len(net'[p])}
  BY DEF Coming
<1>3. \A m \in Coming[p] : m = Head(net[p]) \/ m \in Coming'[p]
  BY OthersWait
<1>4. CloseComes(p, s) => CloseComes(p, s)'
  BY <1>3 DEF CloseComes
<1>5. (Answers(i, p)' # {}) <=> (Answers(i, p) # {})
  BY <1>3 DEF Answers, Popped
<1>6. \A k \in 1..Len(net'[p]) :
        /\ k + 1 \in 1..Len(net[p]) /\ net[p][k + 1] = net'[p][k]
        /\ ClosesBefore(p, k + 1, s) => ClosesBefore(p, k, s)'
  <2>1. TAKE k \in 1..Len(net'[p])
  <2>2. k + 1 \in 1..Len(net[p]) /\ net[p][k + 1] = net'[p][k]
    BY DEF Popped
  <2>3. ASSUME NEW l \in 1..Len(net[p]), l < k + 1, IsClose(net[p][l], s)
        PROVE  ClosesBefore(p, k, s)'
    <3>1. l # 1
      BY <1>1, <2>3
    <3>2. l - 1 \in 1..Len(net'[p]) /\ net'[p][l - 1] = net[p][l] /\ l - 1 < k
      BY <1>1, <2>3, <3>1 DEF Popped
    <3> QED
      BY <2>3, <3>2 DEF ClosesBefore
  <2> QED
    BY <2>2, <2>3 DEF ClosesBefore
<1> QED
  BY <1>4, <1>5, <1>6 DEF NetKeeps

LEMMA NetLonger ==
    ASSUME NEW i \in Conns, NEW p \in Peers, NEW s, conn'[i].j = conn[i].j,
           \A k \in 1..Len(net[p]) : k \in 1..Len(net'[p]) /\ net'[p][k] = net[p][k],
           \A k \in 1..Len(net'[p]) : k \notin 1..Len(net[p]) =>
             ~(net'[p][k].kind \in {"error", "result"} /\ conn[i].j = Task("data", net'[p][k].id))
    PROVE  NetKeeps(i, p, s)
<1>1. /\ Coming[p] = {net[p][k] : k \in 1..Len(net[p])}
      /\ Coming'[p] = {net'[p][k] : k \in 1..Len(net'[p])}
  BY DEF Coming
<1>2. CloseComes(p, s) => CloseComes(p, s)'
  BY <1>1 DEF CloseComes
<1>3. (Answers(i, p)' # {}) <=> (Answers(i, p) # {})
  <2>1. Answers(i, p) \subseteq Answers(i, p)'
    BY <1>1 DEF Answers
  <2>2. Answers(i, p)' \subseteq Answers(i, p)
    BY <1>1 DEF Answers
  <2> QED
    BY <2>1, <2>2
<1>4. ASSUME NEW k \in 1..Len(net[p])
      PROVE  ClosesBefore(p, k, s) => ClosesBefore(p, k, s)'
  BY DEF ClosesBefore
<1> QED
  BY <1>2, <1>3, <1>4 DEF NetKeeps

LEMMA NetPushed ==
    ASSUME TypeOK, NEW i \in Conns, NEW p \in Peers, NEW s, conn'[i].j = conn[i].j,
           NEW m, Pushed(p, m),
           ~(m.kind \in {"error", "result"} /\ conn[i].j = Task("data", m.id))
    PROVE  NetKeeps(i, p, s)
<1>1. Len(net[p]) \in Nat
  BY ComingType
<1>2. \A k \in 1..Len(net'[p]) : k \notin 1..Len(net[p]) => net'[p][k] = m
  BY <1>1 DEF Pushed
<1>3. \A k \in 1..Len(net[p]) : k \in 1..Len(net'[p]) /\ net'[p][k] = net[p][k]
  BY DEF Pushed
<1> QED
  BY <1>2, <1>3, NetLonger

(* What is known of an end that the step leaves alone.                      *)
LEMMA CauseKept ==
    ASSUME EndsKeep, NEW i \in Conns, NEW p \in Peers, NEW s \in Sids, CauseKnown(i, p, s),
           conn'[i].j = conn[i].j, conn'[i].closing = conn[i].closing, NetKeeps(i, p, s),
           OtherThere(p, s) => Linked(i, p, s)',
           \A m \in Coming'[Other(p)] : IsClose(m, s) => m \in Coming[Other(p)],
           Parts(i, p, s) => Parts(i, p, s)'
    PROVE  CauseKnown(i, p, s)'
<1>1. Other(p) \in Peers
  BY PeersType
<1>2. GaveUp(Other(p), s) => GaveUp(Other(p), s)'
  BY <1>1 DEF EndsKeep, EndKept, GaveUp
<1>3. Linked(i, p, s)'
  BY <1>2 DEF CauseKnown, Linked, NetKeeps
<1>4. Bounced(i, p, s)'
  BY <1>2 DEF CauseKnown, Bounced, NetKeeps
<1>5. \A m \in Coming'[Other(p)] : IsClose(m, s) => conn'[i].closing /\ conn'[i].j = Task("data", m.id)
  BY DEF CauseKnown
<1>6. Parts(i, p, s)'
  BY DEF CauseKnown
<1> QED
  BY <1>3, <1>4, <1>5, <1>6 DEF CauseKnown

(* What the step does to connection i matters to its other end.             *)
LEMMA ThereKept ==
    ASSUME NEW i \in Conns, RestBut(i), i # 0 => nSessions' = nSessions,
           NEW p \in Peers, NEW s, OtherThere(p, s),
           ~(Owner(i) = Other(p) /\ IsOf(i, s))
    PROVE  OtherThere(p, s)'
<1>1. \A k \in Conns : There(k, Other(p), s) => There(k, Other(p), s)'
  BY DEF RestBut, Rests, Keeps, Settles, Runs, There, IsOf
<1>2. p = Acceptor /\ Awaits(s) => i # 0 /\ Awaits(s)'
  BY PeersType DEF RestBut, Rests, Keeps, Awaits, IsOf, SessionOf
<1> QED
  BY <1>1, <1>2 DEF OtherThere

LEMMA ThereBack ==
    ASSUME NEW i \in Conns, RestBut(i), i # 0 => nSessions' = nSessions,
           NEW p \in Peers, NEW s, OtherThere(p, s)',
           There(i, Other(p), s)' => OtherThere(p, s),
           i = 0 /\ p = Acceptor /\ Awaits(s)' => OtherThere(p, s)
    PROVE  OtherThere(p, s)
<1>1. \A k \in Conns \ {i} : There(k, Other(p), s)' => There(k, Other(p), s)
  BY DEF RestBut, Rests, Keeps, Settles, Runs, There
<1>2. i # 0 /\ Awaits(s)' => Awaits(s)
  BY PeersType DEF RestBut, Rests, Keeps, Awaits
<1> QED
  BY <1>1, <1>2 DEF OtherThere

(* A close is on its way until it is taken.                                 *)
LEMMA ClosesStay ==
    ASSUME TypeOK, NEW p \in Peers, NEW s,
           \/ Unmoved(p) \/ \E m : Pushed(p, m)
           \/ Popped(p) /\ ~IsClose(Head(net[p]), s)
    PROVE  CloseComes(p, s) => CloseComes(p, s)'
<1>1. CASE Popped(p) /\ ~IsClose(Head(net[p]), s)
  BY <1>1, OthersWait DEF CloseComes
<1>2. CASE Unmoved(p) \/ \E m : Pushed(p, m)
  BY <1>2 DEF CloseComes, Unmoved, Pushed
<1> QED
  BY <1>1, <1>2

LEMMA CausedBut ==
    ASSUME Basis, EndsKeep, Caused, NEW i \in Conns, RestBut(i), i # 0 => nSessions' = nSessions,
           \A p \in Peers, s \in Sessions : There(i, p, s)' => CauseKnown(i, p, s)',
           \A k \in Conns \ {i} : \A p \in Peers, s \in Sessions : There(k, p, s) =>
             \/ CauseKnown(k, p, s)'
             \/ /\ NetKeeps(k, p, s)
                /\ \A m \in Coming'[Other(p)] : IsClose(m, s) => m \in Coming[Other(p)]
                /\ Owner(i) = Other(p) /\ IsOf(i, s) => Linked(k, p, s)'
                /\ CloseComes(Other(p), s) => CloseComes(Other(p), s)'
                /\ There(i, Other(p), s)' => OtherThere(p, s)
                /\ i = 0 /\ p = Acceptor /\ Awaits(s)' => OtherThere(p, s)
    PROVE  Caused'
<1> SUFFICES ASSUME NEW k \in Conns, NEW p \in Peers, NEW s \in Sessions, There(k, p, s)'
             PROVE  CauseKnown(k, p, s)'
  BY DEF Caused
<1>1. CASE k = i
  BY <1>1
<1>2. CASE k # i
  <2>1. /\ There(k, p, s) /\ s \in Sids
        /\ conn'[k].j = conn[k].j /\ conn'[k].closing = conn[k].closing
    BY <1>2 DEF RestBut, Rests, Keeps, Settles, Runs, There, Sessions
  <2>2. SUFFICES ASSUME NetKeeps(k, p, s),
                        \A m \in Coming'[Other(p)] : IsClose(m, s) => m \in Coming[Other(p)],
                        Owner(i) = Other(p) /\ IsOf(i, s) => Linked(k, p, s)',
                        CloseComes(Other(p), s) => CloseComes(Other(p), s)',
                        There(i, Other(p), s)' => OtherThere(p, s),
                        i = 0 /\ p = Acceptor /\ Awaits(s)' => OtherThere(p, s)
                 PROVE  CauseKnown(k, p, s)'
    BY <1>2, <2>1
  <2>3. OtherThere(p, s) => Linked(k, p, s)'
    BY <2>2, ThereKept DEF Linked
  <2>4. CauseKnown(k, p, s)
    BY <2>1 DEF Caused
  <2>5. Parts(k, p, s) => Parts(k, p, s)'
    BY <2>1, <2>2, ThereBack DEF Parts
  <2> QED
    BY <2>1, <2>2, <2>3, <2>4, <2>5, CauseKept
<1> QED
  BY <1>1, <1>2


(* The steps of an end's own.                                               *)
Known == Basis /\ Step /\ TasksAlone /\ Caused /\ Refusals /\ DataErrors /\ Asked /\ Answered

LEMMA Counterpart ==
    ASSUME EndsKnown, NEW i \in Conns, NEW k \in Conns \ {i}, NEW p \in Peers, NEW s,
           IsOf(i, s), Runs(k, p, s)
    PROVE  Owner(i) = Other(p)
BY OneEnd, PeersType DEF Runs

LEMMA OpenRuns ==
    ASSUME EndsKnown, NEW k \in Conns, NEW p, NEW s, Runs(k, p, s)
    PROVE  hist[p][s].end = "open"
BY DEF EndsKnown, Runs

LEMMA RestCaused ==
    ASSUME Known, NEW i \in Conns, NEW bytes, RestStep \/ WriteStep(i, bytes)
    PROVE  Caused'
<1>1. Basis /\ Caused /\ EndsKeep /\ TypeOK
  BY EndsOnce DEF Known, Basis
<1>2. /\ nSessions' = nSessions /\ net' = net
      /\ \A k \in Conns : /\ conn'[k].st = conn[k].st /\ conn'[k].session = conn[k].session
                         /\ conn'[k].j = conn[k].j /\ conn'[k].closing = conn[k].closing
                         /\ Settles(k)
  BY DEF RestStep, WriteStep, RestBut, Rests, Keeps, Settles
<1>3. \A p \in Peers : Unmoved(p)
  BY <1>2, NetSame
<1>4. \A k \in Conns : \A p, s : There(k, p, s)' <=> There(k, p, s)
  BY <1>2 DEF There, Runs, Settles
<1>5. \A p \in Peers, s \in Sessions : OtherThere(p, s) <=> OtherThere(p, s)'
  BY <1>2, <1>4, PeersType DEF OtherThere, Awaits
<1>6. ASSUME NEW k \in Conns, NEW p \in Peers, NEW s \in Sessions, There(k, p, s)'
      PROVE  CauseKnown(k, p, s)'
  <2>1. /\ There(k, p, s) /\ s \in Sids /\ Other(p) \in Peers
        /\ conn'[k].j = conn[k].j /\ conn'[k].closing = conn[k].closing
    BY <1>2, <1>4, <1>6, PeersType DEF Sessions
  <2>2. CauseKnown(k, p, s) /\ NetKeeps(k, p, s)
    BY <1>1, <1>3, <2>1, NetUnmoved DEF Caused
  <2>3. OtherThere(p, s) => Linked(k, p, s)'
    BY <1>5 DEF Linked
  <2>4. Parts(k, p, s) => Parts(k, p, s)'
    BY <1>1, <1>3, <1>5, <2>1, ClosesStay DEF Parts
  <2> QED
    BY <1>1, <1>3, <2>1, <2>2, <2>3, <2>4, CauseKept DEF Unmoved
<1> QED
  BY <1>6 DEF Caused

LEMMA SendCaused ==
    ASSUME Known, Online, NEW i \in Conns, NEW bytes \in Seq(Nat), NEW m, SendStep(i, bytes, m)
    PROVE  Caused'
<1>1. Basis /\ Caused /\ EndsKeep /\ TypeOK /\ EndsKnown /\ Ids
  BY EndsOnce DEF Known, Basis, SessionsKnown
<1> DEFINE q == Owner(i)
<1>2. /\ q \in Peers /\ Other(q) \in Peers /\ Data(m) /\ m.id = nextId[q]
      /\ m.session = conn[i].session /\ Pushed(Other(q), m) /\ Unmoved(q)
      /\ nSessions' = nSessions /\ RestBut(i) /\ conn[i].j = NoTask
      /\ conn[i].st = "Active" /\ conn'[i].st = "Active" /\ conn'[i].session = conn[i].session
      /\ conn'[i].j = Task("data", m.id) /\ conn'[i].closing = m.close
      /\ conn[i].closing = FALSE /\ conn'[i].emits = conn[i].emits
  <2>1. q \in Peers /\ up[q] /\ Other(q) \in Peers /\ conn[i].closing \in BOOLEAN
    BY <1>1, PeersType, FieldTypes DEF Online
  <2> QED
    BY <2>1 DEF SendStep
<1>3. conn[i].closing = FALSE
  BY <1>2
<1>4. \A p \in Peers, s \in Sessions : OtherThere(p, s) <=> OtherThere(p, s)'
  <2>1. \A k \in Conns : conn'[k].st = conn[k].st /\ conn'[k].session = conn[k].session /\ Settles(k)
    BY <1>2 DEF RestBut, Rests, Keeps, Settles
  <2>2. \A k \in Conns : \A p, s : There(k, p, s)' <=> There(k, p, s)
    BY <2>1 DEF There, Runs, Settles
  <2> QED
    BY <1>2, <2>1, <2>2, PeersType DEF OtherThere, Awaits
<1>5. ASSUME NEW s \in Sessions, There(i, q, s)'
      PROVE  CauseKnown(i, q, s)'
  <2>1. There(i, q, s) /\ s \in Sids /\ s = m.session
    BY <1>2, <1>5 DEF Runs, There, Sessions
  <2>2. CauseKnown(i, q, s)
    BY <1>1, <1>2, <2>1 DEF Caused
  <2>3. \A a \in Coming'[q] : ~IsSet(a) => a.id # m.id
    BY <1>1, <1>2, IdTypes DEF Ids, IdsUsed, Unmoved
  <2>4. Linked(i, q, s)'
    <3>1. OtherThere(q, s) \/ GaveUp(Other(q), s) \/ CloseComes(q, s)
      BY <1>3, <2>2 DEF CauseKnown, Linked
    <3>2. GaveUp(Other(q), s) => GaveUp(Other(q), s)'
      BY <1>1, <1>2, <2>1 DEF EndsKeep, EndKept, GaveUp
    <3>3. CloseComes(q, s) => CloseComes(q, s)'
      BY <1>2 DEF CloseComes, Unmoved
    <3> QED
      BY <1>2, <1>4, <3>1, <3>2, <3>3 DEF Linked
  <2>5. \A k \in 1..Len(net'[q]) : net'[q][k] \in Coming'[q]
    BY <1>2 DEF Coming
  <2>6. Bounced(i, q, s)'
    <3>1. ASSUME NEW k \in 1..Len(net'[q]), net'[q][k].kind = "error"
          PROVE  conn'[i].j # Task("data", net'[q][k].id)
      <4>1. net'[q][k].id # m.id
        BY <2>3, <2>5, <3>1 DEF IsSet
      <4> QED
        BY <1>2, <4>1, TaskFields
    <3> QED
      BY <3>1 DEF Bounced
  <2>7. \A n \in Coming'[Other(q)] : IsClose(n, s) => conn'[i].closing /\ conn'[i].j = Task("data", n.id)
    <3>1. \A n \in Coming[Other(q)] : ~IsClose(n, s)
      BY <1>3, <2>2 DEF CauseKnown
    <3> QED
      BY <1>2, <3>1 DEF Pushed, IsClose
  <2>8. Parts(i, q, s)'
    BY <1>2, <2>1 DEF Parts, CloseComes, IsClose, Pushed
  <2> QED
    BY <2>4, <2>6, <2>7, <2>8 DEF CauseKnown
<1>6. ASSUME NEW k \in Conns \ {i}, NEW p \in Peers, NEW s \in Sessions, There(k, p, s)
      PROVE  /\ NetKeeps(k, p, s)
             /\ \A n \in Coming'[Other(p)] : IsClose(n, s) => n \in Coming[Other(p)]
             /\ OtherThere(p, s) => Linked(k, p, s)'
             /\ CloseComes(Other(p), s) => CloseComes(Other(p), s)'
  <2>0. CloseComes(Other(p), s) => CloseComes(Other(p), s)'
    <3>1. Other(p) \in Peers /\ (Other(p) = q \/ Other(p) = Other(q))
      BY <1>2, PeersType
    <3> QED
      BY <1>1, <1>2, <3>1, ClosesStay
  <2>1. OtherThere(p, s) => Linked(k, p, s)'
    BY <1>4 DEF Linked
  <2>2. conn'[k].j = conn[k].j
    BY <1>2 DEF RestBut, Rests, Keeps
  <2>3. CASE p = q
    <3>1. m.session # s
      <4>1. IsOf(i, m.session) /\ IsOf(k, s) /\ Owner(k) = q
        BY <1>1, <1>2, <1>6, <2>3, OneEnd DEF IsOf, There
      <4> QED
        BY <1>1, <4>1, OneEnd
    <3>2. NetKeeps(k, p, s)
      BY <1>2, <2>2, <2>3, NetUnmoved
    <3> QED
      BY <1>2, <2>0, <2>1, <2>3, <3>1, <3>2 DEF Pushed, IsClose
  <2>4. CASE p = Other(q)
    <3>1. NetKeeps(k, p, s)
      BY <1>1, <1>2, <2>2, <2>4, NetPushed DEF Data
    <3> QED
      BY <1>2, <2>0, <2>1, <2>4, <3>1, PeersType DEF Unmoved
  <2> QED
    BY <1>2, <2>3, <2>4, PeersType
<1>7. \A p \in Peers, s \in Sessions : There(i, p, s)' => CauseKnown(i, p, s)'
  BY <1>2, <1>5 DEF Runs, There
<1>8. ASSUME NEW k \in Conns \ {i}, NEW p \in Peers, NEW s \in Sessions, There(k, p, s)
      PROVE  /\ Owner(i) = Other(p) /\ IsOf(i, s) => Linked(k, p, s)'
             /\ There(i, Other(p), s)' => OtherThere(p, s)
             /\ i = 0 /\ p = Acceptor /\ Awaits(s)' => OtherThere(p, s)
  <2>1. ASSUME Owner(i) = Other(p), IsOf(i, s), conn[i].emits = "readyRead"
        PROVE  Linked(k, p, s)'
    <3>1. Linked(k, p, s) /\ NetKeeps(k, p, s)
      BY <1>1, <1>6, <1>8 DEF Caused, CauseKnown
    <3>2. conn'[k].j = conn[k].j /\ conn'[k].closing = conn[k].closing /\ s \in Sids
      BY <1>2, <1>8 DEF RestBut, Rests, Keeps, Sessions
    <3>3. GaveUp(Other(p), s) => GaveUp(Other(p), s)'
      BY <1>1, <3>2, PeersType DEF EndsKeep, EndKept, GaveUp
    <3> QED
      BY <1>6, <1>8, <3>1, <3>2, <3>3 DEF Linked, NetKeeps
  <2>2. ASSUME Owner(i) = Other(p), IsOf(i, s), conn[i].emits # "readyRead"
        PROVE  Linked(k, p, s)'
    <3>1. OtherThere(p, s)
      BY <1>2, <2>2 DEF OtherThere, Runs, There, IsOf
    <3> QED
      BY <1>6, <1>8, <3>1
  <2>3. There(i, Other(p), s)' => OtherThere(p, s)
    BY <1>2 DEF OtherThere, Runs, There
  <2>4. i = 0 => conn'[0].st # "Requesting"
    BY <1>2
  <2> QED
    BY <2>1, <2>2, <2>3, <2>4 DEF Awaits
<1> QED
  BY <1>1, <1>2, <1>6, <1>7, <1>8, CausedBut


(* The acceptor gives up a request: then the requester is not there.        *)
LEMMA NotRunning ==
    ASSUME Known, NEW i \in Sessions, conn[i].st = "WaitingForAccept",
           NEW k \in Conns, NEW s
    PROVE  ~Runs(k, Requester, i)
<1> SUFFICES ASSUME Runs(k, Requester, i)
             PROVE  FALSE
  OBVIOUS
<1>1. EndsKnown /\ Asked
  BY DEF Known, Basis, SessionsKnown
<1>2. hist[Requester][i].end = "open"
  BY <1>1, OpenRuns
<1>3. k = 0 /\ conn[0].st = "Active"
  BY PeersType DEF Runs
<1> QED
  BY <1>1, <1>2, <1>3 DEF Asked, AskedFor, Awaits, GaveUp

LEMMA AcceptCaused ==
    ASSUME Known, NEW i \in Conns, AcceptStep(i)
    PROVE  Caused'
<1>1. Basis /\ Caused /\ EndsKeep /\ TypeOK /\ EndsKnown /\ Ids /\ Starting /\ ConnectionsOK /\ Asked
  BY EndsOnce DEF Known, Basis, SessionsKnown
<1>2. /\ i \in Sessions /\ i \in Sids /\ Owner(i) = Acceptor /\ conn[i].session = i /\ RestBut(i) /\ i # 0
      /\ conn[i].st = "WaitingForAccept" /\ conn'[i].st = "Active" /\ conn'[i].session = i
      /\ conn'[i].j = NoTask /\ conn[i].closing = FALSE /\ conn'[i].closing = FALSE
      /\ Pushed(Requester, Result(conn[i].iqId, i)) /\ Unmoved(Acceptor)
      /\ hist' = hist /\ nSessions' = nSessions
  BY <1>1, PeersType, FieldTypes DEF AcceptStep, EndsKnown, ConnectionsOK, ConnectionOK, Quiet
<1>3. Result(conn[i].iqId, i).kind = "result" /\ Result(conn[i].iqId, i).id = conn[i].iqId
  BY StanzaFields
<1>4. ASSUME NEW p \in Peers, NEW s \in Sessions, There(i, p, s)'
      PROVE  CauseKnown(i, p, s)'
  <2>1. p = Acceptor /\ s = i
    BY <1>2, <1>4 DEF Runs, There
  <2>2. Silent(Acceptor, i)
    BY <1>1, <1>2 DEF Starting
  <2>3. Linked(i, p, s)'
    <3>1. AskedFor(i, conn[i].iqId)
      BY <1>1, <1>2 DEF Asked
    <3>2. Awaits(i) => Awaits(i)'
      BY <1>2, PeersType DEF Awaits, RestBut, Rests, Keeps
    <3> QED
      BY <1>2, <2>1, <3>1, <3>2, PeersType DEF AskedFor, Linked, OtherThere, GaveUp
  <2>4. Bounced(i, p, s)'
    BY <1>2, TaskFields DEF Bounced
  <2>5. \A n \in Coming'[Requester] : ~IsClose(n, i)
    BY <1>2, <1>3, <2>2, PeersType DEF Silent, Pushed, IsClose, Data
  <2> QED
    BY <1>2, <2>1, <2>3, <2>4, <2>5, PeersType DEF CauseKnown, Parts
<1>5. ASSUME NEW k \in Conns \ {i}, NEW p \in Peers, NEW s \in Sessions, There(k, p, s)
      PROVE  /\ NetKeeps(k, p, s)
             /\ \A n \in Coming'[Other(p)] : IsClose(n, s) => n \in Coming[Other(p)]
             /\ Owner(i) = Other(p) /\ IsOf(i, s) => Linked(k, p, s)'
             /\ CloseComes(Other(p), s) => CloseComes(Other(p), s)'
             /\ There(i, Other(p), s)' => OtherThere(p, s)
             /\ i = 0 /\ p = Acceptor /\ Awaits(s)' => OtherThere(p, s)
  <2>0. CloseComes(Other(p), s) => CloseComes(Other(p), s)'
    BY <1>1, <1>2, ClosesStay, PeersType DEF Peers
  <2>1. conn'[k].j = conn[k].j
    BY <1>2 DEF RestBut, Rests, Keeps
  <2>2. NetKeeps(k, p, s)
    <3>1. CASE p = Requester
      <4>1. k = 0
        BY <1>5, <3>1, PeersType DEF Runs, There
      <4>2. conn[k].j # Task("data", conn[i].iqId)
        BY <1>1, <1>2, <4>1 DEF Ids, TasksMatch
      <4> QED
        BY <1>1, <1>2, <1>3, <2>1, <3>1, <4>2, NetPushed
    <3>2. CASE p = Acceptor
      BY <1>2, <2>1, <3>2, NetUnmoved
    <3> QED
      BY <3>1, <3>2 DEF Peers
  <2>3. \A n \in Coming'[Other(p)] : IsClose(n, s) => n \in Coming[Other(p)]
    BY <1>2, <1>3, PeersType DEF Pushed, Unmoved, IsClose, Data, Peers
  <2>4. ~(p = Requester /\ s = i)
    BY <1>2, <1>5, NotRunning DEF There
  <2>5. ~(Owner(i) = Other(p) /\ IsOf(i, s)) /\ ~There(i, Other(p), s)'
    BY <1>2, <2>4, PeersType DEF There, Runs, IsOf, SessionOf
  <2> QED
    BY <1>2, <2>0, <2>2, <2>3, <2>5
<1> QED
  BY <1>1, <1>2, <1>4, <1>5, CausedBut

LEMMA LeaveCaused ==
    ASSUME Known, NEW i \in Conns, NEW how, LeaveStep(i, how)
    PROVE  Caused'
<1>1. Basis /\ Caused /\ EndsKeep /\ EndsKnown /\ TypeOK
  BY EndsOnce DEF Known, Basis, SessionsKnown
<1>2. /\ conn[i].st \in {"Requesting", "WaitingForAccept"} /\ conn'[i].st = "Idle" /\ RestBut(i)
      /\ nSessions' = nSessions /\ net' = net
      /\ Ended(Owner(i), SessionOf(i), how) /\ (i = 0 => how \in {"abandoned", "undone"})
  BY DEF LeaveStep, Stops
<1>3. \A p \in Peers : Unmoved(p)
  BY <1>2, NetSame
<1>4. ASSUME NEW k \in Conns \ {i}, NEW p \in Peers, NEW s \in Sessions, There(k, p, s)
      PROVE  /\ NetKeeps(k, p, s)
             /\ \A n \in Coming'[Other(p)] : IsClose(n, s) => n \in Coming[Other(p)]
             /\ Owner(i) = Other(p) /\ IsOf(i, s) => Linked(k, p, s)'
             /\ CloseComes(Other(p), s) => CloseComes(Other(p), s)'
             /\ There(i, Other(p), s)' => OtherThere(p, s)
             /\ i = 0 /\ p = Acceptor /\ Awaits(s)' => OtherThere(p, s)
  <2>1. conn'[k].j = conn[k].j
    BY <1>2 DEF RestBut, Rests, Keeps
  <2>2. NetKeeps(k, p, s)
    BY <1>3, <2>1, NetUnmoved
  <2>3. \A n \in Coming'[Other(p)] : n \in Coming[Other(p)]
    BY <1>3, PeersType DEF Unmoved
  <2>4. ASSUME Owner(i) = Other(p), IsOf(i, s)
        PROVE  Linked(k, p, s)'
    <3>1. s = SessionOf(i)
      BY <1>2, <2>4 DEF IsOf
    <3>2. CASE i = 0
      BY <1>2, <2>4, <3>1, <3>2 DEF Linked, Ended, GaveUp
    <3>3. CASE i # 0
      <4>1. i \in Sessions /\ s = i /\ p = Requester /\ conn[i].st = "WaitingForAccept"
        BY <1>1, <1>2, <2>4, <3>1, <3>3, PeersType DEF SessionOf, EndsKnown
      <4> QED
        BY <1>4, <4>1, NotRunning DEF There
    <3> QED
      BY <3>2, <3>3
  <2>5. CloseComes(Other(p), s) => CloseComes(Other(p), s)'
    BY <1>1, <1>3, ClosesStay, PeersType
  <2>6. ~There(i, Other(p), s)' /\ (i = 0 => ~Awaits(s)')
    BY <1>2 DEF There, Runs, Awaits
  <2> QED
    BY <2>2, <2>3, <2>4, <2>5, <2>6
<1>5. \A p \in Peers, s \in Sessions : ~There(i, p, s)'
  BY <1>2 DEF Runs, There
<1> QED
  BY <1>1, <1>2, <1>4, <1>5, CausedBut

LEMMA RefuseCaused ==
    ASSUME Known, NEW i \in Conns, RefuseStep(i)
    PROVE  Caused'
<1>1. Basis /\ Caused /\ EndsKeep /\ EndsKnown /\ TypeOK /\ Ids
  BY EndsOnce DEF Known, Basis, SessionsKnown
<1>2. /\ i \in Sessions /\ Owner(i) = Acceptor
      /\ conn[i].st = "WaitingForAccept" /\ conn'[i].st = "Idle" /\ RestBut(i)
      /\ nSessions' = nSessions
      /\ Pushed(Requester, Error(conn[i].iqId)) /\ Unmoved(Acceptor)
  BY PeersType DEF RefuseStep, Stops
<1>3. Error(conn[i].iqId).kind = "error" /\ Error(conn[i].iqId).id = conn[i].iqId
  BY StanzaFields
<1>4. ASSUME NEW k \in Conns \ {i}, NEW p \in Peers, NEW s \in Sessions, There(k, p, s)
      PROVE  /\ NetKeeps(k, p, s)
             /\ \A n \in Coming'[Other(p)] : IsClose(n, s) => n \in Coming[Other(p)]
             /\ Owner(i) = Other(p) /\ IsOf(i, s) => Linked(k, p, s)'
             /\ CloseComes(Other(p), s) => CloseComes(Other(p), s)'
             /\ There(i, Other(p), s)' => OtherThere(p, s)
             /\ i = 0 /\ p = Acceptor /\ Awaits(s)' => OtherThere(p, s)
  <2>1. conn'[k].j = conn[k].j
    BY <1>2 DEF RestBut, Rests, Keeps
  <2>2. NetKeeps(k, p, s)
    <3>1. CASE p = Requester
      <4>1. k = 0
        BY <1>4, <3>1, PeersType DEF Runs, There
      <4>2. conn[k].j # Task("data", conn[i].iqId)
        BY <1>1, <1>2, <4>1 DEF Ids, TasksMatch
      <4> QED
        BY <1>1, <1>2, <1>3, <2>1, <3>1, <4>2, NetPushed
    <3>2. CASE p = Acceptor
      BY <1>2, <2>1, <3>2, NetUnmoved
    <3> QED
      BY <3>1, <3>2 DEF Peers
  <2>3. \A n \in Coming'[Other(p)] : IsClose(n, s) => n \in Coming[Other(p)]
    BY <1>2, <1>3, PeersType DEF Pushed, Unmoved, IsClose, Data, Peers
  <2>4. ~(Owner(i) = Other(p) /\ IsOf(i, s))
    <3> SUFFICES ASSUME Owner(i) = Other(p), IsOf(i, s)
                 PROVE  FALSE
      OBVIOUS
    <3>1. s = i /\ p = Requester
      BY <1>2, PeersType DEF IsOf, SessionOf
    <3> QED
      BY <1>2, <1>4, <3>1, NotRunning DEF There
  <2>5. CloseComes(Other(p), s) => CloseComes(Other(p), s)'
    BY <1>1, <1>2, ClosesStay DEF Peers, Other
  <2>6. ~There(i, Other(p), s)' /\ i # 0
    BY <1>2, PeersType DEF There, Runs
  <2> QED
    BY <2>2, <2>3, <2>4, <2>5, <2>6
<1>5. \A p \in Peers, s \in Sessions : ~There(i, p, s)'
  BY <1>2 DEF Runs, There
<1> QED
  BY <1>1, <1>2, <1>4, <1>5, CausedBut

LEMMA CloseCaused ==
    ASSUME Known, NEW i \in Conns, CloseStep(i)
    PROVE  Caused'
<1>1. Basis /\ Caused /\ EndsKeep /\ EndsKnown /\ TypeOK
  BY EndsOnce DEF Known, Basis, SessionsKnown
<1> DEFINE q == Owner(i)
<1>2. /\ q \in Peers /\ Other(q) \in Peers /\ Goodbye(i).kind = "data"
      /\ Goodbye(i).session = conn[i].session /\ Goodbye(i).close
      /\ Pushed(Other(q), Goodbye(i)) /\ Unmoved(q)
      /\ conn[i].st = "Active" /\ conn'[i].st = "Idle" /\ RestBut(i) /\ nSessions' = nSessions
  BY PeersType DEF CloseStep, Stops, Goodbye, Stanza
<1>4. ASSUME NEW k \in Conns \ {i}, NEW p \in Peers, NEW s \in Sessions, There(k, p, s)
      PROVE  /\ NetKeeps(k, p, s)
             /\ \A n \in Coming'[Other(p)] : IsClose(n, s) => n \in Coming[Other(p)]
             /\ Owner(i) = Other(p) /\ IsOf(i, s) => Linked(k, p, s)'
             /\ CloseComes(Other(p), s) => CloseComes(Other(p), s)'
             /\ There(i, Other(p), s)' => OtherThere(p, s)
             /\ i = 0 /\ p = Acceptor /\ Awaits(s)' => OtherThere(p, s)
  <2>1. conn'[k].j = conn[k].j
    BY <1>2 DEF RestBut, Rests, Keeps
  <2>0. CloseComes(Other(p), s) => CloseComes(Other(p), s)'
    <3>1. Other(p) \in Peers /\ (Other(p) = q \/ Other(p) = Other(q))
      BY <1>2, PeersType
    <3> QED
      BY <1>1, <1>2, <3>1, ClosesStay
  <2>4. ~There(i, Other(p), s)' /\ (i = 0 => ~Awaits(s)')
    BY <1>2 DEF There, Runs, Awaits
  <2>2. CASE p = q
    <3>1. conn[i].session # s
      <4>1. IsOf(i, conn[i].session) /\ IsOf(k, s) /\ Owner(k) = q
        BY <1>1, <1>2, <1>4, <2>2, OneEnd DEF IsOf, There
      <4> QED
        BY <1>1, <4>1, OneEnd
    <3>2. NetKeeps(k, p, s)
      BY <1>2, <2>1, <2>2, NetUnmoved
    <3> QED
      BY <1>2, <2>0, <2>2, <2>4, <3>1, <3>2, PeersType DEF Pushed, IsClose
  <2>3. CASE p = Other(q)
    <3>1. NetKeeps(k, p, s)
      BY <1>1, <1>2, <2>1, <2>3, NetPushed
    <3>2. IsOf(i, s) => Linked(k, p, s)'
      <4>1. Goodbye(i) \in Coming'[p]
        BY <1>2, <2>3 DEF Pushed
      <4>2. IsOf(i, s) => IsClose(Goodbye(i), s)
        BY <1>2 DEF IsOf, IsClose, Data
      <4> QED
        BY <4>1, <4>2 DEF Linked, CloseComes
    <3> QED
      BY <1>2, <2>0, <2>3, <2>4, <3>1, <3>2, PeersType DEF Unmoved
  <2> QED
    BY <1>2, <2>2, <2>3, PeersType
<1>5. \A p \in Peers, s \in Sessions : ~There(i, p, s)'
  BY <1>2 DEF Runs, There
<1> QED
  BY <1>1, <1>2, <1>4, <1>5, CausedBut

LEMMA ConnectCaused ==
    ASSUME Known, NEW before, NEW m, ConnectStep(before, m)
    PROVE  Caused'
<1>1. Basis /\ Caused /\ EndsKeep /\ EndsKnown /\ TypeOK /\ Starting
  BY EndsOnce DEF Known, Basis, SessionsKnown
<1>2. /\ RestBut(0) /\ conn'[0].st = "Requesting" /\ Unmoved(Requester) /\ m.kind = "request"
      /\ Coming'[Acceptor] = Coming[Acceptor] \cup before \cup {m}
      /\ \A k \in 1..Len(net[Acceptor]) :
           k \in 1..Len(net'[Acceptor]) /\ net'[Acceptor][k] = net[Acceptor][k]
  BY DEF ConnectStep
<1>3. \A k \in 1..Len(net'[Acceptor]) : k \notin 1..Len(net[Acceptor]) =>
        net'[Acceptor][k].kind \in {"data", "request"}
  <2>1. Len(net[Acceptor]) \in Nat
    BY <1>1, ComingType, PeersType
  <2>2. CASE Len(net'[Acceptor]) = Len(net[Acceptor]) + 1
    <3>1. \A k \in 1..Len(net'[Acceptor]) : k \notin 1..Len(net[Acceptor]) => k = Len(net'[Acceptor])
      BY <2>1, <2>2
    <3> QED
      BY <1>2, <3>1 DEF ConnectStep
  <2>3. CASE Len(net'[Acceptor]) = Len(net[Acceptor]) + 2
    <3>1. \A k \in 1..Len(net'[Acceptor]) :
            k \notin 1..Len(net[Acceptor]) => k = Len(net'[Acceptor]) \/ k = Len(net[Acceptor]) + 1
      BY <2>1, <2>3
    <3>2. net'[Acceptor][Len(net[Acceptor]) + 1].kind = "data"
      BY <2>1, <2>3 DEF ConnectStep, Farewell, Data
    <3> QED
      BY <1>2, <3>1, <3>2 DEF ConnectStep
  <2> QED
    BY <2>2, <2>3 DEF ConnectStep
<1>4. ASSUME NEW k \in Conns \ {0}, NEW p \in Peers, NEW s \in Sessions, There(k, p, s)
      PROVE  /\ NetKeeps(k, p, s)
             /\ \A n \in Coming'[Other(p)] : IsClose(n, s) => n \in Coming[Other(p)]
             /\ Owner(0) = Other(p) /\ IsOf(0, s) => Linked(k, p, s)'
             /\ CloseComes(Other(p), s) => CloseComes(Other(p), s)'
             /\ There(0, Other(p), s)' => OtherThere(p, s)
             /\ p = Acceptor /\ Awaits(s)' => OtherThere(p, s)
  <2>1. conn'[k].j = conn[k].j /\ p = Acceptor /\ Other(p) = Requester
    BY <1>2, <1>4, PeersType DEF RestBut, Rests, Keeps, Runs, There
  <2>2. NetKeeps(k, p, s)
    BY <1>1, <1>2, <1>3, <2>1, NetLonger, PeersType
  <2>3. ASSUME IsOf(0, s)
        PROVE  Linked(k, p, s)'
    <3>1. s = nSessions /\ conn[0].st \in {"Requesting", "Active"}
          /\ (conn[0].st = "Active" => conn[0].session = s)
      BY <1>1, <2>3, PeersType DEF EndsKnown, IsOf, SessionOf
    <3>2. CASE conn[0].st = "Active" /\ conn[0].sendbuf = <<>>
      <4>1. PICK f \in Stanzas : before = {f} /\ Farewell(f)
        BY <3>2 DEF ConnectStep
      <4>2. f \in Coming'[p] /\ IsClose(f, s)
        BY <1>2, <2>1, <3>1, <3>2, <4>1 DEF Farewell, IsClose
      <4> QED
        BY <4>2 DEF Linked, CloseComes
    <3>3. CASE ~(conn[0].st = "Active" /\ conn[0].sendbuf = <<>>)
      <4>1. Ended(Requester, s, "abandoned")
        BY <3>1, <3>3 DEF ConnectStep
      <4> QED
        BY <2>1, <4>1 DEF Linked, Ended, GaveUp
    <3> QED
      BY <3>2, <3>3
  <2>4. CloseComes(Other(p), s) => CloseComes(Other(p), s)'
    BY <1>1, <1>2, <2>1, ClosesStay, PeersType
  <2>5. ~There(0, Other(p), s)'
    BY <1>2 DEF There, Runs
  <2>6. ~Awaits(s)'
    <3>1. k = s /\ conn[s].st # "Idle"
      BY <1>1, <1>4, OneEnd DEF There
    <3>2. ~(s > nSessions)
      BY <1>1, <3>1 DEF Starting
    <3>3. nSessions' = nSessions + 1 /\ nSessions \in Nat
      BY <1>1, FieldTypes DEF ConnectStep
    <3> QED
      BY <3>2, <3>3 DEF Awaits
  <2> QED
    BY <1>2, <2>1, <2>2, <2>3, <2>4, <2>5, <2>6 DEF Unmoved
<1>5. \A p \in Peers, s \in Sessions : ~There(0, p, s)'
  BY <1>2 DEF Runs, There
<1> QED
  BY <1>1, <1>2, <1>4, <1>5, CausedBut, PeersType


(* What comes in.                                                           *)
LEMMA TakeRequestCaused ==
    ASSUME Known, TypeOK', NEW i \in Sessions, TakeRequestStep(i)
    PROVE  Caused'
<1>1. Basis /\ Caused /\ EndsKeep /\ EndsKnown /\ TypeOK
  BY EndsOnce DEF Known, Basis, SessionsKnown
<1>2. /\ conn[i].st = "Idle" /\ conn'[i].st = "WaitingForAccept" /\ RestBut(i) /\ nSessions' = nSessions
      /\ Popped(Acceptor) /\ Unmoved(Requester) /\ Head(net[Acceptor]).kind = "request"
  BY DEF TakeRequestStep
<1>3. ASSUME NEW k \in Conns \ {i}, NEW p \in Peers, NEW s \in Sessions, There(k, p, s)
      PROVE  /\ NetKeeps(k, p, s)
             /\ \A n \in Coming'[Other(p)] : IsClose(n, s) => n \in Coming[Other(p)]
             /\ Owner(i) = Other(p) /\ IsOf(i, s) => Linked(k, p, s)'
             /\ CloseComes(Other(p), s) => CloseComes(Other(p), s)'
             /\ There(i, Other(p), s)' => OtherThere(p, s)
             /\ i = 0 /\ p = Acceptor /\ Awaits(s)' => OtherThere(p, s)
  <2>1. conn'[k].j = conn[k].j
    BY <1>2 DEF RestBut, Rests, Keeps
  <2>2. ~IsOf(i, s)
    BY <1>2 DEF IsOf
  <2>3. NetKeeps(k, p, s)
    <3>1. CASE p = Requester
      BY <1>2, <2>1, <3>1, NetUnmoved
    <3>2. CASE p = Acceptor
      BY <1>1, <1>2, <2>1, <3>2, NetPopped DEF IsClose, Data
    <3> QED
      BY <3>1, <3>2 DEF Peers
  <2>4. CloseComes(Other(p), s) => CloseComes(Other(p), s)'
    BY <1>1, <1>2, ClosesStay DEF Peers, Other, IsClose, Data
  <2>5. ~There(i, Other(p), s)' /\ i # 0
    BY <1>2, PeersType DEF There, Runs
  <2> QED
    BY <1>2, <2>2, <2>3, <2>4, <2>5, PeersType DEF Popped, Unmoved, Peers
<1>4. \A p \in Peers, s \in Sessions : ~There(i, p, s)'
  BY <1>2 DEF Runs, There
<1> QED
  BY <1>1, <1>2, <1>3, <1>4, CausedBut, PeersType

(* A packet that comes in is acknowledged: to the end whose packet it is    *)
(* that may be why the stream is about to end.                              *)
LEMMA TakeDataCaused ==
    ASSUME Known, TypeOK', NEW q \in Peers, NEW i \in Conns, TakeDataStep(q, i)
    PROVE  Caused'
<1>1. Basis /\ Caused /\ EndsKeep /\ EndsKnown /\ TypeOK /\ Ids
  BY EndsOnce DEF Known, Basis, SessionsKnown
<1> DEFINE m == Head(net[q])
           t == conn[i].session
           r == Result(m.id, 0)
<1>2. /\ Data(m) /\ m.session = t /\ There(i, q, t) /\ RestBut(i) /\ nSessions' = nSessions
      /\ conn'[i].session = t /\ Keeps(i) /\ conn[i].emits = "none" /\ conn'[i].st = "Active"
      /\ conn'[i].emits = IF m.close THEN "readyRead" ELSE "none"
      /\ Popped(q) /\ Pushed(Other(q), r) /\ m \in Coming[q]
  BY DEF TakeDataStep, Popped, There, Runs, Keeps
<1>3. Other(q) \in Peers /\ Other(Other(q)) = q /\ Other(q) # q
  BY PeersType
<1>4. r.kind = "result" /\ r.id = m.id
  BY StanzaFields
<1>5. m.close \in BOOLEAN
  BY <1>1, <1>2, IdTypes
<1> HIDE DEF m, t, r
<1>0. /\ \A k \in Conns : \A p, s : There(k, p, s)' => There(k, p, s)
      /\ \A s : Awaits(s)' <=> Awaits(s)
      /\ \A p \in Peers, s \in Sessions : OtherThere(p, s)' => OtherThere(p, s)
  <2>1. \A k \in Conns : conn'[k].st = conn[k].st /\ conn'[k].session = conn[k].session
    BY <1>2 DEF RestBut, Rests, Keeps
  <2>2. \A k \in Conns \ {i} : Settles(k)
    BY <1>2 DEF RestBut, Rests
  <2>3. \A k \in Conns : \A p, s : There(k, p, s)' => There(k, p, s)
    BY <1>2, <2>1, <2>2 DEF There, Runs, Settles
  <2>4. \A s : Awaits(s)' <=> Awaits(s)
    BY <1>2, <2>1, PeersType DEF Awaits
  <2> QED
    BY <2>3, <2>4 DEF OtherThere
<1>6. ~m.close => \A p \in Peers, s \in Sessions : OtherThere(p, s) => OtherThere(p, s)'
  <2> SUFFICES ASSUME ~m.close
               PROVE  \A p \in Peers, s \in Sessions : OtherThere(p, s) => OtherThere(p, s)'
    OBVIOUS
  <2>1. \A k \in Conns : conn'[k].st = conn[k].st /\ conn'[k].session = conn[k].session
                         /\ (conn[k].emits # "readyRead" => conn'[k].emits # "readyRead")
    BY <1>2 DEF RestBut, Rests, Keeps, Settles
  <2>2. \A k \in Conns : \A p, s : There(k, p, s) => There(k, p, s)'
    BY <2>1 DEF There, Runs
  <2> QED
    BY <1>0, <2>2 DEF OtherThere
(* The other end of the packet.                                             *)
<1>7. ASSUME NEW k \in Conns \ {i}, NEW s \in Sessions, There(k, Other(q), s),
             conn[k].j = Task("data", m.id)
      PROVE  CauseKnown(k, Other(q), s)'
  <2> DEFINE p == Other(q)
  <2>1. CauseKnown(k, p, s) /\ s \in Sids
    BY <1>1, <1>3, <1>7 DEF Caused, Sessions
  <2>2. s = t /\ m.close = conn[k].closing
    <3>1. m.session = conn[k].session /\ m.close = conn[k].closing
      BY <1>1, <1>2, <1>3, <1>7 DEF Ids, TasksMatch, Runs, There, IsSet, Data
    <3> QED
      BY <1>2, <1>7, <3>1 DEF Runs, There
  <2>3. conn'[k].j = conn[k].j /\ conn'[k].closing = conn[k].closing
    BY <1>2 DEF RestBut, Rests, Keeps
  <2>4. GaveUp(q, s) => GaveUp(q, s)'
    BY <1>1, <2>1 DEF EndsKeep, EndKept, GaveUp
  <2>5. Linked(k, p, s)'
    <3>1. CASE m.close
      <4>1. r \in Answers(k, p)'
        BY <1>2, <1>3, <1>4, <1>7, <2>3 DEF Answers, Pushed
      <4> QED
        BY <2>2, <2>3, <3>1, <4>1 DEF Linked
    <3>2. CASE ~m.close
      <4>1. OtherThere(p, s) \/ GaveUp(q, s) \/ CloseComes(p, s)
        BY <1>3, <2>1, <2>2, <3>2 DEF CauseKnown, Linked
      <4>2. CloseComes(p, s) => CloseComes(p, s)'
        BY <1>2, <1>3 DEF CloseComes, Pushed
      <4> QED
        BY <1>3, <1>6, <2>4, <3>2, <4>1, <4>2 DEF Linked
    <3> QED
      BY <3>1, <3>2
  <2>6. Bounced(k, p, s)'
    <3> SUFFICES ASSUME NEW l \in 1..Len(net'[p]), net'[p][l].kind = "error",
                        conn'[k].j = Task("data", net'[p][l].id)
                 PROVE  GaveUp(q, s)' \/ ClosesBefore(p, l, s)'
      BY <1>3 DEF Bounced
    <3>1. l \in 1..Len(net[p]) /\ net'[p][l] = net[p][l]
      <4>1. Len(net[p]) \in Nat
        BY <1>1, <1>3, ComingType
      <4> QED
        BY <1>2, <1>3, <1>4, <4>1 DEF Pushed
    <3>2. GaveUp(q, s) \/ ClosesBefore(p, l, s)
      BY <1>3, <2>1, <2>3, <3>1 DEF CauseKnown, Bounced
    <3>3. ClosesBefore(p, l, s) => ClosesBefore(p, l, s)'
      BY <1>2, <1>3 DEF ClosesBefore, Pushed
    <3> QED
      BY <2>4, <3>2, <3>3
  <2>7. \A n \in Coming'[Other(p)] : IsClose(n, s) => conn'[k].closing /\ conn'[k].j = Task("data", n.id)
    BY <1>2, <1>3, <2>1, <2>3 DEF CauseKnown, Popped
  <2>8. Parts(k, p, s)'
    <3> SUFFICES ASSUME m.close
                 PROVE  ~OtherThere(p, s)'
      BY <2>2, <2>3 DEF Parts
    <3>1. ASSUME NEW l \in Conns, There(l, q, s)'
          PROVE  FALSE
      <4>1. IsOf(l, s) /\ IsOf(i, s) /\ Owner(l) = Owner(i)
        BY <1>0, <1>1, <1>2, <2>2, <3>1, OneEnd DEF There
      <4>2. l = i
        BY <1>1, <4>1, OneEnd
      <4> QED
        BY <1>2, <3>1, <4>2 DEF There
    <3>2. ASSUME p = Acceptor, Awaits(s)
          PROVE  FALSE
      <4>1. IsOf(0, s) /\ IsOf(i, s) /\ Owner(0) = Owner(i)
        BY <1>1, <1>2, <1>3, <2>2, <3>2, OneEnd, PeersType DEF There, Awaits, IsOf, SessionOf
      <4>2. i = 0
        BY <1>1, <4>1, OneEnd, PeersType
      <4> QED
        BY <1>2, <3>2, <4>2 DEF There, Runs, Awaits
    <3> QED
      BY <1>0, <1>3, <3>1, <3>2 DEF OtherThere
  <2> QED
    BY <2>5, <2>6, <2>7, <2>8 DEF CauseKnown
<1>8. ASSUME NEW k \in Conns \ {i}, NEW p \in Peers, NEW s \in Sessions, There(k, p, s),
             ~(p = Other(q) /\ conn[k].j = Task("data", m.id))
      PROVE  /\ NetKeeps(k, p, s)
             /\ \A n \in Coming'[Other(p)] : IsClose(n, s) => n \in Coming[Other(p)]
             /\ ~m.close /\ OtherThere(p, s) => Linked(k, p, s)'
             /\ CloseComes(Other(p), s) => CloseComes(Other(p), s)'
             /\ p = Other(q) => ~IsClose(m, s)
  <2>0. p = Other(q) => ~IsClose(m, s)
    BY <1>1, <1>2, <1>3, <1>8 DEF Caused, CauseKnown
  <2>5. CloseComes(Other(p), s) => CloseComes(Other(p), s)'
    <3>1. p = q \/ p = Other(q)
      BY PeersType
    <3> QED
      BY <1>1, <1>2, <1>3, <2>0, <3>1, ClosesStay DEF m
  <2>1. conn'[k].j = conn[k].j
    BY <1>2 DEF RestBut, Rests, Keeps
  <2>2. ~m.close /\ OtherThere(p, s) => Linked(k, p, s)'
    BY <1>6 DEF Linked
  <2>3. CASE p = q
    <3>1. s # t
      BY <1>1, <1>2, <1>8, <2>3, OneEnd DEF There
    <3>2. NetKeeps(k, p, s)
      <4>1. ~IsClose(m, s) /\ m.kind # "result"
        BY <1>2, <3>1 DEF IsClose, Data
      <4> QED
        BY <1>1, <1>2, <2>1, <2>3, <4>1, NetPopped DEF m
    <3>3. \A n \in Coming'[Other(p)] : IsClose(n, s) => n \in Coming[Other(p)]
      BY <1>2, <1>4, <2>3 DEF Pushed, IsClose, Data
    <3> QED
      BY <1>3, <2>2, <2>3, <2>5, <3>2, <3>3
  <2>4. CASE p = Other(q)
    <3>1. NetKeeps(k, p, s)
      BY <1>1, <1>2, <1>4, <1>8, <2>1, <2>4, NetPushed
    <3> QED
      BY <1>2, <1>3, <2>0, <2>2, <2>4, <2>5, <3>1 DEF Popped
  <2> QED
    BY <2>3, <2>4, PeersType
<1>9. CASE m.close
  <2>1. \A p \in Peers, s \in Sessions : ~There(i, p, s)'
    BY <1>2, <1>9 DEF There
  <2>2. ASSUME NEW k \in Conns \ {i}, NEW p \in Peers, NEW s \in Sessions, There(k, p, s),
               ~(p = Other(q) /\ conn[k].j = Task("data", m.id)),
               Owner(i) = Other(p), IsOf(i, s)
        PROVE  FALSE
    <3>1. p = Other(q) /\ s = t
      BY <1>2, <1>3, <2>2, PeersType DEF Runs, There, IsOf
    <3>2. IsClose(m, s)
      BY <1>2, <1>9, <3>1 DEF IsClose
    <3> QED
      BY <1>8, <2>2, <3>1, <3>2
  <2>3. ASSUME NEW k \in Conns \ {i}, NEW p \in Peers, NEW s \in Sessions, There(k, p, s),
               ~(p = Other(q) /\ conn[k].j = Task("data", m.id))
        PROVE  /\ NetKeeps(k, p, s)
               /\ \A n \in Coming'[Other(p)] : IsClose(n, s) => n \in Coming[Other(p)]
               /\ Owner(i) = Other(p) /\ IsOf(i, s) => Linked(k, p, s)'
               /\ CloseComes(Other(p), s) => CloseComes(Other(p), s)'
               /\ There(i, Other(p), s)' => OtherThere(p, s)
               /\ i = 0 /\ p = Acceptor /\ Awaits(s)' => OtherThere(p, s)
    <3>1. i = 0 => ~Awaits(s)'
      BY <1>2 DEF Awaits
    <3> QED
      BY <1>3, <1>8, <2>1, <2>2, <2>3, <3>1, PeersType
  <2> QED
    BY <1>1, <1>2, <1>7, <2>1, <2>3, CausedBut
<1>10. CASE ~m.close
  <2>1. \A k \in Conns : Rests(k)
    BY <1>2, <1>10 DEF RestBut, Rests, Settles
  <2>2. ASSUME NEW k \in Conns, NEW p \in Peers, NEW s \in Sessions, There(k, p, s),
               NetKeeps(k, p, s), OtherThere(p, s) => Linked(k, p, s)',
               CloseComes(Other(p), s) => CloseComes(Other(p), s)',
               \A n \in Coming'[Other(p)] : IsClose(n, s) => n \in Coming[Other(p)]
        PROVE  CauseKnown(k, p, s)'
    <3>1. CauseKnown(k, p, s) /\ s \in Sids
      BY <1>1, <2>2 DEF Caused, Sessions
    <3>2. conn'[k].j = conn[k].j /\ conn'[k].closing = conn[k].closing
      BY <2>1 DEF Rests, Keeps
    <3>3. Parts(k, p, s) => Parts(k, p, s)'
      BY <1>0, <2>2, <3>2 DEF Parts
    <3> QED
      BY <1>1, <2>2, <3>1, <3>2, <3>3, CauseKept
  <2>3. ASSUME NEW s \in Sessions, There(i, q, s)
        PROVE  CauseKnown(i, q, s)'
    <3>1. ~IsClose(m, s) /\ m.kind # "result" /\ conn'[i].j = conn[i].j
      BY <1>2, <1>10, <2>1 DEF IsClose, Data, Rests, Keeps
    <3>2. NetKeeps(i, q, s)
      BY <1>1, <1>2, <3>1, NetPopped DEF m
    <3>3. \A n \in Coming'[Other(q)] : IsClose(n, s) => n \in Coming[Other(q)]
      BY <1>2, <1>4 DEF Pushed, IsClose, Data
    <3>4. CloseComes(Other(q), s) => CloseComes(Other(q), s)'
      BY <1>1, <1>2, <1>3, ClosesStay
    <3> QED
      BY <1>6, <1>10, <2>2, <2>3, <3>2, <3>3, <3>4 DEF Linked
  <2> SUFFICES ASSUME NEW k \in Conns, NEW p \in Peers, NEW s \in Sessions, There(k, p, s)'
               PROVE  CauseKnown(k, p, s)'
    BY DEF Caused
  <2>4. There(k, p, s)
    BY <1>0
  <2>5. CASE k = i
    <3>1. p = q
      BY <1>2, <2>4, <2>5 DEF Runs, There
    <3> QED
      BY <2>3, <2>4, <2>5, <3>1
  <2>6. CASE k # i
    BY <1>7, <1>8, <1>10, <2>2, <2>4, <2>6
  <2> QED
    BY <2>5, <2>6
<1> QED
  BY <1>5, <1>9, <1>10

(* A packet for a stream that is not there.                                 *)
LEMMA RepulseCaused ==
    ASSUME Known, Online, TypeOK', NEW q \in Peers, RepulseStep(q)
    PROVE  Caused'
<1>1. Basis /\ Caused /\ EndsKeep /\ EndsKnown /\ TypeOK /\ Ids /\ Answered
  BY EndsOnce DEF Known, Basis, SessionsKnown
<1> DEFINE m == Head(net[q])
           r == Error(m.id)
<1>2. /\ Data(m) /\ IsSet(m) /\ Popped(q) /\ Pushed(Other(q), r) /\ m \in Coming[q]
      /\ \A k \in Conns : ~Runs(k, q, m.session)
      /\ nSessions' = nSessions /\ conn' = conn
      /\ 1 \in 1..Len(net[q]) /\ net[q][1] = m
  BY DEF RepulseStep, Popped, Online
<1>3. Other(q) \in Peers /\ Other(Other(q)) = q /\ Other(q) # q
  BY PeersType
<1>4. r.kind = "error" /\ r.id = m.id
  BY StanzaFields
<1> HIDE DEF m, r
<1>5. \A p \in Peers, s \in Sessions : OtherThere(p, s) <=> OtherThere(p, s)'
  BY <1>2 DEF OtherThere, Runs, There, Awaits
<1> SUFFICES ASSUME NEW k \in Conns, NEW p \in Peers, NEW s \in Sessions, There(k, p, s)'
             PROVE  CauseKnown(k, p, s)'
  BY DEF Caused
<1>6. There(k, p, s) /\ s \in Sids /\ conn'[k].j = conn[k].j /\ conn'[k].closing = conn[k].closing
  BY <1>2 DEF Runs, There, Sessions
<1>7. CauseKnown(k, p, s)
  BY <1>1, <1>6 DEF Caused
<1>8. OtherThere(p, s) => Linked(k, p, s)'
  BY <1>5 DEF Linked
<1>9. CASE p = q
  <2>1. ~IsClose(m, s) /\ m.kind # "result"
    BY <1>2, <1>6, <1>9 DEF IsClose, Data, There, Runs
  <2>2. NetKeeps(k, p, s)
    BY <1>1, <1>2, <1>6, <1>9, <2>1, NetPopped DEF m
  <2>3. \A n \in Coming'[Other(p)] : IsClose(n, s) => n \in Coming[Other(p)]
    BY <1>2, <1>4, <1>9 DEF Pushed, IsClose, Data
  <2> QED
    <3>1. CloseComes(Other(p), s) => CloseComes(Other(p), s)'
      BY <1>1, <1>2, <1>3, <1>9, ClosesStay
    <3>2. Parts(k, p, s) => Parts(k, p, s)'
      BY <1>5, <1>6, <3>1 DEF Parts
    <3> QED
      BY <1>1, <1>6, <1>7, <1>8, <2>2, <2>3, <3>2, CauseKept
<1>10. CASE p = Other(q) /\ conn[k].j # Task("data", m.id)
  <2>1. NetKeeps(k, p, s)
    BY <1>1, <1>2, <1>4, <1>6, <1>10, NetPushed
  <2>2. \A n \in Coming'[Other(p)] : IsClose(n, s) => n \in Coming[Other(p)]
    BY <1>2, <1>3, <1>10 DEF Popped
  <2> QED
    <3>1. ~IsClose(m, s)
      BY <1>2, <1>3, <1>7, <1>10 DEF CauseKnown
    <3>2. CloseComes(Other(p), s) => CloseComes(Other(p), s)'
      BY <1>1, <1>2, <1>3, <1>10, <3>1, ClosesStay DEF m
    <3>3. Parts(k, p, s) => Parts(k, p, s)'
      BY <1>5, <1>6, <3>2 DEF Parts
    <3> QED
      BY <1>1, <1>6, <1>7, <1>8, <2>1, <2>2, <3>3, CauseKept
<1>11. CASE p = Other(q) /\ conn[k].j = Task("data", m.id)
  <2>1. m.session = s
    BY <1>1, <1>2, <1>3, <1>6, <1>11 DEF Ids, TasksMatch, Runs, There
  <2>2. \A a \in Coming[p] : ~IsSet(a) => a.id # m.id
    BY <1>1, <1>2, <1>3, <1>11 DEF Ids, IdsDistinct
  <2>3. ~OtherThere(p, s)
    <3> SUFFICES ASSUME p = Acceptor, Awaits(s)
                 PROVE  FALSE
      BY <1>2, <1>3, <1>11, <2>1 DEF OtherThere, There
    <3>1. q = Requester /\ k = s
      BY <1>1, <1>3, <1>6, <1>11, OneEnd, PeersType DEF Runs, There
    <3>2. AnsweredBy(s) /\ conn[s].st = "Active"
      BY <1>1, <1>6, <3>1 DEF Answered, Awaits, Runs, There
    <3>3. PICK l \in 1..Len(net[Requester]) : Yes(l) /\ YesFirst(l, s)
      BY <3>2 DEF AnsweredBy
    <3>4. l \in Nat /\ l >= 1
      OBVIOUS
    <3>5. l < 1
      BY <1>2, <2>1, <3>1, <3>3 DEF YesFirst
    <3> QED
      BY <3>4, <3>5
  <2>4. Answers(k, p) = {}
    BY <1>11, <2>2, TaskFields DEF Answers, IsSet
  <2>5. GaveUp(q, s) \/ CloseComes(p, s)
    BY <1>3, <1>7, <1>11, <2>3, <2>4, TaskFields DEF CauseKnown, Linked
  <2>6. GaveUp(q, s) => GaveUp(q, s)'
    BY <1>1, <1>6 DEF EndsKeep, EndKept, GaveUp
  <2>7. Len(net[p]) \in Nat /\ Coming[p] = {net[p][l] : l \in 1..Len(net[p])}
    BY <1>1, ComingType
  <2>8. Linked(k, p, s)'
    BY <1>2, <1>3, <1>11, <2>5, <2>6 DEF Linked, CloseComes, Pushed
  <2>9. Bounced(k, p, s)'
    <3> SUFFICES ASSUME NEW l \in 1..Len(net'[p]), net'[p][l].kind = "error",
                        conn'[k].j = Task("data", net'[p][l].id)
                 PROVE  GaveUp(q, s)' \/ ClosesBefore(p, l, s)'
      BY <1>3, <1>11 DEF Bounced
    <3>1. CASE l \in 1..Len(net[p])
      <4>1. net[p][l] = net'[p][l]
        BY <1>2, <1>11, <3>1 DEF Pushed
      <4>2. GaveUp(q, s) \/ ClosesBefore(p, l, s)
        BY <1>3, <1>6, <1>7, <1>11, <3>1, <4>1 DEF CauseKnown, Bounced
      <4>3. ClosesBefore(p, l, s) => ClosesBefore(p, l, s)'
        BY <1>2, <1>11 DEF ClosesBefore, Pushed
      <4> QED
        BY <2>6, <4>2, <4>3
    <3>2. CASE l \notin 1..Len(net[p])
      <4>1. l = Len(net[p]) + 1
        BY <1>2, <1>11, <2>7, <3>2 DEF Pushed
      <4>2. CloseComes(p, s) => ClosesBefore(p, l, s)'
        BY <1>2, <1>11, <2>7, <4>1 DEF CloseComes, ClosesBefore, Pushed
      <4> QED
        BY <2>5, <2>6, <4>2
    <3> QED
      BY <3>1, <3>2
  <2>10. \A n \in Coming'[Other(p)] : IsClose(n, s) => conn'[k].closing /\ conn'[k].j = Task("data", n.id)
    BY <1>2, <1>3, <1>6, <1>7, <1>11 DEF CauseKnown, Popped
  <2>11. Parts(k, p, s)'
    BY <1>5, <2>3 DEF Parts
  <2> QED
    BY <2>8, <2>9, <2>10, <2>11 DEF CauseKnown
<1> QED
  BY <1>9, <1>10, <1>11, PeersType


(* The requester learns that it was accepted.                               *)
LEMMA AcceptedCaused ==
    ASSUME Known, TypeOK', AcceptedStep
    PROVE  Caused'
<1>1. /\ Basis /\ Caused /\ EndsKeep /\ EndsKnown /\ TypeOK /\ Ids /\ Starting /\ Answered
      /\ nSessions \in Sids
  BY EndsOnce DEF Known, Basis, SessionsKnown, TypeOK
<1> DEFINE m == Head(net[Requester])
<1>2. /\ m.kind = "result" /\ conn[0].j = Task("request", m.id) /\ conn[0].st = "Requesting"
      /\ RestBut(0) /\ conn'[0].st = "Active" /\ conn'[0].j = NoTask
      /\ conn'[0].session = m.session /\ conn'[0].closing = FALSE /\ conn'[0].emits = "none"
      /\ Popped(Requester) /\ Unmoved(Acceptor) /\ hist' = hist /\ nSessions' = nSessions
      /\ m \in Coming[Requester] /\ net[Requester][1] = m /\ 1 \in 1..Len(net[Requester])
  BY DEF AcceptedStep, Popped
<1> HIDE DEF m
<1>3. m.session = nSessions
  BY <1>1, <1>2 DEF Ids, TasksMatch
<1>4. nSessions \in Sessions /\ Silent(Requester, nSessions)
  BY <1>1, <1>2 DEF EndsKnown, Starting, Sessions
<1>5. ASSUME NEW p \in Peers, NEW s \in Sessions, There(0, p, s)'
      PROVE  CauseKnown(0, p, s)'
  <2>1. p = Requester /\ s = nSessions
    BY <1>2, <1>3, <1>5, PeersType DEF Runs, There
  <2>2. Linked(0, p, s)'
    <3>1. Yes(1)
      BY <1>2 DEF Yes
    <3>2. /\ conn[s].st = "Active" \/ CloseComes(Requester, s)
          /\ conn[s].st # "Idle" => conn[s].emits = "none"
      BY <1>1, <1>2, <2>1, <3>1 DEF Answered, AnsweredBy
    <3>3. CASE conn[s].st = "Active"
      <4>1. conn'[s].st = "Active" /\ conn'[s].session = s /\ conn'[s].emits = "none"
        BY <1>1, <1>2, <3>2, <3>3, PeersType DEF EndsKnown, RestBut, Rests, Keeps, Settles
      <4>2. There(s, Acceptor, s)'
        BY <4>1, PeersType DEF Runs, There
      <4> QED
        BY <2>1, <4>2, PeersType DEF Linked, OtherThere
    <3>4. CASE CloseComes(Requester, s)
      <4>1. PICK n \in Coming[Requester] : IsClose(n, s)
        BY <3>4 DEF CloseComes
      <4>2. n \in Coming'[Requester]
        BY <1>1, <1>2, <4>1, OthersWait, PeersType DEF IsClose, Data, m
      <4> QED
        BY <2>1, <4>1, <4>2 DEF Linked, CloseComes
    <3> QED
      BY <3>2, <3>3, <3>4
  <2>3. Bounced(0, p, s)'
    BY <1>2, TaskFields DEF Bounced
  <2>4. \A n \in Coming'[Other(p)] : ~IsClose(n, s)
    BY <1>2, <1>4, <2>1, PeersType DEF Silent, Unmoved, IsClose
  <2> QED
    BY <1>2, <2>2, <2>3, <2>4 DEF CauseKnown, Parts
<1>6. ASSUME NEW k \in Conns \ {0}, NEW p \in Peers, NEW s \in Sessions, There(k, p, s)
      PROVE  /\ NetKeeps(k, p, s)
             /\ \A n \in Coming'[Other(p)] : IsClose(n, s) => n \in Coming[Other(p)]
             /\ Owner(0) = Other(p) /\ IsOf(0, s) => Linked(k, p, s)'
             /\ CloseComes(Other(p), s) => CloseComes(Other(p), s)'
             /\ There(0, Other(p), s)' => OtherThere(p, s)
             /\ p = Acceptor /\ Awaits(s)' => OtherThere(p, s)
  <2>1. conn'[k].j = conn[k].j /\ p = Acceptor /\ Other(p) = Requester
    BY <1>2, <1>6, PeersType DEF RestBut, Rests, Keeps, Runs, There
  <2>2. NetKeeps(k, p, s)
    BY <1>2, <2>1, NetUnmoved
  <2>3. IsOf(0, s) => Linked(k, p, s)'
    <3>1. IsOf(0, s) => There(0, Requester, s)'
      BY <1>2, <1>3, PeersType DEF IsOf, SessionOf, Runs, There
    <3> QED
      BY <2>1, <3>1, PeersType DEF Linked, OtherThere
  <2>4. CloseComes(Other(p), s) => CloseComes(Other(p), s)'
    BY <1>1, <1>2, <2>1, ClosesStay, PeersType DEF IsClose, Data, m
  <2>5. There(0, Other(p), s)' => OtherThere(p, s)
    BY <1>2, <1>3, <2>1, PeersType DEF There, Runs, OtherThere, Awaits
  <2>6. ~Awaits(s)'
    BY <1>2 DEF Awaits
  <2> QED
    BY <1>2, <2>1, <2>2, <2>3, <2>4, <2>5, <2>6 DEF Popped
<1> QED
  BY <1>1, <1>2, <1>5, <1>6, CausedBut, PeersType

LEMMA AckCaused ==
    ASSUME Known, TypeOK', NEW q \in Peers, NEW i \in Conns, AckStep(q, i)
    PROVE  Caused'
<1>1. /\ Basis /\ Caused /\ EndsKeep /\ EndsKnown /\ TypeOK /\ Ids /\ TasksAlone
  BY EndsOnce DEF Known, Basis, SessionsKnown, TypeOK
<1> DEFINE m == Head(net[q])
           t == conn[i].session
<1>2. /\ m.kind = "result" /\ conn[i].j = Task("data", m.id) /\ There(i, q, t) /\ RestBut(i)
      /\ conn'[i].session = t /\ conn'[i].closing = conn[i].closing
      /\ conn'[i].st = "Active" /\ conn'[i].j = NoTask /\ conn'[i].emits = "bytesWritten"
      /\ Popped(q) /\ Unmoved(Other(q)) /\ nSessions' = nSessions /\ m \in Coming[q]
  BY DEF AckStep, Popped, There
<1>3. Other(q) \in Peers /\ Other(Other(q)) = q /\ Other(q) # q /\ t \in Sids
  BY <1>1, PeersType, FieldTypes
<1> HIDE DEF m, t
<1>4. \A k \in Conns : \A p, s : There(k, p, s)' <=> There(k, p, s)
  <2>1. \A k \in Conns : conn'[k].st = conn[k].st /\ conn'[k].session = conn[k].session
    BY <1>2 DEF RestBut, Rests, Keeps, Runs, There, t
  <2>2. \A k \in Conns \ {i} : Settles(k)
    BY <1>2 DEF RestBut, Rests
  <2>3. ASSUME NEW k \in Conns \ {i}, NEW p, NEW s
        PROVE  There(k, p, s)' <=> There(k, p, s)
    BY <2>1, <2>2 DEF Runs, There, Settles
  <2>4. conn[i].emits # "readyRead" /\ conn'[i].emits # "readyRead"
    BY <1>2 DEF There
  <2>5. \A p, s : There(i, p, s)' <=> There(i, p, s)
    BY <2>1, <2>4 DEF Runs, There
  <2> QED
    BY <2>3, <2>5
<1>5. \A p \in Peers, s \in Sessions : OtherThere(p, s) <=> OtherThere(p, s)'
  <2>1. conn'[0].st = "Requesting" <=> conn[0].st = "Requesting"
    BY <1>2, PeersType DEF RestBut, Rests, Keeps, Runs, There
  <2> QED
    BY <1>2, <1>4, <2>1 DEF OtherThere, Awaits
<1>6. ASSUME NEW p \in Peers, NEW s \in Sessions, There(i, p, s)'
      PROVE  CauseKnown(i, p, s)'
  <2>1. p = q /\ s = t /\ s \in Sids /\ There(i, q, s)
    BY <1>2, <1>3, <1>4, <1>6 DEF Runs, There
  <2>2. CauseKnown(i, q, s)
    BY <1>1, <2>1 DEF Caused
  <2>3. Linked(i, q, s)'
    <3>1. OtherThere(q, s) \/ GaveUp(Other(q), s) \/ CloseComes(q, s) \/ conn[i].closing
      BY <2>2 DEF CauseKnown, Linked
    <3>2. GaveUp(Other(q), s) => GaveUp(Other(q), s)'
      BY <1>1, <1>3, <2>1 DEF EndsKeep, EndKept, GaveUp
    <3>3. CloseComes(q, s) => CloseComes(q, s)'
      BY <1>1, <1>2, ClosesStay DEF IsClose, Data, m
    <3> QED
      BY <1>2, <1>5, <2>1, <3>1, <3>2, <3>3 DEF Linked
  <2>4. Bounced(i, q, s)'
    BY <1>2, TaskFields DEF Bounced
  <2>5. \A n \in Coming'[Other(q)] : ~IsClose(n, s)
    <3> SUFFICES ASSUME NEW n \in Coming[Other(q)], IsClose(n, s)
                 PROVE  FALSE
      BY <1>2 DEF Unmoved
    <3>1. n.id = m.id
      BY <1>2, <2>2, TaskFields DEF CauseKnown
    <3> QED
      BY <1>1, <1>2, <1>3, <3>1 DEF Ids, IdsDistinct, IsSet, IsClose, Data
  <2>6. Parts(i, q, s)'
    BY <1>2, <1>5, <2>1, <2>2 DEF CauseKnown, Parts, CloseComes, Unmoved
  <2> QED
    BY <2>1, <2>3, <2>4, <2>5, <2>6 DEF CauseKnown
<1>7. ASSUME NEW k \in Conns \ {i}, NEW p \in Peers, NEW s \in Sessions, There(k, p, s)
      PROVE  /\ NetKeeps(k, p, s)
             /\ \A n \in Coming'[Other(p)] : IsClose(n, s) => n \in Coming[Other(p)]
             /\ Owner(i) = Other(p) /\ IsOf(i, s) => Linked(k, p, s)'
             /\ CloseComes(Other(p), s) => CloseComes(Other(p), s)'
             /\ There(i, Other(p), s)' => OtherThere(p, s)
             /\ i = 0 /\ p = Acceptor /\ Awaits(s)' => OtherThere(p, s)
  <2>1. conn'[k].j = conn[k].j
    BY <1>2 DEF RestBut, Rests, Keeps
  <2>2. NetKeeps(k, p, s)
    <3>1. CASE p = q
      <4>1. conn[k].j # Task("data", m.id)
        BY <1>1, <1>2, <1>7, <3>1, TaskFields DEF TasksAlone, Runs, There
      <4> QED
        BY <1>1, <1>2, <2>1, <3>1, <4>1, NetPopped DEF m, IsClose, Data
    <3>2. CASE p = Other(q)
      BY <1>2, <2>1, <3>2, NetUnmoved
    <3> QED
      BY <3>1, <3>2, PeersType
  <2>3. /\ \A n \in Coming'[Other(p)] : IsClose(n, s) => n \in Coming[Other(p)]
        /\ CloseComes(Other(p), s) => CloseComes(Other(p), s)'
    <3>1. CASE p = q
      BY <1>1, <1>2, <1>3, <3>1, ClosesStay DEF Unmoved
    <3>2. CASE p = Other(q)
      BY <1>1, <1>2, <1>3, <3>2, ClosesStay DEF Popped, IsClose, Data, m
    <3> QED
      BY <3>1, <3>2, PeersType
  <2>4. Owner(i) = Other(p) /\ IsOf(i, s) => Linked(k, p, s)'
    <3>1. Owner(i) = Other(p) /\ IsOf(i, s) => There(i, Other(p), s)
      BY <1>2 DEF IsOf, Runs, There
    <3> QED
      BY <1>4, <3>1 DEF Linked, OtherThere
  <2>5. There(i, Other(p), s)' => OtherThere(p, s)
    BY <1>4 DEF OtherThere
  <2>6. i = 0 => ~Awaits(s)'
    BY <1>2 DEF Awaits
  <2> QED
    BY <2>2, <2>3, <2>4, <2>5, <2>6
<1> QED
  BY <1>1, <1>2, <1>6, <1>7, CausedBut

(* A handler returns, and the stream ends: by a close of the other end,     *)
(* which is not there any more, or by a close of this end that is on its    *)
(* way.                                                                     *)
LEMMA EndCaused ==
    ASSUME Known, NEW i \in Conns, NEW how, EndStep(i, how)
    PROVE  Caused'
<1>1. Basis /\ Caused /\ EndsKeep /\ EndsKnown /\ TypeOK
  BY EndsOnce DEF Known, Basis, SessionsKnown
<1>2. /\ conn[i].st = "Active" /\ conn'[i].st = "Idle" /\ RestBut(i)
      /\ conn[i].emits = "readyRead" \/ (conn[i].emits = "bytesWritten" /\ conn[i].closing)
      /\ nSessions' = nSessions /\ net' = net
  BY DEF EndStep, Stops
<1>3. \A p \in Peers : Unmoved(p)
  BY <1>2, NetSame
<1>4. ASSUME NEW k \in Conns \ {i}, NEW p \in Peers, NEW s \in Sessions, There(k, p, s)
      PROVE  /\ NetKeeps(k, p, s)
             /\ \A n \in Coming'[Other(p)] : IsClose(n, s) => n \in Coming[Other(p)]
             /\ Owner(i) = Other(p) /\ IsOf(i, s) => Linked(k, p, s)'
             /\ CloseComes(Other(p), s) => CloseComes(Other(p), s)'
             /\ There(i, Other(p), s)' => OtherThere(p, s)
             /\ i = 0 /\ p = Acceptor /\ Awaits(s)' => OtherThere(p, s)
  <2>1. conn'[k].j = conn[k].j /\ conn'[k].closing = conn[k].closing
    BY <1>2 DEF RestBut, Rests, Keeps
  <2>2. NetKeeps(k, p, s)
    BY <1>3, <2>1, NetUnmoved
  <2>3. \A n \in Coming'[Other(p)] : n \in Coming[Other(p)]
    BY <1>3, PeersType DEF Unmoved
  <2>4. ASSUME Owner(i) = Other(p), IsOf(i, s)
        PROVE  Linked(k, p, s)'
    <3>0. /\ Other(p) \in Peers /\ Other(Other(p)) = p /\ s \in Sids
          /\ Linked(k, p, s)
      BY <1>1, <1>4, PeersType DEF Caused, CauseKnown, Sessions
    <3>1. CASE conn[i].emits = "readyRead"
      <4>1. ASSUME NEW l \in Conns, There(l, Other(p), s)
            PROVE  FALSE
        <5>1. l = i
          BY <1>1, <2>4, <4>1, OneEnd DEF There
        <5> QED
          BY <3>1, <4>1, <5>1 DEF There
      <4>2. ASSUME p = Acceptor, Awaits(s)
            PROVE  FALSE
        BY <1>2, <2>4, <4>2, PeersType DEF Awaits, Owner
      <4>3. ~OtherThere(p, s)
        BY <4>1, <4>2 DEF OtherThere
      <4>4. GaveUp(Other(p), s) => GaveUp(Other(p), s)'
        BY <1>1, <3>0 DEF EndsKeep, EndKept, GaveUp
      <4> QED
        BY <2>1, <2>2, <3>0, <4>3, <4>4 DEF Linked, NetKeeps
    <3>2. CASE conn[i].emits = "bytesWritten" /\ conn[i].closing
      <4>1. There(i, Other(p), s)
        BY <1>2, <2>4, <3>2 DEF There, Runs, IsOf
      <4>2. OtherThere(Other(p), s)
        BY <1>4, <3>0 DEF OtherThere
      <4>3. CloseComes(p, s)
        BY <1>1, <3>0, <3>2, <4>1, <4>2 DEF Caused, CauseKnown, Parts
      <4> QED
        BY <2>2, <4>3 DEF Linked, NetKeeps
    <3> QED
      BY <1>2, <3>1, <3>2
  <2>5. CloseComes(Other(p), s) => CloseComes(Other(p), s)'
    BY <1>1, <1>3, ClosesStay, PeersType
  <2>6. ~There(i, Other(p), s)' /\ (i = 0 => ~Awaits(s)')
    BY <1>2 DEF There, Runs, Awaits
  <2> QED
    BY <2>2, <2>3, <2>4, <2>5, <2>6
<1>5. \A p \in Peers, s \in Sessions : ~There(i, p, s)'
  BY <1>2 DEF Runs, There
<1> QED
  BY <1>1, <1>2, <1>4, <1>5, CausedBut

(* A packet or a request fails.                                             *)
LEMMA FailGone ==
    ASSUME Known, NEW q \in Peers, NEW i \in Conns, FailStep(q, i),
           NEW s \in Sessions, IsOf(i, s)
    PROVE  /\ hist[Other(q)][s].end # "open"
           /\ conn[i].st = "Active" => GaveUp(Other(q), s)
<1>1. /\ Basis /\ Caused /\ EndsKnown /\ TypeOK /\ Refusals
  BY DEF Known, Basis, SessionsKnown, TypeOK
<1> DEFINE m == Head(net[q])
<1>2. /\ m.kind = "error" /\ Owner(i) = q /\ m \in Coming[q]
      /\ net[q][1] = m /\ 1 \in 1..Len(net[q]) /\ conn[i].emits = "none"
  BY DEF FailStep, Popped
<1>3. CASE i = 0 /\ conn[0].j = Task("request", m.id) /\ conn[0].st = "Requesting"
  <2>1. s = nSessions /\ q = Requester
    BY <1>2, <1>3, PeersType DEF IsOf, SessionOf
  <2> QED
    BY <1>1, <1>2, <1>3, <2>1, PeersType DEF Refusals
<1>4. CASE conn[i].j = Task("data", m.id) /\ conn[i].st = "Active"
  <2>1. There(i, q, s)
    BY <1>2, <1>4 DEF IsOf, Runs, There
  <2>2. Bounced(i, q, s)
    BY <1>1, <2>1 DEF Caused, CauseKnown
  <2>3. ~ClosesBefore(q, 1, s)
    BY DEF ClosesBefore
  <2>4. GaveUp(Other(q), s)
    BY <1>2, <1>4, <2>2, <2>3 DEF Bounced
  <2> QED
    BY <2>4 DEF GaveUp
<1> QED
  BY <1>3, <1>4 DEF FailStep

LEMMA FailCaused ==
    ASSUME Known, TypeOK', NEW q \in Peers, NEW i \in Conns, FailStep(q, i)
    PROVE  Caused'
<1>1. /\ Basis /\ Caused /\ EndsKeep /\ EndsKnown /\ TypeOK
  BY EndsOnce DEF Known, Basis, SessionsKnown, TypeOK
<1>2. /\ Head(net[q]).kind = "error" /\ Owner(i) = q
      /\ conn[i].st # "Idle" /\ conn'[i].st = "Idle" /\ RestBut(i) /\ Popped(q) /\ Unmoved(Other(q))
      /\ nSessions' = nSessions
  BY DEF FailStep, Stops
<1>3. ASSUME NEW k \in Conns \ {i}, NEW p \in Peers, NEW s \in Sessions, There(k, p, s)
      PROVE  /\ NetKeeps(k, p, s)
             /\ \A n \in Coming'[Other(p)] : IsClose(n, s) => n \in Coming[Other(p)]
             /\ Owner(i) = Other(p) /\ IsOf(i, s) => Linked(k, p, s)'
             /\ CloseComes(Other(p), s) => CloseComes(Other(p), s)'
             /\ There(i, Other(p), s)' => OtherThere(p, s)
             /\ i = 0 /\ p = Acceptor /\ Awaits(s)' => OtherThere(p, s)
  <2>1. conn'[k].j = conn[k].j
    BY <1>2 DEF RestBut, Rests, Keeps
  <2>0. CloseComes(Other(p), s) => CloseComes(Other(p), s)'
    <3>1. Other(p) \in Peers /\ (Other(p) = q \/ Other(p) = Other(q))
      BY PeersType
    <3> QED
      BY <1>1, <1>2, <3>1, ClosesStay DEF IsClose, Data
  <2>4. ~There(i, Other(p), s)' /\ (i = 0 => ~Awaits(s)')
    BY <1>2 DEF There, Runs, Awaits
  <2>2. CASE p = q
    <3>1. NetKeeps(k, p, s)
      BY <1>1, <1>2, <2>1, <2>2, NetPopped DEF IsClose, Data
    <3> QED
      BY <1>2, <2>0, <2>2, <2>4, <3>1, PeersType DEF Unmoved
  <2>3. CASE p = Other(q)
    <3>1. NetKeeps(k, p, s)
      BY <1>2, <2>1, <2>3, NetUnmoved
    <3>2. ~IsOf(i, s)
      BY <1>1, <1>3, <2>3, FailGone, OpenRuns DEF There
    <3> QED
      BY <1>2, <2>0, <2>3, <2>4, <3>1, <3>2, PeersType DEF Popped
  <2> QED
    BY <2>2, <2>3, PeersType
<1>4. \A p \in Peers, s \in Sessions : ~There(i, p, s)'
  BY <1>2 DEF Runs, There
<1> QED
  BY <1>1, <1>2, <1>3, <1>4, CausedBut

LEMMA DiscardCaused ==
    ASSUME Known, Online, TypeOK', NEW q \in Peers, DiscardStep(q)
    PROVE  Caused'
<1>1. /\ Basis /\ Caused /\ EndsKeep /\ TypeOK
  BY EndsOnce DEF Known, Basis
<1>2. /\ Popped(q) /\ Unmoved(Other(q)) /\ ~IsSet(Head(net[q])) /\ conn' = conn
      /\ nSessions' = nSessions
      /\ \A k \in Conns : Owner(k) = q => conn[k].j # Task("data", Head(net[q]).id)
  BY DEF DiscardStep, Online
<1>3. \A p \in Peers, s \in Sessions : OtherThere(p, s) <=> OtherThere(p, s)'
  BY <1>2 DEF OtherThere, Runs, There, Awaits
<1> SUFFICES ASSUME NEW k \in Conns, NEW p \in Peers, NEW s \in Sessions, There(k, p, s)'
             PROVE  CauseKnown(k, p, s)'
  BY DEF Caused
<1>4. /\ There(k, p, s) /\ s \in Sids /\ conn'[k].j = conn[k].j
      /\ conn'[k].closing = conn[k].closing
  BY <1>2 DEF Runs, There, Sessions
<1>5. CauseKnown(k, p, s)
  BY <1>1, <1>4 DEF Caused
<1>6. OtherThere(p, s) => Linked(k, p, s)'
  BY <1>3 DEF Linked
<1>7. NetKeeps(k, p, s)
  <2>1. CASE p = q
    BY <1>1, <1>2, <1>4, <2>1, NetPopped DEF IsClose, Data, IsSet, Runs, There
  <2>2. CASE p = Other(q)
    BY <1>2, <1>4, <2>2, NetUnmoved
  <2> QED
    BY <2>1, <2>2, PeersType
<1>8. \A n \in Coming'[Other(p)] : n \in Coming[Other(p)]
  BY <1>2, PeersType DEF Popped, Unmoved
<1>9. CloseComes(Other(p), s) => CloseComes(Other(p), s)'
  <2>1. Other(p) \in Peers /\ (Other(p) = q \/ Other(p) = Other(q))
    BY PeersType
  <2> QED
    BY <1>1, <1>2, <2>1, ClosesStay DEF IsClose, Data, IsSet
<1>10. Parts(k, p, s) => Parts(k, p, s)'
  BY <1>3, <1>4, <1>9 DEF Parts
<1> QED
  BY <1>1, <1>4, <1>5, <1>6, <1>7, <1>8, <1>10, CauseKept

LEMMA CausedStep ==
    ASSUME Known, Online, Online', TypeOK'
    PROVE  Caused'
<1>1. Step
  BY DEF Known
<1>2. ~\E p \in Peers : OfflineStep(p)
  BY DEF OfflineStep, Online, Basis, Known, TypeOK
<1>3. RestStep => Caused'
  BY RestCaused, PeersType
<1>4. ASSUME NEW i \in Conns, NEW bytes \in Seq(Nat),
             WriteStep(i, bytes) \/ \E m \in Stanzas : SendStep(i, bytes, m)
      PROVE  Caused'
  BY <1>4, RestCaused, SendCaused
<1>5. ASSUME NEW i \in Conns,
             AcceptStep(i) \/ (\E how \in Ends : LeaveStep(i, how) \/ EndStep(i, how)) \/ RefuseStep(i) \/ CloseStep(i)
      PROVE  Caused'
  BY <1>5, AcceptCaused, LeaveCaused, EndCaused, RefuseCaused, CloseCaused
<1>6. ASSUME NEW p \in Peers, Taken(p)
      PROVE  Caused'
  BY <1>6, TakeRequestCaused, TakeDataCaused, AckCaused, FailCaused, RepulseCaused,
     AcceptedCaused, DiscardCaused DEF Taken
<1> QED
  BY <1>1, <1>2, <1>3, <1>4, <1>5, <1>6, ConnectCaused DEF Step


(* A request that failed was ended by the acceptor.                         *)
LEMMA RefusalsStep ==
    ASSUME Known, Online, Online', TypeOK'
    PROVE  Refusals'
<1>1. /\ Basis /\ Step /\ EndsKeep /\ EndsKnown /\ TypeOK /\ Ids /\ Refusals /\ nSessions \in Sids
  BY EndsOnce DEF Known, Basis, SessionsKnown, TypeOK
<1>2. ASSUME nSessions' = nSessions,
             \A id : conn'[0].j = Task("request", id) => conn[0].j = Task("request", id),
             \A a \in Coming'[Requester] :
               a.kind = "error" /\ conn[0].j = Task("request", a.id) => a \in Coming[Requester]
      PROVE  Refusals'
  BY <1>1, <1>2, PeersType DEF Refusals, EndsKeep, EndKept
<1>3. ASSUME NEW i \in Conns, RestBut(i), conn'[i].j = NoTask \/ conn'[i].j.mode = "data" \/ conn'[i].j = conn[i].j
      PROVE  \A id : conn'[0].j = Task("request", id) => conn[0].j = Task("request", id)
  BY <1>3, TaskFields, PeersType DEF RestBut, Rests, Keeps
<1>4. ASSUME \A k \in Conns : Rests(k)
      PROVE  \A id : conn'[0].j = Task("request", id) => conn[0].j = Task("request", id)
  BY <1>4, PeersType DEF Rests, Keeps
<1>5. RestStep => Refusals'
  BY <1>2, <1>4 DEF RestStep, Coming
<1>6. ASSUME NEW i \in Conns, NEW bytes \in Seq(Nat), WriteStep(i, bytes)
      PROVE  Refusals'
  BY <1>2, <1>3, <1>6 DEF WriteStep, Coming
<1>7. ASSUME NEW i \in Conns, NEW bytes \in Seq(Nat), NEW m \in Stanzas, SendStep(i, bytes, m)
      PROVE  Refusals'
  <2>1. \A a \in Coming'[Requester] : a.kind = "error" => a \in Coming[Requester]
    BY <1>7, PeersType DEF SendStep, Pushed, Unmoved, Data, Peers
  <2>2. conn'[i].j.mode = "data"
    BY <1>7, PeersType, TaskFields DEF SendStep, Online
  <2> QED
    BY <1>2, <1>3, <1>7, <2>1, <2>2 DEF SendStep
<1>8. ASSUME NEW i \in Conns, AcceptStep(i)
      PROVE  Refusals'
  BY <1>2, <1>3, <1>8, StanzaFields DEF AcceptStep, Pushed
<1>9. ASSUME NEW i \in Conns, NEW how, LeaveStep(i, how) \/ EndStep(i, how)
      PROVE  Refusals'
  BY <1>2, <1>3, <1>9 DEF LeaveStep, EndStep, Coming, Stops
<1>10. ASSUME NEW i \in Conns, RefuseStep(i)
       PROVE  Refusals'
  <2>1. CASE conn[0].j = Task("request", conn[i].iqId)
    <3>1. i = nSessions /\ nSessions' = nSessions /\ hist'[Acceptor][i].end = "refused"
      BY <1>1, <1>10, <2>1 DEF RefuseStep, Ids, TasksMatch, Ended
    <3> QED
      BY <3>1 DEF Refusals
  <2>2. CASE conn[0].j # Task("request", conn[i].iqId)
    BY <1>2, <1>3, <1>10, <2>2, StanzaFields DEF RefuseStep, Pushed, Stops
  <2> QED
    BY <2>1, <2>2
<1>11. ASSUME NEW i \in Conns, CloseStep(i)
       PROVE  Refusals'
  <2>1. \A a \in Coming'[Requester] : a.kind = "error" => a \in Coming[Requester]
    BY <1>11, PeersType DEF CloseStep, Pushed, Unmoved, Goodbye, Stanza, Peers
  <2> QED
    BY <1>2, <1>3, <1>11, <2>1 DEF CloseStep, Stops
<1>12. ASSUME NEW before, NEW m, ConnectStep(before, m)
       PROVE  Refusals'
  <2>1. /\ nextId[Requester] \in Nat /\ conn'[0].j = Task("request", m.id)
        /\ Coming'[Requester] = Coming[Requester] /\ m.id >= nextId[Requester]
    BY <1>1, <1>12, IdTypes, PeersType DEF ConnectStep, Unmoved
  <2>2. \A a \in Coming[Requester] : a.kind = "error" => a.id \in Nat /\ a.id < nextId[Requester]
    BY <1>1, IdTypes, PeersType DEF Ids, IdsUsed, IsSet
  <2>3. \A a \in Coming[Requester] : a.kind = "error" => a.id # m.id
    BY <2>1, <2>2
  <2> QED
    BY <2>1, <2>3, TaskFields DEF Refusals
<1>13. ASSUME NEW s \in Sessions, TakeRequestStep(s)
       PROVE  Refusals'
  BY <1>2, <1>3, <1>13, PeersType DEF TakeRequestStep, Unmoved
<1>14. ASSUME NEW p \in Peers, NEW i \in Conns, TakeDataStep(p, i)
       PROVE  Refusals'
  <2>1. \A a \in Coming'[Requester] : a.kind = "error" => a \in Coming[Requester]
    <3>1. Popped(p) /\ Pushed(Other(p), Result(Head(net[p]).id, 0))
      BY <1>14 DEF TakeDataStep
    <3>2. Result(Head(net[p]).id, 0).kind = "result"
      BY StanzaFields
    <3> QED
      BY <3>1, <3>2, PeersType DEF Pushed, Popped, Peers
  <2> QED
    BY <1>2, <1>3, <1>14, <2>1 DEF TakeDataStep, Stops, Rests, Keeps
<1>15. ASSUME NEW p \in Peers, NEW i \in Conns, AckStep(p, i) \/ FailStep(p, i)
       PROVE  Refusals'
  <2>1. /\ RestBut(i) /\ conn'[i].j = NoTask /\ nSessions' = nSessions
        /\ Popped(p) /\ Unmoved(Other(p))
    BY <1>15 DEF AckStep, FailStep, Stops
  <2>2. Coming'[Requester] \subseteq Coming[Requester]
    BY <2>1, PeersType DEF Popped, Unmoved, Peers
  <2> QED
    BY <1>2, <1>3, <2>1, <2>2
<1>16. AcceptedStep => Refusals'
  BY <1>2, <1>3, PeersType DEF AcceptedStep, Popped
<1>17. ASSUME NEW p \in Peers, RepulseStep(p)
       PROVE  Refusals'
  <2>1. up[p] /\ Data(Head(net[p])) /\ Head(net[p]) \in Coming[p]
        /\ Popped(p) /\ Pushed(Other(p), Error(Head(net[p]).id))
    BY <1>17 DEF RepulseStep, Online, Popped
  <2>2. \A a \in Coming'[Requester] : a.kind = "error" /\ conn[0].j = Task("request", a.id) =>
          a \in Coming[Requester]
    <3>1. CASE p = Requester
      BY <2>1, <3>1 DEF Popped
    <3>2. CASE p = Acceptor
      <4>1. conn[0].j # Task("request", Head(net[p]).id)
        BY <1>1, <2>1, <3>2 DEF Ids, TasksMatch, Data, IsSet
      <4> QED
        BY <2>1, <3>2, <4>1, PeersType, StanzaFields DEF Pushed
    <3> QED
      BY <3>1, <3>2 DEF Peers
  <2> QED
    BY <1>2, <1>17, <2>2 DEF RepulseStep
<1>18. ASSUME NEW p \in Peers, DiscardStep(p)
       PROVE  Refusals'
  <2>1. Coming'[Requester] \subseteq Coming[Requester]
    BY <1>18, PeersType DEF DiscardStep, Popped, Unmoved, Peers
  <2> QED
    BY <1>2, <1>18, <2>1 DEF DiscardStep
<1>19. ~\E p \in Peers : OfflineStep(p)
  BY <1>1 DEF OfflineStep, Online, TypeOK
<1> QED
  BY <1>1, <1>5, <1>6, <1>7, <1>8, <1>9, <1>10, <1>11, <1>12, <1>13, <1>14, <1>15, <1>16,
     <1>17, <1>18, <1>19 DEF Step, Taken

(* A packet that failed was sent to an end that gave up.                    *)
LEMMA DataErrorsStep ==
    ASSUME Known, Online, Online', TypeOK'
    PROVE  DataErrors'
<1>1. /\ Basis /\ Step /\ EndsKeep /\ EndsKnown /\ TypeOK /\ DataErrors /\ Sessions \subseteq Sids
  BY EndsOnce DEF Known, Basis, SessionsKnown, TypeOK, Sessions
<1>2. ASSUME \A p \in Peers, s \in Sessions :
               hist'[p][s].end = "ErrData" => hist[p][s].end = "ErrData"
                                              \/ GaveUp(Other(p), s)
      PROVE  DataErrors'
  BY <1>1, <1>2, PeersType DEF DataErrors, EndsKeep, EndKept, GaveUp
<1>3. ASSUME NEW p, NEW s, NEW how, how # "ErrData", Ended(p, s, how)
      PROVE  DataErrors'
  BY <1>1, <1>2, <1>3 DEF Ended, Only
<1>4. ASSUME \A p \in Peers, s \in Sids : Same(p, s)
      PROVE  DataErrors'
  BY <1>1, <1>2, <1>4 DEF Same
<1>5. ASSUME NEW i \in Conns, NEW bytes,
             WriteStep(i, bytes) \/ \E m \in Stanzas : SendStep(i, bytes, m)
      PROVE  DataErrors'
  BY <1>1, <1>2, <1>5 DEF WriteStep, SendStep, Grown, Only
<1>6. ASSUME NEW i \in Conns,
             (\E how \in Ends : LeaveStep(i, how) \/ EndStep(i, how))
             \/ RefuseStep(i) \/ CloseStep(i)
      PROVE  DataErrors'
  BY <1>3, <1>6 DEF LeaveStep, EndStep, RefuseStep, CloseStep
<1>7. ASSUME NEW before, NEW m, ConnectStep(before, m)
      PROVE  DataErrors'
  BY <1>3, <1>4, <1>7 DEF ConnectStep, Same
<1>8. ASSUME NEW p \in Peers, NEW i \in Conns, TakeDataStep(p, i) \/ AckStep(p, i)
      PROVE  DataErrors'
  BY <1>1, <1>2, <1>8 DEF TakeDataStep, AckStep, Only
<1>9. ASSUME NEW p \in Peers, NEW i \in Conns, FailStep(p, i)
      PROVE  DataErrors'
  <2>1. CASE Ended(p, nSessions, "ErrRequest")
    BY <1>3, <2>1
  <2>2. CASE conn[i].st = "Active" /\ Ended(p, conn[i].session, "ErrData")
    <3>1. \A s \in Sessions : s = conn[i].session => GaveUp(Other(p), s)
      BY <1>9, <2>2, FailGone DEF IsOf
    <3> QED
      BY <1>1, <1>2, <2>2, <3>1 DEF Ended, Only
  <2> QED
    BY <1>9, <2>1, <2>2 DEF FailStep
<1>10. ASSUME \/ RestStep \/ AcceptedStep \/ \E s \in Sessions : TakeRequestStep(s)
              \/ \E i \in Conns : AcceptStep(i)
              \/ \E p \in Peers : RepulseStep(p) \/ DiscardStep(p)
       PROVE  DataErrors'
  BY <1>4, <1>10 DEF RestStep, SameHist, Same, AcceptStep, AcceptedStep, TakeRequestStep, RepulseStep, DiscardStep
<1>11. ~\E p \in Peers : OfflineStep(p)
  BY <1>1 DEF OfflineStep, Online, TypeOK
<1> QED
  BY <1>1, <1>4, <1>5, <1>6, <1>7, <1>8, <1>9, <1>10, <1>11 DEF Step, Taken

(* A request that has not been dealt with.                                  *)
LEMMA AskedStep ==
    ASSUME Known, Online, Online', TypeOK'
    PROVE  Asked'
<1>1. /\ Basis /\ Step /\ EndsKeep /\ EndsKnown /\ Starting /\ TypeOK /\ Ids /\ Asked /\ Refusals
      /\ Answered /\ nSessions \in Sids /\ Sessions \subseteq Sids /\ Sessions \subseteq Conns
  BY EndsOnce, PeersType DEF Known, Basis, SessionsKnown, TypeOK, Sessions
<1> DEFINE Waits(s, id) == /\ s \in Sessions /\ Silent(Acceptor, s) /\ conn[s].st # "Active"
                           /\ Awaits(s) /\ conn[0].j = Task("request", id)
           SameRequests == /\ \A s \in Sessions : conn'[s].st = "WaitingForAccept" =>
                                conn[s].st = "WaitingForAccept" /\ conn'[s].iqId = conn[s].iqId
                           /\ \A n \in Coming'[Acceptor] : n.kind = "request" => n \in Coming[Acceptor]
<1>2. /\ \A s \in Sessions : conn[s].st = "WaitingForAccept" =>
           \/ Waits(s, conn[s].iqId)
           \/ GaveUp(Requester, s)
      /\ \A n \in Coming[Acceptor] : n.kind = "request" =>
           /\ n.session \in Sessions
           /\ Waits(n.session, n.id) \/ GaveUp(Requester, n.session)
  BY <1>1 DEF Asked, AskedFor, Starting
<1>3. \A s \in Sessions : GaveUp(Requester, s) => GaveUp(Requester, s)'
  BY <1>1, PeersType DEF EndsKeep, EndKept, GaveUp
<1>4. ASSUME SameRequests, \A s, id : Waits(s, id) => AskedFor(s, id)'
      PROVE  Asked'
  <2>1. \A s, id : s \in Sessions /\ (Waits(s, id) \/ GaveUp(Requester, s)) => AskedFor(s, id)'
    BY <1>3, <1>4 DEF AskedFor
  <2>2. ASSUME NEW s \in Sessions, conn'[s].st = "WaitingForAccept"
        PROVE  \A id : id = conn'[s].iqId => AskedFor(s, id)'
    BY <1>2, <1>4, <2>1, <2>2
  <2>3. ASSUME NEW n \in Coming'[Acceptor], n.kind = "request"
        PROVE  AskedFor(n.session, n.id)'
    BY <1>2, <1>4, <2>1, <2>3
  <2> QED
    BY <2>2, <2>3 DEF Asked, AskedFor
<1>5. ASSUME nSessions' = nSessions, conn'[0].st = conn[0].st, conn'[0].j = conn[0].j
      PROVE  \A s, id : Waits(s, id) => AskedFor(s, id)'
  BY <1>5 DEF AskedFor, Awaits
<1>6. ASSUME NEW i \in Conns, RestBut(i),
             \A n \in Coming'[Acceptor] : n.kind = "request" => n \in Coming[Acceptor],
             conn'[i].st = "WaitingForAccept" =>
                conn[i].st = "WaitingForAccept" /\ conn'[i].iqId = conn[i].iqId
      PROVE  SameRequests
  BY <1>1, <1>6 DEF RestBut, Rests, Keeps
<1>7. ASSUME NEW i \in Conns, RestBut(i), i # 0
      PROVE  conn'[0].st = conn[0].st /\ conn'[0].j = conn[0].j
  BY <1>7, PeersType DEF RestBut, Rests, Keeps
<1>8. ASSUME NEW i \in Conns, RestBut(i), nSessions' = nSessions, SameRequests,
             conn[i].st # "Requesting" \/ (conn'[i].st = conn[i].st /\ conn'[i].j = conn[i].j)
      PROVE  Asked'
  <2>1. \A s, id : Waits(s, id) => AskedFor(s, id)'
    <3>1. CASE i = 0 /\ conn[0].st # "Requesting"
      BY <3>1 DEF Awaits
    <3>2. CASE i # 0
      BY <1>5, <1>7, <1>8, <3>2
    <3>3. CASE i = 0 /\ conn'[i].st = conn[i].st /\ conn'[i].j = conn[i].j
      BY <1>5, <1>8, <3>3
    <3> QED
      BY <1>8, <3>1, <3>2, <3>3
  <2> QED
    BY <1>4, <1>8, <2>1
<1> HIDE DEF SameRequests, Waits
<1>9. CASE RestStep
  <2>1. RestBut(0) /\ net' = net /\ nSessions' = nSessions /\ conn'[0].st = conn[0].st
        /\ conn'[0].j = conn[0].j /\ conn'[0].iqId = conn[0].iqId
    BY <1>9, PeersType DEF RestStep, RestBut, Rests, Keeps
  <2> QED
    BY <1>6, <1>8, <2>1, PeersType DEF Coming
<1>10. ASSUME NEW i \in Conns, NEW bytes \in Seq(Nat),
              WriteStep(i, bytes) \/ \E m \in Stanzas : SendStep(i, bytes, m)
       PROVE  Asked'
  <2>1. CASE WriteStep(i, bytes)
    BY <1>6, <1>8, <2>1 DEF WriteStep, Coming
  <2>2. ASSUME NEW m \in Stanzas, SendStep(i, bytes, m)
        PROVE  Asked'
    <3>1. \A n \in Coming'[Acceptor] : n.kind = "request" => n \in Coming[Acceptor]
      BY <2>2, PeersType, SMTT(30) DEF SendStep, Pushed, Unmoved, Data, Peers
    <3> QED
      BY <1>6, <1>8, <2>2, <3>1 DEF SendStep
  <2> QED
    BY <1>10, <2>1, <2>2
<1>11. ASSUME NEW i \in Conns, AcceptStep(i)
       PROVE  Asked'
  BY <1>6, <1>8, <1>11 DEF AcceptStep, Unmoved
<1>12. ASSUME NEW i \in Conns, NEW how, LeaveStep(i, how)
       PROVE  Asked'
  <2>1. SameRequests
    BY <1>6, <1>12 DEF LeaveStep, Stops, Coming
  <2>2. CASE i = 0
    <3>1. Ended(Requester, nSessions, how) /\ how \in {"abandoned", "undone"}
      BY <1>12, <2>2, PeersType DEF LeaveStep, SessionOf
    <3>2. \A s, id : Waits(s, id) => AskedFor(s, id)'
      BY <3>1 DEF Waits, Awaits, AskedFor, Ended, GaveUp
    <3> QED
      BY <1>4, <2>1, <3>2
  <2>3. CASE i # 0
    <3>1. \A s, id : Waits(s, id) => AskedFor(s, id)'
      BY <1>5, <1>7, <1>12, <2>3 DEF LeaveStep
    <3> QED
      BY <1>4, <2>1, <3>1
  <2> QED
    BY <2>2, <2>3
<1>13. ASSUME NEW i \in Conns, RefuseStep(i)
       PROVE  Asked'
  BY <1>6, <1>8, <1>13 DEF RefuseStep, Stops, Unmoved
<1>14. ASSUME NEW i \in Conns, CloseStep(i)
       PROVE  Asked'
  <2>1. \A n \in Coming'[Acceptor] : n.kind = "request" => n \in Coming[Acceptor]
    BY <1>14, PeersType DEF CloseStep, Pushed, Unmoved, Goodbye, Stanza, Peers
  <2> QED
    BY <1>6, <1>8, <1>14, <2>1 DEF CloseStep, Stops
<1>15. ASSUME NEW before, NEW m, ConnectStep(before, m)
       PROVE  Asked'
  <2>1. /\ RestBut(0) /\ conn'[0].st = "Requesting" /\ conn'[0].j = Task("request", m.id)
        /\ nSessions' = nSessions + 1 /\ m.session = nSessions + 1 /\ m.kind = "request"
        /\ \A n \in Coming'[Acceptor] : n.kind = "request" => n \in Coming[Acceptor] \/ n = m
    BY <1>15 DEF ConnectStep, Farewell, Data
  <2>2. \A s, id : Waits(s, id) => GaveUp(Requester, s)'
    <3>1. ASSUME NEW s, NEW id, Waits(s, id)
          PROVE  hist'[Requester][s].end \in {"abandoned", "undone"}
      <4>1. conn[0].st = "Requesting" /\ s = nSessions
        BY <3>1 DEF Waits, Awaits
      <4> QED
        BY <1>15, <4>1 DEF ConnectStep, Ended
    <3> QED
      BY <3>1 DEF GaveUp
  <2>3. \A s \in Sessions : conn'[s].st = "WaitingForAccept" =>
          conn[s].st = "WaitingForAccept" /\ conn'[s].iqId = conn[s].iqId
    BY <2>1, PeersType DEF RestBut, Rests, Keeps
  <2>4. \A s \in Sessions : conn'[s].st = "WaitingForAccept" => GaveUp(Requester, s)'
    BY <1>2, <1>3, <2>2, <2>3
  <2>5. \A n \in Coming[Acceptor] : n.kind = "request" => GaveUp(Requester, n.session)'
    BY <1>2, <1>3, <2>2
  <2>6. AskedFor(m.session, m.id)'
    BY <2>1 DEF AskedFor, Awaits
  <2> QED
    BY <2>1, <2>4, <2>5, <2>6 DEF Asked, AskedFor
<1>16. ASSUME NEW t \in Sessions, TakeRequestStep(t)
       PROVE  Asked'
  <2> DEFINE m == Head(net[Acceptor])
  <2>1. /\ m \in Coming[Acceptor] /\ m.kind = "request" /\ m.session = t /\ conn'[t].iqId = m.id
        /\ RestBut(t) /\ nSessions' = nSessions /\ t # 0 /\ t \in Conns
        /\ Coming'[Acceptor] \subseteq Coming[Acceptor]
    BY <1>16, PeersType DEF TakeRequestStep, Popped
  <2>2. \A s, id : Waits(s, id) => AskedFor(s, id)'
    BY <1>5, <1>7, <2>1
  <2>3. \A s, id : s \in Sessions /\ GaveUp(Requester, s) => AskedFor(s, id)'
    BY <1>3 DEF AskedFor
  <2>4. \A s \in Sessions : s # t /\ conn'[s].st = "WaitingForAccept" =>
          conn[s].st = "WaitingForAccept" /\ conn'[s].iqId = conn[s].iqId
    BY <1>1, <2>1 DEF RestBut, Rests, Keeps
  <2>5. \A s \in Sessions : conn'[s].st = "WaitingForAccept" =>
          \A id : id = conn'[s].iqId => AskedFor(s, id)'
    <3> TAKE s \in Sessions
    <3>1. CASE s = t
      BY <1>2, <2>1, <2>2, <2>3, <3>1
    <3>2. CASE s # t
      BY <1>2, <2>2, <2>3, <2>4, <3>2
    <3> QED
      BY <3>1, <3>2
  <2>6. \A n \in Coming'[Acceptor] : n.kind = "request" => AskedFor(n.session, n.id)'
    BY <1>2, <2>1, <2>2, <2>3
  <2> QED
    BY <2>5, <2>6 DEF Asked, AskedFor
<1>17. ASSUME NEW p \in Peers, NEW i \in Conns, TakeDataStep(p, i)
       PROVE  Asked'
  <2>1. \A n \in Coming'[Acceptor] : n.kind = "request" => n \in Coming[Acceptor]
    <3>1. Popped(p) /\ Pushed(Other(p), Result(Head(net[p]).id, 0))
      BY <1>17 DEF TakeDataStep
    <3>2. Result(Head(net[p]).id, 0).kind = "result"
      BY StanzaFields
    <3> QED
      BY <3>1, <3>2, PeersType DEF Pushed, Popped, Peers
  <2> QED
    BY <1>6, <1>8, <1>17, <2>1 DEF TakeDataStep, Stops, Rests, Keeps, Runs
<1>18. ASSUME NEW p \in Peers, NEW i \in Conns, AckStep(p, i)
       PROVE  Asked'
  <2>1. \A n \in Coming'[Acceptor] : n.kind = "request" => n \in Coming[Acceptor]
    BY <1>18, PeersType DEF AckStep, Popped, Unmoved, Peers
  <2> QED
    BY <1>6, <1>8, <1>18, <2>1 DEF AckStep, Stops, Runs
<1>19. ASSUME NEW p \in Peers, NEW i \in Conns, FailStep(p, i)
       PROVE  Asked'
  <2>1. /\ RestBut(i) /\ nSessions' = nSessions
        /\ \A n \in Coming'[Acceptor] : n.kind = "request" => n \in Coming[Acceptor]
    BY <1>19, PeersType DEF FailStep, Popped, Unmoved, Peers
  <2>2. SameRequests
    BY <1>6, <1>19, <2>1 DEF FailStep, Stops
  <2>3. CASE i = 0 /\ conn[i].st = "Requesting"
    <3>1. \A s, id : Waits(s, id) => hist[Acceptor][s].end # "open"
      <4>1. \A s : Awaits(s) => IsOf(0, s)
        BY PeersType DEF Awaits, IsOf, SessionOf
      <4>2. Other(p) = Acceptor
        BY <1>19, <2>3, PeersType DEF FailStep
      <4> QED
        BY <1>19, <2>3, <4>1, <4>2, FailGone DEF Waits
    <3>2. \A s, id : ~Waits(s, id)
      BY <3>1 DEF Waits, Silent, NoHistory
    <3> QED
      BY <1>4, <2>2, <3>2
  <2>4. CASE conn[i].st # "Requesting"
    BY <1>8, <2>1, <2>2, <2>4
  <2>5. CASE i # 0
    <3>1. \A s, id : Waits(s, id) => AskedFor(s, id)'
      BY <1>5, <1>7, <2>1, <2>5
    <3> QED
      BY <1>4, <2>2, <3>1
  <2> QED
    BY <2>3, <2>4, <2>5
<1>20. CASE AcceptedStep
  <2> DEFINE m == Head(net[Requester])
  <2>1. /\ m.kind = "result" /\ conn[0].j = Task("request", m.id) /\ conn[0].st = "Requesting"
        /\ RestBut(0) /\ conn'[0].st = "Active" /\ Unmoved(Acceptor)
        /\ net[Requester][1] = m /\ 1 \in 1..Len(net[Requester])
    BY <1>20 DEF AcceptedStep, Popped
  <2>2. SameRequests
    BY <1>6, <2>1, PeersType DEF Unmoved
  <2>3. Yes(1)
    BY <2>1 DEF Yes
  <2>4. conn[nSessions].st = "Active" \/ CloseComes(Requester, nSessions)
    BY <1>1, <2>1, <2>3 DEF Answered, AnsweredBy
  <2>5. \A s, id : ~Waits(s, id)
    BY <2>4, PeersType DEF Waits, Awaits, Silent, CloseComes, IsClose
  <2> QED
    BY <1>4, <2>2, <2>5
<1>21. ASSUME NEW p \in Peers, RepulseStep(p) \/ DiscardStep(p)
       PROVE  Asked'
  <2>1. RestBut(0) /\ nSessions' = nSessions /\ conn' = conn
    BY <1>21 DEF RepulseStep, DiscardStep, RestBut, Rests, Keeps, Settles
  <2>2. \A n \in Coming'[Acceptor] : n.kind = "request" => n \in Coming[Acceptor]
    BY <1>21, PeersType, StanzaFields DEF RepulseStep, DiscardStep, Pushed, Popped, Unmoved, Peers
  <2> QED
    BY <1>6, <1>8, <2>1, <2>2, PeersType
<1>22. ~\E p \in Peers : OfflineStep(p)
  BY <1>1 DEF OfflineStep, Online, TypeOK
<1>23. ASSUME NEW i \in Conns, NEW how, EndStep(i, how)
       PROVE  Asked'
  BY <1>6, <1>8, <1>23 DEF EndStep, Stops, Coming
<1> QED
  BY <1>1, <1>9, <1>10, <1>11, <1>12, <1>13, <1>14, <1>15, <1>16, <1>17, <1>18, <1>19, <1>20,
     <1>21, <1>22, <1>23 DEF Step, Taken


(* The answer to the requester's request: what has come before stays.       *)
(* A step of which the end of the requester's session knows nothing, and    *)
(* after which at most one more stanza is on its way to the requester.      *)
StillAsks == /\ conn[0].st = "Requesting" /\ conn'[0].st = "Requesting"
             /\ conn'[0].j = conn[0].j /\ nSessions' = nSessions
(* ... and in which no handler of connection s begins.                      *)
Listens(s) ==
    conn'[s].st # "Idle" =>
      conn'[s].emits = "none" \/ (conn[s].st # "Idle" /\ conn'[s].emits = conn[s].emits)

LEMMA AnsweredPushed ==
    ASSUME TypeOK, Answered, StillAsks, NEW s \in Sessions, s = nSessions, Listens(s),
           NEW m, Pushed(Requester, m),
           ~(m.kind = "result" /\ conn[0].j = Task("request", m.id)),
           conn'[s].st = "Active" =>
             /\ conn[s].st = "Active"
             /\ conn'[s].j = conn[s].j \/ (Data(m) /\ conn'[s].j = Task("data", m.id)),
           conn[s].st = "Active" => conn'[s].st = "Active" \/ IsClose(m, s)
    PROVE  AnsweredBy(s)'
<1>1. AnsweredBy(s) /\ conn'[0].j = conn[0].j
  BY DEF Answered, StillAsks
<1>2. Len(net[Requester]) \in Nat
  BY ComingType, PeersType
<1>3. \A k \in 1..Len(net'[Requester]) :
        \/ k \in 1..Len(net[Requester]) /\ net'[Requester][k] = net[Requester][k]
        \/ k = Len(net[Requester]) + 1 /\ net'[Requester][k] = m
  BY <1>2 DEF Pushed
<1>4. \A k \in 1..Len(net[Requester]) : k \in 1..Len(net'[Requester]) /\ (Yes(k) => Yes(k)')
  BY <1>1 DEF Pushed, Yes
<1>5. \A k \in 1..Len(net'[Requester]) : Yes(k)' => k \in 1..Len(net[Requester]) /\ Yes(k)
  BY <1>1, <1>3 DEF Yes
<1>6. Coming[Requester] \subseteq Coming'[Requester] /\ m \in Coming'[Requester]
  BY DEF Pushed
<1>7. conn'[s].st = "Active" =>
        /\ \E k \in 1..Len(net'[Requester]) : Yes(k)'
        /\ conn'[s].j # NoTask =>
             \E n \in Coming'[Requester] : Data(n) /\ conn'[s].j = Task("data", n.id)
  <2>1. HAVE conn'[s].st = "Active"
  <2>2. /\ \E k \in 1..Len(net[Requester]) : Yes(k)
        /\ conn[s].j # NoTask =>
             \E n \in Coming[Requester] : Data(n) /\ conn[s].j = Task("data", n.id)
    BY <1>1, <2>1 DEF AnsweredBy
  <2>3. \E k \in 1..Len(net'[Requester]) : Yes(k)'
    BY <1>4, <2>2
  <2> QED
    BY <1>6, <2>1, <2>2, <2>3
<1>8. ASSUME NEW k \in 1..Len(net'[Requester]), Yes(k)'
      PROVE  (conn'[s].st = "Active" \/ CloseComes(Requester, s)') /\ YesFirst(k, s)'
  <2>1. k \in 1..Len(net[Requester]) /\ Yes(k)
    BY <1>5, <1>8
  <2>2. (conn[s].st = "Active" \/ CloseComes(Requester, s)) /\ YesFirst(k, s)
    BY <1>1, <2>1 DEF AnsweredBy
  <2>3. CloseComes(Requester, s) \/ IsClose(m, s) => CloseComes(Requester, s)'
    BY <1>6 DEF CloseComes
  <2>4. k < Len(net[Requester]) + 1
    BY <1>2, <2>1
  <2>5. YesFirst(k, s)'
    BY <1>3, <2>2, <2>4 DEF YesFirst
  <2> QED
    BY <2>2, <2>3, <2>5
<1> QED
  BY <1>1, <1>7, <1>8 DEF AnsweredBy, Listens

LEMMA AnsweredUnmoved ==
    ASSUME TypeOK, Answered, StillAsks, NEW s \in Sessions, s = nSessions, Listens(s), Unmoved(Requester),
           conn'[s].st = "Active" <=> conn[s].st = "Active",
           conn[s].st = "Active" => conn'[s].j = conn[s].j
    PROVE  AnsweredBy(s)'
<1>1. AnsweredBy(s) /\ conn'[0].j = conn[0].j /\ net'[Requester] = net[Requester]
      /\ Coming'[Requester] = Coming[Requester]
  BY DEF Answered, StillAsks, Unmoved
<1>2. \A k : Yes(k)' <=> Yes(k)
  BY <1>1 DEF Yes
<1>3. \A k : YesFirst(k, s)' <=> YesFirst(k, s)
  BY <1>1 DEF YesFirst
<1>4. CloseComes(Requester, s)' <=> CloseComes(Requester, s)
  BY <1>1 DEF CloseComes
<1> QED
  BY <1>1, <1>2, <1>3, <1>4 DEF AnsweredBy, Listens

(* What the requester takes: nothing of the session it asks for can come    *)
(* before the answer.                                                       *)
LEMMA AnsweredPopped ==
    ASSUME TypeOK, TypeOK', Ids, EndsKnown, Answered, StillAsks, NEW s \in Sessions, s = nSessions,
           Popped(Requester), ~Yes(1), conn' = conn
    PROVE  AnsweredBy(s)'
<1>1. AnsweredBy(s) /\ conn'[0].j = conn[0].j
  BY DEF Answered, StillAsks
<1> DEFINE m == Head(net[Requester])
<1>2. /\ Len(net[Requester]) \in Nat /\ m \in Coming[Requester] /\ m = net[Requester][1]
      /\ 1 \in 1..Len(net[Requester])
  BY ComingType, PeersType DEF Popped
<1>3. \A n \in Coming[Requester] : n = m \/ n \in Coming'[Requester]
  BY OthersWait, PeersType
<1> HIDE DEF m
<1>4. \A k \in 1..Len(net'[Requester]) :
        k + 1 \in 1..Len(net[Requester]) /\ net'[Requester][k] = net[Requester][k + 1]
  BY DEF Popped
<1>5. \A k \in 1..Len(net'[Requester]) : Yes(k)' => Yes(k + 1)
  BY <1>1, <1>4 DEF Yes
<1>6. ASSUME NEW k \in 1..Len(net[Requester]), Yes(k)
      PROVE  /\ ~(Data(m) /\ m.session = s)
             /\ k - 1 \in 1..Len(net'[Requester]) /\ Yes(k - 1)'
  <2>1. YesFirst(k, s) /\ k > 1 /\ ~(k < 1)
    BY <1>1, <1>6 DEF AnsweredBy
  <2>2. ~(Data(m) /\ m.session = s)
    BY <1>2, <2>1 DEF YesFirst
  <2>3. k - 1 \in 1..Len(net'[Requester]) /\ net'[Requester][k - 1] = net[Requester][k]
    BY <2>1 DEF Popped
  <2> QED
    BY <1>1, <1>6, <2>2, <2>3 DEF Yes
<1>7. conn'[s].st = "Active" =>
        /\ \E k \in 1..Len(net'[Requester]) : Yes(k)'
        /\ conn'[s].j # NoTask =>
             \E n \in Coming'[Requester] : Data(n) /\ conn'[s].j = Task("data", n.id)
  <2>1. HAVE conn'[s].st = "Active"
  <2>2. PICK k \in 1..Len(net[Requester]) : Yes(k)
    BY <1>1, <2>1 DEF AnsweredBy
  <2>3. \E l \in 1..Len(net'[Requester]) : Yes(l)'
    BY <1>6, <2>2
  <2>4. ASSUME conn[s].j # NoTask
        PROVE  \E n \in Coming'[Requester] : Data(n) /\ conn'[s].j = Task("data", n.id)
    <3>1. PICK n \in Coming[Requester] : Data(n) /\ conn[s].j = Task("data", n.id)
      BY <1>1, <2>1, <2>4 DEF AnsweredBy
    <3>2. n.session = s
      <4>1. s \in Conns /\ Other(Owner(s)) = Requester /\ conn[s].session = s
        BY <2>1, PeersType DEF EndsKnown
      <4> QED
        BY <3>1, <4>1 DEF Ids, TasksMatch, IsSet, Data
    <3>3. n # m
      BY <1>6, <2>2, <3>1, <3>2
    <3> QED
      BY <1>3, <3>1, <3>3
  <2> QED
    BY <2>3, <2>4
<1>8. ASSUME NEW k \in 1..Len(net'[Requester]), Yes(k)'
      PROVE  (conn'[s].st = "Active" \/ CloseComes(Requester, s)') /\ YesFirst(k, s)'
  <2>1. k + 1 \in 1..Len(net[Requester]) /\ Yes(k + 1)
    BY <1>4, <1>5, <1>8
  <2>2. (conn[s].st = "Active" \/ CloseComes(Requester, s)) /\ YesFirst(k + 1, s)
    BY <1>1, <2>1 DEF AnsweredBy
  <2>3. ~IsClose(m, s)
    BY <1>6, <2>1 DEF IsClose
  <2>4. CloseComes(Requester, s) => CloseComes(Requester, s)'
    BY <1>3, <2>3 DEF CloseComes
  <2>5. YesFirst(k, s)'
    <3> SUFFICES ASSUME NEW l \in 1..Len(net'[Requester]), Data(net'[Requester][l]),
                        net'[Requester][l].session = s
                 PROVE  k < l
      BY DEF YesFirst
    <3>1. k + 1 < l + 1
      BY <1>4, <2>2 DEF YesFirst
    <3> QED
      BY <3>1
  <2> QED
    BY <2>2, <2>4, <2>5
<1> QED
  BY <1>1, <1>7, <1>8 DEF AnsweredBy

LEMMA AnsweredStep ==
    ASSUME Known, Online, Online', TypeOK'
    PROVE  Answered'
<1>1. /\ Basis /\ Step /\ EndsKeep /\ EndsKnown /\ Starting /\ TypeOK /\ Ids /\ Asked
      /\ Answered /\ ConnectionsOK /\ nSessions \in Nat
      /\ Sessions \subseteq Sids /\ Sessions \subseteq Conns
  BY EndsOnce, FieldTypes, PeersType DEF Known, Basis, SessionsKnown, Sessions
<1>2. ASSUME NEW before, NEW m, ConnectStep(before, m)
      PROVE  Answered'
  <2>1. /\ nSessions' = nSessions + 1 /\ nSessions' \in Sessions /\ RestBut(0)
        /\ conn'[0].j = Task("request", m.id) /\ Unmoved(Requester)
        /\ nextId[Requester] \in Nat /\ m.id >= nextId[Requester]
    BY <1>1, <1>2, IdTypes, PeersType DEF ConnectStep, TypeOK, Sessions
  <2>2. \A s \in Sessions : s = nSessions' => conn'[s].st = "Idle"
    BY <1>1, <2>1, PeersType DEF Starting, RestBut, Rests, Keeps
  <2>3. \A k \in 1..Len(net'[Requester]) : ~Yes(k)'
    <3>1. \A k \in 1..Len(net[Requester]) : net[Requester][k].kind = "result" =>
            net[Requester][k].id \in Nat /\ net[Requester][k].id < nextId[Requester]
      BY <1>1, IdTypes, ComingType, PeersType DEF Ids, IdsUsed, IsSet
    <3>2. \A k \in 1..Len(net[Requester]) : net[Requester][k].kind = "result" =>
            net[Requester][k].id # m.id
      BY <2>1, <3>1
    <3> QED
      BY <2>1, <3>2, TaskFields DEF Yes, Unmoved
  <2> QED
    BY <2>1, <2>2, <2>3 DEF Answered, AnsweredBy
<1> DEFINE Continues == /\ nSessions' = nSessions
                        /\ conn'[0].st = "Requesting" =>
                             conn[0].st = "Requesting" /\ conn'[0].j = conn[0].j
<1>3. ASSUME Continues, \A s \in Sessions : StillAsks /\ s = nSessions => AnsweredBy(s)'
      PROVE  Answered'
  <2> SUFFICES ASSUME conn'[0].st = "Requesting"
               PROVE  AnsweredBy(nSessions)'
    BY DEF Answered
  <2>1. PICK s \in Sessions : s = nSessions
    BY <1>1, <1>3 DEF EndsKnown, TypeOK, Sessions
  <2>2. AnsweredBy(s)' /\ s = nSessions'
    BY <1>3, <2>1 DEF StillAsks
  <2> QED
    BY <2>2 DEF AnsweredBy, CloseComes, IsClose, YesFirst
<1>4. ASSUME NEW i \in Conns, RestBut(i), nSessions' = nSessions, i # 0 \/ conn'[0].st # "Requesting"
      PROVE  Continues
  BY <1>4, PeersType DEF RestBut, Rests, Keeps
<1>5. ASSUME NEW i \in Conns, RestBut(i)
      PROVE  \A s \in Sessions :
               s # i => conn'[s].st = conn[s].st /\ conn'[s].j = conn[s].j /\ Listens(s)
  BY <1>1, <1>5 DEF RestBut, Rests, Keeps, Settles, Listens
<1> HIDE DEF Continues
<1>6. ASSUME \A k \in Conns : conn'[k].st = conn[k].st /\ conn'[k].j = conn[k].j /\ Listens(k),
             nSessions' = nSessions, Unmoved(Requester)
      PROVE  Answered'
  <2>1. Continues
    BY <1>6, PeersType DEF Continues
  <2> QED
    BY <1>1, <1>3, <1>6, <2>1, AnsweredUnmoved
<1>7. ASSUME NEW i \in Conns, RestBut(i), nSessions' = nSessions, i # 0 \/ conn'[0].st # "Requesting",
             Unmoved(Requester), conn[i].st # "Active", conn'[i].st # "Active", Listens(i)
      PROVE  Answered'
  <2>1. ASSUME NEW s \in Sessions, StillAsks, s = nSessions
        PROVE  AnsweredBy(s)'
    <3>1. /\ conn'[s].st = "Active" <=> conn[s].st = "Active"
          /\ conn[s].st = "Active" => conn'[s].j = conn[s].j
          /\ Listens(s)
      BY <1>5, <1>7
    <3> QED
      BY <1>1, <1>7, <2>1, <3>1, AnsweredUnmoved
  <2> QED
    BY <1>3, <1>4, <1>7, <2>1
<1>8. CASE RestStep
  BY <1>6, <1>8, NetSame, PeersType DEF RestStep, Rests, Keeps, Settles, Listens
<1>9. ASSUME NEW i \in Conns, NEW bytes \in Seq(Nat), WriteStep(i, bytes)
      PROVE  Answered'
  BY <1>6, <1>9, NetSame, PeersType DEF WriteStep, RestBut, Rests, Keeps, Settles, Listens
<1>10. ASSUME NEW i \in Conns, NEW bytes \in Seq(Nat), NEW m \in Stanzas, SendStep(i, bytes, m)
       PROVE  Answered'
  <2>1. /\ Data(m) /\ RestBut(i) /\ conn[i].st = "Active" /\ conn'[i].st = "Active"
        /\ conn'[i].j = Task("data", m.id) /\ Pushed(Other(Owner(i)), m) /\ nSessions' = nSessions
        /\ conn'[i].emits = conn[i].emits
    BY <1>10, PeersType DEF SendStep, Online
  <2>2. ASSUME NEW s \in Sessions, StillAsks, s = nSessions
        PROVE  AnsweredBy(s)'
    <3>1. Pushed(Requester, m)
      BY <2>1, <2>2, PeersType DEF StillAsks
    <3>2. /\ conn'[s].st = "Active" =>
             conn[s].st = "Active" /\ (conn'[s].j = conn[s].j \/ conn'[s].j = Task("data", m.id))
          /\ conn[s].st = "Active" => conn'[s].st = "Active"
          /\ Listens(s)
      BY <1>5, <2>1 DEF Listens
    <3> QED
      BY <1>1, <2>1, <2>2, <3>1, <3>2, AnsweredPushed DEF Data
  <2> QED
    BY <1>3, <1>4, <2>1, <2>2
<1>11. ASSUME NEW i \in Conns, AcceptStep(i)
       PROVE  Answered'
  <2> DEFINE r == Result(conn[i].iqId, i)
  <2>1. /\ i \in Sessions /\ i # 0 /\ RestBut(i) /\ nSessions' = nSessions /\ Pushed(Requester, r)
        /\ conn[i].st = "WaitingForAccept" /\ conn'[i].st = "Active" /\ conn'[i].j = conn[i].j
        /\ conn[i].j = NoTask /\ r.kind = "result" /\ r.id = conn[i].iqId
        /\ conn'[i].emits = conn[i].emits
    BY <1>1, <1>11, PeersType, StanzaFields DEF AcceptStep, ConnectionsOK, ConnectionOK
  <2> HIDE DEF r
  <2>2. ASSUME NEW s \in Sessions, StillAsks, s = nSessions, s # i
        PROVE  AnsweredBy(s)'
    <3>1. conn[0].j # Task("request", r.id)
      BY <1>1, <2>1, <2>2 DEF Ids, TasksMatch
    <3> QED
      BY <1>1, <1>5, <2>1, <2>2, <3>1, AnsweredPushed
  <2>3. ASSUME NEW s \in Sessions, StillAsks, s = nSessions, s = i
        PROVE  AnsweredBy(s)'
    <3>1. conn[0].j = Task("request", r.id)
      <4>1. AskedFor(i, r.id) /\ hist[Requester][i].end = "open"
        BY <1>1, <2>1, <2>3 DEF Asked, Starting, Silent, NoHistory, StillAsks
      <4> QED
        BY <4>1 DEF AskedFor, GaveUp
    <3>2. PICK l \in 1..Len(net'[Requester]) : net'[Requester][l] = r
      <4>1. Len(net[Requester]) + 1 \in 1..Len(net'[Requester])
        BY <1>1, <2>1, ComingType, PeersType DEF Pushed
      <4> QED
        BY <2>1, <4>1 DEF Pushed
    <3>3. Yes(l)'
      BY <2>1, <2>3, <3>1, <3>2 DEF Yes, StillAsks
    <3>4. \A n \in Coming'[Requester] : ~(Data(n) /\ n.session = s)
      <4>1. Silent(Acceptor, s)
        BY <1>1, <2>1, <2>3 DEF Starting
      <4> QED
        BY <2>1, <4>1, PeersType DEF Silent, Pushed, Data
    <3>5. \A k : YesFirst(k, s)'
      BY <3>4, PeersType DEF YesFirst, Coming
    <3>6. conn'[s].emits = "none"
      <4>1. AnsweredBy(s)
        BY <1>1, <2>3 DEF Answered, StillAsks
      <4> QED
        BY <2>1, <2>3, <4>1 DEF AnsweredBy
    <3> QED
      BY <2>1, <2>3, <3>2, <3>3, <3>5, <3>6 DEF AnsweredBy
  <2> QED
    BY <1>3, <1>4, <2>1, <2>2, <2>3
<1>12. ASSUME NEW i \in Conns, NEW how, LeaveStep(i, how)
       PROVE  Answered'
  BY <1>7, <1>12, NetSame, PeersType DEF LeaveStep, Stops, Listens
<1>13. ASSUME NEW i \in Conns, NEW r, RestBut(i), nSessions' = nSessions, Pushed(Other(Owner(i)), r),
              conn'[i].st = "Idle", r.kind # "result", conn[i].st = "Active" => IsClose(r, conn[i].session)
       PROVE  Answered'
  <2>1. ASSUME NEW s \in Sessions, StillAsks, s = nSessions
        PROVE  AnsweredBy(s)'
    <3>1. Pushed(Requester, r)
      BY <1>13, <2>1, PeersType DEF StillAsks
    <3>2. conn[s].st = "Active" => conn'[s].st = "Active" \/ IsClose(r, s)
      BY <1>1, <1>5, <1>13 DEF EndsKnown
    <3>3. /\ conn'[s].st = "Active" => conn[s].st = "Active" /\ conn'[s].j = conn[s].j
          /\ Listens(s)
      BY <1>5, <1>13 DEF Listens
    <3> QED
      BY <1>1, <1>13, <2>1, <3>1, <3>2, <3>3, AnsweredPushed
  <2> QED
    BY <1>3, <1>4, <1>13, <2>1, PeersType
<1>14. ASSUME NEW i \in Conns, RefuseStep(i)
       PROVE  Answered'
  <2>1. /\ RestBut(i) /\ nSessions' = nSessions /\ Pushed(Other(Owner(i)), Error(conn[i].iqId))
        /\ conn'[i].st = "Idle" /\ conn[i].st # "Active"
    BY <1>14, PeersType DEF RefuseStep, Stops
  <2>2. Error(conn[i].iqId).kind # "result"
    BY StanzaFields
  <2> QED
    BY <1>13, <2>1, <2>2
<1>15. ASSUME NEW i \in Conns, CloseStep(i)
       PROVE  Answered'
  <2>1. /\ RestBut(i) /\ nSessions' = nSessions /\ Pushed(Other(Owner(i)), Goodbye(i))
        /\ conn'[i].st = "Idle"
    BY <1>15 DEF CloseStep, Stops
  <2>2. Goodbye(i).kind # "result" /\ IsClose(Goodbye(i), conn[i].session)
    BY DEF Goodbye, Stanza, IsClose, Data
  <2> QED
    BY <1>13, <2>1, <2>2
<1>16. ASSUME NEW t \in Sessions, TakeRequestStep(t)
       PROVE  Answered'
  BY <1>1, <1>7, <1>16, PeersType DEF TakeRequestStep, Listens
<1>17. ASSUME NEW p \in Peers, NEW i \in Conns, TakeDataStep(p, i)
       PROVE  Answered'
  <2> DEFINE m == Head(net[p])
             r == Result(m.id, 0)
  <2>1. /\ Data(m) /\ m.session = conn[i].session /\ Runs(i, p, m.session) /\ RestBut(i)
        /\ nSessions' = nSessions /\ m \in Coming[p] /\ Pushed(Other(p), r)
        /\ Keeps(i)
    BY <1>17 DEF TakeDataStep, Popped
  <2>2. r.id = m.id
    BY StanzaFields
  <2> HIDE DEF m, r
  <2>3. ASSUME NEW s \in Sessions, StillAsks, s = nSessions
        PROVE  AnsweredBy(s)'
    <3>1. i # 0 /\ p = Acceptor
      BY <2>1, <2>3, PeersType DEF StillAsks, Runs
    <3>2. m.session # s
      BY <1>1, <2>1, <2>3, <3>1, PeersType DEF Starting, Silent, StillAsks
    <3>3. i # s
      BY <1>1, <2>1, <3>1, <3>2 DEF EndsKnown, Runs
    <3>4. conn[0].j # Task("request", r.id)
      BY <1>1, <2>1, <2>2, <3>1 DEF Ids, TasksMatch, IsSet, Data
    <3>5. Pushed(Requester, r)
      BY <2>1, <3>1, PeersType
    <3> QED
      BY <1>1, <1>5, <2>1, <2>3, <3>3, <3>4, <3>5, AnsweredPushed
  <2>4. i # 0 \/ conn'[0].st # "Requesting"
    BY <2>1 DEF Runs, Keeps
  <2> QED
    BY <1>3, <1>4, <2>1, <2>3, <2>4
<1>18. ASSUME NEW p \in Peers, NEW i \in Conns, AckStep(p, i) \/ FailStep(p, i)
       PROVE  Answered'
  <2> DEFINE m == Head(net[p])
  <2>1. /\ RestBut(i) /\ nSessions' = nSessions /\ m \in Coming[p] /\ ~IsSet(m) /\ Owner(i) = p
        /\ Popped(p) /\ Unmoved(Other(p)) /\ conn'[i].st # "Requesting"
        /\ conn[i].j = Task("data", m.id) \/ i = 0
    BY <1>18 DEF AckStep, FailStep, Popped, IsSet, Runs, Stops
  <2> HIDE DEF m
  <2>2. ASSUME NEW s \in Sessions, StillAsks, s = nSessions
        PROVE  AnsweredBy(s)'
    <3>1. i # 0
      BY <2>1, <2>2 DEF StillAsks
    <3>2. p = Acceptor /\ Unmoved(Requester)
      BY <2>1, <3>1, PeersType
    <3>3. ~(i = s /\ conn[i].st = "Active")
      <4> SUFFICES ASSUME i = s, conn[i].st = "Active"
                   PROVE  FALSE
        OBVIOUS
      <4>1. AnsweredBy(s)
        BY <1>1, <2>2 DEF Answered, StillAsks
      <4>2. conn[s].j # NoTask
        BY <2>1, <3>1, TaskFields
      <4>3. PICK n \in Coming[Requester] : Data(n) /\ conn[s].j = Task("data", n.id)
        BY <4>1, <4>2 DEF AnsweredBy
      <4>4. n.id = m.id
        BY <2>1, <3>1, <4>3, TaskFields
      <4> QED
        BY <1>1, <2>1, <3>2, <4>3, <4>4, PeersType DEF Ids, IdsDistinct, IsSet, Data
    <3>4. conn[i].st = "Active"
      BY <1>1, <2>1, <3>1, TasksKnown
    <3> QED
      BY <1>1, <1>5, <2>1, <2>2, <3>2, <3>3, <3>4, AnsweredUnmoved
  <2> QED
    BY <1>3, <1>4, <2>1, <2>2
<1>19. CASE AcceptedStep
  <2>1. /\ RestBut(0) /\ nSessions' = nSessions /\ conn'[0].st = "Active"
    BY <1>19 DEF AcceptedStep
  <2> QED
    BY <1>3, <1>4, <2>1, PeersType DEF StillAsks
<1>20. ASSUME NEW p \in Peers, RepulseStep(p)
       PROVE  Answered'
  <2> DEFINE m == Head(net[p])
             r == Error(m.id)
  <2>1. /\ Data(m) /\ Popped(p) /\ Pushed(Other(p), r) /\ conn' = conn /\ nSessions' = nSessions
        /\ m = net[p][1]
    BY <1>20 DEF RepulseStep, Popped, Online
  <2>2. r.kind = "error"
    BY StanzaFields
  <2> HIDE DEF m, r
  <2>3. ASSUME NEW s \in Sessions, StillAsks, s = nSessions
        PROVE  AnsweredBy(s)'
    <3>1. CASE p = Acceptor
      BY <1>1, <2>1, <2>2, <2>3, <3>1, AnsweredPushed, PeersType DEF Listens
    <3>2. CASE p = Requester
      <4>1. ~Yes(1)
        BY <2>1, <3>2 DEF Yes, Data
      <4> QED
        BY <1>1, <2>1, <2>3, <3>2, <4>1, AnsweredPopped
    <3> QED
      BY <3>1, <3>2 DEF Peers
  <2>4. Continues
    BY <2>1 DEF Continues
  <2> QED
    BY <1>3, <2>3, <2>4
<1>21. ASSUME NEW p \in Peers, DiscardStep(p)
       PROVE  Answered'
  <2> DEFINE m == Head(net[p])
  <2>1. /\ Popped(p) /\ Unmoved(Other(p)) /\ conn' = conn /\ nSessions' = nSessions
        /\ m = net[p][1] /\ (p = Requester => conn[0].j # Task("request", m.id))
    BY <1>21, PeersType DEF DiscardStep, Popped, Online
  <2> HIDE DEF m
  <2>2. ASSUME NEW s \in Sessions, StillAsks, s = nSessions
        PROVE  AnsweredBy(s)'
    <3>1. CASE p = Acceptor
      BY <1>1, <2>1, <2>2, <3>1, AnsweredUnmoved, PeersType DEF Listens
    <3>2. CASE p = Requester
      <4>1. ~Yes(1)
        BY <2>1, <3>2 DEF Yes
      <4> QED
        BY <1>1, <2>1, <2>2, <3>2, <4>1, AnsweredPopped
    <3> QED
      BY <3>1, <3>2 DEF Peers
  <2>3. Continues
    BY <2>1 DEF Continues
  <2> QED
    BY <1>3, <2>2, <2>3
<1>22. ~\E p \in Peers : OfflineStep(p)
  BY <1>1 DEF OfflineStep, Online, TypeOK
<1>23. ASSUME NEW i \in Conns, NEW how, EndStep(i, how)
       PROVE  Answered'
  <2>1. /\ RestBut(i) /\ nSessions' = nSessions /\ conn'[i].st = "Idle" /\ Unmoved(Requester)
        /\ conn[i].st = "Active" /\ conn[i].emits # "none"
    BY <1>23, NetSame, PeersType DEF EndStep, Stops
  <2>2. ASSUME NEW s \in Sessions, StillAsks, s = nSessions
        PROVE  AnsweredBy(s)'
    <3>1. i # s
      <4>1. AnsweredBy(s)
        BY <1>1, <2>2 DEF Answered, StillAsks
      <4> QED
        BY <2>1, <4>1 DEF AnsweredBy
    <3> QED
      BY <1>1, <1>5, <2>1, <2>2, <3>1, AnsweredUnmoved
  <2> QED
    BY <1>3, <1>4, <2>1, <2>2
<1> QED
  BY <1>1, <1>2, <1>8, <1>9, <1>10, <1>11, <1>12, <1>14, <1>15, <1>16, <1>17, <1>18, <1>19, <1>20,
     <1>21, <1>22, <1>23 DEF Step, Taken

-----------------------------------------------------------------------------
LEMMA CausesStep == Basis /\ Causes /\ [Next]_vars => Causes'
<1> SUFFICES ASSUME Basis, Causes, [Next]_vars
             PROVE  Causes'
  OBVIOUS
<1>1. Basis' /\ Step /\ TypeOK'
  BY BasisStep DEF Basis
<1>2. TasksAlone'
  BY <1>1, TasksAloneStep DEF Causes
<1>3. ASSUME Online'
      PROVE  (Caused /\ Refusals /\ DataErrors /\ Asked /\ Answered)'
  <2>1. Online
    <3>1. ASSUME NEW i \in Conns, NEW p \in Peers,
                 \/ RestStep \/ (\E bytes \in Seq(Nat) : WriteStep(i, bytes)
                                   \/ \E m \in Stanzas : SendStep(i, bytes, m))
                 \/ AcceptStep(i) \/ (\E how \in Ends : LeaveStep(i, how) \/ EndStep(i, how))
                 \/ RefuseStep(i) \/ CloseStep(i) \/ \E before, m : ConnectStep(before, m)
          PROVE  up' = up
      BY <3>1 DEF RestStep, WriteStep, SendStep, AcceptStep, LeaveStep, EndStep, RefuseStep,
                  CloseStep, ConnectStep
    <3>2. ASSUME NEW p \in Peers, Taken(p)
          PROVE  up' = up
      BY <3>2 DEF Taken, TakeRequestStep, TakeDataStep, AckStep, FailStep, RepulseStep,
                  AcceptedStep, DiscardStep
    <3>3. ~\E p \in Peers : OfflineStep(p)
      BY <1>1, <1>3 DEF OfflineStep, Online, Basis, TypeOK
    <3>4. up' = up
      BY <1>1, <3>1, <3>2, <3>3, PeersType DEF Step
    <3> QED
      BY <1>3, <3>4 DEF Online
  <2>2. Known
    BY <1>1, <2>1 DEF Known, Causes
  <2> QED
    BY <1>1, <1>3, <2>1, <2>2, CausedStep, RefusalsStep, DataErrorsStep, AskedStep, AnsweredStep
<1> QED
  BY <1>2, <1>3 DEF Causes

LEMMA CausesInit == Init => Causes
<1> SUFFICES ASSUME Init
             PROVE  Causes
  OBVIOUS
<1>1. /\ \A i \in Conns : conn[i].st = "Idle" /\ conn[i].j = NoTask
      /\ \A p \in Peers : Coming[p] = {}
      /\ \A p \in Peers, s \in Sessions : hist[p][s].end = "open"
  BY DEF Init, Fresh, Coming, NoHistory, Sessions
<1>2. TasksAlone /\ Caused /\ Answered
  BY <1>1, PeersType DEF TasksAlone, Caused, There, Runs, Answered
<1>3. Refusals /\ DataErrors
  BY <1>1, PeersType DEF Refusals, DataErrors
<1>4. Asked
  BY <1>1, PeersType DEF Asked
<1> QED
  BY <1>2, <1>3, <1>4 DEF Causes

(* error(ErrData) has a cause outside the stream: ibb_finished() reports it *)
(* only when somebody has gone offline, or the other end gave the session   *)
(* up without a close packet.  Two ends that close at the same time, and a  *)
(* packet that crosses the close of its reader, never lead to it.           *)
THEOREM ErrDataCaused == Spec => []ErrDataHasCause
<1>1. Init => Basis /\ Causes
  BY BasisInit, CausesInit
<1>2. Basis /\ Causes /\ [Next]_vars => Basis' /\ Causes'
  BY BasisStep, CausesStep
<1>3. Basis /\ Causes => ErrDataHasCause
  BY DEF Causes, Online, DataErrors, GaveUp, ErrDataHasCause
<1> QED
  BY <1>1, <1>2, <1>3, PTL DEF Spec

(* An application is told once how a session ended, whatever arrives later; *)
(* the exception is connectionClosed(), which takeIncomingData() emits also *)
(* when the application closed or gave the session up in its handler of     *)
(* readyRead().                                                             *)
THEOREM EndsOnlyOnce == Spec => [][EndsKeep /\ AgainKept]_vars
<1>1. Basis /\ Told /\ [Next]_vars => EndsKeep /\ AgainKept
  BY BasisStep, EndsOnce, AgainStep DEF Basis
<1>2. Basis /\ Told /\ StreamsOK' /\ [Next]_vars => Told'
  BY BasisStep, ToldStep
<1> QED
  BY <1>1, <1>2, BasisInit, BasisStep, ToldInit, StreamsCorrect, PTL DEF Spec
=============================================================================

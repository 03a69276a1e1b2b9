-------------------------------- MODULE Sxe --------------------------------
(***************************************************************************)
(* A shared document: SxeSession and its SxeRecords (src/sxe/) at the two   *)
(* ends of a session, edited by two whiteboards (src/whiteboarding/).       *)
(*                                                                         *)
(* Every end applies its own edits at once and sends them; there is no     *)
(* server that orders them.  A set-edit carries the version it makes of    *)
(* its record; when two cross, each end finds the other's version too old  *)
(* and reverts its own, so that neither counts.  New nodes and removals    *)
(* have no version: a node whose parent is gone, and the smaller of two    *)
(* attributes with one name, are removed again, and the removal is sent.   *)
(*                                                                         *)
(* The DOM is not a variable: reposition() keeps a node where its record   *)
(* says, siblings in the order of their weights, so the document is a      *)
(* function of the records.  Elements have at most one attribute name.     *)
(* A weight, a double in the code, is an integer in units of 1/One: enough *)
(* for the halvings that MaxOps operations can make.                       *)
(***************************************************************************)
EXTENDS Integers, Sequences, FiniteSets, SequencesExt

CONSTANTS
    Peers,       \* the two ends
    Rids,        \* the ids of nodes, ordered as the code orders them
    InitItems,   \* bound: the items of the initial document
    Values,      \* the values of an attribute
    One,         \* the distance of two weights
    MaxOps       \* bound: what the two users do, together

Root == 0

ASSUME SxeAssumption ==
    /\ IsFiniteSet(Peers) /\ Cardinality(Peers) = 2
    /\ Rids \subseteq Nat \ {Root}
    /\ InitItems \subseteq Rids /\ IsFiniteSet(InitItems)
    /\ One \in Nat \ {0}
    /\ MaxOps \in Nat

VARIABLES
    rec,     \* [Peers -> the records of an end, by rid]
    out,     \* [Peers -> edits queued until flush()]
    net,     \* [Peers -> Seq(<sxe/>)] on their way to a peer
    warned,  \* [Peers -> BOOLEAN] the warning of a misbehaving peer was given
    used,    \* the rids that were generated
    authors, \* [Rids -> SUBSET Peers] who changed a node: history
    ops      \* what the users did: a bound

vars == <<rec, out, net, warned, used, authors, ops>>

Other(p) == CHOOSE q \in Peers : q # p

----------------------------------------------------------------------------
(* Edits and records.                                                      *)

NewEdit(r, type, parent, weight, data) ==
    [op |-> "new", rid |-> r, type |-> type,
     val |-> [parent |-> parent, weight |-> weight, data |-> data]]
SetEdit(r, version, changes) ==
    [op |-> "set", rid |-> r, version |-> version, changes |-> changes]
RemoveEdit(r) == [op |-> "remove", rid |-> r]

(* A record that a New edit makes.  `versions' are the values it has had.   *)
NewRecord(e) ==
    [type |-> e.type, version |-> 0, versions |-> <<[v |-> 0, val |-> e.val]>>,
     edits |-> <<e>>]

Val(x) == Last(x.versions).val

(* An end while it handles one call: its records, its queue, what it sent. *)
End(p) == [rec |-> rec[p], out |-> out[p], sent |-> <<>>, warned |-> warned[p]]

Queue(s, edit) == [s EXCEPT !.out = Append(@, edit)]
FlushOut(s) ==
    IF s.out = <<>> THEN s
    ELSE [s EXCEPT !.sent = Append(@, s.out), !.out = <<>>]

Drop(s, r) == [s EXCEPT !.rec = [x \in DOMAIN @ \ {r} |-> @[x]]]

(* The attribute of a node, and its child elements in document order.       *)
Attrs(s, r) ==
    {c \in DOMAIN s.rec : s.rec[c].type = "attr" /\ Val(s.rec[c]).parent = r}
Elements(s, r) ==
    {c \in DOMAIN s.rec : s.rec[c].type = "elem" /\ Val(s.rec[c]).parent = r}
Precedes(s, a, b) ==
    LET wa == Val(s.rec[a]).weight
        wb == Val(s.rec[b]).weight
    IN wa < wb \/ (wa = wb /\ a < b)
Sorted(s, S) ==
    [i \in 1..Cardinality(S) |->
       CHOOSE x \in S : Cardinality({y \in S : Precedes(s, y, x)}) = i - 1]
Children(s, r) == Sorted(s, Elements(s, r))

----------------------------------------------------------------------------
(* Handlers of a session.                                                  *)

(* generateRemoves(): the children first.  The list of children is live,    *)
(* so that after a child is removed the next one is skipped.                *)
EveryOther(q) == [i \in 1..((Len(q) + 1) \div 2) |-> q[2 * i - 1]]
Under(s, r) == SetToSeq(Attrs(s, r)) \o EveryOther(Children(s, r))
Gather(removes, q) == FoldLeft(LAMBDA seq, c : seq \o removes[c], <<>>, q)
RemovesOf(s, r) ==
    LET removes[x \in DOMAIN s.rec] == Gather(removes, Under(s, x)) \o <<x>>
    IN removes[r]

RemoveOne(s, r) == Drop(Queue(s, RemoveEdit(r)), r)
RemoveAll(s, q) == FoldLeft(RemoveOne, s, q)
RemoveNode(s, r) == FlushOut(RemoveAll(s, RemovesOf(s, r)))

(* reposition(): a node without a parent, and the smaller of two attributes *)
(* of the same name, are removed.                                           *)
(* Mutant of Rivals: only the smaller ones are seen.                        *)
RivalsBelow(s, r) ==
    IF s.rec[r].type = "attr"
    THEN {x \in Attrs(s, Val(s.rec[r]).parent) : x < r} ELSE {}

Rivals(s, r) ==
    IF s.rec[r].type = "attr" THEN Attrs(s, Val(s.rec[r]).parent) \ {r} ELSE {}
Reposition(s, r) ==
    IF Val(s.rec[r]).parent \notin DOMAIN s.rec \cup {Root} THEN RemoveNode(s, r)
    ELSE IF Rivals(s, r) = {} THEN s
    ELSE LET rival == CHOOSE x \in Rivals(s, r) : TRUE
         IN RemoveNode(s, IF r < rival THEN r ELSE rival)

ApplyNew(s, e) ==
    IF e.rid \in DOMAIN s.rec THEN s      \* createRecord() returns 0
    ELSE Reposition([s EXCEPT !.rec = [x \in DOMAIN @ \cup {e.rid} |->
                        IF x = e.rid THEN NewRecord(e) ELSE @[x]]], e.rid)

ApplyRemove(s, e) == IF e.rid \in DOMAIN s.rec THEN Drop(s, e.rid) ELSE s

(* The longest prefix of q, at least its first element, that does not end  *)
(* with an element of newer.                                                *)
TrimNewer(q, newer) ==
    LET keep == CHOOSE n \in 1..Len(q) :
                  /\ n = 1 \/ q[n] \notin newer
                  /\ \A i \in (n + 1)..Len(q) : q[i] \in newer
    IN SubSeq(q, 1, keep)

(* Mutant of InOrder: the value is filed under the next version.            *)
InOrderAhead(x, e) ==
    LET old == Val(x)
    IN [x EXCEPT !.versions = Append(@,
          [v |-> e.version + 1,
           val |-> [k \in DOMAIN old |->
                      IF k \in DOMAIN e.changes THEN e.changes[k] ELSE old[k]]])]

InOrder(x, e) ==
    LET old == Val(x)
    IN [x EXCEPT !.versions = Append(@,
          [v |-> e.version,
           val |-> [k \in DOMAIN old |->
                      IF k \in DOMAIN e.changes THEN e.changes[k] ELSE old[k]]])]

(* Mutant of Revert: only what is newer than the edit is reverted.          *)
RevertAbove(x, e) ==
    [x EXCEPT !.versions = TrimNewer(@, {w \in ToSet(@) : w.v > e.version}),
              !.edits = TrimNewer(@, {f \in ToSet(@) : f.op = "set" /\ f.version > e.version})]

Revert(x, e) ==
    [x EXCEPT !.versions = TrimNewer(@, {w \in ToSet(@) : w.v >= e.version}),
              !.edits = TrimNewer(@, {f \in ToSet(@) : f.op = "set" /\ f.version >= e.version})]

(* Mutant of SetRecord: a conflict sets the version back with the values.   *)
SetRecordRewound(x, e) ==
    LET y == [x EXCEPT !.version = @ + 1]
        back == Revert(y, e)
        z == IF e.version = y.version THEN InOrder(y, e)
             ELSE IF e.version < y.version
                  THEN [back EXCEPT !.version = Last(back.versions).v] ELSE y
    IN [z EXCEPT !.edits = Append(@, e)]

(* applySxeRecordEdit(): the version counts every edit, whoever made it.    *)
(* Importing is off: initializeDocument() has reset it.                     *)
SetRecord(x, e) ==
    LET y == [x EXCEPT !.version = @ + 1]
        z == IF e.version = y.version THEN InOrder(y, e)
             ELSE IF e.version < y.version THEN Revert(y, e) ELSE y
    IN [z EXCEPT !.edits = Append(@, e)]

ApplySet(s, e) ==
    IF e.rid \notin DOMAIN s.rec THEN s
    ELSE LET old == s.rec[e.rid]
             new == SetRecord(old, e)
             t == [s EXCEPT !.rec[e.rid] = new,
                            !.warned = @ \/ e.version > new.version]
         IN IF /\ Val(new).parent = Val(old).parent
               /\ Val(new).weight = Val(old).weight
            THEN t ELSE Reposition(t, e.rid)

ApplyEdit(s, e) ==
    CASE e.op = "new" -> ApplyNew(s, e)
      [] e.op = "set" -> ApplySet(s, e)
      [] e.op = "remove" -> ApplyRemove(s, e)
ApplyAll(s, q) == FoldLeft(ApplyEdit, s, q)

----------------------------------------------------------------------------
(* What a user does, as the session turns it into edits.                   *)

(* An edit of one's own is applied, then queued.                           *)
Make(s, edit) == Queue(ApplyEdit(s, edit), edit)

WeightOf(s, r) == Val(s.rec[r]).weight
LastWeight(s, parent) ==
    LET q == Children(s, parent)
    IN IF q = <<>> THEN 0 ELSE WeightOf(s, Last(q)) + One

(* insertNodeAfter(): between the reference and its next sibling when it    *)
(* has one under this parent, else last.                                    *)
AfterWeight(s, parent, ref) ==
    LET q == Children(s, parent)
        i == CHOOSE k \in 1..Len(q) : q[k] = ref
    IN IF ref \in Elements(s, parent) /\ ref # Last(q)
       THEN (WeightOf(s, ref) + WeightOf(s, q[i + 1])) \div 2
       ELSE LastWeight(s, parent)

(* insertNodeBefore(): after the previous sibling of the reference, or      *)
(* before the first node.                                                   *)
BeforeWeight(s, parent, ref) ==
    LET q == Children(s, parent)
        i == CHOOSE k \in 1..Len(q) : q[k] = ref
    IN IF ref = Head(q) THEN WeightOf(s, ref) - One
       ELSE AfterWeight(s, parent, q[i - 1])

(* Mutant of MoveTo: the edit carries the version the record has.           *)
MoveToSameVersion(s, r, parent, weight) ==
    LET v == Val(s.rec[r])
        to == [parent |-> parent, weight |-> weight]
        keys == {k \in {"parent", "weight"} : to[k] # v[k]}
    IN IF keys = {} THEN s
       ELSE Make(s, SetEdit(r, s.rec[r].version, [k \in keys |-> to[k]]))

(* insertNode() of a node that has a record: only what differs is sent.     *)
MoveTo(s, r, parent, weight) ==
    LET v == Val(s.rec[r])
        to == [parent |-> parent, weight |-> weight]
        keys == {k \in {"parent", "weight"} : to[k] # v[k]}
    IN IF keys = {} THEN s
       ELSE Make(s, SetEdit(r, s.rec[r].version + 1, [k \in keys |-> to[k]]))

SetValue(s, r, value) ==
    IF Val(s.rec[r]).data = value THEN s
    ELSE Make(s, SetEdit(r, s.rec[r].version + 1, [data |-> value]))

(* The end p becomes s; what it flushed is sent.                            *)
Become(p, s) ==
    /\ rec' = [rec EXCEPT ![p] = s.rec]
    /\ out' = [out EXCEPT ![p] = s.out]
    /\ warned' = [warned EXCEPT ![p] = s.warned]

Send(p, s) == net' = [net EXCEPT ![Other(p)] = @ \o s.sent]

(* One operation of the user of p on the nodes in touched, with new rids.   *)
Operation(p, s, touched, new) ==
    /\ ops < MaxOps
    /\ ops' = ops + 1
    /\ Become(p, s) /\ Send(p, s)
    /\ used' = used \cup new
    /\ authors' = [r \in Rids |-> IF r \in touched THEN authors[r] \cup {p}
                                  ELSE authors[r]]

Fresh == Rids \ used

(* The items of p's scene: the elements that hang on the root.              *)
Items(p) ==
    LET s == End(p)
        top == Elements(s, Root)
    IN top \cup UNION {Elements(s, g) : g \in top}
ParentOf(p, r) == Val(rec[p][r]).parent

(* WbWidget: a shape is drawn.                                              *)
NewItem(p) ==
    \E r \in Fresh :
      LET s == End(p)
      IN Operation(p, FlushOut(Make(s, NewEdit(r, "elem", Root, LastWeight(s, Root), "none"))),
                   {}, {r})

(* setAttribute(): a new attribute, or a new value of it.  Not flushed.     *)
SetAttribute(p) ==
    \E e \in Items(p), v \in Values :
      LET s == End(p)
      IN \/ \E a \in Attrs(s, e) : Operation(p, SetValue(s, a, v), {a}, {})
         \/ /\ Attrs(s, e) = {}
            /\ \E r \in Fresh :
                 Operation(p, Make(s, NewEdit(r, "attr", e, LastWeight(s, e), v)), {}, {r})

(* WbScene::bring(): in front of, or behind, another item.                  *)
Bring(p) ==
    \E x, ref \in Items(p) :
      LET s == End(p)
          parent == ParentOf(p, x)
      IN /\ x # ref
         /\ \/ Operation(p, FlushOut(MoveTo(s, x, parent, AfterWeight(s, parent, ref))), {x}, {})
            \/ /\ ParentOf(p, ref) = parent
               /\ Operation(p, FlushOut(MoveTo(s, x, parent, BeforeWeight(s, parent, ref))), {x}, {})

(* WbScene::group(): a new group, and the items moved into it.              *)
MoveInto(g, s, r) == MoveTo(s, r, g, LastWeight(s, g))
MoveAllInto(g, s, q) == FoldLeft(LAMBDA t, x : MoveInto(g, t, x), s, q)
Group(p) ==
    \E g \in Fresh, sel \in SUBSET Items(p) :
      LET s == End(p)
          withGroup == Make(s, NewEdit(g, "elem", Root, LastWeight(s, Root), "none"))
      IN /\ Cardinality(sel) > 1
         /\ \A x \in sel : ParentOf(p, x) = Root
         /\ Operation(p, FlushOut(MoveAllInto(g, withGroup, Sorted(s, sel))), sel, {g})

(* WbScene::ungroup(): its items move behind the group, the last one first, *)
(* and the group is removed.                                                *)
MoveBehind(g, s, r) == MoveTo(s, r, Root, AfterWeight(s, Root, g))
MoveAllBehind(g, s, q) == FoldLeft(LAMBDA t, x : MoveBehind(g, t, x), s, Reverse(q))
Ungroup(p) ==
    \E g \in Items(p) :
      LET s == End(p)
          inside == Children(s, g)
      IN /\ inside # <<>>
         /\ Operation(p, RemoveNode(MoveAllBehind(g, s, inside), g), Elements(s, g) \cup {g}, {})

(* removeNode() of an item.                                                 *)
Erase(p) ==
    \E r \in Items(p) :
      LET s == End(p)
      IN Operation(p, RemoveNode(s, r), ToSet(RemovesOf(s, r)), {})

(* The whiteboard flushes when the mouse is released.                      *)
Flush(p) ==
    /\ out[p] # <<>>
    /\ LET s == FlushOut(End(p)) IN Become(p, s) /\ Send(p, s)
    /\ UNCHANGED <<used, authors, ops>>

(* processIncomingSxeElement()                                              *)
Receive(p) ==
    /\ net[p] # <<>>
    /\ LET s == ApplyAll(End(p), Head(net[p]))
       IN /\ Become(p, s)
          /\ net' = [net EXCEPT ![p] = Tail(@), ![Other(p)] = @ \o s.sent]
    /\ UNCHANGED <<used, authors, ops>>

----------------------------------------------------------------------------
(* initializeDocument() at the one end, the snapshot at the other.          *)
InitRecords ==
    [r \in InitItems |->
       NewRecord(NewEdit(r, "elem", Root, One * Cardinality({x \in InitItems : x < r}), "none"))]

Init ==
    /\ rec = [p \in Peers |-> InitRecords]
    /\ out = [p \in Peers |-> <<>>]
    /\ net = [p \in Peers |-> <<>>]
    /\ warned = [p \in Peers |-> FALSE]
    /\ used = InitItems
    /\ authors = [r \in Rids |-> {}]
    /\ ops = 0

User(p) ==
    \/ NewItem(p) \/ SetAttribute(p) \/ Bring(p) \/ Group(p) \/ Ungroup(p) \/ Erase(p)

Next == \E p \in Peers : User(p) \/ Flush(p) \/ Receive(p)

Spec == Init /\ [][Next]_vars

----------------------------------------------------------------------------
(* Properties.                                                             *)

Quiet == \A p \in Peers : out[p] = <<>> /\ net[p] = <<>>

(* The document of an end with the records R: the nodes that hang on the    *)
(* root, with what they hold.  Items are at most two levels deep.           *)
Document(R) ==
    LET below(S) == {r \in DOMAIN R : Val(R[r]).parent \in S}
        top == below({Root})
        all == top \cup below(top) \cup below(below(top))
    IN [r \in all |-> [type |-> R[r].type, val |-> Val(R[r])]]

(* The snapshot that startQueueing() returns: the edits of every record     *)
(* under the root, parents first (arrangeEdits()).                          *)
Snapshot(R) ==
    LET below(parent) == SetToSeq({r \in DOMAIN R : Val(R[r]).parent = parent})
        arranged[parent \in DOMAIN R \cup {Root}] ==
            (IF parent = Root THEN <<>> ELSE R[parent].edits)
                \o Gather(arranged, below(parent))
    IN  arranged[Root]

(* What an end that joins makes of it: stopQueueing() applies every edit.   *)
Replay(R) ==
    ApplyAll([rec |-> <<>>, out |-> <<>>, sent |-> <<>>, warned |-> FALSE],
             Snapshot(R)).rec

(* Types of the variables.                                                  *)
TypeOK ==
    /\ \A p \in Peers :
         /\ DOMAIN rec[p] \subseteq Rids
         /\ \A r \in DOMAIN rec[p] :
              LET x == rec[p][r]
              IN /\ x.type \in {"elem", "attr"} /\ x.version \in Nat
                 /\ Len(x.versions) > 0 /\ Head(x.edits).op = "new"
                 /\ \A w \in ToSet(x.versions) :
                      w.v <= x.version /\ w.val.parent \in Rids \cup {Root}
    /\ \A p \in Peers : \A e \in ToSet(out[p]) \cup UNION {ToSet(m) : m \in ToSet(net[p])} :
         e.op \in {"new", "set", "remove"} /\ e.rid \in Rids
    /\ warned \in [Peers -> BOOLEAN]
    /\ used \subseteq Rids /\ ops \in 0..MaxOps
    /\ authors \in [Rids -> SUBSET Peers]

(* When everything that was sent has been handled, both ends show the same *)
(* document, whatever crossed: SxeRecord::applySxeRecordEdit() reverts the  *)
(* same edits at both ends, and reposition() removes the same nodes.        *)
Converged == Quiet => \A p, q \in Peers : Document(rec[p]) = Document(rec[q])

(* The versions agree as well, so that the next edit of a node will be in   *)
(* order at the other end.                                                  *)
VersionsAgree ==
    Quiet => \A p, q \in Peers : \A r \in DOMAIN Document(rec[p]) :
               r \in DOMAIN rec[q] => rec[p][r].version = rec[q][r].version

(* "This should never happen given the seriality condition": no edit comes  *)
(* that is ahead of the versions of its record.                             *)
NeverAhead == \A p \in Peers : ~warned[p]

(* An element never holds two attributes of one name, not even while the    *)
(* two ends create it at the same time.                                     *)
OneAttribute ==
    \A p \in Peers : \A r \in DOMAIN rec[p] :
      rec[p][r].type = "attr" =>
        \A s \in DOMAIN rec[p] \ {r} :
          rec[p][s].type = "attr" => Val(rec[p][s]).parent # Val(rec[p][r]).parent

(* An edit is given up only where two edits met: a node that only one user  *)
(* has changed has all the values it was given.                             *)
LostEditHasRival ==
    \A p \in Peers : \A r \in DOMAIN rec[p] :
      Cardinality(authors[r]) < 2 => Len(rec[p][r].versions) = rec[p][r].version + 1

(* "Return all the effective Edits to the session so far (snapshot)": what  *)
(* a joiner is sent makes the document of the end that sends it.            *)
SnapshotIsDocument ==
    Quiet => \A p \in Peers : Document(Replay(rec[p])) = Document(rec[p])

=============================================================================

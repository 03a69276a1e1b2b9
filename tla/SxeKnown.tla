------------------------------ MODULE SxeKnown ------------------------------
(***************************************************************************)
(* What is known of a shared document while edits are on their way: the    *)
(* inductive invariant of Sxe, in parts, from which SxeProofs proves       *)
(* TypeOK, Converged, VersionsAgree, NeverAhead, OneAttribute and          *)
(* LostEditHasRival.                                                       *)
(*                                                                         *)
(* The edits that come to an end are one sequence: those in the messages   *)
(* on their way to it, then those that its peer has queued.  A handler     *)
(* runs through many edits, so the parts are stated of an end s in the     *)
(* middle of a handler, which has sent s.sent and queued s.out.            *)
(***************************************************************************)
EXTENDS Sxe

(* The edits of a sequence of messages.                                     *)
Flat(msgs) == FoldLeft(LAMBDA edits, m : edits \o m, <<>>, msgs)

-----------------------------------------------------------------------------
(* Types.  k gives every id that was used its height: 0 for an attribute,   *)
(* and more than any child it can ever have for an element, so that no node *)
(* is ever below itself.                                                    *)

Kind(k, r) == IF k[r] = 0 THEN "attr" ELSE "elem"
Places(k, r) == {Root} \cup {g \in DOMAIN k : k[r] < k[g]}
Data == Values \cup {"none"}
Vals(k, r) == [parent : Places(k, r), weight : Int, data : Data]

(* An attribute is never moved.                                             *)
Changes(k, r) ==
    IF k[r] = 0 THEN [data : Data]
    ELSE [parent : Places(k, r)] \cup [weight : Int]
           \cup [parent : Places(k, r), weight : Int]

NewEdits(k, r) == [op : {"new"}, rid : {r}, type : {Kind(k, r)}, val : Vals(k, r)]
SetEdits(k, r) ==
    [op : {"set"}, rid : {r}, version : Nat \ {0}, changes : Changes(k, r)]
RemoveEdits(k, r) == [op : {"remove"}, rid : {r}]
Edits(k) ==
    UNION {NewEdits(k, r) \cup SetEdits(k, r) \cup RemoveEdits(k, r) : r \in DOMAIN k}

Versions(k, r) == [v : Nat, val : Vals(k, r)]

(* The values of a record: the first one, then those of greater versions.   *)
Ascending(vs) == vs[1].v = 0 /\ \A i, j \in 1..Len(vs) : i < j => vs[i].v < vs[j].v

RecordOK(k, r, x) ==
    /\ x \in [type : {Kind(k, r)}, version : Nat, versions : Seq(Versions(k, r)),
              edits : Seq(Edits(k))]
    /\ Len(x.versions) > 0 /\ Len(x.edits) > 0 /\ x.edits[1].op = "new"
    /\ Ascending(x.versions)
    /\ \A i \in 1..Len(x.versions) :
         /\ x.versions[i].v <= x.version
         /\ k[r] = 0 => /\ x.versions[i].val.parent = x.versions[1].val.parent
                        /\ x.versions[i].val.weight = x.versions[1].val.weight

SingleAttributes(R) ==
    \A r, t \in DOMAIN R :
      R[r].type = "attr" /\ R[t].type = "attr" /\ Val(R[r]).parent = Val(R[t]).parent => r = t

RecordsOK(k, R) ==
    /\ DOMAIN R \subseteq DOMAIN k /\ R = [r \in DOMAIN R |-> R[r]]
    /\ \A r \in DOMAIN R : RecordOK(k, r, R[r])

EndOK(k, s) ==
    /\ s \in [rec : {s.rec}, out : Seq(Edits(k)), sent : Seq(Seq(Edits(k))), warned : {FALSE}]
    /\ RecordsOK(k, s.rec)
    /\ SingleAttributes(s.rec)

(* The heights: the items that are used are finitely many.                  *)
Heights(k, n) ==
    /\ n \in Nat /\ k \in [DOMAIN k -> 0..n]
    /\ DOMAIN k \subseteq Rids /\ IsFiniteSet(DOMAIN k)

-----------------------------------------------------------------------------
(* Edits that are on their way.  An end with the records R gets the edits   *)
(* c, the other one has the records Q and gets d.                           *)

IsNew(e, r) == e.op = "new" /\ e.rid = r
IsSet(e, r) == e.op = "set" /\ e.rid = r
IsRemove(e, r) == e.op = "remove" /\ e.rid = r
NewsIn(c, r) == {i \in 1..Len(c) : IsNew(c[i], r)}
SetsIn(c, r) == {i \in 1..Len(c) : IsSet(c[i], r)}
RemovesIn(c, r) == {i \in 1..Len(c) : IsRemove(c[i], r)}
SetsUpTo(c, r, i) == {j \in SetsIn(c, r) : j <= i}

Knows(R, c, r) == r \in DOMAIN R \/ NewsIn(c, r) # {}
VersionIn(R, r) == IF r \in DOMAIN R THEN R[r].version ELSE 0

(* Where both ends have a node, or are going to, they will have counted     *)
(* the same number of edits of it.                                          *)
Balanced(R, c, Q, d, r) ==
    Knows(R, c, r) /\ Knows(Q, d, r) =>
      VersionIn(R, r) + Cardinality(SetsIn(c, r)) = VersionIn(Q, r) + Cardinality(SetsIn(d, r))

(* No edit will be ahead of its record; one that has no rival is in order.  *)
InStep(p, R, c, r, au) ==
    Knows(R, c, r) =>
      \A i \in SetsIn(c, r) :
        /\ c[i].version <= VersionIn(R, r) + Cardinality(SetsUpTo(c, r, i))
        /\ p \notin au[r] => c[i].version = VersionIn(R, r) + Cardinality(SetsUpTo(c, r, i))

(* A node is new once: before it comes, nobody here has it or changes it.   *)
NewOnce(R, c, d, r) ==
    \A i \in NewsIn(c, r) :
      /\ r \notin DOMAIN R
      /\ NewsIn(c, r) = {i} /\ NewsIn(d, r) = {} /\ SetsIn(d, r) = {}
      /\ \A j \in SetsIn(c, r) : i < j

(* Edits are signed, and only an edit that met another one is given up.     *)
Signed(p, R, c, q, r, au) ==
    /\ SetsIn(c, r) # {} => q \in au[r]
    /\ r \in DOMAIN R /\ ~(p \in au[r] /\ q \in au[r]) =>
         Len(R[r].versions) = R[r].version + 1

Half(p, R, c, q, d, r, au) ==
    InStep(p, R, c, r, au) /\ NewOnce(R, c, d, r) /\ Signed(p, R, c, q, r, au)

CountsAt(p, R, c, q, Q, d, r, au) ==
    /\ Half(p, R, c, q, d, r, au) /\ Half(q, Q, d, p, c, r, au)
    /\ Balanced(R, c, Q, d, r)

(* A node that was removed never comes back.  One that only an end R has    *)
(* is on its way to the other, or its removal is on its way to R.           *)
Lives(R, c, Q, d, r) ==
    /\ RemovesIn(c, r) # {} => r \notin DOMAIN Q
    /\ \A i \in NewsIn(c, r) :
         /\ RemovesIn(d, r) = {}
         /\ r \in DOMAIN Q \/ RemovesIn(c, r) # {}
         /\ \A j \in RemovesIn(c, r) : i < j
    /\ r \in DOMAIN R => r \in DOMAIN Q \/ NewsIn(d, r) # {} \/ RemovesIn(c, r) # {}

(* What counts of a record: its version, and its values by their versions.  *)
Core(x) == [version |-> x.version, values |-> ToSet(x.versions)]
Nothing == [version |-> 0, values |-> {}]
CoreIn(R, r) == IF r \in DOMAIN R THEN Core(R[r]) ELSE Nothing

Newest(S) == CHOOSE w \in S : \A u \in S : u.v <= w.v
Changed(old, changes) ==
    [f \in DOMAIN old |-> IF f \in DOMAIN changes THEN changes[f] ELSE old[f]]

(* What an edit makes of it.                                                *)
Grow(z, e, r) ==
    IF IsNew(e, r) THEN [version |-> 0, values |-> {[v |-> 0, val |-> e.val]}]
    ELSE IF ~IsSet(e, r) THEN z
    ELSE [version |-> z.version + 1,
          values |-> IF e.version = z.version + 1
                     THEN z.values \cup
                          {[v |-> e.version, val |-> Changed(Newest(z.values).val, e.changes)]}
                     ELSE {w \in z.values : w.v < e.version}]

(* The edits c make z of b.                                                 *)
Makes(c, r, b, z) ==
    \E f : /\ f[0] = b /\ f[Len(c)] = z
          /\ \A i \in 1..Len(c) : f[i] = Grow(f[i - 1], c[i], r)

(* Where both ends have a node, or are going to, it will be the same.       *)
Agree(R, c, Q, d, r) ==
    Knows(R, c, r) /\ Knows(Q, d, r) =>
      \E z : Makes(c, r, CoreIn(R, r), z) /\ Makes(d, r, CoreIn(Q, r), z)

MeetAt(R, c, Q, d, r) ==
    Lives(R, c, Q, d, r) /\ Lives(Q, d, R, c, r) /\ Agree(R, c, Q, d, r)

Counts(p, R, c, q, Q, d, au) == \A r \in Rids : CountsAt(p, R, c, q, Q, d, r, au)
Meet(R, c, Q, d) == \A r \in Rids : MeetAt(R, c, Q, d, r)

Pair(p, R, c, q, Q, d, au) == Counts(p, R, c, q, Q, d, au) /\ Meet(R, c, Q, d)

(* The edits that come to p, and those that come to the peer of an end s.   *)
Coming(p) == Flat(net[p]) \o out[Other(p)]
Going(q, s) == Flat(net[q]) \o Flat(s.sent) \o s.out

Sound(k, n) ==
    /\ Heights(k, n)
    /\ \A p \in Peers :
         /\ EndOK(k, End(p))
         /\ net[p] \in Seq(Seq(Edits(k)))
         /\ Pair(p, rec[p], Coming(p), Other(p), rec[Other(p)], Coming(Other(p)), authors)

Tables ==
    /\ DOMAIN rec = Peers /\ DOMAIN out = Peers /\ DOMAIN net = Peers
    /\ warned \in [Peers -> BOOLEAN]
    /\ authors \in [Rids -> SUBSET Peers] /\ ops \in 0..MaxOps

Known == Tables /\ \E n \in Nat : \E k \in [used -> 0..n] : Sound(k, n)

=============================================================================

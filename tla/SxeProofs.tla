----------------------------- MODULE SxeProofs -----------------------------
(***************************************************************************)
(* Proofs about Sxe for any ids, any values, any first document and any    *)
(* number of operations: Known (SxeKnown) holds of every state, and with   *)
(* it TypeOK, Converged, VersionsAgree, NeverAhead, OneAttribute and       *)
(* LostEditHasRival.                                                       *)
(*                                                                         *)
(* A call of the session is a chain of folds: over the nodes to remove, to *)
(* move, over the edits of a message.  Midway says what is known inside    *)
(* of one, of an end that is not yet a state, and every edit that is made  *)
(* or handled keeps it (the ...Mid lemmas); FoldSteps carries that over a  *)
(* fold.  Start and Finish lead from a state to a Midway and back.         *)
(*                                                                         *)
(* Convergence rests on MakesBoth: an edit of one's own and the edits of   *)
(* the peer that were on their way when it was made leave the same of a    *)
(* record in either order, because where two rivals meet both are given up *)
(* at both ends (FirstRival), and the rivals that follow find that done    *)
(* (NextRival).                                                            *)
(***************************************************************************)
EXTENDS SxeKnown, FiniteSetTheorems, SequenceTheorems, TLAPS

-----------------------------------------------------------------------------
(* The edits of a sequence of messages.                                     *)

FlatStep(g, edits, m) == edits \o m
Flattens == INSTANCE FoldSteps WITH Op <- FlatStep

LEMMA FlatSteps ==
    ASSUME NEW S, NEW q \in Seq(Seq(S))
    PROVE  \E f : /\ f[0] = <<>> /\ f[Len(q)] = Flat(q)
                  /\ \A i \in 1..Len(q) : f[i] = f[i - 1] \o q[i]
                  /\ \A i \in 0..Len(q) : f[i] \in Seq(S)
<1>1. Flat(q) = Flattens!Loop(0, <<>>, q)
  BY DEF Flat, FlatStep, FoldLeft, MapThenFoldSet, Max, Flattens!Loop, Flattens!FoldLeft,
         Flattens!MapThenFoldSet, Flattens!Max
<1>2. Len(q) \in Nat /\ DOMAIN q = 1..Len(q) /\ \A i \in 1..Len(q) : q[i] \in Seq(S)
  OBVIOUS
<1>3. PICK f : /\ f[0] = <<>> /\ f[Len(q)] = Flat(q)
               /\ \A i \in 1..Len(q) : f[i] = FlatStep(0, f[i - 1], q[i])
  <2>1. PICK f : Flattens!IsLoop(f, Len(q), 0, <<>>, q)
    BY <1>2, Flattens!LoopSteps
  <2> QED BY <1>1, <2>1 DEF Flattens!IsLoop
<1>4. \A i \in 1..Len(q) : f[i] = f[i - 1] \o q[i]
  BY <1>3 DEF FlatStep
<1> DEFINE T == {i \in 0..Len(q) : f[i] \in Seq(S)}
<1>5. 0 \in T
  <2>1. <<>> \in Seq(S) /\ 0 \in 0..Len(q)
    BY <1>2
  <2> QED BY <1>3, <2>1
<1>6. ASSUME NEW i \in 0..(Len(q) - 1), i \in T
      PROVE  i + 1 \in T
  <2>1. f[i + 1] = f[i] \o q[i + 1] /\ i + 1 \in 0..Len(q) /\ i + 1 \in 1..Len(q)
    <3>1. i + 1 \in 1..Len(q) /\ (i + 1) - 1 = i
      BY <1>2
    <3>2. f[i + 1] = f[(i + 1) - 1] \o q[i + 1]
      BY <1>4, <3>1
    <3> QED BY <1>2, <3>1, <3>2
  <2> QED BY <1>2, <1>6, <2>1, ConcatProperties
<1>7. \A i \in 0..Len(q) : i \in T
  <2> HIDE DEF T
  <2> QED BY <1>2, <1>5, <1>6, Flattens!UpTo
<1> QED BY <1>3, <1>4, <1>7

LEMMA FlatType ==
    ASSUME NEW S, NEW q \in Seq(Seq(S))
    PROVE  Flat(q) \in Seq(S)
<1>1. Len(q) \in 0..Len(q)
  OBVIOUS
<1> QED BY <1>1, FlatSteps

LEMMA FlatJoin ==
    ASSUME NEW S, NEW a \in Seq(Seq(S)), NEW b \in Seq(Seq(S))
    PROVE  Flat(a \o b) = Flat(a) \o Flat(b)
<1> DEFINE u == a \o b
<1>1. /\ u \in Seq(Seq(S)) /\ Len(u) = Len(a) + Len(b) /\ Len(a) \in Nat /\ Len(b) \in Nat
      /\ \A i \in 1..Len(a) : u[i] = a[i]
      /\ \A i \in 1..Len(b) : u[Len(a) + i] = b[i]
  <2>1. u \in Seq(Seq(S)) /\ Len(u) = Len(a) + Len(b) /\ Len(a) \in Nat /\ Len(b) \in Nat
    BY ConcatProperties
  <2> QED BY <2>1, ConcatProperties
<1>2. PICK f : /\ f[0] = <<>> /\ f[Len(a)] = Flat(a)
               /\ \A i \in 1..Len(a) : f[i] = f[i - 1] \o a[i]
               /\ \A i \in 0..Len(a) : f[i] \in Seq(S)
  BY FlatSteps
<1>3. PICK g : /\ g[0] = <<>> /\ g[Len(b)] = Flat(b)
               /\ \A i \in 1..Len(b) : g[i] = g[i - 1] \o b[i]
               /\ \A i \in 0..Len(b) : g[i] \in Seq(S)
  BY FlatSteps
<1>4. PICK h : /\ h[0] = <<>> /\ h[Len(u)] = Flat(u)
               /\ \A i \in 1..Len(u) : h[i] = h[i - 1] \o u[i]
               /\ \A i \in 0..Len(u) : h[i] \in Seq(S)
  <2> HIDE DEF u
  <2> QED BY <1>1, FlatSteps
<1> HIDE DEF u
<1> DEFINE A == {i \in 0..Len(a) : h[i] = f[i]}
<1>5. 0 \in A
  BY <1>1, <1>2, <1>4
<1>6. ASSUME NEW i \in 0..(Len(a) - 1), i \in A
      PROVE  i + 1 \in A
  <2>1. i + 1 \in 1..Len(a) /\ i + 1 \in 1..Len(u) /\ (i + 1) - 1 = i
    BY <1>1
  <2>2. h[i + 1] = h[i] \o u[i + 1] /\ f[i + 1] = f[i] \o a[i + 1] /\ u[i + 1] = a[i + 1]
    BY <1>1, <1>2, <1>4, <2>1
  <2>3. h[i + 1] = f[i + 1]
    BY <1>6, <2>2, Zenon
  <2> QED BY <1>1, <2>1, <2>3
<1>7. h[Len(a)] = Flat(a)
  <2>1. \A i \in 0..Len(a) : i \in A
    <3> HIDE DEF A
    <3> QED BY <1>1, <1>5, <1>6, Flattens!UpTo
  <2>2. Len(a) \in A
    BY <1>1, <2>1
  <2> QED BY <1>2, <2>2
<1> DEFINE B == {i \in 0..Len(b) : h[Len(a) + i] = Flat(a) \o g[i]}
<1>8. Flat(a) \in Seq(S)
  BY FlatType
<1>9. 0 \in B
  BY <1>1, <1>3, <1>7, <1>8, ConcatEmptySeq
<1>10. ASSUME NEW i \in 0..(Len(b) - 1), i \in B
       PROVE  i + 1 \in B
  <2>1. /\ i + 1 \in 1..Len(b) /\ Len(a) + (i + 1) \in 1..Len(u) /\ (i + 1) - 1 = i
        /\ (Len(a) + (i + 1)) - 1 = Len(a) + i /\ i \in 0..Len(b)
    BY <1>1
  <2>2. /\ h[Len(a) + (i + 1)] = h[Len(a) + i] \o u[Len(a) + (i + 1)]
        /\ g[i + 1] = g[i] \o b[i + 1] /\ u[Len(a) + (i + 1)] = b[i + 1]
    BY <1>1, <1>3, <1>4, <2>1
  <2>3. h[Len(a) + (i + 1)] = (Flat(a) \o g[i]) \o b[i + 1]
    BY <1>10, <2>2
  <2>4. g[i] \in Seq(S) /\ b[i + 1] \in Seq(S)
    BY <1>3, <2>1
  <2>5. (Flat(a) \o g[i]) \o b[i + 1] = Flat(a) \o (g[i] \o b[i + 1])
    <3> DEFINE x == Flat(a)
               y == g[i]
               z == b[i + 1]
    <3>1. x \in Seq(S) /\ y \in Seq(S) /\ z \in Seq(S)
      BY <1>8, <2>4
    <3> HIDE DEF x, y, z
    <3>2. (x \o y) \o z = x \o (y \o z)
      BY <3>1, ConcatAssociative
    <3> QED BY <3>2 DEF x, y, z
  <2>6. h[Len(a) + (i + 1)] = Flat(a) \o g[i + 1]
    BY <2>2, <2>3, <2>5, Zenon
  <2> QED BY <2>1, <2>6
<1>11. h[Len(a) + Len(b)] = Flat(a) \o Flat(b)
  <2>1. \A i \in 0..Len(b) : i \in B
    <3> HIDE DEF B
    <3> QED BY <1>1, <1>9, <1>10, Flattens!UpTo
  <2>2. Len(b) \in B
    BY <1>1, <2>1
  <2> QED BY <1>3, <2>2
<1> QED BY <1>1, <1>4, <1>11 DEF u

LEMMA FlatOne ==
    ASSUME NEW S, NEW m \in Seq(S)
    PROVE  Flat(<<m>>) = m /\ Flat(<<>>) = <<>>
<1>1. <<m>> \in Seq(Seq(S)) /\ Len(<<m>>) = 1 /\ <<m>>[1] = m
  OBVIOUS
<1>2. PICK f : /\ f[0] = <<>> /\ f[1] = Flat(<<m>>) /\ f[1] = f[0] \o m
  <2> DEFINE q == <<m>>
  <2>1. q \in Seq(Seq(S)) /\ Len(q) = 1 /\ q[1] = m /\ 1 \in 1..Len(q)
    BY <1>1
  <2> HIDE DEF q
  <2>2. PICK f : /\ f[0] = <<>> /\ f[Len(q)] = Flat(q)
                 /\ \A i \in 1..Len(q) : f[i] = f[i - 1] \o q[i]
    BY <2>1, FlatSteps
  <2>3. f[1] = f[0] \o m /\ f[1] = Flat(q)
    BY <2>1, <2>2
  <2> QED BY <2>2, <2>3 DEF q
<1>3. Flat(<<>>) = <<>>
  <2> DEFINE q == <<>>
  <2>1. q \in Seq(Seq(S)) /\ Len(q) = 0
    OBVIOUS
  <2> HIDE DEF q
  <2>2. Flat(q) = <<>>
    BY <2>1, FlatSteps
  <2> QED BY <2>2 DEF q
<1> QED BY <1>2, <1>3, ConcatEmptySeq

-----------------------------------------------------------------------------
(* The edits of a node in a channel, when one is added or handled.          *)

(* d is c with an edit added; d is what is left of c.                       *)
Longer(d, c, e) ==
    /\ Len(c) \in Nat /\ Len(d) = Len(c) + 1
    /\ d[Len(c) + 1] = e /\ \A i \in 1..Len(c) : d[i] = c[i]
Shorter(d, c) ==
    /\ Len(d) \in Nat /\ Len(c) = Len(d) + 1
    /\ \A i \in 1..Len(d) : d[i] = c[i + 1]

LEMMA AppendIsLonger ==
    ASSUME NEW S, NEW c \in Seq(S), NEW e \in S
    PROVE  Longer(Append(c, e), c, e) /\ Append(c, e) \in Seq(S)
  BY DEF Longer

LEMMA CountTypes ==
    ASSUME NEW c, Len(c) \in Nat, NEW r, NEW i
    PROVE  /\ IsFiniteSet(SetsIn(c, r)) /\ Cardinality(SetsIn(c, r)) \in Nat
           /\ IsFiniteSet(SetsUpTo(c, r, i)) /\ Cardinality(SetsUpTo(c, r, i)) \in Nat
           /\ Cardinality(SetsIn(c, r)) = 0 <=> SetsIn(c, r) = {}
           /\ Cardinality(SetsUpTo(c, r, i)) <= Cardinality(SetsIn(c, r))
<1>2. IsFiniteSet(1..Len(c)) /\ SetsIn(c, r) \in SUBSET (1..Len(c))
  BY FS_Interval DEF SetsIn
<1>3. IsFiniteSet(SetsIn(c, r))
  BY <1>2, FS_Subset
<1>4. SetsUpTo(c, r, i) \in SUBSET SetsIn(c, r)
  BY DEF SetsUpTo
<1>5. IsFiniteSet(SetsUpTo(c, r, i)) /\ Cardinality(SetsUpTo(c, r, i)) <= Cardinality(SetsIn(c, r))
  BY <1>3, <1>4, FS_Subset
<1> QED BY <1>3, <1>5, FS_CardinalityType, FS_EmptySet

LEMMA AppendCounts ==
    ASSUME NEW c, NEW e, NEW d, Longer(d, c, e), NEW r
    PROVE  /\ IsNew(e, r) => NewsIn(d, r) = NewsIn(c, r) \cup {Len(c) + 1}
           /\ ~IsNew(e, r) => NewsIn(d, r) = NewsIn(c, r)
           /\ IsSet(e, r) =>
                /\ SetsIn(d, r) = SetsIn(c, r) \cup {Len(c) + 1}
                /\ Cardinality(SetsIn(d, r)) = Cardinality(SetsIn(c, r)) + 1
           /\ ~IsSet(e, r) => SetsIn(d, r) = SetsIn(c, r)
           /\ \A i \in 1..Len(c) : SetsUpTo(d, r, i) = SetsUpTo(c, r, i)
           /\ SetsUpTo(d, r, Len(c) + 1) = SetsIn(d, r)
<1>1. /\ Len(d) = Len(c) + 1 /\ Len(c) \in Nat
      /\ d[Len(c) + 1] = e /\ \A i \in 1..Len(c) : d[i] = c[i]
  BY DEF Longer
<1>2. /\ IsNew(e, r) => NewsIn(d, r) = NewsIn(c, r) \cup {Len(c) + 1}
      /\ ~IsNew(e, r) => NewsIn(d, r) = NewsIn(c, r)
      /\ IsSet(e, r) => SetsIn(d, r) = SetsIn(c, r) \cup {Len(c) + 1}
      /\ ~IsSet(e, r) => SetsIn(d, r) = SetsIn(c, r)
  BY <1>1 DEF NewsIn, SetsIn
<1>3. IsSet(e, r) =>
        Cardinality(SetsIn(d, r)) = Cardinality(SetsIn(c, r)) + 1
  <2>1. IsFiniteSet(SetsIn(c, r)) /\ Cardinality(SetsIn(c, r)) \in Nat
    BY <1>1, CountTypes
  <2>2. Len(c) + 1 \notin SetsIn(c, r)
    BY <1>1 DEF SetsIn
  <2> QED BY <1>2, <2>1, <2>2, FS_AddElement
<1>4. \A i \in 1..Len(c) : SetsUpTo(d, r, i) = SetsUpTo(c, r, i)
  <2>1. SetsIn(c, r) \subseteq 1..Len(c)
    BY DEF SetsIn
  <2> QED BY <1>1, <1>2, <2>1 DEF SetsUpTo
<1>5. SetsUpTo(d, r, Len(c) + 1) = SetsIn(d, r)
  BY <1>1 DEF SetsUpTo, SetsIn
<1> QED BY <1>1, <1>2, <1>3, <1>4, <1>5

LEMMA AppendUpTo ==
    ASSUME NEW c, NEW e, NEW d, Longer(d, c, e), NEW r, NEW i \in 1..Len(c)
    PROVE  SetsUpTo(d, r, i) = SetsUpTo(c, r, i)
  BY AppendCounts

LEMMA ShiftCount ==
    ASSUME NEW A \in SUBSET Nat, NEW B \in SUBSET Nat, IsFiniteSet(B),
           \A i \in A : i + 1 \in B \ {1},
           \A j \in B \ {1} : j - 1 \in A
    PROVE  /\ 1 \in B => Cardinality(A) + 1 = Cardinality(B)
           /\ 1 \notin B => Cardinality(A) = Cardinality(B)
<1> DEFINE rest == B \ {1}
           f == [i \in A |-> i + 1]
<1>1. \A i \in A : i \in Nat /\ i + 1 \in rest
  OBVIOUS
<1>2. \A j \in rest : j - 1 \in A /\ (j - 1) + 1 = j
  OBVIOUS
<1>3. f \in Bijection(A, rest)
  <2>1. f \in [A -> rest]
    BY <1>1
  <2>2. \A a, b \in A : f[a] = f[b] => a = b
    BY <1>1
  <2>3. \A j \in rest : \E i \in A : f[i] = j
    BY <1>2
  <2> HIDE DEF f, rest
  <2> QED BY <2>1, <2>2, <2>3 DEF Bijection, Injection, Surjection, IsInjective
<1>4. IsFiniteSet(rest)
  BY FS_Subset
<1>5. f \in Injection(A, rest) /\ f \in Surjection(A, rest)
  BY <1>3 DEF Bijection
<1>6. IsFiniteSet(A)
  <2> HIDE DEF f, rest
  <2> QED BY <1>4, <1>5, FS_Injection DEF ExistsInjection
<1>7. Cardinality(A) = Cardinality(rest)
  <2> HIDE DEF f, rest
  <2> QED BY <1>3, <1>6, FS_Bijection DEF ExistsBijection
<1>8. 1 \in B => Cardinality(rest) + 1 = Cardinality(B)
  <2>1. 1 \in B => Cardinality(rest) = Cardinality(B) - 1
    BY FS_RemoveElement
  <2>2. Cardinality(B) \in Nat
    BY FS_CardinalityType
  <2> QED BY <2>1, <2>2
<1>9. 1 \notin B => rest = B
  OBVIOUS
<1> QED BY <1>7, <1>8, <1>9

LEMMA TailCounts ==
    ASSUME NEW c, NEW d, Shorter(d, c), NEW r
    PROVE  /\ \A i : i \in NewsIn(d, r) => i + 1 \in NewsIn(c, r)
           /\ \A j : j \in NewsIn(c, r) \ {1} => j - 1 \in NewsIn(d, r)
           /\ \A i : i \in SetsIn(d, r) => i + 1 \in SetsIn(c, r)
           /\ \A j : j \in SetsIn(c, r) \ {1} => j - 1 \in SetsIn(d, r)
           /\ 1 \in NewsIn(c, r) <=> IsNew(c[1], r)
           /\ 1 \in SetsIn(c, r) <=> IsSet(c[1], r)
           /\ IsSet(c[1], r) =>
                /\ Cardinality(SetsIn(d, r)) + 1 = Cardinality(SetsIn(c, r))
                /\ \A i \in SetsIn(d, r) :
                     Cardinality(SetsUpTo(d, r, i)) + 1 = Cardinality(SetsUpTo(c, r, i + 1))
           /\ ~IsSet(c[1], r) =>
                /\ Cardinality(SetsIn(d, r)) = Cardinality(SetsIn(c, r))
                /\ \A i \in SetsIn(d, r) :
                     Cardinality(SetsUpTo(d, r, i)) = Cardinality(SetsUpTo(c, r, i + 1))
<1>1. /\ Len(d) + 1 = Len(c) /\ Len(d) \in Nat /\ Len(c) \in Nat
      /\ \A i \in 1..Len(d) : d[i] = c[i + 1]
  BY DEF Shorter
<1>2. /\ \A i \in NewsIn(d, r) : i + 1 \in NewsIn(c, r) /\ i \in Nat
      /\ \A j \in NewsIn(c, r) \ {1} : j - 1 \in NewsIn(d, r)
      /\ 1 \in NewsIn(c, r) <=> IsNew(c[1], r)
  BY <1>1 DEF NewsIn
<1>3. /\ \A i \in SetsIn(d, r) : i + 1 \in SetsIn(c, r) /\ i + 1 # 1
      /\ \A j \in SetsIn(c, r) \ {1} : j - 1 \in SetsIn(d, r) /\ j \in Nat
      /\ 1 \in SetsIn(c, r) <=> IsSet(c[1], r)
      /\ SetsIn(d, r) \in SUBSET Nat /\ SetsIn(c, r) \in SUBSET Nat
  BY <1>1 DEF SetsIn
<1>4. /\ 1 \in SetsIn(c, r) => Cardinality(SetsIn(d, r)) + 1 = Cardinality(SetsIn(c, r))
      /\ 1 \notin SetsIn(c, r) => Cardinality(SetsIn(d, r)) = Cardinality(SetsIn(c, r))
  <2>1. IsFiniteSet(SetsIn(c, r))
    BY <1>1, CountTypes
  <2> QED BY <1>3, <2>1, ShiftCount
<1>5. ASSUME NEW i \in SetsIn(d, r)
      PROVE  /\ 1 \in SetsIn(c, r) =>
                  Cardinality(SetsUpTo(d, r, i)) + 1 = Cardinality(SetsUpTo(c, r, i + 1))
             /\ 1 \notin SetsIn(c, r) =>
                  Cardinality(SetsUpTo(d, r, i)) = Cardinality(SetsUpTo(c, r, i + 1))
  <2>1. i \in Nat /\ i >= 1
    BY <1>1 DEF SetsIn
  <2>2. 1 \in SetsUpTo(c, r, i + 1) <=> 1 \in SetsIn(c, r)
    BY <2>1 DEF SetsUpTo
  <2>3. /\ SetsUpTo(d, r, i) \in SUBSET Nat /\ SetsUpTo(c, r, i + 1) \in SUBSET Nat
        /\ \A j \in SetsUpTo(d, r, i) : j + 1 \in SetsUpTo(c, r, i + 1) \ {1}
        /\ \A j \in SetsUpTo(c, r, i + 1) \ {1} : j - 1 \in SetsUpTo(d, r, i)
    BY <1>3, <2>1 DEF SetsUpTo
  <2>4. IsFiniteSet(SetsUpTo(c, r, i + 1))
    BY <1>1, CountTypes
  <2> QED BY <2>2, <2>3, <2>4, ShiftCount
<1> QED BY <1>1, <1>2, <1>3, <1>4, <1>5

-----------------------------------------------------------------------------
(* What one edit does to what is known of a pair of ends.                   *)

LEMMA CountsSwap ==
    ASSUME NEW p, NEW R, NEW c, NEW q, NEW Q, NEW d, NEW au, Counts(p, R, c, q, Q, d, au)
    PROVE  Counts(q, Q, d, p, R, c, au)
  BY DEF Counts, CountsAt, Balanced

LEMMA MoreAuthorsCounts ==
    ASSUME NEW p, NEW R, NEW c, NEW q, NEW Q, NEW d, NEW au, NEW bu,
           Counts(p, R, c, q, Q, d, au), \A r \in Rids : au[r] \subseteq bu[r]
    PROVE  Counts(p, R, c, q, Q, d, bu)
<1> SUFFICES ASSUME NEW r \in Rids
             PROVE  CountsAt(p, R, c, q, Q, d, r, bu)
  BY DEF Counts
<1>1. CountsAt(p, R, c, q, Q, d, r, au) /\ au[r] \subseteq bu[r]
  BY DEF Counts
<1> QED BY <1>1 DEF CountsAt, Half, InStep, Signed

LEMMA SameAt ==
    ASSUME NEW p, NEW R, NEW c, NEW q, NEW Q, NEW d, NEW au, NEW r, NEW N,
           r \in DOMAIN R <=> r \in DOMAIN N, r \in DOMAIN R => R[r] = N[r],
           CountsAt(p, R, c, q, Q, d, r, au)
    PROVE  CountsAt(p, N, c, q, Q, d, r, au)
<1>1. VersionIn(N, r) = VersionIn(R, r) /\ (Knows(N, c, r) <=> Knows(R, c, r))
  BY DEF VersionIn, Knows
<1> QED BY <1>1 DEF CountsAt, Half, InStep, NewOnce, Signed, Balanced

LEMMA DropAt ==
    ASSUME NEW p, NEW R, NEW c, NEW q, NEW Q, NEW d, NEW au, NEW r, NEW N,
           r \notin DOMAIN N, CountsAt(p, R, c, q, Q, d, r, au)
    PROVE  CountsAt(p, N, c, q, Q, d, r, au)
<1>1. CASE r \notin DOMAIN R
  BY <1>1, SameAt
<1>2. CASE r \in DOMAIN R
  <2>1. NewsIn(c, r) = {}
    BY <1>2 DEF CountsAt, Half, NewOnce
  <2>2. ~Knows(N, c, r)
    BY <2>1 DEF Knows
  <2> QED BY <2>1, <2>2 DEF CountsAt, Half, InStep, NewOnce, Signed, Balanced
<1> QED BY <1>1, <1>2

LEMMA AppendAt ==
    ASSUME NEW p, NEW R, NEW c, NEW q, NEW Q, NEW d, NEW au, NEW r,
           NEW e, ~IsNew(e, r), ~IsSet(e, r),
           NEW m, Longer(m, d, e),
           CountsAt(p, R, c, q, Q, d, r, au)
    PROVE  CountsAt(p, R, c, q, Q, m, r, au)
<1>1. /\ NewsIn(m, r) = NewsIn(d, r) /\ SetsIn(m, r) = SetsIn(d, r)
      /\ \A i \in SetsIn(d, r) : m[i] = d[i] /\ SetsUpTo(m, r, i) = SetsUpTo(d, r, i)
  <2>1. SetsIn(d, r) \subseteq 1..Len(d)
    BY DEF SetsIn
  <2>2. /\ NewsIn(m, r) = NewsIn(d, r) /\ SetsIn(m, r) = SetsIn(d, r)
        /\ \A i \in 1..Len(d) : SetsUpTo(m, r, i) = SetsUpTo(d, r, i)
    BY AppendCounts
  <2>3. \A i \in 1..Len(d) : m[i] = d[i]
    BY DEF Longer
  <2> QED BY <2>1, <2>2, <2>3
<1>2. Knows(Q, m, r) <=> Knows(Q, d, r)
  BY <1>1 DEF Knows
<1> QED BY <1>1, <1>2 DEF CountsAt, Half, InStep, NewOnce, Signed, Balanced

LEMMA TailAt ==
    ASSUME NEW p, NEW R, NEW c, NEW q, NEW Q, NEW d, NEW au, NEW r,
           ~IsNew(c[1], r), ~IsSet(c[1], r),
           NEW t, Shorter(t, c),
           CountsAt(p, R, c, q, Q, d, r, au)
    PROVE  CountsAt(p, R, t, q, Q, d, r, au)
<1>1. /\ \A i \in NewsIn(t, r) : i + 1 \in NewsIn(c, r)
      /\ \A i \in SetsIn(t, r) : i + 1 \in SetsIn(c, r)
      /\ \A j \in NewsIn(c, r) : j - 1 \in NewsIn(t, r)
      /\ \A j \in SetsIn(c, r) : j - 1 \in SetsIn(t, r)
      /\ Cardinality(SetsIn(t, r)) = Cardinality(SetsIn(c, r))
      /\ \A i \in SetsIn(t, r) : /\ t[i] = c[i + 1]
                                 /\ Cardinality(SetsUpTo(t, r, i))
                                      = Cardinality(SetsUpTo(c, r, i + 1))
  <2>1. SetsIn(t, r) \subseteq 1..Len(t) /\ 1 \notin SetsIn(c, r) /\ 1 \notin NewsIn(c, r)
    BY DEF SetsIn, NewsIn
  <2>2. /\ \A i \in SetsIn(t, r) : Cardinality(SetsUpTo(c, r, i + 1)) \in Nat
        /\ Cardinality(SetsIn(c, r)) \in Nat
    BY CountTypes DEF Shorter
  <2>3. /\ \A i \in NewsIn(t, r) : i + 1 \in NewsIn(c, r)
        /\ \A i \in SetsIn(t, r) : i + 1 \in SetsIn(c, r)
        /\ \A j \in NewsIn(c, r) \ {1} : j - 1 \in NewsIn(t, r)
        /\ \A j \in SetsIn(c, r) \ {1} : j - 1 \in SetsIn(t, r)
    BY TailCounts
  <2>6. \A i \in 1..Len(t) : t[i] = c[i + 1]
    BY DEF Shorter
  <2>4. Cardinality(SetsIn(t, r)) = Cardinality(SetsIn(c, r))
    BY TailCounts
  <2>5. \A i \in SetsIn(t, r) :
          Cardinality(SetsUpTo(t, r, i)) = Cardinality(SetsUpTo(c, r, i + 1))
    BY TailCounts
  <2> QED BY <2>1, <2>2, <2>3, <2>4, <2>5, <2>6
<1>2. Knows(R, t, r) <=> Knows(R, c, r)
  BY <1>1 DEF Knows
<1>3. InStep(p, R, t, r, au)
  BY <1>1, <1>2 DEF CountsAt, Half, InStep
<1>4. NewOnce(R, t, d, r) /\ NewOnce(Q, d, t, r)
  <2>1. NewsIn(t, r) \subseteq Int /\ SetsIn(t, r) \subseteq Int
    BY DEF NewsIn, SetsIn, Shorter
  <2>2. ASSUME NEW i \in NewsIn(t, r)
        PROVE  /\ r \notin DOMAIN R
               /\ NewsIn(t, r) = {i} /\ NewsIn(d, r) = {} /\ SetsIn(d, r) = {}
               /\ \A j \in SetsIn(t, r) : i < j
    <3>1. /\ r \notin DOMAIN R /\ NewsIn(c, r) = {i + 1} /\ NewsIn(d, r) = {} /\ SetsIn(d, r) = {}
          /\ \A j \in SetsIn(c, r) : i + 1 < j
      BY <1>1 DEF CountsAt, Half, NewOnce
    <3>2. ASSUME NEW j \in NewsIn(t, r)
          PROVE  j = i
      <4>1. j + 1 = i + 1
        BY <1>1, <3>1
      <4> QED BY <2>1, <4>1
    <3>3. \A j \in SetsIn(t, r) : i < j
      BY <1>1, <2>1, <3>1
    <3> QED BY <3>1, <3>2, <3>3
  <2>3. (NewsIn(t, r) = {} <=> NewsIn(c, r) = {}) /\ (SetsIn(t, r) = {} <=> SetsIn(c, r) = {})
    BY <1>1
  <2> QED BY <2>2, <2>3 DEF CountsAt, Half, NewOnce
<1>5. Signed(p, R, t, q, r, au)
  BY <1>1 DEF CountsAt, Half, Signed
<1>6. Balanced(R, t, Q, d, r)
  BY <1>1, <1>2 DEF CountsAt, Balanced
<1> QED BY <1>3, <1>4, <1>5, <1>6 DEF CountsAt, Half

Without(R, x) == [t \in DOMAIN R \ {x} |-> R[t]]
With(R, x, y) == [t \in DOMAIN R \cup {x} |-> IF t = x THEN y ELSE R[t]]

(* No edit of a node is on its way, and the other end does not have it.     *)
Unknown(c, Q, d, x) ==
    /\ x \notin DOMAIN Q
    /\ NewsIn(c, x) = {} /\ SetsIn(c, x) = {} /\ RemovesIn(c, x) = {}
    /\ NewsIn(d, x) = {} /\ SetsIn(d, x) = {} /\ RemovesIn(d, x) = {}

(* The record y of the new node x; x's record o and what the edit e makes   *)
(* of it.                                                                  *)
Becomes(b, e, x, y) == Core(y) = Grow(b, e, x)
NewlyMade(e, x, y) ==
    IsNew(e, x) /\ y.version = 0 /\ Len(y.versions) = 1 /\ Becomes(Nothing, e, x, y)
Counted(e, x, o, y) ==
    /\ IsSet(e, x) /\ o.version \in Nat /\ y.version = o.version + 1
    /\ Becomes(Core(o), e, x, y)
SetInOrder(e, x, o, y) ==
    /\ Counted(e, x, o, y)
    /\ e.version = o.version + 1 /\ Len(y.versions) = Len(o.versions) + 1
VersionsIn(c, x) == \A i \in SetsIn(c, x) : c[i].version \in Nat

LEMMA OwnRemoveCounts ==
    ASSUME NEW p, NEW R, NEW c, NEW q, NEW Q, NEW d, NEW au, Counts(p, R, c, q, Q, d, au),
           NEW x, NEW m, Longer(m, d, RemoveEdit(x))
    PROVE  Counts(p, Without(R, x), c, q, Q, m, au)
<1> SUFFICES ASSUME NEW r \in Rids
             PROVE  CountsAt(p, Without(R, x), c, q, Q, m, r, au)
  BY DEF Counts
<1>1. ~IsNew(RemoveEdit(x), r) /\ ~IsSet(RemoveEdit(x), r)
  BY DEF RemoveEdit, IsNew, IsSet
<1>2. CountsAt(p, R, c, q, Q, m, r, au)
  BY <1>1, AppendAt DEF Counts
<1>3. CASE r = x
  <2>1. r \notin DOMAIN Without(R, x)
    BY <1>3 DEF Without
  <2> QED BY <1>2, <2>1, DropAt
<1>4. CASE r # x
  <2>1. (r \in DOMAIN R <=> r \in DOMAIN Without(R, x))
        /\ (r \in DOMAIN R => R[r] = Without(R, x)[r])
    BY <1>4 DEF Without
  <2> QED BY <1>2, <2>1, SameAt
<1> QED BY <1>3, <1>4

LEMMA OwnSetCounts ==
    ASSUME NEW p, NEW R, NEW c, NEW q, NEW Q, NEW d, NEW au, Counts(p, R, c, q, Q, d, au),
           Len(c) \in Nat,
           NEW x \in DOMAIN R, p \in au[x], NEW e, NEW y, SetInOrder(e, x, R[x], y),
           VersionIn(Q, x) \in Nat, VersionsIn(c, x),
           NEW m, Longer(m, d, e)
    PROVE  Counts(p, With(R, x, y), c, q, Q, m, au)
<1> DEFINE N == With(R, x, y)
<1> SUFFICES ASSUME NEW r \in Rids
             PROVE  CountsAt(p, N, c, q, Q, m, r, au)
  BY DEF Counts
<1>1. CountsAt(p, R, c, q, Q, d, r, au)
  BY DEF Counts
<1>2. CASE r # x
  <2>1. CountsAt(p, R, c, q, Q, m, r, au)
    <3>1. ~IsNew(e, r) /\ ~IsSet(e, r)
      BY <1>2 DEF IsNew, IsSet, SetInOrder, Counted
    <3> QED BY <1>1, <3>1, AppendAt
  <2>2. (r \in DOMAIN R <=> r \in DOMAIN N) /\ (r \in DOMAIN R => R[r] = N[r])
    BY <1>2 DEF With
  <2> HIDE DEF N
  <2> QED BY <2>1, <2>2, SameAt
<1>3. CASE r = x
  <2>1. /\ x \in DOMAIN N /\ N[x] = y /\ VersionIn(N, x) = VersionIn(R, x) + 1
        /\ VersionIn(R, x) = R[x].version /\ R[x].version \in Nat
        /\ e.version = R[x].version + 1
    BY DEF With, VersionIn, SetInOrder, Counted
  <2> HIDE DEF N
  <2>2. Knows(R, c, x) /\ Knows(N, c, x) /\ NewsIn(c, x) = {}
    BY <1>1, <1>3, <2>1 DEF Knows, CountsAt, Half, NewOnce
  <2>3. Len(d) \in Nat /\ m[Len(d) + 1] = e /\ \A i \in 1..Len(d) : m[i] = d[i]
    BY DEF Longer
  <2>4. /\ NewsIn(m, x) = NewsIn(d, x)
        /\ SetsIn(m, x) = SetsIn(d, x) \cup {Len(d) + 1}
        /\ Cardinality(SetsIn(m, x)) = Cardinality(SetsIn(d, x)) + 1
        /\ \A i \in 1..Len(d) : SetsUpTo(m, x, i) = SetsUpTo(d, x, i)
        /\ SetsUpTo(m, x, Len(d) + 1) = SetsIn(m, x)
    <3>1. /\ SetsIn(m, x) = SetsIn(d, x) \cup {Len(d) + 1}
          /\ Cardinality(SetsIn(m, x)) = Cardinality(SetsIn(d, x)) + 1
      <4>1. IsSet(e, x)
        BY DEF SetInOrder, Counted
      <4> QED BY <4>1, AppendCounts
    <3>3. NewsIn(m, x) = NewsIn(d, x)
      <4>1. ~IsNew(e, x)
        BY DEF IsNew, IsSet, SetInOrder, Counted
      <4> QED BY <4>1, AppendCounts
    <3>4. \A i \in 1..Len(d) : SetsUpTo(m, x, i) = SetsUpTo(d, x, i)
      BY AppendUpTo
    <3>2. SetsUpTo(m, x, Len(d) + 1) = SetsIn(m, x)
      BY AppendCounts
    <3> QED BY <3>1, <3>2, <3>3, <3>4
  <2>5. Knows(Q, m, x) <=> Knows(Q, d, x)
    BY <2>4 DEF Knows
  <2>6. /\ \A i : Cardinality(SetsUpTo(c, x, i)) \in Nat
        /\ Cardinality(SetsIn(c, x)) \in Nat /\ Cardinality(SetsIn(d, x)) \in Nat
        /\ (Cardinality(SetsIn(c, x)) = 0 <=> SetsIn(c, x) = {})
    BY <2>3, CountTypes
  <2>7. SetsIn(d, x) \subseteq 1..Len(d) /\ NewsIn(d, x) \subseteq 1..Len(d)
    BY DEF SetsIn, NewsIn
  <2>8. InStep(p, N, c, x, au)
    <3>1. \A i \in SetsIn(c, x) : c[i].version <= VersionIn(R, x) + Cardinality(SetsUpTo(c, x, i))
      BY <1>1, <1>3, <2>2 DEF CountsAt, Half, InStep
    <3>2. \A i \in SetsIn(c, x) :
            c[i].version <= VersionIn(N, x) + Cardinality(SetsUpTo(c, x, i))
      <4> TAKE i \in SetsIn(c, x)
      <4>1. c[i].version <= VersionIn(R, x) + Cardinality(SetsUpTo(c, x, i)) /\ c[i].version \in Nat
        BY <3>1 DEF VersionsIn
      <4> QED BY <2>1, <2>6, <4>1
    <3> QED BY <3>2 DEF InStep
  <2>9. InStep(q, Q, m, x, au)
    <3>1. SUFFICES ASSUME Knows(Q, d, x), NEW i \in SetsIn(m, x)
                   PROVE  /\ m[i].version <= VersionIn(Q, x) + Cardinality(SetsUpTo(m, x, i))
                          /\ q \notin au[x] =>
                               m[i].version = VersionIn(Q, x) + Cardinality(SetsUpTo(m, x, i))
      BY <2>5 DEF InStep
    <3>2. CASE i \in SetsIn(d, x)
      <4>1. m[i] = d[i] /\ SetsUpTo(m, x, i) = SetsUpTo(d, x, i)
        BY <2>3, <2>4, <2>7, <3>2
      <4> QED BY <1>1, <1>3, <3>1, <3>2, <4>1 DEF CountsAt, Half, InStep
    <3>3. CASE i = Len(d) + 1
      <4>1. m[i] = e /\ Cardinality(SetsUpTo(m, x, i)) = Cardinality(SetsIn(d, x)) + 1
        BY <2>3, <2>4, <3>3
      <4>2. R[x].version + Cardinality(SetsIn(c, x)) = VersionIn(Q, x) + Cardinality(SetsIn(d, x))
        BY <1>1, <1>3, <2>1, <2>2, <3>1 DEF CountsAt, Balanced
      <4>3. q \notin au[x] => Cardinality(SetsIn(c, x)) = 0
        BY <1>1, <1>3, <2>6 DEF CountsAt, Half, Signed
      <4> DEFINE a == Cardinality(SetsIn(c, x))
                 b == Cardinality(SetsIn(d, x))
                 v == R[x].version
                 w == VersionIn(Q, x)
      <4>4. /\ a \in Nat /\ b \in Nat /\ v \in Nat /\ w \in Nat
            /\ v + a = w + b /\ (q \notin au[x] => a = 0)
            /\ m[i].version = v + 1 /\ Cardinality(SetsUpTo(m, x, i)) = b + 1
        BY <2>1, <2>6, <4>1, <4>2, <4>3
      <4> HIDE DEF a, b, v, w
      <4>5. v + 1 <= w + (b + 1) /\ (q \notin au[x] => v + 1 = w + (b + 1))
        BY <4>4
      <4> QED BY <4>4, <4>5 DEF w
    <3> QED BY <2>4, <3>2, <3>3
  <2>10. NewOnce(N, c, m, x) /\ NewOnce(Q, m, c, x)
    <3>1. \A i \in NewsIn(d, x) : i < Len(d) + 1
      BY <2>3, <2>7
    <3> QED BY <1>1, <1>3, <2>2, <2>4, <3>1 DEF CountsAt, Half, NewOnce
  <2>11. Signed(p, N, c, q, x, au)
    <3>1. Len(R[x].versions) = R[x].version + 1 => Len(N[x].versions) = N[x].version + 1
      BY <2>1 DEF SetInOrder, Counted
    <3> QED BY <1>1, <1>3, <3>1 DEF CountsAt, Half, Signed
  <2>12. Signed(q, Q, m, p, x, au)
    BY <1>1, <1>3 DEF CountsAt, Half, Signed
  <2>13. Balanced(N, c, Q, m, x)
    <3>1. Knows(Q, d, x) => VersionIn(R, x) + Cardinality(SetsIn(c, x))
                              = VersionIn(Q, x) + Cardinality(SetsIn(d, x))
      BY <1>1, <1>3, <2>2 DEF CountsAt, Balanced
    <3>2. Knows(Q, d, x) => VersionIn(N, x) + Cardinality(SetsIn(c, x))
                              = VersionIn(Q, x) + Cardinality(SetsIn(m, x))
      BY <2>1, <2>4, <2>6, <3>1
    <3> QED BY <2>5, <3>2 DEF Balanced
  <2> QED BY <1>3, <2>8, <2>9, <2>10, <2>11, <2>12, <2>13 DEF CountsAt, Half
<1> QED BY <1>2, <1>3

LEMMA OwnNewCounts ==
    ASSUME NEW p, NEW R, NEW c, NEW q, NEW Q, NEW d, NEW au, Counts(p, R, c, q, Q, d, au),
           NEW x, Unknown(c, Q, d, x), NEW e, NEW y, NewlyMade(e, x, y),
           NEW m, Longer(m, d, e)
    PROVE  Counts(p, With(R, x, y), c, q, Q, m, au)
<1> DEFINE N == With(R, x, y)
<1> SUFFICES ASSUME NEW r \in Rids
             PROVE  CountsAt(p, N, c, q, Q, m, r, au)
  BY DEF Counts
<1>1. CountsAt(p, R, c, q, Q, d, r, au)
  BY DEF Counts
<1>2. CASE r # x
  <2>1. CountsAt(p, R, c, q, Q, m, r, au)
    <3>1. ~IsNew(e, r) /\ ~IsSet(e, r)
      BY <1>2 DEF IsNew, IsSet, NewlyMade
    <3> QED BY <1>1, <3>1, AppendAt
  <2>2. (r \in DOMAIN R <=> r \in DOMAIN N) /\ (r \in DOMAIN R => R[r] = N[r])
    BY <1>2 DEF With
  <2> HIDE DEF N
  <2> QED BY <2>1, <2>2, SameAt
<1>3. CASE r = x
  <2>9. x \in DOMAIN N /\ N[x] = y
    BY DEF With
  <2>8. VersionIn(Q, x) = 0
    BY DEF VersionIn, Unknown
  <2>1. /\ x \in DOMAIN N /\ N[x] = y /\ VersionIn(N, x) = 0 /\ VersionIn(Q, x) = 0
        /\ Len(N[x].versions) = N[x].version + 1
    <3> HIDE DEF N
    <3>1. y.version = 0 /\ Len(y.versions) = y.version + 1
      BY DEF NewlyMade
    <3>2. VersionIn(N, x) = y.version
      BY <2>9 DEF VersionIn
    <3>3. VersionIn(N, x) = 0
      BY <3>1, <3>2, Zenon
    <3>4. Len(N[x].versions) = N[x].version + 1
      BY <2>9, <3>1, Zenon
    <3> QED BY <2>8, <2>9, <3>3, <3>4
  <2> HIDE DEF N
  <2>2. NewsIn(m, x) = {Len(d) + 1} /\ SetsIn(m, x) = {}
    <3>1. IsNew(e, x) /\ ~IsSet(e, x)
      BY DEF NewlyMade, IsNew, IsSet
    <3>2. NewsIn(m, x) = NewsIn(d, x) \cup {Len(d) + 1} /\ SetsIn(m, x) = SetsIn(d, x)
      BY <3>1, AppendCounts
    <3> QED BY <3>2 DEF Unknown
  <2>3. InStep(p, N, c, x, au) /\ InStep(q, Q, m, x, au)
    BY <2>2 DEF InStep, Unknown
  <2>4. NewOnce(N, c, m, x) /\ NewOnce(Q, m, c, x)
    BY <2>2 DEF NewOnce, Unknown
  <2>5. Signed(p, N, c, q, x, au) /\ Signed(q, Q, m, p, x, au)
    BY <2>1, <2>2 DEF Signed, Unknown
  <2>6. Balanced(N, c, Q, m, x)
    BY <2>1, <2>2 DEF Balanced, Unknown
  <2> QED BY <1>3, <2>3, <2>4, <2>5, <2>6 DEF CountsAt, Half
<1> QED BY <1>2, <1>3

LEMMA GetRemoveCounts ==
    ASSUME NEW p, NEW R, NEW c, NEW q, NEW Q, NEW d, NEW au, Counts(p, R, c, q, Q, d, au),
           c[1].op = "remove", NEW t, Shorter(t, c), NEW x
    PROVE  /\ Counts(p, Without(R, x), t, q, Q, d, au)
           /\ Counts(p, R, t, q, Q, d, au)
<1>1. Counts(p, R, t, q, Q, d, au)
  <2>1. \A r \in Rids : ~IsNew(c[1], r) /\ ~IsSet(c[1], r)
    BY DEF IsNew, IsSet
  <2> QED BY <2>1, TailAt DEF Counts
<1>2. ASSUME NEW r \in Rids
      PROVE  CountsAt(p, Without(R, x), t, q, Q, d, r, au)
  <2>1. CountsAt(p, R, t, q, Q, d, r, au)
    BY <1>1 DEF Counts
  <2>2. CASE r = x
    <3>1. r \notin DOMAIN Without(R, x)
      BY <2>2 DEF Without
    <3> QED BY <2>1, <3>1, DropAt
  <2>3. CASE r # x
    <3>1. (r \in DOMAIN R <=> r \in DOMAIN Without(R, x))
          /\ (r \in DOMAIN R => R[r] = Without(R, x)[r])
      BY <2>3 DEF Without
    <3> QED BY <2>1, <3>1, SameAt
  <2> QED BY <2>2, <2>3
<1> QED BY <1>1, <1>2 DEF Counts

(* The first edit of a channel as one of its edits.                         *)
LEMMA HeadCounts ==
    ASSUME NEW c, NEW t, Shorter(t, c), NEW x, IsSet(c[1], x)
    PROVE  1 \in SetsIn(c, x) /\ Cardinality(SetsUpTo(c, x, 1)) = 1
<1>1. 1 \in SetsIn(c, x)
  BY TailCounts
<1>2. SetsIn(c, x) \subseteq 1..Len(c) /\ Len(c) \in Nat
  BY DEF SetsIn, Shorter
<1>3. SetsUpTo(c, x, 1) = {1}
  BY <1>1, <1>2 DEF SetsUpTo
<1> QED BY <1>1, <1>3, FS_Singleton

LEMMA TailNews ==
    ASSUME NEW c, NEW t, Shorter(t, c), NEW x, NewsIn(c, x) \subseteq {1}
    PROVE  NewsIn(t, x) = {}
<1>1. SUFFICES ASSUME NEW i \in NewsIn(t, x) PROVE FALSE
  OBVIOUS
<1>2. i + 1 \in NewsIn(c, x)
  BY TailCounts
<1>3. i \in Nat /\ i >= 1
  BY DEF NewsIn, Shorter
<1> QED BY <1>2, <1>3

LEMMA GetNewCounts ==
    ASSUME NEW p, NEW R, NEW c, NEW q, NEW Q, NEW d, NEW au, Counts(p, R, c, q, Q, d, au),
           NEW x \in Rids, NEW y, NewlyMade(c[1], x, y), NEW t, Shorter(t, c)
    PROVE  x \notin DOMAIN R /\ Counts(p, With(R, x, y), t, q, Q, d, au)
<1> DEFINE N == With(R, x, y)
<1>1. IsNew(c[1], x) /\ ~IsSet(c[1], x)
  BY DEF NewlyMade, IsNew, IsSet
<1>2. 1 \in NewsIn(c, x)
  BY <1>1, TailCounts
<1>3. CountsAt(p, R, c, q, Q, d, x, au)
  BY DEF Counts
<1>4. /\ x \notin DOMAIN R /\ NewsIn(c, x) = {1}
      /\ NewsIn(d, x) = {} /\ SetsIn(d, x) = {}
  BY <1>2, <1>3 DEF CountsAt, Half, NewOnce
<1>5. ASSUME NEW r \in Rids, r # x
      PROVE  CountsAt(p, N, t, q, Q, d, r, au)
  <2>1. ~IsNew(c[1], r) /\ ~IsSet(c[1], r)
    BY <1>1, <1>5 DEF IsNew, IsSet
  <2>2. CountsAt(p, R, t, q, Q, d, r, au)
    BY <2>1, TailAt DEF Counts
  <2>3. (r \in DOMAIN R <=> r \in DOMAIN N) /\ (r \in DOMAIN R => R[r] = N[r])
    BY <1>5 DEF With
  <2> HIDE DEF N
  <2> QED BY <2>2, <2>3, SameAt
<1>6. CountsAt(p, N, t, q, Q, d, x, au)
  <2>1. x \in DOMAIN N /\ N[x] = y
    BY DEF With
  <2> HIDE DEF N
  <2>2. y.version = 0 /\ Len(y.versions) = y.version + 1
    BY DEF NewlyMade
  <2>3. VersionIn(N, x) = y.version
    BY <2>1 DEF VersionIn
  <2>4. VersionIn(N, x) = 0
    BY <2>2, <2>3, Zenon
  <2>5. Len(N[x].versions) = N[x].version + 1
    BY <2>1, <2>2, Zenon
  <2>6. VersionIn(R, x) = 0 /\ Knows(R, c, x) /\ Knows(N, t, x)
    BY <1>4, <2>1 DEF VersionIn, Knows
  <2>7. NewsIn(t, x) = {}
    BY <1>4, TailNews
  <2>8. /\ \A i : i \in SetsIn(t, x) => i + 1 \in SetsIn(c, x)
        /\ Cardinality(SetsIn(t, x)) = Cardinality(SetsIn(c, x))
    BY <1>1, TailCounts
  <2>9. \A i \in SetsIn(t, x) : Cardinality(SetsUpTo(t, x, i)) = Cardinality(SetsUpTo(c, x, i + 1))
    BY <1>1, TailCounts
  <2>10. \A i \in SetsIn(t, x) : t[i] = c[i + 1]
    BY DEF Shorter, SetsIn
  <2>11. InStep(p, N, t, x, au)
    <3>1. \A i \in SetsIn(c, x) :
            /\ c[i].version <= 0 + Cardinality(SetsUpTo(c, x, i))
            /\ p \notin au[x] => c[i].version = 0 + Cardinality(SetsUpTo(c, x, i))
      <4>1. InStep(p, R, c, x, au)
        BY <1>3 DEF CountsAt, Half
      <4> QED BY <2>6, <4>1, Zenon DEF InStep
    <3>2. \A i \in SetsIn(t, x) :
            /\ t[i].version <= 0 + Cardinality(SetsUpTo(t, x, i))
            /\ p \notin au[x] => t[i].version = 0 + Cardinality(SetsUpTo(t, x, i))
      BY <2>8, <2>9, <2>10, <3>1, Zenon
    <3> QED BY <2>4, <3>2, Zenon DEF InStep
  <2>12. InStep(q, Q, d, x, au)
    BY <1>3 DEF CountsAt, Half
  <2>13. NewOnce(N, t, d, x) /\ NewOnce(Q, d, t, x)
    BY <1>4, <2>7 DEF NewOnce
  <2>14. Signed(p, N, t, q, x, au)
    <3>1. SetsIn(t, x) # {} => q \in au[x]
      BY <1>3, <2>8 DEF CountsAt, Half, Signed
    <3> QED BY <2>5, <3>1 DEF Signed
  <2>15. Signed(q, Q, d, p, x, au)
    BY <1>3 DEF CountsAt, Half
  <2>16. Balanced(N, t, Q, d, x)
    <3>1. Balanced(R, c, Q, d, x)
      BY <1>3 DEF CountsAt
    <3> QED BY <2>4, <2>6, <2>8, <3>1, Zenon DEF Balanced
  <2> QED BY <2>11, <2>12, <2>13, <2>14, <2>15, <2>16 DEF CountsAt, Half
<1> QED BY <1>4, <1>5, <1>6 DEF Counts

(* A set-edit of a node that is not there is lost, and so are all the       *)
(* others.                                                                  *)
LEMMA GetLostSetCounts ==
    ASSUME NEW p, NEW R, NEW c, NEW q, NEW Q, NEW d, NEW au, Counts(p, R, c, q, Q, d, au),
           NEW x \in Rids, IsSet(c[1], x), x \notin DOMAIN R, NEW t, Shorter(t, c)
    PROVE  Counts(p, R, t, q, Q, d, au)
<1>1. ASSUME NEW r \in Rids, r # x
      PROVE  CountsAt(p, R, t, q, Q, d, r, au)
  <2>1. ~IsNew(c[1], r) /\ ~IsSet(c[1], r)
    BY <1>1 DEF IsNew, IsSet
  <2> QED BY <2>1, TailAt DEF Counts
<1>2. CountsAt(p, R, t, q, Q, d, x, au)
  <2>1. CountsAt(p, R, c, q, Q, d, x, au)
    BY DEF Counts
  <2>2. 1 \in SetsIn(c, x)
    BY HeadCounts
  <2>3. NewsIn(c, x) = {}
    <3>1. \A i \in NewsIn(c, x) : i < 1 /\ i \in 1..Len(c)
      BY <2>1, <2>2 DEF CountsAt, Half, NewOnce, NewsIn
    <3> QED BY <3>1 DEF Shorter
  <2>4. NewsIn(t, x) = {}
    BY <2>3, TailNews
  <2>5. ~Knows(R, t, x)
    BY <2>4 DEF Knows
  <2>6. NewsIn(d, x) = {}
    BY <2>1, <2>2 DEF CountsAt, Half, NewOnce
  <2>7. q \in au[x]
    BY <2>1, <2>2 DEF CountsAt, Half, Signed
  <2> QED BY <2>1, <2>4, <2>5, <2>6, <2>7
         DEF CountsAt, Half, InStep, NewOnce, Signed, Balanced
<1> QED BY <1>1, <1>2 DEF Counts

(* A set-edit of a node that is there: it is not ahead.                     *)
LEMMA NotAhead ==
    ASSUME NEW p, NEW R, NEW c, NEW q, NEW Q, NEW d, NEW au, Counts(p, R, c, q, Q, d, au),
           NEW x \in Rids, IsSet(c[1], x), x \in DOMAIN R, NEW t, Shorter(t, c)
    PROVE  /\ c[1].version <= R[x].version + 1
           /\ p \notin au[x] => c[1].version = R[x].version + 1
<1>1. 1 \in SetsIn(c, x) /\ Cardinality(SetsUpTo(c, x, 1)) = 1
  BY HeadCounts
<1>2. Knows(R, c, x) /\ VersionIn(R, x) = R[x].version
  BY DEF Knows, VersionIn
<1>3. InStep(p, R, c, x, au)
  BY DEF Counts, CountsAt, Half
<1> QED BY <1>1, <1>2, <1>3, Zenon DEF InStep

(* What handling it makes of the record.                                    *)
Taken(e, x, o, y) ==
    Counted(e, x, o, y) /\ (e.version = o.version + 1 => SetInOrder(e, x, o, y))

LEMMA GetSetCounts ==
    ASSUME NEW p, NEW R, NEW c, NEW q, NEW Q, NEW d, NEW au, Counts(p, R, c, q, Q, d, au),
           NEW x \in Rids, x \in DOMAIN R, NEW y, Taken(c[1], x, R[x], y),
           NEW t, Shorter(t, c), VersionsIn(c, x)
    PROVE  Counts(p, With(R, x, y), t, q, Q, d, au)
<1> DEFINE N == With(R, x, y)
<1>1. IsSet(c[1], x)
  BY DEF Taken, Counted
<1>2. ASSUME NEW r \in Rids, r # x
      PROVE  CountsAt(p, N, t, q, Q, d, r, au)
  <2>1. ~IsNew(c[1], r) /\ ~IsSet(c[1], r)
    BY <1>1, <1>2 DEF IsNew, IsSet
  <2>2. CountsAt(p, R, t, q, Q, d, r, au)
    BY <2>1, TailAt DEF Counts
  <2>3. (r \in DOMAIN R <=> r \in DOMAIN N) /\ (r \in DOMAIN R => R[r] = N[r])
    BY <1>2 DEF With
  <2> HIDE DEF N
  <2> QED BY <2>2, <2>3, SameAt
<1>3. CountsAt(p, N, t, q, Q, d, x, au)
  <2>1. x \in DOMAIN N /\ N[x] = y
    BY DEF With
  <2> HIDE DEF N
  <2>2. CountsAt(p, R, c, q, Q, d, x, au)
    BY DEF Counts
  <2>3. /\ VersionIn(R, x) = R[x].version /\ VersionIn(N, x) = y.version
        /\ Knows(R, c, x) /\ Knows(N, t, x)
    BY <2>1 DEF VersionIn, Knows
  <2>4. R[x].version \in Nat /\ y.version = R[x].version + 1
    BY DEF Taken, Counted
  <2>5. 1 \in SetsIn(c, x) /\ NewsIn(c, x) = {} /\ NewsIn(d, x) = {} /\ q \in au[x]
    <3>1. 1 \in SetsIn(c, x)
      BY <1>1, HeadCounts
    <3> QED BY <2>2, <3>1 DEF CountsAt, Half, NewOnce, Signed
  <2>6. NewsIn(t, x) = {}
    BY <2>5, TailNews
  <2>7. /\ \A i : i \in SetsIn(t, x) => i + 1 \in SetsIn(c, x)
        /\ Cardinality(SetsIn(t, x)) + 1 = Cardinality(SetsIn(c, x))
    BY <1>1, TailCounts
  <2>8. \A i \in SetsIn(t, x) : Cardinality(SetsUpTo(t, x, i)) + 1
                                  = Cardinality(SetsUpTo(c, x, i + 1))
    BY <1>1, TailCounts
  <2>9. \A i \in SetsIn(t, x) : t[i] = c[i + 1]
    BY DEF Shorter, SetsIn
  <2>10. /\ \A i : Cardinality(SetsUpTo(t, x, i)) \in Nat
         /\ Cardinality(SetsIn(t, x)) \in Nat
    BY CountTypes DEF Shorter
  <2>11. InStep(p, N, t, x, au)
    <3> SUFFICES ASSUME NEW i \in SetsIn(t, x)
                 PROVE  /\ t[i].version <= VersionIn(N, x) + Cardinality(SetsUpTo(t, x, i))
                        /\ p \notin au[x] =>
                             t[i].version = VersionIn(N, x) + Cardinality(SetsUpTo(t, x, i))
      BY DEF InStep
    <3> DEFINE v == c[i + 1].version
               w == R[x].version
               a == Cardinality(SetsUpTo(t, x, i))
               b == Cardinality(SetsUpTo(c, x, i + 1))
    <3>1. v <= w + b /\ (p \notin au[x] => v = w + b)
      <4>1. InStep(p, R, c, x, au)
        BY <2>2 DEF CountsAt, Half
      <4> QED BY <2>3, <2>7, <4>1 DEF InStep
    <3>2. v \in Nat /\ w \in Nat /\ a \in Nat /\ a + 1 = b
      BY <2>4, <2>7, <2>8, <2>10 DEF VersionsIn
    <3>3. t[i].version = v /\ VersionIn(N, x) = w + 1
      BY <2>3, <2>4, <2>9
    <3> HIDE DEF v, w, b, a
    <3>4. v <= (w + 1) + a /\ (p \notin au[x] => v = (w + 1) + a)
      BY <3>1, <3>2
    <3> QED BY <3>3, <3>4, Zenon DEF a
  <2>12. InStep(q, Q, d, x, au)
    BY <2>2 DEF CountsAt, Half
  <2>13. NewOnce(N, t, d, x) /\ NewOnce(Q, d, t, x)
    BY <2>5, <2>6 DEF NewOnce
  <2>14. Signed(p, N, t, q, x, au)
    <3>1. p \notin au[x] => Len(R[x].versions) = R[x].version + 1
      BY <2>2 DEF CountsAt, Half, Signed
    <3>2. p \notin au[x] => c[1].version = R[x].version + 1
      BY <1>1, NotAhead
    <3>3. p \notin au[x] => SetInOrder(c[1], x, R[x], y)
      BY <3>2 DEF Taken
    <3>4. p \notin au[x] => Len(y.versions) = Len(R[x].versions) + 1
      BY <3>3 DEF SetInOrder
    <3>5. p \notin au[x] => Len(y.versions) = y.version + 1
      BY <2>4, <3>1, <3>4
    <3> QED BY <2>1, <2>5, <3>5 DEF Signed
  <2>15. Signed(q, Q, d, p, x, au)
    BY <2>2 DEF CountsAt, Half
  <2>16. Balanced(N, t, Q, d, x)
    <3>1. Knows(Q, d, x) => R[x].version + Cardinality(SetsIn(c, x))
                              = VersionIn(Q, x) + Cardinality(SetsIn(d, x))
      BY <2>2, <2>3 DEF CountsAt, Balanced
    <3>2. VersionIn(N, x) + Cardinality(SetsIn(t, x)) = R[x].version + Cardinality(SetsIn(c, x))
      BY <2>3, <2>4, <2>7, <2>10
    <3> QED BY <3>1, <3>2 DEF Balanced
  <2> QED BY <2>11, <2>12, <2>13, <2>14, <2>15, <2>16 DEF CountsAt, Half
<1> QED BY <1>2, <1>3 DEF Counts

-----------------------------------------------------------------------------
(* What the edits on their way make of a node.                              *)

LEMMA GrowOther ==
    ASSUME NEW z, NEW e, NEW r, ~IsNew(e, r), ~IsSet(e, r)
    PROVE  Grow(z, e, r) = z
  BY DEF Grow

LEMMA MakesAppend ==
    ASSUME NEW d, NEW m, NEW e, Longer(m, d, e), NEW r, NEW b, NEW z, Makes(d, r, b, z)
    PROVE  Makes(m, r, b, Grow(z, e, r))
<1>1. PICK f : /\ f[0] = b /\ f[Len(d)] = z
               /\ \A i \in 1..Len(d) : f[i] = Grow(f[i - 1], d[i], r)
  BY DEF Makes
<1> DEFINE new == Grow(z, e, r)
           g == [i \in 0..Len(m) |-> IF i = Len(m) THEN new ELSE f[i]]
<1>2. /\ Len(d) \in Nat /\ Len(m) = Len(d) + 1 /\ m[Len(m)] = e
      /\ \A i \in 1..Len(d) : m[i] = d[i]
  BY DEF Longer
<1>3. g[0] = b /\ g[Len(m)] = new /\ \A i \in 0..Len(d) : g[i] = f[i]
  BY <1>1, <1>2
<1> HIDE DEF g
<1>4. ASSUME NEW i \in 1..Len(m)
      PROVE  g[i] = Grow(g[i - 1], m[i], r)
  <2>1. CASE i = Len(m)
    <3>1. i - 1 = Len(d) /\ i - 1 \in 0..Len(d) /\ m[i] = e
      BY <1>2, <2>1
    <3>2. g[i - 1] = z /\ g[i] = new
      BY <1>1, <1>3, <2>1, <3>1
    <3> QED BY <3>1, <3>2
  <2>2. CASE i # Len(m)
    <3>1. i \in 1..Len(d) /\ i \in 0..Len(d) /\ i - 1 \in 0..Len(d)
      BY <1>2, <2>2
    <3>2. g[i] = f[i] /\ g[i - 1] = f[i - 1] /\ m[i] = d[i] /\ f[i] = Grow(f[i - 1], d[i], r)
      BY <1>1, <1>2, <1>3, <3>1
    <3> QED BY <3>2
  <2> QED BY <2>1, <2>2
<1> QED BY <1>3, <1>4 DEF Makes

LEMMA MakesTail ==
    ASSUME NEW c, NEW t, Shorter(t, c), NEW r, NEW b, NEW z, Makes(c, r, b, z)
    PROVE  Makes(t, r, Grow(b, c[1], r), z)
<1>1. PICK f : /\ f[0] = b /\ f[Len(c)] = z
               /\ \A i \in 1..Len(c) : f[i] = Grow(f[i - 1], c[i], r)
  BY DEF Makes
<1> DEFINE g == [i \in 0..Len(t) |-> f[i + 1]]
<1>2. /\ Len(t) \in Nat /\ Len(c) = Len(t) + 1
      /\ \A i \in 1..Len(t) : t[i] = c[i + 1]
  BY DEF Shorter
<1>3. \A i \in 0..Len(t) : g[i] = f[i + 1]
  OBVIOUS
<1> HIDE DEF g
<1>4. g[0] = Grow(b, c[1], r) /\ g[Len(t)] = z
  <2>1. 1 \in 1..Len(c) /\ 1 - 1 = 0
    BY <1>2
  <2>2. f[1] = Grow(f[0], c[1], r)
    BY <1>1, <2>1
  <2>3. g[0] = f[1]
    <3>1. 0 \in 0..Len(t) /\ 0 + 1 = 1
      BY <1>2
    <3> QED BY <1>3, <3>1
  <2>4. g[Len(t)] = f[Len(c)]
    BY <1>2, <1>3
  <2> QED BY <1>1, <2>2, <2>3, <2>4
<1>5. ASSUME NEW i \in 1..Len(t)
      PROVE  g[i] = Grow(g[i - 1], t[i], r)
  <2>1. i \in 0..Len(t) /\ i - 1 \in 0..Len(t) /\ i + 1 \in 1..Len(c)
        /\ (i - 1) + 1 = i /\ (i + 1) - 1 = i
    BY <1>2
  <2>2. g[i] = f[i + 1] /\ g[i - 1] = f[i] /\ t[i] = c[i + 1]
    BY <1>2, <1>3, <2>1
  <2>3. f[i + 1] = Grow(f[i], c[i + 1], r)
    BY <1>1, <2>1
  <2> QED BY <2>2, <2>3
<1> QED BY <1>4, <1>5 DEF Makes

LEMMA MakesNothing ==
    ASSUME NEW c, Len(c) \in Nat, NEW r, NewsIn(c, r) = {}, SetsIn(c, r) = {}, NEW b
    PROVE  Makes(c, r, b, b) /\ \A z : Makes(c, r, b, z) => z = b
<1>1. \A i \in 1..Len(c) : ~IsNew(c[i], r) /\ ~IsSet(c[i], r)
  BY DEF NewsIn, SetsIn
<1>2. Makes(c, r, b, b)
  <2> DEFINE g == [i \in 0..Len(c) |-> b]
  <2>1. \A i \in 0..Len(c) : g[i] = b
    OBVIOUS
  <2> HIDE DEF g
  <2>2. g[0] = b /\ g[Len(c)] = b /\ \A i \in 1..Len(c) : g[i] = b /\ g[i - 1] = b
    BY <2>1
  <2>3. \A i \in 1..Len(c) : g[i] = Grow(g[i - 1], c[i], r)
    BY <1>1, <2>2, GrowOther
  <2> QED BY <2>2, <2>3 DEF Makes
<1>3. ASSUME NEW z, Makes(c, r, b, z)
      PROVE  z = b
  <2>1. PICK f : /\ f[0] = b /\ f[Len(c)] = z
                 /\ \A i \in 1..Len(c) : f[i] = Grow(f[i - 1], c[i], r)
    BY <1>3 DEF Makes
  <2> DEFINE T == {i \in 0..Len(c) : f[i] = b}
  <2>2. 0 \in T
    BY <2>1
  <2>3. ASSUME NEW i \in 0..(Len(c) - 1), i \in T
        PROVE  i + 1 \in T
    <3>1. i + 1 \in 1..Len(c) /\ (i + 1) - 1 = i /\ i + 1 \in 0..Len(c)
      OBVIOUS
    <3>2. f[i + 1] = Grow(f[i], c[i + 1], r)
      BY <2>1, <3>1
    <3>3. f[i + 1] = f[i]
      BY <1>1, <3>1, <3>2, GrowOther
    <3> QED BY <2>3, <3>1, <3>3
  <2>4. \A i \in 0..Len(c) : i \in T
    <3> HIDE DEF T
    <3> QED BY <2>2, <2>3, Flattens!UpTo
  <2>5. Len(c) \in T
    BY <2>4
  <2> QED BY <2>1, <2>5
<1> QED BY <1>2, <1>3

(* How many edits of a node there are up to an edit.                        *)
LEMMA UpToSteps ==
    ASSUME NEW c, Len(c) \in Nat, NEW r
    PROVE  /\ SetsUpTo(c, r, 0) = {} /\ SetsUpTo(c, r, Len(c)) = SetsIn(c, r)
           /\ \A i \in 1..Len(c) :
                /\ ~IsSet(c[i], r) => SetsUpTo(c, r, i) = SetsUpTo(c, r, i - 1)
                /\ IsSet(c[i], r) =>
                     /\ SetsUpTo(c, r, i) # {} /\ i \in SetsIn(c, r)
                     /\ Cardinality(SetsUpTo(c, r, i)) = Cardinality(SetsUpTo(c, r, i - 1)) + 1
<1>1. SetsIn(c, r) \subseteq 1..Len(c)
  BY DEF SetsIn
<1>2. SetsUpTo(c, r, 0) = {} /\ SetsUpTo(c, r, Len(c)) = SetsIn(c, r)
  BY <1>1 DEF SetsUpTo
<1>3. ASSUME NEW i \in 1..Len(c)
      PROVE  /\ ~IsSet(c[i], r) => SetsUpTo(c, r, i) = SetsUpTo(c, r, i - 1)
             /\ IsSet(c[i], r) => SetsUpTo(c, r, i) = SetsUpTo(c, r, i - 1) \cup {i}
             /\ IsSet(c[i], r) => i \in SetsIn(c, r)
             /\ i \notin SetsUpTo(c, r, i - 1)
  BY <1>1 DEF SetsUpTo, SetsIn
<1>4. ASSUME NEW i \in 1..Len(c), IsSet(c[i], r)
      PROVE  /\ SetsUpTo(c, r, i) # {}
             /\ Cardinality(SetsUpTo(c, r, i)) = Cardinality(SetsUpTo(c, r, i - 1)) + 1
  <2>1. IsFiniteSet(SetsUpTo(c, r, i - 1)) /\ Cardinality(SetsUpTo(c, r, i - 1)) \in Nat
    BY CountTypes
  <2>2. SetsUpTo(c, r, i) = SetsUpTo(c, r, i - 1) \cup {i} /\ i \notin SetsUpTo(c, r, i - 1)
    BY <1>3, <1>4
  <2> QED BY <2>1, <2>2, FS_AddElement
<1> QED BY <1>2, <1>3, <1>4

(* The cores of records, and what an edit that comes too late leaves of one. *)
IsCore(z) ==
    /\ z = [version |-> z.version, values |-> z.values]
    /\ z.version \in Nat /\ \A w \in z.values : w.v \in Nat
Kept(z, n) == [version |-> z.version + 1, values |-> {w \in z.values : w.v < n}]
Added(z, e) == [v |-> e.version, val |-> Changed(Newest(z.values).val, e.changes)]

LEMMA GrowParts ==
    ASSUME NEW z, NEW e, NEW r, IsSet(e, r)
    PROVE  /\ e.version = z.version + 1 =>
                Grow(z, e, r) = [version |-> z.version + 1, values |-> z.values \cup {Added(z, e)}]
           /\ e.version # z.version + 1 => Grow(z, e, r) = Kept(z, e.version)
           /\ Added(z, e).v = e.version
<1>1. ~IsNew(e, r)
  BY DEF IsNew, IsSet
<1>2. Added(z, e).v = e.version
  BY DEF Added
<1> QED BY <1>1, <1>2 DEF Grow, Kept, Added

LEMMA GrowCore ==
    ASSUME NEW z, IsCore(z), NEW e, NEW r, IsSet(e, r), e.version \in Nat
    PROVE  IsCore(Grow(z, e, r)) /\ Grow(z, e, r).version = z.version + 1
<1> DEFINE new == Added(z, e)
           y == Grow(z, e, r)
<1>1. new.v = e.version
  BY GrowParts
<1>2. z.version + 1 \in Nat /\ \A w \in z.values : w.v \in Nat
  BY DEF IsCore
<1>3. CASE e.version = z.version + 1
  <2> DEFINE S == z.values \cup {new}
  <2>1. y = [version |-> z.version + 1, values |-> S]
    BY <1>3, GrowParts
  <2> HIDE DEF new, y
  <2>2. \A w \in S : w.v \in Nat
    BY <1>1, <1>2
  <2> HIDE DEF S
  <2>3. y.version = z.version + 1 /\ y.values = S
    BY <2>1
  <2> QED BY <1>2, <2>1, <2>2, <2>3 DEF IsCore, y
<1>4. CASE e.version # z.version + 1
  <2> DEFINE S == {w \in z.values : w.v < e.version}
  <2>1. y = [version |-> z.version + 1, values |-> S]
    BY <1>4, GrowParts DEF Kept
  <2> HIDE DEF new, y
  <2>2. \A w \in S : w.v \in Nat
    BY <1>2
  <2> HIDE DEF S
  <2>3. y.version = z.version + 1 /\ y.values = S
    BY <2>1
  <2> QED BY <1>2, <2>1, <2>2, <2>3 DEF IsCore, y
<1> QED BY <1>3, <1>4

(* An edit g from the other end, first of those that met the edit e of b,   *)
(* leaves the same of b with e as e leaves of b with g.                     *)
LEMMA FirstRival ==
    ASSUME NEW b, IsCore(b), \A w \in b.values : w.v <= b.version,
           NEW r, NEW e, IsSet(e, r), e.version = b.version + 1,
           NEW g, IsSet(g, r), g.version \in Nat, g.version <= b.version + 1
    PROVE  Grow(Grow(b, e, r), g, r) = Kept(Grow(b, g, r), b.version + 1)
<1> DEFINE V == b.version
           A == b.values
           G == g.version
           new == Added(b, e)
           b2 == Grow(b, e, r)
           u == Grow(b, g, r)
<1>1. /\ V \in Nat /\ G \in Nat /\ G <= V + 1 /\ \A w \in A : w.v \in Nat /\ w.v <= V
      /\ new.v = V + 1
  <2>1. new.v = e.version
    BY GrowParts
  <2> QED BY <2>1 DEF IsCore
<1>2. b2 = [version |-> V + 1, values |-> A \cup {new}]
  BY GrowParts
<1>3. b2.version = V + 1 /\ b2.values = A \cup {new}
  <2> HIDE DEF b2, new, V, A
  <2> QED BY <1>2
<1>4. G # (V + 1) + 1
  <2> HIDE DEF V, G
  <2> QED BY <1>1
<1>5. Grow(b2, g, r) = [version |-> b2.version + 1, values |-> {w \in b2.values : w.v < G}]
  <2>1. g.version # b2.version + 1
    BY <1>3, <1>4
  <2> HIDE DEF b2
  <2> QED BY <2>1, GrowParts DEF Kept
<1>6. {w \in A \cup {new} : w.v < G} = {w \in A : w.v < G}
  <2> HIDE DEF V, A, G, new
  <2> QED BY <1>1
<1>7. u.version = V + 1 /\ {w \in u.values : w.v < V + 1} = {w \in A : w.v < G}
  <2>1. CASE G = V + 1
    <3> DEFINE mine == Added(b, g)
    <3>1. u = [version |-> V + 1, values |-> A \cup {mine}] /\ mine.v = G
      BY <2>1, GrowParts
    <3> HIDE DEF u, mine, V, A, G
    <3>2. u.version = V + 1 /\ u.values = A \cup {mine}
      BY <3>1
    <3>3. {w \in A \cup {mine} : w.v < V + 1} = A /\ {w \in A : w.v < G} = A
      BY <1>1, <2>1, <3>1
    <3> QED BY <3>2, <3>3
  <2>2. CASE G # V + 1
    <3>1. u = [version |-> V + 1, values |-> {w \in A : w.v < G}]
      BY <2>2, GrowParts DEF Kept
    <3> HIDE DEF u, V, A, G
    <3>2. u.version = V + 1 /\ u.values = {w \in A : w.v < G}
      BY <3>1
    <3>3. {w \in {a \in A : a.v < G} : w.v < V + 1} = {w \in A : w.v < G}
      BY <1>1
    <3> QED BY <3>2, <3>3
  <2> QED BY <2>1, <2>2
<1> HIDE DEF u, b2, new, A, V, G
<1> QED BY <1>3, <1>5, <1>6, <1>7 DEF Kept, u, b2, V

(* Nor do the others make a difference.                                     *)
LEMMA NextRival ==
    ASSUME NEW u, IsCore(u), NEW n \in Nat, u.version >= n,
           NEW r, NEW g, IsSet(g, r), g.version \in Nat, g.version <= u.version + 1
    PROVE  Grow(Kept(u, n), g, r) = Kept(Grow(u, g, r), n)
<1> DEFINE U == u.version
           A == u.values
           G == g.version
           F == {w \in A : w.v < n}
           k == Kept(u, n)
           y == Grow(u, g, r)
<1>1. /\ U \in Nat /\ G \in Nat /\ G <= U + 1 /\ U >= n /\ \A w \in A : w.v \in Nat
  BY DEF IsCore
<1>2. k.version = U + 1 /\ k.values = F
  BY DEF Kept
<1>3. G # (U + 1) + 1
  <2> HIDE DEF U, G
  <2> QED BY <1>1
<1>4. Grow(k, g, r) = [version |-> (U + 1) + 1, values |-> {w \in F : w.v < G}]
  <2>1. g.version # k.version + 1
    BY <1>2, <1>3
  <2> HIDE DEF k, F
  <2>2. Grow(k, g, r) = [version |-> k.version + 1, values |-> {w \in k.values : w.v < G}]
    BY <2>1, GrowParts DEF Kept
  <2> QED BY <1>2, <2>2
<1>5. y.version = U + 1 /\ {w \in y.values : w.v < n} = {w \in F : w.v < G}
  <2>1. CASE G = U + 1
    <3> DEFINE mine == Added(u, g)
    <3>1. y = [version |-> U + 1, values |-> A \cup {mine}] /\ mine.v = G
      BY <2>1, GrowParts
    <3> HIDE DEF y, mine, U, A, G
    <3>2. y.version = U + 1 /\ y.values = A \cup {mine}
      BY <3>1
    <3>3. {w \in A \cup {mine} : w.v < n} = {w \in F : w.v < G}
      BY <1>1, <2>1, <3>1
    <3> QED BY <3>2, <3>3
  <2>2. CASE G # U + 1
    <3>1. y = [version |-> U + 1, values |-> {w \in A : w.v < G}]
      BY <2>2, GrowParts DEF Kept
    <3> HIDE DEF y, U, A, G
    <3>2. y.version = U + 1 /\ y.values = {w \in A : w.v < G}
      BY <3>1
    <3>3. {w \in {a \in A : a.v < G} : w.v < n} = {w \in F : w.v < G}
      OBVIOUS
    <3> QED BY <3>2, <3>3
  <2> QED BY <2>1, <2>2
<1> HIDE DEF y, k, F, A, U, G
<1> QED BY <1>4, <1>5 DEF Kept, y, k

(* An edit of one's own, and the edits that were on their way when it was   *)
(* made: it makes no difference which come first.                           *)
LEMMA MakesBoth ==
    ASSUME NEW c, Len(c) \in Nat, NEW r, NewsIn(c, r) = {},
           NEW b, IsCore(b), \A w \in b.values : w.v <= b.version,
           \A i \in SetsIn(c, r) :
             c[i].version \in Nat /\ c[i].version <= b.version + Cardinality(SetsUpTo(c, r, i)),
           NEW e, IsSet(e, r), e.version = b.version + 1,
           NEW z, Makes(c, r, b, z)
    PROVE  Makes(c, r, Grow(b, e, r), Grow(z, e, r))
<1> DEFINE V == b.version
           b2 == Grow(b, e, r)
           N(i) == Cardinality(SetsUpTo(c, r, i))
<1>1. CASE SetsIn(c, r) = {}
  BY <1>1, MakesNothing
<1>2. CASE SetsIn(c, r) # {}
  <2>1. PICK f : /\ f[0] = b /\ f[Len(c)] = z
                 /\ \A i \in 1..Len(c) : f[i] = Grow(f[i - 1], c[i], r)
    BY DEF Makes
  <2>2. V \in Nat /\ V + 1 \in Nat
    BY DEF IsCore
  <2>3. \A i \in 1..Len(c) : ~IsNew(c[i], r)
    BY DEF NewsIn
  <2>4. \A i : /\ N(i) \in Nat /\ (SetsUpTo(c, r, i) # {} => N(i) >= 1)
               /\ (SetsUpTo(c, r, i) = {} => N(i) = 0)
    <3> TAKE i
    <3>1. IsFiniteSet(SetsUpTo(c, r, i)) /\ N(i) \in Nat
      BY CountTypes
    <3>2. (N(i) = 0) <=> (SetsUpTo(c, r, i) = {})
      BY <3>1, FS_EmptySet
    <3> HIDE DEF N
    <3> QED BY <3>1, <3>2
  <2> DEFINE Right(i) ==
               /\ IsCore(f[i]) /\ f[i].version = V + N(i)
               /\ SetsUpTo(c, r, i) = {} => f[i] = b
             T == {i \in 0..Len(c) : Right(i)}
  <2>5. 0 \in T
    <3>1. SetsUpTo(c, r, 0) = {} /\ N(0) = 0 /\ f[0] = b
      BY <2>1, <2>4, UpToSteps
    <3>2. f[0].version = V + N(0)
      BY <2>2, <3>1
    <3>3. Right(0) /\ 0 \in 0..Len(c)
      BY <3>1, <3>2
    <3> HIDE DEF Right
    <3> QED BY <3>3
  <2>6. ASSUME NEW i \in 1..Len(c), i - 1 \in 0..Len(c), Right(i - 1)
        PROVE  Right(i)
    <3>1. f[i] = Grow(f[i - 1], c[i], r)
      BY <2>1
    <3>2. CASE ~IsSet(c[i], r)
      <4>1. f[i] = f[i - 1]
        BY <2>3, <3>1, <3>2, GrowOther
      <4>2. SetsUpTo(c, r, i) = SetsUpTo(c, r, i - 1)
        BY <3>2, UpToSteps
      <4> QED BY <2>6, <4>1, <4>2
    <3>3. CASE IsSet(c[i], r)
      <4>1. /\ SetsUpTo(c, r, i) # {} /\ i \in SetsIn(c, r) /\ N(i) = N(i - 1) + 1
        BY <3>3, UpToSteps
      <4>2. c[i].version \in Nat
        BY <4>1
      <4>3. IsCore(f[i]) /\ f[i].version = f[i - 1].version + 1
        BY <2>6, <3>1, <3>3, <4>2, GrowCore
      <4>4. f[i].version = V + N(i)
        <5> HIDE DEF N, V
        <5>1. f[i - 1].version = V + N(i - 1)
          BY <2>6
        <5>2. N(i - 1) \in Nat
          BY <2>4
        <5> QED BY <2>2, <4>1, <4>3, <5>1, <5>2
      <4> QED BY <4>1, <4>3, <4>4
    <3> QED BY <3>2, <3>3
  <2>7. \A i \in 0..Len(c) : Right(i)
    <3>1. ASSUME NEW i \in 0..(Len(c) - 1), i \in T
          PROVE  i + 1 \in T
      <4>1. i + 1 \in 1..Len(c) /\ (i + 1) - 1 = i /\ i \in 0..Len(c) /\ i + 1 \in 0..Len(c)
        OBVIOUS
      <4>2. Right(i)
        BY <3>1
      <4> HIDE DEF Right
      <4>3. Right(i + 1)
        BY <2>6, <4>1, <4>2
      <4> QED BY <4>1, <4>3
    <3>2. \A i \in 0..Len(c) : i \in T
      <4> HIDE DEF T, Right
      <4> QED BY <2>5, <3>1, Flattens!UpTo
    <3> QED BY <3>2
  <2> DEFINE g == [i \in 0..Len(c) |-> IF SetsUpTo(c, r, i) = {} THEN b2 ELSE Kept(f[i], V + 1)]
  <2>8. \A i \in 0..Len(c) : g[i] = IF SetsUpTo(c, r, i) = {} THEN b2 ELSE Kept(f[i], V + 1)
    OBVIOUS
  <2> HIDE DEF g
  <2>9. g[0] = b2 /\ g[Len(c)] = Kept(z, V + 1)
    <3>1. 0 \in 0..Len(c) /\ Len(c) \in 0..Len(c) /\ SetsUpTo(c, r, 0) = {}
          /\ SetsUpTo(c, r, Len(c)) # {}
      BY <1>2, UpToSteps
    <3> QED BY <2>1, <2>8, <3>1
  <2>10. ASSUME NEW i \in 1..Len(c)
         PROVE  g[i] = Grow(g[i - 1], c[i], r)
    <3>1. f[i] = Grow(f[i - 1], c[i], r) /\ i \in 0..Len(c) /\ i - 1 \in 0..Len(c)
      BY <2>1
    <3>2. CASE ~IsSet(c[i], r)
      <4>1. f[i] = f[i - 1]
        BY <2>3, <3>1, <3>2, GrowOther
      <4>2. SetsUpTo(c, r, i) = SetsUpTo(c, r, i - 1)
        BY <3>2, UpToSteps
      <4>3. g[i] = g[i - 1]
        BY <2>8, <3>1, <4>1, <4>2
      <4> QED BY <2>3, <3>2, <4>3, GrowOther
    <3>3. CASE IsSet(c[i], r)
      <4>1. /\ SetsUpTo(c, r, i) # {} /\ i \in SetsIn(c, r) /\ N(i) = N(i - 1) + 1
        BY <3>3, UpToSteps
      <4>2. c[i].version \in Nat /\ c[i].version <= V + N(i)
        BY <4>1
      <4>3. Right(i - 1)
        BY <2>7, <3>1
      <4>4. g[i] = Kept(f[i], V + 1)
        BY <2>8, <3>1, <4>1
      <4>5. CASE SetsUpTo(c, r, i - 1) = {}
        <5>1. f[i - 1] = b /\ g[i - 1] = b2
          BY <2>8, <3>1, <4>3, <4>5
        <5>2. N(i) = 1
          <6>1. N(i - 1) = 0
            BY <2>4, <4>5
          <6> HIDE DEF N
          <6> QED BY <4>1, <6>1
        <5>3. c[i].version \in Nat /\ c[i].version <= b.version + 1
          BY <4>2, <5>2
        <5>4. Grow(Grow(b, e, r), c[i], r) = Kept(Grow(b, c[i], r), b.version + 1)
          BY <3>3, <5>3, FirstRival
        <5> QED BY <3>1, <4>4, <5>1, <5>4
      <4>6. CASE SetsUpTo(c, r, i - 1) # {}
        <5> DEFINE u == f[i - 1]
        <5>1. IsCore(u) /\ u.version = V + N(i - 1)
          BY <4>3
        <5>2. g[i - 1] = Kept(u, V + 1)
          BY <2>8, <3>1, <4>6
        <5> HIDE DEF u
        <5>3. u.version >= V + 1 /\ c[i].version <= u.version + 1 /\ c[i].version \in Nat
          <6>1. N(i - 1) >= 1 /\ N(i - 1) \in Nat
            BY <2>4, <4>6
          <6> HIDE DEF N, V
          <6> QED BY <2>2, <4>1, <4>2, <5>1, <6>1
        <5>4. Grow(Kept(u, V + 1), c[i], r) = Kept(Grow(u, c[i], r), V + 1)
          <6> HIDE DEF V
          <6> QED BY <2>2, <3>3, <5>1, <5>3, NextRival
        <5> QED BY <3>1, <4>4, <5>2, <5>4 DEF u
      <4> QED BY <4>5, <4>6
    <3> QED BY <3>2, <3>3
  <2>11. Grow(z, e, r) = Kept(z, V + 1)
    <3>1. Right(Len(c)) /\ f[Len(c)] = z /\ SetsUpTo(c, r, Len(c)) # {}
      BY <1>2, <2>1, <2>7, UpToSteps
    <3>2. z.version = V + N(Len(c)) /\ N(Len(c)) \in Nat /\ N(Len(c)) >= 1
      BY <2>4, <3>1
    <3>3. e.version # z.version + 1
      <4>1. e.version = V + 1
        OBVIOUS
      <4> HIDE DEF N, V
      <4> QED BY <2>2, <3>2, <4>1
    <3>4. Grow(z, e, r) = Kept(z, e.version)
      BY <3>3, GrowParts
    <3> QED BY <3>4
  <2> QED BY <2>9, <2>10, <2>11 DEF Makes
<1> QED BY <1>1, <1>2

-----------------------------------------------------------------------------
(* What one edit does to where a node is, and to what it will be.           *)

LEMMA MeetSwap ==
    ASSUME NEW R, NEW c, NEW Q, NEW d, NEW r, MeetAt(R, c, Q, d, r)
    PROVE  MeetAt(Q, d, R, c, r)
  BY DEF MeetAt, Agree

LEMMA AppendRemoves ==
    ASSUME NEW d, NEW e, NEW m, Longer(m, d, e), NEW r
    PROVE  /\ IsRemove(e, r) => RemovesIn(m, r) = RemovesIn(d, r) \cup {Len(d) + 1}
           /\ ~IsRemove(e, r) => RemovesIn(m, r) = RemovesIn(d, r)
<1>1. /\ Len(m) = Len(d) + 1 /\ Len(d) \in Nat
      /\ m[Len(d) + 1] = e /\ \A i \in 1..Len(d) : m[i] = d[i]
  BY DEF Longer
<1> QED BY <1>1 DEF RemovesIn

LEMMA TailRemoves ==
    ASSUME NEW c, NEW t, Shorter(t, c), NEW r
    PROVE  /\ \A i \in RemovesIn(t, r) : i + 1 \in RemovesIn(c, r) /\ i \in Nat
           /\ \A j \in RemovesIn(c, r) \ {1} : j - 1 \in RemovesIn(t, r)
           /\ 1 \in RemovesIn(c, r) <=> IsRemove(c[1], r)
<1>1. /\ Len(t) + 1 = Len(c) /\ Len(t) \in Nat /\ Len(c) \in Nat
      /\ \A i \in 1..Len(t) : t[i] = c[i + 1]
  BY DEF Shorter
<1> QED BY <1>1 DEF RemovesIn

LEMMA LivesSame ==
    ASSUME NEW R, NEW c, NEW Q, NEW d, NEW r, NEW N, r \in DOMAIN N <=> r \in DOMAIN R
    PROVE  /\ Lives(R, c, Q, d, r) => Lives(N, c, Q, d, r)
           /\ Lives(Q, d, R, c, r) => Lives(Q, d, N, c, r)
  BY DEF Lives

LEMMA LivesAppend ==
    ASSUME NEW R, NEW c, NEW Q, NEW d, NEW r, NEW e, ~IsNew(e, r), ~IsRemove(e, r),
           NEW m, Longer(m, d, e)
    PROVE  /\ Lives(R, c, Q, d, r) => Lives(R, c, Q, m, r)
           /\ Lives(Q, d, R, c, r) => Lives(Q, m, R, c, r)
<1>1. NewsIn(m, r) = NewsIn(d, r)
  BY AppendCounts
<1>2. RemovesIn(m, r) = RemovesIn(d, r)
  BY AppendRemoves
<1> QED BY <1>1, <1>2 DEF Lives

LEMMA LivesTail ==
    ASSUME NEW R, NEW c, NEW Q, NEW d, NEW r, NEW t, Shorter(t, c),
           ~IsNew(c[1], r), ~IsRemove(c[1], r)
    PROVE  /\ Lives(R, c, Q, d, r) => Lives(R, t, Q, d, r)
           /\ Lives(Q, d, R, c, r) => Lives(Q, d, R, t, r)
<1>1. /\ \A i : i \in NewsIn(t, r) => i + 1 \in NewsIn(c, r)
      /\ \A j : j \in NewsIn(c, r) \ {1} => j - 1 \in NewsIn(t, r)
      /\ 1 \notin NewsIn(c, r)
  BY TailCounts
<1>2. /\ \A i \in RemovesIn(t, r) : i + 1 \in RemovesIn(c, r) /\ i \in Nat
      /\ \A j \in RemovesIn(c, r) : j - 1 \in RemovesIn(t, r)
  BY TailRemoves
<1>3. /\ NewsIn(t, r) = {} <=> NewsIn(c, r) = {}
      /\ RemovesIn(t, r) = {} <=> RemovesIn(c, r) = {}
  BY <1>1, <1>2
<1>4. NewsIn(t, r) \subseteq Int
  BY DEF NewsIn, Shorter
<1>5. ASSUME Lives(R, c, Q, d, r)
      PROVE  Lives(R, t, Q, d, r)
  <2>1. ASSUME NEW i \in NewsIn(t, r)
        PROVE  /\ RemovesIn(d, r) = {}
               /\ r \in DOMAIN Q \/ RemovesIn(t, r) # {}
               /\ \A j \in RemovesIn(t, r) : i < j
    <3>1. i + 1 \in NewsIn(c, r)
      BY <1>1
    <3>2. /\ RemovesIn(d, r) = {}
          /\ r \in DOMAIN Q \/ RemovesIn(c, r) # {}
          /\ \A j \in RemovesIn(c, r) : i + 1 < j
      BY <1>5, <3>1 DEF Lives
    <3>3. ASSUME NEW j \in RemovesIn(t, r)
          PROVE  i < j
      <4>1. i + 1 < j + 1 /\ i \in Int /\ j \in Nat
        BY <1>2, <1>4, <3>2
      <4> QED BY <4>1
    <3> QED BY <1>3, <3>2, <3>3
  <2> QED BY <1>3, <1>5, <2>1 DEF Lives
<1>6. Lives(Q, d, R, c, r) => Lives(Q, d, R, t, r)
  BY <1>3 DEF Lives
<1> QED BY <1>5, <1>6

(* A node that an edit is not about.                                        *)
Apart(e, r) == ~IsNew(e, r) /\ ~IsSet(e, r) /\ ~IsRemove(e, r)

LEMMA MeetSame ==
    ASSUME NEW R, NEW c, NEW Q, NEW d, NEW r, NEW N,
           r \in DOMAIN R <=> r \in DOMAIN N, r \in DOMAIN R => R[r] = N[r],
           MeetAt(R, c, Q, d, r)
    PROVE  MeetAt(N, c, Q, d, r)
<1>1. Lives(N, c, Q, d, r) /\ Lives(Q, d, N, c, r)
  BY LivesSame DEF MeetAt
<1>2. CoreIn(N, r) = CoreIn(R, r) /\ (Knows(N, c, r) <=> Knows(R, c, r))
  BY DEF CoreIn, Knows
<1> QED BY <1>1, <1>2 DEF MeetAt, Agree

LEMMA MeetAppend ==
    ASSUME NEW R, NEW c, NEW Q, NEW d, NEW r, NEW e, Apart(e, r), NEW m, Longer(m, d, e),
           MeetAt(R, c, Q, d, r)
    PROVE  MeetAt(R, c, Q, m, r)
<1>1. ~IsNew(e, r) /\ ~IsSet(e, r) /\ ~IsRemove(e, r)
  BY DEF Apart
<1>2. Lives(R, c, Q, m, r) /\ Lives(Q, m, R, c, r)
  BY <1>1, LivesAppend DEF MeetAt
<1>3. Knows(Q, m, r) <=> Knows(Q, d, r)
  <2>1. NewsIn(m, r) = NewsIn(d, r)
    BY <1>1, AppendCounts
  <2> QED BY <2>1 DEF Knows
<1>4. ASSUME NEW b, NEW z, Makes(d, r, b, z)
      PROVE  Makes(m, r, b, z)
  <2>1. Makes(m, r, b, Grow(z, e, r))
    BY <1>4, MakesAppend
  <2>2. Grow(z, e, r) = z
    BY <1>1, GrowOther
  <2> QED BY <2>1, <2>2
<1> QED BY <1>2, <1>3, <1>4 DEF MeetAt, Agree

LEMMA MeetTail ==
    ASSUME NEW R, NEW c, NEW Q, NEW d, NEW r, NEW t, Shorter(t, c), Apart(c[1], r),
           MeetAt(R, c, Q, d, r)
    PROVE  MeetAt(R, t, Q, d, r)
<1>1. ~IsNew(c[1], r) /\ ~IsSet(c[1], r) /\ ~IsRemove(c[1], r)
  BY DEF Apart
<1>2. Lives(R, t, Q, d, r) /\ Lives(Q, d, R, t, r)
  BY <1>1, LivesTail DEF MeetAt
<1>3. Knows(R, t, r) <=> Knows(R, c, r)
  <2>1. /\ \A i : i \in NewsIn(t, r) => i + 1 \in NewsIn(c, r)
        /\ \A j : j \in NewsIn(c, r) => j - 1 \in NewsIn(t, r)
    BY <1>1, TailCounts
  <2> QED BY <2>1 DEF Knows
<1>4. ASSUME NEW b, NEW z, Makes(c, r, b, z)
      PROVE  Makes(t, r, b, z)
  <2>1. Makes(t, r, Grow(b, c[1], r), z)
    BY <1>4, MakesTail
  <2>2. Grow(b, c[1], r) = b
    BY <1>1, GrowOther
  <2> QED BY <2>1, <2>2
<1> QED BY <1>2, <1>3, <1>4 DEF MeetAt, Agree

LEMMA OwnRemove ==
    ASSUME NEW p, NEW R, NEW c, NEW q, NEW Q, NEW d, NEW au, Pair(p, R, c, q, Q, d, au),
           NEW x, NewsIn(c, x) = {}, NEW m, Longer(m, d, RemoveEdit(x))
    PROVE  Pair(p, Without(R, x), c, q, Q, m, au)
<1> DEFINE N == Without(R, x)
           e == RemoveEdit(x)
<1>1. Counts(p, N, c, q, Q, m, au)
  BY OwnRemoveCounts DEF Pair
<1>2. ASSUME NEW r \in Rids, r # x
      PROVE  MeetAt(N, c, Q, m, r)
  <2>1. MeetAt(R, c, Q, d, r)
    BY DEF Pair, Meet
  <2>2. Apart(e, r)
    BY <1>2 DEF Apart, IsNew, IsSet, IsRemove, RemoveEdit
  <2>3. MeetAt(R, c, Q, m, r)
    <3> HIDE DEF e
    <3>1. Longer(m, d, e)
      BY DEF e
    <3> QED BY <2>1, <2>2, <3>1, MeetAppend
  <2>4. (r \in DOMAIN R <=> r \in DOMAIN N) /\ (r \in DOMAIN R => R[r] = N[r])
    BY <1>2 DEF Without
  <2> HIDE DEF N, e
  <2> QED BY <2>3, <2>4, MeetSame
<1>3. ASSUME x \in Rids
      PROVE  MeetAt(N, c, Q, m, x)
  <2>1. x \notin DOMAIN N
    BY DEF Without
  <2>2. IsRemove(e, x) /\ ~IsNew(e, x)
    BY DEF IsRemove, IsNew, RemoveEdit
  <2> HIDE DEF N, e
  <2>3. Longer(m, d, e) /\ Len(d) \in Nat
    BY DEF e, Longer
  <2>4. RemovesIn(m, x) = RemovesIn(d, x) \cup {Len(d) + 1} /\ NewsIn(m, x) = NewsIn(d, x)
    <3>1. NewsIn(m, x) = NewsIn(d, x)
      BY <2>2, <2>3, AppendCounts
    <3> QED BY <2>2, <2>3, <3>1, AppendRemoves
  <2>5. Lives(R, c, Q, d, x) /\ Lives(Q, d, R, c, x)
    BY <1>3 DEF Pair, Meet, MeetAt
  <2>6. Lives(N, c, Q, m, x)
    BY <2>1, <2>5 DEF Lives
  <2>7. Lives(Q, m, N, c, x)
    <3>1. \A i \in NewsIn(d, x) : i < Len(d) + 1
      BY <2>3 DEF NewsIn
    <3> QED BY <2>1, <2>4, <2>5, <3>1 DEF Lives
  <2>8. Agree(N, c, Q, m, x)
    BY <2>1 DEF Agree, Knows
  <2> QED BY <2>6, <2>7, <2>8 DEF MeetAt
<1> HIDE DEF N
<1>5. Meet(N, c, Q, m)
  <2> SUFFICES ASSUME NEW r \in Rids PROVE MeetAt(N, c, Q, m, r)
    BY DEF Meet
  <2>1. CASE r = x
    BY <1>3, <2>1
  <2>2. CASE r # x
    BY <1>2, <2>2
  <2> QED BY <2>1, <2>2
<1> QED BY <1>1, <1>5 DEF Pair, N

(* The values of a record are of versions that it has reached.              *)
Reached(o) ==
    o.version \in Nat /\ \A w \in ToSet(o.versions) : w.v \in Nat /\ w.v <= o.version

LEMMA CoreParts ==
    ASSUME NEW o
    PROVE  /\ Core(o).version = o.version /\ Core(o).values = ToSet(o.versions)
           /\ Reached(o) => IsCore(Core(o)) /\ \A w \in Core(o).values : w.v <= Core(o).version
<1> DEFINE S == ToSet(o.versions)
           v == o.version
           z == Core(o)
<1>1. z = [version |-> v, values |-> S]
  BY DEF Core
<1>2. Reached(o) => v \in Nat /\ \A w \in S : w.v \in Nat /\ w.v <= v
  BY DEF Reached
<1> HIDE DEF S, v, z
<1>3. z.version = v /\ z.values = S
  BY <1>1
<1>4. Reached(o) => IsCore(z) /\ \A w \in z.values : w.v <= z.version
  BY <1>1, <1>2, <1>3 DEF IsCore
<1> QED BY <1>3, <1>4 DEF S, v, z

LEMMA OwnSet ==
    ASSUME NEW p, NEW R, NEW c, NEW q, NEW Q, NEW d, NEW au, Pair(p, R, c, q, Q, d, au),
           Len(c) \in Nat,
           NEW x \in DOMAIN R, p \in au[x], NEW e, NEW y, SetInOrder(e, x, R[x], y),
           Reached(R[x]), VersionIn(Q, x) \in Nat, VersionsIn(c, x),
           NEW m, Longer(m, d, e)
    PROVE  Pair(p, With(R, x, y), c, q, Q, m, au)
<1> DEFINE N == With(R, x, y)
<1>1. Counts(p, N, c, q, Q, m, au)
  <2>1. Counts(p, R, c, q, Q, d, au)
    BY DEF Pair
  <2> QED BY <2>1, OwnSetCounts
<1>2. IsSet(e, x) /\ ~IsNew(e, x) /\ ~IsRemove(e, x)
  BY DEF SetInOrder, Counted, IsNew, IsSet, IsRemove
<1>3. ASSUME NEW r \in Rids, r # x
      PROVE  MeetAt(N, c, Q, m, r)
  <2>1. MeetAt(R, c, Q, d, r)
    BY DEF Pair, Meet
  <2>2. Apart(e, r)
    BY <1>2, <1>3 DEF Apart, IsNew, IsSet, IsRemove
  <2>3. MeetAt(R, c, Q, m, r)
    BY <2>1, <2>2, MeetAppend
  <2>4. (r \in DOMAIN R <=> r \in DOMAIN N) /\ (r \in DOMAIN R => R[r] = N[r])
    BY <1>3 DEF With
  <2> HIDE DEF N
  <2> QED BY <2>3, <2>4, MeetSame
<1>4. ASSUME x \in Rids
      PROVE  MeetAt(N, c, Q, m, x)
  <2>1. (x \in DOMAIN N <=> x \in DOMAIN R) /\ x \in DOMAIN N /\ N[x] = y
    BY DEF With
  <2> HIDE DEF N
  <2>2. MeetAt(R, c, Q, d, x)
    BY <1>4 DEF Pair, Meet
  <2>3. Lives(N, c, Q, m, x) /\ Lives(Q, m, N, c, x)
    <3>1. Lives(R, c, Q, m, x) /\ Lives(Q, m, R, c, x)
      BY <1>2, <2>2, LivesAppend DEF MeetAt
    <3> QED BY <2>1, <3>1, LivesSame
  <2>4. NewsIn(c, x) = {} /\ Knows(R, c, x)
    BY <1>4 DEF Pair, Counts, CountsAt, Half, NewOnce, Knows
  <2>5. Knows(Q, m, x) <=> Knows(Q, d, x)
    <3>1. NewsIn(m, x) = NewsIn(d, x)
      BY <1>2, AppendCounts
    <3> QED BY <3>1 DEF Knows
  <2>6. ASSUME NEW z, Makes(c, x, CoreIn(R, x), z)
        PROVE  Makes(c, x, CoreIn(N, x), Grow(z, e, x))
    <3> DEFINE b == Core(R[x])
    <3>1. CoreIn(R, x) = b /\ CoreIn(N, x) = Core(y)
      BY <2>1 DEF CoreIn
    <3>2. Core(y) = Grow(b, e, x) /\ e.version = R[x].version + 1
      BY DEF SetInOrder, Counted, Becomes
    <3>3. IsCore(b) /\ (\A w \in b.values : w.v <= b.version) /\ b.version = R[x].version
      BY CoreParts
    <3>4. \A i \in SetsIn(c, x) :
            c[i].version \in Nat /\ c[i].version <= R[x].version + Cardinality(SetsUpTo(c, x, i))
      <4>1. InStep(p, R, c, x, au) /\ VersionIn(R, x) = R[x].version
        BY <1>4 DEF Pair, Counts, CountsAt, Half, VersionIn
      <4> QED BY <2>4, <4>1 DEF InStep, VersionsIn
    <3> HIDE DEF b
    <3>5. e.version = b.version + 1
      BY <3>2, <3>3
    <3>6. \A i \in SetsIn(c, x) :
            c[i].version \in Nat /\ c[i].version <= b.version + Cardinality(SetsUpTo(c, x, i))
      BY <3>3, <3>4
    <3>7. Makes(c, x, b, z)
      BY <2>6, <3>1
    <3>8. Makes(c, x, Grow(b, e, x), Grow(z, e, x))
      BY <1>2, <2>4, <3>3, <3>5, <3>6, <3>7, MakesBoth
    <3> QED BY <3>1, <3>2, <3>8
  <2>7. Agree(N, c, Q, m, x)
    <3> SUFFICES ASSUME Knows(Q, m, x)
                 PROVE  \E z : Makes(c, x, CoreIn(N, x), z) /\ Makes(m, x, CoreIn(Q, x), z)
      BY DEF Agree
    <3>1. PICK z : Makes(c, x, CoreIn(R, x), z) /\ Makes(d, x, CoreIn(Q, x), z)
      BY <2>2, <2>4, <2>5 DEF MeetAt, Agree
    <3>2. Makes(c, x, CoreIn(N, x), Grow(z, e, x))
      BY <2>6, <3>1
    <3>3. Makes(m, x, CoreIn(Q, x), Grow(z, e, x))
      BY <3>1, MakesAppend
    <3> QED BY <3>2, <3>3
  <2> QED BY <2>3, <2>7 DEF MeetAt
<1> HIDE DEF N
<1>5. Meet(N, c, Q, m)
  <2> SUFFICES ASSUME NEW r \in Rids PROVE MeetAt(N, c, Q, m, r)
    BY DEF Meet
  <2>1. CASE r = x
    BY <1>4, <2>1
  <2>2. CASE r # x
    BY <1>3, <2>2
  <2> QED BY <2>1, <2>2
<1> QED BY <1>1, <1>5 DEF Pair, N

LEMMA OwnNew ==
    ASSUME NEW p, NEW R, NEW c, NEW q, NEW Q, NEW d, NEW au, Pair(p, R, c, q, Q, d, au),
           Len(c) \in Nat,
           NEW x, Unknown(c, Q, d, x), NEW e, NEW y, NewlyMade(e, x, y),
           NEW m, Longer(m, d, e)
    PROVE  Pair(p, With(R, x, y), c, q, Q, m, au)
<1> DEFINE N == With(R, x, y)
<1>1. Counts(p, N, c, q, Q, m, au)
  <2>1. Counts(p, R, c, q, Q, d, au)
    BY DEF Pair
  <2> QED BY <2>1, OwnNewCounts
<1>2. IsNew(e, x) /\ ~IsSet(e, x) /\ ~IsRemove(e, x)
  BY DEF NewlyMade, IsNew, IsSet, IsRemove
<1>3. ASSUME NEW r \in Rids, r # x
      PROVE  MeetAt(N, c, Q, m, r)
  <2>1. MeetAt(R, c, Q, d, r)
    BY DEF Pair, Meet
  <2>2. Apart(e, r)
    BY <1>2, <1>3 DEF Apart, IsNew, IsSet, IsRemove
  <2>3. MeetAt(R, c, Q, m, r)
    BY <2>1, <2>2, MeetAppend
  <2>4. (r \in DOMAIN R <=> r \in DOMAIN N) /\ (r \in DOMAIN R => R[r] = N[r])
    BY <1>3 DEF With
  <2> HIDE DEF N
  <2> QED BY <2>3, <2>4, MeetSame
<1>4. MeetAt(N, c, Q, m, x)
  <2>1. x \in DOMAIN N /\ N[x] = y
    BY DEF With
  <2> HIDE DEF N
  <2>2. Len(d) \in Nat
    BY DEF Longer
  <2>3. NewsIn(m, x) = {Len(d) + 1} /\ RemovesIn(m, x) = {}
    <3>1. NewsIn(m, x) = NewsIn(d, x) \cup {Len(d) + 1}
      BY <1>2, AppendCounts
    <3>2. RemovesIn(m, x) = RemovesIn(d, x)
      BY <1>2, AppendRemoves
    <3> QED BY <3>1, <3>2 DEF Unknown
  <2>4. Lives(N, c, Q, m, x) /\ Lives(Q, m, N, c, x)
    BY <2>1, <2>3 DEF Lives, Unknown
  <2>5. Agree(N, c, Q, m, x)
    <3>1. CoreIn(N, x) = Core(y) /\ CoreIn(Q, x) = Nothing
      BY <2>1 DEF CoreIn, Unknown
    <3>2. Core(y) = Grow(Nothing, e, x)
      BY DEF NewlyMade, Becomes
    <3>3. Makes(c, x, Core(y), Core(y)) /\ Makes(d, x, Nothing, Nothing)
      BY <2>2, MakesNothing DEF Unknown
    <3>4. Makes(m, x, Nothing, Core(y))
      BY <3>2, <3>3, MakesAppend
    <3> QED BY <3>1, <3>3, <3>4 DEF Agree
  <2> QED BY <2>4, <2>5 DEF MeetAt
<1> HIDE DEF N
<1>5. Meet(N, c, Q, m)
  <2> SUFFICES ASSUME NEW r \in Rids PROVE MeetAt(N, c, Q, m, r)
    BY DEF Meet
  <2>1. CASE r = x
    BY <1>4, <2>1
  <2>2. CASE r # x
    BY <1>3, <2>2
  <2> QED BY <2>1, <2>2
<1> QED BY <1>1, <1>5 DEF Pair, N

(* Everything but the node x is as it was, and the edit was about x.        *)
LEMMA GetApart ==
    ASSUME NEW R, NEW c, NEW Q, NEW d, NEW x, NEW N, NEW t, Shorter(t, c),
           \A r \in Rids : r # x => Apart(c[1], r),
           \A r \in Rids : r # x =>
             (r \in DOMAIN R <=> r \in DOMAIN N) /\ (r \in DOMAIN R => R[r] = N[r]),
           Meet(R, c, Q, d),
           x \in Rids => MeetAt(N, t, Q, d, x)
    PROVE  Meet(N, t, Q, d)
<1> SUFFICES ASSUME NEW r \in Rids PROVE MeetAt(N, t, Q, d, r)
  BY DEF Meet
<1>1. CASE r = x
  BY <1>1
<1>2. CASE r # x
  <2>1. MeetAt(R, c, Q, d, r) /\ Apart(c[1], r)
    BY <1>2 DEF Meet
  <2>2. MeetAt(R, t, Q, d, r)
    BY <2>1, MeetTail
  <2>3. (r \in DOMAIN R <=> r \in DOMAIN N) /\ (r \in DOMAIN R => R[r] = N[r])
    BY <1>2
  <2> QED BY <2>2, <2>3, MeetSame
<1> QED BY <1>1, <1>2

(* A removal is handled: the node is not there any more, if it ever was.    *)
LEMMA RemovedMeet ==
    ASSUME NEW R, NEW c, NEW Q, NEW d, NEW x, IsRemove(c[1], x), NEW t, Shorter(t, c),
           NEW N, x \notin DOMAIN N,
           \A r \in Rids : r # x =>
             (r \in DOMAIN R <=> r \in DOMAIN N) /\ (r \in DOMAIN R => R[r] = N[r]),
           Meet(R, c, Q, d)
    PROVE  Meet(N, t, Q, d)
<1>1. \A r \in Rids : r # x => Apart(c[1], r)
  BY DEF Apart, IsNew, IsSet, IsRemove
<1>2. ASSUME x \in Rids
      PROVE  MeetAt(N, t, Q, d, x)
  <2>1. Lives(R, c, Q, d, x) /\ Lives(Q, d, R, c, x)
    BY <1>2 DEF Meet, MeetAt
  <2>2. 1 \in RemovesIn(c, x)
    BY TailRemoves
  <2>3. x \notin DOMAIN Q /\ NewsIn(d, x) = {}
    BY <2>1, <2>2 DEF Lives
  <2>4. NewsIn(c, x) = {}
    <3>1. \A i \in NewsIn(c, x) : i < 1 /\ i \in 1..Len(c)
      BY <2>1, <2>2 DEF Lives, NewsIn
    <3> QED BY <3>1 DEF Shorter
  <2>5. NewsIn(t, x) = {}
    BY <2>4, TailNews
  <2>6. Lives(N, t, Q, d, x) /\ Lives(Q, d, N, t, x)
    BY <2>3, <2>5 DEF Lives
  <2>7. Agree(N, t, Q, d, x)
    BY <2>5 DEF Agree, Knows
  <2> QED BY <2>6, <2>7 DEF MeetAt
<1> QED BY <1>1, <1>2, GetApart

LEMMA GetRemove ==
    ASSUME NEW p, NEW R, NEW c, NEW q, NEW Q, NEW d, NEW au, Pair(p, R, c, q, Q, d, au),
           NEW x, IsRemove(c[1], x), NEW t, Shorter(t, c)
    PROVE  /\ Pair(p, Without(R, x), t, q, Q, d, au)
           /\ x \notin DOMAIN R => Pair(p, R, t, q, Q, d, au)
<1> DEFINE N == Without(R, x)
<1>1. Counts(p, N, t, q, Q, d, au) /\ Counts(p, R, t, q, Q, d, au)
  <2>1. Counts(p, R, c, q, Q, d, au) /\ c[1].op = "remove"
    BY DEF Pair, IsRemove
  <2> QED BY <2>1, GetRemoveCounts
<1>2. Meet(R, c, Q, d)
  BY DEF Pair
<1>3. Meet(N, t, Q, d)
  <2>1. x \notin DOMAIN N
    BY DEF Without
  <2>2. \A r \in Rids : r # x =>
          (r \in DOMAIN R <=> r \in DOMAIN N) /\ (r \in DOMAIN R => R[r] = N[r])
    BY DEF Without
  <2> HIDE DEF N
  <2> QED BY <1>2, <2>1, <2>2, RemovedMeet
<1>4. x \notin DOMAIN R => Meet(R, t, Q, d)
  BY <1>2, RemovedMeet
<1> HIDE DEF N
<1> QED BY <1>1, <1>3, <1>4 DEF Pair, N

LEMMA GetNew ==
    ASSUME NEW p, NEW R, NEW c, NEW q, NEW Q, NEW d, NEW au, Pair(p, R, c, q, Q, d, au),
           NEW x \in Rids, NEW y, NewlyMade(c[1], x, y), NEW t, Shorter(t, c)
    PROVE  x \notin DOMAIN R /\ Pair(p, With(R, x, y), t, q, Q, d, au)
<1> DEFINE N == With(R, x, y)
<1>1. Counts(p, R, c, q, Q, d, au) /\ Meet(R, c, Q, d)
  BY DEF Pair
<1>2. x \notin DOMAIN R /\ Counts(p, N, t, q, Q, d, au)
  BY <1>1, GetNewCounts
<1>3. IsNew(c[1], x) /\ ~IsSet(c[1], x) /\ ~IsRemove(c[1], x)
  BY DEF NewlyMade, IsNew, IsSet, IsRemove
<1>4. \A r \in Rids : r # x => Apart(c[1], r)
  BY <1>3 DEF Apart, IsNew, IsSet, IsRemove
<1>5. x \in DOMAIN N /\ N[x] = y
  BY DEF With
<1>6. \A r \in Rids : r # x =>
        (r \in DOMAIN R <=> r \in DOMAIN N) /\ (r \in DOMAIN R => R[r] = N[r])
  BY DEF With
<1> HIDE DEF N
<1>7. MeetAt(N, t, Q, d, x)
  <2>1. Lives(R, c, Q, d, x) /\ Lives(Q, d, R, c, x) /\ Agree(R, c, Q, d, x)
    BY <1>1 DEF Meet, MeetAt
  <2>2. 1 \in NewsIn(c, x)
    BY <1>3, TailCounts
  <2>3. NewsIn(c, x) = {1} /\ NewsIn(d, x) = {}
    BY <1>1, <2>2 DEF Counts, CountsAt, Half, NewOnce
  <2>4. NewsIn(t, x) = {}
    BY <2>3, TailNews
  <2>5. RemovesIn(d, x) = {} /\ (x \in DOMAIN Q \/ RemovesIn(c, x) # {})
    BY <2>1, <2>2 DEF Lives
  <2>6. RemovesIn(t, x) = {} <=> RemovesIn(c, x) = {}
    <3>1. /\ \A i \in RemovesIn(t, x) : i + 1 \in RemovesIn(c, x)
          /\ \A j \in RemovesIn(c, x) : j - 1 \in RemovesIn(t, x)
      BY <1>3, TailRemoves
    <3> QED BY <3>1
  <2>7. Lives(N, t, Q, d, x) /\ Lives(Q, d, N, t, x)
    BY <1>5, <2>1, <2>3, <2>4, <2>5, <2>6 DEF Lives
  <2>8. Agree(N, t, Q, d, x)
    <3> SUFFICES ASSUME Knows(Q, d, x)
                 PROVE  \E z : Makes(t, x, CoreIn(N, x), z) /\ Makes(d, x, CoreIn(Q, x), z)
      BY DEF Agree
    <3>1. PICK z : Makes(c, x, CoreIn(R, x), z) /\ Makes(d, x, CoreIn(Q, x), z)
      BY <2>1, <2>2 DEF Agree, Knows
    <3>2. CoreIn(R, x) = Nothing /\ CoreIn(N, x) = Core(y)
      BY <1>2, <1>5 DEF CoreIn
    <3>3. Core(y) = Grow(Nothing, c[1], x)
      BY DEF NewlyMade, Becomes
    <3>4. Makes(t, x, Grow(Nothing, c[1], x), z)
      BY <3>1, <3>2, MakesTail
    <3> QED BY <3>1, <3>2, <3>3, <3>4
  <2> QED BY <2>7, <2>8 DEF MeetAt
<1>8. Meet(N, t, Q, d)
  BY <1>1, <1>4, <1>6, <1>7, GetApart
<1> QED BY <1>2, <1>8 DEF Pair, N

(* A set-edit of a node that is not there is lost, and so are all the       *)
(* others.                                                                  *)
LEMMA GetLostSet ==
    ASSUME NEW p, NEW R, NEW c, NEW q, NEW Q, NEW d, NEW au, Pair(p, R, c, q, Q, d, au),
           NEW x \in Rids, IsSet(c[1], x), x \notin DOMAIN R, NEW t, Shorter(t, c)
    PROVE  Pair(p, R, t, q, Q, d, au)
<1>1. Counts(p, R, c, q, Q, d, au) /\ Meet(R, c, Q, d)
  BY DEF Pair
<1>2. Counts(p, R, t, q, Q, d, au)
  BY <1>1, GetLostSetCounts
<1>3. ~IsNew(c[1], x) /\ ~IsRemove(c[1], x)
  BY DEF IsNew, IsSet, IsRemove
<1>4. \A r \in Rids : r # x => Apart(c[1], r)
  BY DEF Apart, IsNew, IsSet, IsRemove
<1>5. MeetAt(R, t, Q, d, x)
  <2>1. Lives(R, t, Q, d, x) /\ Lives(Q, d, R, t, x)
    BY <1>1, <1>3, LivesTail DEF Meet, MeetAt
  <2>2. 1 \in SetsIn(c, x)
    BY HeadCounts
  <2>3. NewsIn(c, x) = {}
    <3>1. \A i \in NewsIn(c, x) : i < 1 /\ i \in 1..Len(c)
      BY <1>1, <2>2 DEF Counts, CountsAt, Half, NewOnce, NewsIn
    <3> QED BY <3>1 DEF Shorter
  <2>4. NewsIn(t, x) = {}
    BY <2>3, TailNews
  <2>5. Agree(R, t, Q, d, x)
    BY <2>4 DEF Agree, Knows
  <2> QED BY <2>1, <2>5 DEF MeetAt
<1>6. Meet(R, t, Q, d)
  BY <1>1, <1>4, <1>5, GetApart
<1> QED BY <1>2, <1>6 DEF Pair

LEMMA GetSet ==
    ASSUME NEW p, NEW R, NEW c, NEW q, NEW Q, NEW d, NEW au, Pair(p, R, c, q, Q, d, au),
           NEW x \in Rids, x \in DOMAIN R, NEW y, Taken(c[1], x, R[x], y),
           NEW t, Shorter(t, c), VersionsIn(c, x)
    PROVE  Pair(p, With(R, x, y), t, q, Q, d, au)
<1> DEFINE N == With(R, x, y)
<1>1. Counts(p, R, c, q, Q, d, au) /\ Meet(R, c, Q, d)
  BY DEF Pair
<1>2. Counts(p, N, t, q, Q, d, au)
  BY <1>1, GetSetCounts
<1>3. IsSet(c[1], x) /\ ~IsNew(c[1], x) /\ ~IsRemove(c[1], x)
  BY DEF Taken, Counted, IsNew, IsSet, IsRemove
<1>4. \A r \in Rids : r # x => Apart(c[1], r)
  BY <1>3 DEF Apart, IsNew, IsSet, IsRemove
<1>5. x \in DOMAIN N /\ N[x] = y
  BY DEF With
<1>6. \A r \in Rids : r # x =>
        (r \in DOMAIN R <=> r \in DOMAIN N) /\ (r \in DOMAIN R => R[r] = N[r])
  BY DEF With
<1> HIDE DEF N
<1>7. MeetAt(N, t, Q, d, x)
  <2>1. Lives(N, t, Q, d, x) /\ Lives(Q, d, N, t, x)
    <3>1. Lives(R, t, Q, d, x) /\ Lives(Q, d, R, t, x)
      BY <1>1, <1>3, LivesTail DEF Meet, MeetAt
    <3>2. x \in DOMAIN N <=> x \in DOMAIN R
      BY <1>5
    <3> QED BY <3>1, <3>2, LivesSame
  <2>2. Agree(N, t, Q, d, x)
    <3> SUFFICES ASSUME Knows(Q, d, x)
                 PROVE  \E z : Makes(t, x, CoreIn(N, x), z) /\ Makes(d, x, CoreIn(Q, x), z)
      BY DEF Agree
    <3>1. PICK z : Makes(c, x, CoreIn(R, x), z) /\ Makes(d, x, CoreIn(Q, x), z)
      <4>1. Agree(R, c, Q, d, x) /\ Knows(R, c, x)
        BY <1>1 DEF Meet, MeetAt, Knows
      <4> QED BY <4>1 DEF Agree
    <3>2. CoreIn(R, x) = Core(R[x]) /\ CoreIn(N, x) = Core(y)
      BY <1>5 DEF CoreIn
    <3>3. Core(y) = Grow(Core(R[x]), c[1], x)
      BY DEF Taken, Counted, Becomes
    <3>4. Makes(t, x, Grow(Core(R[x]), c[1], x), z)
      BY <3>1, <3>2, MakesTail
    <3> QED BY <3>1, <3>2, <3>3, <3>4
  <2> QED BY <2>1, <2>2 DEF MeetAt
<1>8. Meet(N, t, Q, d)
  BY <1>1, <1>4, <1>6, <1>7, GetApart
<1> QED BY <1>2, <1>8 DEF Pair, N

LEMMA PairSwap ==
    ASSUME NEW p, NEW R, NEW c, NEW q, NEW Q, NEW d, NEW au, Pair(p, R, c, q, Q, d, au)
    PROVE  Pair(q, Q, d, p, R, c, au)
<1>1. Counts(q, Q, d, p, R, c, au)
  BY CountsSwap DEF Pair
<1>2. Meet(Q, d, R, c)
  BY MeetSwap DEF Pair, Meet
<1> QED BY <1>1, <1>2 DEF Pair

LEMMA MoreAuthors ==
    ASSUME NEW p, NEW R, NEW c, NEW q, NEW Q, NEW d, NEW au, NEW bu,
           Pair(p, R, c, q, Q, d, au), \A r \in Rids : au[r] \subseteq bu[r]
    PROVE  Pair(p, R, c, q, Q, d, bu)
<1>1. Counts(p, R, c, q, Q, d, au) /\ Meet(R, c, Q, d)
  BY DEF Pair
<1>2. Counts(p, R, c, q, Q, d, bu)
  BY <1>1, MoreAuthorsCounts
<1> QED BY <1>1, <1>2 DEF Pair

-----------------------------------------------------------------------------
(* Records.                                                                 *)

LEMMA ChangedVals ==
    ASSUME NEW k, NEW r, NEW old \in Vals(k, r), NEW ch \in Changes(k, r)
    PROVE  LET new == [f \in DOMAIN old |-> IF f \in DOMAIN ch THEN ch[f] ELSE old[f]]
           IN /\ new \in Vals(k, r)
              /\ k[r] = 0 => new.parent = old.parent /\ new.weight = old.weight
              /\ new.parent = IF "parent" \in DOMAIN ch THEN ch.parent ELSE old.parent
<1> DEFINE new == [f \in DOMAIN old |-> IF f \in DOMAIN ch THEN ch[f] ELSE old[f]]
           P == Places(k, r)
<1>1. /\ DOMAIN old = {"parent", "weight", "data"}
      /\ old.parent \in P /\ old.weight \in Int /\ old.data \in Data
  BY DEF Vals
<1>2. /\ "parent" \in DOMAIN ch => ch.parent \in P /\ k[r] # 0
      /\ "weight" \in DOMAIN ch => ch.weight \in Int /\ k[r] # 0
      /\ "data" \in DOMAIN ch => ch.data \in Data
  <2>1. CASE k[r] = 0
    BY <2>1 DEF Changes
  <2>2. CASE k[r] # 0
    BY <2>2 DEF Changes
  <2> QED BY <2>1, <2>2
<1>3. new = [f \in {"parent", "weight", "data"} |-> new[f]]
  BY <1>1
<1>4. /\ new.parent = IF "parent" \in DOMAIN ch THEN ch.parent ELSE old.parent
      /\ new.weight = IF "weight" \in DOMAIN ch THEN ch.weight ELSE old.weight
      /\ new.data = IF "data" \in DOMAIN ch THEN ch.data ELSE old.data
  BY <1>1
<1> HIDE DEF new, P
<1>5. new.parent \in P /\ new.weight \in Int /\ new.data \in Data
  BY <1>1, <1>2, <1>4
<1>6. new \in [parent : P, weight : Int, data : Data]
  BY <1>3, <1>5
<1> QED BY <1>2, <1>4, <1>6 DEF new, P, Vals

LEMMA TrimPrefix ==
    ASSUME NEW S, NEW q \in Seq(S), Len(q) > 0, NEW newer
    PROVE  /\ TrimNewer(q, newer) \in Seq(S)
           /\ Len(TrimNewer(q, newer)) \in 1..Len(q)
           /\ \A i \in 1..Len(TrimNewer(q, newer)) : TrimNewer(q, newer)[i] = q[i]
           /\ Len(TrimNewer(q, newer)) = 1 \/ q[Len(TrimNewer(q, newer))] \notin newer
           /\ \A i \in (Len(TrimNewer(q, newer)) + 1)..Len(q) : q[i] \in newer
<1> DEFINE B == {m \in 1..Len(q) : \A i \in (m + 1)..Len(q) : q[i] \in newer}
           Keep(m) == /\ m = 1 \/ q[m] \notin newer
                      /\ \A i \in (m + 1)..Len(q) : q[i] \in newer
           keep == CHOOSE m \in 1..Len(q) : Keep(m)
<1>1. Len(q) \in B /\ B \in SUBSET Nat
  OBVIOUS
<1>2. PICK m \in B : \A j \in B : m <= j
  <2> HIDE DEF B
  <2> QED BY <1>1, Flattens!LeastOf
<1>3. m \in 1..Len(q) /\ \A i \in (m + 1)..Len(q) : q[i] \in newer
  BY <1>2
<1>4. m = 1 \/ q[m] \notin newer
  <2>1. SUFFICES ASSUME m # 1, q[m] \in newer PROVE FALSE
    OBVIOUS
  <2>2. m - 1 \in B
    BY <1>3, <2>1
  <2>3. m <= m - 1
    <3> HIDE DEF B
    <3> QED BY <1>2, <2>2
  <2> QED BY <1>3, <2>3
<1>5. keep \in 1..Len(q) /\ Keep(keep)
  BY <1>3, <1>4
<1>6. TrimNewer(q, newer) = SubSeq(q, 1, keep)
  BY DEF TrimNewer
<1> HIDE DEF keep
<1> DEFINE t == SubSeq(q, 1, keep)
<1>7. t \in Seq(S) /\ Len(t) = keep /\ \A i \in 1..keep : t[i] = q[i]
  BY <1>5
<1> HIDE DEF t
<1>8. /\ t \in Seq(S) /\ Len(t) \in 1..Len(q) /\ \A i \in 1..Len(t) : t[i] = q[i]
      /\ Len(t) = 1 \/ q[Len(t)] \notin newer
      /\ \A i \in (Len(t) + 1)..Len(q) : q[i] \in newer
  BY <1>5, <1>7
<1> QED BY <1>6, <1>8 DEF t

(* The values of a record have versions it has reached, and an attribute    *)
(* stays where it is.                                                       *)
History(k, r, vs, version) ==
    /\ vs \in Seq(Versions(k, r)) /\ Len(vs) > 0 /\ Ascending(vs)
    /\ \A i \in 1..Len(vs) :
         /\ vs[i].v <= version
         /\ k[r] = 0 => /\ vs[i].val.parent = vs[1].val.parent
                        /\ vs[i].val.weight = vs[1].val.weight
Log(k, es) == es \in Seq(Edits(k)) /\ Len(es) > 0 /\ es[1].op = "new"

LEMMA RecordParts ==
    ASSUME NEW k, NEW r, NEW x
    PROVE  RecordOK(k, r, x) <=>
             /\ x \in [type : {Kind(k, r)}, version : Nat, versions : Seq(Versions(k, r)),
                       edits : Seq(Edits(k))]
             /\ History(k, r, x.versions, x.version) /\ Log(k, x.edits)
  BY DEF RecordOK, History, Log

LEMMA ValIn ==
    ASSUME NEW k, NEW r, NEW vs, NEW version, History(k, r, vs, version)
    PROVE  /\ Last(vs).val \in Vals(k, r)
           /\ k[r] = 0 => /\ Last(vs).val.parent = vs[1].val.parent
                          /\ Last(vs).val.weight = vs[1].val.weight
<1>1. Len(vs) \in 1..Len(vs) /\ Last(vs) = vs[Len(vs)] /\ vs[Len(vs)] \in Versions(k, r)
  BY DEF History, Last
<1>2. Last(vs).val \in Vals(k, r)
  BY <1>1 DEF Versions
<1> QED BY <1>1, <1>2 DEF History

LEMMA TrimHistory ==
    ASSUME NEW k, NEW r, NEW vs, NEW version \in Nat, History(k, r, vs, version), NEW newer
    PROVE  /\ History(k, r, TrimNewer(vs, newer), version)
           /\ k[r] = 0 => /\ Last(TrimNewer(vs, newer)).val.parent = Last(vs).val.parent
                          /\ Last(TrimNewer(vs, newer)).val.weight = Last(vs).val.weight
<1> DEFINE t == TrimNewer(vs, newer)
<1>1. /\ t \in Seq(Versions(k, r)) /\ Len(t) \in 1..Len(vs)
      /\ \A i \in 1..Len(t) : t[i] = vs[i]
  BY TrimPrefix DEF History
<1> HIDE DEF t
<1>2. History(k, r, t, version) /\ t[1] = vs[1]
  <2>1. Len(vs) \in Nat /\ 1 \in 1..Len(t) /\ \A i \in 1..Len(t) : i \in 1..Len(vs)
    BY <1>1 DEF History
  <2>2. Ascending(t)
    <3>1. Ascending(vs)
      BY DEF History
    <3> QED BY <1>1, <2>1, <3>1 DEF Ascending
  <2> QED BY <1>1, <2>1, <2>2 DEF History
<1>3. k[r] = 0 => /\ Last(t).val.parent = Last(vs).val.parent
                  /\ Last(t).val.weight = Last(vs).val.weight
  <2>1. k[r] = 0 => /\ Last(t).val.parent = t[1].val.parent
                    /\ Last(t).val.weight = t[1].val.weight
    BY <1>2, ValIn
  <2>2. k[r] = 0 => /\ Last(vs).val.parent = vs[1].val.parent
                    /\ Last(vs).val.weight = vs[1].val.weight
    BY ValIn
  <2> QED BY <1>2, <2>1, <2>2
<1> QED BY <1>2, <1>3 DEF t

LEMMA LongerHistory ==
    ASSUME NEW k, NEW r, NEW vs, NEW version \in Nat, History(k, r, vs, version),
           NEW v \in Nat, v <= version, \A i \in 1..Len(vs) : vs[i].v < v, NEW new \in Vals(k, r),
           k[r] = 0 => /\ new.parent = Last(vs).val.parent
                       /\ new.weight = Last(vs).val.weight
    PROVE  LET t == Append(vs, [v |-> v, val |-> new])
           IN /\ History(k, r, t, version) /\ Len(t) = Len(vs) + 1
              /\ Last(t).val = new
<1> DEFINE w == [v |-> v, val |-> new]
           t == Append(vs, w)
<1>1. w \in Versions(k, r) /\ w.v = v /\ w.val = new
  BY DEF Versions
<1> HIDE DEF w
<1>2. /\ t \in Seq(Versions(k, r)) /\ Len(t) = Len(vs) + 1 /\ Len(vs) \in Nat /\ Len(vs) > 0
      /\ t[Len(t)] = w /\ \A i \in 1..Len(vs) : t[i] = vs[i]
  BY <1>1 DEF History
<1> HIDE DEF t
<1>3. k[r] = 0 => /\ new.parent = vs[1].val.parent
                  /\ new.weight = vs[1].val.weight
  BY ValIn
<1>4. History(k, r, t, version)
  <2>1. t[1] = vs[1]
    BY <1>2
  <2>2. ASSUME NEW i \in 1..Len(t)
        PROVE  /\ t[i].v <= version
               /\ k[r] = 0 => /\ t[i].val.parent = t[1].val.parent
                              /\ t[i].val.weight = t[1].val.weight
    <3>1. CASE i \in 1..Len(vs)
      BY <1>2, <2>1, <3>1 DEF History
    <3>2. CASE i = Len(t)
      <4>1. t[i] = w
        BY <1>2, <3>2
      <4> QED BY <1>1, <1>3, <2>1, <4>1
    <3> QED BY <1>2, <3>1, <3>2
  <2>3. Ascending(t)
    <3>1. Ascending(vs)
      BY DEF History
    <3>2. t[1].v = 0
      BY <2>1, <3>1 DEF Ascending
    <3>3. ASSUME NEW i \in 1..Len(t), NEW j \in 1..Len(t), i < j
          PROVE  t[i].v < t[j].v
      <4>1. i \in 1..Len(vs) /\ t[i] = vs[i] /\ (j \in 1..Len(vs) \/ j = Len(t))
        BY <1>2, <3>3
      <4>2. CASE j \in 1..Len(vs)
        BY <1>2, <3>1, <3>3, <4>1, <4>2 DEF Ascending
      <4>3. CASE j = Len(t)
        <5>1. t[j] = w
          BY <1>2, <4>3
        <5> QED BY <1>1, <4>1, <5>1
      <4> QED BY <4>1, <4>2, <4>3
    <3> QED BY <3>2, <3>3 DEF Ascending
  <2> QED BY <1>2, <2>2, <2>3 DEF History
<1>5. Last(t).val = new
  BY <1>1, <1>2 DEF Last
<1> QED BY <1>2, <1>4, <1>5 DEF t, w

(* What the values of a record are as a set.                                *)
LEMMA NewestIsLast ==
    ASSUME NEW k, NEW r, NEW vs, NEW version, History(k, r, vs, version)
    PROVE  Newest(ToSet(vs)) = Last(vs)
<1> DEFINE S == ToSet(vs)
           n == Len(vs)
<1>1. /\ vs \in Seq(Versions(k, r)) /\ n \in 1..n /\ Last(vs) = vs[n]
      /\ \A i, j \in 1..n : i < j => vs[i].v < vs[j].v
  BY DEF History, Ascending, Last
<1>2. \A i \in 1..n : vs[i].v \in Nat
  <2> TAKE i \in 1..n
  <2>1. vs[i] \in Versions(k, r)
    BY <1>1
  <2> QED BY <2>1 DEF Versions
<1>3. \A w : w \in S <=> \E i \in 1..n : w = vs[i]
  BY <1>1 DEF ToSet
<1> HIDE DEF S, n
<1>4. vs[n] \in S /\ \A u \in S : u.v <= vs[n].v
  <2>1. ASSUME NEW i \in 1..n
        PROVE  vs[i].v <= vs[n].v
    <3>1. i < n \/ i = n
      BY <1>1
    <3> QED BY <1>1, <1>2, <3>1
  <2> QED BY <1>1, <1>3, <2>1
<1>5. ASSUME NEW w \in S, \A u \in S : u.v <= w.v
      PROVE  w = vs[n]
  <2>1. PICK i \in 1..n : w = vs[i]
    BY <1>3
  <2>2. vs[n].v <= vs[i].v
    BY <1>4, <1>5, <2>1
  <2>3. ~(i < n)
    BY <1>1, <1>2, <2>2
  <2> QED BY <1>1, <2>1, <2>3
<1>6. Newest(S) = vs[n]
  BY <1>4, <1>5 DEF Newest
<1> QED BY <1>1, <1>6 DEF S, n

LEMMA TrimBelow ==
    ASSUME NEW k, NEW r, NEW vs, NEW version, History(k, r, vs, version), NEW m \in Nat \ {0}
    PROVE  ToSet(TrimNewer(vs, {w \in ToSet(vs) : w.v >= m})) = {w \in ToSet(vs) : w.v < m}
<1> DEFINE S == ToSet(vs)
           newer == {w \in S : w.v >= m}
           t == TrimNewer(vs, newer)
<1>1. /\ vs \in Seq(Versions(k, r)) /\ Len(vs) > 0 /\ Len(vs) \in Nat /\ vs[1].v = 0
      /\ \A i, j \in 1..Len(vs) : i < j => vs[i].v < vs[j].v
  BY DEF History, Ascending
<1>2. \A i \in 1..Len(vs) : vs[i].v \in Nat
  <2> TAKE i \in 1..Len(vs)
  <2>1. vs[i] \in Versions(k, r)
    BY <1>1
  <2> QED BY <2>1 DEF Versions
<1>3. \A w : w \in S <=> \E i \in 1..Len(vs) : w = vs[i]
  BY <1>1 DEF ToSet
<1>4. \A w : w \in newer <=> w \in S /\ w.v >= m
  OBVIOUS
<1> HIDE DEF S, newer
<1>5. /\ t \in Seq(Versions(k, r)) /\ Len(t) \in 1..Len(vs)
      /\ \A i \in 1..Len(t) : t[i] = vs[i]
      /\ Len(t) = 1 \/ vs[Len(t)] \notin newer
      /\ \A i \in (Len(t) + 1)..Len(vs) : vs[i] \in newer
  BY <1>1, TrimPrefix
<1> HIDE DEF t
<1>6. \A w : w \in ToSet(t) <=> \E i \in 1..Len(t) : w = t[i]
  BY <1>5 DEF ToSet
<1> DEFINE n == Len(t)
<1>7. n \in 1..Len(vs)
  BY <1>5
<1>8. vs[n].v < m
  <2>1. CASE n = 1
    BY <1>1, <2>1
  <2>2. CASE n # 1
    <3>1. vs[n] \in S /\ vs[n] \notin newer
      BY <1>3, <1>5, <2>2
    <3>2. ~(vs[n].v >= m)
      BY <1>4, <3>1
    <3>3. vs[n].v \in Nat
      BY <1>2, <1>7
    <3> QED BY <3>2, <3>3
  <2> QED BY <2>1, <2>2
<1> HIDE DEF n
<1>9. ASSUME NEW w \in ToSet(t)
      PROVE  w \in S /\ w.v < m
  <2>1. PICK i \in 1..n : w = t[i]
    BY <1>6 DEF n
  <2>2. w = vs[i] /\ i \in 1..Len(vs)
    BY <1>5, <1>7, <2>1 DEF n
  <2>3. i < n \/ i = n
    BY <1>7, <2>1
  <2>4. vs[i].v < m
    BY <1>1, <1>2, <1>7, <1>8, <2>2, <2>3
  <2> QED BY <1>3, <2>2, <2>4
<1>10. ASSUME NEW w \in S, w.v < m
       PROVE  w \in ToSet(t)
  <2>1. PICK i \in 1..Len(vs) : w = vs[i]
    BY <1>3
  <2>2. w \notin newer
    <3>1. w.v \in Nat
      BY <1>2, <2>1
    <3> QED BY <1>4, <1>10, <3>1
  <2>3. i \in 1..n
    <3>1. i \notin (n + 1)..Len(vs)
      BY <1>5, <2>1, <2>2 DEF n
    <3> QED BY <1>7, <3>1
  <2> QED BY <1>5, <1>6, <2>1, <2>3 DEF n
<1>11. ToSet(t) = {w \in S : w.v < m}
  BY <1>9, <1>10
<1> QED BY <1>11 DEF t, newer, S

RecordType(k, r) ==
    [type : {Kind(k, r)}, version : Nat, versions : Seq(Versions(k, r)), edits : Seq(Edits(k))]

LEMMA NewRecordOK ==
    ASSUME NEW k, NEW r \in DOMAIN k, NEW e \in NewEdits(k, r)
    PROVE  /\ RecordOK(k, r, NewRecord(e)) /\ NewlyMade(e, r, NewRecord(e))
           /\ Val(NewRecord(e)) = e.val /\ e.val \in Vals(k, r)
           /\ NewRecord(e).type = Kind(k, r) /\ e \in Edits(k)
<1> DEFINE w == [v |-> 0, val |-> e.val]
           x == NewRecord(e)
<1>1. /\ e.op = "new" /\ e.rid = r /\ e.type = Kind(k, r) /\ e.val \in Vals(k, r)
      /\ e \in Edits(k)
  BY DEF NewEdits, Edits
<1>2. w \in Versions(k, r) /\ w.v = 0 /\ w.val = e.val
  BY <1>1 DEF Versions
<1>3. x = [type |-> e.type, version |-> 0, versions |-> <<w>>, edits |-> <<e>>]
  BY DEF NewRecord
<1> HIDE DEF w
<1>4. /\ <<w>> \in Seq(Versions(k, r)) /\ Len(<<w>>) = 1 /\ <<w>>[1] = w
      /\ <<e>> \in Seq(Edits(k)) /\ Len(<<e>>) = 1 /\ <<e>>[1] = e
  BY <1>1, <1>2
<1> DEFINE vs == <<w>>
           es == <<e>>
<1>5. x.type = Kind(k, r) /\ x.version = 0 /\ x.versions = vs /\ x.edits = es /\ x \in RecordType(k, r)
  BY <1>1, <1>3, <1>4 DEF RecordType
<1> HIDE DEF x, vs, es
<1>6. History(k, r, vs, 0) /\ Log(k, es) /\ Last(vs) = w
  <2>1. Ascending(vs)
    BY <1>2, <1>4 DEF Ascending, vs
  <2> QED BY <1>1, <1>2, <1>4, <2>1 DEF History, Log, Last, vs, es
<1>7. RecordOK(k, r, x)
  BY <1>5, <1>6, RecordParts DEF RecordType
<1>8. Val(x) = e.val
  BY <1>2, <1>5, <1>6 DEF Val
<1>9. NewlyMade(e, r, x)
  <2>1. IsNew(e, r)
    BY <1>1 DEF IsNew
  <2>2. x.version = 0 /\ Len(x.versions) = 1
    BY <1>4, <1>5 DEF vs
  <2>3. ToSet(x.versions) = {w}
    <3>1. \A u : u \in ToSet(vs) <=> u = w
      BY <1>4 DEF ToSet, vs
    <3> QED BY <1>5, <3>1
  <2>4. Core(x) = [version |-> 0, values |-> {w}]
    BY <2>2, <2>3, Zenon DEF Core
  <2>5. Grow(Nothing, e, r) = [version |-> 0, values |-> {w}]
    BY <2>1 DEF Grow, w
  <2>6. Becomes(Nothing, e, r, x)
    BY <2>4, <2>5, Zenon DEF Becomes
  <2> QED BY <2>1, <2>2, <2>6, Zenon DEF NewlyMade
<1> QED BY <1>1, <1>5, <1>7, <1>8, <1>9 DEF x

LEMMA InOrderOK ==
    ASSUME NEW k, NEW r, NEW y \in RecordType(k, r), History(k, r, y.versions, y.version),
           NEW e \in SetEdits(k, r), e.version = y.version,
           \A i \in 1..Len(y.versions) : y.versions[i].v < y.version
    PROVE  LET z == InOrder(y, e)
           IN /\ z \in RecordType(k, r) /\ History(k, r, z.versions, z.version)
              /\ ToSet(z.versions) = ToSet(y.versions) \cup
                   {[v |-> e.version, val |-> Changed(Newest(ToSet(y.versions)).val, e.changes)]}
              /\ z.version = y.version /\ z.edits = y.edits
              /\ Len(z.versions) = Len(y.versions) + 1
              /\ k[r] = 0 => /\ Last(z.versions).val.parent = Last(y.versions).val.parent
                             /\ Last(z.versions).val.weight = Last(y.versions).val.weight
              /\ Last(z.versions).val.parent
                   = IF "parent" \in DOMAIN e.changes THEN e.changes.parent
                     ELSE Last(y.versions).val.parent
<1> DEFINE old == Last(y.versions).val
           ch == e.changes
           new == [f \in DOMAIN old |-> IF f \in DOMAIN ch THEN ch[f] ELSE old[f]]
           w == [v |-> e.version, val |-> new]
           z == InOrder(y, e)
<1>1. z = [y EXCEPT !.versions = Append(@, w)]
  BY DEF InOrder, Val
<1>2. old \in Vals(k, r) /\ ch \in Changes(k, r) /\ y.version \in Nat /\ e.version \in Nat
  BY ValIn DEF SetEdits, RecordType
<1>7. new = Changed(Newest(ToSet(y.versions)).val, e.changes)
  BY NewestIsLast DEF Changed
<1> HIDE DEF old, ch
<1>3. /\ new \in Vals(k, r) /\ (k[r] = 0 => new.parent = old.parent /\ new.weight = old.weight)
      /\ new.parent = IF "parent" \in DOMAIN ch THEN ch.parent ELSE old.parent
  BY <1>2, ChangedVals
<1> HIDE DEF new
<1> DEFINE t == Append(y.versions, w)
<1>4. History(k, r, t, y.version) /\ Len(t) = Len(y.versions) + 1 /\ Last(t).val = new
  BY <1>2, <1>3, LongerHistory DEF old
<1>8. ToSet(t) = ToSet(y.versions) \cup {w}
  <2> DEFINE vs == y.versions
             n == Len(vs)
  <2>1. vs \in Seq(Versions(k, r)) /\ w \in Versions(k, r)
    <3>1. w \in Versions(k, r)
      BY <1>2, <1>3 DEF Versions
    <3> QED BY <3>1 DEF History
  <2> HIDE DEF vs, w
  <2>2. /\ Append(vs, w) \in Seq(Versions(k, r)) /\ Len(Append(vs, w)) = n + 1 /\ n \in Nat
        /\ \A i \in 1..n : Append(vs, w)[i] = vs[i]
        /\ Append(vs, w)[n + 1] = w
    BY <2>1
  <2> HIDE DEF n
  <2>3. \A u : u \in ToSet(vs) <=> \E i \in 1..n : u = vs[i]
    BY <2>1 DEF ToSet, n
  <2>4. \A u : u \in ToSet(Append(vs, w)) <=> \E i \in 1..(n + 1) : u = Append(vs, w)[i]
    BY <2>2 DEF ToSet
  <2>5. \A i \in 1..(n + 1) : i \in 1..n \/ i = n + 1
    BY <2>2
  <2>6. \A u : u \in ToSet(Append(vs, w)) <=> u \in ToSet(vs) \/ u = w
    <3> TAKE u
    <3>1. ASSUME u \in ToSet(Append(vs, w)) PROVE u \in ToSet(vs) \/ u = w
      BY <2>2, <2>3, <2>4, <2>5, <3>1
    <3>2. ASSUME u \in ToSet(vs) PROVE u \in ToSet(Append(vs, w))
      <4>1. PICK i \in 1..n : u = vs[i]
        BY <2>3, <3>2
      <4>2. i \in 1..(n + 1) /\ u = Append(vs, w)[i]
        BY <2>2, <4>1
      <4> QED BY <2>4, <4>2
    <3>3. ASSUME u = w PROVE u \in ToSet(Append(vs, w))
      <4>1. n + 1 \in 1..(n + 1)
        BY <2>2
      <4> QED BY <2>2, <2>4, <3>3, <4>1
    <3> QED BY <3>1, <3>2, <3>3
  <2>7. ToSet(Append(vs, w)) = ToSet(vs) \cup {w}
    BY <2>6
  <2> QED BY <2>7 DEF vs
<1> HIDE DEF t, z
<1>9. ToSet(t) = ToSet(y.versions) \cup
        {[v |-> e.version, val |-> Changed(Newest(ToSet(y.versions)).val, e.changes)]}
  <2>1. w = [v |-> e.version, val |-> Changed(Newest(ToSet(y.versions)).val, e.changes)]
    BY <1>7
  <2> HIDE DEF w
  <2> QED BY <1>8, <2>1
<1> HIDE DEF w
<1>5. /\ z \in RecordType(k, r) /\ z.versions = t /\ z.version = y.version /\ z.edits = y.edits
  <2>1. t \in Seq(Versions(k, r))
    BY <1>4 DEF History
  <2> QED BY <1>1, <2>1 DEF t, RecordType
<1>6. /\ Last(z.versions).val = new /\ History(k, r, z.versions, z.version)
      /\ Len(z.versions) = Len(y.versions) + 1
  BY <1>4, <1>5
<1> QED BY <1>3, <1>5, <1>6, <1>9 DEF z, old, ch

LEMMA RevertOK ==
    ASSUME NEW k, NEW r, NEW y \in RecordType(k, r), History(k, r, y.versions, y.version),
           Log(k, y.edits), NEW e, e.version \in Nat \ {0}
    PROVE  LET z == Revert(y, e)
           IN /\ ToSet(z.versions) = {w \in ToSet(y.versions) : w.v < e.version}
              /\ z \in RecordType(k, r) /\ History(k, r, z.versions, z.version)
              /\ z.version = y.version /\ Log(k, z.edits)
              /\ k[r] = 0 => /\ Last(z.versions).val.parent = Last(y.versions).val.parent
                             /\ Last(z.versions).val.weight = Last(y.versions).val.weight
<1> DEFINE nv == {w \in ToSet(y.versions) : w.v >= e.version}
           ne == {f \in ToSet(y.edits) : f.op = "set" /\ f.version >= e.version}
           tv == TrimNewer(y.versions, nv)
           te == TrimNewer(y.edits, ne)
           z == Revert(y, e)
<1>1. z = [y EXCEPT !.versions = tv, !.edits = te]
  BY DEF Revert
<1>6. ToSet(tv) = {w \in ToSet(y.versions) : w.v < e.version}
  BY TrimBelow
<1> HIDE DEF nv, ne, z
<1>2. y.version \in Nat
  BY DEF RecordType
<1>3. /\ History(k, r, tv, y.version)
      /\ k[r] = 0 => /\ Last(tv).val.parent = Last(y.versions).val.parent
                     /\ Last(tv).val.weight = Last(y.versions).val.weight
  BY <1>2, TrimHistory
<1>4. Log(k, te)
  <2>1. /\ te \in Seq(Edits(k)) /\ Len(te) \in 1..Len(y.edits)
        /\ \A i \in 1..Len(te) : te[i] = y.edits[i]
    <3>1. y.edits \in Seq(Edits(k)) /\ Len(y.edits) > 0
      BY DEF Log
    <3> QED BY <3>1, TrimPrefix
  <2> HIDE DEF te
  <2>2. 1 \in 1..Len(te) /\ Len(te) > 0
    BY <2>1
  <2>3. te[1] = y.edits[1] /\ y.edits[1].op = "new"
    BY <2>1, <2>2 DEF Log
  <2> QED BY <2>1, <2>2, <2>3, Zenon DEF Log
<1> HIDE DEF tv, te
<1>5. z \in RecordType(k, r) /\ z.versions = tv /\ z.edits = te /\ z.version = y.version
  <2>1. tv \in Seq(Versions(k, r)) /\ te \in Seq(Edits(k))
    BY <1>3, <1>4 DEF History, Log
  <2> QED BY <1>1, <2>1 DEF RecordType
<1> QED BY <1>3, <1>4, <1>5, <1>6 DEF z

LEMMA SetRecordOK ==
    ASSUME NEW k, NEW r \in DOMAIN k, NEW x, RecordOK(k, r, x), NEW e \in SetEdits(k, r)
    PROVE  LET y == SetRecord(x, e)
           IN /\ RecordOK(k, r, y) /\ Taken(e, r, x, y) /\ y.version = x.version + 1
              /\ k[r] = 0 => Val(y).parent = Val(x).parent /\ Val(y).weight = Val(x).weight
              /\ e.version = x.version + 1 =>
                   Val(y).parent = IF "parent" \in DOMAIN e.changes THEN e.changes.parent
                                   ELSE Val(x).parent
<1> DEFINE y == [x EXCEPT !.version = @ + 1]
           z == IF e.version = y.version THEN InOrder(y, e)
                ELSE IF e.version < y.version THEN Revert(y, e) ELSE y
           u == SetRecord(x, e)
<1>1. u = [z EXCEPT !.edits = Append(@, e)]
  BY DEF SetRecord
<1>2. /\ x \in RecordType(k, r) /\ x.version \in Nat /\ e.version \in Nat \ {0}
      /\ IsSet(e, r) /\ e \in Edits(k)
      /\ History(k, r, x.versions, x.version) /\ Log(k, x.edits)
  <2>1. /\ x \in RecordType(k, r)
        /\ History(k, r, x.versions, x.version) /\ Log(k, x.edits)
    BY RecordParts DEF RecordType
  <2>2. x.version \in Nat
    BY <2>1 DEF RecordType
  <2>3. e.version \in Nat \ {0} /\ IsSet(e, r)
    BY DEF SetEdits, IsSet
  <2>4. e \in Edits(k)
    BY DEF Edits
  <2> QED BY <2>1, <2>2, <2>3, <2>4
<1>3. /\ y \in RecordType(k, r) /\ y.version = x.version + 1 /\ y.versions = x.versions
      /\ y.edits = x.edits
  BY <1>2 DEF RecordType
<1> HIDE DEF y, u
<1>12. \A w \in ToSet(x.versions) : w.v \in Nat /\ w.v <= x.version
  <2> TAKE w \in ToSet(x.versions)
  <2>1. PICK i \in 1..Len(x.versions) : w = x.versions[i]
    BY <1>2 DEF ToSet, History
  <2>2. w \in Versions(k, r) /\ w.v <= x.version
    BY <1>2, <2>1 DEF History
  <2> QED BY <2>2 DEF Versions
<1>4. History(k, r, y.versions, y.version)
  <2>1. ASSUME NEW i \in 1..Len(x.versions)
        PROVE  x.versions[i].v <= x.version + 1
    <3>1. x.versions[i].v <= x.version /\ x.versions[i] \in Versions(k, r)
      BY <1>2 DEF History
    <3>2. x.versions[i].v \in Nat
      BY <3>1 DEF Versions
    <3> QED BY <1>2, <3>1, <3>2
  <2>2. History(k, r, x.versions, x.version + 1)
    BY <1>2, <2>1 DEF History
  <2> QED BY <1>3, <2>2
<1>13. \A i \in 1..Len(y.versions) : y.versions[i].v < y.version
  <2> TAKE i \in 1..Len(y.versions)
  <2>1. x.versions[i].v <= x.version /\ x.versions[i] \in Versions(k, r)
    BY <1>2, <1>3 DEF History
  <2>2. x.versions[i].v \in Nat
    BY <2>1 DEF Versions
  <2> QED BY <1>2, <1>3, <2>1, <2>2
<1>5. Log(k, y.edits)
  BY <1>2, <1>3
<1>6. /\ z \in RecordType(k, r) /\ z.version = y.version
      /\ History(k, r, z.versions, z.version) /\ Log(k, z.edits)
      /\ k[r] = 0 => /\ Last(z.versions).val.parent = Last(y.versions).val.parent
                     /\ Last(z.versions).val.weight = Last(y.versions).val.weight
      /\ e.version = y.version =>
           /\ Len(z.versions) = Len(y.versions) + 1
           /\ Last(z.versions).val.parent
                = IF "parent" \in DOMAIN e.changes THEN e.changes.parent
                  ELSE Last(y.versions).val.parent
      /\ e.version = y.version =>
           ToSet(z.versions) = ToSet(y.versions) \cup
             {[v |-> e.version, val |-> Changed(Newest(ToSet(y.versions)).val, e.changes)]}
      /\ e.version # y.version =>
           ToSet(z.versions) = {w \in ToSet(y.versions) : w.v < e.version}
  <2>1. CASE e.version = y.version
    <3>1. z = InOrder(y, e)
      BY <2>1
    <3> HIDE DEF z
    <3>2. /\ z \in RecordType(k, r) /\ History(k, r, z.versions, z.version)
          /\ z.version = y.version /\ z.edits = y.edits
          /\ Len(z.versions) = Len(y.versions) + 1
          /\ k[r] = 0 => /\ Last(z.versions).val.parent = Last(y.versions).val.parent
                         /\ Last(z.versions).val.weight = Last(y.versions).val.weight
          /\ Last(z.versions).val.parent
               = IF "parent" \in DOMAIN e.changes THEN e.changes.parent
                 ELSE Last(y.versions).val.parent
      BY <1>3, <1>4, <1>13, <2>1, <3>1, InOrderOK
    <3>3. ToSet(z.versions) = ToSet(y.versions) \cup
            {[v |-> e.version, val |-> Changed(Newest(ToSet(y.versions)).val, e.changes)]}
      BY <1>3, <1>4, <1>13, <2>1, <3>1, InOrderOK
    <3> QED BY <1>5, <2>1, <3>2, <3>3
  <2>2. CASE e.version # y.version /\ e.version < y.version
    <3>1. z = Revert(y, e)
      BY <2>2
    <3> HIDE DEF z
    <3> QED BY <1>2, <1>3, <1>4, <1>5, <2>2, <3>1, RevertOK
  <2>3. CASE e.version # y.version /\ ~(e.version < y.version)
    <3>1. z = y
      BY <2>3
    <3> HIDE DEF z
    <3>2. ToSet(y.versions) = {w \in ToSet(y.versions) : w.v < e.version}
      <4>1. \A w \in ToSet(y.versions) : w.v < e.version
        BY <1>2, <1>3, <1>12, <2>3
      <4> HIDE DEF y
      <4> QED BY <4>1
    <3> QED BY <1>3, <1>4, <1>5, <2>3, <3>1, <3>2
  <2> QED BY <2>1, <2>2, <2>3
<1> HIDE DEF z
<1> DEFINE es == Append(z.edits, e)
<1>7. Log(k, es)
  <2>1. es \in Seq(Edits(k)) /\ Len(es) > 0 /\ es[1] = z.edits[1]
    BY <1>2, <1>6 DEF Log
  <2> QED BY <1>6, <2>1 DEF Log
<1> HIDE DEF es
<1>8. u \in RecordType(k, r) /\ u.version = z.version /\ u.versions = z.versions /\ u.edits = es
  <2>1. es \in Seq(Edits(k))
    BY <1>7 DEF Log
  <2> QED BY <1>1, <1>6, <2>1 DEF es, RecordType
<1>9. RecordOK(k, r, u)
  BY <1>6, <1>7, <1>8, RecordParts DEF RecordType
<1>10. u.version = x.version + 1 /\ Val(u) = Last(z.versions).val /\ Val(x) = Last(y.versions).val
  BY <1>3, <1>6, <1>8 DEF Val
<1>14. Becomes(Core(x), e, r, u)
  <2> DEFINE b == Core(x)
             S == ToSet(x.versions)
             V == x.version
             new == [v |-> e.version, val |-> Changed(Newest(S).val, e.changes)]
  <2>1. b.version = V /\ b.values = S
    BY CoreParts
  <2>2. Core(u) = [version |-> V + 1, values |-> ToSet(z.versions)]
    BY <1>8, <1>10, Zenon DEF Core
  <2>3. CASE e.version = V + 1
    <3>1. ToSet(z.versions) = S \cup {new}
      BY <1>3, <1>6, <2>3
    <3>2. new = Added(b, e)
      BY <2>1 DEF Added
    <3> HIDE DEF b, S, V, new
    <3>3. Grow(b, e, r) = [version |-> b.version + 1, values |-> b.values \cup {Added(b, e)}]
      BY <1>2, <2>1, <2>3, GrowParts
    <3>4. Core(u) = Grow(b, e, r)
      BY <2>1, <2>2, <3>1, <3>2, <3>3, Zenon
    <3> QED BY <3>4 DEF Becomes, b
  <2>4. CASE e.version # V + 1
    <3>1. ToSet(z.versions) = {w \in S : w.v < e.version}
      BY <1>3, <1>6, <2>4
    <3> HIDE DEF b, S, V, new
    <3>3. Grow(b, e, r) = [version |-> b.version + 1, values |-> {w \in b.values : w.v < e.version}]
      BY <1>2, <2>1, <2>4, GrowParts DEF Kept
    <3>4. Core(u) = Grow(b, e, r)
      BY <2>1, <2>2, <3>1, <3>3, Zenon
    <3> QED BY <3>4 DEF Becomes, b
  <2> QED BY <2>3, <2>4
<1>11. Taken(e, r, x, u)
  <2>1. Counted(e, r, x, u)
    BY <1>2, <1>10, <1>14 DEF Counted
  <2>2. e.version = x.version + 1 => Len(u.versions) = Len(x.versions) + 1
    BY <1>3, <1>6, <1>8
  <2> QED BY <2>1, <2>2 DEF Taken, SetInOrder
<1> QED BY <1>3, <1>6, <1>9, <1>10, <1>11 DEF u

LEMMA RecordReached ==
    ASSUME NEW k, NEW r, NEW x, RecordOK(k, r, x)
    PROVE  Reached(x)
<1>1. /\ History(k, r, x.versions, x.version) /\ x.version \in Nat
  BY RecordParts DEF RecordOK
<1>2. ASSUME NEW w \in ToSet(x.versions)
      PROVE  w.v \in Nat /\ w.v <= x.version
  <2>1. PICK i \in 1..Len(x.versions) : w = x.versions[i]
    BY <1>1 DEF ToSet, History
  <2>2. w \in Versions(k, r) /\ w.v <= x.version
    BY <1>1, <2>1 DEF History
  <2> QED BY <2>2 DEF Versions
<1> QED BY <1>1, <1>2 DEF Reached

-----------------------------------------------------------------------------
(* The children of a node, in order.                                        *)

Weighed(s, S) == \A x \in S : x \in Int /\ Val(s.rec[x]).weight \in Int

LEMMA PrecedesOrders ==
    ASSUME NEW s, NEW S, Weighed(s, S), NEW x \in S, NEW y \in S, NEW z \in S
    PROVE  /\ ~Precedes(s, x, x)
           /\ Precedes(s, x, y) /\ Precedes(s, y, z) => Precedes(s, x, z)
           /\ x # y => Precedes(s, x, y) \/ Precedes(s, y, x)
<1> DEFINE w(a) == Val(s.rec[a]).weight
<1>1. /\ x \in Int /\ y \in Int /\ z \in Int
      /\ w(x) \in Int /\ w(y) \in Int /\ w(z) \in Int
  BY DEF Weighed
<1>2. \A a, b : Precedes(s, a, b) <=> w(a) < w(b) \/ (w(a) = w(b) /\ a < b)
  BY DEF Precedes
<1> HIDE DEF w
<1> QED BY <1>1, <1>2

LEMMA SortedIs ==
    ASSUME NEW s, NEW S, IsFiniteSet(S), Weighed(s, S)
    PROVE  /\ Sorted(s, S) \in Seq(S) /\ Len(Sorted(s, S)) = Cardinality(S)
           /\ \A x \in S : \E i \in 1..Cardinality(S) : Sorted(s, S)[i] = x
<1> DEFINE below(x) == {y \in S : Precedes(s, y, x)}
           n == Cardinality(S)
           rank == [x \in S |-> Cardinality(below(x))]
           q == Sorted(s, S)
<1>1. n \in Nat
  BY FS_CardinalityType
<1>2. \A x \in S : IsFiniteSet(below(x)) /\ Cardinality(below(x)) \in Nat
  <2> TAKE x \in S
  <2>1. below(x) \in SUBSET S
    OBVIOUS
  <2> HIDE DEF below
  <2> QED BY <2>1, FS_Subset, FS_CardinalityType
<1>3. ASSUME NEW x \in S
      PROVE  Cardinality(below(x)) \in 0..(n - 1)
  <2>1. below(x) \in SUBSET (S \ {x})
    BY PrecedesOrders
  <2>2. IsFiniteSet(S \ {x}) /\ Cardinality(S \ {x}) = n - 1
    BY FS_RemoveElement
  <2>3. Cardinality(below(x)) <= n - 1
    <3> HIDE DEF below
    <3> QED BY <2>1, <2>2, FS_Subset
  <2> HIDE DEF below
  <2> QED BY <1>1, <1>2, <2>3
<1>4. ASSUME NEW x \in S, NEW y \in S, Precedes(s, x, y)
      PROVE  Cardinality(below(x)) # Cardinality(below(y))
  <2>1. below(x) \in SUBSET below(y)
    BY <1>4, PrecedesOrders
  <2>2. x \in below(y) /\ x \notin below(x)
    BY <1>4, PrecedesOrders
  <2>3. IsFiniteSet(below(y))
    BY <1>2
  <2> HIDE DEF below
  <2> QED BY <2>1, <2>2, <2>3, FS_Subset
<1>5. rank \in Injection(S, 0..(n - 1))
  <2>1. rank \in [S -> 0..(n - 1)]
    BY <1>3
  <2>2. \A x, y \in S : rank[x] = rank[y] => x = y
    <3>1. ASSUME NEW x \in S, NEW y \in S, x # y
          PROVE  rank[x] # rank[y]
      <4>1. Precedes(s, x, y) \/ Precedes(s, y, x)
        BY <3>1, PrecedesOrders
      <4>2. Cardinality(below(x)) # Cardinality(below(y))
        <5> HIDE DEF below
        <5> QED BY <1>4, <4>1
      <4> QED BY <4>2
    <3> QED BY <3>1
  <2> HIDE DEF rank
  <2> QED BY <2>1, <2>2 DEF Injection, IsInjective
<1>6. IsFiniteSet(0..(n - 1)) /\ Cardinality(0..(n - 1)) = n
  <2>1. 0 \in Int /\ n - 1 \in Int
    BY <1>1
  <2>2. /\ IsFiniteSet(0..(n - 1))
        /\ Cardinality(0..(n - 1)) = IF 0 > n - 1 THEN 0 ELSE (n - 1) - 0 + 1
    <3> HIDE DEF n
    <3> QED BY <2>1, FS_Interval
  <2> HIDE DEF n
  <2> QED BY <1>1, <2>2
<1>7. rank \in Surjection(S, 0..(n - 1))
  <2> HIDE DEF rank
  <2>1. Cardinality(S) = Cardinality(0..(n - 1))
    BY <1>6
  <2> HIDE DEF n
  <2> QED BY <1>5, <1>6, <2>1, FS_Injection
<1>8. \A i \in 1..n : \E x \in S : Cardinality(below(x)) = i - 1
  <2> TAKE i \in 1..n
  <2>1. i - 1 \in 0..(n - 1)
    BY <1>1
  <2>2. PICK x \in S : rank[x] = i - 1
    <3> HIDE DEF rank, n
    <3> QED BY <1>7, <2>1 DEF Surjection
  <2> QED BY <2>2
<1>9. q = [i \in 1..n |-> CHOOSE x \in S : Cardinality(below(x)) = i - 1]
  BY DEF Sorted
<1> HIDE DEF q, n
<1>10. \A i \in 1..n : q[i] \in S /\ Cardinality(below(q[i])) = i - 1
  <2> HIDE DEF below
  <2> QED BY <1>8, <1>9
<1>11. q \in Seq(S) /\ Len(q) = n
  <2>1. DOMAIN q = 1..n /\ q = [i \in 1..n |-> q[i]]
    <3> HIDE DEF below
    <3> QED BY <1>9
  <2>2. q \in [1..n -> S]
    BY <1>10, <2>1
  <2> QED BY <1>1, <2>2
<1>12. ASSUME NEW x \in S
       PROVE  \E i \in 1..n : q[i] = x
  <2> DEFINE i == Cardinality(below(x)) + 1
  <2>1. i \in 1..n /\ i - 1 = Cardinality(below(x))
    <3>1. Cardinality(below(x)) \in 0..(n - 1)
      BY <1>3 DEF n
    <3> HIDE DEF below
    <3> QED BY <1>1, <3>1
  <2> HIDE DEF i
  <2>2. Cardinality(below(q[i])) = Cardinality(below(x)) /\ q[i] \in S
    <3> HIDE DEF below
    <3> QED BY <1>10, <2>1
  <2>3. q[i] = x
    <3>1. SUFFICES ASSUME q[i] # x PROVE FALSE
      OBVIOUS
    <3>2. Precedes(s, x, q[i]) \/ Precedes(s, q[i], x)
      BY <2>2, <3>1, PrecedesOrders
    <3> HIDE DEF below
    <3> QED BY <1>4, <2>2, <3>2
  <2> QED BY <2>1, <2>3
<1> QED BY <1>11, <1>12 DEF q, n

LEMMA SetToSeqIs ==
    ASSUME NEW S, IsFiniteSet(S)
    PROVE  SetToSeq(S) \in Seq(S)
<1>1. Cardinality(S) \in Nat /\ ExistsBijection(1..Cardinality(S), S)
  BY FS_CardinalityType
<1>2. \E f \in [1..Cardinality(S) -> S] : IsInjective(f)
  BY <1>1 DEF ExistsBijection, Bijection, Injection
<1>3. SetToSeq(S) \in [1..Cardinality(S) -> S]
  BY <1>2 DEF SetToSeq
<1> QED BY <1>1, <1>3

LEMMA EveryOtherIs ==
    ASSUME NEW S, NEW q \in Seq(S)
    PROVE  EveryOther(q) \in Seq(S)
<1> DEFINE n == (Len(q) + 1) \div 2
<1>1. n \in Nat /\ 2 * n <= Len(q) + 1
  OBVIOUS
<1>2. \A i \in 1..n : 2 * i - 1 \in 1..Len(q)
  BY <1>1
<1>3. EveryOther(q) = [i \in 1..n |-> q[2 * i - 1]]
  BY DEF EveryOther
<1> HIDE DEF n
<1>4. \A i \in 1..n : q[2 * i - 1] \in S
  BY <1>2
<1> QED BY <1>1, <1>3, <1>4

-----------------------------------------------------------------------------
(* What is removed with a node.                                             *)

GatherStep(removes, seq, c) == seq \o removes[c]
Gathers == INSTANCE FoldSteps WITH Op <- GatherStep

LEMMA GatherLoop ==
    ASSUME NEW S, NEW q \in Seq(S), NEW f
    PROVE  \E h : /\ h[0] = <<>> /\ h[Len(q)] = Gather(f, q)
                  /\ \A i \in 1..Len(q) : h[i] = h[i - 1] \o f[q[i]]
<1>1. Gather(f, q) = Gathers!Loop(f, <<>>, q)
  BY DEF Gather, GatherStep, FoldLeft, MapThenFoldSet, Max, Gathers!Loop, Gathers!FoldLeft,
         Gathers!MapThenFoldSet, Gathers!Max
<1>2. Len(q) \in Nat /\ DOMAIN q = 1..Len(q)
  OBVIOUS
<1>3. PICK h : Gathers!IsLoop(h, Len(q), f, <<>>, q)
  BY <1>2, Gathers!LoopSteps
<1> QED BY <1>1, <1>3 DEF Gathers!IsLoop, GatherStep

LEMMA GatherSame ==
    ASSUME NEW S, NEW q \in Seq(S), NEW f, NEW g, \A x \in S : f[x] = g[x]
    PROVE  Gather(f, q) = Gather(g, q)
<1>1. Len(q) \in Nat /\ \A i \in 1..Len(q) : q[i] \in S
  OBVIOUS
<1>2. PICK u : /\ u[0] = <<>> /\ u[Len(q)] = Gather(f, q)
               /\ \A i \in 1..Len(q) : u[i] = u[i - 1] \o f[q[i]]
  BY GatherLoop
<1>3. PICK v : /\ v[0] = <<>> /\ v[Len(q)] = Gather(g, q)
               /\ \A i \in 1..Len(q) : v[i] = v[i - 1] \o g[q[i]]
  BY GatherLoop
<1> DEFINE T == {i \in 0..Len(q) : u[i] = v[i]}
<1>4. 0 \in T
  BY <1>1, <1>2, <1>3
<1>5. ASSUME NEW i \in 0..(Len(q) - 1), i \in T
      PROVE  i + 1 \in T
  <2>1. i + 1 \in 1..Len(q) /\ i + 1 \in 0..Len(q) /\ (i + 1) - 1 = i
    BY <1>1
  <2>2. u[i + 1] = u[i] \o f[q[i + 1]] /\ v[i + 1] = v[i] \o g[q[i + 1]]
    BY <1>2, <1>3, <2>1
  <2>3. f[q[i + 1]] = g[q[i + 1]]
    BY <1>1, <2>1
  <2>4. u[i + 1] = v[i + 1]
    BY <1>5, <2>2, <2>3
  <2> QED BY <2>1, <2>4
<1>6. \A i \in 0..Len(q) : i \in T
  <2> HIDE DEF T
  <2> QED BY <1>1, <1>4, <1>5, Gathers!UpTo
<1> QED BY <1>1, <1>2, <1>3, <1>6

LEMMA GatherType ==
    ASSUME NEW S, NEW q \in Seq(S), NEW f, NEW D, \A x \in S : f[x] \in Seq(D)
    PROVE  Gather(f, q) \in Seq(D)
<1>1. Len(q) \in Nat /\ \A i \in 1..Len(q) : q[i] \in S
  OBVIOUS
<1>2. PICK u : /\ u[0] = <<>> /\ u[Len(q)] = Gather(f, q)
               /\ \A i \in 1..Len(q) : u[i] = u[i - 1] \o f[q[i]]
  BY GatherLoop
<1> DEFINE T == {i \in 0..Len(q) : u[i] \in Seq(D)}
<1>4. 0 \in T
  <2>1. u[0] \in Seq(D)
    BY <1>2, EmptySeq, Zenon
  <2> QED BY <1>1, <2>1
<1>5. ASSUME NEW i \in 0..(Len(q) - 1), i \in T
      PROVE  i + 1 \in T
  <2>1. i + 1 \in 1..Len(q) /\ i + 1 \in 0..Len(q) /\ (i + 1) - 1 = i
    BY <1>1
  <2>2. u[i + 1] = u[i] \o f[q[i + 1]]
    BY <1>2, <2>1
  <2>3. f[q[i + 1]] \in Seq(D)
    BY <1>1, <2>1
  <2>4. u[i + 1] \in Seq(D)
    BY <1>5, <2>2, <2>3, ConcatProperties
  <2> QED BY <2>1, <2>4
<1>6. \A i \in 0..Len(q) : i \in T
  <2> HIDE DEF T
  <2> QED BY <1>1, <1>4, <1>5, Gathers!UpTo
<1> QED BY <1>1, <1>2, <1>6

-----------------------------------------------------------------------------
(* The nodes below a node are lower.                                        *)

Below(s, x) == Attrs(s, x) \cup Elements(s, x)

LEMMA RecordValue ==
    ASSUME NEW k, NEW R, RecordsOK(k, R), NEW r \in DOMAIN R
    PROVE  /\ RecordOK(k, r, R[r]) /\ r \in DOMAIN k
           /\ Val(R[r]) \in Vals(k, r) /\ R[r].type = Kind(k, r)
           /\ Val(R[r]).parent \in Places(k, r) /\ Val(R[r]).weight \in Int
           /\ R[r].version \in Nat
<1>1. RecordOK(k, r, R[r]) /\ r \in DOMAIN k
  BY DEF RecordsOK
<1>2. History(k, r, R[r].versions, R[r].version)
  BY <1>1, RecordParts
<1>3. Val(R[r]) \in Vals(k, r)
  BY <1>2, ValIn DEF Val
<1>4. R[r].type = Kind(k, r) /\ R[r].version \in Nat
  BY <1>1 DEF RecordOK
<1>5. Val(R[r]).parent \in Places(k, r) /\ Val(R[r]).weight \in Int
  BY <1>3 DEF Vals
<1> QED BY <1>1, <1>3, <1>4, <1>5

LEMMA Lower ==
    ASSUME NEW k, NEW n, Heights(k, n), NEW s, RecordsOK(k, s.rec),
           NEW x \in DOMAIN s.rec, NEW c \in Below(s, x)
    PROVE  c \in DOMAIN s.rec /\ k[c] < k[x]
<1>1. c \in DOMAIN s.rec /\ Val(s.rec[c]).parent = x
  BY DEF Below, Attrs, Elements
<1>2. Val(s.rec[c]).parent \in Places(k, c)
  BY <1>1, RecordValue
<1>3. x \in Rids /\ x # Root
  BY SxeAssumption DEF RecordsOK, Heights
<1> QED BY <1>1, <1>2, <1>3 DEF Places

LEMMA EndSets ==
    ASSUME NEW k, NEW n, Heights(k, n), NEW s, RecordsOK(k, s.rec), NEW S \in SUBSET DOMAIN s.rec
    PROVE  IsFiniteSet(S) /\ Weighed(s, S)
<1>1. S \in SUBSET DOMAIN k /\ IsFiniteSet(DOMAIN k)
  BY DEF RecordsOK, Heights
<1>2. IsFiniteSet(S)
  BY <1>1, FS_Subset
<1>3. \A x \in S : x \in Int
  BY <1>1, SxeAssumption DEF Heights
<1>4. \A x \in S : Val(s.rec[x]).weight \in Int
  BY RecordValue
<1> QED BY <1>2, <1>3, <1>4 DEF Weighed

LEMMA ChildrenAre ==
    ASSUME NEW k, NEW n, Heights(k, n), NEW s, RecordsOK(k, s.rec), NEW x
    PROVE  /\ Children(s, x) \in Seq(Elements(s, x))
           /\ \A c \in Elements(s, x) : \E i \in 1..Len(Children(s, x)) : Children(s, x)[i] = c
<1>1. Elements(s, x) \in SUBSET DOMAIN s.rec
  BY DEF Elements
<1>2. IsFiniteSet(Elements(s, x)) /\ Weighed(s, Elements(s, x))
  BY <1>1, EndSets
<1> DEFINE E == Elements(s, x)
<1> HIDE DEF E
<1>3. /\ Sorted(s, E) \in Seq(E) /\ Len(Sorted(s, E)) = Cardinality(E)
      /\ \A c \in E : \E i \in 1..Cardinality(E) : Sorted(s, E)[i] = c
  BY <1>2, SortedIs DEF E
<1> QED BY <1>3 DEF E, Children

LEMMA UnderIs ==
    ASSUME NEW k, NEW n, Heights(k, n), NEW s, RecordsOK(k, s.rec), NEW x
    PROVE  Under(s, x) \in Seq(Below(s, x))
<1>1. Attrs(s, x) \in SUBSET DOMAIN s.rec
  BY DEF Attrs
<1>2. SetToSeq(Attrs(s, x)) \in Seq(Attrs(s, x))
  BY <1>1, EndSets, SetToSeqIs
<1>3. EveryOther(Children(s, x)) \in Seq(Elements(s, x))
  BY ChildrenAre, EveryOtherIs
<1>4. /\ SetToSeq(Attrs(s, x)) \in Seq(Below(s, x))
      /\ EveryOther(Children(s, x)) \in Seq(Below(s, x))
  BY <1>2, <1>3, SeqMonotonic DEF Below
<1> QED BY <1>4, ConcatProperties DEF Under

-----------------------------------------------------------------------------

Collects(s, f, D) == f = [x \in D |-> Gather(f, Under(s, x)) \o <<x>>]

LEMMA RemovesExist ==
    ASSUME NEW k, NEW n, Heights(k, n), NEW s, RecordsOK(k, s.rec)
    PROVE  \E f : Collects(s, f, DOMAIN s.rec)
<1> DEFINE D == DOMAIN s.rec
           L(h) == {x \in D : k[x] < h}
           T == {h \in 0..(n + 1) : \E f : Collects(s, f, L(h))}
<1>1. n \in Nat /\ \A x \in D : k[x] \in 0..n
  BY DEF Heights, RecordsOK
<1>2. \A x \in D : Under(s, x) \in Seq(Below(s, x)) /\ \A c \in Below(s, x) : c \in D /\ k[c] < k[x]
  BY UnderIs, Lower
<1>3. 0 \in T
  <2> DEFINE f == [x \in L(0) |-> <<>>]
  <2>1. L(0) = {}
    BY <1>1
  <2>2. f = [x \in L(0) |-> Gather(f, Under(s, x)) \o <<x>>]
    BY <2>1
  <2>3. Collects(s, f, L(0))
    BY <2>2 DEF Collects
  <2> HIDE DEF f, L
  <2> QED BY <1>1, <2>3
<1>4. ASSUME NEW h \in 0..n, h \in T
      PROVE  h + 1 \in T
  <2>1. PICK f : Collects(s, f, L(h))
    BY <1>4
  <2> DEFINE g == [x \in L(h + 1) |-> Gather(f, Under(s, x)) \o <<x>>]
  <2>2. \A x \in L(h) : x \in L(h + 1) /\ g[x] = f[x]
    <3>1. \A x \in L(h) : x \in L(h + 1)
      BY <1>1
    <3>2. \A x \in L(h) : f[x] = Gather(f, Under(s, x)) \o <<x>>
      <4> HIDE DEF L
      <4> QED BY <2>1 DEF Collects
    <3> HIDE DEF L
    <3> QED BY <3>1, <3>2
  <2>3. ASSUME NEW x \in L(h + 1)
        PROVE  Gather(f, Under(s, x)) = Gather(g, Under(s, x))
    <3>1. x \in D /\ Under(s, x) \in Seq(Below(s, x))
      BY <1>2
    <3>2. \A c \in Below(s, x) : c \in L(h)
      BY <1>1, <1>2
    <3>3. \A c \in Below(s, x) : f[c] = g[c]
      <4> HIDE DEF g, L
      <4> QED BY <2>2, <3>2
    <3> HIDE DEF g, L
    <3> QED BY <3>1, <3>3, GatherSame
  <2>4. g = [x \in L(h + 1) |-> Gather(g, Under(s, x)) \o <<x>>]
    <3>1. \A x \in L(h + 1) : Gather(f, Under(s, x)) \o <<x>> = Gather(g, Under(s, x)) \o <<x>>
      <4> HIDE DEF g, L
      <4> QED BY <2>3
    <3> HIDE DEF L
    <3> QED BY <3>1
  <2>5. Collects(s, g, L(h + 1))
    <3> HIDE DEF L, g
    <3> QED BY <2>4 DEF Collects
  <2> HIDE DEF L, g
  <2> QED BY <1>1, <2>5
<1>5. n + 1 \in T
  <2> HIDE DEF T
  <2>1. n + 1 \in Nat /\ \A i \in 0..((n + 1) - 1) : i \in T => i + 1 \in T
    BY <1>1, <1>4
  <2>2. \A i \in 0..(n + 1) : i \in T
    BY <1>3, <2>1, Gathers!UpTo
  <2> QED BY <1>1, <2>2
<1>6. L(n + 1) = D
  BY <1>1
<1> HIDE DEF L
<1> QED BY <1>5, <1>6

LEMMA RemovesType ==
    ASSUME NEW k, NEW n, Heights(k, n), NEW s, RecordsOK(k, s.rec),
           NEW f, Collects(s, f, DOMAIN s.rec), NEW r \in DOMAIN s.rec
    PROVE  f[r] \in Seq(DOMAIN s.rec)
<1> DEFINE D == DOMAIN s.rec
           T == {h \in 0..(n + 1) : \A x \in D : k[x] < h => f[x] \in Seq(D)}
<1>1. n \in Nat /\ \A x \in D : k[x] \in 0..n
  BY DEF Heights, RecordsOK
<1>2. \A x \in D : Under(s, x) \in Seq(Below(s, x)) /\ \A c \in Below(s, x) : c \in D /\ k[c] < k[x]
  BY UnderIs, Lower
<1>3. 0 \in T
  BY <1>1
<1>4. ASSUME NEW h \in 0..n, h \in T
      PROVE  h + 1 \in T
  <2>1. ASSUME NEW x \in D, k[x] < h + 1
        PROVE  f[x] \in Seq(D)
    <3>1. \A c \in Below(s, x) : c \in D /\ k[c] < h
      <4>1. \A c \in Below(s, x) : c \in D /\ k[c] \in 0..n /\ k[c] < k[x]
        BY <1>1, <1>2
      <4> QED BY <1>1, <2>1, <4>1
    <3>2. \A c \in Below(s, x) : f[c] \in Seq(D)
      BY <1>4, <3>1
    <3>3. Gather(f, Under(s, x)) \in Seq(D)
      <4> HIDE DEF D
      <4> QED BY <1>2, <3>2, GatherType
    <3>4. f[x] = Gather(f, Under(s, x)) \o <<x>>
      BY DEF Collects
    <3>5. <<x>> \in Seq(D)
      <4> HIDE DEF D
      <4> QED BY <2>1
    <3> HIDE DEF D
    <3> QED BY <3>3, <3>4, <3>5, ConcatProperties
  <2> QED BY <1>1, <2>1
<1>5. n + 1 \in T
  <2> HIDE DEF T
  <2>1. n + 1 \in Nat /\ \A i \in 0..((n + 1) - 1) : i \in T => i + 1 \in T
    BY <1>1, <1>4
  <2>2. \A i \in 0..(n + 1) : i \in T
    BY <1>3, <2>1, Gathers!UpTo
  <2> QED BY <1>1, <2>2
<1>6. k[r] < n + 1
  BY <1>1
<1> QED BY <1>5, <1>6

LEMMA RemovesOfIs ==
    ASSUME NEW k, NEW n, Heights(k, n), NEW s, RecordsOK(k, s.rec), NEW r \in DOMAIN s.rec
    PROVE  /\ RemovesOf(s, r) \in Seq(DOMAIN s.rec)
           /\ \E i \in 1..Len(RemovesOf(s, r)) : RemovesOf(s, r)[i] = r
<1> DEFINE D == DOMAIN s.rec
           f == CHOOSE g : Collects(s, g, D)
<1>1. Collects(s, f, D)
  BY RemovesExist
<1>2. RemovesOf(s, r) = f[r]
  BY DEF RemovesOf, Collects
<1> HIDE DEF f
<1>3. f[r] \in Seq(D)
  BY <1>1, RemovesType
<1>4. \A c \in Below(s, r) : f[c] \in Seq(D)
  BY <1>1, Lower, RemovesType
<1>5. Gather(f, Under(s, r)) \in Seq(D)
  <2>1. Under(s, r) \in Seq(Below(s, r))
    BY UnderIs
  <2> HIDE DEF D
  <2> QED BY <1>4, <2>1, GatherType
<1>6. f[r] = Gather(f, Under(s, r)) \o <<r>>
  BY <1>1 DEF Collects
<1> DEFINE a == Gather(f, Under(s, r))
<1>7. a \in Seq(D) /\ <<r>> \in Seq(D) /\ Len(<<r>>) = 1 /\ <<r>>[1] = r
  <2>1. r \in D
    OBVIOUS
  <2> HIDE DEF D
  <2> QED BY <1>5, <2>1
<1> HIDE DEF a
<1>8. Len(f[r]) = Len(a) + 1 /\ f[r][Len(a) + 1] = r /\ Len(a) \in Nat
  <2>1. f[r] = a \o <<r>>
    BY <1>6 DEF a
  <2> QED BY <1>7, <2>1
<1>9. Len(a) + 1 \in 1..Len(f[r])
  BY <1>8
<1> QED BY <1>2, <1>3, <1>8, <1>9

-----------------------------------------------------------------------------
(* An end in the middle of a handler.  w is what the handler does not       *)
(* touch: the heights, the two ends p and q, the records Q of the other     *)
(* one, the edits that were on their way to it before, the authors.         *)

WorldOK(w) ==
    /\ Heights(w.k, w.n) /\ w.before \in Seq(Edits(w.k)) /\ RecordsOK(w.k, w.Q)

EndTyped(k, s) ==
    /\ s \in [rec : {s.rec}, out : Seq(Edits(k)), sent : Seq(Seq(Edits(k))), warned : {FALSE}]
    /\ RecordsOK(k, s.rec)

Gone(w, s) == w.before \o Flat(s.sent) \o s.out

Midway(w, s, c) ==
    /\ EndTyped(w.k, s) /\ c \in Seq(Edits(w.k))
    /\ Pair(w.p, s.rec, c, w.q, w.Q, Gone(w, s), w.au)

LEMMA GoneType ==
    ASSUME NEW w, WorldOK(w), NEW s, EndTyped(w.k, s)
    PROVE  /\ Gone(w, s) \in Seq(Edits(w.k)) /\ Len(Gone(w, s)) \in Nat
           /\ Flat(s.sent) \in Seq(Edits(w.k))
           /\ w.before \o Flat(s.sent) \in Seq(Edits(w.k))
           /\ s.out \in Seq(Edits(w.k)) /\ s.sent \in Seq(Seq(Edits(w.k)))
<1>1. /\ s.out \in Seq(Edits(w.k)) /\ s.sent \in Seq(Seq(Edits(w.k)))
      /\ w.before \in Seq(Edits(w.k))
  BY DEF EndTyped, WorldOK
<1>2. Flat(s.sent) \in Seq(Edits(w.k))
  BY <1>1, FlatType
<1>3. w.before \o Flat(s.sent) \in Seq(Edits(w.k))
  BY <1>1, <1>2, ConcatProperties
<1>4. Gone(w, s) \in Seq(Edits(w.k))
  BY <1>1, <1>3, ConcatProperties DEF Gone
<1> QED BY <1>1, <1>2, <1>3, <1>4, LenProperties

LEMMA AppendJoin ==
    ASSUME NEW S, NEW a \in Seq(S), NEW b \in Seq(S), NEW e \in S
    PROVE  a \o Append(b, e) = Append(a \o b, e)
<1> DEFINE u == a \o Append(b, e)
           v == Append(a \o b, e)
<1>1. Append(b, e) \in Seq(S) /\ a \o b \in Seq(S)
  BY ConcatProperties
<1>2. u \in Seq(S) /\ v \in Seq(S) /\ Len(u) = Len(v)
  BY <1>1, ConcatProperties
<1>3. ASSUME NEW i \in 1..Len(u)
      PROVE  u[i] = v[i]
  <2>1. Len(a) \in Nat /\ Len(b) \in Nat /\ Len(a \o b) = Len(a) + Len(b)
        /\ Len(u) = Len(a) + Len(b) + 1
    BY <1>1, ConcatProperties
  <2>2. CASE i <= Len(a)
    BY <1>1, <2>1, <2>2, ConcatProperties
  <2>3. CASE i > Len(a) /\ i <= Len(a) + Len(b)
    BY <1>1, <2>1, <2>3, ConcatProperties
  <2>4. CASE i = Len(a) + Len(b) + 1
    BY <1>1, <2>1, <2>4, ConcatProperties
  <2> QED BY <2>1, <2>2, <2>3, <2>4
<1> HIDE DEF u, v
<1>4. u = v
  BY <1>2, <1>3, SeqEqual
<1> QED BY <1>4 DEF u, v

LEMMA AppendIsJoin ==
    ASSUME NEW S, NEW a \in Seq(S), NEW e \in S
    PROVE  Append(a, e) = a \o <<e>> /\ <<e>> \in Seq(S) /\ Append(a, e) \in Seq(S)
  OBVIOUS

LEMMA EndWithOut ==
    ASSUME NEW k, NEW s, EndTyped(k, s), NEW o \in Seq(Edits(k)), NEW t, t = [s EXCEPT !.out = o]
    PROVE  EndTyped(k, t) /\ t.rec = s.rec /\ t.sent = s.sent /\ t.out = o
<1> DEFINE S == Edits(k)
<1>1. o \in Seq(S) /\ RecordsOK(k, s.rec)
      /\ s \in [rec : {s.rec}, out : Seq(S), sent : Seq(Seq(S)), warned : {FALSE}]
  BY DEF EndTyped
<1> HIDE DEF S
<1>2. /\ t.rec = s.rec /\ t.sent = s.sent /\ t.out = o
      /\ t \in [rec : {t.rec}, out : Seq(S), sent : Seq(Seq(S)), warned : {FALSE}]
  BY <1>1
<1> QED BY <1>1, <1>2 DEF EndTyped, S

Sends(s, m, o) == [s EXCEPT !.sent = m, !.out = o]

LEMMA EndWithSent ==
    ASSUME NEW k, NEW s, EndTyped(k, s), NEW o \in Seq(Edits(k)), NEW m \in Seq(Seq(Edits(k))),
           NEW t, t = Sends(s, m, o)
    PROVE  EndTyped(k, t) /\ t.rec = s.rec /\ t.sent = m /\ t.out = o
<1> DEFINE S == Edits(k)
<1>1. o \in Seq(S) /\ m \in Seq(Seq(S)) /\ RecordsOK(k, s.rec)
      /\ s \in [rec : {s.rec}, out : Seq(S), sent : Seq(Seq(S)), warned : {FALSE}]
  BY DEF EndTyped
<1> HIDE DEF S
<1>2. /\ t.rec = s.rec /\ t.sent = m /\ t.out = o
      /\ t \in [rec : {t.rec}, out : Seq(S), sent : Seq(Seq(S)), warned : {FALSE}]
  BY <1>1 DEF Sends
<1> QED BY <1>1, <1>2 DEF EndTyped, S

LEMMA QueueGone ==
    ASSUME NEW w, WorldOK(w), NEW s, EndTyped(w.k, s), NEW e \in Edits(w.k)
    PROVE  /\ EndTyped(w.k, Queue(s, e)) /\ Queue(s, e).rec = s.rec
           /\ Longer(Gone(w, Queue(s, e)), Gone(w, s), e)
<1> DEFINE t == Queue(s, e)
           a == w.before \o Flat(s.sent)
<1>1. a \in Seq(Edits(w.k)) /\ s.out \in Seq(Edits(w.k)) /\ s.sent \in Seq(Seq(Edits(w.k)))
  BY GoneType
<1>2. t.rec = s.rec /\ t.sent = s.sent /\ t.out = Append(s.out, e) /\ EndTyped(w.k, t)
  <2>1. Append(s.out, e) \in Seq(Edits(w.k))
    BY <1>1, AppendIsJoin
  <2>2. t = [s EXCEPT !.out = Append(s.out, e)]
    BY DEF Queue
  <2> DEFINE o == Append(s.out, e)
  <2>3. o \in Seq(Edits(w.k)) /\ t = [s EXCEPT !.out = o]
    BY <2>1, <2>2
  <2> HIDE DEF t, o
  <2>4. EndTyped(w.k, t) /\ t.rec = s.rec /\ t.sent = s.sent /\ t.out = o
    BY <2>3, EndWithOut
  <2> QED BY <2>4 DEF o
<1> HIDE DEF t
<1>3. Gone(w, t) = a \o Append(s.out, e) /\ Gone(w, s) = a \o s.out
  BY <1>2 DEF Gone
<1> HIDE DEF a
<1>4. Gone(w, t) = Append(Gone(w, s), e)
  BY <1>1, <1>3, AppendJoin
<1>5. Gone(w, s) \in Seq(Edits(w.k))
  BY GoneType
<1>6. Longer(Append(Gone(w, s), e), Gone(w, s), e)
  BY <1>5, AppendIsLonger
<1> QED BY <1>2, <1>4, <1>6 DEF t

LEMMA FlushGone ==
    ASSUME NEW w, WorldOK(w), NEW s, EndTyped(w.k, s)
    PROVE  /\ EndTyped(w.k, FlushOut(s)) /\ FlushOut(s).rec = s.rec
           /\ Gone(w, FlushOut(s)) = Gone(w, s)
<1> DEFINE t == FlushOut(s)
           a == w.before \o Flat(s.sent)
<1>1. CASE s.out = <<>>
  BY <1>1 DEF FlushOut
<1>2. CASE s.out # <<>>
  <2>1. /\ a \in Seq(Edits(w.k)) /\ s.out \in Seq(Edits(w.k)) /\ s.sent \in Seq(Seq(Edits(w.k)))
        /\ Flat(s.sent) \in Seq(Edits(w.k)) /\ w.before \in Seq(Edits(w.k))
    BY GoneType DEF WorldOK
  <2>2. t.rec = s.rec /\ t.sent = Append(s.sent, s.out) /\ t.out = <<>> /\ EndTyped(w.k, t)
    <3>1. Append(s.sent, s.out) \in Seq(Seq(Edits(w.k))) /\ <<>> \in Seq(Edits(w.k))
      BY <2>1, AppendIsJoin, EmptySeq
    <3>2. t = [s EXCEPT !.sent = Append(s.sent, s.out), !.out = <<>>]
      BY <1>2 DEF FlushOut
    <3> DEFINE m == Append(s.sent, s.out)
               o == <<>>
    <3>3. m \in Seq(Seq(Edits(w.k))) /\ o \in Seq(Edits(w.k)) /\ t = Sends(s, m, o)
      BY <3>1, <3>2 DEF Sends
    <3> HIDE DEF t, m, o
    <3>4. EndTyped(w.k, t) /\ t.rec = s.rec /\ t.sent = m /\ t.out = o
      BY <3>3, EndWithSent
    <3> QED BY <3>4 DEF m, o
  <2> HIDE DEF t
  <2>3. Flat(t.sent) = Flat(s.sent) \o s.out
    <3>1. <<s.out>> \in Seq(Seq(Edits(w.k))) /\ t.sent = s.sent \o <<s.out>>
      <4>1. <<s.out>> \in Seq(Seq(Edits(w.k))) /\ Append(s.sent, s.out) = s.sent \o <<s.out>>
        BY <2>1, AppendIsJoin
      <4> QED BY <2>2, <4>1
    <3>2. Flat(t.sent) = Flat(s.sent) \o Flat(<<s.out>>)
      BY <2>1, <3>1, FlatJoin
    <3>3. Flat(<<s.out>>) = s.out
      BY <2>1, FlatOne
    <3> QED BY <3>2, <3>3
  <2>4. Gone(w, t) = (w.before \o (Flat(s.sent) \o s.out)) \o <<>>
    BY <2>2, <2>3 DEF Gone
  <2>5. w.before \o (Flat(s.sent) \o s.out) = Gone(w, s)
    <3> DEFINE x == w.before
               y == Flat(s.sent)
               z == s.out
    <3>1. x \in Seq(Edits(w.k)) /\ y \in Seq(Edits(w.k)) /\ z \in Seq(Edits(w.k))
      BY <2>1
    <3> HIDE DEF x, y, z
    <3>2. (x \o y) \o z = x \o (y \o z)
      BY <3>1, ConcatAssociative
    <3> QED BY <3>2 DEF x, y, z, Gone
  <2>6. Gone(w, s) \in Seq(Edits(w.k))
    BY GoneType
  <2>7. Gone(w, t) = Gone(w, s)
    BY <2>4, <2>5, <2>6, ConcatEmptySeq
  <2> QED BY <2>2, <2>7 DEF t
<1> QED BY <1>1, <1>2

Fewer(R, N) == DOMAIN N \subseteq DOMAIN R /\ \A x \in DOMAIN N : N[x] = R[x]

LEMMA WithoutOK ==
    ASSUME NEW k, NEW R, RecordsOK(k, R), NEW r
    PROVE  RecordsOK(k, Without(R, r)) /\ Fewer(R, Without(R, r)) /\ r \notin DOMAIN Without(R, r)
  BY DEF RecordsOK, Without, Fewer

LEMMA WithOK ==
    ASSUME NEW k, NEW R, RecordsOK(k, R), NEW r \in DOMAIN k, NEW y, RecordOK(k, r, y)
    PROVE  /\ RecordsOK(k, With(R, r, y)) /\ With(R, r, y)[r] = y
           /\ DOMAIN With(R, r, y) = DOMAIN R \cup {r}
           /\ \A x \in DOMAIN R : x # r => With(R, r, y)[x] = R[x]
<1> DEFINE N == With(R, r, y)
<1>1. /\ DOMAIN N = DOMAIN R \cup {r} /\ N[r] = y /\ N = [x \in DOMAIN N |-> N[x]]
      /\ \A x \in DOMAIN R : x # r => N[x] = R[x]
  BY DEF With
<1> HIDE DEF N
<1>2. \A x \in DOMAIN N : RecordOK(k, x, N[x])
  BY <1>1 DEF RecordsOK
<1>3. DOMAIN N \subseteq DOMAIN k
  BY <1>1 DEF RecordsOK
<1> QED BY <1>1, <1>2, <1>3 DEF RecordsOK, N

LEMMA RemoveOneMid ==
    ASSUME NEW w, WorldOK(w), NEW s, NEW c, Midway(w, s, c), NEW r \in DOMAIN w.k,
           NewsIn(c, r) = {}
    PROVE  Midway(w, RemoveOne(s, r), c) /\ RemoveOne(s, r).rec = Without(s.rec, r)
<1> DEFINE e == RemoveEdit(r)
           t == Queue(s, e)
           u == Drop(t, r)
<1>1. e \in Edits(w.k)
  BY DEF RemoveEdit, RemoveEdits, Edits
<1>2. EndTyped(w.k, s)
  BY DEF Midway
<1>3. EndTyped(w.k, t) /\ t.rec = s.rec /\ Longer(Gone(w, t), Gone(w, s), e)
  BY <1>1, <1>2, QueueGone
<1> HIDE DEF t, e
<1>4. /\ u.rec = Without(s.rec, r) /\ u.sent = t.sent /\ u.out = t.out /\ u.warned = t.warned
      /\ u = [t EXCEPT !.rec = Without(s.rec, r)]
  BY <1>3 DEF Drop, Without, EndTyped
<1>5. RecordsOK(w.k, Without(s.rec, r))
  BY <1>2, WithoutOK DEF EndTyped
<1> HIDE DEF u
<1>6. EndTyped(w.k, u)
  BY <1>3, <1>4, <1>5 DEF EndTyped
<1>7. Gone(w, u) = Gone(w, t)
  BY <1>4 DEF Gone
<1>8. Pair(w.p, Without(s.rec, r), c, w.q, w.Q, Gone(w, t), w.au)
  BY <1>3, OwnRemove DEF Midway, e
<1>9. Midway(w, u, c)
  BY <1>4, <1>6, <1>7, <1>8 DEF Midway
<1> QED BY <1>4, <1>9 DEF RemoveOne, u, t, e

RemoveStep(g, s, r) == RemoveOne(s, r)
Removes == INSTANCE FoldSteps WITH Op <- RemoveStep

LEMMA FewerTwice ==
    ASSUME NEW A, NEW B, NEW C, Fewer(A, B), Fewer(B, C)
    PROVE  Fewer(A, C) /\ \A x : x \notin DOMAIN B => x \notin DOMAIN C
  BY DEF Fewer

LEMMA RemoveAllMid ==
    ASSUME NEW w, WorldOK(w), NEW s, NEW c, Midway(w, s, c), NEW q \in Seq(DOMAIN w.k),
           \A i \in 1..Len(q) : NewsIn(c, q[i]) = {}
    PROVE  LET t == RemoveAll(s, q)
           IN /\ Midway(w, t, c) /\ Fewer(s.rec, t.rec)
              /\ \A i \in 1..Len(q) : q[i] \notin DOMAIN t.rec
<1>1. RemoveAll(s, q) = Removes!Loop(0, s, q)
  BY DEF RemoveAll, RemoveStep, FoldLeft, MapThenFoldSet, Max, Removes!Loop, Removes!FoldLeft,
         Removes!MapThenFoldSet, Removes!Max
<1>2. Len(q) \in Nat /\ DOMAIN q = 1..Len(q) /\ \A i \in 1..Len(q) : q[i] \in DOMAIN w.k
  OBVIOUS
<1>3. PICK f : /\ f[0] = s /\ f[Len(q)] = RemoveAll(s, q)
               /\ \A i \in 1..Len(q) : f[i] = RemoveOne(f[i - 1], q[i])
  <2>1. PICK f : Removes!IsLoop(f, Len(q), 0, s, q)
    BY <1>2, Removes!LoopSteps
  <2> QED BY <1>1, <2>1 DEF Removes!IsLoop, RemoveStep
<1> DEFINE T == {i \in 0..Len(q) : /\ Midway(w, f[i], c) /\ Fewer(s.rec, f[i].rec)
                                   /\ \A j \in 1..i : q[j] \notin DOMAIN f[i].rec}
<1>4. 0 \in T
  BY <1>2, <1>3 DEF Fewer
<1>5. ASSUME NEW i \in 0..(Len(q) - 1), i \in T
      PROVE  i + 1 \in T
  <2>1. i + 1 \in 1..Len(q) /\ i + 1 \in 0..Len(q) /\ (i + 1) - 1 = i
    BY <1>2
  <2>2. f[i + 1] = RemoveOne(f[i], q[i + 1]) /\ q[i + 1] \in DOMAIN w.k
        /\ NewsIn(c, q[i + 1]) = {}
    BY <1>2, <1>3, <2>1
  <2>3. Midway(w, f[i], c) /\ Fewer(s.rec, f[i].rec) /\ \A j \in 1..i : q[j] \notin DOMAIN f[i].rec
    BY <1>5
  <2>4. Midway(w, f[i + 1], c) /\ f[i + 1].rec = Without(f[i].rec, q[i + 1])
    BY <2>2, <2>3, RemoveOneMid
  <2>5. Fewer(f[i].rec, f[i + 1].rec) /\ q[i + 1] \notin DOMAIN f[i + 1].rec
    BY <2>4 DEF Without, Fewer
  <2>6. Fewer(s.rec, f[i + 1].rec) /\ \A j \in 1..i : q[j] \notin DOMAIN f[i + 1].rec
    BY <2>3, <2>5, FewerTwice
  <2>7. \A j \in 1..(i + 1) : q[j] \notin DOMAIN f[i + 1].rec
    BY <2>1, <2>5, <2>6
  <2> QED BY <2>1, <2>4, <2>6, <2>7
<1>6. \A i \in 0..Len(q) : i \in T
  <2> HIDE DEF T
  <2> QED BY <1>2, <1>4, <1>5, Removes!UpTo
<1>7. Len(q) \in T
  <2> HIDE DEF T
  <2> QED BY <1>2, <1>6
<1> QED BY <1>3, <1>7

LEMMA FlushMid ==
    ASSUME NEW w, WorldOK(w), NEW s, NEW c, Midway(w, s, c)
    PROVE  Midway(w, FlushOut(s), c) /\ FlushOut(s).rec = s.rec
<1>1. EndTyped(w.k, s)
  BY DEF Midway
<1>2. EndTyped(w.k, FlushOut(s)) /\ FlushOut(s).rec = s.rec /\ Gone(w, FlushOut(s)) = Gone(w, s)
  BY <1>1, FlushGone
<1> QED BY <1>2 DEF Midway

(* A node that an end has does not come to it.                              *)
LEMMA NewsOfKnown ==
    ASSUME NEW p, NEW R, NEW c, NEW q, NEW Q, NEW d, NEW au, Pair(p, R, c, q, Q, d, au),
           NEW x \in Rids, x \in DOMAIN R
    PROVE  NewsIn(c, x) = {}
<1>1. NewOnce(R, c, d, x)
  BY DEF Pair, Counts, CountsAt, Half
<1> QED BY <1>1 DEF NewOnce

LEMMA RemoveNodeMid ==
    ASSUME NEW w, WorldOK(w), NEW s, NEW c, Midway(w, s, c), NEW r \in DOMAIN s.rec
    PROVE  LET t == RemoveNode(s, r)
           IN Midway(w, t, c) /\ Fewer(s.rec, t.rec) /\ r \notin DOMAIN t.rec
<1> DEFINE q == RemovesOf(s, r)
           u == RemoveAll(s, q)
<1>1. RecordsOK(w.k, s.rec) /\ DOMAIN s.rec \subseteq DOMAIN w.k /\ Heights(w.k, w.n)
  BY DEF Midway, EndTyped, RecordsOK, WorldOK
<1>2. q \in Seq(DOMAIN s.rec) /\ \E i \in 1..Len(q) : q[i] = r
  BY <1>1, RemovesOfIs
<1>3. q \in Seq(DOMAIN w.k)
  <2> HIDE DEF q
  <2> QED BY <1>1, <1>2, SeqMonotonic
<1>7. \A i \in 1..Len(q) : NewsIn(c, q[i]) = {}
  <2> TAKE i \in 1..Len(q)
  <2>1. q[i] \in DOMAIN s.rec
    <3> HIDE DEF q
    <3> QED BY <1>2
  <2>2. q[i] \in Rids
    BY <1>1, <2>1 DEF Heights
  <2> HIDE DEF q
  <2>3. Pair(w.p, s.rec, c, w.q, w.Q, Gone(w, s), w.au)
    BY DEF Midway
  <2> QED BY <2>1, <2>2, <2>3, NewsOfKnown
<1> HIDE DEF q
<1>4. Midway(w, u, c) /\ Fewer(s.rec, u.rec) /\ \A i \in 1..Len(q) : q[i] \notin DOMAIN u.rec
  BY <1>3, <1>7, RemoveAllMid
<1>5. r \notin DOMAIN u.rec
  BY <1>2, <1>4
<1> HIDE DEF u
<1>6. Midway(w, FlushOut(u), c) /\ FlushOut(u).rec = u.rec
  BY <1>4, FlushMid
<1> QED BY <1>4, <1>5, <1>6 DEF RemoveNode, u, q

-----------------------------------------------------------------------------
(* One attribute of a name.                                                 *)

LEMMA FewerSingle ==
    ASSUME NEW A, NEW B, Fewer(A, B), SingleAttributes(A)
    PROVE  SingleAttributes(B)
  BY DEF Fewer, SingleAttributes

(* What is left is single when it would be without the node r, and r or its *)
(* rival is gone.                                                           *)
LEMMA RepositionMid ==
    ASSUME NEW w, WorldOK(w), NEW s, NEW c, Midway(w, s, c), NEW r \in DOMAIN s.rec,
           SingleAttributes(Without(s.rec, r))
    PROVE  LET t == Reposition(s, r)
           IN Midway(w, t, c) /\ Fewer(s.rec, t.rec) /\ SingleAttributes(t.rec)
<1> DEFINE R == s.rec
           alone == Without(R, r)
<1>1. /\ DOMAIN alone = DOMAIN R \ {r}
      /\ \A x \in DOMAIN alone : alone[x] = R[x]
  BY DEF Without
<1> HIDE DEF alone
<1>2. \A a, b \in DOMAIN R : /\ a # r /\ b # r /\ R[a].type = "attr" /\ R[b].type = "attr"
                             /\ Val(R[a]).parent = Val(R[b]).parent
                             => a = b
  <2> TAKE a, b \in DOMAIN R
  <2> HAVE /\ a # r /\ b # r /\ R[a].type = "attr" /\ R[b].type = "attr"
           /\ Val(R[a]).parent = Val(R[b]).parent
  <2>1. a \in DOMAIN alone /\ b \in DOMAIN alone /\ alone[a] = R[a] /\ alone[b] = R[b]
    BY <1>1
  <2> QED BY <2>1 DEF SingleAttributes, alone
<1>3. CASE Val(R[r]).parent \notin DOMAIN R \cup {Root}
  <2>1. Reposition(s, r) = RemoveNode(s, r)
    BY <1>3 DEF Reposition
  <2> DEFINE t == RemoveNode(s, r)
  <2>2. Midway(w, t, c) /\ Fewer(R, t.rec) /\ r \notin DOMAIN t.rec
    BY RemoveNodeMid
  <2> HIDE DEF t
  <2>3. Fewer(alone, t.rec)
    BY <1>1, <2>2 DEF Fewer
  <2>4. SingleAttributes(t.rec)
    BY <2>3, FewerSingle DEF alone
  <2> QED BY <2>1, <2>2, <2>4 DEF t
<1>4. CASE Val(R[r]).parent \in DOMAIN R \cup {Root} /\ Rivals(s, r) = {}
  <2>1. Reposition(s, r) = s
    BY <1>4 DEF Reposition
  <2>2. \A b \in DOMAIN R : R[r].type = "attr" /\ R[b].type = "attr" /\ Val(R[b]).parent = Val(R[r]).parent
                              => b = r
    BY <1>4 DEF Rivals, Attrs
  <2>3. SingleAttributes(R)
    BY <1>2, <2>2 DEF SingleAttributes
  <2> QED BY <2>1, <2>3 DEF Fewer
<1>5. CASE Val(R[r]).parent \in DOMAIN R \cup {Root} /\ Rivals(s, r) # {}
  <2> DEFINE rival == CHOOSE x \in Rivals(s, r) : TRUE
             m == IF r < rival THEN r ELSE rival
             t == RemoveNode(s, m)
  <2>1. Reposition(s, r) = t
    BY <1>5 DEF Reposition
  <2>2. rival \in Rivals(s, r)
    BY <1>5
  <2> HIDE DEF rival
  <2>3. /\ rival \in DOMAIN R /\ rival # r /\ R[rival].type = "attr" /\ R[r].type = "attr"
        /\ Val(R[rival]).parent = Val(R[r]).parent
    BY <2>2 DEF Rivals, Attrs
  <2>4. m \in {r, rival} /\ m \in DOMAIN R
    BY <2>3
  <2> HIDE DEF m
  <2>5. Midway(w, t, c) /\ Fewer(R, t.rec) /\ m \notin DOMAIN t.rec
    BY <2>4, RemoveNodeMid
  <2> HIDE DEF t
  <2>6. ASSUME NEW a \in DOMAIN t.rec, NEW b \in DOMAIN t.rec,
               t.rec[a].type = "attr", t.rec[b].type = "attr",
               Val(t.rec[a]).parent = Val(t.rec[b]).parent
        PROVE  a = b
    <3>1. /\ a \in DOMAIN R /\ b \in DOMAIN R /\ a # m /\ b # m
          /\ R[a].type = "attr" /\ R[b].type = "attr" /\ Val(R[a]).parent = Val(R[b]).parent
      BY <2>5, <2>6 DEF Fewer
    <3>2. CASE a # r /\ b # r
      BY <1>2, <3>1, <3>2
    <3>3. CASE a = r /\ b # r
      <4>1. b = rival
        BY <1>2, <2>3, <3>1, <3>3
      <4> QED BY <2>4, <3>1, <3>3, <4>1
    <3>4. CASE a # r /\ b = r
      <4>1. a = rival
        BY <1>2, <2>3, <3>1, <3>4
      <4> QED BY <2>4, <3>1, <3>4, <4>1
    <3> QED BY <3>2, <3>3, <3>4
  <2>7. SingleAttributes(t.rec)
    BY <2>6 DEF SingleAttributes
  <2> QED BY <2>1, <2>5, <2>7 DEF t, m, rival
<1> QED BY <1>3, <1>4, <1>5

-----------------------------------------------------------------------------
(* Handling the first of the edits that come.                               *)

LEMMA EditKinds ==
    ASSUME NEW k, NEW e \in Edits(k)
    PROVE  /\ e.rid \in DOMAIN k
           /\ \/ e.op = "new" /\ e \in NewEdits(k, e.rid)
              \/ e.op = "set" /\ e \in SetEdits(k, e.rid)
              \/ e.op = "remove" /\ e \in RemoveEdits(k, e.rid)
<1>1. PICK r \in DOMAIN k : e \in NewEdits(k, r) \cup SetEdits(k, r) \cup RemoveEdits(k, r)
  BY DEF Edits
<1>2. e \in NewEdits(k, r) => e.op = "new" /\ e.rid = r
  BY DEF NewEdits
<1>3. e \in SetEdits(k, r) => e.op = "set" /\ e.rid = r
  BY DEF SetEdits
<1>4. e \in RemoveEdits(k, r) => e.op = "remove" /\ e.rid = r
  BY DEF RemoveEdits
<1> QED BY <1>1, <1>2, <1>3, <1>4

LEMMA VersionsNat ==
    ASSUME NEW k, NEW c \in Seq(Edits(k)), NEW x
    PROVE  VersionsIn(c, x)
<1> SUFFICES ASSUME NEW i \in SetsIn(c, x)
             PROVE  c[i].version \in Nat
  BY DEF VersionsIn
<1> DEFINE e == c[i]
<1>1. e \in Edits(k) /\ e.op = "set"
  BY DEF SetsIn, IsSet
<1> HIDE DEF e
<1>2. e \in SetEdits(k, e.rid)
  BY <1>1, EditKinds
<1>3. e.version \in Nat
  BY <1>2 DEF SetEdits
<1> QED BY <1>3 DEF e

(* Records and what is known of the two ends, after one record changed.     *)
LEMMA RecordMid ==
    ASSUME NEW w, NEW s, NEW c, Midway(w, s, c), NEW r \in DOMAIN w.k,
           NEW y, RecordOK(w.k, r, y), NEW t,
           EndTyped(w.k, t), t.rec = With(s.rec, r, y), t.sent = s.sent, t.out = s.out,
           NEW d \in Seq(Edits(w.k)), Pair(w.p, With(s.rec, r, y), d, w.q, w.Q, Gone(w, s), w.au)
    PROVE  Midway(w, t, d)
  BY DEF Midway, Gone

WithRecord(s, r, y) == [s EXCEPT !.rec = With(s.rec, r, y)]

LEMMA WithRecordIs ==
    ASSUME NEW k, NEW s, EndTyped(k, s), NEW r \in DOMAIN k, NEW y, RecordOK(k, r, y)
    PROVE  LET t == WithRecord(s, r, y)
           IN /\ EndTyped(k, t) /\ t.rec = With(s.rec, r, y) /\ t.sent = s.sent /\ t.out = s.out
<1> DEFINE S == Edits(k)
           N == With(s.rec, r, y)
           t == WithRecord(s, r, y)
<1>1. RecordsOK(k, N)
  BY WithOK DEF EndTyped
<1>2. s \in [rec : {s.rec}, out : Seq(S), sent : Seq(Seq(S)), warned : {FALSE}]
  BY DEF EndTyped
<1> HIDE DEF S, N
<1>3. /\ t.rec = N /\ t.sent = s.sent /\ t.out = s.out
      /\ t \in [rec : {t.rec}, out : Seq(S), sent : Seq(Seq(S)), warned : {FALSE}]
  BY <1>2 DEF WithRecord, N
<1> HIDE DEF t
<1> QED BY <1>1, <1>3 DEF EndTyped, S, N, t

LEMMA WithoutSingle ==
    ASSUME NEW R, SingleAttributes(R), NEW r, NEW y
    PROVE  SingleAttributes(Without(With(R, r, y), r))
  BY DEF SingleAttributes, Without, With

LEMMA ApplyNewMid ==
    ASSUME NEW w, WorldOK(w), NEW s, NEW c, Midway(w, s, c), SingleAttributes(s.rec),
           NEW r \in DOMAIN w.k, c[1] \in NewEdits(w.k, r),
           NEW d \in Seq(Edits(w.k)), Shorter(d, c)
    PROVE  LET t == ApplyNew(s, c[1])
           IN Midway(w, t, d) /\ SingleAttributes(t.rec)
<1> DEFINE e == c[1]
           y == NewRecord(e)
           N == With(s.rec, r, y)
           u == WithRecord(s, r, y)
<1>1. RecordOK(w.k, r, y) /\ NewlyMade(e, r, y)
  BY NewRecordOK
<1>2. r \in Rids /\ EndTyped(w.k, s)
  BY DEF WorldOK, Heights, Midway
<1>3. Pair(w.p, s.rec, c, w.q, w.Q, Gone(w, s), w.au)
  BY DEF Midway
<1>4. e.rid = r
  BY DEF NewEdits
<1> HIDE DEF y
<1>5. r \notin DOMAIN s.rec /\ Pair(w.p, N, d, w.q, w.Q, Gone(w, s), w.au)
  BY <1>1, <1>2, <1>3, GetNew
<1> HIDE DEF u
<1>6. EndTyped(w.k, u) /\ u.rec = N /\ u.sent = s.sent /\ u.out = s.out
  BY <1>1, <1>2, WithRecordIs DEF u
<1>7. Midway(w, u, d)
  BY <1>1, <1>5, <1>6, RecordMid
<1>8. ApplyNew(s, e) = Reposition(u, r)
  <2>1. [x \in DOMAIN s.rec \cup {r} |-> IF x = r THEN NewRecord(e) ELSE s.rec[x]] = N
    BY DEF With, y
  <2>2. [s EXCEPT !.rec = [x \in DOMAIN @ \cup {r} |-> IF x = r THEN NewRecord(e) ELSE @[x]]] = u
    BY <2>1 DEF u, WithRecord
  <2> QED BY <1>4, <1>5, <2>2, Zenon DEF ApplyNew
<1>9. SingleAttributes(Without(N, r)) /\ r \in DOMAIN N
  BY WithoutSingle DEF With
<1> HIDE DEF N
<1>10. Midway(w, Reposition(u, r), d) /\ SingleAttributes(Reposition(u, r).rec)
  BY <1>6, <1>7, <1>9, RepositionMid
<1> QED BY <1>8, <1>10

LEMMA ApplyRemoveMid ==
    ASSUME NEW w, WorldOK(w), NEW s, NEW c, Midway(w, s, c), SingleAttributes(s.rec),
           NEW r \in DOMAIN w.k, c[1] \in RemoveEdits(w.k, r),
           NEW d \in Seq(Edits(w.k)), Shorter(d, c)
    PROVE  LET t == ApplyRemove(s, c[1])
           IN Midway(w, t, d) /\ SingleAttributes(t.rec)
<1>1. c[1].op = "remove" /\ c[1].rid = r
  BY DEF RemoveEdits
<1>2. Pair(w.p, s.rec, c, w.q, w.Q, Gone(w, s), w.au)
  BY DEF Midway
<1>3. /\ Pair(w.p, Without(s.rec, r), d, w.q, w.Q, Gone(w, s), w.au)
      /\ r \notin DOMAIN s.rec => Pair(w.p, s.rec, d, w.q, w.Q, Gone(w, s), w.au)
  <2>1. IsRemove(c[1], r)
    BY <1>1 DEF IsRemove
  <2> QED BY <1>2, <2>1, GetRemove
<1>4. CASE r \notin DOMAIN s.rec
  <2>1. ApplyRemove(s, c[1]) = s
    BY <1>1, <1>4 DEF ApplyRemove
  <2> QED BY <1>3, <1>4, <2>1 DEF Midway
<1>5. CASE r \in DOMAIN s.rec
  <2> DEFINE t == Drop(s, r)
             N == Without(s.rec, r)
             S == Edits(w.k)
  <2>1. ApplyRemove(s, c[1]) = t
    BY <1>1, <1>5 DEF ApplyRemove
  <2>2. RecordsOK(w.k, N) /\ Fewer(s.rec, N)
    BY WithoutOK DEF Midway, EndTyped
  <2>3. s \in [rec : {s.rec}, out : Seq(S), sent : Seq(Seq(S)), warned : {FALSE}]
    BY DEF Midway, EndTyped
  <2> HIDE DEF S
  <2>4. /\ t.rec = N /\ t.sent = s.sent /\ t.out = s.out
        /\ t \in [rec : {t.rec}, out : Seq(S), sent : Seq(Seq(S)), warned : {FALSE}]
    BY <2>3 DEF Drop, Without
  <2> HIDE DEF t, N
  <2>5. EndTyped(w.k, t)
    BY <2>2, <2>4 DEF EndTyped, S
  <2>6. Gone(w, t) = Gone(w, s)
    BY <2>4 DEF Gone
  <2>7. Midway(w, t, d)
    BY <1>3, <2>4, <2>5, <2>6 DEF Midway, N
  <2>8. SingleAttributes(t.rec)
    BY <2>2, <2>4, FewerSingle
  <2> QED BY <2>1, <2>7, <2>8 DEF t
<1> QED BY <1>4, <1>5

(* The end after a set-edit, before reposition().                           *)
SetIn(s, r, e) ==
    LET new == SetRecord(s.rec[r], e)
    IN [s EXCEPT !.rec[r] = new, !.warned = @ \/ e.version > new.version]

SamePlace(s, r, e) ==
    LET old == s.rec[r]
        new == SetRecord(old, e)
    IN Val(new).parent = Val(old).parent /\ Val(new).weight = Val(old).weight

LEMMA ApplySetIs ==
    ASSUME NEW s, NEW e, NEW r, e.rid = r, r \in DOMAIN s.rec
    PROVE  /\ SamePlace(s, r, e) => ApplySet(s, e) = SetIn(s, r, e)
           /\ ~SamePlace(s, r, e) => ApplySet(s, e) = Reposition(SetIn(s, r, e), r)
  BY Zenon DEF ApplySet, SetIn, SamePlace

LEMMA SetInIs ==
    ASSUME NEW k, NEW s, EndTyped(k, s), NEW r \in DOMAIN s.rec, NEW e \in SetEdits(k, r),
           e.version <= s.rec[r].version + 1
    PROVE  SetIn(s, r, e) = WithRecord(s, r, SetRecord(s.rec[r], e))
<1> DEFINE x == s.rec[r]
           y == SetRecord(x, e)
           N == With(s.rec, r, y)
           S == Edits(k)
<1>1. /\ RecordOK(k, r, x) /\ r \in DOMAIN k /\ s.rec = [a \in DOMAIN s.rec |-> s.rec[a]]
      /\ x.version \in Nat
  BY RecordValue DEF EndTyped, RecordsOK
<1>2. y.version = x.version + 1
  BY <1>1, SetRecordOK
<1>3. e.version \in Nat
  BY DEF SetEdits
<1>4. ~(e.version > y.version)
  BY <1>1, <1>2, <1>3
<1> HIDE DEF x, y
<1>5. s \in [rec : {s.rec}, out : Seq(S), sent : Seq(Seq(S)), warned : {FALSE}]
  BY DEF EndTyped
<1>6. [s.rec EXCEPT ![r] = y] = N
  BY <1>1 DEF With
<1> HIDE DEF S, N
<1>7. SetIn(s, r, e) = [s EXCEPT !.rec[r] = y, !.warned = @ \/ e.version > y.version]
  BY Zenon DEF SetIn, x, y
<1>8. [s EXCEPT !.rec[r] = y, !.warned = @ \/ e.version > y.version] = [s EXCEPT !.rec = N]
  BY <1>4, <1>5, <1>6
<1> QED BY <1>7, <1>8 DEF WithRecord, N, y, x

(* The records after a set-edit of a record are single if they were.        *)
LEMMA SetSingle ==
    ASSUME NEW R, SingleAttributes(R), NEW r \in DOMAIN R, NEW y, y.type = R[r].type,
           R[r].type = "attr" => Val(y).parent = Val(R[r]).parent
    PROVE  SingleAttributes(With(R, r, y))
<1> DEFINE N == With(R, r, y)
<1>1. /\ DOMAIN N = DOMAIN R
      /\ \A a \in DOMAIN R : N[a].type = R[a].type
      /\ \A a \in DOMAIN R : R[a].type = "attr" => Val(N[a]).parent = Val(R[a]).parent
  BY DEF With
<1> HIDE DEF N
<1>2. SingleAttributes(N)
  BY <1>1 DEF SingleAttributes
<1> QED BY <1>2 DEF N

LEMMA KindOfAttr ==
    ASSUME NEW k, NEW R, RecordsOK(k, R), NEW r \in DOMAIN R
    PROVE  R[r].type = "attr" <=> k[r] = 0
  BY RecordValue DEF Kind

LEMMA ApplySetMid ==
    ASSUME NEW w, WorldOK(w), NEW s, NEW c, Midway(w, s, c), SingleAttributes(s.rec),
           NEW r \in DOMAIN w.k, c[1] \in SetEdits(w.k, r),
           NEW d \in Seq(Edits(w.k)), Shorter(d, c)
    PROVE  LET t == ApplySet(s, c[1])
           IN Midway(w, t, d) /\ SingleAttributes(t.rec)
<1> DEFINE e == c[1]
<1>1. e.rid = r /\ IsSet(e, r)
  BY DEF SetEdits, IsSet
<1>2. /\ Pair(w.p, s.rec, c, w.q, w.Q, Gone(w, s), w.au)
      /\ EndTyped(w.k, s) /\ RecordsOK(w.k, s.rec) /\ r \in Rids /\ c \in Seq(Edits(w.k))
  BY DEF Midway, EndTyped, WorldOK, Heights
<1>3. CASE r \notin DOMAIN s.rec
  <2>1. ApplySet(s, e) = s
    BY <1>1, <1>3 DEF ApplySet
  <2>2. Pair(w.p, s.rec, d, w.q, w.Q, Gone(w, s), w.au)
    BY <1>1, <1>2, <1>3, GetLostSet
  <2> QED BY <1>2, <2>1, <2>2 DEF Midway
<1>4. CASE r \in DOMAIN s.rec
  <2> DEFINE x == s.rec[r]
             y == SetRecord(x, e)
             N == With(s.rec, r, y)
             u == WithRecord(s, r, y)
  <2>1. RecordOK(w.k, r, x) /\ x.version \in Nat /\ x.type = Kind(w.k, r)
    BY <1>2, <1>4, RecordValue
  <2>2. /\ RecordOK(w.k, r, y) /\ Taken(e, r, x, y)
        /\ w.k[r] = 0 => Val(y).parent = Val(x).parent
    BY <2>1, SetRecordOK
  <2>3. e.version <= x.version + 1
    <3>1. Counts(w.p, s.rec, c, w.q, w.Q, Gone(w, s), w.au)
      BY <1>2 DEF Pair
    <3> QED BY <1>1, <1>2, <1>4, <3>1, NotAhead
  <2>4. SetIn(s, r, e) = u
    BY <1>2, <1>4, <2>3, SetInIs
  <2> HIDE DEF y
  <2>5. Pair(w.p, N, d, w.q, w.Q, Gone(w, s), w.au)
    <3>1. VersionsIn(c, r)
      BY <1>2, VersionsNat
    <3> QED BY <1>2, <1>4, <2>2, <3>1, GetSet
  <2> HIDE DEF u
  <2>6. EndTyped(w.k, u) /\ u.rec = N /\ u.sent = s.sent /\ u.out = s.out
    BY <1>2, <2>2, WithRecordIs DEF u
  <2>7. Midway(w, u, d)
    BY <2>2, <2>5, <2>6, RecordMid
  <2>8. SingleAttributes(Without(N, r)) /\ r \in DOMAIN N
    BY WithoutSingle DEF With
  <2>9. CASE SamePlace(s, r, e)
    <3>1. ApplySet(s, e) = u
      BY <1>1, <1>4, <2>4, <2>9, ApplySetIs
    <3>2. SingleAttributes(N)
      <4>1. y.type = x.type
        BY <2>1, <2>2 DEF RecordOK
      <4>2. x.type = "attr" => Val(y).parent = Val(x).parent
        BY <1>2, <1>4, <2>2, KindOfAttr
      <4> QED BY <1>4, <4>1, <4>2, SetSingle
    <3> QED BY <2>6, <2>7, <3>1, <3>2
  <2>10. CASE ~SamePlace(s, r, e)
    <3>1. ApplySet(s, e) = Reposition(u, r)
      BY <1>1, <1>4, <2>4, <2>10, ApplySetIs
    <3> HIDE DEF N
    <3>2. Midway(w, Reposition(u, r), d) /\ SingleAttributes(Reposition(u, r).rec)
      BY <2>6, <2>7, <2>8, RepositionMid
    <3> QED BY <3>1, <3>2
  <2> QED BY <2>9, <2>10
<1> QED BY <1>3, <1>4

LEMMA ApplyEditMid ==
    ASSUME NEW w, WorldOK(w), NEW s, NEW c, Midway(w, s, c), SingleAttributes(s.rec),
           c[1] \in Edits(w.k), NEW d \in Seq(Edits(w.k)), Shorter(d, c)
    PROVE  LET t == ApplyEdit(s, c[1])
           IN Midway(w, t, d) /\ SingleAttributes(t.rec)
<1> DEFINE e == c[1]
           r == e.rid
<1>1. /\ r \in DOMAIN w.k
      /\ \/ e.op = "new" /\ e \in NewEdits(w.k, r)
         \/ e.op = "set" /\ e \in SetEdits(w.k, r)
         \/ e.op = "remove" /\ e \in RemoveEdits(w.k, r)
  BY EditKinds
<1> HIDE DEF r
<1>2. CASE e.op = "new" /\ e \in NewEdits(w.k, r)
  <2>1. ApplyEdit(s, e) = ApplyNew(s, e)
    BY <1>2 DEF ApplyEdit
  <2> QED BY <1>1, <1>2, <2>1, ApplyNewMid
<1>3. CASE e.op = "set" /\ e \in SetEdits(w.k, r)
  <2>1. ApplyEdit(s, e) = ApplySet(s, e)
    BY <1>3 DEF ApplyEdit
  <2> QED BY <1>1, <1>3, <2>1, ApplySetMid
<1>4. CASE e.op = "remove" /\ e \in RemoveEdits(w.k, r)
  <2>1. ApplyEdit(s, e) = ApplyRemove(s, e)
    BY <1>4 DEF ApplyEdit
  <2> QED BY <1>1, <1>4, <2>1, ApplyRemoveMid
<1> QED BY <1>1, <1>2, <1>3, <1>4

-----------------------------------------------------------------------------
(* Handling a message.                                                      *)

ApplyStep(g, s, e) == ApplyEdit(s, e)
Applies == INSTANCE FoldSteps WITH Op <- ApplyStep

LEMMA ApplyAllMid ==
    ASSUME NEW w, WorldOK(w), NEW m \in Seq(Edits(w.k)), NEW rest \in Seq(Edits(w.k)),
           NEW s, Midway(w, s, m \o rest), SingleAttributes(s.rec)
    PROVE  LET t == ApplyAll(s, m)
           IN Midway(w, t, rest) /\ SingleAttributes(t.rec)
<1> DEFINE S == Edits(w.k)
           u == m \o rest
           n == Len(m)
           c(i) == SubSeq(u, i + 1, Len(u))
<1>1. ApplyAll(s, m) = Applies!Loop(0, s, m)
  BY DEF ApplyAll, ApplyStep, FoldLeft, MapThenFoldSet, Max, Applies!Loop, Applies!FoldLeft,
         Applies!MapThenFoldSet, Applies!Max
<1>2. n \in Nat /\ DOMAIN m = 1..n /\ \A i \in 1..n : m[i] \in S
  BY LenProperties
<1>3. PICK f : /\ f[0] = s /\ f[n] = ApplyAll(s, m)
               /\ \A i \in 1..n : f[i] = ApplyEdit(f[i - 1], m[i])
  <2>1. PICK f : Applies!IsLoop(f, n, 0, s, m)
    <3> HIDE DEF n
    <3> QED BY <1>2, Applies!LoopSteps
  <2> QED BY <1>1, <2>1 DEF Applies!IsLoop, ApplyStep
<1>4. /\ u \in Seq(S) /\ Len(u) = n + Len(rest) /\ Len(rest) \in Nat /\ Len(u) \in Nat
      /\ \A i \in 1..n : u[i] = m[i]
      /\ \A i \in 1..Len(rest) : u[n + i] = rest[i]
  <2>1. u \in Seq(S) /\ Len(u) = n + Len(rest) /\ Len(rest) \in Nat
    BY ConcatProperties, LenProperties
  <2> QED BY <1>2, <2>1, ConcatProperties
<1> HIDE DEF u, n, S
<1>5. \A i \in 0..n : /\ c(i) \in Seq(S) /\ Len(c(i)) = Len(u) - i
                      /\ \A j \in 1..(Len(u) - i) : c(i)[j] = u[i + j]
  <2> TAKE i \in 0..n
  <2>1. i \in Nat /\ i <= Len(u) /\ i + 1 \in Int /\ Len(u) \in Int
    BY <1>2, <1>4
  <2>2. \A j \in (i + 1)..Len(u) : u[j] \in S
    BY <1>4, <2>1
  <2>3. /\ c(i) \in Seq(S) /\ Len(c(i)) = IF i + 1 <= Len(u) THEN Len(u) - (i + 1) + 1 ELSE 0
        /\ \A j \in 1..(Len(u) - (i + 1) + 1) : c(i)[j] = u[i + 1 + j - 1]
    BY <2>1, <2>2, SubSeqProperties
  <2>4. Len(c(i)) = Len(u) - i
    BY <2>1, <2>3
  <2>5. \A j \in 1..(Len(u) - i) : c(i)[j] = u[i + j]
    <3> TAKE j \in 1..(Len(u) - i)
    <3>1. Len(u) - (i + 1) + 1 = Len(u) - i /\ i + 1 + j - 1 = i + j
      BY <2>1
    <3> QED BY <2>3, <3>1
  <2> QED BY <2>3, <2>4, <2>5
<1>6. c(0) = u /\ c(n) = rest
  <2>1. 0 \in 0..n /\ n \in 0..n /\ Len(u) - n = Len(rest)
    BY <1>2, <1>4
  <2>2. c(0) \in Seq(S) /\ Len(c(0)) = Len(u) /\ \A j \in 1..Len(u) : c(0)[j] = u[j]
    BY <1>4, <1>5, <2>1
  <2>3. c(n) \in Seq(S) /\ Len(c(n)) = Len(rest) /\ \A j \in 1..Len(rest) : c(n)[j] = rest[j]
    BY <1>4, <1>5, <2>1
  <2>4. rest \in Seq(S)
    BY DEF S
  <2> HIDE DEF c
  <2>5. c(0) = u
    BY <1>4, <2>2, SeqEqual
  <2> QED BY <2>3, <2>4, <2>5, SeqEqual
<1> HIDE DEF c
<1> DEFINE T == {i \in 0..n : Midway(w, f[i], c(i)) /\ SingleAttributes(f[i].rec)}
<1>7. 0 \in T
  <2>1. Midway(w, f[0], c(0)) /\ SingleAttributes(f[0].rec)
    BY <1>3, <1>6 DEF u
  <2> QED BY <1>2, <2>1
<1>8. ASSUME NEW i \in 0..(n - 1), i \in T
      PROVE  i + 1 \in T
  <2>1. i + 1 \in 1..n /\ i + 1 \in 0..n /\ (i + 1) - 1 = i /\ i \in 0..n
    BY <1>2
  <2>2. f[i + 1] = ApplyEdit(f[i], m[i + 1]) /\ m[i + 1] \in S /\ u[i + 1] = m[i + 1]
    BY <1>2, <1>3, <1>4, <2>1
  <2>3. Shorter(c(i + 1), c(i)) /\ c(i + 1) \in Seq(S) /\ c(i)[1] = m[i + 1]
    <3>1. /\ Len(c(i)) = Len(u) - i /\ Len(c(i + 1)) = Len(u) - (i + 1) /\ c(i + 1) \in Seq(S)
          /\ \A j \in 1..(Len(u) - i) : c(i)[j] = u[i + j]
          /\ \A j \in 1..(Len(u) - (i + 1)) : c(i + 1)[j] = u[(i + 1) + j]
      BY <1>5, <2>1
    <3>2. i \in Nat /\ i + 1 <= Len(u) /\ Len(u) \in Nat
      BY <1>2, <1>4, <2>1
    <3>3. 1 \in 1..(Len(u) - i)
      BY <3>2
    <3>4. ASSUME NEW j \in 1..Len(c(i + 1))
          PROVE  c(i + 1)[j] = c(i)[j + 1]
      <4>1. j \in 1..(Len(u) - (i + 1)) /\ j + 1 \in 1..(Len(u) - i) /\ i + (j + 1) = (i + 1) + j
        BY <3>1, <3>2
      <4> QED BY <3>1, <4>1
    <3>5. Len(c(i + 1)) \in Nat /\ Len(c(i)) = Len(c(i + 1)) + 1
      <4>1. Len(c(i)) = Len(u) - i /\ Len(c(i + 1)) = Len(u) - (i + 1)
        BY <3>1
      <4>2. Len(u) - (i + 1) \in Nat /\ Len(u) - i = (Len(u) - (i + 1)) + 1
        BY <3>2
      <4> QED BY <4>1, <4>2
    <3>6. c(i)[1] = u[i + 1]
      BY <3>1, <3>3
    <3> QED BY <2>2, <3>1, <3>4, <3>5, <3>6 DEF Shorter
  <2> DEFINE a == c(i)
             b == c(i + 1)
  <2>4. Midway(w, f[i], a) /\ SingleAttributes(f[i].rec)
    BY <1>8
  <2>5. Shorter(b, a) /\ b \in Seq(Edits(w.k)) /\ a[1] \in Edits(w.k) /\ f[i + 1] = ApplyEdit(f[i], a[1])
    BY <2>2, <2>3 DEF S
  <2> HIDE DEF a, b
  <2>6. Midway(w, f[i + 1], b) /\ SingleAttributes(f[i + 1].rec)
    BY <2>4, <2>5, ApplyEditMid
  <2> QED BY <2>1, <2>6 DEF b
<1>9. n \in T
  <2> HIDE DEF T
  <2>1. \A i \in 0..n : i \in T
    BY <1>2, <1>7, <1>8, Applies!UpTo
  <2> QED BY <1>2, <2>1
<1> QED BY <1>3, <1>6, <1>9

-----------------------------------------------------------------------------
(* Edits of one's own.                                                      *)

LEMMA StaysPut ==
    ASSUME NEW s, NEW r, Val(s.rec[r]).parent \in DOMAIN s.rec \cup {Root}, Rivals(s, r) = {}
    PROVE  Reposition(s, r) = s
  BY DEF Reposition

LEMMA MakeSetMid ==
    ASSUME NEW w, WorldOK(w), NEW s, NEW c, Midway(w, s, c), SingleAttributes(s.rec),
           NEW r \in DOMAIN s.rec, w.p \in w.au[r], NEW e \in SetEdits(w.k, r),
           e.version = s.rec[r].version + 1,
           w.k[r] # 0 => Val(SetRecord(s.rec[r], e)).parent \in DOMAIN s.rec \cup {Root}
    PROVE  LET t == Make(s, e)
           IN /\ Midway(w, t, c) /\ SingleAttributes(t.rec)
              /\ t.rec = With(s.rec, r, SetRecord(s.rec[r], e))
<1> DEFINE x == s.rec[r]
           y == SetRecord(x, e)
           N == With(s.rec, r, y)
           u == WithRecord(s, r, y)
           t == Queue(u, e)
<1>1. e.rid = r /\ IsSet(e, r) /\ e.op = "set"
  BY DEF SetEdits, IsSet
<1>2. /\ Pair(w.p, s.rec, c, w.q, w.Q, Gone(w, s), w.au)
      /\ EndTyped(w.k, s) /\ RecordsOK(w.k, s.rec) /\ c \in Seq(Edits(w.k))
      /\ RecordsOK(w.k, w.Q)
  BY DEF Midway, EndTyped, WorldOK
<1>3. RecordOK(w.k, r, x) /\ x.version \in Nat /\ x.type = Kind(w.k, r) /\ r \in DOMAIN w.k
  BY <1>2, RecordValue
<1>4. /\ RecordOK(w.k, r, y) /\ Taken(e, r, x, y)
      /\ w.k[r] = 0 => Val(y).parent = Val(x).parent /\ Val(y).weight = Val(x).weight
  BY <1>3, SetRecordOK
<1>5. SetInOrder(e, r, x, y)
  BY <1>4 DEF Taken
<1>6. SetIn(s, r, e) = u
  <2>1. e.version <= x.version + 1
    BY <1>3
  <2> QED BY <1>2, <2>1, SetInIs
<1>7. ~SamePlace(s, r, e) => w.k[r] # 0
  BY <1>4 DEF SamePlace
<1>8. w.k[r] # 0 => Val(y).parent \in DOMAIN s.rec \cup {Root}
  OBVIOUS
<1> HIDE DEF y, u
<1>9. EndTyped(w.k, u) /\ u.rec = N /\ u.sent = s.sent /\ u.out = s.out
  BY <1>2, <1>3, <1>4, WithRecordIs DEF u
<1>10. N[r] = y /\ DOMAIN N = DOMAIN s.rec
  BY DEF With
<1>11. y.type = x.type
  BY <1>3, <1>4 DEF RecordOK
<1> HIDE DEF N
<1>12. ApplySet(s, e) = u
  <2>1. CASE SamePlace(s, r, e)
    BY <1>1, <1>6, <2>1, ApplySetIs
  <2>2. CASE ~SamePlace(s, r, e)
    <3>1. u.rec[r].type # "attr"
      BY <1>3, <1>7, <1>9, <1>10, <1>11, <2>2 DEF Kind
    <3>2. Rivals(u, r) = {}
      BY <3>1 DEF Rivals
    <3>3. Val(u.rec[r]).parent \in DOMAIN u.rec \cup {Root}
      BY <1>7, <1>8, <1>9, <1>10, <2>2
    <3>4. Reposition(u, r) = u
      BY <3>2, <3>3, StaysPut
    <3> QED BY <1>1, <1>6, <2>2, <3>4, ApplySetIs
  <2> QED BY <2>1, <2>2
<1>13. Make(s, e) = t
  BY <1>1, <1>12 DEF Make, ApplyEdit
<1>14. SingleAttributes(N)
  <2>1. x.type = "attr" => Val(y).parent = Val(x).parent
    BY <1>3, <1>4 DEF Kind
  <2> QED BY <1>11, <2>1, SetSingle DEF N
<1>15. e \in Edits(w.k)
  BY <1>3 DEF Edits
<1>16. EndTyped(w.k, t) /\ t.rec = N /\ Longer(Gone(w, t), Gone(w, u), e)
  BY <1>9, <1>15, QueueGone
<1>17. Gone(w, u) = Gone(w, s)
  BY <1>9 DEF Gone
<1>18. Pair(w.p, N, c, w.q, w.Q, Gone(w, t), w.au)
  <2>1. VersionsIn(c, r) /\ Len(c) \in Nat
    BY <1>2, VersionsNat, LenProperties
  <2>2. VersionIn(w.Q, r) \in Nat
    BY <1>2, RecordValue DEF VersionIn
  <2>3. Longer(Gone(w, t), Gone(w, s), e)
    BY <1>16, <1>17
  <2>4. Reached(s.rec[r])
    BY <1>3, RecordReached
  <2> HIDE DEF t
  <2> QED BY <1>2, <1>5, <2>1, <2>2, <2>3, <2>4, OwnSet DEF N
<1>19. Midway(w, t, c)
  BY <1>2, <1>16, <1>18 DEF Midway
<1> HIDE DEF t
<1> QED BY <1>13, <1>14, <1>16, <1>19 DEF N, y

LEMMA MakeNewMid ==
    ASSUME NEW w, WorldOK(w), NEW s, NEW c, Midway(w, s, c), SingleAttributes(s.rec),
           NEW r \in DOMAIN w.k, r \notin DOMAIN s.rec, Unknown(c, w.Q, Gone(w, s), r),
           NEW e \in NewEdits(w.k, r), e.val.parent \in DOMAIN s.rec \cup {Root},
           w.k[r] = 0 => Attrs(s, e.val.parent) = {}
    PROVE  LET t == Make(s, e)
           IN /\ Midway(w, t, c) /\ SingleAttributes(t.rec)
              /\ t.rec = With(s.rec, r, NewRecord(e))
<1> DEFINE y == NewRecord(e)
           N == With(s.rec, r, y)
           u == WithRecord(s, r, y)
           t == Queue(u, e)
<1>1. e.rid = r /\ e.op = "new"
  BY DEF NewEdits
<1>2. /\ Pair(w.p, s.rec, c, w.q, w.Q, Gone(w, s), w.au)
      /\ EndTyped(w.k, s) /\ RecordsOK(w.k, s.rec) /\ c \in Seq(Edits(w.k))
  BY DEF Midway, EndTyped
<1>3. /\ RecordOK(w.k, r, y) /\ NewlyMade(e, r, y)
      /\ Val(y) = e.val /\ y.type = Kind(w.k, r) /\ e \in Edits(w.k)
  BY NewRecordOK
<1>4. ApplyNew(s, e) = Reposition(u, r)
  <2>1. [x \in DOMAIN s.rec \cup {r} |-> IF x = r THEN NewRecord(e) ELSE s.rec[x]] = N
    BY DEF With
  <2>2. [s EXCEPT !.rec = [x \in DOMAIN @ \cup {r} |-> IF x = r THEN NewRecord(e) ELSE @[x]]] = u
    BY <2>1 DEF WithRecord
  <2> HIDE DEF u, N, y
  <2> QED BY <1>1, <2>2, Zenon DEF ApplyNew
<1> HIDE DEF y, u
<1>5. EndTyped(w.k, u) /\ u.rec = N /\ u.sent = s.sent /\ u.out = s.out
  BY <1>2, <1>3, WithRecordIs DEF u
<1>6. /\ N[r] = y /\ DOMAIN N = DOMAIN s.rec \cup {r}
      /\ \A x \in DOMAIN s.rec : x # r => N[x] = s.rec[x]
  BY DEF With
<1> HIDE DEF N
<1>7. Rivals(u, r) = {}
  <2>1. CASE w.k[r] # 0
    <3>1. u.rec[r].type # "attr"
      BY <1>3, <1>5, <1>6, <2>1 DEF Kind
    <3> QED BY <3>1 DEF Rivals
  <2>2. CASE w.k[r] = 0
    <3>1. ASSUME NEW x \in Attrs(u, Val(u.rec[r]).parent), x # r
          PROVE  x \in Attrs(s, e.val.parent)
      <4>1. /\ x \in DOMAIN s.rec /\ u.rec[x] = s.rec[x] /\ u.rec[x].type = "attr"
            /\ Val(u.rec[x]).parent = e.val.parent
        BY <1>3, <1>5, <1>6, <3>1 DEF Attrs
      <4> QED BY <4>1 DEF Attrs
    <3>2. Attrs(u, Val(u.rec[r]).parent) \ {r} = {}
      BY <2>2, <3>1
    <3> QED BY <3>2 DEF Rivals
  <2> QED BY <2>1, <2>2
<1>8. Reposition(u, r) = u
  <2>1. Val(u.rec[r]).parent \in DOMAIN u.rec \cup {Root}
    BY <1>3, <1>5, <1>6
  <2> QED BY <1>7, <2>1, StaysPut
<1>9. Make(s, e) = t
  BY <1>1, <1>4, <1>8 DEF Make, ApplyEdit
<1>10. SingleAttributes(N)
  <2>1. ASSUME NEW x \in DOMAIN s.rec, s.rec[x].type = "attr", N[r].type = "attr",
               Val(s.rec[x]).parent = Val(N[r]).parent
        PROVE  FALSE
    <3>1. w.k[r] = 0
      BY <1>3, <1>6, <2>1 DEF Kind
    <3>2. x \in Attrs(s, e.val.parent)
      BY <1>3, <1>6, <2>1 DEF Attrs
    <3> QED BY <3>1, <3>2
  <2> QED BY <1>6, <2>1 DEF SingleAttributes
<1>11. EndTyped(w.k, t) /\ t.rec = N /\ Longer(Gone(w, t), Gone(w, u), e)
  BY <1>3, <1>5, QueueGone
<1>12. Gone(w, u) = Gone(w, s)
  BY <1>5 DEF Gone
<1>13. Pair(w.p, N, c, w.q, w.Q, Gone(w, t), w.au)
  <2>1. Longer(Gone(w, t), Gone(w, s), e)
    BY <1>11, <1>12
  <2>2. Len(c) \in Nat
    BY <1>2, LenProperties
  <2> HIDE DEF t
  <2> QED BY <1>2, <1>3, <2>1, <2>2, OwnNew DEF N
<1>14. Midway(w, t, c)
  BY <1>2, <1>11, <1>13 DEF Midway
<1> HIDE DEF t
<1> QED BY <1>9, <1>10, <1>11, <1>14 DEF N, y

-----------------------------------------------------------------------------
(* Weights.                                                                 *)

LEMMA LastWeightInt ==
    ASSUME NEW k, NEW n, Heights(k, n), NEW s, RecordsOK(k, s.rec), NEW parent
    PROVE  LastWeight(s, parent) \in Int
<1> DEFINE q == Children(s, parent)
<1>1. q \in Seq(Elements(s, parent))
  BY ChildrenAre
<1>2. Elements(s, parent) \subseteq DOMAIN s.rec
  BY DEF Elements
<1>3. \A x \in Elements(s, parent) : WeightOf(s, x) \in Int
  BY <1>2, RecordValue DEF WeightOf
<1>4. One \in Int
  BY SxeAssumption
<1> HIDE DEF q
<1>5. CASE q = <<>>
  BY <1>5 DEF LastWeight, q
<1>6. CASE q # <<>>
  <2>1. Last(q) \in Elements(s, parent)
    BY <1>1, <1>6 DEF Last
  <2>2. WeightOf(s, Last(q)) + One \in Int
    BY <1>3, <1>4, <2>1
  <2> QED BY <1>6, <2>2 DEF LastWeight, q
<1> QED BY <1>5, <1>6

LEMMA AfterWeightInt ==
    ASSUME NEW k, NEW n, Heights(k, n), NEW s, RecordsOK(k, s.rec), NEW parent, NEW ref
    PROVE  AfterWeight(s, parent, ref) \in Int
<1> DEFINE q == Children(s, parent)
           i == CHOOSE j \in 1..Len(q) : q[j] = ref
           E == Elements(s, parent)
<1>1. q \in Seq(E) /\ \A x \in E : \E j \in 1..Len(q) : q[j] = x
  BY ChildrenAre
<1>2. E \subseteq DOMAIN s.rec
  BY DEF Elements
<1>3. \A x \in E : WeightOf(s, x) \in Int
  BY <1>2, RecordValue DEF WeightOf
<1>4. LastWeight(s, parent) \in Int
  BY LastWeightInt
<1>5. AfterWeight(s, parent, ref) =
        IF ref \in E /\ ref # Last(q) THEN (WeightOf(s, ref) + WeightOf(s, q[i + 1])) \div 2
        ELSE LastWeight(s, parent)
  BY DEF AfterWeight
<1> HIDE DEF q, E
<1>6. CASE ref \in E /\ ref # Last(q)
  <2>1. i \in 1..Len(q) /\ q[i] = ref
    BY <1>1, <1>6
  <2> HIDE DEF i
  <2>2. Len(q) \in Nat /\ i # Len(q)
    BY <1>1, <1>6, <2>1 DEF Last
  <2>3. i + 1 \in 1..Len(q)
    BY <2>1, <2>2
  <2>4. q[i + 1] \in E
    BY <1>1, <2>3
  <2>5. WeightOf(s, ref) \in Int /\ WeightOf(s, q[i + 1]) \in Int
    BY <1>3, <1>6, <2>4
  <2> DEFINE a == WeightOf(s, ref)
             b == WeightOf(s, q[i + 1])
  <2> HIDE DEF a, b
  <2>6. (a + b) \div 2 \in Int
    BY <2>5 DEF a, b
  <2> QED BY <1>5, <1>6, <2>6 DEF a, b
<1>7. CASE ~(ref \in E /\ ref # Last(q))
  BY <1>4, <1>5, <1>7
<1> QED BY <1>6, <1>7

LEMMA BeforeWeightInt ==
    ASSUME NEW k, NEW n, Heights(k, n), NEW s, RecordsOK(k, s.rec), NEW parent,
           NEW ref \in Elements(s, parent)
    PROVE  BeforeWeight(s, parent, ref) \in Int
<1> DEFINE q == Children(s, parent)
           i == CHOOSE j \in 1..Len(q) : q[j] = ref
<1>1. WeightOf(s, ref) - One \in Int
  <2>1. ref \in DOMAIN s.rec
    BY DEF Elements
  <2>2. WeightOf(s, ref) \in Int
    BY <2>1, RecordValue DEF WeightOf
  <2> QED BY <2>2, SxeAssumption
<1>2. AfterWeight(s, parent, q[i - 1]) \in Int
  BY AfterWeightInt
<1>3. BeforeWeight(s, parent, ref) =
        IF ref = Head(q) THEN WeightOf(s, ref) - One ELSE AfterWeight(s, parent, q[i - 1])
  BY DEF BeforeWeight
<1> QED BY <1>1, <1>2, <1>3

-----------------------------------------------------------------------------
(* Moving a node, changing a value.                                         *)

LEMMA MoveChanges ==
    ASSUME NEW k, NEW r, k[r] # 0, NEW parent \in Places(k, r), NEW weight \in Int,
           NEW keys \in SUBSET {"parent", "weight"}, keys # {}
    PROVE  LET to == [parent |-> parent, weight |-> weight]
           IN [f \in keys |-> to[f]] \in Changes(k, r)
<1> DEFINE to == [parent |-> parent, weight |-> weight]
           ch == [f \in keys |-> to[f]]
           P == Places(k, r)
<1>1. to.parent \in P /\ to.weight \in Int /\ to.parent = parent
  OBVIOUS
<1> HIDE DEF to, P
<1>2. CASE keys = {"parent"}
  <2>1. ch \in [parent : P]
    BY <1>1, <1>2
  <2> QED BY <2>1 DEF Changes, P, to
<1>3. CASE keys = {"weight"}
  <2>1. ch \in [weight : Int]
    BY <1>1, <1>3
  <2> QED BY <2>1 DEF Changes, P, to
<1>4. CASE keys = {"parent", "weight"}
  <2>1. ch \in [parent : P, weight : Int]
    BY <1>1, <1>4
  <2> QED BY <2>1 DEF Changes, P, to
<1>5. keys = {"parent"} \/ keys = {"weight"} \/ keys = {"parent", "weight"}
  OBVIOUS
<1> QED BY <1>2, <1>3, <1>4, <1>5

LEMMA MoveToMid ==
    ASSUME NEW w, WorldOK(w), NEW s, NEW c, Midway(w, s, c), SingleAttributes(s.rec),
           NEW r \in DOMAIN s.rec, w.k[r] # 0, w.p \in w.au[r],
           NEW parent \in Places(w.k, r), parent \in DOMAIN s.rec \cup {Root}, NEW weight \in Int
    PROVE  LET t == MoveTo(s, r, parent, weight)
           IN /\ Midway(w, t, c) /\ SingleAttributes(t.rec) /\ DOMAIN t.rec = DOMAIN s.rec
              /\ \A x \in DOMAIN s.rec : x # r => t.rec[x] = s.rec[x]
<1> DEFINE v == Val(s.rec[r])
           to == [parent |-> parent, weight |-> weight]
           keys == {f \in {"parent", "weight"} : to[f] # v[f]}
           ch == [f \in keys |-> to[f]]
           e == SetEdit(r, s.rec[r].version + 1, ch)
           y == SetRecord(s.rec[r], e)
           t == MoveTo(s, r, parent, weight)
<1>1. CASE keys = {}
  <2>1. t = s
    BY <1>1 DEF MoveTo
  <2> HIDE DEF t
  <2> QED BY <2>1 DEF t
<1>2. CASE keys # {}
  <2>1. t = Make(s, e)
    BY <1>2 DEF MoveTo
  <2>2. RecordOK(w.k, r, s.rec[r]) /\ s.rec[r].version \in Nat /\ r \in DOMAIN w.k
    BY RecordValue DEF Midway, EndTyped
  <2>3. ch \in Changes(w.k, r)
    <3>1. keys \in SUBSET {"parent", "weight"}
      OBVIOUS
    <3> HIDE DEF keys
    <3> QED BY <1>2, <3>1, MoveChanges
  <2>4. "parent" \in DOMAIN ch => ch.parent = parent
    OBVIOUS
  <2>5. "parent" \notin DOMAIN ch => Val(s.rec[r]).parent = parent
    OBVIOUS
  <2> HIDE DEF ch
  <2>6. e \in SetEdits(w.k, r) /\ e.version = s.rec[r].version + 1 /\ e.changes = ch
    BY <2>2, <2>3 DEF SetEdit, SetEdits
  <2> HIDE DEF e
  <2>7. Val(y).parent = IF "parent" \in DOMAIN e.changes THEN e.changes.parent
                        ELSE Val(s.rec[r]).parent
    BY <2>2, <2>6, SetRecordOK
  <2>8. Val(y).parent = parent
    BY <2>4, <2>5, <2>6, <2>7
  <2> HIDE DEF y, t
  <2>9. Midway(w, t, c) /\ SingleAttributes(t.rec) /\ t.rec = With(s.rec, r, y)
    BY <2>1, <2>6, <2>8, MakeSetMid DEF y
  <2>10. /\ DOMAIN t.rec = DOMAIN s.rec
         /\ \A x \in DOMAIN s.rec : x # r => t.rec[x] = s.rec[x]
    BY <2>9 DEF With
  <2> QED BY <2>9, <2>10 DEF t
<1> QED BY <1>1, <1>2

LEMMA SetValueMid ==
    ASSUME NEW w, WorldOK(w), NEW s, NEW c, Midway(w, s, c), SingleAttributes(s.rec),
           NEW r \in DOMAIN s.rec, w.k[r] = 0, w.p \in w.au[r], NEW value \in Data
    PROVE  LET t == SetValue(s, r, value)
           IN Midway(w, t, c) /\ SingleAttributes(t.rec)
<1> DEFINE ch == [data |-> value]
           e == SetEdit(r, s.rec[r].version + 1, ch)
           t == SetValue(s, r, value)
<1>1. CASE Val(s.rec[r]).data = value
  BY <1>1 DEF SetValue
<1>2. CASE Val(s.rec[r]).data # value
  <2>1. t = Make(s, e)
    BY <1>2 DEF SetValue
  <2>2. s.rec[r].version \in Nat /\ r \in DOMAIN w.k
    BY RecordValue DEF Midway, EndTyped
  <2>3. ch \in Changes(w.k, r)
    BY DEF Changes
  <2> HIDE DEF ch
  <2>4. e \in SetEdits(w.k, r) /\ e.version = s.rec[r].version + 1
    BY <2>2, <2>3 DEF SetEdit, SetEdits
  <2> HIDE DEF e, t
  <2>5. Midway(w, t, c) /\ SingleAttributes(t.rec)
    BY <2>1, <2>4, MakeSetMid
  <2> QED BY <2>5 DEF t
<1> QED BY <1>1, <1>2

-----------------------------------------------------------------------------
(* Moving several nodes.                                                    *)

(* The nodes of S are elements here that the user p may move to parent.     *)
Movable(w, s, S, parent) ==
    /\ parent \in DOMAIN s.rec \cup {Root}
    /\ \A x \in S : /\ x \in DOMAIN s.rec /\ w.k[x] # 0 /\ w.p \in w.au[x]
                    /\ parent \in Places(w.k, x)

IntoStep(g, s, r) == MoveInto(g, s, r)
MovesInto == INSTANCE FoldSteps WITH Op <- IntoStep

BehindStep(g, s, r) == MoveBehind(g, s, r)
MovesBehind == INSTANCE FoldSteps WITH Op <- BehindStep

LEMMA MoveIntoMid ==
    ASSUME NEW w, WorldOK(w), NEW s, NEW c, Midway(w, s, c), SingleAttributes(s.rec),
           NEW S, NEW g, Movable(w, s, S, g), NEW r \in S
    PROVE  LET t == MoveInto(g, s, r)
           IN Midway(w, t, c) /\ SingleAttributes(t.rec) /\ DOMAIN t.rec = DOMAIN s.rec
<1>1. LastWeight(s, g) \in Int
  BY LastWeightInt DEF WorldOK, Midway, EndTyped
<1>2. /\ r \in DOMAIN s.rec /\ w.k[r] # 0 /\ w.p \in w.au[r]
      /\ g \in Places(w.k, r) /\ g \in DOMAIN s.rec \cup {Root}
  BY DEF Movable
<1> QED BY <1>1, <1>2, MoveToMid DEF MoveInto

LEMMA MoveBehindMid ==
    ASSUME NEW w, WorldOK(w), NEW s, NEW c, Midway(w, s, c), SingleAttributes(s.rec),
           NEW S, NEW g, Movable(w, s, S, Root), NEW r \in S
    PROVE  LET t == MoveBehind(g, s, r)
           IN Midway(w, t, c) /\ SingleAttributes(t.rec) /\ DOMAIN t.rec = DOMAIN s.rec
<1>1. AfterWeight(s, Root, g) \in Int
  BY AfterWeightInt DEF WorldOK, Midway, EndTyped
<1>2. /\ r \in DOMAIN s.rec /\ w.k[r] # 0 /\ w.p \in w.au[r]
      /\ Root \in Places(w.k, r) /\ Root \in DOMAIN s.rec \cup {Root}
  BY DEF Movable
<1> QED BY <1>1, <1>2, MoveToMid DEF MoveBehind

LEMMA MoveAllIntoMid ==
    ASSUME NEW w, WorldOK(w), NEW s, NEW c, Midway(w, s, c), SingleAttributes(s.rec),
           NEW S, NEW g, Movable(w, s, S, g), NEW q \in Seq(S)
    PROVE  LET t == MoveAllInto(g, s, q)
           IN Midway(w, t, c) /\ SingleAttributes(t.rec) /\ DOMAIN t.rec = DOMAIN s.rec
<1>1. MoveAllInto(g, s, q) = MovesInto!Loop(g, s, q)
  BY DEF MoveAllInto, IntoStep, FoldLeft, MapThenFoldSet, Max, MovesInto!Loop, MovesInto!FoldLeft,
         MovesInto!MapThenFoldSet, MovesInto!Max
<1>2. Len(q) \in Nat /\ DOMAIN q = 1..Len(q) /\ \A i \in 1..Len(q) : q[i] \in S
  BY LenProperties
<1>3. PICK f : /\ f[0] = s /\ f[Len(q)] = MoveAllInto(g, s, q)
               /\ \A i \in 1..Len(q) : f[i] = MoveInto(g, f[i - 1], q[i])
  <2>1. PICK f : MovesInto!IsLoop(f, Len(q), g, s, q)
    BY <1>2, MovesInto!LoopSteps
  <2> QED BY <1>1, <2>1 DEF MovesInto!IsLoop, IntoStep
<1> DEFINE T == {i \in 0..Len(q) : /\ Midway(w, f[i], c) /\ SingleAttributes(f[i].rec)
                                   /\ DOMAIN f[i].rec = DOMAIN s.rec}
<1>4. 0 \in T
  BY <1>2, <1>3
<1>5. ASSUME NEW i \in 0..(Len(q) - 1), i \in T
      PROVE  i + 1 \in T
  <2>1. i + 1 \in 1..Len(q) /\ i + 1 \in 0..Len(q) /\ (i + 1) - 1 = i
    BY <1>2
  <2>2. f[i + 1] = MoveInto(g, f[i], q[i + 1]) /\ q[i + 1] \in S
    BY <1>2, <1>3, <2>1
  <2>3. Midway(w, f[i], c) /\ SingleAttributes(f[i].rec) /\ DOMAIN f[i].rec = DOMAIN s.rec
    BY <1>5
  <2>4. Movable(w, f[i], S, g)
    BY <2>3 DEF Movable
  <2>5. /\ Midway(w, f[i + 1], c) /\ SingleAttributes(f[i + 1].rec)
        /\ DOMAIN f[i + 1].rec = DOMAIN f[i].rec
    BY <2>2, <2>3, <2>4, MoveIntoMid
  <2> QED BY <2>1, <2>3, <2>5
<1>6. Len(q) \in T
  <2> HIDE DEF T
  <2>1. \A i \in 0..Len(q) : i \in T
    BY <1>2, <1>4, <1>5, MovesInto!UpTo
  <2> QED BY <1>2, <2>1
<1> QED BY <1>3, <1>6

LEMMA ReverseIs ==
    ASSUME NEW S, NEW q \in Seq(S)
    PROVE  Reverse(q) \in Seq(S)
<1>1. Len(q) \in Nat /\ \A i \in 1..Len(q) : (Len(q) - i) + 1 \in 1..Len(q)
  OBVIOUS
<1>2. \A i \in 1..Len(q) : q[(Len(q) - i) + 1] \in S
  BY <1>1
<1>3. Reverse(q) = [i \in 1..Len(q) |-> q[(Len(q) - i) + 1]]
  BY DEF Reverse
<1> QED BY <1>1, <1>2, <1>3

LEMMA MoveAllBehindMid ==
    ASSUME NEW w, WorldOK(w), NEW s, NEW c, Midway(w, s, c), SingleAttributes(s.rec),
           NEW S, NEW g, Movable(w, s, S, Root), NEW children \in Seq(S)
    PROVE  LET t == MoveAllBehind(g, s, children)
           IN Midway(w, t, c) /\ SingleAttributes(t.rec) /\ DOMAIN t.rec = DOMAIN s.rec
<1> DEFINE q == Reverse(children)
<1>9. q \in Seq(S)
  BY ReverseIs
<1>1. MoveAllBehind(g, s, children) = MovesBehind!Loop(g, s, q)
  <2> HIDE DEF q
  <2>1. MoveAllBehind(g, s, children) = FoldLeft(LAMBDA t, x : MoveBehind(g, t, x), s, q)
    BY DEF MoveAllBehind, q
  <2> QED BY <2>1 DEF BehindStep, FoldLeft, MapThenFoldSet, Max, MovesBehind!Loop,
                      MovesBehind!FoldLeft, MovesBehind!MapThenFoldSet, MovesBehind!Max
<1> HIDE DEF q
<1>2. Len(q) \in Nat /\ DOMAIN q = 1..Len(q) /\ \A i \in 1..Len(q) : q[i] \in S
  BY <1>9, LenProperties
<1>3. PICK f : /\ f[0] = s /\ f[Len(q)] = MoveAllBehind(g, s, children)
               /\ \A i \in 1..Len(q) : f[i] = MoveBehind(g, f[i - 1], q[i])
  <2>1. PICK f : MovesBehind!IsLoop(f, Len(q), g, s, q)
    BY <1>2, MovesBehind!LoopSteps
  <2> QED BY <1>1, <2>1 DEF MovesBehind!IsLoop, BehindStep
<1> DEFINE T == {i \in 0..Len(q) : /\ Midway(w, f[i], c) /\ SingleAttributes(f[i].rec)
                                   /\ DOMAIN f[i].rec = DOMAIN s.rec}
<1>4. 0 \in T
  BY <1>2, <1>3
<1>5. ASSUME NEW i \in 0..(Len(q) - 1), i \in T
      PROVE  i + 1 \in T
  <2>1. i + 1 \in 1..Len(q) /\ i + 1 \in 0..Len(q) /\ (i + 1) - 1 = i
    BY <1>2
  <2>2. f[i + 1] = MoveBehind(g, f[i], q[i + 1]) /\ q[i + 1] \in S
    BY <1>2, <1>3, <2>1
  <2>3. Midway(w, f[i], c) /\ SingleAttributes(f[i].rec) /\ DOMAIN f[i].rec = DOMAIN s.rec
    BY <1>5
  <2>4. Movable(w, f[i], S, Root)
    BY <2>3 DEF Movable
  <2>5. /\ Midway(w, f[i + 1], c) /\ SingleAttributes(f[i + 1].rec)
        /\ DOMAIN f[i + 1].rec = DOMAIN f[i].rec
    BY <2>2, <2>3, <2>4, MoveBehindMid
  <2> QED BY <2>1, <2>3, <2>5
<1>6. Len(q) \in T
  <2> HIDE DEF T
  <2>1. \A i \in 0..Len(q) : i \in T
    BY <1>2, <1>4, <1>5, MovesBehind!UpTo
  <2> QED BY <1>2, <2>1
<1> QED BY <1>3, <1>6

-----------------------------------------------------------------------------
(* The two ends.                                                            *)

LEMMA TwoPeers ==
    ASSUME NEW p \in Peers
    PROVE  Other(p) \in Peers /\ Other(p) # p /\ Other(Other(p)) = p /\ Peers = {p, Other(p)}
<1>1. IsFiniteSet(Peers \ {p}) /\ Cardinality(Peers \ {p}) = 1
  <2>1. IsFiniteSet(Peers) /\ Cardinality(Peers) = 2
    BY SxeAssumption
  <2> QED BY <2>1, FS_RemoveElement
<1>2. PICK q : Peers \ {p} = {q}
  BY <1>1, FS_Singleton
<1>3. q \in Peers /\ q # p /\ Peers = {p, q}
  BY <1>2
<1>4. Other(p) = q
  BY <1>3 DEF Other
<1>5. Other(q) = p
  BY <1>3 DEF Other
<1> QED BY <1>3, <1>4, <1>5

-----------------------------------------------------------------------------
(* More ids: what was known of the old ones stays known.                    *)

Extends(k, m) == DOMAIN k \subseteq DOMAIN m /\ \A r \in DOMAIN k : m[r] = k[r]

LEMMA MoreIds ==
    ASSUME NEW k, NEW m, Extends(k, m), NEW r \in DOMAIN k
    PROVE  /\ Kind(m, r) = Kind(k, r) /\ (m[r] = 0 <=> k[r] = 0)
           /\ Vals(k, r) \subseteq Vals(m, r) /\ Versions(k, r) \subseteq Versions(m, r)
           /\ NewEdits(k, r) \subseteq NewEdits(m, r) /\ SetEdits(k, r) \subseteq SetEdits(m, r)
           /\ RemoveEdits(k, r) = RemoveEdits(m, r)
<1>1. r \in DOMAIN m /\ m[r] = k[r] /\ Kind(m, r) = Kind(k, r)
  BY DEF Extends, Kind
<1>2. Places(k, r) \subseteq Places(m, r)
  BY <1>1 DEF Extends, Places
<1>3. Vals(k, r) \subseteq Vals(m, r)
  BY <1>2 DEF Vals
<1>4. Versions(k, r) \subseteq Versions(m, r)
  BY <1>3 DEF Versions
<1>5. Changes(k, r) \subseteq Changes(m, r)
  <2>1. CASE k[r] = 0
    BY <1>1, <2>1 DEF Changes
  <2>2. CASE k[r] # 0
    <3> DEFINE P == Places(k, r)
               O == Places(m, r)
    <3>1. P \subseteq O
      BY <1>2
    <3>2. /\ Changes(k, r) = [parent : P] \cup [weight : Int] \cup [parent : P, weight : Int]
          /\ Changes(m, r) = [parent : O] \cup [weight : Int] \cup [parent : O, weight : Int]
      BY <1>1, <2>2 DEF Changes
    <3> HIDE DEF P, O
    <3>3. [parent : P] \subseteq [parent : O]
      BY <3>1
    <3>4. [parent : P, weight : Int] \subseteq [parent : O, weight : Int]
      BY <3>1
    <3> QED BY <3>2, <3>3, <3>4
  <2> QED BY <2>1, <2>2
<1>6. NewEdits(k, r) \subseteq NewEdits(m, r)
  BY <1>1, <1>3 DEF NewEdits
<1>7. SetEdits(k, r) \subseteq SetEdits(m, r)
  BY <1>5 DEF SetEdits
<1> QED BY <1>1, <1>3, <1>4, <1>6, <1>7 DEF RemoveEdits

LEMMA MoreEdits ==
    ASSUME NEW k, NEW m, Extends(k, m)
    PROVE  Edits(k) \subseteq Edits(m)
<1> SUFFICES ASSUME NEW e \in Edits(k)
             PROVE  e \in Edits(m)
  OBVIOUS
<1>1. PICK r \in DOMAIN k : e \in NewEdits(k, r) \cup SetEdits(k, r) \cup RemoveEdits(k, r)
  BY DEF Edits
<1>2. r \in DOMAIN m /\ e \in NewEdits(m, r) \cup SetEdits(m, r) \cup RemoveEdits(m, r)
  BY <1>1, MoreIds DEF Extends
<1> QED BY <1>2 DEF Edits

LEMMA MoreRecords ==
    ASSUME NEW k, NEW m, Extends(k, m), NEW R, RecordsOK(k, R)
    PROVE  RecordsOK(m, R)
<1>1. ASSUME NEW r \in DOMAIN R
      PROVE  RecordOK(m, r, R[r])
  <2> DEFINE x == R[r]
  <2>1. r \in DOMAIN k /\ RecordOK(k, r, x)
    BY DEF RecordsOK
  <2> HIDE DEF x
  <2>2. /\ Kind(m, r) = Kind(k, r) /\ (m[r] = 0 <=> k[r] = 0)
        /\ Versions(k, r) \subseteq Versions(m, r)
    BY <2>1, MoreIds
  <2>3. /\ x \in [type : {Kind(k, r)}, version : Nat, versions : Seq(Versions(k, r)),
                  edits : Seq(Edits(k))]
        /\ History(k, r, x.versions, x.version) /\ Log(k, x.edits)
    BY <2>1, RecordParts
  <2>4. x.versions \in Seq(Versions(m, r)) /\ x.edits \in Seq(Edits(m))
    <3>1. x.versions \in Seq(Versions(k, r)) /\ x.edits \in Seq(Edits(k))
      BY <2>3 DEF History, Log
    <3>2. x.versions \in Seq(Versions(m, r))
      BY <2>2, <3>1, SeqMonotonic
    <3>3. x.edits \in Seq(Edits(m))
      BY <3>1, MoreEdits, SeqMonotonic
    <3> QED BY <3>2, <3>3
  <2>5. x \in [type : {Kind(m, r)}, version : Nat, versions : Seq(Versions(m, r)),
               edits : Seq(Edits(m))]
    <3> DEFINE A == Versions(k, r)
               B == Versions(m, r)
               C == Edits(k)
               D == Edits(m)
               T == Kind(m, r)
    <3>1. /\ x \in [type : {T}, version : Nat, versions : Seq(A), edits : Seq(C)]
          /\ x.versions \in Seq(B) /\ x.edits \in Seq(D)
      BY <2>2, <2>3, <2>4
    <3> HIDE DEF A, B, C, D, T
    <3>2. x \in [type : {T}, version : Nat, versions : Seq(B), edits : Seq(D)]
      BY <3>1
    <3> QED BY <3>2 DEF B, D, T
  <2>6. History(m, r, x.versions, x.version) /\ Log(m, x.edits)
    BY <2>2, <2>3, <2>4 DEF History, Log
  <2> QED BY <2>5, <2>6, RecordParts DEF x
<1>2. DOMAIN R \subseteq DOMAIN m /\ R = [r \in DOMAIN R |-> R[r]]
  BY DEF RecordsOK, Extends
<1> QED BY <1>1, <1>2 DEF RecordsOK

LEMMA MoreEnd ==
    ASSUME NEW k, NEW m, Extends(k, m), NEW s, EndOK(k, s)
    PROVE  EndOK(m, s)
<1> DEFINE C == Edits(k)
           D == Edits(m)
<1>1. s \in [rec : {s.rec}, out : Seq(C), sent : Seq(Seq(C)), warned : {FALSE}]
  BY DEF EndOK
<1>2. C \subseteq D
  BY MoreEdits
<1>3. RecordsOK(m, s.rec) /\ SingleAttributes(s.rec)
  BY MoreRecords DEF EndOK
<1> HIDE DEF C, D
<1>4. s.out \in Seq(C) /\ s.sent \in Seq(Seq(C))
  BY <1>1
<1>5. s.out \in Seq(D)
  BY <1>2, <1>4, SeqMonotonic
<1>6. s.sent \in Seq(Seq(D))
  <2>1. Seq(C) \subseteq Seq(D)
    BY <1>2, SeqMonotonic
  <2> QED BY <1>4, <2>1, SeqMonotonic
<1>7. s \in [rec : {s.rec}, out : Seq(D), sent : Seq(Seq(D)), warned : {FALSE}]
  BY <1>1, <1>5, <1>6
<1> QED BY <1>3, <1>7 DEF EndOK, D

WithId(k, r, h) == [x \in DOMAIN k \cup {r} |-> IF x = r THEN h ELSE k[x]]

LEMMA NewId ==
    ASSUME NEW n \in Nat, NEW k, Sound(k, n), NEW r \in Rids \ DOMAIN k, NEW h \in 0..(n + 1)
    PROVE  LET m == WithId(k, r, h)
           IN /\ Sound(m, n + 1) /\ Extends(k, m)
              /\ DOMAIN m = DOMAIN k \cup {r} /\ m[r] = h
<1> DEFINE m == WithId(k, r, h)
<1>1. Heights(k, n)
  BY DEF Sound
<1>2. DOMAIN m = DOMAIN k \cup {r} /\ m[r] = h /\ Extends(k, m)
  BY DEF WithId, Extends
<1>3. Heights(m, n + 1)
  <2>1. m \in [DOMAIN m -> 0..(n + 1)]
    <3>1. \A x \in DOMAIN k : k[x] \in 0..(n + 1)
      BY <1>1 DEF Heights
    <3> QED BY <1>2, <3>1 DEF WithId
  <2>2. DOMAIN m \subseteq Rids /\ IsFiniteSet(DOMAIN m)
    BY <1>1, <1>2, FS_AddElement DEF Heights
  <2> QED BY <2>1, <2>2 DEF Heights
<1> HIDE DEF m
<1>4. ASSUME NEW p \in Peers
      PROVE  EndOK(m, End(p)) /\ net[p] \in Seq(Seq(Edits(m)))
  <2>1. EndOK(k, End(p)) /\ net[p] \in Seq(Seq(Edits(k)))
    BY DEF Sound
  <2>2. Seq(Edits(k)) \subseteq Seq(Edits(m))
    <3>1. Edits(k) \subseteq Edits(m)
      BY <1>2, MoreEdits
    <3> QED BY <3>1, SeqMonotonic
  <2>3. net[p] \in Seq(Seq(Edits(m)))
    BY <2>1, <2>2, SeqMonotonic
  <2> QED BY <1>2, <2>1, <2>3, MoreEnd
<1>5. Sound(m, n + 1)
  BY <1>3, <1>4 DEF Sound
<1> QED BY <1>2, <1>5 DEF m

(* Nobody has an id that was not used, or an edit of it.                    *)
LEMMA NoEdits ==
    ASSUME NEW k, NEW c \in Seq(Edits(k)), NEW r, r \notin DOMAIN k
    PROVE  NewsIn(c, r) = {} /\ SetsIn(c, r) = {} /\ RemovesIn(c, r) = {}
<1>1. ASSUME NEW i \in 1..Len(c)
      PROVE  c[i].rid # r
  <2>1. c[i] \in Edits(k)
    OBVIOUS
  <2> QED BY <1>1, <2>1, EditKinds
<1> QED BY <1>1 DEF NewsIn, SetsIn, RemovesIn, IsNew, IsSet, IsRemove

-----------------------------------------------------------------------------
(* From a state to the middle of a handler, and back.                       *)

World(p, k, n, au) ==
    [k |-> k, n |-> n, p |-> p, q |-> Other(p), Q |-> rec[Other(p)],
     before |-> Flat(net[Other(p)]), au |-> au]

LEMMA WorldIs ==
    ASSUME NEW p, NEW k, NEW n, NEW au
    PROVE  LET w == World(p, k, n, au)
           IN /\ w.k = k /\ w.n = n /\ w.p = p /\ w.q = Other(p) /\ w.Q = rec[Other(p)]
              /\ w.before = Flat(net[Other(p)]) /\ w.au = au
  BY DEF World

LEMMA ComingType ==
    ASSUME NEW n, NEW k, Sound(k, n), NEW p \in Peers
    PROVE  /\ Coming(p) \in Seq(Edits(k)) /\ Flat(net[p]) \in Seq(Edits(k))
           /\ net[p] \in Seq(Seq(Edits(k))) /\ out[p] \in Seq(Edits(k))
<1>1. net[p] \in Seq(Seq(Edits(k))) /\ Other(p) \in Peers
  BY TwoPeers DEF Sound
<1>2. Flat(net[p]) \in Seq(Edits(k))
  BY <1>1, FlatType
<1>3. \A x \in Peers : out[x] \in Seq(Edits(k))
  <2> TAKE x \in Peers
  <2>1. End(x).out \in Seq(Edits(k))
    BY DEF Sound, EndOK
  <2> QED BY <2>1 DEF End
<1>4. Coming(p) \in Seq(Edits(k))
  BY <1>1, <1>2, <1>3, ConcatProperties DEF Coming
<1> QED BY <1>1, <1>2, <1>3, <1>4

LEMMA EndIs ==
    ASSUME NEW p
    PROVE  /\ End(p).rec = rec[p] /\ End(p).out = out[p] /\ End(p).sent = <<>>
           /\ End(p).warned = warned[p]
  BY DEF End

LEMMA Start ==
    ASSUME NEW n \in Nat, NEW k, Sound(k, n), NEW p \in Peers,
           NEW au, \A r \in Rids : authors[r] \subseteq au[r]
    PROVE  LET w == World(p, k, n, au)
           IN /\ WorldOK(w) /\ Midway(w, End(p), Coming(p))
              /\ SingleAttributes(End(p).rec) /\ Gone(w, End(p)) = Coming(Other(p))
<1> DEFINE w == World(p, k, n, au)
           q == Other(p)
           s == End(p)
<1>1. q \in Peers /\ Other(q) = p
  BY TwoPeers
<1>2. /\ w.k = k /\ w.n = n /\ w.p = p /\ w.q = q /\ w.Q = rec[q]
      /\ w.before = Flat(net[q]) /\ w.au = au
  BY WorldIs
<1>3. s.rec = rec[p] /\ s.out = out[p] /\ s.sent = <<>>
  BY EndIs
<1> HIDE DEF w, q, s
<1>4. WorldOK(w)
  <2>1. Heights(k, n)
    BY DEF Sound
  <2>2. Flat(net[q]) \in Seq(Edits(k))
    BY <1>1, ComingType
  <2>3. RecordsOK(k, rec[q])
    <3>1. RecordsOK(k, End(q).rec)
      BY <1>1 DEF Sound, EndOK
    <3> QED BY <3>1, EndIs
  <2> QED BY <1>2, <2>1, <2>2, <2>3 DEF WorldOK
<1>5. EndTyped(k, s) /\ SingleAttributes(s.rec)
  BY DEF Sound, EndOK, EndTyped, s
<1>6. Gone(w, s) = Coming(q)
  <2>1. Flat(s.sent) = <<>>
    <3>1. <<>> \in Seq(Edits(k))
      BY EmptySeq
    <3> QED BY <1>3, <3>1, FlatOne
  <2>2. Flat(net[q]) \o <<>> = Flat(net[q])
    BY <1>1, ComingType, ConcatEmptySeq
  <2> QED BY <1>1, <1>2, <1>3, <2>1, <2>2 DEF Gone, Coming
<1>7. Pair(p, rec[p], Coming(p), q, rec[q], Coming(q), au)
  <2>1. Pair(p, rec[p], Coming(p), q, rec[q], Coming(q), authors)
    BY DEF Sound, q
  <2> QED BY <2>1, MoreAuthors
<1>8. Coming(p) \in Seq(Edits(k))
  BY ComingType
<1>9. Midway(w, s, Coming(p))
  BY <1>2, <1>3, <1>5, <1>6, <1>7, <1>8 DEF Midway
<1> QED BY <1>4, <1>5, <1>6, <1>9 DEF w, q, s

(* The peer p becomes s, has m still to handle, and its peer gets s.sent.   *)
LEMMA Finish ==
    ASSUME Tables, NEW n \in Nat, NEW k, Sound(k, n), DOMAIN k = used', NEW p \in Peers, NEW s,
           NEW au \in [Rids -> SUBSET Peers], authors' = au, ops' \in 0..MaxOps,
           Become(p, s), NEW m \in Seq(Seq(Edits(k))),
           DOMAIN net' = Peers, net'[p] = m, net'[Other(p)] = net[Other(p)] \o s.sent,
           WorldOK(World(p, k, n, au)),
           Midway(World(p, k, n, au), s, Flat(m) \o out[Other(p)]), SingleAttributes(s.rec)
    PROVE  Known'
<1> DEFINE w == World(p, k, n, au)
           q == Other(p)
<1>1. q \in Peers /\ Other(q) = p /\ Peers = {p, q} /\ p # q
  BY TwoPeers
<1>2. /\ w.k = k /\ w.n = n /\ w.p = p /\ w.q = q /\ w.Q = rec[q]
      /\ w.before = Flat(net[q]) /\ w.au = au
  BY WorldIs
<1>3. /\ WorldOK(w) /\ EndTyped(k, s) /\ SingleAttributes(s.rec)
      /\ Pair(p, s.rec, Flat(m) \o out[q], q, rec[q], Gone(w, s), au)
  BY <1>2 DEF Midway
<1> HIDE DEF w, q
<1>4. /\ DOMAIN rec' = Peers /\ DOMAIN out' = Peers /\ warned' \in [Peers -> BOOLEAN]
      /\ rec'[p] = s.rec /\ rec'[q] = rec[q] /\ out'[p] = s.out /\ out'[q] = out[q]
      /\ warned'[p] = s.warned /\ warned'[q] = warned[q]
  <2>1. s.warned \in BOOLEAN
    BY <1>3 DEF EndTyped
  <2> QED BY <1>1, <2>1 DEF Become, Tables
<1>5. Tables'
  BY <1>4 DEF Tables
<1>6. s.sent \in Seq(Seq(Edits(k))) /\ s.out \in Seq(Edits(k)) /\ s.warned = FALSE
      /\ RecordsOK(k, s.rec)
  BY <1>3 DEF EndTyped
<1>7. net[q] \in Seq(Seq(Edits(k)))
  BY <1>1, ComingType
<1>8. net'[q] = net[q] \o s.sent
  BY DEF q
<1>9. net'[q] \in Seq(Seq(Edits(k)))
  BY <1>6, <1>7, <1>8, ConcatProperties
<1>10. EndOK(k, End(p)')
  <2> DEFINE t == End(p)'
             S == Edits(k)
  <2>1. t = [rec |-> s.rec, out |-> s.out, sent |-> <<>>, warned |-> s.warned]
    BY <1>4 DEF End
  <2>2. <<>> \in Seq(Seq(S))
    BY EmptySeq
  <2>3. s.out \in Seq(S)
    BY <1>6
  <2> HIDE DEF t, S
  <2>4. t.rec = s.rec /\ t \in [rec : {t.rec}, out : Seq(S), sent : Seq(Seq(S)), warned : {FALSE}]
    BY <1>6, <2>1, <2>2, <2>3
  <2> QED BY <1>3, <1>6, <2>4 DEF EndOK, t, S
<1>11. EndOK(k, End(q)')
  <2>1. End(q)' = End(q)
    BY <1>4 DEF End
  <2>2. EndOK(k, End(q))
    BY <1>1 DEF Sound
  <2> QED BY <2>1, <2>2
<1>12. Coming(p)' = Flat(m) \o out[q]
  BY <1>4 DEF Coming, q
<1>13. Coming(q)' = Gone(w, s)
  <2>1. Flat(net[q] \o s.sent) = Flat(net[q]) \o Flat(s.sent)
    BY <1>6, <1>7, FlatJoin
  <2> QED BY <1>1, <1>2, <1>4, <1>8, <2>1 DEF Coming, Gone
<1>14. Pair(p, rec'[p], Coming(p)', q, rec'[q], Coming(q)', au)
  BY <1>3, <1>4, <1>12, <1>13
<1>15. Pair(q, rec'[q], Coming(q)', p, rec'[p], Coming(p)', au)
  BY <1>14, PairSwap
<1>16. Sound(k, n)'
  <2>1. Heights(k, n)
    BY DEF Sound
  <2>2. ASSUME NEW x \in Peers
        PROVE  /\ EndOK(k, End(x)') /\ net'[x] \in Seq(Seq(Edits(k)))
               /\ Pair(x, rec'[x], Coming(x)', Other(x), rec'[Other(x)], Coming(Other(x))', authors')
    <3>1. CASE x = p
      <4>1. Other(x) = q
        BY <3>1 DEF q
      <4> QED BY <1>10, <1>14, <3>1, <4>1
    <3>2. CASE x = q
      <4>1. Other(x) = p
        BY <1>1, <3>2
      <4> QED BY <1>9, <1>11, <1>15, <3>2, <4>1
    <3> QED BY <1>1, <3>1, <3>2
  <2> QED BY <2>1, <2>2 DEF Sound
<1>17. k \in [used' -> 0..n]
  <2>1. k \in [DOMAIN k -> 0..n]
    BY DEF Sound, Heights
  <2> QED BY <2>1
<1> QED BY <1>5, <1>16, <1>17 DEF Known

LEMMA OperationKnown ==
    ASSUME Tables, NEW n \in Nat, NEW k, Sound(k, n), NEW p \in Peers, NEW s,
           NEW touched, NEW new, DOMAIN k = used \cup new, Operation(p, s, touched, new),
           NEW au, authors' = au,
           WorldOK(World(p, k, n, au)),
           Midway(World(p, k, n, au), s, Coming(p)), SingleAttributes(s.rec)
    PROVE  Known'
<1>1. Other(p) \in Peers /\ Other(p) # p
  BY TwoPeers
<1>2. /\ DOMAIN net' = Peers /\ net'[p] = net[p] /\ net'[Other(p)] = net[Other(p)] \o s.sent
      /\ Become(p, s)
  BY <1>1 DEF Operation, Send, Tables
<1>3. ops' \in 0..MaxOps /\ used' = DOMAIN k
  BY SxeAssumption DEF Operation, Tables
<1>4. au \in [Rids -> SUBSET Peers]
  BY DEF Operation, Tables
<1>5. net[p] \in Seq(Seq(Edits(k)))
  BY ComingType
<1>6. Midway(World(p, k, n, au), s, Flat(net[p]) \o out[Other(p)])
  BY DEF Coming
<1> QED BY <1>2, <1>3, <1>4, <1>5, <1>6, Finish

-----------------------------------------------------------------------------
(* The operations of a user keep what is known.                             *)

(* Who changed a node, after the user of p changed those in touched.        *)
Signs(p, touched) ==
    [r \in Rids |-> IF r \in touched THEN authors[r] \cup {p} ELSE authors[r]]

LEMMA Begin ==
    ASSUME NEW n \in Nat, NEW k, Sound(k, n), NEW p \in Peers, NEW touched
    PROVE  LET w == World(p, k, n, Signs(p, touched))
           IN /\ WorldOK(w) /\ Midway(w, End(p), Coming(p)) /\ SingleAttributes(End(p).rec)
              /\ Gone(w, End(p)) = Coming(Other(p))
              /\ w.k = k /\ w.n = n /\ w.p = p /\ w.Q = rec[Other(p)]
              /\ \A r \in DOMAIN k : r \in touched => w.p \in w.au[r]
<1> DEFINE au == Signs(p, touched)
           w == World(p, k, n, au)
<1>1. \A r \in Rids : authors[r] \subseteq au[r]
  BY DEF Signs
<1>2. \A r \in DOMAIN k : r \in touched => p \in au[r]
  BY DEF Signs, Sound, Heights
<1> HIDE DEF au
<1>3. /\ WorldOK(w) /\ Midway(w, End(p), Coming(p)) /\ SingleAttributes(End(p).rec)
      /\ Gone(w, End(p)) = Coming(Other(p))
  BY <1>1, Start
<1>4. w.k = k /\ w.n = n /\ w.p = p /\ w.Q = rec[Other(p)] /\ w.au = au
  BY WorldIs
<1> HIDE DEF w
<1>5. \A r \in DOMAIN k : r \in touched => w.p \in w.au[r]
  BY <1>2, <1>4
<1> QED BY <1>3, <1>4, <1>5 DEF w, au

LEMMA Done ==
    ASSUME Tables, NEW n \in Nat, NEW k, Sound(k, n), NEW p \in Peers, NEW s,
           NEW touched, NEW new, DOMAIN k = used \cup new, Operation(p, s, touched, new),
           Midway(World(p, k, n, Signs(p, touched)), s, Coming(p)), SingleAttributes(s.rec)
    PROVE  Known'
<1> DEFINE au == Signs(p, touched)
<1>1. authors' = au
  BY DEF Operation, Signs
<1> HIDE DEF au
<1>2. WorldOK(World(p, k, n, au))
  BY Begin DEF au
<1>3. Midway(World(p, k, n, au), s, Coming(p))
  BY DEF au
<1> QED BY <1>1, <1>2, <1>3, OperationKnown

(* The same, where the end flushes in the end.                              *)
LEMMA DoneFlushed ==
    ASSUME Tables, NEW n \in Nat, NEW k, Sound(k, n), NEW p \in Peers, NEW s,
           NEW touched, NEW new, DOMAIN k = used \cup new,
           Operation(p, FlushOut(s), touched, new),
           Midway(World(p, k, n, Signs(p, touched)), s, Coming(p)), SingleAttributes(s.rec)
    PROVE  Known'
<1> DEFINE w == World(p, k, n, Signs(p, touched))
<1>1. WorldOK(w)
  BY Begin
<1>2. Midway(w, s, Coming(p))
  OBVIOUS
<1> HIDE DEF w
<1>3. Midway(w, FlushOut(s), Coming(p)) /\ FlushOut(s).rec = s.rec
  BY <1>1, <1>2, FlushMid
<1>4. SingleAttributes(FlushOut(s).rec)
  BY <1>3
<1> QED BY <1>3, <1>4, Done DEF w

(* Nobody knows an id that was not used.                                    *)
LEMMA UnknownId ==
    ASSUME NEW n \in Nat, NEW k, Sound(k, n), NEW p \in Peers, NEW r, r \notin DOMAIN k
    PROVE  /\ r \notin DOMAIN End(p).rec
           /\ Unknown(Coming(p), rec[Other(p)], Coming(Other(p)), r)
<1>1. Other(p) \in Peers
  BY TwoPeers
<1>2. ASSUME NEW x \in Peers
      PROVE  r \notin DOMAIN rec[x]
  <2>1. RecordsOK(k, End(x).rec)
    BY DEF Sound, EndOK
  <2> QED BY <2>1, EndIs DEF RecordsOK
<1>3. /\ NewsIn(Coming(p), r) = {} /\ SetsIn(Coming(p), r) = {} /\ RemovesIn(Coming(p), r) = {}
      /\ NewsIn(Coming(Other(p)), r) = {} /\ SetsIn(Coming(Other(p)), r) = {}
      /\ RemovesIn(Coming(Other(p)), r) = {}
  <2>1. Coming(p) \in Seq(Edits(k)) /\ Coming(Other(p)) \in Seq(Edits(k))
    BY <1>1, ComingType
  <2> QED BY <2>1, NoEdits
<1> QED BY <1>1, <1>2, <1>3, EndIs DEF Unknown

LEMMA EndRecords ==
    ASSUME NEW n \in Nat, NEW k, Sound(k, n), NEW p \in Peers
    PROVE  Heights(k, n) /\ RecordsOK(k, End(p).rec)
  BY DEF Sound, EndOK

LEMMA ItemIs ==
    ASSUME NEW n \in Nat, NEW k, Sound(k, n), NEW p \in Peers, NEW x \in Items(p)
    PROVE  /\ x \in DOMAIN End(p).rec /\ x \in DOMAIN k /\ k[x] # 0
           /\ ParentOf(p, x) = Val(End(p).rec[x]).parent
           /\ ParentOf(p, x) \in DOMAIN End(p).rec \cup {Root}
           /\ ParentOf(p, x) \in Places(k, x)
<1> DEFINE s == End(p)
<1>1. RecordsOK(k, s.rec)
  BY EndRecords
<1>2. /\ x \in DOMAIN s.rec /\ s.rec[x].type = "elem"
      /\ Val(s.rec[x]).parent \in DOMAIN s.rec \cup {Root}
  BY DEF Items, Elements
<1>3. s.rec = rec[p]
  BY EndIs
<1> HIDE DEF s
<1>4. x \in DOMAIN k /\ Val(s.rec[x]).parent \in Places(k, x)
  BY <1>1, <1>2, RecordValue
<1>5. k[x] # 0
  BY <1>1, <1>2, KindOfAttr
<1> QED BY <1>2, <1>3, <1>4, <1>5 DEF s, ParentOf

(* What is known with the id r of the height h, of the ids m, in a world w. *)
Begun(p, n, k, r, h, touched, m, w) ==
    /\ n + 1 \in Nat /\ Sound(m, n + 1) /\ Extends(k, m)
    /\ DOMAIN m = used \cup {r} /\ r \in DOMAIN m /\ m[r] = h
    /\ r \notin DOMAIN End(p).rec
    /\ WorldOK(w) /\ Midway(w, End(p), Coming(p)) /\ SingleAttributes(End(p).rec)
    /\ w.k = m /\ w.n = n + 1 /\ w.p = p
    /\ \A x \in DOMAIN m : x \in touched => w.p \in w.au[x]
    /\ Unknown(Coming(p), w.Q, Gone(w, End(p)), r)

(* The step of an operation that makes a node r: what is known of the ids,  *)
(* r with them.                                                             *)
LEMMA BeginNew ==
    ASSUME NEW n \in Nat, NEW k \in [used -> 0..n], Sound(k, n), NEW p \in Peers,
           NEW r \in Fresh, NEW h \in 0..(n + 1), NEW touched
    PROVE  LET m == WithId(k, r, h)
               w == World(p, m, n + 1, Signs(p, touched))
           IN Begun(p, n, k, r, h, touched, m, w)
<1> DEFINE m == WithId(k, r, h)
           w == World(p, m, n + 1, Signs(p, touched))
<1>1. r \in Rids \ DOMAIN k
  BY DEF Fresh
<1>2. n + 1 \in Nat
  OBVIOUS
<1>3. Sound(m, n + 1) /\ Extends(k, m) /\ DOMAIN m = DOMAIN k \cup {r} /\ m[r] = h
  BY <1>1, NewId
<1>4. DOMAIN m = used \cup {r} /\ r \in DOMAIN m
  BY <1>3
<1>5. r \notin DOMAIN End(p).rec /\ Unknown(Coming(p), rec[Other(p)], Coming(Other(p)), r)
  BY <1>1, UnknownId
<1> HIDE DEF m
<1>6. /\ WorldOK(w) /\ Midway(w, End(p), Coming(p)) /\ SingleAttributes(End(p).rec)
      /\ Gone(w, End(p)) = Coming(Other(p))
      /\ w.k = m /\ w.n = n + 1 /\ w.p = p /\ w.Q = rec[Other(p)]
      /\ \A x \in DOMAIN m : x \in touched => w.p \in w.au[x]
  BY <1>2, <1>3, Begin
<1> HIDE DEF w
<1> QED BY <1>2, <1>3, <1>4, <1>5, <1>6 DEF m, w, Begun

LEMMA NewEditIn ==
    ASSUME NEW k, NEW r \in DOMAIN k, NEW parent \in Places(k, r), NEW weight \in Int,
           NEW data \in Data, NEW type, type = Kind(k, r)
    PROVE  LET e == NewEdit(r, type, parent, weight, data)
           IN e \in NewEdits(k, r) /\ e.val.parent = parent
<1> DEFINE v == [parent |-> parent, weight |-> weight, data |-> data]
<1>1. v \in Vals(k, r) /\ v.parent = parent
  BY DEF Vals
<1> HIDE DEF v
<1>2. NewEdit(r, type, parent, weight, data) = [op |-> "new", rid |-> r, type |-> type, val |-> v]
  BY DEF NewEdit, v
<1> QED BY <1>1, <1>2 DEF NewEdits

LEMMA NewItemKnown ==
    ASSUME Tables, NEW n \in Nat, NEW k \in [used -> 0..n], Sound(k, n), NEW p \in Peers,
           NewItem(p)
    PROVE  Known'
<1> DEFINE s == End(p)
           weight == LastWeight(s, Root)
<1>1. PICK r \in Fresh :
        Operation(p, FlushOut(Make(s, NewEdit(r, "elem", Root, weight, "none"))), {}, {r})
  BY DEF NewItem
<1> DEFINE m == WithId(k, r, n + 1)
           w == World(p, m, n + 1, Signs(p, {}))
           e == NewEdit(r, "elem", Root, weight, "none")
           t == Make(s, e)
<1>2. n + 1 \in 0..(n + 1)
  OBVIOUS
<1>3. /\ n + 1 \in Nat /\ Sound(m, n + 1)
      /\ DOMAIN m = used \cup {r} /\ r \in DOMAIN m /\ m[r] = n + 1 /\ r \notin DOMAIN s.rec
      /\ WorldOK(w) /\ Midway(w, s, Coming(p)) /\ SingleAttributes(s.rec)
      /\ w.k = m /\ Unknown(Coming(p), w.Q, Gone(w, s), r)
  <2>1. Begun(p, n, k, r, n + 1, {}, m, w)
    BY <1>2, BeginNew
  <2> HIDE DEF m, w, s
  <2> QED BY <2>1 DEF Begun, s
<1>4. weight \in Int
  BY EndRecords, LastWeightInt
<1> HIDE DEF m, w, weight
<1>5. e \in NewEdits(m, r) /\ e.val.parent = Root
  <2>1. "elem" = Kind(m, r) /\ Root \in Places(m, r) /\ "none" \in Data
    BY <1>3 DEF Kind, Places, Data
  <2> QED BY <1>3, <1>4, <2>1, NewEditIn
<1> HIDE DEF e, s
<1>6. Midway(w, t, Coming(p)) /\ SingleAttributes(t.rec)
  <2>1. w.k[r] # 0
    BY <1>3
  <2> QED BY <1>3, <1>5, <2>1, MakeNewMid
<1>7. Operation(p, FlushOut(t), {}, {r})
  BY <1>1 DEF e
<1> HIDE DEF t
<1> QED BY <1>3, <1>6, <1>7, DoneFlushed DEF w

LEMMA SetAttributeKnown ==
    ASSUME Tables, NEW n \in Nat, NEW k \in [used -> 0..n], Sound(k, n), NEW p \in Peers,
           SetAttribute(p)
    PROVE  Known'
<1> DEFINE s == End(p)
<1>1. PICK g \in Items(p), v \in Values :
        \/ \E a \in Attrs(s, g) : Operation(p, SetValue(s, a, v), {a}, {})
        \/ /\ Attrs(s, g) = {}
           /\ \E r \in Fresh :
                Operation(p, Make(s, NewEdit(r, "attr", g, LastWeight(s, g), v)), {}, {r})
  BY DEF SetAttribute
<1>2. v \in Data
  BY DEF Data
<1>3. CASE \E a \in Attrs(s, g) : Operation(p, SetValue(s, a, v), {a}, {})
  <2>1. PICK a \in Attrs(s, g) : Operation(p, SetValue(s, a, v), {a}, {})
    BY <1>3
  <2> DEFINE w == World(p, k, n, Signs(p, {a}))
             t == SetValue(s, a, v)
  <2>2. /\ WorldOK(w) /\ Midway(w, s, Coming(p)) /\ SingleAttributes(s.rec) /\ w.k = k
        /\ \A x \in DOMAIN k : x \in {a} => w.p \in w.au[x]
    BY Begin
  <2>3. a \in DOMAIN s.rec /\ s.rec[a].type = "attr"
    BY DEF Attrs
  <2>4. RecordsOK(k, s.rec)
    BY EndRecords
  <2> HIDE DEF w, s
  <2>5. a \in DOMAIN k /\ k[a] = 0
    BY <2>3, <2>4, RecordValue, KindOfAttr
  <2>6. w.k[a] = 0 /\ w.p \in w.au[a]
    BY <2>2, <2>5
  <2>7. Midway(w, t, Coming(p)) /\ SingleAttributes(t.rec)
    BY <1>2, <2>2, <2>3, <2>6, SetValueMid
  <2>8. DOMAIN k = used \cup {}
    OBVIOUS
  <2>9. Operation(p, t, {a}, {})
    BY <2>1
  <2> HIDE DEF t
  <2> QED BY <2>7, <2>8, <2>9, Done DEF w
<1>4. CASE Attrs(s, g) = {} /\
           \E r \in Fresh : Operation(p, Make(s, NewEdit(r, "attr", g, LastWeight(s, g), v)), {}, {r})
  <2> DEFINE weight == LastWeight(s, g)
  <2>1. PICK r \in Fresh : Operation(p, Make(s, NewEdit(r, "attr", g, weight, v)), {}, {r})
    BY <1>4
  <2> DEFINE m == WithId(k, r, 0)
             w == World(p, m, n + 1, Signs(p, {}))
             e == NewEdit(r, "attr", g, weight, v)
             t == Make(s, e)
  <2>2. 0 \in 0..(n + 1)
    OBVIOUS
  <2>3. /\ n + 1 \in Nat /\ Sound(m, n + 1) /\ Extends(k, m)
        /\ DOMAIN m = used \cup {r} /\ r \in DOMAIN m /\ m[r] = 0 /\ r \notin DOMAIN s.rec
        /\ WorldOK(w) /\ Midway(w, s, Coming(p)) /\ SingleAttributes(s.rec)
        /\ w.k = m /\ Unknown(Coming(p), w.Q, Gone(w, s), r)
    <3>1. Begun(p, n, k, r, 0, {}, m, w)
      BY <2>2, BeginNew
    <3> HIDE DEF m, w, s
    <3> QED BY <3>1 DEF Begun, s
  <2>4. weight \in Int
    BY EndRecords, LastWeightInt
  <2>5. g \in DOMAIN s.rec /\ g \in DOMAIN k /\ k[g] # 0 /\ k[g] \in 0..n
    BY ItemIs
  <2> HIDE DEF m, w, weight
  <2>6. g \in Places(m, r)
    <3>1. g \in DOMAIN m /\ m[g] = k[g]
      BY <2>3, <2>5 DEF Extends
    <3>2. m[r] < m[g]
      BY <2>3, <2>5, <3>1
    <3> QED BY <3>1, <3>2 DEF Places
  <2>7. e \in NewEdits(m, r) /\ e.val.parent = g
    <3>1. "attr" = Kind(m, r)
      BY <2>3 DEF Kind
    <3> QED BY <1>2, <2>3, <2>4, <2>6, <3>1, NewEditIn
  <2> HIDE DEF e, s
  <2>8. Midway(w, t, Coming(p)) /\ SingleAttributes(t.rec)
    BY <1>4, <2>3, <2>5, <2>7, MakeNewMid
  <2>9. Operation(p, t, {}, {r})
    BY <2>1 DEF e
  <2> HIDE DEF t
  <2> QED BY <2>3, <2>8, <2>9, Done DEF w
<1> QED BY <1>1, <1>3, <1>4

(* What is known where an operation begins that makes no node.              *)
Started(p, n, k, touched, w) ==
    /\ WorldOK(w) /\ Midway(w, End(p), Coming(p)) /\ SingleAttributes(End(p).rec)
    /\ w.k = k /\ w.n = n /\ w.p = p
    /\ \A x \in DOMAIN k : x \in touched => w.p \in w.au[x]
    /\ Heights(k, n) /\ RecordsOK(k, End(p).rec)

LEMMA BeginOld ==
    ASSUME NEW n \in Nat, NEW k, Sound(k, n), NEW p \in Peers, NEW touched
    PROVE  Started(p, n, k, touched, World(p, k, n, Signs(p, touched)))
<1> DEFINE w == World(p, k, n, Signs(p, touched))
<1>1. /\ WorldOK(w) /\ Midway(w, End(p), Coming(p)) /\ SingleAttributes(End(p).rec)
      /\ w.k = k /\ w.n = n /\ w.p = p
      /\ \A x \in DOMAIN k : x \in touched => w.p \in w.au[x]
  BY Begin
<1>2. Heights(k, n) /\ RecordsOK(k, End(p).rec)
  BY EndRecords
<1> HIDE DEF w
<1> QED BY <1>1, <1>2 DEF Started, w

LEMMA BringKnown ==
    ASSUME Tables, NEW n \in Nat, NEW k \in [used -> 0..n], Sound(k, n), NEW p \in Peers,
           Bring(p)
    PROVE  Known'
<1> DEFINE s == End(p)
<1>1. PICK x \in Items(p), ref \in Items(p) :
        LET parent == ParentOf(p, x)
        IN \/ Operation(p, FlushOut(MoveTo(s, x, parent, AfterWeight(s, parent, ref))), {x}, {})
           \/ /\ ParentOf(p, ref) = parent
              /\ Operation(p, FlushOut(MoveTo(s, x, parent, BeforeWeight(s, parent, ref))), {x}, {})
  BY DEF Bring
<1> DEFINE parent == ParentOf(p, x)
           w == World(p, k, n, Signs(p, {x}))
<1>2. Started(p, n, k, {x}, w)
  BY BeginOld
<1>3. /\ x \in DOMAIN s.rec /\ x \in DOMAIN k /\ k[x] # 0
      /\ parent \in DOMAIN s.rec \cup {Root} /\ parent \in Places(k, x)
  BY ItemIs
<1>4. ASSUME ParentOf(p, ref) = parent
      PROVE  ref \in Elements(s, parent)
  <2>1. ref \in DOMAIN s.rec /\ s.rec[ref].type = "elem"
    BY DEF Items, Elements
  <2>2. Val(s.rec[ref]).parent = parent
    BY <1>4, ItemIs
  <2> HIDE DEF s, parent
  <2> QED BY <2>1, <2>2 DEF Elements
<1>5. PICK weight : /\ Operation(p, FlushOut(MoveTo(s, x, parent, weight)), {x}, {})
                    /\ \/ weight = AfterWeight(s, parent, ref)
                       \/ ref \in Elements(s, parent) /\ weight = BeforeWeight(s, parent, ref)
  BY <1>1, <1>4
<1> HIDE DEF w, s, parent
<1>6. /\ WorldOK(w) /\ Midway(w, s, Coming(p)) /\ SingleAttributes(s.rec) /\ w.k = k
      /\ w.p \in w.au[x] /\ Heights(k, n) /\ RecordsOK(k, s.rec)
  BY <1>2, <1>3 DEF Started, s
<1>7. weight \in Int
  BY <1>5, <1>6, AfterWeightInt, BeforeWeightInt
<1> DEFINE t == MoveTo(s, x, parent, weight)
<1>8. Midway(w, t, Coming(p)) /\ SingleAttributes(t.rec)
  BY <1>3, <1>6, <1>7, MoveToMid
<1>9. Operation(p, FlushOut(t), {x}, {}) /\ DOMAIN k = used \cup {}
  BY <1>5
<1> HIDE DEF t
<1> QED BY <1>8, <1>9, DoneFlushed DEF w

LEMMA GroupKnown ==
    ASSUME Tables, NEW n \in Nat, NEW k \in [used -> 0..n], Sound(k, n), NEW p \in Peers,
           Group(p)
    PROVE  Known'
<1> DEFINE s == End(p)
           weight == LastWeight(s, Root)
<1>1. PICK g \in Fresh, sel \in SUBSET Items(p) :
        Operation(p, FlushOut(MoveAllInto(g, Make(s, NewEdit(g, "elem", Root, weight, "none")),
                                          Sorted(s, sel))), sel, {g})
  BY DEF Group
<1> DEFINE m == WithId(k, g, n + 1)
           w == World(p, m, n + 1, Signs(p, sel))
           e == NewEdit(g, "elem", Root, weight, "none")
           t == Make(s, e)
           q == Sorted(s, sel)
           u == MoveAllInto(g, t, q)
<1>2. n + 1 \in 0..(n + 1)
  OBVIOUS
<1>3. /\ n + 1 \in Nat /\ Sound(m, n + 1) /\ Extends(k, m)
      /\ DOMAIN m = used \cup {g} /\ g \in DOMAIN m /\ m[g] = n + 1 /\ g \notin DOMAIN s.rec
      /\ WorldOK(w) /\ Midway(w, s, Coming(p)) /\ SingleAttributes(s.rec)
      /\ w.k = m /\ Unknown(Coming(p), w.Q, Gone(w, s), g)
      /\ \A x \in DOMAIN m : x \in sel => w.p \in w.au[x]
  <2>1. Begun(p, n, k, g, n + 1, sel, m, w)
    BY <1>2, BeginNew
  <2> HIDE DEF m, w, s
  <2> QED BY <2>1 DEF Begun, s
<1>4. Heights(k, n) /\ RecordsOK(k, s.rec)
  BY EndRecords
<1>5. weight \in Int
  BY <1>4, LastWeightInt
<1>6. \A x \in sel : x \in DOMAIN s.rec /\ x \in DOMAIN k /\ k[x] # 0 /\ k[x] \in 0..n
  BY ItemIs
<1> HIDE DEF m, w, weight
<1>7. e \in NewEdits(m, g) /\ e.val.parent = Root
  <2>1. "elem" = Kind(m, g) /\ Root \in Places(m, g) /\ "none" \in Data
    BY <1>3 DEF Kind, Places, Data
  <2> QED BY <1>3, <1>5, <2>1, NewEditIn
<1> HIDE DEF e, s
<1>8. Midway(w, t, Coming(p)) /\ SingleAttributes(t.rec) /\ t.rec = With(s.rec, g, NewRecord(e))
  <2>1. w.k[g] # 0
    BY <1>3
  <2> QED BY <1>3, <1>7, <2>1, MakeNewMid
<1>9. DOMAIN t.rec = DOMAIN s.rec \cup {g}
  BY <1>8 DEF With
<1>10. q \in Seq(sel)
  <2>1. sel \in SUBSET DOMAIN s.rec
    BY <1>6
  <2> QED BY <1>4, <2>1, EndSets, SortedIs
<1> HIDE DEF t, q
<1>11. Movable(w, t, sel, g)
  <2>1. ASSUME NEW x \in sel
        PROVE  /\ x \in DOMAIN t.rec /\ w.k[x] # 0 /\ w.p \in w.au[x]
               /\ g \in Places(w.k, x)
    <3>1. x \in DOMAIN m /\ m[x] = k[x]
      BY <1>3, <1>6 DEF Extends
    <3>2. m[x] < m[g]
      BY <1>3, <1>6, <3>1
    <3>3. g \in Places(m, x)
      BY <1>3, <3>1, <3>2 DEF Places
    <3> QED BY <1>3, <1>6, <1>9, <3>1, <3>3
  <2> QED BY <1>9, <2>1 DEF Movable
<1>12. Midway(w, u, Coming(p)) /\ SingleAttributes(u.rec)
  BY <1>3, <1>8, <1>10, <1>11, MoveAllIntoMid
<1>13. Operation(p, FlushOut(u), sel, {g})
  BY <1>1 DEF t, q, e
<1> HIDE DEF u
<1> QED BY <1>3, <1>12, <1>13, DoneFlushed DEF w

LEMMA UngroupKnown ==
    ASSUME Tables, NEW n \in Nat, NEW k \in [used -> 0..n], Sound(k, n), NEW p \in Peers,
           Ungroup(p)
    PROVE  Known'
<1> DEFINE s == End(p)
<1>1. PICK g \in Items(p) :
        Operation(p, RemoveNode(MoveAllBehind(g, s, Children(s, g)), g), Elements(s, g) \cup {g}, {})
  BY DEF Ungroup
<1> DEFINE S == Elements(s, g)
           w == World(p, k, n, Signs(p, S \cup {g}))
           q == Children(s, g)
           t == MoveAllBehind(g, s, q)
           u == RemoveNode(t, g)
<1>2. Started(p, n, k, S \cup {g}, w)
  BY BeginOld
<1>3. g \in DOMAIN s.rec
  BY ItemIs
<1> HIDE DEF w, s
<1>4. /\ WorldOK(w) /\ Midway(w, s, Coming(p)) /\ SingleAttributes(s.rec) /\ w.k = k
      /\ \A x \in DOMAIN k : x \in S => w.p \in w.au[x]
      /\ Heights(k, n) /\ RecordsOK(k, s.rec)
  BY <1>2 DEF Started, s
<1>5. q \in Seq(S)
  BY <1>4, ChildrenAre
<1>6. Movable(w, s, S, Root)
  <2>1. ASSUME NEW x \in S
        PROVE  /\ x \in DOMAIN s.rec /\ w.k[x] # 0 /\ w.p \in w.au[x]
               /\ Root \in Places(w.k, x)
    <3>1. x \in DOMAIN s.rec /\ s.rec[x].type = "elem"
      BY DEF Elements
    <3>2. x \in DOMAIN k
      BY <1>4, <3>1, RecordValue
    <3>3. k[x] # 0
      BY <1>4, <3>1, KindOfAttr
    <3> QED BY <1>4, <3>1, <3>2, <3>3 DEF Places
  <2> QED BY <2>1 DEF Movable
<1> HIDE DEF q, S
<1>7. Midway(w, t, Coming(p)) /\ SingleAttributes(t.rec) /\ DOMAIN t.rec = DOMAIN s.rec
  BY <1>4, <1>5, <1>6, MoveAllBehindMid
<1>8. Operation(p, u, S \cup {g}, {}) /\ DOMAIN k = used \cup {}
  BY <1>1 DEF q, S
<1> HIDE DEF t
<1>9. Midway(w, u, Coming(p)) /\ Fewer(t.rec, u.rec)
  BY <1>3, <1>4, <1>7, RemoveNodeMid
<1>10. SingleAttributes(u.rec)
  BY <1>7, <1>9, FewerSingle
<1> HIDE DEF u
<1> QED BY <1>8, <1>9, <1>10, Done DEF w

LEMMA EraseKnown ==
    ASSUME Tables, NEW n \in Nat, NEW k \in [used -> 0..n], Sound(k, n), NEW p \in Peers,
           Erase(p)
    PROVE  Known'
<1> DEFINE s == End(p)
<1>1. PICK r \in Items(p) :
        Operation(p, RemoveNode(s, r), ToSet(RemovesOf(s, r)), {})
  BY DEF Erase
<1> DEFINE S == ToSet(RemovesOf(s, r))
           w == World(p, k, n, Signs(p, S))
           t == RemoveNode(s, r)
<1>2. Started(p, n, k, S, w)
  BY BeginOld
<1>3. r \in DOMAIN s.rec
  BY ItemIs
<1> HIDE DEF w, s, S
<1>4. WorldOK(w) /\ Midway(w, s, Coming(p)) /\ SingleAttributes(s.rec)
  BY <1>2 DEF Started, s
<1>5. Midway(w, t, Coming(p)) /\ Fewer(s.rec, t.rec)
  BY <1>3, <1>4, RemoveNodeMid
<1>6. SingleAttributes(t.rec)
  BY <1>4, <1>5, FewerSingle
<1>7. Operation(p, t, S, {}) /\ DOMAIN k = used \cup {}
  BY <1>1 DEF S
<1> HIDE DEF t
<1> QED BY <1>5, <1>6, <1>7, Done DEF w

-----------------------------------------------------------------------------
(* The steps of the session keep what is known.                             *)

LEMMA FlushKnown ==
    ASSUME Tables, NEW n \in Nat, NEW k \in [used -> 0..n], Sound(k, n), NEW p \in Peers,
           Flush(p)
    PROVE  Known'
<1> DEFINE s == End(p)
           t == FlushOut(s)
           w == World(p, k, n, authors)
<1>1. Become(p, t) /\ Send(p, t) /\ used' = used /\ authors' = authors /\ ops' = ops
  BY DEF Flush
<1>2. authors \in [Rids -> SUBSET Peers] /\ ops' \in 0..MaxOps /\ DOMAIN net = Peers
  BY <1>1 DEF Tables
<1>3. WorldOK(w) /\ Midway(w, s, Coming(p)) /\ SingleAttributes(s.rec)
  BY Start
<1>4. Other(p) \in Peers /\ Other(p) # p
  BY TwoPeers
<1>5. net[p] \in Seq(Seq(Edits(k)))
  BY ComingType
<1>6. /\ DOMAIN net' = Peers /\ net'[p] = net[p]
      /\ net'[Other(p)] = net[Other(p)] \o t.sent
  BY <1>1, <1>2, <1>4 DEF Send
<1> HIDE DEF w, s
<1>7. Midway(w, t, Coming(p)) /\ t.rec = s.rec
  BY <1>3, FlushMid
<1>8. SingleAttributes(t.rec)
  BY <1>3, <1>7
<1> HIDE DEF t
<1>9. WorldOK(World(p, k, n, authors))
  BY <1>3 DEF w
<1>10. Midway(World(p, k, n, authors), t, Flat(net[p]) \o out[Other(p)])
  BY <1>7 DEF w, Coming
<1>11. DOMAIN k = used'
  BY <1>1
<1> QED BY <1>1, <1>2, <1>5, <1>6, <1>8, <1>9, <1>10, <1>11, Finish

LEMMA ReceiveKnown ==
    ASSUME Tables, NEW n \in Nat, NEW k \in [used -> 0..n], Sound(k, n), NEW p \in Peers,
           Receive(p)
    PROVE  Known'
<1> DEFINE s == End(p)
           h == Head(net[p])
           l == Tail(net[p])
           t == ApplyAll(s, h)
           q == Other(p)
           w == World(p, k, n, authors)
<1>1. /\ net[p] # <<>> /\ Become(p, t)
      /\ net' = [net EXCEPT ![p] = Tail(@), ![Other(p)] = @ \o t.sent]
      /\ used' = used /\ authors' = authors /\ ops' = ops
  BY DEF Receive
<1>2. authors \in [Rids -> SUBSET Peers] /\ ops' \in 0..MaxOps /\ DOMAIN net = Peers
  BY <1>1 DEF Tables
<1>3. WorldOK(w) /\ Midway(w, s, Coming(p)) /\ SingleAttributes(s.rec) /\ w.k = k
  BY Start, WorldIs
<1>4. q \in Peers /\ q # p
  BY TwoPeers
<1>5. net[p] \in Seq(Seq(Edits(k))) /\ out[q] \in Seq(Edits(k))
  BY <1>4, ComingType
<1>6. DOMAIN net' = Peers /\ net'[p] = l /\ net'[Other(p)] = net[Other(p)] \o t.sent
  <2> HIDE DEF t
  <2> QED BY <1>1, <1>2, <1>4
<1> DEFINE E == Edits(k)
<1>7. h \in Seq(E) /\ l \in Seq(Seq(E)) /\ net[p] = <<h>> \o l /\ <<h>> \in Seq(Seq(E))
  <2> DEFINE S == Seq(E)
             a == net[p]
  <2>1. a \in Seq(S) /\ a # <<>>
    BY <1>1, <1>5
  <2> HIDE DEF S, a
  <2>2. Head(a) \in S /\ Tail(a) \in Seq(S) /\ a = <<Head(a)>> \o Tail(a)
    BY <2>1, HeadTailProperties
  <2>3. <<Head(a)>> \in Seq(S)
    BY <2>2
  <2> QED BY <2>2, <2>3 DEF S, a
<1> HIDE DEF h, l, q, w, s, E
<1>8. Flat(net[p]) = h \o Flat(l)
  <2>1. Flat(net[p]) = Flat(<<h>>) \o Flat(l)
    BY <1>7, FlatJoin
  <2>2. Flat(<<h>>) = h
    BY <1>7, FlatOne
  <2> QED BY <2>1, <2>2
<1>9. Flat(l) \in Seq(E) /\ Flat(l) \o out[q] \in Seq(E)
  BY <1>5, <1>7, FlatType, ConcatProperties DEF E
<1>10. Coming(p) = h \o (Flat(l) \o out[q])
  <2> DEFINE y == Flat(l)
             z == out[q]
  <2>1. Coming(p) = (h \o y) \o z
    BY <1>8 DEF Coming, q
  <2>2. h \in Seq(E) /\ y \in Seq(E) /\ z \in Seq(E)
    BY <1>5, <1>7, <1>9 DEF E
  <2> HIDE DEF y, z
  <2>3. (h \o y) \o z = h \o (y \o z)
    BY <2>2, ConcatAssociative
  <2> QED BY <2>1, <2>3 DEF y, z
<1> DEFINE rest == Flat(l) \o out[q]
<1> HIDE DEF rest
<1>11. Midway(w, s, h \o rest) /\ h \in Seq(Edits(w.k)) /\ rest \in Seq(Edits(w.k))
  BY <1>3, <1>7, <1>9, <1>10 DEF rest, E
<1>12. Midway(w, t, rest) /\ SingleAttributes(t.rec)
  BY <1>3, <1>11, ApplyAllMid
<1>13. Become(p, t)
  BY <1>1
<1> HIDE DEF t
<1>14. WorldOK(World(p, k, n, authors))
  BY <1>3 DEF w
<1>15. Midway(World(p, k, n, authors), t, Flat(l) \o out[Other(p)])
  BY <1>12 DEF w, rest, q
<1>16. DOMAIN k = used' /\ authors' = authors /\ l \in Seq(Seq(Edits(k)))
  BY <1>1, <1>7 DEF E
<1> QED BY <1>2, <1>6, <1>12, <1>13, <1>14, <1>15, <1>16, Finish

-----------------------------------------------------------------------------
(* The beginning.                                                           *)

LEMMA FlatNone == Flat(<<>>) = <<>>
<1>1. <<>> \in Seq({})
  BY EmptySeq
<1> QED BY <1>1, FlatOne

LEMMA EmptyChannels ==
    ASSUME NEW r
    PROVE  /\ NewsIn(<<>>, r) = {} /\ SetsIn(<<>>, r) = {} /\ RemovesIn(<<>>, r) = {}
           /\ Cardinality(SetsIn(<<>>, r)) = 0
<1>1. Len(<<>>) = 0
  OBVIOUS
<1>2. NewsIn(<<>>, r) = {} /\ SetsIn(<<>>, r) = {} /\ RemovesIn(<<>>, r) = {}
  BY <1>1 DEF NewsIn, SetsIn, RemovesIn
<1> QED BY <1>2, FS_EmptySet

LEMMA InitialRecords ==
    ASSUME NEW k, k = [r \in InitItems |-> 1]
    PROVE  /\ RecordsOK(k, InitRecords) /\ SingleAttributes(InitRecords)
           /\ \A r \in DOMAIN InitRecords :
                InitRecords[r].version = 0 /\ Len(InitRecords[r].versions) = 1
<1> DEFINE weight(r) == One * Cardinality({x \in InitItems : x < r})
           e(r) == NewEdit(r, "elem", Root, weight(r), "none")
           R == InitRecords
<1>1. DOMAIN R = InitItems /\ R = [r \in DOMAIN R |-> R[r]]
      /\ \A r \in InitItems : R[r] = NewRecord(e(r))
  BY DEF InitRecords
<1>2. DOMAIN k = InitItems
  OBVIOUS
<1>3. ASSUME NEW r \in InitItems
      PROVE  e(r) \in NewEdits(k, r)
  <2>1. weight(r) \in Int
    <3> DEFINE S == {x \in InitItems : x < r}
    <3>1. S \subseteq InitItems /\ IsFiniteSet(InitItems) /\ One \in Nat
      BY SxeAssumption
    <3> HIDE DEF S
    <3>2. Cardinality(S) \in Nat
      BY <3>1, FS_Subset, FS_CardinalityType
    <3>3. One * Cardinality(S) \in Int
      BY <3>1, <3>2
    <3> QED BY <3>3 DEF S
  <2>2. k[r] = 1
    OBVIOUS
  <2>3. "elem" = Kind(k, r) /\ Root \in Places(k, r) /\ "none" \in Data /\ r \in DOMAIN k
    BY <1>2, <2>2 DEF Kind, Places, Data
  <2> HIDE DEF weight
  <2>4. NewEdit(r, "elem", Root, weight(r), "none") \in NewEdits(k, r)
    BY <2>1, <2>3, NewEditIn
  <2> QED BY <2>4
<1> HIDE DEF e, R
<1>4. ASSUME NEW r \in InitItems
      PROVE  /\ RecordOK(k, r, R[r]) /\ R[r].type = "elem"
             /\ R[r].version = 0 /\ Len(R[r].versions) = 1
  <2>1. /\ RecordOK(k, r, NewRecord(e(r))) /\ NewlyMade(e(r), r, NewRecord(e(r)))
        /\ NewRecord(e(r)).type = Kind(k, r)
    BY <1>2, <1>3, NewRecordOK
  <2>2. Kind(k, r) = "elem"
    BY DEF Kind
  <2>3. R[r] = NewRecord(e(r))
    BY <1>1
  <2> QED BY <2>1, <2>2, <2>3 DEF NewlyMade
<1>5. RecordsOK(k, R)
  BY <1>1, <1>2, <1>4 DEF RecordsOK
<1>6. SingleAttributes(R)
  BY <1>1, <1>4 DEF SingleAttributes
<1> QED BY <1>1, <1>4, <1>5, <1>6 DEF R

LEMMA InitKnown == Init => Known
<1> SUFFICES ASSUME Init
             PROVE  Known
  OBVIOUS
<1> DEFINE k == [r \in InitItems |-> 1]
<1>1. Tables
  BY SxeAssumption DEF Init, Tables
<1>2. k \in [used -> 0..1] /\ DOMAIN k = InitItems /\ DOMAIN k \subseteq Rids
      /\ IsFiniteSet(DOMAIN k)
  BY SxeAssumption DEF Init
<1>3. k = [r \in InitItems |-> 1]
  OBVIOUS
<1> HIDE DEF k
<1>4. /\ RecordsOK(k, InitRecords) /\ SingleAttributes(InitRecords)
      /\ \A r \in DOMAIN InitRecords :
           InitRecords[r].version = 0 /\ Len(InitRecords[r].versions) = 1
  BY <1>3, InitialRecords
<1>5. Heights(k, 1)
  <2>1. k \in [DOMAIN k -> 0..1]
    BY <1>2
  <2> QED BY <1>2, <2>1 DEF Heights
<1>6. ASSUME NEW p \in Peers
      PROVE  /\ rec[p] = InitRecords /\ out[p] = <<>> /\ net[p] = <<>> /\ warned[p] = FALSE
             /\ Coming(p) = <<>>
  <2>1. /\ rec[p] = InitRecords /\ out[p] = <<>> /\ net[p] = <<>> /\ warned[p] = FALSE
        /\ out[Other(p)] = <<>>
    BY TwoPeers DEF Init
  <2>2. <<>> \o <<>> = <<>>
    OBVIOUS
  <2> QED BY <2>1, <2>2, FlatNone DEF Coming
<1>7. ASSUME NEW p \in Peers
      PROVE  EndOK(k, End(p)) /\ net[p] \in Seq(Seq(Edits(k)))
  <2> DEFINE s == End(p)
             S == Edits(k)
  <2>1. s = [rec |-> InitRecords, out |-> <<>>, sent |-> <<>>, warned |-> FALSE]
    BY <1>6 DEF End
  <2>2. <<>> \in Seq(S) /\ <<>> \in Seq(Seq(S))
    BY EmptySeq
  <2> HIDE DEF s, S
  <2>3. /\ s.rec = InitRecords
        /\ s \in [rec : {s.rec}, out : Seq(S), sent : Seq(Seq(S)), warned : {FALSE}]
    BY <2>1, <2>2
  <2> QED BY <1>4, <1>6, <2>2, <2>3 DEF EndOK, s, S
<1>8. ASSUME NEW p \in Peers
      PROVE  Pair(p, rec[p], Coming(p), Other(p), rec[Other(p)], Coming(Other(p)), authors)
  <2> DEFINE q == Other(p)
             R == InitRecords
  <2>1. q \in Peers
    BY TwoPeers
  <2>2. rec[p] = R /\ rec[q] = R /\ Coming(p) = <<>> /\ Coming(q) = <<>>
    BY <1>6, <2>1
  <2> HIDE DEF q, R
  <2>3. ASSUME NEW x, NEW y, NEW r
        PROVE  Half(x, R, <<>>, y, <<>>, r, authors)
    <3>1. InStep(x, R, <<>>, r, authors)
      BY EmptyChannels DEF InStep
    <3>2. NewOnce(R, <<>>, <<>>, r)
      BY EmptyChannels DEF NewOnce
    <3>3. r \in DOMAIN R => Len(R[r].versions) = R[r].version + 1
      <4> SUFFICES ASSUME r \in DOMAIN R
                   PROVE  Len(R[r].versions) = R[r].version + 1
        OBVIOUS
      <4>1. R[r].version = 0 /\ Len(R[r].versions) = 1
        BY <1>4 DEF R
      <4> QED BY <4>1
    <3>4. Signed(x, R, <<>>, y, r, authors)
      BY <3>3, EmptyChannels DEF Signed
    <3> QED BY <3>1, <3>2, <3>4 DEF Half
  <2>4. ASSUME NEW r
        PROVE  Balanced(R, <<>>, R, <<>>, r)
    BY DEF Balanced
  <2>5. Counts(p, R, <<>>, q, R, <<>>, authors)
    BY <2>3, <2>4 DEF Counts, CountsAt
  <2>6. ASSUME NEW r
        PROVE  MeetAt(R, <<>>, R, <<>>, r)
    <3>1. Lives(R, <<>>, R, <<>>, r)
      BY EmptyChannels DEF Lives
    <3>2. Makes(<<>>, r, CoreIn(R, r), CoreIn(R, r))
      <4>1. Len(<<>>) \in Nat
        OBVIOUS
      <4> QED BY <4>1, EmptyChannels, MakesNothing
    <3> QED BY <3>1, <3>2 DEF MeetAt, Agree
  <2>7. Pair(p, R, <<>>, q, R, <<>>, authors)
    BY <2>5, <2>6 DEF Pair, Meet
  <2> QED BY <2>2, <2>7 DEF q
<1>9. Sound(k, 1)
  BY <1>5, <1>7, <1>8 DEF Sound
<1> QED BY <1>1, <1>2, <1>9 DEF Known

-----------------------------------------------------------------------------
(* Every step.                                                              *)

LEMMA StutterKnown == Known /\ UNCHANGED vars => Known'
<1> SUFFICES ASSUME Known, UNCHANGED vars
             PROVE  Known'
  OBVIOUS
<1>1. /\ rec' = rec /\ out' = out /\ net' = net /\ warned' = warned
      /\ used' = used /\ authors' = authors /\ ops' = ops
  BY DEF vars
<1>2. Tables'
  BY <1>1 DEF Known, Tables
<1>3. PICK n, k : n \in Nat /\ k \in [used -> 0..n] /\ Sound(k, n)
  BY DEF Known
<1>4. ASSUME NEW p
      PROVE  End(p)' = End(p) /\ Coming(p)' = Coming(p)
  BY <1>1 DEF End, Coming
<1>5. Sound(k, n)'
  BY <1>1, <1>3, <1>4 DEF Sound
<1> QED BY <1>1, <1>2, <1>3, <1>5 DEF Known

LEMMA StepKnown == Known /\ [Next]_vars => Known'
<1> SUFFICES ASSUME Known, [Next]_vars
             PROVE  Known'
  OBVIOUS
<1>1. CASE UNCHANGED vars
  BY <1>1, StutterKnown
<1>2. CASE Next
  <2>1. PICK p \in Peers : User(p) \/ Flush(p) \/ Receive(p)
    BY <1>2 DEF Next
  <2>2. Tables
    BY DEF Known
  <2>3. PICK n, k : n \in Nat /\ k \in [used -> 0..n] /\ Sound(k, n)
    BY DEF Known
  <2>4. CASE NewItem(p)
    BY <2>2, <2>3, <2>4, NewItemKnown
  <2>5. CASE SetAttribute(p)
    BY <2>2, <2>3, <2>5, SetAttributeKnown
  <2>6. CASE Bring(p)
    BY <2>2, <2>3, <2>6, BringKnown
  <2>7. CASE Group(p)
    BY <2>2, <2>3, <2>7, GroupKnown
  <2>8. CASE Ungroup(p)
    BY <2>2, <2>3, <2>8, UngroupKnown
  <2>9. CASE Erase(p)
    BY <2>2, <2>3, <2>9, EraseKnown
  <2>10. CASE Flush(p)
    BY <2>2, <2>3, <2>10, FlushKnown
  <2>11. CASE Receive(p)
    BY <2>2, <2>3, <2>11, ReceiveKnown
  <2> QED BY <2>1, <2>4, <2>5, <2>6, <2>7, <2>8, <2>9, <2>10, <2>11 DEF User
<1> QED BY <1>1, <1>2

(* What SxeKnown says of the edits on their way and of the records they are  *)
(* for holds in every state.                                                *)
THEOREM KnownCorrect == Spec => []Known
  BY InitKnown, StepKnown, PTL DEF Spec

-----------------------------------------------------------------------------
(* What follows of every state.                                             *)

LEMMA KnownTypes == Known => TypeOK
<1> SUFFICES ASSUME Known
             PROVE  TypeOK
  OBVIOUS
<1>1. Tables
  BY DEF Known
<1>2. PICK n, k : n \in Nat /\ k \in [used -> 0..n] /\ Sound(k, n)
  BY DEF Known
<1>3. DOMAIN k = used /\ DOMAIN k \subseteq Rids
  BY <1>2 DEF Sound, Heights
<1>4. ASSUME NEW p \in Peers
      PROVE  DOMAIN rec[p] \subseteq Rids
  <2>1. RecordsOK(k, rec[p])
    BY <1>2, EndRecords, EndIs
  <2> QED BY <1>3, <2>1 DEF RecordsOK
<1>5. ASSUME NEW p \in Peers, NEW r \in DOMAIN rec[p]
      PROVE  LET x == rec[p][r]
             IN /\ x.type \in {"elem", "attr"} /\ x.version \in Nat
                /\ Len(x.versions) > 0 /\ Head(x.edits).op = "new"
                /\ \A w \in ToSet(x.versions) :
                     w.v <= x.version /\ w.val.parent \in Rids \cup {Root}
  <2> DEFINE x == rec[p][r]
  <2>1. RecordsOK(k, rec[p])
    BY <1>2, EndRecords, EndIs
  <2>2. RecordOK(k, r, x) /\ x.type = Kind(k, r) /\ x.version \in Nat
    BY <2>1, RecordValue
  <2> HIDE DEF x
  <2>3. x.type \in {"elem", "attr"}
    BY <2>2 DEF Kind
  <2>4. History(k, r, x.versions, x.version) /\ Log(k, x.edits)
    BY <2>2, RecordParts
  <2>5. Head(x.edits) = x.edits[1]
    <3>1. x.edits \in Seq(Edits(k)) /\ Len(x.edits) > 0
      BY <2>4 DEF Log
    <3> QED BY <3>1
  <2>6. Len(x.versions) > 0 /\ Head(x.edits).op = "new"
    BY <2>4, <2>5 DEF History, Log
  <2>7. ASSUME NEW w \in ToSet(x.versions)
        PROVE  w.v <= x.version /\ w.val.parent \in Rids \cup {Root}
    <3>1. x.versions \in Seq(Versions(k, r))
      BY <2>4 DEF History
    <3>2. PICK i \in 1..Len(x.versions) : w = x.versions[i]
      BY <3>1, LenProperties DEF ToSet
    <3>3. w.v <= x.version
      BY <2>4, <3>2 DEF History
    <3>4. w \in Versions(k, r)
      BY <3>1, <3>2
    <3>5. w.val.parent \in Places(k, r)
      BY <3>4 DEF Versions, Vals
    <3>6. Places(k, r) \subseteq Rids \cup {Root}
      BY <1>3 DEF Places
    <3> QED BY <3>3, <3>5, <3>6
  <2> QED BY <2>2, <2>3, <2>6, <2>7 DEF x
<1>6. ASSUME NEW p \in Peers, NEW e \in ToSet(out[p]) \cup UNION {ToSet(m) : m \in ToSet(net[p])}
      PROVE  e.op \in {"new", "set", "remove"} /\ e.rid \in Rids
  <2>1. net[p] \in Seq(Seq(Edits(k))) /\ out[p] \in Seq(Edits(k))
    BY <1>2, ComingType
  <2>2. e \in Edits(k)
    <3>1. CASE e \in ToSet(out[p])
      BY <2>1, <3>1 DEF ToSet
    <3>2. CASE e \in UNION {ToSet(m) : m \in ToSet(net[p])}
      <4>1. PICK m \in ToSet(net[p]) : e \in ToSet(m)
        BY <3>2
      <4> DEFINE S == Seq(Edits(k))
      <4>2. net[p] \in Seq(S)
        BY <2>1
      <4> HIDE DEF S
      <4>3. m \in S
        BY <4>1, <4>2 DEF ToSet
      <4>4. m \in Seq(Edits(k))
        BY <4>3 DEF S
      <4> QED BY <4>1, <4>4 DEF ToSet
    <3> QED BY <3>1, <3>2
  <2> QED BY <1>3, <2>2, EditKinds
<1> QED BY <1>1, <1>3, <1>4, <1>5, <1>6 DEF TypeOK, Tables

(* A document is what the records say.                                      *)
LEMMA AlikeDocuments ==
    ASSUME NEW R, NEW Q, DOMAIN R = DOMAIN Q,
           \A r \in DOMAIN R : R[r].type = Q[r].type /\ Val(R[r]) = Val(Q[r])
    PROVE  Document(R) = Document(Q)
<1> DEFINE below(S) == {r \in DOMAIN R : Val(R[r]).parent \in S}
           under(S) == {r \in DOMAIN Q : Val(Q[r]).parent \in S}
           top == below({Root})
           all == top \cup below(top) \cup below(below(top))
           other == under({Root}) \cup under(under({Root})) \cup under(under(under({Root})))
<1>1. \A S : below(S) = under(S) /\ below(S) \subseteq DOMAIN R
  OBVIOUS
<1>2. Document(R) = [r \in all |-> [type |-> R[r].type, val |-> Val(R[r])]]
  BY DEF Document
<1>3. Document(Q) = [r \in other |-> [type |-> Q[r].type, val |-> Val(Q[r])]]
  BY DEF Document
<1> HIDE DEF below, under
<1>4. all = other /\ all \subseteq DOMAIN R
  BY <1>1
<1> HIDE DEF all, other
<1> QED BY <1>2, <1>3, <1>4

LEMMA ComingNothing ==
    ASSUME Quiet, NEW p \in Peers
    PROVE  Coming(p) = <<>>
<1>1. net[p] = <<>> /\ out[Other(p)] = <<>>
  BY TwoPeers DEF Quiet
<1>2. <<>> \o <<>> = <<>>
  OBVIOUS
<1> QED BY <1>1, <1>2, FlatNone DEF Coming

LEMMA KnownConverged == Known => Converged
<1> SUFFICES ASSUME Known, Quiet, NEW p \in Peers, NEW q \in Peers
             PROVE  Document(rec[p]) = Document(rec[q])
  BY DEF Converged
<1>1. PICK n, k : n \in Nat /\ k \in [used -> 0..n] /\ Sound(k, n)
  BY DEF Known
<1>2. CASE p = q
  BY <1>2
<1>3. CASE p # q
  <2> DEFINE R == rec[p]
             Q == rec[q]
  <2>1. RecordsOK(k, R) /\ RecordsOK(k, Q) /\ DOMAIN k \subseteq Rids
    BY <1>1, EndRecords, EndIs DEF Sound, Heights
  <2>2. Meet(R, <<>>, Q, <<>>)
    <3>1. q = Other(p)
      BY <1>3, TwoPeers
    <3>2. Pair(p, R, Coming(p), q, Q, Coming(q), authors)
      BY <1>1, <3>1 DEF Sound
    <3>3. Coming(p) = <<>> /\ Coming(q) = <<>>
      BY ComingNothing
    <3> QED BY <3>2, <3>3 DEF Pair
  <2> HIDE DEF R, Q
  <2>3. DOMAIN R \subseteq Rids /\ DOMAIN Q \subseteq Rids
    BY <2>1 DEF RecordsOK
  <2>4. ASSUME NEW r \in Rids
        PROVE  r \in DOMAIN R <=> r \in DOMAIN Q
    BY <2>2, EmptyChannels DEF Meet, MeetAt, Lives
  <2>5. DOMAIN R = DOMAIN Q
    BY <2>3, <2>4
  <2>6. ASSUME NEW r \in DOMAIN R
        PROVE  R[r].type = Q[r].type /\ Val(R[r]) = Val(Q[r])
    <3> DEFINE x == R[r]
               y == Q[r]
    <3>1. r \in DOMAIN Q /\ r \in Rids
      BY <2>3, <2>5
    <3>2. RecordOK(k, r, x) /\ RecordOK(k, r, y) /\ x.type = y.type
      BY <2>1, <3>1, RecordValue
    <3>3. Core(x) = Core(y)
      <4>1. Agree(R, <<>>, Q, <<>>, r) /\ Knows(R, <<>>, r) /\ Knows(Q, <<>>, r)
        BY <2>2, <3>1 DEF Meet, MeetAt, Knows
      <4>2. CoreIn(R, r) = Core(x) /\ CoreIn(Q, r) = Core(y)
        BY <3>1 DEF CoreIn
      <4>3. PICK z : Makes(<<>>, r, Core(x), z) /\ Makes(<<>>, r, Core(y), z)
        BY <4>1, <4>2 DEF Agree
      <4>4. Len(<<>>) \in Nat
        OBVIOUS
      <4>5. z = Core(x) /\ z = Core(y)
        BY <4>3, <4>4, EmptyChannels, MakesNothing
      <4> QED BY <4>5
    <3> HIDE DEF x, y
    <3>4. ToSet(x.versions) = ToSet(y.versions)
      BY <3>3, CoreParts
    <3>5. Newest(ToSet(x.versions)) = Last(x.versions) /\ Newest(ToSet(y.versions)) = Last(y.versions)
      <4>1. History(k, r, x.versions, x.version) /\ History(k, r, y.versions, y.version)
        BY <3>2, RecordParts
      <4> QED BY <4>1, NewestIsLast
    <3>6. Val(x) = Val(y)
      BY <3>4, <3>5 DEF Val
    <3> QED BY <3>2, <3>6 DEF x, y
  <2> QED BY <2>5, <2>6, AlikeDocuments DEF R, Q
<1> QED BY <1>2, <1>3

LEMMA KnownVersions == Known => VersionsAgree
<1> SUFFICES ASSUME Known, Quiet, NEW p \in Peers, NEW q \in Peers,
                    NEW r \in DOMAIN Document(rec[p]), r \in DOMAIN rec[q]
             PROVE  rec[p][r].version = rec[q][r].version
  BY DEF VersionsAgree
<1>1. PICK n, k : n \in Nat /\ k \in [used -> 0..n] /\ Sound(k, n)
  BY DEF Known
<1>2. r \in DOMAIN rec[p]
  BY DEF Document
<1>3. CASE p = q
  BY <1>3
<1>4. CASE p # q
  <2>1. q = Other(p)
    BY <1>4, TwoPeers
  <2>2. ASSUME NEW x \in Peers
        PROVE  Coming(x) = <<>> /\ RecordsOK(k, rec[x])
    BY <1>1, ComingNothing, EndRecords, EndIs
  <2>3. Pair(p, rec[p], Coming(p), q, rec[q], Coming(q), authors)
    BY <1>1, <2>1 DEF Sound
  <2>4. r \in Rids
    <3>1. r \in DOMAIN k /\ DOMAIN k \subseteq Rids
      BY <1>1, <1>2, <2>2 DEF RecordsOK, Sound, Heights
    <3> QED BY <3>1
  <2>5. Balanced(rec[p], <<>>, rec[q], <<>>, r)
    BY <2>2, <2>3, <2>4 DEF Pair, Counts, CountsAt
  <2>6. rec[p][r].version + 0 = rec[q][r].version + 0
    BY <1>2, <2>5, EmptyChannels DEF Balanced, Knows, VersionIn
  <2>7. rec[p][r].version \in Nat /\ rec[q][r].version \in Nat
    BY <1>2, <2>2, RecordValue
  <2> QED BY <2>6, <2>7
<1> QED BY <1>3, <1>4

LEMMA KnownNotAhead == Known => NeverAhead
<1> SUFFICES ASSUME Known, NEW p \in Peers
             PROVE  ~warned[p]
  BY DEF NeverAhead
<1>1. PICK n, k : n \in Nat /\ k \in [used -> 0..n] /\ Sound(k, n)
  BY DEF Known
<1>2. End(p).warned = FALSE
  BY <1>1 DEF Sound, EndOK
<1> QED BY <1>2, EndIs

LEMMA KnownSingle == Known => OneAttribute
<1> SUFFICES ASSUME Known, NEW p \in Peers
             PROVE  SingleAttributes(rec[p])
  BY DEF OneAttribute, SingleAttributes
<1>1. PICK n, k : n \in Nat /\ k \in [used -> 0..n] /\ Sound(k, n)
  BY DEF Known
<1>2. SingleAttributes(End(p).rec)
  BY <1>1 DEF Sound, EndOK
<1> QED BY <1>2, EndIs

LEMMA KnownRivals == Known => LostEditHasRival
<1> SUFFICES ASSUME Known, NEW p \in Peers, NEW r \in DOMAIN rec[p],
                    Cardinality(authors[r]) < 2
             PROVE  Len(rec[p][r].versions) = rec[p][r].version + 1
  BY DEF LostEditHasRival
<1>1. PICK n, k : n \in Nat /\ k \in [used -> 0..n] /\ Sound(k, n)
  BY DEF Known
<1>2. r \in Rids
  <2>1. RecordsOK(k, rec[p])
    BY <1>1, EndRecords, EndIs
  <2>2. r \in DOMAIN k /\ DOMAIN k \subseteq Rids
    BY <1>1, <2>1 DEF RecordsOK, Sound, Heights
  <2> QED BY <2>2
<1>3. ~(p \in authors[r] /\ Other(p) \in authors[r])
  <2> SUFFICES ASSUME p \in authors[r], Other(p) \in authors[r]
               PROVE  FALSE
    OBVIOUS
  <2>1. authors[r] \subseteq Peers
    BY <1>2 DEF Known, Tables
  <2>2. authors[r] = Peers
    BY <2>1, TwoPeers
  <2> QED BY <2>2, SxeAssumption
<1>4. Pair(p, rec[p], Coming(p), Other(p), rec[Other(p)], Coming(Other(p)), authors)
  BY <1>1 DEF Sound
<1>5. Signed(p, rec[p], Coming(p), Other(p), r, authors)
  BY <1>2, <1>4 DEF Pair, Counts, CountsAt, Half
<1> QED BY <1>3, <1>5 DEF Signed

-----------------------------------------------------------------------------

(* Records, queued edits and messages are what applySxeRecordEdit() and     *)
(* processIncomingSxeElement() expect, in every state.                      *)
THEOREM TypeCorrect == Spec => []TypeOK
  BY KnownCorrect, KnownTypes, PTL

(* When nothing is on its way, both ends show the same document: what       *)
(* applySxeRecordEdit() reverts where edits crossed, and what reposition()  *)
(* removes, is the same at both.                                            *)
THEOREM ConvergedCorrect == Spec => []Converged
  BY KnownCorrect, KnownConverged, PTL

(* When nothing is on its way, both ends have counted the same edits of     *)
(* every node (SxeRecord::applySxeRecordEdit()), whatever crossed.          *)
THEOREM VersionsAgreeCorrect == Spec => []VersionsAgree
  BY KnownCorrect, KnownVersions, PTL

(* No edit comes that is ahead of its record: the warning of                *)
(* applySxeRecordEdit() is never given.                                     *)
THEOREM NeverAheadCorrect == Spec => []NeverAhead
  BY KnownCorrect, KnownNotAhead, PTL

(* reposition() leaves an element one attribute of a name, in every state.  *)
THEOREM OneAttributeCorrect == Spec => []OneAttribute
  BY KnownCorrect, KnownSingle, PTL

(* applySxeRecordEdit() gives up only edits of nodes that both users        *)
(* changed.                                                                 *)
THEOREM LostEditHasRivalCorrect == Spec => []LostEditHasRival
  BY KnownCorrect, KnownRivals, PTL

=============================================================================

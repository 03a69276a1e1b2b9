----------------------------- MODULE FoldSteps -----------------------------
(***************************************************************************)
(* What a fold over a sequence computes, step by step, for any operation.  *)
(* The folds of the community modules are a recursive function on the      *)
(* subsets of a domain.  That there is such a function, and that a fold is *)
(* the loop it stands for, is shown here once: a module that folds an      *)
(* operation of its own instantiates this one.                             *)
(***************************************************************************)
EXTENDS Integers, SequencesExt, FiniteSetTheorems, WellFoundedInduction, TLAPS

CONSTANT Op(_, _, _)  \* the operation: a parameter, what has been computed, an element

Loop(g, b, q) == FoldLeft(LAMBDA t, x : Op(g, t, x), b, q)

-----------------------------------------------------------------------------
(* Induction over the naturals, stated with sets.                           *)

LEMMA LeastOf ==
    ASSUME NEW S \in SUBSET Nat, S # {}
    PROVE  \E m \in S : \A n \in S : m <= n
<1>1. IsWellFoundedOn(OpToRel(<, Nat), Nat)
  BY NatLessThanWellFounded
<1>2. PICK m \in S : \A n \in S : ~(<<n, m>> \in OpToRel(<, Nat))
  <2> HIDE DEF OpToRel
  <2> QED BY <1>1, WFMin
<1>3. \A n \in S : ~(n < m)
  BY <1>2 DEF OpToRel
<1> QED BY <1>3

(* What holds of 0, and of every next number up to n, holds of n.           *)
LEMMA UpTo ==
    ASSUME NEW n \in Nat, NEW S, 0 \in S, \A i \in 0..(n - 1) : i \in S => i + 1 \in S
    PROVE  \A i \in 0..n : i \in S
<1> DEFINE C == (0..n) \ S
<1>1. SUFFICES ASSUME C # {} PROVE FALSE
  OBVIOUS
<1>2. C \in SUBSET Nat
  OBVIOUS
<1>3. PICK m \in C : \A i \in C : m <= i
  <2> HIDE DEF C
  <2> QED BY <1>1, <1>2, LeastOf
<1>4. m # 0 /\ m - 1 \in 0..(n - 1) /\ m - 1 \in 0..n
  BY <1>3
<1>5. m - 1 \notin C
  BY <1>3, <1>4
<1>6. m - 1 \in S
  BY <1>4, <1>5
<1>7. (m - 1) + 1 = m
  BY <1>4
<1> QED BY <1>3, <1>4, <1>6, <1>7

-----------------------------------------------------------------------------
(* The function of a fold.                                                  *)

LEMMA MaxIs ==
    ASSUME NEW n \in Nat, NEW S \in SUBSET (1..n), S # {}
    PROVE  Max(S) \in S /\ \A y \in S : y <= Max(S)
<1> DEFINE B == {k \in 0..n : \A y \in S : y <= k}
<1>1. B \in SUBSET Nat /\ n \in B
  OBVIOUS
<1>2. PICK k \in B : \A l \in B : k <= l
  <2> HIDE DEF B
  <2> QED BY <1>1, LeastOf
<1>3. k \in S
  <2>1. SUFFICES ASSUME k \notin S PROVE FALSE
    OBVIOUS
  <2>2. k - 1 \in B
    <3>1. PICK y \in S : TRUE
      OBVIOUS
    <3>2. k - 1 \in 0..n
      BY <1>2, <2>1, <3>1
    <3>3. \A z \in S : z <= k - 1
      BY <1>2, <2>1
    <3> QED BY <3>2, <3>3
  <2> QED BY <1>2, <2>2
<1>4. \E x \in S : \A y \in S : x >= y
  BY <1>2, <1>3
<1> QED BY <1>4 DEF Max

LEMMA LastOfAll ==
    ASSUME NEW n \in Nat \ {0}
    PROVE  Max(1..n) = n
<1>1. n \in 1..n /\ \A y \in 1..n : n >= y
  OBVIOUS
<1>2. \A x \in 1..n : (\A y \in 1..n : x >= y) => x = n
  OBVIOUS
<1> QED BY <1>1, <1>2 DEF Max

IsIter(n, g, b, q, iter) ==
    iter = [u \in SUBSET (1..n) |->
              IF u = {} THEN b ELSE Op(g, iter[u \ {Max(u)}], q[Max(u)])]

LEMMA IterExists ==
    ASSUME NEW n \in Nat, NEW g, NEW b, NEW q
    PROVE  \E iter : IsIter(n, g, b, q, iter)
<1> DEFINE Below(k) == {u \in SUBSET (1..n) : u \subseteq 1..k}
           Next(f, u) == IF u = {} THEN b ELSE Op(g, f[u \ {Max(u)}], q[Max(u)])
           S == {k \in 0..n : \E f : f = [u \in Below(k) |-> Next(f, u)]}
<1>1. \A u \in SUBSET (1..n) : u # {} => Max(u) \in u
  BY MaxIs
<1>2. 0 \in S
  <2> DEFINE f == [u \in Below(0) |-> b]
  <2>1. \A u \in Below(0) : u = {}
    OBVIOUS
  <2>2. \A u \in Below(0) : Next(f, u) = b
    BY <2>1
  <2>3. f = [u \in Below(0) |-> Next(f, u)]
    BY <2>2
  <2> HIDE DEF Below, Next, f
  <2> QED BY <2>3
<1>3. ASSUME NEW k \in 0..(n - 1), k \in S
      PROVE  k + 1 \in S
  <2>1. PICK f : f = [u \in Below(k) |-> Next(f, u)]
    BY <1>3
  <2> DEFINE h == [u \in Below(k + 1) |-> Next(f, u)]
  <2>2. ASSUME NEW u \in Below(k + 1), u # {}
        PROVE  h[u \ {Max(u)}] = f[u \ {Max(u)}]
    <3>1. u \ {Max(u)} \in Below(k) /\ u \ {Max(u)} \in Below(k + 1)
      <4>1. \A y \in u : y <= Max(u)
        BY <2>2, MaxIs
      <4>2. u \in SUBSET (1..n) /\ u \subseteq 1..(k + 1) /\ Max(u) \in u
        BY <1>1, <2>2
      <4>3. ASSUME NEW y \in u \ {Max(u)}
            PROVE  y \in 1..k
        <5>1. y \in 1..(k + 1) /\ Max(u) \in 1..(k + 1) /\ y <= Max(u) /\ y # Max(u)
          BY <4>1, <4>2
        <5> QED BY <5>1
      <4>4. u \ {Max(u)} \subseteq 1..k
        BY <4>3
      <4> QED BY <4>2, <4>4
    <3> HIDE DEF Below
    <3> QED BY <2>1, <3>1
  <2>3. \A u \in Below(k + 1) : Next(f, u) = Next(h, u)
    <3> HIDE DEF Below, h
    <3> QED BY <2>2
  <2>4. h = [u \in Below(k + 1) |-> Next(h, u)]
    <3> HIDE DEF Below, Next
    <3> QED BY <2>3
  <2> HIDE DEF Below, h, Next
  <2> QED BY <2>4
<1>4. n \in S
  <2> HIDE DEF S
  <2>1. \A k \in 0..(n - 1) : k \in S => k + 1 \in S
    BY <1>3
  <2> QED BY <1>2, <2>1, UpTo
<1>5. PICK f : f = [u \in Below(n) |-> Next(f, u)]
  <2> HIDE DEF Below, Next
  <2> QED BY <1>4
<1>6. Below(n) = SUBSET (1..n)
  OBVIOUS
<1> QED BY <1>5, <1>6 DEF IsIter

(* A fold is a loop: f[i] is what has been computed after i elements.       *)
IsLoop(f, n, g, b, q) ==
    /\ f[0] = b /\ f[n] = Loop(g, b, q)
    /\ \A i \in 1..n : f[i] = Op(g, f[i - 1], q[i])

THEOREM LoopSteps ==
    ASSUME NEW n \in Nat, NEW g, NEW b, NEW q, DOMAIN q = 1..n
    PROVE  \E f : IsLoop(f, n, g, b, q)
<1> DEFINE iter == CHOOSE f : IsIter(n, g, b, q, f)
<1>9. IsIter(n, g, b, q, iter)
  BY IterExists
<1>8. Loop(g, b, q) = iter[1..n]
  BY Zenon DEF Loop, FoldLeft, MapThenFoldSet, IsIter
<1> HIDE DEF iter
<1>1. \A u \in SUBSET (1..n) :
        u # {} => iter[u] = Op(g, iter[u \ {Max(u)}], q[Max(u)])
  BY <1>9 DEF IsIter
<1>7. iter[{}] = b
  BY <1>9 DEF IsIter
<1> DEFINE f == [i \in 0..n |-> iter[1..i]]
<1>2. \A i \in 0..n : f[i] = iter[1..i] /\ 1..i \in SUBSET (1..n)
  OBVIOUS
<1>3. f[0] = b
  <2>1. 1..0 = {} /\ 0 \in 0..n
    OBVIOUS
  <2> HIDE DEF f
  <2> QED BY <1>2, <1>7, <2>1
<1>4. ASSUME NEW i \in 1..n
      PROVE  f[i] = Op(g, f[i - 1], q[i])
  <2>1. 1..i # {} /\ (1..i) \ {i} = 1..(i - 1) /\ i - 1 \in 0..n /\ i \in 0..n
    OBVIOUS
  <2>2. Max(1..i) = i
    BY LastOfAll
  <2>3. iter[1..i] = Op(g, iter[1..(i - 1)], q[i])
    BY <1>1, <1>2, <2>1, <2>2
  <2> HIDE DEF f
  <2> QED BY <1>2, <2>1, <2>3
<1>5. f[n] = Loop(g, b, q)
  BY <1>8, <1>2
<1> HIDE DEF f
<1> QED BY <1>3, <1>4, <1>5 DEF IsLoop
=============================================================================

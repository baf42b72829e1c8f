----------------------------- MODULE ListLemmas -----------------------------
(***************************************************************************)
(* What the proofs about the components use of lists and finite sets: the  *)
(* elements of a list that was appended to or overwritten, the first or    *)
(* last place of a list with a property, how many elements a set has when  *)
(* it gained or lost one; induction, stated of a set of numbers, and what  *)
(* a fold over a list returns, as the last term of a sequence of partial   *)
(* results.                                                                *)
(***************************************************************************)
EXTENDS SequencesExt, FiniteSetTheorems, WellFoundedInduction, TLAPS

\* A non-empty set of numbers has a least one.
LEMMA LeastNumber ==
    ASSUME NEW S, S \subseteq Nat, S # {}
    PROVE  Min(S) \in S /\ \A y \in S : Min(S) <= y
<1> DEFINE T == {0 .. x : x \in S}
<1>1. \A x \in Nat : IsFiniteSet(0 .. x)
  BY FS_Interval
<1>2. T \subseteq FiniteSubsetsOf(Nat) /\ T # {}
  <2>1. \A x \in S : 0 .. x \in SUBSET Nat /\ IsFiniteSet(0 .. x)
    BY <1>1
  <2> QED
    BY <2>1, Zenon DEF FiniteSubsetsOf
<1>3. PICK I \in T : \A J \in T : ~(<<J, I>> \in StrictSubsetOrdering(Nat))
  BY <1>2, FS_StrictSubsetOrderingWellFounded, WFMin
<1>4. PICK x \in S : I = 0 .. x
  OBVIOUS
<1>5. \A y \in S : x <= y
  <2> SUFFICES ASSUME NEW y \in S, y < x PROVE FALSE
    OBVIOUS
  <2>1. 0 .. y \in SUBSET Nat /\ 0 .. x \in SUBSET Nat /\ 0 .. y \subseteq 0 .. x
    OBVIOUS
  <2>2. x \in 0 .. x /\ x \notin 0 .. y
    OBVIOUS
  <2>3. <<0 .. y, 0 .. x>> \in StrictSubsetOrdering(Nat)
    BY <2>1, <2>2 DEF StrictSubsetOrdering
  <2> QED
    BY <1>3, <1>4, <2>3
<1> QED
  BY <1>5 DEF Min

\* A non-empty set of numbers up to k has a greatest one.
LEMMA GreatestNumber ==
    ASSUME NEW k \in Nat, NEW S, S \subseteq 0 .. k, S # {}
    PROVE  Max(S) \in S /\ \A y \in S : y <= Max(S)
<1> DEFINE T == {k - x : x \in S}
<1>1. T \subseteq Nat /\ T # {}
  <2>1. \A x \in S : k - x \in Nat
    OBVIOUS
  <2> QED
    BY <2>1
<1>2. Min(T) \in T /\ \A y \in T : Min(T) <= y
  BY <1>1, LeastNumber
<1>3. PICK x \in S : Min(T) = k - x
  BY <1>2
<1>4. \A y \in S : k - x <= k - y
  BY <1>2, <1>3
<1>5. \A y \in S : y <= x
  BY <1>4
<1> QED
  BY <1>5 DEF Max

\* The elements of a list after an append.
LEMMA AppendElements ==
    ASSUME NEW S, NEW q \in Seq(S), NEW e \in S
    PROVE  /\ Append(q, e) \in Seq(S)
           /\ Len(q) \in Nat
           /\ DOMAIN q = 1 .. Len(q)
           /\ DOMAIN Append(q, e) = 1 .. Len(q) + 1
           /\ \A m \in DOMAIN q : Append(q, e)[m] = q[m] /\ q[m] \in S
           /\ Append(q, e)[Len(q) + 1] = e
OBVIOUS

\* Overwriting an element keeps a list's length and its other elements.
LEMMA ExceptElements ==
    ASSUME NEW S, NEW q \in Seq(S), NEW n \in DOMAIN q, NEW e \in S
    PROVE  LET r == [q EXCEPT ![n] = e] IN
           /\ r \in Seq(S)
           /\ Len(r) = Len(q)
           /\ DOMAIN r = DOMAIN q
           /\ r[n] = e
           /\ \A m \in DOMAIN q : m # n => r[m] = q[m]
OBVIOUS

\* Overwriting what may not be there, too.
LEMMA OverwriteElements ==
    ASSUME NEW S, NEW q \in Seq(S), NEW n, NEW e \in S
    PROVE  /\ [q EXCEPT ![n] = e] \in Seq(S)
           /\ DOMAIN [q EXCEPT ![n] = e] = DOMAIN q
           /\ \A m \in DOMAIN q : [q EXCEPT ![n] = e][m] = IF m = n THEN e ELSE q[m]
<1>1. CASE n \in DOMAIN q
  BY <1>1, ExceptElements
<1>2. CASE n \notin DOMAIN q
  <2>1. [q EXCEPT ![n] = e] = q
    BY <1>2
  <2> QED
    BY <1>2, <2>1
<1> QED
  BY <1>1, <1>2

\* A set that gains or loses at most one element.
LEMMA CountMoved ==
    ASSUME NEW A, NEW B, NEW x, IsFiniteSet(A), B \ {x} = A \ {x}
    PROVE  /\ IsFiniteSet(B)
           /\ Cardinality(A) \in Nat
           /\ Cardinality(B) = Cardinality(A) + (IF x \in B THEN 1 ELSE 0)
                                              - (IF x \in A THEN 1 ELSE 0)
<1> DEFINE C == A \ {x}
<1>1. IsFiniteSet(C) /\ Cardinality(A) \in Nat /\ Cardinality(C) \in Nat
  BY FS_RemoveElement, FS_CardinalityType
<1>2. Cardinality(C) = IF x \in A THEN Cardinality(A) - 1 ELSE Cardinality(A)
  BY FS_RemoveElement
<1>3. CASE x \in B
  <2>1. B = C \cup {x} /\ x \notin C
    BY <1>3
  <2>2. IsFiniteSet(C \cup {x}) /\ Cardinality(C \cup {x}) = Cardinality(C) + 1
    BY <1>1, <2>1, FS_AddElement
  <2> QED
    BY <1>1, <1>2, <1>3, <2>1, <2>2
<1>4. CASE x \notin B
  <2>1. B = C
    BY <1>4
  <2> QED
    BY <1>1, <1>2, <1>4, <2>1
<1> QED
  BY <1>3, <1>4

\* Rebuilding a list element by element gives a list of the same length.
LEMMA MappedSequence ==
    ASSUME NEW S, NEW s \in Seq(S), NEW T, NEW f \in [DOMAIN s -> T]
    PROVE  f \in Seq(T) /\ Len(f) = Len(s) /\ DOMAIN f = 1 .. Len(s)
OBVIOUS

\* Induction over the numbers: a set with 0 and every successor has them all.
LEMMA Induction ==
    ASSUME NEW S, 0 \in S, \A n \in Nat : n \in S => n + 1 \in S
    PROVE  \A n \in Nat : n \in S
<1> DEFINE T == Nat \ S
<1> SUFFICES ASSUME T # {} PROVE FALSE
  OBVIOUS
<1>1. PICK x \in T : \A y \in T : x <= y
  BY LeastNumber
<1>2. x # 0 /\ x - 1 \in Nat /\ x - 1 \notin T
  BY <1>1
<1> QED
  BY <1>2

\* The same up to a bound.
LEMMA InductionTo ==
    ASSUME NEW n \in Nat, NEW S, 0 \in S, \A k \in 0 .. n - 1 : k \in S => k + 1 \in S
    PROVE  \A k \in 0 .. n : k \in S
<1> DEFINE T == S \cup {k \in Nat : k > n}
<1>1. \A k \in Nat : k \in T => k + 1 \in T
  OBVIOUS
<1>2. \A k \in Nat : k \in T
  <2>1. 0 \in T
    OBVIOUS
  <2> HIDE DEF T
  <2> QED
    BY <1>1, <2>1, Induction
<1> QED
  BY <1>2

\* The greatest number of an initial interval, and what is below it.
LEMMA InitialInterval ==
    ASSUME NEW n \in Nat
    PROVE  /\ 1 .. 0 = {}
           /\ \A k \in 0 .. n - 1 :
                 /\ 1 .. k + 1 # {} /\ Max(1 .. k + 1) = k + 1
                 /\ (1 .. k + 1) \ {k + 1} = 1 .. k
                 /\ 1 .. k + 1 \in SUBSET (1 .. n)
<1>1. ASSUME NEW k \in 0 .. n - 1
      PROVE  1 .. k + 1 # {} /\ Max(1 .. k + 1) = k + 1
  <2>1. 1 .. k + 1 \subseteq 0 .. k + 1 /\ k + 1 \in 1 .. k + 1
    OBVIOUS
  <2>2. Max(1 .. k + 1) \in 1 .. k + 1 /\ k + 1 <= Max(1 .. k + 1)
    BY <2>1, GreatestNumber
  <2> QED
    BY <2>1, <2>2
<1> QED
  BY <1>1

\* The recursion of the folds over a list of length n: it takes the greatest index
\* off a set of indexes.
Solves(g, n, base, step) ==
    \A s \in SUBSET (1 .. n) :
        g[s] = IF s = {} THEN base ELSE step[<<g[s \ {Max(s)}], Max(s)>>]

\* It has a solution.
LEMMA FoldSolution ==
    ASSUME NEW n \in Nat, NEW A, NEW base \in A, NEW step \in [A \X (1 .. n) -> A]
    PROVE  \E g \in [SUBSET (1 .. n) -> A] : Solves(g, n, base, step)
<1> DEFINE T == {k \in 0 .. n : \E g \in [SUBSET (1 .. k) -> A] : Solves(g, k, base, step)}
<1>1. 0 \in T
  <2>1. [s \in SUBSET (1 .. 0) |-> base] \in [SUBSET (1 .. 0) -> A]
    OBVIOUS
  <2>2. Solves([s \in SUBSET (1 .. 0) |-> base], 0, base, step)
    BY InitialInterval DEF Solves
  <2>3. 0 \in 0 .. n
    OBVIOUS
  <2> QED
    BY <2>1, <2>2, <2>3
<1>2. ASSUME NEW k \in 0 .. n - 1, k \in T PROVE k + 1 \in T
  <2>1. PICK g \in [SUBSET (1 .. k) -> A] : Solves(g, k, base, step)
    BY <1>2
  <2> DEFINE top == k + 1
             h == [s \in SUBSET (1 .. top) |->
                      IF top \in s THEN step[<<g[s \ {top}], top>>] ELSE g[s]]
  <2>2. \A s \in SUBSET (1 .. top) :
            /\ top \in s => s \ {top} \in SUBSET (1 .. k)
            /\ top \notin s => s \in SUBSET (1 .. k)
    OBVIOUS
  <2>3. h \in [SUBSET (1 .. top) -> A]
    BY <2>2
  <2>4. ASSUME NEW s \in SUBSET (1 .. top), s # {}
        PROVE  Max(s) \in s /\ \A y \in s : y <= Max(s)
    <3>1. top \in Nat /\ s \subseteq 0 .. top
      OBVIOUS
    <3> HIDE DEF top
    <3> QED
      BY <2>4, <3>1, GreatestNumber
  <2>5. ASSUME NEW s \in SUBSET (1 .. top)
        PROVE  h[s] = IF s = {} THEN base ELSE step[<<h[s \ {Max(s)}], Max(s)>>]
    <3>1. CASE top \in s
      <4>1. Max(s) = top
        <5>1. Max(s) \in s /\ \A y \in s : y <= Max(s)
          BY <3>1, <2>4
        <5>2. \A y \in s : y \in Int /\ y <= top
          OBVIOUS
        <5>3. \A m : m \in s /\ (\A y \in s : y <= m) => m = top
          BY <3>1, <5>2
        <5> QED
          BY <5>1, <5>3
      <4>2. s \ {top} \in SUBSET (1 .. top) /\ h[s \ {top}] = g[s \ {top}]
        OBVIOUS
      <4>3. h[s] = step[<<g[s \ {top}], top>>]
        BY <3>1
      <4> QED
        BY <3>1, <4>1, <4>2, <4>3
    <3>2. CASE top \notin s
      <4>1. s \in SUBSET (1 .. k) /\ h[s] = g[s]
        BY <3>2, <2>2
      <4>2. CASE s = {}
        BY <2>1, <4>1, <4>2 DEF Solves
      <4>3. CASE s # {}
        <5>1. s \ {Max(s)} \in SUBSET (1 .. top) /\ top \notin s \ {Max(s)}
          BY <3>2
        <5>2. h[s \ {Max(s)}] = g[s \ {Max(s)}]
          BY <5>1
        <5> QED
          BY <2>1, <4>1, <4>3, <5>2 DEF Solves
      <4> QED
        BY <4>2, <4>3
    <3> QED
      BY <3>1, <3>2
  <2>6. Solves(h, top, base, step)
    BY <2>5 DEF Solves
  <2> HIDE DEF h
  <2>7. top \in 0 .. n
    OBVIOUS
  <2> QED
    BY <2>3, <2>6, <2>7
<1>3. \A k \in 0 .. n : k \in T
  <2> HIDE DEF T
  <2> QED
    BY <1>1, <1>2, InductionTo
<1>4. n \in T
  <2> HIDE DEF T
  <2> QED
    BY <1>3
<1> QED
  BY <1>4
=============================================================================

----------------------------- MODULE SumProofs -----------------------------
(***************************************************************************)
(* Theorems about the sums of Functions.tla over finite sets: what one     *)
(* element contributes, and how sums over different sets compare.          *)
(*                                                                         *)
(* SumFunctionOnSet is a recursive function on the subsets of its set,     *)
(* which takes elements away in an order nobody knows.                     *)
(***************************************************************************)
EXTENDS Integers, FiniteSets, Functions, FiniteSetTheorems, WellFoundedInduction, TLAPS

LEMMA Smallest ==
    ASSUME NEW T, T \subseteq Nat, T # {}
    PROVE  \E x \in T : \A y \in T : x <= y
<1>1. IsWellFoundedOn(OpToRel(<, Nat), Nat)
  BY NatLessThanWellFounded
<1>2. PICK x \in T : \A y \in T : ~(<<y, x>> \in OpToRel(<, Nat))
  BY <1>1, WFMin
<1>3. \A y \in T : ~(y < x)
  BY <1>2 DEF OpToRel
<1>4. ASSUME NEW y \in T  PROVE x <= y
  <2>1. x \in Nat /\ y \in Nat /\ ~(y < x)
    BY <1>3
  <2> QED BY <2>1
<1> QED BY <1>4

\* Induction over the subsets of a finite set: one that is not in Q, and no smaller one
\* is not.
LEMMA Minimal ==
    ASSUME NEW S, IsFiniteSet(S), NEW Q, NEW A, A \in SUBSET S, A \notin Q
    PROVE  \E B \in SUBSET S : /\ B \notin Q /\ IsFiniteSet(B)
                               /\ \A C \in SUBSET B : C # B => C \in Q
<1> DEFINE T == (SUBSET S) \ Q
<1>1. IsWellFoundedOn(StrictSubsetOrdering(S), SUBSET S)
  BY FS_StrictSubsetOrderingWellFounded, FS_FiniteSubsetsOfFinite
<1>2. PICK B \in T : \A C \in T : ~(<<C, B>> \in StrictSubsetOrdering(S))
  <2>1. T \subseteq SUBSET S /\ T # {}
    OBVIOUS
  <2> HIDE DEF T
  <2> QED BY <1>1, <2>1, WFMin
<1>3. ASSUME NEW C \in SUBSET B, C # B  PROVE C \in Q
  <2>1. C \in SUBSET S /\ <<C, B>> \in StrictSubsetOrdering(S)
    BY <1>3 DEF StrictSubsetOrdering
  <2> QED BY <1>2, <2>1
<1>4. IsFiniteSet(B)
  BY FS_Subset
<1> QED BY <1>3, <1>4

\* One element at a time.
LEMMA SetInduction ==
    ASSUME NEW S, IsFiniteSet(S), NEW Q, {} \in Q,
           \A A \in SUBSET S : \A x \in S : A \in Q /\ x \notin A => A \cup {x} \in Q
    PROVE  SUBSET S \subseteq Q
<1> SUFFICES ASSUME NEW A \in SUBSET S, A \notin Q  PROVE FALSE
  OBVIOUS
<1>1. PICK B \in SUBSET S : B \notin Q /\ \A C \in SUBSET B : C # B => C \in Q
  BY Minimal
<1>2. PICK x : x \in B
  BY <1>1
<1>3. B \ {x} \in Q /\ B \ {x} \in SUBSET S /\ x \in S
  BY <1>1, <1>2
<1>4. (B \ {x}) \cup {x} = B
  BY <1>2
<1> QED BY <1>1, <1>3, <1>4
-----------------------------------------------------------------------------
(***************************************************************************)
(* The recursive function exists, and does not depend on the set around.   *)
(***************************************************************************)
Pick(s) == CHOOSE x \in s : TRUE
Iteration(f, S, iter) ==
    iter = [s \in S |-> IF s = {} THEN 0 ELSE f[Pick(s)] + iter[s \ {Pick(s)}]]
Iterated(f, T) == CHOOSE iter : Iteration(f, SUBSET T, iter)

LEMMA SumIterated ==
    ASSUME NEW f, NEW T
    PROVE  SumFunctionOnSet(f, T) = Iterated(f, T)[T]
<1> DEFINE iter[s \in SUBSET T] ==
               IF s = {} THEN 0
               ELSE LET x == CHOOSE x \in s : TRUE IN f[x] + iter[s \ {x}]
<1>1. SumFunctionOnSet(f, T) = iter[T]
  BY DEF SumFunctionOnSet, FoldFunctionOnSet, MapThenFoldSet
<1>2. iter = Iterated(f, T)
  BY DEF Iterated, Iteration, Pick
<1> QED BY <1>1, <1>2

Small(T, n) == {s \in SUBSET T : Cardinality(s) <= n}

LEMMA PickSmaller ==
    ASSUME NEW T, IsFiniteSet(T), NEW s \in SUBSET T, s # {}
    PROVE  /\ Pick(s) \in s
           /\ s \ {Pick(s)} \in SUBSET T
           /\ Cardinality(s \ {Pick(s)}) = Cardinality(s) - 1
           /\ Cardinality(s) \in Nat
<1>1. Pick(s) \in s
  BY DEF Pick
<1>2. IsFiniteSet(s) /\ Cardinality(s) \in Nat
  BY FS_Subset, FS_CardinalityType
<1> QED BY <1>1, <1>2, FS_RemoveElement

LEMMA IterationExists ==
    ASSUME NEW f, NEW T, IsFiniteSet(T)
    PROVE  Iteration(f, SUBSET T, Iterated(f, T))
<1> DEFINE Bad == {n \in Nat : ~\E g : Iteration(f, Small(T, n), g)}
<1>1. Bad = {}
  <2> SUFFICES ASSUME Bad # {}  PROVE FALSE
    OBVIOUS
  <2>1. PICK n \in Bad : \A m \in Bad : n <= m
    BY Smallest
  <2>2. n \in Nat /\ ~\E g : Iteration(f, Small(T, n), g)
    BY <2>1
  <2>3. CASE n = 0
    <3> DEFINE g == [s \in Small(T, 0) |-> 0]
    <3>1. \A s \in Small(T, 0) : s = {}
      <4> SUFFICES ASSUME NEW s \in Small(T, 0)  PROVE s = {}
        OBVIOUS
      <4>1. IsFiniteSet(s) /\ Cardinality(s) \in Nat /\ Cardinality(s) <= 0
        BY FS_Subset, FS_CardinalityType DEF Small
      <4> QED BY <4>1, FS_EmptySet
    <3>2. Iteration(f, Small(T, 0), g)
      BY <3>1 DEF Iteration
    <3> QED BY <2>2, <2>3, <3>2
  <2>4. CASE n # 0
    <3>1. n - 1 \in Nat /\ n - 1 \notin Bad
      BY <2>1, <2>2, <2>4
    <3>2. PICK g : Iteration(f, Small(T, n - 1), g)
      BY <3>1
    <3> DEFINE S == Small(T, n - 1)
               h == [s \in Small(T, n) |->
                        IF s = {} THEN 0 ELSE f[Pick(s)] + g[s \ {Pick(s)}]]
    <3>3. ASSUME NEW s \in Small(T, n), s # {}
          PROVE  h[s \ {Pick(s)}] = g[s \ {Pick(s)}]
      <4> DEFINE r == s \ {Pick(s)}
      <4>1. r \in SUBSET T /\ Cardinality(r) = Cardinality(s) - 1 /\ Cardinality(s) \in Nat
        BY <3>3, PickSmaller DEF Small
      <4>2. r \in Small(T, n - 1) /\ r \in Small(T, n)
        <5>1. Cardinality(s) <= n
          BY DEF Small
        <5> HIDE DEF r
        <5> QED BY <2>2, <4>1, <5>1 DEF Small
      <4>3. g[r] = IF r = {} THEN 0 ELSE f[Pick(r)] + g[r \ {Pick(r)}]
        BY <3>2, <4>2 DEF Iteration
      <4> HIDE DEF r
      <4>4. h[r] = IF r = {} THEN 0 ELSE f[Pick(r)] + g[r \ {Pick(r)}]
        BY <4>2
      <4> HIDE DEF h
      <4>5. h[r] = g[r]
        BY <4>3, <4>4
      <4> QED BY <4>5 DEF r
    <3>4. h = [s \in Small(T, n) |->
                  IF s = {} THEN 0 ELSE f[Pick(s)] + h[s \ {Pick(s)}]]
      BY <3>3
    <3> HIDE DEF h
    <3>5. Iteration(f, Small(T, n), h)
      BY <3>4 DEF Iteration
    <3> QED BY <2>2, <3>5
  <2> QED BY <2>3, <2>4
<1>2. Cardinality(T) \in Nat
  BY FS_CardinalityType
<1>3. PICK g : Iteration(f, Small(T, Cardinality(T)), g)
  BY <1>1, <1>2
<1>4. Small(T, Cardinality(T)) = SUBSET T
  BY FS_Subset DEF Small
<1>5. Iteration(f, SUBSET T, g)
  BY <1>3, <1>4
<1> QED BY <1>5 DEF Iterated

LEMMA IteratedAgree ==
    ASSUME NEW f, NEW g, NEW S, IsFiniteSet(S), NEW T, IsFiniteSet(T), S \subseteq T,
           \A x \in S : f[x] = g[x]
    PROVE  Iterated(f, T)[S] = Iterated(g, S)[S]
<1> DEFINE i == Iterated(f, T)
           j == Iterated(g, S)
           Q == {A \in SUBSET S : i[A] = j[A]}
<1>1. Iteration(f, SUBSET T, i) /\ Iteration(g, SUBSET S, j)
  BY IterationExists
<1> HIDE DEF i, j
<1>2. S \in Q
  <2> SUFFICES ASSUME S \notin Q  PROVE FALSE
    OBVIOUS
  <2>1. PICK B \in SUBSET S : B \notin Q /\ \A C \in SUBSET B : C # B => C \in Q
    <3>1. S \in SUBSET S
      OBVIOUS
    <3> HIDE DEF Q
    <3> QED BY <3>1, Minimal
  <2>2. i[B] = IF B = {} THEN 0 ELSE f[Pick(B)] + i[B \ {Pick(B)}]
    BY <1>1 DEF Iteration
  <2>3. j[B] = IF B = {} THEN 0 ELSE g[Pick(B)] + j[B \ {Pick(B)}]
    BY <1>1 DEF Iteration
  <2>4. B # {}
    BY <2>1, <2>2, <2>3
  <2>5. Pick(B) \in B
    BY <2>4 DEF Pick
  <2>6. B \ {Pick(B)} \in Q
    BY <2>1, <2>5
  <2>7. f[Pick(B)] = g[Pick(B)]
    BY <2>5
  <2> QED BY <2>1, <2>2, <2>3, <2>4, <2>6, <2>7
<1> QED BY <1>2 DEF i, j

LEMMA SumAgree ==
    ASSUME NEW f, NEW g, NEW T, IsFiniteSet(T), \A x \in T : f[x] = g[x]
    PROVE  SumFunctionOnSet(f, T) = SumFunctionOnSet(g, T)
BY IteratedAgree, SumIterated

LEMMA SumStep ==
    ASSUME NEW f, NEW T, IsFiniteSet(T)
    PROVE  SumFunctionOnSet(f, T) =
              IF T = {} THEN 0 ELSE f[Pick(T)] + SumFunctionOnSet(f, T \ {Pick(T)})
<1>1. Iteration(f, SUBSET T, Iterated(f, T))
  BY IterationExists
<1>2. Iterated(f, T)[T] = IF T = {} THEN 0 ELSE f[Pick(T)] + Iterated(f, T)[T \ {Pick(T)}]
  <2>1. T \in SUBSET T
    OBVIOUS
  <2> HIDE DEF Iterated
  <2> QED BY <1>1, <2>1 DEF Iteration
<1>3. IsFiniteSet(T \ {Pick(T)})
  BY FS_RemoveElement
<1>4. Iterated(f, T)[T \ {Pick(T)}] = Iterated(f, T \ {Pick(T)})[T \ {Pick(T)}]
  BY <1>3, IteratedAgree
<1> QED BY <1>2, <1>4, SumIterated
-----------------------------------------------------------------------------
(***************************************************************************)
(* Sums of numbers.                                                        *)
(***************************************************************************)
LEMMA SumEmpty ==
    ASSUME NEW f
    PROVE  SumFunctionOnSet(f, {}) = 0
BY SumStep, FS_EmptySet

LEMMA SumInt ==
    ASSUME NEW f, NEW T, IsFiniteSet(T), \A x \in T : f[x] \in Int
    PROVE  SumFunctionOnSet(f, T) \in Int
<1> DEFINE Q == {A \in SUBSET T : SumFunctionOnSet(f, A) \in Int}
<1>1. T \in Q
  <2> SUFFICES ASSUME T \notin Q  PROVE FALSE
    OBVIOUS
  <2>1. PICK B \in SUBSET T : /\ B \notin Q /\ IsFiniteSet(B)
                              /\ \A C \in SUBSET B : C # B => C \in Q
    <3>1. T \in SUBSET T
      OBVIOUS
    <3> HIDE DEF Q
    <3> QED BY <3>1, Minimal
  <2>2. SumFunctionOnSet(f, B) =
           IF B = {} THEN 0 ELSE f[Pick(B)] + SumFunctionOnSet(f, B \ {Pick(B)})
    BY <2>1, SumStep
  <2>3. B # {}
    BY <2>1, <2>2
  <2>4. Pick(B) \in B
    BY <2>3 DEF Pick
  <2>5. B \ {Pick(B)} \in Q
    BY <2>1, <2>4
  <2>6. f[Pick(B)] \in Int /\ SumFunctionOnSet(f, B \ {Pick(B)}) \in Int
    BY <2>4, <2>5
  <2> QED BY <2>1, <2>2, <2>3, <2>6
<1> QED BY <1>1

\* What any one element contributes.
LEMMA SumRemove ==
    ASSUME NEW f, NEW T, IsFiniteSet(T), \A x \in T : f[x] \in Int
    PROVE  \A x \in T : SumFunctionOnSet(f, T) = f[x] + SumFunctionOnSet(f, T \ {x})
<1> DEFINE Sum(A) == SumFunctionOnSet(f, A)
           Q == {A \in SUBSET T : \A x \in A : Sum(A) = f[x] + Sum(A \ {x})}
<1>1. T \in Q
  <2> SUFFICES ASSUME T \notin Q  PROVE FALSE
    OBVIOUS
  <2>1. PICK B \in SUBSET T : /\ B \notin Q /\ IsFiniteSet(B)
                              /\ \A C \in SUBSET B : C # B => C \in Q
    <3>1. T \in SUBSET T
      OBVIOUS
    <3> HIDE DEF Q
    <3> QED BY <3>1, Minimal
  <2>2. PICK x \in B : Sum(B) # f[x] + Sum(B \ {x})
    BY <2>1
  <2> DEFINE y == Pick(B)
             D == (B \ {x}) \ {y}
  <2>3. y \in B
    BY <2>2 DEF Pick
  <2>4. Sum(B) = f[y] + Sum(B \ {y})
    BY <2>1, <2>2, SumStep
  <2>5. x # y
    BY <2>2, <2>4
  <2>6. /\ B \ {x} \in SUBSET B /\ B \ {x} # B /\ y \in B \ {x}
        /\ B \ {y} \in SUBSET B /\ B \ {y} # B /\ x \in B \ {y}
        /\ (B \ {y}) \ {x} = D /\ D \in SUBSET B
    BY <2>2, <2>3, <2>5
  <2>7. B \ {x} \in Q /\ B \ {y} \in Q
    BY <2>1, <2>6
  <2>8. Sum(B \ {x}) = f[y] + Sum(D)
    BY <2>6, <2>7
  <2>9. Sum(B \ {y}) = f[x] + Sum(D)
    BY <2>6, <2>7
  <2>10. f[x] \in Int /\ f[y] \in Int /\ Sum(D) \in Int
    <3>1. IsFiniteSet(D) /\ \A z \in D : f[z] \in Int
      BY <2>1, <2>6, FS_Subset
    <3> QED BY <2>2, <2>3, <3>1, SumInt
  <2> HIDE DEF Sum, y, D, Q
  <2>11. Sum(B) = f[x] + Sum(B \ {x})
    BY <2>4, <2>8, <2>9, <2>10
  <2> QED BY <2>2, <2>11
<1> QED BY <1>1

LEMMA SumInsert ==
    ASSUME NEW f, NEW A, IsFiniteSet(A), NEW x, x \notin A,
           \A y \in A \cup {x} : f[y] \in Int
    PROVE  SumFunctionOnSet(f, A \cup {x}) = f[x] + SumFunctionOnSet(f, A)
<1>1. IsFiniteSet(A \cup {x}) /\ (A \cup {x}) \ {x} = A /\ x \in A \cup {x}
  BY FS_AddElement
<1> DEFINE T == A \cup {x}
<1>2. IsFiniteSet(T) /\ T \ {x} = A /\ x \in T /\ \A y \in T : f[y] \in Int
  BY <1>1
<1> HIDE DEF T
<1>3. SumFunctionOnSet(f, T) = f[x] + SumFunctionOnSet(f, T \ {x})
  BY <1>2, SumRemove
<1> QED BY <1>2, <1>3 DEF T

LEMMA SumNat ==
    ASSUME NEW f, NEW T, IsFiniteSet(T), \A x \in T : f[x] \in Nat
    PROVE  SumFunctionOnSet(f, T) \in Nat
<1> DEFINE Q == {A \in SUBSET T : SumFunctionOnSet(f, A) \in Nat}
<1>1. {} \in Q
  BY SumEmpty
<1>2. ASSUME NEW A \in SUBSET T, NEW x \in T, A \in Q  PROVE A \cup {x} \in Q
  <2>1. CASE x \in A
    <3>1. A \cup {x} = A
      BY <2>1
    <3> QED BY <1>2, <3>1
  <2>2. CASE x \notin A
    <3>1. IsFiniteSet(A) /\ \A y \in A \cup {x} : f[y] \in Int
      BY FS_Subset
    <3>2. SumFunctionOnSet(f, A \cup {x}) = f[x] + SumFunctionOnSet(f, A)
      BY <2>2, <3>1, SumInsert
    <3> QED BY <1>2, <3>2
  <2> QED BY <2>1, <2>2
<1> HIDE DEF Q
<1>3. SUBSET T \subseteq Q
  BY <1>1, <1>2, SetInduction
<1>4. T \in Q
  BY <1>3
<1> QED BY <1>4 DEF Q

\* Each term of one sum is at most one of the other that is its alone.
LEMMA SumInject ==
    ASSUME NEW f, NEW S, IsFiniteSet(S), NEW g, NEW T, IsFiniteSet(T), NEW i,
           \A x \in S : f[x] \in Int /\ i[x] \in T /\ f[x] <= g[i[x]],
           \A x, y \in S : i[x] = i[y] => x = y,
           \A z \in T : g[z] \in Nat
    PROVE  SumFunctionOnSet(f, S) <= SumFunctionOnSet(g, T)
<1> DEFINE Q == {A \in SUBSET S : \A R \in SUBSET T :
                    (\A x \in A : i[x] \in R)
                       => SumFunctionOnSet(f, A) <= SumFunctionOnSet(g, R)}
<1>1. {} \in Q
  <2> SUFFICES ASSUME NEW R \in SUBSET T
               PROVE  SumFunctionOnSet(f, {}) <= SumFunctionOnSet(g, R)
    OBVIOUS
  <2>1. IsFiniteSet(R)
    BY FS_Subset
  <2>2. SumFunctionOnSet(g, R) \in Nat
    BY <2>1, SumNat
  <2>3. SumFunctionOnSet(f, {}) = 0
    BY SumEmpty
  <2> QED BY <2>2, <2>3
<1>2. ASSUME NEW A \in SUBSET S, NEW x \in S, A \in Q  PROVE A \cup {x} \in Q
  <2>1. CASE x \in A
    <3>1. A \cup {x} = A
      BY <2>1
    <3> QED BY <1>2, <3>1
  <2>2. CASE x \notin A
    <3> SUFFICES ASSUME NEW R \in SUBSET T, \A y \in A \cup {x} : i[y] \in R
                 PROVE  SumFunctionOnSet(f, A \cup {x}) <= SumFunctionOnSet(g, R)
      OBVIOUS
    <3> DEFINE P == R \ {i[x]}
    <3>1. IsFiniteSet(R) /\ IsFiniteSet(P) /\ IsFiniteSet(A) /\ i[x] \in R
      BY FS_Subset
    <3>2. SumFunctionOnSet(f, A \cup {x}) = f[x] + SumFunctionOnSet(f, A)
      <4>1. \A y \in A \cup {x} : f[y] \in Int
        OBVIOUS
      <4> QED BY <2>2, <3>1, <4>1, SumInsert
    <3>3. SumFunctionOnSet(g, R) = g[i[x]] + SumFunctionOnSet(g, P)
      <4>1. \A y \in R : g[y] \in Int
        OBVIOUS
      <4> QED BY <3>1, <4>1, SumRemove
    <3>4. \A y \in A : i[y] \in P
      BY <2>2
    <3>5. SumFunctionOnSet(f, A) <= SumFunctionOnSet(g, P)
      <4>1. P \in SUBSET T
        OBVIOUS
      <4> HIDE DEF P
      <4> QED BY <1>2, <3>4, <4>1
    <3>6. SumFunctionOnSet(f, A) \in Int
      BY <3>1, SumInt
    <3>7. SumFunctionOnSet(g, P) \in Nat
      BY <3>1, SumNat
    <3>8. f[x] \in Int /\ g[i[x]] \in Nat /\ f[x] <= g[i[x]]
      OBVIOUS
    <3> HIDE DEF P
    <3> QED BY <3>2, <3>3, <3>5, <3>6, <3>7, <3>8
  <2> QED BY <2>1, <2>2
<1> HIDE DEF Q
<1>3. SUBSET S \subseteq Q
  BY <1>1, <1>2, SetInduction
<1>4. S \in Q /\ T \in SUBSET T
  BY <1>3
<1> QED BY <1>4 DEF Q

\* Two sums over the same set.
LEMMA SumPlus ==
    ASSUME NEW f, NEW g, NEW h, NEW T, IsFiniteSet(T),
           \A x \in T : f[x] \in Int /\ g[x] \in Int /\ h[x] = f[x] + g[x]
    PROVE  SumFunctionOnSet(h, T) = SumFunctionOnSet(f, T) + SumFunctionOnSet(g, T)
<1> DEFINE Sum(k, A) == SumFunctionOnSet(k, A)
           Q == {A \in SUBSET T : Sum(h, A) = Sum(f, A) + Sum(g, A)}
<1>1. {} \in Q
  BY SumEmpty
<1>2. ASSUME NEW A \in SUBSET T, NEW x \in T, A \in Q  PROVE A \cup {x} \in Q
  <2>1. CASE x \in A
    <3>1. A \cup {x} = A
      BY <2>1
    <3> QED BY <1>2, <3>1
  <2>2. CASE x \notin A
    <3>1. IsFiniteSet(A) /\ \A y \in A \cup {x} : f[y] \in Int /\ g[y] \in Int /\ h[y] \in Int
      BY FS_Subset
    <3>2. /\ Sum(f, A \cup {x}) = f[x] + Sum(f, A)
          /\ Sum(g, A \cup {x}) = g[x] + Sum(g, A)
          /\ Sum(h, A \cup {x}) = h[x] + Sum(h, A)
      BY <2>2, <3>1, SumInsert
    <3>3. Sum(f, A) \in Int /\ Sum(g, A) \in Int
      BY <3>1, SumInt
    <3>4. Sum(h, A) = Sum(f, A) + Sum(g, A) /\ h[x] = f[x] + g[x]
      BY <1>2
    <3>5. f[x] \in Int /\ g[x] \in Int
      OBVIOUS
    <3> HIDE DEF Sum
    <3>6. Sum(h, A \cup {x}) = Sum(f, A \cup {x}) + Sum(g, A \cup {x})
      BY <3>2, <3>3, <3>4, <3>5
    <3> QED BY <3>6
  <2> QED BY <2>1, <2>2
<1> HIDE DEF Q
<1>3. SUBSET T \subseteq Q
  BY <1>1, <1>2, SetInduction
<1>4. T \in Q
  BY <1>3
<1> QED BY <1>4 DEF Q

\* Terms that are all at least n.
LEMMA SumAtLeast ==
    ASSUME NEW f, NEW T, IsFiniteSet(T), NEW n \in Int,
           \A x \in T : f[x] \in Int /\ f[x] >= n
    PROVE  SumFunctionOnSet(f, T) >= n * Cardinality(T)
<1> DEFINE Q == {A \in SUBSET T : SumFunctionOnSet(f, A) >= n * Cardinality(A)}
<1>1. {} \in Q
  <2>1. n * 0 = 0
    OBVIOUS
  <2> QED BY <2>1, SumEmpty, FS_EmptySet
<1>2. ASSUME NEW A \in SUBSET T, NEW x \in T, A \in Q  PROVE A \cup {x} \in Q
  <2>1. CASE x \in A
    <3>1. A \cup {x} = A
      BY <2>1
    <3> QED BY <1>2, <3>1
  <2>2. CASE x \notin A
    <3>1. IsFiniteSet(A) /\ \A y \in A \cup {x} : f[y] \in Int
      BY FS_Subset
    <3>2. SumFunctionOnSet(f, A \cup {x}) = f[x] + SumFunctionOnSet(f, A)
      BY <2>2, <3>1, SumInsert
    <3>3. SumFunctionOnSet(f, A) \in Int
      BY <3>1, SumInt
    <3>4. Cardinality(A \cup {x}) = Cardinality(A) + 1 /\ Cardinality(A) \in Nat
      BY <2>2, <3>1, FS_AddElement, FS_CardinalityType
    <3>5. \A c \in Nat : n * (c + 1) = n * c + n /\ n * c \in Int
      OBVIOUS
    <3>6. n * Cardinality(A \cup {x}) = n * Cardinality(A) + n /\ n * Cardinality(A) \in Int
      BY <3>4, <3>5
    <3> DEFINE nA == n * Cardinality(A)
    <3>7. SumFunctionOnSet(f, A) >= nA /\ f[x] >= n /\ f[x] \in Int
      BY <1>2
    <3>8. nA \in Int /\ n * Cardinality(A \cup {x}) = nA + n
      BY <3>6
    <3> HIDE DEF nA
    <3>9. SumFunctionOnSet(f, A \cup {x}) >= n * Cardinality(A \cup {x})
      BY <3>2, <3>3, <3>7, <3>8
    <3> QED BY <3>9
  <2> QED BY <2>1, <2>2
<1> HIDE DEF Q
<1>3. SUBSET T \subseteq Q
  BY <1>1, <1>2, SetInduction
<1>4. T \in Q
  BY <1>3
<1> QED BY <1>4 DEF Q
=============================================================================

------------------------------ MODULE Induction ------------------------------
(***************************************************************************)
(* Induction and recursion in a form that the provers can use.             *)
(*                                                                         *)
(* The library's induction theorems take the predicate as an operator,     *)
(* which no installed prover instantiates.  Its theorem WFMin, that a set  *)
(* has a minimal element, does not: from it follow the least number of a   *)
(* set, induction over Nat, the greatest number of a finite set, and that  *)
(* recursive functions exist.                                              *)
(***************************************************************************)
EXTENDS Integers, FiniteSets, TLAPS, FiniteSetTheorems, WellFoundedInduction

\* A set of numbers that is not empty has a least one.
LEMMA Least ==
    ASSUME NEW T \in SUBSET Nat, T # {}
    PROVE  \E n \in T : \A m \in T : n <= m
  <1>1. \E R : /\ \E x \in T : \A y \in T : ~ (<<y, x>> \in R)
               /\ \A x, y \in Nat : y < x => <<y, x>> \in R
    <2>1. \E x \in T : \A y \in T : ~ (<<y, x>> \in OpToRel(<, Nat))
      BY NatLessThanWellFounded, WFMin
    <2>2. \A x, y \in Nat : y < x => <<y, x>> \in OpToRel(<, Nat)
      BY Zenon DEF OpToRel
    <2>. QED
      BY <2>1, <2>2, Zenon
  <1>2. PICK R : /\ \E x \in T : \A y \in T : ~ (<<y, x>> \in R)
                 /\ \A x, y \in Nat : y < x => <<y, x>> \in R
    BY <1>1
  <1>3. PICK x \in T : \A y \in T : ~ (<<y, x>> \in R)
    BY <1>2, Zenon
  <1>4. \A y \in T : ~ (y < x)
    BY <1>2, <1>3, Zenon
  <1>5. \A y \in T : x <= y
    BY <1>4, SMT
  <1>. QED
    BY <1>5

\* Induction over Nat, with the predicate given as the set of numbers it holds of.
LEMMA SetInduction ==
    ASSUME NEW S, 0 \in S, \A n \in Nat : n \in S => n + 1 \in S
    PROVE  Nat \subseteq S
  <1>. SUFFICES ASSUME Nat \ S # {} PROVE FALSE
    OBVIOUS
  <1>1. PICK n \in Nat \ S : \A m \in Nat \ S : n <= m
    BY Least
  <1>2. n # 0 /\ n - 1 \in Nat /\ n - 1 \notin Nat \ S
    BY <1>1
  <1>. QED
    BY <1>1, <1>2

\* The functions over Nat that primitive recursion from b with g describes.
Recursive(S, b, g) ==
    {f \in [Nat -> S] : f[0] = b /\ \A n \in Nat : f[n + 1] = g[f[n]]}

\* There is one: by induction there is exactly one prefix of each length, and the
\* last values of these make the function.
LEMMA Recursion ==
    ASSUME NEW S, NEW b \in S, NEW g \in [S -> S]
    PROVE  Recursive(S, b, g) # {}
  <1>. DEFINE Prefix(n) == {f \in [0 .. n -> S] : f[0] = b /\ \A i \in 0 .. n - 1 : f[i + 1] = g[f[i]]}
              T == {n \in Nat : /\ Prefix(n) # {}
                                /\ \A f, h \in Prefix(n) : f = h}
  <1>1. 0 \in T
    <2>1. [i \in 0 .. 0 |-> b] \in Prefix(0)
      OBVIOUS
    <2>2. ASSUME NEW f \in Prefix(0), NEW h \in Prefix(0) PROVE f = h
      <3>1. 0 .. 0 = {0}
        OBVIOUS
      <3>. QED
        BY <2>2, <3>1
    <2>. QED
      BY <2>1, <2>2
  <1>2. ASSUME NEW n \in Nat, n \in T PROVE n + 1 \in T
    <2>1. PICK f \in Prefix(n) : TRUE
      BY <1>2
    <2>2. [i \in 0 .. n + 1 |-> IF i = n + 1 THEN g[f[n]] ELSE f[i]] \in Prefix(n + 1)
      <3>. DEFINE e == [i \in 0 .. n + 1 |-> IF i = n + 1 THEN g[f[n]] ELSE f[i]]
      <3>1. e \in [0 .. n + 1 -> S]
        BY <2>1
      <3>2. e[0] = b
        BY <2>1
      <3>3. ASSUME NEW i \in 0 .. n PROVE e[i + 1] = g[e[i]]
        <4>1. CASE i = n
          BY <4>1
        <4>2. CASE i # n
          BY <2>1, <4>2
        <4>. QED
          BY <4>1, <4>2
      <3>4. n + 1 - 1 = n
        OBVIOUS
      <3>. QED
        BY <3>1, <3>2, <3>3, <3>4
    <2>3. ASSUME NEW h \in Prefix(n + 1)
          PROVE  [i \in 0 .. n |-> h[i]] \in Prefix(n)
      OBVIOUS
    <2>4. ASSUME NEW h \in Prefix(n + 1), NEW k \in Prefix(n + 1)
          PROVE  h = k
      <3>1. [i \in 0 .. n |-> h[i]] = [i \in 0 .. n |-> k[i]]
        BY <1>2, <2>3
      <3>2. \A i \in 0 .. n : h[i] = k[i]
        BY <3>1
      <3>3. h[n + 1] = k[n + 1]
        BY <3>2
      <3>4. \A i \in 0 .. n + 1 : h[i] = k[i]
        BY <3>2, <3>3
      <3>. QED
        BY <3>4
    <2>5. n + 1 \in Nat
      OBVIOUS
    <2>6. Prefix(n + 1) # {}
      BY <2>2
    <2>. HIDE DEF Prefix
    <2>. QED
      BY <2>4, <2>5, <2>6
  <1>3. Nat \subseteq T
    <2>1. \A n \in Nat : n \in T => n + 1 \in T
      BY <1>2
    <2>. HIDE DEF T
    <2>. QED
      BY <1>1, <2>1, SetInduction
  <1>. DEFINE p == [n \in Nat |-> CHOOSE f \in Prefix(n) : TRUE]
              r == [n \in Nat |-> p[n][n]]
  <1>4. ASSUME NEW n \in Nat PROVE p[n] \in Prefix(n)
    <2>1. Prefix(n) # {}
      BY <1>3
    <2>. HIDE DEF Prefix
    <2>. QED
      BY <2>1
  <1>. HIDE DEF p
  <1>5. r \in [Nat -> S]
    BY <1>4
  <1>6. r[0] = b
    BY <1>4
  <1>7. ASSUME NEW n \in Nat PROVE r[n + 1] = g[r[n]]
    <2>1. p[n + 1] \in Prefix(n + 1) /\ p[n] \in Prefix(n)
      BY <1>4
    <2>2. [i \in 0 .. n |-> p[n + 1][i]] \in Prefix(n)
      <3>1. \A h \in Prefix(n + 1) : [i \in 0 .. n |-> h[i]] \in Prefix(n)
        OBVIOUS
      <3>. HIDE DEF Prefix
      <3>. QED
        BY <2>1, <3>1
    <2>3. [i \in 0 .. n |-> p[n + 1][i]] = p[n]
      BY <1>3, <2>1, <2>2
    <2>. HIDE DEF p
    <2>4. p[n + 1][n] = p[n][n]
      BY <2>3
    <2>. QED
      BY <2>1, <2>4
  <1>. QED
    BY <1>5, <1>6, <1>7 DEF Recursive

\* Functions that recursion over 0 .. N from b with the steps g describes.
LoopStates(V, b, N, g) ==
    {f \in [0 .. N -> V] : f[0] = b /\ \A i \in 1 .. N : f[i] = g[i][f[i - 1]]}

\* There is one.
LEMMA FiniteRecursion ==
    ASSUME NEW V, NEW b \in V, NEW N \in Nat, NEW g \in [1 .. N -> [V -> V]]
    PROVE  LoopStates(V, b, N, g) # {}
  <1>. DEFINE Good(n, f) == f[0] = b /\ \A i \in 1 .. n : f[i] = g[i][f[i - 1]]
              T == {n \in Nat : n <= N => \E f \in [0 .. n -> V] : Good(n, f)}
  <1>1. 0 \in T
    <2>1. [i \in 0 .. 0 |-> b] \in [0 .. 0 -> V] /\ Good(0, [i \in 0 .. 0 |-> b])
      OBVIOUS
    <2>. HIDE DEF Good
    <2>. QED
      BY <2>1
  <1>2. ASSUME NEW n \in Nat, n \in T PROVE n + 1 \in T
    <2>. SUFFICES ASSUME n + 1 <= N PROVE \E f \in [0 .. n + 1 -> V] : Good(n + 1, f)
      OBVIOUS
    <2>1. PICK f \in [0 .. n -> V] : Good(n, f)
      BY <1>2
    <2>. DEFINE e == [i \in 0 .. n + 1 |-> IF i = n + 1 THEN g[n + 1][f[n]] ELSE f[i]]
    <2>2. g[n + 1] \in [V -> V] /\ f[n] \in V
      OBVIOUS
    <2>3. e \in [0 .. n + 1 -> V]
      BY <2>2
    <2>4. e[n + 1] = g[n + 1][f[n]] /\ \A i \in 0 .. n : e[i] = f[i]
      OBVIOUS
    <2>. HIDE DEF e
    <2>5. ASSUME NEW i \in 1 .. n + 1 PROVE e[i] = g[i][e[i - 1]]
      <3>1. CASE i = n + 1
        <4>1. i - 1 = n
          BY <3>1
        <4>. QED
          BY <2>4, <3>1, <4>1
      <3>2. CASE i # n + 1
        <4>1. i \in 1 .. n /\ i \in 0 .. n /\ i - 1 \in 0 .. n
          BY <3>2
        <4>. QED
          BY <2>1, <2>4, <4>1
      <3>. QED
        BY <3>1, <3>2
    <2>6. e[0] = b
      BY <2>1, <2>4
    <2>7. Good(n + 1, e)
      BY <2>5, <2>6
    <2>. HIDE DEF Good
    <2>. QED
      BY <2>3, <2>7
  <1>3. N \in T
    <2>. HIDE DEF T
    <2>1. Nat \subseteq T
      BY <1>1, <1>2, SetInduction
    <2>. QED
      BY <2>1
  <1>4. \E f \in [0 .. N -> V] : f[0] = b /\ \A i \in 1 .. N : f[i] = g[i][f[i - 1]]
    BY <1>3
  <1>. QED
    BY <1>4, Zenon DEF LoopStates

\* A finite set of numbers that is not empty has a greatest one: by induction on its
\* size.
LEMMA Greatest ==
    ASSUME NEW A \in SUBSET Nat, IsFiniteSet(A), A # {}
    PROVE  \E n \in A : \A m \in A : m <= n
  <1>. DEFINE T == {n \in Nat : \A S \in SUBSET Nat :
                      IsFiniteSet(S) /\ S # {} /\ Cardinality(S) = n => \E k \in S : \A m \in S : m <= k}
  <1>1. 0 \in T
    BY FS_EmptySet
  <1>2. ASSUME NEW n \in Nat, n \in T PROVE n + 1 \in T
    <2>. SUFFICES ASSUME NEW S \in SUBSET Nat, IsFiniteSet(S), S # {}, Cardinality(S) = n + 1
                  PROVE  \E k \in S : \A m \in S : m <= k
      OBVIOUS
    <2>1. PICK x \in S : TRUE
      OBVIOUS
    <2>2. IsFiniteSet(S \ {x}) /\ Cardinality(S \ {x}) = n /\ S \ {x} \in SUBSET Nat
      <3>1. IsFiniteSet(S \ {x}) /\ Cardinality(S \ {x}) = Cardinality(S) - 1
        BY FS_RemoveElement, Zenon
      <3>. QED
        BY <3>1
    <2>3. CASE S \ {x} = {}
      BY <2>1, <2>3
    <2>4. CASE S \ {x} # {}
      <3>1. PICK k \in S \ {x} : \A m \in S \ {x} : m <= k
        BY <1>2, <2>2, <2>4
      <3>2. k \in Nat /\ x \in Nat
        OBVIOUS
      <3>3. CASE x <= k
        <4>1. \A m \in S : m <= k
          BY <3>1, <3>3
        <4>. QED
          BY <4>1
      <3>4. CASE ~(x <= k)
        <4>1. \A m \in S : m <= x
          BY <3>1, <3>2, <3>4
        <4>. QED
          BY <4>1
      <3>. QED
        BY <3>3, <3>4
    <2>. QED
      BY <2>3, <2>4
  <1>3. Nat \subseteq T
    <2>1. \A n \in Nat : n \in T => n + 1 \in T
      BY <1>2
    <2>. HIDE DEF T
    <2>. QED
      BY <1>1, <2>1, SetInduction
  <1>4. Cardinality(A) \in Nat
    BY FS_CardinalityType
  <1>. QED
    BY <1>3, <1>4

=============================================================================

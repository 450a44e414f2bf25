----------------------------- MODULE Induction ------------------------------
(***************************************************************************)
(* Induction and recursion up to a number, for sets in place of predicates *)
(* and operators: nothing here takes an operator, so that each lemma can   *)
(* be cited with a set or a function that says what is meant.              *)
(***************************************************************************)
EXTENDS Integers, FiniteSetTheorems, TLAPS

\* A set of numbers up to n that has 0 and, with every number, the next one up
\* to n, has all of them: otherwise the successor would map those before the
\* first gap into themselves without 0.
LEMMA UpTo ==
  ASSUME NEW n \in Nat, NEW T, 0 \in T, \A i \in 1 .. n : i - 1 \in T => i \in T
  PROVE  \A i \in 0 .. n : i \in T
<1> DEFINE U == {i \in 0 .. n : \A j \in 0 .. i : j \in T}
           next == [i \in U |-> i + 1]
<1> SUFFICES ASSUME n \notin U
             PROVE  FALSE
  OBVIOUS
<1>1. \A i \in U : i + 1 \in U \ {0}
  <2> SUFFICES ASSUME NEW i \in U
               PROVE  i + 1 \in U \ {0}
    OBVIOUS
  <2>1. i \in 0 .. n /\ i # n /\ i + 1 \in 1 .. n
    OBVIOUS
  <2>2. \A j \in 0 .. i + 1 : j \in 0 .. i \/ j = i + 1
    BY <2>1
  <2>3. i \in T
    BY <2>1
  <2>4. i + 1 \in T
    BY <2>1, <2>3
  <2> QED  BY <2>1, <2>2, <2>4
<1>2. next \in Injection(U, U \ {0})
  <2>1. next \in [U -> U \ {0}]
    BY <1>1
  <2>2. \A i \in U, j \in U : next[i] = next[j] => i = j
    OBVIOUS
  <2> QED  BY <2>1, <2>2 DEF Injection, IsInjective
<1>3. IsFiniteSet(U) /\ 0 \in U
  <2>1. U \in SUBSET (0 .. n) /\ IsFiniteSet(0 .. n)
    BY FS_Interval
  <2> QED  BY <2>1, FS_Subset
<1> HIDE DEF U, next
<1>4. IsFiniteSet(U \ {0}) /\ Cardinality(U \ {0}) = Cardinality(U) - 1
  BY <1>3, FS_RemoveElement
<1> QED  BY <1>2, <1>3, <1>4, FS_Injection, FS_CardinalityType

\* The same if a number has every smaller one to start from.
LEMMA StrongUpTo ==
  ASSUME NEW n \in Nat, NEW T, \A i \in 0 .. n : (\A j \in 0 .. i - 1 : j \in T) => i \in T
  PROVE  \A i \in 0 .. n : i \in T
<1> DEFINE U == {i \in 0 .. n : \A j \in 0 .. i : j \in T}
<1>1. 0 \in U
  BY 0 \in 0 .. n
<1>2. ASSUME NEW i \in 1 .. n, i - 1 \in U
      PROVE  i \in U
  <2>1. \A j \in 0 .. i - 1 : j \in T
    BY <1>2
  <2>2. i \in 0 .. n /\ i \in T
    BY <2>1
  <2>3. \A j \in 0 .. i : j \in 0 .. i - 1 \/ j = i
    OBVIOUS
  <2> QED  BY <2>1, <2>2, <2>3
<1> HIDE DEF U
<1>3. \A i \in 0 .. n : i \in U
  BY <1>1, <1>2, UpTo
<1>4. \A i \in U : i \in T
  BY DEF U
<1> QED  BY <1>3, <1>4

\* The number before one of 1 .. n is in range as well.
LEMMA Predecessor ==
  ASSUME NEW n \in Nat, NEW i \in 1 .. n
  PROVE  i \in 0 .. n /\ i - 1 \in 0 .. n /\ i # 0
OBVIOUS

\* What is computed step by step from a first value is a function.
Computes(f, n, S, first, step) ==
  /\ f \in [0 .. n -> S] /\ f[0] = first
  /\ \A i \in 1 .. n : f[i] = step[i][f[i - 1]]

\* Such a function exists, for any number of steps.
LEMMA Iterated ==
  ASSUME NEW n \in Nat, NEW S, NEW first \in S, NEW step \in [1 .. n -> [S -> S]]
  PROVE  \E f : Computes(f, n, S, first, step)
<1> DEFINE Good(f, k) == f[0] = first /\ \A i \in 1 .. k : f[i] = step[i][f[i - 1]]
           T == {k \in 0 .. n : \E f \in [0 .. k -> S] : Good(f, k)}
<1>1. 0 \in T
  <2> DEFINE g == [i \in 0 .. 0 |-> first]
  <2>1. g \in [0 .. 0 -> S] /\ Good(g, 0)
    OBVIOUS
  <2>2. \E f \in [0 .. 0 -> S] : Good(f, 0)
    BY <2>1
  <2> HIDE DEF Good
  <2> QED  BY <2>2
<1>2. ASSUME NEW k \in 1 .. n, k - 1 \in T
      PROVE  k \in T
  <2>1. PICK f \in [0 .. k - 1 -> S] : Good(f, k - 1)
    BY <1>2
  <2> DEFINE g == [i \in 0 .. k |-> IF i = k THEN step[k][f[k - 1]] ELSE f[i]]
  <2>2. k - 1 \in 0 .. k - 1 /\ f[k - 1] \in S /\ step[k][f[k - 1]] \in S
    OBVIOUS
  <2>3. g \in [0 .. k -> S]
    BY <2>2
  <2>4. g[0] = first
    BY <2>1
  <2>5. \A i \in 1 .. k : g[i] = step[i][g[i - 1]]
    BY <2>1, <2>2
  <2>6. Good(g, k)
    BY <2>4, <2>5
  <2> HIDE DEF Good, g
  <2> QED  BY <2>3, <2>6
<1> HIDE DEF T
<1>3. \A k \in 1 .. n : k - 1 \in T => k \in T
  BY <1>2
<1>4. \A k \in 0 .. n : k \in T
  BY <1>1, <1>3, UpTo
<1>5. n \in T
  BY <1>4
<1> QED  BY <1>5 DEF T, Computes
=============================================================================

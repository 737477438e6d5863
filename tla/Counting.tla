------------------------------ MODULE Counting ------------------------------
(***************************************************************************)
(* Facts about numbers and finite sets that the proofs share.  The         *)
(* library's induction theorems take a predicate as a parameter; Induction *)
(* takes the set of the numbers that have the property.                    *)
(***************************************************************************)
EXTENDS Integers, FiniteSets, FiniteSetTheorems, TLAPS

-----------------------------------------------------------------------------
(* Numbers and orders. *)

(* Every nonempty set of naturals has a least element.                     *)
LEMMA LeastExists ==
  ASSUME NEW S \in SUBSET Nat, S # {}
  PROVE  \E x \in S : \A y \in S : x <= y
<1> DEFINE R == OpToRel(<, Nat)
<1>1. \A x, y \in Nat : x < y => <<x, y>> \in R
  BY DEF OpToRel
<1>2. IsWellFoundedOn(R, Nat)
  BY NatLessThanWellFounded
<1> HIDE DEF R
<1>3. PICK x \in S : \A y \in S : ~ (<<y, x>> \in R)
  BY <1>2, WFMin
<1>4. ASSUME NEW y \in S PROVE x <= y
  <2>1. x \in Nat /\ y \in Nat /\ ~(y < x)
    BY <1>1, <1>3
  <2> QED BY <2>1
<1> QED BY <1>3, <1>4

(* Every nonempty set of naturals with a bound has a greatest element.     *)
LEMMA GreatestExists ==
  ASSUME NEW S \in SUBSET Nat, S # {}, NEW b \in Nat, \A x \in S : x <= b
  PROVE  \E x \in S : \A y \in S : y <= x
<1> DEFINE D == {b - x : x \in S}
<1>0. \A x \in S : b - x \in Nat
  OBVIOUS
<1>1. D \in SUBSET Nat /\ D # {}
  <2>1. D \in SUBSET Nat
    BY <1>0
  <2>2. D # {}
    OBVIOUS
  <2> QED BY <2>1, <2>2
<1>2. PICK d \in D : \A y \in D : d <= y
  BY <1>1, LeastExists
<1>3. PICK x \in S : d = b - x
  BY <1>2
<1>4. ASSUME NEW y \in S PROVE y <= x
  <2>1. b - y \in D
    OBVIOUS
  <2>2. b - x <= b - y /\ x \in Nat /\ y \in Nat
    BY <1>2, <1>3, <2>1
  <2> QED BY <2>2
<1> QED BY <1>4

(* Induction over the naturals, with the property as a set.                *)
LEMMA Induction ==
  ASSUME NEW S, 0 \in S, \A n \in Nat : n \in S => n + 1 \in S
  PROVE  Nat \subseteq S
<1>1. ASSUME Nat \ S # {} PROVE FALSE
  <2>1. PICK x \in Nat \ S : \A y \in Nat \ S : x <= y
    <3>1. Nat \ S \in SUBSET Nat
      OBVIOUS
    <3> QED BY <1>1, <3>1, LeastExists
  <2>2. x # 0 /\ x - 1 \in Nat /\ ~(x <= x - 1) /\ (x - 1) + 1 = x
    BY <2>1
  <2>3. x - 1 \in S
    BY <2>1, <2>2
  <2> QED BY <2>1, <2>2, <2>3
<1> QED BY <1>1

(* A value computed step by step, each from the one before.                *)
Computes(f, L, V, base, F) ==
  f \in [0 .. L -> V] /\ f[0] = base /\ \A k \in 1 .. L : f[k] = F[k][f[k - 1]]

(* There is such a computation: what a recursive function over 0 .. L      *)
(* needs to be what it is defined as.                                      *)
LEMMA Iteration ==
  ASSUME NEW L \in Nat, NEW V, NEW base \in V, NEW F \in [1 .. L -> [V -> V]]
  PROVE  \E f : Computes(f, L, V, base, F)
<1> DEFINE Steps(n, f) == f[0] = base /\ \A k \in 1 .. n : f[k] = F[k][f[k - 1]]
           P(n) == n <= L => \E f \in [0 .. n -> V] : Steps(n, f)
           S == {n \in Nat : P(n)}
<1>1. 0 \in S
  <2>1. [x \in 0 .. 0 |-> base] \in [0 .. 0 -> V] /\ Steps(0, [x \in 0 .. 0 |-> base])
    OBVIOUS
  <2> QED BY <2>1
<1>2. ASSUME NEW n \in Nat, n \in S PROVE n + 1 \in S
  <2>0. P(n) /\ n + 1 \in Nat /\ (P(n + 1) => n + 1 \in S)
    <3> HIDE DEF P
    <3> QED BY <1>2
  <2> SUFFICES ASSUME n + 1 <= L PROVE \E f \in [0 .. n + 1 -> V] : Steps(n + 1, f)
    BY <2>0
  <2>1. PICK f \in [0 .. n -> V] : Steps(n, f)
    <3>1. n <= L
      OBVIOUS
    <3> HIDE DEF Steps
    <3> QED BY <2>0, <3>1
  <2> DEFINE v == F[n + 1][f[n]]
             g == [x \in 0 .. n + 1 |-> IF x = n + 1 THEN v ELSE f[x]]
  <2>2. v \in V
    <3>1. f[n] \in V /\ n + 1 \in 1 .. L
      OBVIOUS
    <3> QED BY <3>1
  <2>3. g \in [0 .. n + 1 -> V]
    <3> HIDE DEF v
    <3> QED BY <2>2
  <2>4. Steps(n + 1, g)
    <3>1. g[0] = base
      BY <2>1
    <3>2. ASSUME NEW k \in 1 .. n + 1 PROVE g[k] = F[k][g[k - 1]]
      <4>1. CASE k = n + 1
        <5>1. k \in 0 .. n + 1 /\ k - 1 = n /\ n \in 0 .. n + 1 /\ n # n + 1
          BY <4>1
        <5>2. g[k] = v /\ g[k - 1] = f[n]
          <6> HIDE DEF v
          <6> QED BY <4>1, <5>1
        <5> QED BY <4>1, <5>2
      <4>2. CASE k # n + 1
        <5>1. k \in 1 .. n /\ k \in 0 .. n + 1 /\ k - 1 \in 0 .. n + 1 /\ k - 1 # n + 1
          BY <4>2
        <5>2. g[k] = f[k] /\ g[k - 1] = f[k - 1]
          BY <4>2, <5>1
        <5> QED BY <2>1, <5>1, <5>2
      <4> QED BY <4>1, <4>2
    <3> QED BY <3>1, <3>2
  <2> QED BY <2>3, <2>4
<1> HIDE DEF S
<1>3. Nat \subseteq S
  BY <1>1, <1>2, Induction
<1> QED BY <1>3 DEF S, Computes

(* Two computations that start alike and take the same steps.              *)
Alike(L, f, g) == f[0] = g[0] /\ \A k \in 1 .. L : f[k - 1] = g[k - 1] => f[k] = g[k]

(* They are the same at every step.                                        *)
LEMMA SameIteration ==
  ASSUME NEW L \in Nat, NEW f, NEW g, Alike(L, f, g)
  PROVE  \A k \in 0 .. L : f[k] = g[k]
<1>0. f[0] = g[0] /\ \A k \in 1 .. L : f[k - 1] = g[k - 1] => f[k] = g[k]
  BY DEF Alike
<1> DEFINE S == {n \in Nat : n <= L => f[n] = g[n]}
<1>1. 0 \in S
  BY <1>0
<1>2. ASSUME NEW n \in Nat, n \in S PROVE n + 1 \in S
  <2> SUFFICES ASSUME n + 1 <= L PROVE f[n + 1] = g[n + 1]
    OBVIOUS
  <2>1. n + 1 \in 1 .. L /\ (n + 1) - 1 = n /\ n <= L
    OBVIOUS
  <2> QED BY <1>0, <1>2, <2>1
<1> HIDE DEF S
<1>3. Nat \subseteq S
  BY <1>1, <1>2, Induction
<1> QED BY <1>3 DEF S

(* Whole multiples of an interval.                                         *)
LEMMA Multiples ==
  ASSUME NEW iv \in Nat \ {0}, NEW a \in Nat, NEW b \in Nat
  PROVE  /\ a * iv \in Nat
         /\ a <= b => a * iv <= b * iv
         /\ a < b => a * iv + iv <= b * iv
         /\ a * iv = b * iv => a = b
         /\ (a + b) * iv = a * iv + b * iv
<1>1. \A x \in Nat : x * iv \in Nat
  OBVIOUS
<1>2. (a + b) * iv = a * iv + b * iv
  OBVIOUS
<1>3. ASSUME NEW x \in Nat, NEW y \in Nat, x < y PROVE x * iv + iv <= y * iv
  <2>1. y - x - 1 \in Nat /\ (y - x - 1) * iv \in Nat
    BY <1>1, <1>3
  <2>2. y * iv = x * iv + iv + (y - x - 1) * iv
    OBVIOUS
  <2>3. x * iv \in Nat /\ y * iv \in Nat
    BY <1>1
  <2> QED BY <2>1, <2>2, <2>3
<1>4. a <= b => a * iv <= b * iv
  BY <1>1, <1>3
<1>5. a * iv = b * iv => a = b
  <2>1. a * iv \in Nat /\ b * iv \in Nat
    BY <1>1
  <2> QED BY <1>3, <2>1
<1> QED BY <1>1, <1>2, <1>3, <1>4, <1>5

(* The position of x among the elements of S.                              *)
Below(R, S, x) == {y \in S : <<y, x>> \in R}
Ranked(R, S) == [n \in 1 .. Cardinality(S) |-> CHOOSE x \in S : Cardinality(Below(R, S, x)) = n - 1]

StrictOrder(R, S) ==
  /\ \A x \in S : <<x, x>> \notin R
  /\ \A x, y \in S : x # y => <<x, y>> \in R \/ <<y, x>> \in R
  /\ \A x, y, z \in S : <<x, y>> \in R /\ <<y, z>> \in R => <<x, z>> \in R

(* Listing a finite set by position lists every element once, in order.    *)
LEMMA RankedLists ==
  ASSUME NEW S, IsFiniteSet(S), NEW R, StrictOrder(R, S)
  PROVE  /\ Ranked(R, S) \in [1 .. Cardinality(S) -> S]
         /\ \A x \in S : \E n \in 1 .. Cardinality(S) : Ranked(R, S)[n] = x
         /\ \A m, n \in 1 .. Cardinality(S) : m < n => <<Ranked(R, S)[m], Ranked(R, S)[n]>> \in R
<1> DEFINE N == Cardinality(S)
           r == [x \in S |-> Cardinality(Below(R, S, x)) + 1]
<1>1. N \in Nat
  BY FS_CardinalityType
<1>2. \A x \in S : Below(R, S, x) \in SUBSET S /\ x \notin Below(R, S, x)
  BY DEF Below, StrictOrder
<1>3. \A x \in S : IsFiniteSet(Below(R, S, x)) /\ Cardinality(Below(R, S, x)) \in 0 .. N - 1
  <2> TAKE x \in S
  <2>1. IsFiniteSet(Below(R, S, x)) /\ Cardinality(Below(R, S, x)) <= N
        /\ (N = Cardinality(Below(R, S, x)) => S = Below(R, S, x))
    BY <1>2, FS_Subset
  <2>2. Cardinality(Below(R, S, x)) \in Nat /\ S # Below(R, S, x)
    BY <2>1, <1>2, FS_CardinalityType
  <2> HIDE DEF N
  <2> QED BY <1>1, <2>1, <2>2
<1>4. ASSUME NEW x \in S, NEW y \in S, <<x, y>> \in R
      PROVE  Cardinality(Below(R, S, x)) < Cardinality(Below(R, S, y))
  <2>1. Below(R, S, x) \in SUBSET Below(R, S, y) /\ x \in Below(R, S, y) /\ x \notin Below(R, S, x)
    BY <1>4 DEF Below, StrictOrder
  <2>2. Cardinality(Below(R, S, x)) <= Cardinality(Below(R, S, y))
        /\ Cardinality(Below(R, S, x)) # Cardinality(Below(R, S, y))
    BY <1>3, <2>1, FS_Subset
  <2>3. Cardinality(Below(R, S, x)) \in Nat /\ Cardinality(Below(R, S, y)) \in Nat
    BY <1>3
  <2> QED BY <2>2, <2>3
<1>5. r \in [S -> 1 .. N] /\ \A x \in S : r[x] = Cardinality(Below(R, S, x)) + 1
  <2> HIDE DEF N
  <2> QED BY <1>1, <1>3
<1> HIDE DEF N
<1>6. \A x, y \in S : <<x, y>> \in R => r[x] < r[y]
  <2> HIDE DEF r
  <2>1. \A x \in S : Cardinality(Below(R, S, x)) \in Nat
    BY <1>1, <1>3
  <2> QED BY <1>4, <1>5, <2>1
<1> HIDE DEF r
<1>7. r \in Injection(S, 1 .. N)
  <2>1. ASSUME NEW x \in S, NEW y \in S, r[x] = r[y], x # y PROVE FALSE
    <3>1. <<x, y>> \in R \/ <<y, x>> \in R
      BY <2>1 DEF StrictOrder
    <3>2. r[x] \in Int /\ r[y] \in Int /\ (r[x] < r[y] \/ r[y] < r[x])
      BY <1>1, <1>5, <1>6, <3>1
    <3> QED BY <2>1, <3>2
  <2> QED BY <1>5, <2>1 DEF Injection, IsInjective
<1>8. r \in Surjection(S, 1 .. N)
  <2>1. IsFiniteSet(1 .. N) /\ Cardinality(1 .. N) = N
    BY <1>1, FS_Interval
  <2> QED BY <1>7, <2>1, FS_Injection DEF N
<1>9. \A n \in 1 .. N : \E x \in S : r[x] = n
  BY <1>8 DEF Surjection
<1>10. ASSUME NEW n \in 1 .. N
       PROVE  Ranked(R, S)[n] \in S /\ r[Ranked(R, S)[n]] = n
  <2>1. \A x \in S : r[x] = n <=> Cardinality(Below(R, S, x)) = n - 1
    <3>1. \A x \in S : Cardinality(Below(R, S, x)) \in Nat
      BY <1>1, <1>3
    <3> QED BY <1>1, <1>5, <3>1
  <2>2. \E x \in S : Cardinality(Below(R, S, x)) = n - 1
    BY <1>9, <2>1
  <2>3. Ranked(R, S)[n] = CHOOSE x \in S : Cardinality(Below(R, S, x)) = n - 1
    BY DEF Ranked, N
  <2>4. Ranked(R, S)[n] \in S /\ Cardinality(Below(R, S, Ranked(R, S)[n])) = n - 1
    BY <2>2, <2>3
  <2> QED BY <2>1, <2>4
<1>11. Ranked(R, S) \in [1 .. N -> S]
  <2>1. Ranked(R, S) = [n \in 1 .. N |-> Ranked(R, S)[n]]
    BY DEF Ranked, N
  <2> QED BY <1>10, <2>1
<1>12. ASSUME NEW x \in S PROVE \E n \in 1 .. N : Ranked(R, S)[n] = x
  <2>1. r[x] \in 1 .. N
    BY <1>5
  <2>2. Ranked(R, S)[r[x]] \in S /\ r[Ranked(R, S)[r[x]]] = r[x]
    BY <1>10, <2>1
  <2>3. Ranked(R, S)[r[x]] = x
    BY <1>7, <2>2 DEF Injection, IsInjective
  <2> QED BY <2>1, <2>3
<1>13. ASSUME NEW m \in 1 .. N, NEW n \in 1 .. N, m < n
       PROVE  <<Ranked(R, S)[m], Ranked(R, S)[n]>> \in R
  <2> DEFINE a == Ranked(R, S)[m]
             b == Ranked(R, S)[n]
  <2>1. a \in S /\ b \in S /\ r[a] = m /\ r[b] = n
    BY <1>10
  <2> HIDE DEF a, b
  <2>2. a # b /\ ~(<<b, a>> \in R)
    BY <1>6, <1>13, <2>1, <1>1
  <2>3. <<a, b>> \in R
    BY <2>1, <2>2 DEF StrictOrder
  <2> QED BY <2>3 DEF a, b
<1> QED BY <1>11, <1>12, <1>13 DEF N

(* The numbers of a finite set in ascending order.                         *)
Enumerated(S) == [i \in 1 .. Cardinality(S) |-> CHOOSE x \in S : Cardinality({y \in S : y < x}) = i - 1]

(* Enumerated(S) lists every number of a finite set once, in order.        *)
LEMMA EnumeratedInOrder ==
  ASSUME NEW S \in SUBSET Nat, IsFiniteSet(S)
  PROVE  /\ Cardinality(S) \in Nat
         /\ Enumerated(S) \in [1 .. Cardinality(S) -> S]
         /\ \A x \in S : \E n \in 1 .. Cardinality(S) : Enumerated(S)[n] = x
         /\ \A m, n \in 1 .. Cardinality(S) : m < n => Enumerated(S)[m] < Enumerated(S)[n]
<1> DEFINE R == {p \in S \X S : p[1] < p[2]}
<1>1. \A x, y \in S : <<x, y>> \in R <=> x < y
  OBVIOUS
<1> HIDE DEF R
<1>2. StrictOrder(R, S)
  <2>1. \A x \in S : x \in Nat
    OBVIOUS
  <2> QED BY <1>1, <2>1 DEF StrictOrder
<1>3. \A x \in S : Below(R, S, x) = {y \in S : y < x}
  BY <1>1 DEF Below
<1>4. Enumerated(S) = Ranked(R, S)
  <2>1. ASSUME NEW n \in 1 .. Cardinality(S)
        PROVE  (CHOOSE x \in S : Cardinality({y \in S : y < x}) = n - 1)
                 = (CHOOSE x \in S : Cardinality(Below(R, S, x)) = n - 1)
    <3>1. \A x \in S : Cardinality({y \in S : y < x}) = n - 1 <=> Cardinality(Below(R, S, x)) = n - 1
      BY <1>3
    <3> QED BY <3>1
  <2> DEFINE A(n) == CHOOSE x \in S : Cardinality({y \in S : y < x}) = n - 1
             B(n) == CHOOSE x \in S : Cardinality(Below(R, S, x)) = n - 1
  <2>2. Enumerated(S) = [n \in 1 .. Cardinality(S) |-> A(n)]
    BY DEF Enumerated
  <2>3. Ranked(R, S) = [n \in 1 .. Cardinality(S) |-> B(n)]
    BY DEF Ranked
  <2>4. \A n \in 1 .. Cardinality(S) : A(n) = B(n)
    BY <2>1
  <2> HIDE DEF A, B
  <2> QED BY <2>2, <2>3, <2>4
<1>5. Cardinality(S) \in Nat
  BY FS_CardinalityType
<1>6. /\ Ranked(R, S) \in [1 .. Cardinality(S) -> S]
      /\ \A x \in S : \E n \in 1 .. Cardinality(S) : Ranked(R, S)[n] = x
      /\ \A m, n \in 1 .. Cardinality(S) : m < n => <<Ranked(R, S)[m], Ranked(R, S)[n]>> \in R
  BY <1>2, RankedLists
<1> QED BY <1>1, <1>4, <1>5, <1>6

(* A nonempty finite set of numbers has a greatest element.                *)
LEMMA FiniteGreatest ==
  ASSUME NEW S \in SUBSET Nat, IsFiniteSet(S), S # {}
  PROVE  \E x \in S : \A y \in S : y <= x
<1> DEFINE N == Cardinality(S)
           e == Enumerated(S)
<1>1. /\ N \in Nat /\ e \in [1 .. N -> S] /\ \A x \in S : \E n \in 1 .. N : e[n] = x
      /\ \A m, n \in 1 .. N : m < n => e[m] < e[n]
  BY EnumeratedInOrder
<1> HIDE DEF N, e
<1>2. N \in 1 .. N
  <2>1. PICK x \in S : TRUE
    OBVIOUS
  <2>2. PICK n \in 1 .. N : e[n] = x
    BY <1>1
  <2> QED BY <1>1, <2>2
<1>3. ASSUME NEW y \in S PROVE y <= e[N]
  <2>1. PICK n \in 1 .. N : e[n] = y
    BY <1>1
  <2>2. e[n] \in Nat /\ e[N] \in Nat
    <3>1. e[n] \in S /\ e[N] \in S
      BY <1>1, <1>2
    <3> QED BY <3>1
  <2>3. n = N \/ n < N
    BY <1>1
  <2>4. n = N \/ e[n] < e[N]
    BY <1>1, <1>2, <2>3
  <2> QED BY <2>1, <2>2, <2>4
<1> QED BY <1>1, <1>2, <1>3

(* What a function takes finitely many arguments to is finite.             *)
LEMMA FiniteImage ==
  ASSUME NEW S, IsFiniteSet(S), NEW f
  PROVE  IsFiniteSet({f[x] : x \in S})
<1> DEFINE T == {f[x] : x \in S}
           g == [x \in S |-> f[x]]
<1>1. g \in Surjection(S, T)
  BY DEF Surjection
<1> QED BY <1>1, FS_Surjection
=============================================================================

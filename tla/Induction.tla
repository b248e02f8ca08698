------------------------------- MODULE Induction ----------------------------
(***************************************************************************)
(* Induction and recursion as facts about sets and functions, for the       *)
(* proofs about what is computed by recursion over data.  The induction     *)
(* schemes of the library take a predicate as their parameter; here it is   *)
(* the set of the numbers that satisfy it, and a recursive definition is a  *)
(* function from functions to functions.  Sums over a set are such a        *)
(* recursion over its subsets.                                              *)
(***************************************************************************)
EXTENDS Integers, FiniteSets, FiniteSetsExt, FiniteSetTheorems, WellFoundedInduction, TLAPS

-----------------------------------------------------------------------------
(* Numbers                                                                  *)

\* A set of numbers has a least one.
LEMMA LeastOf == ASSUME NEW T \in SUBSET Nat, T # {} PROVE \E n \in T : \A m \in T : n <= m
<1> DEFINE R == OpToRel(<, Nat)
<1>1. IsWellFoundedOn(R, Nat)
  BY NatLessThanWellFounded
<1>2. \A m, n \in Nat : m < n => <<m, n>> \in R
  BY DEF OpToRel
<1> HIDE DEF R
<1>3. \E n \in T : \A m \in T : <<m, n>> \notin R
  BY <1>1, WFMin
<1>4. PICK n \in T : \A m \in T : <<m, n>> \notin R
  BY <1>3
<1>5. \A m \in T : ~(m < n)
  BY <1>2, <1>4
<1>6. \A m \in T : m \in Nat /\ n \in Nat
  BY <1>4
<1>7. \A m \in T : n <= m
  BY <1>5, <1>6
<1>8. QED  BY <1>4, <1>7

\* A set that holds each number up to n when it holds the smaller ones holds all of
\* them.
LEMMA SetInduction ==
  ASSUME NEW n \in Nat, NEW T, \A i \in 0 .. n : (\A j \in 0 .. n : j < i => j \in T) => i \in T
  PROVE  0 .. n \subseteq T
<1> SUFFICES ASSUME (0 .. n) \ T # {} PROVE FALSE
  OBVIOUS
<1> DEFINE U == (0 .. n) \ T
<1>1. PICK i \in U : \A j \in U : i <= j
  <2>1. U \in SUBSET Nat /\ U # {}
    OBVIOUS
  <2> HIDE DEF U
  <2>2. QED  BY <2>1, LeastOf
<1>2. \A j \in 0 .. n : j < i => j \in T
  BY <1>1
<1>3. QED  BY <1>1, <1>2

LEMMA MaxOf ==
  ASSUME NEW n \in Nat, NEW S \in SUBSET (0 .. n), S # {}
  PROVE  Max(S) \in S /\ \A x \in S : x <= Max(S)
<1> DEFINE T == {n - x : x \in S}
<1>1. T \in SUBSET Nat /\ T # {}
  <2>1. \A x \in S : n - x \in Nat
    OBVIOUS
  <2>2. QED  BY <2>1
<1>2. PICK m \in T : \A l \in T : m <= l
  <2> HIDE DEF T
  <2>1. QED  BY <1>1, LeastOf
<1>3. PICK x \in S : m = n - x
  BY <1>2
<1>4. \A y \in S : n - x <= n - y
  BY <1>2, <1>3
<1>5. \A y \in S : y <= x
  BY <1>4
<1>6. \A z \in S : (\A y \in S : z >= y) => z = x
  BY <1>3, <1>5
<1>7. QED  BY <1>5, <1>6 DEF Max

-----------------------------------------------------------------------------
(* Recursive functions                                                      *)

\* Phi makes the right side of a recursive definition out of the function that is
\* defined; at an argument it depends on the values at arguments of a smaller rank
\* only.
Descends(D, V, rank, Phi) ==
  /\ Phi \in [[D -> V] -> [D -> V]]
  /\ \A f, g \in [D -> V], d \in D :
       (\A c \in D : rank[c] < rank[d] => f[c] = g[c]) => Phi[f][d] = Phi[g][d]

\* Below rank n the function f is as the definition says.
Obeys(D, rank, Phi, f, n) == \A d \in D : rank[d] < n => f[d] = Phi[f][d]

\* Up to any rank there is such a function.
LEMMA Approximations ==
  ASSUME NEW D, NEW V, V # {}, NEW r \in [D -> Nat], NEW Phi, Descends(D, V, r, Phi), NEW n \in Nat
  PROVE  \E f \in [D -> V] : Obeys(D, r, Phi, f, n)
<1>0. /\ Phi \in [[D -> V] -> [D -> V]]
      /\ \A f, g \in [D -> V], d \in D :
           (\A c \in D : r[c] < r[d] => f[c] = g[c]) => Phi[f][d] = Phi[g][d]
  BY DEF Descends
<1> DEFINE T == {k \in Nat : \E f \in [D -> V] : Obeys(D, r, Phi, f, k)}
<1>1. ASSUME NEW k \in 0 .. n, \A j \in 0 .. n : j < k => j \in T PROVE k \in T
  <2>1. CASE k = 0
    <3>1. PICK f \in [D -> V] : TRUE
      <4>1. PICK v \in V : TRUE
        OBVIOUS
      <4>2. [d \in D |-> v] \in [D -> V]
        BY <4>1
      <4>3. QED  BY <4>2
    <3>2. \A d \in D : r[d] \in Nat /\ ~(r[d] < k)
      BY <2>1
    <3>3. Obeys(D, r, Phi, f, k)
      BY <3>2 DEF Obeys
    <3>4. QED  BY <3>3
  <2>2. CASE k # 0
    <3>1. k - 1 \in 0 .. n /\ k - 1 < k
      BY <2>2
    <3>2. PICK f \in [D -> V] : \A d \in D : r[d] < k - 1 => f[d] = Phi[f][d]
      BY <1>1, <3>1 DEF Obeys
    <3> DEFINE g == [d \in D |-> IF r[d] < k - 1 THEN f[d] ELSE Phi[f][d]]
    <3>3. Phi[f] \in [D -> V]
      BY <1>0
    <3>4. g \in [D -> V] /\ \A d \in D : r[d] < k - 1 => g[d] = f[d]
      BY <3>3
    <3>5. \A d \in D : g[d] = Phi[f][d]
      BY <3>2
    <3> HIDE DEF g
    <3>6. ASSUME NEW d \in D, r[d] < k PROVE g[d] = Phi[g][d]
      <4>1. \A c \in D : r[c] < r[d] => r[c] < k - 1
        <5> TAKE c \in D
        <5>1. r[c] \in Nat /\ r[d] \in Nat /\ k \in Nat
          OBVIOUS
        <5>2. QED  BY <3>6, <5>1
      <4>2. \A c \in D : r[c] < r[d] => f[c] = g[c]
        BY <3>4, <4>1
      <4>3. Phi[f][d] = Phi[g][d]
        BY <1>0, <3>4, <4>2
      <4>4. QED  BY <3>5, <4>3
    <3>7. QED  BY <3>4, <3>6 DEF Obeys
  <2>3. QED  BY <2>1, <2>2
<1>2. n \in T
  <2> HIDE DEF T
  <2>1. 0 .. n \subseteq T
    BY <1>1, SetInduction
  <2>2. QED  BY <2>1
<1>3. QED  BY <1>2

\* Two of them agree as far as both go.
LEMMA ApproximationsAgree ==
  ASSUME NEW D, NEW V, NEW r \in [D -> Nat], NEW Phi, Descends(D, V, r, Phi), NEW n \in Nat,
         NEW f \in [D -> V], Obeys(D, r, Phi, f, n), NEW g \in [D -> V], Obeys(D, r, Phi, g, n)
  PROVE  \A d \in D : r[d] < n => f[d] = g[d]
<1> DEFINE T == {k \in Nat : \A d \in D : r[d] < n /\ r[d] = k => f[d] = g[d]}
<1>1. ASSUME NEW k \in 0 .. n, \A j \in 0 .. n : j < k => j \in T PROVE k \in T
  <2> SUFFICES ASSUME NEW d \in D, r[d] < n, r[d] = k PROVE f[d] = g[d]
    OBVIOUS
  <2>1. ASSUME NEW c \in D, r[c] < r[d] PROVE f[c] = g[c]
    <3>1. r[c] \in 0 .. n /\ r[c] < k /\ r[c] < n
      BY <2>1
    <3>2. r[c] \in T
      BY <1>1, <3>1
    <3>3. QED  BY <3>1, <3>2
  <2>2. Phi[f][d] = Phi[g][d]
    BY <2>1 DEF Descends
  <2>3. QED  BY <2>2 DEF Obeys
<1>2. 0 .. n \subseteq T
  <2> HIDE DEF T
  <2>1. QED  BY <1>1, SetInduction
<1>3. ASSUME NEW d \in D, r[d] < n PROVE f[d] = g[d]
  <2>1. r[d] \in 0 .. n
    BY <1>3
  <2>2. QED  BY <1>2, <1>3, <2>1
<1>4. QED  BY <1>3

\* Such a recursion ends in a function.
LEMMA Recursion ==
  ASSUME NEW D, NEW V, V # {}, NEW r \in [D -> Nat], NEW Phi, Descends(D, V, r, Phi)
  PROVE  \E f \in [D -> V] : f = Phi[f]
<1> DEFINE Good(f, n) == f \in [D -> V] /\ Obeys(D, r, Phi, f, n)
           Upto(n) == CHOOSE f : Good(f, n)
           F == [d \in D |-> Upto(r[d] + 1)[d]]
<1>1. \A n \in Nat : Good(Upto(n), n)
  <2> TAKE n \in Nat
  <2>1. \E f : Good(f, n)
    BY Approximations
  <2> HIDE DEF Good
  <2>2. QED  BY <2>1
<1>2. \A d \in D : r[d] \in Nat /\ r[d] + 1 \in Nat
  OBVIOUS
<1> HIDE DEF Upto
<1>3. F \in [D -> V]
  BY <1>1, <1>2
<1>4. ASSUME NEW d \in D PROVE F[d] = Phi[F][d]
  <2> DEFINE f == Upto(r[d] + 1)
  <2>1. f \in [D -> V] /\ (\A c \in D : r[c] < r[d] + 1 => f[c] = Phi[f][c]) /\ F[d] = f[d]
    BY <1>1, <1>2 DEF Obeys
  <2>2. ASSUME NEW c \in D, r[c] < r[d] PROVE f[c] = F[c]
    <3> DEFINE n == r[c] + 1
               g == Upto(n)
    <3>0. f \in [D -> V]
      BY <2>1
    <3>1. n \in Nat /\ r[c] < n /\ \A b \in D : r[b] < n => r[b] < r[d] + 1
      BY <1>2, <2>2
    <3>2. g \in [D -> V] /\ Obeys(D, r, Phi, g, n) /\ F[c] = g[c]
      BY <1>1, <3>1
    <3>3. Obeys(D, r, Phi, f, n)
      BY <2>1, <3>1 DEF Obeys
    <3> HIDE DEF F, f, g, n
    <3>4. \A b \in D : r[b] < n => f[b] = g[b]
      BY <3>0, <3>1, <3>2, <3>3, ApproximationsAgree
    <3>5. QED  BY <3>1, <3>2, <3>4
  <2> HIDE DEF F, f
  <2>3. Phi[f][d] = Phi[F][d]
    BY <1>3, <2>1, <2>2 DEF Descends
  <2>4. r[d] < r[d] + 1
    BY <1>2
  <2>5. QED  BY <2>1, <2>3, <2>4
<1>5. Phi[F] \in [D -> V]
  <2> HIDE DEF F
  <2>1. QED  BY <1>3 DEF Descends
<1>6. F = Phi[F]
  <2> HIDE DEF F
  <2>1. QED  BY <1>3, <1>4, <1>5
<1>7. QED  BY <1>3, <1>6

-----------------------------------------------------------------------------
(* Sums                                                                     *)

\* The sum of the values of f over S.
SumOver(f, S) == MapThenSumSet(LAMBDA x : f[x], S)

\* A set of subsets that holds the empty one, and with a subset each that has one
\* element more, holds all.
LEMMA FiniteInduction ==
  ASSUME NEW S, IsFiniteSet(S), NEW T, {} \in T,
         \A s \in SUBSET S, x \in S : s \in T /\ x \notin s => s \cup {x} \in T
  PROVE  SUBSET S \subseteq T
<1> DEFINE n == Cardinality(S)
           K == {k \in 0 .. n : \A s \in SUBSET S : Cardinality(s) = k => s \in T}
<1>1. n \in Nat
  BY FS_CardinalityType
<1>2. \A s \in SUBSET S : IsFiniteSet(s) /\ Cardinality(s) \in 0 .. n
  <2> TAKE s \in SUBSET S
  <2>1. IsFiniteSet(s) /\ Cardinality(s) <= n
    BY FS_Subset
  <2>2. QED  BY <1>1, <2>1, FS_CardinalityType
<1>3. ASSUME NEW k \in 0 .. n, \A j \in 0 .. n : j < k => j \in K PROVE k \in K
  <2> SUFFICES ASSUME NEW s \in SUBSET S, Cardinality(s) = k PROVE s \in T
    OBVIOUS
  <2>1. CASE s = {}
    BY <2>1
  <2>2. CASE s # {}
    <3>1. PICK x \in s : TRUE
      BY <2>2
    <3>2. s \ {x} \in SUBSET S /\ Cardinality(s \ {x}) = k - 1
      BY <1>2, <3>1, FS_RemoveElement
    <3>3. s \ {x} \in T
      BY <1>1, <1>2, <1>3, <3>2
    <3>4. (s \ {x}) \cup {x} \in T
      BY <3>1, <3>2, <3>3
    <3>5. (s \ {x}) \cup {x} = s
      BY <3>1
    <3>6. QED  BY <3>4, <3>5
  <2>3. QED  BY <2>1, <2>2
<1>4. 0 .. n \subseteq K
  <2> HIDE DEF K, n
  <2>1. QED  BY <1>1, <1>3, SetInduction
<1>5. QED  BY <1>2, <1>4

\* How the sum over each subset of S comes about: element by element, in any order.
Sums(f, S, it) ==
  /\ it \in [SUBSET S -> Int]
  /\ it[{}] = 0
  /\ \A s \in SUBSET S : \A x \in s : it[s] = f[x] + it[s \ {x}]

LEMMA SumsExist ==
  ASSUME NEW S, IsFiniteSet(S), NEW f, \A x \in S : f[x] \in Int
  PROVE  \E it : Sums(f, S, it) /\ SumOver(f, S) = it[S]
<1> DEFINE D == SUBSET S
           pick(s) == CHOOSE x \in s : TRUE
           F(g, s) == IF s = {} THEN 0 ELSE f[pick(s)] + g[s \ {pick(s)}]
           Phi == [g \in [D -> Int] |-> [s \in D |-> F(g, s)]]
           n == Cardinality(S)
           rank == [s \in D |-> Cardinality(s)]
           it == CHOOSE g : g = [s \in D |-> F(g, s)]
<1>1. n \in Nat /\ Int # {}
  BY FS_CardinalityType
<1>2. \A s \in D : IsFiniteSet(s) /\ Cardinality(s) \in 0 .. n
  <2> TAKE s \in D
  <2>1. IsFiniteSet(s) /\ Cardinality(s) <= n
    BY FS_Subset
  <2>2. QED  BY <1>1, <2>1, FS_CardinalityType
<1>3. \A s \in D : s # {} => pick(s) \in s
  OBVIOUS
<1>4. \A s \in D : \A x \in s : s \ {x} \in D /\ Cardinality(s \ {x}) = Cardinality(s) - 1
  BY <1>2, FS_RemoveElement
<1>5. Descends(D, Int, rank, Phi)
  <2>1. Phi \in [[D -> Int] -> [D -> Int]]
    <3>1. ASSUME NEW g \in [D -> Int], NEW s \in D PROVE F(g, s) \in Int
      BY <1>3, <1>4
    <3> HIDE DEF F
    <3>2. QED  BY <3>1
  <2>2. ASSUME NEW g \in [D -> Int], NEW h \in [D -> Int], NEW s \in D,
               \A c \in D : rank[c] < rank[s] => g[c] = h[c]
        PROVE  Phi[g][s] = Phi[h][s]
    <3>1. CASE s = {}
      BY <3>1
    <3>2. CASE s # {}
      <4>1. PICK y \in s : y = pick(s)
        BY <1>3, <3>2
      <4> DEFINE c == s \ {y}
      <4>2. c \in D /\ Cardinality(c) = Cardinality(s) - 1
        BY <1>4
      <4>3. rank[c] < rank[s]
        <5>1. Cardinality(s) \in Nat
          BY <1>2
        <5>2. QED  BY <4>2, <5>1
      <4>4. g[c] = h[c]
        BY <2>2, <4>2, <4>3
      <4>5. QED  BY <4>1, <4>4
    <3>3. QED  BY <3>1, <3>2
  <2> HIDE DEF D, Phi, rank
  <2>3. QED  BY <2>1, <2>2 DEF Descends
<1>6. PICK g \in [D -> Int] : g = Phi[g]
  <2>1. rank \in [D -> 0 .. n]
    BY <1>2
  <2> HIDE DEF D, Phi, rank, n
  <2>2. QED  BY <1>1, <1>5, <2>1, Recursion
<1>7. g = [s \in D |-> F(g, s)]
  BY <1>6
<1>8. it = [s \in D |-> F(it, s)]
  BY <1>7
<1>9. SumOver(f, S) = it[S]
  BY DEF SumOver, MapThenSumSet, MapThenFoldSet
<1> HIDE DEF it
<1>10. \A s \in D : it[s] = F(it, s)
  BY <1>8
<1>11. it[{}] = 0
  BY <1>10
<1> DEFINE K == {k \in 0 .. n : \A s \in D : Cardinality(s) = k =>
                     it[s] \in Int /\ \A x \in s : it[s] = f[x] + it[s \ {x}]}
<1>12. ASSUME NEW k \in 0 .. n, \A j \in 0 .. n : j < k => j \in K PROVE k \in K
  <2> SUFFICES ASSUME NEW s \in D, Cardinality(s) = k
               PROVE  it[s] \in Int /\ \A x \in s : it[s] = f[x] + it[s \ {x}]
    OBVIOUS
  <2>1. CASE s = {}
    BY <1>11, <2>1
  <2>2. CASE s # {}
    <3> DEFINE c == pick(s)
    <3>1. c \in s
      BY <1>3, <2>2
    <3>2. it[s] = f[c] + it[s \ {c}]
      BY <1>10, <2>2
    <3> HIDE DEF c
    <3>3. \A x \in s : s \ {x} \in D /\ Cardinality(s \ {x}) = k - 1 /\ k - 1 \in 0 .. n /\ k - 1 < k
      <4> TAKE x \in s
      <4>1. s \ {x} \in D /\ Cardinality(s \ {x}) = k - 1
        BY <1>4
      <4>2. Cardinality(s \ {x}) \in 0 .. n /\ k \in Nat
        BY <1>2, <4>1
      <4>3. QED  BY <4>1, <4>2
    <3>4. \A x \in s : /\ it[s \ {x}] \in Int
                       /\ \A y \in s \ {x} : it[s \ {x}] = f[y] + it[(s \ {x}) \ {y}]
      BY <1>12, <3>3
    <3>5. ASSUME NEW x \in s, x # c PROVE it[s] = f[x] + it[s \ {x}]
      <4>1. it[s \ {c}] = f[x] + it[(s \ {c}) \ {x}]
        BY <3>1, <3>4, <3>5
      <4>2. it[s \ {x}] = f[c] + it[(s \ {x}) \ {c}]
        BY <3>1, <3>4, <3>5
      <4>3. (s \ {c}) \ {x} = (s \ {x}) \ {c}
        OBVIOUS
      <4>4. it[(s \ {c}) \ {x}] \in Int
        <5>1. (s \ {c}) \ {x} \in D /\ Cardinality((s \ {c}) \ {x}) = k - 2 /\ k - 2 \in 0 .. n /\ k - 2 < k
          <6>1. s \ {c} \in D /\ Cardinality(s \ {c}) = k - 1 /\ x \in s \ {c}
            BY <3>1, <3>3, <3>5
          <6> DEFINE u == s \ {c}
          <6>2. u \ {x} \in D /\ Cardinality(u \ {x}) = Cardinality(u) - 1
            <7> HIDE DEF u
            <7>1. QED  BY <1>4, <6>1 DEF u
          <6>3. Cardinality(u \ {x}) \in 0 .. n /\ k \in Nat
            BY <1>2, <6>2
          <6>4. QED  BY <6>1, <6>2, <6>3
        <5>2. QED  BY <1>12, <5>1
      <4>5. f[x] \in Int /\ f[c] \in Int
        BY <3>1
      <4>6. PICK z \in Int : z = it[(s \ {c}) \ {x}]
        BY <4>4
      <4>7. it[s] = f[c] + (f[x] + z) /\ it[s \ {x}] = f[c] + z
        BY <3>2, <4>1, <4>2, <4>3, <4>6
      <4>8. QED  BY <4>5, <4>7
    <3>6. it[s] \in Int
      BY <3>1, <3>2, <3>4
    <3>7. QED  BY <3>2, <3>5, <3>6
  <2>3. QED  BY <2>1, <2>2
<1>13. 0 .. n \subseteq K
  <2> HIDE DEF K, n
  <2>1. QED  BY <1>1, <1>12, SetInduction
<1>14. \A s \in D : it[s] \in Int /\ \A x \in s : it[s] = f[x] + it[s \ {x}]
  BY <1>2, <1>13
<1>15. it \in [SUBSET S -> Int]
  <2>1. it = [s \in D |-> it[s]]
    BY <1>8
  <2>2. QED  BY <1>14, <2>1
<1>16. Sums(f, S, it)
  BY <1>11, <1>14, <1>15 DEF Sums
<1>17. QED  BY <1>9, <1>16

\* Two ways to sum agree where both do.
LEMMA SumsAgree ==
  ASSUME NEW S, IsFiniteSet(S), NEW R, S \subseteq R, NEW f, NEW g, \A x \in S : f[x] = g[x],
         NEW a, Sums(f, S, a), NEW b, Sums(g, R, b)
  PROVE  a[S] = b[S]
<1> DEFINE T == {s \in SUBSET S : a[s] = b[s]}
<1>1. {} \in T
  BY DEF Sums
<1>2. ASSUME NEW s \in SUBSET S, NEW x \in S, s \in T, x \notin s PROVE s \cup {x} \in T
  <2>1. (s \cup {x}) \ {x} = s
    BY <1>2
  <2>2. a[s \cup {x}] = f[x] + a[s]
    BY <2>1 DEF Sums
  <2>3. b[s \cup {x}] = g[x] + b[s]
    BY <2>1 DEF Sums
  <2>4. QED  BY <1>2, <2>2, <2>3
<1>3. SUBSET S \subseteq T
  <2> HIDE DEF T
  <2>1. QED  BY <1>1, <1>2, FiniteInduction
<1>4. QED  BY <1>3

LEMMA SumEmpty == ASSUME NEW f PROVE SumOver(f, {}) = 0
<1>1. IsFiniteSet({})
  BY FS_EmptySet
<1>2. PICK it : Sums(f, {}, it) /\ SumOver(f, {}) = it[{}]
  BY <1>1, SumsExist
<1>3. QED  BY <1>2 DEF Sums

\* A sum depends on the values over the set only.
LEMMA SumSame ==
  ASSUME NEW S, IsFiniteSet(S), NEW f, NEW g, \A x \in S : f[x] \in Int /\ f[x] = g[x]
  PROVE  SumOver(f, S) = SumOver(g, S) /\ SumOver(f, S) \in Int
<1>1. PICK a : Sums(f, S, a) /\ SumOver(f, S) = a[S]
  BY SumsExist
<1>2. PICK b : Sums(g, S, b) /\ SumOver(g, S) = b[S]
  <2>1. \A x \in S : g[x] \in Int
    OBVIOUS
  <2>2. QED  BY <2>1, SumsExist
<1>3. a[S] = b[S]
  BY <1>1, <1>2, SumsAgree
<1>4. QED  BY <1>1, <1>2, <1>3 DEF Sums

\* One element more.
LEMMA SumAdd ==
  ASSUME NEW S, IsFiniteSet(S), NEW x, x \notin S, NEW f, \A y \in S \cup {x} : f[y] \in Int
  PROVE  SumOver(f, S \cup {x}) = f[x] + SumOver(f, S)
<1> DEFINE R == S \cup {x}
<1>1. IsFiniteSet(R)
  BY FS_AddElement
<1>2. PICK b : Sums(f, R, b) /\ SumOver(f, R) = b[R]
  <2> HIDE DEF R
  <2>1. \A y \in R : f[y] \in Int
    BY DEF R
  <2>2. QED  BY <1>1, <2>1, SumsExist
<1>3. PICK a : Sums(f, S, a) /\ SumOver(f, S) = a[S]
  BY SumsExist
<1>4. a[S] = b[S]
  BY <1>2, <1>3, SumsAgree
<1>5. R \ {x} = S
  OBVIOUS
<1>6. b[R] = f[x] + b[S]
  BY <1>2, <1>5 DEF Sums
<1>7. QED  BY <1>2, <1>3, <1>4, <1>6

\* What adds nothing can be left out.
LEMMA SumZeros ==
  ASSUME NEW R, IsFiniteSet(R), NEW S \in SUBSET R, NEW f, \A y \in R : f[y] \in Int,
         \A y \in R \ S : f[y] = 0
  PROVE  SumOver(f, R) = SumOver(f, S)
<1>1. PICK b : Sums(f, R, b) /\ SumOver(f, R) = b[R]
  BY SumsExist
<1>2. IsFiniteSet(S) /\ IsFiniteSet(R \ S)
  BY FS_Subset
<1>3. PICK a : Sums(f, S, a) /\ SumOver(f, S) = a[S]
  BY <1>2, SumsExist
<1>4. a[S] = b[S]
  BY <1>1, <1>2, <1>3, SumsAgree
<1> DEFINE Q == R \ S
           T == {s \in SUBSET Q : b[S \cup s] = b[S]}
<1>5. {} \in T
  OBVIOUS
<1>6. ASSUME NEW s \in SUBSET Q, NEW x \in Q, s \in T, x \notin s PROVE s \cup {x} \in T
  <2> DEFINE q == S \cup (s \cup {x})
  <2>1. q \in SUBSET R /\ x \in q /\ q \ {x} = S \cup s /\ S \cup s \in SUBSET R
    BY <1>6
  <2>2. b[q] = f[x] + b[S \cup s]
    BY <1>1, <2>1 DEF Sums
  <2>3. b[S \cup s] \in Int /\ f[x] = 0
    BY <1>1, <2>1 DEF Sums
  <2>4. QED  BY <1>6, <2>2, <2>3
<1>7. SUBSET Q \subseteq T
  <2> HIDE DEF T, Q
  <2>1. IsFiniteSet(Q)
    BY <1>2 DEF Q
  <2>2. QED  BY <1>5, <1>6, <2>1, FiniteInduction
<1>8. S \cup Q = R
  OBVIOUS
<1>9. b[R] = b[S]
  <2>1. Q \in T
    BY <1>7
  <2>2. QED  BY <1>8, <2>1
<1>10. QED  BY <1>1, <1>3, <1>4, <1>9

LEMMA SumSingle == ASSUME NEW f, NEW x, f[x] \in Int PROVE SumOver(f, {x}) = f[x]
<1>1. IsFiniteSet({})
  BY FS_EmptySet
<1>2. SumOver(f, {} \cup {x}) = f[x] + SumOver(f, {})
  BY <1>1, SumAdd
<1>3. QED  BY <1>2, SumEmpty

\* Sums over sets that have nothing in common.
LEMMA SumUnion ==
  ASSUME NEW R, IsFiniteSet(R), NEW S, IsFiniteSet(S), R \cap S = {}, NEW f, \A x \in R \cup S : f[x] \in Int
  PROVE  SumOver(f, R \cup S) = SumOver(f, R) + SumOver(f, S)
<1> DEFINE T == {s \in SUBSET S : SumOver(f, R \cup s) = SumOver(f, R) + SumOver(f, s)}
<1>1. \A s \in SUBSET S : /\ IsFiniteSet(s) /\ IsFiniteSet(R \cup s)
                          /\ SumOver(f, s) \in Int /\ SumOver(f, R \cup s) \in Int
  <2> TAKE s \in SUBSET S
  <2>1. IsFiniteSet(s) /\ IsFiniteSet(R \cup s)
    BY FS_Subset, FS_Union
  <2>2. QED  BY <2>1, SumSame
<1>2. SumOver(f, R) \in Int
  BY SumSame
<1>3. {} \in T
  <2>1. SumOver(f, {}) = 0 /\ R \cup {} = R
    BY SumEmpty
  <2>2. QED  BY <1>2, <2>1
<1>4. ASSUME NEW s \in SUBSET S, NEW x \in S, s \in T, x \notin s PROVE s \cup {x} \in T
  <2>1. SumOver(f, s \cup {x}) = f[x] + SumOver(f, s)
    BY <1>1, <1>4, SumAdd
  <2>2. (R \cup s) \cup {x} = R \cup (s \cup {x}) /\ x \notin R \cup s
    BY <1>4
  <2>3. SumOver(f, (R \cup s) \cup {x}) = f[x] + SumOver(f, R \cup s)
    <3> DEFINE q == R \cup s
    <3>1. IsFiniteSet(q) /\ x \notin q /\ \A y \in q \cup {x} : f[y] \in Int
      BY <1>1, <2>2
    <3> HIDE DEF q
    <3>2. SumOver(f, q \cup {x}) = f[x] + SumOver(f, q)
      BY <3>1, SumAdd
    <3>3. QED  BY <3>2 DEF q
  <2>4. f[x] \in Int /\ SumOver(f, s) \in Int
    BY <1>1
  <2>5. SumOver(f, R \cup s) = SumOver(f, R) + SumOver(f, s)
    BY <1>4
  <2>6. SumOver(f, R \cup (s \cup {x})) = f[x] + (SumOver(f, R) + SumOver(f, s))
    BY <2>2, <2>3, <2>5
  <2>7. SumOver(f, R \cup (s \cup {x})) = SumOver(f, R) + SumOver(f, s \cup {x})
    BY <1>2, <2>1, <2>4, <2>6
  <2>8. s \cup {x} \in SUBSET S
    OBVIOUS
  <2>9. QED  BY <2>7, <2>8
<1>5. SUBSET S \subseteq T
  <2> HIDE DEF T
  <2>1. QED  BY <1>3, <1>4, FiniteInduction
<1>6. QED  BY <1>5

\* A sum of numbers is one, and no smaller than that over a part.
LEMMA SumNat ==
  ASSUME NEW S, IsFiniteSet(S), NEW f, \A x \in S : f[x] \in Nat
  PROVE  SumOver(f, S) \in Nat /\ \A R \in SUBSET S : SumOver(f, R) <= SumOver(f, S) /\ SumOver(f, R) \in Nat
<1> DEFINE T == {s \in SUBSET S : SumOver(f, s) \in Nat}
<1>1. {} \in T
  BY SumEmpty
<1>2. ASSUME NEW s \in SUBSET S, NEW x \in S, s \in T, x \notin s PROVE s \cup {x} \in T
  <2>1. IsFiniteSet(s) /\ \A y \in s \cup {x} : f[y] \in Int
    BY FS_Subset
  <2>2. SumOver(f, s \cup {x}) = f[x] + SumOver(f, s)
    BY <1>2, <2>1, SumAdd
  <2>3. f[x] \in Nat /\ SumOver(f, s) \in Nat
    BY <1>2
  <2>4. QED  BY <2>2, <2>3
<1>3. SUBSET S \subseteq T
  <2> HIDE DEF T
  <2>1. QED  BY <1>1, <1>2, FiniteInduction
<1>4. \A R \in SUBSET S : SumOver(f, R) \in Nat
  BY <1>3
<1>5. ASSUME NEW R \in SUBSET S PROVE SumOver(f, R) <= SumOver(f, S)
  <2> DEFINE Q == S \ R
  <2>1. IsFiniteSet(R) /\ IsFiniteSet(Q) /\ R \cap Q = {} /\ R \cup Q = S /\ Q \in SUBSET S
    BY FS_Subset
  <2> HIDE DEF Q
  <2>2. SumOver(f, R \cup Q) = SumOver(f, R) + SumOver(f, Q)
    <3>1. \A x \in R \cup Q : f[x] \in Int
      BY <2>1
    <3>2. QED  BY <2>1, <3>1, SumUnion
  <2>3. SumOver(f, R) \in Nat /\ SumOver(f, Q) \in Nat
    BY <1>4, <2>1
  <2>4. SumOver(f, S) = SumOver(f, R) + SumOver(f, Q)
    BY <2>1, <2>2
  <2>5. QED  BY <2>3, <2>4
<1>6. QED  BY <1>4, <1>5

Fibre(S, g, t) == {x \in S : g[x] = t}

\* Summing what falls to each t first.
LEMMA SumFibres ==
  ASSUME NEW S, IsFiniteSet(S), NEW f, \A x \in S : f[x] \in Int,
         NEW T, IsFiniteSet(T), NEW g, \A x \in S : g[x] \in T,
         NEW h, \A t \in T : h[t] = SumOver(f, Fibre(S, g, t))
  PROVE  SumOver(f, S) = SumOver(h, T) /\ \A t \in T : h[t] \in Int
<1> DEFINE Over(Q) == {x \in S : g[x] \in Q}
           K == {Q \in SUBSET T : SumOver(f, Over(Q)) = SumOver(h, Q)}
<1>1. \A t \in T : h[t] \in Int
  <2> TAKE t \in T
  <2>1. IsFiniteSet(Fibre(S, g, t)) /\ \A x \in Fibre(S, g, t) : x \in S
    BY FS_Subset DEF Fibre
  <2>2. QED  BY <2>1, SumSame
<1>2. {} \in K
  <2>1. Over({}) = {}
    OBVIOUS
  <2>2. QED  BY <2>1, SumEmpty
<1>3. ASSUME NEW Q \in SUBSET T, NEW t \in T, Q \in K, t \notin Q PROVE Q \cup {t} \in K
  <2> DEFINE A == Over(Q)
             B == Fibre(S, g, t)
  <2>1. Over(Q \cup {t}) = A \cup B /\ A \cap B = {} /\ A \subseteq S /\ B \subseteq S
    BY <1>3 DEF Fibre
  <2>2. IsFiniteSet(A) /\ IsFiniteSet(B) /\ \A x \in A \cup B : f[x] \in Int
    BY <2>1, FS_Subset
  <2>3. SumOver(h, Q \cup {t}) = h[t] + SumOver(h, Q)
    <3>1. IsFiniteSet(Q) /\ \A q \in Q \cup {t} : h[q] \in Int
      BY <1>1, FS_Subset
    <3>2. QED  BY <1>3, <3>1, SumAdd
  <2>4. SumOver(h, Q) = SumOver(f, A)
    BY <1>3
  <2>5. h[t] = SumOver(f, B)
    OBVIOUS
  <2> HIDE DEF A, B, Over
  <2>6. SumOver(f, A \cup B) = SumOver(f, A) + SumOver(f, B)
    BY <2>1, <2>2, SumUnion
  <2>7. SumOver(f, A) \in Int /\ SumOver(f, B) \in Int
    BY <2>2, SumSame
  <2>8. SumOver(f, A \cup B) = SumOver(h, Q \cup {t})
    BY <2>3, <2>4, <2>5, <2>6, <2>7
  <2>9. SumOver(f, Over(Q \cup {t})) = SumOver(h, Q \cup {t}) /\ Q \cup {t} \in SUBSET T
    BY <2>1, <2>8
  <2>10. QED  BY <2>9
<1>4. SUBSET T \subseteq K
  <2> HIDE DEF K
  <2>1. QED  BY <1>2, <1>3, FiniteInduction
<1>5. T \in K /\ Over(T) = S
  BY <1>4
<1>6. SumOver(f, S) = SumOver(h, T)
  BY <1>5
<1>7. QED  BY <1>1, <1>6

\* Every value times k.
LEMMA SumTimes ==
  ASSUME NEW S, IsFiniteSet(S), NEW k \in Int, NEW f, NEW g, \A x \in S : f[x] \in Int /\ g[x] = k * f[x]
  PROVE  SumOver(g, S) = k * SumOver(f, S)
<1> DEFINE T == {s \in SUBSET S : SumOver(g, s) = k * SumOver(f, s)}
<1>1. \A x \in S : g[x] \in Int
  OBVIOUS
<1>2. {} \in T
  BY SumEmpty
<1>3. ASSUME NEW s \in SUBSET S, NEW x \in S, s \in T, x \notin s PROVE s \cup {x} \in T
  <2>1. IsFiniteSet(s) /\ \A y \in s \cup {x} : f[y] \in Int /\ g[y] \in Int
    BY <1>1, FS_Subset
  <2>2. SumOver(f, s \cup {x}) = f[x] + SumOver(f, s) /\ SumOver(g, s \cup {x}) = g[x] + SumOver(g, s)
    BY <1>3, <2>1, SumAdd
  <2>3. f[x] \in Int /\ SumOver(f, s) \in Int /\ g[x] = k * f[x]
    BY <2>1, SumSame
  <2>4. \A a, b \in Int : k * (a + b) = k * a + k * b
    OBVIOUS
  <2>5. QED  BY <1>3, <2>2, <2>3, <2>4
<1>4. SUBSET S \subseteq T
  <2> HIDE DEF T
  <2>1. QED  BY <1>2, <1>3, FiniteInduction
<1>5. QED  BY <1>4

\* Two values for each element.
LEMMA SumPlus ==
  ASSUME NEW S, IsFiniteSet(S), NEW f, NEW g, NEW h,
         \A x \in S : f[x] \in Int /\ g[x] \in Int /\ h[x] = f[x] + g[x]
  PROVE  SumOver(h, S) = SumOver(f, S) + SumOver(g, S)
<1> DEFINE T == {s \in SUBSET S : SumOver(h, s) = SumOver(f, s) + SumOver(g, s)}
<1>1. \A x \in S : h[x] \in Int
  OBVIOUS
<1>2. {} \in T
  BY SumEmpty
<1>3. ASSUME NEW s \in SUBSET S, NEW x \in S, s \in T, x \notin s PROVE s \cup {x} \in T
  <2>1. IsFiniteSet(s) /\ \A y \in s \cup {x} : f[y] \in Int /\ g[y] \in Int /\ h[y] \in Int
    BY <1>1, FS_Subset
  <2>2. /\ SumOver(f, s \cup {x}) = f[x] + SumOver(f, s) /\ SumOver(g, s \cup {x}) = g[x] + SumOver(g, s)
        /\ SumOver(h, s \cup {x}) = h[x] + SumOver(h, s)
    BY <1>3, <2>1, SumAdd
  <2>3. f[x] \in Int /\ g[x] \in Int /\ SumOver(f, s) \in Int /\ SumOver(g, s) \in Int /\ h[x] = f[x] + g[x]
    BY <2>1, SumSame
  <2>4. QED  BY <1>3, <2>2, <2>3
<1>4. SUBSET S \subseteq T
  <2> HIDE DEF T
  <2>1. QED  BY <1>2, <1>3, FiniteInduction
<1>5. QED  BY <1>4
=============================================================================

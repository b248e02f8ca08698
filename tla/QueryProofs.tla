----------------------------- MODULE QueryProofs ----------------------------
(***************************************************************************)
(* What is proved about the queries that read the whole graph.              *)
(*                                                                          *)
(* Of `benchmark`, that its median is robust and its verdict unanimous for  *)
(* any readings and any number of runs, and that a baseline is only         *)
(* replaced by a benchmark that ran to its end.  That every place among the *)
(* sorted readings has a value is part of the inductive invariant BenchIInv,*)
(* for the readings arrive one by one, and each finds its place among the   *)
(* others.                                                                  *)
(*                                                                          *)
(* Of the cost model, that cost is conserved and its breakdown adds up.     *)
(* CostIInv says that the components priced so far cost what they spend and *)
(* what they are charged for, all by components with smaller numbers; the   *)
(* rest is accounting: the components are cut in two by their numbers, and  *)
(* what crosses the cut is counted from either side of it.                  *)
(*                                                                          *)
(* Of the campaign, that nothing calls what it offers for removal, and that *)
(* the score of a hotspot counts all that reach it: the worklist of         *)
(* blastRadiusSizes comes to an end, its weight going down with every node  *)
(* that is popped, and holds what has still to be found while it does.      *)
(*                                                                          *)
(* Of the report, that its finding on concentration is exact, for no k      *)
(* nodes spend more than the first k of the ranking, and that its reads are *)
(* sound: to have a cost is to reach measured time, by induction on the     *)
(* number of the component, from the callees up.                            *)
(***************************************************************************)
EXTENDS Report, Benchmark, Campaign, Induction, SequenceTheorems

-----------------------------------------------------------------------------
(* Sorted readings                                                          *)

LEMMA IntervalCount == ASSUME NEW n \in Nat PROVE IsFiniteSet(1 .. n) /\ Cardinality(1 .. n) = n
<1>1. IsFiniteSet(1 .. n) /\ Cardinality(1 .. n) = IF 1 > n THEN 0 ELSE n - 1 + 1
  BY FS_Interval
<1>2. (IF 1 > n THEN 0 ELSE n - 1 + 1) = n
  OBVIOUS
<1>3. QED  BY <1>1, <1>2

UpTo(values, v) == {i \in DOMAIN values : values[i] <= v}

Below(values, v) == {i \in DOMAIN values : values[i] < v}

LEMMA ReadingCounts ==
  ASSUME NEW values \in Seq(Nat)
  PROVE  /\ \A v \in Nat : /\ IsFiniteSet(UpTo(values, v)) /\ IsFiniteSet(Below(values, v))
                           /\ Cardinality(UpTo(values, v)) \in 0 .. Len(values)
                           /\ Cardinality(Below(values, v)) \in 0 .. Len(values)
         /\ \A v, w \in Nat : v < w =>
              /\ Cardinality(UpTo(values, v)) <= Cardinality(Below(values, w))
              /\ Cardinality(UpTo(values, v)) <= Cardinality(UpTo(values, w))
         /\ \A v \in Nat : Cardinality(Below(values, v)) <= Cardinality(UpTo(values, v))
<1>1. /\ Len(values) \in Nat /\ DOMAIN values = 1 .. Len(values)
      /\ \A i \in DOMAIN values : values[i] \in Nat
  OBVIOUS
<1>2. IsFiniteSet(DOMAIN values) /\ Cardinality(DOMAIN values) = Len(values)
  <2>1. PICK n \in Nat : n = Len(values)
    BY <1>1
  <2>2. QED  BY <1>1, <2>1, IntervalCount
<1>3. \A S \in SUBSET DOMAIN values : IsFiniteSet(S) /\ Cardinality(S) \in 0 .. Len(values)
  <2> TAKE S \in SUBSET DOMAIN values
  <2>1. IsFiniteSet(S) /\ Cardinality(S) <= Len(values)
    BY <1>2, FS_Subset
  <2>2. QED  BY <1>1, <2>1, FS_CardinalityType
<1>4. \A S \in SUBSET DOMAIN values : \A T \in SUBSET S : Cardinality(T) <= Cardinality(S)
  BY <1>3, FS_Subset
<1>5. \A v \in Nat : UpTo(values, v) \in SUBSET DOMAIN values /\ Below(values, v) \in SUBSET DOMAIN values
  BY DEF UpTo, Below
<1>6. \A v \in Nat : /\ IsFiniteSet(UpTo(values, v)) /\ IsFiniteSet(Below(values, v))
                     /\ Cardinality(UpTo(values, v)) \in 0 .. Len(values)
                     /\ Cardinality(Below(values, v)) \in 0 .. Len(values)
  BY <1>3, <1>5
<1>7. \A v, w \in Nat : v < w =>
        UpTo(values, v) \in SUBSET Below(values, w) /\ UpTo(values, v) \in SUBSET UpTo(values, w)
  BY <1>1 DEF UpTo, Below
<1>8. \A v \in Nat : Below(values, v) \in SUBSET UpTo(values, v)
  BY <1>1 DEF UpTo, Below
<1>9. QED  BY <1>4, <1>5, <1>6, <1>7, <1>8

\* A reading finds its place among those that are sorted.
LEMMA AppendSortable ==
  ASSUME NEW values \in Seq(Nat), Sortable(values), NEW x \in Nat
  PROVE  Sortable(Append(values, x))
<1> DEFINE new == Append(values, x)
           L(v) == Cardinality(Below(values, v))
           U(v) == Cardinality(UpTo(values, v))
<1>1. PICK n \in Nat : n = Len(values) /\ DOMAIN values = 1 .. n
  OBVIOUS
<1>2. /\ new \in Seq(Nat) /\ DOMAIN new = 1 .. n + 1 /\ new[n + 1] = x
      /\ \A i \in 1 .. n : new[i] = values[i] /\ values[i] \in Nat
  BY <1>1, AppendProperties
<1>3. /\ \A v \in Nat : L(v) \in 0 .. n /\ U(v) \in 0 .. n /\ L(v) <= U(v)
      /\ \A v, w \in Nat : v < w => U(v) <= L(w) /\ U(v) <= U(w)
  BY <1>1, ReadingCounts
<1>4. \A v \in Nat : /\ Cardinality(UpTo(new, v)) = U(v) + (IF x <= v THEN 1 ELSE 0)
                     /\ Cardinality(Below(new, v)) = L(v) + (IF x < v THEN 1 ELSE 0)
  <2> TAKE v \in Nat
  <2>1. /\ IsFiniteSet(UpTo(values, v)) /\ n + 1 \notin UpTo(values, v)
        /\ IsFiniteSet(Below(values, v)) /\ n + 1 \notin Below(values, v)
    <3>1. n + 1 \notin 1 .. n
      BY <1>1
    <3>2. QED  BY <1>1, <3>1, ReadingCounts DEF UpTo, Below
  <2>2. /\ UpTo(new, v) = IF x <= v THEN UpTo(values, v) \cup {n + 1} ELSE UpTo(values, v)
        /\ Below(new, v) = IF x < v THEN Below(values, v) \cup {n + 1} ELSE Below(values, v)
    <3> HIDE DEF new
    <3>1. 1 .. n + 1 = (1 .. n) \cup {n + 1}
      BY <1>1
    <3>2. QED  BY <1>1, <1>2, <3>1 DEF UpTo, Below
  <2>3. /\ Cardinality(UpTo(values, v) \cup {n + 1}) = U(v) + 1
        /\ Cardinality(Below(values, v) \cup {n + 1}) = L(v) + 1
    BY <2>1, FS_AddElement
  <2>4. U(v) \in Nat /\ L(v) \in Nat
    <3> HIDE DEF U, L
    <3>1. L(v) \in 0 .. n /\ U(v) \in 0 .. n
      BY <1>3
    <3>2. QED  BY <1>1, <3>1
  <2> HIDE DEF new, U, L
  <2>5. CASE x <= v
    <3>1. Cardinality(UpTo(new, v)) = U(v) + 1
      BY <2>2, <2>3, <2>5
    <3>2. QED  BY <2>2, <2>3, <2>4, <2>5, <3>1 DEF L
  <2>6. CASE ~(x <= v)
    <3>1. Cardinality(UpTo(new, v)) = U(v) /\ ~(x < v)
      BY <2>2, <2>6 DEF U
    <3>2. QED  BY <2>2, <2>4, <2>6, <3>1 DEF L
  <2>7. QED  BY <2>5, <2>6
<1>5. Range(values) \subseteq Nat /\ Range(new) = Range(values) \cup {x}
  <2> HIDE DEF new
  <2>1. 1 .. n + 1 = (1 .. n) \cup {n + 1}
    BY <1>1
  <2>2. Range(values) = {values[i] : i \in 1 .. n} /\ Range(new) = {new[i] : i \in 1 .. n + 1}
    BY <1>1, <1>2 DEF Range
  <2>3. Range(values) \subseteq Nat
    BY <1>2, <2>2
  <2>4. {new[i] : i \in 1 .. n + 1} = {new[i] : i \in 1 .. n} \cup {x}
    BY <1>2, <2>1
  <2>5. {new[i] : i \in 1 .. n} = {values[i] : i \in 1 .. n}
    BY <1>2
  <2>6. QED  BY <2>2, <2>3, <2>4, <2>5
<1>6. \A k \in 1 .. n : \E v \in Range(values) : L(v) < k /\ U(v) >= k
  BY <1>1 DEF Sortable, IsKth, UpTo, Below
<1>7. ASSUME NEW k \in 1 .. n + 1
      PROVE  \E v \in Range(values) \cup {x} :
               /\ L(v) + (IF x < v THEN 1 ELSE 0) < k
               /\ U(v) + (IF x <= v THEN 1 ELSE 0) >= k
  <2> HIDE DEF new, L, U
  <2>0. L(x) \in 0 .. n /\ U(x) \in 0 .. n /\ L(x) <= U(x)
    BY <1>3
  <2>1. CASE k = 1 /\ n = 0
    <3>1. L(x) < k /\ U(x) + 1 >= k
      BY <1>1, <2>0, <2>1
    <3>2. QED  BY <1>1, <2>0, <3>1
  <2>2. CASE k > 1
    <3>1. PICK w \in Range(values) : L(w) < k - 1 /\ U(w) >= k - 1
      BY <1>6, <2>2
    <3>2. w \in Nat /\ L(w) \in 0 .. n /\ U(w) \in 0 .. n
      BY <1>3, <1>5
    <3>3. CASE x <= w
      <4>1. L(w) + (IF x < w THEN 1 ELSE 0) < k /\ U(w) + (IF x <= w THEN 1 ELSE 0) >= k
        BY <1>1, <3>1, <3>2, <3>3
      <4>2. QED  BY <4>1
    <3>4. CASE w < x /\ k = n + 1
      <4>1. U(w) <= U(x)
        BY <1>3, <3>2, <3>4
      <4>2. L(x) < k /\ U(x) + 1 >= k
        BY <1>1, <2>0, <3>1, <3>2, <3>4, <4>1
      <4>3. QED  BY <1>1, <2>0, <4>2
    <3>5. CASE w < x /\ k \in 1 .. n
      <4>1. PICK v \in Range(values) : L(v) < k /\ U(v) >= k
        BY <1>6, <3>5
      <4>2. v \in Nat /\ L(v) \in 0 .. n /\ U(v) \in 0 .. n
        BY <1>3, <1>5
      <4>3. CASE v <= x
        <5>1. L(v) + (IF x < v THEN 1 ELSE 0) < k /\ U(v) + (IF x <= v THEN 1 ELSE 0) >= k
          BY <1>1, <4>1, <4>2, <4>3
        <5>2. QED  BY <5>1
      <4>4. CASE x < v
        <5>1. U(w) <= U(x) /\ U(x) <= L(v)
          BY <1>3, <3>2, <3>5, <4>2, <4>4
        <5>2. U(x) >= k - 1 /\ L(x) < k
          <6>1. \A lx, ux, lv, uw \in 0 .. n :
                  /\ lx <= ux /\ ux <= lv /\ uw <= ux /\ uw >= k - 1 /\ lv < k
                  => ux >= k - 1 /\ lx < k
            BY <1>1
          <6>2. QED  BY <2>0, <3>1, <3>2, <4>1, <4>2, <5>1, <6>1
        <5>3. L(x) + (IF x < x THEN 1 ELSE 0) < k /\ U(x) + (IF x <= x THEN 1 ELSE 0) >= k
          <6>1. x <= x /\ ~(x < x)
            OBVIOUS
          <6>2. L(x) < k /\ U(x) + 1 >= k
            BY <1>1, <2>0, <5>2
          <6>3. L(x) + 0 = L(x)
            BY <1>1, <2>0
          <6>4. QED  BY <6>1, <6>2, <6>3
        <5>4. QED  BY <5>3
      <4>5. QED  BY <4>2, <4>3, <4>4
    <3>6. QED  BY <3>2, <3>3, <3>4, <3>5
  <2>3. CASE k = 1 /\ n > 0
    <3>1. PICK v \in Range(values) : L(v) < k /\ U(v) >= k
      BY <1>6, <2>3
    <3>2. v \in Nat /\ L(v) \in 0 .. n /\ U(v) \in 0 .. n
      BY <1>3, <1>5
    <3>3. CASE v <= x
      <4>1. L(v) + (IF x < v THEN 1 ELSE 0) < k /\ U(v) + (IF x <= v THEN 1 ELSE 0) >= k
        BY <1>1, <3>1, <3>2, <3>3
      <4>2. QED  BY <4>1
    <3>4. CASE x < v
      <4>1. U(x) <= L(v)
        BY <1>3, <3>2, <3>4
      <4>2. L(x) < k /\ U(x) + 1 >= k
        BY <1>1, <2>0, <2>3, <3>1, <3>2, <4>1
      <4>3. QED  BY <1>1, <2>0, <4>2
    <3>5. QED  BY <3>2, <3>3, <3>4
  <2>4. QED  BY <1>1, <2>1, <2>2, <2>3
<1>8. \A k \in 1 .. n + 1, v \in Range(new) :
        IsKth(new, k, v) <=> /\ L(v) + (IF x < v THEN 1 ELSE 0) < k
                             /\ U(v) + (IF x <= v THEN 1 ELSE 0) >= k
  <2> HIDE DEF new, L, U
  <2>1. \A v \in Range(new) : v \in Nat
    BY <1>5
  <2>2. QED  BY <1>4, <2>1 DEF IsKth, UpTo, Below
<1>9. QED
  <2> HIDE DEF new, L, U
  <2>1. QED  BY <1>2, <1>5, <1>7, <1>8 DEF Sortable, new

LEMMA KthIs ==
  ASSUME NEW values \in Seq(Nat), Sortable(values), NEW k \in 1 .. Len(values)
  PROVE  /\ Kth(values, k) \in Range(values) /\ Kth(values, k) \in Nat
         /\ Cardinality(Below(values, Kth(values, k))) < k
         /\ Cardinality(UpTo(values, Kth(values, k))) >= k
<1>1. \E v \in Range(values) : IsKth(values, k, v)
  <2>1. k \in DOMAIN values
    OBVIOUS
  <2>2. QED  BY <2>1 DEF Sortable
<1>2. Kth(values, k) \in Range(values) /\ IsKth(values, k, Kth(values, k))
  BY <1>1 DEF Kth
<1>3. Range(values) \subseteq Nat
  BY DEF Range
<1>4. QED  BY <1>2, <1>3 DEF IsKth, Below, UpTo

\* The first and the last of the sorted readings.
LEMMA Extremes ==
  ASSUME NEW values \in Seq(Nat), Sortable(values), Len(values) > 0
  PROVE  /\ Min(Range(values)) \in Nat /\ Max(Range(values)) \in Nat
         /\ \A v \in Range(values) : Min(Range(values)) <= v /\ v <= Max(Range(values))
<1>1. PICK n \in Nat \ {0} : n = Len(values) /\ DOMAIN values = 1 .. n
  OBVIOUS
<1>2. Range(values) \subseteq Nat /\ \A i \in 1 .. n : values[i] \in Nat
  BY <1>1 DEF Range
<1>3. \A v \in Range(values) : Kth(values, 1) <= v
  <2>1. /\ Kth(values, 1) \in Nat /\ Cardinality(Below(values, Kth(values, 1))) < 1
    BY <1>1, KthIs
  <2>2. Below(values, Kth(values, 1)) = {}
    <3>1. /\ IsFiniteSet(Below(values, Kth(values, 1)))
          /\ Cardinality(Below(values, Kth(values, 1))) \in 0 .. n
      BY <1>1, <2>1, ReadingCounts
    <3>2. Cardinality(Below(values, Kth(values, 1))) = 0
      BY <2>1, <3>1
    <3>3. QED  BY <3>1, <3>2, FS_EmptySet
  <2>3. \A i \in 1 .. n : ~(values[i] < Kth(values, 1))
    BY <1>1, <2>2 DEF Below
  <2>4. QED  BY <1>1, <1>2, <2>1, <2>3 DEF Range
<1>4. \A v \in Range(values) : v <= Kth(values, n)
  <2>1. /\ Kth(values, n) \in Nat /\ Cardinality(UpTo(values, Kth(values, n))) >= n
    BY <1>1, KthIs
  <2>2. UpTo(values, Kth(values, n)) = 1 .. n
    <3>1. IsFiniteSet(1 .. n) /\ Cardinality(1 .. n) = n
      BY <1>1, IntervalCount
    <3>2. /\ UpTo(values, Kth(values, n)) \in SUBSET (1 .. n)
          /\ Cardinality(UpTo(values, Kth(values, n))) \in 0 .. n
      BY <1>1, <2>1, ReadingCounts DEF UpTo
    <3>3. Cardinality(UpTo(values, Kth(values, n))) = n
      BY <1>1, <2>1, <3>2
    <3>4. QED  BY <3>1, <3>2, <3>3, FS_Subset
  <2>3. \A i \in 1 .. n : values[i] <= Kth(values, n)
    BY <1>1, <2>2 DEF UpTo
  <2>4. QED  BY <1>1, <2>3 DEF Range
<1>5. /\ Kth(values, 1) \in Range(values) /\ Kth(values, n) \in Range(values)
      /\ Kth(values, 1) \in Nat /\ Kth(values, n) \in Nat
  BY <1>1, KthIs
<1>6. Min(Range(values)) = Kth(values, 1)
  <2>1. \A x \in Range(values) : (\A y \in Range(values) : x <= y) => x = Kth(values, 1)
    BY <1>2, <1>3, <1>5
  <2>2. QED  BY <1>3, <1>5, <2>1 DEF Min
<1>7. Max(Range(values)) = Kth(values, n)
  <2>1. \A x \in Range(values) : (\A y \in Range(values) : x >= y) => x = Kth(values, n)
    BY <1>2, <1>4, <1>5
  <2>2. \A y \in Range(values) : Kth(values, n) >= y
    BY <1>2, <1>4, <1>5
  <2>3. QED  BY <1>5, <2>1, <2>2 DEF Max
<1>8. QED  BY <1>3, <1>4, <1>5, <1>6, <1>7

\* The median is one of the readings or between two of them, and half of them are
\* on either side.
LEMMA MedianMiddle ==
  ASSUME NEW values \in Seq(Nat), Sortable(values), Len(values) > 0
  PROVE  \E a, b \in Range(values) :
           /\ a \in Nat /\ b \in Nat /\ a <= b /\ Median2(values) = a + b
           /\ 2 * Cardinality(UpTo(values, a)) >= Len(values)
           /\ 2 * Cardinality(Below(values, b)) <= Len(values)
           /\ Len(values) >= 3 => /\ Cardinality(UpTo(values, a)) >= 2
                                  /\ Cardinality(Below(values, b)) <= Len(values) - 2
<1>1. PICK n \in Nat \ {0} : n = Len(values)
  OBVIOUS
<1>2. PICK mid \in Nat : mid = n \div 2 /\ (n = 2 * mid \/ n = 2 * mid + 1) /\ (n % 2 = 1 <=> n = 2 * mid + 1)
  <2>1. n \div 2 \in Nat /\ n % 2 \in 0 .. 1
    OBVIOUS
  <2>2. n = (n \div 2) * 2 + (n % 2)
    OBVIOUS
  <2>3. n % 2 = 0 \/ n % 2 = 1
    BY <2>1
  <2>4. QED  BY <2>1, <2>2, <2>3
<1>3. \A v \in Nat : Cardinality(UpTo(values, v)) \in 0 .. n /\ Cardinality(Below(values, v)) \in 0 .. n
  BY <1>1, ReadingCounts
<1>4. CASE n = 2 * mid + 1
  <2> DEFINE a == Kth(values, mid + 1)
  <2>1. mid + 1 \in 1 .. n
    BY <1>1, <1>2, <1>4
  <2>2. /\ a \in Range(values) /\ a \in Nat /\ Cardinality(Below(values, a)) < mid + 1
        /\ Cardinality(UpTo(values, a)) >= mid + 1
    BY <1>1, <2>1, KthIs
  <2>3. Median2(values) = 2 * a
    BY <1>1, <1>2, <1>4 DEF Median2
  <2> HIDE DEF a
  <2>4. a + a = 2 * a
    BY <2>2
  <2>5. /\ 2 * Cardinality(UpTo(values, a)) >= n /\ 2 * Cardinality(Below(values, a)) <= n
        /\ n >= 3 => Cardinality(UpTo(values, a)) >= 2 /\ Cardinality(Below(values, a)) <= n - 2
    <3>1. Cardinality(UpTo(values, a)) \in 0 .. n /\ Cardinality(Below(values, a)) \in 0 .. n
      BY <1>3, <2>2
    <3>2. \A u, l \in 0 .. n : u >= mid + 1 /\ l < mid + 1 =>
            2 * u >= n /\ 2 * l <= n /\ (n >= 3 => u >= 2 /\ l <= n - 2)
      BY <1>4, mid \in Nat
    <3>3. QED  BY <2>2, <3>1, <3>2
  <2>6. QED  BY <1>1, <2>2, <2>3, <2>4, <2>5
<1>5. CASE n = 2 * mid
  <2> DEFINE a == Kth(values, mid)
             b == Kth(values, mid + 1)
  <2>1. mid \in 1 .. n /\ mid + 1 \in 1 .. n
    BY <1>1, <1>2, <1>5
  <2>2. /\ a \in Range(values) /\ a \in Nat /\ Cardinality(Below(values, a)) < mid
        /\ Cardinality(UpTo(values, a)) >= mid
    BY <1>1, <2>1, KthIs
  <2>3. /\ b \in Range(values) /\ b \in Nat /\ Cardinality(Below(values, b)) < mid + 1
        /\ Cardinality(UpTo(values, b)) >= mid + 1
    BY <1>1, <2>1, KthIs
  <2>4. Median2(values) = a + b
    BY <1>1, <1>2, <1>5 DEF Median2
  <2> HIDE DEF a, b
  <2>5. a <= b
    <3>1. ASSUME b < a PROVE FALSE
      <4>1. Cardinality(UpTo(values, b)) <= Cardinality(Below(values, a))
        BY <2>2, <2>3, <3>1, ReadingCounts
      <4>2. Cardinality(UpTo(values, b)) \in 0 .. n /\ Cardinality(Below(values, a)) \in 0 .. n
        BY <1>3, <2>2, <2>3
      <4>3. QED  BY <1>2, <2>2, <2>3, <4>1, <4>2
    <3>2. QED  BY <2>2, <2>3, <3>1
  <2>6. /\ 2 * Cardinality(UpTo(values, a)) >= n /\ 2 * Cardinality(Below(values, b)) <= n
        /\ n >= 3 => Cardinality(UpTo(values, a)) >= 2 /\ Cardinality(Below(values, b)) <= n - 2
    <3>1. Cardinality(UpTo(values, a)) \in 0 .. n /\ Cardinality(Below(values, b)) \in 0 .. n
      BY <1>3, <2>2, <2>3
    <3>2. \A u, l \in 0 .. n : u >= mid /\ l < mid + 1 =>
            2 * u >= n /\ 2 * l <= n /\ (n >= 3 => u >= 2 /\ l <= n - 2)
      BY <1>5, mid \in Nat
    <3>3. QED  BY <2>2, <2>3, <3>1, <3>2
  <2>7. QED  BY <1>1, <2>2, <2>3, <2>4, <2>5, <2>6
<1>6. QED  BY <1>2, <1>4, <1>5

LEMMA SummaryIs ==
  ASSUME NEW values \in Seq(Nat), Sortable(values), Len(values) > 0
  PROVE  /\ Median2(values) \in Nat /\ Spread(values) \in Nat
         /\ \A v \in Range(values) : /\ Median2(values) - 2 * v <= 2 * Spread(values)
                                     /\ 2 * v - Median2(values) <= 2 * Spread(values)
<1>1. PICK a \in Range(values), b \in Range(values) : a \in Nat /\ b \in Nat /\ Median2(values) = a + b
  BY MedianMiddle
<1>2. PICK low \in Nat, high \in Nat :
        /\ low = Min(Range(values)) /\ high = Max(Range(values))
        /\ \A v \in Range(values) : low <= v /\ v <= high
  BY Extremes
<1>3. Spread(values) = high - low
  BY <1>2 DEF Spread
<1>4. \A v \in Range(values) : v \in Nat
  BY DEF Range
<1>5. low <= a /\ a <= high /\ low <= b /\ b <= high
  BY <1>1, <1>2
<1>6. ASSUME NEW v \in Range(values)
      PROVE  /\ Median2(values) - 2 * v <= 2 * Spread(values)
             /\ 2 * v - Median2(values) <= 2 * Spread(values)
  <2>1. v \in Nat /\ low <= v /\ v <= high
    BY <1>2, <1>4
  <2>2. a + b - 2 * v <= 2 * (high - low) /\ 2 * v - (a + b) <= 2 * (high - low)
    <3>1. \A p \in Nat : low <= p /\ p <= high => p - v <= high - low /\ v - p <= high - low
      BY <1>2, <2>1
    <3>2. PICK d \in Int : d = high - low
      BY <1>2
    <3>3. a - v <= d /\ v - a <= d /\ b - v <= d /\ v - b <= d
      BY <1>1, <1>5, <3>1, <3>2
    <3>4. a + b - 2 * v <= 2 * d /\ 2 * v - (a + b) <= 2 * d
      BY <1>1, <2>1, <3>2, <3>3
    <3>5. QED  BY <3>2, <3>4
  <2>3. QED  BY <1>1, <1>3, <2>2
<1>7. Median2(values) \in Nat /\ Spread(values) \in Nat
  BY <1>1, <1>2, <1>3, <1>5
<1>8. QED  BY <1>6, <1>7

\* Of two or more there are two.
LEMMA TwoOf ==
  ASSUME NEW T, IsFiniteSet(T), Cardinality(T) >= 2 PROVE \E j, k \in T : j # k
<1>1. Cardinality(T) \in Nat /\ Cardinality(T) # 0
  BY FS_CardinalityType
<1>2. PICK j \in T : TRUE
  BY <1>1, FS_EmptySet
<1>3. Cardinality(T \ {j}) = Cardinality(T) - 1 /\ IsFiniteSet(T \ {j})
  BY <1>2, FS_RemoveElement
<1>4. T \ {j} # {}
  BY <1>1, <1>3, FS_EmptySet
<1>5. QED  BY <1>2, <1>4

\* No reading takes the median outside of the range of the others.
LEMMA MedianRobust ==
  ASSUME NEW values \in Seq(Nat), Sortable(values), Len(values) >= 3, NEW i \in DOMAIN values
  PROVE  \E j, k \in DOMAIN values \ {i} :
           2 * values[j] <= Median2(values) /\ Median2(values) <= 2 * values[k]
<1>1. PICK n \in Nat \ {0} : n = Len(values) /\ DOMAIN values = 1 .. n /\ n >= 3
  OBVIOUS
<1>2. PICK a \in Nat, b \in Nat :
        /\ a <= b /\ Median2(values) = a + b
        /\ Cardinality(UpTo(values, a)) >= 2 /\ Cardinality(Below(values, b)) <= n - 2
  BY <1>1, MedianMiddle
<1>3. /\ IsFiniteSet(UpTo(values, a)) /\ IsFiniteSet(Below(values, b))
      /\ Cardinality(Below(values, b)) \in 0 .. n
  BY <1>1, <1>2, ReadingCounts
<1>4. PICK j \in UpTo(values, a) : j # i
  <2>1. IsFiniteSet(UpTo(values, a)) /\ Cardinality(UpTo(values, a)) >= 2
    BY <1>2, <1>3
  <2>2. PICK u \in UpTo(values, a), w \in UpTo(values, a) : u # w
    BY <2>1, TwoOf
  <2>3. QED  BY <2>2
<1>5. PICK k \in (1 .. n) \ Below(values, b) : k # i
  <2>1. IsFiniteSet(1 .. n) /\ Cardinality(1 .. n) = n
    BY <1>1, IntervalCount
  <2>2. (1 .. n) \cap Below(values, b) = Below(values, b)
    BY <1>1 DEF Below
  <2>3. /\ IsFiniteSet((1 .. n) \ Below(values, b))
        /\ Cardinality((1 .. n) \ Below(values, b)) = n - Cardinality(Below(values, b))
    <3>1. /\ IsFiniteSet((1 .. n) \ Below(values, b))
          /\ Cardinality((1 .. n) \ Below(values, b))
               = Cardinality(1 .. n) - Cardinality((1 .. n) \cap Below(values, b))
      BY <2>1, FS_Difference
    <3>2. QED  BY <2>1, <2>2, <3>1
  <2>4. Cardinality((1 .. n) \ Below(values, b)) >= 2
    BY <1>1, <1>2, <1>3, <2>3
  <2>5. PICK u \in (1 .. n) \ Below(values, b), w \in (1 .. n) \ Below(values, b) : u # w
    BY <2>3, <2>4, TwoOf
  <2>6. QED  BY <2>5
<1>6. /\ j \in DOMAIN values /\ k \in DOMAIN values /\ values[j] \in Nat /\ values[k] \in Nat
      /\ values[j] <= a /\ b <= values[k]
  <2>1. \A l \in DOMAIN values : values[l] \in Nat
    BY <1>1
  <2>2. j \in DOMAIN values /\ values[j] <= a
    BY <1>4 DEF UpTo
  <2>3. k \in DOMAIN values /\ ~(values[k] < b)
    BY <1>1, <1>5 DEF Below
  <2>4. QED  BY <1>2, <2>1, <2>2, <2>3
<1>7. 2 * values[j] <= Median2(values) /\ Median2(values) <= 2 * values[k]
  <2>1. \A u, w \in Nat : u <= a /\ b <= w => 2 * u <= a + b /\ a + b <= 2 * w
    BY <1>2
  <2>2. QED  BY <1>2, <1>6, <2>1
<1>8. QED  BY <1>4, <1>5, <1>6, <1>7

-----------------------------------------------------------------------------
(* The inductive invariant                                                  *)

Verdicts == {"unchanged", "improved", "regressed", None}

Reports == [stats : [median2 : Nat, spread : Nat], verdict : Verdicts]

Benches == [pc : {"idle", "resolve", "profile", "report", "close"},
            by : Metrics, runs : RunCounts \cup {0}, save : BOOLEAN,
            against : Baseline \cup {None}, target : Nat \cup {None}, values : Seq(Nat),
            report : Reports \cup {None}]

LEMMA BenchTypeIs ==
  BenchTypeOK <=> /\ matches \in Graphs
                  /\ DOMAIN runtime = DOMAIN matches
                  /\ \A n \in DOMAIN matches : IsReading(runtime[n])
                  /\ baseline \in Baseline \cup {None}
                  /\ bm \in Benches
                  /\ bm.pc \in {"profile", "report"} => bm.target \in DOMAIN matches
                  /\ measured \in Seq(Measurements \cup {Unsampled})
  BY DEF BenchTypeOK, Benches, Reports, Verdicts

LEMMA BenchTypeNext ==
  BenchTypeOK' <=> /\ matches' \in Graphs
                   /\ DOMAIN runtime' = DOMAIN matches'
                   /\ \A n \in DOMAIN matches' : IsReading(runtime'[n])
                   /\ baseline' \in Baseline \cup {None}
                   /\ bm' \in Benches
                   /\ bm'.pc \in {"profile", "report"} => bm'.target \in DOMAIN matches'
                   /\ measured' \in Seq(Measurements \cup {Unsampled})
  BY DEF BenchTypeOK, IsReading, Benches, Reports, Verdicts

LEMMA RunsPositive == \A runs \in RunCounts : runs \in Nat /\ runs > 0
<1> TAKE runs \in RunCounts
<1>1. runs \in 1 .. 50
  BY BenchmarkAssumption
<1>2. QED  BY <1>1

LEMMA EmptySortable == Sortable(<<>>) /\ <<>> \in Seq(Nat)
  BY DEF Sortable

LEMMA BenchStarts == BenchInit => BenchIInv
<1> SUFFICES ASSUME BenchInit PROVE BenchIInv
  OBVIOUS
<1>1. bm \in Benches /\ bm.pc = "idle" /\ bm.values = <<>>
  BY DEF BenchInit, IdleBench, Benches, Metrics
<1>2. BenchTypeOK
  BY <1>1, BenchTypeIs DEF BenchInit, IsReading, Unsampled
<1>3. QED  BY <1>1, <1>2, EmptySortable DEF BenchIInv

LEMMA StartKeeps ==
  ASSUME BenchIInv, NEW chosen \in Metrics, NEW runs \in RunCounts, NEW compare \in BOOLEAN,
         NEW save \in BOOLEAN, Start(chosen, runs, compare, save)
  PROVE  BenchIInv'
<1> DEFINE old == IF compare THEN baseline ELSE None
           step == IF compare /\ baseline = None THEN "close" ELSE "resolve"
<1>0. bm' = [pc |-> step, by |-> chosen, runs |-> runs, save |-> save, against |-> old,
             target |-> None, values |-> <<>>, report |-> None]
  BY DEF Start, IdleBench
<1>1. /\ bm' \in Benches /\ bm'.pc \in {"resolve", "close"} /\ bm'.values = <<>>
      /\ bm'.runs = runs
  <2>1. old \in Baseline \cup {None} /\ step \in {"resolve", "close"}
    BY BenchTypeIs DEF BenchIInv
  <2> HIDE DEF old, step
  <2>2. QED  BY <1>0, <2>1, EmptySortable DEF Benches
<1>2. BenchTypeOK'
  BY <1>1, BenchTypeIs, BenchTypeNext DEF Start, BenchIInv
<1>3. QED  BY <1>1, <1>2, EmptySortable DEF Start, BenchIInv

\* The target resolveTarget chooses is a row of the graph.
LEMMA ResolvedIsMatch ==
  ASSUME NEW S \in SUBSET DOMAIN matches, Resolved(S) # None PROVE Resolved(S) \in DOMAIN matches
<1>1. Exact(S) \subseteq S
  BY DEF Exact
<1>2. ASSUME NEW T, Cardinality(T) = 1 PROVE T # {}
  BY <1>2, FS_EmptySet
<1>3. CASE Cardinality(Exact(S)) = 1
  BY <1>1, <1>2, <1>3 DEF Resolved
<1>4. CASE Cardinality(Exact(S)) # 1 /\ Cardinality(S) = 1
  BY <1>2, <1>4 DEF Resolved
<1>5. QED  BY <1>3, <1>4 DEF Resolved

LEMMA ResolveKeeps == ASSUME BenchIInv, ResolveTarget PROVE BenchIInv'
<1>1. matches \in Graphs /\ bm \in Benches /\ bm.pc = "resolve" /\ Len(bm.values) = 0
      /\ bm.values = <<>> /\ measured = <<>>
  BY BenchTypeIs DEF BenchIInv, ResolveTarget
<1>2. DOMAIN matches \subseteq Nat
  BY <1>1 DEF Graphs
<1>3. Resolved(Found) # None => Resolved(Found) \in DOMAIN matches
  BY ResolvedIsMatch DEF Found
<1>4. Resolved(Found) \in Nat \cup {None}
  BY <1>2, <1>3
<1>5. /\ bm'.pc = IF Resolved(Found) = None THEN "close" ELSE "profile"
      /\ bm'.target = Resolved(Found) /\ bm'.values = <<>> /\ bm'.runs = bm.runs
      /\ bm' \in Benches
  BY <1>1, <1>4 DEF ResolveTarget, Benches
<1>6. UNCHANGED <<matches, runtime, baseline, measured>>
  BY DEF ResolveTarget
<1>7. BenchTypeOK'
  BY <1>3, <1>5, <1>6, BenchTypeIs, BenchTypeNext DEF BenchIInv
<1>8. QED  BY <1>1, <1>5, <1>6, <1>7, EmptySortable DEF BenchIInv

LEMMA ProfileKeeps ==
  ASSUME BenchIInv, NEW m \in Measurements \cup {Unsampled}, ProfileRun(m) PROVE BenchIInv'
<1>1. /\ bm \in Benches /\ bm.pc = "profile" /\ bm.target \in DOMAIN matches
      /\ DOMAIN runtime = DOMAIN matches /\ \A n \in DOMAIN matches : IsReading(runtime[n])
      /\ bm.values \in Seq(Nat) /\ measured \in Seq(Measurements \cup {Unsampled})
      /\ Sortable(bm.values) /\ Len(measured) = Len(bm.values) /\ bm.by \in Metrics
  BY BenchTypeIs DEF BenchIInv, ProfileRun, Benches
<1>2. DOMAIN runtime' = DOMAIN matches /\ \A n \in DOMAIN matches : IsReading(runtime'[n])
  <2>1. IsReading(m)
    BY BenchmarkAssumption DEF IsReading, Unsampled
  <2>2. IsReading(Remeasured(runtime[bm.target], m))
    BY <1>1, <2>1 DEF IsReading, Remeasured
  <2> DEFINE r == Remeasured(runtime[bm.target], m)
  <2>3. runtime' = [runtime EXCEPT ![bm.target] = r]
    BY DEF ProfileRun
  <2> HIDE DEF r
  <2>4. QED  BY <1>1, <2>2, <2>3 DEF r
<1> DEFINE x == ReadMetric(runtime'[bm.target], bm.by)
<1>3. x \in Nat
  <2>1. \A c : Cost(runtime'[bm.target], c) \in Nat
    BY <1>1, <1>2 DEF Cost, IsReading
  <2>2. QED  BY <2>1 DEF ReadMetric
<1>4. bm' = [bm EXCEPT !.values = Append(bm.values, x)]
  BY DEF ProfileRun
<1> HIDE DEF x
<1>5. Append(bm.values, x) \in Seq(Nat) /\ Len(Append(bm.values, x)) = Len(bm.values) + 1
  BY <1>1, <1>3
<1>6. /\ bm' \in Benches /\ bm'.values = Append(bm.values, x) /\ bm'.pc = "profile"
      /\ bm'.target = bm.target /\ bm'.runs = bm.runs
  BY <1>1, <1>4, <1>5 DEF Benches
<1>7. measured' \in Seq(Measurements \cup {Unsampled}) /\ Len(measured') = Len(measured) + 1
  BY <1>1 DEF ProfileRun
<1>8. UNCHANGED <<matches, baseline>>
  BY DEF ProfileRun
<1>9. BenchTypeOK'
  BY <1>1, <1>2, <1>6, <1>7, <1>8, BenchTypeIs, BenchTypeNext DEF BenchIInv
<1>10. Sortable(bm'.values)
  BY <1>1, <1>3, <1>6, AppendSortable
<1>11. Len(measured') = Len(bm'.values)
  BY <1>1, <1>5, <1>6, <1>7
<1>12. QED  BY <1>1, <1>6, <1>9, <1>10, <1>11 DEF BenchIInv

LEMMA DirectionIs == ASSUME NEW d \in Int, NEW s \in Int PROVE Direction(d, s) \in Verdicts
  BY DEF Direction, Verdicts

LEMMA ReportKeeps == ASSUME BenchIInv, Report PROVE BenchIInv'
<1>1. /\ bm \in Benches /\ bm.pc = "profile" /\ bm.runs \in RunCounts
      /\ bm.values \in Seq(Nat) /\ Sortable(bm.values) /\ Len(bm.values) = bm.runs
      /\ bm.against \in Baseline \cup {None}
  BY BenchTypeIs DEF BenchIInv, Report, Benches
<1>2. Len(bm.values) > 0
  BY <1>1, RunsPositive
<1> DEFINE stats == Summarize(bm.values)
           verdict == IF bm.against = None THEN None
                      ELSE Direction(stats.median2 - bm.against.median2, stats.spread)
<1>3. stats \in [median2 : Nat, spread : Nat]
  BY <1>1, <1>2, SummaryIs DEF Summarize
<1>4. bm' = [bm EXCEPT !.pc = "report", !.report = [stats |-> stats, verdict |-> verdict]]
  BY DEF Report
<1> HIDE DEF stats
<1>5. verdict \in Verdicts
  <2>1. CASE bm.against = None
    BY <2>1 DEF Verdicts
  <2>2. CASE bm.against \in Baseline
    <3>1. bm.against.median2 \in Int /\ stats.median2 \in Int /\ stats.spread \in Int
      BY <1>3, <2>2 DEF Baseline
    <3>2. stats.median2 - bm.against.median2 \in Int
      BY <3>1
    <3>3. Direction(stats.median2 - bm.against.median2, stats.spread) \in Verdicts
      BY <3>1, <3>2, DirectionIs
    <3>4. QED  BY <3>3 DEF Verdicts
  <2>3. QED  BY <1>1, <2>1, <2>2
<1>6. /\ bm'.pc = "report" /\ bm'.values = bm.values /\ bm'.runs = bm.runs /\ bm'.target = bm.target
      /\ bm'.against = bm.against /\ bm'.report = [stats |-> stats, verdict |-> verdict]
  BY <1>1, <1>4 DEF Benches
<1> HIDE DEF verdict
<1>7. bm' \in Benches
  <2>1. [stats |-> stats, verdict |-> verdict] \in Reports
    BY <1>3, <1>5 DEF Reports
  <2>2. QED  BY <1>1, <1>4, <2>1 DEF Benches
<1>8. UNCHANGED <<matches, runtime, baseline, measured>>
  BY DEF Report
<1>9. BenchTypeOK'
  BY <1>1, <1>6, <1>7, <1>8, BenchTypeIs, BenchTypeNext DEF BenchIInv
<1>10. /\ bm'.report.stats = Summarize(bm'.values)
       /\ bm'.report.verdict = verdict
  BY <1>6 DEF stats
<1>11. verdict = IF bm'.against = None THEN None
                 ELSE Direction(bm'.report.stats.median2 - bm'.against.median2, bm'.report.stats.spread)
  BY <1>6 DEF verdict
<1>12. QED  BY <1>1, <1>6, <1>8, <1>9, <1>10, <1>11 DEF BenchIInv

LEMMA SaveKeeps == ASSUME BenchIInv, SaveBaseline PROVE BenchIInv'
<1>1. /\ bm \in Benches /\ bm.pc = "report" /\ bm.runs \in RunCounts /\ bm.by \in Metrics
      /\ bm.values \in Seq(Nat) /\ Sortable(bm.values) /\ Len(bm.values) = bm.runs
  BY BenchTypeIs DEF BenchIInv, SaveBaseline, Benches
<1>2. Len(bm.values) > 0
  BY <1>1, RunsPositive
<1>3. [by |-> bm.by, median2 |-> Median2(bm.values), runs |-> Len(bm.values)] \in Baseline
  BY <1>1, <1>2, SummaryIs DEF Baseline
<1>4. baseline' \in Baseline \cup {None}
  BY <1>3, BenchTypeIs DEF SaveBaseline, BenchIInv
<1>5. bm' \in Benches /\ bm'.pc = "close" /\ bm'.values = bm.values /\ bm'.runs = bm.runs
  BY <1>1 DEF SaveBaseline, Benches
<1>6. UNCHANGED <<matches, runtime, measured>>
  BY DEF SaveBaseline
<1>7. BenchTypeOK'
  BY <1>4, <1>5, <1>6, BenchTypeIs, BenchTypeNext DEF BenchIInv
<1>8. QED  BY <1>1, <1>5, <1>7 DEF BenchIInv

LEMMA EndsKeep == ASSUME BenchIInv, WorkloadFails \/ Close PROVE BenchIInv'
<1>1. /\ bm \in Benches /\ Sortable(bm.values) /\ bm.pc # "idle" /\ bm.runs \in RunCounts
  BY BenchTypeIs DEF BenchIInv, WorkloadFails, Close
<1>2. bm' \in Benches /\ bm'.pc \in {"close", "idle"} /\ bm'.values = bm.values /\ bm'.runs = bm.runs
  BY <1>1 DEF WorkloadFails, Close, Benches
<1>3. UNCHANGED <<matches, runtime, baseline, measured>>
  BY DEF WorkloadFails, Close
<1>4. BenchTypeOK'
  BY <1>2, <1>3, BenchTypeIs, BenchTypeNext DEF BenchIInv
<1>5. QED  BY <1>1, <1>2, <1>4 DEF BenchIInv

LEMMA RebuildKeeps == ASSUME BenchIInv, Rebuild PROVE BenchIInv'
<1>1. bm.pc = "idle" /\ UNCHANGED <<baseline, bm, measured>> /\ matches' \in Graphs
  BY DEF Rebuild
<1>2. DOMAIN runtime' = DOMAIN matches' /\ \A n \in DOMAIN matches' : IsReading(runtime'[n])
  BY DEF Rebuild, IsReading, Unsampled
<1>3. BenchTypeOK'
  BY <1>1, <1>2, BenchTypeIs, BenchTypeNext DEF BenchIInv
<1>4. QED  BY <1>1, <1>3 DEF BenchIInv

LEMMA BenchStep == BenchIInv /\ [BenchNext]_benchVars => BenchIInv'
<1> SUFFICES ASSUME BenchIInv, [BenchNext]_benchVars PROVE BenchIInv'
  OBVIOUS
<1>1. CASE \E chosen \in Metrics, runs \in RunCounts, compare, save \in BOOLEAN :
             Start(chosen, runs, compare, save)
  BY <1>1, StartKeeps
<1>2. CASE ResolveTarget
  BY <1>2, ResolveKeeps
<1>3. CASE \E m \in Measurements \cup {Unsampled} : ProfileRun(m)
  BY <1>3, ProfileKeeps
<1>4. CASE WorkloadFails \/ Close
  BY <1>4, EndsKeep
<1>5. CASE Report
  BY <1>5, ReportKeeps
<1>6. CASE SaveBaseline
  BY <1>6, SaveKeeps
<1>7. CASE Rebuild
  BY <1>7, RebuildKeeps
<1>8. CASE UNCHANGED benchVars
  BY <1>8 DEF benchVars, BenchIInv, BenchTypeOK
<1>9. QED  BY <1>1, <1>2, <1>3, <1>4, <1>5, <1>6, <1>7, <1>8 DEF BenchNext

-----------------------------------------------------------------------------
LEMMA BenchInvariant == BenchSpec => []BenchIInv
  BY BenchStarts, BenchStep, PTL DEF BenchSpec

(***************************************************************************)
(* benchmark.md: the median is "robust to the odd slow run": whatever the   *)
(* readings of node_benchmark.ts, as soon as there are three, none of them  *)
(* takes it outside of the range of the others.                             *)
(***************************************************************************)
THEOREM MedianIsRobust == BenchSpec => []Robust
<1>1. BenchIInv => Robust
  <2> SUFFICES ASSUME BenchIInv, bm.pc = "report", bm.runs >= 3, NEW i \in 1 .. bm.runs
               PROVE  \E j, k \in (1 .. bm.runs) \ {i} :
                        /\ 2 * bm.values[j] <= bm.report.stats.median2
                        /\ bm.report.stats.median2 <= 2 * bm.values[k]
    BY DEF Robust
  <2>1. /\ bm.values \in Seq(Nat) /\ Sortable(bm.values) /\ Len(bm.values) = bm.runs
        /\ bm.report.stats = Summarize(bm.values)
    BY BenchTypeIs DEF BenchIInv, Benches
  <2>2. bm.report.stats.median2 = Median2(bm.values)
    BY <2>1 DEF Summarize
  <2>3. DOMAIN bm.values = 1 .. bm.runs
    BY <2>1
  <2>4. Len(bm.values) >= 3 /\ i \in DOMAIN bm.values
    BY <2>1, <2>3
  <2>5. \E j, k \in DOMAIN bm.values \ {i} :
          2 * bm.values[j] <= Median2(bm.values) /\ Median2(bm.values) <= 2 * bm.values[k]
    BY <2>1, <2>4, MedianRobust
  <2>6. QED  BY <2>2, <2>3, <2>5
<1>2. QED  BY <1>1, BenchInvariant, PTL

(***************************************************************************)
(* A verdict of BenchmarkStats.direction is not noise: when it is           *)
(* "improved" or "regressed", each reading by itself is on that side of the *)
(* median that was saved.                                                   *)
(***************************************************************************)
THEOREM VerdictUnanimous == BenchSpec => []VerdictIsUnanimous
<1>1. BenchIInv => VerdictIsUnanimous
  <2> SUFFICES ASSUME BenchIInv, bm.pc = "report", NEW i \in 1 .. bm.runs
               PROVE  /\ bm.report.verdict = "regressed" => 2 * bm.values[i] > bm.against.median2
                      /\ bm.report.verdict = "improved" => 2 * bm.values[i] < bm.against.median2
    BY DEF VerdictIsUnanimous
  <2>1. /\ bm.values \in Seq(Nat) /\ Sortable(bm.values) /\ Len(bm.values) = bm.runs
        /\ bm.runs \in RunCounts /\ bm.against \in Baseline \cup {None}
        /\ bm.report.stats = Summarize(bm.values)
    BY BenchTypeIs DEF BenchIInv, Benches
  <2>2. CASE bm.against = None
    <3>1. bm.report.verdict = None
      BY <2>2 DEF BenchIInv
    <3>2. QED  BY <3>1, BenchmarkAssumption
  <2>3. CASE bm.against # None
    <3>1. PICK a \in Nat : a = bm.against.median2
      BY <2>1, <2>3 DEF Baseline
    <3>2. Len(bm.values) > 0
      BY <2>1, RunsPositive
    <3>3. PICK median \in Nat, spread \in Nat :
            median = Median2(bm.values) /\ spread = Spread(bm.values)
      BY <2>1, <3>2, SummaryIs
    <3>4. bm.values[i] \in Nat /\ bm.values[i] \in Range(bm.values)
      BY <2>1 DEF Range
    <3>5. median - 2 * bm.values[i] <= 2 * spread /\ 2 * bm.values[i] - median <= 2 * spread
      BY <2>1, <3>2, <3>3, <3>4, SummaryIs
    <3>6. bm.report.verdict = Direction(median - a, spread)
      BY <2>1, <2>3, <3>1, <3>3 DEF BenchIInv, Summarize
    <3>7. /\ Direction(median - a, spread) = "regressed" => median - a > 2 * spread
          /\ Direction(median - a, spread) = "improved" => median - a < - (2 * spread)
      BY <3>1, <3>3 DEF Direction
    <3>8. \A v \in Nat : /\ median - 2 * v <= 2 * spread /\ median - a > 2 * spread => 2 * v > a
                         /\ 2 * v - median <= 2 * spread /\ median - a < - (2 * spread) => 2 * v < a
      BY <3>1, <3>3
    <3>9. QED  BY <3>1, <3>4, <3>5, <3>6, <3>7, <3>8
  <2>4. QED  BY <2>2, <2>3
<1>2. QED  BY <1>1, BenchInvariant, PTL

(***************************************************************************)
(* The baseline file is only written by a benchmark all of whose runs       *)
(* completed, and what it then holds is the median that was reported.       *)
(***************************************************************************)
THEOREM BaselineIsMeasured == BenchSpec => BaselineOnlyFromFullRun
<1> DEFINE Measured == baseline' # baseline => /\ bm.save /\ Len(measured) = bm.runs
                                               /\ baseline'.median2 = bm.report.stats.median2
<1>1. BenchIInv /\ [BenchNext]_benchVars => [Measured]_benchVars
  <2> SUFFICES ASSUME BenchIInv, [BenchNext]_benchVars, baseline' # baseline PROVE Measured
    OBVIOUS
  <2>1. SaveBaseline
    BY DEF BenchNext, benchVars, Start, ResolveTarget, ProfileRun, WorkloadFails, Report, Close, Rebuild
  <2>2. /\ bm.pc = "report" /\ bm.save
        /\ baseline' = [by |-> bm.by, median2 |-> Median2(bm.values), runs |-> Len(bm.values)]
    BY <2>1 DEF SaveBaseline
  <2>3. /\ Len(measured) = Len(bm.values) /\ Len(bm.values) = bm.runs
        /\ bm.report.stats = Summarize(bm.values)
    BY <2>2 DEF BenchIInv
  <2>4. QED  BY <2>2, <2>3 DEF Summarize
<1>2. QED  BY <1>1, BenchInvariant, PTL DEF BenchSpec, BaselineOnlyFromFullRun


-----------------------------------------------------------------------------
(* The components and their numbers                                         *)

LEMMA SccOfAgain ==
  ASSUME NEW g, NEW v \in Node
  PROVE  v \in SccOf(g, v) /\ \A u \in SccOf(g, v) : SccOf(g, u) = SccOf(g, v)
<1>1. \A a, b, c : Mutual(g, a, b) /\ Mutual(g, b, c) => Mutual(g, a, c)
  BY DEF Mutual, Reaches
<1>2. \A a, b : Mutual(g, a, b) <=> Mutual(g, b, a)
  BY DEF Mutual
<1>3. Mutual(g, v, v)
  BY DEF Mutual, Reaches
<1>4. \A u \in SccOf(g, v) : \A x : Mutual(g, x, u) <=> Mutual(g, x, v)
  BY <1>1, <1>2 DEF SccOf
<1>5. QED  BY <1>3, <1>4 DEF SccOf

LEMMA SccStarts == SccInit => SccIInv
BY DEF SccInit, SccIInv, Numbered

LEMMA NumberKeeps ==
  ASSUME SccIInv, NEW w \in Node, Number(SccOf(succ, w))
  PROVE  SccIInv'
<1> DEFINE C == SccOf(succ, w)
<1>1. w \in C /\ C \subseteq Node /\ \A u \in C : SccOf(succ, u) = C
  BY SccOfAgain DEF SccOf
<1> HIDE DEF C
<1>2. /\ C \cap Numbered = {} /\ \A v \in C : succ[v] \subseteq C \cup Numbered
      /\ componentOf' = [v \in Node |-> IF v \in C THEN componentCount ELSE componentOf[v]]
      /\ componentCount' = componentCount + 1 /\ succ' = succ
  BY DEF Number, C
<1>3. /\ succ \in Graph /\ componentCount \in Nat /\ componentOf \in [Node -> -1 .. componentCount - 1]
      /\ \A c \in 0 .. componentCount - 1 : \E v \in Node : componentOf[v] = c
      /\ \A u \in Numbered : {v \in Node : componentOf[v] = componentOf[u]} = SccOf(succ, u)
      /\ \A u \in Numbered : \A v \in succ[u] : v \in Numbered /\ componentOf[v] <= componentOf[u]
  BY DEF SccIInv
<1>4. \A v \in Node : componentOf[v] < componentCount /\ componentOf'[v] \in -1 .. componentCount
  BY <1>2, <1>3
<1>5. /\ \A v \in C : componentOf'[v] = componentCount
      /\ \A v \in Numbered : v \in Node /\ v \notin C /\ componentOf'[v] = componentOf[v]
  BY <1>1, <1>2 DEF Numbered
<1>6. Numbered' = Numbered \cup C
  BY <1>1, <1>2, <1>3 DEF Numbered
<1>7. \A c \in 0 .. componentCount' - 1 : \E v \in Node : componentOf'[v] = c
  <2> TAKE c \in 0 .. componentCount' - 1
  <2>1. CASE c = componentCount
    BY <1>1, <1>5, <2>1
  <2>2. CASE c # componentCount
    <3>1. c \in 0 .. componentCount - 1
      BY <1>2, <1>3, <2>2
    <3>2. PICK v \in Node : componentOf[v] = c
      BY <1>3, <3>1
    <3>3. v \in Numbered
      BY <3>1, <3>2 DEF Numbered
    <3>4. QED  BY <1>5, <3>2, <3>3
  <2>3. QED  BY <2>1, <2>2
<1>8. \A u \in Numbered \cup C : {v \in Node : componentOf'[v] = componentOf'[u]} = SccOf(succ, u)
  <2> TAKE u \in Numbered \cup C
  <2>1. CASE u \in C
    <3>1. \A v \in Node : componentOf'[v] = componentCount <=> v \in C
      BY <1>2, <1>3, <1>4
    <3>2. QED  BY <1>1, <1>5, <2>1, <3>1
  <2>2. CASE u \in Numbered
    <3>1. \A v \in Node : componentOf'[v] = componentOf[u] <=> componentOf[v] = componentOf[u]
      BY <1>2, <1>3, <1>4, <1>5, <2>2 DEF Numbered
    <3>2. QED  BY <1>3, <1>5, <2>2, <3>1
  <2>3. QED  BY <2>1, <2>2
<1>9. \A u \in Numbered \cup C : \A v \in succ[u] : v \in Numbered \cup C /\ componentOf'[v] <= componentOf'[u]
  <2> TAKE u \in Numbered \cup C
  <2> TAKE v \in succ[u]
  <2>1. CASE u \in C
    <3>1. v \in Numbered \cup C /\ v \in Node
      BY <1>1, <1>2, <2>1 DEF Numbered
    <3>2. componentOf'[v] \in -1 .. componentCount /\ componentOf'[u] = componentCount
      BY <1>4, <1>5, <2>1, <3>1
    <3>3. QED  BY <1>3, <3>1, <3>2
  <2>2. CASE u \in Numbered
    BY <1>3, <1>5, <2>2
  <2>3. QED  BY <2>1, <2>2
<1>10. componentOf' \in [Node -> -1 .. componentCount' - 1] /\ componentCount' \in Nat
  BY <1>2, <1>3, <1>4
<1>11. QED  BY <1>2, <1>3, <1>6, <1>7, <1>8, <1>9, <1>10 DEF SccIInv

\* There is no component without a node, so there are no more than nodes.
LEMMA ComponentsAreFew == SccIInv => componentCount \in 0 .. N
<1> SUFFICES ASSUME SccIInv PROVE componentCount \in 0 .. N
  OBVIOUS
<1> DEFINE K == 0 .. componentCount - 1
           f == [c \in K |-> CHOOSE v \in Node : componentOf[v] = c]
<1>1. componentCount \in Nat /\ \A c \in K : \E v \in Node : componentOf[v] = c
  BY DEF SccIInv
<1>2. \A c \in K : f[c] \in Node /\ componentOf[f[c]] = c
  BY <1>1
<1>3. f \in Injection(K, Node)
  <2>1. f \in [K -> Node]
    BY <1>2
  <2>2. \A a, b \in K : f[a] = f[b] => a = b
    BY <1>2
  <2> HIDE DEF f, K
  <2>3. QED  BY <2>1, <2>2 DEF Injection, IsInjective
<1> HIDE DEF f
<1>4. IsFiniteSet(Node) /\ Cardinality(Node) = N
  BY NAssumption, FS_Interval DEF Node
<1>5. IsFiniteSet(K) /\ Cardinality(K) = componentCount
  BY <1>1, FS_Interval
<1> HIDE DEF K
<1>6. Cardinality(K) <= Cardinality(Node)
  BY <1>3, <1>4, FS_Injection
<1>7. QED  BY <1>1, <1>4, <1>5, <1>6, NAssumption

-----------------------------------------------------------------------------
(* What it costs                                                            *)

LEMMA CostTypes ==
  ASSUME CostIInv
  PROVE  /\ IsFiniteSet(Node) /\ IsFiniteSet(Edges(succ)) /\ IsFiniteSet(Crossing)
         /\ Crossing \subseteq Edges(succ) /\ Edges(succ) \subseteq Node \X Node
         /\ Unit \in Nat /\ Unit > 0
         /\ componentOf \in [Node -> -1 .. componentCount - 1] /\ componentCount \in 0 .. N
         /\ \A c \in 0 .. componentCount - 1 : c \in Node /\ inclusive[c] \in Nat
         /\ \A e \in Edges(succ) : weight[e] \in Nat /\ e[1] \in Node /\ e[2] \in Node
         /\ \A v \in Node : self[v] \in Nat
<1>1. IsFiniteSet(Node)
  BY NAssumption, FS_Interval DEF Node
<1>2. IsFiniteSet(Node \X Node)
  BY <1>1, FS_Product
<1>3. Edges(succ) \subseteq Node \X Node /\ Crossing \subseteq Edges(succ)
  BY DEF Edges, Crossing
<1>4. IsFiniteSet(Edges(succ)) /\ IsFiniteSet(Crossing)
  BY <1>2, <1>3, FS_Subset
<1>5. SccIInv /\ weight \in [Edges(succ) -> Nat] /\ self \in [Node -> Nat] /\ inclusive \in [Node -> Nat]
  BY DEF CostIInv
<1>6. componentCount \in 0 .. N /\ componentOf \in [Node -> -1 .. componentCount - 1]
  BY <1>5, ComponentsAreFew DEF SccIInv
<1>7. \A c \in 0 .. componentCount - 1 : c \in Node
  BY <1>6, NAssumption DEF Node
<1>8. \A e \in Edges(succ) : e[1] \in Node /\ e[2] \in Node
  BY <1>3
<1>9. Unit \in Nat /\ Unit > 0
  BY CostAssumption
<1>10. QED  BY <1>1, <1>3, <1>4, <1>5, <1>6, <1>7, <1>8, <1>9

LEMMA Inbound ==
  ASSUME CostIInv, NEW v
  PROVE  /\ ExternalInbound(v) = SumOver(weight, {e \in Crossing : e[2] = v})
         /\ ExternalInbound(v) \in Nat
<1>1. ExternalInbound(v) = SumOver(weight, {e \in Crossing : e[2] = v})
  BY DEF ExternalInbound, SumOver
<1>2. IsFiniteSet({e \in Crossing : e[2] = v}) /\ \A e \in Crossing : weight[e] \in Nat
  BY CostTypes, FS_Subset
<1>3. QED  BY <1>1, <1>2, SumNat

LEMMA QuotientIsNat ==
  ASSUME NEW a \in Nat, NEW b \in Nat, b > 0 PROVE a \div b \in Nat
OBVIOUS

LEMMA FlowIs ==
  ASSUME CostIInv, NEW e \in Crossing, componentOf[e[2]] # -1
  PROVE  Flow[e] \in Nat
         /\ Flow[e] = IF ExternalInbound(e[2]) > 0
                      THEN (inclusive[componentOf[e[2]]] * weight[e]) \div ExternalInbound(e[2]) ELSE 0
<1>1. Flow[e] = IF ExternalInbound(e[2]) > 0
                THEN (inclusive[componentOf[e[2]]] * weight[e]) \div ExternalInbound(e[2]) ELSE 0
  BY DEF Flow
<1>2. e \in Edges(succ) /\ e[2] \in Node /\ weight[e] \in Nat
  BY CostTypes
<1>3. componentOf[e[2]] \in 0 .. componentCount - 1
  BY <1>2, CostTypes
<1>4. inclusive[componentOf[e[2]]] \in Nat
  BY <1>3, CostTypes
<1>5. inclusive[componentOf[e[2]]] * weight[e] \in Nat
  BY <1>2, <1>4
<1>6. ExternalInbound(e[2]) \in Nat
  BY Inbound
<1>7. QED  BY <1>1, <1>5, <1>6, QuotientIsNat

\* The sums of which a price is made.
LEMMA CostsAre ==
  ASSUME NEW C PROVE OwnCost(C) = Unit * SumOver(self, C)
                     /\ Outflow(C) = SumOver(Flow, {e \in Crossing : e[1] \in C})
BY DEF OwnCost, Outflow, SumOver

LEMMA CostStarts == Init => CostIInv
<1> SUFFICES ASSUME Init PROVE CostIInv
  OBVIOUS
<1>1. SccInit /\ SccIInv
  BY SccStarts DEF Init
<1>2. weight \in [Edges(succ) -> Nat] /\ self \in [Node -> Nat]
  BY CostAssumption DEF Init
<1>3. inclusive \in [Node -> Nat] /\ priced = 0 /\ componentCount = 0
  BY <1>1 DEF Init, SccInit
<1>4. QED  BY <1>1, <1>2, <1>3 DEF CostIInv

LEMMA CollapseKeeps == ASSUME CostIInv, Collapse PROVE CostIInv'
<1>1. PICK w \in Node : Number(SccOf(succ, w))
  BY DEF Collapse, SccNext
<1>2. SccIInv /\ priced \in 0 .. componentCount /\ componentCount \in Nat
  BY DEF CostIInv, SccIInv
<1>3. SccIInv'
  BY <1>1, <1>2, NumberKeeps
<1>4. w \notin Numbered
  BY <1>1, SccOfAgain DEF Number
<1>5. priced = 0
  BY <1>4 DEF CostIInv
<1>6. weight' = weight /\ self' = self /\ inclusive' = inclusive /\ priced' = 0 /\ succ' = succ
      /\ componentCount' = componentCount + 1
  BY <1>1, <1>5 DEF Collapse, Number
<1>7. weight' \in [Edges(succ)' -> Nat] /\ self' \in [Node -> Nat] /\ inclusive' \in [Node -> Nat]
  BY <1>6 DEF CostIInv, Edges
<1>8. QED  BY <1>2, <1>3, <1>6, <1>7 DEF CostIInv

\* What crosses leads to a component with a smaller number.
LEMMA CrossingDescends ==
  ASSUME CostIInv, Numbered = Node
  PROVE  /\ \A v \in Node : componentOf[v] \in 0 .. componentCount - 1
         /\ \A e \in Crossing : /\ componentOf[e[1]] \in 0 .. componentCount - 1
                                /\ componentOf[e[2]] \in 0 .. componentCount - 1
                                /\ componentOf[e[2]] < componentOf[e[1]]
<1>1. \A v \in Node : componentOf[v] \in 0 .. componentCount - 1
  <2> TAKE v \in Node
  <2>1. componentOf[v] # -1
    BY DEF Numbered
  <2>2. QED  BY <2>1, CostTypes
<1>2. ASSUME NEW e \in Crossing PROVE componentOf[e[2]] < componentOf[e[1]] /\ e[1] \in Node /\ e[2] \in Node
  <2>1. e[1] \in Node /\ e[2] \in Node /\ e[2] \in succ[e[1]] /\ componentOf[e[1]] # componentOf[e[2]]
    BY CostTypes DEF Crossing, Edges
  <2>2. componentOf[e[2]] <= componentOf[e[1]]
    BY <2>1 DEF CostIInv, SccIInv
  <2>3. QED  BY <1>1, <2>1, <2>2, CostTypes
<1>3. QED  BY <1>1, <1>2

LEMMA PriceIsNat ==
  ASSUME CostIInv, Numbered = Node, NEW C \in SUBSET Node
  PROVE  /\ OwnCost(C) \in Nat /\ Outflow(C) \in Nat
         /\ \A e \in Crossing : Flow[e] \in Nat
<1>1. IsFiniteSet(C) /\ \A v \in C : self[v] \in Nat
  BY CostTypes, FS_Subset
<1>2. SumOver(self, C) \in Nat
  BY <1>1, SumNat
<1>3. OwnCost(C) \in Nat
  <2>1. PICK s \in Nat : s = SumOver(self, C)
    BY <1>2
  <2>2. OwnCost(C) = Unit * s /\ Unit \in Nat
    BY <2>1, CostsAre, CostTypes
  <2>3. QED  BY <2>2
<1>4. \A e \in Crossing : Flow[e] \in Nat
  <2> TAKE e \in Crossing
  <2>1. componentOf[e[2]] # -1
    BY CrossingDescends
  <2>2. QED  BY <2>1, FlowIs
<1>5. IsFiniteSet({e \in Crossing : e[1] \in C})
  BY CostTypes, FS_Subset
<1>6. SumOver(Flow, {e \in Crossing : e[1] \in C}) \in Nat
  BY <1>4, <1>5, SumNat
<1>7. QED  BY <1>3, <1>4, <1>6, CostsAre

\* What is priced later does not change what has been paid for.
LEMMA PriceKeeps == ASSUME CostIInv, Price PROVE CostIInv'
<1>1. /\ Numbered = Node /\ priced < componentCount /\ priced \in 0 .. componentCount
      /\ inclusive' = [inclusive EXCEPT ![priced] = OwnCost(Members(priced)) + Outflow(Members(priced))]
      /\ priced' = priced + 1
      /\ succ' = succ /\ componentOf' = componentOf /\ componentCount' = componentCount
      /\ weight' = weight /\ self' = self
  BY DEF Price, CostIInv, sccVars
<1>2. priced \in 0 .. componentCount - 1 /\ componentCount \in Nat
  BY <1>1, CostTypes
<1>3. OwnCost(Members(priced)) + Outflow(Members(priced)) \in Nat
  BY <1>1, PriceIsNat DEF Members
<1>4. /\ inclusive' \in [Node -> Nat]
      /\ inclusive'[priced] = OwnCost(Members(priced)) + Outflow(Members(priced))
      /\ \A c \in 0 .. componentCount - 1 : c # priced => inclusive'[c] = inclusive[c]
  <2>1. inclusive \in [Node -> Nat] /\ priced \in Node /\ \A c \in 0 .. componentCount - 1 : c \in Node
    BY <1>2, CostTypes DEF CostIInv
  <2>2. QED  BY <1>1, <1>3, <2>1
<1>5. SccIInv' /\ Numbered' = Numbered /\ Crossing' = Crossing /\ Edges(succ)' = Edges(succ)
  BY <1>1 DEF CostIInv, SccIInv, Numbered, Crossing, Edges
<1>6. \A v : ExternalInbound(v)' = ExternalInbound(v)
  BY <1>1, <1>5 DEF ExternalInbound, MapThenSumSet, MapThenFoldSet
<1>7. \A c : Members(c)' = Members(c) /\ OwnCost(Members(c))' = OwnCost(Members(c))
  BY <1>1 DEF Members, OwnCost, MapThenSumSet, MapThenFoldSet
<1>8. ASSUME NEW c \in 0 .. priced PROVE Outflow(Members(c))' = Outflow(Members(c))
  <2> DEFINE S == {e \in Crossing : e[1] \in Members(c)}
  <2>1. \A e \in S : Flow[e] \in Int /\ Flow'[e] = Flow[e]
    <3> TAKE e \in S
    <3>1. e \in Crossing /\ componentOf[e[1]] = c
      BY DEF Members
    <3>2. componentOf[e[2]] \in 0 .. componentCount - 1 /\ componentOf[e[2]] # priced /\ componentOf[e[2]] # -1
      BY <1>1, <3>1, CrossingDescends
    <3>3. inclusive'[componentOf[e[2]]] = inclusive[componentOf[e[2]]]
      BY <1>4, <3>2
    <3>4. Flow'[e] = Flow[e]
      BY <1>1, <1>5, <1>6, <3>1, <3>3 DEF Flow
    <3>5. Flow[e] \in Nat
      BY <3>1, <3>2, FlowIs
    <3>6. QED  BY <3>4, <3>5
  <2>2. IsFiniteSet(S)
    BY CostTypes, FS_Subset
  <2>3. {e \in Crossing' : e[1] \in Members(c)'} = S
    BY <1>5, <1>7
  <2> HIDE DEF S
  <2> DEFINE g == Flow'
  <2>4. \A e \in S : Flow[e] = g[e]
    BY <2>1
  <2> HIDE DEF g
  <2>5. SumOver(Flow, S) = SumOver(g, S)
    BY <2>1, <2>2, <2>4, SumSame
  <2>6. Outflow(Members(c)) = SumOver(Flow, S)
    BY CostsAre DEF S
  <2>7. Outflow(Members(c))' = SumOver(g, S)
    BY <2>3 DEF Outflow, SumOver, g, MapThenSumSet, MapThenFoldSet
  <2>8. QED  BY <2>5, <2>6, <2>7
<1>9. ASSUME NEW c \in 0 .. priced' - 1 PROVE inclusive'[c] = OwnCost(Members(c))' + Outflow(Members(c))'
  <2>1. c \in 0 .. priced /\ c \in 0 .. componentCount - 1
    BY <1>1, <1>2
  <2>2. CASE c = priced
    BY <1>4, <1>7, <1>8, <2>1, <2>2
  <2>3. CASE c # priced
    <3>1. c \in 0 .. priced - 1
      BY <1>1, <2>1, <2>3
    <3>2. inclusive[c] = OwnCost(Members(c)) + Outflow(Members(c))
      BY <3>1 DEF CostIInv
    <3>3. QED  BY <1>4, <1>7, <1>8, <2>1, <2>3, <3>2
  <2>4. QED  BY <2>2, <2>3
<1>10. weight' \in [Edges(succ)' -> Nat] /\ self' \in [Node -> Nat]
  BY <1>1, <1>5 DEF CostIInv
<1>11. priced' \in 0 .. componentCount' /\ (Numbered' # Node => priced' = 0)
  BY <1>1, <1>2, <1>5
<1>12. QED  BY <1>4, <1>5, <1>9, <1>10, <1>11 DEF CostIInv

LEMMA CostStep == CostIInv /\ [Next]_vars => CostIInv'
<1> SUFFICES ASSUME CostIInv, [Next]_vars PROVE CostIInv'
  OBVIOUS
<1>1. CASE Collapse
  BY <1>1, CollapseKeeps
<1>2. CASE Price
  BY <1>2, PriceKeeps
<1>3. CASE UNCHANGED vars
  <2>1. /\ succ' = succ /\ componentOf' = componentOf /\ componentCount' = componentCount
        /\ weight' = weight /\ self' = self /\ inclusive' = inclusive /\ priced' = priced
    BY <1>3 DEF vars, sccVars
  <2>2. SccIInv' /\ Numbered' = Numbered /\ Edges(succ)' = Edges(succ) /\ Crossing' = Crossing
    BY <2>1 DEF CostIInv, SccIInv, Numbered, Edges, Crossing
  <2>3. \A v : ExternalInbound(v)' = ExternalInbound(v)
    BY <2>1, <2>2 DEF ExternalInbound, MapThenSumSet, MapThenFoldSet
  <2>4. Flow' = Flow
    BY <2>1, <2>2, <2>3 DEF Flow
  <2>5. \A c : Members(c)' = Members(c)
    BY <2>1 DEF Members
  <2>6. \A c : OwnCost(Members(c))' = OwnCost(Members(c))
    BY <2>1, <2>5 DEF OwnCost, MapThenSumSet, MapThenFoldSet
  <2>7. ASSUME NEW c PROVE Outflow(Members(c))' = Outflow(Members(c))
    <3>1. {e \in Crossing' : e[1] \in Members(c)'} = {e \in Crossing : e[1] \in Members(c)}
      BY <2>2, <2>5
    <3>2. QED  BY <2>4, <3>1 DEF Outflow, MapThenSumSet, MapThenFoldSet
  <2>8. QED  BY <2>1, <2>2, <2>6, <2>7 DEF CostIInv
<1>4. QED  BY <1>1, <1>2, <1>3 DEF Next

LEMMA CostInvariant == Spec => []CostIInv
BY CostStarts, CostStep, PTL DEF Spec

-----------------------------------------------------------------------------
(* The whole of it                                                          *)

LEMMA Cancels == ASSUME NEW a \in Int, NEW b \in Int, NEW c \in Int, b > 0, b * a = c * b PROVE a = c
OBVIOUS

LEMMA DividesOut ==
  ASSUME NEW p \in Nat, NEW b \in Nat, b > 0, NEW q \in Nat, q = p \div b, p % b = 0 PROVE p = b * q
OBVIOUS

\* A node that is called from outside of its component hands on the cost of it.
LEMMA FlowsOut ==
  ASSUME CostIInv, Numbered = Node, NoRemainder, NEW v \in Node, ExternalInbound(v) > 0
  PROVE  SumOver(Flow, {e \in Crossing : e[2] = v}) = inclusive[componentOf[v]]
<1> DEFINE S == {e \in Crossing : e[2] = v}
           cost == inclusive[componentOf[v]]
           inbound == ExternalInbound(v)
           paid == [e \in S |-> cost * weight[e]]
<1>1. IsFiniteSet(S)
  BY CostTypes, FS_Subset
<1>2. cost \in Nat /\ inbound \in Nat /\ inbound > 0 /\ inbound = SumOver(weight, S)
  BY CrossingDescends, CostTypes, Inbound
<1>3. ASSUME NEW e \in S PROVE weight[e] \in Nat /\ Flow[e] \in Nat /\ inbound * Flow[e] = cost * weight[e]
  <2>1. e \in Crossing /\ e[2] = v /\ weight[e] \in Nat
    BY CostTypes
  <2>2. componentOf[e[2]] # -1
    BY <2>1, CrossingDescends
  <2>3. Flow[e] = (cost * weight[e]) \div inbound /\ Flow[e] \in Nat
    BY <2>1, <2>2, FlowIs
  <2>4. (cost * weight[e]) % inbound = 0
    BY <2>1 DEF NoRemainder
  <2> HIDE DEF cost, inbound
  <2>5. PICK p \in Nat : p = cost * weight[e]
    BY <1>2, <2>1
  <2>6. PICK b \in Nat : b = inbound /\ b > 0
    BY <1>2
  <2>7. PICK q \in Nat : q = Flow[e] /\ q = p \div b /\ p % b = 0
    BY <2>3, <2>4, <2>5, <2>6
  <2>8. p = b * q
    BY <2>5, <2>6, <2>7, DividesOut
  <2>9. QED  BY <2>1, <2>5, <2>6, <2>7, <2>8
<1> HIDE DEF S, cost, inbound
<1>4. \A e \in S : /\ weight[e] \in Int /\ Flow[e] \in Int
                   /\ paid[e] = cost * weight[e] /\ paid[e] = inbound * Flow[e]
  BY <1>3
<1> HIDE DEF paid
<1>5. cost \in Int /\ inbound \in Int
  BY <1>2
<1>6. SumOver(paid, S) = cost * SumOver(weight, S)
  BY <1>1, <1>4, <1>5, SumTimes
<1>7. SumOver(paid, S) = inbound * SumOver(Flow, S)
  BY <1>1, <1>4, <1>5, SumTimes
<1>8. SumOver(Flow, S) \in Nat
  BY <1>1, <1>3, SumNat
<1>9. PICK f \in Int : f = SumOver(Flow, S)
  BY <1>8
<1>10. inbound * f = cost * inbound
  BY <1>2, <1>6, <1>7, <1>9
<1>11. f = cost
  BY <1>2, <1>5, <1>10, Cancels
<1>12. QED  BY <1>9, <1>11 DEF S, cost

\* So a component that is entered through one node at most is charged to those who
\* call it once, or not at all.
LEMMA ChargedOnce ==
  ASSUME CostIInv, Numbered = Node, NoRemainder, NEW c \in 0 .. componentCount - 1, Cardinality(Entries(c)) <= 1
  PROVE  SumOver(Flow, {e \in Crossing : componentOf[e[2]] = c}) = IF Entries(c) = {} THEN 0 ELSE inclusive[c]
<1> DEFINE S == {e \in Crossing : componentOf[e[2]] = c}
<1>1. IsFiniteSet(S) /\ \A e \in S : Flow[e] \in Int
  <2>1. IsFiniteSet(S)
    BY CostTypes, FS_Subset
  <2>2. \A e \in Crossing : Flow[e] \in Nat
    BY PriceIsNat
  <2>3. QED  BY <2>1, <2>2
<1>2. ASSUME NEW e \in S, e[2] \notin Entries(c) PROVE Flow[e] = 0
  <2>1. e \in Crossing /\ e[2] \in Members(c)
    BY CostTypes DEF Members
  <2>2. ~(ExternalInbound(e[2]) > 0) /\ componentOf[e[2]] # -1
    BY <1>2, <2>1, CrossingDescends DEF Entries
  <2>3. QED  BY <2>1, <2>2, FlowIs
<1>3. CASE Entries(c) = {}
  <2>1. \A e \in S \ {} : Flow[e] = 0
    BY <1>2, <1>3
  <2> HIDE DEF S
  <2>2. SumOver(Flow, S) = SumOver(Flow, {})
    BY <1>1, <2>1, SumZeros
  <2>3. SumOver(Flow, S) = 0
    BY <2>2, SumEmpty
  <2>4. QED  BY <1>3, <2>3 DEF S
<1>4. CASE Entries(c) # {}
  <2>1. PICK w : Entries(c) = {w}
    <3>1. Entries(c) \in SUBSET Node /\ IsFiniteSet(Node)
      BY CostTypes DEF Entries, Members
    <3>2. IsFiniteSet(Entries(c))
      BY <3>1, FS_Subset
    <3>3. Cardinality(Entries(c)) \in Nat /\ Cardinality(Entries(c)) # 0
      BY <1>4, <3>2, FS_CardinalityType, FS_EmptySet
    <3>4. Cardinality(Entries(c)) = 1
      BY <3>3
    <3>5. QED  BY <3>2, <3>4, FS_Singleton
  <2>2. w \in Node /\ componentOf[w] = c /\ ExternalInbound(w) > 0
    BY <2>1 DEF Entries, Members
  <2>3. SumOver(Flow, {e \in Crossing : e[2] = w}) = inclusive[c]
    BY <2>2, FlowsOut
  <2>4. {e \in Crossing : e[2] = w} \in SUBSET S
    BY <2>2
  <2>5. \A e \in S \ {e \in Crossing : e[2] = w} : Flow[e] = 0
    BY <1>2, <2>1
  <2> HIDE DEF S
  <2>6. SumOver(Flow, S) = SumOver(Flow, {e \in Crossing : e[2] = w})
    BY <1>1, <2>4, <2>5, SumZeros
  <2>7. QED  BY <1>4, <2>3, <2>6 DEF S
<1>5. QED  BY <1>3, <1>4

\* No component is entered through two of its nodes.
Undivided == \A c \in 0 .. componentCount - 1 : Cardinality(Entries(c)) <= 1

\* The components from the k-th on that nobody outside of them calls.
Roots(k) == {c \in k .. componentCount - 1 : Entries(c) = {}}

\* The nodes of the components from the k-th on.
From(k) == {v \in Node : componentOf[v] >= k}

\* The calls that lead from a component from the k-th on to one before it.
Downward(k) == {e \in Crossing : componentOf[e[1]] >= k /\ componentOf[e[2]] < k}

\* Cut the components in two by their numbers: what nobody pays for on the upper side
\* is what the upper side spends itself and what it is charged by the lower one.
LEMMA CutAt ==
  ASSUME CostIInv, Priced, NoRemainder, Undivided, NEW k \in 0 .. componentCount
  PROVE  SumOver(inclusive, Roots(k)) = OwnCost(From(k)) + SumOver(Flow, Downward(k))
<1> DEFINE K == k .. componentCount - 1
           own == [v \in Node |-> Unit * self[v]]
           spent == [c \in K |-> OwnCost(Members(c))]
           bought == [c \in K |-> Outflow(Members(c))]
           sold == [c \in K |-> SumOver(Flow, {e \in Crossing : componentOf[e[2]] = c})]
           number == [v \in Node |-> componentOf[v]]
           from == [e \in Crossing |-> componentOf[e[1]]]
           to == [e \in Crossing |-> componentOf[e[2]]]
           Buying == {e \in Crossing : componentOf[e[1]] >= k}
           Selling == {e \in Crossing : componentOf[e[2]] >= k}
<1>1. Numbered = Node /\ priced = componentCount /\ componentCount \in Nat /\ k \in Nat
  BY CostTypes DEF Priced
<1>2. /\ IsFiniteSet(K) /\ IsFiniteSet(From(k)) /\ IsFiniteSet(Buying) /\ IsFiniteSet(Selling)
      /\ IsFiniteSet(Downward(k)) /\ IsFiniteSet(Roots(k)) /\ IsFiniteSet(K \ Roots(k))
  <2>1. IsFiniteSet(K)
    BY <1>1, FS_Interval
  <2>2. Roots(k) \in SUBSET K /\ K \ Roots(k) \in SUBSET K
    BY DEF Roots
  <2>3. From(k) \in SUBSET Node /\ Buying \in SUBSET Crossing /\ Selling \in SUBSET Crossing
        /\ Downward(k) \in SUBSET Crossing
    BY DEF From, Downward
  <2> HIDE DEF K, Buying, Selling
  <2>4. QED  BY <2>1, <2>2, <2>3, CostTypes, FS_Subset
<1>3. \A c \in K : c \in 0 .. componentCount - 1 /\ c >= k
  BY <1>1
<1>4. \A v \in Node : componentOf[v] \in Int /\ (componentOf[v] >= k <=> componentOf[v] \in K)
  BY <1>1, CrossingDescends
<1>5. \A e \in Crossing : /\ Flow[e] \in Int /\ e[1] \in Node /\ e[2] \in Node
                          /\ componentOf[e[2]] < componentOf[e[1]]
  <2>1. \A e \in Crossing : Flow[e] \in Nat
    BY <1>1, PriceIsNat
  <2>2. QED  BY <1>1, <2>1, CrossingDescends, CostTypes
<1>6. \A c \in K : inclusive[c] \in Int
  BY <1>3, CostTypes
<1>7. \A c \in K : OwnCost(Members(c)) \in Int /\ Outflow(Members(c)) \in Int
  <2> TAKE c \in K
  <2>1. Members(c) \in SUBSET Node
    BY DEF Members
  <2>2. QED  BY <1>1, <2>1, PriceIsNat
<1>8. \A c \in K : inclusive[c] = spent[c] + bought[c]
  <2> TAKE c \in K
  <2>1. c \in 0 .. priced - 1
    BY <1>1, <1>3
  <2>2. QED  BY <2>1 DEF CostIInv
<1>9. SumOver(inclusive, K) = SumOver(spent, K) + SumOver(bought, K)
  <2>1. \A c \in K : spent[c] \in Int /\ bought[c] \in Int /\ inclusive[c] = spent[c] + bought[c]
    BY <1>7, <1>8
  <2> HIDE DEF K, spent, bought
  <2>2. QED  BY <1>2, <2>1, SumPlus
<1>10. \A C \in SUBSET Node : OwnCost(C) = SumOver(own, C)
  <2> TAKE C \in SUBSET Node
  <2>1. IsFiniteSet(C) /\ Unit \in Int /\ \A v \in C : self[v] \in Int /\ own[v] = Unit * self[v]
    BY CostTypes, FS_Subset
  <2> HIDE DEF own
  <2>2. SumOver(own, C) = Unit * SumOver(self, C)
    BY <2>1, SumTimes
  <2>3. QED  BY <2>2, CostsAre
<1>11. SumOver(spent, K) = OwnCost(From(k))
  <2>1. \A v \in From(k) : v \in Node /\ own[v] \in Int /\ number[v] \in K
    BY <1>4, CostTypes DEF From
  <2>2. \A c \in K : spent[c] = SumOver(own, Fibre(From(k), number, c))
    <3> TAKE c \in K
    <3>1. Members(c) \in SUBSET Node
      BY DEF Members
    <3>2. Fibre(From(k), number, c) = Members(c)
      BY <1>3 DEF Fibre, From, Members
    <3> HIDE DEF own, number
    <3>3. QED  BY <1>10, <3>1, <3>2
  <2>3. From(k) \in SUBSET Node
    BY DEF From
  <2> HIDE DEF K, own, spent, number
  <2>4. SumOver(own, From(k)) = SumOver(spent, K)
    <3>1. IsFiniteSet(From(k)) /\ IsFiniteSet(K)
      BY <1>2
    <3>2. \A v \in From(k) : own[v] \in Int
      BY <2>1
    <3>3. \A v \in From(k) : number[v] \in K
      BY <2>1
    <3>4. QED  BY <2>2, <3>1, <3>2, <3>3, SumFibres
  <2>5. QED  BY <1>10, <2>3, <2>4
<1>12. SumOver(bought, K) = SumOver(Flow, Buying)
  <2>1. \A e \in Buying : Flow[e] \in Int /\ from[e] \in K
    BY <1>4, <1>5
  <2>2. \A c \in K : bought[c] = SumOver(Flow, Fibre(Buying, from, c))
    <3> TAKE c \in K
    <3>1. Fibre(Buying, from, c) = {e \in Crossing : e[1] \in Members(c)}
      BY <1>3, <1>5 DEF Fibre, Members
    <3> HIDE DEF Buying, from
    <3>2. QED  BY <3>1, CostsAre
  <2> HIDE DEF K, Buying, bought, from
  <2>3. IsFiniteSet(Buying) /\ IsFiniteSet(K)
    BY <1>2
  <2>4. \A e \in Buying : Flow[e] \in Int
    BY <2>1
  <2>5. \A e \in Buying : from[e] \in K
    BY <2>1
  <2>6. QED  BY <2>2, <2>3, <2>4, <2>5, SumFibres
<1>13. SumOver(sold, K) = SumOver(Flow, Selling)
  <2>1. \A e \in Selling : Flow[e] \in Int /\ to[e] \in K
    BY <1>4, <1>5
  <2>2. \A c \in K : sold[c] = SumOver(Flow, Fibre(Selling, to, c))
    <3> TAKE c \in K
    <3>1. Fibre(Selling, to, c) = {e \in Crossing : componentOf[e[2]] = c}
      BY <1>3 DEF Fibre
    <3> HIDE DEF Selling, to
    <3>2. QED  BY <3>1
  <2> HIDE DEF K, Selling, sold, to
  <2>3. IsFiniteSet(Selling) /\ IsFiniteSet(K)
    BY <1>2
  <2>4. \A e \in Selling : Flow[e] \in Int
    BY <2>1
  <2>5. \A e \in Selling : to[e] \in K
    BY <2>1
  <2>6. QED  BY <2>2, <2>3, <2>4, <2>5, SumFibres
<1>14. SumOver(Flow, Buying) = SumOver(Flow, Selling) + SumOver(Flow, Downward(k))
  <2>1. Buying = Selling \cup Downward(k) /\ Selling \cap Downward(k) = {}
    BY <1>1, <1>4, <1>5 DEF Downward
  <2>2. \A e \in Selling \cup Downward(k) : Flow[e] \in Int
    BY <1>5 DEF Downward
  <2> HIDE DEF Buying, Selling
  <2>3. QED  BY <1>2, <2>1, <2>2, SumUnion
<1>15. \A c \in K : sold[c] = IF Entries(c) = {} THEN 0 ELSE inclusive[c]
  <2> TAKE c \in K
  <2>1. Cardinality(Entries(c)) <= 1
    BY <1>3 DEF Undivided
  <2>2. QED  BY <1>1, <1>3, <2>1, ChargedOnce
<1>16. SumOver(sold, K) = SumOver(inclusive, K \ Roots(k))
  <2>1. \A c \in K \ (K \ Roots(k)) : sold[c] = 0
    BY <1>15 DEF Roots
  <2>2. \A c \in K : sold[c] \in Int
    BY <1>6, <1>15
  <2>3. \A c \in K \ Roots(k) : sold[c] = inclusive[c] /\ sold[c] \in Int
    BY <1>15, <2>2 DEF Roots
  <2>4. K \ Roots(k) \in SUBSET K
    OBVIOUS
  <2> HIDE DEF K, sold
  <2>5. SumOver(sold, K) = SumOver(sold, K \ Roots(k))
    BY <1>2, <2>1, <2>2, <2>4, SumZeros
  <2>6. SumOver(sold, K \ Roots(k)) = SumOver(inclusive, K \ Roots(k))
    BY <1>2, <2>3, SumSame
  <2>7. QED  BY <2>5, <2>6
<1>17. SumOver(inclusive, K) = SumOver(inclusive, Roots(k)) + SumOver(inclusive, K \ Roots(k))
  <2>1. Roots(k) \cap (K \ Roots(k)) = {} /\ Roots(k) \cup (K \ Roots(k)) = K
    BY DEF Roots
  <2> HIDE DEF K
  <2>2. QED  BY <1>2, <1>6, <2>1, SumUnion
<1>18. /\ SumOver(inclusive, Roots(k)) \in Int /\ SumOver(inclusive, K \ Roots(k)) \in Int
       /\ SumOver(Flow, Downward(k)) \in Int /\ OwnCost(From(k)) \in Int
  <2>1. Roots(k) \in SUBSET K /\ From(k) \in SUBSET Node /\ Downward(k) \in SUBSET Crossing
    BY DEF Roots, From, Downward
  <2> HIDE DEF K
  <2>2. SumOver(inclusive, Roots(k)) \in Int /\ SumOver(inclusive, K \ Roots(k)) \in Int
    BY <1>2, <1>6, <2>1, SumSame
  <2>3. SumOver(Flow, Downward(k)) \in Int
    BY <1>2, <1>5, <2>1, SumSame
  <2>4. OwnCost(From(k)) \in Int
    BY <1>1, <2>1, PriceIsNat
  <2>5. QED  BY <2>2, <2>3, <2>4
<1> HIDE DEF K, own, spent, bought, sold, number, from, to, Buying, Selling
<1>19. QED
  <2>1. SumOver(inclusive, Roots(k)) + SumOver(inclusive, K \ Roots(k))
          = OwnCost(From(k)) + (SumOver(inclusive, K \ Roots(k)) + SumOver(Flow, Downward(k)))
    BY <1>9, <1>11, <1>12, <1>13, <1>14, <1>16, <1>17
  <2>2. PICK a \in Int : a = SumOver(inclusive, Roots(k))
    BY <1>18
  <2>3. PICK b \in Int : b = SumOver(inclusive, K \ Roots(k))
    BY <1>18
  <2>4. PICK c \in Int : c = SumOver(Flow, Downward(k))
    BY <1>18
  <2>5. PICK d \in Int : d = OwnCost(From(k))
    BY <1>18
  <2>6. a + b = d + (b + c)
    BY <2>1, <2>2, <2>3, <2>4, <2>5
  <2>7. a = d + c
    BY <2>6
  <2>8. QED  BY <2>2, <2>4, <2>5, <2>7

LEMMA IInvConserves == CostIInv => Conserved
<1> SUFFICES ASSUME CostIInv, Priced, NoRemainder, Undivided
             PROVE  /\ SumOver(inclusive, Roots(0)) = Total
                    /\ \A c \in 0 .. componentCount - 1 : inclusive[c] <= Total
  BY DEF Conserved, Undivided, Roots, SumOver
<1>1. Numbered = Node /\ componentCount \in Nat
  BY CostTypes DEF Priced
<1>2. From(0) = Node /\ Downward(0) = {}
  BY <1>1, CrossingDescends DEF From, Downward
<1>3. OwnCost(Node) \in Nat /\ \A e \in Crossing : Flow[e] \in Nat
  BY <1>1, PriceIsNat
<1>4. SumOver(inclusive, Roots(0)) = Total
  <2>1. SumOver(inclusive, Roots(0)) = OwnCost(Node) + SumOver(Flow, {})
    BY <1>1, <1>2, CutAt
  <2>2. SumOver(Flow, {}) = 0
    BY SumEmpty
  <2>3. QED  BY <1>3, <2>1, <2>2 DEF Total
<1>5. IsFiniteSet(Roots(0)) /\ \A c \in Roots(0) : inclusive[c] \in Nat
  <2>1. IsFiniteSet(0 .. componentCount - 1) /\ Roots(0) \in SUBSET (0 .. componentCount - 1)
    BY <1>1, FS_Interval DEF Roots
  <2>2. IsFiniteSet(Roots(0))
    BY <2>1, FS_Subset
  <2>3. QED  BY <2>1, <2>2, CostTypes
<1>6. \A R \in SUBSET Roots(0) : SumOver(inclusive, R) <= Total /\ SumOver(inclusive, R) \in Nat
  BY <1>4, <1>5, SumNat
<1>7. ASSUME NEW c \in 0 .. componentCount - 1 PROVE inclusive[c] <= Total
  <2>1. CASE Entries(c) = {}
    <3>1. {c} \in SUBSET Roots(0)
      BY <1>1, <2>1 DEF Roots
    <3>2. inclusive[c] \in Int
      BY CostTypes
    <3>3. SumOver(inclusive, {c}) = inclusive[c]
      BY <3>2, SumSingle
    <3>4. QED  BY <1>6, <3>1, <3>3
  <2>2. CASE Entries(c) # {}
    <3> DEFINE k == c + 1
               S == {e \in Crossing : componentOf[e[2]] = c}
    <3>1. k \in 0 .. componentCount /\ Roots(k) \in SUBSET Roots(0)
      BY <1>1 DEF Roots
    <3>2. Cardinality(Entries(c)) <= 1
      BY DEF Undivided
    <3>3. SumOver(Flow, S) = inclusive[c]
      BY <1>1, <2>2, <3>2, ChargedOnce
    <3>4. S \in SUBSET Downward(k)
      BY <1>1, CrossingDescends DEF Downward
    <3>5. Downward(k) \in SUBSET Crossing /\ From(k) \in SUBSET Node
      BY DEF Downward, From
    <3> HIDE DEF S, k
    <3>6. IsFiniteSet(Downward(k)) /\ \A e \in Downward(k) : Flow[e] \in Nat
      BY <1>3, <3>5, CostTypes, FS_Subset
    <3>7. SumOver(Flow, S) <= SumOver(Flow, Downward(k)) /\ SumOver(Flow, S) \in Nat /\ SumOver(Flow, Downward(k)) \in Nat
      BY <3>4, <3>6, SumNat
    <3>8. SumOver(inclusive, Roots(k)) = OwnCost(From(k)) + SumOver(Flow, Downward(k)) /\ OwnCost(From(k)) \in Nat
      BY <1>1, <3>1, <3>5, CutAt, PriceIsNat
    <3>9. SumOver(inclusive, Roots(k)) <= Total /\ SumOver(inclusive, Roots(k)) \in Nat /\ Total \in Nat
      BY <1>3, <1>6, <3>1 DEF Total
    <3>10. QED  BY <3>3, <3>7, <3>8, <3>9
  <2>3. QED  BY <2>1, <2>2
<1>8. QED  BY <1>4, <1>7

\* Cost is conserved whatever the graph, the weights and the self costs: where no
\* cycle is entered twice, what nobody is charged for adds up to the total, and no
\* node answers for more than that (computeCostModel).
THEOREM CostIsConserved == Spec => []Conserved
BY CostInvariant, IInvConserves, PTL

-----------------------------------------------------------------------------
(* The breakdown of one node                                                *)

\* A node's callees, and its callers, are the ends of the edges that cross.
LEMMA EdgeByCallee ==
  ASSUME CostIInv, Priced, NEW v \in Node
  PROVE  SumOf([w \in Callees(v) |-> CalleeAmount(v, w)]) = Outflow({v})
<1> DEFINE S == {e \in Crossing : e[1] \in {v}}
           T == Callees(v)
           g == [e \in Crossing |-> e[2]]
           h == [w \in Callees(v) |-> CalleeAmount(v, w)]
<1>1. Numbered = Node
  BY DEF Priced
<1>2. IsFiniteSet(S) /\ IsFiniteSet(T)
  <2>1. S \in SUBSET Crossing /\ T \in SUBSET Node
    BY CostTypes DEF Callees
  <2> HIDE DEF S, T
  <2>2. QED  BY <2>1, CostTypes, FS_Subset
<1>3. \A e \in Crossing : e = <<e[1], e[2]>> /\ Flow[e] \in Nat
  <2>1. Crossing \subseteq Node \X Node
    BY CostTypes
  <2>2. \A e \in Crossing : Flow[e] \in Nat
    BY <1>1, PriceIsNat
  <2>3. QED  BY <2>1, <2>2
<1>4. \A e \in S : Flow[e] \in Int
  BY <1>3
<1>5. \A e \in S : g[e] \in T
  BY DEF Callees
<1>6. ASSUME NEW w \in T PROVE h[w] = SumOver(Flow, Fibre(S, g, w))
  <2>1. <<v, w>> \in Crossing /\ Fibre(S, g, w) = {<<v, w>>}
    <3>1. PICK e \in Crossing : e[1] = v /\ e[2] = w
      BY DEF Callees
    <3>2. e = <<v, w>>
      BY <1>3, <3>1
    <3>3. \A x \in Crossing : x[1] = v /\ x[2] = w => x = <<v, w>>
      BY <1>3
    <3>4. QED  BY <3>1, <3>2, <3>3 DEF Fibre
  <2>2. Flow[<<v, w>>] \in Int
    BY <1>3, <2>1
  <2>3. SumOver(Flow, {<<v, w>>}) = Flow[<<v, w>>]
    BY <2>2, SumSingle
  <2>4. h[w] = Flow[<<v, w>>]
    BY <2>1 DEF Flow, CalleeAmount, Incl
  <2>5. QED  BY <2>1, <2>3, <2>4
<1>7. \A w \in T : h[w] = SumOver(Flow, Fibre(S, g, w))
  BY <1>6
<1>8. DOMAIN h = T /\ SumOf(h) = SumOver(h, DOMAIN h) /\ Outflow({v}) = SumOver(Flow, S)
  BY CostsAre DEF SumOf, SumOver
<1> HIDE DEF S, T, g, h
<1>9. SumOver(Flow, S) = SumOver(h, T)
  BY <1>2, <1>4, <1>5, <1>7, SumFibres
<1>10. SumOf(h) = Outflow({v})
  BY <1>8, <1>9
<1>11. QED  BY <1>10 DEF h

LEMMA EdgeByCaller ==
  ASSUME CostIInv, Priced, NEW v \in Node
  PROVE  SumOf([u \in CallersOf(v) |-> CallerAmount(v, u)]) = SumOver(Flow, {e \in Crossing : e[2] = v})
<1> DEFINE S == {e \in Crossing : e[2] = v}
           T == CallersOf(v)
           g == [e \in Crossing |-> e[1]]
           h == [u \in CallersOf(v) |-> CallerAmount(v, u)]
<1>1. Numbered = Node
  BY DEF Priced
<1>2. IsFiniteSet(S) /\ IsFiniteSet(T)
  <2>1. S \in SUBSET Crossing /\ T \in SUBSET Node
    BY CostTypes DEF CallersOf
  <2> HIDE DEF S, T
  <2>2. QED  BY <2>1, CostTypes, FS_Subset
<1>3. \A e \in Crossing : e = <<e[1], e[2]>> /\ Flow[e] \in Nat
  <2>1. Crossing \subseteq Node \X Node
    BY CostTypes
  <2>2. \A e \in Crossing : Flow[e] \in Nat
    BY <1>1, PriceIsNat
  <2>3. QED  BY <2>1, <2>2
<1>4. \A e \in S : Flow[e] \in Int
  BY <1>3
<1>5. \A e \in S : g[e] \in T
  BY DEF CallersOf
<1>6. ASSUME NEW u \in T PROVE h[u] = SumOver(Flow, Fibre(S, g, u))
  <2>1. <<u, v>> \in Crossing /\ Fibre(S, g, u) = {<<u, v>>}
    <3>1. PICK e \in Crossing : e[1] = u /\ e[2] = v
      BY DEF CallersOf
    <3>2. e = <<u, v>>
      BY <1>3, <3>1
    <3>3. \A x \in Crossing : x[1] = u /\ x[2] = v => x = <<u, v>>
      BY <1>3
    <3>4. QED  BY <3>1, <3>2, <3>3 DEF Fibre
  <2>2. Flow[<<u, v>>] \in Int
    BY <1>3, <2>1
  <2>3. SumOver(Flow, {<<u, v>>}) = Flow[<<u, v>>]
    BY <2>2, SumSingle
  <2>4. h[u] = Flow[<<u, v>>]
    BY <2>1 DEF Flow, CallerAmount, Incl
  <2>5. QED  BY <2>1, <2>3, <2>4
<1>7. \A u \in T : h[u] = SumOver(Flow, Fibre(S, g, u))
  BY <1>6
<1>8. DOMAIN h = T /\ SumOf(h) = SumOver(h, DOMAIN h)
  BY DEF SumOf, SumOver
<1> HIDE DEF S, T, g, h
<1>9. SumOver(Flow, S) = SumOver(h, T)
  BY <1>2, <1>4, <1>5, <1>7, SumFibres
<1>10. SumOf(h) = SumOver(Flow, S)
  BY <1>8, <1>9
<1>11. QED  BY <1>10 DEF S, h

LEMMA IInvAdds == CostIInv => AttributionAdds
<1> SUFFICES ASSUME CostIInv, Priced, NoRemainder, NEW v \in Node
             PROVE  /\ SccOf(succ, v) = {v} =>
                         Incl(v) = self[v] * Unit + SumOf([w \in Callees(v) |-> CalleeAmount(v, w)])
                    /\ ExternalInbound(v) > 0 =>
                         SumOf([u \in CallersOf(v) |-> CallerAmount(v, u)]) = Incl(v)
                    /\ \A u \in CallersOf(v) : CallerAmount(v, u) = CalleeAmount(u, v)
  BY DEF AttributionAdds
<1>1. Numbered = Node /\ priced = componentCount
  BY DEF Priced
<1>2. componentOf[v] \in 0 .. priced - 1
  BY <1>1, CrossingDescends
<1>3. ASSUME SccOf(succ, v) = {v}
      PROVE  Incl(v) = self[v] * Unit + SumOf([w \in Callees(v) |-> CalleeAmount(v, w)])
  <2>1. Members(componentOf[v]) = {v}
    BY <1>1, <1>3 DEF CostIInv, SccIInv, Members
  <2>2. Incl(v) = OwnCost({v}) + Outflow({v})
    BY <1>2, <2>1 DEF CostIInv, Incl
  <2>3. PICK s \in Nat : s = self[v]
    BY CostTypes
  <2>4. SumOver(self, {v}) = s
    BY <2>3, SumSingle
  <2>5. OwnCost({v}) = s * Unit
    <3>1. OwnCost({v}) = Unit * s /\ Unit \in Nat
      BY <2>4, CostsAre, CostTypes
    <3>2. QED  BY <3>1
  <2>6. QED  BY <2>2, <2>3, <2>5, EdgeByCallee
<1>4. ASSUME ExternalInbound(v) > 0 PROVE SumOf([u \in CallersOf(v) |-> CallerAmount(v, u)]) = Incl(v)
  <2>1. SumOver(Flow, {e \in Crossing : e[2] = v}) = Incl(v)
    BY <1>1, <1>4, FlowsOut DEF Incl
  <2>2. QED  BY <2>1, EdgeByCaller
<1>5. \A u \in CallersOf(v) : CallerAmount(v, u) = CalleeAmount(u, v)
  BY DEF CallerAmount, CalleeAmount
<1>6. QED  BY <1>3, <1>4, <1>5

\* The breakdown costAttribution makes of a node adds up to what the node costs, on
\* the side of its callees and on that of its callers.
THEOREM AttributionAlwaysAdds == Spec => []AttributionAdds
BY CostInvariant, IInvAdds, PTL

-----------------------------------------------------------------------------
(* Rankings                                                                 *)

Orders(r, S) ==
  /\ \A x \in S : <<x, x>> \notin r
  /\ \A x, y \in S : x # y => <<x, y>> \in r \/ <<y, x>> \in r
  /\ \A x, y, z \in S : <<x, y>> \in r /\ <<y, z>> \in r => <<x, z>> \in r

\* A ranking holds each member once, in the order it says.
LEMMA InOrderIs ==
  ASSUME NEW S, IsFiniteSet(S), NEW r, Orders(r, S), NEW s, s = InOrder(S, r)
  PROVE  /\ Cardinality(S) \in Nat
         /\ s \in Seq(S) /\ Len(s) = Cardinality(S)
         /\ \A x \in S : \E k \in 1 .. Cardinality(S) : s[k] = x
         /\ \A i, j \in 1 .. Cardinality(S) : i < j => <<s[i], s[j]>> \in r
<1> DEFINE n == Cardinality(S)
           Ahead(x) == {u \in S : <<u, x>> \in r}
           place == [v \in S |-> Cardinality({u \in S : <<u, v>> \in r})]
<1>1. n \in Nat
  BY FS_CardinalityType
<1>2. \A x \in S : IsFiniteSet(Ahead(x)) /\ Cardinality(Ahead(x)) \in 0 .. n - 1
  <2> TAKE x \in S
  <2>1. Ahead(x) \in SUBSET S /\ x \notin Ahead(x)
    BY DEF Orders
  <2> HIDE DEF Ahead
  <2>2. IsFiniteSet(Ahead(x)) /\ Cardinality(Ahead(x)) <= n /\ Cardinality(Ahead(x)) # n
    BY <2>1, FS_Subset
  <2>3. Cardinality(Ahead(x)) \in Nat
    BY <2>2, FS_CardinalityType
  <2>4. QED  BY <1>1, <2>2, <2>3
<1>3. \A x, y \in S : <<x, y>> \in r => Cardinality(Ahead(x)) < Cardinality(Ahead(y))
  <2> SUFFICES ASSUME NEW x \in S, NEW y \in S, <<x, y>> \in r
               PROVE  Cardinality(Ahead(x)) < Cardinality(Ahead(y))
    OBVIOUS
  <2>1. Ahead(x) \in SUBSET Ahead(y) /\ x \in Ahead(y) /\ x \notin Ahead(x)
    BY DEF Orders
  <2>2. IsFiniteSet(Ahead(x)) /\ IsFiniteSet(Ahead(y))
        /\ Cardinality(Ahead(x)) \in Nat /\ Cardinality(Ahead(y)) \in Nat
    BY <1>1, <1>2
  <2> HIDE DEF Ahead
  <2>3. Cardinality(Ahead(x)) <= Cardinality(Ahead(y)) /\ Cardinality(Ahead(x)) # Cardinality(Ahead(y))
    BY <2>1, <2>2, FS_Subset
  <2>4. QED  BY <2>2, <2>3
<1>4. \A x \in S : place[x] = Cardinality(Ahead(x)) /\ place[x] \in 0 .. n - 1
  BY <1>2
<1>5. \A x, y \in S : place[x] = place[y] => x = y
  <2> SUFFICES ASSUME NEW x \in S, NEW y \in S, place[x] = place[y], x # y PROVE FALSE
    OBVIOUS
  <2>1. place[x] \in Int /\ (<<x, y>> \in r \/ <<y, x>> \in r)
    BY <1>1, <1>4 DEF Orders
  <2>2. place[x] < place[y] \/ place[y] < place[x]
    BY <1>3, <1>4, <2>1
  <2>3. QED  BY <1>1, <1>4, <2>2
<1>6. \A k \in 1 .. n : \E v \in S : place[v] = k - 1
  <2> DEFINE D == 0 .. n - 1
  <2>1. place \in Injection(S, D)
    <3>1. place \in [S -> D]
      BY <1>4
    <3>2. DOMAIN place = S
      OBVIOUS
    <3> HIDE DEF place, D
    <3>3. QED  BY <1>5, <3>1, <3>2 DEF Injection, IsInjective
  <2>2. IsFiniteSet(D) /\ Cardinality(D) = n
    BY <1>1, FS_Interval
  <2> HIDE DEF place, D
  <2>3. place \in Surjection(S, D)
    BY <2>1, <2>2, FS_Injection
  <2>4. \A d \in D : \E v \in S : place[v] = d
    BY <2>3 DEF Surjection
  <2>5. \A k \in 1 .. n : k - 1 \in D
    BY <1>1 DEF D
  <2>6. QED  BY <2>4, <2>5
<1>7. s = [k \in 1 .. n |-> CHOOSE v \in S : place[v] = k - 1]
  BY DEF InOrder
<1> HIDE DEF place, Ahead
<1>8. \A k \in 1 .. n : s[k] \in S /\ place[s[k]] = k - 1
  BY <1>6, <1>7
<1>9. s \in Seq(S) /\ Len(s) = n
  <2>1. s \in [1 .. n -> S]
    BY <1>7, <1>8
  <2>2. QED  BY <1>1, <2>1
<1>10. \A x \in S : \E k \in 1 .. n : s[k] = x
  <2> TAKE x \in S
  <2>1. place[x] + 1 \in 1 .. n
    BY <1>1, <1>4
  <2>2. place[s[place[x] + 1]] = place[x] /\ s[place[x] + 1] \in S
    BY <1>1, <1>4, <1>8, <2>1
  <2>3. QED  BY <1>5, <2>1, <2>2
<1>11. \A i, j \in 1 .. n : i < j => <<s[i], s[j]>> \in r
  <2> SUFFICES ASSUME NEW i \in 1 .. n, NEW j \in 1 .. n, i < j PROVE <<s[i], s[j]>> \in r
    OBVIOUS
  <2>1. s[i] \in S /\ s[j] \in S /\ place[s[i]] < place[s[j]]
    BY <1>1, <1>8
  <2>2. s[i] # s[j] /\ ~(<<s[j], s[i]>> \in r)
    <3>1. place[s[i]] \in Nat /\ place[s[j]] \in Nat
      BY <1>1, <1>4, <2>1
    <3>2. <<s[j], s[i]>> \in r => place[s[j]] < place[s[i]]
      BY <1>3, <1>4, <2>1
    <3>3. QED  BY <2>1, <3>1, <3>2
  <2>3. QED  BY <2>1, <2>2 DEF Orders
<1>12. QED  BY <1>1, <1>9, <1>10, <1>11

LEMMA CutIs ==
  ASSUME NEW S, NEW s \in Seq(S), NEW count \in Nat
  PROVE  LET n == IF Len(s) < count THEN Len(s) ELSE count
         IN  /\ n \in 0 .. Len(s) /\ n <= count /\ (n < count => n = Len(s))
             /\ Cut(s, count) \in Seq(S) /\ Len(Cut(s, count)) = n
             /\ \A i \in 1 .. n : Cut(s, count)[i] = s[i]
<1> DEFINE n == IF Len(s) < count THEN Len(s) ELSE count
<1>1. Len(s) \in Nat /\ n \in 0 .. Len(s) /\ n <= count /\ (n < count => n = Len(s))
  OBVIOUS
<1>2. \A i \in 1 .. n : s[i] \in S
  BY <1>1
<1>3. Cut(s, count) = SubSeq(s, 1, n)
  BY DEF Cut
<1> HIDE DEF n
<1>4. n \in Int /\ 1 \in Int
  BY <1>1
<1>5. /\ SubSeq(s, 1, n) \in Seq(S) /\ Len(SubSeq(s, 1, n)) = IF 1 <= n THEN n - 1 + 1 ELSE 0
      /\ \A i \in 1 .. n - 1 + 1 : SubSeq(s, 1, n)[i] = s[1 + i - 1]
  BY <1>2, <1>4, SubSeqProperties
<1>6. (IF 1 <= n THEN n - 1 + 1 ELSE 0) = n /\ n - 1 + 1 = n /\ \A i \in 1 .. n : 1 + i - 1 = i
  BY <1>1
<1>7. Cut(s, count) \in Seq(S) /\ Len(Cut(s, count)) = n /\ \A i \in 1 .. n : Cut(s, count)[i] = s[i]
  BY <1>3, <1>5, <1>6
<1>8. QED  BY <1>1, <1>7 DEF n

LEMMA NodeFinite == IsFiniteSet(Node) /\ Cardinality(Node) = N /\ Node \subseteq Nat
BY NAssumption, FS_Interval DEF Node

LEMMA InPlaceIs ==
  ASSUME NEW S \in SUBSET Node, NEW s, s = InOrder(S, Earlier)
  PROVE  s \in Seq(Node) /\ Len(s) \in 0 .. N /\ ToSet(s) = S
<1>3. IsFiniteSet(S) /\ Cardinality(S) <= N
  BY NodeFinite, FS_Subset
<1>4. Orders(Earlier, S)
  BY NodeFinite DEF Orders, Earlier
<1>5. /\ Cardinality(S) \in Nat /\ s \in Seq(S) /\ Len(s) = Cardinality(S)
      /\ \A x \in S : \E k \in 1 .. Cardinality(S) : s[k] = x
  BY <1>3, <1>4, InOrderIs
<1>6. ToSet(s) = S
  BY <1>5 DEF ToSet
<1>7. s \in Seq(Node)
  BY <1>5
<1>8. QED  BY <1>3, <1>5, <1>6, <1>7, NAssumption

\* What a list of callers holds, whatever those are that it leaves out.
Lists(s, c, v, seen) ==
  /\ s \in Seq(Node) /\ Len(s) \in 0 .. N
  /\ ToSet(s) = Callers(c, {v}) \ seen

LEMMA CallersListIs ==
  ASSUME NEW c, NEW v, NEW seen
  PROVE  Lists(CallersList(c, v, seen), c, v, seen)
<1>1. PICK S : S = Callers(c, {v}) \ seen
  OBVIOUS
<1>2. PICK s : s = CallersList(c, v, seen)
  OBVIOUS
<1>3. S \in SUBSET Node /\ s = InOrder(S, Earlier)
  BY <1>1, <1>2 DEF Callers, CallersList
<1>4. s \in Seq(Node) /\ Len(s) \in 0 .. N /\ ToSet(s) = S
  BY <1>3, InPlaceIs
<1>5. QED  BY <1>1, <1>2, <1>4 DEF Lists

-----------------------------------------------------------------------------
(* The worklist of blastRadiusSizes                                         *)

At == [stack : Seq(Node), visited : SUBSET Node]

Following(c, at) ==
  LET v == Last(at.stack)
      seen == at.visited \cup {v}
      more == IF v \in at.visited THEN <<>> ELSE CallersList(c, v, seen)
  IN  [stack |-> Front(at.stack) \o more, visited |-> seen]

Weight == [at \in At |-> (N - Cardinality(at.visited)) * (N + 1) + Len(at.stack)]

LEMMA Product == ASSUME NEW a \in Nat, NEW b \in Nat PROVE a * b \in Nat /\ (a + 1) * b = a * b + b
OBVIOUS

LEMMA WeightIs ==
  ASSUME NEW at \in At
  PROVE  /\ IsFiniteSet(at.visited) /\ Cardinality(at.visited) \in 0 .. N
         /\ Weight[at] \in Nat /\ Weight[at] = (N - Cardinality(at.visited)) * (N + 1) + Len(at.stack)
<1>1. at.visited \in SUBSET Node /\ at.stack \in Seq(Node)
  BY DEF At
<1>2. IsFiniteSet(at.visited) /\ Cardinality(at.visited) <= N
  BY <1>1, NodeFinite, FS_Subset
<1>3. Cardinality(at.visited) \in 0 .. N
  BY <1>2, FS_CardinalityType, NAssumption
<1>4. PICK a \in Nat : a = N - Cardinality(at.visited)
  BY <1>3, NAssumption
<1>5. PICK b \in Nat : b = N + 1
  BY NAssumption
<1>6. a * b \in Nat /\ Len(at.stack) \in Nat
  BY <1>1, Product
<1>7. Weight[at] = a * b + Len(at.stack)
  BY <1>4, <1>5 DEF Weight
<1>8. QED  BY <1>2, <1>3, <1>4, <1>5, <1>6, <1>7

LEMMA FollowingIs ==
  ASSUME NEW c, NEW at \in At, at.stack # <<>>
  PROVE  /\ Following(c, at) \in At /\ Weight[Following(c, at)] < Weight[at]
         /\ \E v \in Node :
              /\ Following(c, at).visited = at.visited \cup {v}
              /\ v \in ToSet(at.stack)
              /\ ToSet(at.stack) \subseteq ToSet(Following(c, at).stack) \cup {v}
              /\ ToSet(Following(c, at).stack) \subseteq ToSet(at.stack) \cup Callers(c, {v})
              /\ v \notin at.visited =>
                   Callers(c, {v}) \subseteq ToSet(Following(c, at).stack) \cup at.visited \cup {v}
<1> DEFINE s == at.stack
           v == Last(s)
           rest == Front(s)
           seen == at.visited \cup {v}
           more == IF v \in at.visited THEN <<>> ELSE CallersList(c, v, seen)
           n == Len(s)
           next == Following(c, at)
<1>1. s \in Seq(Node) /\ n \in Nat /\ n > 0 /\ at.visited \in SUBSET Node
  BY DEF At
<1>2. v = s[n] /\ v \in Node
  BY <1>1 DEF Last
<1>3. rest \in Seq(Node) /\ Len(rest) = n - 1 /\ \A i \in 1 .. n - 1 : rest[i] = s[i]
  BY <1>1 DEF Front
<1>4. more \in Seq(Node) /\ Len(more) \in 0 .. N
  <2>1. CASE v \in at.visited
    BY <2>1, NAssumption
  <2>2. CASE v \notin at.visited
    <3>1. more = CallersList(c, v, seen)
      BY <2>2
    <3>2. Lists(more, c, v, seen)
      BY <3>1, CallersListIs
    <3>3. QED  BY <3>2 DEF Lists
  <2>3. QED  BY <2>1, <2>2
<1>5. next.stack = rest \o more /\ next.visited = seen /\ next = [stack |-> rest \o more, visited |-> seen]
  BY DEF Following
<1>6. ToSet(s) = ToSet(rest) \cup {v} /\ ToSet(rest \o more) = ToSet(rest) \cup ToSet(more)
  <2> HIDE DEF rest, more, v, s
  <2>1. ToSet(s) \subseteq ToSet(rest) \cup {v}
    <3> SUFFICES ASSUME NEW i \in 1 .. n PROVE s[i] \in ToSet(rest) \cup {v}
      BY <1>1 DEF ToSet
    <3>1. CASE i = n
      BY <1>2, <3>1
    <3>2. CASE i # n
      <4>1. i \in 1 .. n - 1 /\ i \in DOMAIN rest
        BY <1>1, <1>3, <3>2
      <4>2. QED  BY <1>3, <4>1 DEF ToSet
    <3>3. QED  BY <3>1, <3>2
  <2>2. ToSet(rest) \cup {v} \subseteq ToSet(s)
    BY <1>1, <1>2, <1>3 DEF ToSet
  <2>3. ToSet(rest \o more) \subseteq ToSet(rest) \cup ToSet(more)
    BY <1>3, <1>4 DEF ToSet
  <2>4. ToSet(rest) \subseteq ToSet(rest \o more)
    BY <1>3, <1>4 DEF ToSet
  <2>5. ToSet(more) \subseteq ToSet(rest \o more)
    <3> SUFFICES ASSUME NEW i \in 1 .. Len(more) PROVE more[i] \in ToSet(rest \o more)
      BY <1>4 DEF ToSet
    <3>1. Len(rest) + i \in DOMAIN (rest \o more) /\ (rest \o more)[Len(rest) + i] = more[i]
      BY <1>3, <1>4
    <3>2. QED  BY <3>1 DEF ToSet
  <2>6. QED  BY <2>1, <2>2, <2>3, <2>4, <2>5
<1>7. v \in at.visited => ToSet(more) = {}
  BY DEF ToSet
<1>8. v \notin at.visited => ToSet(more) = Callers(c, {v}) \ seen
  <2>1. ASSUME v \notin at.visited PROVE ToSet(more) = Callers(c, {v}) \ seen
    <3>1. more = CallersList(c, v, seen)
      BY <2>1
    <3>2. Lists(more, c, v, seen)
      BY <3>1, CallersListIs
    <3>3. QED  BY <3>2 DEF Lists
  <2>2. QED  BY <2>1
<1>9. next \in At
  <2>1. rest \o more \in Seq(Node) /\ seen \in SUBSET Node
    BY <1>1, <1>2, <1>3, <1>4
  <2>2. QED  BY <1>5, <2>1 DEF At
<1>10. at.stack = s /\ n = Len(s) /\ Len(at.stack) = n
  OBVIOUS
<1> HIDE DEF s, n, rest, more, seen, next
<1>11. Weight[next] < Weight[at]
  <2>0. Len(more) \in Nat
    BY <1>4
  <2>1. Len(next.stack) = n - 1 + Len(more) /\ Len(next.stack) \in Nat
    BY <1>1, <1>3, <1>4, <1>5, <2>0
  <2>2. CASE v \in at.visited
    <3>1. next.visited = at.visited /\ Len(more) = 0
      BY <1>5, <2>2 DEF seen, more
    <3>2. PICK k : k = (N - Cardinality(at.visited)) * (N + 1)
      OBVIOUS
    <3>3. Weight[next] = k + (n - 1) /\ Weight[at] = k + n
      BY <1>1, <1>9, <1>10, <2>1, <3>1, <3>2, WeightIs
    <3>4. k \in Int
      BY <3>2, WeightIs, NAssumption
    <3>5. QED  BY <1>1, <3>3, <3>4
  <2>3. CASE v \notin at.visited
    <3>1. Cardinality(next.visited) = Cardinality(at.visited) + 1
      BY <1>5, <1>1, <2>3, WeightIs, FS_AddElement DEF seen
    <3>2. PICK a \in Nat : a = N - Cardinality(next.visited)
      BY <1>9, WeightIs, NAssumption
    <3>3. N - Cardinality(at.visited) = a + 1
      BY <3>1, <3>2, WeightIs, NAssumption
    <3>4. PICK b \in Nat : b = N + 1
      BY NAssumption
    <3>5. PICK k \in Nat : k = a * b
      BY Product
    <3>6. (a + 1) * b = k + b
      BY <3>5, Product
    <3>7. Weight[next] = k + Len(next.stack)
      BY <1>9, <3>2, <3>4, <3>5, WeightIs
    <3>8. Weight[at] = k + b + n
      BY <1>10, <3>3, <3>4, <3>6, WeightIs
    <3>9. PICK l \in Nat : l = Len(more) /\ l <= N
      BY <1>4, NAssumption
    <3>10. Weight[next] = k + (n - 1 + l) /\ b > l
      BY <2>1, <3>4, <3>7, <3>9, NAssumption
    <3>11. QED  BY <1>1, <3>4, <3>5, <3>8, <3>9, <3>10
  <2>4. QED  BY <2>2, <2>3
<1>12. QED
  <2>1. /\ next.visited = at.visited \cup {v}
        /\ v \in ToSet(at.stack)
        /\ ToSet(at.stack) \subseteq ToSet(next.stack) \cup {v}
        /\ ToSet(next.stack) \subseteq ToSet(at.stack) \cup Callers(c, {v})
        /\ v \notin at.visited =>
             Callers(c, {v}) \subseteq ToSet(next.stack) \cup at.visited \cup {v}
    BY <1>5, <1>6, <1>7, <1>8, <1>10 DEF seen
  <2>2. QED  BY <1>2, <1>9, <1>11, <2>1 DEF next

LEMMA VisitedIs ==
  ASSUME NEW c
  PROVE  /\ Visited(c) \in [At -> SUBSET Node]
         /\ \A at \in At : Visited(c)[at] = IF at.stack = <<>> THEN at.visited ELSE Visited(c)[Following(c, at)]
<1> DEFINE V == SUBSET Node
           F(f, at) == IF at.stack = <<>> THEN at.visited ELSE f[Following(c, at)]
           Phi == [f \in [At -> V] |-> [at \in At |-> F(f, at)]]
<1>1. V # {} /\ \A at \in At : at.visited \in V
  BY DEF At
<1>2. \A at \in At : at.stack # <<>> => Following(c, at) \in At /\ Weight[Following(c, at)] < Weight[at]
  BY FollowingIs
<1> HIDE DEF V
<1>3. \A f \in [At -> V], at \in At : F(f, at) \in V
  BY <1>1, <1>2
<1>4. Phi \in [[At -> V] -> [At -> V]]
  BY <1>3
<1>5. \A f \in [At -> V] : Phi[f] = [at \in At |-> F(f, at)]
  OBVIOUS
<1>6. ASSUME NEW f \in [At -> V], NEW g \in [At -> V], NEW d \in At,
             \A b \in At : Weight[b] < Weight[d] => f[b] = g[b]
      PROVE  Phi[f][d] = Phi[g][d]
  <2>1. F(f, d) = F(g, d)
    BY <1>2, <1>6
  <2>2. Phi[f][d] = F(f, d) /\ Phi[g][d] = F(g, d)
    BY <1>5
  <2>3. QED  BY <2>1, <2>2
<1>7. Weight \in [At -> Nat]
  <2>1. \A at \in At : Weight[at] \in Nat
    BY WeightIs
  <2>2. Weight = [at \in At |-> Weight[at]]
    BY DEF Weight
  <2>3. QED  BY <2>1, <2>2
<1> HIDE DEF Phi, F
<1>8. Descends(At, V, Weight, Phi)
  BY <1>4, <1>6 DEF Descends
<1>9. PICK f \in [At -> V] : f = Phi[f]
  BY <1>1, <1>7, <1>8, Recursion
<1>10. f = [at \in At |-> F(f, at)]
  BY <1>5, <1>9
<1> DEFINE Rec(g) == g = [at \in At |-> F(g, at)]
<1>11. Rec(CHOOSE g : Rec(g))
  <2>1. Rec(f)
    BY <1>10
  <2> HIDE DEF Rec
  <2>2. QED  BY <2>1
<1>12. Visited(c) = CHOOSE g : Rec(g)
  BY DEF Visited, F, At, Following
<1>13. Visited(c) = [at \in At |-> F(Visited(c), at)]
  BY <1>11, <1>12
<1> DEFINE W == Visited(c)
<1> HIDE DEF W
<1>14. W = [at \in At |-> F(W, at)]
  BY <1>13 DEF W
<1>15. \A at \in At : W[at] = IF at.stack = <<>> THEN at.visited ELSE W[Following(c, at)]
  BY <1>14 DEF F
<1> DEFINE T == {k \in Nat : \A at \in At : Weight[at] = k => W[at] \in V}
<1>16. ASSUME NEW n \in Nat, NEW k \in 0 .. n, \A j \in 0 .. n : j < k => j \in T PROVE k \in T
  <2> SUFFICES ASSUME NEW at \in At, Weight[at] = k PROVE W[at] \in V
    OBVIOUS
  <2>1. CASE at.stack = <<>>
    BY <1>1, <1>15, <2>1
  <2>2. CASE at.stack # <<>>
    <3>1. Following(c, at) \in At /\ Weight[Following(c, at)] \in 0 .. n /\ Weight[Following(c, at)] < k
      BY <1>2, <1>7, <2>2
    <3>2. Weight[Following(c, at)] \in T
      BY <1>16, <3>1
    <3>3. QED  BY <1>15, <2>2, <3>1, <3>2
  <2>3. QED  BY <2>1, <2>2
<1>17. ASSUME NEW at \in At PROVE W[at] \in V
  <2>1. PICK n \in Nat : n = Weight[at]
    BY <1>7
  <2> HIDE DEF T
  <2>2. 0 .. n \subseteq T
    BY <1>16, SetInduction
  <2>3. n \in T
    BY <2>2
  <2>4. QED  BY <2>1, <2>3 DEF T
<1>18. W \in [At -> V]
  BY <1>14, <1>17
<1>19. QED  BY <1>15, <1>18 DEF W, V

\* What has been visited waits for nobody but those on the stack.
Fine(c, at) == \A u \in at.visited : Callers(c, {u}) \subseteq at.visited \cup ToSet(at.stack)

ClosedUp(c, X) == \A u \in X : Callers(c, {u}) \subseteq X

\* R is the least set that holds what has been visited and what waits, and with a
\* node all that call it.
Collects(c, at, R) ==
  /\ at.visited \cup ToSet(at.stack) \subseteq R /\ ClosedUp(c, R)
  /\ \A X \in SUBSET Node : at.visited \cup ToSet(at.stack) \subseteq X /\ ClosedUp(c, X) => R \subseteq X

LEMMA VisitedCollects ==
  ASSUME NEW c, NEW at \in At, Fine(c, at) PROVE Collects(c, at, Visited(c)[at])
<1> DEFINE W == Visited(c)
           T == {k \in Nat : \A a \in At : Weight[a] = k /\ Fine(c, a) => Collects(c, a, W[a])}
<1>1. \A a \in At : W[a] = IF a.stack = <<>> THEN a.visited ELSE W[Following(c, a)]
  BY VisitedIs
<1> HIDE DEF W
<1>2. ASSUME NEW n \in Nat, NEW k \in 0 .. n, \A j \in 0 .. n : j < k => j \in T PROVE k \in T
  <2> SUFFICES ASSUME NEW a \in At, Weight[a] = k, Fine(c, a) PROVE Collects(c, a, W[a])
    OBVIOUS
  <2>1. CASE a.stack = <<>>
    <3>1. W[a] = a.visited /\ ToSet(a.stack) = {}
      BY <1>1, <2>1 DEF ToSet
    <3>2. QED  BY <3>1 DEF Fine, Collects, ClosedUp
  <2>2. CASE a.stack # <<>>
    <3> DEFINE b == Following(c, a)
    <3>1. b \in At /\ Weight[b] < k /\ W[a] = W[b] /\ Weight[b] \in Nat
      BY <1>1, <2>2, FollowingIs, WeightIs
    <3>2. PICK v \in Node :
              /\ b.visited = a.visited \cup {v}
              /\ v \in ToSet(a.stack)
              /\ ToSet(a.stack) \subseteq ToSet(b.stack) \cup {v}
              /\ ToSet(b.stack) \subseteq ToSet(a.stack) \cup Callers(c, {v})
              /\ v \notin a.visited => Callers(c, {v}) \subseteq ToSet(b.stack) \cup a.visited \cup {v}
      BY <2>2, FollowingIs
    <3> HIDE DEF b
    <3>3. Fine(c, b)
      <4> SUFFICES ASSUME NEW u \in b.visited PROVE Callers(c, {u}) \subseteq b.visited \cup ToSet(b.stack)
        BY DEF Fine
      <4>1. CASE u \in a.visited
        BY <3>2, <4>1 DEF Fine
      <4>2. CASE u \notin a.visited
        BY <3>2, <4>2
      <4>3. QED  BY <4>1, <4>2
    <3>4. Collects(c, b, W[b])
      <4>1. Weight[b] \in 0 .. n
        BY <3>1
      <4>2. Weight[b] \in T
        BY <1>2, <3>1, <4>1
      <4>3. QED  BY <3>1, <3>3, <4>2
    <3>5. a.visited \cup ToSet(a.stack) \subseteq W[b] /\ ClosedUp(c, W[b])
      BY <3>2, <3>4 DEF Collects
    <3>6. ASSUME NEW X \in SUBSET Node, a.visited \cup ToSet(a.stack) \subseteq X, ClosedUp(c, X)
          PROVE  W[b] \subseteq X
      <4>1. Callers(c, {v}) \subseteq X
        BY <3>2, <3>6 DEF ClosedUp
      <4>2. b.visited \cup ToSet(b.stack) \subseteq X
        BY <3>2, <3>6, <4>1
      <4>3. QED  BY <3>4, <3>6, <4>2 DEF Collects
    <3>7. QED  BY <3>1, <3>5, <3>6 DEF Collects
  <2>3. QED  BY <2>1, <2>2
<1>3. QED
  <2>1. PICK n \in Nat : n = Weight[at]
    BY WeightIs
  <2> HIDE DEF T
  <2>2. 0 .. n \subseteq T
    BY <1>2, SetInduction
  <2>3. n \in T
    BY <2>2
  <2>4. QED  BY <2>1, <2>3 DEF T, W

\* The worklist finds all that reach v.
LEMMA ReachersAre ==
  ASSUME NEW c \in [Node -> SUBSET Node], NEW v \in Node
  PROVE  /\ Reachers(c, v) \subseteq Node
         /\ Reachers(c, v) \ {v} = {u \in Node \ {v} : Reaches(c, u, v)}
<1>0. PICK s : s = CallersList(c, v, {})
  OBVIOUS
<1> DEFINE at == [stack |-> s, visited |-> {}]
           R == Visited(c)[at]
<1>1. s \in Seq(Node) /\ ToSet(s) = Callers(c, {v})
  <2>1. Lists(s, c, v, {})
    BY <1>0, CallersListIs
  <2>2. QED  BY <2>1 DEF Lists
<1>2. at \in At /\ at.visited = {} /\ at.stack = s
  BY <1>1 DEF At
<1>3. Fine(c, at)
  BY <1>2 DEF Fine
<1>4. R \subseteq Node
  BY <1>2, VisitedIs
<1>5. Collects(c, at, R)
  BY <1>2, <1>3, VisitedCollects
<1>6. Reachers(c, v) = R
  BY <1>0 DEF Reachers
<1> HIDE DEF at, R
<1>7. ASSUME NEW u \in R PROVE Reaches(c, u, v)
  <2> DEFINE X == {x \in Node : \E w \in c[x] : Reaches(c, w, v)}
  <2>1. \A x \in X : Reaches(c, x, v)
    BY DEF Reaches, Closed
  <2>2. ClosedUp(c, X)
    BY <2>1 DEF ClosedUp, Callers
  <2>3. Reaches(c, v, v)
    BY DEF Reaches
  <2>4. Callers(c, {v}) \subseteq X
    BY <2>3 DEF Callers
  <2> HIDE DEF X
  <2>5. X \in SUBSET Node
    BY DEF X
  <2>6. R \subseteq X
    BY <1>1, <1>2, <1>5, <2>2, <2>4, <2>5 DEF Collects
  <2>7. QED  BY <2>1, <2>6
<1>8. ASSUME NEW u \in Node \ {v}, Reaches(c, u, v), u \notin R PROVE FALSE
  <2> DEFINE S == Node \ (R \cup {v})
  <2>1. Callers(c, {v}) \subseteq R /\ ClosedUp(c, R)
    BY <1>1, <1>2, <1>5 DEF Collects
  <2>2. \A x \in Node : \A y \in c[x] : y = v \/ y \in R => x \in R
    BY <2>1 DEF ClosedUp, Callers
  <2>3. \A x \in Node : c[x] \subseteq Node
    OBVIOUS
  <2>4. Closed(c, S)
    BY <2>2, <2>3 DEF Closed
  <2>5. u \in S /\ v \notin S /\ S \in SUBSET Node
    BY <1>8
  <2> HIDE DEF S
  <2>6. QED  BY <1>8, <2>4, <2>5 DEF Reaches
<1>9. QED  BY <1>4, <1>6, <1>7, <1>8

LEMMA ImpactIs ==
  ASSUME NEW c \in [Node -> SUBSET Node], NEW v \in Node
  PROVE  /\ ReachableCount(c, v) = Cardinality({u \in Node \ {v} : Reaches(c, u, v)})
         /\ ReachableCount(c, v) \in Nat
         /\ ReachableCount(c, v) > 0 <=> {u \in Node \ {v} : Reaches(c, u, v)} # {}
<1> DEFINE S == {u \in Node \ {v} : Reaches(c, u, v)}
<1>1. ReachableCount(c, v) = Cardinality(S)
  BY ReachersAre DEF ReachableCount
<1>2. S \in SUBSET Node
  OBVIOUS
<1> HIDE DEF S
<1>3. IsFiniteSet(S)
  BY <1>2, NodeFinite, FS_Subset
<1>4. Cardinality(S) \in Nat /\ (Cardinality(S) = 0 <=> S = {})
  BY <1>3, FS_CardinalityType, FS_EmptySet
<1>5. QED  BY <1>1, <1>4 DEF S
-----------------------------------------------------------------------------
(* The worklist of a campaign                                               *)

Tags == {"auto-applicable", "needs-workload", "manual"}

Entry == [node : Node, readiness : Tags, score : Nat]

PlanTypes ==
  /\ calls \in [Node -> SUBSET Node] /\ used \in SUBSET Node
  /\ selfTime \in [Node -> Nat] /\ by \in {"self-time", "blast-radius"}
  /\ limit \in Nat \ {0} /\ maxBlast \in Nat

\* What is ranked: what is dead, and the hotspots.
Both == {Removal(v) : v \in Dead} \cup {Hotspot(v) : v \in ToSet(Hotspots(limit))}

LEMMA ScoreIs ==
  ASSUME PlanTypes, NEW v \in Node
  PROVE  /\ Score(v) \in Nat
         /\ by = "blast-radius" => Score(v) = Cardinality(Impact(v)) /\ (Score(v) > 0 <=> Impact(v) # {})
<1>1. CASE by = "blast-radius"
  <2>1. Score(v) = ReachableCount(calls, v)
    BY <1>1 DEF Score
  <2>2. /\ ReachableCount(calls, v) = Cardinality(Impact(v)) /\ ReachableCount(calls, v) \in Nat
        /\ ReachableCount(calls, v) > 0 <=> Impact(v) # {}
    BY ImpactIs DEF PlanTypes, Impact
  <2>3. QED  BY <2>1, <2>2
<1>2. CASE by # "blast-radius"
  BY <1>2 DEF Score, PlanTypes
<1>3. QED  BY <1>1, <1>2

LEMMA HigherOrders ==
  ASSUME NEW score \in [Node -> Nat], NEW S \in SUBSET Node
  PROVE  Orders(Higher(score), S)
<1>1. \A x \in S : x \in Node /\ x \in Nat /\ score[x] \in Nat
  BY NodeFinite
<1>2. \A x, y \in S : <<x, y>> \in Higher(score) <=>
        score[x] > score[y] \/ (score[x] = score[y] /\ x < y)
  BY <1>1 DEF Higher
<1>3. \A x \in S : <<x, x>> \notin Higher(score)
  BY <1>1, <1>2
<1>4. \A x, y \in S : x # y => <<x, y>> \in Higher(score) \/ <<y, x>> \in Higher(score)
  BY <1>1, <1>2
<1>5. \A x, y, z \in S : <<x, y>> \in Higher(score) /\ <<y, z>> \in Higher(score) => <<x, z>> \in Higher(score)
  BY <1>1, <1>2
<1>6. QED  BY <1>3, <1>4, <1>5 DEF Orders

LEMMA BeforeOrders ==
  ASSUME NEW S \in SUBSET Entry
  PROVE  Orders({e \in S \X S : Before(e[1], e[2])}, S)
<1> DEFINE r == {e \in S \X S : Before(e[1], e[2])}
<1>1. \A x, y \in S : <<x, y>> \in r <=> Before(x, y)
  OBVIOUS
<1>2. \A x \in S : /\ x.node \in Nat /\ x.score \in Nat /\ Rank[x.readiness] \in Nat
                   /\ x.readiness \in Tags
  BY NodeFinite DEF Entry, Rank, Tags
<1>3. \A x, y \in S : x.readiness # y.readiness => Rank[x.readiness] # Rank[y.readiness]
  BY <1>2 DEF Rank, Tags
<1>4. \A x, y \in S : x.node = y.node /\ x.readiness = y.readiness /\ x.score = y.score => x = y
  BY DEF Entry
<1> HIDE DEF r, Rank
<1>5. \A x \in S : <<x, x>> \notin r
  BY <1>1, <1>2 DEF Before
<1>6. ASSUME NEW x \in S, NEW y \in S, x # y PROVE <<x, y>> \in r \/ <<y, x>> \in r
  <2>1. x.node # y.node \/ Rank[x.readiness] # Rank[y.readiness] \/ x.score # y.score
    BY <1>3, <1>4, <1>6
  <2>2. Before(x, y) \/ Before(y, x)
    BY <1>2, <2>1 DEF Before
  <2>3. QED  BY <1>1, <2>2
<1>7. ASSUME NEW x \in S, NEW y \in S, NEW z \in S, <<x, y>> \in r, <<y, z>> \in r PROVE <<x, z>> \in r
  <2>1. Before(x, y) /\ Before(y, z)
    BY <1>1, <1>7
  <2>2. Before(x, z)
    BY <1>2, <2>1 DEF Before
  <2>3. QED  BY <1>1, <2>2
<1>8. Orders(r, S)
  BY <1>5, <1>6, <1>7 DEF Orders
<1>9. QED  BY <1>8 DEF r

LEMMA BothIs ==
  ASSUME PlanTypes
  PROVE  /\ ToSet(Hotspots(limit)) \subseteq Node /\ Dead \subseteq Node
         /\ Both \subseteq Entry /\ IsFiniteSet(Both)
         /\ Candidates(limit) = InOrder(Both, {e \in Both \X Both : Before(e[1], e[2])})
<1> DEFINE H == ToSet(Hotspots(limit))
<1>1. H \subseteq Node
  <2> DEFINE score == [v \in Node |-> Score(v)]
             S == {v \in Node : score[v] > 0}
  <2>1. score \in [Node -> Nat]
    BY ScoreIs
  <2>2. S \in SUBSET Node
    OBVIOUS
  <2>3. Hotspots(limit) = Cut(InOrder(S, Higher(score)), limit)
    BY DEF Hotspots, Ranked
  <2> HIDE DEF score, S
  <2>4. PICK s : s = InOrder(S, Higher(score))
    OBVIOUS
  <2>5. Orders(Higher(score), S) /\ IsFiniteSet(S)
    BY <2>1, <2>2, HigherOrders, NodeFinite, FS_Subset
  <2>6. s \in Seq(S)
    BY <2>4, <2>5, InOrderIs
  <2>7. limit \in Nat
    BY DEF PlanTypes
  <2>8. Cut(s, limit) \in Seq(S)
    BY <2>6, <2>7, CutIs
  <2>9. Hotspots(limit) \in Seq(S)
    BY <2>3, <2>4, <2>8
  <2>10. ToSet(Hotspots(limit)) \subseteq S
    BY <2>9 DEF ToSet
  <2>11. QED  BY <2>2, <2>10
<1>2. Dead \subseteq Node
  BY DEF Dead, DeadExports
<1>3. \A v \in Node : Removal(v) \in Entry /\ Hotspot(v) \in Entry
  BY ScoreIs DEF Removal, Hotspot, Readiness, Entry, Tags
<1>4. Both \subseteq Entry
  BY <1>1, <1>2, <1>3 DEF Both
<1>5. IsFiniteSet(Both)
  <2>1. IsFiniteSet(Dead) /\ IsFiniteSet(H)
    BY <1>1, <1>2, NodeFinite, FS_Subset
  <2> DEFINE A == {Removal(v) : v \in Dead}
             B == {Hotspot(v) : v \in H}
             f == [v \in Dead |-> Removal(v)]
             g == [v \in H |-> Hotspot(v)]
  <2>2. f \in Surjection(Dead, A)
    BY DEF Surjection
  <2>3. g \in Surjection(H, B)
    BY DEF Surjection
  <2> HIDE DEF A, B, f, g, H
  <2>4. IsFiniteSet(A) /\ IsFiniteSet(B)
    BY <2>1, <2>2, <2>3, FS_Surjection
  <2>5. IsFiniteSet(A \cup B)
    BY <2>4, FS_Union
  <2>6. QED  BY <2>5 DEF Both, A, B, H
<1>6. Candidates(limit) = InOrder(Both, {e \in Both \X Both : Before(e[1], e[2])})
  BY DEF Candidates, Both
<1>7. QED  BY <1>1, <1>2, <1>4, <1>5, <1>6

\* The worklist: candidates, as many as there may be, and all there are when it is not full.
LEMMA WorklistIs ==
  ASSUME PlanTypes, items = Cut(Candidates(limit), limit)
  PROVE  /\ items \in Seq(Both) /\ Len(items) \in Nat
         /\ Len(items) < limit =>
              /\ Cardinality(Both) < limit
              /\ Both \subseteq ToSet(items)
<1> DEFINE r == {e \in Both \X Both : Before(e[1], e[2])}
<1>1. PICK s : s = InOrder(Both, r)
  OBVIOUS
<1>2. Orders(r, Both) /\ IsFiniteSet(Both)
  BY BothIs, BeforeOrders
<1>3. items = Cut(s, limit) /\ limit \in Nat
  BY <1>1, BothIs DEF PlanTypes
<1> HIDE DEF r
<1>4. /\ Cardinality(Both) \in Nat /\ s \in Seq(Both) /\ Len(s) = Cardinality(Both)
      /\ \A x \in Both : \E k \in 1 .. Cardinality(Both) : s[k] = x
  BY <1>1, <1>2, InOrderIs
<1> DEFINE n == IF Len(s) < limit THEN Len(s) ELSE limit
<1>5. /\ n \in 0 .. Len(s) /\ n <= limit /\ (n < limit => n = Len(s))
      /\ items \in Seq(Both) /\ Len(items) = n
      /\ \A i \in 1 .. n : items[i] = s[i]
  BY <1>3, <1>4, CutIs
<1> HIDE DEF n
<1>6. ASSUME Len(items) < limit
      PROVE  Cardinality(Both) < limit /\ Both \subseteq ToSet(items)
  <2>1. n = Cardinality(Both) /\ n < limit
    BY <1>4, <1>5, <1>6
  <2>2. \A x \in Both : \E k \in 1 .. Len(items) : items[k] = x
    BY <1>4, <1>5, <2>1
  <2>3. QED  BY <2>1, <2>2 DEF ToSet
<1>7. QED  BY <1>4, <1>5, <1>6

\* Where the worklist is not full no hotspot was cut off before it was made.
LEMMA HotspotsAreAll ==
  ASSUME PlanTypes, Cardinality(Both) < limit, NEW v \in Node, Score(v) > 0
  PROVE  v \in ToSet(Hotspots(limit))
<1> DEFINE score == [u \in Node |-> Score(u)]
           S == {u \in Node : score[u] > 0}
<1>1. score \in [Node -> Nat] /\ S \in SUBSET Node /\ v \in S
  BY ScoreIs
<1>2. Hotspots(limit) = Cut(InOrder(S, Higher(score)), limit)
  BY DEF Hotspots, Ranked
<1> HIDE DEF score, S
<1>3. PICK s : s = InOrder(S, Higher(score))
  OBVIOUS
<1>4. Orders(Higher(score), S) /\ IsFiniteSet(S)
  BY <1>1, HigherOrders, NodeFinite, FS_Subset
<1>5. /\ Cardinality(S) \in Nat /\ s \in Seq(S) /\ Len(s) = Cardinality(S)
      /\ \A x \in S : \E k \in 1 .. Cardinality(S) : s[k] = x
      /\ \A i, j \in 1 .. Cardinality(S) : i < j => <<s[i], s[j]>> \in Higher(score)
  BY <1>3, <1>4, InOrderIs
<1> DEFINE n == IF Len(s) < limit THEN Len(s) ELSE limit
           all == Hotspots(limit)
<1>6. limit \in Nat /\ all = Cut(s, limit)
  BY <1>2, <1>3 DEF PlanTypes
<1>7. /\ n \in 0 .. Len(s) /\ n <= limit /\ (n < limit => n = Len(s))
      /\ all \in Seq(S) /\ Len(all) = n
      /\ \A i \in 1 .. n : all[i] = s[i]
  BY <1>5, <1>6, CutIs
<1> HIDE DEF n, all
<1>8. n < limit
  <2> SUFFICES ASSUME n = limit PROVE FALSE
    BY <1>5, <1>6, <1>7
  <2> DEFINE D == 1 .. limit
             f == [i \in D |-> Hotspot(all[i])]
  <2>1. \A i \in D : all[i] = s[i] /\ s[i] \in S /\ all[i] \in ToSet(all)
    BY <1>5, <1>6, <1>7 DEF ToSet
  <2>2. \A i \in D : Hotspot(all[i]) \in Both
    BY <2>1 DEF Both, all
  <2>3. ASSUME NEW i \in D, NEW j \in D, i # j PROVE Hotspot(all[i]) # Hotspot(all[j])
    <3>1. i \in 1 .. Cardinality(S) /\ j \in 1 .. Cardinality(S) /\ (i < j \/ j < i)
      BY <1>5, <1>6, <1>7, <2>3
    <3>2. <<s[i], s[j]>> \in Higher(score) \/ <<s[j], s[i]>> \in Higher(score)
      BY <1>5, <3>1
    <3>3. s[i] # s[j]
      BY <1>4, <2>1, <3>2 DEF Orders
    <3>4. Hotspot(all[i]).node = s[i] /\ Hotspot(all[j]).node = s[j]
      BY <2>1 DEF Hotspot
    <3>5. QED  BY <3>3, <3>4
  <2>4. f \in [D -> Both]
    BY <2>2
  <2>5. \A i, j \in D : f[i] = f[j] => i = j
    BY <2>3
  <2>6. DOMAIN f = D
    OBVIOUS
  <2>7. IsFiniteSet(D) /\ Cardinality(D) = limit
    BY <1>6, FS_Interval
  <2> HIDE DEF D, f
  <2>8. f \in Injection(D, Both)
    BY <2>4, <2>5, <2>6 DEF Injection, IsInjective
  <2>9. IsFiniteSet(Both)
    BY BothIs
  <2>10. limit <= Cardinality(Both)
    BY <2>7, <2>8, <2>9, FS_Injection
  <2>11. Cardinality(Both) \in Nat
    BY <2>9, FS_CardinalityType
  <2>12. QED  BY <1>6, <2>10, <2>11
<1>9. \E k \in 1 .. n : all[k] = v
  BY <1>1, <1>5, <1>7, <1>8
<1>10. QED  BY <1>7, <1>9 DEF ToSet, all

LEMMA ItemsAre ==
  ASSUME PlanTypes, items = Cut(Candidates(limit), limit)
  PROVE  /\ \A v : v \in Items("needs-workload") \cup Items("manual") => v \in Node /\ ScoreIn(v) = Score(v)
         /\ Len(items) < limit =>
              \A v \in Node : Score(v) > 0 => v \in Items("needs-workload") \cup Items("manual")
<1> DEFINE Hot == ToSet(Hotspots(limit))
<1>1. items \in Seq(Both) /\ Len(items) \in Nat /\ DOMAIN items = 1 .. Len(items)
  BY WorklistIs
<1>2. \A x \in ToSet(items) : x \in Both
  BY <1>1 DEF ToSet
<1>3. \A x \in Both : (\E v \in Dead : x = Removal(v)) \/ (\E v \in Hot : x = Hotspot(v))
  BY DEF Both
<1>4. Hot \subseteq Node /\ Dead \subseteq Node
  BY BothIs
<1>5. \A v :
        /\ Removal(v).node = v /\ Removal(v).readiness = "auto-applicable"
        /\ Hotspot(v).node = v /\ Hotspot(v).score = Score(v)
        /\ Hotspot(v).readiness \in {"needs-workload", "manual"}
  BY DEF Removal, Hotspot, Readiness
<1> HIDE DEF Hot
<1>6. ASSUME NEW v, v \in Items("needs-workload") \cup Items("manual")
      PROVE  v \in Node /\ ScoreIn(v) = Score(v)
  <2>1. PICK x \in ToSet(items) : x.readiness \in {"needs-workload", "manual"} /\ v = x.node
    BY <1>1, <1>6 DEF Items, ToSet
  <2>2. x.readiness # "auto-applicable"
    BY <2>1
  <2>3. v \in Hot
    BY <1>2, <1>3, <1>5, <2>1, <2>2
  <2> DEFINE y == CHOOSE item \in ToSet(items) : item.node = v /\ item.readiness # "auto-applicable"
  <2>4. y \in ToSet(items) /\ y.node = v /\ y.readiness # "auto-applicable"
    BY <2>1, <2>2
  <2>5. ScoreIn(v) = y.score
    BY DEF ScoreIn
  <2> HIDE DEF y
  <2>6. y = Hotspot(v)
    BY <1>2, <1>3, <1>5, <2>4
  <2>7. QED  BY <1>4, <1>5, <2>3, <2>5, <2>6
<1>7. ASSUME Len(items) < limit, NEW v \in Node, Score(v) > 0
      PROVE  v \in Items("needs-workload") \cup Items("manual")
  <2>1. Cardinality(Both) < limit /\ Both \subseteq ToSet(items)
    BY <1>7, WorklistIs
  <2>2. v \in Hot
    BY <1>7, <2>1, HotspotsAreAll DEF Hot
  <2>3. Hotspot(v) \in ToSet(items)
    BY <2>1, <2>2 DEF Both, Hot
  <2>4. PICK i \in DOMAIN items : items[i] = Hotspot(v)
    BY <2>3 DEF ToSet
  <2>5. QED  BY <1>5, <2>4 DEF Items
<1>8. QED  BY <1>6, <1>7

\* What is planned is what the plan says of a graph that has not changed since.
PlanIInv ==
  /\ PlanTypes
  /\ planned \in BOOLEAN
  /\ planned => items = Cut(Candidates(limit), limit)

LEMMA PlanStarts == PlanInit => PlanIInv
<1> SUFFICES ASSUME PlanInit PROVE PlanIInv
  OBVIOUS
<1>1. selfTime \in [Node -> Nat]
  BY CampaignAssumption DEF PlanInit
<1>2. QED  BY <1>1, CampaignAssumption DEF PlanInit, PlanIInv, PlanTypes

LEMMA PlanKeeps == PlanIInv /\ [Plan]_planVars => PlanIInv'
<1> SUFFICES ASSUME PlanIInv, [Plan]_planVars PROVE PlanIInv'
  OBVIOUS
<1>1. UNCHANGED <<calls, used, selfTime, by, limit, maxBlast>>
  BY DEF Plan, planVars
<1>2. PlanTypes'
  BY <1>1 DEF PlanIInv, PlanTypes
<1>3. Candidates(limit)' = Candidates(limit)
  BY <1>1 DEF Candidates, Dead, Removal, Hotspot, Hotspots, Readiness, BlastRadius, Within, Score, Before
<1>4. CASE Plan
  BY <1>1, <1>2, <1>3, <1>4 DEF Plan, PlanIInv
<1>5. CASE UNCHANGED planVars
  BY <1>1, <1>2, <1>3, <1>5 DEF planVars, PlanIInv
<1>6. QED  BY <1>4, <1>5

LEMMA PlanIInvHolds == PlanSpec => []PlanIInv
BY PlanStarts, PlanKeeps, PTL DEF PlanSpec

(***************************************************************************)
(* hotspots --by blast-radius: whatever the graph, the score of a hotspot   *)
(* is the number of other symbols that reach it by calls, and a worklist    *)
(* that is not full has left out none that is reached.                      *)
(***************************************************************************)
THEOREM ImpactIsCounted == PlanSpec => []ImpactCounted
<1>1. PlanIInv => ImpactCounted
  <2> SUFFICES ASSUME PlanIInv, planned, by = "blast-radius"
               PROVE  /\ \A v \in Items("needs-workload") \cup Items("manual") :
                            ScoreIn(v) = Cardinality(Impact(v))
                      /\ Len(items) < limit =>
                           \A v \in Node :
                             Impact(v) # {} => v \in Items("needs-workload") \cup Items("manual")
    BY DEF ImpactCounted
  <2>1. PlanTypes /\ items = Cut(Candidates(limit), limit)
    BY DEF PlanIInv
  <2>2. ASSUME NEW v, v \in Items("needs-workload") \cup Items("manual")
        PROVE  ScoreIn(v) = Cardinality(Impact(v))
    <3>1. v \in Node /\ ScoreIn(v) = Score(v)
      BY <2>1, <2>2, ItemsAre
    <3>2. QED  BY <2>1, <3>1, ScoreIs
  <2>3. ASSUME Len(items) < limit, NEW v \in Node, Impact(v) # {}
        PROVE  v \in Items("needs-workload") \cup Items("manual")
    <3>1. Score(v) > 0
      BY <2>1, <2>3, ScoreIs
    <3>2. QED  BY <2>1, <2>3, <3>1, ItemsAre
  <2>4. QED  BY <2>2, <2>3
<1>2. QED  BY PlanIInvHolds, <1>1, PTL

LEMMA WithinIs ==
  ASSUME NEW v
  PROVE  /\ Within(v) \in [0 .. Depth -> SUBSET Node]
         /\ \A d \in 0 .. Depth :
              Within(v)[d] = IF d = 0 THEN {} ELSE Callers(calls, {v} \cup Within(v)[d - 1])
<1> DEFINE D == 0 .. Depth
           V == SUBSET Node
           F(f, d) == IF d = 0 THEN {} ELSE Callers(calls, {v} \cup f[d - 1])
           Phi == [f \in [D -> V] |-> [d \in D |-> F(f, d)]]
           r == [d \in D |-> d]
<1>1. Depth \in Nat /\ r \in [D -> Nat] /\ \A d \in D : r[d] = d
  BY CampaignAssumption
<1>2. V # {}
  OBVIOUS
<1>3. \A f \in [D -> V], d \in D : F(f, d) \in V
  BY DEF Callers
<1> HIDE DEF V
<1>4. Phi \in [[D -> V] -> [D -> V]]
  BY <1>3
<1>5. \A f \in [D -> V] : Phi[f] = [d \in D |-> F(f, d)]
  OBVIOUS
<1>6. ASSUME NEW f \in [D -> V], NEW g \in [D -> V], NEW d \in D, \A b \in D : r[b] < r[d] => f[b] = g[b]
      PROVE  Phi[f][d] = Phi[g][d]
  <2>1. d # 0 => d - 1 \in D /\ r[d - 1] < r[d]
    BY <1>1
  <2>2. F(f, d) = F(g, d)
    BY <1>6, <2>1
  <2>3. Phi[f][d] = F(f, d) /\ Phi[g][d] = F(g, d)
    BY <1>5
  <2>4. QED  BY <2>2, <2>3
<1> HIDE DEF Phi, F, r, D
<1>7. Descends(D, V, r, Phi)
  BY <1>4, <1>6 DEF Descends
<1>8. PICK f \in [D -> V] : f = Phi[f]
  BY <1>1, <1>2, <1>7, Recursion
<1>9. f = [d \in D |-> F(f, d)]
  BY <1>5, <1>8
<1> DEFINE Rec(g) == g = [d \in D |-> F(g, d)]
<1>10. Rec(CHOOSE g : Rec(g))
  <2>1. Rec(f)
    BY <1>9
  <2> HIDE DEF Rec
  <2>2. QED  BY <2>1
<1>11. Within(v) = CHOOSE g : Rec(g)
  BY DEF Within, F, D
<1> DEFINE W == Within(v)
<1>12. W = [d \in D |-> F(W, d)]
  BY <1>10, <1>11
<1> HIDE DEF W
<1>13. \A d \in D : W[d] = F(W, d)
  BY <1>12
<1>14. \A d \in D : W[d] \in V
  BY <1>13 DEF F, V, Callers
<1>15. W \in [D -> V]
  BY <1>12, <1>14
<1>16. QED  BY <1>13, <1>15 DEF W, D, V, F

CallersOfAny(v, X) == Callers(calls, {v} \cup X)

LEMMA RadiusReachesAll ==
  ASSUME PlanTypes, NEW v \in Node, CallersOfAny(v, BlastRadius(v)) \subseteq BlastRadius(v)
  PROVE  Above(v) \subseteq BlastRadius(v)
<1> DEFINE W == BlastRadius(v)
           S == Node \ ({v} \cup W)
<1>1. CallersOfAny(v, W) \subseteq W
  OBVIOUS
<1> HIDE DEF W
<1>2. \A x \in S : calls[x] \subseteq S
  BY <1>1 DEF CallersOfAny, Callers, PlanTypes
<1>3. S \in SUBSET Node /\ Closed(calls, S) /\ v \notin S
  BY <1>2 DEF Closed
<1>4. \A u \in S : ~Reaches(calls, u, v)
  BY <1>3 DEF Reaches
<1>5. ASSUME NEW u \in Above(v) PROVE u \in W
  <2>1. PICK w \in calls[u] : u \in Node /\ Reaches(calls, w, v)
    BY DEF Above
  <2>2. w \in {v} \cup W
    BY <1>4, <2>1 DEF PlanTypes
  <2>3. u \in CallersOfAny(v, W)
    BY <2>1, <2>2 DEF CallersOfAny, Callers
  <2>4. QED  BY <1>1, <2>3
<1>6. QED  BY <1>5 DEF W

LEMMA RadiusIsAbove ==
  ASSUME PlanTypes, NEW v \in Node
  PROVE  BlastRadius(v) \subseteq Above(v)
<1> DEFINE W == Within(v)
           T == {d \in 0 .. Depth : W[d] \subseteq Above(v)}
<1>1. Depth \in Nat /\ \A d \in 0 .. Depth : W[d] = IF d = 0 THEN {} ELSE CallersOfAny(v, W[d - 1])
  BY WithinIs, CampaignAssumption DEF CallersOfAny
<1> HIDE DEF W
<1>2. Reaches(calls, v, v)
  BY DEF Reaches
<1>3. ASSUME NEW w \in Above(v) PROVE Reaches(calls, w, v)
  BY <1>3 DEF Above, Reaches, Closed
<1>4. ASSUME NEW k \in 0 .. Depth, \A j \in 0 .. Depth : j < k => j \in T PROVE k \in T
  <2>1. CASE k = 0
    BY <1>1, <2>1
  <2>2. CASE k > 0
    <3>1. k - 1 \in 0 .. Depth /\ k - 1 < k
      BY <1>1, <2>2
    <3>2. W[k - 1] \subseteq Above(v) /\ W[k] = CallersOfAny(v, W[k - 1])
      BY <1>1, <1>4, <2>2, <3>1
    <3>3. QED  BY <1>2, <1>3, <3>2 DEF CallersOfAny, Callers, Above
  <2>3. QED  BY <1>1, <2>1, <2>2
<1>5. 0 .. Depth \subseteq T
  <2> HIDE DEF T
  <2>1. QED  BY <1>1, <1>4, SetInduction
<1>6. QED  BY <1>1, <1>5 DEF BlastRadius, W

\* Each look further finds a node, or there is no more to find.
LEMMA RadiusSettles ==
  ASSUME PlanTypes, NEW v \in Node
  PROVE  CallersOfAny(v, BlastRadius(v)) \subseteq BlastRadius(v) \/ Cardinality(BlastRadius(v)) >= Depth
<1> DEFINE W == Within(v)
           Grown(d) == /\ W[d] \subseteq CallersOfAny(v, W[d])
                       /\ CallersOfAny(v, W[d]) \subseteq W[d] \/ Cardinality(W[d]) >= d
           T == {d \in 0 .. Depth : Grown(d)}
<1>1. /\ \A d \in 0 .. Depth : W[d] \in SUBSET Node
      /\ W[0] = {}
      /\ \A d \in 0 .. Depth : d > 0 => W[d] = CallersOfAny(v, W[d - 1])
  <2>1. \A d \in 0 .. Depth : W[d] \in SUBSET Node
    BY WithinIs
  <2>2. \A d \in 0 .. Depth : W[d] = IF d = 0 THEN {} ELSE CallersOfAny(v, W[d - 1])
    BY WithinIs DEF CallersOfAny
  <2> HIDE DEF W
  <2>3. QED  BY <2>1, <2>2, CampaignAssumption
<1>2. \A X, Y : X \subseteq Y => CallersOfAny(v, X) \subseteq CallersOfAny(v, Y)
  BY DEF CallersOfAny, Callers
<1> HIDE DEF W
<1>3. \A d \in 0 .. Depth : IsFiniteSet(W[d]) /\ Cardinality(W[d]) \in Nat
  BY <1>1, NodeFinite, FS_Subset, FS_CardinalityType
<1>4. ASSUME NEW k \in 0 .. Depth, \A j \in 0 .. Depth : j < k => j \in T PROVE k \in T
  <2>1. CASE k = 0
    <3>1. Cardinality(W[0]) = 0
      BY <1>1, FS_EmptySet
    <3>2. QED  BY <1>1, <2>1, <3>1
  <2>2. CASE k > 0
    <3>1. PICK d \in 0 .. Depth : d = k - 1 /\ d < k /\ W[k] = CallersOfAny(v, W[d])
      <4>1. k - 1 \in 0 .. Depth /\ k - 1 < k
        BY <2>2, CampaignAssumption
      <4>2. W[k] = CallersOfAny(v, W[k - 1])
        BY <1>1, <2>2
      <4>3. QED  BY <4>1, <4>2
    <3>2. Grown(d)
      BY <1>4, <3>1
    <3>3. W[d] \subseteq W[k] /\ W[k] \subseteq CallersOfAny(v, W[k])
      BY <1>2, <3>1, <3>2
    <3>4. CASE CallersOfAny(v, W[d]) \subseteq W[d]
      <4>1. W[k] = W[d]
        BY <3>1, <3>3, <3>4
      <4>2. QED  BY <3>3, <3>4, <4>1
    <3>5. CASE ~(CallersOfAny(v, W[d]) \subseteq W[d])
      <4>1. W[k] # W[d] /\ Cardinality(W[d]) >= d
        BY <3>1, <3>2, <3>5
      <4>2. Cardinality(W[d]) <= Cardinality(W[k]) /\ Cardinality(W[d]) # Cardinality(W[k])
        BY <1>3, <3>3, <4>1, FS_Subset
      <4>3. Cardinality(W[k]) >= k
        BY <1>3, <3>1, <4>1, <4>2
      <4>4. QED  BY <3>3, <4>3
    <3>6. QED  BY <3>4, <3>5
  <2>3. QED  BY <2>1, <2>2
<1>5. 0 .. Depth \subseteq T
  <2>1. Depth \in Nat
    BY CampaignAssumption
  <2> HIDE DEF T
  <2>2. QED  BY <1>4, <2>1, SetInduction
<1>6. Depth \in 0 .. Depth /\ Grown(Depth)
  BY <1>5, CampaignAssumption
<1>7. QED  BY <1>6 DEF BlastRadius, W

(***************************************************************************)
(* The ceiling of a campaign, for a graph of any size and any depth: more   *)
(* symbols than it says reach a hotspot that is tagged manual, and where it *)
(* is below the depth of blastRadius no more than it says reach one that is *)
(* offered to agents.                                                       *)
(***************************************************************************)
THEOREM CeilingAlwaysHolds == PlanSpec => []CeilingHolds
<1>1. PlanIInv => CeilingHolds
  <2> SUFFICES ASSUME PlanIInv, planned
               PROVE  /\ \A v \in Items("manual") : Cardinality(Above(v)) > maxBlast
                      /\ maxBlast < Depth =>
                           \A v \in Items("needs-workload") : Cardinality(Above(v)) <= maxBlast
    BY DEF CeilingHolds
  <2>1. PlanTypes /\ items = Cut(Candidates(limit), limit) /\ maxBlast \in Nat
    BY DEF PlanIInv, PlanTypes
  <2>2. items \in Seq(Both)
    BY <2>1, WorklistIs
  <2>3. ASSUME NEW tag \in {"needs-workload", "manual"}, NEW v \in Items(tag)
        PROVE  v \in Node /\ Readiness(v) = tag
    <3>1. PICK x \in Both : x.readiness = tag /\ x.node = v
      BY <2>2 DEF Items
    <3>2. PICK w \in Node : x = Hotspot(w)
      BY <2>1, <3>1, BothIs DEF Both, Removal
    <3>3. QED  BY <3>1, <3>2 DEF Hotspot
  <2>4. ASSUME NEW v \in Node
        PROVE  /\ IsFiniteSet(Above(v)) /\ Cardinality(Above(v)) \in Nat
               /\ Cardinality(BlastRadius(v)) \in Nat
               /\ Cardinality(BlastRadius(v)) <= Cardinality(Above(v))
    <3>1. IsFiniteSet(Above(v))
      BY NodeFinite, FS_Subset DEF Above
    <3>2. BlastRadius(v) \subseteq Above(v)
      BY <2>1, RadiusIsAbove
    <3>3. QED  BY <3>1, <3>2, FS_Subset, FS_CardinalityType
  <2>5. ASSUME NEW v \in Items("manual") PROVE Cardinality(Above(v)) > maxBlast
    <3>1. v \in Node /\ ~(Cardinality(BlastRadius(v)) <= maxBlast)
      BY <2>3 DEF Readiness
    <3>2. QED  BY <2>1, <2>4, <3>1
  <2>6. ASSUME maxBlast < Depth, NEW v \in Items("needs-workload")
        PROVE  Cardinality(Above(v)) <= maxBlast
    <3>1. v \in Node /\ Cardinality(BlastRadius(v)) <= maxBlast
      BY <2>3 DEF Readiness
    <3>2. ~(Cardinality(BlastRadius(v)) >= Depth)
      BY <2>1, <2>4, <2>6, <3>1, CampaignAssumption
    <3>3. Above(v) \subseteq BlastRadius(v)
      BY <2>1, <3>1, <3>2, RadiusSettles, RadiusReachesAll
    <3>4. Above(v) = BlastRadius(v)
      BY <2>1, <3>1, <3>3, RadiusIsAbove
    <3>5. QED  BY <3>1, <3>4
  <2>7. QED  BY <2>5, <2>6
<1>2. QED  BY PlanIInvHolds, <1>1, PTL

-----------------------------------------------------------------------------
(* The rankings of a report                                                 *)

\* What keeping those of s that are in K makes: at says where in s each of them is.
Keeps(k, s, K, at) ==
  /\ Len(k) \in 0 .. Len(s) /\ at \in [1 .. Len(k) -> 1 .. Len(s)]
  /\ \A i \in 1 .. Len(k) : k[i] = s[at[i]] /\ k[i] \in K
  /\ \A i, j \in 1 .. Len(k) : i < j => at[i] < at[j]
  /\ \A j \in 1 .. Len(s) : s[j] \in K => \E i \in 1 .. Len(k) : at[i] = j

LEMMA KeptIs ==
  ASSUME NEW S, NEW s \in Seq(S), NEW K
  PROVE  Kept(s, K) \in Seq(S) /\ \E at : Keeps(Kept(s, K), s, K, at)
<1> DEFINE D == {i \in DOMAIN s : s[i] \in K}
           r == {e \in (DOMAIN s) \X (DOMAIN s) : e[1] < e[2]}
<1>1. Len(s) \in Nat /\ DOMAIN s = 1 .. Len(s) /\ \A i \in 1 .. Len(s) : s[i] \in S
  OBVIOUS
<1>2. \A x, y \in DOMAIN s : <<x, y>> \in r <=> x < y
  OBVIOUS
<1>3. \A i : i \in D <=> i \in 1 .. Len(s) /\ s[i] \in K
  BY <1>1
<1>4. D \in SUBSET (1 .. Len(s)) /\ D \subseteq DOMAIN s /\ D \subseteq Nat
  BY <1>1
<1>5. PICK at : at = InOrder(D, r)
  OBVIOUS
<1>6. Kept(s, K) = [k \in DOMAIN at |-> s[at[k]]]
  BY <1>5 DEF Kept
<1> HIDE DEF D, r
<1>7. IsFiniteSet(D) /\ Cardinality(D) <= Len(s)
  <2>1. IsFiniteSet(1 .. Len(s)) /\ Cardinality(1 .. Len(s)) = Len(s)
    BY <1>1, IntervalCount
  <2>2. QED  BY <1>4, <2>1, FS_Subset
<1>8. Orders(r, D)
  <2>1. \A x, y \in D : <<x, y>> \in r <=> x < y
    BY <1>2, <1>4
  <2>2. QED  BY <1>4, <2>1 DEF Orders
<1>9. /\ Cardinality(D) \in Nat /\ at \in Seq(D) /\ Len(at) = Cardinality(D)
      /\ \A x \in D : \E k \in 1 .. Cardinality(D) : at[k] = x
      /\ \A i, j \in 1 .. Cardinality(D) : i < j => <<at[i], at[j]>> \in r
  BY <1>5, <1>7, <1>8, InOrderIs
<1>10. PICK n \in Nat : n = Cardinality(D) /\ n <= Len(s) /\ DOMAIN at = 1 .. n /\ \A i \in 1 .. n : at[i] \in D
  BY <1>7, <1>9
<1>11. PICK k : k = Kept(s, K)
  OBVIOUS
<1>12. k = [i \in 1 .. n |-> s[at[i]]]
  BY <1>6, <1>10, <1>11
<1>13. \A i \in 1 .. n : at[i] \in 1 .. Len(s) /\ s[at[i]] \in K /\ s[at[i]] \in S
  BY <1>1, <1>3, <1>10
<1>14. k \in [1 .. n -> S]
  BY <1>12, <1>13
<1>15. k \in Seq(S) /\ Len(k) = n
  BY <1>14
<1>16. at \in [1 .. n -> 1 .. Len(s)]
  <2>1. at = [i \in 1 .. n |-> at[i]]
    BY <1>9, <1>10
  <2>2. QED  BY <1>13, <2>1
<1>17. \A i, j \in 1 .. n : i < j => at[i] < at[j]
  BY <1>2, <1>4, <1>9, <1>10
<1>18. \A j \in 1 .. Len(s) : s[j] \in K => \E i \in 1 .. n : at[i] = j
  BY <1>3, <1>9, <1>10
<1>19. n \in 0 .. Len(s) /\ \A i \in 1 .. n : k[i] = s[at[i]] /\ k[i] \in K
  BY <1>1, <1>10, <1>12, <1>13
<1>20. Keeps(k, s, K, at)
  BY <1>15, <1>16, <1>17, <1>18, <1>19 DEF Keeps
<1>21. QED  BY <1>11, <1>15, <1>20

\* All that score, the highest first.
Ranks(s, score) ==
  /\ s \in Seq(Node) /\ Len(s) \in 0 .. N
  /\ \A k \in 1 .. Len(s) : score[s[k]] > 0
  /\ \A v \in Node : score[v] > 0 => \E k \in 1 .. Len(s) : s[k] = v
  /\ \A i, j \in 1 .. Len(s) : i < j => s[i] # s[j] /\ score[s[i]] >= score[s[j]]

\* As many of s as there may be.
Heads(h, s, count) ==
  /\ h \in Seq(Node) /\ Len(h) \in 0 .. Len(s)
  /\ Len(h) <= count /\ (Len(h) < count => Len(h) = Len(s))
  /\ \A i \in 1 .. Len(h) : h[i] = s[i]

LEMMA RankedIs ==
  ASSUME NEW score \in [Node -> Nat], NEW count \in Nat
  PROVE  \E s : Ranks(s, score) /\ Heads(Ranked(score, count), s, count)
<1> DEFINE S == {v \in Node : score[v] > 0}
<1>1. S \in SUBSET Node /\ \A v \in Node : v \in S <=> score[v] > 0
  OBVIOUS
<1>2. PICK s : s = InOrder(S, Higher(score))
  OBVIOUS
<1>3. Ranked(score, count) = Cut(s, count)
  BY <1>2 DEF Ranked
<1> HIDE DEF S
<1>4. Orders(Higher(score), S) /\ IsFiniteSet(S) /\ Cardinality(S) <= N
  BY <1>1, HigherOrders, NodeFinite, FS_Subset
<1>5. /\ Cardinality(S) \in Nat /\ s \in Seq(S) /\ Len(s) = Cardinality(S)
      /\ \A x \in S : \E k \in 1 .. Cardinality(S) : s[k] = x
      /\ \A i, j \in 1 .. Cardinality(S) : i < j => <<s[i], s[j]>> \in Higher(score)
  BY <1>2, <1>4, InOrderIs
<1>6. s \in Seq(Node) /\ Len(s) \in 0 .. N /\ \A k \in 1 .. Len(s) : s[k] \in S /\ s[k] \in Node
  BY <1>1, <1>4, <1>5, NAssumption
<1>7. \A i, j \in 1 .. Len(s) : i < j => s[i] # s[j] /\ score[s[i]] >= score[s[j]]
  <2> SUFFICES ASSUME NEW i \in 1 .. Len(s), NEW j \in 1 .. Len(s), i < j
               PROVE  s[i] # s[j] /\ score[s[i]] >= score[s[j]]
    OBVIOUS
  <2>1. <<s[i], s[j]>> \in Higher(score) /\ s[i] \in S /\ s[j] \in S
    BY <1>5, <1>6
  <2>2. s[i] # s[j]
    BY <1>4, <2>1 DEF Orders
  <2>3. PICK x \in Node, y \in Node : x = s[i] /\ y = s[j]
    BY <1>1, <2>1
  <2>4. score[x] > score[y] \/ score[x] = score[y]
    BY <2>1, <2>3 DEF Higher
  <2>5. score[x] \in Nat /\ score[y] \in Nat
    OBVIOUS
  <2>6. QED  BY <2>2, <2>3, <2>4, <2>5
<1>8. Ranks(s, score)
  BY <1>1, <1>5, <1>6, <1>7 DEF Ranks
<1>9. Heads(Cut(s, count), s, count)
  <2> DEFINE n == IF Len(s) < count THEN Len(s) ELSE count
             h == Cut(s, count)
  <2>1. /\ n \in 0 .. Len(s) /\ n <= count /\ (n < count => n = Len(s))
        /\ h \in Seq(Node) /\ Len(h) = n
        /\ \A i \in 1 .. n : h[i] = s[i]
    BY <1>6, CutIs
  <2> HIDE DEF n, h
  <2>2. Heads(h, s, count)
    BY <2>1 DEF Heads
  <2>3. QED  BY <2>2 DEF h
<1>10. QED  BY <1>3, <1>8, <1>9

\* Cutting once more leaves the head of the same ranking.
LEMMA HeadsOfHeads ==
  ASSUME NEW s, s \in Seq(Node), NEW count \in Nat, NEW h, Heads(h, s, count), NEW less \in 0 .. count
  PROVE  Heads(Cut(h, less), s, less)
<1> DEFINE n == IF Len(h) < less THEN Len(h) ELSE less
           c == Cut(h, less)
<1>1. /\ h \in Seq(Node) /\ less \in Nat /\ less <= count /\ Len(h) \in 0 .. Len(s) /\ Len(s) \in Nat
      /\ (Len(h) < count => Len(h) = Len(s)) /\ Len(h) <= count
      /\ \A i \in 1 .. Len(h) : h[i] = s[i]
  BY DEF Heads
<1>2. /\ n \in 0 .. Len(h) /\ n <= less /\ (n < less => n = Len(h))
      /\ c \in Seq(Node) /\ Len(c) = n
      /\ \A i \in 1 .. n : c[i] = h[i]
  BY <1>1, CutIs
<1> HIDE DEF n, c
<1>3. Heads(c, s, less)
  <2>1. n \in 0 .. Len(s) /\ n <= less /\ (n < less => n = Len(s))
    BY <1>1, <1>2
  <2>2. \A i \in 1 .. n : c[i] = s[i]
    BY <1>1, <1>2
  <2>3. QED  BY <1>2, <2>1, <2>2 DEF Heads
<1>4. QED  BY <1>3 DEF c

\* A limit that is no smaller than the graph cuts nothing off.
LEMMA AllRanked ==
  ASSUME NEW score \in [Node -> Nat], NEW count \in Nat, N <= count
  PROVE  Ranks(Ranked(score, count), score)
<1>1. PICK s : Ranks(s, score) /\ Heads(Ranked(score, count), s, count)
  BY RankedIs
<1>2. PICK h : h = Ranked(score, count)
  OBVIOUS
<1>3. h \in Seq(Node) /\ s \in Seq(Node) /\ Len(h) = Len(s) /\ \A i \in 1 .. Len(h) : h[i] = s[i]
  BY <1>1, <1>2, NAssumption DEF Ranks, Heads
<1>4. h = s
  BY <1>3
<1>5. QED  BY <1>1, <1>2, <1>4

-----------------------------------------------------------------------------
(* Half of the self time                                                    *)

Tops(s, k) == {s[i] : i \in 1 .. k}

LEMMA SumOfIs == ASSUME NEW f PROVE SumOf(f) = SumOver(f, DOMAIN f)
BY DEF SumOf, SumOver

LEMMA TopsOneMore ==
  ASSUME NEW s, NEW k \in Nat
  PROVE  Tops(s, k + 1) = Tops(s, k) \cup {s[k + 1]} /\ Tops(s, 0) = {}
<1>1. 1 .. k + 1 = (1 .. k) \cup {k + 1} /\ 1 .. 0 = {}
  OBVIOUS
<1>2. QED  BY <1>1 DEF Tops

\* What the first k of a ranking by self time spend is what those nodes spend, and no
\* k nodes spend more.
LEMMA TopSums ==
  ASSUME self \in [Node -> Nat], NEW s, Ranks(s, self), NEW m \in 0 .. Len(s)
  PROVE  /\ IsFiniteSet(Tops(s, m)) /\ Tops(s, m) \subseteq Node /\ Cardinality(Tops(s, m)) = m
         /\ SelfOf(s, m) = SumOver(self, Tops(s, m)) /\ SelfOf(s, m) \in Nat
         /\ \A S \in SUBSET Node : Cardinality(S) = m => SumOver(self, S) <= SelfOf(s, m)
<1> DEFINE P(k) == /\ IsFiniteSet(Tops(s, k)) /\ Tops(s, k) \subseteq Node /\ Cardinality(Tops(s, k)) = k
                   /\ SelfOf(s, k) = SumOver(self, Tops(s, k)) /\ SelfOf(s, k) \in Nat
                   /\ \A S \in SUBSET Node : Cardinality(S) = k => SumOver(self, S) <= SelfOf(s, k)
           T == {k \in 0 .. Len(s) : P(k)}
<1>1. /\ Len(s) \in Nat /\ \A i \in 1 .. Len(s) : s[i] \in Node
      /\ \A v \in Node : self[v] > 0 => \E k \in 1 .. Len(s) : s[k] = v
      /\ \A i, j \in 1 .. Len(s) : i < j => s[i] # s[j] /\ self[s[i]] >= self[s[j]]
  BY DEF Ranks
<1>2. \A S \in SUBSET Node : IsFiniteSet(S) /\ Cardinality(S) \in Nat /\ SumOver(self, S) \in Nat
  <2> TAKE S \in SUBSET Node
  <2>1. IsFiniteSet(S) /\ \A v \in S : self[v] \in Nat
    BY NodeFinite, FS_Subset
  <2>2. QED  BY <2>1, SumNat, FS_CardinalityType
<1>3. \A k \in 0 .. Len(s) : SelfOf(s, k) = SumOver([i \in 1 .. k |-> self[s[i]]], 1 .. k)
  BY SumOfIs DEF SelfOf
<1>4. P(0)
  <2>1. SelfOf(s, 0) = 0
    <3>1. PICK f : f = [i \in 1 .. 0 |-> self[s[i]]]
      OBVIOUS
    <3>2. 1 .. 0 = {} /\ 0 \in 0 .. Len(s)
      BY <1>1
    <3>3. QED  BY <1>3, <3>1, <3>2, SumEmpty
  <2>2. Tops(s, 0) = {}
    BY TopsOneMore
  <2>3. \A S \in SUBSET Node : Cardinality(S) = 0 => S = {}
    BY <1>2, FS_EmptySet
  <2>4. SumOver(self, {}) = 0
    BY SumEmpty
  <2>5. IsFiniteSet(Tops(s, 0)) /\ Tops(s, 0) \subseteq Node /\ Cardinality(Tops(s, 0)) = 0
    BY <2>2, FS_EmptySet
  <2>6. SelfOf(s, 0) = SumOver(self, Tops(s, 0)) /\ SelfOf(s, 0) \in Nat
    BY <2>1, <2>2, <2>4
  <2>7. \A S \in SUBSET Node : Cardinality(S) = 0 => SumOver(self, S) <= SelfOf(s, 0)
    <3> TAKE S \in SUBSET Node
    <3> SUFFICES ASSUME Cardinality(S) = 0 PROVE SumOver(self, S) <= SelfOf(s, 0)
      OBVIOUS
    <3>1. S = {}
      BY <2>3
    <3>2. SumOver(self, S) = 0
      BY <2>4, <3>1
    <3>3. QED  BY <2>1, <3>2
  <2>8. QED  BY <2>5, <2>6, <2>7
<1>5. ASSUME NEW k \in 0 .. Len(s) - 1, P(k) PROVE P(k + 1)
  <2> DEFINE v == s[k + 1]
  <2>1. k \in Nat /\ k + 1 \in 1 .. Len(s) /\ k \in 0 .. Len(s) /\ k + 1 \in 0 .. Len(s) /\ v \in Node /\ self[v] \in Nat
    BY <1>1
  <2>2. Tops(s, k + 1) = Tops(s, k) \cup {v} /\ v \notin Tops(s, k)
    <3>1. \A i \in 1 .. k : s[i] # v
      BY <1>1, <2>1
    <3>2. QED  BY <2>1, <3>1, TopsOneMore DEF Tops
  <2>3. SelfOf(s, k + 1) = SelfOf(s, k) + self[v]
    <3> DEFINE f == [i \in 1 .. k |-> self[s[i]]]
               g == [i \in 1 .. k + 1 |-> self[s[i]]]
    <3>1. IsFiniteSet(1 .. k) /\ k + 1 \notin 1 .. k /\ 1 .. k + 1 = (1 .. k) \cup {k + 1}
      BY <2>1, IntervalCount
    <3>2. \A i \in 1 .. k : f[i] \in Int /\ f[i] = g[i]
      BY <1>1, <2>1
    <3>3. \A i \in (1 .. k) \cup {k + 1} : g[i] \in Int
      BY <1>1, <2>1
    <3>4. g[k + 1] = self[v]
      BY <2>1
    <3>5. SelfOf(s, k) = SumOver(f, 1 .. k) /\ SelfOf(s, k + 1) = SumOver(g, 1 .. k + 1)
      BY <1>3, <2>1
    <3> HIDE DEF f, g, v
    <3>6. SumOver(f, 1 .. k) = SumOver(g, 1 .. k) /\ SumOver(f, 1 .. k) \in Int
      BY <3>1, <3>2, SumSame
    <3>7. SumOver(g, (1 .. k) \cup {k + 1}) = g[k + 1] + SumOver(g, 1 .. k)
      BY <3>1, <3>3, SumAdd
    <3>8. PICK a, b : a = self[v] /\ b = SumOver(g, 1 .. k) /\ a \in Int /\ b \in Int
      BY <2>1, <3>6
    <3>9. SelfOf(s, k + 1) = a + b
      BY <3>1, <3>4, <3>5, <3>7, <3>8
    <3>10. SelfOf(s, k) = b
      BY <3>5, <3>6, <3>8
    <3>11. QED  BY <3>8, <3>9, <3>10
  <2> HIDE DEF v
  <2>4. SumOver(self, Tops(s, k) \cup {v}) = self[v] + SumOver(self, Tops(s, k))
    <3>1. IsFiniteSet(Tops(s, k)) /\ \A y \in Tops(s, k) \cup {v} : self[y] \in Int
      BY <1>5, <2>1
    <3>2. QED  BY <2>2, <3>1, SumAdd
  <2>5. IsFiniteSet(Tops(s, k + 1)) /\ Tops(s, k + 1) \subseteq Node /\ Cardinality(Tops(s, k + 1)) = k + 1
    <3>1. PICK R : R = Tops(s, k) \cup {v}
      OBVIOUS
    <3>2. IsFiniteSet(R) /\ Cardinality(R) = Cardinality(Tops(s, k)) + 1
      BY <1>5, <2>2, <3>1, FS_AddElement
    <3>3. R \subseteq Node /\ Tops(s, k + 1) = R
      BY <1>5, <2>1, <2>2, <3>1
    <3>4. QED  BY <1>5, <3>2, <3>3
  <2>6. SelfOf(s, k + 1) = SumOver(self, Tops(s, k + 1)) /\ SelfOf(s, k + 1) \in Nat
    <3>1. PICK a, b : a = self[v] /\ b = SelfOf(s, k) /\ a \in Nat /\ b \in Nat
      BY <1>5, <2>1
    <3>2. SumOver(self, Tops(s, k + 1)) = a + b
      BY <1>5, <2>2, <2>4, <3>1
    <3>3. SelfOf(s, k + 1) = b + a
      BY <2>3, <3>1
    <3>4. QED  BY <3>1, <3>2, <3>3
  <2>7. ASSUME NEW S \in SUBSET Node, Cardinality(S) = k + 1 PROVE SumOver(self, S) <= SelfOf(s, k + 1)
    <3>1. \E x \in S : x \notin Tops(s, k)
      <4>1. SUFFICES ASSUME S \subseteq Tops(s, k) PROVE FALSE
        OBVIOUS
      <4>2. Cardinality(S) <= Cardinality(Tops(s, k))
        BY <1>5, <4>1, FS_Subset
      <4>3. QED  BY <1>5, <2>1, <2>7, <4>2
    <3>2. PICK x \in S : x \notin Tops(s, k)
      BY <3>1
    <3>3. x \in Node /\ self[x] \in Nat /\ self[x] <= self[v]
      <4>1. CASE self[x] = 0
        BY <2>1, <4>1
      <4>2. CASE self[x] > 0
        <5>1. PICK j \in 1 .. Len(s) : s[j] = x
          BY <1>1, <4>2
        <5>2. ~(j \in 1 .. k)
          BY <3>2, <5>1 DEF Tops
        <5>3. j = k + 1 \/ k + 1 < j
          BY <2>1, <5>1, <5>2
        <5>4. self[s[k + 1]] >= self[s[j]]
          BY <1>1, <2>1, <5>1, <5>3
        <5>5. self[x] \in Nat
          OBVIOUS
        <5>6. QED  BY <2>1, <5>1, <5>4, <5>5 DEF v
      <4>3. self[x] \in Nat
        OBVIOUS
      <4>4. QED  BY <4>1, <4>2, <4>3
    <3>4. PICK R : R = S \ {x}
      OBVIOUS
    <3>5. R \in SUBSET Node /\ IsFiniteSet(R) /\ x \notin R /\ S = R \cup {x}
      BY <1>2, <3>2, <3>4
    <3>6. Cardinality(R) = k
      BY <1>2, <2>1, <2>7, <3>2, <3>4, FS_RemoveElement
    <3>7. SumOver(self, R) <= SelfOf(s, k)
      BY <1>5, <3>5, <3>6
    <3>8. SumOver(self, R \cup {x}) = self[x] + SumOver(self, R)
      <4>1. \A y \in R \cup {x} : self[y] \in Int
        BY <3>3, <3>5
      <4>2. QED  BY <3>5, <4>1, SumAdd
    <3>9. SumOver(self, R) \in Nat /\ SelfOf(s, k) \in Nat
      BY <1>2, <1>5, <3>5
    <3>10. QED  BY <2>1, <2>3, <3>3, <3>5, <3>7, <3>8, <3>9
  <2>8. QED  BY <2>5, <2>6, <2>7
<1> HIDE DEF P
<1>6. 0 .. Len(s) \subseteq T
  <2>1. ASSUME NEW i \in 0 .. Len(s), \A j \in 0 .. Len(s) : j < i => j \in T PROVE i \in T
    <3>1. CASE i = 0
      BY <1>4, <3>1
    <3>2. CASE i > 0
      <4>1. PICK k \in 0 .. Len(s) - 1 : i = k + 1
        <5>1. i - 1 \in 0 .. Len(s) - 1 /\ i = (i - 1) + 1
          BY <1>1, <3>2
        <5>2. QED  BY <5>1
      <4>2. P(k)
        BY <1>1, <2>1, <4>1
      <4>3. QED  BY <1>5, <4>1, <4>2
    <3>3. QED  BY <3>1, <3>2
  <2> HIDE DEF T
  <2>2. QED  BY <1>1, <2>1, SetInduction
<1>7. P(m)
  BY <1>6
<1>8. QED  BY <1>7 DEF P

LEMMA LimitIs == ASSUME option \in Int PROVE ClampLimit(option) \in 1 .. MaxRows
BY ReportAssumption DEF ClampLimit

LEMMA LeastIs ==
  ASSUME NEW S \in SUBSET Nat, S # {}
  PROVE  Min(S) \in S /\ \A x \in S : Min(S) <= x
<1>1. \E x \in S : \A y \in S : x <= y
  BY LeastOf
<1>2. QED  BY <1>1 DEF Min

LEMMA TopsAreAll ==
  ASSUME self \in [Node -> Nat], NEW s, Ranks(s, self)
  PROVE  SelfOf(s, Len(s)) = TotalSelf /\ TotalSelf \in Nat
<1>1. Len(s) \in 0 .. Len(s) /\ Len(s) \in Nat
  BY DEF Ranks
<1>2. TotalSelf = SumOver(self, Node)
  BY SumOfIs DEF TotalSelf
<1>3. PICK R : R = Tops(s, Len(s))
  OBVIOUS
<1>4. R \in SUBSET Node /\ SelfOf(s, Len(s)) = SumOver(self, R) /\ SelfOf(s, Len(s)) \in Nat
  BY <1>1, <1>3, TopSums
<1>5. \A v \in Node \ R : self[v] = 0
  <2>1. \A v \in Node : self[v] > 0 => v \in R
    BY <1>3 DEF Ranks, Tops
  <2>2. \A v \in Node : self[v] \in Nat
    OBVIOUS
  <2>3. QED  BY <2>1, <2>2
<1>6. SumOver(self, Node) = SumOver(self, R)
  <2>1. \A v \in Node : self[v] \in Int
    OBVIOUS
  <2>2. QED  BY <1>4, <1>5, <2>1, NodeFinite, SumZeros
<1>7. QED  BY <1>2, <1>4, <1>6

Halves == {S \in SUBSET Node : 2 * SumOf([v \in S |-> self[v]]) >= TotalSelf}

LEMMA HalvesAre ==
  ASSUME self \in [Node -> Nat], NEW S \in SUBSET Node
  PROVE  /\ IsFiniteSet(S) /\ Cardinality(S) \in Nat /\ SumOver(self, S) \in Nat
         /\ S \in Halves <=> 2 * SumOver(self, S) >= TotalSelf
<1>1. IsFiniteSet(S) /\ \A v \in S : self[v] \in Nat
  BY NodeFinite, FS_Subset
<1>2. Cardinality(S) \in Nat /\ SumOver(self, S) \in Nat
  BY <1>1, SumNat, FS_CardinalityType
<1>3. SumOf([v \in S |-> self[v]]) = SumOver(self, S)
  <2>1. PICK f : f = [v \in S |-> self[v]]
    OBVIOUS
  <2>2. DOMAIN f = S /\ \A v \in S : f[v] \in Int /\ f[v] = self[v]
    BY <1>1, <2>1
  <2>3. SumOf(f) = SumOver(f, S)
    BY <2>2, SumOfIs
  <2>4. SumOver(f, S) = SumOver(self, S)
    BY <1>1, <2>2, SumSame
  <2>5. QED  BY <2>1, <2>3, <2>4
<1>4. QED  BY <1>1, <1>2, <1>3 DEF Halves

\* The finding says how few it takes, if the list is as long as that.
LEMMA ConcentrationIs ==
  ASSUME self \in [Node -> Nat], option \in Int, Enriched, NEW few, few = Min({Cardinality(S) : S \in Halves})
  PROVE  Concentration(Cut(BySelfTime, ClampLimit(option))) = IF few <= ClampLimit(option) THEN few ELSE 0
<1>1. PICK L : L = ClampLimit(option)
  OBVIOUS
<1>2. L \in 1 .. MaxRows /\ L \in Nat /\ L \in 0 .. MaxRows /\ MaxRows \in Nat
  BY <1>1, LimitIs, ReportAssumption
<1>3. PICK s : Ranks(s, self) /\ Heads(BySelfTime, s, MaxRows)
  BY <1>2, RankedIs DEF BySelfTime
<1>4. PICK hot : hot = Cut(BySelfTime, L)
  OBVIOUS
<1>5. Heads(hot, s, L)
  BY <1>2, <1>3, <1>4, HeadsOfHeads DEF Ranks
<1>6. /\ Len(s) \in Nat /\ Len(hot) \in 0 .. Len(s) /\ Len(hot) <= L /\ (Len(hot) < L => Len(hot) = Len(s))
      /\ DOMAIN hot = 1 .. Len(hot) /\ \A i \in 1 .. Len(hot) : hot[i] = s[i]
  BY <1>2, <1>3, <1>5 DEF Heads, Ranks
<1>7. \A k \in 1 .. Len(hot) : SelfOf(hot, k) = SelfOf(s, k)
  <2> TAKE k \in 1 .. Len(hot)
  <2>1. [i \in 1 .. k |-> self[hot[i]]] = [i \in 1 .. k |-> self[s[i]]]
    BY <1>6
  <2>2. QED  BY <2>1 DEF SelfOf
<1>8. TotalSelf \in Nat /\ TotalSelf > 0 /\ SelfOf(s, Len(s)) = TotalSelf
  <2>1. TotalSelf \in Nat /\ SelfOf(s, Len(s)) = TotalSelf
    BY <1>3, TopsAreAll
  <2>2. PICK v \in Node : self[v] > 0
    BY DEF Enriched
  <2>3. self[v] \in Nat /\ SumOver(self, {v}) = self[v]
    BY SumSingle
  <2>4. SumOver(self, {v}) <= SumOver(self, Node)
    <3>1. {v} \in SUBSET Node /\ \A u \in Node : self[u] \in Nat
      OBVIOUS
    <3>2. QED  BY <3>1, NodeFinite, SumNat
  <2>5. TotalSelf = SumOver(self, Node)
    BY SumOfIs DEF TotalSelf
  <2>6. QED  BY <2>1, <2>2, <2>3, <2>4, <2>5
<1>9. \A k \in 0 .. Len(s) : /\ Tops(s, k) \in SUBSET Node /\ Cardinality(Tops(s, k)) = k
                             /\ SelfOf(s, k) \in Nat
                             /\ Tops(s, k) \in Halves <=> 2 * SelfOf(s, k) >= TotalSelf
  <2> TAKE k \in 0 .. Len(s)
  <2>1. Tops(s, k) \in SUBSET Node /\ Cardinality(Tops(s, k)) = k /\ SelfOf(s, k) = SumOver(self, Tops(s, k))
        /\ SelfOf(s, k) \in Nat
    BY <1>3, TopSums
  <2>2. QED  BY <2>1, HalvesAre
<1>10. /\ few \in 1 .. Len(s) /\ \E S \in Halves : Cardinality(S) = few
       /\ \A S \in Halves : few <= Cardinality(S)
  <2> DEFINE C == {Cardinality(S) : S \in Halves}
  <2>1. C \in SUBSET Nat
    BY HalvesAre DEF Halves
  <2>2. Len(s) \in C
    <3>1. Len(s) \in 0 .. Len(s) /\ 2 * SelfOf(s, Len(s)) >= TotalSelf
      BY <1>6, <1>8
    <3>2. Tops(s, Len(s)) \in Halves /\ Cardinality(Tops(s, Len(s))) = Len(s)
      BY <1>9, <3>1
    <3>3. QED  BY <3>2
  <2>3. few \in C /\ \A x \in C : few <= x
    <3>1. C # {}
      BY <2>2
    <3> HIDE DEF C
    <3>2. QED  BY <2>1, <3>1, LeastIs DEF C
  <2>4. 0 \notin C
    <3>1. SUFFICES ASSUME NEW S \in Halves, Cardinality(S) = 0 PROVE FALSE
      OBVIOUS
    <3>2. S \in SUBSET Node
      BY DEF Halves
    <3>3. S = {}
      BY <3>1, <3>2, HalvesAre, FS_EmptySet
    <3>4. SumOver(self, S) = 0
      BY <3>3, SumEmpty
    <3>5. 2 * SumOver(self, S) >= TotalSelf
      BY <3>1, <3>2, HalvesAre
    <3>6. QED  BY <1>8, <3>4, <3>5
  <2>5. few \in Nat /\ few # 0 /\ few <= Len(s)
    BY <2>1, <2>2, <2>3, <2>4
  <2>6. few \in 1 .. Len(s)
    BY <1>6, <2>5
  <2>7. \E S \in Halves : Cardinality(S) = few
    BY <2>3
  <2>8. \A S \in Halves : few <= Cardinality(S)
    BY <2>3
  <2>9. QED  BY <2>6, <2>7, <2>8
<1> DEFINE half == {k \in DOMAIN hot : 2 * SelfOf(hot, k) >= TotalSelf}
<1>11. \A k \in half : few <= k
  <2> TAKE k \in half
  <2>1. k \in 0 .. Len(s) /\ 2 * SelfOf(s, k) >= TotalSelf
    BY <1>6, <1>7
  <2>2. Tops(s, k) \in Halves /\ Cardinality(Tops(s, k)) = k
    BY <1>9, <2>1
  <2>3. QED  BY <1>10, <2>2
<1>12. few <= L => few \in half
  <2> SUFFICES ASSUME few <= L PROVE few \in half
    OBVIOUS
  <2>1. few \in 1 .. Len(hot) /\ few \in 0 .. Len(s)
    BY <1>2, <1>6, <1>10
  <2>2. PICK S \in Halves : Cardinality(S) = few
    BY <1>10
  <2>3. S \in SUBSET Node
    BY DEF Halves
  <2>4. SumOver(self, S) <= SelfOf(s, few)
    BY <1>3, <2>1, <2>2, <2>3, TopSums
  <2>5. 2 * SumOver(self, S) >= TotalSelf /\ SumOver(self, S) \in Nat
    BY <2>2, <2>3, HalvesAre
  <2>6. SelfOf(s, few) \in Nat
    BY <1>9, <2>1
  <2>7. 2 * SelfOf(s, few) >= TotalSelf
    BY <1>8, <2>4, <2>5, <2>6
  <2>8. QED  BY <1>6, <1>7, <2>1, <2>7
<1>13. half \subseteq 1 .. Len(hot) /\ half \subseteq Nat
  BY <1>6
<1>14. Concentration(hot) = IF half = {} THEN 0 ELSE Min(half)
  BY DEF Concentration
<1> HIDE DEF half
<1>15. CASE few <= L
  <2>1. Min(half) \in half /\ \A x \in half : Min(half) <= x
    BY <1>12, <1>13, <1>15, LeastIs
  <2>2. Min(half) = few
    <3>1. PICK m \in Nat : m = Min(half) /\ m \in half
      BY <1>13, <2>1
    <3>2. few \in Nat /\ few <= m /\ m <= few
      BY <1>10, <1>11, <1>12, <1>15, <2>1, <3>1
    <3>3. QED  BY <3>1, <3>2
  <2>3. QED  BY <1>1, <1>4, <1>12, <1>14, <1>15, <2>2
<1>16. CASE ~(few <= L)
  <2>1. half = {}
    BY <1>2, <1>6, <1>10, <1>11, <1>13, <1>16
  <2>2. QED  BY <1>1, <1>4, <1>14, <1>16, <2>1
<1>17. QED  BY <1>15, <1>16

-----------------------------------------------------------------------------
(* A report that was gathered stays what the priced graph says              *)

ReportIInv ==
  /\ CostIInv /\ option \in Int /\ recursive \in SUBSET Node
  /\ report # <<>> => Priced /\ report = Gathered

LEMMA GatheredStays ==
  ASSUME UNCHANGED <<vars, recursive, option>>
  PROVE  Gathered' = Gathered
<1>1. UNCHANGED <<succ, componentOf, componentCount, weight, self, inclusive, priced, recursive, option>>
  BY DEF vars, sccVars
<1>2. (TotalSelf' = TotalSelf) /\ (Total' = Total)
  BY <1>1 DEF TotalSelf, Total, OwnCost, SumOf, MapThenSumSet, MapThenFoldSet
<1>3. (ByBlastRadius' = ByBlastRadius) /\ (BySelfTime' = BySelfTime) /\ (ByCost' = ByCost) /\ (ByCallers' = ByCallers)
  BY <1>1 DEF ByBlastRadius, BySelfTime, ByCost, ByCallers, Calls, Incl
<1>4. Synthesize' = Synthesize
  BY <1>1, <1>3 DEF Synthesize, KnownFanIn, Calls
<1>5. \A hubs, hot : ChangeRisk(hubs, hot)' = ChangeRisk(hubs, hot)
  BY DEF ChangeRisk
<1>6. \A hot, cost : VerdictOf(hot, cost)' = VerdictOf(hot, cost)
  BY <1>1, <1>2 DEF VerdictOf, Share, Incl
<1>7. \A hot : Concentration(hot)' = Concentration(hot)
  BY <1>1, <1>2 DEF Concentration, SelfOf, SumOf, MapThenSumSet, MapThenFoldSet
<1>8. DeadExports(Calls, {})' = DeadExports(Calls, {})
  BY <1>1 DEF Calls
<1>9. \A c : Members(c)' = Members(c)
  BY <1>1 DEF Members
<1>10. QED  BY <1>1, <1>3, <1>4, <1>5, <1>6, <1>7, <1>8, <1>9 DEF Gathered

LEMMA BriefStarts == ReportInit => ReportIInv
<1> SUFFICES ASSUME ReportInit PROVE ReportIInv
  OBVIOUS
<1>1. CostIInv
  BY CostStarts DEF ReportInit
<1>2. QED  BY <1>1, ReportAssumption DEF ReportInit, ReportIInv

LEMMA BriefKeeps == ReportIInv /\ [ReportNext]_reportVars => ReportIInv'
<1> SUFFICES ASSUME ReportIInv, [ReportNext]_reportVars PROVE ReportIInv'
  OBVIOUS
<1>1. CASE Next /\ UNCHANGED <<recursive, option, report>>
  <2>1. CostIInv'
    BY <1>1, CostStep DEF ReportIInv
  <2>2. report = <<>>
    <3>1. SUFFICES ASSUME Priced PROVE FALSE
      BY DEF ReportIInv
    <3>2. ~Price
      <4>1. componentCount \in Nat
        BY DEF ReportIInv, CostIInv, SccIInv
      <4>2. QED  BY <3>1, <4>1 DEF Priced, Price
    <3>3. ~SccNext
      <4>1. SUFFICES ASSUME NEW v \in Node, Number(SccOf(succ, v)) PROVE FALSE
        BY DEF SccNext
      <4>2. v \in SccOf(succ, v)
        BY DEF SccOf, Mutual, Reaches
      <4>3. QED  BY <3>1, <4>1, <4>2 DEF Number, Priced
    <3>4. QED  BY <1>1, <3>2, <3>3 DEF Next, Collapse
  <2>3. QED  BY <1>1, <2>1, <2>2 DEF ReportIInv
<1>2. CASE Gather
  <2>1. UNCHANGED <<vars, recursive, option>> /\ Priced /\ report' = Gathered
    BY <1>2 DEF Gather
  <2>2. CostIInv'
    BY <2>1, CostStep DEF ReportIInv
  <2>3. Priced'
    BY <2>1 DEF Priced, Numbered, vars, sccVars
  <2>4. Gathered' = Gathered
    BY <2>1, GatheredStays
  <2>5. QED  BY <2>1, <2>2, <2>3, <2>4 DEF ReportIInv
<1>3. CASE UNCHANGED reportVars
  <2>1. UNCHANGED <<vars, recursive, option>> /\ UNCHANGED report
    BY <1>3 DEF reportVars
  <2>2. CostIInv'
    BY <2>1, CostStep DEF ReportIInv
  <2>3. Priced' = Priced
    BY <2>1 DEF Priced, Numbered, vars, sccVars
  <2>4. Gathered' = Gathered
    BY <2>1, GatheredStays
  <2>5. QED  BY <2>1, <2>2, <2>3, <2>4 DEF ReportIInv
<1>4. QED  BY <1>1, <1>2, <1>3 DEF ReportNext

LEMMA ReportIInvHolds == ReportSpec => []ReportIInv
BY BriefStarts, BriefKeeps, PTL DEF ReportSpec

(***************************************************************************)
(* runtimeConcentrationFinding: whatever graph was measured, "runtime is    *)
(* concentrated" in the number of functions the finding says, for no choice *)
(* of fewer functions makes half of the self time; and no choice within     *)
(* the limit does where there is no such finding.                           *)
(***************************************************************************)
THEOREM ConcentrationIsTrue == ReportSpec => []ConcentrationTrue
<1>1. ReportIInv => ConcentrationTrue
  <2> SUFFICES ASSUME ReportIInv, report # <<>>, Enriched PROVE ConcentrationTrue
    BY DEF ConcentrationTrue
  <2>1. self \in [Node -> Nat] /\ option \in Int /\ report = Gathered
    BY DEF ReportIInv, CostIInv
  <2>2. report.concentration = Concentration(Cut(BySelfTime, ClampLimit(option)))
    BY <2>1 DEF Gathered
  <2>3. PICK few : few = Min({Cardinality(S) : S \in Halves})
    OBVIOUS
  <2>4. report.concentration = IF few <= ClampLimit(option) THEN few ELSE 0
    BY <2>1, <2>2, <2>3, ConcentrationIs
  <2>5. QED  BY <2>3, <2>4 DEF ConcentrationTrue, Halves
<1>2. QED  BY ReportIInvHolds, <1>1, PTL

-----------------------------------------------------------------------------
(* Structure against runtime                                                *)

\* A pair of symbols is an edge for a call there is.
EveryCallCounts == \A e \in Edges(succ) : weight[e] > 0

LEMMA SumPositive ==
  ASSUME NEW S, IsFiniteSet(S), NEW f, \A x \in S : f[x] \in Nat
  PROVE  SumOver(f, S) > 0 <=> \E x \in S : f[x] > 0
<1>1. SumOver(f, S) \in Nat /\ \A R \in SUBSET S : SumOver(f, R) <= SumOver(f, S) /\ SumOver(f, R) \in Nat
  BY SumNat
<1>2. ASSUME NEW x \in S, f[x] > 0 PROVE SumOver(f, S) > 0
  <2>1. SumOver(f, {x}) = f[x] /\ f[x] \in Nat
    BY SumSingle
  <2>2. SumOver(f, {x}) <= SumOver(f, S)
    BY <1>1
  <2>3. QED  BY <1>1, <1>2, <2>1, <2>2
<1>3. ASSUME \A x \in S : ~(f[x] > 0) PROVE SumOver(f, S) = 0
  <2>1. {} \in SUBSET S /\ (\A y \in S : f[y] \in Int) /\ \A y \in S \ {} : f[y] = 0
    BY <1>3
  <2>2. SumOver(f, S) = SumOver(f, {})
    BY <2>1, SumZeros
  <2>3. QED  BY <2>2, SumEmpty
<1>4. QED  BY <1>1, <1>2, <1>3

LEMMA ProductPositive == ASSUME NEW a \in Nat, NEW b \in Nat PROVE a * b \in Nat /\ (a * b > 0 <=> a > 0 /\ b > 0)
OBVIOUS

LEMMA QuotientPositive ==
  ASSUME NEW p \in Nat, NEW b \in Nat, b > 0, p % b = 0
  PROVE  p \div b > 0 <=> p > 0
<1>1. PICK q \in Nat : q = p \div b
  BY QuotientIsNat
<1>2. p = b * q
  BY <1>1, DividesOut
<1>3. b * q > 0 <=> b > 0 /\ q > 0
  BY ProductPositive
<1>4. QED  BY <1>1, <1>2, <1>3

\* A callee costs its caller something when it costs anything.
LEMMA FlowPositive ==
  ASSUME CostIInv, Numbered = Node, NoRemainder, EveryCallCounts, NEW e \in Crossing
  PROVE  Flow[e] > 0 <=> inclusive[componentOf[e[2]]] > 0
<1>1. e \in Edges(succ) /\ e[2] \in Node /\ weight[e] \in Nat /\ weight[e] > 0
  BY CostTypes DEF EveryCallCounts
<1>2. componentOf[e[2]] \in 0 .. componentCount - 1
  BY CrossingDescends
<1>3. PICK a \in Nat, w \in Nat, b \in Nat :
        a = inclusive[componentOf[e[2]]] /\ w = weight[e] /\ b = ExternalInbound(e[2])
  BY <1>1, <1>2, CostTypes, Inbound
<1>4. b > 0
  <2> DEFINE S == {d \in Crossing : d[2] = e[2]}
  <2>1. IsFiniteSet(S) /\ (\A d \in S : weight[d] \in Nat) /\ e \in S
    BY CostTypes, FS_Subset
  <2>2. b = SumOver(weight, S)
    BY <1>3, Inbound
  <2> HIDE DEF S
  <2>3. QED  BY <1>1, <2>1, <2>2, SumPositive
<1>5. a * w \in Nat /\ (a * w > 0 <=> a > 0)
  BY <1>1, <1>3, ProductPositive
<1>6. (a * w) % b = 0
  BY <1>3, <1>4 DEF NoRemainder
<1>7. componentOf[e[2]] # -1
  BY <1>2
<1>8. Flow[e] = (a * w) \div b
  BY <1>3, <1>4, <1>7, FlowIs
<1>9. PICK p \in Nat : p = a * w
  BY <1>5
<1>10. p \div b > 0 <=> p > 0
  BY <1>4, <1>6, <1>9, QuotientPositive
<1>11. QED  BY <1>3, <1>5, <1>8, <1>9, <1>10

LEMMA CostPositive ==
  ASSUME CostIInv, Priced, NoRemainder, EveryCallCounts, NEW c \in 0 .. componentCount - 1
  PROVE  /\ inclusive[c] \in Nat
         /\ inclusive[c] > 0 <=> \/ \E v \in Node : componentOf[v] = c /\ self[v] > 0
                                 \/ \E e \in Crossing : componentOf[e[1]] = c /\ inclusive[componentOf[e[2]]] > 0
<1>1. Numbered = Node /\ priced = componentCount
  BY DEF Priced
<1>2. inclusive[c] = OwnCost(Members(c)) + Outflow(Members(c))
  BY <1>1 DEF CostIInv
<1> DEFINE M == Members(c)
           S == {e \in Crossing : e[1] \in M}
<1>3. M \in SUBSET Node /\ \A v \in Node : v \in M <=> componentOf[v] = c
  BY DEF Members
<1>4. IsFiniteSet(M) /\ IsFiniteSet(S) /\ (\A v \in M : self[v] \in Nat) /\ (\A e \in S : Flow[e] \in Nat)
  <2>1. IsFiniteSet(M) /\ \A v \in M : self[v] \in Nat
    BY <1>3, CostTypes, FS_Subset
  <2>2. IsFiniteSet(S)
    BY CostTypes, FS_Subset
  <2>3. \A e \in S : Flow[e] \in Nat
    BY <1>1, <1>3, PriceIsNat
  <2>4. QED  BY <2>1, <2>2, <2>3
<1>5. \A e \in Crossing : e[1] \in Node
  BY CostTypes
<1>6. OwnCost(M) = Unit * SumOver(self, M) /\ Outflow(M) = SumOver(Flow, S)
  BY CostsAre
<1> HIDE DEF M
<1>7. PICK own \in Nat, out \in Nat : own = SumOver(self, M) /\ out = SumOver(Flow, S)
  <2> HIDE DEF S
  <2>1. QED  BY <1>4, SumNat
<1>8. own > 0 <=> \E v \in M : self[v] > 0
  BY <1>4, <1>7, SumPositive
<1>9. out > 0 <=> \E e \in S : Flow[e] > 0
  <2> HIDE DEF S
  <2>1. QED  BY <1>4, <1>7, SumPositive
<1>10. \A e \in Crossing : e \in S <=> componentOf[e[1]] = c
  BY <1>3, <1>5
<1>11. \A e \in Crossing : Flow[e] > 0 <=> inclusive[componentOf[e[2]]] > 0
  BY <1>1, FlowPositive
<1>12. Unit * own \in Nat /\ (Unit * own > 0 <=> own > 0)
  BY <1>7, CostTypes, ProductPositive
<1>13. inclusive[c] = Unit * own + out
  BY <1>2, <1>6, <1>7 DEF M
<1>14. inclusive[c] \in Nat /\ (inclusive[c] > 0 <=> own > 0 \/ out > 0)
  <2>1. PICK u \in Nat : u = Unit * own
    BY <1>12
  <2>2. QED  BY <1>12, <1>13, <2>1
<1>15. (\E e \in S : Flow[e] > 0) <=> \E e \in Crossing : componentOf[e[1]] = c /\ inclusive[componentOf[e[2]]] > 0
  BY <1>10, <1>11
<1>16. (\E v \in M : self[v] > 0) <=> \E v \in Node : componentOf[v] = c /\ self[v] > 0
  BY <1>3
<1>17. QED  BY <1>8, <1>9, <1>14, <1>15, <1>16

\* To have a cost is to reach measured time.
LEMMA CostIsWork ==
  ASSUME CostIInv, Priced, NoRemainder, EveryCallCounts, NEW v \in Node
  PROVE  Incl(v) \in Nat /\ (Incl(v) > 0 <=> ReachesWork(v))
<1> DEFINE Work == {u \in Node : ReachesWork(u)}
           Costly == {u \in Node : Incl(u) > 0}
<1>1. /\ \A u \in Node : componentOf[u] \in 0 .. componentCount - 1
      /\ componentCount \in Nat /\ Numbered = Node
  BY CrossingDescends, CostTypes DEF Priced
<1>2. \A u \in Node : Incl(u) = inclusive[componentOf[u]] /\ Incl(u) \in Nat
  BY <1>1, CostTypes DEF Incl
<1>3. ASSUME NEW x \in Node, self[x] > 0 \/ succ[x] \cap Costly # {} PROVE x \in Costly
  <2>1. CASE self[x] > 0
    <3>1. inclusive[componentOf[x]] > 0
      BY <1>1, <2>1, CostPositive
    <3>2. QED  BY <1>2, <3>1
  <2>2. CASE succ[x] \cap Costly # {}
    <3>1. PICK y \in Node : y \in succ[x] /\ Incl(y) > 0
      BY <2>2
    <3>2. CASE componentOf[x] = componentOf[y]
      BY <1>2, <3>1, <3>2
    <3>3. CASE componentOf[x] # componentOf[y]
      <4>1. PICK e : e = <<x, y>>
        OBVIOUS
      <4>2. e \in Crossing /\ e[1] = x /\ e[2] = y
        BY <3>1, <3>3, <4>1 DEF Crossing, Edges
      <4>3. inclusive[componentOf[x]] > 0
        BY <1>1, <1>2, <3>1, <4>2, CostPositive
      <4>4. QED  BY <1>2, <4>3
    <3>4. QED  BY <3>2, <3>3
  <2>3. QED  BY <1>3, <2>1, <2>2
<1>4. ASSUME ReachesWork(v) PROVE Incl(v) > 0
  <2>1. PICK w \in Node : self[w] > 0 /\ Reaches(succ, v, w)
    BY <1>4 DEF ReachesWork
  <2>2. w \in Costly
    BY <1>3, <2>1
  <2> DEFINE S == Node \ Costly
  <2>3. \A u \in Node : succ[u] \in SUBSET Node
    BY DEF CostIInv, SccIInv, Graph
  <2>4. S \in SUBSET Node /\ Closed(succ, S) /\ w \notin S
    BY <1>3, <2>2, <2>3 DEF Closed
  <2>5. v \notin S
    BY <2>1, <2>4 DEF Reaches
  <2>6. QED  BY <2>5
<1>5. \A x, y, z \in Node : Reaches(succ, x, y) /\ Reaches(succ, y, z) => Reaches(succ, x, z)
  BY DEF Reaches
<1>6. \A x, y \in Node : Reaches(succ, x, y) /\ ReachesWork(y) => ReachesWork(x)
  BY <1>5 DEF ReachesWork
<1>7. \A x \in Node : Reaches(succ, x, x)
  BY DEF Reaches
<1>8. \A x, y \in Node : y \in succ[x] => Reaches(succ, x, y)
  BY DEF Reaches, Closed
<1>9. \A x, y \in Node : componentOf[x] = componentOf[y] => Reaches(succ, x, y)
  <2> SUFFICES ASSUME NEW x \in Node, NEW y \in Node, componentOf[x] = componentOf[y] PROVE Reaches(succ, x, y)
    OBVIOUS
  <2>1. {u \in Node : componentOf[u] = componentOf[x]} = SccOf(succ, x)
    BY <1>1 DEF CostIInv, SccIInv
  <2>2. y \in SccOf(succ, x)
    BY <2>1
  <2>3. QED  BY <2>2 DEF SccOf, Mutual
<1> DEFINE n == componentCount
           T == {c \in 0 .. n : \A u \in Node : componentOf[u] = c /\ Incl(u) > 0 => ReachesWork(u)}
<1>10. ASSUME NEW c \in 0 .. n, \A j \in 0 .. n : j < c => j \in T PROVE c \in T
  <2> SUFFICES ASSUME NEW u \in Node, componentOf[u] = c, Incl(u) > 0 PROVE ReachesWork(u)
    OBVIOUS
  <2>1. c \in 0 .. n - 1 /\ inclusive[c] > 0
    BY <1>1, <1>2
  <2>2. CASE \E x \in Node : componentOf[x] = c /\ self[x] > 0
    <3>1. PICK x \in Node : componentOf[x] = c /\ self[x] > 0
      BY <2>2
    <3>2. Reaches(succ, u, x)
      BY <1>9, <3>1
    <3>3. QED  BY <3>1, <3>2 DEF ReachesWork
  <2>3. CASE \E e \in Crossing : componentOf[e[1]] = c /\ inclusive[componentOf[e[2]]] > 0
    <3>1. PICK e \in Crossing : componentOf[e[1]] = c /\ inclusive[componentOf[e[2]]] > 0
      BY <2>3
    <3>2. PICK x \in Node, y \in Node : x = e[1] /\ y = e[2] /\ y \in succ[x]
      BY CostTypes DEF Crossing, Edges
    <3>3. componentOf[y] \in 0 .. n - 1 /\ componentOf[y] < c
      BY <1>1, <3>1, <3>2, CrossingDescends
    <3>4. componentOf[y] \in T
      BY <1>1, <1>10, <3>3
    <3>5. Incl(y) > 0
      BY <1>2, <3>1, <3>2
    <3>6. ReachesWork(y)
      BY <3>4, <3>5
    <3>7. ReachesWork(x)
      BY <1>6, <1>8, <3>2, <3>6
    <3>8. QED  BY <1>6, <1>9, <3>1, <3>2, <3>7
  <2>4. QED  BY <2>1, <2>2, <2>3, CostPositive
<1>11. 0 .. n \subseteq T
  <2> HIDE DEF T
  <2>1. QED  BY <1>1, <1>10, SetInduction
<1>12. componentOf[v] \in 0 .. n
  BY <1>1
<1>13. Incl(v) > 0 => ReachesWork(v)
  BY <1>11, <1>12
<1>14. QED  BY <1>2, <1>4, <1>13

\* A list of those in K that score, which leaves out none for one that scores less.
BestOf(list, K, score, count) ==
  /\ list \in Seq(Node)
  /\ \A v \in ToSet(list) : v \in Node /\ v \in K /\ score[v] > 0
  /\ \A v \in Node : v \in K /\ score[v] > 0 /\ v \notin ToSet(list) =>
       Len(list) = count /\ \A w \in ToSet(list) : score[w] >= score[v]

LEMMA KeptBest ==
  ASSUME NEW score, NEW s, Ranks(s, score), NEW K, NEW count \in Nat, NEW list, list = Cut(Kept(s, K), count)
  PROVE  BestOf(list, K, score, count)
<1>1. /\ s \in Seq(Node) /\ Len(s) \in Nat
      /\ \A k \in 1 .. Len(s) : score[s[k]] > 0 /\ s[k] \in Node
      /\ \A v \in Node : score[v] > 0 => \E k \in 1 .. Len(s) : s[k] = v
      /\ \A i, j \in 1 .. Len(s) : i < j => score[s[i]] >= score[s[j]]
  BY DEF Ranks
<1>2. PICK k : k = Kept(s, K)
  OBVIOUS
<1>3. k \in Seq(Node) /\ \E at : Keeps(k, s, K, at)
  BY <1>1, <1>2, KeptIs
<1>4. PICK at : Keeps(k, s, K, at)
  BY <1>3
<1>5. /\ Len(k) \in Nat /\ \A i \in 1 .. Len(k) : at[i] \in 1 .. Len(s) /\ k[i] = s[at[i]] /\ k[i] \in K
      /\ \A i, j \in 1 .. Len(k) : i < j => at[i] < at[j]
      /\ \A j \in 1 .. Len(s) : s[j] \in K => \E i \in 1 .. Len(k) : at[i] = j
  BY <1>1, <1>4 DEF Keeps
<1> DEFINE n == IF Len(k) < count THEN Len(k) ELSE count
<1>6. /\ n \in 0 .. Len(k) /\ n <= count /\ (n < count => n = Len(k))
      /\ list \in Seq(Node) /\ Len(list) = n
      /\ \A i \in 1 .. n : list[i] = k[i]
  BY <1>2, <1>3, CutIs
<1> HIDE DEF n
<1>7. \A v : v \in ToSet(list) <=> \E i \in 1 .. n : k[i] = v
  BY <1>6 DEF ToSet
<1>8. \A v \in ToSet(list) : v \in Node /\ v \in K /\ score[v] > 0
  <2> SUFFICES ASSUME NEW i \in 1 .. n PROVE k[i] \in Node /\ k[i] \in K /\ score[k[i]] > 0
    BY <1>7
  <2>1. i \in 1 .. Len(k)
    BY <1>5, <1>6
  <2>2. at[i] \in 1 .. Len(s) /\ k[i] = s[at[i]] /\ k[i] \in K
    BY <1>5, <2>1
  <2>3. QED  BY <1>1, <2>2
<1>9. ASSUME NEW v \in Node, v \in K, score[v] > 0, v \notin ToSet(list)
      PROVE  Len(list) = count /\ \A w \in ToSet(list) : score[w] >= score[v]
  <2>1. PICK i \in 1 .. Len(k) : k[i] = v
    <3>1. PICK j \in 1 .. Len(s) : s[j] = v
      BY <1>1, <1>9
    <3>2. PICK i \in 1 .. Len(k) : at[i] = j
      BY <1>5, <1>9, <3>1
    <3>3. QED  BY <1>5, <3>1, <3>2
  <2>2. n < i /\ i <= Len(k)
    BY <1>5, <1>6, <1>7, <1>9, <2>1
  <2>3. Len(list) = count
    BY <1>5, <1>6, <2>2
  <2>4. ASSUME NEW w \in ToSet(list) PROVE score[w] >= score[v]
    <3>1. PICK j \in 1 .. n : k[j] = w
      BY <1>7
    <3>2. j \in 1 .. Len(k) /\ j < i
      BY <1>5, <1>6, <2>2
    <3>3. at[j] \in 1 .. Len(s) /\ at[i] \in 1 .. Len(s) /\ at[j] < at[i] /\ k[j] = s[at[j]] /\ k[i] = s[at[i]]
      BY <1>5, <2>1, <3>2
    <3>4. QED  BY <1>1, <2>1, <3>1, <3>3
  <2>5. QED  BY <2>3, <2>4
<1>10. QED  BY <1>6, <1>8, <1>9 DEF BestOf

CalledBy(v) == {u \in Node : v \in Calls[u]}

LEMMA FanInIs ==
  ASSUME N <= MaxRows, NEW v \in Node
  PROVE  KnownFanIn(v) = Cardinality(CalledBy(v)) /\ KnownFanIn(v) \in Nat
<1>1. \A u \in Node : FanIn(Calls, u) = Cardinality(CalledBy(u))
  <2> TAKE u \in Node
  <2>1. Callers(Calls, {u}) = CalledBy(u)
    BY DEF Callers, CalledBy
  <2>2. QED  BY <2>1 DEF FanIn
<1>2. \A u \in Node : Cardinality(CalledBy(u)) \in Nat
  <2> TAKE u \in Node
  <2>1. CalledBy(u) \in SUBSET Node
    BY DEF CalledBy
  <2>2. QED  BY <2>1, NodeFinite, FS_Subset, FS_CardinalityType
<1> DEFINE score == [u \in Node |-> FanIn(Calls, u)]
<1>3. score \in [Node -> Nat] /\ score[v] = Cardinality(CalledBy(v))
  BY <1>1, <1>2
<1>4. PICK s : s = ByCallers
  OBVIOUS
<1>5. s = Ranked(score, MaxRows)
  BY <1>4 DEF ByCallers
<1> HIDE DEF score
<1>6. Ranks(s, score)
  BY <1>3, <1>5, AllRanked, ReportAssumption
<1>7. v \in ToSet(s) <=> score[v] > 0
  BY <1>6 DEF Ranks, ToSet
<1>8. KnownFanIn(v) = IF v \in ToSet(s) THEN FanIn(Calls, v) ELSE 0
  BY <1>4 DEF KnownFanIn
<1>9. QED  BY <1>1, <1>2, <1>3, <1>7, <1>8

\* The three reads are the best of their kinds.
LEMMA SynthesizeIs ==
  ASSUME N <= MaxRows, self \in [Node -> Nat], \A v \in Node : Incl(v) \in Nat, NEW reads, reads = Synthesize
  PROVE  /\ BestOf(reads.orchestrators, {v \in Node : self[v] = 0}, [v \in Node |-> Incl(v)], Few)
         /\ BestOf(reads.hidden, {v \in Node : Cardinality(CalledBy(v)) <= 1}, self, Few)
         /\ BestOf(reads.aligned, {v \in Node : Cardinality(CalledBy(v)) > 1}, self, Few)
<1>1. Few \in Nat /\ MaxRows \in Nat
  BY ReportAssumption
<1>2. PICK incl : incl = [v \in Node |-> Incl(v)]
  OBVIOUS
<1>3. incl \in [Node -> Nat]
  BY <1>2
<1>4. Ranks(ByCost, incl) /\ Ranks(BySelfTime, self)
  BY <1>1, <1>2, <1>3, AllRanked DEF ByCost, BySelfTime
<1>5. PICK Zero, Hidden, Aligned :
        /\ Zero = {v \in Node : self[v] = 0}
        /\ Hidden = {v \in Node : Cardinality(CalledBy(v)) <= 1}
        /\ Aligned = {v \in Node : Cardinality(CalledBy(v)) > 1}
  OBVIOUS
<1>6. /\ Hidden = {v \in Node : KnownFanIn(v) <= 1}
      /\ Aligned = {v \in Node : KnownFanIn(v) > 1}
  BY <1>5, FanInIs
<1>7. /\ reads.orchestrators = Cut(Kept(ByCost, Zero), Few)
      /\ reads.hidden = Cut(Kept(BySelfTime, Hidden), Few)
      /\ reads.aligned = Cut(Kept(BySelfTime, Aligned), Few)
  BY <1>5, <1>6 DEF Synthesize
<1>8. /\ BestOf(reads.orchestrators, Zero, incl, Few)
      /\ BestOf(reads.hidden, Hidden, self, Few)
      /\ BestOf(reads.aligned, Aligned, self, Few)
  BY <1>1, <1>4, <1>7, KeptBest
<1>9. QED  BY <1>2, <1>5, <1>8

VerdictTrue(verdict) ==
  /\ verdict # <<>> <=> \E v \in Node : self[v] > 0
  /\ \A i \in DOMAIN verdict :
       /\ \A w \in Node : self[verdict[i].hottest] >= self[w]
       /\ verdict[i].share # <<>> /\ (\A w \in Node \ {verdict[i].hottest} : KeyOf[w] # KeyOf[verdict[i].hottest]) =>
            verdict[i].share[1] * Total = Incl(verdict[i].hottest) * verdict[i].share[2]

LEMMA TotalPositive ==
  ASSUME CostIInv, NEW v \in Node, self[v] > 0
  PROVE  Total \in Nat /\ Total > 0
<1>1. Total = Unit * SumOver(self, Node)
  BY CostsAre DEF Total
<1>2. \A u \in Node : self[u] \in Nat
  BY CostTypes
<1>3. PICK s \in Nat : s = SumOver(self, Node) /\ s > 0
  <2>1. SumOver(self, Node) > 0
    BY <1>2, NodeFinite, SumPositive
  <2>2. SumOver(self, Node) \in Nat
    BY <1>2, NodeFinite, SumNat
  <2>3. QED  BY <2>1, <2>2
<1>4. QED  BY <1>1, <1>3, CostTypes, ProductPositive

LEMMA VerdictIs ==
  ASSUME CostIInv, option \in Int, \A v \in Node : Incl(v) \in Nat,
         NEW verdict,
         verdict = VerdictOf(Cut(BySelfTime, ClampLimit(option)), Cut(ByCost, ClampLimit(option)))
  PROVE  VerdictTrue(verdict)
<1>1. PICK L : L = ClampLimit(option)
  OBVIOUS
<1>2. L \in 1 .. MaxRows /\ L \in Nat /\ L \in 0 .. MaxRows /\ MaxRows \in Nat
  BY <1>1, LimitIs, ReportAssumption
<1>3. self \in [Node -> Nat]
  BY DEF CostIInv
<1>4. PICK s : Ranks(s, self) /\ Heads(BySelfTime, s, MaxRows)
  BY <1>2, <1>3, RankedIs DEF BySelfTime
<1>5. PICK hot, cost : hot = Cut(BySelfTime, L) /\ cost = Cut(ByCost, L)
  OBVIOUS
<1>6. Heads(hot, s, L)
  BY <1>2, <1>4, <1>5, HeadsOfHeads DEF Ranks
<1>7. cost \in Seq(Node)
  <2>1. PICK incl : incl = [v \in Node |-> Incl(v)]
    OBVIOUS
  <2>2. incl \in [Node -> Nat]
    BY <2>1
  <2>3. PICK c : Ranks(c, incl) /\ Heads(ByCost, c, MaxRows)
    BY <1>2, <2>1, <2>2, RankedIs DEF ByCost
  <2>4. Heads(cost, c, L)
    BY <1>2, <1>5, <2>3, HeadsOfHeads DEF Ranks
  <2>5. QED  BY <2>4 DEF Heads
<1>8. /\ s \in Seq(Node) /\ Len(s) \in Nat
      /\ \A k \in 1 .. Len(s) : s[k] \in Node /\ self[s[k]] > 0
      /\ \A v \in Node : self[v] > 0 => \E k \in 1 .. Len(s) : s[k] = v
      /\ \A i, j \in 1 .. Len(s) : i < j => self[s[i]] >= self[s[j]]
  BY <1>4 DEF Ranks
<1>9. /\ hot \in Seq(Node) /\ Len(hot) \in 0 .. Len(s)
      /\ Len(hot) <= L /\ (Len(hot) < L => Len(hot) = Len(s))
      /\ \A i \in 1 .. Len(hot) : hot[i] = s[i]
  BY <1>6 DEF Heads
<1>10. verdict = VerdictOf(hot, cost)
  BY <1>1, <1>5
<1>11. CASE hot = <<>>
  <2>1. Len(s) = 0
    BY <1>2, <1>8, <1>9, <1>11
  <2>2. ~\E v \in Node : self[v] > 0
    BY <1>8, <2>1
  <2>3. verdict = <<>>
    BY <1>10, <1>11 DEF VerdictOf
  <2>4. QED  BY <2>2, <2>3 DEF VerdictTrue
<1>12. CASE hot # <<>>
  <2>1. PICK h : h = Head(hot)
    OBVIOUS
  <2>2. Len(hot) >= 1 /\ Len(s) >= 1 /\ h = s[1] /\ h \in Node /\ self[h] > 0
    BY <1>8, <1>9, <1>12, <2>1
  <2>3. \A w \in Node : self[h] >= self[w]
    <3> TAKE w \in Node
    <3>1. self[w] \in Nat /\ self[h] \in Nat
      BY <1>3, <2>2
    <3>2. CASE self[w] > 0
      <4>1. PICK k \in 1 .. Len(s) : s[k] = w
        BY <1>8, <3>2
      <4>2. k = 1 \/ 1 < k
        BY <1>8
      <4>3. QED  BY <1>8, <2>2, <3>1, <4>1, <4>2
    <3>3. QED  BY <3>1, <3>2
  <2>4. PICK same : same = Kept(cost, {v \in Node : KeyOf[v] = KeyOf[h]})
    OBVIOUS
  <2>5. PICK share : share = IF same = <<>> THEN <<>> ELSE Share(Head(same))
    OBVIOUS
  <2>6. verdict = <<[hottest |-> h, share |-> share]>>
    BY <1>10, <1>12, <2>1, <2>4, <2>5 DEF VerdictOf
  <2>7. DOMAIN verdict = {1} /\ verdict[1].hottest = h /\ verdict[1].share = share /\ verdict # <<>>
    BY <2>6
  <2>8. ASSUME share # <<>>, \A w \in Node \ {h} : KeyOf[w] # KeyOf[h]
        PROVE  share[1] * Total = Incl(h) * share[2]
    <3>1. same # <<>> /\ share = Share(Head(same))
      BY <2>5, <2>8
    <3>2. PICK at : Keeps(same, cost, {v \in Node : KeyOf[v] = KeyOf[h]}, at)
      BY <1>7, <2>4, KeptIs
    <3>3. same \in Seq(Node)
      BY <1>7, <2>4, KeptIs
    <3>4. Head(same) = same[1] /\ 1 \in 1 .. Len(same)
      BY <3>1, <3>3
    <3>5. Head(same) \in {v \in Node : KeyOf[v] = KeyOf[h]}
      BY <3>2, <3>4 DEF Keeps
    <3>6. Head(same) = h
      BY <2>8, <3>5
    <3>7. Total \in Nat /\ Total > 0
      BY <2>2, TotalPositive
    <3>8. share = <<Incl(h), Total>>
      BY <3>1, <3>6, <3>7 DEF Share
    <3>9. QED  BY <3>8
  <2>9. QED  BY <2>2, <2>3, <2>7, <2>8 DEF VerdictTrue
<1>13. QED  BY <1>11, <1>12

(***************************************************************************)
(* synthesize and verdictOf, the reads of structure against runtime, for    *)
(* graphs with no more symbols than GraphQuery gives rows and whatever they *)
(* cost, as long as every edge counts a call and costs divide: no list      *)
(* leaves out a symbol for one that is less hot or calls a symbol what it   *)
(* is not, and who is called an orchestrator reaches measured time, for a   *)
(* cost is handed up along every chain of calls and from nowhere else.      *)
(***************************************************************************)
THEOREM ReadsAreSound ==
  N <= MaxRows => (ReportSpec => [](EveryCallCounts /\ NoRemainder => ReadsSound))
<1> SUFFICES ASSUME N <= MaxRows PROVE ReportSpec => [](EveryCallCounts /\ NoRemainder => ReadsSound)
  OBVIOUS
<1>1. ReportIInv => (EveryCallCounts /\ NoRemainder => ReadsSound)
  <2> SUFFICES ASSUME ReportIInv, EveryCallCounts, NoRemainder, report # <<>> PROVE ReadsSound
    BY DEF ReadsSound
  <2>1. CostIInv /\ Priced /\ report = Gathered /\ option \in Int /\ self \in [Node -> Nat]
    BY DEF ReportIInv, CostIInv
  <2>2. \A v \in Node : Incl(v) \in Nat /\ (Incl(v) > 0 <=> ReachesWork(v))
    BY <2>1, CostIsWork
  <2>3. PICK reads, verdict : reads = report.reads /\ verdict = report.verdict
    OBVIOUS
  <2>4. reads = Synthesize
        /\ verdict = VerdictOf(Cut(BySelfTime, ClampLimit(option)), Cut(ByCost, ClampLimit(option)))
    BY <2>1, <2>3 DEF Gathered
  <2>5. VerdictTrue(verdict)
    BY <2>1, <2>2, <2>4, VerdictIs
  <2>6. /\ BestOf(reads.orchestrators, {v \in Node : self[v] = 0}, [v \in Node |-> Incl(v)], Few)
        /\ BestOf(reads.hidden, {v \in Node : Cardinality(CalledBy(v)) <= 1}, self, Few)
        /\ BestOf(reads.aligned, {v \in Node : Cardinality(CalledBy(v)) > 1}, self, Few)
    BY <2>1, <2>2, <2>4, SynthesizeIs
  <2>7. \A v \in Node : Cardinality(CalledBy(v)) \in Nat /\ self[v] \in Nat
    <3> TAKE v \in Node
    <3>1. CalledBy(v) \in SUBSET Node
      BY DEF CalledBy
    <3>2. QED  BY <2>1, <3>1, NodeFinite, FS_Subset, FS_CardinalityType
  <2> DEFINE work == {v \in Node : self[v] > 0}
             few == {v \in work : Cardinality(CalledBy(v)) <= 1}
  <2>8. \A v \in ToSet(reads.orchestrators) : self[v] = 0 /\ ReachesWork(v)
    BY <2>2, <2>6 DEF BestOf
  <2>9. Len(reads.orchestrators) < Few =>
          \A v \in Node : self[v] = 0 /\ ReachesWork(v) => v \in ToSet(reads.orchestrators)
    <3> SUFFICES ASSUME Len(reads.orchestrators) < Few, NEW v \in Node, self[v] = 0, ReachesWork(v),
                        v \notin ToSet(reads.orchestrators)
                 PROVE  FALSE
      OBVIOUS
    <3>1. Len(reads.orchestrators) = Few
      BY <2>2, <2>6 DEF BestOf
    <3>2. Few \in Nat
      BY ReportAssumption
    <3>3. QED  BY <3>1, <3>2
  <2>10. ToSet(reads.hidden) \subseteq few
    BY <2>6 DEF BestOf
  <2>11. ToSet(reads.aligned) \subseteq work \ few
    BY <2>6, <2>7 DEF BestOf
  <2>12. ASSUME NEW v \in work, v \notin ToSet(reads.hidden), v \notin ToSet(reads.aligned)
         PROVE  LET list == IF v \in few THEN reads.hidden ELSE reads.aligned
                IN  Len(list) = Few /\ \A w \in ToSet(list) : self[w] >= self[v]
    <3>1. CASE v \in few
      BY <2>6, <2>12, <3>1 DEF BestOf
    <3>2. CASE v \notin few
      <4>1. Cardinality(CalledBy(v)) > 1
        BY <2>7, <3>2
      <4>2. QED  BY <2>6, <2>12, <3>2, <4>1 DEF BestOf
    <3>3. QED  BY <3>1, <3>2
  <2>13. (verdict # <<>>) = (work # {})
    BY <2>5 DEF VerdictTrue
  <2>14. \A i \in DOMAIN verdict :
           /\ \A w \in Node : self[verdict[i].hottest] >= self[w]
           /\ verdict[i].share # <<>> /\ (\A w \in Node \ {verdict[i].hottest} : KeyOf[w] # KeyOf[verdict[i].hottest]) =>
                verdict[i].share[1] * Total = Incl(verdict[i].hottest) * verdict[i].share[2]
    BY <2>5 DEF VerdictTrue
  <2>15. \A v \in Node : CalledBy(v) = {u \in Node : v \in Calls[u]}
    BY DEF CalledBy
  <2>16. few = {v \in work : Cardinality({u \in Node : v \in Calls[u]}) <= 1}
    BY <2>15
  <2>17. \A v \in work \ (ToSet(reads.hidden) \cup ToSet(reads.aligned)) :
           LET list == IF v \in few THEN reads.hidden ELSE reads.aligned
           IN  Len(list) = Few /\ \A w \in ToSet(list) : self[w] >= self[v]
    BY <2>12
  <2>18. QED  BY <2>3, <2>8, <2>9, <2>10, <2>11, <2>13, <2>14, <2>16, <2>17 DEF ReadsSound
<1>2. QED  BY ReportIInvHolds, <1>1, PTL
=============================================================================

---------------------------- MODULE TriangleSums ----------------------------
(***************************************************************************)
(* Sums of the reduction partials of openmp.cpp's test microtasks, kept   *)
(* as numbers of elements of finite sets.  Member t of a team contributes *)
(* the partial t + 1; it is represented by the t + 1 pairs <<t, j>> with   *)
(* j \in 0 .. t, so the sum of the partials of the members in S is the    *)
(* number of elements of Units(S).  A member that contributes adds a      *)
(* block of pairs disjoint from the others (FS_Union), and the pairs of a *)
(* whole team of n members are half of a rectangle of n * (n + 1) pairs   *)
(* (FS_Product, FS_Bijection).  This needs no induction over the team.    *)
(***************************************************************************)
EXTENDS Integers, FiniteSetTheorems, TLAPS

\* The units of the partials of the members in S.
Units(S) == {x \in S \X Nat : x[2] <= x[1]}

\* The pairs <<t, j>> with j <= t < n, and the rest of (0 .. n-1) \X (0 .. n).
Lower(n) == {x \in (0 .. n - 1) \X (0 .. n) : x[2] <= x[1]}
Upper(n) == {x \in (0 .. n - 1) \X (0 .. n) : x[1] < x[2]}

(* An element of a product is the pair of its two components.              *)
LEMMA PairIn ==
  ASSUME NEW A, NEW B, NEW x
  PROVE  x \in A \X B <=> x = <<x[1], x[2]>> /\ x[1] \in A /\ x[2] \in B
OBVIOUS

(* The product of two finite sets, with its number of elements.            *)
LEMMA ProductCard ==
  ASSUME NEW A, NEW B, IsFiniteSet(A), IsFiniteSet(B)
  PROVE  /\ IsFiniteSet(A \X B)
         /\ Cardinality(A \X B) = Cardinality(A) * Cardinality(B)
BY FS_Product

(* An interval 0 .. m - 1 has m elements.                                  *)
LEMMA IntervalCard ==
  ASSUME NEW m \in Nat
  PROVE  IsFiniteSet(0 .. m - 1) /\ Cardinality(0 .. m - 1) = m
BY FS_Interval

(* The n * (n + 1) pairs of the rectangle split evenly between Lower and   *)
(* Upper, since <<t, j>> |-> <<n - 1 - t, n - j>> maps one onto the other. *)
LEMMA TriangleCard ==
  ASSUME NEW n \in Nat
  PROVE  IsFiniteSet(Lower(n)) /\ Cardinality(Lower(n)) = (n * (n + 1)) \div 2
<1> DEFINE R == (0 .. n - 1) \X (0 .. n)
<1>1. IsFiniteSet(R) /\ Cardinality(R) = n * (n + 1)
  <2>1. IsFiniteSet(0 .. n - 1) /\ Cardinality(0 .. n - 1) = n
    BY IntervalCard
  <2>2. IsFiniteSet(0 .. n) /\ Cardinality(0 .. n) = n + 1
    <3>1. 0 .. n = 0 .. (n + 1) - 1
      OBVIOUS
    <3>2. QED
      BY <3>1, IntervalCard
  <2>3. IsFiniteSet(R)
        /\ Cardinality(R) = Cardinality(0 .. n - 1) * Cardinality(0 .. n)
    BY <2>1, <2>2, ProductCard
  <2>4. QED
    BY <2>1, <2>2, <2>3
<1>2. Lower(n) \subseteq R /\ Upper(n) \subseteq R
  BY DEF Lower, Upper
<1>3. Lower(n) \cup Upper(n) = R
  <2>1. ASSUME NEW x \in R PROVE x \in Lower(n) \/ x \in Upper(n)
    BY PairIn DEF Lower, Upper
  <2>2. QED
    BY <1>2, <2>1
<1>4. Lower(n) \cap Upper(n) = {}
  BY DEF Lower, Upper
<1>5. IsFiniteSet(Lower(n)) /\ IsFiniteSet(Upper(n))
  BY <1>1, <1>2, FS_Subset
<1>6. Cardinality(R) = Cardinality(Lower(n)) + Cardinality(Upper(n)) - 0
  BY <1>3, <1>4, <1>5, FS_Union, FS_EmptySet
<1>7. ExistsBijection(Upper(n), Lower(n))
  <2> DEFINE f == [x \in Upper(n) |-> <<n - 1 - x[1], n - x[2]>>]
  <2>1. ASSUME NEW x \in Upper(n) PROVE f[x] \in Lower(n)
    <3>1. x = <<x[1], x[2]>> /\ x[1] \in 0 .. n - 1 /\ x[2] \in 0 .. n
          /\ x[1] < x[2]
      BY PairIn DEF Upper
    <3>2. QED
      BY <3>1 DEF Lower
  <2>2. ASSUME NEW a \in Upper(n), NEW b \in Upper(n), f[a] = f[b] PROVE a = b
    <3>1. a = <<a[1], a[2]>> /\ a[1] \in Int /\ a[2] \in Int
      BY PairIn DEF Upper
    <3>2. b = <<b[1], b[2]>> /\ b[1] \in Int /\ b[2] \in Int
      BY PairIn DEF Upper
    <3>3. a[1] = b[1] /\ a[2] = b[2]
      BY <2>2, <3>1, <3>2
    <3>4. QED
      BY <3>1, <3>2, <3>3
  <2>3. ASSUME NEW y \in Lower(n) PROVE \E x \in Upper(n) : f[x] = y
    <3>1. y = <<y[1], y[2]>> /\ y[1] \in 0 .. n - 1 /\ y[2] \in 0 .. n
          /\ y[2] <= y[1]
      BY PairIn DEF Lower
    <3>2. <<n - 1 - y[1], n - y[2]>> \in Upper(n)
      BY <3>1 DEF Upper
    <3>3. f[<<n - 1 - y[1], n - y[2]>>] = y
      BY <3>1, <3>2
    <3>4. QED
      BY <3>2, <3>3
  <2>4. f \in [Upper(n) -> Lower(n)]
    BY <2>1
  <2>5. f \in Bijection(Upper(n), Lower(n))
    BY <2>2, <2>3, <2>4 DEF Bijection, Injection, Surjection, IsInjective
  <2>6. QED
    BY <2>5 DEF ExistsBijection
<1>8. Cardinality(Upper(n)) = Cardinality(Lower(n))
  BY <1>5, <1>7, FS_Bijection
<1>9. Cardinality(Lower(n)) \in Nat
  BY <1>5, FS_CardinalityType
<1>10. 2 * Cardinality(Lower(n)) = n * (n + 1)
  BY <1>1, <1>6, <1>8, <1>9
<1>11. QED
  BY <1>5, <1>9, <1>10

(* The units of a set of members below m are finite.                       *)
LEMMA UnitsFinite ==
  ASSUME NEW m \in Nat, NEW S \in SUBSET (0 .. m - 1)
  PROVE  IsFiniteSet(Units(S)) /\ Cardinality(Units(S)) \in Nat
<1>1. IsFiniteSet(0 .. m - 1)
  BY IntervalCard
<1>2. IsFiniteSet((0 .. m - 1) \X (0 .. m - 1))
  BY <1>1, ProductCard
<1>3. Units(S) \subseteq (0 .. m - 1) \X (0 .. m - 1)
  <2>1. ASSUME NEW x \in Units(S) PROVE x \in (0 .. m - 1) \X (0 .. m - 1)
    <3>1. x = <<x[1], x[2]>> /\ x[1] \in S /\ x[2] \in Nat /\ x[2] <= x[1]
      BY PairIn DEF Units
    <3>2. QED
      BY <3>1
  <2>2. QED
    BY <2>1
<1>4. IsFiniteSet(Units(S))
  BY <1>2, <1>3, FS_Subset
<1>5. QED
  BY <1>4, FS_CardinalityType

(* A member t that contributes adds its t + 1 units to those of the        *)
(* members that contributed before it.                                     *)
LEMMA UnitsAdd ==
  ASSUME NEW m \in Nat, NEW S \in SUBSET (0 .. m - 1),
         NEW t \in (0 .. m - 1) \ S
  PROVE  Cardinality(Units(S \cup {t})) = Cardinality(Units(S)) + (t + 1)
<1> DEFINE B == {t} \X (0 .. t)
<1>1. Units(S \cup {t}) = Units(S) \cup B
  <2>1. ASSUME NEW x \in Units(S \cup {t}), x \notin Units(S) PROVE x \in B
    <3>1. x = <<x[1], x[2]>> /\ x[1] \in S \cup {t} /\ x[2] \in Nat
          /\ x[2] <= x[1]
      BY PairIn DEF Units
    <3>2. x[1] = t
      BY <2>1, <3>1 DEF Units
    <3>3. QED
      BY <3>1, <3>2
  <2>2. ASSUME NEW x \in B PROVE x \in Units(S \cup {t})
    <3>1. x = <<x[1], x[2]>> /\ x[1] = t /\ x[2] \in 0 .. t
      BY PairIn
    <3>2. QED
      BY <3>1 DEF Units
  <2>3. Units(S) \subseteq Units(S \cup {t})
    BY DEF Units
  <2>4. QED
    BY <2>1, <2>2, <2>3
<1>2. Units(S) \cap B = {}
  BY DEF Units
<1>3. IsFiniteSet(B) /\ Cardinality(B) = t + 1
  <2>1. IsFiniteSet({t}) /\ Cardinality({t}) = 1
    BY FS_Singleton
  <2>2. IsFiniteSet(0 .. t) /\ Cardinality(0 .. t) = t + 1
    <3>1. t \in Nat /\ 0 .. t = 0 .. (t + 1) - 1
      OBVIOUS
    <3>2. QED
      BY <3>1, IntervalCard
  <2>3. IsFiniteSet(B) /\ Cardinality(B) = Cardinality({t}) * Cardinality(0 .. t)
    BY <2>1, <2>2, ProductCard
  <2>4. QED
    BY <2>1, <2>2, <2>3
<1>4. IsFiniteSet(Units(S)) /\ Cardinality(Units(S)) \in Nat
  BY UnitsFinite
<1>5. Cardinality(Units(S) \cup B)
        = Cardinality(Units(S)) + Cardinality(B) - Cardinality(Units(S) \cap B)
  BY <1>3, <1>4, FS_Union
<1>6. Cardinality(Units(S) \cap B) = 0
  BY <1>2, FS_EmptySet
<1>7. Cardinality(Units(S \cup {t})) = Cardinality(Units(S) \cup B)
  BY <1>1
<1>8. t \in Nat /\ Cardinality(B) = t + 1
  BY <1>3
<1>9. QED
  BY ONLY <1>4, <1>5, <1>6, <1>7, <1>8

(* No member has contributed yet.                                          *)
LEMMA UnitsEmpty == Cardinality(Units({})) = 0
<1>1. Units({}) = {}
  BY DEF Units
<1>2. QED
  BY <1>1, FS_EmptySet

(* The units of a whole team of n members are the triangle Lower(n), so    *)
(* their number is 1 + 2 + ... + n.                                        *)
LEMMA UnitsOfTeam ==
  ASSUME NEW n \in Nat
  PROVE  Cardinality(Units(0 .. n - 1)) = (n * (n + 1)) \div 2
<1>1. Units(0 .. n - 1) = Lower(n)
  <2>1. ASSUME NEW x \in Units(0 .. n - 1) PROVE x \in Lower(n)
    <3>1. x = <<x[1], x[2]>> /\ x[1] \in 0 .. n - 1 /\ x[2] \in Nat
          /\ x[2] <= x[1]
      BY PairIn DEF Units
    <3>2. QED
      BY <3>1 DEF Lower
  <2>2. ASSUME NEW x \in Lower(n) PROVE x \in Units(0 .. n - 1)
    <3>1. x = <<x[1], x[2]>> /\ x[1] \in 0 .. n - 1 /\ x[2] \in 0 .. n
          /\ x[2] <= x[1]
      BY PairIn DEF Lower
    <3>2. QED
      BY <3>1 DEF Units
  <2>3. QED
    BY <2>1, <2>2
<1>2. QED
  BY <1>1, TriangleCard

=============================================================================

------------------------- MODULE LoopPartitionProofs -------------------------
(***************************************************************************)
(* Proofs about LoopPartition: the static schedule of                     *)
(* __kmpc_for_static_init_4 gives the members shares that differ by at    *)
(* most one iteration (BalancedShares), and outside the chunked schedule  *)
(* the shares partition the loop and lastIter goes to the member running  *)
(* its last iteration (StaticPartition), for every team size and loop     *)
(* whose int arithmetic does not wrap.                                     *)
(*                                                                         *)
(* A member's share is a run of the progression lb, lb + incr, ... .       *)
(* Iteration k of the loop is Pt(k), and the shares are compared through  *)
(* the indices of their first and last iterations.                        *)
(***************************************************************************)
EXTENDS LoopPartition, FiniteSetTheorems, TLAPS

USE WidthAssumption, MaxTeamAssumption, ArgsAssumption, PowerAssumption

\* The values of an int.
IntRange == -Half .. Half - 1

(* The loop's int arithmetic does not wrap: its bounds are ints, so is the *)
(* distance between them, and so is the bound one step past the loop that *)
(* the static schedule gives the members without an iteration.            *)
NoWrap(lb, ub, inc) ==
  /\ {lb, ub, ub + inc} \subseteq IntRange
  /\ AbsVal(ub - lb) < Half

\* Every loop of the constants fits, and so does every team size.
LoopsFit ==
  /\ \A lb \in Lowers, ub \in Uppers, inc \in Incrs : NoWrap(lb, ub, inc)
  /\ MaxTeam < Half

\* The loop of the region, as the guest set it up.
LoopOK ==
  /\ loop.lb \in Int /\ loop.ub \in Int /\ loop.incr \in Int \ {0}
  /\ NonEmpty(loop.lb, loop.ub, loop.incr)
  /\ NoWrap(loop.lb, loop.ub, loop.incr)
  /\ loop.n \in 1 .. MaxTeam
  /\ MaxTeam < Half

\* The distance between the bounds, and the size of a step.
Dist == AbsVal(loop.ub - loop.lb)
AD == AbsVal(loop.incr)

\* Iteration k of the loop.
Pt(k) == loop.lb + k * loop.incr

-----------------------------------------------------------------------------
(* Machine arithmetic that does not wrap.                                  *)

LEMMA I32Id ==
  ASSUME NEW x \in IntRange PROVE I32(x) = x
BY DEF I32, IntRange

LEMMA U32Id ==
  ASSUME NEW x \in 0 .. Half PROVE U32(x) = x
BY DEF U32

(* The trip count is the number of iterations: the whole steps between    *)
(* the bounds, plus one.                                                   *)
LEMMA TripCountVal ==
  ASSUME LoopOK
  PROVE  /\ TripCount = LastStep + 1
         /\ LastStep \in 0 .. Dist
         /\ LastStep * AD <= Dist
         /\ Dist \in 0 .. Half - 1
         /\ AD \in Nat \ {0}
<1> USE DEF LoopOK, NoWrap, IntRange
<1>1. Dist \in 0 .. Half - 1 /\ AD \in Nat \ {0}
  BY DEF Dist, AD, AbsVal
<1>2. LastStep \in 0 .. Dist /\ LastStep * AD <= Dist
  BY <1>1 DEF LastStep, Dist, AD
<1>3. CASE loop.incr = 1
  <2>1. loop.ub - loop.lb = Dist /\ AD = 1
    BY <1>3 DEF NonEmpty, Dist, AD, AbsVal
  <2>2. LastStep = Dist
    BY <1>1, <2>1 DEF LastStep, Dist, AD
  <2>3. TripCount = U32(Dist + 1)
    BY <1>3, <2>1 DEF TripCount
  <2>4. QED
    BY <1>1, <1>2, <2>2, <2>3, U32Id
<1>4. CASE loop.incr = -1
  <2>1. loop.lb - loop.ub = Dist /\ AD = 1
    <3>1. loop.lb >= loop.ub
      BY <1>4 DEF NonEmpty
    <3>2. Dist = loop.lb - loop.ub
      BY <3>1 DEF Dist, AbsVal
    <3>3. AD = 1
      <4>1. loop.incr < 0
        BY <1>4
      <4>2. AD = 0 - loop.incr
        BY <4>1 DEF AD, AbsVal
      <4>3. QED
        BY <1>4, <4>2
    <3>4. QED
      BY <3>2, <3>3
  <2>2. LastStep = Dist
    BY <1>1, <2>1 DEF LastStep, Dist, AD
  <2>3. TripCount = U32(Dist + 1)
    BY <1>4, <2>1 DEF TripCount
  <2>4. QED
    BY <1>1, <1>2, <2>2, <2>3, U32Id
<1>5. CASE loop.incr > 1
  <2>1. loop.ub - loop.lb \in IntRange /\ loop.ub - loop.lb >= 0
    BY <1>5 DEF NonEmpty, AbsVal
  <2>2. CDiv(I32(loop.ub - loop.lb), loop.incr) = LastStep
    BY <2>1, <1>5, I32Id DEF CDiv, LastStep, AbsVal
  <2>3. QED
    BY <1>1, <1>2, <1>5, <2>2, U32Id DEF TripCount, Dist
<1>6. CASE loop.incr < -1
  <2>1. loop.lb - loop.ub \in IntRange /\ loop.lb - loop.ub >= 0
    BY <1>6 DEF NonEmpty, AbsVal
  <2>2. CDiv(I32(loop.lb - loop.ub), -loop.incr) = LastStep
    BY <2>1, <1>6, I32Id DEF CDiv, LastStep, AbsVal
  <2>3. QED
    BY <1>1, <1>2, <1>6, <2>2, U32Id DEF TripCount, Dist
<1>7. QED
  BY <1>1, <1>2, <1>3, <1>4, <1>5, <1>6

-----------------------------------------------------------------------------
(* Runs of a progression.                                                  *)

\* The terms of index a .. b of the progression from `from` by d.
Prog(from, d, a, b) == {from + k * d : k \in a .. b}

(* Distinct indices give distinct terms, so a .. b is counted exactly.    *)
LEMMA ProgCard ==
  ASSUME NEW from \in Int, NEW d \in Int \ {0}, NEW a \in Int, NEW b \in Int,
         a <= b + 1
  PROVE  IsFiniteSet(Prog(from, d, a, b))
         /\ Cardinality(Prog(from, d, a, b)) = b - a + 1
<1> DEFINE f == [k \in a .. b |-> from + k * d]
<1>1. ASSUME NEW i \in a .. b, NEW j \in a .. b, f[i] = f[j] PROVE i = j
  <2>1. (i - j) * d = 0
    BY <1>1
  <2>2. QED
    BY <2>1
<1>2. f \in Bijection(a .. b, Prog(from, d, a, b))
  BY <1>1 DEF Bijection, Injection, Surjection, IsInjective, Prog
<1>3. IsFiniteSet(a .. b) /\ Cardinality(a .. b) = b - a + 1
  <2>1. IsFiniteSet(a .. b)
        /\ Cardinality(a .. b) = IF a > b THEN 0 ELSE b - a + 1
    BY FS_Interval, Zenon
  <2>2. (IF a > b THEN 0 ELSE b - a + 1) = b - a + 1
    OBVIOUS
  <2>3. QED
    BY <2>1, <2>2, Zenon
<1>4. QED
  BY <1>2, <1>3, FS_Bijection DEF ExistsBijection

(* The order of two iterations is the order of their indices, in the     *)
(* direction of the loop.                                                  *)
LEMMA PtOrder ==
  ASSUME LoopOK, NEW i \in Int, NEW j \in Int
  PROVE  /\ loop.incr > 0 => (i <= j <=> Pt(i) <= Pt(j))
         /\ loop.incr < 0 => (i <= j <=> Pt(j) <= Pt(i))
<1>1. Pt(j) - Pt(i) = (j - i) * loop.incr
  BY DEF LoopOK, Pt
<1>2. loop.incr > 0 => (j - i >= 0 <=> (j - i) * loop.incr >= 0)
  BY DEF LoopOK
<1>3. loop.incr < 0 => (j - i >= 0 <=> (j - i) * loop.incr <= 0)
  BY DEF LoopOK
<1>4. QED
  BY <1>1, <1>2, <1>3 DEF LoopOK, Pt

(* An iteration lies between two others exactly when its index does.      *)
LEMMA WithinPt ==
  ASSUME LoopOK, NEW a \in Int, NEW b \in Int, NEW j \in Int
  PROVE  Within(Pt(j), Pt(a), Pt(b)) <=> a <= j /\ j <= b
<1>1. CASE loop.incr > 0
  BY <1>1, PtOrder DEF Within
<1>2. CASE loop.incr < 0
  BY <1>2, PtOrder DEF Within
<1>3. QED
  BY <1>1, <1>2 DEF LoopOK

(* The iterations of the loop lie between its bounds.                      *)
LEMMA PtInLoop ==
  ASSUME LoopOK, NEW k \in 0 .. LastStep
  PROVE  Within(Pt(k), loop.lb, loop.ub) /\ Pt(k) \in IntRange
<1>1. /\ LastStep \in 0 .. Dist /\ LastStep * AD <= Dist
      /\ Dist \in 0 .. Half - 1 /\ AD \in Nat \ {0}
  BY TripCountVal
<1>2. k * AD <= Dist
  <2>1. k * AD <= LastStep * AD
    BY <1>1 DEF AD, AbsVal, LoopOK
  <2>2. QED
    BY <1>1, <2>1
<1>3. CASE loop.incr > 0
  <2>1. Pt(k) - loop.lb = k * AD /\ Dist = loop.ub - loop.lb
    BY <1>3 DEF Pt, AD, AbsVal, Dist, LoopOK, NonEmpty
  <2>2. k * AD >= 0
    BY <1>3 DEF AD, AbsVal, LoopOK
  <2>3. QED
    BY <1>1, <1>2, <1>3, <2>1, <2>2 DEF Within, LoopOK, NoWrap, IntRange, Pt
<1>4. CASE loop.incr < 0
  <2>1. loop.lb - Pt(k) = k * AD /\ Dist = loop.lb - loop.ub
    BY <1>4 DEF Pt, AD, AbsVal, Dist, LoopOK, NonEmpty
  <2>2. k * AD >= 0
    BY <1>4 DEF AD, AbsVal, LoopOK
  <2>3. QED
    BY <1>1, <1>2, <1>4, <2>1, <2>2 DEF Within, LoopOK, NoWrap, IntRange, Pt
<1>5. QED
  BY <1>3, <1>4 DEF LoopOK

\* Iterations a .. b of the loop.
PtSet(a, b) == Prog(loop.lb, loop.incr, a, b)

(* Iterations a .. b of the loop are b - a + 1 iterations.                 *)
LEMMA PtSetCard ==
  ASSUME LoopOK, NEW a \in Int, NEW b \in Int, a <= b + 1
  PROVE  IsFiniteSet(PtSet(a, b)) /\ Cardinality(PtSet(a, b)) = b - a + 1
<1>1. loop.lb \in Int /\ loop.incr \in Int \ {0}
  BY DEF LoopOK
<1>2. IsFiniteSet(Prog(loop.lb, loop.incr, a, b))
      /\ Cardinality(Prog(loop.lb, loop.incr, a, b)) = b - a + 1
  BY <1>1, ProgCard, Zenon
<1>3. QED
  BY <1>2 DEF PtSet

(* The outlined loop's clamp leaves a bound inside the loop alone.        *)
LEMMA ClampIn ==
  ASSUME LoopOK, NEW v \in Int, Within(v, loop.lb, loop.ub)
  PROVE  Clamp(v) = v
<1>1. CASE loop.incr > 0
  BY <1>1 DEF Clamp, MinOf, Within, LoopOK
<1>2. CASE loop.incr < 0
  <2>1. 0 - v <= 0 - loop.ub
    BY <1>2 DEF Within, LoopOK
  <2>2. MinOf(-v, -loop.ub) = 0 - v
    BY <2>1 DEF MinOf, LoopOK
  <2>3. QED
    BY <1>2, <2>2 DEF Clamp, LoopOK
<1>3. QED
  BY <1>1, <1>2 DEF LoopOK

(* A run between two iterations of the loop is the iterations between     *)
(* their indices.                                                          *)
LEMMA RunPt ==
  ASSUME LoopOK, NEW a \in 0 .. LastStep, NEW b \in 0 .. LastStep, a <= b
  PROVE  Run(Pt(a), Pt(b)) = PtSet(a, b)
<1>1. /\ LastStep \in 0 .. Dist /\ Dist \in 0 .. Half - 1
      /\ loop.lb \in Int /\ loop.incr \in Int
  BY TripCountVal DEF LoopOK
<1>2. Clamp(Pt(b)) = Pt(b)
  BY <1>1, PtInLoop, ClampIn DEF Pt
<1>3. ASSUME NEW x \in Run(Pt(a), Pt(b)) PROVE x \in PtSet(a, b)
  <2>1. PICK k \in Steps : x = Pt(a) + k * loop.incr
                           /\ Within(x, Pt(a), Pt(b))
    BY <1>2, <1>3 DEF Run
  <2>2. k \in Nat /\ x = Pt(a + k)
    BY <1>1, <2>1 DEF Steps, Pt
  <2>3. a <= a + k /\ a + k <= b
    BY <1>1, <2>1, <2>2, WithinPt
  <2>4. QED
    BY <1>1, <2>2, <2>3 DEF PtSet, Prog, Pt
<1>4. ASSUME NEW j \in a .. b PROVE Pt(j) \in Run(Pt(a), Pt(b))
  <2>1. j - a \in Steps
    BY <1>1 DEF Steps, Dist
  <2>2. Pt(j) = Pt(a) + (j - a) * loop.incr
    BY <1>1 DEF Pt
  <2>3. Within(Pt(j), Pt(a), Pt(b))
    BY <1>1, WithinPt
  <2>4. QED
    BY <1>2, <2>1, <2>2, <2>3 DEF Run
<1>5. QED
  BY <1>3, <1>4 DEF PtSet, Prog, Pt

(* The share that starts one step past the loop's bound is empty.         *)
LEMMA RunPast ==
  ASSUME LoopOK PROVE Run(loop.ub + loop.incr, loop.ub) = {}
<1>1. Clamp(loop.ub) = loop.ub
  BY ClampIn DEF LoopOK, NonEmpty, Within
<1>2. ASSUME NEW x \in Run(loop.ub + loop.incr, loop.ub) PROVE FALSE
  <2>1. PICK k \in Steps : x = loop.ub + loop.incr + k * loop.incr
                           /\ Within(x, loop.ub + loop.incr, loop.ub)
    BY <1>1, <1>2 DEF Run
  <2>2. QED
    BY <2>1 DEF Within, LoopOK
<1>3. QED
  BY <1>2

(* A run has finitely many iterations.                                    *)
LEMMA RunFinite ==
  ASSUME LoopOK, NEW from \in Int, NEW to \in Int
  PROVE  IsFiniteSet(Run(from, to)) /\ Cardinality(Run(from, to)) \in Nat
<1>1. Dist \in Nat
  BY TripCountVal
<1>2. IsFiniteSet(Prog(from, loop.incr, 0, Dist))
  <2>1. loop.incr \in Int \ {0} /\ Dist \in Int /\ 0 \in Int /\ 0 <= Dist + 1
    BY <1>1 DEF LoopOK
  <2>2. QED
    BY <2>1, ProgCard, Zenon
<1>3. Run(from, to) \subseteq Prog(from, loop.incr, 0, Dist)
  BY DEF Run, Prog, Steps, Dist
<1>4. QED
  BY <1>2, <1>3, FS_Subset, FS_CardinalityType

-----------------------------------------------------------------------------
(* The static balanced schedule, by indices.                               *)

\* small_chunk and extras of the code, once the trip count is known.
Small == TripCount \div loop.n
Extras == TripCount % loop.n

(* Division by a positive number: quotient and remainder.                 *)
LEMMA DivMod ==
  ASSUME NEW a \in Nat, NEW n \in Nat \ {0}
  PROVE  /\ a = (a \div n) * n + (a % n)
         /\ a % n \in 0 .. n - 1 /\ a \div n \in Nat
OBVIOUS

(* Every natural number lies between two multiples of a positive d.       *)
LEMMA QuotPick ==
  ASSUME NEW a \in Nat, NEW d \in Nat \ {0}
  PROVE  \E q \in Nat : q * d <= a /\ a <= q * d + (d - 1)
<1>1. /\ a \div d \in Nat /\ a \div d \in Int /\ a % d \in Int
      /\ a = (a \div d) * d + (a % d) /\ a % d \in 0 .. d - 1
  OBVIOUS
<1>2. \A q \in Int, m \in Int :
        a = q * d + m /\ m \in 0 .. d - 1 => q * d <= a /\ a <= q * d + (d - 1)
  OBVIOUS
<1>3. (a \div d) * d <= a /\ a <= (a \div d) * d + (d - 1)
  BY <1>1, <1>2, Zenon
<1>4. QED
  BY <1>1, <1>3, Zenon

(* The trip count is small_chunk members' worth plus extras.              *)
LEMMA SmallExtras ==
  ASSUME LoopOK
  PROVE  /\ TripCount = Small * loop.n + Extras
         /\ Extras \in 0 .. loop.n - 1 /\ Small \in Nat
         /\ TripCount = LastStep + 1 /\ LastStep \in Nat
         /\ loop.n \in Nat \ {0}
<1>1. TripCount = LastStep + 1 /\ LastStep \in Nat
  BY TripCountVal
<1>2. loop.n \in Nat \ {0} /\ TripCount \in Nat
  BY <1>1 DEF LoopOK
<1>3. /\ TripCount = (TripCount \div loop.n) * loop.n + (TripCount % loop.n)
      /\ TripCount % loop.n \in 0 .. loop.n - 1
      /\ TripCount \div loop.n \in Nat
  BY <1>2, DivMod
<1>4. QED
  BY <1>1, <1>2, <1>3 DEF Small, Extras

\* The indices of the first and the last iteration of member t's share.
BA(t) == t * Small + MinOf(t, Extras)
BB(t) == BA(t) + Small - (IF t < Extras THEN 0 ELSE 1)

(* Every member gets small_chunk iterations, the first `extras` one more, *)
(* and the shares lie inside the loop.                                     *)
LEMMA BalancedIdx ==
  ASSUME LoopOK, loop.n > 1, TripCount >= loop.n, NEW t \in 0 .. loop.n - 1
  PROVE  /\ BA(t) \in 0 .. LastStep /\ BB(t) \in 0 .. LastStep
         /\ BA(t) <= BB(t)
         /\ BB(t) - BA(t) + 1 = Small + (IF t < Extras THEN 1 ELSE 0)
<1>1. TripCount = LastStep + 1 /\ LastStep \in Nat
  BY TripCountVal
<1>2. loop.n \in Nat \ {0, 1}
  BY DEF LoopOK
<1>3. TripCount = Small * loop.n + Extras /\ Extras \in 0 .. loop.n - 1
      /\ Small \in Nat
  BY <1>1, <1>2 DEF Small, Extras
<1>4. Small >= 1
  BY <1>1, <1>2, <1>3
<1>5. (t + 1) * Small <= loop.n * Small /\ t * Small >= 0
  BY <1>2, <1>3
<1>6. CASE t < Extras
  <2>1. BA(t) = t * Small + t /\ BB(t) = t * Small + t + Small
    BY <1>3, <1>6 DEF BA, BB, MinOf
  <2>2. QED
    BY <1>1, <1>2, <1>3, <1>4, <1>5, <1>6, <2>1
<1>7. CASE t >= Extras
  <2>1. BA(t) = t * Small + Extras /\ BB(t) = t * Small + Extras + Small - 1
    BY <1>3, <1>7 DEF BA, BB, MinOf
  <2>2. QED
    BY <1>1, <1>2, <1>3, <1>4, <1>5, <1>7, <2>1
<1>8. QED
  BY <1>3, <1>6, <1>7

(* The team size, converted to unsigned int, is unchanged.                *)
LEMMA TeamU32 ==
  ASSUME LoopOK PROVE U32(loop.n) = loop.n
BY U32Id DEF LoopOK

(* With as many iterations as members, member t runs iterations           *)
(* BA(t) .. BB(t): no int operation of the code wraps.                    *)
LEMMA BalancedRun ==
  ASSUME LoopOK, loop.n > 1, TripCount >= loop.n, NEW t \in 0 .. loop.n - 1
  PROVE  Run(StaticBalanced(t, TripCount).lower,
             StaticBalanced(t, TripCount).upper) = PtSet(BA(t), BB(t))
<1>1. U32(loop.n) = loop.n
  BY TeamU32
<1>2. /\ BA(t) \in 0 .. LastStep /\ BB(t) \in 0 .. LastStep
      /\ BA(t) <= BB(t)
  BY BalancedIdx
<1>3. /\ loop.lb \in Int /\ loop.incr \in Int /\ t \in Int
      /\ Small \in Int /\ Extras \in Int
  <2>1. TripCount \in Nat /\ loop.n \in Nat \ {0}
    BY TripCountVal DEF LoopOK
  <2>2. QED
    BY <2>1 DEF LoopOK, Small, Extras
<1>3a. Pt(BA(t)) \in IntRange /\ Pt(BB(t)) \in IntRange
  BY <1>2, PtInLoop
<1>4. loop.lb + loop.incr * (t * Small + MinOf(t, Extras)) = Pt(BA(t))
  BY <1>3 DEF Pt, BA, MinOf
<1>5. StaticBalanced(t, TripCount).lower = Pt(BA(t))
  BY <1>1, <1>3a, <1>4, I32Id DEF StaticBalanced, Small, Extras
<1>6. Pt(BA(t)) + Small * loop.incr - (IF t < Extras THEN 0 ELSE loop.incr)
        = Pt(BB(t))
  <2> DEFINE A == t * Small + MinOf(t, Extras)
  <2>1. A \in Int
    BY <1>3 DEF MinOf
  <2>2. CASE t < Extras
    <3>1. Pt(BB(t)) = loop.lb + (A + Small) * loop.incr
      BY <1>3, <2>1, <2>2 DEF Pt, BB, BA
    <3>2. QED
      BY <1>3, <2>1, <2>2, <3>1 DEF Pt, BA
  <2>3. CASE ~(t < Extras)
    <3>1. Pt(BB(t)) = loop.lb + (A + Small - 1) * loop.incr
      BY <1>3, <2>1, <2>3 DEF Pt, BB, BA
    <3>2. QED
      BY <1>3, <2>1, <2>3, <3>1 DEF Pt, BA
  <2>4. QED
    BY <2>2, <2>3
<1>7. StaticBalanced(t, TripCount).upper = Pt(BB(t))
  BY <1>1, <1>3a, <1>5, <1>6, I32Id DEF StaticBalanced, Small, Extras
<1>8. QED
  BY <1>2, <1>5, <1>7, RunPt

(* With fewer iterations than members, the first tripCount members run    *)
(* one iteration each and the others none.                                 *)
LEMMA SmallRun ==
  ASSUME LoopOK, TripCount < loop.n, NEW t \in 0 .. loop.n - 1
  PROVE  Run(StaticSmall(t, TripCount).lower, StaticSmall(t, TripCount).upper)
           = IF t < TripCount THEN PtSet(t, t) ELSE {}
<1>1. TripCount = LastStep + 1 /\ LastStep \in Nat
  BY TripCountVal
<1>2. U32(t) = t
  BY U32Id DEF LoopOK
<1>3. CASE t < TripCount
  <2>1. t \in 0 .. LastStep
    BY <1>1, <1>3
  <2>2. Pt(t) \in IntRange /\ loop.lb + t * loop.incr = Pt(t)
    BY <2>1, PtInLoop DEF Pt
  <2>3. StaticSmall(t, TripCount).lower = Pt(t)
        /\ StaticSmall(t, TripCount).upper = Pt(t)
    BY <1>2, <1>3, <2>2, I32Id DEF StaticSmall
  <2>4. QED
    BY <1>3, <2>1, <2>3, RunPt
<1>4. CASE ~(t < TripCount)
  <2>1. loop.ub + loop.incr \in IntRange
    BY DEF LoopOK, NoWrap
  <2>2. StaticSmall(t, TripCount).lower = loop.ub + loop.incr
        /\ StaticSmall(t, TripCount).upper = loop.ub
    BY <1>2, <1>4, <2>1, I32Id DEF StaticSmall
  <2>3. QED
    BY <1>4, <2>2, RunPast
<1>5. QED
  BY <1>3, <1>4

-----------------------------------------------------------------------------
(* The inductive invariant: the loop is one the guest can run, and every  *)
(* member that has returned from __kmpc_for_static_init_4 holds the share  *)
(* the code computes for it.                                               *)

\* The share member t's call computes.
ShareOf(t) ==
  IF loop.n = 1 THEN SingleShare
  ELSE IF loop.schedule = 33 THEN Chunked(t, TripCount)
  ELSE IF TripCount < U32(loop.n) THEN StaticSmall(t, TripCount)
  ELSE StaticBalanced(t, TripCount)

LInv ==
  /\ loop.lb \in Lowers /\ loop.ub \in Uppers /\ loop.incr \in Incrs
  /\ loop.n \in 1 .. MaxTeam
  /\ NonEmpty(loop.lb, loop.ub, loop.incr)
  /\ DOMAIN share = 0 .. MaxTeam - 1 /\ DOMAIN status = 0 .. MaxTeam - 1
  /\ \A t \in 0 .. MaxTeam - 1 :
       status[t] = "after" =>
         /\ loop.n = 1 \/ loop.schedule \in {33, 34}
         /\ share[t] = ShareOf(t)

LEMMA InitLInv == Init => LInv
BY DEF Init, LInv

(* A member's call stores the share ShareOf gives it, or traps; the loop  *)
(* itself never changes.                                                   *)
LEMMA LInvStep == LInv /\ [Next]_vars => LInv'
<1> SUFFICES ASSUME LInv, [Next]_vars PROVE LInv'
  OBVIOUS
<1>1. CASE UNCHANGED vars
  BY <1>1 DEF LInv, vars, ShareOf, SingleShare, Chunked, StaticSmall,
     StaticBalanced, TripCount
<1>2. ASSUME NEW t \in Team, ForStaticInit(t) PROVE LInv'
  <2>1. t \in 0 .. MaxTeam - 1 /\ UNCHANGED loop
    BY <1>2 DEF Team, LInv, ForStaticInit
  <2>2. ShareOf(t)' = ShareOf(t) /\ \A u \in 0 .. MaxTeam - 1 : ShareOf(u)' = ShareOf(u)
    BY <2>1 DEF ShareOf, SingleShare, Chunked, StaticSmall, StaticBalanced,
       TripCount
  <2>3. \/ /\ share' = [share EXCEPT ![t] = ShareOf(t)]
           /\ status' = [status EXCEPT ![t] = "after"]
           /\ (loop.n = 1 \/ loop.schedule \in {33, 34})
        \/ /\ status' = [status EXCEPT ![t] = "trapped"]
           /\ UNCHANGED share
    BY <1>2, <2>1 DEF ForStaticInit, ShareOf, LInv
  <2>4. QED
    BY <2>1, <2>2, <2>3 DEF LInv
<1>3. QED
  BY <1>1, <1>2 DEF Next

(* The loop of any reachable state is one that fits.                       *)
LEMMA LoopOKFromLInv ==
  ASSUME LoopsFit, LInv PROVE LoopOK
BY DEF LoopsFit, LInv, LoopOK

(* With the static schedule and a team, a member runs one or no iteration *)
(* when there are fewer iterations than members, and small_chunk or       *)
(* small_chunk + 1 iterations otherwise.                                   *)
LEMMA ShareCard ==
  ASSUME LoopOK, loop.n > 1, loop.schedule = 34, NEW t \in 0 .. loop.n - 1
  PROVE  Cardinality(Run(ShareOf(t).lower, ShareOf(t).upper))
           \in IF TripCount < loop.n THEN {0, 1} ELSE {Small, Small + 1}
<1>1. U32(loop.n) = loop.n /\ TripCount \in Nat
  BY TeamU32, TripCountVal
<1>2. loop.lb \in Int /\ loop.incr \in Int \ {0} /\ t \in Int
  BY DEF LoopOK
<1>3. CASE TripCount < loop.n
  <2>1. ShareOf(t) = StaticSmall(t, TripCount)
    BY <1>1, <1>3 DEF ShareOf
  <2>2. CASE t < TripCount
    <3>1. Cardinality(PtSet(t, t)) = 1
      <4>1. t <= t + 1
        BY <1>2
      <4>2. QED
        BY <1>2, <4>1, PtSetCard
    <3>2. QED
      BY <1>3, <2>1, <2>2, <3>1, SmallRun
  <2>3. CASE ~(t < TripCount)
    BY <1>3, <2>1, <2>3, SmallRun, FS_EmptySet
  <2>4. QED
    BY <2>2, <2>3
<1>4. CASE ~(TripCount < loop.n)
  <2>1. ShareOf(t) = StaticBalanced(t, TripCount)
    BY <1>1, <1>4 DEF ShareOf
  <2>0. TripCount >= loop.n
    BY <1>1, <1>4 DEF LoopOK
  <2>2. /\ BA(t) \in Int /\ BB(t) \in Int /\ BA(t) <= BB(t)
        /\ BB(t) - BA(t) + 1 = Small + (IF t < Extras THEN 1 ELSE 0)
    BY <2>0, BalancedIdx
  <2>3. Cardinality(PtSet(BA(t), BB(t))) = BB(t) - BA(t) + 1
    <3>1. BA(t) <= BB(t) + 1
      BY <2>2
    <3>2. QED
      BY <2>2, <3>1, PtSetCard
  <2>4. Small \in Int
    BY <1>1 DEF LoopOK, Small
  <2>5. Run(ShareOf(t).lower, ShareOf(t).upper) = PtSet(BA(t), BB(t))
    BY <2>0, <2>1, BalancedRun
  <2>6. QED
    BY <1>4, <2>2, <2>3, <2>4, <2>5
<1>5. QED
  BY <1>3, <1>4

(* Every reachable state whose loop fits satisfies BalancedShares.        *)
LEMMA LInvBalanced ==
  ASSUME LoopsFit, LInv PROVE BalancedShares
<1>1. LoopOK
  BY LoopOKFromLInv
<1> SUFFICES ASSUME AllCalled, loop.schedule = 34,
                    NEW t \in Team, NEW u \in Team
             PROVE  Cardinality(Executed(t)) <= Cardinality(Executed(u)) + 1
  BY DEF BalancedShares
<1>2. \A v \in Team : Executed(v) = Run(ShareOf(v).lower, ShareOf(v).upper)
  BY DEF AllCalled, LInv, Team, Executed
<1>3. CASE loop.n = 1
  <2>1. t = u
    BY <1>3 DEF Team
  <2>2. ShareOf(t).lower \in Int /\ ShareOf(t).upper \in Int
    BY <1>1, <1>3 DEF ShareOf, SingleShare, LoopOK
  <2>3. Cardinality(Executed(t)) \in Nat
    BY <1>1, <1>2, <2>2, RunFinite
  <2>4. QED
    BY <2>1, <2>3
<1>4. CASE loop.n > 1
  <2>1. t \in 0 .. loop.n - 1 /\ u \in 0 .. loop.n - 1
    BY DEF Team
  <2>2. Small \in Int
    <3>1. TripCount \in Nat
      BY <1>1, TripCountVal
    <3>2. QED
      BY <1>1, <3>1 DEF LoopOK, Small
  <2>3. Cardinality(Executed(t))
          \in IF TripCount < loop.n THEN {0, 1} ELSE {Small, Small + 1}
    BY <1>1, <1>2, <1>4, <2>1, ShareCard
  <2>4. Cardinality(Executed(u))
          \in IF TripCount < loop.n THEN {0, 1} ELSE {Small, Small + 1}
    BY <1>1, <1>2, <1>4, <2>1, ShareCard
  <2>5. QED
    BY <2>2, <2>3, <2>4
<1>5. QED
  BY <1>1, <1>3, <1>4 DEF LoopOK

(* BalancedShares, spec property 4(b), holds in every reachable state for *)
(* every team size, width and loop: the static schedule of                 *)
(* __kmpc_for_static_init_4 gives each member small_chunk or              *)
(* small_chunk + 1 iterations, or one or none when the loop has fewer      *)
(* iterations than the team has members. The hypothesis is needed: when    *)
(* the loop's int arithmetic wraps, the trip count and the bounds wrap     *)
(* with it (MCLoopPartitionWrap.cfg).                                       *)
THEOREM BalancedSharesThm ==
  ASSUME LoopsFit PROVE Spec => []BalancedShares
<1>1. Init => LInv
  BY InitLInv
<1>2. LInv /\ [Next]_vars => LInv'
  BY LInvStep
<1>3. LInv => BalancedShares
  BY LInvBalanced
<1>4. QED
  BY <1>1, <1>2, <1>3, PTL DEF Spec

-----------------------------------------------------------------------------
(* The static schedule partitions the loop.  Member t of a team runs the  *)
(* iterations of index Lo(t) .. Hi(t); these intervals follow each other  *)
(* from 0 to LastStep, and only the last one holds LastStep.               *)

Lo(t) == IF TripCount < loop.n THEN t ELSE BA(t)
Hi(t) == IF TripCount < loop.n THEN (IF t < TripCount THEN t ELSE t - 1)
         ELSE BB(t)

(* Every member's interval lies in the loop, and the interval of a member *)
(* ends before that of every later member begins.                          *)
LEMMA IdxOrder ==
  ASSUME LoopOK, loop.n > 1, NEW t \in 0 .. loop.n - 1
  PROVE  /\ Lo(t) \in Int /\ Hi(t) \in Int /\ Lo(t) <= Hi(t) + 1
         /\ Lo(t) .. Hi(t) \subseteq 0 .. LastStep
         /\ \A u \in 0 .. loop.n - 1 : t < u => Hi(t) < Lo(u)
<1>1. TripCount = LastStep + 1 /\ LastStep \in Nat /\ loop.n \in Nat \ {0, 1}
  BY TripCountVal DEF LoopOK
<1>2. CASE TripCount < loop.n
  BY <1>1, <1>2 DEF Lo, Hi
<1>3. CASE ~(TripCount < loop.n)
  <2>0. TripCount >= loop.n
    BY <1>1, <1>3
  <2>1. /\ BA(t) \in 0 .. LastStep /\ BB(t) \in 0 .. LastStep
        /\ BA(t) <= BB(t)
    BY <2>0, BalancedIdx
  <2>2. ASSUME NEW u \in 0 .. loop.n - 1, t < u PROVE BB(t) < BA(u)
    <3>1. TripCount = Small * loop.n + Extras /\ Extras \in 0 .. loop.n - 1
          /\ Small \in Nat
      BY SmallExtras
    <3>2. (u - t) * Small >= Small
      BY <2>2, <3>1
    <3>3. CASE t < Extras
      <4>1. MinOf(u, Extras) >= t + 1 /\ MinOf(t, Extras) = t
        BY <2>2, <3>1, <3>3 DEF MinOf
      <4>2. BA(u) - BA(t) = (u - t) * Small + MinOf(u, Extras) - t
        BY <3>1, <4>1 DEF BA, MinOf
      <4>3. QED
        BY <3>1, <3>2, <3>3, <4>1, <4>2 DEF BB, BA, MinOf
    <3>4. CASE ~(t < Extras)
      <4>1. MinOf(u, Extras) = Extras /\ MinOf(t, Extras) = Extras
        BY <2>2, <3>1, <3>4 DEF MinOf
      <4>2. BA(u) - BA(t) = (u - t) * Small
        BY <3>1, <4>1 DEF BA
      <4>3. QED
        BY <3>1, <3>2, <3>4, <4>1, <4>2 DEF BB, BA
    <3>5. QED
      BY <3>3, <3>4
  <2>3. Lo(t) = BA(t) /\ Hi(t) = BB(t)
    BY <1>3 DEF Lo, Hi
  <2>4. \A u \in 0 .. loop.n - 1 : Lo(u) = BA(u)
    BY <1>3 DEF Lo
  <2>5. Lo(t) .. Hi(t) \subseteq 0 .. LastStep
    BY <1>1, <2>1, <2>3
  <2>6. QED
    BY <2>1, <2>2, <2>3, <2>4, <2>5
<1>4. QED
  BY <1>2, <1>3

(* Every iteration of the loop falls in some member's interval.           *)
LEMMA IdxCover ==
  ASSUME LoopOK, loop.n > 1, NEW k \in 0 .. LastStep
  PROVE  \E t \in 0 .. loop.n - 1 : Lo(t) <= k /\ k <= Hi(t)
<1>1. TripCount = LastStep + 1 /\ LastStep \in Nat /\ loop.n \in Nat \ {0, 1}
  BY TripCountVal DEF LoopOK
<1>2. CASE TripCount < loop.n
  <2>1. k \in 0 .. loop.n - 1 /\ Lo(k) = k /\ Hi(k) = k
    BY <1>1, <1>2 DEF Lo, Hi
  <2>2. QED
    BY <2>1
<1>3. CASE ~(TripCount < loop.n)
  <2> DEFINE S == Small
             E == Extras
  <2>1. /\ TripCount = S * loop.n + E /\ E \in 0 .. loop.n - 1
        /\ S \in Nat /\ TripCount = LastStep + 1 /\ loop.n \in Nat \ {0}
    BY SmallExtras
  <2>2. S # 0
    <3>1. CASE S = 0
      <4>1. TripCount = E
        BY <2>1, <3>1
      <4>2. QED
        BY <1>3, <2>1, <4>1
    <3>2. QED
      BY <3>1
  <2>3. k \in Nat /\ k <= S * loop.n + E - 1
    BY <1>1, <2>1
  <2>4. \A t \in 0 .. loop.n - 1 : Lo(t) = BA(t) /\ Hi(t) = BB(t)
    BY <1>3 DEF Lo, Hi
  <2>5. CASE k < E * (S + 1)
    <3>0. S + 1 \in Nat \ {0} /\ (S + 1) - 1 = S
      BY <2>1
    <3>1. PICK t \in Nat : t * (S + 1) <= k /\ k <= t * (S + 1) + S
      <4>1. \E q \in Nat : q * (S + 1) <= k /\ k <= q * (S + 1) + ((S + 1) - 1)
        BY <2>3, <3>0, QuotPick, Zenon
      <4>2. QED
        BY <3>0, <4>1
    <3>2. t < E
      <4>1. ~(t >= E)
        <5>1. SUFFICES ASSUME t >= E PROVE FALSE
          OBVIOUS
        <5>2. t * (S + 1) >= E * (S + 1)
          BY <2>1, <3>1, <5>1
        <5>3. QED
          BY <2>1, <2>5, <3>1, <5>2
      <4>2. QED
        BY <2>1, <3>1, <4>1
    <3>3. BA(t) = t * (S + 1) /\ BB(t) = t * (S + 1) + S
      <4>1. MinOf(t, E) = t
        BY <2>1, <3>1, <3>2 DEF MinOf
      <4>2. BA(t) = t * S + t
        BY <4>1 DEF BA
      <4>3. BB(t) = BA(t) + S
        BY <2>1, <3>1, <3>2, <4>2 DEF BB
      <4>4. t * S + t = t * (S + 1)
        BY <2>1, <3>1
      <4>5. QED
        BY <2>1, <3>1, <4>2, <4>3, <4>4
    <3>4. t \in 0 .. loop.n - 1
      BY <2>1, <3>1, <3>2
    <3>5. QED
      BY <2>1, <2>4, <3>1, <3>3, <3>4
  <2>6. CASE ~(k < E * (S + 1))
    <3> DEFINE r == k - E * (S + 1)
    <3>1. r \in Nat /\ r <= (loop.n - E) * S - 1
      BY <2>1, <2>3, <2>6
    <3>2. PICK q \in Nat : q * S <= r /\ r <= q * S + (S - 1)
      <4>1. S \in Nat \ {0}
        BY <2>1, <2>2
      <4>2. QED
        BY <3>1, <4>1, QuotPick, Zenon
    <3> DEFINE t == E + q
    <3>3. q < loop.n - E
      <4>1. ~(q >= loop.n - E)
        <5>1. SUFFICES ASSUME q >= loop.n - E PROVE FALSE
          OBVIOUS
        <5>2. q * S >= (loop.n - E) * S
          BY <2>1, <3>2, <5>1
        <5>3. QED
          BY <2>1, <3>1, <3>2, <5>2
      <4>2. QED
        BY <2>1, <3>2, <4>1
    <3>4. MinOf(t, E) = E
      BY <2>1, <3>2 DEF MinOf
    <3>5. BA(t) = E * (S + 1) + q * S /\ BB(t) = BA(t) + S - 1
      <4>1. BA(t) = (E + q) * S + E
        BY <3>4 DEF BA
      <4>2. ~(t < E)
        BY <2>1, <3>2
      <4>3. QED
        BY <2>1, <3>2, <4>1, <4>2 DEF BB
    <3>6. t \in 0 .. loop.n - 1
      BY <2>1, <3>2, <3>3
    <3>7. QED
      BY <2>1, <2>4, <3>1, <3>2, <3>5, <3>6
  <2>7. QED
    BY <2>5, <2>6
<1>4. QED
  BY <1>2, <1>3

(* Only the interval of the member whose call sets lastIter holds the     *)
(* last iteration.                                                         *)
LEMMA IdxLast ==
  ASSUME LoopOK, loop.n > 1, NEW t \in 0 .. loop.n - 1
  PROVE  (LastStep \in Lo(t) .. Hi(t))
           <=> IF TripCount < loop.n THEN t = TripCount - 1 ELSE t = loop.n - 1
<1>1. TripCount = LastStep + 1 /\ LastStep \in Nat /\ loop.n \in Nat \ {0, 1}
  BY TripCountVal DEF LoopOK
<1>2. CASE TripCount < loop.n
  BY <1>1, <1>2 DEF Lo, Hi
<1>3. CASE ~(TripCount < loop.n)
  <2>1. /\ TripCount = Small * loop.n + Extras /\ Extras \in 0 .. loop.n - 1
        /\ Small \in Nat /\ TripCount = LastStep + 1 /\ LastStep \in Nat
        /\ loop.n \in Nat \ {0}
    BY SmallExtras
  <2>2. TripCount >= loop.n
    BY <1>3, <2>1
  <2>3. \A u \in 0 .. loop.n - 1 :
          /\ Lo(u) = BA(u) /\ Hi(u) = BB(u) /\ BA(u) <= BB(u)
          /\ BA(u) \in Int /\ BB(u) \in Int
    BY <1>3, <2>2, BalancedIdx DEF Lo, Hi
  <2>4. BB(loop.n - 1) = LastStep
    <3>1. MinOf(loop.n - 1, Extras) = Extras
      BY <2>1 DEF MinOf
    <3>2. BA(loop.n - 1) = (loop.n - 1) * Small + Extras
      BY <3>1 DEF BA
    <3>3. BB(loop.n - 1) = BA(loop.n - 1) + Small - 1
      BY <2>1, <3>2 DEF BB
    <3>4. QED
      BY <2>1, <3>2, <3>3
  <2>5. loop.n - 1 \in 0 .. loop.n - 1
    BY <2>1
  <2>6. CASE t = loop.n - 1
    BY <1>3, <2>1, <2>3, <2>4, <2>5, <2>6
  <2>7. CASE t # loop.n - 1
    <3>1. t < loop.n - 1
      BY <2>1, <2>7
    <3>2. Hi(t) < Lo(loop.n - 1)
      BY <2>5, <3>1, IdxOrder
    <3>3. QED
      BY <1>3, <2>1, <2>3, <2>4, <2>5, <2>7, <3>2
  <2>8. QED
    BY <2>6, <2>7
<1>4. QED
  BY <1>2, <1>3

(* Distinct indices give distinct iterations.                              *)
LEMMA PtInj ==
  ASSUME LoopOK, NEW i \in Int, NEW j \in Int, Pt(i) = Pt(j) PROVE i = j
<1>1. (i - j) * loop.incr = 0 /\ loop.incr # 0
  BY DEF Pt, LoopOK
<1>2. QED
  BY <1>1 DEF LoopOK

(* The whole loop, run from its lower to its upper bound, is iterations   *)
(* 0 .. LastStep.                                                          *)
LEMMA RunWhole ==
  ASSUME LoopOK PROVE Run(loop.lb, loop.ub) = PtSet(0, LastStep)
<1>1. /\ LastStep \in 0 .. Dist /\ Dist \in 0 .. Half - 1 /\ AD \in Nat \ {0}
      /\ LastStep = Dist \div AD
  BY TripCountVal DEF LastStep, Dist, AD
<1>2. Clamp(loop.ub) = loop.ub
  BY ClampIn DEF LoopOK, NonEmpty, Within
<1>3. ASSUME NEW k \in Steps, Within(loop.lb + k * loop.incr, loop.lb, loop.ub)
      PROVE  k \in 0 .. LastStep
  <2>1. k \in Nat
    BY DEF Steps
  <2>2. k * AD <= Dist
    <3>1. CASE loop.incr > 0
      BY <1>3, <2>1, <3>1 DEF Within, AD, Dist, AbsVal, LoopOK
    <3>2. CASE loop.incr < 0
      <4>1. AD = 0 - loop.incr /\ Dist = loop.lb - loop.ub
        BY <3>2 DEF AD, Dist, AbsVal, LoopOK, NonEmpty
      <4>2. QED
        BY <1>3, <2>1, <3>2, <4>1 DEF Within, LoopOK
    <3>3. QED
      BY <3>1, <3>2 DEF LoopOK
  <2>3. QED
    BY <1>1, <2>1, <2>2
<1>4. ASSUME NEW k \in 0 .. LastStep PROVE Pt(k) \in Run(loop.lb, loop.ub)
  <2>1. k \in Steps
    BY <1>1 DEF Steps, Dist
  <2>2. Within(Pt(k), loop.lb, loop.ub)
    BY PtInLoop
  <2>3. QED
    BY <1>2, <2>1, <2>2 DEF Run, Pt
<1>5. QED
  BY <1>2, <1>3, <1>4 DEF Run, PtSet, Prog, Pt

(* A member of a team that has returned from its call with the static     *)
(* schedule runs the iterations of its interval.                           *)
LEMMA ExecIdx ==
  ASSUME LoopsFit, LInv, AllCalled, loop.schedule = 34, loop.n > 1,
         NEW t \in Team
  PROVE  Executed(t) = PtSet(Lo(t), Hi(t))
<1>1. LoopOK /\ t \in 0 .. loop.n - 1
  BY LoopOKFromLInv DEF Team
<1>2. Executed(t) = Run(ShareOf(t).lower, ShareOf(t).upper)
  BY DEF AllCalled, LInv, Team, Executed
<1>3. U32(loop.n) = loop.n
  BY <1>1, TeamU32
<1>4. CASE TripCount < loop.n
  <2>1. ShareOf(t) = StaticSmall(t, TripCount)
    BY <1>3, <1>4 DEF ShareOf
  <2>2. PtSet(t, t - 1) = {}
    BY <1>1 DEF PtSet, Prog
  <2>3. QED
    BY <1>1, <1>2, <1>4, <2>1, <2>2, SmallRun DEF Lo, Hi
<1>5. CASE ~(TripCount < loop.n)
  <2>1. ShareOf(t) = StaticBalanced(t, TripCount)
    BY <1>3, <1>5 DEF ShareOf
  <2>2. TripCount >= loop.n
    BY <1>1, <1>5, TripCountVal DEF LoopOK
  <2>3. QED
    BY <1>1, <1>2, <1>5, <2>1, <2>2, BalancedRun DEF Lo, Hi
<1>6. QED
  BY <1>4, <1>5

(* An iteration of the loop is in a run of indices exactly when its index *)
(* is.                                                                     *)
LEMMA PtInSet ==
  ASSUME LoopOK, NEW k \in Int, NEW a \in Int, NEW b \in Int
  PROVE  Pt(k) \in PtSet(a, b) <=> k \in a .. b
<1>1. ASSUME Pt(k) \in PtSet(a, b) PROVE k \in a .. b
  <2>1. PICK j \in a .. b : Pt(k) = Pt(j)
    BY <1>1 DEF PtSet, Prog, Pt
  <2>2. QED
    BY <2>1, PtInj
<1>2. QED
  BY <1>1 DEF PtSet, Prog, Pt

(* The invariant the static schedule keeps: outside the chunked schedule, *)
(* the shares of __kmpc_for_static_init_4 partition the loop and lastIter *)
(* goes to the member that runs its last iteration.                        *)
StaticPartition == loop.schedule # 33 => PartitionExact /\ LastIterExact

LEMMA LInvStaticPartition ==
  ASSUME LoopsFit, LInv PROVE StaticPartition
<1>1. LoopOK
  BY LoopOKFromLInv
<1>2. /\ TripCount = LastStep + 1 /\ LastStep \in Nat
      /\ LastStep <= Half - 1 /\ loop.n \in 1 .. MaxTeam
  BY <1>1, TripCountVal DEF LoopOK
<1> SUFFICES ASSUME loop.schedule # 33, AllCalled
             PROVE  /\ UNION {Executed(t) : t \in Team} = PtSet(0, LastStep)
                    /\ \A t, u \in Team :
                         t # u => Executed(t) \cap Executed(u) = {}
                    /\ \A t \in Team :
                         share[t].last <=> Pt(LastStep) \in Executed(t)
  BY DEF StaticPartition, PartitionExact, LastIterExact, Iterations,
     LastIteration, PtSet, Prog, Pt
<1>3. CASE loop.n = 1
  <2>1. Team = {0} /\ share[0] = SingleShare
    BY <1>3 DEF Team, AllCalled, LInv, ShareOf
  <2>2. Executed(0) = PtSet(0, LastStep)
    BY <1>1, <2>1, RunWhole DEF Executed, SingleShare
  <2>3. Pt(LastStep) \in PtSet(0, LastStep)
    BY <1>1, <1>2, PtInSet
  <2>4. QED
    BY <2>1, <2>2, <2>3 DEF SingleShare
<1>4. CASE loop.n > 1
  <2>1. loop.schedule = 34
    BY <1>4 DEF AllCalled, LInv, Team
  <2>2. \A t \in Team : Executed(t) = PtSet(Lo(t), Hi(t))
    BY <1>4, <2>1, ExecIdx
  <2>3. UNION {Executed(t) : t \in Team} = PtSet(0, LastStep)
    <3>1. ASSUME NEW t \in Team PROVE Executed(t) \subseteq PtSet(0, LastStep)
      <4>1. Lo(t) .. Hi(t) \subseteq 0 .. LastStep
        BY <1>1, <1>4, IdxOrder DEF Team
      <4>2. QED
        BY <2>2, <4>1 DEF PtSet, Prog
    <3>2. ASSUME NEW k \in 0 .. LastStep
          PROVE  \E t \in Team : Pt(k) \in Executed(t)
      <4>1. PICK t \in 0 .. loop.n - 1 : Lo(t) <= k /\ k <= Hi(t)
        BY <1>1, <1>4, IdxCover
      <4>2. Lo(t) \in Int /\ Hi(t) \in Int
        BY <1>1, <1>4, IdxOrder
      <4>3. Pt(k) \in PtSet(Lo(t), Hi(t))
        BY <1>1, <4>1, <4>2, PtInSet
      <4>4. QED
        BY <2>2, <4>3 DEF Team
    <3>3. QED
      BY <3>1, <3>2 DEF PtSet, Prog, Pt
  <2>4. ASSUME NEW t \in Team, NEW u \in Team, t # u,
               NEW x \in Executed(t) \cap Executed(u)
        PROVE  FALSE
    <3>1. /\ Lo(t) \in Int /\ Hi(t) \in Int /\ Lo(u) \in Int /\ Hi(u) \in Int
          /\ t < u => Hi(t) < Lo(u)
          /\ u < t => Hi(u) < Lo(t)
      BY <1>1, <1>4, IdxOrder DEF Team
    <3>2. PICK i \in Lo(t) .. Hi(t) : x = Pt(i)
      BY <2>2 DEF PtSet, Prog, Pt
    <3>3. PICK j \in Lo(u) .. Hi(u) : x = Pt(j)
      BY <2>2 DEF PtSet, Prog, Pt
    <3>4. i = j
      <4>1. i \in Int /\ j \in Int /\ Pt(i) = Pt(j)
        BY <3>1, <3>2, <3>3
      <4>2. QED
        BY <1>1, <4>1, PtInj
    <3>5. QED
      BY <2>4, <3>1, <3>2, <3>3, <3>4 DEF Team
  <2>5. ASSUME NEW t \in Team
        PROVE  share[t].last <=> Pt(LastStep) \in Executed(t)
    <3>1. t \in 0 .. loop.n - 1 /\ share[t] = ShareOf(t)
      BY DEF Team, AllCalled, LInv
    <3>2. Lo(t) \in Int /\ Hi(t) \in Int
      BY <1>1, <1>4, <3>1, IdxOrder
    <3>3. Pt(LastStep) \in Executed(t) <=> LastStep \in Lo(t) .. Hi(t)
      BY <1>1, <1>2, <2>2, <3>2, PtInSet
    <3>4. U32(loop.n) = loop.n /\ U32(t) = t /\ U32(TripCount - 1) = LastStep
      BY <1>1, <1>2, <3>1, TeamU32, U32Id DEF LoopOK
    <3>5. share[t].last
            <=> IF TripCount < loop.n THEN t = TripCount - 1 ELSE t = loop.n - 1
      <4>1. CASE TripCount < loop.n
        <5>1. ShareOf(t) = StaticSmall(t, TripCount)
          BY <1>4, <2>1, <3>4, <4>1 DEF ShareOf
        <5>2. share[t].last <=> U32(t) = U32(TripCount - 1)
          <6>1. StaticSmall(t, TripCount).last = (U32(t) = U32(TripCount - 1))
            BY DEF StaticSmall
          <6>2. QED
            BY <3>1, <5>1, <6>1, Zenon
        <5>3. QED
          BY <1>2, <3>4, <4>1, <5>2
      <4>2. CASE ~(TripCount < loop.n)
        <5>1. ShareOf(t) = StaticBalanced(t, TripCount)
          BY <1>4, <2>1, <3>4, <4>2 DEF ShareOf
        <5>2. share[t].last <=> t = loop.n - 1
          <6>1. StaticBalanced(t, TripCount).last = (t = loop.n - 1)
            BY DEF StaticBalanced
          <6>2. QED
            BY <3>1, <5>1, <6>1, Zenon
        <5>3. QED
          BY <4>2, <5>2
      <4>3. QED
        BY <4>1, <4>2
    <3>6. QED
      BY <1>1, <1>4, <3>1, <3>3, <3>5, IdxLast
  <2>6. QED
    BY <2>3, <2>4, <2>5
<1>5. QED
  BY <1>2, <1>3, <1>4

(* For every team size, width and loop whose int arithmetic does not wrap,*)
(* the static schedule of __kmpc_for_static_init_4 (and the one-member     *)
(* team under any schedule but the chunked one) gives every iteration to   *)
(* exactly one member and lastIter to the member that runs the last one:  *)
(* PartitionExact and LastIterExact outside schedule 33.                  *)
THEOREM StaticPartitionThm ==
  ASSUME LoopsFit PROVE Spec => []StaticPartition
<1>1. Init => LInv
  BY InitLInv
<1>2. LInv /\ [Next]_vars => LInv'
  BY LInvStep
<1>3. LInv => StaticPartition
  BY LInvStaticPartition
<1>4. QED
  BY <1>1, <1>2, <1>3, PTL DEF Spec

=============================================================================

---------------------------- MODULE LoopPartition ----------------------------
(***************************************************************************)
(* The static loop partitioner of src/src/wavm/openmp.cpp,                 *)
(* __kmpc_for_static_init_4: every member of a team calls it with the      *)
(* bounds of a work-sharing loop in its own locals, and it overwrites      *)
(* them with the member's share (lower, upper, stride, lastIter).          *)
(* The team size is thisLevel->num_threads and the member's number        *)
(* thisThreadNumber.  Schedules 33 (kmp::sch_static_chunked) and 34        *)
(* (kmp::sch_static) are handled; any other throws.                        *)
(*                                                                         *)
(* I32 and unsigned int are scaled to Width bits; the code's conversions   *)
(* between them, and the wraparound of its additions and products, are     *)
(* kept as reductions modulo 2^Width.                                      *)
(***************************************************************************)
EXTENDS Integers, FiniteSets

CONSTANTS
  Width,      \* bits of I32 / unsigned int
  MaxTeam,    \* largest thisLevel->num_threads
  Lowers,     \* loop lower bounds passed in *lower
  Uppers,     \* loop upper bounds passed in *upper
  Incrs,      \* loop increments
  Chunks,     \* chunk sizes
  Schedules   \* schedule kinds passed by the guest

ASSUME WidthAssumption   == Width \in Nat \ {0}
ASSUME MaxTeamAssumption == MaxTeam \in Nat \ {0}
ASSUME ArgsAssumption    == Lowers \cup Uppers \cup Incrs \cup Chunks \subseteq Int
                            /\ 0 \notin Incrs

VARIABLES
  loop,     \* the loop of the region: lb, ub, incr, chunk, schedule, team size
  share,    \* share[t]: t's locals lower, upper, stride, lastIter
  status    \* status[t]: "before" or "after" its call, or "trapped"

vars == <<loop, share, status>>

Team == 0 .. loop.n - 1

-----------------------------------------------------------------------------
(* Machine arithmetic.                                                     *)

Mod  == 2 ^ Width
Half == 2 ^ (Width - 1)

\* The powers of two that the wraparound uses (facts of arithmetic that TLC
\* checks for the Width of each run).
ASSUME PowerAssumption == Half \in Nat \ {0} /\ Mod = 2 * Half

\* A value stored in an I32 (two's complement wraparound).
I32(x) == ((x + Half) % Mod) - Half

\* A value converted to unsigned int.
U32(x) == x % Mod

AbsVal(x) == IF x < 0 THEN -x ELSE x

\* C's int division, which truncates towards zero.
CDiv(a, b) ==
  LET q == AbsVal(a) \div AbsVal(b)
  IN  IF (a < 0) = (b < 0) THEN q ELSE -q

MinOf(a, b) == IF a < b THEN a ELSE b

-----------------------------------------------------------------------------
(* The shares __kmpc_for_static_init_4 computes.                           *)

\* tripCount: unit increments in wrapping int arithmetic, others through
\* an (int) division; the result is stored in an unsigned int.
TripCount ==
  LET l == loop.lb  u == loop.ub  inc == loop.incr
  IN  U32(CASE inc = 1  -> u - l + 1
            [] inc = -1 -> l - u + 1
            [] inc > 1  -> CDiv(I32(u - l), inc) + 1
            [] OTHER    -> CDiv(I32(l - u), -inc) + 1)

\* num_threads == 1: the whole loop, its length as the stride.
SingleShare ==
  [lower  |-> loop.lb,
   upper  |-> loop.ub,
   stride |-> IF loop.incr > 0 THEN I32(loop.ub - loop.lb + 1)
                               ELSE I32(-(loop.lb - loop.ub + 1)),
   last   |-> TRUE]

\* Variant: lastIter from the trip count rather than the last iteration.
ChunkedLastOffByOne(t, trip) ==
  LET chunk == IF loop.chunk < 1 THEN 1 ELSE loop.chunk
      span  == I32(chunk * loop.incr)
      lower == I32(loop.lb + span * t)
  IN  [lower  |-> lower,
       upper  |-> I32(lower + span - loop.incr),
       stride |-> I32(span * loop.n),
       last   |-> U32(t) = (U32(trip) \div chunk) % U32(loop.n)]

\* sch_static_chunked: chunks of chunk iterations dealt round robin.
Chunked(t, trip) ==
  LET chunk == IF loop.chunk < 1 THEN 1 ELSE loop.chunk
      span  == I32(chunk * loop.incr)
      lower == I32(loop.lb + span * t)
  IN  [lower  |-> lower,
       upper  |-> I32(lower + span - loop.incr),
       stride |-> I32(span * loop.n),
       last   |-> U32(t) = (U32(trip - 1) \div chunk) % U32(loop.n)]

\* sch_static with fewer iterations than members: one iteration each for
\* the first tripCount members, an empty range for the others.
StaticSmall(t, trip) ==
  [lower  |-> IF U32(t) < trip THEN I32(loop.lb + t * loop.incr)
                               ELSE I32(loop.ub + loop.incr),
   upper  |-> IF U32(t) < trip THEN I32(loop.lb + t * loop.incr) ELSE loop.ub,
   stride |-> I32(trip),
   last   |-> U32(t) = U32(trip - 1)]

\* Variant: the last member takes every extra iteration.
StaticBalancedRemainderLast(t, trip) ==
  LET small  == trip \div U32(loop.n)
      extras == trip % U32(loop.n)
      lower  == I32(loop.lb + loop.incr * (t * small))
  IN  [lower  |-> lower,
       upper  |-> I32(lower + small * loop.incr - loop.incr
                            + (IF t = loop.n - 1 THEN extras * loop.incr ELSE 0)),
       stride |-> I32(trip),
       last   |-> t = loop.n - 1]

\* Variant: the members below extras tested with <=.
StaticBalancedExtrasOffByOne(t, trip) ==
  LET small  == trip \div U32(loop.n)
      extras == trip % U32(loop.n)
      lower  == I32(loop.lb + loop.incr * (t * small + MinOf(t, extras)))
  IN  [lower  |-> lower,
       upper  |-> I32(lower + small * loop.incr
                            - (IF t <= extras THEN 0 ELSE loop.incr)),
       stride |-> I32(trip),
       last   |-> t = loop.n - 1]

\* sch_static otherwise (static balanced): tripCount / num_threads each,
\* one more for the first tripCount % num_threads members.
StaticBalanced(t, trip) ==
  LET small  == trip \div U32(loop.n)
      extras == trip % U32(loop.n)
      lower  == I32(loop.lb + loop.incr * (t * small + MinOf(t, extras)))
  IN  [lower  |-> lower,
       upper  |-> I32(lower + small * loop.incr
                            - (IF t < extras THEN 0 ELSE loop.incr)),
       stride |-> I32(trip),
       last   |-> t = loop.n - 1]

-----------------------------------------------------------------------------
(* The guest enters a work-sharing loop: clang calls the partitioner only  *)
(* for a loop with at least one iteration, each member's locals holding   *)
(* the bounds, stride 1 and lastIter 0.                                   *)
NonEmpty(lb, ub, inc) == IF inc > 0 THEN lb <= ub ELSE lb >= ub

Init ==
  \E lb \in Lowers, ub \in Uppers, inc \in Incrs, ch \in Chunks,
     sc \in Schedules, n \in 1 .. MaxTeam :
    /\ NonEmpty(lb, ub, inc)
    /\ loop = [lb |-> lb, ub |-> ub, incr |-> inc, chunk |-> ch,
               schedule |-> sc, n |-> n]
    /\ share = [t \in 0 .. MaxTeam - 1 |->
                  [lower |-> lb, upper |-> ub, stride |-> 1, last |-> FALSE]]
    /\ status = [t \in 0 .. MaxTeam - 1 |-> "before"]

(* Member t calls __kmpc_for_static_init_4.                               *)
ForStaticInit(t) ==
  /\ status[t] = "before"
  /\ \/ /\ loop.n = 1
        /\ share' = [share EXCEPT ![t] = SingleShare]
        /\ status' = [status EXCEPT ![t] = "after"]
     \/ /\ loop.n > 1
        /\ loop.schedule = 33
        /\ share' = [share EXCEPT ![t] = Chunked(t, TripCount)]
        /\ status' = [status EXCEPT ![t] = "after"]
     \/ /\ loop.n > 1
        /\ loop.schedule = 34
        /\ share' = [share EXCEPT ![t] =
                       IF TripCount < U32(loop.n) THEN StaticSmall(t, TripCount)
                                                  ELSE StaticBalanced(t, TripCount)]
        /\ status' = [status EXCEPT ![t] = "after"]
     \/ /\ loop.n > 1
        /\ loop.schedule \notin {33, 34}
        /\ status' = [status EXCEPT ![t] = "trapped"]
        /\ UNCHANGED share
  /\ UNCHANGED loop

Next == \E t \in Team : ForStaticInit(t)

Spec == Init /\ [][Next]_vars

-----------------------------------------------------------------------------
(* What the guest runs with its share, and the reference it is judged by.  *)

\* Between the bounds, in the direction of the loop.
Within(x, from, to) == IF loop.incr > 0 THEN from <= x /\ x <= to
                                        ELSE to <= x /\ x <= from

\* The outlined loop clamps its upper bound to the loop's.
Clamp(v) == IF loop.incr > 0 THEN MinOf(v, loop.ub) ELSE -MinOf(-v, -loop.ub)

Steps == 0 .. AbsVal(loop.ub - loop.lb)

\* from, from + incr, ... up to the clamped bound.
Run(from, to) == {x \in {from + k * loop.incr : k \in Steps} :
                    Within(x, from, Clamp(to))}

\* The iterations member t executes: its range, and with the chunked
\* schedule its range advanced by the stride again and again.
Executed(t) ==
  IF loop.schedule = 33
  THEN UNION {Run(share[t].lower + j * share[t].stride,
                  share[t].upper + j * share[t].stride) : j \in Steps}
  ELSE Run(share[t].lower, share[t].upper)

\* The iterations of the loop, computed without machine arithmetic: the
\* whole steps of |incr| that fit between the bounds.
LastStep == AbsVal(loop.ub - loop.lb) \div AbsVal(loop.incr)

Iterations == {loop.lb + k * loop.incr : k \in 0 .. LastStep}

LastIteration == loop.lb + LastStep * loop.incr

AllCalled == \A t \in Team : status[t] = "after"

-----------------------------------------------------------------------------
(* Properties.                                                             *)

TypeOK ==
  /\ loop.n \in 1 .. MaxTeam
  /\ share \in [0 .. MaxTeam - 1 ->
                 [lower : Int, upper : Int, stride : Int, last : BOOLEAN]]
  /\ status \in [0 .. MaxTeam - 1 -> {"before", "after", "trapped"}]

(* Once every member has its share, the shares partition the loop: every  *)
(* iteration is run by exactly one member, whatever the team size, trip   *)
(* count, increment, chunk and schedule.                                   *)
PartitionExact ==
  AllCalled =>
    /\ UNION {Executed(t) : t \in Team} = Iterations
    /\ \A t, u \in Team : t # u => Executed(t) \cap Executed(u) = {}

(* The lastIter flag goes to exactly the member that runs the loop's last *)
(* iteration (it decides who writes back lastprivate variables).          *)
LastIterExact ==
  AllCalled =>
    \A t \in Team : share[t].last <=> LastIteration \in Executed(t)

(* Spec property 4(b): with the static schedule the members' shares       *)
(* differ in size by at most one iteration, so no member of the team      *)
(* waits on another at the implicit barrier after the loop for more than  *)
(* one iteration.                                                          *)
BalancedShares ==
  AllCalled /\ loop.schedule = 34 =>
    \A t, u \in Team : Cardinality(Executed(t)) <= Cardinality(Executed(u)) + 1

=============================================================================

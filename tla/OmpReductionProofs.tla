------------------------- MODULE OmpReductionProofs -------------------------
(***************************************************************************)
(* The blocking `+` reduction of a local parallel region is correct for    *)
(* every team size: with __kmpc_reduce, once every member has returned     *)
(* without error, `sum` is its value at the fork plus 1 + 2 + ... + team.  *)
(*                                                                         *)
(* The partials of the members that have combined are counted as the     *)
(* units of TriangleSums, so that no induction over the team is needed.    *)
(***************************************************************************)
EXTENDS OmpLocalForkProofs, TriangleSums

USE MaxThreadsAssumption

-----------------------------------------------------------------------------
(* The inductive invariant of the blocking reduction.                      *)

\* A member between startReduction and endReduction.
RedStates == {"combineLoad", "combineStore", "endReduce"}

\* A member whose partial has been stored into `sum`.
CombinedStates == {"endReduce", "done"}

Combined == {t \in Team : pc[t] \in CombinedStates}

\* A forked master waits on a team of at least one member.
ForkedTeam == master = "forked" => team # 0

\* In a team of several threads, a member between startReduction and
\* endReduction holds the level's reduce mutex.
RedHeld == team > 1 => \A t \in Team : pc[t] \in RedStates => redMtx = t

\* A member about to store `sum` loaded its current value.
CombineFresh == \A t \in Team : pc[t] = "combineStore" => tmp[t] = sum

\* `sum` is its value at the fork plus the partial of every member that
\* has stored its combination.
SumTracksCombines ==
  team # 0 => sum = sumAtFork + Cardinality(Units(Combined))

RIInv == IInv /\ ForkedTeam /\ RedHeld /\ CombineFresh /\ SumTracksCombines

USE NoneAssumption

(* A member move that keeps its member on the same side of the combine     *)
(* leaves the set of combined members as it is.                            *)
LEMMA MoveKeepsCombined ==
  ASSUME TypeOK, NEW t \in Threads, NEW from, NEW to, Move(t, from, to),
         team' = team, (from \in CombinedStates) <=> (to \in CombinedStates)
  PROVE  Combined' = Combined
BY DEF TypeOK, Move, Combined, Team, Threads

(* At most one member of a team is between startReduction and             *)
(* endReduction.                                                           *)
LEMMA RedAlone ==
  ASSUME TypeOK, RedHeld, NEW t \in Team, pc[t] \in RedStates,
         NEW u \in Team, u # t
  PROVE  pc[u] \notin RedStates
<1>1. CASE team > 1
  BY <1>1 DEF RedHeld
<1>2. CASE team <= 1
  BY <1>2 DEF TypeOK, Team
<1>3. QED
  BY <1>1, <1>2 DEF TypeOK

(* The conjuncts of RIInv after a member move that leaves `sum`, the       *)
(* reduce mutex and the master as they are.                                *)
LEMMA RMoveForked ==
  ASSUME NEW t, NEW from, NEW to, MemberMove(t, from, to), ForkedTeam,
         master' = master
  PROVE  ForkedTeam'
BY DEF MemberMove, ForkedTeam

LEMMA RMoveRedHeld ==
  ASSUME NEW t, NEW from, NEW to, MemberMove(t, from, to), RedHeld,
         redMtx' = redMtx, (from \in RedStates) <=> (to \in RedStates)
  PROVE  RedHeld'
BY DEF MemberMove, Move, RedHeld, TypeOK, Team, Threads

LEMMA RMoveFresh ==
  ASSUME NEW t, NEW from, NEW to, MemberMove(t, from, to), CombineFresh,
         sum' = sum, to # "combineStore",
         \A u \in Team : u # t => tmp'[u] = tmp[u]
  PROVE  CombineFresh'
BY DEF MemberMove, Move, CombineFresh, TypeOK, Team, Threads

LEMMA RMoveSum ==
  ASSUME NEW t, NEW from, NEW to, MemberMove(t, from, to), SumTracksCombines,
         UNCHANGED <<sum, sumAtFork>>,
         (from \in CombinedStates) <=> (to \in CombinedStates)
  PROVE  SumTracksCombines'
<1>1. Combined' = Combined
  BY MoveKeepsCombined DEF MemberMove, Team, TypeOK, Threads
<1>2. QED
  BY <1>1 DEF MemberMove, SumTracksCombines

(* A step before the reduction: it touches neither `sum` nor the reduce    *)
(* mutex, and keeps its member out of the reduction.                       *)
LEMMA RPlainMove ==
  ASSUME NEW t, NEW from, NEW to, MemberMove(t, from, to),
         ForkedTeam, RedHeld, CombineFresh, SumTracksCombines,
         UNCHANGED <<master, redMtx, sum, sumAtFork>>,
         \A u \in Team : u # t => tmp'[u] = tmp[u],
         from \notin RedStates \cup CombinedStates,
         to \notin RedStates \cup CombinedStates, to # "combineStore"
  PROVE  ForkedTeam' /\ RedHeld' /\ CombineFresh' /\ SumTracksCombines'
BY RMoveForked, RMoveRedHeld, RMoveFresh, RMoveSum

\* The conjuncts RIInv adds to IInv.
RExtra == ForkedTeam /\ RedHeld /\ CombineFresh /\ SumTracksCombines

(* The steps of a member before its reduction.                             *)
LEMMA EarlyStepR ==
  ASSUME RIInv, IInv', NEW t \in Team,
         \/ CriticalEnter(t) \/ LoadShared(t) \/ StoreShared(t)
         \/ CriticalExit(t) \/ BarrierArrive(t) \/ BarrierLeave(t)
  PROVE  RExtra'
<1> USE DEF RIInv, RExtra, IInv
<1>1. CASE CriticalEnter(t)
  <2>1. MemberMove(t, "crit", "load")
    BY <1>1 DEF MemberMove, CriticalEnter
  <2>2. QED
    BY <1>1, <2>1, RPlainMove DEF CriticalEnter, RedStates, CombinedStates
<1>2. CASE LoadShared(t)
  <2>1. MemberMove(t, "load", "store")
    BY <1>2 DEF MemberMove, LoadShared
  <2>2. \A u \in Team : u # t => tmp'[u] = tmp[u]
    BY <1>2 DEF LoadShared, TypeOK, Team, Threads
  <2>3. QED
    BY <1>2, <2>1, <2>2, RPlainMove DEF LoadShared, RedStates, CombinedStates
<1>3. CASE StoreShared(t)
  <2>1. MemberMove(t, "store", "exitCrit")
    BY <1>3 DEF MemberMove, StoreShared
  <2>2. QED
    BY <1>3, <2>1, RPlainMove DEF StoreShared, RedStates, CombinedStates
<1>4. CASE CriticalExit(t)
  <2>1. MemberMove(t, "exitCrit", "barrier")
    BY <1>4 DEF MemberMove, CriticalExit
  <2>2. QED
    BY <1>4, <2>1, RPlainMove DEF CriticalExit, RedStates, CombinedStates
<1>5. CASE BarrierArrive(t) /\ team <= 1
  <2>1. MemberMove(t, "barrier", "reduce")
    BY <1>5 DEF MemberMove, BarrierArrive, Move
  <2>2. QED
    BY <1>5, <2>1, RPlainMove DEF BarrierArrive, RedStates, CombinedStates
<1>6. CASE BarrierArrive(t) /\ ~(team <= 1)
  <2>1. MemberMove(t, "barrier", "inBarrier")
    BY <1>6 DEF MemberMove, BarrierArrive, Move
  <2>2. QED
    BY <1>6, <2>1, RPlainMove DEF BarrierArrive, RedStates, CombinedStates
<1>7. CASE BarrierLeave(t)
  <2>1. MemberMove(t, "inBarrier", "reduce")
    BY <1>7 DEF MemberMove, BarrierLeave
  <2>2. QED
    BY <1>7, <2>1, RPlainMove DEF BarrierLeave, RedStates, CombinedStates
<1>8. QED
  BY <1>1, <1>2, <1>3, <1>4, <1>5, <1>6, <1>7

(* startReduction of __kmpc_reduce: the member takes the reduce mutex,     *)
(* free since nobody else is in the reduction.                             *)
LEMMA ReduceBeginR ==
  ASSUME ReduceCall = "reduce", RIInv, IInv', NEW t \in Team, ReduceBegin(t)
  PROVE  RExtra'
<1> USE DEF RIInv, RExtra, IInv
<1>1. MemberMove(t, "reduce", "combineLoad")
  BY DEF MemberMove, ReduceBegin, StartReduction
<1>2. UNCHANGED <<master, sum, sumAtFork, tmp>>
  BY DEF ReduceBegin
<1>3. RedHeld'
  <2>1. CASE team = 1
    BY <1>1, <2>1, RMoveRedHeld DEF ReduceBegin, StartReduction, RedHeld
  <2>2. CASE team # 1
    <3>1. redMtx = None /\ redMtx' = t
      BY <2>2 DEF ReduceBegin, StartReduction
    <3>2. \A u \in Team : u # t => pc[u] \notin RedStates
      BY <3>1 DEF RedHeld, TypeOK, Team
    <3>3. QED
      BY <1>1, <3>1, <3>2 DEF MemberMove, Move, RedHeld, TypeOK, Team, Threads
  <2>3. QED
    BY <2>1, <2>2
<1>4. QED
  BY <1>1, <1>2, <1>3, RMoveForked, RMoveFresh, RMoveSum DEF CombinedStates

(* The guest loads `sum` under the reduce mutex.                           *)
LEMMA CombineLoadR ==
  ASSUME RIInv, IInv', NEW t \in Team, CombineLoad(t) PROVE RExtra'
<1> USE DEF RIInv, RExtra, IInv
<1>1. MemberMove(t, "combineLoad", "combineStore")
  BY DEF MemberMove, CombineLoad
<1>2. UNCHANGED <<master, redMtx, sum, sumAtFork>>
  BY DEF CombineLoad
<1>3. CombineFresh'
  <2>1. \A u \in Team : u # t => pc[u] \notin RedStates
    BY <1>1, RedAlone DEF MemberMove, Move, RedStates
  <2>2. tmp'[t] = sum'
    BY <1>2 DEF CombineLoad, TypeOK, Team, Threads
  <2>3. QED
    BY <1>1, <2>1, <2>2 DEF MemberMove, Move, CombineFresh, RedStates, TypeOK,
                            Team, Threads
<1>4. QED
  BY <1>1, <1>2, <1>3, RMoveForked, RMoveRedHeld, RMoveSum
  DEF RedStates, CombinedStates

(* The guest stores `sum` plus its partial under the reduce mutex: the     *)
(* member joins the combined ones and its units are added to theirs.       *)
LEMMA CombineStoreR ==
  ASSUME RIInv, IInv', NEW t \in Team, CombineStore(t) PROVE RExtra'
<1> USE DEF RIInv, RExtra, IInv
<1>1. MemberMove(t, "combineStore", "endReduce")
  BY DEF MemberMove, CombineStore
<1>2. UNCHANGED <<master, redMtx, sumAtFork, tmp>>
  BY DEF CombineStore
<1>3. \A u \in Team : u # t => pc[u] \notin RedStates
  BY <1>1, RedAlone DEF MemberMove, Move, RedStates
<1>4. CombineFresh'
  BY <1>1, <1>3 DEF MemberMove, Move, CombineFresh, RedStates, TypeOK, Team,
                    Threads
<1>5. SumTracksCombines'
  <2>1. Combined' = Combined \cup {t} /\ t \notin Combined
    <3>1. pc[t] = "combineStore" /\ pc'[t] = "endReduce" /\ Team' = Team
      BY <1>1 DEF MemberMove, Move, TypeOK, Team, Threads
    <3>2. \A u \in Team : u # t => pc'[u] = pc[u]
      BY <1>1 DEF MemberMove, Move, TypeOK, Team, Threads
    <3>3. QED
      BY <3>1, <3>2 DEF Combined, CombinedStates
  <2>2. Combined \subseteq Threads /\ t \in Threads
    <3>1. Team \subseteq Threads
      BY DEF TypeOK, Team, Threads
    <3>2. Combined \subseteq Team
      BY DEF Combined
    <3>3. QED
      BY <3>1, <3>2
  <2>3. Cardinality(Units(Combined'))
          = Cardinality(Units(Combined)) + Partial(t)
    <3>1. MaxThreads \in Nat /\ Combined \in SUBSET (0 .. MaxThreads - 1)
          /\ t \in (0 .. MaxThreads - 1) \ Combined
      BY <2>1, <2>2 DEF Threads
    <3>2. QED
      BY <2>1, <3>1, UnitsAdd DEF Partial
  <2>4. sum' = sum + Partial(t)
    BY <1>1 DEF CombineStore, CombineFresh, MemberMove, Move
  <2>5. team # 0 /\ team' = team
    BY <1>1 DEF MemberMove, Team
  <2>6. sum = sumAtFork + Cardinality(Units(Combined))
    BY <2>5 DEF SumTracksCombines
  <2>7. Cardinality(Units(Combined)) \in Nat
    BY <2>2, UnitsFinite DEF Threads
  <2>8. sum \in Nat /\ sumAtFork \in Nat /\ Partial(t) \in Nat
    BY <2>2 DEF TypeOK, Partial, Threads
  <2>9. sum' = sumAtFork' + Cardinality(Units(Combined'))
    BY ONLY <1>2, <2>3, <2>4, <2>6, <2>7, <2>8
  <2>10. QED
    BY <2>9 DEF SumTracksCombines
<1>6. QED
  BY <1>1, <1>2, <1>4, <1>5, RMoveForked, RMoveRedHeld DEF RedStates

(* endReduction releases the reduce mutex, which no other member waits to  *)
(* find held by it.                                                        *)
LEMMA EndReduceR ==
  ASSUME RIInv, IInv', NEW t \in Team, EndReduce(t) PROVE RExtra'
<1> USE DEF RIInv, RExtra, IInv
<1>1. MemberMove(t, "endReduce", "done")
  BY DEF MemberMove, EndReduce
<1>2. UNCHANGED <<master, sum, sumAtFork, tmp>>
  BY DEF EndReduce
<1>3. RedHeld'
  <2>1. \A u \in Team : u # t => pc[u] \notin RedStates
    BY <1>1, RedAlone DEF MemberMove, Move, RedStates
  <2>2. QED
    BY <1>1, <2>1 DEF MemberMove, Move, RedHeld, RedStates, TypeOK, Team,
                      Threads
<1>4. QED
  BY <1>1, <1>2, <1>3, RMoveForked, RMoveFresh, RMoveSum DEF CombinedStates

(* __kmpc_fork_call starts a team of at least one member, none of which   *)
(* has combined, with `sum` recorded at the fork.                          *)
LEMMA ForkCallR ==
  ASSUME RIInv, IInv', ForkCall PROVE RExtra'
<1> USE DEF RIInv, RExtra, IInv
<1>1. team' \in 1 .. MaxThreads /\ master' = "forked"
  BY NextNumThreadsType DEF ForkCall, TypeOK
<1>2. \A u \in Threads : pc'[u] \in {"crit", "idle"}
  BY DEF ForkCall
<1>3. Team' \subseteq Threads
  <2>1. team' \in 0 .. MaxThreads /\ Team' = 0 .. team' - 1
    BY DEF TypeOK, Team
  <2>2. QED
    BY <2>1, TeamOfSize
<1>4. RedHeld' /\ CombineFresh'
  BY <1>2, <1>3 DEF RedHeld, CombineFresh, RedStates
<1>5. SumTracksCombines'
  <2>1. Combined' = {}
    BY <1>2, <1>3 DEF Combined, CombinedStates
  <2>2. Cardinality(Units(Combined')) = 0
    BY <2>1, UnitsEmpty
  <2>3. sum \in Nat /\ sum' = sum /\ sumAtFork' = sum
    BY DEF ForkCall, TypeOK
  <2>4. QED
    BY <2>2, <2>3 DEF SumTracksCombines
<1>6. QED
  BY <1>1, <1>4, <1>5 DEF ForkedTeam

(* The join ends the region: no team is left.                              *)
LEMMA JoinR ==
  ASSUME RIInv, IInv', Join PROVE RExtra'
<1>1. team' = 0 /\ master' # "forked" /\ Team' = {}
  BY DEF Join, Team
<1>2. QED
  BY <1>1 DEF RExtra, ForkedTeam, RedHeld, CombineFresh, SumTracksCombines

(* Steps of the master that leave the team and `sum` alone.                *)
LEMMA MasterKeepsR ==
  ASSUME RIInv,
         UNCHANGED <<master, team, pc, tmp, redMtx, sum, sumAtFork>>
  PROVE  RExtra'
BY DEF RIInv, RExtra, ForkedTeam, RedHeld, CombineFresh, SumTracksCombines,
       Combined, Team

(* With __kmpc_reduce, every step keeps RIInv.                             *)
LEMMA RIInvStep ==
  ASSUME ReduceCall = "reduce", RIInv, [Next]_vars PROVE RIInv'
<1>1. IInv'
  BY IInvStep DEF RIInv
<1> SUFFICES RExtra'
  BY <1>1 DEF RIInv, RExtra
<1>2. ASSUME NEW k \in 1 .. MaxThreads, PushNumThreads(k) \/ SetNumThreads(k)
      PROVE  RExtra'
  BY <1>2, MasterKeepsR DEF PushNumThreads, SetNumThreads
<1>3. CASE ForkCall
  BY <1>1, <1>3, ForkCallR
<1>4. CASE Join
  BY <1>1, <1>4, JoinR
<1>5. ASSUME NEW t \in Threads, t \in Team /\ ThreadStep(t) PROVE RExtra'
  <2> DEFINE T == t
  <2>1. T \in Team
    BY <1>5
  <2>2. QED
    BY <1>1, <1>5, <2>1, EarlyStepR, ReduceBeginR, CombineLoadR,
       CombineStoreR, EndReduceR DEF ThreadStep
<1>6. CASE Trapped \/ UNCHANGED vars
  BY <1>6, MasterKeepsR DEF Trapped, vars
<1>7. QED
  BY <1>2, <1>3, <1>4, <1>5, <1>6 DEF Next

LEMMA InitRIInv == Init => RIInv
<1> SUFFICES ASSUME Init PROVE RIInv
  OBVIOUS
<1>1. Team = {}
  BY DEF Init, Team
<1>2. QED
  BY <1>1, InitIInv DEF RIInv, ForkedTeam, RedHeld, CombineFresh,
     SumTracksCombines, Init

(* Once every member is done, all have combined: the units in `sum` are    *)
(* the whole triangle of the team.                                         *)
LEMMA RIInvReduction ==
  ASSUME RIInv PROVE ReductionCorrect
<1> SUFFICES ASSUME master = "forked", \A t \in Team : pc[t] = "done" /\ rc[t] = 0
             PROVE  sum = sumAtFork + ReductionTotal(team)
  BY DEF ReductionCorrect
<1>1. team # 0 /\ team \in 0 .. MaxThreads
  BY DEF RIInv, ForkedTeam, IInv, TypeOK
<1>2. Combined = 0 .. team - 1
  BY DEF Combined, CombinedStates, Team
<1>3. Cardinality(Units(Combined)) = ReductionTotal(team)
  BY <1>1, <1>2, UnitsOfTeam DEF ReductionTotal
<1>4. QED
  BY <1>1, <1>3 DEF RIInv, SumTracksCombines

(* __kmpc_reduce with critical_reduce_block: once every member of the      *)
(* team has returned without error, `sum` is its value at the fork plus   *)
(* the partials 1 .. team, for every team size and number of regions.     *)
(* With __kmpc_reduce_nowait the runtime keeps the partials in the state  *)
(* store instead, and the run local_nowait_reduction shows the violation. *)
THEOREM ReductionCorrectThm ==
  ASSUME ReduceCall = "reduce" PROVE Spec => []ReductionCorrect
<1>1. Init => RIInv
  BY InitRIInv
<1>2. RIInv /\ [Next]_vars => RIInv'
  BY RIInvStep
<1>3. RIInv => ReductionCorrect
  BY RIInvReduction
<1>4. QED
  BY <1>1, <1>2, <1>3, PTL DEF Spec

-----------------------------------------------------------------------------
(* The steps of RegionRefinement: every step of the local fork is a step  *)
(* of OmpRegion under the mapping of OmpLocalFork, or leaves the region's *)
(* view unchanged.  The fairness of OmpRegion is left to TLC.             *)

\* Outside a region the master has no team: __kmpc_fork_call sets the team
\* only when it forks, and the join clears it.
NoTeamOutside == master # "forked" => team = 0

LEMMA NoTeamOutsideStep == NoTeamOutside /\ [Next]_vars => NoTeamOutside'
<1> SUFFICES ASSUME NoTeamOutside, [Next]_vars PROVE NoTeamOutside'
  OBVIOUS
<1>1. CASE \E k \in 1 .. MaxThreads : PushNumThreads(k) \/ SetNumThreads(k)
  BY <1>1 DEF PushNumThreads, SetNumThreads, NoTeamOutside
<1>2. CASE ForkCall
  BY <1>2 DEF ForkCall, NoTeamOutside
<1>3. CASE Join
  BY <1>3 DEF Join, NoTeamOutside
<1>4. CASE \E t \in Threads : t \in Team /\ ThreadStep(t)
  BY <1>4 DEF ThreadStep, CriticalEnter, LoadShared, StoreShared,
     CriticalExit, BarrierArrive, BarrierLeave, ReduceBegin, CombineLoad,
     CombineStore, EndReduce, NoTeamOutside
<1>5. CASE Trapped \/ UNCHANGED vars
  BY <1>5 DEF Trapped, vars, NoTeamOutside
<1>6. QED
  BY <1>1, <1>2, <1>3, <1>4, <1>5 DEF Next

LEMMA InitRegion == Init => Region!Init
BY DEF Init, Region!Init

(* A join without errors completes the region: `count` and `sum` hold     *)
(* every member's increment and partial.                                   *)
LEMMA JoinCompletes ==
  ASSUME ReduceCall = "reduce", RIInv, Join, \A t \in Team : rc[t] = 0
  PROVE  Region!Complete
<1>1. master = "forked" /\ master' = "serial" /\ team # 0 /\ team \in Nat
  BY DEF Join, RIInv, ForkedTeam, IInv, TypeOK
<1>2. \A t \in Team : pc[t] = "done"
  BY DEF Join
<1>3. shared = sharedAtFork + team
  <2>1. 0 \in Team /\ PastBarrier(0)
    BY <1>1, <1>2 DEF Team, PastBarrier
  <2>2. BarrierPublishes
    BY IInvBarrier DEF RIInv
  <2>3. QED
    BY <2>1, <2>2 DEF BarrierPublishes
<1>4. sum = sumAtFork + ReductionTotal(team)
  BY <1>1, <1>2, RIInvReduction DEF ReductionCorrect
<1>5. QED
  BY <1>1, <1>3, <1>4 DEF Join, Region!Complete, Region!RegionTotal,
     ReductionTotal

(* Every step of the local fork maps to a step of OmpRegion or a stutter. *)
LEMMA RegionStep ==
  ASSUME ReduceCall = "reduce", RIInv, NoTeamOutside, [Next]_vars
  PROVE  [Region!Next]_Region!avars
<1>1. CASE \E k \in 1 .. MaxThreads : PushNumThreads(k) \/ SetNumThreads(k)
  <2>1. PICK k \in 1 .. MaxThreads : PushNumThreads(k) \/ SetNumThreads(k)
    BY <1>1
  <2>2. Region!Push(k) \/ Region!Set(k)
    BY <2>1 DEF PushNumThreads, SetNumThreads, Region!Push, Region!Set
  <2>3. QED
    BY <2>2 DEF Region!Next
<1>2. CASE ForkCall
  <2>1. Region!Fork
    BY <1>2 DEF ForkCall, Region!Fork, Region!RegionSize, NextNumThreads
  <2>2. QED
    BY <2>1 DEF Region!Next
<1>3. CASE Join
  <2>1. CASE \A t \in Team : rc[t] = 0
    BY <1>3, <2>1, JoinCompletes DEF Region!Next
  <2>2. CASE \E t \in Team : rc[t] # 0
    <3>1. Region!Fail
      BY <1>3, <2>2 DEF Join, Region!Fail
    <3>2. QED
      BY <3>1 DEF Region!Next
  <2>3. QED
    BY <2>1, <2>2
<1>4. CASE \E t \in Threads : t \in Team /\ ThreadStep(t)
  <2>1. master = "forked"
    BY <1>4 DEF NoTeamOutside, Team
  <2>2. UNCHANGED <<wanted, pushed, master, forks, team, sharedAtFork,
                    sumAtFork>>
    BY <1>4 DEF ThreadStep, CriticalEnter, LoadShared, StoreShared,
       CriticalExit, BarrierArrive, BarrierLeave, ReduceBegin, CombineLoad,
       CombineStore, EndReduce
  <2>3. QED
    BY <2>1, <2>2 DEF Region!avars
<1>5. CASE Trapped \/ UNCHANGED vars
  BY <1>5 DEF Trapped, vars, Region!avars
<1>6. QED
  BY <1>1, <1>2, <1>3, <1>4, <1>5 DEF Next

(* __kmpc_fork_call with __kmpc_reduce implements the steps of OmpRegion:  *)
(* every region is sized by the clause pushed for it, then by             *)
(* omp_set_num_threads, then 1, and its join either throws or returns     *)
(* with `count` raised by the team size and `sum` by 1 + ... + team, for  *)
(* every MaxThreads and MaxForks.  This is RegionRefinement without the   *)
(* fairness of OmpRegion; that part, and the refinement with              *)
(* __kmpc_reduce_nowait (which fails), stay with TLC.                     *)
THEOREM RegionStepsThm ==
  ASSUME ReduceCall = "reduce"
  PROVE  Spec => Region!Init /\ [][Region!Next]_Region!avars
<1>1. Init => RIInv /\ NoTeamOutside
  BY InitRIInv DEF Init, NoTeamOutside
<1>2. RIInv /\ NoTeamOutside /\ [Next]_vars => (RIInv /\ NoTeamOutside)'
  BY RIInvStep, NoTeamOutsideStep
<1>3. RIInv /\ NoTeamOutside /\ [Next]_vars => [Region!Next]_Region!avars
  BY RegionStep
<1>4. QED
  BY <1>1, <1>2, <1>3, InitRegion, PTL DEF Spec

=============================================================================

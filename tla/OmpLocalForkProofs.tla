------------------------- MODULE OmpLocalForkProofs -------------------------
(***************************************************************************)
(* Proofs about OmpLocalFork for every value of the constants: the type    *)
(* invariant, and mutual exclusion of __kmpc_critical within a team.       *)
(***************************************************************************)
EXTENDS OmpLocalFork, FiniteSetTheorems, TLAPS

-----------------------------------------------------------------------------
(* Type correctness.                                                       *)

LEMMA NextNumThreadsType ==
  ASSUME pushed \in {-1} \cup (1 .. MaxThreads),
         wanted \in {-1} \cup (1 .. MaxThreads)
  PROVE  NextNumThreads \in 1 .. MaxThreads
BY MaxThreadsAssumption DEF NextNumThreads

LEMMA ThreadStepType ==
  ASSUME TypeOK, NEW t \in Threads, ThreadStep(t)
  PROVE  TypeOK'
<1> USE DEF TypeOK
<1>1. CASE CriticalEnter(t)
  BY <1>1 DEF CriticalEnter, Move, PcStates
<1>2. CASE LoadShared(t)
  BY <1>2 DEF LoadShared, Move, PcStates
<1>3. CASE StoreShared(t)
  BY <1>3 DEF StoreShared, Move, PcStates
<1>4. CASE CriticalExit(t)
  BY <1>4 DEF CriticalExit, Move, PcStates
<1>5. CASE BarrierArrive(t)
  <2>1. CASE team <= 1
    BY <1>5, <2>1 DEF BarrierArrive, PcStates
  <2>2. CASE ~(team <= 1)
    BY <1>5, <2>2 DEF BarrierArrive, PcStates
  <2>3. QED
    BY <2>1, <2>2
<1>6. CASE BarrierLeave(t)
  BY <1>6 DEF BarrierLeave, Move, PcStates
<1>7. CASE ReduceBegin(t)
  <2>1. CASE ReduceCall = "reduce"
    BY <1>7, <2>1 DEF ReduceBegin, StartReduction, Move, PcStates
  <2>2. CASE ReduceCall # "reduce" /\ StateMode = "redis"
    BY <1>7, <2>2 DEF ReduceBegin, RedisReduction, PcStates, Partial, Threads
  <2>3. CASE ReduceCall # "reduce" /\ StateMode # "redis"
    BY <1>7, <2>3 DEF ReduceBegin, RedisReduction, PcStates
  <2>4. QED
    BY <2>1, <2>2, <2>3
<1>8. CASE CombineLoad(t)
  BY <1>8 DEF CombineLoad, Move, PcStates
<1>9. CASE CombineStore(t)
  BY <1>9 DEF CombineStore, Move, PcStates, Partial, Threads
<1>10. CASE EndReduce(t)
  BY <1>10 DEF EndReduce, Move, PcStates
<1>11. QED
  BY <1>1, <1>2, <1>3, <1>4, <1>5, <1>6, <1>7, <1>8, <1>9, <1>10
  DEF ThreadStep

LEMMA TypeOKStep == TypeOK /\ [Next]_vars => TypeOK'
<1> SUFFICES ASSUME TypeOK, [Next]_vars PROVE TypeOK'
  OBVIOUS
<1>1. ASSUME NEW k \in 1 .. MaxThreads, PushNumThreads(k) PROVE TypeOK'
  BY <1>1 DEF PushNumThreads, TypeOK
<1>2. ASSUME NEW k \in 1 .. MaxThreads, SetNumThreads(k) PROVE TypeOK'
  BY <1>2 DEF SetNumThreads, TypeOK
<1>3. CASE ForkCall
  <2>1. NextNumThreads \in 1 .. MaxThreads
    BY NextNumThreadsType DEF TypeOK
  <2>2. QED
    BY <1>3, <2>1, MaxForksAssumption DEF ForkCall, TypeOK, PcStates
<1>4. CASE Join
  BY <1>4, MaxThreadsAssumption DEF Join, TypeOK, PcStates
<1>5. ASSUME NEW t \in Threads, t \in Team /\ ThreadStep(t) PROVE TypeOK'
  BY <1>5, ThreadStepType
<1>6. CASE Trapped \/ UNCHANGED vars
  BY <1>6 DEF Trapped, vars, TypeOK
<1>7. QED
  BY <1>1, <1>2, <1>3, <1>4, <1>5, <1>6 DEF Next

LEMMA InitTypeOK == Init => TypeOK
BY MaxThreadsAssumption, MaxForksAssumption DEF Init, TypeOK, PcStates

(* TypeOK holds in every state of every behaviour.                         *)
THEOREM TypeCorrect == Spec => []TypeOK
BY InitTypeOK, TypeOKStep, PTL DEF Spec

-----------------------------------------------------------------------------
(* The inductive invariant behind CriticalExclusion and BarrierPublishes.  *)

\* Team members whose increment of `count` has been stored.
StoredStates == {"exitCrit", "barrier", "inBarrier", "reduce", "combineLoad",
                 "combineStore", "endReduce", "done"}

StoredSet == {t \in Team : pc[t] \in StoredStates}

\* Threads outside the current team are idle.
IdleOutside == \A t \in Threads : t \notin Team => pc[t] = "idle"

\* In a team of several threads, a member inside critical holds the mutex.
CritHeld == team > 1 => \A t \in Team : InCritical(t) => crit = t

\* A member about to store `count` loaded the current value.
TmpFresh == \A t \in Team : pc[t] = "store" => tmp[t] = shared

\* Every stored increment is in `count`, and nothing else since the fork.
CountTracksStores == team # 0 => shared = sharedAtFork + Cardinality(StoredSet)

\* A member recorded at the barrier is waiting in it or past it.
ArrivedAtBarrier ==
  \A u \in arrived \cap Team : pc[u] = "inBarrier" \/ PastBarrier(u)

\* Once one member is past the barrier, every member has stored.
PastMeansAllStored ==
  (\E t \in Team : PastBarrier(t)) => \A u \in Team : pc[u] \in StoredStates

IInv ==
  /\ TypeOK
  /\ IdleOutside
  /\ CritHeld
  /\ CriticalExclusion
  /\ TmpFresh
  /\ CountTracksStores
  /\ ArrivedAtBarrier
  /\ PastMeansAllStored

USE MaxThreadsAssumption, MaxForksAssumption, NoneAssumption

LEMMA ExclusionFromHeld ==
  ASSUME TypeOK, CritHeld PROVE CriticalExclusion
BY DEF TypeOK, CritHeld, CriticalExclusion, Team, Threads

LEMMA StoredSetFinite ==
  ASSUME TypeOK PROVE IsFiniteSet(StoredSet) /\ StoredSet \subseteq Team
<1>1. IsFiniteSet(Team)
  BY FS_Interval, MaxThreadsAssumption DEF TypeOK, Team
<1>2. QED
  BY <1>1, FS_Subset DEF StoredSet

(* A step of member t that keeps it on the same side of the store leaves   *)
(* the set of stored members as it is.                                     *)
LEMMA MoveKeepsStored ==
  ASSUME TypeOK, NEW t \in Threads, NEW from, NEW to, Move(t, from, to),
         team' = team, (from \in StoredStates) <=> (to \in StoredStates)
  PROVE  StoredSet' = StoredSet
BY DEF TypeOK, Move, StoredSet, Team, Threads

-----------------------------------------------------------------------------
(* How one step of a team member, moving from `from` to `to`, affects each *)
(* conjunct of IInv.                                                       *)

PastStates == {"reduce", "combineLoad", "combineStore", "endReduce", "done"}

ArrivedStates == {"inBarrier"} \cup PastStates

CritStates == {"load", "store", "exitCrit"}

\* The hypotheses shared by the lemmas below.
MemberMove(t, from, to) ==
  /\ TypeOK /\ TypeOK'
  /\ t \in Team
  /\ Move(t, from, to)
  /\ team' = team

LEMMA MoveIdleOutside ==
  ASSUME NEW t, NEW from, NEW to, MemberMove(t, from, to), IdleOutside
  PROVE  IdleOutside'
BY DEF MemberMove, Move, IdleOutside, TypeOK, Team, Threads

LEMMA MoveCritHeld ==
  ASSUME NEW t, NEW from, NEW to, MemberMove(t, from, to), CritHeld,
         crit' = crit, (from \in CritStates) <=> (to \in CritStates)
  PROVE  CritHeld' /\ CriticalExclusion'
<1>1. CritHeld'
  BY DEF MemberMove, Move, CritHeld, InCritical, CritStates, TypeOK, Team,
         Threads
<1>2. CASE team > 1
  BY <1>1, <1>2 DEF MemberMove, CritHeld, CriticalExclusion, InCritical
<1>3. CASE team <= 1
  <2>1. \A x, y \in Team' : x = y
    BY <1>3 DEF MemberMove, TypeOK, Team
  <2>2. QED
    BY <1>1, <2>1 DEF CriticalExclusion
<1>4. QED
  BY <1>2, <1>3 DEF MemberMove, TypeOK

LEMMA MoveTmpFresh ==
  ASSUME NEW t, NEW from, NEW to, MemberMove(t, from, to), TmpFresh,
         shared' = shared, to # "store",
         \A u \in Team : u # t => tmp'[u] = tmp[u]
  PROVE  TmpFresh'
BY DEF MemberMove, Move, TmpFresh, TypeOK, Team, Threads

LEMMA MoveCount ==
  ASSUME NEW t, NEW from, NEW to, MemberMove(t, from, to), CountTracksStores,
         UNCHANGED <<shared, sharedAtFork>>,
         (from \in StoredStates) <=> (to \in StoredStates)
  PROVE  CountTracksStores'
<1>1. TypeOK /\ t \in Team /\ Move(t, from, to) /\ team' = team
  BY Zenon DEF MemberMove
<1>2. t \in Threads
  BY <1>1 DEF Team, TypeOK, Threads
<1>3. StoredSet' = StoredSet
  BY <1>1, <1>2, MoveKeepsStored
<1>4. QED
  BY <1>3 DEF MemberMove, CountTracksStores

LEMMA MoveArrived ==
  ASSUME NEW t, NEW from, NEW to, MemberMove(t, from, to), ArrivedAtBarrier,
         arrived' = arrived, from \in ArrivedStates => to \in ArrivedStates
  PROVE  ArrivedAtBarrier'
BY DEF MemberMove, Move, ArrivedAtBarrier, PastBarrier, ArrivedStates,
       PastStates, TypeOK, Team, Threads

(* A member that has not stored yet, and does not get past the barrier.   *)
LEMMA MoveBeforeStore ==
  ASSUME NEW t, NEW from, NEW to, MemberMove(t, from, to), PastMeansAllStored,
         from \notin StoredStates, to \notin PastStates
  PROVE  PastMeansAllStored'
<1>1. ~\E u \in Team : PastBarrier(u)
  BY DEF MemberMove, Move, PastMeansAllStored
<1>2. ASSUME NEW u \in Team PROVE ~PastBarrier(u)'
  <2>1. CASE u = t
    BY <2>1 DEF MemberMove, Move, PastBarrier, PastStates, TypeOK, Team, Threads
  <2>2. CASE u # t
    <3>1. pc'[u] = pc[u]
      BY <2>2 DEF MemberMove, Move, TypeOK, Team, Threads
    <3>2. QED
      BY <1>1, <3>1 DEF PastBarrier
  <2>3. QED
    BY <2>1, <2>2
<1>3. QED
  BY <1>2 DEF MemberMove, PastMeansAllStored, Team

(* A member that has stored and gets no further past the barrier.         *)
LEMMA MoveAfterStore ==
  ASSUME NEW t, NEW from, NEW to, MemberMove(t, from, to), PastMeansAllStored,
         from \in StoredStates, to \in StoredStates,
         to \in PastStates => from \in PastStates
  PROVE  PastMeansAllStored'
<1> SUFFICES ASSUME NEW v \in Team', PastBarrier(v)'
             PROVE  \A u \in Team' : pc'[u] \in StoredStates
  BY DEF PastMeansAllStored
<1>1. \E w \in Team : PastBarrier(w)
  BY DEF MemberMove, Move, PastBarrier, PastStates, TypeOK, Team, Threads
<1>2. \A u \in Team : pc[u] \in StoredStates
  BY <1>1 DEF PastMeansAllStored
<1>3. ASSUME NEW u \in Team' PROVE pc'[u] \in StoredStates
  <2>1. CASE u = t
    BY <2>1 DEF MemberMove, Move, TypeOK, Team, Threads
  <2>2. CASE u # t
    BY <1>2, <2>2 DEF MemberMove, Move, TypeOK, Team, Threads
  <2>3. QED
    BY <2>1, <2>2
<1>4. QED
  BY <1>3


LEMMA ExclusionFromHeldNext ==
  ASSUME TypeOK', CritHeld' PROVE CriticalExclusion'
<1>1. CASE team' > 1
  BY <1>1 DEF CritHeld, CriticalExclusion, InCritical
<1>2. CASE team' <= 1
  <2>1. team' \in Nat
    BY DEF TypeOK
  <2>2. Team' = 0 .. team' - 1
    BY DEF Team
  <2>3. \A x \in 0 .. team' - 1 : x = 0
    <3>1. \A n \in Nat : n <= 1 => \A x \in 0 .. n - 1 : x = 0
      OBVIOUS
    <3>2. QED
      BY <1>2, <2>1, <3>1
  <2>4. QED
    BY <2>2, <2>3 DEF CriticalExclusion
<1>3. QED
  BY <1>1, <1>2 DEF TypeOK

(* A step that touches none of `count`, the critical mutex and the barrier *)
(* and keeps its member on the same side of each of them.                 *)
LEMMA PlainMove ==
  ASSUME NEW t, NEW from, NEW to, IInv, MemberMove(t, from, to),
         UNCHANGED <<crit, shared, sharedAtFork, arrived>>,
         \A u \in Team : u # t => tmp'[u] = tmp[u],
         to # "store",
         from \notin CritStates, to \notin CritStates,
         from \in StoredStates, to \in StoredStates,
         to \in PastStates => from \in PastStates,
         from \in ArrivedStates => to \in ArrivedStates
  PROVE  IInv'
BY MoveIdleOutside, MoveCritHeld, MoveTmpFresh, MoveCount, MoveArrived,
   MoveAfterStore DEF IInv, MemberMove

LEMMA CriticalEnterIInv ==
  ASSUME IInv, TypeOK', NEW t \in Team, CriticalEnter(t) PROVE IInv'
<1> USE DEF IInv
<1>1. MemberMove(t, "crit", "load")
  BY DEF MemberMove, CriticalEnter
<1>2. UNCHANGED <<tmp, shared, arrived, sharedAtFork>>
  BY DEF CriticalEnter
<1>3. CritHeld'
  BY <1>1, NoneAssumption
  DEF MemberMove, CriticalEnter, Move, CritHeld, InCritical, TypeOK, Team,
      Threads
<1>4. QED
  BY <1>1, <1>2, <1>3, ExclusionFromHeldNext, MoveIdleOutside, MoveTmpFresh,
     MoveCount, MoveArrived, MoveBeforeStore
  DEF StoredStates, ArrivedStates, PastStates

LEMMA LoadSharedIInv ==
  ASSUME IInv, TypeOK', NEW t \in Team, LoadShared(t) PROVE IInv'
<1> USE DEF IInv
<1>1. MemberMove(t, "load", "store")
  BY DEF MemberMove, LoadShared
<1>2. UNCHANGED <<crit, shared, arrived, sharedAtFork>>
  BY DEF LoadShared
<1>3. TmpFresh'
  BY <1>1, <1>2 DEF LoadShared, MemberMove, Move, TmpFresh, TypeOK, Team,
                     Threads
<1>4. QED
  BY <1>1, <1>2, <1>3, MoveIdleOutside, MoveCritHeld, MoveCount, MoveArrived,
     MoveBeforeStore
  DEF CritStates, StoredStates, ArrivedStates, PastStates

LEMMA StoreSharedIInv ==
  ASSUME IInv, TypeOK', NEW t \in Team, StoreShared(t) PROVE IInv'
<1> USE DEF IInv
<1>1. MemberMove(t, "store", "exitCrit")
  BY DEF MemberMove, StoreShared
<1>2. UNCHANGED <<crit, tmp, arrived, sharedAtFork>> /\ shared' = shared + 1
  BY DEF StoreShared, TmpFresh, Move
<1>3. TmpFresh'
  <2>1. \A u \in Team : u # t => pc[u] # "store"
    BY DEF StoreShared, Move, CriticalExclusion, InCritical
  <2>2. QED
    BY <1>1, <2>1 DEF MemberMove, Move, TmpFresh, TypeOK, Team, Threads
<1>4. CountTracksStores'
  <2>1. StoredSet' = StoredSet \cup {t} /\ t \notin StoredSet
    <3>1. pc[t] = "store" /\ pc'[t] = "exitCrit" /\ Team' = Team
      BY <1>1 DEF MemberMove, Move, TypeOK, Team, Threads
    <3>2. \A u \in Team : u # t => pc'[u] = pc[u]
      BY <1>1 DEF MemberMove, Move, TypeOK, Team, Threads
    <3>3. QED
      BY <3>1, <3>2 DEF StoredSet, StoredStates
  <2>2. IsFiniteSet(StoredSet)
    BY StoredSetFinite
  <2>3. Cardinality(StoredSet') = Cardinality(StoredSet) + 1
    BY <2>1, <2>2, FS_AddElement
  <2>4. team # 0
    BY DEF Team
  <2>5. team' = team
    BY <1>1 DEF MemberMove
  <2>6. Cardinality(StoredSet) \in Nat
    BY <2>2, FS_CardinalityType
  <2>7. shared = sharedAtFork + Cardinality(StoredSet)
    BY <2>4 DEF CountTracksStores
  <2>8. shared' = sharedAtFork' + Cardinality(StoredSet')
    <3>1. shared \in Nat /\ sharedAtFork \in Nat
      BY DEF TypeOK
    <3>2. QED
      BY ONLY <1>2, <2>3, <2>6, <2>7, <3>1
  <2>9. QED
    BY <2>8 DEF CountTracksStores
<1>5. QED
  BY <1>1, <1>2, <1>3, <1>4, MoveIdleOutside, MoveCritHeld, MoveArrived,
     MoveBeforeStore
  DEF CritStates, StoredStates, ArrivedStates, PastStates

LEMMA CriticalExitIInv ==
  ASSUME IInv, TypeOK', NEW t \in Team, CriticalExit(t) PROVE IInv'
<1> USE DEF IInv
<1>1. MemberMove(t, "exitCrit", "barrier")
  BY DEF MemberMove, CriticalExit
<1>2. UNCHANGED <<tmp, shared, arrived, sharedAtFork>>
  BY DEF CriticalExit
<1>3. CritHeld'
  BY <1>1 DEF MemberMove, CriticalExit, Move, CritHeld, InCritical, TypeOK,
              Team, Threads
<1>4. QED
  BY <1>1, <1>2, <1>3, ExclusionFromHeldNext, MoveIdleOutside, MoveTmpFresh,
     MoveCount, MoveArrived, MoveAfterStore
  DEF StoredStates, ArrivedStates, PastStates

LEMMA BarrierArriveIInv ==
  ASSUME IInv, TypeOK', NEW t \in Team, BarrierArrive(t) PROVE IInv'
<1> USE DEF IInv
<1>1. CASE team <= 1
  <2>1. MemberMove(t, "barrier", "reduce")
    BY <1>1 DEF MemberMove, BarrierArrive, Move
  <2>2. UNCHANGED <<crit, tmp, shared, arrived, sharedAtFork>>
    BY <1>1 DEF BarrierArrive
  <2>3. Team = {t}
    BY <1>1 DEF Team, TypeOK
  <2>4. PastMeansAllStored'
    <3>1. Team' = {t}
      BY <2>1, <2>3 DEF MemberMove, Team
    <3>2. pc'[t] = "reduce"
      BY <2>1 DEF MemberMove, Move, TypeOK, Team, Threads
    <3>3. \A u \in Team' : pc'[u] \in StoredStates
      BY <3>1, <3>2 DEF StoredStates
    <3>4. QED
      BY <3>3 DEF PastMeansAllStored
  <2>5. IdleOutside' /\ TmpFresh' /\ CountTracksStores'
    BY <2>1, <2>2, MoveIdleOutside, MoveTmpFresh, MoveCount
    DEF StoredStates
  <2>6. CritHeld' /\ CriticalExclusion'
    BY <2>1, <2>2, MoveCritHeld DEF CritStates
  <2>7. ArrivedAtBarrier'
    BY <2>1, <2>2, MoveArrived DEF ArrivedStates, PastStates
  <2>8. QED
    BY <2>1, <2>4, <2>5, <2>6, <2>7 DEF MemberMove
<1>2. CASE ~(team <= 1)
  <2>1. MemberMove(t, "barrier", "inBarrier")
    BY <1>2 DEF MemberMove, BarrierArrive, Move
  <2>2. UNCHANGED <<crit, tmp, shared, sharedAtFork>>
        /\ arrived' = arrived \cup {t}
    BY <1>2 DEF BarrierArrive
  <2>3. ArrivedAtBarrier'
    BY <2>1, <2>2 DEF MemberMove, Move, ArrivedAtBarrier, PastBarrier,
                      TypeOK, Team, Threads
  <2>4. QED
    BY <2>1, <2>2, <2>3, MoveIdleOutside, MoveCritHeld, MoveTmpFresh,
       MoveCount, MoveAfterStore
    DEF CritStates, StoredStates, PastStates
<1>3. QED
  BY <1>1, <1>2

LEMMA BarrierLeaveIInv ==
  ASSUME IInv, TypeOK', NEW t \in Team, BarrierLeave(t) PROVE IInv'
<1> USE DEF IInv
<1>1. MemberMove(t, "inBarrier", "reduce")
  BY DEF MemberMove, BarrierLeave
<1>2. UNCHANGED <<crit, tmp, shared, arrived, sharedAtFork>>
  BY DEF BarrierLeave
<1>3. \A u \in Team : pc[u] \in StoredStates
  BY DEF BarrierLeave, ArrivedAtBarrier, PastBarrier, StoredStates
<1>4. PastMeansAllStored'
  <2>1. pc'[t] = "reduce" /\ Team' = Team
    BY <1>1 DEF MemberMove, Move, TypeOK, Team, Threads
  <2>2. \A u \in Team : u # t => pc'[u] = pc[u]
    BY <1>1 DEF MemberMove, Move, TypeOK, Team, Threads
  <2>3. QED
    BY <1>3, <2>1, <2>2 DEF PastMeansAllStored, StoredStates
<1>5. QED
  BY <1>1, <1>2, <1>4, MoveIdleOutside, MoveCritHeld, MoveTmpFresh,
     MoveCount, MoveArrived
  DEF CritStates, StoredStates, ArrivedStates, PastStates

LEMMA ReduceBeginIInv ==
  ASSUME IInv, TypeOK', NEW t \in Team, ReduceBegin(t) PROVE IInv'
<1> USE DEF IInv
<1>1. CASE ReduceCall = "reduce"
  <2>1. MemberMove(t, "reduce", "combineLoad")
    BY <1>1 DEF MemberMove, ReduceBegin, StartReduction
  <2>2. UNCHANGED <<crit, tmp, shared, sharedAtFork, arrived>>
    BY DEF ReduceBegin
  <2>3. QED
    BY <2>1, <2>2, PlainMove
    DEF CritStates, StoredStates, PastStates, ArrivedStates
<1>2. CASE ReduceCall # "reduce"
  <2>1. MemberMove(t, "reduce", "done")
    BY <1>2 DEF MemberMove, ReduceBegin, RedisReduction, Move
  <2>2. UNCHANGED <<crit, tmp, shared, sharedAtFork, arrived>>
    BY DEF ReduceBegin
  <2>3. QED
    BY <2>1, <2>2, PlainMove
    DEF CritStates, StoredStates, PastStates, ArrivedStates
<1>3. QED
  BY <1>1, <1>2

LEMMA CombineLoadIInv ==
  ASSUME IInv, TypeOK', NEW t \in Team, CombineLoad(t) PROVE IInv'
<1> USE DEF IInv
<1>1. MemberMove(t, "combineLoad", "combineStore")
  BY DEF MemberMove, CombineLoad
<1>2. UNCHANGED <<crit, shared, sharedAtFork, arrived>>
  BY DEF CombineLoad
<1>3. \A u \in Team : u # t => tmp'[u] = tmp[u]
  BY DEF CombineLoad, IInv, TypeOK, Team, Threads
<1>4. QED
  BY <1>1, <1>2, <1>3, PlainMove
  DEF CritStates, StoredStates, PastStates, ArrivedStates

LEMMA CombineStoreIInv ==
  ASSUME IInv, TypeOK', NEW t \in Team, CombineStore(t) PROVE IInv'
<1> USE DEF IInv
<1>1. MemberMove(t, "combineStore", "endReduce")
  BY DEF MemberMove, CombineStore
<1>2. UNCHANGED <<crit, tmp, shared, sharedAtFork, arrived>>
  BY DEF CombineStore
<1>3. QED
  BY <1>1, <1>2, PlainMove
  DEF CritStates, StoredStates, PastStates, ArrivedStates

LEMMA EndReduceIInv ==
  ASSUME IInv, TypeOK', NEW t \in Team, EndReduce(t) PROVE IInv'
<1> USE DEF IInv
<1>1. MemberMove(t, "endReduce", "done")
  BY DEF MemberMove, EndReduce
<1>2. UNCHANGED <<crit, tmp, shared, sharedAtFork, arrived>>
  BY DEF EndReduce
<1>3. QED
  BY <1>1, <1>2, PlainMove
  DEF CritStates, StoredStates, PastStates, ArrivedStates

(* A team of n <= MaxThreads members is the first n threads.              *)
LEMMA TeamOfSize ==
  \A n \in 0 .. MaxThreads :
    /\ 0 .. n - 1 \subseteq Threads
    /\ \A x \in Threads : x \notin 0 .. n - 1 => ~(x < n)
BY DEF Threads

LEMMA ForkCallIInv ==
  ASSUME IInv, TypeOK', ForkCall PROVE IInv'
<1> USE DEF IInv
<1>0. /\ Team' \subseteq Threads
      /\ \A x \in Threads : x \notin Team' => ~(x < team')
  <2>1. team' \in 0 .. MaxThreads /\ Team' = 0 .. team' - 1
    BY DEF TypeOK, Team
  <2>2. QED
    BY <2>1, TeamOfSize
<1>1. \A t \in Threads : pc'[t] \in {"crit", "idle"}
  BY DEF ForkCall
<1>2. IdleOutside'
  BY <1>0 DEF ForkCall, IdleOutside
<1>3. CritHeld'
  BY <1>0, <1>1 DEF CritHeld, InCritical
<1>4. TmpFresh' /\ ArrivedAtBarrier' /\ PastMeansAllStored'
  BY <1>0, <1>1 DEF ForkCall, TmpFresh, ArrivedAtBarrier,
                    PastMeansAllStored, PastBarrier
<1>5. CountTracksStores'
  <2>1. StoredSet' = {}
    BY <1>0, <1>1 DEF StoredSet, StoredStates
  <2>2. Cardinality(StoredSet') = 0
    BY <2>1, FS_EmptySet
  <2>3. shared \in Nat /\ shared' = shared /\ sharedAtFork' = shared
    BY DEF ForkCall, TypeOK
  <2>4. shared' = sharedAtFork' + Cardinality(StoredSet')
    BY ONLY <2>2, <2>3
  <2>5. QED
    BY <2>4 DEF CountTracksStores
<1>6. QED
  BY <1>2, <1>3, <1>4, <1>5, ExclusionFromHeldNext

LEMMA JoinIInv ==
  ASSUME IInv, TypeOK', Join PROVE IInv'
<1> USE DEF IInv
<1>1. Team' = {}
  BY DEF Join, Team
<1>2. QED
  BY <1>1 DEF Join, IdleOutside, CritHeld, CriticalExclusion, TmpFresh,
              CountTracksStores, ArrivedAtBarrier, PastMeansAllStored

LEMMA MasterKeepsIInv ==
  ASSUME IInv, TypeOK',
         UNCHANGED <<team, pc, tmp, crit, arrived, shared, sharedAtFork>>
  PROVE  IInv'
BY DEF IInv, IdleOutside, CritHeld, CriticalExclusion, TmpFresh,
       CountTracksStores, StoredSet, ArrivedAtBarrier, PastMeansAllStored,
       InCritical, PastBarrier, Team

LEMMA ThreadStepIInv ==
  ASSUME IInv, TypeOK', NEW t \in Threads, t \in Team, ThreadStep(t)
  PROVE  IInv'
<1> DEFINE T == t
<1>1. T \in Team
  OBVIOUS
<1>2. QED
  BY <1>1, CriticalEnterIInv, LoadSharedIInv, StoreSharedIInv,
     CriticalExitIInv, BarrierArriveIInv, BarrierLeaveIInv, ReduceBeginIInv,
     CombineLoadIInv, CombineStoreIInv, EndReduceIInv
  DEF ThreadStep

LEMMA IInvStep ==
  ASSUME IInv, [Next]_vars PROVE IInv'
<1>1. TypeOK'
  BY TypeOKStep DEF IInv
<1>2. ASSUME NEW k \in 1 .. MaxThreads, PushNumThreads(k) \/ SetNumThreads(k)
      PROVE  IInv'
  BY <1>1, <1>2, MasterKeepsIInv DEF PushNumThreads, SetNumThreads
<1>3. CASE ForkCall
  BY <1>1, <1>3, ForkCallIInv
<1>4. CASE Join
  BY <1>1, <1>4, JoinIInv
<1>5. ASSUME NEW t \in Threads, t \in Team /\ ThreadStep(t) PROVE IInv'
  BY <1>1, <1>5, ThreadStepIInv
<1>6. CASE Trapped \/ UNCHANGED vars
  BY <1>1, <1>6, MasterKeepsIInv DEF Trapped, vars
<1>7. QED
  BY <1>2, <1>3, <1>4, <1>5, <1>6 DEF Next

LEMMA InitIInv == Init => IInv
<1> SUFFICES ASSUME Init PROVE IInv
  OBVIOUS
<1>1. Team = {}
  BY DEF Init, Team
<1>2. QED
  BY <1>1, InitTypeOK DEF IInv, IdleOutside, CritHeld, CriticalExclusion,
     TmpFresh, CountTracksStores, ArrivedAtBarrier, PastMeansAllStored, Init

(* IInv holds in every reachable state of the local fork.                  *)
THEOREM IInvariant == Spec => []IInv
BY InitIInv, IInvStep, PTL DEF Spec

(* No two members of a team are inside __kmpc_critical at once: the level's *)
(* critical mutex, taken only when the team has more than one thread, is   *)
(* enough to serialise the guest's read-modify-write of shared data.       *)
THEOREM CriticalExclusionThm == Spec => []CriticalExclusion
<1>1. IInv => CriticalExclusion
  BY DEF IInv
<1>2. QED
  BY <1>1, IInvariant, PTL

(* IInv gives the barrier property: once one member is past the barrier, *)
(* every member has stored, and `count` tracks the stores.                *)
LEMMA IInvBarrier == IInv => BarrierPublishes
<1> SUFFICES ASSUME IInv, NEW t \in Team, PastBarrier(t)
             PROVE  shared = sharedAtFork + team
  BY DEF BarrierPublishes
<1>1. StoredSet = Team
  BY DEF IInv, PastMeansAllStored, StoredSet
<1>2. team \in Nat
  BY DEF IInv, TypeOK
<1>3. Cardinality(Team) = team
  <2>1. Cardinality(0 .. team - 1) = team - 1 - 0 + 1
    BY <1>2, FS_Interval
  <2>2. QED
    BY <1>2, <2>1 DEF Team
<1>4. team # 0
  BY DEF Team
<1>5. QED
  BY <1>1, <1>3, <1>4 DEF IInv, CountTracksStores

(* A member that returns from __kmpc_barrier sees the increments of every  *)
(* member of its team: `count` then equals its value at the fork plus the  *)
(* team size.                                                              *)
THEOREM BarrierPublishesThm == Spec => []BarrierPublishes
BY IInvBarrier, IInvariant, PTL

=============================================================================

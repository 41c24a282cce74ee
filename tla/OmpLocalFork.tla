---------------------------- MODULE OmpLocalFork ----------------------------
(***************************************************************************)
(* Local (single-device) OpenMP parallel regions of the wasm host runtime, *)
(* src/src/wavm/openmp.cpp.  The master thread calls __kmpc_fork_call,     *)
(* which builds the next OMPLevel from the parent level's preferences,     *)
(* spawns one host thread per team member and joins them all, failing if  *)
(* any returned non-zero.  Each team member runs a microtask that uses the *)
(* team's runtime intrinsics: __kmpc_critical / __kmpc_end_critical,       *)
(* __kmpc_barrier, and a reduction through __kmpc_reduce (blocking) or     *)
(* __kmpc_reduce_nowait followed by the matching end call.                 *)
(*                                                                         *)
(* The microtask is the clang lowering of spec scenario S4 plus a sum      *)
(* reduction:                                                              *)
(*     #pragma omp parallel reduction(+:sum)                               *)
(*     { #pragma omp critical  count++;                                    *)
(*       #pragma omp barrier                                               *)
(*       sum += Partial(thread_num); }                                     *)
(* Guest loads and stores of the shared words are separate steps, so an   *)
(* unprotected increment can lose an update.                               *)
(***************************************************************************)
EXTENDS Integers, FiniteSets

CONSTANTS
  MaxThreads,   \* largest team size the guest asks for (push / set_num_threads)
  MaxForks,     \* number of parallel regions the master runs (bounds the model)
  ReduceCall,   \* which reduction entry the compiler emitted
  StateMode,    \* system config stateMode ("redis" or "inmemory")
  None          \* model value: a mutex held by nobody

ASSUME MaxThreadsAssumption == MaxThreads \in Nat \ {0}
ASSUME MaxForksAssumption   == MaxForks \in Nat
ASSUME ReduceCallAssumption == ReduceCall \in {"reduce", "reduce_nowait"}
ASSUME StateModeAssumption  == StateMode \in {"redis", "inmemory"}
ASSUME NoneAssumption       == None \notin Nat

VARIABLES
  wanted,       \* thisLevel->wanted_num_threads of the master's level
  pushed,       \* thisLevel->pushed_num_threads of the master's level
  master,       \* the master thread: "serial", "forked" (in fork_call), "trapped"
  forks,        \* parallel regions started so far
  team,         \* num_threads of the level being executed (0: none)
  pc,           \* program counter of each team member's microtask
  tmp,          \* guest register holding a loaded shared word
  rc,           \* return code of each team member's executeThread
  crit,         \* holder of nextLevel->criticalSection
  redMtx,       \* holder of nextLevel->reduceMutex
  arrived,      \* team members that reached the level's barrier
  shared,       \* guest word `count`, incremented under critical
  sum,          \* guest word `sum`, the reduction destination
  redisAcc,     \* integer at REDUCE_KEY ("omp_wowzoid") in the state store
  sharedAtFork, \* history: `count` when the current region was forked
  sumAtFork     \* history: `sum` when the current region was forked

vars == <<wanted, pushed, master, forks, team, pc, tmp, rc, crit, redMtx,
          arrived, shared, sum, redisAcc, sharedAtFork, sumAtFork>>

Threads == 0 .. MaxThreads - 1

Team == 0 .. team - 1

\* The private contribution of thread_num t to the reduction.
Partial(t) == t + 1

\* The value a correct `+` reduction adds over a team of n members.
ReductionTotal(n) == (n * (n + 1)) \div 2

PcStates == {"idle", "crit", "load", "store", "exitCrit", "barrier",
             "inBarrier", "reduce", "combineLoad", "combineStore",
             "endReduce", "done"}

\* Return values of startReduction / __kmpc_reduce_nowait.
empty_reduce_block == 4 * 256

-----------------------------------------------------------------------------
(* Variant: tests the pushed sentinel with # 0 instead of > 0.            *)
NextNumThreadsSentinel == IF pushed # 0 THEN pushed
                          ELSE IF wanted > 0 THEN wanted
                          ELSE 1

(* OMPLevel::get_next_level_num_threads: a pushed num_threads clause wins, *)
(* then omp_set_num_threads, then the parent level's size (1 at depth 0).  *)
NextNumThreads == IF pushed > 0 THEN pushed
                  ELSE IF wanted > 0 THEN wanted
                  ELSE 1

Init ==
  /\ wanted = -1
  /\ pushed = -1
  /\ master = "serial"
  /\ forks = 0
  /\ team = 0
  /\ pc = [t \in Threads |-> "idle"]
  /\ tmp = [t \in Threads |-> 0]
  /\ rc = [t \in Threads |-> 0]
  /\ crit = None
  /\ redMtx = None
  /\ arrived = {}
  /\ shared = 0
  /\ sum = 0
  /\ redisAcc = 0
  /\ sharedAtFork = 0
  /\ sumAtFork = 0

(* __kmpc_push_num_threads: only a positive request is recorded.           *)
PushNumThreads(k) ==
  /\ master = "serial"
  /\ k > 0
  /\ pushed' = k
  /\ UNCHANGED <<wanted, master, forks, team, pc, tmp, rc, crit, redMtx,
                 arrived, shared, sum, redisAcc, sharedAtFork, sumAtFork>>

(* omp_set_num_threads: only a positive request is recorded.               *)
SetNumThreads(k) ==
  /\ master = "serial"
  /\ k > 0
  /\ wanted' = k
  /\ UNCHANGED <<pushed, master, forks, team, pc, tmp, rc, crit, redMtx,
                 arrived, shared, sum, redisAcc, sharedAtFork, sumAtFork>>

(* Variant: pushed_num_threads is not reset at the fork.                   *)
ForkCallNoReset ==
  /\ master = "serial"
  /\ forks < MaxForks
  /\ team' = NextNumThreads
  /\ pc' = [t \in Threads |-> IF t < NextNumThreads THEN "crit" ELSE "idle"]
  /\ rc' = [t \in Threads |-> 0]
  /\ crit' = None
  /\ redMtx' = None
  /\ arrived' = {}
  /\ master' = "forked"
  /\ forks' = forks + 1
  /\ sharedAtFork' = shared
  /\ sumAtFork' = sum
  /\ UNCHANGED <<wanted, pushed, tmp, shared, sum, redisAcc>>

(* __kmpc_fork_call, local branch up to the join: size the next level,     *)
(* reset pushed_num_threads, make the level (fresh barrier and mutexes)    *)
(* and start one host thread per member at the start of the microtask.    *)
ForkCall ==
  /\ master = "serial"
  /\ forks < MaxForks
  /\ team' = NextNumThreads
  /\ pushed' = -1
  /\ pc' = [t \in Threads |-> IF t < NextNumThreads THEN "crit" ELSE "idle"]
  /\ rc' = [t \in Threads |-> 0]
  /\ crit' = None
  /\ redMtx' = None
  /\ arrived' = {}
  /\ master' = "forked"
  /\ forks' = forks + 1
  /\ sharedAtFork' = shared
  /\ sumAtFork' = sum
  /\ UNCHANGED <<wanted, tmp, shared, sum, redisAcc>>

(* Variant: the join ignores the members' return codes.                   *)
JoinIgnoreErrors ==
  /\ master = "forked"
  /\ \A t \in Team : pc[t] = "done"
  /\ master' = "serial"
  /\ team' = 0
  /\ pc' = [t \in Threads |-> "idle"]
  /\ UNCHANGED <<wanted, pushed, forks, tmp, rc, crit, redMtx, arrived,
                 shared, sum, redisAcc, sharedAtFork, sumAtFork>>

(* __kmpc_fork_call, the join: every thread has returned; the non-zero     *)
(* return codes are summed and a non-zero total throws into the guest.     *)
Join ==
  /\ master = "forked"
  /\ \A t \in Team : pc[t] = "done"
  /\ master' = IF \E t \in Team : rc[t] # 0 THEN "trapped" ELSE "serial"
  /\ team' = 0
  /\ pc' = [t \in Threads |-> "idle"]
  /\ UNCHANGED <<wanted, pushed, forks, tmp, rc, crit, redMtx, arrived,
                 shared, sum, redisAcc, sharedAtFork, sumAtFork>>

-----------------------------------------------------------------------------
(* Steps of team member t.                                                 *)

Move(t, from, to) ==
  /\ pc[t] = from
  /\ pc' = [pc EXCEPT ![t] = to]

(* Variant: locks only in teams of more than two threads.                 *)
CriticalEnterOffByOne(t) ==
  /\ Move(t, "crit", "load")
  /\ IF team > 2 THEN crit = None /\ crit' = t ELSE UNCHANGED crit
  /\ UNCHANGED <<wanted, pushed, master, forks, team, tmp, rc, redMtx,
                 arrived, shared, sum, redisAcc, sharedAtFork, sumAtFork>>

(* __kmpc_critical: locks the level's critical mutex only in a team of     *)
(* more than one thread.                                                   *)
CriticalEnter(t) ==
  /\ Move(t, "crit", "load")
  /\ IF team > 1 THEN crit = None /\ crit' = t ELSE UNCHANGED crit
  /\ UNCHANGED <<wanted, pushed, master, forks, team, tmp, rc, redMtx,
                 arrived, shared, sum, redisAcc, sharedAtFork, sumAtFork>>

(* Guest: load `count` into a register.                                    *)
LoadShared(t) ==
  /\ Move(t, "load", "store")
  /\ tmp' = [tmp EXCEPT ![t] = shared]
  /\ UNCHANGED <<wanted, pushed, master, forks, team, rc, crit, redMtx,
                 arrived, shared, sum, redisAcc, sharedAtFork, sumAtFork>>

(* Guest: store the register plus one back to `count`.                     *)
StoreShared(t) ==
  /\ Move(t, "store", "exitCrit")
  /\ shared' = tmp[t] + 1
  /\ UNCHANGED <<wanted, pushed, master, forks, team, tmp, rc, crit, redMtx,
                 arrived, sum, redisAcc, sharedAtFork, sumAtFork>>

(* Variant: never unlocks the critical mutex.                             *)
CriticalExitNoUnlock(t) ==
  /\ Move(t, "exitCrit", "barrier")
  /\ UNCHANGED <<wanted, pushed, master, forks, team, tmp, rc, crit, redMtx,
                 arrived, shared, sum, redisAcc, sharedAtFork, sumAtFork>>

(* __kmpc_end_critical: unlocks only in a team of more than one thread.    *)
CriticalExit(t) ==
  /\ Move(t, "exitCrit", "barrier")
  /\ IF team > 1 THEN crit' = None ELSE UNCHANGED crit
  /\ UNCHANGED <<wanted, pushed, master, forks, team, tmp, rc, redMtx,
                 arrived, shared, sum, redisAcc, sharedAtFork, sumAtFork>>

(* Variant: returns at once in teams of up to two threads.                *)
BarrierArriveOffByOne(t) ==
  /\ pc[t] = "barrier"
  /\ IF team <= 2
       THEN pc' = [pc EXCEPT ![t] = "reduce"] /\ UNCHANGED arrived
       ELSE pc' = [pc EXCEPT ![t] = "inBarrier"] /\ arrived' = arrived \cup {t}
  /\ UNCHANGED <<wanted, pushed, master, forks, team, tmp, rc, crit, redMtx,
                 shared, sum, redisAcc, sharedAtFork, sumAtFork>>

(* __kmpc_barrier: returns at once in a team of at most one thread,        *)
(* otherwise the caller arrives at the level's barrier and waits.          *)
BarrierArrive(t) ==
  /\ pc[t] = "barrier"
  /\ IF team <= 1
       THEN pc' = [pc EXCEPT ![t] = "reduce"] /\ UNCHANGED arrived
       ELSE pc' = [pc EXCEPT ![t] = "inBarrier"] /\ arrived' = arrived \cup {t}
  /\ UNCHANGED <<wanted, pushed, master, forks, team, tmp, rc, crit, redMtx,
                 shared, sum, redisAcc, sharedAtFork, sumAtFork>>

(* Barrier::wait returns once all num_threads members have arrived.        *)
BarrierLeave(t) ==
  /\ Move(t, "inBarrier", "reduce")
  /\ Team \subseteq arrived
  /\ UNCHANGED <<wanted, pushed, master, forks, team, tmp, rc, crit, redMtx,
                 arrived, shared, sum, redisAcc, sharedAtFork, sumAtFork>>

(* Variant: critical_reduce_block without taking the reduce mutex.        *)
StartReductionNoLock(t) ==
  /\ Move(t, "reduce", "combineLoad")
  /\ UNCHANGED <<rc, redisAcc, redMtx>>

(* startReduction: determineReductionMethod picks empty_reduce_block for a *)
(* team of one (no lock) and critical_reduce_block otherwise (lock the     *)
(* reduce mutex); both return 1, so the guest combines and ends.           *)
StartReduction(t) ==
  /\ Move(t, "reduce", "combineLoad")
  /\ IF team = 1 THEN UNCHANGED redMtx ELSE redMtx = None /\ redMtx' = t
  /\ UNCHANGED <<rc, redisAcc>>

(* __kmpc_reduce_nowait with userNumDevice = 1: adds the thread's partial  *)
(* to REDUCE_KEY in redis and returns empty_reduce_block, on which the     *)
(* guest neither combines nor calls the end function; with another state   *)
(* mode it throws, and the thread returns an error.                        *)
RedisReduction(t) ==
  /\ pc[t] = "reduce"
  /\ pc' = [pc EXCEPT ![t] = "done"]
  /\ IF StateMode = "redis"
       THEN redisAcc' = redisAcc + Partial(t) /\ UNCHANGED rc
       ELSE rc' = [rc EXCEPT ![t] = 1] /\ UNCHANGED redisAcc
  /\ UNCHANGED redMtx

ReduceBegin(t) ==
  /\ IF ReduceCall = "reduce" THEN StartReduction(t) ELSE RedisReduction(t)
  /\ UNCHANGED <<wanted, pushed, master, forks, team, tmp, crit, arrived,
                 shared, sum, sharedAtFork, sumAtFork>>

(* Guest: load `sum`.                                                      *)
CombineLoad(t) ==
  /\ Move(t, "combineLoad", "combineStore")
  /\ tmp' = [tmp EXCEPT ![t] = sum]
  /\ UNCHANGED <<wanted, pushed, master, forks, team, rc, crit, redMtx,
                 arrived, shared, sum, redisAcc, sharedAtFork, sumAtFork>>

(* Guest: store `sum` plus the thread's partial.                           *)
CombineStore(t) ==
  /\ Move(t, "combineStore", "endReduce")
  /\ sum' = tmp[t] + Partial(t)
  /\ UNCHANGED <<wanted, pushed, master, forks, team, tmp, rc, crit, redMtx,
                 arrived, shared, redisAcc, sharedAtFork, sumAtFork>>

(* Variant: endReduction forgets to unlock the reduce mutex.              *)
EndReduceNoUnlock(t) ==
  /\ Move(t, "endReduce", "done")
  /\ UNCHANGED <<wanted, pushed, master, forks, team, tmp, rc, crit, redMtx,
                 arrived, shared, sum, redisAcc, sharedAtFork, sumAtFork>>

(* __kmpc_end_reduce(_nowait) with userNumDevice = 1: endReduction unlocks *)
(* the reduce mutex in a team of more than one thread; the microtask then  *)
(* returns 0.                                                              *)
EndReduce(t) ==
  /\ Move(t, "endReduce", "done")
  /\ IF team > 1 THEN redMtx' = None ELSE UNCHANGED redMtx
  /\ UNCHANGED <<wanted, pushed, master, forks, team, tmp, rc, crit,
                 arrived, shared, sum, redisAcc, sharedAtFork, sumAtFork>>

ThreadStep(t) ==
  \/ CriticalEnter(t)
  \/ LoadShared(t)
  \/ StoreShared(t)
  \/ CriticalExit(t)
  \/ BarrierArrive(t)
  \/ BarrierLeave(t)
  \/ ReduceBegin(t)
  \/ CombineLoad(t)
  \/ CombineStore(t)
  \/ EndReduce(t)

(* A guest trap ends the program: the master stays trapped.               *)
Trapped ==
  /\ master = "trapped"
  /\ UNCHANGED vars

Next ==
  \/ \E k \in 1 .. MaxThreads : PushNumThreads(k) \/ SetNumThreads(k)
  \/ ForkCall
  \/ Join
  \/ \E t \in Threads : t \in Team /\ ThreadStep(t)
  \/ Trapped

(* Team members are host threads scheduled by the OS and the master waits *)
(* in joinThread: each keeps running while it can.                         *)
Fairness ==
  /\ WF_vars(Join)
  /\ \A t \in Threads : WF_vars(t \in Team /\ ThreadStep(t))

Spec == Init /\ [][Next]_vars /\ Fairness

-----------------------------------------------------------------------------
(* Properties.                                                             *)

TypeOK ==
  /\ wanted \in {-1} \cup (1 .. MaxThreads)
  /\ pushed \in {-1} \cup (1 .. MaxThreads)
  /\ master \in {"serial", "forked", "trapped"}
  /\ forks \in 0 .. MaxForks
  /\ team \in 0 .. MaxThreads
  /\ pc \in [Threads -> PcStates]
  /\ tmp \in [Threads -> Nat]
  /\ rc \in [Threads -> {0, 1}]
  /\ crit \in Threads \cup {None}
  /\ redMtx \in Threads \cup {None}
  /\ arrived \subseteq Threads
  /\ shared \in Nat
  /\ sum \in Nat
  /\ redisAcc \in Nat
  /\ sharedAtFork \in Nat
  /\ sumAtFork \in Nat

InCritical(t) == pc[t] \in {"load", "store", "exitCrit"}

(* __kmpc_critical / __kmpc_end_critical: no two members of a team are     *)
(* ever between their critical and end_critical calls at the same time.   *)
CriticalExclusion ==
  \A t, u \in Team : t # u => ~(InCritical(t) /\ InCritical(u))

PastBarrier(t) ==
  pc[t] \in {"reduce", "combineLoad", "combineStore", "endReduce", "done"}

(* __kmpc_barrier together with critical: a member that has returned from *)
(* the barrier sees `count` raised by exactly one per team member, i.e.    *)
(* every increment made before the barrier, none lost (spec scenario S4).  *)
BarrierPublishes ==
  \A t \in Team : PastBarrier(t) => shared = sharedAtFork + team

(* The reduction entries of openmp.cpp: once every member of the team has  *)
(* returned without error, the guest's reduction variable holds its value  *)
(* at the fork plus every member's partial.                                *)
ReductionCorrect ==
  (master = "forked" /\ \A t \in Team : pc[t] = "done" /\ rc[t] = 0)
    => sum = sumAtFork + ReductionTotal(team)

(* __kmpc_fork_call returns or traps after every parallel region: no      *)
(* member waits forever on the barrier, the critical or the reduce mutex. *)
Termination ==
  master = "forked" ~> master \in {"serial", "trapped"}

-----------------------------------------------------------------------------
(* Refinement.  While a region runs, the guest's master sees `count` and  *)
(* `sum` as they were at the fork; the join makes the region's effect     *)
(* visible in one step.                                                    *)
Region == INSTANCE OmpRegion
            WITH count <- IF master = "serial" THEN shared ELSE sharedAtFork,
                 sum   <- IF master = "serial" THEN sum ELSE sumAtFork

(* __kmpc_fork_call implements OmpRegion: each region is sized by the     *)
(* num_threads clause pushed for it alone (pushed_num_threads is reset at *)
(* the fork), then by omp_set_num_threads, then 1; the join returns only  *)
(* with every member's increment and partial in, or throws; and every     *)
(* region that starts ends.                                                *)
RegionRefinement == Region!Spec

=============================================================================

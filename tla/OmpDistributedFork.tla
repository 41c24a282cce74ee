------------------------- MODULE OmpDistributedFork -------------------------
(***************************************************************************)
(* Distributed (multi-device) parallel regions, src/src/wavm/openmp.cpp.  *)
(* A parent call whose guest selected several devices with                *)
(* omp_set_default_device(-N) forks by chaining one function call per     *)
(* team member: __kmpc_fork_call zeroes the redis integer REDUCE_KEY,     *)
(* snapshots the module under the process-wide activeSnapshotKey, submits *)
(* the calls, then awaits each result in turn with a timeout and finally  *)
(* writes REDUCE_KEY into the guest word of its first shared argument.    *)
(*                                                                         *)
(* Each chained call runs the microtask on some host process.  The        *)
(* microtask is a `+` reduction lowered to __kmpc_reduce_nowait and       *)
(* __kmpc_end_reduce_nowait; both read that process's userNumDevice, a     *)
(* process-wide global that the parents running there may have set.       *)
(* A chained call can also be lost (its host never runs it).               *)
(***************************************************************************)
EXTENDS Integers, FiniteSets

CONSTANTS
  Parents,      \* calls that run a guest with a parallel region
  Procs,        \* host processes (one runtime instance each)
  Home,         \* Home[p]: the process running parent call p
  MaxThreads,   \* largest team a parent forks
  MaxForks,     \* parallel regions each parent's guest runs (bounds the model)
  DeviceArgs,   \* arguments the guests pass to omp_set_default_device
  ArgCounts,    \* values of argc (number of shared arguments) at a fork
  Leftover,     \* values REDUCE_KEY may hold before any fork (earlier runs)
  None          \* model value: an empty activeSnapshotKey

ASSUME HomeAssumption      == Home \in [Parents -> Procs]
ASSUME MaxThreadsDistAssumption == MaxThreads \in Nat \ {0}
ASSUME MaxForksDistAssumption   == MaxForks \in Nat
ASSUME DeviceArgsAssumption == DeviceArgs \subseteq Int
ASSUME ArgCountsAssumption == ArgCounts \subseteq Nat
ASSUME LeftoverAssumption  == Leftover \subseteq Nat /\ Leftover # {}
ASSUME NoneDistAssumption  == None \notin Parents

VARIABLES
  dev,        \* dev[q]: userNumDevice of process q
  snap,       \* snap[q]: activeSnapshotKey of process q (the parent it names)
  redis,      \* the integer at REDUCE_KEY ("omp_wowzoid"), one for all callers
  ppc,        \* ppc[p]: "serial", "waiting" (in the await loop), "trapped", "crashed"
  team,       \* team[p]: nextNumThreads of p's last fork
  argc,       \* argc[p]: argc of p's last fork
  wi,         \* wi[p]: index of the chained call p awaits next
  numErrors,  \* numErrors[p]
  sum,        \* sum[p]: guest word *reducePtr of parent p
  forks,      \* forks[p]: distributed forks p has started
  cs,         \* cs[p][t]: state of p's chained call for thread t
  place       \* place[p][t]: process that runs p's chained call t

vars == <<dev, snap, redis, ppc, team, argc, wi, numErrors, sum, forks, cs,
          place>>

Threads == 0 .. MaxThreads - 1

\* int userMaxNumDevices = 3
userMaxNumDevices == 3

Abs(x) == IF x < 0 THEN -x ELSE x

\* The partial that member t of a team contributes.
Partial(t) == t + 1

ReductionTotal(n) == (n * (n + 1)) \div 2

\* Chained call states: not created, submitted, holding its level's reduce
\* mutex after startReduction, finished with 0, finished with an error,
\* never run (its host died).
CStates == {"none", "queued", "held", "ok", "failed", "lost"}

Finished(c) == c \in {"ok", "failed"}

Init ==
  /\ dev = [q \in Procs |-> 1]
  /\ snap = [q \in Procs |-> None]
  /\ redis \in Leftover
  /\ ppc = [p \in Parents |-> "serial"]
  /\ team = [p \in Parents |-> 0]
  /\ argc = [p \in Parents |-> 0]
  /\ wi = [p \in Parents |-> 0]
  /\ numErrors = [p \in Parents |-> 0]
  /\ sum = [p \in Parents |-> 0]
  /\ forks = [p \in Parents |-> 0]
  /\ cs = [p \in Parents |-> [t \in Threads |-> "none"]]
  /\ place = [p \in Parents |-> [t \in Threads |-> Home[p]]]

-----------------------------------------------------------------------------
(* Variant: no bound check on the requested device count.                 *)
SetDefaultDeviceNoCheck(p, d) ==
  /\ ppc[p] = "serial"
  /\ dev' = [dev EXCEPT ![Home[p]] = Abs(d)]
  /\ UNCHANGED <<snap, redis, ppc, team, argc, wi, numErrors, sum, forks, cs,
                 place>>

(* omp_set_default_device: a request above userMaxNumDevices is ignored;  *)
(* otherwise userNumDevice of the caller's process becomes |d|.            *)
SetDefaultDevice(p, d) ==
  /\ ppc[p] = "serial"
  /\ Abs(d) <= userMaxNumDevices
  /\ dev' = [dev EXCEPT ![Home[p]] = Abs(d)]
  /\ UNCHANGED <<snap, redis, ppc, team, argc, wi, numErrors, sum, forks, cs,
                 place>>

(* Variant: REDUCE_KEY is not zeroed at the fork.                          *)
DistForkNoReset(p) ==
  /\ ppc[p] = "serial"
  /\ dev[Home[p]] # 1
  /\ forks[p] < MaxForks
  /\ snap[Home[p]] = None
  /\ snap' = [snap EXCEPT ![Home[p]] = p]
  /\ forks' = [forks EXCEPT ![p] = @ + 1]
  /\ \E n \in 1 .. MaxThreads, a \in ArgCounts, pl \in [Threads -> Procs] :
       /\ team' = [team EXCEPT ![p] = n]
       /\ argc' = [argc EXCEPT ![p] = a]
       /\ cs' = [cs EXCEPT ![p] = [t \in Threads |->
                                      IF t < n THEN "queued" ELSE "none"]]
       /\ place' = [place EXCEPT ![p] = pl]
  /\ ppc' = [ppc EXCEPT ![p] = "waiting"]
  /\ wi' = [wi EXCEPT ![p] = 0]
  /\ numErrors' = [numErrors EXCEPT ![p] = 0]
  /\ UNCHANGED <<dev, sum, redis>>

(* __kmpc_fork_call, distributed branch up to the await loop: zero        *)
(* REDUCE_KEY, snapshot the module under a fresh activeSnapshotKey, and    *)
(* submit one chained call per member; the scheduler places each call on  *)
(* some process.  The team size is the level's next size (OmpLocalFork).  *)
DistFork(p) ==
  /\ ppc[p] = "serial"
  /\ dev[Home[p]] # 1
  /\ forks[p] < MaxForks
  /\ redis' = 0
  /\ snap[Home[p]] = None
  /\ snap' = [snap EXCEPT ![Home[p]] = p]
  /\ forks' = [forks EXCEPT ![p] = @ + 1]
  /\ \E n \in 1 .. MaxThreads, a \in ArgCounts, pl \in [Threads -> Procs] :
       /\ team' = [team EXCEPT ![p] = n]
       /\ argc' = [argc EXCEPT ![p] = a]
       /\ cs' = [cs EXCEPT ![p] = [t \in Threads |->
                                      IF t < n THEN "queued" ELSE "none"]]
       /\ place' = [place EXCEPT ![p] = pl]
  /\ ppc' = [ppc EXCEPT ![p] = "waiting"]
  /\ wi' = [wi EXCEPT ![p] = 0]
  /\ numErrors' = [numErrors EXCEPT ![p] = 0]
  /\ UNCHANGED <<dev, sum>>

(* The same entry when activeSnapshotKey is already set on this process:   *)
(* REDUCE_KEY has been zeroed, then "OMP already bound" is thrown.         *)
ForkAlreadyBound(p) ==
  /\ ppc[p] = "serial"
  /\ dev[Home[p]] # 1
  /\ forks[p] < MaxForks
  /\ redis' = 0
  /\ snap[Home[p]] # None
  /\ forks' = [forks EXCEPT ![p] = @ + 1]
  /\ ppc' = [ppc EXCEPT ![p] = "trapped"]
  /\ UNCHANGED <<dev, snap, team, argc, wi, numErrors, sum, cs, place>>

(* The await loop, one chained call per step: notifyAwaiting, then         *)
(* getFunctionResult returns the call's result, a non-zero return value   *)
(* counting as an error, then notifyFinishedAwaiting.                      *)
AwaitResult(p) ==
  /\ ppc[p] = "waiting"
  /\ wi[p] < team[p]
  /\ Finished(cs[p][wi[p]])
  /\ numErrors' = [numErrors EXCEPT ![p] =
                     @ + (IF cs[p][wi[p]] = "failed" THEN 1 ELSE 0)]
  /\ wi' = [wi EXCEPT ![p] = @ + 1]
  /\ UNCHANGED <<dev, snap, redis, ppc, team, argc, sum, forks, cs, place>>

(* Variant: getFunctionResult without a timeout.                           *)
AwaitTimeoutNever(p) == FALSE

(* Variant: returnCode starts at 0, so a timed-out wait counts as success.*)
AwaitTimeoutNoError(p) ==
  /\ ppc[p] = "waiting"
  /\ wi[p] < team[p]
  /\ ~Finished(cs[p][wi[p]])
  /\ wi' = [wi EXCEPT ![p] = @ + 1]
  /\ UNCHANGED <<dev, snap, redis, ppc, team, argc, sum, forks, cs, place,
                 numErrors>>

(* getFunctionResult times out on a call that has not finished: the       *)
(* return code stays 1 and counts as an error; the call itself goes on.    *)
AwaitTimeout(p) ==
  /\ ppc[p] = "waiting"
  /\ wi[p] < team[p]
  /\ ~Finished(cs[p][wi[p]])
  /\ numErrors' = [numErrors EXCEPT ![p] = @ + 1]
  /\ wi' = [wi EXCEPT ![p] = @ + 1]
  /\ UNCHANGED <<dev, snap, redis, ppc, team, argc, sum, forks, cs, place>>

(* After the loop: any error throws into the guest; otherwise REDUCE_KEY  *)
(* is written through reducePtr, which is still null when argc = 0 (the   *)
(* host process crashes).                                                  *)
ForkReturn(p) ==
  /\ ppc[p] = "waiting"
  /\ wi[p] = team[p]
  /\ \/ numErrors[p] > 0 /\ ppc' = [ppc EXCEPT ![p] = "trapped"]
                         /\ UNCHANGED sum
     \/ numErrors[p] = 0 /\ argc[p] = 0 /\ ppc' = [ppc EXCEPT ![p] = "crashed"]
                         /\ UNCHANGED sum
     \/ numErrors[p] = 0 /\ argc[p] # 0 /\ ppc' = [ppc EXCEPT ![p] = "serial"]
                         /\ sum' = [sum EXCEPT ![p] = redis]
  /\ UNCHANGED <<dev, snap, redis, team, argc, wi, numErrors, forks, cs, place>>

-----------------------------------------------------------------------------
(* Chained call t of parent p, restored from the snapshot with a level of *)
(* team[p] threads, runs on process q = place[p][t].                       *)

(* __kmpc_reduce_nowait.  With userNumDevice = 1 on q the partial is      *)
(* added to REDUCE_KEY and empty_reduce_block makes the guest skip the     *)
(* combine and the end call: the microtask returns 0.  Otherwise           *)
(* startReduction locks the call's own level mutex and returns 1, and the  *)
(* guest combines into its own copy of the variable.  A microtask without *)
(* shared arguments has no reduction and returns 0.                        *)
CalleeReduce(p, t) ==
  /\ cs[p][t] = "queued"
  /\ \/ argc[p] = 0 /\ cs' = [cs EXCEPT ![p][t] = "ok"] /\ UNCHANGED redis
     \/ /\ argc[p] # 0
        /\ dev[place[p][t]] = 1
        /\ redis' = redis + Partial(t)
        /\ cs' = [cs EXCEPT ![p][t] = "ok"]
     \/ /\ argc[p] # 0
        /\ dev[place[p][t]] # 1
        /\ cs' = [cs EXCEPT ![p][t] = "held"]
        /\ UNCHANGED redis
  /\ UNCHANGED <<dev, snap, ppc, team, argc, wi, numErrors, sum, forks, place>>

(* __kmpc_end_reduce_nowait: endReduction with userNumDevice = 1 on q,    *)
(* otherwise "End reduce called in distributed context" is thrown.         *)
CalleeEndReduce(p, t) ==
  /\ cs[p][t] = "held"
  /\ cs' = [cs EXCEPT ![p][t] = IF dev[place[p][t]] = 1 THEN "ok" ELSE "failed"]
  /\ UNCHANGED <<dev, snap, redis, ppc, team, argc, wi, numErrors, sum, forks,
                 place>>

(* The host the call was placed on dies before running it.                *)
CalleeLost(p, t) ==
  /\ cs[p][t] = "queued"
  /\ cs' = [cs EXCEPT ![p][t] = "lost"]
  /\ UNCHANGED <<dev, snap, redis, ppc, team, argc, wi, numErrors, sum, forks,
                 place>>

(* Every parent call has ended in a trap or a crash.                       *)
AllEnded ==
  /\ \A p \in Parents : ppc[p] \in {"trapped", "crashed"}
  /\ UNCHANGED vars

ParentStep(p) ==
  \/ \E d \in DeviceArgs : SetDefaultDevice(p, d)
  \/ DistFork(p)
  \/ ForkAlreadyBound(p)
  \/ AwaitResult(p)
  \/ AwaitTimeout(p)
  \/ ForkReturn(p)

CalleeStep(p, t) ==
  \/ CalleeReduce(p, t)
  \/ CalleeEndReduce(p, t)

Next ==
  \/ \E p \in Parents : ParentStep(p)
  \/ \E p \in Parents, t \in Threads : CalleeStep(p, t) \/ CalleeLost(p, t)
  \/ AllEnded

(* The master thread blocked in getFunctionResult always gets a result or *)
(* a timeout; a chained call that was not lost is eventually run by the   *)
(* scheduler.  Losing a call is not forced.                                *)
Fairness ==
  /\ \A p \in Parents :
       WF_vars(AwaitResult(p) \/ AwaitTimeout(p) \/ ForkReturn(p))
  /\ \A p \in Parents, t \in Threads : WF_vars(CalleeStep(p, t))

Spec == Init /\ [][Next]_vars /\ Fairness

-----------------------------------------------------------------------------
(* Properties.                                                             *)

TypeOK ==
  /\ dev \in [Procs -> 0 .. userMaxNumDevices]
  /\ snap \in [Procs -> Parents \cup {None}]
  /\ redis \in Nat
  /\ ppc \in [Parents -> {"serial", "waiting", "trapped", "crashed"}]
  /\ team \in [Parents -> 0 .. MaxThreads]
  /\ argc \in [Parents -> {0} \cup ArgCounts]
  /\ wi \in [Parents -> 0 .. MaxThreads]
  /\ numErrors \in [Parents -> 0 .. MaxThreads]
  /\ sum \in [Parents -> Nat]
  /\ forks \in [Parents -> 0 .. MaxForks]
  /\ cs \in [Parents -> [Threads -> CStates]]
  /\ place \in [Parents -> [Threads -> Procs]]

(* Spec 4.F step 6: when a distributed fork returns to the guest, the     *)
(* reduction destination holds the reduction of exactly its own team's    *)
(* partials (REDUCE_KEY zeroed at the fork, one increment per member).     *)
DistReductionCorrect ==
  \A p \in Parents : ppc[p] = "serial" => sum[p] = ReductionTotal(team[p])

(* Spec scenario S6 and the await loop of __kmpc_fork_call: a fork that  *)
(* returns to the guest had every chained call of its team finish with 0. *)
(* A call still queued, running or lost when its wait timed out may       *)
(* answer later, but the timeout was counted as an error: a late or       *)
(* missing answer is never taken for a success.                           *)
ReturnMeansAllOk ==
  \A p \in Parents : ppc[p] = "serial" => \A t \in 0 .. team[p] - 1 : cs[p][t] = "ok"

(* Every distributed fork ends: the await loop finishes even when chained *)
(* calls are lost, because each wait has a timeout.                        *)
Termination ==
  \A p \in Parents : ppc[p] = "waiting" ~> ppc[p] # "waiting"

(* Spec 4.F step 1 ("on first fork in this call, snapshot"): a fork traps *)
(* only because some chained call failed or timed out.                     *)
TrapOnlyOnErrors ==
  \A p \in Parents : ppc[p] = "trapped" => numErrors[p] > 0

(* Spec 4.G: in distributed mode a chained call's reduce_nowait adds its  *)
(* partial to the accumulator and its end call is never reached, so a      *)
(* chained call that runs never fails.                                     *)
CalleesSucceed ==
  \A p \in Parents, t \in Threads : cs[p][t] # "failed"

(* The join writes the reduction through reducePtr: the host process      *)
(* never crashes on that write.                                            *)
NoCrash ==
  \A p \in Parents : ppc[p] # "crashed"

=============================================================================

----------------------- MODULE OmpDistributedForkProofs -----------------------
(***************************************************************************)
(* Proofs about OmpDistributedFork: type correctness, and that a          *)
(* distributed __kmpc_fork_call returns to the guest only when every      *)
(* chained call succeeded (ReturnMeansAllOk), for any number of parents,  *)
(* processes, threads and forks; and, for a single parent call, that a    *)
(* fork that returns writes its own team's reduction (DistReductionCorrect).*)
(***************************************************************************)
EXTENDS OmpDistributedFork, TriangleSums, TLAPS

(* The await loop's index never passes the team, and each awaited call    *)
(* adds at most one error.                                                 *)
AwaitBounds ==
  \A p \in Parents : wi[p] <= team[p] /\ numErrors[p] <= wi[p]

IInv == TypeOK /\ AwaitBounds

USE HomeAssumption, MaxThreadsDistAssumption, MaxForksDistAssumption,
    DeviceArgsAssumption, ArgCountsAssumption, LeftoverAssumption,
    NoneDistAssumption

-----------------------------------------------------------------------------
(* Each step preserves IInv.                                               *)

LEMMA InitIInv == Init => IInv
BY DEF Init, IInv, TypeOK, AwaitBounds, Threads, CStates, userMaxNumDevices

(* omp_set_default_device changes only its process's device count.        *)
LEMMA SetDefaultDeviceIInv ==
  ASSUME IInv, NEW p \in Parents, NEW d \in DeviceArgs, SetDefaultDevice(p, d)
  PROVE  IInv'
<1>1. Abs(d) \in 0 .. userMaxNumDevices
  BY DEF SetDefaultDevice, Abs, userMaxNumDevices
<1>2. TypeOK'
  BY <1>1 DEF SetDefaultDevice, IInv, TypeOK
<1>3. QED
  BY <1>2 DEF SetDefaultDevice, IInv, AwaitBounds

(* A fork starts its await loop at 0 with no errors.                       *)
LEMMA DistForkIInv ==
  ASSUME IInv, NEW p \in Parents, DistFork(p)
  PROVE  IInv'
<1>1. PICK n \in 1 .. MaxThreads, a \in ArgCounts, pl \in [Threads -> Procs] :
        /\ team' = [team EXCEPT ![p] = n]
        /\ argc' = [argc EXCEPT ![p] = a]
        /\ cs' = [cs EXCEPT ![p] = [t \in Threads |->
                                       IF t < n THEN "queued" ELSE "none"]]
        /\ place' = [place EXCEPT ![p] = pl]
  BY DEF DistFork
<1>2. TypeOK'
  BY <1>1 DEF DistFork, IInv, TypeOK, CStates
<1>3. AwaitBounds'
  BY <1>1 DEF DistFork, IInv, TypeOK, AwaitBounds
<1>4. QED
  BY <1>2, <1>3 DEF IInv

LEMMA ForkAlreadyBoundIInv ==
  ASSUME IInv, NEW p \in Parents, ForkAlreadyBound(p)
  PROVE  IInv'
BY DEF ForkAlreadyBound, IInv, TypeOK, AwaitBounds

(* An awaited call moves the index by one and adds at most one error.      *)
LEMMA AwaitIInv ==
  ASSUME IInv, NEW p \in Parents, AwaitResult(p) \/ AwaitTimeout(p)
  PROVE  IInv'
<1>1. wi[p] < team[p] /\ wi'[p] = wi[p] + 1
      /\ numErrors'[p] \in {numErrors[p], numErrors[p] + 1}
  BY DEF AwaitResult, AwaitTimeout, IInv, TypeOK
<1>2. \A q \in Parents \ {p} : wi'[q] = wi[q] /\ numErrors'[q] = numErrors[q]
  BY DEF AwaitResult, AwaitTimeout, IInv, TypeOK
<1>3. UNCHANGED <<dev, snap, redis, ppc, team, argc, sum, forks, cs, place>>
  BY DEF AwaitResult, AwaitTimeout
<1>4. AwaitBounds'
  BY <1>1, <1>2, <1>3 DEF IInv, TypeOK, AwaitBounds
<1>5. wi' \in [Parents -> 0 .. MaxThreads]
  BY <1>1 DEF AwaitResult, AwaitTimeout, IInv, TypeOK
<1>6. numErrors' \in [Parents -> 0 .. MaxThreads]
  <2>1. numErrors' \in [Parents -> Nat]
    <3>1. \E k \in {0, 1} : numErrors' = [numErrors EXCEPT ![p] = @ + k]
      BY DEF AwaitResult, AwaitTimeout
    <3>2. QED
      BY <3>1 DEF IInv, TypeOK
  <2>2. \A q \in Parents : numErrors'[q] \in 0 .. MaxThreads
    BY <2>1, <1>4, <1>5 DEF AwaitBounds
  <2>3. QED
    BY <2>1, <2>2
<1>7. TypeOK'
  BY <1>3, <1>5, <1>6 DEF IInv, TypeOK
<1>8. QED
  BY <1>4, <1>7 DEF IInv

LEMMA ForkReturnIInv ==
  ASSUME IInv, NEW p \in Parents, ForkReturn(p)
  PROVE  IInv'
<1>1. UNCHANGED <<dev, snap, redis, team, argc, wi, numErrors, forks, cs,
                  place>>
  BY DEF ForkReturn
<1>2. ppc' \in [Parents -> {"serial", "waiting", "trapped", "crashed"}]
  BY DEF ForkReturn, IInv, TypeOK
<1>3. sum' \in [Parents -> Nat]
  BY DEF ForkReturn, IInv, TypeOK
<1>4. QED
  BY <1>1, <1>2, <1>3 DEF IInv, TypeOK, AwaitBounds

(* A chained call changes only its own state and REDUCE_KEY.               *)
LEMMA CalleeIInv ==
  ASSUME IInv, NEW p \in Parents, NEW t \in Threads,
         CalleeStep(p, t) \/ CalleeLost(p, t)
  PROVE  IInv'
<1>1. UNCHANGED <<dev, snap, ppc, team, argc, wi, numErrors, sum, forks,
                  place>>
  BY DEF CalleeStep, CalleeReduce, CalleeEndReduce, CalleeLost
<1>2. redis' \in Nat
  BY DEF CalleeStep, CalleeReduce, CalleeEndReduce, CalleeLost, IInv,
         TypeOK, Partial, Threads
<1>3. cs' \in [Parents -> [Threads -> CStates]]
  <2>1. \E x \in CStates : cs' = [cs EXCEPT ![p][t] = x]
    BY DEF CalleeStep, CalleeReduce, CalleeEndReduce, CalleeLost, CStates
  <2>2. \A x \in CStates :
          [cs EXCEPT ![p][t] = x] \in [Parents -> [Threads -> CStates]]
    BY DEF IInv, TypeOK
  <2>3. QED
    BY <2>1, <2>2
<1>4. QED
  BY <1>1, <1>2, <1>3 DEF IInv, TypeOK, AwaitBounds

LEMMA IInvStep == IInv /\ [Next]_vars => IInv'
<1> SUFFICES ASSUME IInv, [Next]_vars PROVE IInv'
  OBVIOUS
<1>1. CASE \E p \in Parents : ParentStep(p)
  <2>1. PICK p \in Parents : ParentStep(p)
    BY <1>1
  <2>2. QED
    BY <2>1, SetDefaultDeviceIInv, DistForkIInv, ForkAlreadyBoundIInv,
       AwaitIInv, ForkReturnIInv DEF ParentStep
<1>2. CASE \E p \in Parents, t \in Threads : CalleeStep(p, t) \/ CalleeLost(p, t)
  BY <1>2, CalleeIInv
<1>3. CASE AllEnded
  BY <1>3 DEF AllEnded, vars, IInv, TypeOK, AwaitBounds
<1>4. CASE UNCHANGED vars
  BY <1>4 DEF vars, IInv, TypeOK, AwaitBounds
<1>5. QED
  BY <1>1, <1>2, <1>3, <1>4 DEF Next

-----------------------------------------------------------------------------
(* The states of the distributed fork stay well typed: device counts stay *)
(* within userMaxNumDevices, the await index and the error count within   *)
(* the team, for every number of parents, processes, threads and forks.   *)
THEOREM DistTypeCorrect == Spec => []TypeOK
<1>1. IInv => TypeOK
  BY DEF IInv
<1>2. QED
  BY <1>1, InitIInv, IInvStep, PTL DEF Spec

(* Why a returned fork had every call succeed.  A parent running its      *)
(* guest has awaited its whole team with no error, and while no error has  *)
(* been counted every call awaited so far returned 0.                      *)
ReturnInv ==
  \A p \in Parents :
    /\ ppc[p] = "serial" => wi[p] = team[p] /\ numErrors[p] = 0
    /\ (ppc[p] \in {"waiting", "serial"} /\ numErrors[p] = 0) =>
         \A t \in Threads : t < wi[p] => cs[p][t] = "ok"

\* ReturnInv for one parent.
ReturnAt(p) ==
  /\ ppc[p] = "serial" => wi[p] = team[p] /\ numErrors[p] = 0
  /\ (ppc[p] \in {"waiting", "serial"} /\ numErrors[p] = 0) =>
       \A t \in Threads : t < wi[p] => cs[p][t] = "ok"

LEMMA InitReturnInv == Init => ReturnInv
BY DEF Init, ReturnInv, Threads

(* A step of parent q: only q's own await state changes.                   *)
LEMMA ParentReturnAt ==
  ASSUME IInv, ReturnInv, NEW q \in Parents, ParentStep(q), NEW p \in Parents
  PROVE  ReturnAt(p)'
<1>0. ReturnAt(p)
  BY DEF ReturnInv, ReturnAt
<1>1. CASE q # p
  <2>1. /\ ppc'[p] = ppc[p] /\ wi'[p] = wi[p] /\ team'[p] = team[p]
        /\ numErrors'[p] = numErrors[p] /\ cs'[p] = cs[p]
    BY <1>1 DEF ParentStep, SetDefaultDevice, DistFork, ForkAlreadyBound,
                AwaitResult, AwaitTimeout, ForkReturn, IInv, TypeOK
  <2>2. QED
    BY <1>0, <2>1 DEF ReturnAt
<1>2. CASE q = p /\ \E d \in DeviceArgs : SetDefaultDevice(p, d)
  BY <1>0, <1>2 DEF SetDefaultDevice, ReturnAt
<1>3. CASE q = p /\ DistFork(p)
  <2>1. ppc'[p] = "waiting" /\ wi'[p] = 0
    BY <1>3 DEF DistFork, IInv, TypeOK
  <2>2. QED
    BY <2>1 DEF ReturnAt, Threads
<1>4. CASE q = p /\ ForkAlreadyBound(p)
  BY <1>4 DEF ForkAlreadyBound, ReturnAt, IInv, TypeOK
<1>5. CASE q = p /\ AwaitResult(p)
  <2>1. /\ ppc'[p] = "waiting" /\ ppc[p] = "waiting"
        /\ wi[p] \in Threads /\ wi'[p] = wi[p] + 1 /\ cs' = cs
        /\ numErrors'[p] = numErrors[p] + (IF cs[p][wi[p]] = "failed" THEN 1 ELSE 0)
    BY <1>5 DEF AwaitResult, IInv, TypeOK, AwaitBounds, Threads
  <2>2. cs[p][wi[p]] \in {"ok", "failed"}
    BY <1>5 DEF AwaitResult, Finished
  <2>3. numErrors'[p] = 0 => numErrors[p] = 0 /\ cs[p][wi[p]] = "ok"
    BY <2>1, <2>2 DEF IInv, TypeOK
  <2>4. QED
    BY <1>0, <2>1, <2>3 DEF ReturnAt, Threads
<1>6. CASE q = p /\ AwaitTimeout(p)
  <2>1. ppc'[p] = "waiting" /\ numErrors'[p] = numErrors[p] + 1
    BY <1>6 DEF AwaitTimeout, IInv, TypeOK
  <2>2. numErrors'[p] # 0
    BY <2>1 DEF IInv, TypeOK
  <2>3. QED
    BY <2>1, <2>2 DEF ReturnAt
<1>7. CASE q = p /\ ForkReturn(p)
  <2>1. /\ wi[p] = team[p] /\ ppc[p] = "waiting"
        /\ UNCHANGED <<team, wi, numErrors, cs>>
    BY <1>7 DEF ForkReturn
  <2>2. ppc'[p] = "serial" => numErrors[p] = 0
    BY <1>7 DEF ForkReturn, IInv, TypeOK
  <2>3. QED
    BY <1>0, <2>1, <2>2 DEF ReturnAt
<1>8. QED
  BY <1>1, <1>2, <1>3, <1>4, <1>5, <1>6, <1>7 DEF ParentStep

(* A chained call leaves "queued" or "held", never "ok": an "ok" stays.     *)
LEMMA CalleeReturnAt ==
  ASSUME IInv, ReturnInv, NEW q \in Parents, NEW u \in Threads,
         CalleeStep(q, u) \/ CalleeLost(q, u), NEW p \in Parents
  PROVE  ReturnAt(p)'
<1>1. UNCHANGED <<ppc, team, wi, numErrors>>
  BY DEF CalleeStep, CalleeReduce, CalleeEndReduce, CalleeLost
<1>2. cs[q][u] \in {"queued", "held"} /\ \E x \in CStates : cs' = [cs EXCEPT ![q][u] = x]
  BY DEF CalleeStep, CalleeReduce, CalleeEndReduce, CalleeLost, CStates
<1>3. \A t \in Threads : cs[p][t] = "ok" => cs'[p][t] = "ok"
  BY <1>2 DEF IInv, TypeOK
<1>4. QED
  BY <1>1, <1>3 DEF ReturnInv, ReturnAt

LEMMA ReturnInvStep == IInv /\ ReturnInv /\ [Next]_vars => ReturnInv'
<1> SUFFICES ASSUME IInv, ReturnInv, [Next]_vars, NEW p \in Parents
             PROVE  ReturnAt(p)'
  BY DEF ReturnInv, ReturnAt
<1>1. CASE \E q \in Parents : ParentStep(q)
  BY <1>1, ParentReturnAt
<1>2. CASE \E q \in Parents, u \in Threads : CalleeStep(q, u) \/ CalleeLost(q, u)
  BY <1>2, CalleeReturnAt
<1>3. CASE AllEnded \/ UNCHANGED vars
  BY <1>3 DEF AllEnded, vars, ReturnInv, ReturnAt
<1>4. QED
  BY <1>1, <1>2, <1>3 DEF Next

(* Spec scenario S6 and the await loop of __kmpc_fork_call: a fork that   *)
(* returns to the guest had every chained call of its team finish with 0, *)
(* for any number of parents, processes, threads and forks, whatever the  *)
(* timeouts, late answers and lost calls.                                  *)
THEOREM ReturnMeansAllOkThm == Spec => []ReturnMeansAllOk
<1>1. Init => IInv /\ ReturnInv
  BY InitIInv, InitReturnInv
<1>2. IInv /\ ReturnInv /\ [Next]_vars => (IInv /\ ReturnInv)'
  BY IInvStep, ReturnInvStep
<1>3. IInv /\ ReturnInv => ReturnMeansAllOk
  <2> SUFFICES ASSUME IInv, ReturnInv, NEW p \in Parents, ppc[p] = "serial",
                      NEW t \in 0 .. team[p] - 1
               PROVE  cs[p][t] = "ok"
    BY DEF ReturnMeansAllOk
  <2>1. t \in Threads /\ t < wi[p] /\ numErrors[p] = 0
    BY DEF ReturnInv, IInv, TypeOK, Threads
  <2>2. QED
    BY <2>1 DEF ReturnInv
<1>4. QED
  BY <1>1, <1>2, <1>3, PTL DEF Spec

-----------------------------------------------------------------------------
(* The distributed reduction, with one parent call.  REDUCE_KEY is one     *)
(* redis key for every caller and userNumDevice one global per process,    *)
(* so a second parent forking or setting its device count meanwhile can   *)
(* change what a fork reads back; DistReductionCorrect is proved for a    *)
(* single parent call, over any processes, placements, losses, timeouts,  *)
(* team sizes and number of forks.                                         *)

\* The chained calls of p that returned 0.
OkSet(p) == {t \in Threads : cs[p][t] = "ok"}

\* No chained call is made for a thread outside the team.
OutsideNone == \A p \in Parents, t \in Threads : t >= team[p] => cs[p][t] = "none"

\* A parent running its guest has no chained call pending.
SerialQuiet ==
  \A p \in Parents, t \in Threads :
    ppc[p] = "serial" => cs[p][t] \in {"none", "ok"}

\* A call that took its level's reduce mutex runs where userNumDevice # 1.
HeldOnRemote ==
  \A p \in Parents, t \in Threads : cs[p][t] = "held" => dev[place[p][t]] # 1

\* While p awaits a fork with shared arguments, REDUCE_KEY holds the
\* partials of its chained calls that returned 0.
KeyCounts ==
  \A p \in Parents :
    ppc[p] = "waiting" /\ argc[p] # 0 => redis = Cardinality(Units(OkSet(p)))

\* As long as no error was counted, every call awaited so far returned 0.
NoErrorsAllOk ==
  \A p \in Parents :
    ppc[p] = "waiting" /\ numErrors[p] = 0 =>
      \A t \in 0 .. wi[p] - 1 : cs[p][t] = "ok"

DIInv ==
  /\ IInv
  /\ OutsideNone
  /\ SerialQuiet
  /\ HeldOnRemote
  /\ KeyCounts
  /\ NoErrorsAllOk
  /\ DistReductionCorrect

\* The conjuncts DIInv adds to IInv.
DExtra ==
  /\ OutsideNone
  /\ SerialQuiet
  /\ HeldOnRemote
  /\ KeyCounts
  /\ NoErrorsAllOk
  /\ DistReductionCorrect

\* Only one parent call forks.
AtMostOneParent == \A p, q \in Parents : p = q

(* One chained call leaves "queued" or "held" for v; only a call that adds *)
(* its partial to REDUCE_KEY changes the key.                              *)
LEMMA CalleeChangeD ==
  ASSUME AtMostOneParent, DIInv, IInv',
         NEW q \in Parents, NEW t \in Threads, NEW v \in CStates \ {"none"},
         cs[q][t] \in {"queued", "held"},
         cs' = [cs EXCEPT ![q][t] = v],
         v = "held" => dev[place[q][t]] # 1,
         (v = "ok" /\ argc[q] # 0) => redis' = redis + Partial(t),
         ~(v = "ok" /\ argc[q] # 0) => redis' = redis,
         UNCHANGED <<dev, snap, ppc, team, argc, wi, numErrors, sum, forks, place>>
  PROVE  DExtra'
<1> USE DEF DIInv, IInv
<1>1. \A r \in Parents : r = q
  BY DEF AtMostOneParent
<1>2. cs'[q][t] = v /\ \A s \in Threads : s # t => cs'[q][s] = cs[q][s]
  BY DEF TypeOK
<1>3. t < team[q] /\ ppc[q] # "serial"
  <2>1. team[q] \in Nat /\ t \in Nat
    BY DEF TypeOK, Threads
  <2>2. t < team[q]
    BY <2>1 DEF OutsideNone
  <2>3. ppc[q] # "serial"
    BY DEF SerialQuiet
  <2>4. QED
    BY <2>2, <2>3
<1>4. OutsideNone'
  BY <1>1, <1>2, <1>3 DEF OutsideNone, TypeOK, Threads
<1>5. SerialQuiet'
  BY <1>1, <1>3 DEF SerialQuiet
<1>6. HeldOnRemote'
  BY <1>1, <1>2 DEF HeldOnRemote
<1>7. KeyCounts'
  <2> SUFFICES ASSUME ppc[q] = "waiting", argc[q] # 0
               PROVE  redis' = Cardinality(Units(OkSet(q)'))
    BY <1>1 DEF KeyCounts
  <2>1. redis = Cardinality(Units(OkSet(q)))
    BY DEF KeyCounts
  <2>2. t \notin OkSet(q) /\ OkSet(q) \subseteq 0 .. MaxThreads - 1
        /\ t \in 0 .. MaxThreads - 1 /\ MaxThreads \in Nat
    BY DEF OkSet, Threads
  <2>3. CASE v = "ok"
    <3>1. OkSet(q)' = OkSet(q) \cup {t}
      BY <1>2, <2>3 DEF OkSet
    <3>2. Cardinality(Units(OkSet(q) \cup {t}))
            = Cardinality(Units(OkSet(q))) + (t + 1)
      BY <2>2, UnitsAdd
    <3>3. redis' = redis + (t + 1)
      BY <2>3 DEF Partial
    <3>4. QED
      BY <2>1, <3>1, <3>2, <3>3
  <2>4. CASE v # "ok"
    <3>1. OkSet(q)' = OkSet(q)
      BY <1>2, <2>4 DEF OkSet
    <3>2. QED
      BY <2>1, <2>4, <3>1
  <2>5. QED
    BY <2>3, <2>4
<1>8. NoErrorsAllOk'
  <2> SUFFICES ASSUME NEW r \in Parents, ppc[r] = "waiting", numErrors[r] = 0,
                      NEW s \in 0 .. wi[r] - 1
               PROVE  cs'[r][s] = "ok"
    BY DEF NoErrorsAllOk
  <2>1. r = q /\ cs[q][s] = "ok"
    BY <1>1 DEF NoErrorsAllOk
  <2>2. s # t /\ s \in Threads
    BY <2>1 DEF TypeOK, AwaitBounds, Threads
  <2>3. QED
    BY <1>2, <2>1, <2>2
<1>9. DistReductionCorrect'
  BY DEF DistReductionCorrect
<1>10. QED
  BY <1>4, <1>5, <1>6, <1>7, <1>8, <1>9 DEF DExtra

LEMMA CalleeStepD ==
  ASSUME AtMostOneParent, DIInv, IInv', NEW q \in Parents, NEW t \in Threads,
         CalleeStep(q, t) \/ CalleeLost(q, t)
  PROVE  DExtra'
<1>1. CASE CalleeReduce(q, t) /\ argc[q] = 0
  BY <1>1, CalleeChangeD DEF CalleeReduce, CStates
<1>2. CASE CalleeReduce(q, t) /\ argc[q] # 0 /\ dev[place[q][t]] = 1
  BY <1>2, CalleeChangeD DEF CalleeReduce, CStates
<1>3. CASE CalleeReduce(q, t) /\ argc[q] # 0 /\ dev[place[q][t]] # 1
  BY <1>3, CalleeChangeD DEF CalleeReduce, CStates
<1>4. CASE CalleeEndReduce(q, t)
  <2>1. dev[place[q][t]] # 1
    BY <1>4 DEF CalleeEndReduce, DIInv, HeldOnRemote
  <2>2. cs' = [cs EXCEPT ![q][t] = "failed"]
    BY <1>4, <2>1 DEF CalleeEndReduce
  <2>3. /\ cs[q][t] \in {"queued", "held"}
        /\ UNCHANGED <<redis, dev, snap, ppc, team, argc, wi, numErrors, sum,
                       forks, place>>
    BY <1>4 DEF CalleeEndReduce
  <2>4. "failed" \in CStates \ {"none"}
    BY DEF CStates
  <2>5. QED
    BY <2>2, <2>3, <2>4, CalleeChangeD
<1>5. CASE CalleeLost(q, t)
  BY <1>5, CalleeChangeD DEF CalleeLost, CStates
<1>6. QED
  BY <1>1, <1>2, <1>3, <1>4, <1>5 DEF CalleeStep

(* omp_set_default_device runs only while the parent runs its guest, when *)
(* none of its chained calls holds a reduce mutex.                         *)
LEMMA SetDefaultDeviceD ==
  ASSUME AtMostOneParent, DIInv, NEW p \in Parents, NEW d \in DeviceArgs,
         SetDefaultDevice(p, d)
  PROVE  DExtra'
<1> USE DEF DIInv
<1>1. \A r \in Parents, t \in Threads : cs[r][t] # "held"
  BY DEF SetDefaultDevice, AtMostOneParent, SerialQuiet
<1>2. HeldOnRemote'
  BY <1>1 DEF SetDefaultDevice, HeldOnRemote
<1>3. QED
  BY <1>2 DEF SetDefaultDevice, DExtra, OutsideNone, SerialQuiet, KeyCounts,
              OkSet, NoErrorsAllOk, DistReductionCorrect

(* A fork zeroes REDUCE_KEY and queues its team's calls: none has returned *)
(* and none has been awaited.                                              *)
LEMMA DistForkD ==
  ASSUME AtMostOneParent, DIInv, IInv', NEW p \in Parents, DistFork(p)
  PROVE  DExtra'
<1> USE DEF DIInv, IInv
<1>1. \A r \in Parents : r = p
  BY DEF AtMostOneParent
<1>2. PICK n \in 1 .. MaxThreads :
        /\ team' = [team EXCEPT ![p] = n]
        /\ cs' = [cs EXCEPT ![p] = [t \in Threads |->
                                       IF t < n THEN "queued" ELSE "none"]]
  BY DEF DistFork
<1>3. team'[p] = n /\ \A t \in Threads : cs'[p][t] = IF t < n THEN "queued" ELSE "none"
  BY <1>2 DEF TypeOK
<1>4. ppc'[p] = "waiting" /\ wi'[p] = 0 /\ redis' = 0
  BY DEF DistFork, TypeOK
<1>5. OutsideNone' /\ SerialQuiet' /\ HeldOnRemote'
  BY <1>1, <1>3, <1>4 DEF OutsideNone, SerialQuiet, HeldOnRemote, Threads
<1>6. KeyCounts'
  <2>1. OkSet(p)' = {}
    BY <1>3 DEF OkSet
  <2>2. QED
    BY <1>1, <1>4, <2>1, UnitsEmpty DEF KeyCounts
<1>7. NoErrorsAllOk' /\ DistReductionCorrect'
  BY <1>1, <1>4 DEF NoErrorsAllOk, DistReductionCorrect
<1>8. QED
  BY <1>5, <1>6, <1>7 DEF DExtra

(* "OMP already bound": the parent traps.                                  *)
LEMMA ForkAlreadyBoundD ==
  ASSUME AtMostOneParent, DIInv, NEW p \in Parents, ForkAlreadyBound(p)
  PROVE  DExtra'
<1> USE DEF DIInv
<1>1. \A r \in Parents : r = p
  BY DEF AtMostOneParent
<1>2. ppc'[p] = "trapped"
  BY DEF ForkAlreadyBound, IInv, TypeOK
<1>3. QED
  BY <1>1, <1>2 DEF ForkAlreadyBound, DExtra, OutsideNone, SerialQuiet,
                    HeldOnRemote, KeyCounts, NoErrorsAllOk, DistReductionCorrect

(* Awaiting a call that finished: an error is counted unless it returned 0. *)
LEMMA AwaitResultD ==
  ASSUME DIInv, NEW p \in Parents, AwaitResult(p)
  PROVE  DExtra'
<1> USE DEF DIInv, IInv
<1>1. /\ numErrors'[p] = numErrors[p] + (IF cs[p][wi[p]] = "failed" THEN 1 ELSE 0)
      /\ wi'[p] = wi[p] + 1
      /\ \A r \in Parents : r # p => numErrors'[r] = numErrors[r] /\ wi'[r] = wi[r]
  BY DEF AwaitResult, TypeOK
<1>2. NoErrorsAllOk'
  <2> SUFFICES ASSUME NEW r \in Parents, ppc'[r] = "waiting", numErrors'[r] = 0,
                      NEW s \in 0 .. wi'[r] - 1
               PROVE  cs'[r][s] = "ok"
    BY DEF NoErrorsAllOk
  <2>1. CASE r = p
    <3>1. numErrors[p] = 0 /\ cs[p][wi[p]] # "failed"
      BY <1>1, <2>1 DEF TypeOK
    <3>2. cs[p][wi[p]] = "ok"
      BY <3>1 DEF AwaitResult, Finished
    <3>3. \A u \in 0 .. wi[p] - 1 : cs[p][u] = "ok"
      BY <3>1 DEF AwaitResult, NoErrorsAllOk
    <3>4. s \in 0 .. wi[p] - 1 \/ s = wi[p]
      <4>1. wi[p] \in Nat /\ s \in 0 .. wi'[p] - 1 /\ wi'[p] = wi[p] + 1
        BY <1>1, <2>1 DEF TypeOK
      <4>2. QED
        BY ONLY <4>1
    <3>5. QED
      BY <2>1, <3>2, <3>3, <3>4 DEF AwaitResult
  <2>2. CASE r # p
    BY <1>1, <2>2 DEF AwaitResult, NoErrorsAllOk
  <2>3. QED
    BY <2>1, <2>2
<1>3. QED
  BY <1>2 DEF AwaitResult, DExtra, OutsideNone, SerialQuiet, HeldOnRemote,
              KeyCounts, OkSet, DistReductionCorrect

(* A timeout counts an error.                                              *)
LEMMA AwaitTimeoutD ==
  ASSUME DIInv, NEW p \in Parents, AwaitTimeout(p)
  PROVE  DExtra'
<1> USE DEF DIInv, IInv
<1>1. /\ numErrors'[p] = numErrors[p] + 1
      /\ \A r \in Parents : r # p => numErrors'[r] = numErrors[r] /\ wi'[r] = wi[r]
  BY DEF AwaitTimeout, TypeOK
<1>2. NoErrorsAllOk'
  <2> SUFFICES ASSUME NEW r \in Parents, ppc'[r] = "waiting", numErrors'[r] = 0,
                      NEW s \in 0 .. wi'[r] - 1
               PROVE  cs'[r][s] = "ok"
    BY DEF NoErrorsAllOk
  <2>1. r # p
    BY <1>1 DEF TypeOK
  <2>2. QED
    BY <1>1, <2>1 DEF AwaitTimeout, NoErrorsAllOk
<1>3. QED
  BY <1>2 DEF AwaitTimeout, DExtra, OutsideNone, SerialQuiet, HeldOnRemote,
              KeyCounts, OkSet, DistReductionCorrect

(* The join of a distributed fork.  Without errors every call of the team *)
(* returned 0, so REDUCE_KEY holds the partials of the whole team, and      *)
(* that is what is written through reducePtr.                              *)
LEMMA ForkReturnD ==
  ASSUME DIInv, NEW p \in Parents, ForkReturn(p)
  PROVE  DExtra'
<1> USE DEF DIInv, IInv
<1>1. UNCHANGED <<dev, redis, team, argc, wi, numErrors, cs, place>>
      /\ wi[p] = team[p] /\ ppc[p] = "waiting"
  BY DEF ForkReturn
<1>2. /\ ppc'[p] \in {"trapped", "crashed", "serial"}
      /\ \A r \in Parents : r # p => ppc'[r] = ppc[r] /\ sum'[r] = sum[r]
  BY DEF ForkReturn, TypeOK
<1>3. OutsideNone' /\ HeldOnRemote' /\ KeyCounts' /\ NoErrorsAllOk'
  BY <1>1, <1>2 DEF OutsideNone, HeldOnRemote, KeyCounts, OkSet, NoErrorsAllOk
<1>4. CASE ppc'[p] = "serial"
  <2>1. numErrors[p] = 0 /\ argc[p] # 0 /\ sum'[p] = redis
    BY <1>4 DEF ForkReturn, TypeOK
  <2>2. \A t \in Threads : t < team[p] => cs[p][t] = "ok"
    <3>1. \A t \in 0 .. wi[p] - 1 : cs[p][t] = "ok"
      BY <1>1, <2>1 DEF NoErrorsAllOk
    <3>2. team[p] \in 0 .. MaxThreads
      BY DEF TypeOK
    <3>3. QED
      BY <1>1, <3>1, <3>2 DEF Threads
  <2>3. \A t \in Threads : t >= team[p] => cs[p][t] = "none"
    BY DEF OutsideNone
  <2>4. OkSet(p) = 0 .. team[p] - 1
    <3>1. team[p] \in 0 .. MaxThreads
      BY DEF TypeOK
    <3>2. QED
      BY <2>2, <2>3, <3>1 DEF OkSet, Threads
  <2>5. redis = Cardinality(Units(0 .. team[p] - 1))
    BY <1>1, <2>1, <2>4 DEF KeyCounts
  <2>6. Cardinality(Units(0 .. team[p] - 1)) = ReductionTotal(team[p])
    BY UnitsOfTeam DEF TypeOK, ReductionTotal
  <2>7. SerialQuiet'
    BY <1>1, <1>2, <2>2, <2>3 DEF SerialQuiet, TypeOK, Threads
  <2>8. DistReductionCorrect'
    BY <1>1, <1>2, <2>1, <2>5, <2>6 DEF DistReductionCorrect
  <2>9. QED
    BY <1>3, <2>7, <2>8 DEF DExtra
<1>5. CASE ppc'[p] # "serial"
  <2>1. SerialQuiet' /\ DistReductionCorrect'
    BY <1>1, <1>2, <1>5 DEF SerialQuiet, DistReductionCorrect
  <2>2. QED
    BY <1>3, <2>1 DEF DExtra
<1>6. QED
  BY <1>4, <1>5

(* With one parent call, every step keeps DIInv.                           *)
LEMMA DIInvStep ==
  ASSUME AtMostOneParent, DIInv, [Next]_vars PROVE DIInv'
<1>1. IInv'
  BY IInvStep DEF DIInv
<1> SUFFICES DExtra'
  BY <1>1 DEF DIInv, DExtra
<1>2. ASSUME NEW p \in Parents, ParentStep(p) PROVE DExtra'
  BY <1>1, <1>2, SetDefaultDeviceD, DistForkD, ForkAlreadyBoundD,
     AwaitResultD, AwaitTimeoutD, ForkReturnD DEF ParentStep
<1>3. ASSUME NEW q \in Parents, NEW t \in Threads,
             CalleeStep(q, t) \/ CalleeLost(q, t)
      PROVE  DExtra'
  BY <1>1, <1>3, CalleeStepD
<1>4. CASE AllEnded \/ UNCHANGED vars
  BY <1>4 DEF AllEnded, vars, DIInv, DExtra, OutsideNone, SerialQuiet,
              HeldOnRemote, KeyCounts, OkSet, NoErrorsAllOk, DistReductionCorrect
<1>5. QED
  BY <1>2, <1>3, <1>4 DEF Next

LEMMA InitDIInv == Init => DIInv
<1> SUFFICES ASSUME Init PROVE DIInv
  OBVIOUS
<1>1. ReductionTotal(0) = 0
  BY DEF ReductionTotal
<1>2. QED
  BY <1>1, InitIInv DEF Init, DIInv, OutsideNone, SerialQuiet, HeldOnRemote,
     KeyCounts, NoErrorsAllOk, DistReductionCorrect, Threads

(* Spec 4.F step 6 for a parent call that is the only one forking: every  *)
(* time a distributed __kmpc_fork_call returns to the guest, the reduction *)
(* destination holds 1 + 2 + ... + team, the partials of exactly its own   *)
(* chained calls, whatever the processes the calls land on, the calls lost *)
(* or timed out, the team sizes and the number of forks.  With two parent  *)
(* calls forking at once TLC finds this violated: they share REDUCE_KEY.   *)
THEOREM DistReductionCorrectThm ==
  ASSUME AtMostOneParent PROVE Spec => []DistReductionCorrect
<1>1. Init => DIInv
  BY InitDIInv
<1>2. DIInv /\ [Next]_vars => DIInv'
  BY DIInvStep
<1>3. DIInv => DistReductionCorrect
  BY DEF DIInv
<1>4. QED
  BY <1>1, <1>2, <1>3, PTL DEF Spec

=============================================================================

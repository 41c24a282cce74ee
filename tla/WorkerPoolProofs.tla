--------------------------- MODULE WorkerPoolProofs ---------------------------
(***************************************************************************)
(* Proofs about WorkerPool: type correctness, and that shutdown() returns *)
(* only after every thread it started has ended when the MPI listener was *)
(* not started (NothingOutlivesShutdown), for any number of tokens.       *)
(***************************************************************************)
EXTENDS WorkerPool, TLAPS

\* How far shutdown() has got: 0 before it, k while it joins JoinOrder[k],
\* 5 once it has returned.
Rank(x) == CASE x = "running" -> 0
             [] x = "global"  -> 1
             [] x = "state"   -> 2
             [] x = "sharing" -> 3
             [] x = "pool"    -> 4
             [] x = "down"    -> 5

(* Every thread shutdown() has already joined has ended and stays ended.  *)
JoinedDone ==
  /\ Rank(main) > 1 => Finished("global")
  /\ Rank(main) > 2 => Finished("state")
  /\ Rank(main) > 3 => Finished("sharing")
  /\ Rank(main) > 4 => Finished("pool")

(* The pool thread ends only after it has joined every worker, and then   *)
(* spawns none.                                                            *)
PoolDoneEmpty == pool = "done" => live = {}

(* Between getThreadToken and the double check the pool thread holds a   *)
(* token.                                                                  *)
HeldAtCheck == pool = "check" => held \in Tokens

IInv == TypeOK /\ JoinedDone /\ PoolDoneEmpty /\ HeldAtCheck

LEMMA JoinOrderFacts ==
  /\ Len(JoinOrder) = 4
  /\ JoinOrder[1] = "global" /\ JoinOrder[2] = "state"
  /\ JoinOrder[3] = "sharing" /\ JoinOrder[4] = "pool"
BY DEF JoinOrder

-----------------------------------------------------------------------------
(* Each step preserves IInv.                                               *)

LEMMA InitIInv == Init => IInv
<1> SUFFICES ASSUME Init PROVE IInv
  OBVIOUS
<1>1. TypeOK
  <2>1. main \in {"running", "down"}
    BY DEF Init
  <2>2. QED
    BY <2>1 DEF Init, TypeOK
<1>2. Rank(main) = 0
  BY DEF Init, Rank
<1>3. JoinedDone
  BY <1>2 DEF JoinedDone
<1>4. QED
  BY <1>1, <1>3 DEF Init, IInv, PoolDoneEmpty, HeldAtCheck

(* A thread that has ended stays ended under every step but shutdown()'s. *)
LEMMA FinishedStable ==
  ASSUME TypeOK, NEW th,
         listener' = listener \/ \E l \in Listeners :
                                   listener' = [listener EXCEPT ![l] = "exited"],
         pool = "done" => pool' = "done",
         Finished(th)
  PROVE  Finished(th)'
BY DEF Finished, TypeOK

(* The pool thread's steps.                                                *)
LEMMA PoolIInv ==
  ASSUME IInv, PoolLoop \/ PoolGetToken \/ PoolSpawn \/ PoolJoin
  PROVE  IInv'
<1>1. TypeOK'
  <2>1. CASE PoolLoop
    BY <2>1 DEF PoolLoop, IInv, TypeOK
  <2>2. CASE PoolGetToken
    BY <2>2 DEF PoolGetToken, IInv, TypeOK, Tokens
  <2>3. CASE PoolSpawn
    BY <2>3 DEF PoolSpawn, IInv, TypeOK, HeldAtCheck, Tokens
  <2>4. CASE PoolJoin
    BY <2>4 DEF PoolJoin, IInv, TypeOK
  <2>5. QED
    BY <2>1, <2>2, <2>3, <2>4
<1>2. listener' = listener /\ main' = main /\ (pool = "done" => pool' = "done")
  BY DEF PoolLoop, PoolGetToken, PoolSpawn, PoolJoin
<1>3. JoinedDone'
  BY <1>2, FinishedStable DEF IInv, JoinedDone
<1>4. PoolDoneEmpty'
  BY DEF PoolLoop, PoolGetToken, PoolSpawn, PoolJoin, IInv, PoolDoneEmpty
<1>5. HeldAtCheck'
  BY DEF PoolLoop, PoolGetToken, PoolSpawn, PoolJoin, HeldAtCheck, Tokens
<1>6. QED
  BY <1>1, <1>3, <1>4, <1>5 DEF IInv

(* A worker's steps leave every thread but itself alone.                   *)
LEMMA WorkerIInv ==
  ASSUME IInv, NEW i \in Tokens, WorkerRelease(i) \/ WorkerExit(i)
  PROVE  IInv'
<1>1. TypeOK'
  BY DEF WorkerRelease, WorkerExit, IInv, TypeOK
<1>2. listener' = listener /\ main' = main /\ pool' = pool
  BY DEF WorkerRelease, WorkerExit
<1>3. JoinedDone'
  BY <1>2, FinishedStable DEF IInv, JoinedDone
<1>4. PoolDoneEmpty'
  <2>1. pool = "done" => live = {}
    BY DEF IInv, PoolDoneEmpty
  <2>2. live # {}
    BY DEF WorkerRelease, WorkerExit
  <2>3. QED
    BY <1>2, <2>1, <2>2 DEF PoolDoneEmpty
<1>5. HeldAtCheck'
  BY <1>2 DEF WorkerRelease, WorkerExit, IInv, HeldAtCheck
<1>6. QED
  BY <1>1, <1>3, <1>4, <1>5 DEF IInv

(* A listener's exit.                                                      *)
LEMMA ListenerIInv ==
  ASSUME IInv, NEW l \in Listeners, ListenerExit(l)
  PROVE  IInv'
<1>1. TypeOK'
  BY DEF ListenerExit, IInv, TypeOK
<1>2. main' = main /\ pool' = pool /\ live' = live
  BY DEF ListenerExit
<1>3. JoinedDone'
  BY <1>2, FinishedStable DEF ListenerExit, IInv, JoinedDone
<1>4. PoolDoneEmpty'
  BY <1>2 DEF IInv, PoolDoneEmpty
<1>5. HeldAtCheck'
  BY <1>2 DEF ListenerExit, IInv, HeldAtCheck
<1>6. QED
  BY <1>1, <1>3, <1>4, <1>5 DEF IInv

(* The call of shutdown().                                                 *)
LEMMA ShutdownIInv ==
  ASSUME IInv, Shutdown
  PROVE  IInv'
<1>1. main' = "global" /\ pool' = pool /\ live' = live
  BY JoinOrderFacts DEF Shutdown
<1>2. TypeOK'
  BY <1>1, JoinOrderFacts DEF Shutdown, IInv, TypeOK
<1>3. JoinedDone'
  BY <1>1 DEF JoinedDone, Rank
<1>4. PoolDoneEmpty'
  BY <1>1 DEF IInv, PoolDoneEmpty
<1>5. HeldAtCheck'
  BY <1>1 DEF Shutdown, IInv, HeldAtCheck
<1>6. QED
  BY <1>2, <1>3, <1>4, <1>5 DEF IInv

(* A join returns only when its thread has ended.                          *)
LEMMA JoinIInv ==
  ASSUME IInv, NEW k \in 1 .. Len(JoinOrder), Join(k)
  PROVE  IInv'
<1>1. k \in 1 .. 4
  BY JoinOrderFacts
<1>2. UNCHANGED <<listener, pool, live>>
  BY DEF Join
<1>3. TypeOK'
  BY <1>1, JoinOrderFacts DEF Join, IInv, TypeOK
<1>4. \A th : Finished(th) => Finished(th)'
  BY <1>2 DEF Finished
<1>5. JoinedDone'
  <2>1. CASE k = 1
    <3>1. main = "global" /\ main' = "state" /\ Finished("global")
      BY <2>1, JoinOrderFacts DEF Join
    <3>2. QED
      BY <3>1, <1>4 DEF JoinedDone, Rank
  <2>2. CASE k = 2
    <3>1. main = "state" /\ main' = "sharing" /\ Finished("state")
      BY <2>2, JoinOrderFacts DEF Join
    <3>2. Finished("global")
      BY <3>1 DEF IInv, JoinedDone, Rank
    <3>3. QED
      BY <3>1, <3>2, <1>4 DEF JoinedDone, Rank
  <2>3. CASE k = 3
    <3>1. main = "sharing" /\ main' = "pool" /\ Finished("sharing")
      BY <2>3, JoinOrderFacts DEF Join
    <3>2. Finished("global") /\ Finished("state")
      BY <3>1 DEF IInv, JoinedDone, Rank
    <3>3. QED
      BY <3>1, <3>2, <1>4 DEF JoinedDone, Rank
  <2>4. CASE k = 4
    <3>1. main = "pool" /\ main' = "down" /\ Finished("pool")
      BY <2>4, JoinOrderFacts DEF Join
    <3>2. Finished("global") /\ Finished("state") /\ Finished("sharing")
      BY <3>1 DEF IInv, JoinedDone, Rank
    <3>3. QED
      BY <3>1, <3>2, <1>4 DEF JoinedDone, Rank
  <2>5. QED
    BY <1>1, <2>1, <2>2, <2>3, <2>4
<1>6. PoolDoneEmpty'
  BY <1>2 DEF IInv, PoolDoneEmpty
<1>7. HeldAtCheck'
  BY <1>2 DEF Join, IInv, HeldAtCheck
<1>8. QED
  BY <1>3, <1>5, <1>6, <1>7 DEF IInv

LEMMA IInvStep == IInv /\ [Next]_vars => IInv'
<1> SUFFICES ASSUME IInv, [Next]_vars PROVE IInv'
  OBVIOUS
<1>1. CASE PoolLoop \/ PoolGetToken \/ PoolSpawn \/ PoolJoin
  BY <1>1, PoolIInv
<1>2. CASE \E i \in Tokens : WorkerRelease(i) \/ WorkerExit(i)
  BY <1>2, WorkerIInv
<1>3. CASE \E l \in Listeners : ListenerExit(l)
  BY <1>3, ListenerIInv
<1>4. CASE Shutdown
  BY <1>4, ShutdownIInv
<1>5. CASE \E k \in 1 .. Len(JoinOrder) : Join(k)
  BY <1>5, JoinIInv
<1>6. CASE UNCHANGED vars
  BY <1>6 DEF vars, IInv, TypeOK, JoinedDone, PoolDoneEmpty, HeldAtCheck,
         Finished, Rank
<1>7. QED
  BY <1>1, <1>2, <1>3, <1>4, <1>5, <1>6 DEF Next

-----------------------------------------------------------------------------
(* The states of the pool stay well typed, for any number of tokens and   *)
(* any set of listener threads started.                                    *)
THEOREM PoolTypeCorrect == Spec => []TypeOK
<1>1. IInv => TypeOK
  BY DEF IInv
<1>2. QED
  BY <1>1, InitIInv, IInvStep, PTL DEF Spec

(* On a node that did not start the MPI listener, shutdown() returns only *)
(* after the global queue, sharing and state listeners, the pool thread   *)
(* and every worker thread have ended, for any number of tokens and       *)
(* however the pool thread's token loop races the flag.                   *)
THEOREM NothingOutlivesShutdownThm ==
  ASSUME "mpi" \notin Listeners
  PROVE  Spec => []NothingOutlivesShutdown
<1>1. IInv => NothingOutlivesShutdown
  <2> SUFFICES ASSUME IInv, main = "down"
               PROVE  NothingOutlivesShutdown
    BY DEF NothingOutlivesShutdown
  <2>1. Finished("global") /\ Finished("state") /\ Finished("sharing")
        /\ Finished("pool")
    BY DEF IInv, JoinedDone, Rank
  <2>2. \A l \in Listeners : l \in {"global", "state", "sharing"}
    BY ListenersAssumption
  <2>3. \A l \in Listeners : listener[l] = "exited"
    BY <2>1, <2>2 DEF Finished
  <2>4. pool = "done" /\ live = {}
    BY <2>1 DEF Finished, IInv, PoolDoneEmpty
  <2>5. QED
    BY <2>3, <2>4 DEF NothingOutlivesShutdown
<1>2. QED
  BY <1>1, InitIInv, IInvStep, PTL DEF Spec

=============================================================================

------------------------------ MODULE WorkerPool ------------------------------
(***************************************************************************)
(* The worker thread pool of src/src/worker/WorkerThreadPool.cpp.  A pool *)
(* thread takes a token from a pool of NThreads tokens (blocking while    *)
(* none is free), re-checks _shutdown and spawns a worker thread that     *)
(* runs and then gives its token back.  Listener threads (global queue,   *)
(* work sharing, MPI, in-memory state server) loop until _shutdown; the   *)
(* global queue listener also leaves when no message comes in time.       *)
(* shutdown() sets _shutdown and joins the global queue, state, sharing   *)
(* and pool threads in that order; the pool thread joins its workers.     *)
(***************************************************************************)
EXTENDS Naturals, Sequences

CONSTANTS
  NThreads,   \* size of threadTokenPool
  Listeners,  \* listener threads started: subset of {"global", "sharing", "mpi", "state"}
  None        \* model value: no token held

ASSUME NThreadsAssumption  == NThreads \in Nat \ {0}
ASSUME ListenersAssumption == Listeners \subseteq {"global", "sharing", "mpi", "state"}
ASSUME NoneTokenAssumption == None \notin Nat

Tokens == 0 .. NThreads - 1

VARIABLES
  shut,      \* _shutdown
  taken,     \* tokens of threadTokenPool that are taken
  pool,      \* pool thread: "loop", "get", "check", "joining" or "done"
  held,      \* the token the pool thread got, or None
  live,      \* worker threads alive: <<token, "running" or "exiting">>
  listener,  \* listener[l]: "run" or "exited"
  main       \* the thread in shutdown(): "running", the thread it joins, or "down"

vars == <<shut, taken, pool, held, live, listener, main>>

\* The threads shutdown() joins, in order.
JoinOrder == <<"global", "state", "sharing", "pool">>

\* A thread shutdown() joins is done, or was never started (not joinable).
Finished(th) ==
  IF th = "pool" THEN pool = "done"
  ELSE th \notin Listeners \/ listener[th] = "exited"

Init ==
  /\ shut = FALSE
  /\ taken = {}
  /\ pool = "loop"
  /\ held = None
  /\ live = {}
  /\ listener = [l \in Listeners |-> "run"]
  /\ main = "running"

-----------------------------------------------------------------------------
(* Pool thread (startThreadPool).                                          *)

(* while (!isShutdown()): leave the loop for the joins, or ask a token.   *)
PoolLoop ==
  /\ pool = "loop"
  /\ pool' = IF shut THEN "joining" ELSE "get"
  /\ UNCHANGED <<shut, taken, held, live, listener, main>>

(* getThreadToken: blocks until a token is free, then takes it.            *)
PoolGetToken ==
  /\ pool = "get"
  /\ \E i \in Tokens \ taken :
       /\ taken' = taken \cup {i}
       /\ held' = i
  /\ pool' = "check"
  /\ UNCHANGED <<shut, live, listener, main>>

(* Double check of shutdown: break (the token stays taken), or spawn a     *)
(* worker thread with the token.                                           *)
PoolSpawn ==
  /\ pool = "check"
  /\ \/ /\ shut
        /\ pool' = "joining"
        /\ UNCHANGED live
     \/ /\ ~shut
        /\ live' = live \cup {<<held, "running">>}
        /\ pool' = "loop"
  /\ held' = None
  /\ UNCHANGED <<shut, taken, listener, main>>

(* Join every worker thread spawned, then end.                            *)
PoolJoin ==
  /\ pool = "joining"
  /\ live = {}
  /\ pool' = "done"
  /\ UNCHANGED <<shut, taken, held, live, listener, main>>

-----------------------------------------------------------------------------
(* Worker threads: WorkerThread::run returns, the token is released, then *)
(* the thread's WorkerThread is destroyed and the thread ends.             *)

\* Variant: the token is not released when the worker ends.
WorkerNoRelease(i) ==
  /\ <<i, "running">> \in live
  /\ live' = (live \ {<<i, "running">>}) \cup {<<i, "exiting">>}
  /\ UNCHANGED <<shut, taken, pool, held, listener, main>>

WorkerRelease(i) ==
  /\ <<i, "running">> \in live
  /\ taken' = taken \ {i}
  /\ live' = (live \ {<<i, "running">>}) \cup {<<i, "exiting">>}
  /\ UNCHANGED <<shut, pool, held, listener, main>>

WorkerExit(i) ==
  /\ <<i, "exiting">> \in live
  /\ live' = live \ {<<i, "exiting">>}
  /\ UNCHANGED <<shut, taken, pool, held, listener, main>>

-----------------------------------------------------------------------------
(* Listener threads: an iteration of while (!isShutdown()) that sees the   *)
(* flag ends the thread; the global queue listener also returns when      *)
(* nextMessage times out.  Iterations that handle a message change        *)
(* nothing here.                                                           *)
ListenerExit(l) ==
  /\ listener[l] = "run"
  /\ shut \/ l = "global"
  /\ listener' = [listener EXCEPT ![l] = "exited"]
  /\ UNCHANGED <<shut, taken, pool, held, live, main>>

-----------------------------------------------------------------------------
(* shutdown(): set the flag, then join the threads in JoinOrder.           *)
Shutdown ==
  /\ main = "running"
  /\ shut' = TRUE
  /\ main' = JoinOrder[1]
  /\ UNCHANGED <<taken, pool, held, live, listener>>

\* Variant: the sharing thread is not joined.
JoinNoSharing(k) ==
  /\ main = JoinOrder[k]
  /\ JoinOrder[k] = "sharing" \/ Finished(JoinOrder[k])
  /\ main' = IF k < Len(JoinOrder) THEN JoinOrder[k + 1] ELSE "down"
  /\ UNCHANGED <<shut, taken, pool, held, live, listener>>

Join(k) ==
  /\ main = JoinOrder[k]
  /\ Finished(JoinOrder[k])
  /\ main' = IF k < Len(JoinOrder) THEN JoinOrder[k + 1] ELSE "down"
  /\ UNCHANGED <<shut, taken, pool, held, live, listener>>

Next ==
  \/ PoolLoop \/ PoolGetToken \/ PoolSpawn \/ PoolJoin
  \/ \E i \in Tokens : WorkerRelease(i) \/ WorkerExit(i)
  \/ \E l \in Listeners : ListenerExit(l)
  \/ Shutdown
  \/ \E k \in 1 .. Len(JoinOrder) : Join(k)

(* Every thread but the one that calls shutdown() keeps running: blocking  *)
(* receives time out, a worker's run returns, a free token wakes the pool *)
(* thread, a finished thread wakes its joiner.  Whether shutdown() is      *)
(* ever called is left open.                                               *)
Fairness ==
  /\ WF_vars(PoolLoop) /\ WF_vars(PoolGetToken) /\ WF_vars(PoolSpawn)
  /\ WF_vars(PoolJoin)
  /\ \A i \in Tokens : WF_vars(WorkerRelease(i)) /\ WF_vars(WorkerExit(i))
  /\ \A l \in Listeners : WF_vars(ListenerExit(l))
  /\ \A k \in 1 .. Len(JoinOrder) : WF_vars(Join(k))

Spec == Init /\ [][Next]_vars /\ Fairness

-----------------------------------------------------------------------------
(* Properties.                                                             *)

TypeOK ==
  /\ shut \in BOOLEAN
  /\ taken \subseteq Tokens
  /\ pool \in {"loop", "get", "check", "joining", "done"}
  /\ held \in Tokens \cup {None}
  /\ live \subseteq Tokens \X {"running", "exiting"}
  /\ listener \in [Listeners -> {"run", "exited"}]
  /\ main \in {"running", "down"} \cup {JoinOrder[k] : k \in 1 .. Len(JoinOrder)}

(* shutdown() returns only when every thread the pool started has ended:  *)
(* the listeners, the pool thread and every worker thread, so none of     *)
(* them touches the pool after it is gone.                                 *)
NothingOutlivesShutdown ==
  main = "down" =>
    /\ \A l \in Listeners : listener[l] = "exited"
    /\ pool = "done"
    /\ live = {}

(* Once shutdown() is called it returns, whatever the pool thread was     *)
(* doing: blocked for a token, or about to spawn a worker.                *)
ShutdownCompletes == (main # "running") ~> (main = "down")

=============================================================================

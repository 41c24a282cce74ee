---------------------------- MODULE MCWorkerPool ----------------------------
(* Constants of WorkerPool for TLC.                                        *)
EXTENDS WorkerPool

\* A worker node with the in-memory state server and no MPI listener.
MCListeners == {"global", "sharing", "state"}

\* An MPI worker node: the MPI listener is started as well.
MCMpiListeners == {"global", "sharing", "mpi", "state"}
=============================================================================

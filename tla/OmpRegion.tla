----------------------------- MODULE OmpRegion -----------------------------
(***************************************************************************)
(* What __kmpc_fork_call of src/src/wavm/openmp.cpp promises the guest's   *)
(* master thread, in local mode: a parallel region is one step.  Its size *)
(* is the num_threads clause pushed for it, else the omp_set_num_threads  *)
(* setting, else 1, and the clause is used up.  The region then returns   *)
(* with `count` raised by one per member and `sum` by the team's `+`      *)
(* reduction, or it throws into the guest.  OmpLocalFork implements this  *)
(* specification (its RegionRefinement).                                   *)
(***************************************************************************)
EXTENDS Integers

CONSTANTS
  MaxThreads,   \* largest team size the guest asks for
  MaxForks      \* number of parallel regions the master runs

VARIABLES
  wanted,   \* the omp_set_num_threads setting, or -1
  pushed,   \* the num_threads clause pending for the next region, or -1
  master,   \* "serial", "forked" (inside a region) or "trapped"
  forks,    \* regions started so far
  team,     \* size of the region in progress (0: none)
  count,    \* guest word `count`, raised once by every member
  sum       \* guest word `sum`, the reduction destination

avars == <<wanted, pushed, master, forks, team, count, sum>>

\* What a team of n members adds to `sum`: the partials 1 .. n.
RegionTotal(n) == (n * (n + 1)) \div 2

\* The size of the next region.
RegionSize == IF pushed > 0 THEN pushed ELSE IF wanted > 0 THEN wanted ELSE 1

Init ==
  /\ wanted = -1
  /\ pushed = -1
  /\ master = "serial"
  /\ forks = 0
  /\ team = 0
  /\ count = 0
  /\ sum = 0

(* A num_threads clause for the next region.                               *)
Push(k) ==
  /\ master = "serial"
  /\ k > 0
  /\ pushed' = k
  /\ UNCHANGED <<wanted, master, forks, team, count, sum>>

(* omp_set_num_threads.                                                    *)
Set(k) ==
  /\ master = "serial"
  /\ k > 0
  /\ wanted' = k
  /\ UNCHANGED <<pushed, master, forks, team, count, sum>>

(* The guest enters a region: it is sized and the clause is used up.       *)
Fork ==
  /\ master = "serial"
  /\ forks < MaxForks
  /\ team' = RegionSize
  /\ pushed' = -1
  /\ master' = "forked"
  /\ forks' = forks + 1
  /\ UNCHANGED <<wanted, count, sum>>

(* The region returns: every member's increment and partial are in.        *)
Complete ==
  /\ master = "forked"
  /\ master' = "serial"
  /\ count' = count + team
  /\ sum' = sum + RegionTotal(team)
  /\ team' = 0
  /\ UNCHANGED <<wanted, pushed, forks>>

(* The region throws into the guest; what it wrote is never read.          *)
Fail ==
  /\ master = "forked"
  /\ master' = "trapped"
  /\ team' = 0
  /\ UNCHANGED <<wanted, pushed, forks, count, sum>>

Next ==
  \/ \E k \in 1 .. MaxThreads : Push(k) \/ Set(k)
  \/ Fork
  \/ Complete
  \/ Fail

(* A region that has started ends.                                         *)
Spec == Init /\ [][Next]_avars /\ WF_avars(Complete \/ Fail)

=============================================================================

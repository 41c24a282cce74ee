----------------------- MODULE MCOmpDistributedFork -----------------------
(* Small instances of OmpDistributedFork for TLC: teams of up to two      *)
(* chained calls over two host processes.                                  *)
EXTENDS OmpDistributedFork

CONSTANTS p1, p2, h1, h2

\* One parent, on process h1.
MCParents1 == {p1}
\* Two parents on two processes.
MCParents2 == {p1, p2}
MCProcs == {h1, h2}
MCHome == [p \in {p1, p2} |-> IF p = p1 THEN h1 ELSE h2]
MCHome1 == [p \in {p1} |-> h1]
MCMaxThreads == 2
\* -2: two devices (distributed); 1: back to local; -4: above the limit.
MCDeviceArgs == {-2, 1, -4}
=============================================================================

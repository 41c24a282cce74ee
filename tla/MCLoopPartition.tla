--------------------------- MODULE MCLoopPartition ---------------------------
(* Constants of LoopPartition for TLC.                                      *)
EXTENDS LoopPartition

\* Loops of 1 to 10 iterations, rising and falling, unit and non-unit steps.
MCLowers == {0, 3}
MCUppers == {-2, 4, 9}
MCIncrs  == {1, 2, -1, -3}
\* A loop spanning almost the whole int range of Width 6 (-32 .. 31).
MCWrapLowers == {-30}
=============================================================================

--------------------------- MODULE MCOmpLocalFork ---------------------------
(* Small instances of OmpLocalFork for TLC: teams of up to three threads   *)
(* over two consecutive parallel regions.                                  *)
EXTENDS OmpLocalFork

MCMaxThreads == 3
MCMaxForks == 2
=============================================================================

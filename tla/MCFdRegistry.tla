---------------------------- MODULE MCFdRegistry ----------------------------
(* Small instances of FdRegistry for TLC.                                  *)
EXTENDS FdRegistry

CONSTANTS w1, w2, g1, g2, g3, hosts, passwd

MCWorkers == {w1, w2}
MCGuests == {g1, g2, g3}
MCPaths == {hosts, passwd}
MCWhitelist == {hosts}
\* stdin closed: 0 is free, as for a daemonised host process.
MCHostFds == {1, 2}
=============================================================================

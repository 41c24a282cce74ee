---------------------------- MODULE MCGuestMemory ----------------------------
(* Small instances of GuestMemory for TLC: pages of 4 bytes in a 64-byte   *)
(* address space, so the 16 pages of the space stand for the 65536 pages   *)
(* of wasm32 and U32 wraparound stays reachable.                            *)
EXTENDS GuestMemory

CONSTANTS t1, t2

MCThreads == {t1, t2}
MCThreads1 == {t1}
=============================================================================

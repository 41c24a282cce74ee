----------------------------- MODULE GuestMemory -----------------------------
(***************************************************************************)
(* Guest memory growth through the syscall bridge, src/src/wasm/          *)
(* syscalls.cpp: __syscall_mmap, __syscall_munmap and __syscall_brk over   *)
(* the engine's growMemory (atomic: it returns the old page count, or -1  *)
(* when the memory would exceed its maximum), getMemoryNumPages and        *)
(* unmapMemoryPages (which decommits pages and keeps the size).  The       *)
(* threads of an OpenMP team share the memory and call these concurrently.*)
(* brk reads the page count and grows in two separate engine calls.       *)
(*                                                                         *)
(* Sizes are scaled: PageSize stands for IR::numBytesPerPage (65536) and   *)
(* AddrSpace for 2^32, the range of the U32 the calls return; the casts   *)
(* to U32 are kept as reductions modulo AddrSpace.                          *)
(***************************************************************************)
EXTENDS Integers

CONSTANTS
  Threads,    \* host threads sharing the guest memory
  PageSize,   \* IR::numBytesPerPage
  AddrSpace,  \* 2^32: the U32 range of guest addresses and results
  MaxPages,   \* getMemoryMaxPages of the memory
  InitPages,  \* the memory's size when the guest starts
  BrkAddrs,   \* addresses guests pass to brk
  MmapLens,   \* lengths guests pass to mmap
  MaxCalls,   \* bound on the number of calls in a behaviour
  None        \* model value: no call yet

ASSUME PageSizeAssumption  == PageSize \in Nat \ {0}
ASSUME AddrSpaceAssumption == AddrSpace \in Nat \ {0} /\ AddrSpace % PageSize = 0
ASSUME MaxPagesAssumption  == MaxPages \in 0 .. AddrSpace \div PageSize
ASSUME InitPagesAssumption == InitPages \in 0 .. MaxPages
ASSUME ArgsAssumption      == BrkAddrs \cup MmapLens \subseteq 0 .. AddrSpace - 1
ASSUME MaxCallsAssumption  == MaxCalls \in Nat
ASSUME NoneMemAssumption   == None \notin Int

VARIABLES
  pages,      \* getMemoryNumPages
  unmapped,   \* page indices decommitted by unmapMemoryPages
  pc,         \* pc[t]: "idle", or "grow" between brk's read and its growMemory
  cur,        \* cur[t]: currentPageCount read by t's brk
  req,        \* req[t]: the address passed to t's brk in progress
  brkAddr,    \* brkAddr[t]: the address of t's last returned brk, or None
  lastBreak,  \* the break returned by the latest brk to return, or None
  mbase,      \* mbase[t]: growMemory's result in t's last mmap, or None
  mlen,       \* mlen[t]: the length passed to t's last mmap
  calls       \* number of calls made

vars == <<pages, unmapped, pc, cur, req, brkAddr, lastBreak, mbase, mlen,
          calls>>

\* The (U32) casts of the code.
ToU32(x) == x % AddrSpace

\* (U32) -1: MAP_FAILED as the guest's libc sees it.
MapFailed == AddrSpace - 1

\* (n + numBytesPerPage - 1) / numBytesPerPage
PagesFor(n) == (n + PageSize - 1) \div PageSize

\* growMemory: the old page count, or -1 when the maximum would be passed.
GrowResult(n) == IF pages + n <= MaxPages THEN pages ELSE -1
GrownPages(n) == IF pages + n <= MaxPages THEN pages + n ELSE pages

\* What mmap returns: the byte address of growMemory's result, cast to
\* U32 -- also when growMemory failed and returned -1.
MmapResult(t) == ToU32(mbase[t] * PageSize)

Init ==
  /\ pages = InitPages
  /\ unmapped = {}
  /\ pc = [t \in Threads |-> "idle"]
  /\ cur = [t \in Threads |-> 0]
  /\ req = [t \in Threads |-> 0]
  /\ brkAddr = [t \in Threads |-> None]
  /\ lastBreak = None
  /\ mbase = [t \in Threads |-> None]
  /\ mlen = [t \in Threads |-> 0]
  /\ calls = 0

-----------------------------------------------------------------------------
(* Variant: the page count rounded down.                                  *)
MmapFloor(t, len) ==
  /\ pc[t] = "idle"
  /\ calls < MaxCalls
  /\ pages' = GrownPages(len \div PageSize)
  /\ mbase' = [mbase EXCEPT ![t] = GrowResult(len \div PageSize)]
  /\ mlen' = [mlen EXCEPT ![t] = len]
  /\ calls' = calls + 1
  /\ UNCHANGED <<unmapped, pc, cur, req, brkAddr, lastBreak>>

(* __syscall_mmap with fd = -1 (any other fd traps and changes nothing):   *)
(* grow by the pages covering len; the guest gets MmapResult.              *)
Mmap(t, len) ==
  /\ pc[t] = "idle"
  /\ calls < MaxCalls
  /\ pages' = GrownPages(PagesFor(len))
  /\ mbase' = [mbase EXCEPT ![t] = GrowResult(PagesFor(len))]
  /\ mlen' = [mlen EXCEPT ![t] = len]
  /\ calls' = calls + 1
  /\ UNCHANGED <<unmapped, pc, cur, req, brkAddr, lastBreak>>

(* __syscall_munmap: decommit the pages covering [addr, addr + len).       *)
Munmap(t, addr, len) ==
  /\ pc[t] = "idle"
  /\ calls < MaxCalls
  /\ unmapped' = unmapped \cup
       (addr \div PageSize .. addr \div PageSize + PagesFor(len) - 1)
  /\ calls' = calls + 1
  /\ UNCHANGED <<pages, pc, cur, req, brkAddr, lastBreak, mbase, mlen>>

(* __syscall_brk up to getMemoryNumPages: compute the target page count    *)
(* (rounded down) and read the current one.  A target not above it        *)
(* returns the current break at once.                                      *)
BrkRead(t, addr) ==
  /\ pc[t] = "idle"
  /\ calls < MaxCalls
  /\ calls' = calls + 1
  /\ \/ /\ addr \div PageSize <= pages
        /\ brkAddr' = [brkAddr EXCEPT ![t] = addr]
        /\ lastBreak' = ToU32(pages * PageSize)
        /\ UNCHANGED <<pc, cur, req>>
     \/ /\ addr \div PageSize > pages
        /\ pc' = [pc EXCEPT ![t] = "grow"]
        /\ cur' = [cur EXCEPT ![t] = pages]
        /\ req' = [req EXCEPT ![t] = addr]
        /\ UNCHANGED <<brkAddr, lastBreak>>
  /\ UNCHANGED <<pages, unmapped, mbase, mlen>>

(* The rest of __syscall_brk: growMemory by the expansion computed from    *)
(* the page count read before (its result, -1 included, is ignored), and *)
(* return the break of that earlier count.                                 *)
BrkGrow(t) ==
  /\ pc[t] = "grow"
  /\ pages' = GrownPages(req[t] \div PageSize - cur[t])
  /\ pc' = [pc EXCEPT ![t] = "idle"]
  /\ brkAddr' = [brkAddr EXCEPT ![t] = req[t]]
  /\ lastBreak' = ToU32(cur[t] * PageSize)
  /\ UNCHANGED <<unmapped, cur, req, mbase, mlen, calls>>

Next ==
  \E t \in Threads :
    \/ \E len \in MmapLens : Mmap(t, len)
    \/ \E a \in BrkAddrs, len \in MmapLens : Munmap(t, a, len)
    \/ \E a \in BrkAddrs : BrkRead(t, a)
    \/ BrkGrow(t)

Spec == Init /\ [][Next]_vars

-----------------------------------------------------------------------------
(* Properties.                                                             *)

TypeOK ==
  /\ pages \in 0 .. MaxPages
  /\ unmapped \subseteq Nat
  /\ pc \in [Threads -> {"idle", "grow"}]
  /\ cur \in [Threads -> 0 .. MaxPages]
  /\ req \in [Threads -> 0 .. AddrSpace - 1]
  /\ brkAddr \in [Threads -> 0 .. AddrSpace - 1 \cup {None}]
  /\ lastBreak \in 0 .. AddrSpace - 1 \cup {None}
  /\ mbase \in [Threads -> -1 .. MaxPages \cup {None}]
  /\ mlen \in [Threads -> Nat]
  /\ calls \in 0 .. MaxCalls

(* The pages growMemory granted to an mmap hold its len bytes, and the     *)
(* grants of different threads' mmaps are disjoint, however their calls    *)
(* interleave with each other and with brk.                                *)
MmapGrantValid ==
  \A t \in Threads : mbase[t] \notin {None, -1} =>
    /\ mbase[t] * PageSize + mlen[t] <= pages * PageSize
    /\ \A u \in Threads \ {t} : mbase[u] \notin {None, -1} =>
         \/ mbase[t] * PageSize + mlen[t] <= mbase[u] * PageSize
         \/ mbase[u] * PageSize + mlen[u] <= mbase[t] * PageSize

(* Spec 4.D mmap ("returns the byte address of the first new page"): a    *)
(* result the guest cannot tell from success (anything but MAP_FAILED)     *)
(* addresses len bytes of memory.                                           *)
MmapResultValid ==
  \A t \in Threads : mbase[t] # None /\ MmapResult(t) # MapFailed =>
    MmapResult(t) + mlen[t] <= pages * PageSize

(* Spec 4.D brk: a brk that has returned has grown the memory to its      *)
(* target page count, unless the target is above the maximum -- also when *)
(* other threads grew the memory between its read and its growMemory.     *)
BrkReachesTarget ==
  \A t \in Threads : brkAddr[t] # None /\ brkAddr[t] \div PageSize <= MaxPages =>
    pages >= brkAddr[t] \div PageSize

(* Spec property 7: the break brk returns never decreases across calls.   *)
BrkMonotonic == [][lastBreak # None /\ lastBreak' # lastBreak =>
                   lastBreak' >= lastBreak]_lastBreak

(* Spec 4.D and its rationale: after brk(addr) returns, the guest may use *)
(* every byte below addr.                                                  *)
BrkReservesAddress ==
  \A t \in Threads : brkAddr[t] # None /\ brkAddr[t] \div PageSize <= MaxPages =>
    brkAddr[t] <= pages * PageSize

=============================================================================

-------------------------- MODULE GuestMemoryProofs --------------------------
(***************************************************************************)
(* Proofs about GuestMemory: type correctness, and that the pages          *)
(* growMemory grants to the mmaps of concurrent threads hold their         *)
(* lengths and never overlap (MmapGrantValid), for every page size,        *)
(* address space, maximum and number of threads.                           *)
(***************************************************************************)
EXTENDS GuestMemory, TLAPS

(* A brk between its read and its growMemory asked for more pages than it *)
(* read, so its expansion is positive.                                      *)
GrowPending ==
  \A t \in Threads : pc[t] = "grow" => req[t] \div PageSize > cur[t]

IInv == TypeOK /\ GrowPending /\ MmapGrantValid

-----------------------------------------------------------------------------
(* Arithmetic of page rounding.                                            *)

(* The pages mmap asks for cover its length.                               *)
LEMMA PagesForCovers ==
  ASSUME NEW len \in Nat
  PROVE  /\ PagesFor(len) \in Nat
         /\ len <= PagesFor(len) * PageSize
<1> DEFINE q == (len + PageSize - 1) \div PageSize
           r == (len + PageSize - 1) % PageSize
<1>1. PageSize \in Nat \ {0}
  BY PageSizeAssumption
<1>2. /\ q \in Nat /\ r \in 0 .. PageSize - 1
      /\ len + PageSize - 1 = q * PageSize + r
  BY <1>1
<1>3. QED
  BY <1>1, <1>2 DEF PagesFor

(* A larger page count has a larger byte size.                             *)
LEMMA BytesMonotone ==
  ASSUME NEW a \in Int, NEW b \in Int, a <= b
  PROVE  a * PageSize <= b * PageSize
BY PageSizeAssumption

-----------------------------------------------------------------------------
(* Each step preserves IInv.                                               *)

LEMMA InitIInv == Init => IInv
BY InitPagesAssumption, MaxPagesAssumption, MaxCallsAssumption,
   NoneMemAssumption, AddrSpaceAssumption
DEF Init, IInv, TypeOK, GrowPending, MmapGrantValid

(* After a step that does not shrink the memory nor change mmap grants,   *)
(* every grant still lies in the memory and grants stay disjoint.          *)
LEMMA GrantsKept ==
  ASSUME TypeOK, MmapGrantValid, pages' \in Nat, pages <= pages',
         UNCHANGED <<mbase, mlen>>
  PROVE  MmapGrantValid'
<1> SUFFICES ASSUME NEW t \in Threads, mbase[t] \notin {None, -1}
             PROVE  mbase[t] * PageSize + mlen[t] <= pages' * PageSize
  BY DEF MmapGrantValid
<1>1. pages * PageSize <= pages' * PageSize
  BY BytesMonotone DEF TypeOK
<1>2. mbase[t] * PageSize + mlen[t] <= pages * PageSize
  BY DEF MmapGrantValid
<1>3. mbase[t] \in Int /\ mlen[t] \in Nat
  BY DEF TypeOK
<1>4. pages' * PageSize \in Int /\ pages * PageSize \in Int
  BY PageSizeAssumption DEF TypeOK
<1>5. QED
  BY <1>1, <1>2, <1>3, <1>4, PageSizeAssumption

LEMMA MmapIInv ==
  ASSUME IInv, NEW t \in Threads, NEW len \in MmapLens, Mmap(t, len)
  PROVE  IInv'
<1> DEFINE n == PagesFor(len)
<1>1. len \in Nat /\ n \in Nat /\ len <= n * PageSize
  BY ArgsAssumption, PagesForCovers
<1>2. UNCHANGED <<pc, cur, req>>
  BY DEF Mmap
<1>3. GrowPending'
  BY <1>2 DEF IInv, GrowPending
<1>4. CASE pages + n <= MaxPages
  <2>1. pages' = pages + n /\ mbase' = [mbase EXCEPT ![t] = pages]
        /\ mlen' = [mlen EXCEPT ![t] = len]
    BY <1>4 DEF Mmap, GrownPages, GrowResult
  <2>2. TypeOK'
    <3>1. pages' \in 0 .. MaxPages
      BY <1>1, <1>4, <2>1 DEF IInv, TypeOK
    <3>2. mbase' \in [Threads -> -1 .. MaxPages \cup {None}]
      BY <2>1 DEF IInv, TypeOK
    <3>3. mlen' \in [Threads -> Nat]
      BY <1>1, <2>1 DEF IInv, TypeOK
    <3>4. calls' \in 0 .. MaxCalls
      <4>1. calls + 1 \in 0 .. MaxCalls
        BY MaxCallsAssumption DEF Mmap, IInv, TypeOK
      <4>2. QED
        BY <4>1, Zenon DEF Mmap
    <3>5. UNCHANGED <<unmapped, pc, cur, req, brkAddr, lastBreak>>
      BY DEF Mmap
    <3>6. QED
      BY <3>1, <3>2, <3>3, <3>4, <3>5 DEF IInv, TypeOK
  <2>3. pages * PageSize + len <= pages' * PageSize
    BY <1>1, <2>1, PageSizeAssumption DEF IInv, TypeOK
  <2>4. \A u \in Threads \ {t} : mbase[u] \notin {None, -1} =>
          mbase[u] * PageSize + mlen[u] <= pages * PageSize
    BY DEF IInv, MmapGrantValid
  <2>5. pages * PageSize <= pages' * PageSize
    BY <1>1, <2>1, BytesMonotone DEF IInv, TypeOK
  <2>6. pages \notin {None, -1}
    BY NoneMemAssumption DEF IInv, TypeOK
  <2>7. MmapGrantValid'
    <3> SUFFICES ASSUME NEW v \in Threads, mbase'[v] \notin {None, -1}
                 PROVE  /\ mbase'[v] * PageSize + mlen'[v] <= pages' * PageSize
                        /\ \A u \in Threads \ {v} : mbase'[u] \notin {None, -1} =>
                             \/ mbase'[v] * PageSize + mlen'[v] <= mbase'[u] * PageSize
                             \/ mbase'[u] * PageSize + mlen'[u] <= mbase'[v] * PageSize
      BY DEF MmapGrantValid
    <3>1. CASE v = t
      <4>1. mbase'[v] = pages /\ mlen'[v] = len
        BY <2>1, <3>1 DEF IInv, TypeOK
      <4>2. \A u \in Threads \ {v} : mbase'[u] = mbase[u] /\ mlen'[u] = mlen[u]
        BY <2>1, <3>1 DEF IInv, TypeOK
      <4>3. \A u \in Threads \ {v} : mbase[u] \notin {None, -1} =>
              /\ mbase[u] \in Int /\ mlen[u] \in Nat
        BY DEF IInv, TypeOK
      <4>4. pages \in Int /\ PageSize \in Int
        BY PageSizeAssumption DEF IInv, TypeOK
      <4>5. QED
        BY <2>3, <2>4, <3>1, <4>1, <4>2, <4>3, <4>4
    <3>2. CASE v # t
      <4>1. mbase'[v] = mbase[v] /\ mlen'[v] = mlen[v]
        BY <2>1, <3>2 DEF IInv, TypeOK
      <4>2. mbase[v] * PageSize + mlen[v] <= pages * PageSize
        BY <3>2, <4>1 DEF IInv, MmapGrantValid
      <4>3. mbase[v] \in Int /\ mlen[v] \in Nat /\ pages \in Int
            /\ PageSize \in Int
        BY <4>1, PageSizeAssumption DEF IInv, TypeOK
      <4>4. mbase'[v] * PageSize + mlen'[v] <= pages' * PageSize
        <5>1. mbase[v] * PageSize + mlen[v] <= pages' * PageSize
          BY <2>1, <2>5, <4>2, <4>3, <1>1
        <5>2. QED
          BY <4>1, <5>1, Zenon
      <4>5. mbase'[v] * PageSize + mlen'[v] <= mbase'[t] * PageSize
        BY <2>1, <4>1, <4>2 DEF IInv, TypeOK
      <4>6. ASSUME NEW u \in Threads \ {v, t}, mbase'[u] \notin {None, -1}
            PROVE  \/ mbase'[v] * PageSize + mlen'[v] <= mbase'[u] * PageSize
                   \/ mbase'[u] * PageSize + mlen'[u] <= mbase'[v] * PageSize
        <5>1. mbase'[u] = mbase[u] /\ mlen'[u] = mlen[u]
          BY <2>1 DEF IInv, TypeOK
        <5>2. QED
          BY <3>2, <4>1, <5>1, <4>6 DEF IInv, MmapGrantValid
      <4>7. QED
        BY <4>4, <4>5, <4>6
    <3>3. QED
      BY <3>1, <3>2
  <2>8. QED
    BY <1>3, <2>2, <2>7 DEF IInv
<1>5. CASE ~(pages + n <= MaxPages)
  <2>1. pages' = pages /\ mbase' = [mbase EXCEPT ![t] = -1]
        /\ mlen' = [mlen EXCEPT ![t] = len]
    BY <1>5 DEF Mmap, GrownPages, GrowResult
  <2>2. TypeOK'
    <3>1. mbase' \in [Threads -> -1 .. MaxPages \cup {None}]
      <4>1. [mbase EXCEPT ![t] = -1] \in [Threads -> -1 .. MaxPages \cup {None}]
        BY MaxPagesAssumption, PageSizeAssumption, AddrSpaceAssumption
        DEF IInv, TypeOK
      <4>2. QED
        BY <2>1, <4>1, Zenon
    <3>2. mlen' \in [Threads -> Nat]
      BY <1>1, <2>1 DEF IInv, TypeOK
    <3>3. calls' \in 0 .. MaxCalls
      <4>1. calls + 1 \in 0 .. MaxCalls
        BY MaxCallsAssumption DEF Mmap, IInv, TypeOK
      <4>2. QED
        BY <4>1, Zenon DEF Mmap
    <3>4. UNCHANGED <<unmapped, pc, cur, req, brkAddr, lastBreak>>
      BY DEF Mmap
    <3>5. QED
      BY <2>1, <3>1, <3>2, <3>3, <3>4 DEF IInv, TypeOK
  <2>3. MmapGrantValid'
    BY <2>1 DEF IInv, TypeOK, MmapGrantValid
  <2>4. QED
    BY <1>3, <2>2, <2>3 DEF IInv
<1>6. QED
  BY <1>4, <1>5

LEMMA MunmapIInv ==
  ASSUME IInv, NEW t \in Threads, NEW a \in BrkAddrs, NEW len \in MmapLens,
         Munmap(t, a, len)
  PROVE  IInv'
<1>1. len \in Nat /\ a \in Nat /\ PagesFor(len) \in Nat
  BY ArgsAssumption, PagesForCovers
<1>2. a \div PageSize \in Nat
  BY <1>1, PageSizeAssumption
<1>3. TypeOK'
  <2>1. unmapped' \subseteq Nat
    <3>1. unmapped \cup (a \div PageSize .. a \div PageSize + PagesFor(len) - 1)
            \subseteq Nat
      <4> DEFINE lo == a \div PageSize
                 hi == a \div PageSize + PagesFor(len) - 1
      <4>1. lo \in Nat /\ hi \in Int
        BY <1>1, <1>2
      <4>2. lo .. hi \subseteq Nat
        BY <4>1
      <4>3. unmapped \subseteq Nat
        BY DEF IInv, TypeOK
      <4>4. QED
        BY <4>2, <4>3
    <3>2. QED
      BY <3>1, Zenon DEF Munmap
  <2>2. calls' \in 0 .. MaxCalls
    <3>1. calls + 1 \in 0 .. MaxCalls
      BY MaxCallsAssumption DEF Munmap, IInv, TypeOK
    <3>2. QED
      BY <3>1, Zenon DEF Munmap
  <2>3. QED
    BY <2>1, <2>2 DEF Munmap, IInv, TypeOK
<1>4. QED
  BY <1>3 DEF Munmap, IInv, GrowPending, MmapGrantValid

LEMMA BrkReadIInv ==
  ASSUME IInv, NEW t \in Threads, NEW a \in BrkAddrs, BrkRead(t, a)
  PROVE  IInv'
<1>1. a \in 0 .. AddrSpace - 1 /\ a \div PageSize \in Nat
  BY ArgsAssumption, PageSizeAssumption
<1>2. ToU32(pages * PageSize) \in 0 .. AddrSpace - 1
  BY AddrSpaceAssumption, PageSizeAssumption DEF ToU32, IInv, TypeOK
<1>3. TypeOK'
  BY <1>1, <1>2, MaxCallsAssumption DEF BrkRead, IInv, TypeOK
<1>4. GrowPending'
  BY <1>1 DEF BrkRead, IInv, TypeOK, GrowPending
<1>5. MmapGrantValid'
  BY DEF BrkRead, IInv, MmapGrantValid
<1>6. QED
  BY <1>3, <1>4, <1>5 DEF IInv

LEMMA BrkGrowIInv ==
  ASSUME IInv, NEW t \in Threads, BrkGrow(t)
  PROVE  IInv'
<1> DEFINE n == req[t] \div PageSize - cur[t]
<1>1. n \in Nat \ {0}
  BY PageSizeAssumption DEF BrkGrow, IInv, TypeOK, GrowPending
<1>2. pages' \in 0 .. MaxPages /\ pages <= pages'
  BY <1>1 DEF BrkGrow, GrownPages, IInv, TypeOK
<1>3. ToU32(cur[t] * PageSize) \in 0 .. AddrSpace - 1
  BY AddrSpaceAssumption, PageSizeAssumption DEF ToU32, IInv, TypeOK
<1>4. TypeOK'
  BY <1>2, <1>3 DEF BrkGrow, IInv, TypeOK
<1>5. GrowPending'
  BY DEF BrkGrow, IInv, TypeOK, GrowPending
<1>6. MmapGrantValid'
  BY <1>2, GrantsKept DEF BrkGrow, IInv
<1>7. QED
  BY <1>4, <1>5, <1>6 DEF IInv

LEMMA IInvStep == IInv /\ [Next]_vars => IInv'
<1> SUFFICES ASSUME IInv, [Next]_vars PROVE IInv'
  OBVIOUS
<1>1. CASE \E t \in Threads, len \in MmapLens : Mmap(t, len)
  BY <1>1, MmapIInv
<1>2. CASE \E t \in Threads, a \in BrkAddrs, len \in MmapLens :
             Munmap(t, a, len)
  BY <1>2, MunmapIInv
<1>3. CASE \E t \in Threads, a \in BrkAddrs : BrkRead(t, a)
  BY <1>3, BrkReadIInv
<1>4. CASE \E t \in Threads : BrkGrow(t)
  BY <1>4, BrkGrowIInv
<1>5. CASE UNCHANGED vars
  BY <1>5 DEF vars, IInv, TypeOK, GrowPending, MmapGrantValid
<1>6. QED
  BY <1>1, <1>2, <1>3, <1>4, <1>5 DEF Next

-----------------------------------------------------------------------------
(* Theorems.                                                               *)

(* Page counts, pending brks and results keep their types: in particular  *)
(* the memory never passes its maximum.                                     *)
THEOREM MemTypeCorrect == Spec => []TypeOK
<1>1. IInv => TypeOK
  BY DEF IInv
<1>2. QED
  BY <1>1, InitIInv, IInvStep, PTL DEF Spec

(* For every page size, address space, maximum and number of threads, the *)
(* pages growMemory grants to an mmap hold the length it asked for (the    *)
(* rounding up of __syscall_mmap) and the grants of concurrent mmaps never *)
(* overlap, whatever brk does in between.                                  *)
THEOREM MmapGrantValidThm == Spec => []MmapGrantValid
<1>1. IInv => MmapGrantValid
  BY DEF IInv
<1>2. QED
  BY <1>1, InitIInv, IInvStep, PTL DEF Spec

=============================================================================

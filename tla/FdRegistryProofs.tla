--------------------------- MODULE FdRegistryProofs ---------------------------
(***************************************************************************)
(* Proofs about FdRegistry: type correctness, and that checkThreadOwnsFd   *)
(* only ever admits a descriptor that is open and belongs to no other      *)
(* worker thread (OwnedOpenAndExclusive), for every number of workers,     *)
(* invocations and table size.                                             *)
(***************************************************************************)
EXTENDS FdRegistry, WellFoundedInduction, TLAPS

(* A descriptor erased by a thread's close and not yet passed to close(2)  *)
(* is still open, is in no registry, and is being closed by that thread   *)
(* alone.                                                                   *)
ClosingSound ==
  \A w \in Workers : closing[w] \in FdNums =>
    /\ closing[w] \in kernel
    /\ \A v \in Workers : closing[w] \notin openFds[v]
    /\ \A v \in Workers : v # w => closing[v] # closing[w]

IInv == TypeOK /\ OwnedOpenAndExclusive /\ ClosingSound

-----------------------------------------------------------------------------
(* The kernel's choice of descriptor.                                      *)

(* A non-empty set of naturals has a least element (from the               *)
(* well-foundedness of < on Nat).                                          *)
LEMMA LeastExists ==
  ASSUME NEW S \in SUBSET Nat, S # {}
  PROVE  \E n \in S : \A m \in S : n <= m
<1>1. PICK x \in S : \A y \in S : ~(<<y, x>> \in OpToRel(<, Nat))
  BY NatLessThanWellFounded, WFMin
<1>2. \A y \in S : ~(y < x)
  <2>1. TAKE y \in S
  <2>2. <<y, x>> \in Nat \X Nat
    OBVIOUS
  <2>3. y < x => <<y, x>> \in OpToRel(<, Nat)
    BY <2>2, Zenon DEF OpToRel
  <2>4. QED
    BY <1>1, <2>3
<1>3. QED
  BY <1>2

(* open(2) and socket(2) either fail with -1 or return a number that is    *)
(* not open.                                                                *)
LEMMA LowestFreeFacts ==
  LowestFree = -1 \/ LowestFree \in FdNums \ kernel
<1> DEFINE free == FdNums \ kernel
<1>1. CASE free = {}
  BY <1>1 DEF LowestFree
<1>2. CASE free # {}
  <2>1. free \in SUBSET Nat
    BY MaxFdAssumption DEF FdNums
  <2>2. \E n \in free : \A m \in free : n <= m
    BY <1>2, <2>1, LeastExists
  <2>3. QED
    BY <1>2, <2>2 DEF LowestFree
<1>3. QED
  BY <1>1, <1>2

-----------------------------------------------------------------------------
(* Each step preserves IInv.                                               *)

LEMMA InitIInv == Init => IInv
BY HostFdsAssumption, NoneFdAssumption
DEF Init, IInv, TypeOK, OwnedOpenAndExclusive, ClosingSound, FdNums, FdArgs

(* Steps that only start or end an invocation (trap included) leave the    *)
(* descriptors alone.                                                       *)
LEMMA RunningOnlyIInv ==
  ASSUME IInv,
         running' \in [Workers -> Guests \cup {None}],
         done' \subseteq Guests,
         UNCHANGED <<kernel, openFds, closing, opener>>
  PROVE  IInv'
BY DEF IInv, TypeOK, OwnedOpenAndExclusive, ClosingSound

LEMMA StartInvocationIInv ==
  ASSUME IInv, NEW w \in Workers, NEW g \in Guests, StartInvocation(w, g)
  PROVE  IInv'
BY RunningOnlyIInv DEF StartInvocation, IInv, TypeOK

LEMMA EndInvocationIInv ==
  ASSUME IInv, NEW w \in Workers, EndInvocation(w)
  PROVE  IInv'
BY RunningOnlyIInv DEF EndInvocation, IInv, TypeOK

LEMMA UseFdIInv ==
  ASSUME IInv, NEW w \in Workers, NEW fd \in FdArgs, UseFd(w, fd)
  PROVE  IInv'
BY RunningOnlyIInv DEF UseFd, Trap, IInv, TypeOK

LEMMA FdSyscallIInv ==
  ASSUME IInv, NEW w \in Workers, NEW fd \in FdArgs, FdSyscall(w, fd)
  PROVE  IInv'
BY RunningOnlyIInv DEF FdSyscall, Trap, IInv, TypeOK

LEMMA UnsupportedIInv ==
  ASSUME IInv, NEW w \in Workers, Unsupported(w)
  PROVE  IInv'
BY RunningOnlyIInv DEF Unsupported, Trap, IInv, TypeOK

(* A descriptor the kernel hands out is in no registry and is not being     *)
(* closed, so registering it with one worker keeps registries disjoint.    *)
LEMMA FreshNotOwned ==
  ASSUME IInv, NEW n \in FdNums \ kernel
  PROVE  /\ \A v \in Workers : n \notin openFds[v]
         /\ \A v \in Workers : closing[v] # n
BY DEF IInv, TypeOK, OwnedOpenAndExclusive, ClosingSound, FdNums, FdArgs


(* open: a trap, the leaked descriptor 0, or a registered descriptor.     *)
LEMMA OpenIInv ==
  ASSUME IInv, NEW w \in Workers, NEW path \in Paths, NEW mode \in {0, 1},
         Open(w, path, mode)
  PROVE  IInv'
<1> DEFINE n == LowestFree
<1>1. running[w] \in Guests
  BY DEF Open, IInv, TypeOK
<1>2. CASE (mode # 0 \/ path \notin Whitelist \/ n < 0) /\ Trap(w)
           /\ UNCHANGED <<kernel, openFds, opener>>
  BY <1>2, RunningOnlyIInv DEF Open, Trap, IInv, TypeOK
<1>3. CASE n = 0 /\ kernel' = kernel \cup {0}
           /\ opener' = [opener EXCEPT ![0] = running[w]]
           /\ Trap(w) /\ UNCHANGED openFds
  <2>1. 0 \in FdNums \ kernel
    BY <1>3, LowestFreeFacts
  <2>2. UNCHANGED <<done, closing>>
    BY DEF Open
  <2>3. QED
    BY <1>1, <1>3, <2>1, <2>2
    DEF Trap, IInv, TypeOK, OwnedOpenAndExclusive, ClosingSound
<1>4. CASE n > 0 /\ kernel' = kernel \cup {n}
           /\ openFds' = [openFds EXCEPT ![w] = @ \cup {n}]
           /\ opener' = [opener EXCEPT ![n] = running[w]]
           /\ UNCHANGED running
  <2>1. n \in FdNums \ kernel
    BY <1>4, LowestFreeFacts
  <2>2. /\ \A v \in Workers : n \notin openFds[v]
        /\ \A v \in Workers : closing[v] # n
    BY <2>1, FreshNotOwned
  <2>3. UNCHANGED <<done, closing>>
    BY DEF Open
  <2>4. QED
    BY <1>1, <1>4, <2>1, <2>2, <2>3
    DEF IInv, TypeOK, OwnedOpenAndExclusive, ClosingSound, FdArgs
<1>5. QED
  BY <1>2, <1>3, <1>4 DEF Open

(* socket: a fresh descriptor, or the -1 of a failed call, is registered. *)
LEMMA SocketIInv ==
  ASSUME IInv, NEW w \in Workers, Socket(w)
  PROVE  IInv'
<1> DEFINE n == LowestFree
<1>1. running[w] \in Guests
  BY DEF Socket, IInv, TypeOK
<1>2. UNCHANGED <<running, done, closing>>
  BY DEF Socket
<1>3. CASE n >= 0 /\ kernel' = kernel \cup {n}
           /\ openFds' = [openFds EXCEPT ![w] = @ \cup {n}]
           /\ opener' = [opener EXCEPT ![n] = running[w]]
  <2>1. n \in FdNums \ kernel
    BY <1>3, LowestFreeFacts
  <2>2. /\ \A v \in Workers : n \notin openFds[v]
        /\ \A v \in Workers : closing[v] # n
    BY <2>1, FreshNotOwned
  <2>3. QED
    BY <1>1, <1>2, <1>3, <2>1, <2>2
    DEF IInv, TypeOK, OwnedOpenAndExclusive, ClosingSound, FdArgs
<1>4. CASE openFds' = [openFds EXCEPT ![w] = @ \cup {-1}]
           /\ UNCHANGED <<kernel, opener>>
  <2>1. -1 \notin FdNums
    BY DEF FdNums
  <2>2. QED
    BY <1>2, <1>4, <2>1
    DEF IInv, TypeOK, OwnedOpenAndExclusive, ClosingSound, FdArgs
<1>5. QED
  BY <1>3, <1>4 DEF Socket

(* close, first half: the erased descriptor becomes this thread's pending  *)
(* close; no other thread owns it or is closing it.                         *)
LEMMA CloseEraseIInv ==
  ASSUME IInv, NEW w \in Workers, NEW fd \in FdArgs, CloseErase(w, fd)
  PROVE  IInv'
<1>1. UNCHANGED <<done, opener>>
  BY DEF CloseErase
<1>2. CASE ~Owns(w, fd) /\ Trap(w) /\ UNCHANGED <<kernel, openFds, closing>>
  BY <1>1, <1>2, RunningOnlyIInv DEF CloseErase, Trap, IInv, TypeOK
<1>3. CASE Owns(w, fd) /\ openFds' = [openFds EXCEPT ![w] = @ \ {fd}]
           /\ closing' = [closing EXCEPT ![w] = fd]
           /\ UNCHANGED <<running, kernel>>
  <2>1. fd \in FdNums => /\ fd \in kernel
                        /\ \A v \in Workers : v # w => fd \notin openFds[v]
    BY <1>3 DEF Owns, IInv, OwnedOpenAndExclusive
  <2>2. \A v \in Workers : v # w => closing[v] # fd \/ fd \notin FdNums
    BY <1>3 DEF Owns, IInv, ClosingSound
  <2>3. TypeOK'
    BY <1>1, <1>3 DEF IInv, TypeOK
  <2>4. OwnedOpenAndExclusive'
    BY <1>3 DEF IInv, TypeOK, OwnedOpenAndExclusive
  <2>5. ClosingSound'
    BY <1>3, <2>1, <2>2 DEF IInv, TypeOK, ClosingSound
  <2>6. QED
    BY <2>3, <2>4, <2>5 DEF IInv
<1>4. QED
  BY <1>2, <1>3 DEF CloseErase

(* close, second half: close(2) releases a number no registry holds.       *)
LEMMA CloseKernelIInv ==
  ASSUME IInv, NEW w \in Workers, CloseKernel(w)
  PROVE  IInv'
<1> DEFINE c == closing[w]
<1>1. c \in FdArgs
  BY NoneFdAssumption DEF CloseKernel, IInv, TypeOK
<1>2. \A v \in Workers : openFds[v] \cap FdNums \subseteq kernel \ {c}
  BY <1>1 DEF IInv, TypeOK, OwnedOpenAndExclusive, ClosingSound, FdArgs
<1>3. \A v \in Workers : v # w /\ closing[v] \in FdNums =>
        closing[v] \in kernel \ {c}
  BY <1>1 DEF IInv, TypeOK, ClosingSound, FdArgs, FdNums
<1>4. None \notin FdNums
  BY NoneFdAssumption DEF FdNums
<1>5. QED
  BY <1>2, <1>3, <1>4
  DEF CloseKernel, IInv, TypeOK, OwnedOpenAndExclusive, ClosingSound

LEMMA IInvStep == IInv /\ [Next]_vars => IInv'
<1> SUFFICES ASSUME IInv, [Next]_vars PROVE IInv'
  OBVIOUS
<1>1. CASE \E w \in Workers, g \in Guests : StartInvocation(w, g)
  BY <1>1, StartInvocationIInv
<1>2. CASE \E w \in Workers : EndInvocation(w)
  BY <1>2, EndInvocationIInv
<1>3. CASE \E w \in Workers, p \in Paths, m \in {0, 1} : Open(w, p, m)
  BY <1>3, OpenIInv
<1>4. CASE \E w \in Workers : Socket(w)
  BY <1>4, SocketIInv
<1>5. CASE \E w \in Workers, fd \in FdArgs : CloseErase(w, fd)
  BY <1>5, CloseEraseIInv
<1>6. CASE \E w \in Workers, fd \in FdArgs : FdSyscall(w, fd) \/ UseFd(w, fd)
  BY <1>6, FdSyscallIInv, UseFdIInv
<1>7. CASE \E w \in Workers : CloseKernel(w)
  BY <1>7, CloseKernelIInv
<1>8. CASE \E w \in Workers : Unsupported(w)
  BY <1>8, UnsupportedIInv
<1>9. CASE UNCHANGED vars
  BY <1>9 DEF vars, IInv, TypeOK, OwnedOpenAndExclusive, ClosingSound
<1>10. QED
  BY <1>1, <1>2, <1>3, <1>4, <1>5, <1>6, <1>7, <1>8, <1>9 DEF Next

-----------------------------------------------------------------------------
(* Theorems.                                                               *)

(* The registries, the kernel table and the pending closes keep their     *)
(* types in every behaviour of the syscall bridge.                          *)
THEOREM FdTypeCorrect == Spec => []TypeOK
<1>1. IInv => TypeOK
  BY DEF IInv
<1>2. QED
  BY <1>1, InitIInv, IInvStep, PTL DEF Spec

(* For any number of worker threads and invocations and any table size,   *)
(* checkThreadOwnsFd never admits a descriptor that close(2) has released  *)
(* or that another worker thread's registry holds, however opens, sockets  *)
(* and the two halves of close on different threads interleave.           *)
THEOREM OwnedOpenAndExclusiveThm == Spec => []OwnedOpenAndExclusive
<1>1. IInv => OwnedOpenAndExclusive
  BY DEF IInv
<1>2. QED
  BY <1>1, InitIInv, IInvStep, PTL DEF Spec

=============================================================================

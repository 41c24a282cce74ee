------------------------------ MODULE FdRegistry ------------------------------
(***************************************************************************)
(* The descriptor policy of the syscall bridge, src/src/wasm/syscalls.cpp.*)
(* openFds is a thread_local std::set<int>: one registry per host worker  *)
(* thread, shared by every guest invocation that thread runs.  Descriptor *)
(* numbers come from the host process's kernel table, which hands out the *)
(* lowest free number.  Guests open whitelisted paths, create sockets,    *)
(* close descriptors and use them (read, fcntl64, poll, connect, bind,    *)
(* send, recv, sendto, recvfrom, getsockname), each guarded by            *)
(* checkThreadOwnsFd; a failed check, a blocked path, a non-zero open     *)
(* mode, a server-side socket call or an unsupported syscall traps and    *)
(* ends the invocation.  Closing is two steps (erase, then close(2)), so  *)
(* other threads can run in between.                                       *)
(***************************************************************************)
EXTENDS Integers, FiniteSets

CONSTANTS
  Workers,    \* host worker threads
  Guests,     \* guest invocations (each runs once, on some worker)
  MaxFd,      \* size of the process's descriptor table (numbers 0..MaxFd-1)
  HostFds,    \* descriptors the host process holds open throughout
  Paths,      \* paths a guest may pass to open
  Whitelist,  \* the paths open accepts ("/etc/hosts", "/etc/resolv.conf")
  None        \* model value: no invocation / no pending close

ASSUME MaxFdAssumption     == MaxFd \in Nat \ {0}
ASSUME HostFdsAssumption   == HostFds \subseteq 0 .. MaxFd - 1
ASSUME WhitelistAssumption == Whitelist \subseteq Paths
ASSUME NoneFdAssumption    == None \notin Guests \cup (-1 .. MaxFd - 1)

VARIABLES
  kernel,   \* descriptor numbers open in the host process
  openFds,  \* openFds[w]: the thread_local registry of worker w
  running,  \* running[w]: the invocation worker w executes, or None
  done,     \* invocations that have run
  closing,  \* closing[w]: descriptor erased by w and not yet closed, or None
  opener    \* opener[n]: the invocation that obtained descriptor n (history)

vars == <<kernel, openFds, running, done, closing, opener>>

FdNums == 0 .. MaxFd - 1

\* The number open(2) or socket(2) returns: the lowest free one, -1 if none.
LowestFree ==
  LET free == FdNums \ kernel
  IN  IF free = {} THEN -1 ELSE CHOOSE n \in free : \A m \in free : n <= m

\* A guest on w traps: the invocation ends, the registry stays as it is.
Trap(w) ==
  /\ running' = [running EXCEPT ![w] = None]

\* checkThreadOwnsFd
Owns(w, fd) == fd \in openFds[w]

Init ==
  /\ kernel = HostFds
  /\ openFds = [w \in Workers |-> {}]
  /\ running = [w \in Workers |-> None]
  /\ done = {}
  /\ closing = [w \in Workers |-> None]
  /\ opener = [n \in FdNums |-> None]

-----------------------------------------------------------------------------
(* A worker thread picks up an invocation; nothing resets openFds.         *)
StartInvocation(w, g) ==
  /\ running[w] = None
  /\ closing[w] = None
  /\ g \notin done
  /\ \A v \in Workers : running[v] # g
  /\ running' = [running EXCEPT ![w] = g]
  /\ done' = done \cup {g}
  /\ UNCHANGED <<kernel, openFds, closing, opener>>

(* The invocation returns.                                                 *)
EndInvocation(w) ==
  /\ running[w] # None
  /\ closing[w] = None
  /\ running' = [running EXCEPT ![w] = None]
  /\ UNCHANGED <<kernel, openFds, done, closing, opener>>

(* __syscall_open: a non-zero mode traps; a whitelisted path is opened     *)
(* read-only on its host file, and the descriptor is registered when      *)
(* fd > 0; any other outcome (blocked path, open failing, fd 0) traps.     *)
Open(w, path, mode) ==
  /\ running[w] # None
  /\ closing[w] = None
  /\ \/ /\ mode # 0 \/ path \notin Whitelist \/ LowestFree < 0
        /\ Trap(w)
        /\ UNCHANGED <<kernel, openFds, opener>>
     \/ /\ mode = 0 /\ path \in Whitelist /\ LowestFree = 0
        /\ kernel' = kernel \cup {0}
        /\ opener' = [opener EXCEPT ![0] = running[w]]
        /\ Trap(w)
        /\ UNCHANGED openFds
     \/ /\ mode = 0 /\ path \in Whitelist /\ LowestFree > 0
        /\ kernel' = kernel \cup {LowestFree}
        /\ openFds' = [openFds EXCEPT ![w] = @ \cup {LowestFree}]
        /\ opener' = [opener EXCEPT ![LowestFree] = running[w]]
        /\ UNCHANGED running
  /\ UNCHANGED <<done, closing>>

(* socketcall(sc_socket): the result of socket(2) is registered as it     *)
(* is; the guest's domain, type and protocol may make the call fail (-1). *)
Socket(w) ==
  /\ running[w] # None
  /\ closing[w] = None
  /\ \/ /\ LowestFree >= 0
        /\ kernel' = kernel \cup {LowestFree}
        /\ openFds' = [openFds EXCEPT ![w] = @ \cup {LowestFree}]
        /\ opener' = [opener EXCEPT ![LowestFree] = running[w]]
     \/ /\ openFds' = [openFds EXCEPT ![w] = @ \cup {-1}]
        /\ UNCHANGED <<kernel, opener>>
  /\ UNCHANGED <<running, done, closing>>

(* Variant: close without openFds.erase.                                  *)
CloseNoErase(w, fd) ==
  /\ running[w] # None
  /\ closing[w] = None
  /\ \/ /\ Owns(w, fd)
        /\ closing' = [closing EXCEPT ![w] = fd]
        /\ UNCHANGED <<running, kernel, openFds>>
     \/ /\ ~Owns(w, fd)
        /\ Trap(w)
        /\ UNCHANGED <<kernel, openFds, closing>>
  /\ UNCHANGED <<done, opener>>

(* __syscall_close, first half: checkThreadOwnsFd, then openFds.erase.     *)
CloseErase(w, fd) ==
  /\ running[w] # None
  /\ closing[w] = None
  /\ \/ /\ Owns(w, fd)
        /\ openFds' = [openFds EXCEPT ![w] = @ \ {fd}]
        /\ closing' = [closing EXCEPT ![w] = fd]
        /\ UNCHANGED <<running, kernel>>
     \/ /\ ~Owns(w, fd)
        /\ Trap(w)
        /\ UNCHANGED <<kernel, openFds, closing>>
  /\ UNCHANGED <<done, opener>>

(* __syscall_close, second half: close(2) (EBADF on -1 is ignored), then  *)
(* return 0.                                                                *)
CloseKernel(w) ==
  /\ closing[w] # None
  /\ kernel' = kernel \ {closing[w]}
  /\ closing' = [closing EXCEPT ![w] = None]
  /\ UNCHANGED <<openFds, running, done, opener>>

(* __syscall_fcntl64, __syscall_read and __syscall_poll of one fd: each    *)
(* starts with checkThreadOwnsFd; fcntl is a no-op, and the read(2) or     *)
(* poll(2) that follows changes no descriptor.                             *)
FdSyscall(w, fd) ==
  /\ running[w] # None
  /\ closing[w] = None
  /\ ~Owns(w, fd)
  /\ Trap(w)
  /\ UNCHANGED <<kernel, openFds, done, closing, opener>>

(* __syscall_socketcall connect, bind, send, recv, sendto, recvfrom,      *)
(* getsockname: the same check on the socket argument, then a kernel call *)
(* that changes no descriptor.                                             *)
UseFd(w, fd) ==
  /\ running[w] # None
  /\ closing[w] = None
  /\ ~Owns(w, fd)
  /\ Trap(w)
  /\ UNCHANGED <<kernel, openFds, done, closing, opener>>

(* listen, accept, poll of several fds and the unsupported syscalls        *)
(* (readv, llseek, futex, fstat64, stat64, access, ...) trap.              *)
Unsupported(w) ==
  /\ running[w] # None
  /\ closing[w] = None
  /\ Trap(w)
  /\ UNCHANGED <<kernel, openFds, done, closing, opener>>

\* Descriptors a guest may name: every number and the -1 of a failed call.
FdArgs == FdNums \cup {-1}

Next ==
  \/ \E w \in Workers, g \in Guests : StartInvocation(w, g)
  \/ \E w \in Workers :
       \/ EndInvocation(w)
       \/ \E p \in Paths, m \in {0, 1} : Open(w, p, m)
       \/ Socket(w)
       \/ \E fd \in FdArgs : CloseErase(w, fd) \/ FdSyscall(w, fd) \/ UseFd(w, fd)
       \/ CloseKernel(w)
       \/ Unsupported(w)

Spec == Init /\ [][Next]_vars

-----------------------------------------------------------------------------
(* Properties.                                                             *)

TypeOK ==
  /\ kernel \subseteq FdNums
  /\ openFds \in [Workers -> SUBSET FdArgs]
  /\ running \in [Workers -> Guests \cup {None}]
  /\ done \subseteq Guests
  /\ closing \in [Workers -> FdArgs \cup {None}]
  /\ opener \in [FdNums -> Guests \cup {None}]

(* checkThreadOwnsFd admits a descriptor only while it is open: every      *)
(* registered number is open in the process, and no two workers' registries *)
(* hold the same number, across concurrent opens, sockets and closes.      *)
OwnedOpenAndExclusive ==
  /\ \A w \in Workers : openFds[w] \cap FdNums \subseteq kernel
  /\ \A v, w \in Workers : v # w => openFds[v] \cap openFds[w] \cap FdNums = {}

(* Spec 3 and 4.B: the registry holds the descriptors owned by the guest  *)
(* that is executing: every descriptor it admits was obtained by that      *)
(* invocation.                                                              *)
FdIsolation ==
  \A w \in Workers : running[w] # None =>
    \A n \in openFds[w] \cap FdNums : opener[n] = running[w]

(* Spec 3: a descriptor enters the registry only on a successful open or  *)
(* socket.                                                                  *)
RegistryHoldsDescriptors ==
  \A w \in Workers : openFds[w] \subseteq FdNums

(* Spec S1 ("returns fd >= 0"): a descriptor a guest's open obtained from  *)
(* the kernel is in its registry or being closed, never left open unowned. *)
NoUnownedDescriptor ==
  \A n \in kernel \ HostFds :
    \E w \in Workers : n \in openFds[w] \/ closing[w] = n

=============================================================================

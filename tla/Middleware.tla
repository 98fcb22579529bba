----------------------------- MODULE Middleware -----------------------------
(***************************************************************************)
(* User programs on the middleware library: each run of a program opens    *)
(* the device (Eal), gets a buffer of huge pages (HugePage) or of kernel   *)
(* pages (MmapRing), runs descriptors on it and gives it back.  Programs   *)
(* run side by side, fork, and are killed at any point; between programs   *)
(* the driver may be loaded again, as restart.sh does.                     *)
(***************************************************************************)
EXTENDS MmapRing, HugePage

CONSTANTS
  HugeSizes,      \* numbers of huge pages asked for; 0 is all free pages
  Requests,       \* [address, length] of the descriptors
  MaxMaps,        \* bound on the kernel mappings alive
  MaxFaults       \* bound on kills, interrupted ioctls and forks

(* A buffer has no more huge pages than page_address has entries, which    *)
(* the driver does not test.                                               *)
ASSUME MiddlewareAssumption ==
  /\ HugeSizes \subseteq 0 .. MaxHuge /\ Cardinality(Frames) <= MaxHuge
  /\ Requests \subseteq [address : Nat, length : Nat]

VARIABLES
  USE_HUGE_PAGES, \* how the program is built
  pc,             \* what each process does next; "begin" when none runs
  request,        \* the descriptor running, as the program gave it
  target,         \* memory and address the engine was given for it
  faults,         \* kills, interrupted ioctls and forks so far
  clean           \* history: no program with a huge page buffer was killed,
                  \* no ioctl of one interrupted, and no two registrations
                  \* of huge pages overlapped

mwVars == <<USE_HUGE_PAGES, pc, request, target, faults, clean>>
vars == <<ealVars, ringVars, hugeVars, mwVars>>

NoRequest == [address |-> 0, length |-> 0]
NoTarget == [mem |-> "none", base |-> 0]

Init ==
  /\ EalInit
  /\ RingInit
  /\ HugeInit
  /\ USE_HUGE_PAGES \in BOOLEAN
  /\ ~USE_HUGE_PAGES => gigantic   \* the size of huge pages makes no difference
  /\ pc = [p \in Procs |-> "begin"]
  /\ request = [p \in Procs |-> NoRequest]
  /\ target = [p \in Procs |-> NoTarget]
  /\ faults = 0
  /\ clean = TRUE

At(p, label) == pc[p] = label

Goto(p, label) == pc' = [pc EXCEPT ![p] = label]

Keeps == UNCHANGED <<USE_HUGE_PAGES, request, target, faults, clean>>

Fault == faults < MaxFaults /\ faults' = faults + 1

-----------------------------------------------------------------------------
(* fpgaInit *)
Begin(p) ==
  /\ At(p, "begin")
  /\ \/ rte_eal_init(p, FALSE) /\ Goto(p, "exit")
     \/ /\ rte_eal_init(p, TRUE)
        /\ Goto(p, IF USE_HUGE_PAGES THEN "open file" ELSE "mmap")
  /\ Keeps /\ UNCHANGED <<ringVars, hugeVars>>

(* getFreeHugePages *)
GetHuge(p) ==
  /\ \/ At(p, "open file") /\ (\E n \in HugeSizes : OpenFile(p, n)) /\ Goto(p, "map file")
     \/ At(p, "open file") /\ UNCHANGED hugeVars /\ Goto(p, "exit")
     \/ At(p, "map file") /\ MapFile(p) /\ Goto(p, "register")
     \/ At(p, "map file") /\ MapFails(p) /\ Goto(p, "exit")
  /\ Keeps /\ UNCHANGED <<ealVars, ringVars>>

(* The result of the ioctl is not looked at.                               *)
RegisterBuffer(p) ==
  /\ At(p, "register") /\ getCharDeviceDescriptor(p) = "open"
  /\ \/ Register(p) /\ clean' = (clean /\ holder = Nobody) /\ UNCHANGED faults
     \/ Fault /\ UNCHANGED hugeVars /\ clean' = FALSE
  /\ Goto(p, "huge loop")
  /\ UNCHANGED <<ealVars, ringVars, USE_HUGE_PAGES, request, target>>

(* unsetHugeFreePages *)
UnregisterBuffer(p) ==
  /\ At(p, "unregister")
  /\ \/ Unregister(p) /\ clean' = (clean /\ holder = p) /\ UNCHANGED faults
     \/ Fault /\ UNCHANGED hugeVars /\ clean' = FALSE
  /\ Goto(p, "free")
  /\ UNCHANGED <<ealVars, ringVars, USE_HUGE_PAGES, request, target>>

ReleaseHuge(p) ==
  /\ \/ At(p, "free") /\ FreeHugepage(p) /\ Goto(p, "unlink")
     \/ At(p, "unlink") /\ Unlink(p) /\ Goto(p, "exit")
  /\ Keeps /\ UNCHANGED <<ealVars, ringVars>>

(* getFreePages; NULL when mmap fails.                                     *)
GetKernel(p) ==
  /\ At(p, "mmap") /\ Len(maps) < MaxMaps
  /\ \E n \in Sizes : IF Free(n) THEN Mmap(p, n) /\ Goto(p, "mapping")
                      ELSE UNCHANGED ringVars /\ Goto(p, "exit")
  /\ Keeps /\ UNCHANGED <<ealVars, hugeVars>>

InRing(p) ==
  /\ \/ RemapFails(p) /\ Goto(p, "exit")
     \/ StoreLast(p) /\ Goto(p, "kernel loop")
     \/ StoreFirst(p) /\ Goto(p, IF At(p, "closing") THEN "exit" ELSE pc[p])
     \/ (Remap(p) \/ LoadLast(p)) /\ UNCHANGED pc
  /\ Keeps /\ UNCHANGED <<ealVars, hugeVars>>

(* unsetFreePages, or the kernel closing the mapping of a dying process.   *)
ReleaseKernel(p) ==
  /\ At(p, "unset")
  /\ \E i \in DOMAIN maps : mmap_close(p, i)
  /\ Goto(p, IF call'[p].at = "none" THEN "exit" ELSE "closing")
  /\ Keeps /\ UNCHANGED <<ealVars, hugeVars>>

(* A child inherits a mapping, and ends before or after its parent.        *)
Child(p) ==
  /\ \E i \in DOMAIN maps : \/ Fork(p, i) /\ Fault
                            \/ ChildCloses(p, i) /\ UNCHANGED faults
  /\ UNCHANGED <<ealVars, hugeVars, USE_HUGE_PAGES, pc, request, target, clean>>

-----------------------------------------------------------------------------
(* writeDescriptor: the address is translated under the buffer the driver  *)
(* has at this moment, whoever registered it.                              *)
TargetOf(address) ==
  IF buffer.virtual THEN [mem |-> "huge", base |-> Translated(address)]
  ELSE [mem |-> "kernel", base |-> mmap_info.first + address]

WriteDescriptor(p) ==
  /\ At(p, "huge loop") /\ target[p] = NoTarget
  /\ \E r \in Requests :
       /\ r.address + r.length <= Total(p)
       /\ buffer.virtual => InOneHugePage(r.address, r.length)
       /\ request' = [request EXCEPT ![p] = r]
       /\ target' = [target EXCEPT ![p] = TargetOf(r.address)]
  /\ UNCHANGED <<ealVars, ringVars, hugeVars, USE_HUGE_PAGES, pc, faults, clean>>

(* readDescriptor returns when the engine is done.                         *)
ReadDescriptor(p) ==
  /\ target[p] # NoTarget
  /\ request' = [request EXCEPT ![p] = NoRequest]
  /\ target' = [target EXCEPT ![p] = NoTarget]
  /\ UNCHANGED <<ealVars, ringVars, hugeVars, USE_HUGE_PAGES, pc, faults, clean>>

LeaveLoop(p) ==
  /\ target[p] = NoTarget
  /\ \/ At(p, "huge loop") /\ Goto(p, "unregister")
     \/ At(p, "kernel loop") /\ Goto(p, "unset")
  /\ Keeps /\ UNCHANGED <<ealVars, ringVars, hugeVars>>

-----------------------------------------------------------------------------
(* fpgaExit: rte_free, then the end of the process.                        *)
Exit(p) ==
  /\ At(p, "exit") /\ rte_free(p) /\ Goto(p, "end")
  /\ Keeps /\ UNCHANGED <<ringVars, hugeVars>>

End(p) ==
  /\ At(p, "end") /\ EalEnds(p) /\ DropAll(p) /\ Goto(p, "begin")
  /\ Keeps /\ UNCHANGED ringVars

(* Killed, or returning from main, without giving the buffer back.         *)
Kill(p) ==
  /\ pc[p] \notin {"begin", "exit", "end", "unset", "closing", "mapping"}
  /\ Fault
  /\ Goto(p, IF At(p, "kernel loop") THEN "unset" ELSE "end")
  /\ clean' = (clean /\ pc[p] \in {"kernel loop", "mmap", "open file"})
  /\ request' = [request EXCEPT ![p] = NoRequest]
  /\ target' = [target EXCEPT ![p] = NoTarget]
  /\ UNCHANGED <<ealVars, ringVars, hugeVars, USE_HUGE_PAGES>>

(* restart.sh: rmmod needs that nobody has the device open or mapped; the  *)
(* module comes back with a new card and new static variables.             *)
(* Mutant: the ring indices survive.                                       *)
RestartKeepsRing ==
  /\ \A p \in Procs : fd[p] # "open" /\ call[p] = Outside
  /\ maps = << >>
  /\ made' = 0 /\ UNCHANGED <<mmap_info, maps, call, orderly>>
  /\ buffer' = NoBuffer /\ pages' = {} /\ holder' = Nobody
  /\ UNCHANGED <<gigantic, name, inode, hp, pins, ealVars, mwVars>>

Restart ==
  /\ \A p \in Procs : fd[p] # "open" /\ call[p] = Outside
  /\ maps = << >>
  /\ mmap_info' = NewRing /\ made' = 0 /\ UNCHANGED <<maps, call, orderly>>
  /\ buffer' = NoBuffer /\ pages' = {} /\ holder' = Nobody
  /\ UNCHANGED <<gigantic, name, inode, hp, pins, ealVars, mwVars>>

Huge(p) == GetHuge(p) \/ RegisterBuffer(p) \/ UnregisterBuffer(p) \/ ReleaseHuge(p)

Kernel(p) == GetKernel(p) \/ InRing(p) \/ ReleaseKernel(p) \/ Child(p)

Next ==
  \/ \E p \in Procs : \/ Begin(p) \/ Huge(p) \/ Kernel(p) \/ WriteDescriptor(p)
                      \/ ReadDescriptor(p) \/ LeaveLoop(p) \/ Exit(p) \/ End(p) \/ Kill(p)
  \/ Restart

Spec == Init /\ [][Next]_vars

-----------------------------------------------------------------------------
TypeOK ==
  /\ RingTypeOK
  /\ HugeTypeOK
  /\ pc \in [Procs -> {"begin", "open file", "map file", "register", "huge loop",
                       "unregister", "free", "unlink", "mmap", "mapping",
                       "kernel loop", "unset", "closing", "exit", "end"}]
  /\ USE_HUGE_PAGES \in BOOLEAN
  /\ faults \in 0 .. MaxFaults
  /\ clean \in BOOLEAN

(* Nothing leaks: when no program uses huge pages any more, the file name  *)
(* is gone, no frame is pinned and the whole pool is free, provided every  *)
(* program got to give its buffer back and no two were registered at once. *)
(* free_hugepage, unreg_hugemem and the cleanup of the kernel together     *)
(* have to release what alloc_hugepage and reg_hugemem took.               *)
PoolReturned ==
  clean /\ (\A p \in Procs : pc[p] \in {"begin", "open file"}) =>
    name = 0 /\ UsedFrames = {}

(* A descriptor reaches the bytes the program asked for: the address the   *)
(* driver hands to the engine, computed from page_address and page_size,   *)
(* is the physical address of that byte of the program's own buffer, and   *)
(* so are the bytes behind it, in frames that are pinned.  It holds while  *)
(* the registration of the program is the one in force, for 1 GB pages or  *)
(* for a buffer of one page.                                               *)
DescriptorHitsBuffer ==
  \A p \in Procs :
    holder = p /\ target[p] # NoTarget /\ (gigantic \/ hp[p].npages = 1) =>
      \A k \in 0 .. request[p].length - 1 :
        LET byte == Phys(hp[p].data, request[p].address + k) IN
        target[p].base + k = byte /\ pins[byte \div HugeBytes] > 0

=============================================================================

------------------------------ MODULE HugePage ------------------------------
(***************************************************************************)
(* The huge page buffer of a program: the file of the huge page file       *)
(* system that huge_page.c creates, maps and unlinks, and what the driver  *)
(* keeps of the buffer a program registers (nfpmem.c), down to the address *)
(* arithmetic of a descriptor.  Every process uses the same file name.     *)
(*                                                                         *)
(* The file system is external: opening creates the file when there is no  *)
(* such name, mapping it reserves frames for what the file lacks, and the  *)
(* frames of a file return to the pool when it has neither a name nor a    *)
(* user; a frame the driver has pinned does not return.  Frame f covers    *)
(* the physical bytes f * HugeBytes .. (f + 1) * HugeBytes - 1.            *)
(***************************************************************************)
EXTENDS Eal, Naturals, Sequences, FiniteSets, Functions

CONSTANTS
  Frames,         \* huge frames of the pool, positive numbers
  HugeBytes,      \* bytes of a huge page
  HugeKilo,       \* bytes of a huge page, in units of 1024 bytes
  PAGE_SIZE,      \* bytes of a system page
  MaxHuge,        \* entries of buffer.page_address
  MaxPins         \* bound on the references the driver holds on a frame

ASSUME HugeAssumption ==
  /\ {HugeBytes, HugeKilo, PAGE_SIZE, MaxHuge, MaxPins} \subseteq Nat \ {0}
  /\ HugeBytes % PAGE_SIZE = 0 /\ HugeKilo <= HugeBytes
  /\ Frames \subseteq Nat \ {0}
  /\ IsFiniteSet(Frames) /\ IsFiniteSet(Procs)
  /\ 0 \notin Procs

VARIABLES
  gigantic,       \* the system has 1 GB pages (otherwise 2 MB pages only)
  name,           \* the inode linked as FILE_NAME, or 0
  inode,          \* the frames of each inode
  hp,             \* struct hugepage of each process, and what it has mapped
  buffer,         \* card->buffer
  pages,          \* the frames of the pages array of nfpmem.c
  pins,           \* references the driver holds on each frame
  holder          \* history: the process whose registration is in force

hugeVars == <<gigantic, name, inode, hp, buffer, pages, pins, holder>>

Inodes == 1 .. Cardinality(Procs) + 1

Nobody == 0

NoHp == [identifier |-> 0, data |-> 0, kept |-> 0, npages |-> 0]

NoBuffer ==
  [virtual |-> FALSE, length |-> 0, page_size |-> 0,
   page_address |-> [i \in 0 .. MaxHuge - 1 |-> 0]]

HugeInit ==
  /\ gigantic \in BOOLEAN
  /\ name = 0
  /\ inode = [i \in Inodes |-> << >>]
  /\ hp = [p \in Procs |-> NoHp]
  /\ buffer = NoBuffer
  /\ pages = {}
  /\ pins = [f \in Frames |-> 0]
  /\ holder = Nobody

-----------------------------------------------------------------------------
InUse(i) == i = name \/ \E p \in Procs : i \in {hp[p].identifier, hp[p].data, hp[p].kept}

(* Inodes without name and user disappear, and their frames with them.     *)
Reap == inode' = [i \in Inodes |-> IF InUse(i)' THEN inode[i] ELSE << >>]

UsedFrames == UNION {Range(inode[i]) : i \in Inodes} \cup {f \in Frames : pins[f] > 0}

FreeFrames == Frames \ UsedFrames

(* Physical address of byte b of a file.                                   *)
Phys(i, b) == inode[i][b \div HugeBytes + 1] * HugeBytes + (b % HugeBytes)

(* For 2 MB pages the size is the number in the name of the directory.     *)
(* Only the existence of the directories is looked at; left out are a mount*)
(* of the other size, and a machine without huge pages (size 0).           *)
hugepage_size == IF gigantic THEN HugeBytes ELSE HugeKilo

(* There is no directory hugepages-2kB.                                    *)
hugepage_number == IF gigantic THEN Cardinality(FreeFrames) ELSE 0

Total(p) == hp[p].npages * hugepage_size

-----------------------------------------------------------------------------
(* getFreeHugePages up to the open in alloc_hugepage; the number of free   *)
(* pages is read here and used when the file is mapped.                    *)
OpenFile(p, npages) ==
  \E i \in Inodes :
    /\ IF name = 0 THEN ~InUse(i) /\ name' = i ELSE i = name /\ UNCHANGED name
    /\ hp' = [hp EXCEPT ![p].identifier = i,
                        ![p].npages = IF npages = 0 THEN hugepage_number ELSE npages]
    /\ UNCHANGED <<gigantic, inode, buffer, pages, pins, holder>>

(* The huge pages that cover a mapping: mmap rounds the length up.         *)
Covers(bytes) == (bytes + HugeBytes - 1) \div HugeBytes

Missing(p) ==
  IF Covers(Total(p)) > Len(inode[hp[p].identifier])
  THEN Covers(Total(p)) - Len(inode[hp[p].identifier]) ELSE 0

MapFile(p) ==
  LET i == hp[p].identifier IN
  /\ Total(p) > 0
  /\ \E new \in [1 .. Missing(p) -> FreeFrames] :
       /\ IsInjective(new)
       /\ inode' = [inode EXCEPT ![i] = @ \o new]
  /\ hp' = [hp EXCEPT ![p].data = i]
  /\ UNCHANGED <<gigantic, name, buffer, pages, pins, holder>>

(* The pool is empty, or another program takes the pages, or the length is *)
(* 0: the name is removed, whoever uses the file.                          *)
MapFails(p) ==
  /\ name' = 0
  /\ UNCHANGED hp
  /\ Reap
  /\ UNCHANGED <<gigantic, buffer, pages, pins, holder>>

(* free_hugepage: munmap of the size that was asked for, which fails when  *)
(* it is no multiple of the huge page, and close; unlink; memset.          *)
FreeHugepage(p) ==
  /\ hp' = [hp EXCEPT ![p].identifier = 0,
                      ![p].data = 0,
                      ![p].kept = IF Total(p) % HugeBytes = 0 THEN 0 ELSE hp[p].data]
  /\ UNCHANGED name
  /\ Reap
  /\ UNCHANGED <<gigantic, buffer, pages, pins, holder>>

Unlink(p) ==
  /\ name' = 0
  /\ UNCHANGED hp
  /\ Reap
  /\ UNCHANGED <<gigantic, buffer, pages, pins, holder>>

(* The kernel closes and unmaps what a process still has when it ends.     *)
DropAll(p) ==
  /\ hp' = [hp EXCEPT ![p] = NoHp]
  /\ holder' = IF holder = p THEN Nobody ELSE holder
  /\ UNCHANGED name
  /\ Reap
  /\ UNCHANGED <<gigantic, buffer, pages, pins>>

-----------------------------------------------------------------------------
(* getUserHugePages: the system pages of the buffer, and the address of    *)
(* the first system page of each huge page.                                *)
SystemPages(nbytes) == (nbytes - 1) \div PAGE_SIZE + 1

HugePagesOf(length, hp_size) ==
  length \div hp_size + (IF hp_size * (length \div hp_size) = length THEN 0 ELSE 1)

(* Mutant: the index of the huge page is not scaled to system pages.       *)
PageAddressUnscaled(i, hp_size, n) == Phys(i, n * PAGE_SIZE)

PageAddress(i, hp_size, n) == Phys(i, (hp_size \div PAGE_SIZE) * n * PAGE_SIZE)

Pinned(i, nbytes) ==
  {Phys(i, n * PAGE_SIZE) \div HugeBytes : n \in 0 .. SystemPages(nbytes) - 1}

(* reg_hugemem: the array of the previous registration is overwritten, its *)
(* pages stay pinned.                                                      *)
Register(p) ==
  LET i == hp[p].data IN
  /\ \A f \in Pinned(i, Total(p)) : pins[f] < MaxPins
  /\ buffer' = [virtual |-> TRUE, length |-> Total(p), page_size |-> hugepage_size,
                page_address |-> [n \in 0 .. MaxHuge - 1 |->
                  IF n < HugePagesOf(Total(p), hugepage_size)
                  THEN PageAddress(i, hugepage_size, n) ELSE buffer.page_address[n]]]
  /\ pages' = Pinned(i, Total(p))
  /\ pins' = [f \in Frames |-> pins[f] + IF f \in Pinned(i, Total(p)) THEN 1 ELSE 0]
  /\ holder' = p
  /\ UNCHANGED <<gigantic, name, inode, hp>>

(* unreg_hugemem, for any process; page_address and virtual stay.          *)
(* Mutant: the pages are forgotten, not released.                          *)
UnregisterKeepsPins(p) ==
  /\ buffer' = [buffer EXCEPT !.length = 0]
  /\ pages' = {}
  /\ holder' = Nobody
  /\ UNCHANGED pins
  /\ UNCHANGED <<gigantic, name, inode, hp>>

Unregister(p) ==
  /\ buffer' = [buffer EXCEPT !.length = 0]
  /\ IF buffer.length > 0
     THEN /\ pages' = {}
          /\ pins' = [f \in Frames |-> IF f \in pages THEN pins[f] - 1 ELSE pins[f]]
     ELSE UNCHANGED <<pages, pins>>
  /\ holder' = Nobody
  /\ UNCHANGED <<gigantic, name, inode, hp>>

(* NFPIOC_WRITE_DMA_DESCRIPTOR: "We do not exceed a huge page".            *)
InOneHugePage(address, length) ==
  (address + length) \div buffer.page_size = address \div buffer.page_size

Translated(address) ==
  buffer.page_address[address \div buffer.page_size] + (address % buffer.page_size)

HugeTypeOK ==
  /\ gigantic \in BOOLEAN
  /\ name \in Inodes \cup {0}
  /\ inode \in [Inodes -> Seq(Frames)]
  /\ hp \in [Procs -> [identifier : Inodes \cup {0}, data : Inodes \cup {0},
                       kept : Inodes \cup {0}, npages : Nat]]
  /\ buffer \in [virtual : BOOLEAN, length : Nat, page_size : Nat,
                 page_address : [0 .. MaxHuge - 1 -> Nat]]
  /\ pages \subseteq Frames
  /\ pins \in [Frames -> 0 .. MaxPins]
  /\ holder \in Procs \cup {Nobody}

=============================================================================

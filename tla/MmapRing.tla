------------------------------ MODULE MmapRing ------------------------------
(***************************************************************************)
(* The kernel buffer that user programs map (nfpioctl.c, mmap_kmem and     *)
(* mmap_close): MAX_PAGES contiguous pages handed out as a ring with the   *)
(* indices first and last.  Neither function takes the semaphore of the    *)
(* card: each is split where it reads and where it writes the indices, so  *)
(* that two processes can be inside.  When a program forks, the child has  *)
(* a copy of the mapping, of which the driver is not told.                 *)
(***************************************************************************)
EXTENDS Eal, Naturals, Sequences, FiniteSets

CONSTANTS
  MAX_PAGES,
  Sizes,          \* numbers of pages the programs map
  MaxChildren     \* bound on the children that inherit a mapping

ASSUME RingAssumption ==
  /\ MAX_PAGES \in Nat \ {0}
  /\ Sizes \subseteq Nat \ {0}
  /\ MaxChildren \in Nat

VARIABLES
  mmap_info,      \* [first, last, active] of the card
  maps,           \* the mappings alive, oldest first
  call,           \* where each process is in mmap_kmem or mmap_close
  made,           \* history: pages handed out since the driver was loaded
  orderly         \* history: nobody has forked with a mapping, mappings are
                  \* closed in the order they were made, and no two
                  \* processes were inside at the same time

ringVars == <<mmap_info, maps, call, made, orderly>>

Outside == [at |-> "none", npages |-> 0, index |-> 0]

NewRing == [first |-> 0, last |-> 0, active |-> FALSE]

RingInit ==
  /\ mmap_info = NewRing
  /\ maps = << >>
  /\ call = [p \in Procs |-> Outside]
  /\ made = 0
  /\ orderly = TRUE

Plus(page, n) == (page + n) % MAX_PAGES

Alone(p) == \A q \in Procs \ {p} : call[q].at = "none"

Goes(p, at) == call[p].at = at

Returns(p) == call' = [call EXCEPT ![p] = Outside]

-----------------------------------------------------------------------------
(* mmap_kmem.  The loop over the free pages; -EAGAIN when the ring is full.*)
(* Mutant: the free pages are counted one too many.                        *)
FreeOneMore(npages) ==
  \A i \in 1 .. npages - 1 : Plus(mmap_info.last, i) # mmap_info.first

Free(npages) ==
  \A i \in 1 .. npages : Plus(mmap_info.last, i) # mmap_info.first

Mmap(p, npages) ==
  /\ Goes(p, "none") /\ Free(npages)
  /\ call' = [call EXCEPT ![p] = [at |-> "remap", npages |-> npages, index |-> 0]]
  /\ orderly' = (orderly /\ Alone(p))
  /\ UNCHANGED <<mmap_info, maps, made>>

(* remap_pfn_range: the pages from last on, contiguous in memory.          *)
Remap(p) ==
  /\ Goes(p, "remap")
  /\ maps' = Append(maps, [owner |-> p, start |-> mmap_info.last,
                           npages |-> call[p].npages, mine |-> TRUE, children |-> 0])
  /\ call' = [call EXCEPT ![p].at = "load"]
  /\ made' = IF made + call[p].npages < MAX_PAGES THEN made + call[p].npages ELSE MAX_PAGES
  /\ orderly' = (orderly /\ Alone(p))
  /\ UNCHANGED mmap_info

RemapFails(p) ==
  /\ Goes(p, "remap")
  /\ Returns(p)
  /\ UNCHANGED <<mmap_info, maps, made, orderly>>

(* last = (last + npages) % MAX_PAGES: a load and a store.                 *)
LoadLast(p) ==
  /\ Goes(p, "load")
  /\ call' = [call EXCEPT ![p].at = "store", ![p].index = mmap_info.last]
  /\ UNCHANGED <<mmap_info, maps, made, orderly>>

StoreLast(p) ==
  /\ Goes(p, "store")
  /\ mmap_info' = [mmap_info EXCEPT !.last = Plus(call[p].index, call[p].npages),
                                    !.active = TRUE]
  /\ Returns(p)
  /\ UNCHANGED <<maps, made, orderly>>

-----------------------------------------------------------------------------
(* mmap_close.  Mapping i of process p goes away when the process and the  *)
(* children that inherited it have all closed it; the driver moves first   *)
(* each time.  A child closing takes the place of its parent in call.      *)
Without(i, m) ==
  IF m.mine \/ m.children > 0 THEN [maps EXCEPT ![i] = m]
  ELSE SubSeq(maps, 1, i - 1) \o SubSeq(maps, i + 1, Len(maps))

Closes(p, i, m) ==
  /\ Goes(p, "none")
  /\ maps[i].owner = p
  /\ maps' = Without(i, m)
  /\ orderly' = (orderly /\ i = 1 /\ Alone(p))
  /\ IF mmap_info.first = mmap_info.last
     THEN mmap_info' = [mmap_info EXCEPT !.active = FALSE] /\ UNCHANGED call
     ELSE /\ call' = [call EXCEPT ![p] = [at |-> "close", npages |-> maps[i].npages,
                                          index |-> mmap_info.first]]
          /\ UNCHANGED mmap_info
  /\ UNCHANGED made

mmap_close(p, i) == maps[i].mine /\ Closes(p, i, [maps[i] EXCEPT !.mine = FALSE])

ChildCloses(p, i) ==
  maps[i].children > 0 /\ Closes(p, i, [maps[i] EXCEPT !.children = @ - 1])

(* Mutant: a page at a time.                                               *)
StoreFirstOnePage(p) ==
  /\ Goes(p, "close")
  /\ mmap_info' = [mmap_info EXCEPT !.first = Plus(call[p].index, 1)]
  /\ Returns(p)
  /\ UNCHANGED <<maps, made, orderly>>

StoreFirst(p) ==
  /\ Goes(p, "close")
  /\ mmap_info' = [mmap_info EXCEPT !.first = Plus(call[p].index, call[p].npages)]
  /\ Returns(p)
  /\ UNCHANGED <<maps, made, orderly>>

(* mmap_vm_ops has no open method: a fork changes nothing in the driver.   *)
Fork(p, i) ==
  /\ maps[i].owner = p /\ maps[i].mine
  /\ maps[i].children < MaxChildren
  /\ maps' = [maps EXCEPT ![i].children = @ + 1]
  /\ orderly' = FALSE
  /\ UNCHANGED <<mmap_info, call, made>>

-----------------------------------------------------------------------------
Pages(m) == m.start .. m.start + m.npages - 1

(* The slots of the ring between first and last.                           *)
UsedSlots ==
  {Plus(mmap_info.first, i) : i \in
     0 .. ((mmap_info.last + MAX_PAGES - mmap_info.first) % MAX_PAGES) - 1}

RingTypeOK ==
  /\ mmap_info \in [first : 0 .. MAX_PAGES - 1, last : 0 .. MAX_PAGES - 1, active : BOOLEAN]
  /\ maps \in Seq([owner : Procs, start : 0 .. MAX_PAGES - 1, npages : Sizes,
                   mine : BOOLEAN, children : 0 .. MaxChildren])
  /\ call \in [Procs -> [at : {"none", "remap", "load", "store", "close"},
                         npages : Sizes \cup {0}, index : 0 .. MAX_PAGES - 1]]
  /\ made \in 0 .. MAX_PAGES
  /\ orderly \in BOOLEAN

(* A page is never mapped twice: as long as the programs are orderly, what *)
(* mmap_kmem hands out belongs to no mapping that is alive, although       *)
(* mmap_close moves first on without looking which mapping is closed.      *)
MappingsDisjoint ==
  orderly => \A i, j \in DOMAIN maps : i # j => Pages(maps[i]) \cap Pages(maps[j]) = {}

(* The ring says exactly which pages are mapped whenever no process is     *)
(* inside and the mappings lie in the pool: nothing leaks, and nothing is  *)
(* handed back before its mapping is closed (mmap_kmem moves last,         *)
(* mmap_close first).  A mapping that starts near the end of the pool does *)
(* not wrap as its slots do: remap_pfn_range gives it the pages behind the *)
(* allocation.                                                             *)
RingMatchesMappings ==
  orderly /\ (\A p \in Procs : call[p].at = "none")
          /\ (\A i \in DOMAIN maps : Pages(maps[i]) \subseteq 0 .. MAX_PAGES - 1)
  => UsedSlots = UNION {Pages(maps[i]) : i \in DOMAIN maps}

(* "A circular buffer of pages": mappings lie inside the allocated pages,  *)
(* until MAX_PAGES pages have been handed out since the driver was loaded; *)
(* from then on remap_pfn_range may be given pages behind the allocation.  *)
InsidePool ==
  made < MAX_PAGES => \A i \in DOMAIN maps : Pages(maps[i]) \subseteq 0 .. MAX_PAGES - 1

=============================================================================

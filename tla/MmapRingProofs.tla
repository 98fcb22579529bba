--------------------------- MODULE MmapRingProofs ---------------------------
(***************************************************************************)
(* The ring of kernel pages, for any number of programs and any sizes.     *)
(* The argument: while the programs are orderly, the mappings lie one      *)
(* behind the other in u slots of the ring from some slot f on; first lags *)
(* behind f only inside mmap_close and last behind f + u only inside       *)
(* mmap_kmem, by the pages of that call.                                   *)
(***************************************************************************)
EXTENDS Middleware, TLAPS

(* Slots of the ring from f on to x.                                       *)
Dist(f, x) == IF x >= f THEN x - f ELSE x + MAX_PAGES - f

Mmapping == {"load", "store"}

(* A process inside mmap_kmem or mmap_close, and how far the indices lag   *)
(* behind a ring that begins at f and has u slots in use.                  *)
CallInv(p, f, u) ==
  /\ call[p].at = "remap" => u + call[p].npages < MAX_PAGES
  /\ call[p].at \in Mmapping => /\ call[p].npages <= u
                                /\ mmap_info.last = Plus(f, u - call[p].npages)
  /\ call[p].at = "store" => call[p].index = mmap_info.last
  /\ call[p].at = "close" => /\ call[p].index = mmap_info.first
                             /\ f = Plus(mmap_info.first, call[p].npages)

Rests(f, u) ==
  /\ (\A p \in Procs : call[p].at # "close") => mmap_info.first = f
  /\ (\A p \in Procs : call[p].at \notin Mmapping) => mmap_info.last = Plus(f, u)

OneInside == \A p, q \in Procs : p # q => call[p].at = "none" \/ call[q].at = "none"

(* The mappings lie one behind the other in the u slots from f on, and     *)
(* leave none of these out.                                                *)
Laid(f, u) ==
  /\ \A i \in 1 .. Len(maps) : /\ maps[i].mine /\ maps[i].children = 0
                               /\ Dist(f, maps[i].start) + maps[i].npages <= u
  /\ \A i, j \in 1 .. Len(maps) :
       i < j => Dist(f, maps[i].start) + maps[i].npages <= Dist(f, maps[j].start)
  /\ \A x \in 0 .. u - 1 : \E i \in 1 .. Len(maps) :
       Dist(f, maps[i].start) <= x /\ x < Dist(f, maps[i].start) + maps[i].npages

Layout(f, u) == Rests(f, u) /\ Laid(f, u) /\ \A p \in Procs : CallInv(p, f, u)

OrderInv ==
  orderly => OneInside /\ \E f, u \in 0 .. MAX_PAGES - 1 : Layout(f, u)

(* Pages that have been mapped and are not yet counted in last.            *)
Owed == UNION {{p} \X (1 .. call[p].npages) : p \in {q \in Procs : call[q].at \in Mmapping}}

(* The indices stay behind the pages that were handed out.                 *)
PoolInv ==
  /\ IsFiniteSet(Owed)
  /\ made < MAX_PAGES =>
       /\ mmap_info.last + Cardinality(Owed) <= made
       /\ \A p \in Procs : call[p].at = "store" => call[p].index + Cardinality(Owed) <= made
       /\ \A i \in 1 .. Len(maps) : maps[i].start + maps[i].npages <= MAX_PAGES

RingInv == RingTypeOK /\ OrderInv /\ PoolInv

-----------------------------------------------------------------------------
(* Adding on the ring wraps at most once.                                  *)
LEMMA PlusIs ==
  ASSUME NEW page \in 0 .. MAX_PAGES - 1, NEW n \in 0 .. MAX_PAGES
  PROVE  /\ Plus(page, n) = IF page + n < MAX_PAGES THEN page + n ELSE page + n - MAX_PAGES
         /\ Plus(page, n) \in 0 .. MAX_PAGES - 1
<1>1. MAX_PAGES \in Nat \ {0}
  BY RingAssumption, Zenon
<1>2. CASE page + n < MAX_PAGES
  BY <1>1, <1>2, SMT DEF Plus
<1>3. CASE ~(page + n < MAX_PAGES)
  BY <1>1, <1>3, SMT DEF Plus
<1> QED BY <1>2, <1>3, Zenon

(* The indices stay on the ring.                                           *)
LEMMA PlusInRing ==
  ASSUME NEW page \in Nat, NEW n \in Nat
  PROVE  Plus(page, n) \in 0 .. MAX_PAGES - 1
  BY RingAssumption, SMT DEF Plus

(* What Next does to the ring.                                             *)
RingStep(p) ==
  \/ \E n \in Sizes : Mmap(p, n)
  \/ Remap(p) \/ RemapFails(p) \/ LoadLast(p) \/ StoreLast(p) \/ StoreFirst(p)
  \/ \E i \in DOMAIN maps : mmap_close(p, i) \/ ChildCloses(p, i) \/ Fork(p, i)

RingReset ==
  /\ maps = << >> /\ \A p \in Procs : call[p] = Outside
  /\ mmap_info' = NewRing /\ made' = 0 /\ UNCHANGED <<maps, call, orderly>>

(* The other parts of the system leave the ring alone.                     *)
LEMMA RingSteps ==
  ASSUME [Next]_vars
  PROVE  \/ UNCHANGED ringVars
         \/ \E p \in Procs : RingStep(p)
         \/ RingReset
<1>1. ASSUME NEW p \in Procs, Kernel(p)
      PROVE  UNCHANGED ringVars \/ RingStep(p)
  <2>1. CASE GetKernel(p) BY <2>1, Zenon DEF GetKernel, RingStep
  <2>2. CASE InRing(p) BY <2>2, Zenon DEF InRing, RingStep
  <2>3. CASE ReleaseKernel(p) BY <2>3, Zenon DEF ReleaseKernel, RingStep
  <2>4. CASE Child(p) BY <2>4, Zenon DEF Child, RingStep
  <2> QED BY <1>1, <2>1, <2>2, <2>3, <2>4, Zenon DEF Kernel
<1>2. ASSUME NEW p \in Procs,
             \/ Begin(p) \/ Huge(p) \/ WriteDescriptor(p)
             \/ ReadDescriptor(p) \/ LeaveLoop(p) \/ Exit(p) \/ End(p) \/ Kill(p)
      PROVE  UNCHANGED ringVars
  BY <1>2, ZenonT(30) DEF Begin, Huge, GetHuge, RegisterBuffer, UnregisterBuffer,
              ReleaseHuge, WriteDescriptor, ReadDescriptor, LeaveLoop, Exit, End, Kill
<1>3. CASE Restart
  BY <1>3, Zenon DEF Restart, RingReset
<1>4. CASE UNCHANGED vars
  BY <1>4, Zenon DEF vars
<1> QED BY <1>1, <1>2, <1>3, <1>4, Zenon DEF Next

-----------------------------------------------------------------------------
MapRecords == [owner : Procs, start : 0 .. MAX_PAGES - 1, npages : Sizes,
               mine : BOOLEAN, children : 0 .. MaxChildren]

CallRecords == {c \in [at : {"none", "remap", "load", "store", "close"},
                       npages : Sizes \cup {0}, index : 0 .. MAX_PAGES - 1] :
                  c.at # "none" => c.npages \in Sizes}

InfoRecords == [first : 0 .. MAX_PAGES - 1, last : 0 .. MAX_PAGES - 1, active : BOOLEAN]

RingTyped ==
  /\ mmap_info \in InfoRecords /\ maps \in Seq(MapRecords) /\ call \in [Procs -> CallRecords]
  /\ made \in 0 .. MAX_PAGES /\ orderly \in BOOLEAN

(* The type invariant, record by record, and that a call is about pages.   *)
LEMMA RingTypedIs == RingTyped => RingTypeOK
<1>1. CallRecords \subseteq [at : {"none", "remap", "load", "store", "close"},
                             npages : Sizes \cup {0}, index : 0 .. MAX_PAGES - 1]
  BY Zenon DEF CallRecords
<1>2. RingTyped => call \in [Procs -> [at : {"none", "remap", "load", "store", "close"},
                                      npages : Sizes \cup {0}, index : 0 .. MAX_PAGES - 1]]
  BY <1>1, Zenon DEF RingTyped
<1> QED BY <1>2, Zenon DEF RingTypeOK, RingTyped, InfoRecords, MapRecords

(* A number of pages is a number.                                          *)
LEMMA SizesNat == \A n \in Sizes \cup {0} : n \in Nat
  BY RingAssumption, SMTT(30)

(* The fields of the records.                                              *)
LEMMA CallFields ==
  ASSUME RingTyped, NEW p \in Procs
  PROVE  /\ call[p] \in CallRecords
         /\ call[p].npages \in Nat /\ call[p].npages \in Sizes \cup {0}
         /\ call[p].index \in 0 .. MAX_PAGES - 1
         /\ call[p].at \in {"none", "remap", "load", "store", "close"}
         /\ call[p].at # "none" => call[p].npages \in Sizes
<1>1. call[p] \in CallRecords
  BY Zenon DEF RingTyped
<1>2. /\ call[p].npages \in Sizes \cup {0} /\ call[p].index \in 0 .. MAX_PAGES - 1
      /\ call[p].at \in {"none", "remap", "load", "store", "close"}
      /\ call[p].at # "none" => call[p].npages \in Sizes
  BY <1>1, Zenon DEF CallRecords
<1>3. call[p].npages \in Nat
  BY <1>2, SizesNat, Zenon
<1> QED BY <1>1, <1>2, <1>3, Zenon

(* The mappings one by one.                                                *)
LEMMA MapFields ==
  ASSUME RingTyped
  PROVE  /\ Len(maps) \in Nat /\ DOMAIN maps = 1 .. Len(maps)
         /\ \A i \in 1 .. Len(maps) :
              /\ maps[i] \in MapRecords /\ maps[i].owner \in Procs
              /\ maps[i].start \in 0 .. MAX_PAGES - 1
              /\ maps[i].npages \in Sizes /\ maps[i].npages \in Nat \ {0}
              /\ maps[i].mine \in BOOLEAN /\ maps[i].children \in 0 .. MaxChildren
<1>1. Len(maps) \in Nat /\ DOMAIN maps = 1 .. Len(maps)
  BY SMTT(30) DEF RingTyped
<1>2. \A i \in 1 .. Len(maps) : maps[i] \in MapRecords
  BY <1>1, SMTT(30) DEF RingTyped
<1> QED BY <1>1, <1>2, RingAssumption, Zenon DEF MapRecords

(* The fields of the indices.                                              *)
LEMMA InfoFields ==
  ASSUME RingTyped
  PROVE  mmap_info.first \in 0 .. MAX_PAGES - 1 /\ mmap_info.last \in 0 .. MAX_PAGES - 1
  BY Zenon DEF RingTyped, InfoRecords

(* The mappings that are left when one is closed.                          *)
LEMMA WithoutTypes ==
  ASSUME NEW S, maps \in Seq(S), NEW i \in 1 .. Len(maps), NEW m \in S
  PROVE  Without(i, m) \in Seq(S)
<1>2. SubSeq(maps, 1, i - 1) \in Seq(S) /\ SubSeq(maps, i + 1, Len(maps)) \in Seq(S)
  BY SMTT(30)
<1>3. [maps EXCEPT ![i] = m] \in Seq(S)
  BY SMTT(30)
<1> QED BY <1>2, <1>3, SMTT(30) DEF Without

(* The types of the ring.                                                  *)
LEMMA RingTypes ==
  ASSUME RingTyped, UNCHANGED ringVars \/ (\E p \in Procs : RingStep(p)) \/ RingReset
  PROVE  RingTyped'
<1>1. MAX_PAGES \in Nat \ {0} /\ Sizes \subseteq Nat \ {0} /\ MaxChildren \in Nat
  BY RingAssumption, Zenon
<1>2. CASE UNCHANGED ringVars BY <1>2, Zenon DEF ringVars, RingTyped
<1>3. CASE RingReset BY <1>1, <1>3, SMTT(30) DEF RingReset, NewRing, RingTyped, InfoRecords
<1>4. ASSUME NEW p \in Procs, RingStep(p) PROVE RingTyped'
  <2>0. Outside \in CallRecords
    BY <1>1, SMTT(30) DEF CallRecords, Outside
  <2>1. ASSUME NEW n \in Sizes, Mmap(p, n) PROVE RingTyped'
    <3>1. [at |-> "remap", npages |-> n, index |-> 0] \in CallRecords
      BY <1>1, SMTT(30) DEF CallRecords
    <3> QED BY <2>1, <3>1, Zenon DEF Mmap, RingTyped
  <2>2. CASE Remap(p)
    <3>1. [owner |-> p, start |-> mmap_info.last,
           npages |-> call[p].npages, mine |-> TRUE, children |-> 0] \in MapRecords
      BY <1>1, <2>2, CallFields, InfoFields, SMTT(30) DEF Remap, Goes, MapRecords
    <3>2. [call[p] EXCEPT !.at = "load"] \in CallRecords
      BY <2>2, CallFields, Zenon DEF CallRecords, Remap, Goes
    <3>3. made' \in 0 .. MAX_PAGES
      BY <1>1, <2>2, CallFields, SMTT(30) DEF Remap, RingTyped
    <3>4. call' \in [Procs -> CallRecords]
      BY <2>2, <3>2, Zenon DEF Remap, RingTyped
    <3> QED BY <2>2, <3>1, <3>3, <3>4, SMTT(30) DEF Remap, RingTyped
  <2>3. CASE RemapFails(p)
    BY <2>3, <2>0, Zenon DEF RemapFails, Returns, RingTyped
  <2>4. CASE LoadLast(p)
    <3>1. [call[p] EXCEPT !.at = "store", !.index = mmap_info.last] \in CallRecords
      BY <2>4, CallFields, InfoFields, ZenonT(30) DEF CallRecords, LoadLast, Goes
    <3> QED BY <2>4, <3>1, Zenon DEF LoadLast, RingTyped
  <2>5. CASE StoreLast(p) \/ StoreFirst(p)
    <3>1. Plus(call[p].index, call[p].npages) \in 0 .. MAX_PAGES - 1
      <4>1. call[p].index \in Nat /\ call[p].npages \in Nat
        BY <1>1, CallFields, SMTT(30)
      <4> QED BY <4>1, PlusInRing, Zenon
    <3>2. mmap_info' \in InfoRecords
      BY <2>5, <3>1, ZenonT(30) DEF StoreLast, StoreFirst, RingTyped, InfoRecords
    <3> QED BY <2>0, <2>5, <3>2, Zenon DEF StoreLast, StoreFirst, Returns, RingTyped
  <2>6. ASSUME NEW i \in DOMAIN maps, NEW m \in MapRecords, Closes(p, i, m) PROVE RingTyped'
    <3>1. maps' \in Seq(MapRecords)
      BY <2>6, WithoutTypes, MapFields, Zenon DEF Closes, RingTyped
    <3>2. [at |-> "close", npages |-> maps[i].npages, index |-> mmap_info.first] \in CallRecords
      BY MapFields, InfoFields, Zenon DEF CallRecords
    <3>3. mmap_info' \in InfoRecords
      BY <2>6, Zenon DEF Closes, RingTyped, InfoRecords
    <3>4. call' \in [Procs -> CallRecords]
      BY <2>6, <3>2, Zenon DEF Closes, RingTyped
    <3> QED BY <2>6, <3>1, <3>3, <3>4, Zenon DEF Closes, RingTyped
  <2>7. ASSUME NEW i \in DOMAIN maps, mmap_close(p, i) \/ ChildCloses(p, i) PROVE RingTyped'
    <3>1. maps[i] \in MapRecords /\ maps[i].children \in 0 .. MaxChildren
      BY MapFields, Zenon
    <3>2. [maps[i] EXCEPT !.mine = FALSE] \in MapRecords
      BY <3>1, ZenonT(30) DEF MapRecords
    <3>3. maps[i].children > 0 => [maps[i] EXCEPT !.children = @ - 1] \in MapRecords
      BY <1>1, <3>1, SMTT(30) DEF MapRecords
    <3> QED BY <2>6, <2>7, <3>2, <3>3, Zenon DEF mmap_close, ChildCloses
  <2>8. ASSUME NEW i \in DOMAIN maps, Fork(p, i) PROVE RingTyped'
    <3>1. maps[i] \in MapRecords /\ maps[i].children \in 0 .. MaxChildren /\ i \in 1 .. Len(maps)
      BY MapFields, Zenon
    <3>2. [maps[i] EXCEPT !.children = @ + 1] \in MapRecords
      BY <1>1, <2>8, <3>1, SMTT(30) DEF MapRecords, Fork
    <3>3. maps' \in Seq(MapRecords)
      BY <2>8, <3>1, <3>2, SMTT(30) DEF Fork, RingTyped
    <3> QED BY <2>8, <3>3, Zenon DEF Fork, RingTyped
  <2> QED BY <1>4, <2>1, <2>2, <2>3, <2>4, <2>5, <2>7, <2>8, Zenon DEF RingStep
<1> QED BY <1>2, <1>3, <1>4, Zenon

-----------------------------------------------------------------------------
(* A mapping that leaves the list.                                         *)

(* A mapping that others still use stays at its place.                     *)
LEMMA StaysAt ==
  ASSUME NEW S, maps \in Seq(S), NEW i \in 1 .. Len(maps), NEW m \in S,
         m.mine \/ m.children > 0
  PROVE  /\ Len(Without(i, m)) = Len(maps) /\ Without(i, m)[i] = m
         /\ \A j \in 1 .. Len(maps) : j # i => Without(i, m)[j] = maps[j]
<1>1. Without(i, m) = [maps EXCEPT ![i] = m]
  BY Zenon DEF Without
<1>2. Len([maps EXCEPT ![i] = m]) = Len(maps)
  BY SMTT(30)
<1> QED BY <1>1, <1>2, SMTT(30)

(* A mapping that nobody uses is taken out, and the later ones move up.    *)
LEMMA MoveUp ==
  ASSUME NEW S, maps \in Seq(S), NEW i \in 1 .. Len(maps), NEW m \in S,
         ~(m.mine \/ m.children > 0)
  PROVE  /\ Len(Without(i, m)) = Len(maps) - 1
         /\ \A j \in 1 .. Len(maps) - 1 :
              Without(i, m)[j] = IF j < i THEN maps[j] ELSE maps[j + 1]
<1>1. Len(maps) \in Nat
  BY SMTT(30)
<1> DEFINE a == SubSeq(maps, 1, i - 1)
           b == SubSeq(maps, i + 1, Len(maps))
<1>2. a \in Seq(S) /\ b \in Seq(S) /\ Len(a) = i - 1 /\ Len(b) = Len(maps) - i
      /\ (\A j \in 1 .. i - 1 : a[j] = maps[j])
      /\ (\A j \in 1 .. Len(maps) - i : b[j] = maps[i + j])
  BY <1>1, SMTT(30)
<1>3. Without(i, m) = a \o b
  BY ZenonT(30) DEF Without
<1> HIDE DEF a, b
<1>4. Len(a \o b) = Len(maps) - 1
  <2>1. a \in Seq(S) /\ b \in Seq(S) /\ Len(a) = i - 1 /\ Len(b) = Len(maps) - i
    BY <1>2, Zenon
  <2>2. Len(a \o b) = Len(a) + Len(b)
    BY <2>1, SMTT(30)
  <2> QED BY <1>1, <2>1, <2>2, SMTT(30)
<1>5. ASSUME NEW j \in 1 .. Len(maps) - 1
      PROVE  (a \o b)[j] = IF j < i THEN maps[j] ELSE maps[j + 1]
  <2>1. CASE j < i
    BY <1>1, <1>2, <2>1, SMTT(30)
  <2>2. CASE ~(j < i)
    <3>1. (a \o b)[j] = b[j - (i - 1)] /\ j - (i - 1) \in 1 .. Len(maps) - i
      BY <1>1, <1>2, <2>2, SMTT(30)
    <3>2. b[j - (i - 1)] = maps[i + (j - (i - 1))]
      BY <1>2, <3>1, Zenon
    <3>3. i + (j - (i - 1)) = j + 1
      BY SMTT(30)
    <3> QED BY <2>2, <3>1, <3>2, <3>3, Zenon
  <2> QED BY <2>1, <2>2, ZenonT(30)
<1> QED BY <1>3, <1>4, <1>5, Zenon

-----------------------------------------------------------------------------
(* Distances on the ring.                                                  *)
LEMMA DistFacts ==
  ASSUME NEW f \in 0 .. MAX_PAGES - 1, NEW x \in 0 .. MAX_PAGES - 1
  PROVE  Dist(f, x) \in 0 .. MAX_PAGES - 1 /\ Plus(f, Dist(f, x)) = x
<1>1. Dist(f, x) \in 0 .. MAX_PAGES - 1 /\ Dist(f, x) \in 0 .. MAX_PAGES
  BY RingAssumption, SMTT(30) DEF Dist
<1>2. Plus(f, Dist(f, x)) = IF f + Dist(f, x) < MAX_PAGES THEN f + Dist(f, x)
                            ELSE f + Dist(f, x) - MAX_PAGES
  BY <1>1, PlusIs, Zenon
<1> QED BY <1>1, <1>2, RingAssumption, SMTT(30) DEF Dist

(* The slot at a distance is at that distance.                             *)
LEMMA DistPlus ==
  ASSUME NEW f \in 0 .. MAX_PAGES - 1, NEW a \in 0 .. MAX_PAGES - 1
  PROVE  Plus(f, a) \in 0 .. MAX_PAGES - 1 /\ Dist(f, Plus(f, a)) = a
<1>1. a \in 0 .. MAX_PAGES
  BY RingAssumption, SMTT(30)
<1>2. /\ Plus(f, a) = IF f + a < MAX_PAGES THEN f + a ELSE f + a - MAX_PAGES
      /\ Plus(f, a) \in 0 .. MAX_PAGES - 1
  BY <1>1, PlusIs, Zenon
<1> QED BY <1>1, <1>2, RingAssumption, SMTT(30) DEF Dist

(* Two moves are one.                                                      *)
LEMMA PlusPlus ==
  ASSUME NEW f \in 0 .. MAX_PAGES - 1, NEW a \in Nat, NEW b \in Nat, a + b < MAX_PAGES
  PROVE  Plus(Plus(f, a), b) = Plus(f, a + b)
<1>1. a \in 0 .. MAX_PAGES /\ b \in 0 .. MAX_PAGES /\ a + b \in 0 .. MAX_PAGES
  BY RingAssumption, SMTT(30)
<1>2. /\ Plus(f, a) = IF f + a < MAX_PAGES THEN f + a ELSE f + a - MAX_PAGES
      /\ Plus(f, a) \in 0 .. MAX_PAGES - 1
      /\ Plus(f, a + b) = IF f + (a + b) < MAX_PAGES THEN f + (a + b) ELSE f + (a + b) - MAX_PAGES
  BY <1>1, PlusIs, Zenon
<1>3. Plus(Plus(f, a), b) = IF Plus(f, a) + b < MAX_PAGES THEN Plus(f, a) + b
                            ELSE Plus(f, a) + b - MAX_PAGES
  BY <1>1, <1>2, PlusIs, Zenon
<1> QED BY <1>1, <1>2, <1>3, RingAssumption, SMTT(30)

(* Distances from a later slot are shorter.                                *)
LEMMA DistShift ==
  ASSUME NEW f \in 0 .. MAX_PAGES - 1, NEW x \in 0 .. MAX_PAGES - 1, NEW n \in Nat,
         n <= Dist(f, x)
  PROVE  Dist(Plus(f, n), x) = Dist(f, x) - n
<1>1. Dist(f, x) \in 0 .. MAX_PAGES - 1
  BY DistFacts, Zenon
<1>2. n \in 0 .. MAX_PAGES
  BY <1>1, RingAssumption, SMTT(30)
<1>3. /\ Plus(f, n) = IF f + n < MAX_PAGES THEN f + n ELSE f + n - MAX_PAGES
      /\ Plus(f, n) \in 0 .. MAX_PAGES - 1
  BY <1>2, PlusIs, Zenon
<1> QED BY <1>1, <1>2, <1>3, RingAssumption, SMTT(30) DEF Dist

(* The loop of mmap_kmem finds the room that the ring has.                 *)
LEMMA FreeRoom ==
  ASSUME NEW f \in 0 .. MAX_PAGES - 1, NEW u \in 0 .. MAX_PAGES - 1, NEW n \in Nat,
         mmap_info.first = f, mmap_info.last = Plus(f, u), Free(n)
  PROVE  u + n < MAX_PAGES
<1> SUFFICES ASSUME ~(u + n < MAX_PAGES) PROVE FALSE
  BY Zenon
<1> DEFINE i == MAX_PAGES - u
<1>1. i \in 1 .. n /\ i \in 0 .. MAX_PAGES /\ u \in 0 .. MAX_PAGES /\ MAX_PAGES \in Nat
  BY RingAssumption, SMTT(30)
<1>2. Plus(Plus(f, u), i) # f
  BY <1>1, Zenon DEF Free
<1> HIDE DEF i
<1>3. /\ Plus(f, u) = IF f + u < MAX_PAGES THEN f + u ELSE f + u - MAX_PAGES
      /\ Plus(f, u) \in 0 .. MAX_PAGES - 1
  BY <1>1, PlusIs, Zenon
<1>4. Plus(Plus(f, u), i) = IF Plus(f, u) + i < MAX_PAGES THEN Plus(f, u) + i
                            ELSE Plus(f, u) + i - MAX_PAGES
  BY <1>1, <1>3, PlusIs, ZenonT(30)
<1> QED BY <1>1, <1>2, <1>3, <1>4, SMTT(30) DEF i

(* The mappings seen from f, as numbers.                                   *)
LEMMA LaidNumbers ==
  ASSUME RingTyped, NEW f \in 0 .. MAX_PAGES - 1, NEW i \in 1 .. Len(maps)
  PROVE  Dist(f, maps[i].start) \in Nat /\ maps[i].npages \in Nat \ {0}
<1>1. maps[i].start \in 0 .. MAX_PAGES - 1 /\ maps[i].npages \in Nat \ {0}
  BY MapFields, Zenon
<1>2. Dist(f, maps[i].start) \in 0 .. MAX_PAGES - 1
  BY <1>1, DistFacts, ZenonT(30)
<1> QED BY <1>1, <1>2, RingAssumption, SMTT(30)

(* What an order of the calls needs to know of one of them.                *)
LEMMA OneCall ==
  ASSUME RingTyped, NEW p \in Procs, NEW c, call' = [call EXCEPT ![p] = c]
  PROVE  call'[p] = c /\ \A q \in Procs \ {p} : call'[q] = call[q]
  BY Zenon DEF RingTyped

(* A process enters, and finds room for its pages.                         *)
LEMMA OrderMmap ==
  ASSUME RingTyped, OrderInv, NEW p \in Procs, NEW n \in Sizes, Mmap(p, n)
  PROVE  OrderInv'
<1> SUFFICES ASSUME orderly' PROVE OneInside' /\ \E f, u \in 0 .. MAX_PAGES - 1 : Layout(f, u)'
  BY Zenon DEF OrderInv
<1>1. orderly /\ Alone(p) /\ Goes(p, "none") /\ Free(n) /\ UNCHANGED <<mmap_info, maps>>
  BY Zenon DEF Mmap, RingTyped
<1>2. PICK f \in 0 .. MAX_PAGES - 1, u \in 0 .. MAX_PAGES - 1 : Layout(f, u)
  BY <1>1, Zenon DEF OrderInv
<1>3. \A q \in Procs : call[q].at = "none"
  BY <1>1, Zenon DEF Alone, Goes
<1>4. mmap_info.first = f /\ mmap_info.last = Plus(f, u)
  BY <1>2, <1>3, Zenon DEF Layout, Rests, Mmapping
<1>5. u + n < MAX_PAGES
  BY <1>1, <1>4, FreeRoom, RingAssumption, Zenon
<1>6. /\ call'[p] = [at |-> "remap", npages |-> n, index |-> 0]
      /\ \A q \in Procs \ {p} : call'[q].at = "none"
  <2>1. call' = [call EXCEPT ![p] = [at |-> "remap", npages |-> n, index |-> 0]]
    BY Zenon DEF Mmap
  <2>2. /\ call'[p] = [at |-> "remap", npages |-> n, index |-> 0]
        /\ \A q \in Procs \ {p} : call'[q] = call[q]
    BY <2>1, OneCall, Zenon
  <2> QED BY <1>3, <2>2, Zenon
<1>7. OneInside'
  BY <1>6, Zenon DEF OneInside
<1>8. Rests(f, u)' /\ Laid(f, u)'
  BY <1>1, <1>2, <1>4, Zenon DEF Rests, Laid, Layout, Dist, Plus
<1>9. \A q \in Procs : CallInv(q, f, u)'
  BY <1>5, <1>6, SMTT(30) DEF CallInv, Mmapping
<1> QED BY <1>7, <1>8, <1>9, Zenon DEF Layout

(* The pages are mapped behind the last mapping.                           *)
LEMMA OrderRemap ==
  ASSUME RingTyped, OrderInv, NEW p \in Procs, Remap(p)
  PROVE  OrderInv'
<1> SUFFICES ASSUME orderly' PROVE OneInside' /\ \E f, u \in 0 .. MAX_PAGES - 1 : Layout(f, u)'
  BY Zenon DEF OrderInv
<1>1. orderly /\ Alone(p) /\ Goes(p, "remap") /\ UNCHANGED mmap_info
  BY Zenon DEF Remap, RingTyped
<1>2. PICK f \in 0 .. MAX_PAGES - 1, u \in 0 .. MAX_PAGES - 1 : Layout(f, u)
  BY <1>1, Zenon DEF OrderInv
<1>3. PICK n \in Nat \ {0} : n = call[p].npages
  BY <1>1, CallFields, RingAssumption, Zenon DEF Goes
<1>4. PICK v \in 0 .. MAX_PAGES - 1 : v = u + n
  BY <1>1, <1>2, <1>3, RingAssumption, SMTT(30) DEF Layout, CallInv, Goes
<1>5. mmap_info.first = f /\ mmap_info.last = Plus(f, u) /\ MAX_PAGES \in Nat /\ Len(maps) \in Nat
  BY <1>1, <1>2, MapFields, RingAssumption, Zenon DEF Layout, Rests, Mmapping, Alone, Goes
<1>6. PICK s \in 0 .. MAX_PAGES - 1 : s = mmap_info.last /\ Dist(f, s) = u
  BY <1>5, DistPlus, Zenon
<1>7. /\ Len(maps') = Len(maps) + 1
      /\ maps'[Len(maps) + 1] = [owner |-> p, start |-> s, npages |-> n, mine |-> TRUE, children |-> 0]
      /\ \A i \in 1 .. Len(maps) : maps'[i] = maps[i]
  BY <1>3, <1>6, SMTT(30) DEF Remap, RingTyped
<1>8. /\ call'[p].at = "load" /\ call'[p].npages = n
      /\ \A q \in Procs \ {p} : call'[q].at = "none"
  <2>1. call' = [call EXCEPT ![p] = [call[p] EXCEPT !.at = "load"]]
    BY Zenon DEF Remap
  <2>2. [call[p] EXCEPT !.at = "load"].at = "load" /\ [call[p] EXCEPT !.at = "load"].npages = n
    BY <1>3, CallFields, Zenon DEF CallRecords
  <2>3. call'[p] = [call[p] EXCEPT !.at = "load"] /\ \A q \in Procs \ {p} : call'[q] = call[q]
    BY <2>1, OneCall, ZenonT(30)
  <2> QED BY <1>1, <2>2, <2>3, Zenon DEF Alone
<1>9. OneInside'
  BY <1>8, Zenon DEF OneInside
<1>10. Rests(f, v)'
  BY <1>1, <1>5, <1>8, Zenon DEF Rests, Mmapping
<1>11. Laid(f, v)'
  <2>1. \A i \in 1 .. Len(maps) : Dist(f, maps[i].start) \in Nat /\ maps[i].npages \in Nat \ {0}
    BY LaidNumbers, Zenon
  <2>2. ASSUME NEW i \in 1 .. Len(maps) + 1
        PROVE  /\ maps'[i].mine /\ maps'[i].children = 0
               /\ Dist(f, maps'[i].start) + maps'[i].npages <= v
    <3>1. CASE i \in 1 .. Len(maps)
      <4>1. /\ maps[i].mine /\ maps[i].children = 0
            /\ Dist(f, maps[i].start) + maps[i].npages <= u
        BY <1>2, <3>1, Zenon DEF Layout, Laid
      <4>2. PICK d \in Nat, l \in Nat : d = Dist(f, maps[i].start) /\ l = maps[i].npages
        BY <2>1, <3>1, Zenon
      <4>3. d + l <= u /\ d \in Nat /\ l \in Nat
        BY <4>1, <4>2, Zenon
      <4>4. d + l <= v
        BY <1>3, <1>4, <4>3, SMTT(30)
      <4>5. maps'[i] = maps[i]
        BY <1>7, <3>1, Zenon
      <4> QED BY <4>1, <4>2, <4>4, <4>5, Zenon
    <3>2. CASE i = Len(maps) + 1
      BY <1>4, <1>6, <1>7, <3>2, SMTT(30)
    <3> QED BY <1>5, <3>1, <3>2, SMTT(30)
  <2>3. ASSUME NEW i \in 1 .. Len(maps) + 1, NEW j \in 1 .. Len(maps) + 1, i < j
        PROVE  Dist(f, maps'[i].start) + maps'[i].npages <= Dist(f, maps'[j].start)
    <3>1. i \in 1 .. Len(maps)
      BY <1>5, <2>3, SMTT(30)
    <3>2. CASE j \in 1 .. Len(maps)
      BY <1>2, <1>7, <2>3, <3>1, <3>2, ZenonT(30) DEF Layout, Laid
    <3>3. CASE j = Len(maps) + 1
      BY <1>2, <1>6, <1>7, <3>1, <3>3, SMTT(30) DEF Layout, Laid
    <3> QED BY <1>5, <3>2, <3>3, SMTT(30)
  <2>4. ASSUME NEW x \in 0 .. v - 1
        PROVE  \E i \in 1 .. Len(maps) + 1 : /\ Dist(f, maps'[i].start) <= x
                                             /\ x < Dist(f, maps'[i].start) + maps'[i].npages
    <3>1. CASE x < u
      <4>1. PICK i \in 1 .. Len(maps) : /\ Dist(f, maps[i].start) <= x
                                         /\ x < Dist(f, maps[i].start) + maps[i].npages
        BY <1>2, <3>1, SMTT(30) DEF Layout, Laid
      <4>2. i \in 1 .. Len(maps) + 1 /\ maps'[i] = maps[i]
        BY <1>5, <1>7, SMTT(30)
      <4> QED BY <4>1, <4>2, Zenon
    <3>2. CASE ~(x < u)
      <4>1. u <= x /\ x < u + n /\ Len(maps) + 1 \in 1 .. Len(maps) + 1
        BY <1>3, <1>4, <1>5, <3>2, SMTT(30)
      <4>2. Dist(f, maps'[Len(maps) + 1].start) = u /\ maps'[Len(maps) + 1].npages = n
        BY <1>6, <1>7, SMTT(30)
      <4> QED BY <4>1, <4>2, Zenon
    <3> QED BY <3>1, <3>2, Zenon
  <2> QED BY <1>7, <2>2, <2>3, <2>4, Zenon DEF Laid, Dist
<1>12. \A q \in Procs : CallInv(q, f, v)'
  <2>1. v - n = u /\ n <= v
    BY <1>4, SMTT(30)
  <2> QED BY <1>1, <1>5, <1>8, <2>1, Zenon DEF CallInv, Mmapping, Plus
<1> QED BY <1>9, <1>10, <1>11, <1>12, Zenon DEF Layout

(* The steps inside a call that leave the mappings alone.                  *)
LEMMA OrderIndices ==
  ASSUME RingTyped, OrderInv, NEW p \in Procs,
         RemapFails(p) \/ LoadLast(p) \/ StoreLast(p) \/ StoreFirst(p)
  PROVE  OrderInv'
<1> SUFFICES ASSUME orderly' PROVE OneInside' /\ \E f, u \in 0 .. MAX_PAGES - 1 : Layout(f, u)'
  BY Zenon DEF OrderInv
<1>1. orderly /\ maps' = maps /\ call[p].at # "none"
  BY ZenonT(30) DEF RemapFails, LoadLast, StoreLast, StoreFirst, Goes
<1>2. OneInside /\ \A q \in Procs \ {p} : call[q].at = "none"
  BY <1>1, Zenon DEF OrderInv, OneInside
<1>3. PICK f \in 0 .. MAX_PAGES - 1, u \in 0 .. MAX_PAGES - 1 : Layout(f, u)
  BY <1>1, Zenon DEF OrderInv
<1>4. PICK n \in Nat \ {0} : n = call[p].npages
  BY <1>1, CallFields, RingAssumption, Zenon
<1>5. Laid(f, u)'
  BY <1>1, <1>3, Zenon DEF Laid, Layout, Dist
<1>6. CASE RemapFails(p) \/ StoreLast(p) \/ StoreFirst(p)
  <2>1. \A q \in Procs : call'[q].at = "none"
    <3>1. call' = [call EXCEPT ![p] = Outside] /\ Outside.at = "none"
      BY <1>6, ZenonT(30) DEF RemapFails, StoreLast, StoreFirst, Returns, Outside
    <3>2. call'[p] = Outside /\ \A q \in Procs \ {p} : call'[q] = call[q]
      BY <3>1, OneCall, ZenonT(30)
    <3> QED BY <1>2, <3>1, <3>2, SMTT(30)
  <2>2. OneInside' /\ \A q \in Procs : CallInv(q, f, u)'
    BY <2>1, Zenon DEF OneInside, CallInv, Mmapping
  <2>3. mmap_info'.first = f /\ mmap_info'.last = Plus(f, u)
    <3>1. CASE RemapFails(p)
      BY <1>2, <1>3, <3>1, Zenon DEF RemapFails, Goes, Layout, Rests, Mmapping
    <3>2. CASE StoreLast(p)
      <4>1. /\ mmap_info'.first = mmap_info.first
            /\ mmap_info'.last = Plus(call[p].index, n)
        BY <1>4, <3>2, Zenon DEF StoreLast, RingTyped, InfoRecords
      <4>2. /\ mmap_info.first = f /\ n <= u
            /\ call[p].index = Plus(f, u - n)
        BY <1>2, <1>3, <1>4, <3>2, Zenon DEF StoreLast, Goes, Layout, Rests, CallInv,
           Mmapping
      <4>3. u - n \in Nat /\ (u - n) + n = u /\ u < MAX_PAGES
        BY <1>4, <4>2, RingAssumption, SMTT(30)
      <4>4. Plus(Plus(f, u - n), n) = Plus(f, (u - n) + n)
        BY <4>3, PlusPlus, SMTT(30)
      <4> QED BY <4>1, <4>2, <4>3, <4>4, Zenon
    <3>3. CASE StoreFirst(p)
      <4>1. /\ mmap_info'.last = mmap_info.last
            /\ mmap_info'.first = Plus(call[p].index, n)
        BY <1>4, <3>3, Zenon DEF StoreFirst, RingTyped, InfoRecords
      <4>2. /\ mmap_info.last = Plus(f, u)
            /\ f = Plus(call[p].index, n)
        BY <1>2, <1>3, <1>4, <3>3, Zenon DEF StoreFirst, Goes, Layout, Rests, CallInv,
           Mmapping
      <4> QED BY <4>1, <4>2, Zenon
    <3> QED BY <1>6, <3>1, <3>2, <3>3, Zenon
  <2>4. Rests(f, u)'
    BY <2>3, Zenon DEF Rests, Plus
  <2> QED BY <1>5, <2>2, <2>4, Zenon DEF Layout
<1>7. CASE LoadLast(p)
  <2> DEFINE c == [call[p] EXCEPT !.at = "store", !.index = mmap_info.last]
  <2>1. call' = [call EXCEPT ![p] = c] /\ c.at = "store" /\ c.npages = n
        /\ c.index = mmap_info.last
    BY <1>4, <1>7, CallFields, ZenonT(30) DEF LoadLast, CallRecords
  <2> HIDE DEF c
  <2>2. /\ call'[p].at = "store" /\ call'[p].npages = n /\ call'[p].index = mmap_info.last
        /\ \A q \in Procs \ {p} : call'[q].at = "none"
    BY <1>2, <2>1, OneCall, ZenonT(30)
  <2>3. call[p].at = "load" /\ mmap_info' = mmap_info
    BY <1>7, Zenon DEF LoadLast, Goes
  <2>4. mmap_info.first = f /\ n <= u /\ mmap_info.last = Plus(f, u - n)
    BY <1>2, <1>3, <1>4, <2>3, Zenon DEF Layout, Rests, CallInv, Mmapping
  <2>5. OneInside' /\ Rests(f, u)'
    BY <2>2, <2>3, <2>4, Zenon DEF OneInside, Rests, Mmapping
  <2>6. \A q \in Procs : CallInv(q, f, u)'
    BY <2>2, <2>3, <2>4, Zenon DEF CallInv, Mmapping, Plus
  <2> QED BY <1>5, <2>5, <2>6, Zenon DEF Layout
<1> QED BY <1>6, <1>7, Zenon

(* The oldest mapping is closed: the ring begins behind it.                *)
LEMMA OrderClose ==
  ASSUME RingTyped, OrderInv, NEW p \in Procs, NEW i \in DOMAIN maps,
         mmap_close(p, i) \/ ChildCloses(p, i) \/ Fork(p, i)
  PROVE  OrderInv'
<1> SUFFICES ASSUME orderly' PROVE OneInside' /\ \E f, u \in 0 .. MAX_PAGES - 1 : Layout(f, u)'
  BY Zenon DEF OrderInv
<1>1. orderly /\ (mmap_close(p, i) \/ ChildCloses(p, i)) /\ i = 1 /\ Alone(p) /\ Goes(p, "none")
  BY ZenonT(30) DEF mmap_close, ChildCloses, Fork, Closes, RingTyped
<1>2. PICK f \in 0 .. MAX_PAGES - 1, u \in 0 .. MAX_PAGES - 1 : Layout(f, u)
  BY <1>1, Zenon DEF OrderInv
<1>3. /\ Len(maps) \in Nat /\ i \in 1 .. Len(maps) /\ 1 \in 1 .. Len(maps) /\ MAX_PAGES \in Nat
      /\ \A j \in 1 .. Len(maps) : /\ maps[j].start \in 0 .. MAX_PAGES - 1
                                   /\ Dist(f, maps[j].start) \in Nat /\ maps[j].npages \in Nat \ {0}
  BY <1>1, MapFields, LaidNumbers, RingAssumption, Zenon
<1>4. PICK n \in Nat \ {0} : n = maps[1].npages
  BY <1>3, Zenon
<1>5. Dist(f, maps[1].start) = 0 /\ n <= u
  <2>1. Dist(f, maps[1].start) + n <= u
    BY <1>2, <1>3, <1>4, Zenon DEF Layout, Laid
  <2>2. 0 \in 0 .. u - 1 /\ n <= u
    BY <1>3, <1>4, <2>1, SMTT(30)
  <2>3. PICK j \in 1 .. Len(maps) : Dist(f, maps[j].start) <= 0
    BY <1>2, <2>2, Zenon DEF Layout, Laid
  <2>4. j = 1
    BY <1>2, <1>3, <1>4, <2>3, SMTT(30) DEF Layout, Laid
  <2> QED BY <1>3, <2>2, <2>3, <2>4, SMTT(30)
<1>6. \A q \in Procs : call[q].at = "none"
  BY <1>1, Zenon DEF Alone, Goes
<1>7. mmap_info.first = f /\ mmap_info.last = Plus(f, u) /\ mmap_info.first # mmap_info.last
  <2>1. mmap_info.first = f /\ mmap_info.last = Plus(f, u)
    BY <1>2, <1>6, Zenon DEF Layout, Rests, Mmapping
  <2>2. Dist(f, Plus(f, u)) = u
    BY DistPlus, Zenon
  <2> QED BY <1>4, <1>5, <2>1, <2>2, RingAssumption, SMTT(30) DEF Dist
<1>8. maps[1].mine /\ maps[1].children = 0 /\ maps[1] \in MapRecords
  BY <1>2, <1>3, MapFields, Zenon DEF Layout, Laid
<1> DEFINE m == [maps[1] EXCEPT !.mine = FALSE]
<1>9. Closes(p, 1, m) /\ m \in MapRecords /\ ~(m.mine \/ m.children > 0)
  <2>1. ~ChildCloses(p, i)
    BY <1>1, <1>8, SMTT(30) DEF ChildCloses
  <2>2. m \in MapRecords /\ m.mine = FALSE /\ m.children = 0
    BY <1>8, Zenon DEF MapRecords
  <2>3. Closes(p, 1, m)
    BY <1>1, <2>1, Zenon DEF mmap_close
  <2> QED BY <2>2, <2>3, SMTT(30)
<1> HIDE DEF m
<1>10. /\ Len(maps') = Len(maps) - 1
       /\ \A j \in 1 .. Len(maps) - 1 : maps'[j] = maps[j + 1]
  <2>1. maps' = Without(1, m) /\ maps \in Seq(MapRecords)
    BY <1>9, Zenon DEF Closes, RingTyped
  <2>2. /\ Len(Without(1, m)) = Len(maps) - 1
        /\ \A j \in 1 .. Len(maps) - 1 :
             Without(1, m)[j] = IF j < 1 THEN maps[j] ELSE maps[j + 1]
    BY <1>3, <1>9, <2>1, MoveUp, Zenon
  <2> QED BY <1>3, <2>1, <2>2, SMTT(30)
<1>11. /\ mmap_info' = mmap_info
       /\ call' = [call EXCEPT ![p] = [at |-> "close", npages |-> n, index |-> f]]
  BY <1>4, <1>7, <1>9, Zenon DEF Closes
<1>12. /\ call'[p].at = "close" /\ call'[p].npages = n /\ call'[p].index = f
       /\ \A q \in Procs \ {p} : call'[q].at = "none"
  <2> DEFINE c == [at |-> "close", npages |-> n, index |-> f]
  <2>1. call' = [call EXCEPT ![p] = c] /\ c.at = "close" /\ c.npages = n /\ c.index = f
    BY <1>11, Zenon
  <2> HIDE DEF c
  <2>2. call'[p] = c /\ \A q \in Procs \ {p} : call'[q] = call[q]
    BY <2>1, OneCall, ZenonT(30)
  <2> QED BY <1>6, <2>1, <2>2, Zenon
<1>13. PICK v \in 0 .. MAX_PAGES - 1 : v = u - n
  BY <1>3, <1>4, <1>5, SMTT(30)
<1>14. PICK g \in 0 .. MAX_PAGES - 1 : g = Plus(f, n)
  <2>1. n \in Nat /\ f \in Nat
    BY <1>2, <1>3, <1>4, SMTT(30)
  <2>2. Plus(f, n) \in 0 .. MAX_PAGES - 1
    BY <2>1, PlusInRing, Zenon
  <2> QED BY <2>2, Zenon
<1>15. OneInside'
  BY <1>12, Zenon DEF OneInside
<1>16. mmap_info.last = Plus(g, v)
  <2>1. v \in Nat /\ n + v = u /\ n + v < MAX_PAGES
    BY <1>4, <1>13, RingAssumption, SMTT(30)
  <2> QED BY <1>4, <1>7, <1>14, <2>1, PlusPlus, Zenon
<1>17. Rests(g, v)'
  BY <1>11, <1>12, <1>16, Zenon DEF Rests, Plus
<1>18. \A q \in Procs : CallInv(q, g, v)'
  BY <1>7, <1>11, <1>12, <1>14, Zenon DEF CallInv, Mmapping, Plus
<1>19. ASSUME NEW j \in 1 .. Len(maps) - 1
       PROVE  /\ j + 1 \in 1 .. Len(maps)
              /\ Dist(g, maps'[j].start) = Dist(f, maps[j + 1].start) - n
              /\ maps'[j].npages = maps[j + 1].npages
  <2>1. j + 1 \in 1 .. Len(maps) /\ 1 < j + 1
    BY <1>3, SMTT(30)
  <2>2. n <= Dist(f, maps[j + 1].start)
    BY <1>2, <1>3, <1>4, <1>5, <2>1, SMTT(30) DEF Layout, Laid
  <2>3. PICK s \in 0 .. MAX_PAGES - 1 : s = maps[j + 1].start
    BY <1>3, <2>1, Zenon
  <2>4. Dist(g, s) = Dist(f, s) - n
    BY <1>4, <1>14, <2>2, <2>3, DistShift, Zenon
  <2> QED BY <1>10, <2>1, <2>3, <2>4, Zenon
<1>20. Laid(g, v)'
  <2>1. ASSUME NEW j \in 1 .. Len(maps) - 1
        PROVE  /\ maps'[j].mine /\ maps'[j].children = 0
               /\ Dist(g, maps'[j].start) + maps'[j].npages <= v
    <3>1. /\ maps[j + 1].mine /\ maps[j + 1].children = 0
          /\ Dist(f, maps[j + 1].start) + maps[j + 1].npages <= u
      BY <1>2, <1>19, Zenon DEF Layout, Laid
    <3>2. PICK d \in Nat, k \in Nat : d = Dist(f, maps[j + 1].start) /\ k = maps[j + 1].npages
      BY <1>3, <1>19, ZenonT(30)
    <3>3. Dist(g, maps'[j].start) = d - n /\ maps'[j].npages = k /\ maps'[j] = maps[j + 1]
      BY <1>10, <1>19, <3>2, Zenon
    <3>4. d + k <= u /\ d \in Nat /\ k \in Nat
      BY <3>1, <3>2, Zenon
    <3>5. (d - n) + k <= v
      <4>1. n \in Nat /\ v = u - n /\ u \in Nat
        BY <1>4, <1>13, RingAssumption, SMTT(30)
      <4> QED BY <3>4, <4>1, SMTT(30)
    <3> QED BY <3>1, <3>3, <3>5, Zenon
  <2>2. ASSUME NEW j \in 1 .. Len(maps) - 1, NEW k \in 1 .. Len(maps) - 1, j < k
        PROVE  Dist(g, maps'[j].start) + maps'[j].npages <= Dist(g, maps'[k].start)
    <3>1. Dist(f, maps[j + 1].start) + maps[j + 1].npages <= Dist(f, maps[k + 1].start)
      BY <1>2, <1>19, <2>2, SMTT(30) DEF Layout, Laid
    <3>2. PICK d \in Nat, e \in Nat, l \in Nat :
            /\ d = Dist(f, maps[j + 1].start) /\ l = maps[j + 1].npages
            /\ e = Dist(f, maps[k + 1].start)
      BY <1>3, <1>19, ZenonT(30)
    <3>3. /\ Dist(g, maps'[j].start) = d - n /\ maps'[j].npages = l
          /\ Dist(g, maps'[k].start) = e - n
      BY <1>19, <3>2, Zenon
    <3>4. d + l <= e /\ d \in Nat /\ l \in Nat /\ e \in Nat
      BY <3>1, <3>2, Zenon
    <3>5. (d - n) + l <= e - n
      <4>1. n \in Nat
        BY <1>4, Zenon
      <4> QED BY <3>4, <4>1, SMTT(30)
    <3> QED BY <3>3, <3>5, Zenon
  <2>3. ASSUME NEW x \in 0 .. v - 1
        PROVE  \E j \in 1 .. Len(maps) - 1 : /\ Dist(g, maps'[j].start) <= x
                                             /\ x < Dist(g, maps'[j].start) + maps'[j].npages
    <3>1. x + n \in 0 .. u - 1
      BY <1>4, <1>13, SMTT(30)
    <3>2. PICK k \in 1 .. Len(maps) : /\ Dist(f, maps[k].start) <= x + n
                                      /\ x + n < Dist(f, maps[k].start) + maps[k].npages
      BY <1>2, <3>1, Zenon DEF Layout, Laid
    <3>3. k # 1
      BY <1>4, <1>5, <3>2, SMTT(30)
    <3>4. k - 1 \in 1 .. Len(maps) - 1 /\ (k - 1) + 1 = k
      BY <1>3, <3>3, SMTT(30)
    <3>5. PICK d \in Nat, l \in Nat : d = Dist(f, maps[k].start) /\ l = maps[k].npages
      BY <1>3, Zenon
    <3>6. Dist(g, maps'[k - 1].start) = d - n /\ maps'[k - 1].npages = l
      BY <1>19, <3>4, <3>5, Zenon
    <3>7. d - n <= x /\ x < (d - n) + l
      <4>1. d <= x + n /\ x + n < d + l
        BY <3>2, <3>5, Zenon
      <4>2. x \in Int /\ n \in Int /\ d \in Int /\ l \in Int BY <1>4, SMTT(30)
      <4>3. \A a, b, c, e \in Int : c <= a + b /\ a + b < c + e
                                      => c - b <= a /\ a < (c - b) + e
        BY SMTT(30)
      <4> QED BY <4>1, <4>2, <4>3, Zenon
    <3> QED BY <3>4, <3>6, <3>7, Zenon
  <2> QED BY <1>10, <2>1, <2>2, <2>3, ZenonT(30) DEF Laid, Dist
<1> QED BY <1>15, <1>17, <1>18, <1>20, Zenon DEF Layout

-----------------------------------------------------------------------------
(* What a process owes to last.                                            *)
LEMMA OwedIs ==
  \A t : t \in Owed <=> \E q \in Procs : /\ call[q].at \in Mmapping
                                         /\ t \in {q} \X (1 .. call[q].npages)
  BY Zenon DEF Owed

INSTANCE FiniteSetTheorems

(* A share has as many elements as pages.                                  *)
LEMMA ShareSize ==
  ASSUME NEW p, NEW n \in Nat
  PROVE  IsFiniteSet({p} \X (1 .. n)) /\ Cardinality({p} \X (1 .. n)) = n
<1>1. IsFiniteSet({p}) /\ Cardinality({p}) = 1
  BY FS_Singleton, Zenon
<1>2. IsFiniteSet(1 .. n) /\ Cardinality(1 .. n) = n
  BY FS_Interval, SMTT(30)
<1>3. /\ IsFiniteSet({p} \X (1 .. n))
      /\ Cardinality({p} \X (1 .. n)) = Cardinality({p}) * Cardinality(1 .. n)
  BY <1>1, <1>2, FS_Product, Zenon
<1> QED BY <1>1, <1>2, <1>3, SMTT(30)

(* Shares that stay.                                                       *)
LEMMA OwedKept ==
  ASSUME \A q \in Procs : /\ call'[q].at \in Mmapping <=> call[q].at \in Mmapping
                          /\ call[q].at \in Mmapping => call'[q].npages = call[q].npages
  PROVE  Owed' = Owed
<1>1. \A t : t \in Owed' <=> \E q \in Procs : /\ call'[q].at \in Mmapping
                                              /\ t \in {q} \X (1 .. call'[q].npages)
  BY Zenon DEF Owed, Mmapping
<1>2. \A t : t \in Owed' <=> t \in Owed
  BY <1>1, OwedIs, Zenon
<1> QED BY <1>2, Zenon

(* A share that comes, or goes.                                            *)
LEMMA OwedMoves ==
  ASSUME RingTyped, NEW p \in Procs, NEW c, call' = [call EXCEPT ![p] = c]
  PROVE  /\ call[p].at \notin Mmapping /\ c.at \in Mmapping =>
              /\ Owed' = Owed \cup ({p} \X (1 .. c.npages))
              /\ Owed \cap ({p} \X (1 .. c.npages)) = {}
         /\ call[p].at \in Mmapping /\ c.at \notin Mmapping =>
              /\ Owed' = Owed \ ({p} \X (1 .. call[p].npages))
              /\ Owed \cap ({p} \X (1 .. call[p].npages)) = {p} \X (1 .. call[p].npages)
<1>1. call'[p] = c /\ \A q \in Procs : q # p => call'[q] = call[q]
  BY Zenon DEF RingTyped
<1>2. \A t : t \in Owed' <=> \E q \in Procs : /\ call'[q].at \in Mmapping
                                              /\ t \in {q} \X (1 .. call'[q].npages)
  BY Zenon DEF Owed, Mmapping
<1>3. \A q, r, A, B, t : t \in {q} \X A /\ t \in {r} \X B => q = r
  BY Zenon
<1>4. ASSUME call[p].at \notin Mmapping, c.at \in Mmapping
      PROVE  /\ Owed' = Owed \cup ({p} \X (1 .. c.npages))
             /\ Owed \cap ({p} \X (1 .. c.npages)) = {}
  <2>1. ASSUME NEW t PROVE t \in Owed' <=> t \in Owed \/ t \in {p} \X (1 .. c.npages)
    BY <1>1, <1>2, <1>4, OwedIs, Zenon
  <2>2. ASSUME NEW t PROVE ~(t \in Owed /\ t \in {p} \X (1 .. c.npages))
    BY <1>3, <1>4, OwedIs, Zenon
  <2> QED BY <2>1, <2>2, Zenon
<1>5. ASSUME call[p].at \in Mmapping, c.at \notin Mmapping
      PROVE  /\ Owed' = Owed \ ({p} \X (1 .. call[p].npages))
             /\ Owed \cap ({p} \X (1 .. call[p].npages)) = {p} \X (1 .. call[p].npages)
  <2>1. ASSUME NEW t PROVE t \in Owed' <=> t \in Owed /\ t \notin {p} \X (1 .. call[p].npages)
    <3>1. ASSUME t \in Owed' PROVE t \in Owed /\ t \notin {p} \X (1 .. call[p].npages)
      <4>1. PICK q \in Procs : call'[q].at \in Mmapping /\ t \in {q} \X (1 .. call'[q].npages)
        BY <1>2, <3>1, Zenon
      <4>2. q # p /\ call'[q] = call[q]
        BY <1>1, <1>5, <4>1, Zenon
      <4> QED BY <1>3, <4>1, <4>2, OwedIs, Zenon
    <3>2. ASSUME t \in Owed, t \notin {p} \X (1 .. call[p].npages) PROVE t \in Owed'
      BY <1>1, <1>2, <3>2, OwedIs, Zenon
    <3> QED BY <3>1, <3>2, Zenon
  <2>2. ASSUME NEW t PROVE t \in {p} \X (1 .. call[p].npages) => t \in Owed
    BY <1>5, OwedIs, Zenon
  <2> QED BY <2>1, <2>2, Zenon
<1> QED BY <1>4, <1>5, Zenon

(* The indices stay behind the pages that were handed out, whatever the    *)
(* processes do at the same time.                                          *)
LEMMA PoolStep ==
  ASSUME RingTyped, PoolInv, NEW p \in Procs, RingStep(p)
  PROVE  PoolInv'
<1>1. MAX_PAGES \in Nat \ {0} /\ made \in Nat /\ Cardinality(Owed) \in Nat /\ IsFiniteSet(Owed)
  BY RingAssumption, FS_CardinalityType, SMTT(30) DEF RingTyped, PoolInv
<1>2. /\ mmap_info.last \in Nat /\ call[p].npages \in Nat /\ call[p].index \in Nat
      /\ DOMAIN maps = 1 .. Len(maps) /\ Len(maps) \in Nat
      /\ \A i \in 1 .. Len(maps) : maps[i].start \in Nat /\ maps[i].npages \in Nat
  BY <1>1, InfoFields, CallFields, MapFields, SMTT(30)
<1>3. ASSUME NEW c, call' = [call EXCEPT ![p] = c] PROVE
        call'[p] = c /\ \A q \in Procs \ {p} : call'[q] = call[q]
  BY <1>3, Zenon DEF RingTyped
<1>4. ASSUME NEW n \in Sizes, Mmap(p, n) PROVE PoolInv'
  <2>1. \A q \in Procs : /\ call'[q].at \in Mmapping <=> call[q].at \in Mmapping
                         /\ call[q].at \in Mmapping => call'[q].npages = call[q].npages
                         /\ call'[q].at = "store" => call'[q] = call[q]
    BY <1>3, <1>4, Zenon DEF Mmap, Goes, Mmapping
  <2>2. Owed' = Owed
    BY <2>1, OwedKept, Zenon
  <2> QED BY <1>4, <2>1, <2>2, Zenon DEF Mmap, PoolInv
<1>5. CASE Remap(p)
  <2> DEFINE n == call[p].npages
             c == [call[p] EXCEPT !.at = "load"]
  <2>1. call' = [call EXCEPT ![p] = c] /\ call[p].at \notin Mmapping /\ c.at \in Mmapping
        /\ c.npages = n
    BY <1>5, CallFields, Zenon DEF Remap, Goes, Mmapping, CallRecords
  <2> HIDE DEF n, c
  <2>2. /\ Owed' = Owed \cup ({p} \X (1 .. n))
        /\ Owed \cap ({p} \X (1 .. n)) = {}
    <3>1. call[p].at \notin Mmapping /\ c.at \in Mmapping =>
              /\ Owed' = Owed \cup ({p} \X (1 .. c.npages))
              /\ Owed \cap ({p} \X (1 .. c.npages)) = {}
      BY <2>1, OwedMoves, Zenon
    <3> QED BY <2>1, <3>1, Zenon
  <2>3. IsFiniteSet(Owed') /\ Cardinality(Owed') = Cardinality(Owed) + n
    <3>1. IsFiniteSet({p} \X (1 .. n)) /\ Cardinality({p} \X (1 .. n)) = n
      BY <1>2, ShareSize, Zenon DEF n
    <3>2. Cardinality({}) = 0
      BY FS_EmptySet, Zenon
    <3> DEFINE T == {p} \X (1 .. n)
    <3> HIDE DEF T
    <3>3. /\ IsFiniteSet(Owed \cup T)
          /\ Cardinality(Owed \cup T) = Cardinality(Owed) + Cardinality(T) - Cardinality(Owed \cap T)
      BY <1>1, <3>1, FS_Union, Zenon DEF T
    <3>4. Owed' = Owed \cup T /\ Owed \cap T = {} /\ Cardinality(T) = n
      BY <2>2, <3>1, Zenon DEF T
    <3>5. n \in Nat
      BY <1>2, Zenon DEF n
    <3>6. Cardinality(Owed \cup T) = Cardinality(Owed) + n - 0
      BY <3>2, <3>3, <3>4, Zenon
    <3> QED BY <1>1, <3>3, <3>4, <3>5, <3>6, SMTT(30)
  <2>4. n \in Nat
    BY <1>2, Zenon DEF n
  <2>5. made' < MAX_PAGES => made < MAX_PAGES /\ made' = made + n
    BY <1>1, <1>5, <2>4, SMTT(30) DEF Remap, n
  <2>6. \A q \in Procs : call'[q].at = "store" => call'[q] = call[q]
    BY <1>3, <1>5, <2>1, SMTT(30) DEF c
  <2>7. ASSUME made' < MAX_PAGES, NEW i \in 1 .. Len(maps')
        PROVE  maps'[i].start + maps'[i].npages <= MAX_PAGES
    <3>1. CASE i \in 1 .. Len(maps)
      BY <1>2, <1>5, <2>5, <2>7, <3>1, SMTT(30) DEF Remap, PoolInv, RingTyped
    <3>2. CASE i \notin 1 .. Len(maps)
      <4>1. maps'[i].start = mmap_info.last /\ maps'[i].npages = n
        BY <1>2, <1>5, <2>7, <3>2, SMTT(30) DEF Remap, n, RingTyped
      <4> QED BY <1>1, <1>2, <2>4, <2>5, <2>7, <4>1, SMTT(30) DEF PoolInv
    <3> QED BY <3>1, <3>2, Zenon
  <2>8. ASSUME made' < MAX_PAGES, NEW q \in Procs, call'[q].at = "store"
        PROVE  call'[q].index + Cardinality(Owed') <= made'
    BY <1>1, <2>3, <2>4, <2>5, <2>6, <2>8, CallFields, SMTT(30) DEF PoolInv
  <2>9. made' < MAX_PAGES => mmap_info'.last + Cardinality(Owed') <= made'
    BY <1>1, <1>2, <1>5, <2>3, <2>4, <2>5, SMTT(30) DEF PoolInv, Remap
  <2> QED BY <2>3, <2>7, <2>8, <2>9, Zenon DEF PoolInv
<1>6. CASE RemapFails(p) \/ StoreFirst(p)
  <2>1. \A q \in Procs : /\ call'[q].at \in Mmapping <=> call[q].at \in Mmapping
                         /\ call[q].at \in Mmapping => call'[q].npages = call[q].npages
                         /\ call'[q].at = "store" => call'[q] = call[q]
    BY <1>3, <1>6, SMTT(30) DEF RemapFails, StoreFirst, Returns, Outside, Goes, Mmapping
  <2>2. Owed' = Owed
    BY <2>1, OwedKept, Zenon
  <2>3. mmap_info'.last = mmap_info.last /\ made' = made /\ maps' = maps
    BY <1>6, Zenon DEF RemapFails, StoreFirst, RingTyped, InfoRecords
  <2> QED BY <2>1, <2>2, <2>3, Zenon DEF PoolInv
<1>7. CASE LoadLast(p)
  <2> DEFINE c == [call[p] EXCEPT !.at = "store", !.index = mmap_info.last]
  <2>0. call' = [call EXCEPT ![p] = c] /\ c.at = "store" /\ c.index = mmap_info.last
        /\ c.npages = call[p].npages
    BY <1>7, CallFields, ZenonT(30) DEF LoadLast, CallRecords
  <2> HIDE DEF c
  <2>1. \A q \in Procs : /\ call'[q].at \in Mmapping <=> call[q].at \in Mmapping
                         /\ call[q].at \in Mmapping => call'[q].npages = call[q].npages
                         /\ call'[q].at = "store" => \/ call'[q] = call[q]
                                                     \/ call'[q].index = mmap_info.last
    <3>1. call'[p] = c /\ \A q \in Procs \ {p} : call'[q] = call[q]
      BY <1>3, <2>0, Zenon
    <3>2. call[p].at \in Mmapping /\ c.at \in Mmapping
      BY <1>7, <2>0, Zenon DEF LoadLast, Goes, Mmapping
    <3> QED BY <2>0, <3>1, <3>2, Zenon
  <2>2. Owed' = Owed
    BY <2>1, OwedKept, Zenon
  <2> QED BY <1>7, <2>1, <2>2, ZenonT(30) DEF PoolInv, LoadLast
<1>8. CASE StoreLast(p)
  <2> DEFINE n == call[p].npages
  <2>1. call' = [call EXCEPT ![p] = Outside] /\ call[p].at \in Mmapping
        /\ Outside.at \notin Mmapping
    BY <1>8, Zenon DEF StoreLast, Goes, Returns, Mmapping, Outside
  <2>2. /\ Owed' = Owed \ ({p} \X (1 .. n))
        /\ Owed \cap ({p} \X (1 .. n)) = {p} \X (1 .. n)
    BY <2>1, OwedMoves, ZenonT(30)
  <2>3. IsFiniteSet(Owed') /\ Cardinality(Owed') = Cardinality(Owed) - n
    <3>1. IsFiniteSet({p} \X (1 .. n)) /\ Cardinality({p} \X (1 .. n)) = n
      BY <1>2, ShareSize, Zenon
    <3> DEFINE T == {p} \X (1 .. n)
    <3> HIDE DEF T
    <3>2. IsFiniteSet(Owed \ T) /\ Cardinality(Owed \ T) = Cardinality(Owed) - Cardinality(Owed \cap T)
      BY <1>1, FS_Difference, Zenon
    <3>3. Owed' = Owed \ T /\ Owed \cap T = T /\ Cardinality(T) = n
      BY <2>2, <3>1, Zenon DEF T
    <3> QED BY <3>2, <3>3, Zenon
  <2>4. Cardinality(Owed') \in Nat
    BY <2>3, FS_CardinalityType, Zenon
  <2>5. \A q \in Procs : call'[q].at = "store" => call'[q] = call[q]
    BY <1>3, <2>1, Zenon DEF Outside
  <2>6. made < MAX_PAGES => mmap_info'.last = call[p].index + n
    <3>1. made < MAX_PAGES => call[p].index + n <= made
      BY <1>1, <1>2, <1>8, <2>3, <2>4, SMTT(30) DEF PoolInv, StoreLast, Goes
    <3>2. mmap_info'.last = Plus(call[p].index, n)
      BY <1>8, Zenon DEF StoreLast, RingTyped, InfoRecords
    <3>3. ASSUME made < MAX_PAGES PROVE Plus(call[p].index, n) = call[p].index + n
      <4>1. n \in 0 .. MAX_PAGES /\ call[p].index \in 0 .. MAX_PAGES - 1 /\ call[p].index + n < MAX_PAGES
        BY <1>1, <1>2, <3>1, <3>3, SMTT(30)
      <4> QED BY <4>1, PlusIs, Zenon
    <3> QED BY <3>2, <3>3, Zenon
  <2>7. made' = made /\ maps' = maps /\ call[p].at = "store"
    BY <1>8, Zenon DEF StoreLast, Goes
  <2> HIDE DEF n
  <2>8. n \in Nat
    BY <1>2, Zenon DEF n
  <2>9. made < MAX_PAGES => mmap_info'.last + Cardinality(Owed') <= made
    BY <1>1, <1>2, <2>3, <2>6, <2>7, <2>8, SMTT(30) DEF PoolInv
  <2>10. ASSUME made < MAX_PAGES, NEW q \in Procs, call'[q].at = "store"
         PROVE  call'[q].index + Cardinality(Owed') <= made
    <3>1. call'[q] = call[q] /\ call[q].index \in Nat
      BY <1>1, <2>5, <2>10, CallFields, SMTT(30)
    <3>2. call[q].index + Cardinality(Owed) <= made
      BY <2>10, <3>1, Zenon DEF PoolInv
    <3> QED BY <1>1, <2>3, <2>4, <2>8, <3>1, <3>2, SMTT(30)
  <2> QED BY <2>3, <2>7, <2>9, <2>10, Zenon DEF PoolInv
<1>9. ASSUME NEW i \in DOMAIN maps, NEW m \in MapRecords, Closes(p, i, m),
             m.start = maps[i].start, m.npages = maps[i].npages
      PROVE  PoolInv'
  <2>1. \A q \in Procs : /\ call'[q].at \in Mmapping <=> call[q].at \in Mmapping
                         /\ call[q].at \in Mmapping => call'[q].npages = call[q].npages
                         /\ call'[q].at = "store" => call'[q] = call[q]
    BY <1>3, <1>9, SMTT(30) DEF Closes, Goes, Mmapping
  <2>2. Owed' = Owed
    BY <2>1, OwedKept, Zenon
  <2>3. mmap_info'.last = mmap_info.last /\ made' = made
    BY <1>9, Zenon DEF Closes, RingTyped, InfoRecords
  <2>4. ASSUME NEW j \in 1 .. Len(maps')
        PROVE  \E k \in 1 .. Len(maps) : /\ maps'[j].start = maps[k].start
                                         /\ maps'[j].npages = maps[k].npages
    <3>1. maps' = Without(i, m) /\ i \in 1 .. Len(maps) /\ maps \in Seq(MapRecords)
      BY <1>2, <1>9, Zenon DEF Closes, RingTyped
    <3>2. CASE m.mine \/ m.children > 0
      <4>1. Len(maps') = Len(maps) /\ maps'[i] = m
            /\ \A k \in 1 .. Len(maps) : k # i => maps'[k] = maps[k]
        BY <3>1, <3>2, StaysAt, SMTT(30)
      <4> QED BY <1>9, <3>1, <4>1, Zenon
    <3>3. CASE ~(m.mine \/ m.children > 0)
      <4>1. Len(maps') = Len(maps) - 1
            /\ \A k \in 1 .. Len(maps) - 1 : maps'[k] = IF k < i THEN maps[k] ELSE maps[k + 1]
        BY <3>1, <3>3, MoveUp, Zenon
      <4>2. j \in 1 .. Len(maps) /\ j + 1 \in 1 .. Len(maps)
        BY <1>2, <4>1, SMTT(30)
      <4> QED BY <4>1, <4>2, Zenon
    <3> QED BY <3>2, <3>3, Zenon
  <2> QED BY <2>1, <2>2, <2>3, <2>4, Zenon DEF PoolInv
<1>10. ASSUME NEW i \in DOMAIN maps, mmap_close(p, i) \/ ChildCloses(p, i) PROVE PoolInv'
  <2>1. maps[i] \in MapRecords
    BY MapFields, Zenon
  <2>2. /\ [maps[i] EXCEPT !.mine = FALSE].start = maps[i].start
        /\ [maps[i] EXCEPT !.mine = FALSE].npages = maps[i].npages
        /\ [maps[i] EXCEPT !.children = @ - 1].start = maps[i].start
        /\ [maps[i] EXCEPT !.children = @ - 1].npages = maps[i].npages
    BY <2>1, Zenon DEF MapRecords
  <2>3. [maps[i] EXCEPT !.mine = FALSE] \in MapRecords
    BY <2>1, Zenon DEF MapRecords
  <2>4. maps[i].children > 0 => [maps[i] EXCEPT !.children = @ - 1] \in MapRecords
    BY <2>1, MapFields, RingAssumption, SMTT(30) DEF MapRecords
  <2> QED BY <1>9, <1>10, <2>2, <2>3, <2>4, Zenon DEF mmap_close, ChildCloses
<1>11. ASSUME NEW i \in DOMAIN maps, Fork(p, i) PROVE PoolInv'
  <2>1. maps[i] \in MapRecords /\ i \in 1 .. Len(maps)
    BY MapFields, Zenon
  <2>2. /\ Len(maps') = Len(maps)
        /\ \A j \in 1 .. Len(maps) : maps'[j].start = maps[j].start /\ maps'[j].npages = maps[j].npages
    BY <1>2, <1>11, <2>1, SMTT(30) DEF Fork, RingTyped, MapRecords
  <2>3. Owed' = Owed
    BY <1>11, OwedKept, Zenon DEF Fork
  <2> QED BY <1>11, <2>2, <2>3, Zenon DEF PoolInv, Fork
<1> QED BY <1>4, <1>5, <1>6, <1>7, <1>8, <1>10, <1>11, Zenon DEF RingStep

-----------------------------------------------------------------------------
(* The invariant of the ring.                                              *)

EmptyRing ==
  /\ \A p \in Procs : call[p].at = "none"
  /\ Len(maps) = 0 /\ mmap_info.first = 0 /\ mmap_info.last = 0 /\ made = 0

(* A ring without mappings and calls.                                      *)
LEMMA EmptyRingIs == EmptyRing => OrderInv /\ PoolInv
<1> SUFFICES ASSUME EmptyRing PROVE OrderInv /\ PoolInv
  BY Zenon
<1> USE DEF EmptyRing
<1>1. 0 \in 0 .. MAX_PAGES - 1 /\ Plus(0, 0) = 0
  BY RingAssumption, PlusIs, SMTT(30)
<1>2. Rests(0, 0) /\ OneInside
  BY <1>1, Zenon DEF Rests, OneInside
<1>3. Laid(0, 0)
  BY SMTT(30) DEF Laid
<1>4. \A p \in Procs : CallInv(p, 0, 0)
  BY ZenonT(30) DEF CallInv, Mmapping
<1>5. Owed = {}
  BY Zenon DEF Owed, Mmapping
<1>6. IsFiniteSet(Owed) /\ Cardinality(Owed) = 0
  BY <1>5, FS_EmptySet, Zenon
<1> QED BY <1>1, <1>2, <1>3, <1>4, <1>6, SMTT(30) DEF OrderInv, Layout, PoolInv

(* Every step keeps the invariant of the ring.                             *)
LEMMA RingNext ==
  ASSUME RingTyped, OrderInv, PoolInv, [Next]_vars
  PROVE  RingTyped' /\ OrderInv' /\ PoolInv'
<1>1. RingTyped'
  BY RingSteps, RingTypes, Zenon
<1>2. CASE UNCHANGED ringVars
  <2>1. OrderInv'
    <3> SUFFICES ASSUME orderly PROVE OneInside' /\ \E f, u \in 0 .. MAX_PAGES - 1 : Layout(f, u)'
      BY <1>2, Zenon DEF ringVars, OrderInv
    <3>1. PICK f \in 0 .. MAX_PAGES - 1, u \in 0 .. MAX_PAGES - 1 : Layout(f, u)
      BY Zenon DEF OrderInv
    <3>2. mmap_info' = mmap_info /\ maps' = maps /\ call' = call
      BY <1>2, Zenon DEF ringVars
    <3>3. Rests(f, u)' /\ Laid(f, u)'
      BY <3>1, <3>2, Zenon DEF Layout, Rests, Laid, Dist, Plus
    <3>4. OneInside' /\ \A q \in Procs : CallInv(q, f, u)'
      BY <3>1, <3>2, Zenon DEF Layout, OrderInv, OneInside, CallInv, Plus
    <3> QED BY <3>1, <3>3, <3>4, Zenon DEF Layout
  <2>2. PoolInv'
    BY <1>2, Zenon DEF ringVars, PoolInv, Owed
  <2> QED BY <1>1, <2>1, <2>2, Zenon
<1>3. CASE \E p \in Procs : RingStep(p)
  <2>1. PICK p \in Procs : RingStep(p)
    BY <1>3, Zenon
  <2>2. OrderInv'
    BY <2>1, OrderMmap, OrderRemap, OrderIndices, OrderClose, Zenon DEF RingStep
  <2> QED BY <1>1, <2>1, <2>2, PoolStep, Zenon
<1>4. CASE RingReset
  <2>1. EmptyRing'
    BY <1>4, SMTT(30) DEF RingReset, NewRing, Outside, EmptyRing
  <2>2. (EmptyRing => OrderInv /\ PoolInv)'
    BY EmptyRingIs, PTL
  <2> QED BY <1>1, <2>1, <2>2, Zenon
<1> QED BY <1>2, <1>3, <1>4, RingSteps, Zenon

(* The ring starts empty.                                                  *)
LEMMA RingStarts == Init => RingTyped /\ OrderInv /\ PoolInv
<1> SUFFICES ASSUME Init PROVE RingTyped /\ OrderInv /\ PoolInv
  BY Zenon
<1>1. EmptyRing
  BY Zenon DEF Init, RingInit, NewRing, Outside, EmptyRing
<1>2. RingTyped
  BY RingAssumption, SMTT(30) DEF Init, RingInit, NewRing, Outside, RingTyped, InfoRecords,
     CallRecords
<1> QED BY <1>1, <1>2, EmptyRingIs, Zenon

-----------------------------------------------------------------------------
(* Of two mappings one lies before the other.                              *)
LEMMA ApartOnRing ==
  ASSUME NEW f \in 0 .. MAX_PAGES - 1, NEW s \in 0 .. MAX_PAGES - 1, NEW t \in 0 .. MAX_PAGES - 1,
         NEW k \in Nat, NEW l \in Nat,
         Dist(f, s) + k <= Dist(f, t), Dist(f, t) + l < MAX_PAGES,
         NEW x \in s .. s + k - 1, NEW y \in t .. t + l - 1
  PROVE  x # y
  BY RingAssumption, SMTT(30) DEF Dist

(* A page of a mapping lies at its distance.                               *)
LEMMA SlotOfPage ==
  ASSUME NEW f \in 0 .. MAX_PAGES - 1, NEW s \in 0 .. MAX_PAGES - 1, NEW a \in Nat,
         Dist(f, s) + a < MAX_PAGES
  PROVE  (s + a) % MAX_PAGES = Plus(f, Dist(f, s) + a)
<1>1. Dist(f, s) \in Nat /\ Plus(f, Dist(f, s)) = s
  BY DistFacts, RingAssumption, SMTT(30)
<1>2. Plus(Plus(f, Dist(f, s)), a) = Plus(f, Dist(f, s) + a)
  BY <1>1, PlusPlus, Zenon
<1> QED BY <1>1, <1>2, Zenon DEF Plus

(* The count of the slots in use.                                          *)
LEMMA UsedCount ==
  ASSUME NEW f \in 0 .. MAX_PAGES - 1, NEW u \in 0 .. MAX_PAGES - 1
  PROVE  (Plus(f, u) + MAX_PAGES - f) % MAX_PAGES = u
<1>1. u \in 0 .. MAX_PAGES /\ MAX_PAGES \in Nat \ {0}
  BY RingAssumption, SMTT(30)
<1>2. /\ Plus(f, u) = IF f + u < MAX_PAGES THEN f + u ELSE f + u - MAX_PAGES
      /\ Plus(f, u) \in 0 .. MAX_PAGES - 1
  BY <1>1, PlusIs, Zenon
<1>3. Plus(f, u) + MAX_PAGES - f \in {u, u + MAX_PAGES}
  BY <1>1, <1>2, SMTT(30)
<1>4. u % MAX_PAGES = u /\ (u + MAX_PAGES) % MAX_PAGES = u
  BY <1>1, SMT
<1> QED BY <1>3, <1>4, Zenon

(* The ring at rest says which pages are mapped.                           *)
LEMMA SlotsMatch ==
  ASSUME RingTyped, NEW f \in 0 .. MAX_PAGES - 1, NEW u \in 0 .. MAX_PAGES - 1, Laid(f, u),
         mmap_info.first = f, mmap_info.last = Plus(f, u)
  PROVE  UsedSlots = UNION {{n % MAX_PAGES : n \in Pages(maps[i])} : i \in DOMAIN maps}
<1>1. UsedSlots = {Plus(f, x) : x \in 0 .. u - 1}
  BY UsedCount, SMTT(30) DEF UsedSlots
<1>2. /\ MAX_PAGES \in Nat /\ DOMAIN maps = 1 .. Len(maps)
      /\ \A i \in 1 .. Len(maps) : /\ maps[i].start \in 0 .. MAX_PAGES - 1
                                   /\ Dist(f, maps[i].start) \in Nat /\ maps[i].npages \in Nat \ {0}
  BY MapFields, LaidNumbers, RingAssumption, Zenon
<1>3. ASSUME NEW x \in 0 .. u - 1
      PROVE  \E i \in DOMAIN maps : \E n \in Pages(maps[i]) : Plus(f, x) = n % MAX_PAGES
  <2>1. PICK i \in 1 .. Len(maps) : /\ Dist(f, maps[i].start) <= x
                                    /\ x < Dist(f, maps[i].start) + maps[i].npages
    BY ZenonT(30) DEF Laid
  <2>2. PICK s \in 0 .. MAX_PAGES - 1, d \in Nat, l \in Nat :
          s = maps[i].start /\ d = Dist(f, s) /\ l = maps[i].npages
    BY <1>2, Zenon
  <2>3. d <= x /\ x < d + l /\ d \in Nat /\ l \in Nat
    BY <2>1, <2>2, Zenon
  <2>4. PICK a \in Nat : a = x - d
    BY <2>3, SMTT(30)
  <2>5. d + a = x /\ x < MAX_PAGES
    BY <1>2, <2>3, <2>4, SMTT(30)
  <2>6. (s + a) % MAX_PAGES = Plus(f, x)
    <3>1. Dist(f, s) + a = x /\ s \in 0 .. MAX_PAGES - 1 /\ a \in Nat
      BY <2>2, <2>4, <2>5, Zenon
    <3>2. (s + a) % MAX_PAGES = Plus(f, Dist(f, s) + a)
      BY <2>5, <3>1, SlotOfPage, Zenon
    <3> QED BY <3>1, <3>2, Zenon
  <2>7. s + a \in s .. s + l - 1
    <3>1. s \in 0 .. MAX_PAGES - 1 /\ a \in Nat
      BY <2>2, <2>4, Zenon
    <3> QED BY <1>2, <2>3, <2>4, <3>1, SMTT(30)
  <2> QED BY <1>2, <2>2, <2>6, <2>7, ZenonT(30) DEF Pages
<1>4. ASSUME NEW i \in DOMAIN maps, NEW n \in Pages(maps[i])
      PROVE  \E x \in 0 .. u - 1 : Plus(f, x) = n % MAX_PAGES
  <2>1. PICK s \in 0 .. MAX_PAGES - 1, d \in Nat, l \in Nat :
          s = maps[i].start /\ d = Dist(f, s) /\ l = maps[i].npages
    BY <1>2, Zenon
  <2>2. d + l <= u /\ d \in Nat /\ l \in Nat
    BY <1>2, <2>1, Zenon DEF Laid
  <2>3. n \in s .. s + l - 1
    BY <2>1, Zenon DEF Pages
  <2>4. PICK a \in Nat : a = n - s
    BY <1>2, <2>1, <2>2, <2>3, SMTT(30)
  <2>5. s + a = n /\ d + a \in 0 .. u - 1 /\ d + a < MAX_PAGES
    <3>1. s \in 0 .. MAX_PAGES - 1 /\ a \in Nat /\ MAX_PAGES \in Nat
      BY <1>2, <2>1, <2>4, Zenon
    <3> QED BY <2>2, <2>3, <2>4, <3>1, SMTT(30)
  <2>6. (s + a) % MAX_PAGES = Plus(f, d + a)
    BY <2>1, <2>4, <2>5, SlotOfPage, SMTT(30)
  <2> QED BY <2>5, <2>6, Zenon
<1>5. \A y : y \in UsedSlots <=> \E x \in 0 .. u - 1 : Plus(f, x) = y
  BY <1>1, Zenon
<1>6. \A y : y \in UNION {{n % MAX_PAGES : n \in Pages(maps[i])} : i \in DOMAIN maps}
             <=> \E i \in DOMAIN maps : \E n \in Pages(maps[i]) : y = n % MAX_PAGES
  BY SMTT(30)
<1>7. \A y : y \in UsedSlots <=>
             y \in UNION {{n % MAX_PAGES : n \in Pages(maps[i])} : i \in DOMAIN maps}
  BY <1>3, <1>4, <1>5, <1>6, SMTT(30)
<1> QED BY <1>7, Zenon

(* What the invariant says of the mappings.                                *)
LEMMA RingMeans ==
  ASSUME RingTyped, OrderInv, PoolInv
  PROVE  MappingsDisjoint /\ RingMatchesMappings /\ InsidePool
<1>1. /\ MAX_PAGES \in Nat /\ DOMAIN maps = 1 .. Len(maps)
      /\ \A i \in 1 .. Len(maps) : /\ maps[i].start \in 0 .. MAX_PAGES - 1
                                   /\ maps[i].npages \in Nat \ {0}
  BY MapFields, RingAssumption, Zenon
<1>2. MappingsDisjoint
  <2> SUFFICES ASSUME orderly
               PROVE  \A i, j \in DOMAIN maps : i # j => Pages(maps[i]) \cap Pages(maps[j]) = {}
    BY Zenon DEF MappingsDisjoint
  <2>1. PICK f \in 0 .. MAX_PAGES - 1, u \in 0 .. MAX_PAGES - 1 : Laid(f, u)
    BY Zenon DEF OrderInv, Layout
  <2>2. ASSUME NEW i \in 1 .. Len(maps), NEW j \in 1 .. Len(maps), i < j,
               NEW x \in Pages(maps[i]), NEW y \in Pages(maps[j])
        PROVE  x # y
    <3>1. PICK s \in 0 .. MAX_PAGES - 1, t \in 0 .. MAX_PAGES - 1, k \in Nat, l \in Nat :
            /\ s = maps[i].start /\ t = maps[j].start
            /\ k = maps[i].npages /\ l = maps[j].npages
      BY <1>1, ZenonT(30)
    <3>2. Dist(f, s) + k <= Dist(f, t) /\ Dist(f, t) + l <= u
      BY <2>1, <2>2, <3>1, Zenon DEF Laid
    <3>3. Dist(f, t) \in Nat
      <4>1. Dist(f, t) \in 0 .. MAX_PAGES - 1
        BY <2>1, <3>1, DistFacts, Zenon
      <4> QED BY <1>1, <4>1, SMTT(30)
    <3>4. Dist(f, t) + l < MAX_PAGES
      BY <1>1, <2>1, <3>1, <3>2, <3>3, SMTT(30)
    <3>5. x \in s .. s + k - 1 /\ y \in t .. t + l - 1
      BY <3>1, Zenon DEF Pages
    <3> QED BY <2>1, <3>1, <3>2, <3>4, <3>5, ApartOnRing, ZenonT(30)
  <2>3. ASSUME NEW i \in 1 .. Len(maps), NEW j \in 1 .. Len(maps), i # j
        PROVE  Pages(maps[i]) \cap Pages(maps[j]) = {}
    <3>1. CASE i < j
      BY <2>2, <3>1, ZenonT(30)
    <3>2. CASE j < i
      BY <2>2, <3>2, Zenon
    <3> QED BY <2>3, <3>1, <3>2, MapFields, SMTT(30)
  <2> QED BY <1>1, <2>3, Zenon
<1>3. RingMatchesMappings
  <2> SUFFICES ASSUME orderly, \A p \in Procs : call[p].at = "none",
                      \A i \in DOMAIN maps : Pages(maps[i]) \subseteq 0 .. MAX_PAGES - 1
               PROVE  UsedSlots = UNION {Pages(maps[i]) : i \in DOMAIN maps}
    BY Zenon DEF RingMatchesMappings
  <2>1. PICK f \in 0 .. MAX_PAGES - 1, u \in 0 .. MAX_PAGES - 1 : Laid(f, u) /\ Rests(f, u)
    BY Zenon DEF OrderInv, Layout
  <2>2. mmap_info.first = f /\ mmap_info.last = Plus(f, u)
    BY <2>1, Zenon DEF Rests, Mmapping
  <2>3. UsedSlots = UNION {{n % MAX_PAGES : n \in Pages(maps[i])} : i \in DOMAIN maps}
    BY <2>1, <2>2, SlotsMatch, Zenon
  <2>4. \A n \in 0 .. MAX_PAGES - 1 : n % MAX_PAGES = n
    BY <1>1, SMTT(30)
  <2>5. \A i \in DOMAIN maps : {n % MAX_PAGES : n \in Pages(maps[i])} = Pages(maps[i])
    BY <2>4, Zenon
  <2> QED BY <2>3, <2>5, Zenon
<1>4. InsidePool
  BY <1>1, SMTT(30) DEF InsidePool, PoolInv, Pages
<1> QED BY <1>2, <1>3, <1>4, Zenon

(* The invariant of the ring holds in every behaviour, and means what the  *)
(* runs check.                                                             *)
LEMMA RingIsSound ==
  Spec => [](RingTypeOK /\ MappingsDisjoint /\ RingMatchesMappings /\ InsidePool)
<1>1. RingTyped /\ OrderInv /\ PoolInv /\ [Next]_vars => (RingTyped /\ OrderInv /\ PoolInv)'
  BY RingNext, Zenon
<1>2. RingTyped /\ OrderInv /\ PoolInv =>
        RingTypeOK /\ MappingsDisjoint /\ RingMatchesMappings /\ InsidePool
  BY RingMeans, RingTypedIs, Zenon
<1> QED BY RingStarts, <1>1, <1>2, PTL DEF Spec

(* As long as the programs are orderly, mmap_kmem never maps a kernel page *)
(* twice.                                                                  *)
THEOREM MappingsStayApart == Spec => []MappingsDisjoint
  BY RingIsSound, PTL

(* As long as they are, the pages between first and last are the mapped    *)
(* ones, whenever no process is inside mmap_kmem or mmap_close and no      *)
(* mapping runs over the end of the pool.                                  *)
THEOREM RingFollowsMappings == Spec => []RingMatchesMappings
  BY RingIsSound, PTL

(* Whatever the programs do, the mappings lie in the allocated pages until *)
(* MAX_PAGES pages have been handed out.                                   *)
THEOREM PagesFromPool == Spec => []InsidePool
  BY RingIsSound, PTL

=============================================================================

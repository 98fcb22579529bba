-------------------------- MODULE MiddlewareProofs --------------------------
(***************************************************************************)
(* A descriptor reaches the bytes that the program asked for, in pinned    *)
(* frames: for any number of programs sharing the file of huge pages, any  *)
(* sizes of pages and buffers, and any faults.  The argument has two parts:*)
(* the arithmetic of page_address and of the pinned system pages, and the  *)
(* invariant that the registration in force describes the buffer of the    *)
(* program that made it as long as this program is in its loop.  A third   *)
(* part follows the frames back to the pool.                               *)
(***************************************************************************)
EXTENDS Middleware, TLAPS

(* The state that the argument looks at.                                   *)
Types ==
  /\ gigantic \in BOOLEAN
  /\ inode \in [Inodes -> Seq(Frames)]
  /\ hp \in [Procs -> [identifier : Inodes \cup {0}, data : Inodes \cup {0},
                       kept : Inodes \cup {0}, npages : 0 .. MaxHuge]]
  /\ pins \in [Frames -> Nat] /\ \A f \in pages \cap Frames : pins[f] > 0
  /\ pc = [p \in Procs |-> pc[p]] /\ DOMAIN target = Procs
  /\ request \in [Procs -> [address : Nat, length : Nat]]

(* The file of a program that has mapped it covers the buffer.             *)
FileCovers(p) ==
  /\ pc[p] = "map file" => hp[p].identifier \in Inodes
  /\ pc[p] \in {"register", "huge loop"} =>
       /\ hp[p].data \in Inodes /\ Total(p) > 0
       /\ Covers(Total(p)) <= Len(inode[hp[p].data])

(* The registration in force describes the buffer of p.                    *)
Describes(p) ==
  /\ buffer.virtual /\ buffer.page_size = hugepage_size
  /\ \A n \in 0 .. hp[p].npages - 1 :
       buffer.page_address[n] = PageAddress(hp[p].data, hugepage_size, n)
  /\ \A f \in Pinned(hp[p].data, Total(p)) : f \in pages /\ pins[f] > 0

(* The running descriptor was translated under that registration.          *)
Translates(p) ==
  LET r == request[p] IN
  /\ r.address + r.length <= Total(p)
  /\ InOneHugePage(r.address, r.length)
  /\ target[p].base = Translated(r.address)

(* Before its registration a program has none in force.                    *)
Early == {"begin", "open file", "map file", "register"}

ProcInv(p) ==
  /\ FileCovers(p)
  /\ holder = p => pc[p] \notin Early
  /\ target[p] # NoTarget => pc[p] = "huge loop"
  /\ holder = p /\ pc[p] = "huge loop" =>
       Describes(p) /\ (target[p] # NoTarget => Translates(p))

(* The two builds of a program do not mix.                                 *)
HugePcs == {"open file", "map file", "register", "huge loop", "unregister", "free", "unlink"}
KernelPcs == {"mmap", "mapping", "kernel loop", "unset", "closing"}

BuildInv ==
  /\ USE_HUGE_PAGES => maps = << >>
  /\ \A p \in Procs : USE_HUGE_PAGES => call[p].at = "none" /\ pc[p] \notin KernelPcs
  /\ \A p \in Procs : ~USE_HUGE_PAGES => pc[p] \notin HugePcs

MwInv == Types /\ BuildInv /\ \A p \in Procs : ProcInv(p)

-----------------------------------------------------------------------------
(* What the arithmetic needs of the sizes.                                 *)
LEMMA SizesFit ==
  /\ HugeBytes \in Nat \ {0} /\ HugeKilo \in Nat \ {0} /\ PAGE_SIZE \in Nat \ {0}
  /\ HugeKilo <= HugeBytes /\ HugeBytes % PAGE_SIZE = 0
  /\ Frames \subseteq Nat /\ MaxHuge \in Nat
  BY HugeAssumption, Zenon

(* Division.                                                               *)
LEMMA DivMod ==
  ASSUME NEW a \in Nat, NEW d \in Nat \ {0}
  PROVE  /\ a \div d \in Nat /\ a % d \in 0 .. d - 1
         /\ a = (a \div d) * d + (a % d)
  BY SMT

(* A quotient and a remainder in range are the quotient and the remainder. *)
LEMMA DivUnique ==
  ASSUME NEW q \in Nat, NEW d \in Nat \ {0}, NEW r \in 0 .. d - 1
  PROVE  (q * d + r) \div d = q /\ (q * d + r) % d = r
  BY SMT

(* A larger number has no smaller quotient.                                *)
LEMMA DivMonotone ==
  ASSUME NEW a \in Nat, NEW b \in Nat, NEW d \in Nat \ {0}, a <= b
  PROVE  a \div d <= b \div d
  BY SMT

(* A number below n * d has a quotient below n.                            *)
LEMMA DivBelow ==
  ASSUME NEW a \in Nat, NEW n \in Nat, NEW d \in Nat \ {0}, a < n * d
  PROVE  a \div d < n
<1>1. a \div d \in Nat /\ a % d \in 0 .. d - 1 /\ a = (a \div d) * d + (a % d)
  BY DivMod, Zenon
<1> DEFINE q == a \div d
<1>2. q \in Nat /\ q * d \in Nat /\ q * d <= a BY <1>1, SMT
<1> HIDE DEF q
<1>3. SUFFICES ASSUME n <= q PROVE FALSE BY <1>2, SMT DEF q
<1>4. n * d <= q * d BY <1>2, <1>3, SMT
<1> QED BY <1>2, <1>4, SMT

(* While the quotient stays, the remainder counts with the number.         *)
LEMMA SameRemainder ==
  ASSUME NEW a \in Nat, NEW k \in Nat, NEW d \in Nat \ {0},
         (a + k) \div d = a \div d
  PROVE  (a + k) % d = (a % d) + k
<1>1. a + k \in Nat BY SMT
<1>2. a \div d \in Nat /\ a % d \in 0 .. d - 1 /\ a = (a \div d) * d + (a % d)
  BY DivMod, Zenon
<1>3. (a + k) % d \in 0 .. d - 1 /\ a + k = ((a + k) \div d) * d + ((a + k) % d)
  BY <1>1, DivMod, Zenon
<1> QED BY <1>2, <1>3, SMT

(* A huge page begins at a multiple of its size.                           *)
LEMMA FirstByte ==
  ASSUME NEW n \in Nat
  PROVE  (n * HugeBytes) \div HugeBytes = n /\ (n * HugeBytes) % HugeBytes = 0
  BY SizesFit, SMT

(* The byte at which huge page n of a buffer begins.                       *)
LEMMA Scaled ==
  ASSUME NEW n \in Nat
  PROVE  (HugeBytes \div PAGE_SIZE) * n * PAGE_SIZE = n * HugeBytes
<1>1. HugeBytes = PAGE_SIZE * (HugeBytes \div PAGE_SIZE) BY SizesFit, SMT
<1>2. HugeBytes \div PAGE_SIZE \in Nat BY SizesFit, SMT
<1> QED BY <1>1, <1>2, SizesFit, SMT

(* The system page of a byte lies in the huge page of the byte.            *)
LEMMA SystemPageInside ==
  ASSUME NEW b \in Nat
  PROVE  ((b \div PAGE_SIZE) * PAGE_SIZE) \div HugeBytes = b \div HugeBytes
<1> DEFINE m == HugeBytes \div PAGE_SIZE
<1> DEFINE q == b \div HugeBytes
<1> DEFINE t == b \div PAGE_SIZE
<1>1. m \in Nat \ {0} /\ HugeBytes = m * PAGE_SIZE BY SizesFit, SMT
<1>2. q \in Nat /\ q * HugeBytes <= b /\ b < q * HugeBytes + HugeBytes
  <2>1. b % HugeBytes \in 0 .. HugeBytes - 1 /\ q \in Nat /\ b = q * HugeBytes + (b % HugeBytes)
    BY SizesFit, DivMod, Zenon
  <2> HIDE DEF q
  <2> QED BY <2>1, SizesFit, SMT
<1>3. t \in Nat /\ t * PAGE_SIZE <= b /\ b < t * PAGE_SIZE + PAGE_SIZE
  <2>1. b % PAGE_SIZE \in 0 .. PAGE_SIZE - 1 /\ t \in Nat /\ b = t * PAGE_SIZE + (b % PAGE_SIZE)
    BY SizesFit, DivMod, Zenon
  <2> HIDE DEF t
  <2> QED BY <2>1, SizesFit, SMT
<1>4. q * m \in Nat /\ q * HugeBytes = (q * m) * PAGE_SIZE BY <1>1, <1>2, SizesFit, SMT
<1>5. q * m <= t
  <2>1. SUFFICES ASSUME t + 1 <= q * m PROVE FALSE BY <1>3, <1>4, SizesFit, SMT
  <2>2. (t + 1) * PAGE_SIZE <= (q * m) * PAGE_SIZE BY <1>3, <1>4, <2>1, SizesFit, SMT
  <2> QED BY <1>2, <1>3, <1>4, <2>2, SizesFit, SMT
<1>6. q * HugeBytes <= t * PAGE_SIZE BY <1>3, <1>4, <1>5, SizesFit, SMT
<1>7. t * PAGE_SIZE < q * HugeBytes + HugeBytes BY <1>2, <1>3, SizesFit, SMT
<1>8. t * PAGE_SIZE - q * HugeBytes \in 0 .. HugeBytes - 1
  BY <1>2, <1>3, <1>6, <1>7, SizesFit, SMT
<1>9. t * PAGE_SIZE = q * HugeBytes + (t * PAGE_SIZE - q * HugeBytes)
  BY <1>2, <1>3, SizesFit, SMT
<1> HIDE DEF m, q, t
<1>10. (q * HugeBytes + (t * PAGE_SIZE - q * HugeBytes)) \div HugeBytes = q
  BY <1>2, <1>8, SizesFit, DivUnique, Zenon
<1> QED BY <1>9, <1>10, Zenon DEF q, t

-----------------------------------------------------------------------------
(* The huge pages that cover a mapping are a number of pages.              *)
LEMMA CoversNat ==
  ASSUME NEW t \in Nat
  PROVE  Covers(t) \in Nat
  BY SizesFit, SMT DEF Covers

(* A byte of a buffer lies in one of the huge pages that cover the buffer. *)
LEMMA Inside ==
  ASSUME NEW t \in Nat, NEW b \in Nat, b < t
  PROVE  b \div HugeBytes \in Nat /\ b \div HugeBytes + 1 <= Covers(t)
<1>1. b + HugeBytes \in Nat /\ t + HugeBytes - 1 \in Nat /\ b + HugeBytes <= t + HugeBytes - 1
  BY SizesFit, SMT
<1>2. (b + HugeBytes) \div HugeBytes <= (t + HugeBytes - 1) \div HugeBytes
  BY <1>1, SizesFit, DivMonotone, Zenon
<1>3. b \div HugeBytes \in Nat /\ (b + HugeBytes) \div HugeBytes = b \div HugeBytes + 1
  BY SizesFit, SMT
<1> QED BY <1>2, <1>3, SMT DEF Covers

(* The frame of a byte.                                                    *)
LEMMA FrameOf ==
  ASSUME Types, NEW i \in Inodes, NEW t \in Nat, NEW b \in Nat, b < t,
         Covers(t) <= Len(inode[i])
  PROVE  /\ inode[i][b \div HugeBytes + 1] \in Frames
         /\ Phys(i, b) \in Nat
         /\ Phys(i, b) \div HugeBytes = inode[i][b \div HugeBytes + 1]
<1> DEFINE q == b \div HugeBytes
<1> DEFINE f == inode[i][q + 1]
<1>1. inode[i] \in Seq(Frames) BY Zenon DEF Types
<1>2. Len(inode[i]) \in Nat BY <1>1, SMTT(30)
<1>3. q \in Nat /\ q + 1 <= Covers(t) BY Inside, Zenon
<1>4. Covers(t) \in Nat BY SizesFit, SMT DEF Covers
<1>5. q + 1 \in 1 .. Len(inode[i])
  <2> HIDE DEF q
  <2> QED BY <1>2, <1>3, <1>4, SizesFit, SMT
<1>6. f \in Frames
  <2> HIDE DEF q
  <2> QED BY <1>1, <1>5, SMTT(30)
<1>7. b % HugeBytes \in 0 .. HugeBytes - 1 BY SizesFit, DivMod, Zenon
<1>8. Phys(i, b) = f * HugeBytes + (b % HugeBytes) BY Zenon DEF Phys
<1>9. f \in Nat BY <1>6, SizesFit, Zenon
<1> HIDE DEF f
<1>10. (f * HugeBytes + (b % HugeBytes)) \div HugeBytes = f BY <1>7, <1>9, SizesFit,
   DivUnique, Zenon
<1>11. f * HugeBytes + (b % HugeBytes) \in Nat BY <1>7, <1>9, SizesFit, SMT
<1> QED BY <1>6, <1>8, <1>10, <1>11, Zenon DEF f

(* Every byte of a registered buffer is in a pinned frame.                 *)
LEMMA BytePinned ==
  ASSUME Types, NEW i \in Inodes, NEW t \in Nat, NEW b \in Nat, b < t,
         Covers(t) <= Len(inode[i])
  PROVE  Phys(i, b) \div HugeBytes \in Pinned(i, t)
<1> DEFINE n == b \div PAGE_SIZE
<1> DEFINE c == n * PAGE_SIZE
<1>1. n \in Nat /\ b % PAGE_SIZE \in 0 .. PAGE_SIZE - 1 /\ b = n * PAGE_SIZE + (b % PAGE_SIZE)
  BY SizesFit, DivMod, Zenon
<1>2. c \in Nat /\ c <= b
  <2> HIDE DEF n
  <2> QED BY <1>1, SizesFit, SMT
<1>3. c < t BY <1>2, SizesFit, SMT
<1>4. n \in 0 .. SystemPages(t) - 1
  <2>1. t - 1 \in Nat /\ b <= t - 1 BY SizesFit, SMT
  <2>2. n <= (t - 1) \div PAGE_SIZE BY <2>1, SizesFit, DivMonotone, Zenon
  <2>3. (t - 1) \div PAGE_SIZE \in Nat BY <2>1, SizesFit, DivMod, Zenon
  <2> HIDE DEF n
  <2> QED BY <1>1, <2>2, <2>3, SMT DEF SystemPages
<1>5. c \div HugeBytes = b \div HugeBytes BY SystemPageInside, Zenon
<1>6. Phys(i, b) \div HugeBytes = inode[i][b \div HugeBytes + 1] BY SizesFit, FrameOf, Zenon
<1> HIDE DEF c
<1>7. Phys(i, c) \div HugeBytes = inode[i][c \div HugeBytes + 1] BY <1>2, <1>3,
   SizesFit, FrameOf, Zenon
<1>8. Phys(i, b) \div HugeBytes = Phys(i, c) \div HugeBytes BY <1>5, <1>6, <1>7, Zenon
<1> QED BY <1>4, <1>8, Zenon DEF Pinned, c

(* The address that the driver finds for byte a + k of a buffer: first for *)
(* pages of HugeBytes, then for the size of a 2 MB page that the           *)
(* middleware reports.                                                     *)
LEMMA AddressInHugePage ==
  ASSUME NEW i \in Inodes, NEW a \in Nat, NEW k \in Nat,
         inode[i][(a + k) \div HugeBytes + 1] \in Frames,
         (a + k) \div HugeBytes = a \div HugeBytes,
         (a + k) % HugeBytes = (a % HugeBytes) + k
  PROVE  PageAddress(i, HugeBytes, a \div HugeBytes) + (a % HugeBytes) + k = Phys(i, a + k)
<1>1. PICK q \in Nat : q = a \div HugeBytes BY SizesFit, DivMod, Zenon
<1>2. PICK r \in Nat : r = a % HugeBytes
  <2>1. a % HugeBytes \in 0 .. HugeBytes - 1 BY SizesFit, DivMod, Zenon
  <2> QED BY <2>1, SizesFit, SMTT(30)
<1>3. PICK f \in Nat : f = inode[i][q + 1] BY <1>1, SizesFit, Zenon
<1>4. (q * HugeBytes) \div HugeBytes = q /\ (q * HugeBytes) % HugeBytes = 0
  BY FirstByte, Zenon
<1>6. PageAddress(i, HugeBytes, q) = Phys(i, q * HugeBytes) BY Scaled, Zenon DEF PageAddress
<1>7. Phys(i, q * HugeBytes) = f * HugeBytes + 0 BY <1>3, <1>4, Zenon DEF Phys
<1>8. Phys(i, a + k) = f * HugeBytes + (r + k) BY <1>1, <1>2, <1>3, Zenon DEF Phys
<1>9. f * HugeBytes + 0 + r + k = f * HugeBytes + (r + k) BY SizesFit, SMT
<1> QED BY <1>1, <1>2, <1>6, <1>7, <1>8, <1>9, Zenon

(* The same for the first page of a buffer whose pages are said to be of   *)
(* HugeKilo bytes.                                                         *)
LEMMA AddressInSmallPage ==
  ASSUME NEW i \in Inodes, NEW a \in Nat, NEW k \in Nat,
         inode[i][(a + k) \div HugeBytes + 1] \in Frames, a + k < HugeKilo
  PROVE  PageAddress(i, HugeKilo, a \div HugeKilo) + (a % HugeKilo) + k = Phys(i, a + k)
<1>1. /\ a \div HugeKilo = 0 /\ a % HugeKilo = a
      /\ (a + k) \div HugeBytes = 0 /\ (a + k) % HugeBytes = a + k
  BY SizesFit, SMT
<1>2. PICK f \in Nat : f = inode[i][0 + 1] BY <1>1, SizesFit, Zenon
<1>3. PageAddress(i, HugeKilo, 0) = Phys(i, 0)
  <2>1. (HugeKilo \div PAGE_SIZE) * 0 * PAGE_SIZE = 0 BY SizesFit, SMT
  <2> QED BY <2>1, Zenon DEF PageAddress
<1>4. Phys(i, 0) = f * HugeBytes + 0
  <2>1. 0 \div HugeBytes = 0 /\ 0 % HugeBytes = 0 BY SizesFit, SMT
  <2> QED BY <1>2, <2>1, Zenon DEF Phys
<1>5. Phys(i, a + k) = f * HugeBytes + (a + k) BY <1>1, <1>2, Zenon DEF Phys
<1>6. f * HugeBytes + 0 + a + k = f * HugeBytes + (a + k) BY SizesFit, SMT
<1> QED BY <1>1, <1>3, <1>4, <1>5, <1>6, Zenon

(* The descriptor that is running reaches the bytes it names.              *)
LEMMA Hits ==
  ASSUME NEW p \in Procs, NEW a \in Nat, NEW l \in Nat, NEW k \in Nat
  PROVE  /\ Types /\ FileCovers(p) /\ pc[p] = "huge loop"
         /\ Describes(p) /\ Translates(p) /\ (gigantic \/ hp[p].npages = 1)
         /\ a = request[p].address /\ l = request[p].length /\ k < l
         => LET byte == Phys(hp[p].data, a + k)
            IN  target[p].base + k = byte /\ pins[byte \div HugeBytes] > 0
<1>0. SUFFICES ASSUME Types, FileCovers(p), pc[p] = "huge loop",
                      Describes(p), Translates(p), gigantic \/ hp[p].npages = 1,
                      a = request[p].address, l = request[p].length, k < l
               PROVE  LET byte == Phys(hp[p].data, a + k)
                      IN  target[p].base + k = byte /\ pins[byte \div HugeBytes] > 0
  BY Zenon
<1>1. PICK i \in Inodes : i = hp[p].data BY <1>0, Zenon DEF FileCovers
<1>2. hp[p].npages \in 0 .. MaxHuge BY <1>0, Zenon DEF Types
<1>3. PICK m \in 0 .. MaxHuge : m = hp[p].npages BY <1>2, Zenon
<1>4. m \in Nat BY SizesFit, SMTT(30)
<1>5. PICK S \in Nat \ {0} : S = hugepage_size BY SizesFit, Zenon DEF hugepage_size
<1>6. Total(p) = m * S /\ Covers(m * S) <= Len(inode[i])
  BY <1>0, <1>1, <1>3, <1>5, Zenon DEF Total, FileCovers
<1>7. a + l <= m * S BY <1>0, <1>6, Zenon DEF Translates
<1>8. /\ (a + l) \div S = a \div S
      /\ target[p].base = buffer.page_address[a \div S] + (a % S)
  BY <1>0, <1>5, Zenon DEF Translates, Describes, InOneHugePage, Translated
<1>9. S = HugeBytes \/ (S = HugeKilo /\ m = 1) BY <1>0, <1>3, <1>5, Zenon DEF hugepage_size
<1>10. k < l BY <1>0, Zenon
<1>11. m * S \in Nat BY <1>4, SMT
<1>12. a + k \in Nat /\ a + k < m * S /\ a < m * S BY <1>7, <1>10, <1>11, SMT
<1>13. a \div S \in 0 .. m - 1
  <2>1. a \div S < m BY <1>4, <1>12, DivBelow, Zenon
  <2>2. a \div S \in Nat BY DivMod, Zenon
  <2> QED BY <1>4, <2>1, <2>2, SMT
<1>14. (a + k) \div S = a \div S /\ (a + k) % S = (a % S) + k
  <2>1. a + k \in Nat /\ a + l \in Nat /\ a <= a + k /\ a + k <= a + l BY <1>10, SMT
  <2>2. a \div S <= (a + k) \div S /\ (a + k) \div S <= (a + l) \div S
    BY <2>1, DivMonotone, Zenon
  <2>3. a \div S \in Nat /\ (a + k) \div S \in Nat BY <2>1, DivMod, Zenon
  <2>4. (a + k) \div S = a \div S
    <3>1. PICK x \in Nat, y \in Nat : x = a \div S /\ y = (a + k) \div S BY <2>3, Zenon
    <3>2. x <= y /\ y <= x BY <1>8, <2>2, <3>1, Zenon
    <3>3. x = y BY <3>2, SMT
    <3> QED BY <3>1, <3>3, Zenon
  <2> QED BY <2>4, SameRemainder, Zenon
<1>15. inode[i][(a + k) \div HugeBytes + 1] \in Frames
  BY <1>0, <1>6, <1>11, <1>12, FrameOf, Zenon
<1>16. PageAddress(i, S, a \div S) + (a % S) + k = Phys(i, a + k)
  <2>1. CASE S = HugeBytes BY <1>14, <1>15, <2>1, AddressInHugePage, Zenon
  <2>2. CASE S = HugeKilo /\ m = 1
    <3>1. a + k < HugeKilo BY <1>12, <2>2, SizesFit, SMT
    <3> QED BY <1>15, <2>2, <3>1, AddressInSmallPage, Zenon
  <2> QED BY <1>9, <2>1, <2>2, Zenon
<1>17. Phys(i, a + k) \div HugeBytes \in Pinned(i, m * S)
  BY <1>0, <1>6, <1>11, <1>12, BytePinned, Zenon
<1>18. buffer.page_address[a \div S] = PageAddress(i, S, a \div S)
  BY <1>0, <1>1, <1>3, <1>5, <1>13, Zenon DEF Describes
<1>19. target[p].base + k = Phys(i, a + k) BY <1>8, <1>16, <1>18, Zenon
<1>20. pins[Phys(i, a + k) \div HugeBytes] > 0
  BY <1>0, <1>1, <1>6, <1>17, Zenon DEF Describes
<1> QED BY <1>1, <1>19, <1>20, Zenon

-----------------------------------------------------------------------------
(* A file grows: the bytes it had stay where they were.                    *)
Grows(i) ==
  /\ Len(inode[i]) <= Len(inode'[i])
  /\ \A x \in 1 .. Len(inode[i]) : inode'[i][x] = inode[i][x]

(* The bytes of a buffer keep their physical address while its file grows. *)
LEMMA SamePhys ==
  ASSUME Types, NEW i \in Inodes, Grows(i), NEW t \in Nat, NEW b \in Nat, b < t,
         Covers(t) <= Len(inode[i])
  PROVE  inode'[i][b \div HugeBytes + 1] * HugeBytes + (b % HugeBytes) = Phys(i, b)
<1>1. Len(inode[i]) \in Nat BY SMTT(30) DEF Types
<1>2. b \div HugeBytes \in Nat /\ b \div HugeBytes + 1 <= Covers(t) BY Inside, Zenon
<1>3. Covers(t) \in Nat BY SizesFit, SMT DEF Covers
<1>4. PICK x \in Nat : x = b \div HugeBytes + 1 /\ x >= 1 BY <1>2, SMT
<1>5. x \in 1 .. Len(inode[i]) BY <1>1, <1>2, <1>3, <1>4, SMT
<1>6. inode'[i][x] = inode[i][x] BY <1>5, Zenon DEF Grows
<1> QED BY <1>4, <1>6, Zenon DEF Phys

(* Where a huge page begins, as page_address computes it, is inside.       *)
LEMMA StartByte ==
  ASSUME NEW m \in Nat, NEW S \in Nat \ {0}, NEW n \in 0 .. m - 1
  PROVE  (S \div PAGE_SIZE) * n * PAGE_SIZE \in Nat /\ (S \div PAGE_SIZE) * n * PAGE_SIZE < m * S
<1>1. PICK x \in Nat : x = S \div PAGE_SIZE BY SizesFit, DivMod, Zenon
<1>2. x * PAGE_SIZE <= S
  <2>1. S % PAGE_SIZE \in 0 .. PAGE_SIZE - 1 /\ S = x * PAGE_SIZE + (S % PAGE_SIZE)
    BY <1>1, SizesFit, DivMod, Zenon
  <2> QED BY <2>1, SizesFit, SMT
<1>3. x * n * PAGE_SIZE = n * (x * PAGE_SIZE) /\ x * PAGE_SIZE \in Nat BY SizesFit, SMT
<1>4. n * (x * PAGE_SIZE) <= n * S BY <1>2, <1>3, SMT
<1>5. n * S < m * S BY SMT
<1>6. x * n * PAGE_SIZE \in Nat /\ x * n * PAGE_SIZE < m * S BY <1>3, <1>4, <1>5, SMT
<1> QED BY <1>1, <1>6, Zenon

(* Every system page that is pinned begins inside the buffer.              *)
LEMMA SystemByte ==
  ASSUME NEW t \in Nat, t > 0, NEW n \in 0 .. SystemPages(t) - 1
  PROVE  n * PAGE_SIZE \in Nat /\ n * PAGE_SIZE < t
<1>1. t - 1 \in Nat BY SMT
<1>2. PICK x \in Nat : x = (t - 1) \div PAGE_SIZE BY <1>1, SizesFit, DivMod, Zenon
<1>3. (t - 1) % PAGE_SIZE \in 0 .. PAGE_SIZE - 1 /\ t - 1 = x * PAGE_SIZE + ((t - 1) % PAGE_SIZE)
  BY <1>1, <1>2, SizesFit, DivMod, Zenon
<1>4. x * PAGE_SIZE \in Nat /\ x * PAGE_SIZE <= t - 1 BY <1>3, SizesFit, SMT
<1>5. n \in Nat /\ n <= x BY <1>2, SMT DEF SystemPages
<1>6. n * PAGE_SIZE \in Nat /\ n * PAGE_SIZE <= x * PAGE_SIZE BY <1>5, SizesFit, SMT
<1> QED BY <1>4, <1>6, SMT

(* The addresses and the frames of a buffer stay the same.                 *)
LEMMA SameBuffer ==
  ASSUME Types, NEW i \in Inodes, Grows(i), NEW m \in Nat, NEW S \in Nat \ {0}, m * S > 0,
         Covers(m * S) <= Len(inode[i])
  PROVE  /\ \A n \in 0 .. m - 1 : PageAddress(i, S, n)' = PageAddress(i, S, n)
         /\ Pinned(i, m * S)' = Pinned(i, m * S)
<1>1. PICK t \in Nat : t = m * S BY SMT
<1>2. t > 0 /\ Covers(t) <= Len(inode[i]) BY <1>1, Zenon
<1>3. ASSUME NEW b \in Nat, b < t
      PROVE  inode'[i][b \div HugeBytes + 1] * HugeBytes + (b % HugeBytes) = Phys(i, b)
  BY <1>2, <1>3, SamePhys, Zenon
<1>4. ASSUME NEW n \in 0 .. m - 1 PROVE PageAddress(i, S, n)' = PageAddress(i, S, n)
  <2>1. PICK b \in Nat : b = (S \div PAGE_SIZE) * n * PAGE_SIZE /\ b < t
    BY <1>1, StartByte, Zenon
  <2>2. inode'[i][b \div HugeBytes + 1] * HugeBytes + (b % HugeBytes) = Phys(i, b)
    BY <1>3, <2>1, Zenon
  <2> QED BY <2>1, <2>2, Zenon DEF PageAddress, Phys
<1>5. ASSUME NEW n \in 0 .. SystemPages(t) - 1
      PROVE  inode'[i][(n * PAGE_SIZE) \div HugeBytes + 1] * HugeBytes + ((n * PAGE_SIZE) % HugeBytes)
               = Phys(i, n * PAGE_SIZE)
  <2>1. n * PAGE_SIZE \in Nat /\ n * PAGE_SIZE < t BY <1>2, SystemByte, Zenon
  <2> QED BY <1>3, <2>1, Zenon
<1>6. Pinned(i, t)' = Pinned(i, t)
  BY <1>5, Zenon DEF Pinned, Phys
<1> QED BY <1>1, <1>4, <1>6, Zenon

-----------------------------------------------------------------------------
(* A program at rest: nothing is claimed of it but that it has no target.  *)
LEMMA AtRest ==
  ASSUME NEW p \in Procs, pc'[p] \notin {"map file", "register", "huge loop"},
         target'[p] = NoTarget, holder' = p => pc'[p] \notin Early
  PROVE  ProcInv(p)'
  BY Zenon DEF ProcInv, FileCovers

(* A program that another step does not disturb.                           *)
LEMMA Undisturbed ==
  ASSUME NEW p \in Procs
  PROVE  /\ Types /\ ProcInv(p)
         /\ inode' \in [Inodes -> Seq(Frames)]
         /\ gigantic' = gigantic /\ hp'[p] = hp[p] /\ pc'[p] = pc[p]
         /\ target'[p] = target[p] /\ request'[p] = request[p]
         /\ hp[p].data \in Inodes => Grows(hp[p].data)
         /\ holder' = p => holder = p /\ UNCHANGED <<buffer, pages, pins>>
         => ProcInv(p)'
<1>0. SUFFICES ASSUME
         Types, ProcInv(p), inode' \in [Inodes -> Seq(Frames)],
         gigantic' = gigantic, hp'[p] = hp[p], pc'[p] = pc[p],
         target'[p] = target[p], request'[p] = request[p],
         hp[p].data \in Inodes => Grows(hp[p].data),
         holder' = p => holder = p /\ UNCHANGED <<buffer, pages, pins>>
       PROVE  ProcInv(p)'
  BY Zenon
<1>1. PICK S \in Nat \ {0} : S = hugepage_size BY SizesFit, Zenon DEF hugepage_size
<1>2. hugepage_size' = S BY <1>0, <1>1, Zenon DEF hugepage_size
<1>3. PICK m \in Nat : m = hp[p].npages
  <2>1. hp[p].npages \in 0 .. MaxHuge BY <1>0, Zenon DEF Types
  <2> QED BY <2>1, SizesFit, SMTT(30)
<1>4. Total(p) = m * S /\ Total(p)' = m * S BY <1>0, <1>1, <1>2, <1>3, Zenon DEF Total
<1>5. CASE pc[p] \notin {"register", "huge loop"}
  <2>1. FileCovers(p)' BY <1>0, <1>5, Zenon DEF ProcInv, FileCovers
  <2> QED BY <1>0, <1>5, <2>1, Zenon DEF ProcInv, Early
<1>6. CASE pc[p] \in {"register", "huge loop"}
  <2>1. PICK i \in Inodes : i = hp[p].data BY <1>0, <1>6, Zenon DEF ProcInv, FileCovers
  <2>2. m * S > 0 /\ Covers(m * S) <= Len(inode[i]) /\ Grows(i)
    BY <1>0, <1>4, <1>6, <2>1, Zenon DEF ProcInv, FileCovers
  <2>3. /\ \A n \in 0 .. m - 1 : PageAddress(i, S, n)' = PageAddress(i, S, n)
        /\ Pinned(i, m * S)' = Pinned(i, m * S)
    BY <1>0, <2>2, SameBuffer, Zenon
  <2>4. FileCovers(p)'
    <3>1. Covers(m * S)' = Covers(m * S) BY Zenon DEF Covers
    <3>2. PICK x \in Int, y \in Int, z \in Int :
            x = Covers(m * S) /\ y = Len(inode[i]) /\ z = Len(inode'[i])
      <4>1. m * S \in Nat BY SMT
      <4>2. Covers(m * S) \in Nat BY <4>1, CoversNat, Zenon
      <4>3. Len(inode[i]) \in Nat /\ Len(inode'[i]) \in Nat BY <1>0, SMTT(30) DEF Types
      <4> QED BY <4>2, <4>3, SMTT(30)
    <3>3. x <= y /\ y <= z BY <2>2, <3>2, Zenon DEF Grows
    <3>4. Covers(m * S) <= Len(inode'[i]) BY <3>2, <3>3, SMT
    <3> QED BY <1>0, <1>4, <1>6, <2>1, <2>2, <3>1, <3>4, Zenon DEF FileCovers
  <2>5. ASSUME holder' = p, pc[p] = "huge loop" PROVE Describes(p)'
    <3>1. Describes(p) /\ UNCHANGED <<buffer, pages, pins>> BY <1>0, <2>5, Zenon DEF ProcInv
    <3>2. /\ buffer'.virtual /\ buffer'.page_size = hugepage_size'
          /\ \A n \in 0 .. m - 1 : buffer'.page_address[n] = PageAddress(i, S, n)
          /\ \A f \in Pinned(i, m * S) : f \in pages' /\ pins'[f] > 0
      BY <1>1, <1>2, <1>3, <1>4, <2>1, <3>1, Zenon DEF Describes
    <3>3. /\ hp'[p].npages = m /\ hp'[p].data = i /\ hugepage_size' = S
      BY <1>0, <1>2, <1>3, <2>1, Zenon
    <3> QED BY <1>4, <2>3, <3>2, <3>3, SMTT(30) DEF Describes
  <2>6. ASSUME holder' = p, pc[p] = "huge loop", target[p] # NoTarget PROVE Translates(p)'
    <3>1. Translates(p) /\ buffer' = buffer BY <1>0, <2>6, Zenon DEF ProcInv
    <3> QED BY <1>0, <1>4, <3>1, Zenon DEF Translates, InOneHugePage, Translated
  <2>7. holder' = p => pc'[p] \notin Early BY <1>0, Zenon DEF ProcInv
  <2> QED BY <1>0, <2>4, <2>5, <2>6, <2>7, Zenon DEF ProcInv
<1> QED BY <1>5, <1>6, Zenon

-----------------------------------------------------------------------------
(* Inodes that disappear belong to nobody.                                 *)
LEMMA Reaped ==
  ASSUME Types, Reap
  PROVE  /\ inode' \in [Inodes -> Seq(Frames)]
         /\ \A q \in Procs : hp'[q].data \in Inodes => Grows(hp'[q].data)
<1>1. ASSUME NEW i \in Inodes PROVE inode'[i] = inode[i] \/ inode'[i] = << >>
  BY Zenon DEF Reap
<1>2. inode' \in [Inodes -> Seq(Frames)]
  <2>1. << >> \in Seq(Frames) BY SMTT(30)
  <2> QED BY <2>1, Zenon DEF Reap, Types
<1>3. ASSUME NEW q \in Procs, hp'[q].data \in Inodes PROVE Grows(hp'[q].data)
  <2>1. PICK i \in Inodes : i = hp'[q].data BY <1>3, Zenon
  <2>2. InUse(i)' BY <2>1, Zenon DEF InUse
  <2>3. inode'[i] = inode[i] BY <2>2, Zenon DEF Reap
  <2>4. Len(inode[i]) \in Nat BY SMTT(30) DEF Types
  <2> QED BY <2>1, <2>3, <2>4, SMTT(30) DEF Grows
<1> QED BY <1>2, <1>3, Zenon

(* A file that does not change grows.                                      *)
LEMMA SameFiles ==
  ASSUME Types, inode' = inode
  PROVE  \A i \in Inodes : Grows(i)
<1> SUFFICES ASSUME NEW i \in Inodes PROVE Grows(i) BY Zenon
<1>1. Len(inode[i]) \in Nat BY SMTT(30) DEF Types
<1> QED BY <1>1, SMTT(30) DEF Grows

(* A step of p that changes nothing of the others.                         *)
LEMMA OthersKept ==
  ASSUME MwInv, NEW p \in Procs,
         inode' \in [Inodes -> Seq(Frames)], gigantic' = gigantic,
         \A q \in Procs \ {p} :
           /\ hp'[q] = hp[q] /\ pc'[q] = pc[q]
           /\ target'[q] = target[q] /\ request'[q] = request[q]
           /\ hp[q].data \in Inodes => Grows(hp[q].data)
           /\ holder' = q => holder = q /\ UNCHANGED <<buffer, pages, pins>>
  PROVE  \A q \in Procs \ {p} : ProcInv(q)'
<1> SUFFICES ASSUME NEW q \in Procs \ {p} PROVE ProcInv(q)' BY Zenon
<1>1. Types /\ ProcInv(q) BY Zenon DEF MwInv
<1> QED BY <1>1, Undisturbed, Zenon

(* A step of one program to a label of its build keeps the builds apart.   *)
LEMMA BuildKept ==
  ASSUME MwInv, NEW p \in Procs, NEW l,
         UNCHANGED <<USE_HUGE_PAGES, maps, call>>, pc' = [pc EXCEPT ![p] = l],
         \/ l \notin HugePcs \cup KernelPcs
         \/ USE_HUGE_PAGES /\ l \notin KernelPcs
         \/ ~USE_HUGE_PAGES /\ l \notin HugePcs
  PROVE  BuildInv'
<1>1. DOMAIN pc = Procs /\ BuildInv BY Zenon DEF MwInv, Types
<1>2. \A q \in Procs : pc'[q] = IF q = p THEN l ELSE pc[q] BY <1>1, Zenon
<1> QED BY <1>1, <1>2, Zenon DEF BuildInv

(* Steps that leave the huge pages alone and end at a label at rest.       *)
LEMMA LocalStep ==
  ASSUME MwInv, NEW p \in Procs, NEW l,
         UNCHANGED hugeVars, pc' = [pc EXCEPT ![p] = l],
         l \notin {"map file", "register", "huge loop"},
         holder = p => l \notin Early,
         \/ UNCHANGED <<request, target>> /\ target[p] = NoTarget
         \/ /\ request' = [request EXCEPT ![p] = NoRequest]
            /\ target' = [target EXCEPT ![p] = NoTarget]
  PROVE  Types' /\ \A q \in Procs : ProcInv(q)'
<1>1. Types BY Zenon DEF MwInv
<1>2. UNCHANGED <<gigantic, inode, hp, buffer, pages, pins, holder>> BY Zenon DEF hugeVars
<1>3. \A q \in Procs : pc'[q] = IF q = p THEN l ELSE pc[q] BY <1>1, Zenon DEF Types
<1>4. \A q \in Procs \ {p} : target'[q] = target[q] /\ request'[q] = request[q]
  BY <1>1, Zenon DEF Types
<1>5. target'[p] = NoTarget BY <1>1, Zenon DEF Types
<1>6. Types'
  <2>1. pc' = [q \in Procs |-> pc'[q]] /\ DOMAIN target' = Procs BY <1>1, Zenon DEF Types
  <2>2. request' \in [Procs -> [address : Nat, length : Nat]]
    <3>1. NoRequest \in [address : Nat, length : Nat] BY Zenon DEF NoRequest
    <3>2. request \in [Procs -> [address : Nat, length : Nat]] BY <1>1, Zenon DEF Types
    <3>3. request' = request \/ request' = [request EXCEPT ![p] = NoRequest] BY Zenon
    <3> QED BY <3>1, <3>2, <3>3, Zenon
  <2> QED BY <1>1, <1>2, <2>1, <2>2, Zenon DEF Types, Inodes
<1>7. \A q \in Procs \ {p} : ProcInv(q)'
  BY <1>1, <1>2, <1>3, <1>4, SameFiles, OthersKept, Zenon DEF Types
<1>8. ProcInv(p)' BY <1>2, <1>3, <1>5, AtRest, Zenon
<1> QED BY <1>6, <1>7, <1>8, Zenon

-----------------------------------------------------------------------------
(* The steps of a program that uses kernel pages, and those of both builds *)
(* that touch neither buffer.                                              *)
LEMMA KernelStep ==
  ASSUME MwInv, NEW p \in Procs,
         Kernel(p) \/ Begin(p) \/ LeaveLoop(p) \/ Exit(p) \/ Kill(p)
  PROVE  MwInv'
<1>0. Types /\ BuildInv /\ ProcInv(p) BY Zenon DEF MwInv
<1>1. CASE Kernel(p)
  <2>1. ~USE_HUGE_PAGES
    <3>1. GetKernel(p) \/ ReleaseKernel(p) => pc[p] \in KernelPcs
      BY Zenon DEF GetKernel, ReleaseKernel, At, KernelPcs
    <3>2. InRing(p) => call[p].at # "none"
      BY Zenon DEF InRing, RemapFails, StoreLast, StoreFirst, Remap, LoadLast, Goes
    <3>3. Child(p) => maps # << >> BY SMTT(30) DEF Child
    <3> QED BY <1>0, <1>1, <3>1, <3>2, <3>3, Zenon DEF BuildInv, Kernel
  <2>2. UNCHANGED <<USE_HUGE_PAGES, request, target, hugeVars>>
    BY <1>1, Zenon DEF Kernel, GetKernel, InRing, ReleaseKernel, Child, Keeps
  <2>3. PICK l : pc' = [pc EXCEPT ![p] = l] /\ l \notin HugePcs /\ (l = pc[p] \/ l \notin Early)
    <3>1. pc[p] \notin HugePcs BY <1>0, <2>1, Zenon DEF BuildInv
    <3>2. pc = [pc EXCEPT ![p] = pc[p]] BY <1>0, Zenon DEF Types
    <3> QED BY <1>1, <3>1, <3>2, Zenon DEF Kernel, GetKernel, InRing, ReleaseKernel,
       Child, Goto, HugePcs, Early
  <2>4. target[p] = NoTarget
    BY <1>0, <2>1, Zenon DEF BuildInv, ProcInv, HugePcs
  <2>5. BuildInv'
    BY <1>0, <2>1, <2>2, <2>3, Zenon DEF BuildInv, Types
  <2>6. holder = p => l \notin Early BY <1>0, <2>3, Zenon DEF ProcInv
  <2>7. l \notin {"map file", "register", "huge loop"} BY <2>3, Zenon DEF HugePcs
  <2>8. Types' /\ \A q \in Procs : ProcInv(q)'
    BY <2>2, <2>3, <2>4, <2>6, <2>7, LocalStep, Zenon
  <2> QED BY <2>5, <2>8, Zenon DEF MwInv
<1>2. CASE Begin(p)
  <2>1. PICK l : /\ pc' = [pc EXCEPT ![p] = l]
                 /\ l = "exit" \/ l = IF USE_HUGE_PAGES THEN "open file" ELSE "mmap"
    BY <1>2, Zenon DEF Begin, Goto
  <2>2. UNCHANGED <<USE_HUGE_PAGES, maps, call, request, target, hugeVars>> /\ pc[p] = "begin"
    BY <1>2, Zenon DEF Begin, Keeps, ringVars, At
  <2>3. target[p] = NoTarget BY <1>0, <2>2, Zenon DEF ProcInv
  <2>4. BuildInv' BY <2>1, <2>2, BuildKept, Zenon DEF HugePcs, KernelPcs
  <2>5. holder # p BY <1>0, <2>2, Zenon DEF ProcInv, Early
  <2>6. Types' /\ \A q \in Procs : ProcInv(q)' BY <2>1, <2>2, <2>3, <2>5, LocalStep, Zenon
  <2> QED BY <2>4, <2>6, Zenon DEF MwInv
<1>3. CASE LeaveLoop(p)
  <2>1. PICK l : /\ pc' = [pc EXCEPT ![p] = l]
                 /\ \/ pc[p] = "huge loop" /\ l = "unregister"
                    \/ pc[p] = "kernel loop" /\ l = "unset"
    BY <1>3, Zenon DEF LeaveLoop, Goto, At
  <2>2. /\ UNCHANGED <<USE_HUGE_PAGES, maps, call, request, target, hugeVars>>
        /\ target[p] = NoTarget
    BY <1>3, Zenon DEF LeaveLoop, Keeps, ringVars
  <2>3. pc[p] = "huge loop" => USE_HUGE_PAGES BY <1>0, Zenon DEF BuildInv, HugePcs
  <2>4. pc[p] = "kernel loop" => ~USE_HUGE_PAGES BY <1>0, Zenon DEF BuildInv, KernelPcs
  <2>5. BuildInv' BY <2>1, <2>2, <2>3, <2>4, BuildKept, Zenon DEF HugePcs, KernelPcs
  <2>6. Types' /\ \A q \in Procs : ProcInv(q)' BY <2>1, <2>2, LocalStep, Zenon DEF Early
  <2> QED BY <2>5, <2>6, Zenon DEF MwInv
<1>4. CASE Exit(p)
  <2>1. /\ pc' = [pc EXCEPT ![p] = "end"] /\ pc[p] = "exit"
        /\ UNCHANGED <<USE_HUGE_PAGES, maps, call, request, target, hugeVars>>
    BY <1>4, Zenon DEF Exit, Goto, At, Keeps, ringVars
  <2>2. target[p] = NoTarget BY <1>0, <2>1, Zenon DEF ProcInv
  <2>3. BuildInv' BY <2>1, BuildKept, Zenon DEF HugePcs, KernelPcs
  <2>4. Types' /\ \A q \in Procs : ProcInv(q)' BY <2>1, <2>2, LocalStep, Zenon DEF Early
  <2> QED BY <2>3, <2>4, Zenon DEF MwInv
<1>5. CASE Kill(p)
  <2>1. PICK l : /\ pc' = [pc EXCEPT ![p] = l]
                 /\ (pc[p] = "kernel loop" /\ l = "unset") \/ l = "end"
    BY <1>5, Zenon DEF Kill, Goto, At
  <2>2. /\ UNCHANGED <<USE_HUGE_PAGES, maps, call, hugeVars>>
        /\ request' = [request EXCEPT ![p] = NoRequest]
        /\ target' = [target EXCEPT ![p] = NoTarget]
    BY <1>5, Zenon DEF Kill, ringVars
  <2>3. pc[p] = "kernel loop" => ~USE_HUGE_PAGES BY <1>0, Zenon DEF BuildInv, KernelPcs
  <2>4. BuildInv' BY <2>1, <2>2, <2>3, BuildKept, Zenon DEF HugePcs, KernelPcs
  <2>5. Types' /\ \A q \in Procs : ProcInv(q)' BY <2>1, <2>2, LocalStep, Zenon DEF Early
  <2> QED BY <2>4, <2>5, Zenon DEF MwInv
<1> QED BY <1>1, <1>2, <1>3, <1>4, <1>5, Zenon

-----------------------------------------------------------------------------
(* The steps that change the file of huge pages, or give up what a program *)
(* has of it, leave the other programs and the registration alone.         *)
LEMMA FileStep ==
  ASSUME MwInv, NEW p \in Procs, NEW l, NEW h,
         UNCHANGED <<USE_HUGE_PAGES, maps, call, gigantic, buffer, pages, pins>>,
         UNCHANGED <<request, target>>,
         holder' = holder \/ holder' = Nobody,
         pc' = [pc EXCEPT ![p] = l], hp' = [hp EXCEPT ![p] = h],
         h \in [identifier : Inodes \cup {0}, data : Inodes \cup {0},
                kept : Inodes \cup {0}, npages : 0 .. MaxHuge],
         inode' \in [Inodes -> Seq(Frames)],
         \A q \in Procs \ {p} : hp[q].data \in Inodes => Grows(hp[q].data),
         \/ l \notin HugePcs \cup KernelPcs
         \/ USE_HUGE_PAGES /\ l \notin KernelPcs,
         pc[p] # "huge loop", l # "huge loop",
         FileCovers(p)', holder' = p => l \notin Early
  PROVE  MwInv'
<1>1. Types /\ ProcInv(p) BY Zenon DEF MwInv
<1>2. \A q \in Procs : pc'[q] = IF q = p THEN l ELSE pc[q] BY <1>1, Zenon DEF Types
<1>3. \A q \in Procs : hp'[q] = IF q = p THEN h ELSE hp[q] BY <1>1, Zenon DEF Types
<1>4. Types'
  <2>1. pc' = [q \in Procs |-> pc'[q]] BY <1>1, Zenon DEF Types
  <2>2. hp' \in [Procs -> [identifier : Inodes \cup {0}, data : Inodes \cup {0},
                           kept : Inodes \cup {0}, npages : 0 .. MaxHuge]]
    BY <1>1, Zenon DEF Types
  <2> QED BY <1>1, <2>1, <2>2, Zenon DEF Types, Inodes
<1>5. BuildInv' BY BuildKept, Zenon
<1>6. \A q \in Procs \ {p} : holder' = q => holder = q
  <2>1. Nobody \notin Procs BY HugeAssumption, Zenon DEF Nobody
  <2> QED BY <2>1, Zenon
<1>7. \A q \in Procs \ {p} : ProcInv(q)' BY <1>2, <1>3, <1>6, OthersKept, Zenon
<1>8. target'[p] = NoTarget BY <1>1, Zenon DEF ProcInv
<1>9. ProcInv(p)' BY <1>2, <1>8, Zenon DEF ProcInv
<1> QED BY <1>4, <1>5, <1>7, <1>9, Zenon DEF MwInv

INSTANCE FiniteSetTheorems

(* A number of huge pages that a program asks for fits page_address.       *)
LEMMA PagesFit ==
  ASSUME NEW n \in HugeSizes
  PROVE  (IF n = 0 THEN hugepage_number ELSE n) \in 0 .. MaxHuge
<1>1. /\ IsFiniteSet(Frames) /\ Cardinality(Frames) <= MaxHuge /\ MaxHuge \in Nat
      /\ HugeSizes \subseteq 0 .. MaxHuge
  BY HugeAssumption, MiddlewareAssumption, Zenon
<1>2. FreeFrames \subseteq Frames BY Zenon DEF FreeFrames
<1>3. /\ Cardinality(FreeFrames) <= Cardinality(Frames)
      /\ Cardinality(FreeFrames) \in Nat /\ Cardinality(Frames) \in Nat
  BY <1>1, <1>2, FS_Subset, FS_CardinalityType, Zenon
<1>4. Cardinality(FreeFrames) \in 0 .. MaxHuge BY <1>1, <1>3, SMT
<1>5. 0 \in 0 .. MaxHuge BY <1>1, SMT
<1> QED BY <1>1, <1>4, <1>5, Zenon DEF hugepage_number

(* mmap of the file adds the frames that it lacks.                         *)
LEMMA FileMapped ==
  ASSUME Types, NEW p \in Procs, hp[p].identifier \in Inodes, MapFile(p)
  PROVE  /\ inode' \in [Inodes -> Seq(Frames)]
         /\ \A i \in Inodes : Grows(i)
         /\ Covers(Total(p)) <= Len(inode'[hp[p].identifier])
<1>1. PICK i \in Inodes : i = hp[p].identifier BY Zenon
<1>2. PICK new \in [1 .. Missing(p) -> FreeFrames] : inode' = [inode EXCEPT ![i] = @ \o new]
  BY <1>1, Zenon DEF MapFile
<1>3. PICK L \in Nat : L = Len(inode[i])
  <2>1. Len(inode[i]) \in Nat BY SMTT(30) DEF Types
  <2> QED BY <2>1, Zenon
<1>4. PICK c \in Nat : c = Covers(Total(p))
  <2>1. hp[p].npages \in 0 .. MaxHuge BY Zenon DEF Types
  <2>2. PICK m \in Nat : m = hp[p].npages BY <2>1, SizesFit, SMTT(30)
  <2>3. PICK S \in Nat : S = hugepage_size BY SizesFit, Zenon DEF hugepage_size
  <2>4. Total(p) \in Nat
    <3>1. m * S \in Nat BY SMT
    <3> QED BY <2>2, <2>3, <3>1, Zenon DEF Total
  <2> QED BY <2>4, CoversNat, Zenon
<1>5. PICK d \in Nat : d = Missing(p) /\ c <= L + d
  <2>1. Missing(p) = IF c > L THEN c - L ELSE 0 BY <1>1, <1>3, <1>4, Zenon DEF Missing
  <2>2. (IF c > L THEN c - L ELSE 0) \in Nat /\ c <= L + (IF c > L THEN c - L ELSE 0) BY SMT
  <2> QED BY <2>1, <2>2, Zenon
<1>6. new \in Seq(Frames) /\ Len(new) = d
  <2>1. FreeFrames \subseteq Frames BY Zenon DEF FreeFrames
  <2>2. new \in [1 .. d -> Frames] BY <1>2, <1>5, <2>1, Zenon
  <2> QED BY <2>2, SMTT(30)
<1>7. inode[i] \in Seq(Frames) BY Zenon DEF Types
<1>8. /\ inode[i] \o new \in Seq(Frames) /\ Len(inode[i] \o new) = L + d
      /\ \A x \in 1 .. L : (inode[i] \o new)[x] = inode[i][x]
  BY <1>3, <1>6, <1>7, SMTT(30)
<1>9. inode'[i] = inode[i] \o new BY <1>2, Zenon DEF Types
<1>10. ASSUME NEW j \in Inodes PROVE Grows(j)
  <2>1. CASE j = i
    <3>1. L <= L + d BY SMT
    <3> QED BY <1>3, <1>8, <1>9, <2>1, <3>1, Zenon DEF Grows
  <2>2. CASE j # i
    <3>1. inode'[j] = inode[j] BY <1>2, <2>2, Zenon DEF Types
    <3>2. Len(inode[j]) \in Nat BY SMTT(30) DEF Types
    <3> QED BY <3>1, <3>2, SMTT(30) DEF Grows
  <2> QED BY <2>1, <2>2, Zenon
<1>11. inode' \in [Inodes -> Seq(Frames)] BY <1>2, <1>8, Zenon DEF Types
<1> QED BY <1>1, <1>4, <1>5, <1>8, <1>9, <1>10, <1>11, Zenon

(* getFreeHugePages, the release of the buffer, and the end of a process.  *)
LEMMA HugeFileStep ==
  ASSUME MwInv, NEW p \in Procs, GetHuge(p) \/ ReleaseHuge(p) \/ End(p)
  PROVE  MwInv'
<1> DEFINE HP == [identifier : Inodes \cup {0}, data : Inodes \cup {0},
                  kept : Inodes \cup {0}, npages : 0 .. MaxHuge]
<1>0. Types /\ BuildInv /\ ProcInv(p) BY Zenon DEF MwInv
<1>1. pc[p] \in HugePcs => USE_HUGE_PAGES BY <1>0, Zenon DEF BuildInv
<1>2. hp[p] \in HP /\ hp = [hp EXCEPT ![p] = hp[p]] BY <1>0, Zenon DEF Types
<1>3. UNCHANGED <<USE_HUGE_PAGES, maps, call, gigantic, buffer, pages, pins, request, target>>
  BY Zenon DEF GetHuge, ReleaseHuge, End, OpenFile, MapFile, MapFails, FreeHugepage, Unlink,
     DropAll, Keeps, ringVars, hugeVars
<1>4. CASE At(p, "open file") /\ (\E n \in HugeSizes : OpenFile(p, n)) /\ Goto(p, "map file")
  <2>1. PICK n \in HugeSizes : OpenFile(p, n) BY <1>4, Zenon
  <2>2. PICK i \in Inodes, m \in 0 .. MaxHuge :
          hp' = [hp EXCEPT ![p].identifier = i, ![p].npages = m]
    BY <2>1, PagesFit, Zenon DEF OpenFile
  <2>3. PICK h \in HP : /\ h = [hp[p] EXCEPT !.identifier = i, !.npages = m]
                        /\ h.identifier = i
    <3>1. [hp[p] EXCEPT !.identifier = i, !.npages = m] \in HP BY <1>2, Zenon
    <3>2. [hp[p] EXCEPT !.identifier = i, !.npages = m].identifier = i BY <1>2, Zenon
    <3> QED BY <3>1, <3>2, Zenon
  <2>4. hp' = [hp EXCEPT ![p] = h] /\ hp'[p] = h BY <1>0, <2>2, <2>3, Zenon DEF Types
  <2>5. inode' = inode /\ holder' = holder BY <2>1, Zenon DEF OpenFile
  <2>6. pc' = [pc EXCEPT ![p] = "map file"] /\ pc[p] = "open file" /\ pc'[p] = "map file"
    BY <1>0, <1>4, Zenon DEF At, Goto, Types
  <2>7. FileCovers(p)' BY <2>3, <2>4, <2>6, Zenon DEF FileCovers, Inodes
  <2>8. holder # p BY <1>0, <2>6, Zenon DEF ProcInv, Early
  <2>9. inode' \in [Inodes -> Seq(Frames)] /\ \A q \in Inodes : Grows(q)
    BY <1>0, <2>5, SameFiles, Zenon DEF Types
  <2>10. USE_HUGE_PAGES /\ "map file" \notin KernelPcs BY <1>1, <2>6, Zenon
     DEF HugePcs, KernelPcs
  <2> QED BY <1>3, <2>3, <2>4, <2>5, <2>6, <2>7, <2>8, <2>9, <2>10, FileStep, Zenon
<1>5. CASE At(p, "open file") /\ UNCHANGED hugeVars /\ Goto(p, "exit")
  <2>1. hp' = [hp EXCEPT ![p] = hp[p]] /\ inode' = inode /\ holder' = holder
    BY <1>2, <1>5, Zenon DEF hugeVars
  <2>2. pc' = [pc EXCEPT ![p] = "exit"] /\ pc[p] = "open file" /\ pc'[p] = "exit"
    BY <1>0, <1>5, Zenon DEF At, Goto, Types
  <2>3. FileCovers(p)' BY <2>2, Zenon DEF FileCovers
  <2>4. inode' \in [Inodes -> Seq(Frames)] /\ \A q \in Inodes : Grows(q)
    BY <1>0, <2>1, SameFiles, Zenon DEF Types
  <2>5. "exit" \notin HugePcs \cup KernelPcs \cup Early BY Zenon DEF HugePcs,
     KernelPcs, Early
  <2> QED BY <1>2, <1>3, <2>1, <2>2, <2>3, <2>4, <2>5, FileStep, Zenon
<1>6. CASE At(p, "map file") /\ MapFile(p) /\ Goto(p, "register")
  <2>1. pc' = [pc EXCEPT ![p] = "register"] /\ pc[p] = "map file" /\ pc'[p] = "register"
    BY <1>0, <1>6, Zenon DEF At, Goto, Types
  <2>2. PICK i \in Inodes : i = hp[p].identifier BY <1>0, <2>1, Zenon DEF ProcInv,
     FileCovers
  <2>3. /\ inode' \in [Inodes -> Seq(Frames)]
        /\ \A q \in Inodes : Grows(q)
        /\ Covers(Total(p)) <= Len(inode'[i])
    BY <1>0, <1>6, <2>2, FileMapped, Zenon
  <2>4. hp' = [hp EXCEPT ![p].data = i] /\ holder' = holder /\ Total(p) > 0
    BY <1>6, <2>2, Zenon DEF MapFile
  <2>5. PICK h \in HP : h = [hp[p] EXCEPT !.data = i] /\ h.data = i /\ h.npages = hp[p].npages
    <3>1. [hp[p] EXCEPT !.data = i] \in HP BY <1>2, Zenon
    <3>2. /\ [hp[p] EXCEPT !.data = i].data = i
          /\ [hp[p] EXCEPT !.data = i].npages = hp[p].npages
      BY <1>2, Zenon
    <3> QED BY <3>1, <3>2, Zenon
  <2>6. hp' = [hp EXCEPT ![p] = h] /\ hp'[p] = h BY <1>0, <2>4, <2>5, Zenon DEF Types
  <2>7. Total(p)' = Total(p) BY <1>3, <2>5, <2>6, Zenon DEF Total, hugepage_size
  <2>8. FileCovers(p)' BY <2>1, <2>3, <2>4, <2>5, <2>6, <2>7, Zenon DEF FileCovers,
     Inodes, Covers
  <2>9. holder # p BY <1>0, <2>1, Zenon DEF ProcInv, Early
  <2>10. USE_HUGE_PAGES /\ "register" \notin KernelPcs BY <1>1, <2>1, Zenon
     DEF HugePcs, KernelPcs
  <2> QED BY <1>3, <2>1, <2>3, <2>4, <2>5, <2>6, <2>8, <2>9, <2>10, FileStep, Zenon
<1>7. ASSUME NEW l, NEW h \in HP, Reap, hp' = [hp EXCEPT ![p] = h],
             pc' = [pc EXCEPT ![p] = l], pc[p] \notin Early \/ pc[p] = "map file",
             pc[p] # "huge loop",
             holder' = holder \/ holder' = Nobody,
             \/ l \in {"exit", "unlink"} /\ USE_HUGE_PAGES
             \/ l = "begin" /\ holder' # p
      PROVE  MwInv'
  <2>1. pc'[p] = l BY <1>0, <1>7, Zenon DEF Types
  <2>2. FileCovers(p)' BY <1>7, <2>1, Zenon DEF FileCovers
  <2>3. inode' \in [Inodes -> Seq(Frames)]
    BY <1>0, <1>7, Reaped, Zenon
  <2>4. \A q \in Procs \ {p} : hp[q].data \in Inodes => Grows(hp[q].data)
    <3>1. \A q \in Procs \ {p} : hp'[q] = hp[q] BY <1>0, <1>7, Zenon DEF Types
    <3> QED BY <1>0, <1>7, <3>1, Reaped, Zenon
  <2>5. holder' = p => l \notin Early BY <1>7, Zenon DEF Early
  <2>6. (l \notin HugePcs \cup KernelPcs) \/ (USE_HUGE_PAGES /\ l \notin KernelPcs)
    BY <1>7, Zenon DEF HugePcs, KernelPcs
  <2>7. l # "huge loop" BY <1>7, Zenon
  <2> QED BY <1>3, <1>7, <2>2, <2>3, <2>4, <2>5, <2>6, <2>7, FileStep, Zenon
<1>8. CASE At(p, "map file") /\ MapFails(p) /\ Goto(p, "exit")
  <2>1. /\ Reap /\ hp' = hp /\ holder' = holder
        /\ pc[p] = "map file" /\ pc' = [pc EXCEPT ![p] = "exit"]
    BY <1>8, Zenon DEF MapFails, At, Goto
  <2>2. USE_HUGE_PAGES BY <1>1, <2>1, Zenon DEF HugePcs
  <2> QED BY <1>2, <1>7, <2>1, <2>2, Zenon
<1>9. CASE ReleaseHuge(p)
  <2>1. CASE At(p, "free") /\ FreeHugepage(p) /\ Goto(p, "unlink")
    <3>1. /\ Reap /\ holder' = holder /\ pc[p] = "free" /\ pc' = [pc EXCEPT ![p] = "unlink"]
          /\ \E x \in Inodes \cup {0} :
               hp' = [hp EXCEPT ![p].identifier = 0, ![p].data = 0, ![p].kept = x]
      BY <1>2, <2>1, Zenon DEF FreeHugepage, At, Goto
    <3>2. PICK x \in Inodes \cup {0} :
            hp' = [hp EXCEPT ![p].identifier = 0, ![p].data = 0, ![p].kept = x]
      BY <3>1, Zenon
    <3>3. PICK h \in HP : h = [hp[p] EXCEPT !.identifier = 0, !.data = 0,
       !.kept = x] BY <1>2, Zenon
    <3>4. hp' = [hp EXCEPT ![p] = h] BY <1>0, <3>2, <3>3, Zenon DEF Types
    <3>5. USE_HUGE_PAGES /\ pc[p] \notin Early BY <1>1, <3>1, Zenon DEF HugePcs, Early
    <3> QED BY <1>7, <3>1, <3>3, <3>4, <3>5, Zenon
  <2>2. CASE At(p, "unlink") /\ Unlink(p) /\ Goto(p, "exit")
    <3>1. /\ Reap /\ hp' = hp /\ holder' = holder
          /\ pc[p] = "unlink" /\ pc' = [pc EXCEPT ![p] = "exit"]
      BY <2>2, Zenon DEF Unlink, At, Goto
    <3>2. USE_HUGE_PAGES /\ pc[p] \notin Early BY <1>1, <3>1, Zenon DEF HugePcs, Early
    <3> QED BY <1>2, <1>7, <3>1, <3>2, Zenon
  <2> QED BY <1>9, <2>1, <2>2, Zenon DEF ReleaseHuge
<1>10. CASE End(p)
  <2>1. /\ Reap /\ hp' = [hp EXCEPT ![p] = NoHp] /\ pc[p] = "end"
        /\ holder' = (IF holder = p THEN Nobody ELSE holder)
        /\ pc' = [pc EXCEPT ![p] = "begin"]
    BY <1>10, Zenon DEF End, DropAll, At, Goto
  <2>2. NoHp \in HP BY SizesFit, SMTT(30) DEF NoHp
  <2>3. Nobody # p BY HugeAssumption, Zenon DEF Nobody
  <2>4. (holder' = holder \/ holder' = Nobody) /\ holder' # p BY <2>1, <2>3, Zenon
  <2>5. pc[p] \notin Early BY <2>1, Zenon DEF Early
  <2> QED BY <1>7, <2>1, <2>2, <2>4, <2>5, Zenon
<1> QED BY <1>4, <1>5, <1>6, <1>8, <1>9, <1>10, Zenon DEF GetHuge

-----------------------------------------------------------------------------
(* reg_hugemem pins frames of the pool, and fills one entry of             *)
(* page_address for each page of the buffer.                               *)
LEMMA PinsFrames ==
  ASSUME Types, NEW i \in Inodes, NEW t \in Nat, t > 0, Covers(t) <= Len(inode[i])
  PROVE  Pinned(i, t) \subseteq Frames
<1> SUFFICES ASSUME NEW n \in 0 .. SystemPages(t) - 1
             PROVE  Phys(i, n * PAGE_SIZE) \div HugeBytes \in Frames
  BY Zenon DEF Pinned
<1>1. n * PAGE_SIZE \in Nat /\ n * PAGE_SIZE < t BY SystemByte, Zenon
<1>2. PICK b \in Nat : b = n * PAGE_SIZE /\ b < t BY <1>1, Zenon
<1>3. Phys(i, b) \div HugeBytes \in Frames BY <1>2, FrameOf, Zenon
<1> QED BY <1>2, <1>3, Zenon

(* A buffer of m pages of S bytes has m entries in page_address.           *)
LEMMA WholePages ==
  ASSUME NEW m \in Nat, NEW S \in Nat \ {0}
  PROVE  HugePagesOf(m * S, S) = m
<1>1. (m * S + 0) \div S = m BY DivUnique, SMTT(30)
<1>2. m * S + 0 = m * S /\ S * m = m * S /\ m + 0 = m BY SMT
<1>3. (m * S) \div S = m BY <1>1, <1>2, Zenon
<1> QED BY <1>2, <1>3, Zenon DEF HugePagesOf

(* After reg_hugemem the registration in force describes the buffer of p.  *)
LEMMA Registered ==
  ASSUME Types, NEW p \in Procs, FileCovers(p), pc[p] = "register", Register(p)
  PROVE  /\ Describes(p)'
         /\ pins' \in [Frames -> Nat] /\ \A f \in pages' \cap Frames : pins'[f] > 0
<1>1. PICK i \in Inodes : i = hp[p].data BY Zenon DEF FileCovers
<1>2. hp[p].npages \in 0 .. MaxHuge BY Zenon DEF Types
<1>3. PICK m \in Nat : m = hp[p].npages /\ m <= MaxHuge BY <1>2, SizesFit, SMT
<1>4. PICK S \in Nat \ {0} : S = hugepage_size BY SizesFit, Zenon DEF hugepage_size
<1>5. PICK t \in Nat : t = m * S BY SMT
<1>6. Total(p) = t /\ t > 0 /\ Covers(t) <= Len(inode[i])
  BY <1>1, <1>3, <1>4, <1>5, Zenon DEF Total, FileCovers
<1>7. UNCHANGED <<gigantic, inode, hp>> BY Zenon DEF Register
<1>8. hugepage_size' = S /\ Total(p)' = t /\ hp'[p].data = i /\ hp'[p].npages = m
  BY <1>1, <1>3, <1>4, <1>6, <1>7, Zenon DEF hugepage_size, Total
<1>9. \A n : PageAddress(i, S, n)' = PageAddress(i, S, n) BY <1>7, Zenon
   DEF PageAddress, Phys
<1>10. Pinned(i, t)' = Pinned(i, t) BY <1>7, Zenon DEF Pinned, Phys
<1>11. /\ buffer'.virtual /\ buffer'.page_size = S
       /\ buffer'.page_address = [n \in 0 .. MaxHuge - 1 |->
                  IF n < HugePagesOf(t, S) THEN PageAddress(i, S, n) ELSE buffer.page_address[n]]
  BY <1>1, <1>4, <1>6, Zenon DEF Register
<1>12. HugePagesOf(t, S) = m BY <1>5, WholePages, Zenon
<1>13. ASSUME NEW n \in 0 .. m - 1 PROVE buffer'.page_address[n] = PageAddress(i, S, n)
  <2>1. n \in 0 .. MaxHuge - 1 /\ n < m BY <1>3, SizesFit, SMT
  <2> QED BY <1>11, <1>12, <2>1, Zenon
<1>14. /\ pages' = Pinned(i, t)
       /\ pins' = [f \in Frames |-> pins[f] + IF f \in Pinned(i, t) THEN 1 ELSE 0]
  BY <1>1, <1>6, Zenon DEF Register
<1>15. Pinned(i, t) \subseteq Frames BY <1>6, PinsFrames, Zenon
<1>16. ASSUME NEW f \in Frames
       PROVE  pins'[f] \in Nat /\ (f \in Pinned(i, t) => pins'[f] > 0)
  <2>1. PICK x \in Nat : x = pins[f] BY Zenon DEF Types
  <2>2. pins'[f] = x + IF f \in Pinned(i, t) THEN 1 ELSE 0 BY <1>14, <2>1, Zenon
  <2>3. x + 1 \in Nat /\ x + 1 > 0 /\ x + 0 \in Nat BY SMT
  <2> QED BY <2>2, <2>3, Zenon
<1>17. pins' \in [Frames -> Nat] BY <1>14, <1>16, Zenon
<1>18. \A f \in Pinned(i, t) : f \in pages' /\ pins'[f] > 0 BY <1>14, <1>15, <1>16, Zenon
<1>19. Describes(p)' BY <1>8, <1>9, <1>10, <1>11, <1>13, <1>18, Zenon DEF Describes
<1> QED BY <1>14, <1>17, <1>18, <1>19, Zenon

(* setHugePages and unsetHugeFreePages, with the ioctl done or interrupted.*)
LEMMA RegistrationStep ==
  ASSUME MwInv, NEW p \in Procs, RegisterBuffer(p) \/ UnregisterBuffer(p)
  PROVE  MwInv'
<1>0. Types /\ BuildInv /\ ProcInv(p) BY Zenon DEF MwInv
<1>1. PICK l : /\ pc' = [pc EXCEPT ![p] = l]
               /\ \/ RegisterBuffer(p) /\ pc[p] = "register" /\ l = "huge loop"
                  \/ UnregisterBuffer(p) /\ pc[p] = "unregister" /\ l = "free"
  BY Zenon DEF RegisterBuffer, UnregisterBuffer, Goto, At
<1>2. UNCHANGED <<USE_HUGE_PAGES, maps, call, request, target>>
  BY Zenon DEF RegisterBuffer, UnregisterBuffer, ringVars
<1>3. UNCHANGED <<gigantic, inode, hp>>
  BY Zenon DEF RegisterBuffer, UnregisterBuffer, Register, Unregister, hugeVars
<1>4. \A q \in Procs : pc'[q] = IF q = p THEN l ELSE pc[q] BY <1>0, <1>1, Zenon DEF Types
<1>5. USE_HUGE_PAGES /\ l \notin KernelPcs BY <1>0, <1>1, Zenon DEF BuildInv, HugePcs,
   KernelPcs
<1>6. BuildInv' BY <1>1, <1>2, <1>5, BuildKept, Zenon
<1>7. target[p] = NoTarget /\ target'[p] = NoTarget BY <1>0, <1>1, <1>2, Zenon DEF ProcInv
<1>8. pins' \in [Frames -> Nat] /\ (\A f \in pages' \cap Frames : pins'[f] > 0) => Types'
  <2>1. pc' = [q \in Procs |-> pc'[q]] BY <1>0, <1>1, Zenon DEF Types
  <2> QED BY <1>0, <1>2, <1>3, <2>1, Zenon DEF Types, Inodes
<1>9. \A q \in Inodes : Grows(q) BY <1>0, <1>3, SameFiles, Zenon
<1>10. inode' \in [Inodes -> Seq(Frames)] BY <1>0, <1>3, Zenon DEF Types
<1>11. (\A q \in Procs \ {p} : holder' = q => holder = q /\ UNCHANGED <<buffer, pages, pins>>)
       => \A q \in Procs \ {p} : ProcInv(q)'
  BY <1>2, <1>3, <1>4, <1>9, <1>10, OthersKept, Zenon
<1>12. FileCovers(p)'
  <2>1. CASE pc[p] = "register"
    <3>1. Total(p)' = Total(p) BY <1>3, Zenon DEF Total, hugepage_size
    <3> QED BY <1>0, <1>1, <1>3, <1>4, <2>1, <3>1, Zenon DEF ProcInv, FileCovers,
       Covers, Inodes
  <2>2. CASE pc[p] = "unregister" BY <1>1, <1>4, <2>2, Zenon DEF FileCovers
  <2> QED BY <1>1, <2>1, <2>2, Zenon
<1>13. CASE pc[p] = "register" /\ Register(p)
  <2>1. /\ Describes(p)'
        /\ pins' \in [Frames -> Nat] /\ \A f \in pages' \cap Frames : pins'[f] > 0
    BY <1>0, <1>13, Registered, Zenon DEF ProcInv
  <2>2. holder' = p BY <1>13, Zenon DEF Register
  <2>3. ProcInv(p)' BY <1>1, <1>4, <1>7, <1>12, <1>13, <2>1, Zenon DEF ProcInv, Early
  <2> QED BY <1>6, <1>8, <1>11, <2>1, <2>2, <2>3, Zenon DEF MwInv
<1>14. CASE pc[p] = "unregister" /\ Unregister(p)
  <2>1. holder' = Nobody /\ Nobody \notin Procs
    BY <1>14, HugeAssumption, Zenon DEF Unregister, Nobody
  <2>2. ProcInv(p)' BY <1>7, <1>12, <2>1, Zenon DEF ProcInv
  <2>3. pins' \in [Frames -> Nat] /\ \A f \in pages' \cap Frames : pins'[f] > 0
    <3>1. CASE UNCHANGED <<pages, pins>> BY <1>0, <3>1, Zenon DEF Types
    <3>2. CASE /\ pages' = {}
               /\ pins' = [f \in Frames |-> IF f \in pages THEN pins[f] - 1 ELSE pins[f]]
      <4>1. ASSUME NEW f \in Frames
            PROVE  (IF f \in pages THEN pins[f] - 1 ELSE pins[f]) \in Nat
        <5>1. pins[f] \in Nat /\ (f \in pages => pins[f] > 0) BY <1>0, Zenon DEF Types
        <5> QED BY <5>1, SMTT(30)
      <4> QED BY <3>2, <4>1, Zenon
    <3> QED BY <1>14, <3>1, <3>2, Zenon DEF Unregister
  <2> QED BY <1>6, <1>8, <1>11, <2>1, <2>2, <2>3, Zenon DEF MwInv
<1>15. CASE UNCHANGED hugeVars
  <2>1. UNCHANGED <<buffer, pages, pins, holder>> BY <1>15, Zenon DEF hugeVars
  <2>2. pins' \in [Frames -> Nat] /\ \A f \in pages' \cap Frames : pins'[f] > 0
    BY <1>0, <2>1, Zenon DEF Types
  <2>3. holder = p => l = "free" BY <1>0, <1>1, Zenon DEF ProcInv, Early
  <2>4. ProcInv(p)' BY <1>4, <1>7, <1>12, <2>1, <2>3, Zenon DEF ProcInv, Early
  <2> QED BY <1>6, <1>8, <1>11, <2>1, <2>2, <2>4, Zenon DEF MwInv
<1> QED BY <1>1, <1>13, <1>14, <1>15, Zenon DEF RegisterBuffer, UnregisterBuffer

-----------------------------------------------------------------------------
(* writeDescriptor translates under the registration in force;             *)
(* readDescriptor ends the descriptor.                                     *)
LEMMA DescriptorStep ==
  ASSUME MwInv, NEW p \in Procs, WriteDescriptor(p) \/ ReadDescriptor(p)
  PROVE  MwInv'
<1>0. Types /\ BuildInv /\ ProcInv(p) BY Zenon DEF MwInv
<1>1. UNCHANGED <<USE_HUGE_PAGES, maps, call, pc, hugeVars>>
  BY Zenon DEF WriteDescriptor, ReadDescriptor, ringVars
<1>2. UNCHANGED <<gigantic, inode, hp, buffer, pages, pins, holder>> BY <1>1, Zenon
   DEF hugeVars
<1>3. PICK r, t : /\ request' = [request EXCEPT ![p] = r] /\ target' = [target EXCEPT ![p] = t]
                  /\ r \in [address : Nat, length : Nat]
                  /\ t # NoTarget => /\ pc[p] = "huge loop" /\ t = TargetOf(r.address)
                                     /\ r.address + r.length <= Total(p)
                                     /\ buffer.virtual => InOneHugePage(r.address, r.length)
  <2>1. NoRequest \in [address : Nat, length : Nat] BY Zenon DEF NoRequest
  <2>2. Requests \subseteq [address : Nat, length : Nat] BY MiddlewareAssumption, Zenon
  <2>3. CASE ReadDescriptor(p) BY <2>1, <2>3, Zenon DEF ReadDescriptor
  <2>4. CASE WriteDescriptor(p)
    <3>1. PICK r \in Requests :
            /\ r.address + r.length <= Total(p)
            /\ buffer.virtual => InOneHugePage(r.address, r.length)
            /\ request' = [request EXCEPT ![p] = r]
            /\ target' = [target EXCEPT ![p] = TargetOf(r.address)]
      BY <2>4, Zenon DEF WriteDescriptor
    <3> QED BY <2>2, <2>4, <3>1, Zenon DEF WriteDescriptor, At
  <2> QED BY <2>3, <2>4, Zenon
<1>4. Types' BY <1>0, <1>1, <1>2, <1>3, Zenon DEF Types, Inodes
<1>5. BuildInv' BY <1>0, <1>1, Zenon DEF BuildInv
<1>6. /\ request'[p] = r /\ target'[p] = t
      /\ \A q \in Procs \ {p} : request'[q] = request[q] /\ target'[q] = target[q]
  BY <1>0, <1>3, Zenon DEF Types
<1>7. \A q \in Procs \ {p} : ProcInv(q)'
  <2>1. \A q \in Inodes : Grows(q) BY <1>0, <1>2, SameFiles, Zenon
  <2>2. inode' \in [Inodes -> Seq(Frames)] BY <1>0, <1>2, Zenon DEF Types
  <2> QED BY <1>1, <1>2, <1>6, <2>1, <2>2, OthersKept, Zenon
<1>8. FileCovers(p)' = FileCovers(p) /\ Describes(p)' = Describes(p)
  BY <1>1, <1>2, Zenon DEF FileCovers, Describes, Total, hugepage_size, Covers,
     PageAddress, Pinned, Phys, Inodes
<1>9. ASSUME holder = p, pc[p] = "huge loop", t # NoTarget PROVE Translates(p)'
  <2>1. buffer.virtual BY <1>0, <1>9, Zenon DEF ProcInv, Describes
  <2>2. t.base = Translated(r.address)
    <3>1. TargetOf(r.address) = [mem |-> "huge", base |-> Translated(r.address)]
      BY <2>1, Zenon DEF TargetOf
    <3>2. t = [mem |-> "huge", base |-> Translated(r.address)] BY <1>3, <1>9, <3>1, Zenon
    <3> QED BY <3>2, Zenon
  <2>3. Total(p)' = Total(p) BY <1>2, Zenon DEF Total, hugepage_size
  <2> QED BY <1>2, <1>3, <1>6, <1>9, <2>1, <2>2, <2>3, Zenon DEF Translates,
     InOneHugePage, Translated
<1>10. ProcInv(p)' BY <1>0, <1>1, <1>2, <1>3, <1>6, <1>8, <1>9, Zenon DEF ProcInv
<1> QED BY <1>4, <1>5, <1>7, <1>10, Zenon DEF MwInv

(* restart.sh forgets the registration.                                    *)
LEMMA RestartStep ==
  ASSUME MwInv, Restart
  PROVE  MwInv'
<1>0. Types /\ BuildInv BY Zenon DEF MwInv
<1>1. UNCHANGED <<gigantic, inode, hp, pins, pc, request, target, USE_HUGE_PAGES, maps, call>>
  BY Zenon DEF Restart, mwVars
<1>2. holder' = Nobody /\ Nobody \notin Procs /\ pages' = {}
  BY HugeAssumption, Zenon DEF Restart, Nobody
<1>3. Types' BY <1>0, <1>1, <1>2, Zenon DEF Types, Inodes
<1>4. BuildInv' BY <1>0, <1>1, Zenon DEF BuildInv
<1>5. ASSUME NEW q \in Procs PROVE ProcInv(q)'
  <2>1. ProcInv(q) BY Zenon DEF MwInv
  <2>2. FileCovers(q)' = FileCovers(q)
    BY <1>1, Zenon DEF FileCovers, Total, hugepage_size, Covers, Inodes
  <2> QED BY <1>1, <1>2, <2>1, <2>2, Zenon DEF ProcInv
<1> QED BY <1>3, <1>4, <1>5, Zenon DEF MwInv

-----------------------------------------------------------------------------
(* The invariant holds at the start.                                       *)
LEMMA InitHolds == Init => MwInv
<1> SUFFICES ASSUME Init PROVE MwInv BY Zenon
<1>1. Types
  <2>1. hp \in [Procs -> [identifier : Inodes \cup {0}, data : Inodes \cup {0},
                          kept : Inodes \cup {0}, npages : 0 .. MaxHuge]]
    BY SizesFit, SMTT(30) DEF Init, HugeInit, NoHp
  <2>2. request \in [Procs -> [address : Nat, length : Nat]] BY Zenon DEF Init, NoRequest
  <2>3. inode \in [Inodes -> Seq(Frames)] BY SMTT(30) DEF Init, HugeInit
  <2>4. pc = [p \in Procs |-> pc[p]] /\ DOMAIN target = Procs BY Zenon DEF Init
  <2> QED BY <2>1, <2>2, <2>3, <2>4, Zenon DEF Types, Init, HugeInit
<1>2. \A p \in Procs : pc[p] = "begin" /\ target[p] = NoTarget /\ call[p].at = "none"
  BY Zenon DEF Init, RingInit, Outside
<1>3. BuildInv BY <1>2, Zenon DEF BuildInv, Init, RingInit, HugePcs, KernelPcs
<1>4. holder = Nobody /\ Nobody \notin Procs BY HugeAssumption, Zenon DEF Init,
   HugeInit, Nobody
<1>5. \A p \in Procs : ProcInv(p) BY <1>2, <1>4, Zenon DEF ProcInv, FileCovers
<1> QED BY <1>1, <1>3, <1>5, Zenon DEF MwInv

(* Every step keeps it.                                                    *)
LEMMA NextKeeps == MwInv /\ [Next]_vars => MwInv'
<1> SUFFICES ASSUME MwInv, [Next]_vars PROVE MwInv' BY Zenon
<1>1. ASSUME NEW p \in Procs, Begin(p) \/ Kernel(p) \/ LeaveLoop(p) \/ Exit(p) \/ Kill(p)
      PROVE MwInv'
  BY <1>1, KernelStep, Zenon
<1>2. ASSUME NEW p \in Procs, Huge(p) PROVE MwInv'
  BY <1>2, HugeFileStep, RegistrationStep, Zenon DEF Huge
<1>3. ASSUME NEW p \in Procs, End(p) PROVE MwInv' BY <1>3, HugeFileStep, Zenon
<1>4. ASSUME NEW p \in Procs, WriteDescriptor(p) \/ ReadDescriptor(p) PROVE MwInv'
  BY <1>4, DescriptorStep, Zenon
<1>5. CASE Restart BY <1>5, RestartStep, Zenon
<1>6. CASE UNCHANGED vars
  <2>1. UNCHANGED <<gigantic, inode, hp, buffer, pages, pins, holder, pc, request, target,
                    USE_HUGE_PAGES, maps, call>>
    BY <1>6, Zenon DEF vars, hugeVars, mwVars, ringVars
  <2>2. Types' = Types /\ BuildInv' = BuildInv BY <2>1, Zenon DEF Types, BuildInv, Inodes
  <2>3. ASSUME NEW p \in Procs PROVE ProcInv(p)' = ProcInv(p)
    <3>1. FileCovers(p)' = FileCovers(p) /\ Describes(p)' = Describes(p)
      BY <2>1, SMTT(30) DEF FileCovers, Describes, Total, hugepage_size, Covers, PageAddress, Pinned,
         Phys, Inodes
    <3>2. Translates(p)' = Translates(p)
      BY <2>1, Zenon DEF Translates, Total, hugepage_size, InOneHugePage, Translated
    <3> QED BY <2>1, <3>1, <3>2, Zenon DEF ProcInv
  <2> QED BY <2>2, <2>3, Zenon DEF MwInv
<1> QED BY <1>1, <1>2, <1>3, <1>4, <1>5, <1>6, Zenon DEF Next

(* A descriptor on a registered huge page buffer reaches the bytes of the  *)
(* program's own buffer that its address names, in pinned frames, as long  *)
(* as this registration is in force (setHugePages, reg_hugemem and         *)
(* NFPIOC_WRITE_DMA_DESCRIPTOR): whatever the sizes, and whatever other    *)
(* programs, kills, interrupted ioctls and reloads of the driver do.       *)
THEOREM DescriptorsHit == Spec => []DescriptorHitsBuffer
<1>1. MwInv => DescriptorHitsBuffer
  <2> SUFFICES ASSUME MwInv, NEW p \in Procs, holder = p, target[p] # NoTarget,
                      gigantic \/ hp[p].npages = 1,
                      NEW k \in 0 .. request[p].length - 1
               PROVE  LET byte == Phys(hp[p].data, request[p].address + k)
                      IN  target[p].base + k = byte /\ pins[byte \div HugeBytes] > 0
    BY Zenon DEF DescriptorHitsBuffer
  <2>1. Types /\ ProcInv(p) BY Zenon DEF MwInv
  <2>2. PICK a \in Nat, l \in Nat : a = request[p].address /\ l = request[p].length
    BY <2>1, Zenon DEF Types
  <2>3. k \in Nat /\ k < l BY <2>2, SMTT(30)
  <2>4. FileCovers(p) /\ pc[p] = "huge loop" /\ Describes(p) /\ Translates(p)
    BY <2>1, Zenon DEF ProcInv
  <2>5. LET byte == Phys(hp[p].data, a + k)
        IN  target[p].base + k = byte /\ pins[byte \div HugeBytes] > 0
    BY <2>1, <2>2, <2>3, <2>4, Hits, Zenon
  <2> QED BY <2>2, <2>5, Zenon
<1> QED BY <1>1, InitHolds, NextKeeps, PTL DEF Spec

-----------------------------------------------------------------------------
(* The return of the pool.                                                 *)

(* Where a program answers for the name of the file, and where the driver  *)
(* may hold pages for it.                                                  *)
Naming == {"map file", "register", "huge loop", "unregister", "free", "unlink"}
Using == {"huge loop", "unregister"}

(* A program has nothing of the file before it opens it, and a file that   *)
(* has frames is in use.                                                   *)
FilesInv ==
  /\ \A p \in Procs :
       /\ pc[p] \in {"begin", "open file"} =>
            hp[p].identifier = 0 /\ hp[p].data = 0 /\ hp[p].kept = 0
       /\ pc[p] = "map file" => hp[p].data = 0
  /\ \A i \in Inodes : inode[i] = << >> \/ InUse(i)

(* The name of the file is there for somebody who will remove it.          *)
NameInv == clean /\ name # 0 => \E p \in Procs : pc[p] \in Naming

(* Exactly the pages of the registration in force are pinned, once, for a  *)
(* program that has the device open.                                       *)
PinsInv ==
  /\ DOMAIN fd = Procs /\ holder \in Procs \cup {Nobody}
  /\ \A p \in Procs : pc[p] \in Using => fd[p] = "open"
  /\ clean =>
       /\ \A p \in Procs : holder = p => pc[p] \in Using
       /\ IF holder = Nobody THEN \A f \in Frames : pins[f] = 0
          ELSE /\ buffer.length > 0
               /\ \A f \in Frames : pins[f] = IF f \in pages THEN 1 ELSE 0

LeakInv == FilesInv /\ NameInv /\ PinsInv

(* A step of p that leaves the huge pages alone leaks nothing, unless it   *)
(* gives up what p still has to return, in which case clean is FALSE.      *)
LEMMA QuietStep ==
  ASSUME Types, LeakInv, NEW p \in Procs, NEW l,
         UNCHANGED hugeVars, pc' = [pc EXCEPT ![p] = l],
         l \in {"begin", "open file"} => pc[p] \in {"begin", "open file"},
         l = "map file" => pc[p] = "map file",
         clean' => /\ clean
                   /\ pc[p] \in Naming => l \in Naming
                   /\ pc[p] \in Using => l \in Using,
         l \in Using => fd[p] = "open" /\ fd'[p] = fd[p],
         DOMAIN fd' = Procs, \A q \in Procs \ {p} : fd'[q] = fd[q]
  PROVE  LeakInv'
<1>1. UNCHANGED <<name, inode, hp, buffer, pages, pins, holder>> BY Zenon DEF hugeVars
<1>2. \A q \in Procs : pc'[q] = IF q = p THEN l ELSE pc[q] BY Zenon DEF Types
<1>3. FilesInv'
  <2>1. \A i : InUse(i)' = InUse(i) BY <1>1, Zenon DEF InUse
  <2>2. ASSUME NEW q \in Procs
        PROVE  /\ pc'[q] \in {"begin", "open file"} => pc[q] \in {"begin", "open file"}
               /\ pc'[q] = "map file" => pc[q] = "map file"
    BY <1>2, Zenon
  <2>3. FilesInv BY Zenon DEF LeakInv
  <2> QED BY <1>1, <2>1, <2>2, <2>3, Zenon DEF FilesInv, Inodes
<1>4. NameInv' BY <1>1, <1>2, Zenon DEF LeakInv, NameInv
<1>5. PinsInv'
  <2>0. PinsInv BY Zenon DEF LeakInv
  <2>1. DOMAIN fd' = Procs /\ holder' \in Procs \cup {Nobody} BY <1>1, <2>0, Zenon DEF PinsInv
  <2>2. ASSUME NEW q \in Procs, pc'[q] \in Using PROVE fd'[q] = "open"
    <3>1. CASE q = p
      <4>1. l \in Using BY <1>2, <2>2, <3>1, Zenon
      <4> QED BY <3>1, <4>1, Zenon
    <3>2. CASE q # p
      <4>1. pc[q] \in Using /\ fd'[q] = fd[q] BY <1>2, <2>2, <3>2, Zenon
      <4>2. pc[q] \in Using => fd[q] = "open" BY <2>0, Zenon DEF PinsInv
      <4> QED BY <4>1, <4>2, Zenon
    <3> QED BY <3>1, <3>2, Zenon
  <2>3. clean' => \A q \in Procs : holder' = q => pc'[q] \in Using
    BY <1>1, <1>2, <2>0, Zenon DEF PinsInv
  <2> QED BY <1>1, <2>0, <2>1, <2>2, <2>3, Zenon DEF PinsInv
<1> QED BY <1>3, <1>4, <1>5, Zenon DEF LeakInv

(* The steps outside getFreeHugePages, setHugePages and the release.       *)
LEMMA QuietLeak ==
  ASSUME MwInv, LeakInv, NEW p \in Procs,
         \/ Begin(p) \/ Kernel(p) \/ WriteDescriptor(p) \/ ReadDescriptor(p)
         \/ LeaveLoop(p) \/ Exit(p) \/ Kill(p)
  PROVE  LeakInv'
<1>0. Types /\ BuildInv BY Zenon DEF MwInv
<1>1. pc = [pc EXCEPT ![p] = pc[p]] BY <1>0, Zenon DEF Types
<1>2. DOMAIN fd = Procs /\ (pc[p] \in Using => fd[p] = "open") BY Zenon DEF LeakInv, PinsInv
<1>3. CASE Begin(p)
  <2>1. /\ UNCHANGED <<hugeVars, clean>> /\ pc[p] = "begin"
        /\ \E l \in {"exit", "open file", "mmap"} : pc' = [pc EXCEPT ![p] = l]
        /\ \E x : fd' = [fd EXCEPT ![p] = x]
    BY <1>3, Zenon DEF Begin, Goto, At, Keeps, rte_eal_init
  <2> QED BY <1>0, <1>2, <2>1, QuietStep, Zenon DEF Naming, Using
<1>4. CASE Kernel(p)
  <2>1. UNCHANGED <<hugeVars, clean, fd>>
    BY <1>4, Zenon DEF Kernel, GetKernel, InRing, ReleaseKernel, Child, Keeps, ealVars
  <2>2. ~USE_HUGE_PAGES
    <3>1. GetKernel(p) \/ ReleaseKernel(p) => pc[p] \in KernelPcs
      BY Zenon DEF GetKernel, ReleaseKernel, At, KernelPcs
    <3>2. InRing(p) => call[p].at # "none"
      BY Zenon DEF InRing, RemapFails, StoreLast, StoreFirst, Remap, LoadLast, Goes
    <3>3. Child(p) => maps # << >> BY SMTT(30) DEF Child
    <3> QED BY <1>0, <1>4, <3>1, <3>2, <3>3, Zenon DEF BuildInv, Kernel
  <2>3. pc[p] \notin HugePcs BY <1>0, <2>2, Zenon DEF BuildInv
  <2>4. \E l : /\ pc' = [pc EXCEPT ![p] = l]
               /\ l = pc[p] \/ l \in {"mapping", "exit", "kernel loop", "closing"}
    BY <1>1, <1>4, Zenon DEF Kernel, GetKernel, InRing, ReleaseKernel, Child, Goto
  <2> QED BY <1>0, <1>2, <2>1, <2>3, <2>4, QuietStep, Zenon DEF Naming, Using, HugePcs
<1>5. CASE WriteDescriptor(p) \/ ReadDescriptor(p)
  <2>1. UNCHANGED <<hugeVars, clean, fd, pc>>
    BY <1>5, Zenon DEF WriteDescriptor, ReadDescriptor, ealVars
  <2> QED BY <1>0, <1>1, <1>2, <2>1, QuietStep, Zenon
<1>6. CASE LeaveLoop(p)
  <2>1. /\ UNCHANGED <<hugeVars, clean, fd>>
        /\ \/ pc[p] = "huge loop" /\ pc' = [pc EXCEPT ![p] = "unregister"]
           \/ pc[p] = "kernel loop" /\ pc' = [pc EXCEPT ![p] = "unset"]
    BY <1>6, Zenon DEF LeaveLoop, Goto, At, Keeps, ealVars
  <2> QED BY <1>0, <1>2, <2>1, QuietStep, Zenon DEF Naming, Using
<1>7. CASE Exit(p)
  <2>1. /\ UNCHANGED <<hugeVars, clean>> /\ pc[p] = "exit" /\ pc' = [pc EXCEPT ![p] = "end"]
        /\ fd' = fd \/ fd' = [fd EXCEPT ![p] = "zero"]
    BY <1>7, Zenon DEF Exit, Goto, At, Keeps, rte_free, ealVars
  <2> QED BY <1>0, <1>2, <2>1, QuietStep, Zenon DEF Naming, Using
<1>8. CASE Kill(p)
  <2>1. /\ UNCHANGED <<hugeVars, fd>>
        /\ clean' => clean /\ pc[p] \in {"kernel loop", "mmap", "open file"}
        /\ \E l \in {"unset", "end"} : pc' = [pc EXCEPT ![p] = l]
    BY <1>8, Zenon DEF Kill, Goto, ealVars
  <2> QED BY <1>0, <1>2, <2>1, QuietStep, Zenon DEF Naming, Using
<1> QED BY <1>3, <1>4, <1>5, <1>6, <1>7, <1>8, Zenon

(* getFreeHugePages, the release of the buffer, and the end of a process:  *)
(* a file is in use from the moment it is created, and its frames go when  *)
(* the last user goes.                                                     *)
LEMMA FileLeak ==
  ASSUME MwInv, LeakInv, NEW p \in Procs, GetHuge(p) \/ ReleaseHuge(p) \/ End(p)
  PROVE  LeakInv'
<1>0. Types /\ FilesInv /\ NameInv /\ PinsInv BY Zenon DEF MwInv, LeakInv
<1>1. UNCHANGED <<buffer, pages, pins, clean>>
  BY Zenon DEF GetHuge, ReleaseHuge, End, OpenFile, MapFile, MapFails, FreeHugepage, Unlink,
     DropAll, Keeps, hugeVars
<1>2. PICK l : /\ pc' = [pc EXCEPT ![p] = l]
               /\ \/ pc[p] = "open file" /\ (\E n \in HugeSizes : OpenFile(p, n)) /\ l = "map file"
                  \/ pc[p] = "open file" /\ UNCHANGED hugeVars /\ l = "exit"
                  \/ pc[p] = "map file" /\ MapFile(p) /\ l = "register"
                  \/ pc[p] = "map file" /\ MapFails(p) /\ l = "exit"
                  \/ pc[p] = "free" /\ FreeHugepage(p) /\ l = "unlink"
                  \/ pc[p] = "unlink" /\ Unlink(p) /\ l = "exit"
                  \/ pc[p] = "end" /\ DropAll(p) /\ l = "begin"
  BY Zenon DEF GetHuge, ReleaseHuge, End, At, Goto
<1>3. \A q \in Procs : pc'[q] = IF q = p THEN l ELSE pc[q] BY <1>0, <1>2, Zenon DEF Types
<1>4. hp \in [Procs -> [identifier : Inodes \cup {0}, data : Inodes \cup {0},
                        kept : Inodes \cup {0}, npages : 0 .. MaxHuge]]
  BY <1>0, Zenon DEF Types
<1>5. \A q \in Procs \ {p} : hp'[q] = hp[q]
  BY <1>2, <1>4, Zenon DEF OpenFile, MapFile, MapFails, FreeHugepage, Unlink, DropAll, hugeVars
<1>6. PinsInv'
  <2>1. pc[p] \notin Using /\ l \notin Using BY <1>2, Zenon DEF Using
  <2>2. holder' = holder \/ (holder = p /\ holder' = Nobody)
    BY <1>2, Zenon DEF OpenFile, MapFile, MapFails, FreeHugepage, Unlink, DropAll, hugeVars
  <2>3. clean => holder' = holder BY <1>0, <2>1, <2>2, Zenon DEF PinsInv
  <2>4. DOMAIN fd' = Procs /\ \A q \in Procs \ {p} : fd'[q] = fd[q]
    <3>1. fd' = fd \/ fd' = [fd EXCEPT ![p] = "zero"]
      BY Zenon DEF GetHuge, ReleaseHuge, End, EalEnds, ealVars
    <3> QED BY <1>0, <3>1, Zenon DEF PinsInv
  <2> QED BY <1>0, <1>1, <1>3, <2>1, <2>2, <2>3, <2>4, Zenon DEF PinsInv
<1>7. NameInv'
  <2>1. \/ l \in Naming \/ name' = 0
        \/ pc[p] \notin Naming /\ name' = name
    BY <1>2, Zenon DEF Naming, MapFails, Unlink, DropAll, hugeVars
  <2> QED BY <1>0, <1>1, <1>3, <2>1, Zenon DEF NameInv
<1>8. ASSUME NEW i \in Inodes PROVE inode'[i] = << >> \/ InUse(i)'
  <2>1. CASE Reap BY <2>1, Zenon DEF Reap
  <2>2. CASE pc[p] = "open file" /\ \E n \in HugeSizes : OpenFile(p, n)
    <3>1. PICK j, m :
            /\ IF name = 0 THEN name' = j ELSE j = name /\ name' = name
            /\ hp' = [hp EXCEPT ![p].identifier = j, ![p].npages = m]
            /\ inode' = inode
      BY <2>2, Zenon DEF OpenFile
    <3>2. i # 0 /\ hp[p].identifier = 0 /\ hp[p].data = 0 /\ hp[p].kept = 0
      <4>1. i # 0 BY SMTT(30) DEF Inodes
      <4> QED BY <1>0, <2>2, <4>1, Zenon DEF FilesInv
    <3>3. InUse(i) => InUse(i)' BY <1>5, <3>1, <3>2, Zenon DEF InUse
    <3> QED BY <1>0, <3>1, <3>3, Zenon DEF FilesInv
  <2>3. CASE UNCHANGED hugeVars BY <1>0, <2>3, Zenon DEF FilesInv, InUse, hugeVars
  <2>4. CASE pc[p] = "map file" /\ MapFile(p)
    <3>1. PICK j \in Inodes : j = hp[p].identifier
      <4>1. ProcInv(p) BY Zenon DEF MwInv
      <4> QED BY <2>4, <4>1, Zenon DEF ProcInv, FileCovers
    <3>2. /\ hp' = [hp EXCEPT ![p].data = j] /\ name' = name
          /\ \E new : inode' = [inode EXCEPT ![j] = @ \o new]
      BY <2>4, <3>1, Zenon DEF MapFile
    <3>3. hp'[p].identifier = j /\ hp'[p].kept = hp[p].kept
      <4>1. hp'[p] = [hp[p] EXCEPT !.data = j] BY <1>4, <3>2, Zenon
      <4>2. /\ [hp[p] EXCEPT !.data = j].identifier = hp[p].identifier
            /\ [hp[p] EXCEPT !.data = j].kept = hp[p].kept
        BY <1>4, Zenon
      <4> QED BY <3>1, <4>1, <4>2, Zenon
    <3>4. i # 0 /\ hp[p].data = 0
      <4>1. i # 0 BY SMTT(30) DEF Inodes
      <4> QED BY <1>0, <2>4, <4>1, Zenon DEF FilesInv
    <3>5. InUse(i) => InUse(i)' BY <1>5, <3>1, <3>2, <3>3, <3>4, Zenon DEF InUse
    <3>6. CASE i = j BY <3>3, <3>6, Zenon DEF InUse
    <3>7. CASE i # j
      <4>1. inode'[i] = inode[i] BY <1>0, <3>2, <3>7, Zenon DEF Types
      <4> QED BY <1>0, <3>5, <4>1, Zenon DEF FilesInv
    <3> QED BY <3>6, <3>7, Zenon
  <2> QED BY <1>2, <2>1, <2>2, <2>3, <2>4, Zenon DEF MapFails, FreeHugepage, Unlink, DropAll
<1>9. /\ l \in {"begin", "open file"} =>
           hp'[p].identifier = 0 /\ hp'[p].data = 0 /\ hp'[p].kept = 0
      /\ l = "map file" => hp'[p].data = 0
  <2>1. CASE l = "begin"
    <3>1. hp' = [hp EXCEPT ![p] = NoHp] BY <1>2, <2>1, Zenon DEF DropAll
    <3>2. hp'[p] = NoHp BY <1>4, <3>1, Zenon
    <3>3. NoHp.identifier = 0 /\ NoHp.data = 0 /\ NoHp.kept = 0 BY Zenon DEF NoHp
    <3> QED BY <2>1, <3>2, <3>3, Zenon
  <2>2. CASE l = "map file"
    <3>1. PICK j, m : hp' = [hp EXCEPT ![p].identifier = j, ![p].npages = m]
      BY <1>2, <2>2, Zenon DEF OpenFile
    <3>2. hp[p].data = 0 BY <1>0, <1>2, <2>2, Zenon DEF FilesInv
    <3> QED BY <1>4, <2>2, <3>1, <3>2, Zenon
  <2> QED BY <1>2, <2>1, <2>2, Zenon
<1>10. FilesInv' BY <1>0, <1>3, <1>5, <1>8, <1>9, Zenon DEF FilesInv, Inodes
<1> QED BY <1>6, <1>7, <1>10, Zenon DEF LeakInv

(* reg_hugemem pins each page once, unreg_hugemem releases what it pinned. *)
LEMMA RegistrationLeak ==
  ASSUME MwInv, LeakInv, NEW p \in Procs, RegisterBuffer(p) \/ UnregisterBuffer(p)
  PROVE  LeakInv'
<1>0. Types /\ ProcInv(p) /\ FilesInv /\ NameInv /\ PinsInv BY Zenon DEF MwInv, LeakInv
<1>1. /\ UNCHANGED <<name, inode, hp, fd>>
      /\ \/ /\ pc[p] = "register" /\ pc' = [pc EXCEPT ![p] = "huge loop"] /\ fd[p] = "open"
            /\ Register(p) \/ ~clean'
            /\ clean' => clean /\ holder = Nobody
         \/ /\ pc[p] = "unregister" /\ pc' = [pc EXCEPT ![p] = "free"]
            /\ Unregister(p) \/ ~clean'
            /\ clean' => clean /\ holder = p
  BY Zenon DEF RegisterBuffer, UnregisterBuffer, Register, Unregister, hugeVars, ealVars, At,
     Goto, getCharDeviceDescriptor
<1>2. \A q \in Procs \ {p} : pc'[q] = pc[q] BY <1>0, <1>1, Zenon DEF Types
<1>3. /\ pc[p] = "register" => pc'[p] = "huge loop"
      /\ pc[p] = "unregister" => pc'[p] = "free"
  BY <1>0, <1>1, Zenon DEF Types
<1>4. FilesInv'
  <2>1. \A i : InUse(i)' = InUse(i) BY <1>1, Zenon DEF InUse
  <2> QED BY <1>0, <1>1, <1>2, <1>3, <2>1, Zenon DEF FilesInv, Inodes
<1>5. NameInv' BY <1>0, <1>1, <1>2, <1>3, Zenon DEF NameInv, Naming
<1>6. /\ DOMAIN fd' = Procs /\ holder' \in Procs \cup {Nobody}
      /\ \A q \in Procs : pc'[q] \in Using => fd'[q] = "open"
  <2>1. holder' \in {holder, p, Nobody}
    BY Zenon DEF RegisterBuffer, UnregisterBuffer, Register, Unregister, hugeVars
  <2> QED BY <1>0, <1>1, <1>2, <1>3, <2>1, Zenon DEF PinsInv, Using
<1>7. Nobody \notin Procs BY HugeAssumption, Zenon DEF Nobody
<1>8. ASSUME clean', pc[p] = "register"
      PROVE  /\ holder' = p /\ buffer'.length > 0
             /\ \A f \in Frames : pins'[f] = IF f \in pages' THEN 1 ELSE 0
  <2>1. clean /\ holder = Nobody /\ Register(p) BY <1>1, <1>8, Zenon
  <2>2. \A f \in Frames : pins[f] = 0 BY <1>0, <2>1, Zenon DEF PinsInv
  <2>3. /\ holder' = p /\ buffer'.length = Total(p)
        /\ pins' = [f \in Frames |-> pins[f] + IF f \in pages' THEN 1 ELSE 0]
    BY <2>1, Zenon DEF Register
  <2>4. Total(p) > 0 BY <1>0, <1>8, Zenon DEF ProcInv, FileCovers
  <2>5. ASSUME NEW f \in Frames PROVE pins'[f] = IF f \in pages' THEN 1 ELSE 0
    <3>1. pins'[f] = 0 + IF f \in pages' THEN 1 ELSE 0 BY <2>2, <2>3, Zenon
    <3>2. 0 + 1 = 1 /\ 0 + 0 = 0 BY SMTT(30)
    <3> QED BY <3>1, <3>2, Zenon
  <2> QED BY <2>3, <2>4, <2>5, Zenon
<1>9. ASSUME clean', pc[p] = "unregister"
      PROVE  holder' = Nobody /\ \A f \in Frames : pins'[f] = 0
  <2>1. clean /\ holder = p /\ Unregister(p) BY <1>1, <1>9, Zenon
  <2>2. buffer.length > 0 /\ \A f \in Frames : pins[f] = IF f \in pages THEN 1 ELSE 0
    BY <1>0, <1>7, <2>1, Zenon DEF PinsInv
  <2>3. /\ holder' = Nobody
        /\ pins' = [f \in Frames |-> IF f \in pages THEN pins[f] - 1 ELSE pins[f]]
    BY <2>1, <2>2, Zenon DEF Unregister
  <2>4. ASSUME NEW f \in Frames PROVE pins'[f] = 0
    <3>1. pins'[f] = IF f \in pages THEN 1 - 1 ELSE 0 BY <2>2, <2>3, Zenon
    <3>2. 1 - 1 = 0 BY SMTT(30)
    <3> QED BY <3>1, <3>2, Zenon
  <2> QED BY <2>3, <2>4, Zenon
<1>10. clean' => \A q \in Procs : holder' = q => pc'[q] \in Using
  BY <1>1, <1>3, <1>7, <1>8, <1>9, Zenon DEF Using
<1>11. PinsInv' BY <1>1, <1>6, <1>7, <1>8, <1>9, <1>10, Zenon DEF PinsInv
<1> QED BY <1>4, <1>5, <1>11, Zenon DEF LeakInv

(* restart.sh forgets a registration, but only one that has been released: *)
(* whoever has pages pinned has the device open, and rmmod fails.          *)
LEMMA RestartLeak ==
  ASSUME LeakInv, Restart
  PROVE  LeakInv'
<1>0. FilesInv /\ NameInv /\ PinsInv BY Zenon DEF LeakInv
<1>1. /\ UNCHANGED <<name, inode, hp, pins, pc, fd, clean>> /\ holder' = Nobody
      /\ \A q \in Procs : fd[q] # "open"
  BY Zenon DEF Restart, mwVars, ealVars
<1>2. FilesInv'
  <2>1. \A i : InUse(i)' = InUse(i) BY <1>1, Zenon DEF InUse
  <2> QED BY <1>0, <1>1, <2>1, Zenon DEF FilesInv, Inodes
<1>3. NameInv' BY <1>0, <1>1, Zenon DEF NameInv
<1>4. clean => holder = Nobody BY <1>0, <1>1, Zenon DEF PinsInv
<1>5. Nobody \notin Procs BY HugeAssumption, Zenon DEF Nobody
<1>6. PinsInv' BY <1>0, <1>1, <1>4, <1>5, Zenon DEF PinsInv
<1> QED BY <1>2, <1>3, <1>6, Zenon DEF LeakInv

(* Nothing has leaked at the start ...                                     *)
LEMMA InitLeak == Init => LeakInv
<1> SUFFICES ASSUME Init PROVE LeakInv BY Zenon
<1>1. FilesInv BY Zenon DEF Init, HugeInit, FilesInv, NoHp
<1>2. NameInv BY Zenon DEF Init, HugeInit, NameInv
<1>3. Nobody \notin Procs BY HugeAssumption, Zenon DEF Nobody
<1>4. PinsInv BY <1>3, Zenon DEF Init, HugeInit, EalInit, PinsInv, Using
<1> QED BY <1>1, <1>2, <1>4, Zenon DEF LeakInv

(* ... and no step leaks.                                                  *)
LEMMA NextLeak == MwInv /\ LeakInv /\ [Next]_vars => LeakInv'
<1> SUFFICES ASSUME MwInv, LeakInv, [Next]_vars PROVE LeakInv' BY Zenon
<1>1. ASSUME NEW p \in Procs,
             \/ Begin(p) \/ Kernel(p) \/ WriteDescriptor(p) \/ ReadDescriptor(p)
             \/ LeaveLoop(p) \/ Exit(p) \/ Kill(p)
      PROVE  LeakInv'
  BY <1>1, QuietLeak, Zenon
<1>2. ASSUME NEW p \in Procs, Huge(p) \/ End(p) PROVE LeakInv'
  BY <1>2, FileLeak, RegistrationLeak, Zenon DEF Huge
<1>3. CASE Restart BY <1>3, RestartLeak, Zenon
<1>4. CASE UNCHANGED vars
  <2>1. UNCHANGED <<name, inode, hp, buffer, pages, pins, holder, pc, fd, clean>>
    BY <1>4, Zenon DEF vars, hugeVars, mwVars, ealVars
  <2>2. \A i : InUse(i)' = InUse(i) BY <2>1, Zenon DEF InUse
  <2>3. FilesInv' BY <2>1, <2>2, Zenon DEF LeakInv, FilesInv, Inodes
  <2>4. NameInv' BY <2>1, Zenon DEF LeakInv, NameInv
  <2>5. PinsInv' BY <2>1, Zenon DEF LeakInv, PinsInv
  <2> QED BY <2>3, <2>4, <2>5, Zenon DEF LeakInv
<1> QED BY <1>1, <1>2, <1>3, <1>4, Zenon DEF Next

(* Nothing leaks: when no program uses huge pages any more, the file name  *)
(* is gone, no frame is pinned and the whole pool is free, as long as      *)
(* every program got to give its buffer back and no two registrations      *)
(* overlapped (alloc_hugepage, reg_hugemem and their counterparts), for    *)
(* any number of programs and any sizes.                                   *)
THEOREM PoolComesBack == Spec => []PoolReturned
<1>1. ASSUME LeakInv, clean, \A p \in Procs : pc[p] \in {"begin", "open file"}
      PROVE  name = 0 /\ UsedFrames = {}
  <2>1. name = 0 BY <1>1, Zenon DEF LeakInv, NameInv, Naming
  <2>2. ASSUME NEW i \in Inodes PROVE Range(inode[i]) = {}
    <3>1. i # 0 BY SMTT(30) DEF Inodes
    <3>2. ASSUME NEW p \in Procs PROVE i \notin {hp[p].identifier, hp[p].data, hp[p].kept}
      <4>1. hp[p].identifier = 0 /\ hp[p].data = 0 /\ hp[p].kept = 0
        BY <1>1, Zenon DEF LeakInv, FilesInv
      <4> QED BY <3>1, <4>1, Zenon
    <3>3. ~InUse(i) BY <2>1, <3>1, <3>2, Zenon DEF InUse
    <3>4. inode[i] = << >> BY <1>1, <3>3, Zenon DEF LeakInv, FilesInv
    <3>5. DOMAIN << >> = {} BY SMTT(30)
    <3> QED BY <3>4, <3>5, Zenon DEF Range
  <2>3. holder = Nobody BY <1>1, Zenon DEF LeakInv, PinsInv, Using
  <2>4. \A f \in Frames : pins[f] = 0 BY <1>1, <2>3, Zenon DEF LeakInv, PinsInv
  <2>5. ~(0 > 0) BY SMTT(30)
  <2> QED BY <2>1, <2>2, <2>4, <2>5, Zenon DEF UsedFrames
<1>2. LeakInv => PoolReturned BY <1>1, Zenon DEF PoolReturned
<1> QED BY <1>2, InitHolds, NextKeeps, InitLeak, NextLeak, PTL DEF Spec

=============================================================================

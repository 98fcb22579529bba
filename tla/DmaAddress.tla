----------------------------- MODULE DmaAddress -----------------------------
(***************************************************************************)
(* The address generator of dma_rq_logic.v: which host address every       *)
(* request TLP of an operation carries.  The writer and the reader have    *)
(* the same registers (tx_*_wr_addr_r, tx_*_rd_addr_r); one of them is     *)
(* modelled.  A pass sends one descriptor's worth of data, in TLPs of at   *)
(* most MaxTlp; at its end the pointer is loaded from the generator of the *)
(* address mode: FIX, SEQ or RAN.                                          *)
(*                                                                         *)
(* Each action is a rising edge of CLK; the pipeline of the random address *)
(* moves at each of them.  The unit of addresses and sizes is a word.  The *)
(* LFSR is replaced by an arbitrary number, drawn only in the mode RAN.    *)
(***************************************************************************)
EXTENDS Integers, FiniteSetsExt

CONSTANTS
  PageSize,           \* 4096
  ADDR,               \* ADDR_AT_DESCRIPTOR, page aligned
  HostSizes,          \* SIZE_AT_HOST, powers of two
  Sizes,              \* SIZE_AT_DESCRIPTOR in the modes FIX and SEQ
  RandomSizes,        \* and in the mode RAN
  Offsets,            \* ADDRESS_GEN_OFFSET
  Modes,              \* address modes tried
  MaxTlp,             \* the largest TLP
  Totals,             \* NUMBER_TLPS
  Randoms,            \* the numbers of the LFSR
  Settle              \* edges from the write of a descriptor to its start, at least

ASSUME AddressAssumption ==
  /\ {PageSize, MaxTlp} \subseteq Nat \ {0} /\ PageSize % MaxTlp = 0
  /\ ADDR \in Nat /\ ADDR % PageSize = 0
  /\ HostSizes \cup Sizes \cup RandomSizes \subseteq Nat \ {0} /\ Offsets \cup Randoms \subseteq Nat
  /\ Modes \subseteq {"FIX", "SEQ", "RAN"}
  /\ Settle \in Nat

VARIABLES
  desc,               \* the descriptor: mode, size, host, offset, tlps
  age,                \* edges since it was written, up to Settle
  running, left,      \* INIT_READ (or INIT_WRITE, WRITE), and the TLPs to send
  tlp,                \* mem_rd_current_tlp_modulus_r
  pointer,            \* mem_rd_addr_pointed_by_descriptor_r
  tx_seq_addr_r, next_tx_seq_addr_r,
  tx_rand_addr_r,
  modulus, candidate, page, address, next_random,    \* steps 2 to 6
  size_at_descriptor_r, clog, block, offset          \* steps 1* to 3*

rand == <<modulus, candidate, page, address, next_random,
          size_at_descriptor_r, clog, block, offset>>
vars == <<desc, age, running, left, tlp, pointer, tx_seq_addr_r, next_tx_seq_addr_r,
          tx_rand_addr_r, rand>>

PageOf(a) == a \div PageSize

(* What benchmark.c lets through: 395-441.                                 *)
Accepted(d) ==
  /\ d.mode # "RAN" => d.size < d.host
  /\ d.mode = "FIX" =>
       d.offset = 0 \/ PageOf(d.offset) = PageOf(d.offset + d.size)
  /\ d.mode # "FIX" => d.offset = 0
  /\ d.mode = "SEQ" => d.size * d.tlps < d.host

Descriptors ==
  {d \in [mode : Modes, size : Sizes \cup RandomSizes, host : HostSizes,
           offset : Offsets, tlps : Totals] :
     Accepted(d) /\ d.size \in IF d.mode = "RAN" THEN RandomSizes ELSE Sizes}

CLOG2(size) == Min({12} \cup {k \in 1 .. 12 : 2 ^ k >= size})

Init ==
  /\ desc \in Descriptors
  /\ age = 0
  /\ running = FALSE /\ left = 0 /\ tlp = 1
  /\ pointer = 0 /\ tx_seq_addr_r = 0 /\ next_tx_seq_addr_r = 0 /\ tx_rand_addr_r = 0
  /\ modulus = 0 /\ candidate = 0 /\ page = 0 /\ address = 0 /\ next_random = 0
  /\ size_at_descriptor_r = 0 /\ clog = 0 /\ block = 1 /\ offset = 0

-----------------------------------------------------------------------------
(* Step 4: the page that differs from the one of the address in use.       *)
NextPage ==
  IF PageOf(candidate) # PageOf(tx_rand_addr_r)
  THEN PageOf(candidate) * PageSize
  ELSE PageOf(candidate + PageSize) * PageSize

(* Step 6.  Mutant: the next page may be behind the buffer.                *)
TruncatedNot == address

Truncated == address % desc.host

RandomEdge ==
  \E random \in IF desc.mode = "RAN" THEN Randoms ELSE {0} :
    /\ modulus' = random % desc.host
    /\ candidate' = modulus
    /\ page' = NextPage
    /\ address' = page + offset
    /\ next_random' = Truncated
    /\ size_at_descriptor_r' = desc.size
    /\ clog' = CLOG2(size_at_descriptor_r)
    /\ block' = Min({2 ^ clog, PageSize})
    /\ offset' = (random % PageSize) - ((random % PageSize) % block)

(* The mux on address_mode_s.                                              *)
tx_addr_s ==
  CASE desc.mode = "FIX" -> ADDR + desc.offset
    [] desc.mode = "SEQ" -> tx_seq_addr_r
    [] desc.mode = "RAN" -> tx_rand_addr_r

Tlps == (desc.size + MaxTlp - 1) \div MaxTlp
LastOfPass == tlp = Tlps
TlpWords == IF LastOfPass THEN desc.size - (Tlps - 1) * MaxTlp ELSE MaxTlp

Aged == age' = Min({age + 1, Settle})

(* The host writes a descriptor.                                           *)
WriteDescriptor ==
  /\ ~running
  /\ desc' \in Descriptors
  /\ age' = 0
  /\ UNCHANGED <<running, left, tlp, pointer, tx_seq_addr_r, next_tx_seq_addr_r,
                 tx_rand_addr_r, rand>>

IdleEdge ==
  /\ ~running
  /\ pointer' = ADDR
  /\ tx_seq_addr_r' = ADDR
  /\ next_tx_seq_addr_r' = ADDR + desc.size
  /\ tx_rand_addr_r' = ADDR + next_random
  /\ RandomEdge /\ Aged
  /\ UNCHANGED <<desc, running, left, tlp>>

Start ==
  /\ ~running /\ age = Settle
  /\ running' = TRUE /\ left' = desc.tlps /\ tlp' = 1
  /\ pointer' = ADDR
  /\ tx_seq_addr_r' = ADDR + desc.size
  /\ next_tx_seq_addr_r' = ADDR + 2 * desc.size
  /\ tx_rand_addr_r' = ADDR + next_random
  /\ RandomEdge /\ Aged
  /\ UNCHANGED desc

(* A TLP that does not end a pass.                                         *)
SendTlp ==
  /\ running /\ left > 0 /\ ~LastOfPass
  /\ tlp' = tlp + 1 /\ left' = left - 1
  /\ pointer' = pointer + TlpWords
  /\ RandomEdge /\ Aged
  /\ UNCHANGED <<desc, running, tx_seq_addr_r, next_tx_seq_addr_r, tx_rand_addr_r>>

(* Mutant: the test is made on the next block, not on its end.             *)
SendLastTlpLate ==
  /\ running /\ left > 0 /\ LastOfPass
  /\ tlp' = 1 /\ left' = left - 1
  /\ pointer' = tx_addr_s
  /\ IF PageOf(next_tx_seq_addr_r) # PageOf(ADDR)
     THEN tx_seq_addr_r' = ADDR /\ next_tx_seq_addr_r' = ADDR + desc.size
     ELSE /\ tx_seq_addr_r' = next_tx_seq_addr_r
          /\ next_tx_seq_addr_r' = next_tx_seq_addr_r + desc.size
  /\ tx_rand_addr_r' = ADDR + next_random
  /\ RandomEdge /\ Aged
  /\ UNCHANGED <<desc, running>>

(* The last TLP of a pass; the sequential address returns to the beginning *)
(* when the block after the next would leave the page.                     *)
SendLastTlp ==
  /\ running /\ left > 0 /\ LastOfPass
  /\ tlp' = 1 /\ left' = left - 1
  /\ pointer' = tx_addr_s
  /\ IF PageOf(next_tx_seq_addr_r + desc.size) # PageOf(ADDR)
     THEN tx_seq_addr_r' = ADDR /\ next_tx_seq_addr_r' = ADDR + desc.size
     ELSE /\ tx_seq_addr_r' = next_tx_seq_addr_r
          /\ next_tx_seq_addr_r' = next_tx_seq_addr_r + desc.size
  /\ tx_rand_addr_r' = ADDR + next_random
  /\ RandomEdge /\ Aged
  /\ UNCHANGED <<desc, running>>

(* No TLP in this cycle: TREADY is low, no tag is free, or no data.        *)
HoldEdge ==
  /\ running /\ left > 0
  /\ RandomEdge /\ Aged
  /\ UNCHANGED <<desc, running, left, tlp, pointer, tx_seq_addr_r, next_tx_seq_addr_r,
                 tx_rand_addr_r>>

Finish ==
  /\ running /\ left = 0
  /\ running' = FALSE
  /\ RandomEdge /\ Aged
  /\ UNCHANGED <<desc, left, tlp, pointer, tx_seq_addr_r, next_tx_seq_addr_r, tx_rand_addr_r>>

Next == WriteDescriptor \/ IdleEdge \/ Start \/ SendTlp \/ SendLastTlp \/ HoldEdge \/ Finish

Spec == Init /\ [][Next]_vars

-----------------------------------------------------------------------------
TypeOK ==
  /\ desc \in Descriptors
  /\ age \in 0 .. Settle
  /\ running \in BOOLEAN /\ left \in 0 .. Max(Totals) /\ tlp \in Nat \ {0}
  /\ {pointer, tx_seq_addr_r, next_tx_seq_addr_r, tx_rand_addr_r} \subseteq Nat
  /\ {modulus, candidate, page, address, next_random, offset} \subseteq Nat
  /\ {size_at_descriptor_r, clog} \subseteq Nat /\ block \in 1 .. PageSize

Sending == running /\ left > 0

(* No request reaches outside the buffer that the descriptor names, in any *)
(* address mode.                                                           *)
InBuffer ==
  Sending => ADDR <= pointer /\ pointer + TlpWords <= ADDR + desc.host

(* No request TLP crosses a 4 KB boundary, which PCI Express forbids: "The *)
(* request is not contained in one system page. This violates the          *)
(* specification" (benchmark.c).                                           *)
InOnePage == Sending => PageOf(pointer) = PageOf(pointer + TlpWords - 1)

(* "SEQ: Write to contiguous positions of memory" (benchmark.c).           *)
SeqContiguous ==
  [][SendLastTlp /\ desc.mode = "SEQ" => pointer' = pointer + TlpWords]_vars

(* "FIX <offset>: Write always to the same address. The offset is referred *)
(* to the initial position of the software buffer" (benchmark.c).          *)
FixSameAddress ==
  Sending /\ desc.mode = "FIX" => pointer = ADDR + desc.offset + (tlp - 1) * MaxTlp

(* "We check if the page referenced by 2) is the same that the final       *)
(* output. If this is the case, use 2)+4096" (dma_rq_logic.v): the random  *)
(* page chosen is not the one in use.                                      *)
PageChanges ==
  [][running => PageOf(page') # PageOf(tx_rand_addr_r - ADDR)]_vars

=============================================================================

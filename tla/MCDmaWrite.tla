----------------------------- MODULE MCDmaWrite -----------------------------
(***************************************************************************)
(* Memory writes (D2H) and mixed operations (write a pass, read it back).  *)
(* A payload of 16 words makes the 4-bit remainder wrap as the 64 words of *)
(* the build do; a TLP takes one to three beats.                           *)
(***************************************************************************)
EXTENDS DmaTransfer

Op(c2s, s2c, size, tlps) == [c2s |-> c2s, s2c |-> s2c, SIZE |-> size, TLPS |-> tlps]

WriteOps == {Op(TRUE, FALSE, 23, 2), Op(TRUE, FALSE, 12, 0), Op(TRUE, FALSE, 1, 2)}

MixedOps == {Op(TRUE, TRUE, 17, 3), Op(TRUE, TRUE, 6, 1)}

(* A TLP count that is not a multiple of the TLPs of a pass.               *)
PartialPassOps == {Op(TRUE, FALSE, 23, 2), Op(TRUE, FALSE, 23, 3)}

AllOps == WriteOps \cup MixedOps

=============================================================================

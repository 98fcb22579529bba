----------------------------- MODULE MCDmaRead ------------------------------
(***************************************************************************)
(* Memory reads (H2D): three tags, requests of up to 8 words so that a     *)
(* completion takes one or two beats, operations of one to four requests.  *)
(***************************************************************************)
EXTENDS DmaTransfer

ReadOp(size, tlps) == [c2s |-> FALSE, s2c |-> TRUE, SIZE |-> size, TLPS |-> tlps]

MCOperations == {ReadOp(12, 3), ReadOp(1, 4), ReadOp(8, 0), ReadOp(16, 2), ReadOp(20, 2)}

=============================================================================

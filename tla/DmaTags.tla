------------------------------ MODULE DmaTags -------------------------------
(***************************************************************************)
(* The read tags shared by dma_rq_logic.v and dma_rc_logic.v.              *)
(***************************************************************************)
EXTENDS Integers

CONSTANT C_WINDOW_SIZE   \* number of read tags of the build (24)

ASSUME TagsAssumption == C_WINDOW_SIZE \in Nat \ {0}

Tags == 0 .. C_WINDOW_SIZE - 1

=============================================================================

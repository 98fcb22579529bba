---------------------------- MODULE MCDmaLogic ------------------------------
(***************************************************************************)
(* The whole DMA core with its software: three tags of which two are in    *)
(* the window, and two descriptors, so that the descriptor index wraps.    *)
(***************************************************************************)
EXTENDS DmaLogic

Request(c2s, s2c, size, tlps) == [c2s |-> c2s, s2c |-> s2c, SIZE |-> size, TLPS |-> tlps]

MCRequests == {Request(FALSE, TRUE, 3, 3), Request(TRUE, TRUE, 6, 1), Request(TRUE, FALSE, 6, 1)}

=============================================================================

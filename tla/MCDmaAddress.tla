---------------------------- MODULE MCDmaAddress ----------------------------
(* DmaAddress for TLC.                                                     *)
EXTENDS DmaAddress

=============================================================================

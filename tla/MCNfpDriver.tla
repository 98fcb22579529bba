---------------------------- MODULE MCNfpDriver ----------------------------
(* Two or three processes; those that use huge pages are interchangeable.  *)
EXTENDS NfpDriver, TLC

CONSTANTS p1, p2

Symmetry == Permutations(HugePages)
=============================================================================

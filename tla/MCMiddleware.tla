---------------------------- MODULE MCMiddleware ----------------------------
(* Two processes, two huge frames of eight bytes (the default of two huge  *)
(* pages), and a ring of four kernel pages.                                *)
EXTENDS Middleware, TLC

MCFrames == {1, 2}
MCHugeSizes == {0, 1, 2}
MCSizes == {1, 3}
MCRequests == {[address |-> 0, length |-> 1], [address |-> 2, length |-> 1],
               [address |-> 3, length |-> 6], [address |-> 9, length |-> 6]}

Symmetry == Permutations(Procs)

=============================================================================

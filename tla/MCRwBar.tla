------------------------------ MODULE MCRwBar -------------------------------
(* Two processes and the two optional BARs.  A word has eight bits: four   *)
(* hexadecimal digits of two bits, in groups of two; a char has four bits. *)
EXTENDS RwBar, TLC

MCStrings == {<<0, X, 3, 2, 1, 0>>, <<X, 1, SEP, 3, 2, SEP, 0, 1>>, <<X>>, <<2, X, 1>>}

MCBars == {<<1>>, <<X, 0, 2>>, <<1, 2, 1>>}

Long == <<0, X, 2, SEP, 3, 0>>

MCCommands ==
  {[argc |-> 4, op |-> "R", bar |-> <<0>>, offset |-> s, val |-> << >>] : s \in MCStrings}
  \cup {[argc |-> 5, op |-> "W", bar |-> b, offset |-> Long, val |-> <<1>>] : b \in MCBars}
  \cup {[argc |-> 5, op |-> "W", bar |-> <<0>>, offset |-> <<1>>, val |-> s] :
          s \in {<<X, 1, 3, SEP, 2, 1>>, <<1, ODD>>}}
  \cup {[argc |-> n, op |-> o, bar |-> <<0>>, offset |-> <<1>>, val |-> << >>] :
          n \in 2 .. 4, o \in {"W", "other"}}

(* Every string of up to six characters.                                   *)
ASSUME \A n \in 0 .. 6 : \A s \in [1 .. n -> 0 .. ODD] : AsDocumented(s)

ASSUME ReadAsMeant

Symmetry == Permutations(Procs)

=============================================================================

--------------------------- MODULE MCCausalConsole ---------------------------
(* Model-checking instances of CausalConsole. *)
EXTENDS CausalConsole, TLC

Symmetry == Permutations(Node)
=============================================================================

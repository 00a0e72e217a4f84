-------------------------- MODULE MCCausalMulticast --------------------------
(* Model-checking instances of CausalMulticast. *)
EXTENDS CausalMulticast, TLC

\* Nodes are only compared for equality: permuting them changes nothing.
Symmetry == Permutations(Node)
=============================================================================

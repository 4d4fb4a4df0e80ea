--------------------------- MODULE MCServerStore ---------------------------
(* Instances of ServerStoreLL for TLC. *)
EXTENDS ServerStoreLL, TLC

NodeSymmetry == Permutations(Nodes)
=============================================================================

----------------------------- MODULE MCStudent -----------------------------
(* Instances of StudentSystem for TLC. *)
EXTENDS StudentSystem, TLC

ClientSymmetry == Permutations(Clients)
=============================================================================

----------------------------- MODULE MCProtocol -----------------------------
(* Instances of ProtocolClient for TLC: clients are alike if their ids are. *)
EXTENDS ProtocolClient, TLC

ClientSymmetry == Permutations(Known \ Programs)
=============================================================================

---------------------------- MODULE MCForwarding ----------------------------
(* Forwarding for TLC. *)
EXTENDS Forwarding, TLC

Symmetry == Permutations(Requests)
=============================================================================

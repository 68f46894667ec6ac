-------------------------- MODULE MCTunnelRegistry --------------------------
(* TunnelRegistry for TLC. *)
EXTENDS TunnelRegistry, TLC

\* Connections and names are told apart by nothing but their identity, and so
\* are the installations with a key.
Symmetry == Permutations(Conns) \union Permutations(Names) \union
            Permutations(Instances \ Legacy)
=============================================================================

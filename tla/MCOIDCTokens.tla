---------------------------- MODULE MCOIDCTokens ----------------------------
(* OIDCTokens for TLC. *)
EXTENDS OIDCTokens, TLC

\* Every client asks for groups and offline_access.
GroupsOffline == {Scopes}

Symmetry == Permutations(Requests) \union Permutations(Users)
=============================================================================

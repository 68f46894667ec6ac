--------------------------- MODULE MCIdPSessions ---------------------------
EXTENDS IdPSessions, TLC

\* Users, browsers and requests are told apart by nothing but their names.
Symmetry == Permutations(Users) \union Permutations(Requests)
=============================================================================

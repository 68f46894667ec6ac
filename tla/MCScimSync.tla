----------------------------- MODULE MCScimSync -----------------------------
\* ScimSync for TLC: a service is as good as the other.
EXTENDS ScimSync, TLC

Symmetry == Permutations(BaseURLs)
=============================================================================

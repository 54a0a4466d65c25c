---------------------------- MODULE MCHttpEngine ----------------------------
EXTENDS HttpEngine, TLC

Symmetric == Permutations(Requests) \cup Permutations(Conns)
=============================================================================

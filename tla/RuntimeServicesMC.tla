-------------------------- MODULE RuntimeServicesMC -------------------------
EXTENDS RuntimeServices, TLC
Symmetric == Permutations(Setters)
=============================================================================

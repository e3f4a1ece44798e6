----------------------------- MODULE CdnGuardMC -----------------------------
EXTENDS CdnGuard, TLC
CONSTANTS p1, p2, f1, f2, f3, i1, i2

\* Two files of one item and one of another.
MCItemOf == [f \in Files |-> IF f = f3 THEN i2 ELSE i1]

Symmetric == Permutations(Procs)
=============================================================================

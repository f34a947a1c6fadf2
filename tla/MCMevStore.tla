----------------------------- MODULE MCMevStore -----------------------------
\* Small instances of MevStore for TLC.
EXTENDS MevStore, TLC

Symmetry == Permutations(Files)
=============================================================================

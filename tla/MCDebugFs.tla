------------------------------ MODULE MCDebugFs ------------------------------
\* Two tasks on a buffer of three bytes for TLC.
EXTENDS DebugFs, TLC

Symmetry == Permutations(Threads) \union Permutations(Letters)
=============================================================================

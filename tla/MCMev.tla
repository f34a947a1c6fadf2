------------------------------- MODULE MCMev -------------------------------
\* Small instances of Mev for TLC.
EXTENDS MevInv, TLC

\* No geometry; one with larger quanta and longer arrays than the driver's; one
\* with a negative quantum.
Raw == {[quantum |-> 0, qset |-> 0, size |-> 0], [quantum |-> 3, qset |-> 2, size |-> 2],
        [quantum |-> -1, qset |-> 2, size |-> 4]}

\* What a container may hold after an earlier load of the module, and zeros.
Fresh == {[quantum |-> 1, qset |-> 1, size |-> 1], [quantum |-> 0, qset |-> 0, size |-> 0]}

\* Tasks and addresses are interchangeable; no temporal property uses this.
Symmetry == Permutations(Threads) \union Permutations(Addr)
=============================================================================

------------------------------ MODULE MCDevice ------------------------------
\* Small instances of Device for TLC.
EXTENDS Device, TLC

\* Tasks are interchangeable; no temporal property uses this.
Symmetry == Permutations(Threads)

\* cat: open the device, read until a read returns nothing, close it.  Its
\* buffer is there, so that no put_user() fails.
Cat(t) ==
  /\ \/ Open(t)
     \/ t \notin empty /\ \E n \in Lengths \ {0} : Read(t, t, n)
     \/ t \in empty /\ Release(t)
     \/ Advance(t)
  /\ UNCHANGED lost

CatSpec ==
  /\ Init /\ [][\E t \in Threads : Cat(t)]_vars
  /\ \A t \in Threads : WF_vars(Cat(t))

\* What README.md:82-83 expects of "cat /dev/lkm_device" before "rmmod": it ends.
CatEnds == \A t \in Threads : t \in files ~> t \notin files
=============================================================================

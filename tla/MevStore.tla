------------------------------ MODULE MevStore ------------------------------
(***************************************************************************)
(* lkm_mev.c, the bytes: where reads and writes find them in the list of   *)
(* qsets, their arrays and their quanta, and what is left of a call that   *)
(* fails half-way.                                                         *)
(*                                                                         *)
(* A call is one step here.  Mev shows when that is so: the semaphore keeps*)
(* calls apart, as long as no trim overlaps one.  The container has been   *)
(* formatted by a first trim.                                              *)
(***************************************************************************)
EXTENDS Integers, Sequences

CONSTANTS
  Files,        \* open files, each with its f_pos
  QuantumSize, QsetSize,
  Capacity,     \* bound: the positions below it
  Starts,       \* bound: those given to pread and pwrite
  Bytes,        \* bound: bytes a user writes
  ZERO,         \* the byte copy_from_user() pads with
  JUNK,         \* a byte of fresh memory
  NULL,
  ERROR,        \* a negative return value
  Counts        \* bound: the counts of the calls

ASSUME StoreAssumption ==
  /\ QuantumSize \in Nat \ {0} /\ QsetSize \in Nat \ {0}
  /\ Capacity \in Nat /\ Capacity % QuantumSize = 0
  /\ Starts \subseteq 0 .. Capacity - 1
  /\ ZERO \in Bytes /\ JUNK \notin Bytes
  /\ Counts \subseteq Nat

\* What a quantum and the array of a node hold.
Quanta == [0 .. QuantumSize - 1 -> Bytes \union {JUNK}]
Arrays == [0 .. QsetSize - 1 -> {NULL} \union Quanta]

\* A null pointer points to neither.
ASSUME ValueAssumption == NULL \notin Quanta /\ NULL \notin Arrays

VARIABLES
  nodes,   \* the list of mev_qset: each its array of quanta, or NULL
  size,    \* container->size
  f_pos,
  out      \* the bytes the last call transferred, or ERROR

vars == <<nodes, size, f_pos, out>>

ItemSize == QuantumSize * QsetSize

-----------------------------------------------------------------------------
\* Where position p is: which node, which slot, which byte.
Item(p) == p \div ItemSize
SPos(p) == (p % ItemSize) \div QuantumSize
QPos(p) == (p % ItemSize) % QuantumSize

Least(a, b) == IF a < b THEN a ELSE b

\* A mutant: the end of the quantum is not looked at.
MutantWithin(p, n) == n

\* How much of n bytes a call transfers: up to the end of the quantum.
Within(p, n) == Least(n, QuantumSize - QPos(p))

\* The list with n nodes at least; those that were missing have no array.
Extended(n) ==
  [i \in (DOMAIN nodes) \union (1 .. n) |-> IF i \in DOMAIN nodes THEN nodes[i] ELSE NULL]

\* The array of a node, and a quantum of an array, allocated if need be.
Array(node) == IF node = NULL THEN [s \in 0 .. QsetSize - 1 |-> NULL] ELSE node
Quantum(array, s) ==
  IF array[s] = NULL THEN [q \in 0 .. QuantumSize - 1 |-> JUNK] ELSE array[s]

\* A quantum after text was copied to offset q.
Patched(quantum, q, text) ==
  [x \in (DOMAIN quantum) \union (q .. q + Len(text) - 1) |->
     IF x \in q .. q + Len(text) - 1 THEN text[x - q + 1] ELSE quantum[x]]

\* Those of the user's bytes that arrived, and zeroes for the rest: what
\* copy_from_user() leaves when it fails after j bytes.
Padded(text, j) == [i \in 1 .. Len(text) |-> IF i <= j THEN text[i] ELSE ZERO]

-----------------------------------------------------------------------------
\* There is a node, an array and a quantum for p; else p is in a hole.
Backed(list, p) ==
  /\ Item(p) < Len(list)
  /\ list[Item(p) + 1] # NULL
  /\ list[Item(p) + 1][SPos(p)] # NULL

\* The byte at position p, if there is one.
ByteAt(list, p) ==
  IF Backed(list, p) THEN list[Item(p) + 1][SPos(p)][QPos(p)] ELSE JUNK

\* What a read of n bytes at p < size is cut down to.
Readable(p, n) == Least(n, size - p)

\* mev_read() at position p.
ReadAt(p, n) ==
  \/ /\ p >= size
     /\ out' = <<>>
     /\ UNCHANGED nodes
  \/ /\ p < size
     /\ LET k == Within(p, Readable(p, n))
            list == Extended(Item(p) + 1)         \* mev_follow()
        IN
        \/ /\ nodes' = list
           /\ \/ ~Backed(list, p) /\ out' = <<>>
              \/ /\ Backed(list, p)
                 /\ \/ out' = [i \in 1 .. k |-> ByteAt(list, p + i - 1)]
                    \/ k > 0 /\ out' = ERROR      \* -EFAULT
        \/ /\ Item(p) >= Len(nodes)               \* no memory for a node
           /\ \E m \in Len(nodes) .. Item(p) : nodes' = Extended(m)
           /\ out' = <<>>

\* A mutant: the size is where the last write ended.
MutantGrown(end) == end

\* The size after a write that ended at this position.
Grown(end) == IF size < end THEN end ELSE size

\* mev_write() at position p runs out of memory: for a node, for the array of
\* the last one, or for the quantum in it.  What it has allocated stays.
NoMemory(p, text) ==
  LET list == Extended(Item(p) + 1)
      node == Item(p) + 1 IN
  /\ \/ \E m \in Len(nodes) .. Item(p) : nodes' = Extended(m)
     \/ list[node] = NULL /\ nodes' = list
     \/ /\ ~Backed(list, p)
        /\ nodes' = [list EXCEPT ![node] = Array(@)]
  /\ out' = ERROR
  /\ UNCHANGED size

\* mev_write() at position p comes to copy_from_user(), which copies what fits
\* into the quantum or fails after some of it.
Store(p, text) ==
  LET list == Extended(Item(p) + 1)
      node == Item(p) + 1
      s == SPos(p)
      fits == SubSeq(text, 1, Within(p, Len(text)))
      With(copied) == [list EXCEPT ![node] =
        [Array(@) EXCEPT ![s] = Patched(Quantum(Array(list[node]), s), QPos(p), copied)]]
  IN  \/ /\ nodes' = With(fits)
         /\ size' = Grown(p + Len(fits))
         /\ out' = fits
      \/ /\ \E j \in 0 .. Len(fits) - 1 : nodes' = With(Padded(fits, j))
         /\ out' = ERROR                          \* -EFAULT
         /\ UNCHANGED size

WriteAt(p, text) == NoMemory(p, text) \/ Store(p, text)

-----------------------------------------------------------------------------
\* read() and write() use the position of the file and move it ...
Moves(f) == f_pos' = [f_pos EXCEPT ![f] = IF out' = ERROR THEN @ ELSE @ + Len(out')]

MevRead(f, n) == ReadAt(f_pos[f], n) /\ Moves(f) /\ UNCHANGED size
MevWrite(f, text) ==
  f_pos[f] < Capacity /\ WriteAt(f_pos[f], text) /\ Moves(f)

\* ... pread() and pwrite() bring their own.
Pread(p, n) == ReadAt(p, n) /\ UNCHANGED <<size, f_pos>>
Pwrite(p, text) == WriteAt(p, text) /\ UNCHANGED f_pos

\* A mutant: the size survives the trim.
MutantTrim == nodes' = <<>> /\ UNCHANGED size

\* mev_trim()
Trim == nodes' = <<>> /\ size' = 0

\* close() and open(): the new file starts at 0; write-only ones trim.
MevOpen(f, wronly) ==
  /\ IF wronly THEN Trim ELSE UNCHANGED <<nodes, size>>
  /\ f_pos' = [f_pos EXCEPT ![f] = 0]
  /\ out' = <<>>

Init == nodes = <<>> /\ size = 0 /\ f_pos = [f \in Files |-> 0] /\ out = <<>>

Reads ==
  \E n \in Counts : \/ \E f \in Files : MevRead(f, n)
                    \/ \E p \in Starts : Pread(p, n)
Writes ==
  \E n \in Counts : \E text \in [1 .. n -> Bytes] :
    \/ \E f \in Files : MevWrite(f, text)
    \/ \E p \in Starts : Pwrite(p, text)

Next == Reads \/ Writes \/ \E f \in Files, wronly \in BOOLEAN : MevOpen(f, wronly)

Spec == Init /\ [][Next]_vars

-----------------------------------------------------------------------------
\* Type invariant: the list, its arrays and quanta have the sizes they were
\* allocated with; a copy over the end of a quantum would show here.
TypeOK ==
  /\ nodes \in Seq({NULL} \union Arrays)
  /\ Len(nodes) * ItemSize < Capacity + ItemSize
  /\ size \in 0 .. Capacity
  /\ f_pos \in [Files -> 0 .. Capacity]
  /\ out = ERROR \/ out \in Seq(Bytes \union {JUNK})

\* mev_read() goes through mev_follow(), which allocates what is missing
\* (lkm_mev.c:200, 225 wonder why), but never comes to it: where a read gets,
\* below the size, the list exists already, whatever writes failed before.
ReadsAllocateNothing == [][Reads => UNCHANGED nodes]_vars

\* The list of arrays of quanta is a flat memory device: every byte is found
\* again at the position it was written to, over the borders of quanta and
\* nodes, after partial writes, failed writes and trims (lkm_mev.c:320-378,
\* 450-523).
Flat == INSTANCE FlatDevice WITH
          bytes <- [p \in 0 .. Capacity - 1 |-> ByteAt(nodes, p)]
IsFlatDevice == Flat!Spec
=============================================================================

--------------------------- MODULE CircularBuffer ---------------------------
(***************************************************************************)
(* rehearsals/circular-buffers/simple_circular_buffer.c: an array, two     *)
(* indices that wrap around and a length, used by one thread.              *)
(***************************************************************************)
EXTENDS Integers, Sequences

CONSTANTS
  BUFFER_SIZE,
  Values         \* bound: the values written

ASSUME BufferAssumption == BUFFER_SIZE \in Nat \ {0} /\ Values \subseteq Int

VARIABLES
  buffer, buffer_length, index_read, index_write,
  value          \* what the last read() returned

vars == <<buffer, buffer_length, index_read, index_write, value>>

\* A mutant: the index wraps one slot late.
MutantNextIndex(i) == IF i = BUFFER_SIZE THEN 0 ELSE i + 1

\* An index is advanced, and wraps when it reaches the end.
NextIndex(i) == IF i + 1 = BUFFER_SIZE THEN 0 ELSE i + 1

\* Mutants: the value read stays the next to be read, or the index is advanced
\* before it is used.
MutantReadTwice ==
  /\ buffer_length # 0
  /\ value' = buffer[index_read]
  /\ buffer_length' = buffer_length - 1
  /\ UNCHANGED <<buffer, index_read, index_write>>
MutantReadNext ==
  /\ buffer_length # 0
  /\ value' = buffer[NextIndex(index_read)]
  /\ index_read' = NextIndex(index_read)
  /\ buffer_length' = buffer_length - 1
  /\ UNCHANGED <<buffer, index_write>>

\* read()
Read ==
  \/ /\ buffer_length = 0
     /\ value' = -1
     /\ UNCHANGED <<buffer, buffer_length, index_read, index_write>>
  \/ /\ buffer_length # 0
     /\ value' = buffer[index_read]
     /\ index_read' = NextIndex(index_read)
     /\ buffer_length' = buffer_length - 1
     /\ UNCHANGED <<buffer, index_write>>

\* write(); a full buffer is left as it is.
Write(v) ==
  /\ buffer_length # BUFFER_SIZE
  /\ buffer' = [buffer EXCEPT ![index_write] = v]
  /\ index_write' = NextIndex(index_write)
  /\ buffer_length' = buffer_length + 1
  /\ UNCHANGED <<index_read, value>>

Init ==
  /\ buffer = [i \in 0 .. BUFFER_SIZE - 1 |-> 0]
  /\ buffer_length = 0 /\ index_read = 0 /\ index_write = 0
  /\ value = -1

Next == Read \/ \E v \in Values : Write(v)

Spec == Init /\ [][Next]_vars

-----------------------------------------------------------------------------
\* Type invariant; the indices stay inside the array.
TypeOK ==
  /\ buffer \in [0 .. BUFFER_SIZE - 1 -> Int]
  /\ buffer_length \in 0 .. BUFFER_SIZE
  /\ index_read \in 0 .. BUFFER_SIZE - 1 /\ index_write \in 0 .. BUFFER_SIZE - 1
  /\ value \in Int

\* The slot that lies k places behind index_read.
Slot(k) ==
  IF index_read + k < BUFFER_SIZE THEN index_read + k ELSE index_read + k - BUFFER_SIZE

\* The three of them agree: the slot to write next lies buffer_length places
\* behind the slot to read next.
IndicesAgree == index_write = Slot(IF buffer_length = BUFFER_SIZE THEN 0 ELSE buffer_length)

\* The values in the buffer, oldest first.
Contents == [i \in 1 .. buffer_length |-> buffer[Slot(i - 1)]]

\* The buffer is a bounded queue: any sequence of reads and writes, however
\* often it wraps, runs full or runs empty, answers what a queue answers
\* (simple_circular_buffer.c:33-65).
Fifo == INSTANCE BoundedFifo WITH Capacity <- BUFFER_SIZE, queue <- Contents
IsFifo == Fifo!Spec
=============================================================================

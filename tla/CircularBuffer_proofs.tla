----------------------- MODULE CircularBuffer_proofs -----------------------
(***************************************************************************)
(* Proofs about CircularBuffer, for a buffer of any size and any values:   *)
(* the indices stay in the array and agree with the length, and so the     *)
(* buffer implements BoundedFifo.                                          *)
(***************************************************************************)
EXTENDS CircularBuffer, SequenceTheorems, TLAPS

USE BufferAssumption

Inv == TypeOK /\ IndicesAgree

LEMMA InvInit == ASSUME Init PROVE Inv
BY DEF Init, Inv, TypeOK, IndicesAgree, Slot

\* NextIndex() keeps an index in the array.
LEMMA InvStep == ASSUME Inv, [Next]_vars PROVE Inv'
<1> USE DEF Inv, TypeOK, IndicesAgree, Slot, NextIndex
<1>1. CASE Read
  <2>1. CASE buffer_length = 0
    BY <1>1, <2>1 DEF Read
  <2>2. CASE buffer_length # 0
    <3>1. /\ value' = buffer[index_read] /\ buffer' = buffer
          /\ index_read' = NextIndex(index_read) /\ index_write' = index_write
          /\ buffer_length' = buffer_length - 1
      BY <1>1, <2>2 DEF Read
    <3>2. value' \in Int
      BY <3>1
    <3>3. /\ index_read' \in 0 .. BUFFER_SIZE - 1 /\ buffer_length' \in 0 .. BUFFER_SIZE
      BY <2>2, <3>1
    <3>4. IndicesAgree'
      BY <2>2, <3>1
    <3> QED BY <3>1, <3>2, <3>3, <3>4
  <2> QED BY <2>1, <2>2
<1>2. ASSUME NEW v \in Values, Write(v) PROVE Inv'
  BY <1>2 DEF Write
<1>3. CASE UNCHANGED vars
  BY <1>3 DEF vars
<1> QED BY <1>1, <1>2, <1>3 DEF Next

\* A slot lies in the array, however far behind the index it is.
LEMMA SlotRange ==
  ASSUME NEW r \in 0 .. BUFFER_SIZE - 1, NEW k \in 0 .. BUFFER_SIZE - 1
  PROVE  (IF r + k < BUFFER_SIZE THEN r + k ELSE r + k - BUFFER_SIZE) \in 0 .. BUFFER_SIZE - 1
OBVIOUS

LEMMA ContentsType ==
  ASSUME Inv
  PROVE  /\ Contents \in Seq(Int)
         /\ Len(Contents) = buffer_length
         /\ \A i \in 1 .. buffer_length : Contents[i] = buffer[Slot(i - 1)]
<1>1. \A i \in 1 .. buffer_length : buffer[Slot(i - 1)] \in Int
  BY DEF Inv, TypeOK, Slot
<1>2. buffer_length \in Nat
  BY DEF Inv, TypeOK
<1> QED BY <1>1, <1>2 DEF Contents

\* A read takes the oldest value off the queue.
LEMMA ReadTakes ==
  ASSUME Inv, Read
  PROVE  Fifo!Take
<1>1. Inv'
  BY InvStep DEF Next
<1>2. CASE buffer_length = 0
  <2>1. value' = -1 /\ UNCHANGED <<buffer, buffer_length, index_read>>
    BY <1>2 DEF Read
  <2>2. Contents' = Contents
    BY <2>1 DEF Contents, Slot
  <2>3. Contents = <<>>
    BY <1>2, ContentsType
  <2> QED BY <2>1, <2>2, <2>3 DEF Fifo!Take
<1>3. CASE buffer_length # 0
  <2>1. /\ value' = buffer[index_read] /\ buffer' = buffer
        /\ index_read' = NextIndex(index_read) /\ buffer_length' = buffer_length - 1
    BY <1>3 DEF Read
  <2>2. Contents # <<>> /\ Len(Contents) \in Nat \ {0}
    BY <1>3, ContentsType DEF Inv, TypeOK
  <2>3. value' = Head(Contents)
    <3>1. Contents[1] = buffer[Slot(0)] /\ Slot(0) = index_read
      BY <1>3, ContentsType DEF Inv, TypeOK, Slot
    <3> QED BY <2>1, <2>2, <3>1, ContentsType
  <2>4. Contents' = Tail(Contents)
    <3>1. /\ Contents' \in Seq(Int) /\ Len(Contents') = buffer_length - 1
          /\ \A i \in 1 .. buffer_length - 1 : Contents'[i] = buffer[Slot(i - 1)']
      <4>1. Contents' = [i \in 1 .. buffer_length - 1 |-> buffer[Slot(i - 1)']]
        BY <2>1 DEF Contents
      <4>2. ASSUME NEW i \in 1 .. buffer_length - 1 PROVE buffer[Slot(i - 1)'] \in Int
        <5>1. i \in Nat /\ i - 1 \in 0 .. BUFFER_SIZE - 1
          BY DEF Inv, TypeOK
        <5>2. index_read' \in 0 .. BUFFER_SIZE - 1
          BY <1>1 DEF Inv, TypeOK
        <5>3. Slot(i - 1)' \in 0 .. BUFFER_SIZE - 1
          BY <5>1, <5>2, SlotRange, Zenon DEF Slot
        <5> QED BY <5>3 DEF Inv, TypeOK
      <4>3. buffer_length - 1 \in Nat
        BY <1>3 DEF Inv, TypeOK
      <4> QED BY <4>1, <4>2, <4>3
    <3>2. /\ Tail(Contents) \in Seq(Int) /\ Len(Tail(Contents)) = buffer_length - 1
          /\ \A i \in 1 .. buffer_length - 1 : Tail(Contents)[i] = Contents[i + 1]
      BY <2>2, ContentsType, HeadTailProperties
    <3>3. ASSUME NEW i \in 1 .. buffer_length - 1
          PROVE  Contents'[i] = Tail(Contents)[i]
      <4>1. Slot(i - 1)' = Slot(i) /\ (i + 1) - 1 = i /\ i + 1 \in 1 .. buffer_length
        BY <2>1 DEF Inv, TypeOK, Slot, NextIndex
      <4>2. Contents[i + 1] = buffer[Slot((i + 1) - 1)]
        BY <4>1, ContentsType
      <4>3. Contents'[i] = buffer[Slot(i - 1)']
        BY <3>1
      <4>4. Tail(Contents)[i] = Contents[i + 1]
        BY <3>2
      <4> QED BY <4>1, <4>2, <4>3, <4>4, Zenon
    <3> QED BY <3>1, <3>2, <3>3, SeqEqual
  <2> QED BY <2>2, <2>3, <2>4 DEF Fifo!Take
<1> QED BY <1>2, <1>3

\* A write puts its value behind the others.
LEMMA WritePuts ==
  ASSUME Inv, NEW v \in Values, Write(v)
  PROVE  Fifo!Put(v)
<1>1. Inv'
  BY InvStep DEF Next
<1>2. /\ buffer_length # BUFFER_SIZE
      /\ buffer' = [buffer EXCEPT ![index_write] = v] /\ buffer_length' = buffer_length + 1
      /\ index_read' = index_read /\ value' = value
  BY DEF Write
<1>3. v \in Int /\ Len(Contents) # BUFFER_SIZE
  BY <1>2, ContentsType
<1>4. /\ Contents' \in Seq(Int) /\ Len(Contents') = buffer_length + 1
      /\ \A i \in 1 .. buffer_length + 1 : Contents'[i] = buffer'[Slot(i - 1)]
  <2>1. Contents' = [i \in 1 .. buffer_length + 1 |-> buffer'[Slot(i - 1)]]
    BY <1>2 DEF Contents, Slot
  <2>2. \A i \in 1 .. buffer_length + 1 : buffer'[Slot(i - 1)] \in Int
    BY <1>1, <1>2 DEF Inv, TypeOK, Slot
  <2>3. buffer_length + 1 \in Nat
    BY DEF Inv, TypeOK
  <2> QED BY <2>1, <2>2, <2>3
<1>5. /\ Append(Contents, v) \in Seq(Int) /\ Len(Append(Contents, v)) = buffer_length + 1
      /\ Append(Contents, v)[buffer_length + 1] = v
      /\ \A i \in 1 .. buffer_length : Append(Contents, v)[i] = Contents[i]
  BY <1>3, ContentsType, AppendProperties
<1>6. ASSUME NEW i \in 1 .. buffer_length + 1
      PROVE  Contents'[i] = Append(Contents, v)[i]
  <2>1. CASE i = buffer_length + 1
    <3>1. Slot(i - 1) = index_write
      BY <1>2, <2>1 DEF Inv, TypeOK, IndicesAgree, Slot
    <3> QED BY <1>2, <1>4, <1>5, <2>1, <3>1 DEF Inv, TypeOK
  <2>2. CASE i \in 1 .. buffer_length
    <3>1. Slot(i - 1) # index_write /\ Slot(i - 1) \in 0 .. BUFFER_SIZE - 1
      BY <1>2, <2>2 DEF Inv, TypeOK, IndicesAgree, Slot
    <3>2. buffer'[Slot(i - 1)] = buffer[Slot(i - 1)]
      BY <1>2, <3>1 DEF Inv, TypeOK
    <3>3. Contents[i] = buffer[Slot(i - 1)]
      BY <2>2, ContentsType
    <3>4. Append(Contents, v)[i] = Contents[i] /\ Contents'[i] = buffer'[Slot(i - 1)]
      BY <1>4, <1>5, <2>2
    <3> QED BY <3>2, <3>3, <3>4
  <2>3. buffer_length \in Nat
    BY DEF Inv, TypeOK
  <2>4. i = buffer_length + 1 \/ i \in 1 .. buffer_length
    BY <2>3
  <2> QED BY <2>1, <2>2, <2>4
<1>7. Contents' = Append(Contents, v)
  BY <1>4, <1>5, <1>6, SeqEqual
<1> QED BY <1>2, <1>3, <1>7 DEF Fifo!Put

\* The indices stay in the array and agree with the length, after any number of
\* reads and writes.
THEOREM Invariance == Spec => [](TypeOK /\ IndicesAgree)
<1>1. Init => Inv
  BY InvInit
<1>2. Inv /\ [Next]_vars => Inv'
  BY InvStep
<1>3. Inv => TypeOK /\ IndicesAgree
  BY DEF Inv
<1> QED BY <1>1, <1>2, <1>3, PTL DEF Spec

\* Type correctness, for any size and any values.
THEOREM TypeCorrect == Spec => []TypeOK
BY Invariance, PTL

\* The circular buffer is a bounded queue.
THEOREM Refinement == Spec => IsFifo
<1>1. Init => Fifo!Init
  <2>1. ASSUME Init PROVE Contents = <<>> /\ value = -1
    <3>1. Inv /\ buffer_length = 0 /\ value = -1
      BY <2>1, InvInit DEF Init
    <3> QED BY <3>1, ContentsType
  <2> QED BY <2>1 DEF Fifo!Init
<1>2. Inv /\ [Next]_vars => [Fifo!Next]_<<Contents, value>>
  <2>1. ASSUME Inv, UNCHANGED vars PROVE UNCHANGED <<Contents, value>>
    BY <2>1 DEF vars, Contents, Slot
  <2> QED BY <2>1, ReadTakes, WritePuts DEF Next, Fifo!Next
<1>3. Init => Inv
  BY InvInit
<1>4. Inv /\ [Next]_vars => Inv'
  BY InvStep
<1> QED BY <1>1, <1>2, <1>3, <1>4, PTL DEF Spec, IsFifo, Fifo!Spec
=============================================================================

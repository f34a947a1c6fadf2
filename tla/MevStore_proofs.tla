--------------------------- MODULE MevStore_proofs ---------------------------
(***************************************************************************)
(* Proofs about MevStore, for any geometry, positions, counts, bytes and   *)
(* number of open files: a read never comes to a node that is missing, and *)
(* the list of arrays of quanta is a flat device.                          *)
(***************************************************************************)
EXTENDS MevStore, SequenceTheorems, TLAPS

USE StoreAssumption

\* The list is a sequence.
ListInv == Len(nodes) \in Nat /\ nodes = [i \in 1 .. Len(nodes) |-> nodes[i]]

\* Every position below the size has its node, though perhaps no quantum.
SizeInv == size \in Nat /\ \A x \in 0 .. size - 1 : Item(x) < Len(nodes)

PosInv == f_pos \in [Files -> Nat]

IInv == ListInv /\ SizeInv /\ PosInv

-----------------------------------------------------------------------------
\* Positions.
LEMMA Geometry == ItemSize \in Nat \ {0}
BY DEF ItemSize

\* Later positions are in later items.
LEMMA ItemOrder ==
  ASSUME NEW p \in Nat, NEW x \in 0 .. p
  PROVE  Item(p) \in Nat /\ Item(x) \in Nat /\ Item(x) <= Item(p)
<1>1. PICK m \in Nat \ {0} : m = ItemSize
  BY Geometry
<1>2. /\ p \div m \in Nat /\ p % m \in 0 .. m - 1 /\ p = m * (p \div m) + (p % m)
      /\ x \div m \in Nat /\ x % m \in 0 .. m - 1 /\ x = m * (x \div m) + (x % m)
  OBVIOUS
<1>3. PICK d \in Nat, e \in Nat, r \in 0 .. m - 1, s \in 0 .. m - 1 :
        d = p \div m /\ e = x \div m /\ p = m * d + r /\ x = m * e + s
  BY <1>2
<1>4. e <= d
  <2>1. SUFFICES ASSUME e >= d + 1 PROVE FALSE
    BY <1>3
  <2>2. m * e >= m * (d + 1)
    BY <2>1
  <2>3. m * (d + 1) = m * d + m
    OBVIOUS
  <2> QED BY <1>3, <2>2, <2>3
<1> QED BY <1>1, <1>3, <1>4 DEF Item

\* The end of a quantum is not behind the end of its item.
LEMMA QuantumInItem ==
  ASSUME NEW p \in Nat
  PROVE  /\ QPos(p) \in 0 .. QuantumSize - 1
         /\ \A k \in 0 .. QuantumSize - QPos(p) : \A x \in 0 .. p + k - 1 : Item(x) <= Item(p)
<1>1. PICK q \in Nat \ {0}, s \in Nat \ {0}, m \in Nat \ {0} :
        q = QuantumSize /\ s = QsetSize /\ m = ItemSize /\ m = q * s
  BY Geometry DEF ItemSize
<1>2. p \div m \in Nat /\ p % m \in 0 .. m - 1 /\ p = m * (p \div m) + (p % m)
  OBVIOUS
<1>3. PICK d \in Nat, r \in 0 .. m - 1 : d = p \div m /\ r = p % m /\ p = m * d + r
  BY <1>2
<1>4. r \div q \in Nat /\ r % q \in 0 .. q - 1 /\ r = q * (r \div q) + (r % q)
  OBVIOUS
<1>5. PICK a \in Nat, b \in 0 .. q - 1 : b = r % q /\ r = q * a + b
  BY <1>4
<1>6. a + 1 <= s
  <2>1. SUFFICES ASSUME a >= s PROVE FALSE
    OBVIOUS
  <2>2. q * a >= q * s
    BY <2>1
  <2> QED BY <1>1, <1>3, <1>5, <2>2
<1>7. q * (a + 1) <= m
  <2>1. q * (a + 1) <= q * s
    BY <1>6
  <2> QED BY <1>1, <2>1
<1>8. QPos(p) = b
  BY <1>1, <1>3, <1>5 DEF QPos
<1>9. ASSUME NEW k \in 0 .. q - b, NEW x \in 0 .. p + k - 1 PROVE Item(x) <= d
  <2>1. p + k <= m * d + m
    <3>1. q * (a + 1) = q * a + q
      OBVIOUS
    <3> QED BY <1>3, <1>5, <1>7, <1>9, <3>1
  <2>2. x \div m \in Nat /\ x % m \in 0 .. m - 1 /\ x = m * (x \div m) + (x % m)
    OBVIOUS
  <2>3. PICK e \in Nat, t \in 0 .. m - 1 : e = x \div m /\ x = m * e + t
    BY <2>2
  <2>4. e <= d
    <3>1. SUFFICES ASSUME e >= d + 1 PROVE FALSE
      BY <2>3
    <3>2. m * e >= m * (d + 1) /\ m * (d + 1) = m * d + m
      BY <3>1
    <3> QED BY <1>9, <2>1, <2>3, <3>2
  <2> QED BY <1>1, <2>3, <2>4 DEF Item
<1> QED BY <1>1, <1>3, <1>8, <1>9 DEF Item

\* A call stops where its quantum does.
LEMMA WithinFits ==
  ASSUME NEW p \in Nat, NEW n \in Nat
  PROVE  /\ Within(p, n) \in 0 .. n
         /\ \A x \in 0 .. p + Within(p, n) - 1 : Item(x) <= Item(p)
<1>1. PICK q \in 0 .. QuantumSize - 1 :
        /\ q = QPos(p)
        /\ \A k \in 0 .. QuantumSize - q : \A x \in 0 .. p + k - 1 : Item(x) <= Item(p)
  BY QuantumInItem
<1>2. Within(p, n) = IF n < QuantumSize - q THEN n ELSE QuantumSize - q
  BY <1>1 DEF Within, Least
<1>3. Within(p, n) \in 0 .. n /\ Within(p, n) \in 0 .. QuantumSize - q
  BY <1>2
<1> QED BY <1>1, <1>3

-----------------------------------------------------------------------------
\* Lists.
LEMMA LengthOf ==
  ASSUME NEW n \in Nat, NEW f, f = [i \in 1 .. n |-> f[i]]
  PROVE  Len(f) = n /\ DOMAIN f = 1 .. n
<1> DEFINE S == {f[i] : i \in 1 .. n}
<1>1. f \in [1 .. n -> S]
  OBVIOUS
<1>2. f \in Seq(S)
  <2>1. f \in UNION {[1 .. m -> S] : m \in Nat}
    BY <1>1, Zenon
  <2> QED BY <2>1, SeqDef, Zenon
<1> QED BY <1>1, <1>2, LenProperties

\* mev_follow() makes the list longer, if anything.
LEMMA ExtendedList ==
  ASSUME ListInv, NEW n \in Nat
  PROVE  LET m == IF n <= Len(nodes) THEN Len(nodes) ELSE n IN
         /\ Extended(n) = [i \in 1 .. m |-> Extended(n)[i]]
         /\ n <= Len(nodes) => Extended(n) = nodes
<1>1. PICK l \in Nat : l = Len(nodes) /\ nodes = [i \in 1 .. l |-> nodes[i]]
  BY DEF ListInv
<1>2. DOMAIN nodes = 1 .. l
  BY <1>1
<1>3. (1 .. l) \union (1 .. n) = 1 .. (IF n <= l THEN l ELSE n)
  OBVIOUS
<1>4. CASE n <= l
  <2>1. Extended(n) = [i \in 1 .. l |-> nodes[i]]
    BY <1>2, <1>3, <1>4 DEF Extended
  <2> QED BY <1>1, <1>4, <2>1
<1>5. CASE ~(n <= l)
  <2>1. Extended(n) = [i \in 1 .. n |-> IF i \in 1 .. l THEN nodes[i] ELSE NULL]
    BY <1>2, <1>3, <1>5 DEF Extended
  <2> QED BY <1>1, <1>5, <2>1
<1> QED BY <1>4, <1>5

\* What is written into a list does not change its length.
LEMMA WrittenList ==
  ASSUME NEW m \in Nat, NEW f, f = [i \in 1 .. m |-> f[i]], NEW j, NEW e
  PROVE  LET g == [f EXCEPT ![j] = e] IN g = [i \in 1 .. m |-> g[i]]
OBVIOUS

-----------------------------------------------------------------------------
\* What a write may leave of the list.
Longer(n) ==
  \E m \in Nat : n <= m /\ Len(nodes) <= m /\ nodes' = [i \in 1 .. m |-> nodes'[i]]

\* mev_follow() ends with a list that is long enough ...
LEMMA Extends ==
  ASSUME ListInv, NEW n \in Nat, nodes' = Extended(n)
  PROVE  Longer(n)
<1>1. Len(nodes) \in Nat
  BY DEF ListInv
<1> QED BY <1>1, ExtendedList DEF Longer

\* ... and stays so when a node of it is written.
LEMMA ExtendsWriting ==
  ASSUME ListInv, NEW n \in Nat, NEW j, NEW e, nodes' = [Extended(n) EXCEPT ![j] = e]
  PROVE  Longer(n)
<1>1. PICK m \in Nat : /\ m = IF n <= Len(nodes) THEN Len(nodes) ELSE n
                       /\ Extended(n) = [i \in 1 .. m |-> Extended(n)[i]]
  BY ExtendedList DEF ListInv
<1>2. nodes' = [i \in 1 .. m |-> nodes'[i]]
  BY <1>1, WrittenList, Zenon
<1>3. n <= m /\ Len(nodes) <= m
  BY <1>1 DEF ListInv
<1> QED BY <1>2, <1>3 DEF Longer

\* A longer list is a list still, and reaches as far as the old one.
LEMMA LongerList ==
  ASSUME ListInv, NEW n \in Nat, Longer(n)
  PROVE  ListInv' /\ Len(nodes) <= Len(nodes') /\ n <= Len(nodes')
<1>1. PICK m \in Nat : n <= m /\ Len(nodes) <= m /\ nodes' = [i \in 1 .. m |-> nodes'[i]]
  BY DEF Longer
<1>2. Len(nodes') = m
  BY <1>1, LengthOf
<1> QED BY <1>1, <1>2 DEF ListInv

\* A write leaves the list as it is, or longer, and has made it to the node of
\* its position when it gets to the size.
LEMMA WriteKeeps ==
  ASSUME IInv, NEW p \in Nat, NEW n \in Nat, NEW text \in [1 .. n -> Bytes], WriteAt(p, text)
  PROVE  ListInv' /\ SizeInv' /\ (out' = ERROR \/ Len(out') \in Nat)
<1>1. Item(p) \in Nat /\ size \in Nat /\ ListInv /\ Len(nodes) \in Nat
  BY ItemOrder DEF IInv, SizeInv, ListInv
<1>2. CASE NoMemory(p, text)
  <2>1. \E l \in Nat : Longer(l)
    <3>1. ASSUME NEW m \in Len(nodes) .. Item(p), nodes' = Extended(m) PROVE Longer(m)
      BY <1>1, <3>1, Extends
    <3>2. CASE nodes' = Extended(Item(p) + 1)
      BY <1>1, <3>2, Extends
    <3>3. CASE nodes' = [Extended(Item(p) + 1) EXCEPT ![Item(p) + 1] = Array(@)]
      <4>1. Item(p) + 1 \in Nat
        BY <1>1
      <4> QED BY <1>1, <3>3, <4>1, ExtendsWriting, Zenon
    <3>4. \/ \E m \in Len(nodes) .. Item(p) : nodes' = Extended(m)
          \/ nodes' = Extended(Item(p) + 1)
          \/ nodes' = [Extended(Item(p) + 1) EXCEPT ![Item(p) + 1] = Array(@)]
      BY <1>2, Zenon DEF NoMemory
    <3>5. /\ Item(p) + 1 \in Nat
          /\ \A m \in Len(nodes) .. Item(p) : m \in Nat
      BY <1>1
    <3> QED BY <3>1, <3>2, <3>3, <3>4, <3>5, Zenon
  <2>2. ListInv' /\ Len(nodes) <= Len(nodes')
    BY <1>1, <2>1, LongerList
  <2>3. size' = size /\ out' = ERROR
    BY <1>2 DEF NoMemory
  <2>4. SizeInv'
    <3>1. ASSUME NEW x \in 0 .. size - 1 PROVE Item(x) < Len(nodes')
      <4>1. x \in 0 .. x /\ Item(x) < Len(nodes)
        BY <1>1, <3>1 DEF IInv, SizeInv
      <4>2. Item(x) \in Nat /\ Len(nodes') \in Nat
        BY <1>1, <2>2, <3>1, <4>1, ItemOrder DEF ListInv
      <4> QED BY <1>1, <2>2, <4>1, <4>2
    <3> QED BY <1>1, <2>3, <3>1 DEF SizeInv
  <2> QED BY <2>2, <2>3, <2>4
<1>3. CASE Store(p, text)
  <2> DEFINE fits == SubSeq(text, 1, Within(p, Len(text)))
  <2>1. text \in Seq(Bytes) /\ Len(text) = n
    BY SeqDef, LenProperties
  <2>2. PICK k \in 0 .. n : k = Within(p, n) /\ \A x \in 0 .. p + k - 1 : Item(x) <= Item(p)
    BY WithinFits
  <2>3. Len(fits) = k
    BY <2>1, <2>2, SubSeqProperties
  <2>4. Longer(Item(p) + 1)
    <3> DEFINE list == Extended(Item(p) + 1)
               s == SPos(p)
               array(copied) == [Array(list[Item(p) + 1]) EXCEPT ![s] =
                 Patched(Quantum(Array(list[Item(p) + 1]), s), QPos(p), copied)]
               With(copied) == [list EXCEPT ![Item(p) + 1] = array(copied)]
    <3>0. \E copied : nodes' = With(copied)
      BY <1>3, Zenon DEF Store
    <3>1. \E e : nodes' = [Extended(Item(p) + 1) EXCEPT ![Item(p) + 1] = e]
      BY <3>0
    <3>2. PICK e : nodes' = [Extended(Item(p) + 1) EXCEPT ![Item(p) + 1] = e]
      BY <3>1
    <3>3. Item(p) + 1 \in Nat
      BY <1>1
    <3> QED BY <1>1, <3>2, <3>3, ExtendsWriting, Zenon
  <2>5. ListInv' /\ Len(nodes) <= Len(nodes') /\ Item(p) + 1 <= Len(nodes')
    BY <1>1, <2>4, LongerList
  <2>6. size' = size \/ size' = p + k
    BY <1>3, <2>3 DEF Store, Grown
  <2>7. out' = ERROR \/ out' = fits
    BY <1>3 DEF Store
  <2>8. SizeInv'
    <3>0. Len(nodes') \in Nat
      BY <2>5 DEF ListInv
    <3>1. CASE size' = size
      <4>1. ASSUME NEW x \in 0 .. size - 1 PROVE Item(x) < Len(nodes')
        <5>1. x \in 0 .. x /\ Item(x) < Len(nodes)
          BY <1>1, <4>1 DEF IInv, SizeInv
        <5>2. Item(x) \in Nat
          BY <1>1, <4>1, <5>1, ItemOrder
        <5> QED BY <1>1, <2>5, <3>0, <5>1, <5>2
      <4> QED BY <1>1, <3>1, <4>1 DEF SizeInv
    <3>2. CASE size' = p + k
      <4>1. ASSUME NEW x \in 0 .. p + k - 1 PROVE Item(x) < Len(nodes')
        <5>1. Item(x) <= Item(p)
          BY <2>2, <4>1
        <5>2. x \in Nat /\ x \in 0 .. x
          BY <4>1
        <5>3. Item(x) \in Nat
          BY <5>2, ItemOrder
        <5> QED BY <1>1, <2>5, <3>0, <5>1, <5>3
      <4> QED BY <3>2, <4>1 DEF SizeInv
    <3> QED BY <2>6, <3>1, <3>2
  <2> QED BY <2>3, <2>5, <2>7, <2>8
<1> QED BY <1>2, <1>3 DEF WriteAt

\* A read stays on the list, below the size.
LEMMA ReadKeeps ==
  ASSUME IInv, NEW p \in Nat, NEW n \in Nat, ReadAt(p, n)
  PROVE  nodes' = nodes /\ (out' = ERROR \/ Len(out') \in Nat)
<1>1. Item(p) \in Nat /\ size \in Nat /\ Len(nodes) \in Nat
  BY ItemOrder DEF IInv, SizeInv, ListInv
<1>2. CASE p >= size
  BY <1>1, <1>2 DEF ReadAt
<1>3. CASE p < size
  <2>1. Item(p) + 1 <= Len(nodes)
    BY <1>1, <1>3 DEF IInv, SizeInv
  <2>2. Extended(Item(p) + 1) = nodes
    BY <1>1, <2>1, ExtendedList DEF IInv
  <2>3. Within(p, Readable(p, n)) \in Nat
    <3>1. Readable(p, n) \in Nat
      BY <1>1, <1>3 DEF Readable, Least
    <3> QED BY <3>1, WithinFits
  <2>4. \A k \in Nat : Len([i \in 1 .. k |-> ByteAt(Extended(Item(p) + 1), p + i - 1)]) = k
    BY LengthOf
  <2>5. /\ nodes' = Extended(Item(p) + 1)
        /\ \/ out' = <<>> \/ out' = ERROR
           \/ out' = [i \in 1 .. Within(p, Readable(p, n)) |->
                        ByteAt(Extended(Item(p) + 1), p + i - 1)]
    BY <1>1, <1>3, <2>1 DEF ReadAt
  <2> QED BY <2>2, <2>3, <2>4, <2>5
<1> QED BY <1>1, <1>2, <1>3

-----------------------------------------------------------------------------
LEMMA MovesOn ==
  ASSUME PosInv, NEW f \in Files, Moves(f), out' = ERROR \/ Len(out') \in Nat
  PROVE  PosInv'
BY DEF PosInv, Moves

\* Reads keep the invariant and the list.
LEMMA ReadsStep ==
  ASSUME IInv, Reads
  PROVE  IInv' /\ nodes' = nodes
<1>1. PICK n \in Counts : \/ \E f \in Files : MevRead(f, n)
                          \/ \E p \in Starts : Pread(p, n)
  BY DEF Reads
<1>2. n \in Nat /\ \A p \in Starts : p \in Nat
  OBVIOUS
<1>3. ASSUME NEW f \in Files, MevRead(f, n) PROVE nodes' = nodes /\ size' = size /\ PosInv'
  <2>1. f_pos[f] \in Nat
    BY DEF IInv, PosInv
  <2> QED BY <1>2, <1>3, <2>1, ReadKeeps, MovesOn DEF MevRead, IInv
<1>4. ASSUME NEW p \in Starts, Pread(p, n) PROVE nodes' = nodes /\ size' = size /\ PosInv'
  BY <1>2, <1>4, ReadKeeps DEF Pread, IInv, PosInv
<1>5. nodes' = nodes /\ size' = size /\ PosInv'
  BY <1>1, <1>3, <1>4
<1> QED BY <1>5 DEF IInv, ListInv, SizeInv

\* Writes keep the invariant.
LEMMA WritesStep ==
  ASSUME IInv, Writes
  PROVE  IInv'
<1>1. PICK n \in Counts :
        \E text \in [1 .. n -> Bytes] : \/ \E f \in Files : MevWrite(f, text)
                                      \/ \E p \in Starts : Pwrite(p, text)
  BY DEF Writes
<1> PICK text \in [1 .. n -> Bytes] : \/ \E f \in Files : MevWrite(f, text)
                                     \/ \E p \in Starts : Pwrite(p, text)
  BY <1>1
<1>2. n \in Nat /\ \A p \in Starts : p \in Nat
  OBVIOUS
<1>3. ASSUME NEW f \in Files, MevWrite(f, text) PROVE IInv'
  <2>1. f_pos[f] \in Nat
    BY DEF IInv, PosInv
  <2> QED BY <1>2, <1>3, <2>1, WriteKeeps, MovesOn DEF MevWrite, IInv
<1>4. ASSUME NEW p \in Starts, Pwrite(p, text) PROVE IInv'
  BY <1>2, <1>4, WriteKeeps DEF Pwrite, IInv, PosInv
<1> QED BY <1>3, <1>4

\* The trimmed list is long enough for size 0.
LEMMA EmptyList ==
  ASSUME nodes' = <<>>, size' = 0
  PROVE  ListInv' /\ SizeInv'
<1>1. Len(nodes') = 0 /\ nodes' = [i \in 1 .. 0 |-> nodes'[i]]
  OBVIOUS
<1> QED BY <1>1 DEF ListInv, SizeInv

\* Opening keeps the invariant.
LEMMA OpenStep ==
  ASSUME IInv, NEW f \in Files, NEW wronly \in BOOLEAN, MevOpen(f, wronly)
  PROVE  IInv'
<1>1. PosInv'
  BY DEF MevOpen, IInv, PosInv
<1>2. CASE wronly
  BY <1>1, <1>2, EmptyList DEF MevOpen, Trim, IInv
<1>3. CASE ~wronly
  <2>1. UNCHANGED <<nodes, size>>
    BY <1>3 DEF MevOpen
  <2> QED BY <1>1, <2>1 DEF IInv, ListInv, SizeInv
<1> QED BY <1>2, <1>3

\* The invariant holds of the formatted container.
LEMMA InvInit == ASSUME Init PROVE IInv
<1>1. Len(nodes) = 0 /\ nodes = [i \in 1 .. 0 |-> nodes[i]]
  BY DEF Init
<1> QED BY <1>1 DEF Init, IInv, ListInv, SizeInv, PosInv

\* The list reaches to the size, in every state.
THEOREM Invariance == Spec => []IInv
<1>1. Init => IInv
  BY InvInit
<1>2. IInv /\ [Next]_vars => IInv'
  <2>1. ASSUME IInv, UNCHANGED vars PROVE IInv'
    BY <2>1 DEF vars, IInv, ListInv, SizeInv, PosInv
  <2> QED BY <2>1, ReadsStep, WritesStep, OpenStep DEF Next
<1> QED BY <1>1, <1>2, PTL DEF Spec

\* mev_follow() has nothing to allocate for a read, whatever writes failed
\* before and wherever they were made.
THEOREM ReadsLookOnly == Spec => ReadsAllocateNothing
<1>1. IInv /\ [Next]_vars => [Reads => UNCHANGED nodes]_vars
  BY ReadsStep
<1> QED BY <1>1, Invariance, PTL DEF Spec, ReadsAllocateNothing

-----------------------------------------------------------------------------
(***************************************************************************)
(* The bytes.  A position is a node, a slot of its array and an offset in  *)
(* the quantum there, and no two positions are the same.                   *)
(***************************************************************************)
LEMMA Decompose ==
  ASSUME NEW p \in Nat
  PROVE  /\ Item(p) \in Nat /\ SPos(p) \in 0 .. QsetSize - 1 /\ QPos(p) \in 0 .. QuantumSize - 1
         /\ p = ItemSize * Item(p) + (QuantumSize * SPos(p) + QPos(p))
<1>1. PICK q \in Nat \ {0}, s \in Nat \ {0}, m \in Nat \ {0} :
        q = QuantumSize /\ s = QsetSize /\ m = ItemSize /\ m = q * s
  BY Geometry DEF ItemSize
<1>2. p \div m \in Nat /\ p % m \in 0 .. m - 1 /\ p = m * (p \div m) + (p % m)
  OBVIOUS
<1>3. PICK d \in Nat, r \in 0 .. m - 1 : d = p \div m /\ r = p % m /\ p = m * d + r
  BY <1>2
<1>4. r \div q \in Nat /\ r % q \in 0 .. q - 1 /\ r = q * (r \div q) + (r % q)
  OBVIOUS
<1>5. PICK a \in Nat, b \in 0 .. q - 1 : a = r \div q /\ b = r % q /\ r = q * a + b
  BY <1>4
<1>6. a < s
  <2>1. SUFFICES ASSUME a >= s PROVE FALSE
    OBVIOUS
  <2>2. q * a >= q * s
    BY <2>1
  <2> QED BY <1>1, <1>3, <1>5, <2>2
<1>7. Item(p) = d /\ SPos(p) = a /\ QPos(p) = b
  BY <1>1, <1>3, <1>5 DEF Item, SPos, QPos
<1>8. p = m * d + (q * a + b)
  BY <1>3, <1>5
<1> QED BY <1>1, <1>6, <1>7, <1>8

\* No other node, slot and offset has that position.
LEMMA Recompose ==
  ASSUME NEW d \in Nat, NEW a \in 0 .. QsetSize - 1, NEW b \in 0 .. QuantumSize - 1,
         NEW p, p = ItemSize * d + (QuantumSize * a + b)
  PROVE  p \in Nat /\ Item(p) = d /\ SPos(p) = a /\ QPos(p) = b
<1>1. PICK q \in Nat \ {0}, s \in Nat \ {0}, m \in Nat \ {0} :
        q = QuantumSize /\ s = QsetSize /\ m = ItemSize /\ m = q * s
  BY Geometry DEF ItemSize
<1>2. a \in Nat /\ b \in 0 .. q - 1 /\ q * a \in Nat
  BY <1>1
<1>3. q * a + b < m
  <2>1. q * (a + 1) <= q * s
    BY <1>1
  <2>2. q * (a + 1) = q * a + q
    BY <1>2
  <2> QED BY <1>1, <1>2, <2>1, <2>2
<1>4. PICK r \in 0 .. m - 1 : r = q * a + b
  BY <1>2, <1>3
<1>5. p = m * d + r
  BY <1>1, <1>4
<1>6. (m * d + r) \div m = d /\ (m * d + r) % m = r
  OBVIOUS
<1>7. (q * a + b) \div q = a /\ (q * a + b) % q = b
  BY <1>2
<1>8. p \div m = d /\ p % m = r /\ r \div q = a /\ r % q = b
  BY <1>4, <1>5, <1>6, <1>7
<1>9. p \in Nat
  BY <1>5
<1> QED BY <1>1, <1>8, <1>9 DEF Item, SPos, QPos

\* Positions up to the end of a quantum are in it.
LEMMA InQuantum ==
  ASSUME NEW p \in Nat, NEW k \in Nat, QPos(p) + k < QuantumSize
  PROVE  /\ Item(p + k) = Item(p) /\ SPos(p + k) = SPos(p)
         /\ QPos(p + k) = QPos(p) + k
<1>1. PICK d \in Nat, a \in 0 .. QsetSize - 1, b \in 0 .. QuantumSize - 1 :
        /\ d = Item(p) /\ a = SPos(p) /\ b = QPos(p)
        /\ p = ItemSize * d + (QuantumSize * a + b)
  BY Decompose
<1>2. b + k \in 0 .. QuantumSize - 1
  BY <1>1
<1>3. p + k = ItemSize * d + (QuantumSize * a + (b + k))
  <2> DEFINE u == ItemSize * d
             v == QuantumSize * a
  <2>1. u \in Nat /\ v \in Nat /\ p = u + (v + b)
    BY <1>1, Geometry
  <2> HIDE DEF u, v
  <2>2. p + k = u + (v + (b + k))
    BY <2>1
  <2> QED BY <2>2 DEF u, v
<1> QED BY <1>1, <1>2, <1>3, Recompose

\* Two positions in one quantum are as far apart as their offsets.
LEMMA OneQuantum ==
  ASSUME NEW p \in Nat, NEW x \in Nat, Item(x) = Item(p), SPos(x) = SPos(p)
  PROVE  x - p = QPos(x) - QPos(p)
<1>1. PICK u \in Nat, v \in Nat : u = ItemSize * Item(p) /\ v = QuantumSize * SPos(p)
  BY Decompose, Geometry
<1>2. p = u + (v + QPos(p)) /\ x = u + (v + QPos(x))
  BY <1>1, Decompose
<1>3. QPos(p) \in Nat /\ QPos(x) \in Nat
  BY Decompose
<1> QED BY <1>2, <1>3

\* The bounds of the positions are those of quanta and nodes.
LEMMA LastQuantum ==
  ASSUME NEW p \in 0 .. Capacity - 1
  PROVE  p + (QuantumSize - QPos(p)) <= Capacity
<1>0. p \in Nat
  OBVIOUS
<1>1. PICK q \in Nat \ {0}, s \in Nat \ {0}, m \in Nat \ {0} :
        q = QuantumSize /\ s = QsetSize /\ m = ItemSize /\ m = q * s
  BY Geometry DEF ItemSize
<1>2. PICK d \in Nat, a \in Nat, b \in 0 .. q - 1 :
        b = QPos(p) /\ p = m * d + (q * a + b)
  <2>0. /\ Item(p) \in Nat /\ SPos(p) \in 0 .. QsetSize - 1 /\ QPos(p) \in 0 .. QuantumSize - 1
        /\ p = ItemSize * Item(p) + (QuantumSize * SPos(p) + QPos(p))
    BY <1>0, Decompose, Zenon
  <2>1. PICK d \in Nat, a \in 0 .. QsetSize - 1, b \in 0 .. QuantumSize - 1 :
          /\ d = Item(p) /\ a = SPos(p) /\ b = QPos(p)
          /\ p = ItemSize * d + (QuantumSize * a + b)
    BY <2>0, Zenon
  <2>2. a \in Nat /\ b \in 0 .. q - 1
    BY <1>1, <2>1
  <2>3. p = m * d + (q * a + b)
    BY <1>1, <2>1, Zenon
  <2> QED BY <2>1, <2>2, <2>3
<1>3. PICK c \in Nat : Capacity = q * c
  <2>1. PICK l \in Nat : l = Capacity /\ l % q = 0
    BY <1>1
  <2>2. l = q * (l \div q) + (l % q) /\ l \div q \in Nat
    OBVIOUS
  <2>3. l = q * (l \div q)
    BY <2>1, <2>2
  <2> QED BY <2>1, <2>2, <2>3
<1>4. PICK e \in Nat : e = s * d + a
  OBVIOUS
<1>5. p = q * e + b
  <2>1. (q * s) * d = q * (s * d)
    OBVIOUS
  <2>2. q * (s * d + a) = q * (s * d) + q * a
    OBVIOUS
  <2>3. m * d = q * (s * d)
    BY <1>1, <2>1
  <2>4. q * (s * d) \in Nat /\ q * a \in Nat
    OBVIOUS
  <2> QED BY <1>2, <1>4, <2>2, <2>3, <2>4
<1>6. e < c
  <2>1. SUFFICES ASSUME e >= c PROVE FALSE
    OBVIOUS
  <2>2. q * e >= q * c
    BY <2>1
  <2> QED BY <1>3, <1>5, <2>2
<1>7. q * (e + 1) <= q * c /\ q * (e + 1) = q * e + q
  BY <1>6
<1> QED BY <1>1, <1>2, <1>3, <1>5, <1>7

\* A list with a node for p is not longer than Capacity asks for.
LEMMA LastNode ==
  ASSUME NEW p \in 0 .. Capacity - 1, NEW n \in 0 .. Item(p) + 1
  PROVE  n * ItemSize < Capacity + ItemSize
<1>0. p \in Nat
  OBVIOUS
<1>1. PICK m \in Nat \ {0} : m = ItemSize
  BY Geometry
<1>2. PICK d \in Nat, r \in Nat : d = Item(p) /\ p = m * d + r
  <2>1. PICK r : r = QuantumSize * SPos(p) + QPos(p)
    OBVIOUS
  <2>2. r \in Nat /\ Item(p) \in Nat
    <3>1. PICK a \in Nat, b \in Nat : a = SPos(p) /\ b = QPos(p) /\ Item(p) \in Nat
      BY <1>0, Decompose
    <3>2. QuantumSize * a + b \in Nat
      BY <3>1
    <3> QED BY <2>1, <3>1, <3>2
  <2>3. p = m * Item(p) + r
    BY <1>0, <1>1, <2>1, Decompose, Zenon
  <2> QED BY <2>2, <2>3
<1>3. n * m <= (d + 1) * m /\ (d + 1) * m = m * d + m
  BY <1>2
<1> QED BY <1>1, <1>2, <1>3

-----------------------------------------------------------------------------
(***************************************************************************)
(* Lists of nodes, and the byte of a list at a position.                   *)
(***************************************************************************)
Nodes == {NULL} \union Arrays

\* A node of a list is NULL or an array of quanta.
LEMMA NodeOf ==
  ASSUME NEW list \in Seq(Nodes), NEW x \in Nat, Item(x) < Len(list)
  PROVE  /\ Item(x) + 1 \in 1 .. Len(list) /\ list[Item(x) + 1] \in Nodes
         /\ list[Item(x) + 1] # NULL =>
              /\ list[Item(x) + 1] \in Arrays
              /\ list[Item(x) + 1][SPos(x)] \in {NULL} \union Quanta
              /\ list[Item(x) + 1][SPos(x)] # NULL =>
                   /\ list[Item(x) + 1][SPos(x)] \in Quanta
                   /\ list[Item(x) + 1][SPos(x)][QPos(x)] \in Bytes \union {JUNK}
<1>1. Item(x) \in Nat /\ SPos(x) \in 0 .. QsetSize - 1 /\ QPos(x) \in 0 .. QuantumSize - 1
  BY Decompose
<1>2. Item(x) + 1 \in 1 .. Len(list) /\ list[Item(x) + 1] \in Nodes
  <2>1. Len(list) \in Nat
    BY LenProperties
  <2>2. Item(x) + 1 \in 1 .. Len(list)
    BY <1>1, <2>1
  <2> QED BY <2>2, ElementOfSeq
<1>3. PICK node : node = list[Item(x) + 1]
  OBVIOUS
<1>4. CASE node # NULL
  <2>1. node \in Arrays
    BY <1>2, <1>3, <1>4 DEF Nodes
  <2>2. PICK quantum : quantum = node[SPos(x)] /\ quantum \in {NULL} \union Quanta
    BY <1>1, <2>1 DEF Arrays
  <2>3. quantum # NULL => quantum \in Quanta /\ quantum[QPos(x)] \in Bytes \union {JUNK}
    BY <1>1, <2>2 DEF Quanta
  <2> QED BY <1>2, <1>3, <2>1, <2>2, <2>3
<1> QED BY <1>2, <1>3, <1>4

\* What is found at a position is a byte, or what fresh memory holds.
LEMMA ByteType ==
  ASSUME NEW list \in Seq(Nodes), NEW x \in Nat
  PROVE  ByteAt(list, x) \in Bytes \union {JUNK}
<1>1. CASE Backed(list, x)
  BY <1>1, NodeOf DEF Backed, ByteAt
<1> QED BY <1>1 DEF ByteAt

\* Two lists with the same quantum at a position, or with none, agree on it.
LEMMA SameByte ==
  ASSUME NEW list, NEW other, NEW x,
         Backed(other, x) <=> Backed(list, x),
         Backed(list, x) =>
           other[Item(x) + 1][SPos(x)][QPos(x)] = list[Item(x) + 1][SPos(x)][QPos(x)]
  PROVE  ByteAt(other, x) = ByteAt(list, x)
BY Zenon DEF ByteAt

\* mev_follow() appends nodes without array: no byte appears or goes.
LEMMA ExtendedNodes ==
  ASSUME nodes \in Seq(Nodes), NEW n \in Nat
  PROVE  /\ Extended(n) \in Seq(Nodes)
         /\ Len(Extended(n)) = IF n <= Len(nodes) THEN Len(nodes) ELSE n
         /\ \A i \in 1 .. Len(Extended(n)) :
              Extended(n)[i] = IF i \in 1 .. Len(nodes) THEN nodes[i] ELSE NULL
<1>1. PICK l \in Nat : l = Len(nodes) /\ DOMAIN nodes = 1 .. l /\ nodes \in [1 .. l -> Nodes]
  BY LenProperties
<1>2. PICK m \in Nat : m = IF n <= l THEN l ELSE n
  OBVIOUS
<1>3. (1 .. l) \union (1 .. n) = 1 .. m
  BY <1>2
<1>4. Extended(n) = [i \in 1 .. m |-> IF i \in 1 .. l THEN nodes[i] ELSE NULL]
  BY <1>1, <1>3 DEF Extended
<1>5. Extended(n) \in [1 .. m -> Nodes]
  BY <1>1, <1>4 DEF Nodes
<1>6. Extended(n) \in Seq(Nodes)
  BY <1>5, SeqDef
<1>7. Len(Extended(n)) = m
  <2>1. Extended(n) = [i \in 1 .. m |-> Extended(n)[i]]
    BY <1>4
  <2> QED BY <1>2, <2>1, LengthOf
<1> QED BY <1>1, <1>2, <1>4, <1>6, <1>7

\* The bytes after mev_follow() are those before.
LEMMA ExtendedBytes ==
  ASSUME nodes \in Seq(Nodes), NEW n \in Nat, NEW x \in Nat
  PROVE  /\ Backed(Extended(n), x) <=> Backed(nodes, x)
         /\ ByteAt(Extended(n), x) = ByteAt(nodes, x)
<1>1. PICK d \in Nat, l \in Nat, m \in Nat :
        d = Item(x) /\ l = Len(nodes) /\ m = Len(Extended(n)) /\ l <= m
  <2>1. Item(x) \in Nat /\ Len(nodes) \in Nat
    BY Decompose, LenProperties
  <2>2. Len(Extended(n)) = IF n <= Len(nodes) THEN Len(nodes) ELSE n
    BY ExtendedNodes, Zenon
  <2>3. Len(Extended(n)) \in Nat /\ Len(nodes) <= Len(Extended(n))
    BY <2>1, <2>2
  <2> QED BY <2>1, <2>3
<1>2. \A i \in 1 .. m : Extended(n)[i] = IF i \in 1 .. l THEN nodes[i] ELSE NULL
  BY <1>1, ExtendedNodes
<1>3. CASE d < l
  <2>1. d + 1 \in 1 .. l /\ d + 1 \in 1 .. m /\ d < m
    BY <1>1, <1>3
  <2>2. Extended(n)[Item(x) + 1] = nodes[Item(x) + 1]
    BY <1>1, <1>2, <2>1
  <2>3. Backed(Extended(n), x) <=> Backed(nodes, x)
    BY <1>1, <1>3, <2>1, <2>2 DEF Backed
  <2> QED BY <2>2, <2>3, SameByte
<1>4. CASE ~(d < l)
  <2>1. ~Backed(nodes, x)
    BY <1>1, <1>4 DEF Backed
  <2>2. ~Backed(Extended(n), x)
    <3>1. SUFFICES ASSUME d < m PROVE Extended(n)[d + 1] = NULL
      BY <1>1 DEF Backed
    <3>2. d + 1 \in 1 .. m /\ d + 1 \notin 1 .. l
      BY <1>4, <3>1
    <3> QED BY <1>2, <3>2
  <2> QED BY <2>1, <2>2 DEF ByteAt
<1> QED BY <1>3, <1>4

-----------------------------------------------------------------------------
(***************************************************************************)
(* What a write leaves of the list and its bytes.                          *)
(***************************************************************************)
\* One node of a list is another array.
Placed(list, other, d, array) ==
  /\ other \in Seq(Nodes) /\ Len(other) = Len(list) /\ other[d + 1] = array
  /\ \A i \in 1 .. Len(list) : i # d + 1 => other[i] = list[i]

\* Writing an array into a node changes this node only.
LEMMA Replaced ==
  ASSUME NEW list \in Seq(Nodes), NEW d \in Nat, d < Len(list), NEW array \in Arrays
  PROVE  Placed(list, [list EXCEPT ![d + 1] = array], d, array)
<1> DEFINE other == [list EXCEPT ![d + 1] = array]
<1>1. PICK l \in Nat : l = Len(list) /\ DOMAIN list = 1 .. l /\ list \in [1 .. l -> Nodes]
  BY LenProperties
<1>2. array \in Nodes /\ d + 1 \in 1 .. l
  BY <1>1 DEF Nodes
<1>3. other \in [1 .. l -> Nodes] /\ other[d + 1] = array
  BY <1>1, <1>2
<1>4. other \in Seq(Nodes)
  BY <1>3, SeqDef
<1>5. Len(other) = l
  <2>1. other = [i \in 1 .. l |-> other[i]]
    BY <1>3
  <2> QED BY <2>1, LengthOf
<1>6. \A i \in 1 .. l : i # d + 1 => other[i] = list[i]
  BY <1>1
<1> HIDE DEF other
<1>7. Placed(list, other, d, array)
  BY <1>1, <1>3, <1>4, <1>5, <1>6 DEF Placed
<1> QED BY <1>7 DEF other

\* Positions in other nodes keep their bytes; those in this one find them in
\* the array.
LEMMA PlacedBytes ==
  ASSUME NEW list \in Seq(Nodes), NEW d \in Nat, d < Len(list), NEW array \in Arrays,
         NEW other, Placed(list, other, d, array), NEW x \in Nat
  PROVE  ByteAt(other, x) =
           IF Item(x) # d THEN ByteAt(list, x)
           ELSE IF array[SPos(x)] # NULL THEN array[SPos(x)][QPos(x)] ELSE JUNK
<1>1. PICK c \in Nat, l \in Nat : c = Item(x) /\ l = Len(list)
  BY Decompose, LenProperties
<1>2. Len(other) = l /\ other[d + 1] = array /\ \A i \in 1 .. l : i # d + 1 => other[i] = list[i]
  BY <1>1 DEF Placed
<1>3. CASE c # d /\ c < l
  <2>1. c + 1 \in 1 .. l /\ c + 1 # d + 1
    BY <1>3
  <2>2. Len(other) = Len(list) /\ other[Item(x) + 1] = list[Item(x) + 1]
    BY <1>1, <1>2, <2>1
  <2>3. Backed(other, x) <=> Backed(list, x)
    BY <2>2, Zenon DEF Backed
  <2>4. ByteAt(other, x) = ByteAt(list, x)
    BY <2>2, <2>3, SameByte, Zenon
  <2> QED BY <1>1, <1>3, <2>4
<1>4. CASE c # d /\ ~(c < l)
  <2>1. ~Backed(other, x) /\ ~Backed(list, x)
    BY <1>1, <1>2, <1>4 DEF Backed
  <2> QED BY <1>1, <1>4, <2>1 DEF ByteAt
<1>5. CASE c = d
  <2>1. other[Item(x) + 1] = array /\ Item(x) < Len(other)
    BY <1>1, <1>2, <1>5
  <2>2. array # NULL
    BY ValueAssumption
  <2> QED BY <1>1, <1>5, <2>1, <2>2 DEF ByteAt, Backed
<1> QED BY <1>3, <1>4, <1>5

\* The array of a node, allocated if need be.
LEMMA ArrayOf ==
  ASSUME NEW node \in Nodes
  PROVE  /\ Array(node) \in Arrays
         /\ node # NULL => Array(node) = node
         /\ node = NULL => \A s \in 0 .. QsetSize - 1 : Array(node)[s] = NULL
<1>1. CASE node = NULL
  <2>1. Array(node) = [s \in 0 .. QsetSize - 1 |-> NULL]
    BY <1>1 DEF Array
  <2> QED BY <1>1, <2>1 DEF Arrays
<1>2. CASE node # NULL
  BY <1>2 DEF Array, Nodes
<1> QED BY <1>1, <1>2

\* Two lists with the same bytes.
Same(list, other) == \A x \in Nat : ByteAt(other, x) = ByteAt(list, x)

\* An array of its own changes no byte: all of it is still to be allocated.
LEMMA ArrayBytes ==
  ASSUME NEW list \in Seq(Nodes), NEW d \in Nat, d < Len(list),
         NEW other, other = [list EXCEPT ![d + 1] = Array(@)]
  PROVE  /\ other \in Seq(Nodes) /\ Len(other) = Len(list)
         /\ Same(list, other)
<1>1. PICK node : node = list[d + 1]
  OBVIOUS
<1>2. node \in Nodes
  <2>1. Len(list) \in Nat
    BY LenProperties
  <2>2. d + 1 \in 1 .. Len(list)
    BY <2>1
  <2> QED BY <1>1, <2>2, ElementOfSeq
<1>3. PICK array \in Arrays : array = Array(node)
  BY <1>2, ArrayOf
<1>4. Placed(list, other, d, array)
  BY <1>1, <1>3, Replaced
<1>5. other \in Seq(Nodes) /\ Len(other) = Len(list)
  BY <1>4 DEF Placed
<1>6. \A x \in Nat :
         ByteAt(other, x) =
           IF Item(x) # d THEN ByteAt(list, x)
           ELSE IF array[SPos(x)] # NULL THEN array[SPos(x)][QPos(x)] ELSE JUNK
  BY <1>3, <1>4, PlacedBytes
<1>7. ASSUME NEW x \in Nat PROVE ByteAt(other, x) = ByteAt(list, x)
  <2>1. CASE Item(x) # d
    BY <1>6, <2>1
  <2>2. CASE Item(x) = d
    <3>1. ByteAt(other, x) = IF array[SPos(x)] # NULL THEN array[SPos(x)][QPos(x)] ELSE JUNK
      BY <1>6, <2>2
    <3>2. SPos(x) \in 0 .. QsetSize - 1
      BY Decompose
    <3>3. CASE node = NULL
      <4>1. array[SPos(x)] = NULL
        BY <1>2, <1>3, <3>2, <3>3, ArrayOf
      <4>2. ~Backed(list, x)
        BY <1>1, <2>2, <3>3 DEF Backed
      <4> QED BY <3>1, <4>1, <4>2 DEF ByteAt
    <3>4. CASE node # NULL
      <4>1. array = node
        BY <1>2, <1>3, <3>4, ArrayOf
      <4> QED BY <1>1, <2>2, <3>1, <3>4, <4>1 DEF ByteAt, Backed
    <3> QED BY <3>3, <3>4
  <2> QED BY <2>1, <2>2
<1> QED BY <1>5, <1>7 DEF Same

\* The quantum of a slot, allocated if need be.
LEMMA QuantumOf ==
  ASSUME NEW array \in Arrays, NEW s \in 0 .. QsetSize - 1
  PROVE  /\ Quantum(array, s) \in Quanta
         /\ array[s] # NULL => Quantum(array, s) = array[s]
         /\ array[s] = NULL => \A q \in 0 .. QuantumSize - 1 : Quantum(array, s)[q] = JUNK
<1>1. array[s] \in {NULL} \union Quanta
  BY DEF Arrays
<1>2. CASE array[s] = NULL
  <2>1. Quantum(array, s) = [q \in 0 .. QuantumSize - 1 |-> JUNK]
    BY <1>2 DEF Quantum
  <2> QED BY <1>2, <2>1 DEF Quanta
<1>3. CASE array[s] # NULL
  BY <1>1, <1>3 DEF Quantum
<1> QED BY <1>2, <1>3

\* A quantum that differs from another one by a text at an offset.
Differs(quantum, other, q, text) ==
  /\ other \in Quanta
  /\ \A x \in 0 .. QuantumSize - 1 :
       other[x] = IF x - q + 1 \in 1 .. Len(text) THEN text[x - q + 1] ELSE quantum[x]

\* Patched puts the text where it belongs and keeps the quantum's size.
LEMMA PatchedQuantum ==
  ASSUME NEW quantum \in Quanta, NEW q \in 0 .. QuantumSize - 1, NEW text \in Seq(Bytes),
         q + Len(text) <= QuantumSize
  PROVE  Differs(quantum, Patched(quantum, q, text), q, text)
<1>1. PICK k \in Nat : k = Len(text) /\ text \in [1 .. k -> Bytes]
  BY LenProperties
<1>2. DOMAIN quantum = 0 .. QuantumSize - 1
  BY DEF Quanta
<1>3. (0 .. QuantumSize - 1) \union (q .. q + k - 1) = 0 .. QuantumSize - 1
  BY <1>1
<1>4. Patched(quantum, q, text) =
        [x \in 0 .. QuantumSize - 1 |->
           IF x \in q .. q + k - 1 THEN text[x - q + 1] ELSE quantum[x]]
  BY <1>1, <1>2, <1>3 DEF Patched
<1>5. \A x \in 0 .. QuantumSize - 1 : x \in q .. q + k - 1 <=> x - q + 1 \in 1 .. k
  BY <1>1
<1>6. ASSUME NEW x \in 0 .. QuantumSize - 1
      PROVE  (IF x \in q .. q + k - 1 THEN text[x - q + 1] ELSE quantum[x]) \in Bytes \union {JUNK}
  <2>1. quantum[x] \in Bytes \union {JUNK}
    BY DEF Quanta
  <2>2. x - q + 1 \in 1 .. k => text[x - q + 1] \in Bytes
    BY <1>1
  <2> QED BY <1>5, <2>1, <2>2
<1>7. Patched(quantum, q, text) \in Quanta
  BY <1>4, <1>6 DEF Quanta
<1> QED BY <1>1, <1>4, <1>5, <1>7 DEF Differs

\* The byte at a position of a node, whether its array is there or not.
LEMMA ByteIn ==
  ASSUME NEW list \in Seq(Nodes), NEW x \in Nat, Item(x) < Len(list),
         NEW array, array = Array(list[Item(x) + 1])
  PROVE  /\ array \in Arrays
         /\ ByteAt(list, x) = Quantum(array, SPos(x))[QPos(x)]
<1>1. PICK node \in Nodes : node = list[Item(x) + 1]
  BY NodeOf
<1>2. array \in Arrays /\ SPos(x) \in 0 .. QsetSize - 1 /\ QPos(x) \in 0 .. QuantumSize - 1
  BY <1>1, ArrayOf, Decompose
<1>3. CASE node = NULL
  <2>1. array[SPos(x)] = NULL
    BY <1>1, <1>2, <1>3, ArrayOf
  <2>2. Quantum(array, SPos(x))[QPos(x)] = JUNK
    BY <1>2, <2>1, QuantumOf
  <2>3. ~Backed(list, x)
    BY <1>1, <1>3 DEF Backed
  <2> QED BY <1>2, <2>2, <2>3 DEF ByteAt
<1>4. CASE node # NULL /\ array[SPos(x)] = NULL
  <2>1. array = node
    BY <1>1, <1>4, ArrayOf
  <2>2. ~Backed(list, x)
    BY <1>1, <1>4, <2>1 DEF Backed
  <2>3. Quantum(array, SPos(x))[QPos(x)] = JUNK
    BY <1>2, <1>4, QuantumOf
  <2> QED BY <1>2, <2>2, <2>3 DEF ByteAt
<1>5. CASE node # NULL /\ array[SPos(x)] # NULL
  <2>1. array = node
    BY <1>1, <1>5, ArrayOf
  <2>2. Backed(list, x)
    BY <1>1, <1>5, <2>1 DEF Backed
  <2>3. Quantum(array, SPos(x)) = array[SPos(x)]
    BY <1>2, <1>5, QuantumOf
  <2> QED BY <1>1, <1>2, <2>1, <2>2, <2>3 DEF ByteAt
<1> QED BY <1>3, <1>4, <1>5

\* The array of the node of position p after text was copied there.
Copied(list, p, text) ==
  [Array(list[Item(p) + 1]) EXCEPT ![SPos(p)] =
     Patched(Quantum(Array(list[Item(p) + 1]), SPos(p)), QPos(p), text)]

\* The bytes after text was copied to position p.
Changed(list, other, p, text) ==
  \A x \in Nat :
    ByteAt(other, x) = IF x - p + 1 \in 1 .. Len(text) THEN text[x - p + 1] ELSE ByteAt(list, x)

\* A copy that fits into its quantum changes the bytes it is for and no other.
LEMMA CopiedBytes ==
  ASSUME NEW list \in Seq(Nodes), NEW p \in Nat, Item(p) < Len(list),
         NEW text \in Seq(Bytes), QPos(p) + Len(text) <= QuantumSize,
         NEW other, other = [list EXCEPT ![Item(p) + 1] = Copied(list, p, text)]
  PROVE  /\ other \in Seq(Nodes) /\ Len(other) = Len(list)
         /\ Changed(list, other, p, text)
<1>1. PICK d \in Nat, s \in 0 .. QsetSize - 1, q \in 0 .. QuantumSize - 1, k \in Nat :
        d = Item(p) /\ s = SPos(p) /\ q = QPos(p) /\ k = Len(text)
  BY Decompose, LenProperties
<1>2. PICK array \in Arrays : array = Array(list[d + 1])
  BY <1>1, ByteIn
<1>3. PICK quantum : quantum = Patched(Quantum(array, s), q, text)
  OBVIOUS
<1>4. /\ quantum \in Quanta
      /\ \A y \in 0 .. QuantumSize - 1 :
           quantum[y] =
             IF y - q + 1 \in 1 .. Len(text) THEN text[y - q + 1] ELSE Quantum(array, s)[y]
  <2>1. Quantum(array, s) \in Quanta
    BY <1>1, <1>2, QuantumOf
  <2>2. q + Len(text) <= QuantumSize
    BY <1>1
  <2>3. Differs(Quantum(array, s), quantum, q, text)
    BY <1>1, <1>3, <2>1, <2>2, PatchedQuantum
  <2> QED BY <2>3, Zenon DEF Differs
<1>5. PICK copied : copied = Copied(list, p, text)
  OBVIOUS
<1>6. copied = [array EXCEPT ![s] = quantum]
  BY <1>1, <1>2, <1>3, <1>5, Zenon DEF Copied
<1>7. /\ copied \in Arrays /\ copied[s] = quantum
      /\ \A t \in 0 .. QsetSize - 1 : t # s => copied[t] = array[t]
  BY <1>1, <1>2, <1>4, <1>6 DEF Arrays
<1>8. Placed(list, other, d, copied)
  <2>1. other = [list EXCEPT ![d + 1] = copied]
    BY <1>1, <1>5
  <2>2. d < Len(list)
    BY <1>1
  <2>3. Placed(list, [list EXCEPT ![d + 1] = copied], d, copied)
    BY <1>1, <1>7, <2>2, Replaced
  <2> QED BY <2>1, <2>3, Zenon
<1>9. other \in Seq(Nodes) /\ Len(other) = Len(list)
  BY <1>8 DEF Placed
<1>10. ASSUME NEW x \in Nat, x - p + 1 \in 1 .. k
      PROVE  Item(x) = d /\ SPos(x) = s
  <2>0. x - p \in Nat /\ x = p + (x - p) /\ x - p < k /\ q + k <= QuantumSize
    BY <1>1, <1>10
  <2>1. PICK j \in Nat : j = x - p
    BY <2>0
  <2>2. x = p + j /\ QPos(p) + j < QuantumSize
    BY <1>1, <2>0, <2>1
  <2>3. Item(p + j) = Item(p) /\ SPos(p + j) = SPos(p)
    BY <2>2, InQuantum
  <2> QED BY <1>1, <2>2, <2>3
<1>11. ASSUME NEW x \in Nat
       PROVE  ByteAt(other, x) = IF x - p + 1 \in 1 .. k THEN text[x - p + 1] ELSE ByteAt(list, x)
  <2>0. /\ SPos(x) \in 0 .. QsetSize - 1 /\ QPos(x) \in 0 .. QuantumSize - 1
        /\ ByteAt(other, x) =
             IF Item(x) # d THEN ByteAt(list, x)
             ELSE IF copied[SPos(x)] # NULL THEN copied[SPos(x)][QPos(x)] ELSE JUNK
    <3>1. d < Len(list)
      BY <1>1
    <3>2. ByteAt(other, x) =
            IF Item(x) # d THEN ByteAt(list, x)
            ELSE IF copied[SPos(x)] # NULL THEN copied[SPos(x)][QPos(x)] ELSE JUNK
      BY <1>1, <1>7, <1>8, <3>1, PlacedBytes
    <3> QED BY <3>2, Decompose
  <2>1. CASE Item(x) # d
    BY <1>10, <2>0, <2>1
  <2>2. CASE Item(x) = d /\ SPos(x) # s
    <3>1. copied[SPos(x)] = array[SPos(x)]
      BY <1>7, <2>0, <2>2
    <3>2. ByteAt(list, x) = Quantum(array, SPos(x))[QPos(x)]
      BY <1>1, <1>2, <2>2, ByteIn
    <3>3. Quantum(array, SPos(x))[QPos(x)] =
            IF array[SPos(x)] # NULL THEN array[SPos(x)][QPos(x)] ELSE JUNK
      BY <1>2, <2>0, QuantumOf
    <3> QED BY <1>10, <2>0, <2>2, <3>1, <3>2, <3>3
  <2>3. CASE Item(x) = d /\ SPos(x) = s
    <3>1. copied[SPos(x)] # NULL
      BY <1>4, <1>7, <2>3, ValueAssumption
    <3>2. ByteAt(other, x) = quantum[QPos(x)]
      BY <1>7, <2>0, <2>3, <3>1
    <3>3. ByteAt(list, x) = Quantum(array, s)[QPos(x)]
      BY <1>1, <1>2, <2>3, ByteIn
    <3>4. x - p = QPos(x) - q
      BY <1>1, <2>3, OneQuantum
    <3>5. QPos(x) - q + 1 = x - p + 1
      BY <1>1, <2>0, <3>4
    <3>6. quantum[QPos(x)] =
            IF QPos(x) - q + 1 \in 1 .. Len(text) THEN text[QPos(x) - q + 1]
            ELSE Quantum(array, s)[QPos(x)]
      BY <1>4, <2>0
    <3> QED BY <1>1, <3>2, <3>3, <3>5, <3>6, Zenon
  <2> QED BY <2>1, <2>2, <2>3
<1> QED BY <1>1, <1>9, <1>11 DEF Changed

-----------------------------------------------------------------------------
(***************************************************************************)
(* What the calls do to the bytes.                                         *)
(***************************************************************************)
\* A list of nodes that is no longer than the positions below Capacity need.
Fits(list) == list \in Seq(Nodes) /\ Len(list) * ItemSize < Capacity + ItemSize

\* mev_follow() to a position below Capacity keeps size and bytes.
LEMMA ExtendedFits ==
  ASSUME Fits(nodes), NEW p \in 0 .. Capacity - 1, NEW n \in 0 .. Item(p) + 1
  PROVE  /\ Fits(Extended(n)) /\ Same(nodes, Extended(n))
         /\ n = Item(p) + 1 => Item(p) < Len(Extended(n))
<1>1. p \in Nat /\ Item(p) \in Nat /\ n \in Nat /\ Len(nodes) \in Nat /\ nodes \in Seq(Nodes)
  <2>1. p \in Nat
    OBVIOUS
  <2>2. Item(p) \in Nat
    BY <2>1, Decompose
  <2> QED BY <2>1, <2>2, LenProperties DEF Fits
<1>2. Extended(n) \in Seq(Nodes) /\ Len(Extended(n)) = IF n <= Len(nodes) THEN Len(nodes) ELSE n
  BY <1>1, ExtendedNodes
<1>3. Len(Extended(n)) = Len(nodes) \/ Len(Extended(n)) = n
  BY <1>2
<1>4. Len(Extended(n)) * ItemSize < Capacity + ItemSize
  <2>1. n * ItemSize < Capacity + ItemSize
    BY LastNode
  <2> QED BY <1>3, <2>1, Zenon DEF Fits
<1>5. Same(nodes, Extended(n))
  BY <1>1, ExtendedBytes DEF Same
<1>6. n = Item(p) + 1 => Item(p) < Len(Extended(n))
  BY <1>1, <1>2
<1> QED BY <1>2, <1>4, <1>5, <1>6 DEF Fits

\* A call without memory leaves every byte as it is.
LEMMA NoMemoryBytes ==
  ASSUME Fits(nodes), NEW p \in 0 .. Capacity - 1, NEW text, NoMemory(p, text)
  PROVE  Fits(nodes') /\ Same(nodes, nodes')
<1> DEFINE list == Extended(Item(p) + 1)
<1>1. p \in Nat /\ Item(p) \in Nat /\ Len(nodes) \in Nat
  <2>1. p \in Nat
    OBVIOUS
  <2> QED BY <2>1, Decompose, LenProperties DEF Fits
<1>2. Fits(list) /\ Same(nodes, list) /\ Item(p) < Len(list)
  <2>1. Item(p) + 1 \in 0 .. Item(p) + 1
    BY <1>1
  <2> QED BY <2>1, ExtendedFits
<1>3. \/ \E m \in Len(nodes) .. Item(p) : nodes' = Extended(m)
      \/ nodes' = list
      \/ nodes' = [list EXCEPT ![Item(p) + 1] = Array(@)]
  BY Zenon DEF NoMemory
<1>4. ASSUME NEW m \in Len(nodes) .. Item(p), nodes' = Extended(m)
      PROVE  Fits(nodes') /\ Same(nodes, nodes')
  <2>1. m \in 0 .. Item(p) + 1
    BY <1>1
  <2>2. Fits(Extended(m)) /\ Same(nodes, Extended(m))
    BY <2>1, ExtendedFits
  <2> QED BY <1>4, <2>2, Zenon
<1> HIDE DEF list
<1>5. CASE nodes' = [list EXCEPT ![Item(p) + 1] = Array(@)]
  <2>1. list \in Seq(Nodes) /\ Item(p) \in Nat
    BY <1>1, <1>2 DEF Fits
  <2>2. nodes' \in Seq(Nodes) /\ Len(nodes') = Len(list) /\ Same(list, nodes')
    BY <1>2, <1>5, <2>1, ArrayBytes
  <2> QED BY <1>2, <2>2, Zenon DEF Fits, Same
<1> QED BY <1>2, <1>3, <1>4, <1>5, Zenon

\* What mev_write() has copied, all of it or some.
LEMMA StoredBytes ==
  ASSUME Fits(nodes), NEW p \in 0 .. Capacity - 1, NEW copied \in Seq(Bytes),
         QPos(p) + Len(copied) <= QuantumSize,
         nodes' = [Extended(Item(p) + 1) EXCEPT
                     ![Item(p) + 1] = Copied(Extended(Item(p) + 1), p, copied)]
  PROVE  Fits(nodes') /\ Changed(nodes, nodes', p, copied)
<1> DEFINE list == Extended(Item(p) + 1)
<1>1. p \in Nat /\ Item(p) \in Nat
  <2>1. p \in Nat
    OBVIOUS
  <2> QED BY <2>1, Decompose
<1>2. Fits(list) /\ Same(nodes, list) /\ Item(p) < Len(list)
  <2>1. Item(p) + 1 \in 0 .. Item(p) + 1
    BY <1>1
  <2> QED BY <2>1, ExtendedFits
<1>3. nodes' = [list EXCEPT ![Item(p) + 1] = Copied(list, p, copied)]
  OBVIOUS
<1> HIDE DEF list
<1>4. list \in Seq(Nodes)
  BY <1>2 DEF Fits
<1>5. /\ nodes' \in Seq(Nodes) /\ Len(nodes') = Len(list)
      /\ Changed(list, nodes', p, copied)
  BY <1>1, <1>2, <1>3, <1>4, CopiedBytes
<1>6. Fits(nodes')
  BY <1>2, <1>5, Zenon DEF Fits
<1>7. Changed(nodes, nodes', p, copied)
  BY <1>2, <1>5, Zenon DEF Same, Changed
<1> QED BY <1>6, <1>7

\* What is transferred ends with its quantum, and is nothing only if nothing
\* was asked for.
LEMMA WithinQuantum ==
  ASSUME NEW p \in 0 .. Capacity - 1, NEW n \in Nat, NEW k, k = Within(p, n)
  PROVE  /\ k \in 0 .. n /\ QPos(p) + k <= QuantumSize /\ p + k <= Capacity
         /\ n > 0 => k > 0
<1>1. p \in Nat
  OBVIOUS
<1>2. PICK q \in 0 .. QuantumSize - 1 : q = QPos(p) /\ p + (QuantumSize - q) <= Capacity
  BY <1>1, Decompose, LastQuantum
<1>3. k = IF n < QuantumSize - q THEN n ELSE QuantumSize - q
  BY <1>2 DEF Within, Least
<1> QED BY <1>1, <1>2, <1>3

\* The texts of mev_write(): a prefix of the user's, and what a failing copy
\* makes of it.
LEMMA Prefix ==
  ASSUME NEW n \in Nat, NEW text \in [1 .. n -> Bytes], NEW k \in 0 .. n
  PROVE  /\ text \in Seq(Bytes) /\ Len(text) = n
         /\ SubSeq(text, 1, k) \in Seq(Bytes) /\ Len(SubSeq(text, 1, k)) = k
         /\ SubSeq(text, 1, k) \in [1 .. k -> Bytes]
<1>1. text \in Seq(Bytes) /\ Len(text) = n
  BY SeqDef, LenProperties
<1>2. SubSeq(text, 1, k) \in Seq(Bytes) /\ Len(SubSeq(text, 1, k)) = k
  BY <1>1, SubSeqProperties
<1>3. SubSeq(text, 1, k) \in [1 .. k -> Bytes]
  BY <1>2, LenProperties
<1> QED BY <1>1, <1>2, <1>3

\* A padded text has the length of the text.
LEMMA PaddedText ==
  ASSUME NEW text \in Seq(Bytes), NEW j \in Nat
  PROVE  Padded(text, j) \in Seq(Bytes) /\ Len(Padded(text, j)) = Len(text)
<1>1. PICK k \in Nat : k = Len(text) /\ text \in [1 .. k -> Bytes]
  BY LenProperties
<1>2. Padded(text, j) \in [1 .. k -> Bytes]
  BY <1>1 DEF Padded
<1>3. Padded(text, j) \in Seq(Bytes)
  BY <1>2, SeqDef
<1> QED BY <1>1, <1>2, <1>3, LenProperties

\* mev_write() stores all that fits ...
Stored(p, n) ==
  \E k \in 0 .. n :
    /\ out' \in [1 .. k -> Bytes] /\ Len(out') = k
    /\ n > 0 => k > 0
    /\ p + k <= Capacity
    /\ size' = Grown(p + k)
    /\ Changed(nodes, nodes', p, out')

\* ... or fails, and then only bytes it was to replace may have changed.
Spoiled(p, n) ==
  /\ out' = ERROR /\ size' = size
  /\ \A x \in Nat : x - p + 1 \notin 1 .. n => ByteAt(nodes', x) = ByteAt(nodes, x)

\* Whatever becomes of mev_write(), it has stored or spoiled its range only.
LEMMA WriteBytes ==
  ASSUME Fits(nodes), NEW p \in 0 .. Capacity - 1, NEW n \in Nat,
         NEW text \in [1 .. n -> Bytes], WriteAt(p, text)
  PROVE  Fits(nodes') /\ (Stored(p, n) \/ Spoiled(p, n))
<1>1. CASE NoMemory(p, text)
  <2>1. Fits(nodes') /\ Same(nodes, nodes')
    BY <1>1, NoMemoryBytes
  <2>2. out' = ERROR /\ size' = size
    BY <1>1 DEF NoMemory
  <2> QED BY <2>1, <2>2, Zenon DEF Spoiled, Same
<1>2. CASE Store(p, text)
  <2>1. PICK k \in 0 .. n : /\ k = Within(p, n) /\ QPos(p) + k <= QuantumSize
                            /\ p + k <= Capacity
                            /\ n > 0 => k > 0
    BY WithinQuantum
  <2>2. PICK fits : fits = SubSeq(text, 1, k)
    OBVIOUS
  <2>3. /\ text \in Seq(Bytes) /\ Len(text) = n
        /\ fits \in Seq(Bytes) /\ fits \in [1 .. k -> Bytes] /\ Len(fits) = k
    <3>1. k \in 0 .. n
      BY <2>1
    <3> QED BY <2>2, <3>1, Prefix
  <2>4. fits = SubSeq(text, 1, Within(p, Len(text)))
    BY <2>1, <2>2, <2>3
  <2> DEFINE With(copied) ==
        [Extended(Item(p) + 1) EXCEPT
           ![Item(p) + 1] = Copied(Extended(Item(p) + 1), p, copied)]
  <2>5. \/ nodes' = With(fits) /\ size' = Grown(p + Len(fits)) /\ out' = fits
        \/ /\ \E j \in 0 .. Len(fits) - 1 : nodes' = With(Padded(fits, j))
           /\ out' = ERROR /\ size' = size
    BY <1>2, <2>4, Zenon DEF Store, Copied
  <2>6. ASSUME NEW copied \in Seq(Bytes), Len(copied) = k, nodes' = With(copied)
        PROVE  Fits(nodes') /\ Changed(nodes, nodes', p, copied)
    <3>1. QPos(p) + Len(copied) <= QuantumSize
      BY <2>1, <2>6
    <3> QED BY <2>6, <3>1, StoredBytes, Zenon
  <2> HIDE DEF With
  <2>7. CASE nodes' = With(fits) /\ size' = Grown(p + Len(fits)) /\ out' = fits
    <3>1. Fits(nodes') /\ Changed(nodes, nodes', p, out')
      BY <2>3, <2>6, <2>7, Zenon
    <3>2. size' = Grown(p + k) /\ out' \in [1 .. k -> Bytes] /\ Len(out') = k
      BY <2>3, <2>7, Zenon
    <3>3. Stored(p, n)
      BY <2>1, <3>1, <3>2 DEF Stored
    <3> QED BY <3>1, <3>3
  <2>8. ASSUME NEW j \in 0 .. Len(fits) - 1, nodes' = With(Padded(fits, j)),
               out' = ERROR, size' = size
        PROVE  Fits(nodes') /\ Spoiled(p, n)
    <3>1. j \in Nat
      BY <2>3
    <3>2. Padded(fits, j) \in Seq(Bytes) /\ Len(Padded(fits, j)) = k
      BY <2>3, <3>1, PaddedText
    <3>3. Fits(nodes') /\ Changed(nodes, nodes', p, Padded(fits, j))
      BY <2>6, <2>8, <3>2
    <3>4. ASSUME NEW x \in Nat, x - p + 1 \notin 1 .. n
          PROVE  ByteAt(nodes', x) = ByteAt(nodes, x)
      <4>1. x - p + 1 \notin 1 .. k
        BY <2>1, <3>4
      <4> QED BY <3>2, <3>3, <4>1 DEF Changed
    <3> QED BY <2>8, <3>3, <3>4 DEF Spoiled
  <2> QED BY <2>5, <2>7, <2>8
<1> QED BY <1>1, <1>2 DEF WriteAt

\* What mev_read() delivers: bytes of the list, up to the size; nothing only
\* when there is nothing.
Delivered(p, n) ==
  \E k \in 0 .. n :
    /\ out' \in [1 .. k -> Bytes \union {JUNK}] /\ Len(out') = k
    /\ k > 0 => p + k <= size
    /\ \A i \in 1 .. k : out'[i] = ByteAt(nodes, p + i - 1)
    /\ n > 0 /\ p < size /\ ByteAt(nodes, p) # JUNK => k > 0

\* An empty result, at the end or in a hole, is a delivery.
LEMMA Nothing ==
  ASSUME NEW p \in Nat, NEW n \in Nat, out' = <<>>, p >= size \/ ByteAt(nodes, p) = JUNK,
         size \in Nat
  PROVE  Delivered(p, n)
<1>1. out' \in [1 .. 0 -> Bytes \union {JUNK}] /\ Len(out') = 0
  OBVIOUS
<1>2. /\ 0 \in 0 .. n /\ ~(0 > 0)
      /\ \A i \in 1 .. 0 : out'[i] = ByteAt(nodes, p + i - 1)
      /\ ~(p < size) \/ ByteAt(nodes, p) = JUNK
  OBVIOUS
<1> QED BY <1>1, <1>2 DEF Delivered

\* Whatever becomes of mev_read(), it has delivered or failed.
LEMMA ReadBytes ==
  ASSUME IInv, Fits(nodes), NEW p \in Nat, NEW n \in Nat, ReadAt(p, n)
  PROVE  nodes' = nodes /\ (out' = ERROR \/ Delivered(p, n))
<1>1. nodes' = nodes
  BY ReadKeeps
<1>2. Item(p) \in Nat /\ size \in Nat /\ Len(nodes) \in Nat /\ nodes \in Seq(Nodes)
  BY Decompose DEF IInv, SizeInv, ListInv, Fits
<1>3. CASE p >= size
  <2>1. out' = <<>>
    BY <1>2, <1>3 DEF ReadAt
  <2> QED BY <1>1, <1>2, <1>3, <2>1, Nothing
<1>4. CASE p < size
  <2>1. Item(p) < Len(nodes)
    BY <1>2, <1>4 DEF IInv, SizeInv
  <2>2. Extended(Item(p) + 1) = nodes
    <3>1. Item(p) + 1 \in Nat /\ Item(p) + 1 <= Len(nodes)
      BY <1>2, <2>1
    <3> QED BY <3>1, ExtendedList DEF IInv
  <2>3. PICK m \in Nat : m = Readable(p, n) /\ m <= n /\ m <= size - p /\ (n > 0 => m > 0)
    <3>1. Readable(p, n) = IF n < size - p THEN n ELSE size - p
      BY DEF Readable, Least
    <3>2. PICK m : m = Readable(p, n)
      OBVIOUS
    <3>3. m \in Nat /\ m <= n /\ m <= size - p /\ (n > 0 => m > 0)
      BY <1>2, <1>4, <3>1, <3>2
    <3> QED BY <3>2, <3>3
  <2>4. PICK k \in 0 .. m : k = Within(p, m) /\ (m > 0 => k > 0)
    <3>1. PICK q \in 0 .. QuantumSize - 1 : q = QPos(p)
      BY Decompose
    <3> QED BY <3>1 DEF Within, Least
  <2>5. \/ ~Backed(nodes, p) /\ out' = <<>>
        \/ out' = [i \in 1 .. k |-> ByteAt(nodes, p + i - 1)]
        \/ out' = ERROR
    <3>1. ~(p >= size) /\ ~(Item(p) >= Len(nodes))
      BY <1>2, <1>4, <2>1
    <3> QED BY <2>2, <2>3, <2>4, <3>1, Zenon DEF ReadAt
  <2>6. CASE ~Backed(nodes, p) /\ out' = <<>>
    <3>1. ByteAt(nodes, p) = JUNK
      BY <2>6 DEF ByteAt
    <3> QED BY <1>1, <1>2, <2>6, <3>1, Nothing
  <2>7. CASE out' = [i \in 1 .. k |-> ByteAt(nodes, p + i - 1)]
    <3>1. \A i \in 1 .. k : p + i - 1 \in Nat
      OBVIOUS
    <3>2. \A i \in 1 .. k : ByteAt(nodes, p + i - 1) \in Bytes \union {JUNK}
      BY <1>2, <3>1, ByteType
    <3>3. out' \in [1 .. k -> Bytes \union {JUNK}]
      BY <2>7, <3>2
    <3>4. Len(out') = k
      <4>1. out' = [i \in 1 .. k |-> out'[i]]
        BY <2>7
      <4> QED BY <4>1, LengthOf
    <3>5. \A i \in 1 .. k : out'[i] = ByteAt(nodes, p + i - 1)
      BY <2>7
    <3>6. k \in 0 .. n /\ (k > 0 => p + k <= size) /\ (n > 0 => k > 0)
      BY <1>2, <2>3, <2>4
    <3>7. Delivered(p, n)
      BY <3>3, <3>4, <3>5, <3>6, Zenon DEF Delivered
    <3> QED BY <1>1, <3>7
  <2> QED BY <1>1, <2>5, <2>6, <2>7
<1> QED BY <1>2, <1>3, <1>4

-----------------------------------------------------------------------------
(***************************************************************************)
(* The types, and the flat device.                                         *)
(***************************************************************************)
\* TypeOK in these terms.
LEMMA TypeIs ==
  TypeOK <=> /\ Fits(nodes) /\ size \in 0 .. Capacity
             /\ f_pos \in [Files -> 0 .. Capacity]
             /\ out = ERROR \/ out \in Seq(Bytes \union {JUNK})
BY Zenon DEF TypeOK, Fits, Nodes

\* What the steps keep besides the list: a call that is at a position leaves
\* the position it comes to below the capacity.
Ends(p) ==
  \/ out' = ERROR
  \/ /\ out' \in Seq(Bytes \union {JUNK})
     /\ Len(out') \in Nat /\ p + Len(out') <= Capacity

\* A read ends below the capacity.
LEMMA DeliveredEnds ==
  ASSUME NEW p \in 0 .. Capacity, NEW n \in Nat, size \in 0 .. Capacity, Delivered(p, n)
  PROVE  Ends(p)
<1>1. PICK k \in 0 .. n : /\ out' \in [1 .. k -> Bytes \union {JUNK}] /\ Len(out') = k
                          /\ k > 0 => p + k <= size
  BY DEF Delivered
<1>2. out' \in Seq(Bytes \union {JUNK})
  BY <1>1, SeqDef
<1>3. k \in Nat /\ p + k <= Capacity
  BY <1>1
<1> QED BY <1>1, <1>2, <1>3 DEF Ends

\* A write ends below the capacity, and so does the size.
LEMMA StoredEnds ==
  ASSUME NEW p \in 0 .. Capacity - 1, NEW n \in Nat, size \in 0 .. Capacity, Stored(p, n)
  PROVE  Ends(p) /\ size' \in 0 .. Capacity
<1>1. PICK k \in 0 .. n : /\ out' \in [1 .. k -> Bytes] /\ Len(out') = k
                          /\ p + k <= Capacity /\ size' = Grown(p + k)
  BY DEF Stored
<1>2. out' \in Seq(Bytes \union {JUNK})
  <2>1. out' \in [1 .. k -> Bytes \union {JUNK}]
    BY <1>1
  <2> QED BY <2>1, SeqDef
<1>3. k \in Nat /\ size' \in 0 .. Capacity
  BY <1>1 DEF Grown
<1> QED BY <1>1, <1>2, <1>3 DEF Ends

\* The file comes to the end of what was transferred.
LEMMA MovesType ==
  ASSUME f_pos \in [Files -> 0 .. Capacity], NEW f \in Files, Moves(f), Ends(f_pos[f])
  PROVE  f_pos' \in [Files -> 0 .. Capacity]
<1>1. f_pos[f] \in 0 .. Capacity
  OBVIOUS
<1>2. (IF out' = ERROR THEN f_pos[f] ELSE f_pos[f] + Len(out')) \in 0 .. Capacity
  BY <1>1 DEF Ends
<1> QED BY <1>2 DEF Moves

\* The calls of the list are calls of the flat device.
LEMMA FlatRead ==
  ASSUME size \in 0 .. Capacity, NEW p \in 0 .. Capacity, NEW n \in Nat,
         nodes' = nodes, size' = size, out' = ERROR \/ Delivered(p, n)
  PROVE  Flat!Read(p, n)
<1> DEFINE bytes == [x \in 0 .. Capacity - 1 |-> ByteAt(nodes, x)]
<1>1. CASE out' = ERROR
  BY <1>1 DEF Flat!Read, Flat!Fails
<1>2. CASE Delivered(p, n)
  <2>1. PICK k \in 0 .. n :
          /\ out' \in [1 .. k -> Bytes \union {JUNK}] /\ Len(out') = k
          /\ k > 0 => p + k <= size
          /\ \A i \in 1 .. k : out'[i] = ByteAt(nodes, p + i - 1)
          /\ n > 0 /\ p < size /\ ByteAt(nodes, p) # JUNK => k > 0
    BY <1>2 DEF Delivered
  <2>2. DOMAIN out' = 1 .. k
    BY <2>1
  <2>3. out' # <<>> <=> k > 0
    <3>1. CASE k > 0
      <4>1. 1 \in DOMAIN out' /\ 1 \notin DOMAIN <<>>
        BY <2>2, <3>1
      <4> QED BY <3>1, <4>1
    <3>2. CASE k = 0
      <4>1. out' \in [1 .. 0 -> Bytes \union {JUNK}]
        BY <2>1, <3>2
      <4> QED BY <3>2, <4>1
    <3> QED BY <2>1, <3>1, <3>2
  <2>4. out' \in Flat!Texts(n)
    BY <2>1 DEF Flat!Texts
  <2>5. \A i \in DOMAIN out' : bytes[p + i - 1] = out'[i]
    <3>1. ASSUME NEW i \in 1 .. k PROVE bytes[p + i - 1] = out'[i]
      <4>1. p + i - 1 \in 0 .. Capacity - 1
        BY <2>1, <3>1
      <4>2. bytes[p + i - 1] = ByteAt(nodes, p + i - 1)
        BY <4>1
      <4> QED BY <2>1, <4>2
    <3> QED BY <2>2, <3>1
  <2>6. n > 0 /\ p < size /\ bytes[p] # JUNK => out' # <<>>
    <3>1. p < size => bytes[p] = ByteAt(nodes, p)
      OBVIOUS
    <3> QED BY <2>1, <2>3, <3>1
  <2>7. out' # <<>> => p + Len(out') <= size
    BY <2>1, <2>3
  <2> QED BY <2>4, <2>5, <2>6, <2>7 DEF Flat!Read
<1> QED BY <1>1, <1>2

\* The same of writes, those that fail half-way included.
LEMMA FlatWrite ==
  ASSUME size \in 0 .. Capacity, Fits(nodes'), NEW p \in 0 .. Capacity - 1, NEW n \in Nat,
         Stored(p, n) \/ Spoiled(p, n)
  PROVE  Flat!Write(p, n)
<1>1. CASE Stored(p, n)
  <2>1. PICK k \in 0 .. n :
          /\ out' \in [1 .. k -> Bytes] /\ Len(out') = k
          /\ n > 0 => k > 0
          /\ size' = Grown(p + k)
          /\ Changed(nodes, nodes', p, out')
    BY <1>1 DEF Stored
  <2>2. DOMAIN out' = 1 .. k
    BY <2>1
  <2>3. n > 0 => out' # <<>>
    <3>1. SUFFICES ASSUME n > 0 PROVE out' # <<>>
      OBVIOUS
    <3>2. 1 \in DOMAIN out' /\ 1 \notin DOMAIN <<>>
      BY <2>1, <2>2, <3>1
    <3> QED BY <3>2
  <2>4. out' \in Flat!Texts(n)
    <3>1. out' \in [1 .. k -> Bytes \union {JUNK}]
      BY <2>1
    <3> QED BY <2>1, <3>1 DEF Flat!Texts
  <2>5. \A i \in DOMAIN out' : out'[i] \in Bytes
    BY <2>1
  <2>6. size' = IF size < p + Len(out') THEN p + Len(out') ELSE size
    BY <2>1 DEF Grown
  <2>7. ASSUME NEW x \in 0 .. Capacity - 1
        PROVE  ByteAt(nodes', x) =
                 IF x - p + 1 \in DOMAIN out' THEN out'[x - p + 1] ELSE ByteAt(nodes, x)
    <3>1. x \in Nat
      OBVIOUS
    <3> QED BY <2>1, <2>2, <3>1 DEF Changed
  <2>8. [x \in 0 .. Capacity - 1 |-> ByteAt(nodes', x)] =
          [x \in 0 .. Capacity - 1 |->
             IF x - p + 1 \in DOMAIN out' THEN out'[x - p + 1]
             ELSE [y \in 0 .. Capacity - 1 |-> ByteAt(nodes, y)][x]]
    BY <2>7
  <2> QED BY <2>3, <2>4, <2>5, <2>6, <2>8 DEF Flat!Write, Flat!Positions
<1>2. CASE Spoiled(p, n)
  <2>1. ASSUME NEW x \in 0 .. Capacity - 1 PROVE ByteAt(nodes', x) \in Bytes \union {JUNK}
    <3>1. x \in Nat /\ nodes' \in Seq(Nodes)
      BY DEF Fits
    <3> QED BY <3>1, ByteType
  <2>2. ASSUME NEW x \in (0 .. Capacity - 1) \ (p .. p + n - 1)
        PROVE  ByteAt(nodes', x) = ByteAt(nodes, x)
    <3>1. x \in Nat /\ x - p + 1 \notin 1 .. n
      BY <2>2
    <3> QED BY <1>2, <3>1 DEF Spoiled
  <2>3. [x \in 0 .. Capacity - 1 |-> ByteAt(nodes', x)] \in
          [0 .. Capacity - 1 -> Bytes \union {JUNK}]
    BY <2>1
  <2>4. \A x \in (0 .. Capacity - 1) \ (p .. p + n - 1) :
          [y \in 0 .. Capacity - 1 |-> ByteAt(nodes', y)][x] =
          [y \in 0 .. Capacity - 1 |-> ByteAt(nodes, y)][x]
    BY <2>2
  <2>5. out' = ERROR /\ size' = size
    BY <1>2 DEF Spoiled
  <2> QED BY <2>3, <2>4, <2>5 DEF Flat!Write, Flat!Fails, Flat!Positions
<1> QED BY <1>1, <1>2

\* read() and write() are at the position of their file ...
LEMMA FlatAtFile ==
  ASSUME NEW f \in Files, Moves(f) PROVE Flat!At(f_pos[f])
BY DEF Moves, Flat!At, Flat!Fails

\* ... pread() and pwrite() where they like.
LEMMA FlatAtStart ==
  ASSUME NEW p \in Starts, UNCHANGED f_pos PROVE Flat!At(p)
BY DEF Flat!At

\* Such a call is a step of the flat device.
LEMMA FlatStep ==
  ASSUME NEW p \in 0 .. Capacity, NEW n \in Counts, Flat!At(p),
         Flat!Read(p, n) \/ Flat!Write(p, n)
  PROVE  Flat!Next
BY DEF Flat!Next

\* Every read is a step of the flat device.
LEMMA ReadsFlat ==
  ASSUME IInv, TypeOK, Reads
  PROVE  TypeOK' /\ Flat!Next
<1>1. /\ Fits(nodes) /\ size \in 0 .. Capacity
      /\ f_pos \in [Files -> 0 .. Capacity]
  BY TypeIs
<1>2. PICK n \in Counts : \/ \E f \in Files : MevRead(f, n)
                          \/ \E p \in Starts : Pread(p, n)
  BY DEF Reads
<1>3. n \in Nat /\ n \in Counts
  OBVIOUS
<1>4. ASSUME NEW p \in 0 .. Capacity, ReadAt(p, n), size' = size, Flat!At(p),
             Ends(p) => f_pos' \in [Files -> 0 .. Capacity]
      PROVE  TypeOK' /\ Flat!Next
  <2>1. p \in Nat
    OBVIOUS
  <2>2. nodes' = nodes /\ (out' = ERROR \/ Delivered(p, n))
    BY <1>1, <1>3, <1>4, <2>1, ReadBytes
  <2>3. Ends(p)
    BY <1>1, <1>3, <2>2, DeliveredEnds DEF Ends
  <2>4. Flat!Read(p, n)
    BY <1>1, <1>3, <1>4, <2>2, FlatRead
  <2>5. Flat!Next
    BY <1>3, <1>4, <2>4, FlatStep
  <2>6. out' = ERROR \/ out' \in Seq(Bytes \union {JUNK})
    BY <2>3 DEF Ends
  <2>7. nodes' = nodes /\ size' = size /\ f_pos' \in [Files -> 0 .. Capacity]
    BY <1>4, <2>2, <2>3
  <2>8. TypeOK'
    BY <1>1, <2>6, <2>7, Zenon DEF TypeOK, Fits, Nodes
  <2> QED BY <2>5, <2>8
<1>5. ASSUME NEW f \in Files, MevRead(f, n) PROVE TypeOK' /\ Flat!Next
  <2>1. f_pos[f] \in 0 .. Capacity
    BY <1>1
  <2>2. ReadAt(f_pos[f], n) /\ Moves(f) /\ size' = size
    BY <1>5 DEF MevRead
  <2>3. Flat!At(f_pos[f])
    BY <2>2, FlatAtFile
  <2>4. Ends(f_pos[f]) => f_pos' \in [Files -> 0 .. Capacity]
    BY <1>1, <2>2, MovesType
  <2> QED BY <1>4, <2>1, <2>2, <2>3, <2>4
<1>6. ASSUME NEW p \in Starts, Pread(p, n) PROVE TypeOK' /\ Flat!Next
  <2>1. p \in 0 .. Capacity
    OBVIOUS
  <2>2. ReadAt(p, n) /\ size' = size /\ f_pos' = f_pos
    BY <1>6 DEF Pread
  <2>3. Flat!At(p)
    BY <2>2, FlatAtStart
  <2> QED BY <1>1, <1>4, <2>1, <2>2, <2>3
<1> QED BY <1>2, <1>5, <1>6

\* Every write is a step of the flat device.
LEMMA WritesFlat ==
  ASSUME TypeOK, Writes
  PROVE  TypeOK' /\ Flat!Next
<1>1. /\ Fits(nodes) /\ size \in 0 .. Capacity
      /\ f_pos \in [Files -> 0 .. Capacity]
  BY TypeIs
<1>2. PICK n \in Counts :
        \E text \in [1 .. n -> Bytes] : \/ \E f \in Files : MevWrite(f, text)
                                      \/ \E p \in Starts : Pwrite(p, text)
  BY DEF Writes
<1>3. PICK text \in [1 .. n -> Bytes] : \/ \E f \in Files : MevWrite(f, text)
                                       \/ \E p \in Starts : Pwrite(p, text)
  BY <1>2
<1>4. n \in Nat /\ n \in Counts
  OBVIOUS
<1>5. ASSUME NEW p \in 0 .. Capacity - 1, WriteAt(p, text), Flat!At(p),
             Ends(p) => f_pos' \in [Files -> 0 .. Capacity]
      PROVE  TypeOK' /\ Flat!Next
  <2>1. p \in 0 .. Capacity
    OBVIOUS
  <2>2. Fits(nodes') /\ (Stored(p, n) \/ Spoiled(p, n))
    BY <1>1, <1>3, <1>4, <1>5, WriteBytes
  <2>3. Ends(p) /\ size' \in 0 .. Capacity
    <3>1. CASE Stored(p, n)
      BY <1>1, <1>4, <3>1, StoredEnds
    <3>2. CASE Spoiled(p, n)
      BY <1>1, <3>2 DEF Spoiled, Ends
    <3> QED BY <2>2, <3>1, <3>2
  <2>4. Flat!Write(p, n)
    BY <1>1, <1>4, <2>2, FlatWrite
  <2>5. Flat!Next
    BY <1>4, <1>5, <2>1, <2>4, FlatStep
  <2>6. out' = ERROR \/ out' \in Seq(Bytes \union {JUNK})
    BY <2>3 DEF Ends
  <2>7. TypeOK'
    BY <1>5, <2>2, <2>3, <2>6, Zenon DEF TypeOK, Fits, Nodes
  <2> QED BY <2>5, <2>7
<1>6. ASSUME NEW f \in Files, MevWrite(f, text) PROVE TypeOK' /\ Flat!Next
  <2>1. f_pos[f] \in 0 .. Capacity - 1
    BY <1>1, <1>6 DEF MevWrite
  <2>2. WriteAt(f_pos[f], text) /\ Moves(f)
    BY <1>6 DEF MevWrite
  <2>3. Flat!At(f_pos[f])
    BY <2>2, FlatAtFile
  <2>4. Ends(f_pos[f]) => f_pos' \in [Files -> 0 .. Capacity]
    BY <1>1, <2>2, MovesType
  <2> QED BY <1>5, <2>1, <2>2, <2>3, <2>4
<1>7. ASSUME NEW p \in Starts, Pwrite(p, text) PROVE TypeOK' /\ Flat!Next
  <2>1. p \in 0 .. Capacity - 1
    OBVIOUS
  <2>2. WriteAt(p, text) /\ f_pos' = f_pos
    BY <1>7 DEF Pwrite
  <2>3. Flat!At(p)
    BY <2>2, FlatAtStart
  <2> QED BY <1>1, <1>5, <2>1, <2>2, <2>3
<1> QED BY <1>3, <1>6, <1>7

\* A trimmed list holds no byte.
LEMMA EmptyBytes ==
  ASSUME NEW list, list = <<>>
  PROVE  Fits(list) /\ \A x \in Nat : ByteAt(list, x) = JUNK
<1>1. list \in Seq(Nodes) /\ Len(list) = 0
  OBVIOUS
<1>2. 0 * ItemSize = 0 /\ 0 < Capacity + ItemSize
  BY Geometry
<1>3. Fits(list)
  BY <1>1, <1>2 DEF Fits
<1>4. ASSUME NEW x \in Nat PROVE ByteAt(list, x) = JUNK
  <2>1. Item(x) \in Nat
    BY Decompose
  <2>2. ~Backed(list, x)
    BY <1>1, <2>1 DEF Backed
  <2> QED BY <2>2 DEF ByteAt
<1> QED BY <1>3, <1>4

\* So is opening, with or without a trim.
LEMMA OpenFlat ==
  ASSUME TypeOK, NEW f \in Files, NEW wronly \in BOOLEAN, MevOpen(f, wronly)
  PROVE  TypeOK' /\ Flat!Next
<1>1. /\ Fits(nodes) /\ size \in 0 .. Capacity
      /\ f_pos \in [Files -> 0 .. Capacity]
  BY TypeIs
<1>2. /\ f_pos' = [f_pos EXCEPT ![f] = 0] /\ out' = <<>>
      /\ f_pos' \in [Files -> 0 .. Capacity] /\ out' \in Seq(Bytes \union {JUNK})
  BY <1>1 DEF MevOpen
<1>3. CASE wronly
  <2>1. nodes' = <<>> /\ size' = 0
    BY <1>3 DEF MevOpen, Trim
  <2>2. Fits(nodes') /\ \A x \in Nat : ByteAt(nodes', x) = JUNK
    BY <2>1, EmptyBytes
  <2>3. \A x \in 0 .. Capacity - 1 : ByteAt(nodes', x) = JUNK
    BY <2>2
  <2>4. [x \in 0 .. Capacity - 1 |-> ByteAt(nodes', x)] = [x \in 0 .. Capacity - 1 |-> JUNK]
    BY <2>3
  <2>5. Flat!Open(f, wronly)
    BY <1>2, <1>3, <2>1, <2>4 DEF Flat!Open, Flat!Positions
  <2>6. size' \in 0 .. Capacity
    BY <2>1
  <2>7. TypeOK'
    BY <1>2, <2>2, <2>6, Zenon DEF TypeOK, Fits, Nodes
  <2> QED BY <2>5, <2>7 DEF Flat!Next
<1>4. CASE ~wronly
  <2>1. nodes' = nodes /\ size' = size
    BY <1>4 DEF MevOpen
  <2>2. Flat!Open(f, wronly)
    BY <1>2, <1>4, <2>1 DEF Flat!Open
  <2>3. TypeOK'
    BY <1>1, <1>2, <2>1, Zenon DEF TypeOK, Fits, Nodes
  <2> QED BY <2>2, <2>3 DEF Flat!Next
<1> QED BY <1>3, <1>4

\* The formatted container is an empty flat device.
LEMMA InitFlat ==
  ASSUME Init PROVE TypeOK /\ Flat!Init
<1>1. nodes = <<>> /\ size = 0 /\ f_pos = [f \in Files |-> 0] /\ out = <<>>
  BY DEF Init
<1>2. Fits(nodes) /\ \A x \in Nat : ByteAt(nodes, x) = JUNK
  BY <1>1, EmptyBytes
<1>3. [x \in 0 .. Capacity - 1 |-> ByteAt(nodes, x)] = [x \in 0 .. Capacity - 1 |-> JUNK]
  <2>1. \A x \in 0 .. Capacity - 1 : ByteAt(nodes, x) = JUNK
    BY <1>2
  <2> QED BY <2>1
<1>4. Flat!Init
  BY <1>1, <1>3 DEF Flat!Init, Flat!Positions
<1>5. /\ size \in 0 .. Capacity /\ f_pos \in [Files -> 0 .. Capacity]
      /\ out \in Seq(Bytes \union {JUNK})
  BY <1>1
<1> QED BY <1>2, <1>4, <1>5, TypeIs

\* Every step is one of the flat device, or leaves it alone.
LEMMA StepFlat ==
  ASSUME IInv, TypeOK, [Next]_vars
  PROVE  TypeOK' /\ [Flat!Next]_<<size, [p \in 0 .. Capacity - 1 |-> ByteAt(nodes, p)], f_pos, out>>
<1>1. CASE Next
  BY <1>1, ReadsFlat, WritesFlat, OpenFlat DEF Next
<1>2. CASE UNCHANGED vars
  BY <1>2, Zenon DEF vars, TypeOK
<1> QED BY <1>1, <1>2

\* The list, its arrays and its quanta keep the sizes they were allocated with,
\* and nobody gets behind the capacity: a copy ends with its quantum.
THEOREM TypeCorrect == Spec => []TypeOK
<1>1. Init => TypeOK
  BY InitFlat
<1>2. IInv /\ TypeOK /\ [Next]_vars => TypeOK'
  BY StepFlat
<1> QED BY <1>1, <1>2, Invariance, PTL DEF Spec

\* The list of arrays of quanta implements the flat device: what is read is
\* what was last written to that position, over every border, after any writes
\* that failed half-way.
THEOREM Refinement == Spec => IsFlatDevice
<1>1. Init => Flat!Init
  BY InitFlat
<1>2. IInv /\ TypeOK /\ [Next]_vars =>
        [Flat!Next]_<<size, [p \in 0 .. Capacity - 1 |-> ByteAt(nodes, p)], f_pos, out>>
  BY StepFlat
<1> QED BY <1>1, <1>2, Invariance, TypeCorrect, PTL DEF Spec, IsFlatDevice, Flat!Spec
=============================================================================

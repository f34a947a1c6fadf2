----------------------------- MODULE Mev_proofs -----------------------------
(***************************************************************************)
(* Proofs about Mev, for any number of tasks, any geometry, garbage        *)
(* included, any set of addresses and calls with any positions and counts. *)
(* First what writes what, the inductive invariant and what follows from   *)
(* it; then the semaphore's queue and the ranks of calls; last what calls  *)
(* copy, that nothing is lost, for which the memory has to be finite, and  *)
(* whose geometry arrays, quanta and calls have.                           *)
(***************************************************************************)
EXTENDS MevInv, SequenceTheorems, FiniteSetTheorems, WellFoundedInduction, TLAPS

USE MevAssumption

\* The slot of any position lies in the array of its node.
LEMMA SlotInRange ==
  ASSUME NEW q \in Nat \ {0}, NEW s \in Nat \ {0}, NEW pos \in Nat
  PROVE  /\ q * s \in Nat \ {0}
         /\ (pos % (q * s)) \div q \in 0 .. s - 1
         /\ (pos % (q * s)) % q \in 0 .. q - 1
         /\ pos \div (q * s) \in Nat
<1>1. q * s \in Nat \ {0}
  OBVIOUS
<1>2. PICK m \in Nat \ {0} : m = q * s
  BY <1>1
<1>3. pos % m \in 0 .. m - 1 /\ pos \div m \in Nat
  OBVIOUS
<1>4. PICK r \in 0 .. m - 1 : r = pos % m
  BY <1>3
<1>5. /\ r \div q \in Nat /\ r % q \in 0 .. q - 1
      /\ r = q * (r \div q) + (r % q)
  OBVIOUS
<1>6. PICK d \in Nat : d = r \div q
  BY <1>5
<1>7. d <= s - 1
  <2>1. SUFFICES ASSUME d >= s PROVE FALSE
    OBVIOUS
  <2>2. q * d >= q * s
    BY <2>1
  <2>3. q * d <= r
    BY <1>5, <1>6
  <2> QED BY <2>2, <2>3, <1>2
<1>8. /\ (pos % (q * s)) \div q = d
      /\ (pos % (q * s)) % q = r % q
      /\ pos \div (q * s) = pos \div m
  BY <1>2, <1>4, <1>6
<1>9. d \in 0 .. s - 1
  BY <1>7
<1> QED BY <1>1, <1>3, <1>5, <1>8, <1>9

\* The field values a container and a call may have are integers.
LEMMA Geometries ==
  /\ Quanta \subseteq Int /\ 0 \in Quanta /\ QuantumSize \in Quanta
  /\ \A q \in Quanta : q < IntMax
  /\ Qsets \subseteq Int /\ 0 \in Qsets /\ QsetSize \in Qsets
  /\ \A g \in Garbage : g.quantum \in Quanta /\ g.qset \in Qsets /\ g.size \in Nat
  /\ Counts \subseteq Nat
<1>1. \A g \in Garbage : /\ g.quantum \in Int /\ g.quantum < IntMax
                        /\ g.qset \in Int /\ g.size \in Nat
  <2>1. IntMax \in Nat /\ Garbage \subseteq [quantum : Integer, qset : Integer, size : Nat]
    BY MevAssumption
  <2> QED BY <2>1 DEF Integer
<1>2. QuantumSize \in Int /\ QsetSize \in Int /\ Counts \subseteq Nat
  BY MevAssumption
<1>3. QuantumSize < IntMax /\ 0 < IntMax
  <2>1. PICK q \in Nat \ {0}, z \in Nat \ {0} : q = QuantumSize /\ z = QsetSize
    BY MevAssumption
  <2>2. q * z < IntMax /\ IntMax \in Nat
    BY <2>1, MevAssumption
  <2>3. q <= q * z
    OBVIOUS
  <2>4. q * z \in Nat
    OBVIOUS
  <2> QED BY <2>1, <2>2, <2>3, <2>4
<1> QED BY <1>1, <1>2, <1>3 DEF Quanta, Qsets

\* An int that is not negative is what it is.
LEMMA WrapIs ==
  /\ IntMax \in Nat \ {0}
  /\ \A i \in Int : Wrap(i) \in Int /\ Wrap(i) >= -IntMax /\ Wrap(i) < IntMax
  /\ \A i \in 0 .. IntMax - 1 : Wrap(i) = i
<1>1. PICK m \in Nat \ {0} : m = IntMax
  <2>1. IntMax \in Nat /\ QuantumSize * QsetSize < IntMax
    BY MevAssumption
  <2>2. QuantumSize * QsetSize \in Nat
    BY MevAssumption
  <2> QED BY <2>1, <2>2
<1>2. PICK d \in Nat \ {0} : d = 2 * m
  OBVIOUS
<1>3. ASSUME NEW i \in Int PROVE (i + m) % d \in 0 .. d - 1
  BY <1>3
<1>4. ASSUME NEW i \in 0 .. m - 1 PROVE (i + m) % d = i + m
  BY <1>2
<1> QED BY <1>1, <1>2, <1>3, <1>4 DEF Wrap

\* Position arithmetic, once there is an item to divide by.
LEMMA PositionTypes ==
  ASSUME NEW c \in Calls, ItemSize(c) # 0
  PROVE  /\ c.quantum \in Int \ {0} /\ ItemSize(c) \in Int
         /\ Item(c) \in 0 .. 2 * IntMax - 1
         /\ SPos(c) \in Int /\ QPos(c) \in Nat
<1>1. c.pos \in Nat /\ c.quantum \in Int /\ c.qset \in Int
  BY Geometries DEF Calls
<1>2. PICK z \in Int : z = c.quantum * c.qset
  BY <1>1
<1>3. ItemSize(c) \in Int /\ c.quantum # 0
  <2>1. c.quantum # 0
    <3>1. SUFFICES ASSUME c.quantum = 0 PROVE FALSE
      OBVIOUS
    <3>2. c.quantum * c.qset = 0
      BY <1>1, <3>1
    <3> QED BY <3>2, WrapIs DEF ItemSize
  <2> QED BY <1>2, <2>1, WrapIs DEF ItemSize
<1>4. \A x \in Int \ {0} : Abs(x) \in Nat \ {0}
  BY DEF Abs
<1>5. \A a \in Nat, b \in Int \ {0} : Quot(a, b) \in Int /\ Rem(a, b) \in Nat
  BY <1>4 DEF Quot, Rem
<1>6. Rem(c.pos, ItemSize(c)) \in Nat /\ Quot(c.pos, ItemSize(c)) \in Int
  BY <1>1, <1>3, <1>5
<1>7. SPos(c) \in Int /\ QPos(c) \in Nat
  BY <1>1, <1>3, <1>5, <1>6 DEF SPos, QPos
<1>8. PICK m \in Nat \ {0} : m = 2 * IntMax
  BY WrapIs
<1>9. \A x \in Int : x % m \in 0 .. m - 1
  BY <1>8
<1>10. Item(c) \in 0 .. 2 * IntMax - 1
  BY <1>6, <1>8, <1>9 DEF Item
<1> QED BY <1>1, <1>3, <1>7, <1>10

\* Within keeps the place and what the call is, and makes it shorter at most.
LEMMA WithinCuts ==
  ASSUME NEW c \in Calls, ItemSize(c) # 0
  PROVE  /\ Within(c) \in Calls
         /\ Within(c).op = c.op /\ Within(c).pos = c.pos /\ Within(c).n = c.n
         /\ Within(c).quantum = c.quantum /\ Within(c).qset = c.qset
         /\ Within(c).count <= c.count
<1>1. c.count \in Nat /\ c.quantum - QPos(c) \in Int
  BY PositionTypes DEF Calls
<1>2. PICK left \in Int : left = Wrap(c.quantum - QPos(c))
  BY <1>1, WrapIs
<1>3. CASE left < 0
  BY <1>1, <1>2, <1>3 DEF Within
<1>4. CASE left >= 0
  <2>1. Least(c.count, left) \in Nat /\ Least(c.count, left) <= c.count
    BY <1>1, <1>4 DEF Least
  <2>2. Within(c) = [c EXCEPT !.count = Least(c.count, left)]
    BY <1>2, <1>4 DEF Within
  <2> QED BY <2>1, <2>2 DEF Calls
<1> QED BY <1>3, <1>4

\* A geometry without a negative length keeps inside what it describes, even
\* when the size of an item wraps.
LEMMA PositiveGeometry ==
  ASSUME NEW c \in Calls, ItemSize(c) # 0, c.quantum > 0, c.qset > 0, c.quantum < IntMax
  PROVE  /\ SPos(c) \in 0 .. c.qset - 1
         /\ QPos(c) \in 0 .. c.quantum - 1
         /\ QPos(Within(c)) + Within(c).count <= c.quantum
<1>1. PICK q \in Nat \ {0}, s \in Nat \ {0} : q = c.quantum /\ s = c.qset
  <2>1. c.quantum \in Int /\ c.qset \in Int
    BY Geometries DEF Calls
  <2>2. c.quantum \in Nat \ {0} /\ c.qset \in Nat \ {0}
    BY <2>1
  <2> QED BY <2>2
<1>2. c.pos \in Nat /\ c.count \in Nat
  BY DEF Calls
<1>3. PICK z \in Nat \ {0} : z = q * s
  OBVIOUS
<1>4. Abs(ItemSize(c)) \in 1 .. z
  <2>1. ItemSize(c) = Wrap(z)
    BY <1>1, <1>3 DEF ItemSize
  <2>2. Wrap(z) \in Int /\ Wrap(z) >= -IntMax /\ Wrap(z) < IntMax /\ IntMax \in Nat
    BY WrapIs
  <2>3. z < IntMax => Wrap(z) = z
    BY <2>2, WrapIs
  <2> QED BY <2>1, <2>2, <2>3 DEF Abs
<1>5. PICK i \in 1 .. z : i = Abs(ItemSize(c))
  BY <1>4
<1>6. PICK r \in 0 .. z - 1 : r = Rem(c.pos, ItemSize(c))
  <2>1. c.pos % i \in 0 .. i - 1
    BY <1>2, <1>5
  <2> QED BY <1>5, <2>1 DEF Rem
<1>7. SPos(c) = r \div q /\ QPos(c) = r % q
  BY <1>1, <1>6 DEF SPos, QPos, Quot, Rem, Abs
<1>8. r \div q \in 0 .. s - 1 /\ r % q \in 0 .. q - 1
  <2>1. r % z = r /\ r \in Nat
    BY <1>6
  <2>2. (r % (q * s)) \div q \in 0 .. s - 1 /\ (r % (q * s)) % q \in 0 .. q - 1
    BY <2>1, SlotInRange
  <2> QED BY <1>3, <2>1, <2>2
<1>9. QPos(Within(c)) = QPos(c)
  BY WithinCuts DEF QPos, Rem, Abs, ItemSize
<1>10. QPos(c) + Within(c).count <= q
  <2>1. q - QPos(c) \in 0 .. IntMax - 1 /\ QPos(c) \in Nat
    BY <1>1, <1>7, <1>8, WrapIs
  <2>2. Wrap(c.quantum - QPos(c)) = q - QPos(c)
    BY <1>1, <2>1, WrapIs
  <2>3. Within(c) = [c EXCEPT !.count = Least(c.count, q - QPos(c))]
    BY <2>1, <2>2 DEF Within
  <2>4. Within(c).count = Least(c.count, q - QPos(c))
    BY <2>3 DEF Calls
  <2> QED BY <1>2, <2>1, <2>4 DEF Least
<1> QED BY <1>1, <1>7, <1>8, <1>9, <1>10

\* The geometry a trim sets up.
LEMMA FormattedGeometry ==
  ASSUME NEW c \in Calls, c.quantum = QuantumSize, c.qset = QsetSize
  PROVE  /\ ItemSize(c) = QuantumSize * QsetSize /\ ItemSize(c) # 0
         /\ Item(c) = (c.pos \div (QuantumSize * QsetSize)) % (2 * IntMax)
         /\ SPos(c) = (c.pos % (QuantumSize * QsetSize)) \div QuantumSize
         /\ QPos(c) = (c.pos % (QuantumSize * QsetSize)) % QuantumSize
         /\ c.quantum > 0 /\ c.qset > 0 /\ c.quantum < IntMax
<1>1. /\ QuantumSize \in Nat \ {0} /\ QsetSize \in Nat \ {0} /\ IntMax \in Nat
      /\ QuantumSize * QsetSize < IntMax
  BY MevAssumption
<1>2. PICK z \in Nat \ {0} : z = QuantumSize * QsetSize
  BY <1>1
<1>3. ItemSize(c) = z
  BY <1>1, <1>2, WrapIs DEF ItemSize
<1>4. QuantumSize <= z
  BY <1>1, <1>2
<1> QED BY <1>1, <1>2, <1>3, <1>4 DEF Item, SPos, QPos, Quot, Rem, Abs
\* A signal takes one waiter out of the queue and keeps the order of the rest.
LEMMA RemoveAtProperties ==
  ASSUME NEW S, NEW s \in Seq(S), NEW i \in 1 .. Len(s)
  PROVE  /\ RemoveAt(s, i) \in Seq(S)
         /\ Len(RemoveAt(s, i)) = Len(s) - 1
         /\ \A j \in 1 .. Len(s) - 1 :
              RemoveAt(s, i)[j] = IF j < i THEN s[j] ELSE s[j + 1]
<1> DEFINE a == SubSeq(s, 1, i - 1)
           b == SubSeq(s, i + 1, Len(s))
<1>1. /\ a \in Seq(S) /\ Len(a) = i - 1
      /\ \A j \in 1 .. i - 1 : a[j] = s[j]
  BY SubSeqProperties, ElementOfSeq
<1>2. /\ b \in Seq(S) /\ Len(b) = Len(s) - i
      /\ \A j \in 1 .. Len(s) - i : b[j] = s[j + i]
  BY SubSeqProperties, ElementOfSeq
<1>3. RemoveAt(s, i) = a \o b
  BY DEF RemoveAt
<1> HIDE DEF a, b
<1>4. /\ a \o b \in Seq(S) /\ Len(a \o b) = Len(a) + Len(b)
      /\ \A j \in 1 .. Len(a) + Len(b) :
           (a \o b)[j] = IF j <= Len(a) THEN a[j] ELSE b[j - Len(a)]
  <2>1. a \in Seq(S) /\ b \in Seq(S)
    BY <1>1, <1>2
  <2> QED BY <2>1, ConcatProperties, Zenon
<1>5. Len(s) \in Nat
  OBVIOUS
<1>6. ASSUME NEW j \in 1 .. Len(s) - 1
      PROVE  (a \o b)[j] = IF j < i THEN s[j] ELSE s[j + 1]
  <2>0. i \in Int /\ j \in Int
    BY <1>5
  <2>1. CASE j < i
    BY <1>1, <1>2, <1>4, <1>5, <2>0, <2>1
  <2>2. CASE j >= i
    <3>1. (a \o b)[j] = b[j - (i - 1)] /\ j - (i - 1) \in 1 .. Len(s) - i
      BY <1>1, <1>2, <1>4, <1>5, <2>2
    <3>2. b[j - (i - 1)] = s[(j - (i - 1)) + i] /\ (j - (i - 1)) + i = j + 1
      BY <1>2, <1>5, <3>1
    <3> QED BY <2>0, <2>2, <3>1, <3>2
  <2>3. j < i \/ j >= i
    BY <2>0
  <2> QED BY <2>1, <2>2, <2>3, Zenon
<1> QED BY <1>1, <1>2, <1>3, <1>4, <1>5, <1>6

-----------------------------------------------------------------------------
(***************************************************************************)
(* Who writes what: the actions that can change a variable.                *)
(***************************************************************************)
LEMMA Writers_call ==
  ASSUME [Next]_vars, call' # call
  PROVE  \/ \E t \in Threads, op \in Operations, pos \in Positions, count \in Counts : MevCall(t, op, pos, count)
         \/ \E t \in Threads : Interrupted(t)
         \/ \E t \in Threads : Clamp(t)
         \/ \E t \in Threads : FollowHead(t)
         \/ \E t \in Threads : FollowNext(t)
         \/ \E t \in Threads : ReadHole(t)
         \/ \E t \in Threads : WriteQuantum(t)
         \/ \E t \in Threads : Copy(t)
         \/ \E t \in Threads : Up(t)
<1>1. CASE LoaderStep
  BY <1>1 DEF LoaderStep, Proc, ResetTo, InitFails, InitModule, SemaInit, ExitBegin,
    TrimNode, TrimReset, ExitEnd, Oops, Goto, heap, semaphore
<1>2. CASE \E t \in Threads : UserStep(t)
  BY <1>2 DEF UserStep, MevOpen, MevRelease, Oops, Goto, heap, semaphore
<1>3. CASE \E t \in Threads : \/ TrimNode(t) \/ TrimReset(t) \/ DownInterruptible(t) \/ Up(t)
                               \/ EndOfFile(t) \/ Clamp(t)
  BY <1>3 DEF Proc, ResetTo, TrimNode, TrimReset, DownInterruptible, EndOfFile,
    Oops, Goto, heap, semaphore
<1>4. CASE \E t \in Threads : FollowHead(t) \/ FollowNext(t) \/ FollowEnd(t) \/ ReadHole(t)
  BY <1>4 DEF NewQset, FollowEnd, Oops, Goto, heap, semaphore
<1>5. CASE \E t \in Threads : WriteArray(t) \/ WriteQuantum(t) \/ Copy(t) \/ Commit(t)
  BY <1>5 DEF WriteArray, Commit, Oops, Goto, heap, semaphore
<1>6. CASE UNCHANGED vars
  BY <1>6 DEF vars, heap, semaphore
<1> QED BY <1>1, <1>2, <1>3, <1>4, <1>5, <1>6 DEF Next, Advance, Halted

LEMMA Writers_cursor ==
  ASSUME [Next]_vars, cursor' # cursor
  PROVE  \/ ExitBegin
         \/ \E t \in Threads, m \in Modes : MevOpen(t, m)
         \/ \E p \in Proc : TrimNode(p)
         \/ \E t \in Threads : FollowHead(t)
         \/ \E t \in Threads : FollowNext(t)
         \/ \E t \in Threads : Up(t)
<1>1. CASE LoaderStep
  BY <1>1 DEF LoaderStep, Proc, ResetTo, InitFails, InitModule, SemaInit, TrimReset,
    ExitEnd, Oops, Goto, heap, semaphore
<1>2. CASE \E t \in Threads : UserStep(t)
  BY <1>2 DEF UserStep, MevRelease, MevCall, Interrupted, Oops, Goto, heap,
    semaphore
<1>3. CASE \E t \in Threads : \/ TrimNode(t) \/ TrimReset(t) \/ DownInterruptible(t) \/ Up(t)
                               \/ EndOfFile(t) \/ Clamp(t)
  BY <1>3 DEF Proc, ResetTo, TrimReset, DownInterruptible, EndOfFile, Clamp, Oops,
    Goto, heap, semaphore
<1>4. CASE \E t \in Threads : FollowHead(t) \/ FollowNext(t) \/ FollowEnd(t) \/ ReadHole(t)
  BY <1>4 DEF NewQset, FollowEnd, ReadHole, Oops, Goto, heap, semaphore
<1>5. CASE \E t \in Threads : WriteArray(t) \/ WriteQuantum(t) \/ Copy(t) \/ Commit(t)
  BY <1>5 DEF WriteArray, WriteQuantum, Copy, Commit, Oops, Goto, heap, semaphore
<1>6. CASE UNCHANGED vars
  BY <1>6 DEF vars, heap, semaphore
<1> QED BY <1>1, <1>2, <1>3, <1>4, <1>5, <1>6 DEF Next, Advance, Halted

LEMMA Writers_container ==
  ASSUME [Next]_vars, container' # container
  PROVE  \/ InitModule
         \/ \E p \in Proc : TrimReset(p)
         \/ \E t \in Threads : FollowHead(t)
         \/ \E t \in Threads : Commit(t)
<1>1. CASE LoaderStep
  BY <1>1 DEF LoaderStep, Proc, ResetTo, InitFails, SemaInit, ExitBegin, TrimNode,
    ExitEnd, Oops, Goto, heap, semaphore
<1>2. CASE \E t \in Threads : UserStep(t)
  BY <1>2 DEF UserStep, MevOpen, MevRelease, MevCall, Interrupted, Oops, Goto, heap,
    semaphore
<1>3. CASE \E t \in Threads : \/ TrimNode(t) \/ TrimReset(t) \/ DownInterruptible(t) \/ Up(t)
                               \/ EndOfFile(t) \/ Clamp(t)
  BY <1>3 DEF Proc, ResetTo, TrimNode, DownInterruptible, Up, EndOfFile, Clamp,
    Oops, Goto, heap, semaphore
<1>4. CASE \E t \in Threads : FollowHead(t) \/ FollowNext(t) \/ FollowEnd(t) \/ ReadHole(t)
  BY <1>4 DEF NewQset, FollowNext, FollowEnd, ReadHole, Oops, Goto, heap, semaphore
<1>5. CASE \E t \in Threads : WriteArray(t) \/ WriteQuantum(t) \/ Copy(t) \/ Commit(t)
  BY <1>5 DEF WriteArray, WriteQuantum, Copy, Oops, Goto, heap, semaphore
<1>6. CASE UNCHANGED vars
  BY <1>6 DEF vars, heap, semaphore
<1> QED BY <1>1, <1>2, <1>3, <1>4, <1>5, <1>6 DEF Next, Advance, Halted

LEMMA Writers_live ==
  ASSUME [Next]_vars, live' # live
  PROVE  \/ \E p \in Proc : TrimNode(p)
         \/ \E t \in Threads : FollowHead(t)
         \/ \E t \in Threads : FollowNext(t)
<1>1. CASE LoaderStep
  BY <1>1 DEF LoaderStep, Proc, ResetTo, InitFails, InitModule, SemaInit, ExitBegin,
    TrimReset, ExitEnd, Oops, Goto, heap, semaphore
<1>2. CASE \E t \in Threads : UserStep(t)
  BY <1>2 DEF UserStep, MevOpen, MevRelease, MevCall, Interrupted, Oops, Goto, heap,
    semaphore
<1>3. CASE \E t \in Threads : \/ TrimNode(t) \/ TrimReset(t) \/ DownInterruptible(t) \/ Up(t)
                               \/ EndOfFile(t) \/ Clamp(t)
  BY <1>3 DEF Proc, ResetTo, TrimReset, DownInterruptible, Up, EndOfFile, Clamp,
    Oops, Goto, heap, semaphore
<1>4. CASE \E t \in Threads : FollowHead(t) \/ FollowNext(t) \/ FollowEnd(t) \/ ReadHole(t)
  BY <1>4 DEF NewQset, FollowEnd, ReadHole, Oops, Goto, heap, semaphore
<1>5. CASE \E t \in Threads : WriteArray(t) \/ WriteQuantum(t) \/ Copy(t) \/ Commit(t)
  BY <1>5 DEF WriteArray, WriteQuantum, Copy, Commit, Oops, Goto, heap, semaphore
<1>6. CASE UNCHANGED vars
  BY <1>6 DEF vars, heap, semaphore
<1> QED BY <1>1, <1>2, <1>3, <1>4, <1>5, <1>6 DEF Next, Advance, Halted

LEMMA Writers_freed ==
  ASSUME [Next]_vars, freed' # freed
  PROVE  \/ \E p \in Proc : TrimNode(p)
<1>1. CASE LoaderStep
  BY <1>1 DEF LoaderStep, Proc, ResetTo, InitFails, InitModule, SemaInit, ExitBegin,
    TrimReset, ExitEnd, Oops, Goto, heap, semaphore
<1>2. CASE \E t \in Threads : UserStep(t)
  BY <1>2 DEF UserStep, MevOpen, MevRelease, MevCall, Interrupted, Oops, Goto, heap,
    semaphore
<1>3. CASE \E t \in Threads : \/ TrimNode(t) \/ TrimReset(t) \/ DownInterruptible(t) \/ Up(t)
                               \/ EndOfFile(t) \/ Clamp(t)
  BY <1>3 DEF Proc, ResetTo, TrimReset, DownInterruptible, Up, EndOfFile, Clamp,
    Oops, Goto, heap, semaphore
<1>4. CASE \E t \in Threads : FollowHead(t) \/ FollowNext(t) \/ FollowEnd(t) \/ ReadHole(t)
  BY <1>4 DEF NewQset, FollowHead, FollowNext, FollowEnd, ReadHole, Oops, Goto,
    heap, semaphore
<1>5. CASE \E t \in Threads : WriteArray(t) \/ WriteQuantum(t) \/ Copy(t) \/ Commit(t)
  BY <1>5 DEF WriteArray, WriteQuantum, Copy, Commit, Oops, Goto, heap, semaphore
<1>6. CASE UNCHANGED vars
  BY <1>6 DEF vars, heap, semaphore
<1> QED BY <1>1, <1>2, <1>3, <1>4, <1>5, <1>6 DEF Next, Advance, Halted

LEMMA Writers_nxt ==
  ASSUME [Next]_vars, nxt' # nxt
  PROVE  \/ \E p \in Proc : TrimNode(p)
         \/ \E t \in Threads : FollowNext(t)
<1>1. CASE LoaderStep
  BY <1>1 DEF LoaderStep, Proc, ResetTo, InitFails, InitModule, SemaInit, ExitBegin,
    TrimReset, ExitEnd, Oops, Goto, heap, semaphore
<1>2. CASE \E t \in Threads : UserStep(t)
  BY <1>2 DEF UserStep, MevOpen, MevRelease, MevCall, Interrupted, Oops, Goto, heap,
    semaphore
<1>3. CASE \E t \in Threads : \/ TrimNode(t) \/ TrimReset(t) \/ DownInterruptible(t) \/ Up(t)
                               \/ EndOfFile(t) \/ Clamp(t)
  BY <1>3 DEF Proc, ResetTo, TrimReset, DownInterruptible, Up, EndOfFile, Clamp,
    Oops, Goto, heap, semaphore
<1>4. CASE \E t \in Threads : FollowHead(t) \/ FollowNext(t) \/ FollowEnd(t) \/ ReadHole(t)
  BY <1>4 DEF NewQset, FollowHead, FollowEnd, ReadHole, Oops, Goto, heap, semaphore
<1>5. CASE \E t \in Threads : WriteArray(t) \/ WriteQuantum(t) \/ Copy(t) \/ Commit(t)
  BY <1>5 DEF WriteArray, WriteQuantum, Copy, Commit, Oops, Goto, heap, semaphore
<1>6. CASE UNCHANGED vars
  BY <1>6 DEF vars, heap, semaphore
<1> QED BY <1>1, <1>2, <1>3, <1>4, <1>5, <1>6 DEF Next, Advance, Halted

LEMMA Writers_data ==
  ASSUME [Next]_vars, data' # data
  PROVE  \/ \E p \in Proc : TrimNode(p)
         \/ \E t \in Threads : FollowHead(t)
         \/ \E t \in Threads : FollowNext(t)
         \/ \E t \in Threads : WriteArray(t)
         \/ \E t \in Threads : WriteQuantum(t)
<1>1. CASE LoaderStep
  BY <1>1 DEF LoaderStep, Proc, ResetTo, InitFails, InitModule, SemaInit, ExitBegin,
    TrimReset, ExitEnd, Oops, Goto, heap, semaphore
<1>2. CASE \E t \in Threads : UserStep(t)
  BY <1>2 DEF UserStep, MevOpen, MevRelease, MevCall, Interrupted, Oops, Goto, heap,
    semaphore
<1>3. CASE \E t \in Threads : \/ TrimNode(t) \/ TrimReset(t) \/ DownInterruptible(t) \/ Up(t)
                               \/ EndOfFile(t) \/ Clamp(t)
  BY <1>3 DEF Proc, ResetTo, TrimReset, DownInterruptible, Up, EndOfFile, Clamp,
    Oops, Goto, heap, semaphore
<1>4. CASE \E t \in Threads : FollowHead(t) \/ FollowNext(t) \/ FollowEnd(t) \/ ReadHole(t)
  BY <1>4 DEF NewQset, FollowEnd, ReadHole, Oops, Goto, heap, semaphore
<1>5. CASE \E t \in Threads : WriteArray(t) \/ WriteQuantum(t) \/ Copy(t) \/ Commit(t)
  BY <1>5 DEF Copy, Commit, Oops, Goto, heap, semaphore
<1>6. CASE UNCHANGED vars
  BY <1>6 DEF vars, heap, semaphore
<1> QED BY <1>1, <1>2, <1>3, <1>4, <1>5, <1>6 DEF Next, Advance, Halted

LEMMA Writers_sem ==
  ASSUME [Next]_vars, sem' # sem
  PROVE  \/ InitModule
         \/ SemaInit
         \/ \E t \in Threads : DownInterruptible(t)
         \/ \E t \in Threads : Up(t)
<1>1. CASE LoaderStep
  BY <1>1 DEF LoaderStep, Proc, ResetTo, InitFails, ExitBegin, TrimNode, TrimReset,
    ExitEnd, Oops, Goto, heap, semaphore
<1>2. CASE \E t \in Threads : UserStep(t)
  BY <1>2 DEF UserStep, MevOpen, MevRelease, MevCall, Interrupted, Oops, Goto, heap,
    semaphore
<1>3. CASE \E t \in Threads : \/ TrimNode(t) \/ TrimReset(t) \/ DownInterruptible(t) \/ Up(t)
                               \/ EndOfFile(t) \/ Clamp(t)
  BY <1>3 DEF Proc, ResetTo, TrimNode, TrimReset, EndOfFile, Clamp, Oops, Goto,
    heap, semaphore
<1>4. CASE \E t \in Threads : FollowHead(t) \/ FollowNext(t) \/ FollowEnd(t) \/ ReadHole(t)
  BY <1>4 DEF NewQset, FollowHead, FollowNext, FollowEnd, ReadHole, Oops, Goto,
    heap, semaphore
<1>5. CASE \E t \in Threads : WriteArray(t) \/ WriteQuantum(t) \/ Copy(t) \/ Commit(t)
  BY <1>5 DEF WriteArray, WriteQuantum, Copy, Commit, Oops, Goto, heap, semaphore
<1>6. CASE UNCHANGED vars
  BY <1>6 DEF vars, heap, semaphore
<1> QED BY <1>1, <1>2, <1>3, <1>4, <1>5, <1>6 DEF Next, Advance, Halted

LEMMA Writers_waiters ==
  ASSUME [Next]_vars, waiters' # waiters
  PROVE  \/ InitModule
         \/ SemaInit
         \/ \E t \in Threads : DownInterruptible(t)
         \/ \E t \in Threads : Interrupted(t)
         \/ \E t \in Threads : Up(t)
<1>1. CASE LoaderStep
  BY <1>1 DEF LoaderStep, Proc, ResetTo, InitFails, ExitBegin, TrimNode, TrimReset,
    ExitEnd, Oops, Goto, heap, semaphore
<1>2. CASE \E t \in Threads : UserStep(t)
  BY <1>2 DEF UserStep, MevOpen, MevRelease, MevCall, Oops, Goto, heap, semaphore
<1>3. CASE \E t \in Threads : \/ TrimNode(t) \/ TrimReset(t) \/ DownInterruptible(t) \/ Up(t)
                               \/ EndOfFile(t) \/ Clamp(t)
  BY <1>3 DEF Proc, ResetTo, TrimNode, TrimReset, EndOfFile, Clamp, Oops, Goto,
    heap, semaphore
<1>4. CASE \E t \in Threads : FollowHead(t) \/ FollowNext(t) \/ FollowEnd(t) \/ ReadHole(t)
  BY <1>4 DEF NewQset, FollowHead, FollowNext, FollowEnd, ReadHole, Oops, Goto,
    heap, semaphore
<1>5. CASE \E t \in Threads : WriteArray(t) \/ WriteQuantum(t) \/ Copy(t) \/ Commit(t)
  BY <1>5 DEF WriteArray, WriteQuantum, Copy, Commit, Oops, Goto, heap, semaphore
<1>6. CASE UNCHANGED vars
  BY <1>6 DEF vars, heap, semaphore
<1> QED BY <1>1, <1>2, <1>3, <1>4, <1>5, <1>6 DEF Next, Advance, Halted

LEMMA Writers_sem_ready ==
  ASSUME [Next]_vars, sem_ready' # sem_ready
  PROVE  \/ InitModule
         \/ SemaInit
<1>1. CASE LoaderStep
  BY <1>1 DEF LoaderStep, Proc, ResetTo, InitFails, ExitBegin, TrimNode, TrimReset,
    ExitEnd, Oops, Goto, heap, semaphore
<1>2. CASE \E t \in Threads : UserStep(t)
  BY <1>2 DEF UserStep, MevOpen, MevRelease, MevCall, Interrupted, Oops, Goto, heap,
    semaphore
<1>3. CASE \E t \in Threads : \/ TrimNode(t) \/ TrimReset(t) \/ DownInterruptible(t) \/ Up(t)
                               \/ EndOfFile(t) \/ Clamp(t)
  BY <1>3 DEF Proc, ResetTo, TrimNode, TrimReset, DownInterruptible, Up, EndOfFile,
    Clamp, Oops, Goto, heap, semaphore
<1>4. CASE \E t \in Threads : FollowHead(t) \/ FollowNext(t) \/ FollowEnd(t) \/ ReadHole(t)
  BY <1>4 DEF NewQset, FollowHead, FollowNext, FollowEnd, ReadHole, Oops, Goto,
    heap, semaphore
<1>5. CASE \E t \in Threads : WriteArray(t) \/ WriteQuantum(t) \/ Copy(t) \/ Commit(t)
  BY <1>5 DEF WriteArray, WriteQuantum, Copy, Commit, Oops, Goto, heap, semaphore
<1>6. CASE UNCHANGED vars
  BY <1>6 DEF vars, heap, semaphore
<1> QED BY <1>1, <1>2, <1>3, <1>4, <1>5, <1>6 DEF Next, Advance, Halted

LEMMA Writers_regions ==
  ASSUME [Next]_vars, regions' # regions
  PROVE  \/ InitModule
         \/ InitFails
         \/ ExitEnd
<1>1. CASE LoaderStep
  BY <1>1 DEF LoaderStep, Proc, ResetTo, SemaInit, ExitBegin, TrimNode, TrimReset,
    Oops, Goto, heap, semaphore
<1>2. CASE \E t \in Threads : UserStep(t)
  BY <1>2 DEF UserStep, MevOpen, MevRelease, MevCall, Interrupted, Oops, Goto, heap,
    semaphore
<1>3. CASE \E t \in Threads : \/ TrimNode(t) \/ TrimReset(t) \/ DownInterruptible(t) \/ Up(t)
                               \/ EndOfFile(t) \/ Clamp(t)
  BY <1>3 DEF Proc, ResetTo, TrimNode, TrimReset, DownInterruptible, Up, EndOfFile,
    Clamp, Oops, Goto, heap, semaphore
<1>4. CASE \E t \in Threads : FollowHead(t) \/ FollowNext(t) \/ FollowEnd(t) \/ ReadHole(t)
  BY <1>4 DEF NewQset, FollowHead, FollowNext, FollowEnd, ReadHole, Oops, Goto,
    heap, semaphore
<1>5. CASE \E t \in Threads : WriteArray(t) \/ WriteQuantum(t) \/ Copy(t) \/ Commit(t)
  BY <1>5 DEF WriteArray, WriteQuantum, Copy, Commit, Oops, Goto, heap, semaphore
<1>6. CASE UNCHANGED vars
  BY <1>6 DEF vars, heap, semaphore
<1> QED BY <1>1, <1>2, <1>3, <1>4, <1>5, <1>6 DEF Next, Advance, Halted

LEMMA Writers_formatted ==
  ASSUME [Next]_vars, formatted' # formatted
  PROVE  \/ InitModule
         \/ \E p \in Proc : TrimReset(p)
<1>1. CASE LoaderStep
  BY <1>1 DEF LoaderStep, Proc, ResetTo, InitFails, SemaInit, ExitBegin, TrimNode,
    ExitEnd, Oops, Goto, heap, semaphore
<1>2. CASE \E t \in Threads : UserStep(t)
  BY <1>2 DEF UserStep, MevOpen, MevRelease, MevCall, Interrupted, Oops, Goto, heap,
    semaphore
<1>3. CASE \E t \in Threads : \/ TrimNode(t) \/ TrimReset(t) \/ DownInterruptible(t) \/ Up(t)
                               \/ EndOfFile(t) \/ Clamp(t)
  BY <1>3 DEF Proc, ResetTo, TrimNode, DownInterruptible, Up, EndOfFile, Clamp,
    Oops, Goto, heap, semaphore
<1>4. CASE \E t \in Threads : FollowHead(t) \/ FollowNext(t) \/ FollowEnd(t) \/ ReadHole(t)
  BY <1>4 DEF NewQset, FollowHead, FollowNext, FollowEnd, ReadHole, Oops, Goto,
    heap, semaphore
<1>5. CASE \E t \in Threads : WriteArray(t) \/ WriteQuantum(t) \/ Copy(t) \/ Commit(t)
  BY <1>5 DEF WriteArray, WriteQuantum, Copy, Commit, Oops, Goto, heap, semaphore
<1>6. CASE UNCHANGED vars
  BY <1>6 DEF vars, heap, semaphore
<1> QED BY <1>1, <1>2, <1>3, <1>4, <1>5, <1>6 DEF Next, Advance, Halted

LEMMA Writers_overlap ==
  ASSUME [Next]_vars, overlap' # overlap
  PROVE  \/ \E t \in Threads, m \in Modes : MevOpen(t, m)
         \/ \E t \in Threads, op \in Operations, pos \in Positions, count \in Counts : MevCall(t, op, pos, count)
<1>1. CASE LoaderStep
  BY <1>1 DEF LoaderStep, Proc, ResetTo, InitFails, InitModule, SemaInit, ExitBegin,
    TrimNode, TrimReset, ExitEnd, Oops, Goto, heap, semaphore
<1>2. CASE \E t \in Threads : UserStep(t)
  BY <1>2 DEF UserStep, MevRelease, Interrupted, Oops, Goto, heap, semaphore
<1>3. CASE \E t \in Threads : \/ TrimNode(t) \/ TrimReset(t) \/ DownInterruptible(t) \/ Up(t)
                               \/ EndOfFile(t) \/ Clamp(t)
  BY <1>3 DEF Proc, ResetTo, TrimNode, TrimReset, DownInterruptible, Up, EndOfFile,
    Clamp, Oops, Goto, heap, semaphore
<1>4. CASE \E t \in Threads : FollowHead(t) \/ FollowNext(t) \/ FollowEnd(t) \/ ReadHole(t)
  BY <1>4 DEF NewQset, FollowHead, FollowNext, FollowEnd, ReadHole, Oops, Goto,
    heap, semaphore
<1>5. CASE \E t \in Threads : WriteArray(t) \/ WriteQuantum(t) \/ Copy(t) \/ Commit(t)
  BY <1>5 DEF WriteArray, WriteQuantum, Copy, Commit, Oops, Goto, heap, semaphore
<1>6. CASE UNCHANGED vars
  BY <1>6 DEF vars, heap, semaphore
<1> QED BY <1>1, <1>2, <1>3, <1>4, <1>5, <1>6 DEF Next, Advance, Halted

LEMMA Writers_early ==
  ASSUME [Next]_vars, early' # early
  PROVE  \/ \E t \in Threads : DownInterruptible(t)
<1>1. CASE LoaderStep
  BY <1>1 DEF LoaderStep, Proc, ResetTo, InitFails, InitModule, SemaInit, ExitBegin,
    TrimNode, TrimReset, ExitEnd, Oops, Goto, heap, semaphore
<1>2. CASE \E t \in Threads : UserStep(t)
  BY <1>2 DEF UserStep, MevOpen, MevRelease, MevCall, Interrupted, Oops, Goto, heap,
    semaphore
<1>3. CASE \E t \in Threads : \/ TrimNode(t) \/ TrimReset(t) \/ DownInterruptible(t) \/ Up(t)
                               \/ EndOfFile(t) \/ Clamp(t)
  BY <1>3 DEF Proc, ResetTo, TrimNode, TrimReset, Up, EndOfFile, Clamp, Oops, Goto,
    heap, semaphore
<1>4. CASE \E t \in Threads : FollowHead(t) \/ FollowNext(t) \/ FollowEnd(t) \/ ReadHole(t)
  BY <1>4 DEF NewQset, FollowHead, FollowNext, FollowEnd, ReadHole, Oops, Goto,
    heap, semaphore
<1>5. CASE \E t \in Threads : WriteArray(t) \/ WriteQuantum(t) \/ Copy(t) \/ Commit(t)
  BY <1>5 DEF WriteArray, WriteQuantum, Copy, Commit, Oops, Goto, heap, semaphore
<1>6. CASE UNCHANGED vars
  BY <1>6 DEF vars, heap, semaphore
<1> QED BY <1>1, <1>2, <1>3, <1>4, <1>5, <1>6 DEF Next, Advance, Halted

LEMMA Writers_fault ==
  ASSUME [Next]_vars, fault' # fault
  PROVE  \/ \E p \in Proc : TrimNode(p)
         \/ \E t \in Threads : FollowNext(t)
         \/ \E t \in Threads : ReadHole(t)
         \/ \E t \in Threads : WriteArray(t)
         \/ \E t \in Threads : WriteQuantum(t)
         \/ \E t \in Threads : Copy(t)
         \/ \E t \in Threads : FollowHead(t)
         \/ \E t \in Threads : Up(t)
         \/ \E t \in Threads : DownInterruptible(t)
<1>1. CASE LoaderStep
  BY <1>1 DEF LoaderStep, Proc, ResetTo, InitFails, InitModule, SemaInit, ExitBegin,
    TrimReset, ExitEnd, Oops, Goto, heap, semaphore
<1>2. CASE \E t \in Threads : UserStep(t)
  BY <1>2 DEF UserStep, MevOpen, MevRelease, MevCall, Interrupted, Oops, Goto, heap,
    semaphore
<1>3. CASE \E t \in Threads : \/ TrimNode(t) \/ TrimReset(t) \/ DownInterruptible(t) \/ Up(t)
                               \/ EndOfFile(t) \/ Clamp(t)
  BY <1>3 DEF Proc, ResetTo, TrimReset, EndOfFile, Clamp, Oops, Goto, heap,
    semaphore
<1>4. CASE \E t \in Threads : FollowHead(t) \/ FollowNext(t) \/ FollowEnd(t) \/ ReadHole(t)
  BY <1>4 DEF NewQset, FollowEnd, Oops, Goto, heap, semaphore
<1>5. CASE \E t \in Threads : WriteArray(t) \/ WriteQuantum(t) \/ Copy(t) \/ Commit(t)
  BY <1>5 DEF Commit, Oops, Goto, heap, semaphore
<1>6. CASE UNCHANGED vars
  BY <1>6 DEF vars, heap, semaphore
<1> QED BY <1>1, <1>2, <1>3, <1>4, <1>5, <1>6 DEF Next, Advance, Halted

LEMMA Writers_mode ==
  ASSUME [Next]_vars, mode' # mode
  PROVE  \/ \E t \in Threads, m \in Modes : MevOpen(t, m)
         \/ \E t \in Threads : MevRelease(t)
<1>1. CASE LoaderStep
  BY <1>1 DEF LoaderStep, Proc, ResetTo, InitFails, InitModule, SemaInit, ExitBegin,
    TrimNode, TrimReset, ExitEnd, Oops, Goto, heap, semaphore
<1>2. CASE \E t \in Threads : UserStep(t)
  BY <1>2 DEF UserStep, MevCall, Interrupted, Oops, Goto, heap, semaphore
<1>3. CASE \E t \in Threads : \/ TrimNode(t) \/ TrimReset(t) \/ DownInterruptible(t) \/ Up(t)
                               \/ EndOfFile(t) \/ Clamp(t)
  BY <1>3 DEF Proc, ResetTo, TrimNode, TrimReset, DownInterruptible, Up, EndOfFile,
    Clamp, Oops, Goto, heap, semaphore
<1>4. CASE \E t \in Threads : FollowHead(t) \/ FollowNext(t) \/ FollowEnd(t) \/ ReadHole(t)
  BY <1>4 DEF NewQset, FollowHead, FollowNext, FollowEnd, ReadHole, Oops, Goto,
    heap, semaphore
<1>5. CASE \E t \in Threads : WriteArray(t) \/ WriteQuantum(t) \/ Copy(t) \/ Commit(t)
  BY <1>5 DEF WriteArray, WriteQuantum, Copy, Commit, Oops, Goto, heap, semaphore
<1>6. CASE UNCHANGED vars
  BY <1>6 DEF vars, heap, semaphore
<1> QED BY <1>1, <1>2, <1>3, <1>4, <1>5, <1>6 DEF Next, Advance, Halted

LEMMA Writers_turns ==
  ASSUME [Next]_vars, turns' # turns
  PROVE  \/ \E t \in Threads, m \in Modes : MevOpen(t, m)
         \/ ExitBegin
         \/ \E p \in Proc : TrimReset(p)
<1>1. CASE LoaderStep
  BY <1>1 DEF LoaderStep, Proc, InitFails, InitModule, SemaInit,
    TrimNode, ExitEnd, Oops, Goto, heap, semaphore
<1>2. CASE \E t \in Threads : UserStep(t)
  BY <1>2 DEF UserStep, MevRelease, MevCall, Interrupted, Oops, Goto, heap, semaphore
<1>3. CASE \E t \in Threads : \/ TrimNode(t) \/ TrimReset(t) \/ DownInterruptible(t) \/ Up(t)
                               \/ EndOfFile(t) \/ Clamp(t)
  BY <1>3 DEF Proc, TrimNode, DownInterruptible, Up, EndOfFile,
    Clamp, Oops, Goto, heap, semaphore
<1>4. CASE \E t \in Threads : FollowHead(t) \/ FollowNext(t) \/ FollowEnd(t) \/ ReadHole(t)
  BY <1>4 DEF NewQset, FollowHead, FollowNext, FollowEnd, ReadHole, Oops, Goto,
    heap, semaphore
<1>5. CASE \E t \in Threads : WriteArray(t) \/ WriteQuantum(t) \/ Copy(t) \/ Commit(t)
  BY <1>5 DEF WriteArray, WriteQuantum, Copy, Commit, Oops, Goto, heap, semaphore
<1>6. CASE UNCHANGED vars
  BY <1>6 DEF vars, heap, semaphore
<1> QED BY <1>1, <1>2, <1>3, <1>4, <1>5, <1>6 DEF Next, Advance, Halted

\* How a fault comes about.
LEMMA FaultSteps ==
  ASSUME [Next]_vars, fault' # fault
  PROVE  \/ /\ \E p \in Proc : /\ pc[p] = "trim" /\ cursor[p] # NULL
                              /\ cursor[p] \notin live /\ fault' = Misuse(cursor[p])
            /\ UNCHANGED <<formatted, overlap, early>>
         \/ /\ \E p \in Proc :
                 /\ pc[p] = "trim" /\ cursor[p] \in live /\ data[cursor[p]] # NULL
                 /\ ~(0 .. turns[p] - 1 \subseteq DOMAIN data[cursor[p]])
            /\ fault' = "bounds"
            /\ UNCHANGED <<container, formatted, overlap, early>>
         \/ /\ \E t \in Threads :
                 /\ cursor[t] \in live
                 /\ \/ pc[t] \in {"hole", "quantum"} /\ Beyond(cursor[t], SPos(call[t]))
                    \/ /\ pc[t] = "copy"
                       /\ QPos(call[t]) + call[t].count > data[cursor[t]][SPos(call[t])]
            /\ fault' = "bounds"
            /\ UNCHANGED <<container, formatted, overlap, early>>
         \/ /\ \E t \in Threads : /\ pc[t] \in Holding \ {"commit"}
                                 /\ cursor[t] \notin live /\ fault' = Misuse(cursor[t])
            /\ UNCHANGED <<formatted, overlap, early>>
         \/ /\ \E t \in Threads : /\ pc[t] = "head" /\ ItemSize(call[t]) = 0
                                 /\ fault' = "divide"
            /\ UNCHANGED <<formatted, overlap, early>>
         \/ /\ \E t \in Threads : pc[t] = "up" /\ ~sem_ready /\ fault' = "semaphore"
            /\ UNCHANGED <<formatted, overlap, early>>
         \/ /\ fault' = "semaphore" /\ early'
<1> USE DEF Oops, heap, semaphore, Holding
<1>1. ASSUME NEW p \in Proc, TrimNode(p)
      PROVE  \/ /\ pc[p] = "trim" /\ cursor[p] # NULL
                /\ cursor[p] \notin live /\ fault' = Misuse(cursor[p])
                /\ UNCHANGED <<formatted, overlap, early>>
             \/ /\ pc[p] = "trim" /\ cursor[p] \in live /\ data[cursor[p]] # NULL
                /\ ~(0 .. turns[p] - 1 \subseteq DOMAIN data[cursor[p]])
                /\ fault' = "bounds"
                /\ UNCHANGED <<container, formatted, overlap, early>>
  BY <1>1 DEF TrimNode
<1>2. ASSUME NEW t \in Threads, FollowNext(t) \/ WriteArray(t)
      PROVE  /\ pc[t] \in Holding \ {"commit"}
             /\ cursor[t] \notin live /\ fault' = Misuse(cursor[t])
             /\ UNCHANGED <<formatted, overlap, early>>
  BY <1>2 DEF FollowNext, WriteArray
<1>7. ASSUME NEW t \in Threads, ReadHole(t) \/ WriteQuantum(t) \/ Copy(t)
      PROVE  \/ /\ pc[t] \in Holding \ {"commit"}
                /\ cursor[t] \notin live /\ fault' = Misuse(cursor[t])
                /\ UNCHANGED <<formatted, overlap, early>>
             \/ /\ cursor[t] \in live
                /\ \/ pc[t] \in {"hole", "quantum"} /\ Beyond(cursor[t], SPos(call[t]))
                   \/ /\ pc[t] = "copy"
                      /\ QPos(call[t]) + call[t].count > data[cursor[t]][SPos(call[t])]
                /\ fault' = "bounds"
                /\ UNCHANGED <<container, formatted, overlap, early>>
  BY <1>7 DEF ReadHole, WriteQuantum, Copy
<1>3. ASSUME NEW t \in Threads, FollowHead(t)
      PROVE  /\ pc[t] = "head" /\ ItemSize(call[t]) = 0 /\ fault' = "divide"
             /\ UNCHANGED <<formatted, overlap, early>>
  BY <1>3 DEF FollowHead
<1>4. ASSUME NEW t \in Threads, Up(t)
      PROVE  /\ pc[t] = "up" /\ ~sem_ready /\ fault' = "semaphore"
             /\ UNCHANGED <<formatted, overlap, early>>
  BY <1>4 DEF Up
<1>5. ASSUME NEW t \in Threads, DownInterruptible(t)
      PROVE  fault' = "semaphore" /\ early'
  BY <1>5 DEF DownInterruptible
<1>6. \/ \E p \in Proc : TrimNode(p)
      \/ \E t \in Threads :
           \/ FollowNext(t) \/ ReadHole(t) \/ WriteArray(t) \/ WriteQuantum(t) \/ Copy(t)
           \/ FollowHead(t) \/ Up(t) \/ DownInterruptible(t)
  BY Writers_fault
<1> QED BY <1>1, <1>2, <1>3, <1>4, <1>5, <1>6, <1>7

-----------------------------------------------------------------------------
(***************************************************************************)
(* Types.                                                                  *)
(***************************************************************************)
LEMMA PcType ==
  ASSUME IInv, [Next]_vars
  PROVE  pc' \in [Proc -> InCall \union {"closed", "idle", "trim", "unloaded", "adding",
                                         "loaded", "del"}]
<1>1. pc \in [Proc -> InCall \union {"closed", "idle", "trim", "unloaded", "adding",
                                     "loaded", "del"}]
  BY DEF IInv, TypeOK
<1>2. waiters \in Seq(Threads)
  BY DEF IInv, TypeOK
<1> USE DEF Goto, Oops, Proc, InCall, Section, Entry
<1>3. ASSUME NEW t \in Threads, UserStep(t)
      PROVE  pc' \in [Proc -> InCall \union {"closed", "idle", "trim", "unloaded", "adding",
                                             "loaded", "del"}]
  BY <1>1, <1>3 DEF UserStep, MevOpen, MevRelease, MevCall, Interrupted
<1>4. CASE LoaderStep
  BY <1>1, <1>4 DEF LoaderStep, InitFails, InitModule, SemaInit, ExitBegin, ExitEnd,
                    TrimNode, TrimReset, ResetTo
<1>5. ASSUME NEW t \in Threads, Up(t)
      PROVE  pc' \in [Proc -> InCall \union {"closed", "idle", "trim", "unloaded", "adding",
                                             "loaded", "del"}]
  <2>1. CASE waiters = <<>> \/ ~sem_ready
    BY <1>1, <1>5, <2>1 DEF Up
  <2>2. CASE waiters # <<>>
    <3>1. Head(waiters) \in Threads
      BY <1>2, <2>2, HeadTailProperties
    <3> QED BY <1>1, <1>5, <2>2, <3>1 DEF Up
  <2> QED BY <2>1, <2>2
<1>6. ASSUME NEW t \in Threads, Advance(t), ~Up(t)
      PROVE  pc' \in [Proc -> InCall \union {"closed", "idle", "trim", "unloaded", "adding",
                                             "loaded", "del"}]
  BY <1>1, <1>6 DEF Advance, TrimNode, TrimReset, ResetTo, DownInterruptible, EndOfFile,
                    Clamp, FollowHead, FollowNext, FollowEnd, ReadHole, WriteArray,
                    WriteQuantum, Copy, Commit
<1>7. CASE UNCHANGED vars
  BY <1>1, <1>7 DEF vars
<1> QED BY <1>3, <1>4, <1>5, <1>6, <1>7 DEF Next, Halted

LEMMA CallType ==
  ASSUME IInv, [Next]_vars
  PROVE  call' \in [Threads -> Calls]
<1>1. call \in [Threads -> Calls]
  BY DEF IInv, TypeOK
<1>2. container.quantum \in Quanta /\ container.qset \in Qsets /\ container.size \in Nat
  BY DEF IInv, TypeOK
<1>3. NoCall \in Calls
  BY Geometries DEF NoCall, Calls, Operations
<1>4. ASSUME NEW t \in Threads, NEW op \in Operations, NEW pos \in Positions,
             NEW count \in Counts, MevCall(t, op, pos, count)
      PROVE  call' \in [Threads -> Calls]
  <2> DEFINE c == [op |-> op, pos |-> pos, count |-> count,
                   quantum |-> container.quantum, qset |-> container.qset, n |-> 0]
  <2>1. c \in Calls
    BY <1>2, Geometries DEF Calls
  <2>2. call' = [call EXCEPT ![t] = c]
    BY <1>4 DEF MevCall
  <2> HIDE DEF c
  <2> QED BY <1>1, <2>1, <2>2
<1>5. ASSUME NEW t \in Threads, Interrupted(t) \/ Up(t)
      PROVE  call' \in [Threads -> Calls]
  BY <1>1, <1>3, <1>5 DEF Interrupted, Up, Oops
<1>6. ASSUME NEW t \in Threads, Clamp(t)
      PROVE  call' \in [Threads -> Calls]
  <2> DEFINE n == IF call[t].pos + call[t].count <= container.size THEN call[t].count
                  ELSE IF call[t].pos <= container.size THEN container.size - call[t].pos
                  ELSE IntMax
  <2>1. n \in Nat
    BY <1>1, <1>2, WrapIs DEF Calls
  <2>2. call' = [call EXCEPT ![t].count = n]
    BY <1>6 DEF Clamp
  <2> HIDE DEF n
  <2> QED BY <1>1, <2>1, <2>2 DEF Calls
<1>7. ASSUME NEW t \in Threads, FollowHead(t)
      PROVE  call' \in [Threads -> Calls]
  <2>1. CASE ItemSize(call[t]) = 0
    BY <1>1, <1>7, <2>1 DEF FollowHead, Oops
  <2>2. CASE ItemSize(call[t]) # 0
    <3>1. call' = [call EXCEPT ![t].n = Item(call[t])]
      BY <1>7, <2>2 DEF FollowHead
    <3>3. Item(call[t]) \in Nat
      BY <1>1, <2>2, PositionTypes
    <3> QED BY <1>1, <3>1, <3>3 DEF Calls
  <2> QED BY <2>1, <2>2
<1>8. ASSUME NEW t \in Threads, FollowNext(t)
      PROVE  call' \in [Threads -> Calls]
  BY <1>1, <1>8 DEF FollowNext, Oops, Calls
<1>9. ASSUME NEW t \in Threads, ReadHole(t) \/ WriteQuantum(t)
      PROVE  call' \in [Threads -> Calls]
  <2>1. call[t] \in Calls /\ ItemSize(call[t]) # 0
    BY <1>1, <1>9 DEF ReadHole, WriteQuantum, IInv, SlotInv, Holding
  <2>2. Within(call[t]) \in Calls
    BY <2>1, WithinCuts
  <2>3. call' = call \/ call' = [call EXCEPT ![t] = Within(call[t])]
    BY <1>9 DEF ReadHole, WriteQuantum, Oops
  <2> QED BY <1>1, <2>2, <2>3
<1>10. ASSUME NEW t \in Threads, Copy(t)
       PROVE  call' \in [Threads -> Calls]
  <2>1. call' = call \/ call' = [call EXCEPT ![t].pos = call[t].pos + call[t].count]
    BY <1>10 DEF Copy, Oops
  <2> QED BY <1>1, <2>1 DEF Calls
<1> QED BY <1>1, <1>4, <1>5, <1>6, <1>7, <1>8, <1>9, <1>10, Writers_call

LEMMA CursorType ==
  ASSUME IInv, [Next]_vars
  PROVE  cursor' \in [Proc -> Pointer]
<1>1. cursor \in [Proc -> Pointer] /\ nxt \in [Addr -> Addr \union {NULL}]
      /\ container.data \in Pointer /\ live \in SUBSET Addr
  BY DEF IInv, TypeOK
<1> USE DEF Proc, Pointer
<1>2. CASE ExitBegin
  BY <1>1, <1>2 DEF ExitBegin
<1>3. ASSUME NEW t \in Threads, NEW m \in Modes, MevOpen(t, m)
      PROVE  cursor' \in [Proc -> Pointer]
  BY <1>1, <1>3 DEF MevOpen
<1>4. ASSUME NEW p \in Proc, TrimNode(p)
      PROVE  cursor' \in [Proc -> Pointer]
  BY <1>1, <1>4 DEF TrimNode, Oops
<1>5. ASSUME NEW t \in Threads, FollowHead(t) \/ FollowNext(t) \/ Up(t)
      PROVE  cursor' \in [Proc -> Pointer]
  BY <1>1, <1>5 DEF FollowHead, FollowNext, Up, NewQset, Oops
<1> QED BY <1>1, <1>2, <1>3, <1>4, <1>5, Writers_cursor

LEMMA ContainerType ==
  ASSUME IInv, [Next]_vars
  PROVE  container' \in [data : Pointer, quantum : Quanta, qset : Qsets, size : Nat]
<1>1. container \in [data : Pointer, quantum : Quanta, qset : Qsets, size : Nat]
  BY DEF IInv, TypeOK
<1> USE DEF Pointer
<1>2. CASE InitModule
  BY <1>2, Geometries DEF InitModule, RawContainers
<1>3. ASSUME NEW p \in Proc, TrimReset(p)
      PROVE  container' \in [data : Pointer, quantum : Quanta, qset : Qsets, size : Nat]
  BY <1>3, Geometries DEF TrimReset, ResetTo
<1>4. ASSUME NEW t \in Threads, FollowHead(t)
      PROVE  container' \in [data : Pointer, quantum : Quanta, qset : Qsets, size : Nat]
  BY <1>1, <1>4 DEF FollowHead, Oops
<1>5. ASSUME NEW t \in Threads, Commit(t)
      PROVE  container' \in [data : Pointer, quantum : Quanta, qset : Qsets, size : Nat]
  <2>1. call[t].pos \in Nat
    BY DEF IInv, TypeOK, Calls
  <2>2. container' = container \/ container' = [container EXCEPT !.size = call[t].pos]
    BY <1>1, <1>5 DEF Commit
  <2> QED BY <1>1, <2>1, <2>2
<1> QED BY <1>1, <1>2, <1>3, <1>4, <1>5, Writers_container

\* Arrays: as memset() leaves one, and with one more quantum.
LEMMA EmptyArray ==
  ASSUME NEW n \in Qsets
  PROVE  [s \in 0 .. n - 1 |-> NULL] \in Arrays
<1>1. [s \in 0 .. n - 1 |-> NULL] \in [0 .. n - 1 -> Quanta \union {NULL}]
  OBVIOUS
<1> QED BY <1>1 DEF Arrays

LEMMA ArrayGrows ==
  ASSUME NEW f \in Arrays, NEW s, NEW q \in Quanta
  PROVE  [f EXCEPT ![s] = q] \in Arrays
<1>1. PICK n \in Qsets : f \in [0 .. n - 1 -> Quanta \union {NULL}]
  BY DEF Arrays
<1>2. [f EXCEPT ![s] = q] \in [0 .. n - 1 -> Quanta \union {NULL}]
  BY <1>1
<1> QED BY <1>2 DEF Arrays

LEMMA HeapType ==
  ASSUME IInv, [Next]_vars
  PROVE  /\ live' \in SUBSET Addr /\ freed' \in SUBSET Addr
         /\ nxt' \in [Addr -> Addr \union {NULL}]
         /\ data' \in [Addr -> Arrays \union {NULL}]
<1>1. /\ live \in SUBSET Addr /\ freed \in SUBSET Addr
      /\ nxt \in [Addr -> Addr \union {NULL}]
  BY DEF IInv, TypeOK
<1>2. data \in [Addr -> Arrays \union {NULL}]
  BY DEF IInv, TypeOK
<1>3. live' \in SUBSET Addr
  BY <1>1, Writers_live DEF TrimNode, FollowHead, FollowNext, NewQset, Oops, heap
<1>4. freed' \in SUBSET Addr
  BY <1>1, Writers_freed DEF TrimNode, Oops, heap
<1>5. nxt' \in [Addr -> Addr \union {NULL}]
  <2>1. ASSUME NEW p \in Proc, TrimNode(p) PROVE nxt' \in [Addr -> Addr \union {NULL}]
    BY <1>1, <2>1 DEF TrimNode, Oops, heap
  <2>2. ASSUME NEW t \in Threads, FollowNext(t) PROVE nxt' \in [Addr -> Addr \union {NULL}]
    BY <1>1, <2>2 DEF FollowNext, NewQset, Oops, heap
  <2> QED BY <1>1, <2>1, <2>2, Writers_nxt
<1>6. data' \in [Addr -> Arrays \union {NULL}]
  <2>1. ASSUME NEW t \in Threads, WriteQuantum(t) PROVE data' \in [Addr -> Arrays \union {NULL}]
    <3>1. CASE cursor[t] \notin live \/ data' = data
      BY <1>2, <2>1, <3>1 DEF WriteQuantum, Oops, heap
    <3>2. CASE cursor[t] \in live /\ data' # data
      <4>1. /\ data' = [data EXCEPT ![cursor[t]] =
                          [data[cursor[t]] EXCEPT ![SPos(call[t])] = call[t].quantum]]
            /\ call[t].quantum \in Quanta /\ data[cursor[t]] # NULL
        BY <2>1, <3>2 DEF WriteQuantum, Oops, heap, IInv, SlotInv, TypeOK, Calls
      <4>2. cursor[t] \in Addr /\ data[cursor[t]] \in Arrays
        BY <1>1, <1>2, <3>2, <4>1
      <4>3. [data[cursor[t]] EXCEPT ![SPos(call[t])] = call[t].quantum] \in Arrays
        BY <4>1, <4>2, ArrayGrows
      <4> QED BY <1>2, <4>1, <4>3
    <3> QED BY <3>1, <3>2
  <2>2. ASSUME NEW t \in Threads, WriteArray(t) PROVE data' \in [Addr -> Arrays \union {NULL}]
    <3>1. call[t].qset \in Qsets
      BY DEF IInv, TypeOK, Calls
    <3>2. [s \in 0 .. call[t].qset - 1 |-> NULL] \in Arrays
      BY <3>1, EmptyArray
    <3> QED BY <1>2, <2>2, <3>2 DEF WriteArray, Oops, heap
  <2>3. ASSUME NEW p \in Proc, TrimNode(p) PROVE data' \in [Addr -> Arrays \union {NULL}]
    BY <1>2, <2>3 DEF TrimNode, Oops, heap
  <2>4. ASSUME NEW t \in Threads, FollowHead(t) \/ FollowNext(t)
        PROVE  data' \in [Addr -> Arrays \union {NULL}]
    BY <1>2, <2>4 DEF FollowHead, FollowNext, NewQset, Oops, heap
  <2> QED BY <1>2, <2>1, <2>2, <2>3, <2>4, Writers_data
<1> QED BY <1>3, <1>4, <1>5, <1>6

LEMMA SemaphoreType ==
  ASSUME IInv, [Next]_vars
  PROVE  sem' \in Nat /\ waiters' \in Seq(Threads) /\ sem_ready' \in BOOLEAN
<1>1. sem \in Nat /\ waiters \in Seq(Threads) /\ sem_ready \in BOOLEAN
  BY DEF IInv, TypeOK
<1>2. sem' \in Nat
  <2>1. CASE InitModule
    BY <2>1 DEF InitModule
  <2>2. CASE SemaInit
    BY <2>2 DEF SemaInit
  <2>3. ASSUME NEW t \in Threads, DownInterruptible(t) \/ Up(t) PROVE sem' \in Nat
    BY <1>1, <2>3 DEF DownInterruptible, Up, Oops, semaphore
  <2> QED BY <1>1, <2>1, <2>2, <2>3, Writers_sem
<1>3. waiters' \in Seq(Threads)
  <2>1. CASE InitModule \/ SemaInit
    BY <2>1, EmptySeq DEF InitModule, SemaInit
  <2>2. ASSUME NEW t \in Threads, DownInterruptible(t) PROVE waiters' \in Seq(Threads)
    BY <1>1, <2>2 DEF DownInterruptible
  <2>3. ASSUME NEW t \in Threads, Interrupted(t) PROVE waiters' \in Seq(Threads)
    BY <1>1, <2>3, RemoveAtProperties DEF Interrupted
  <2>4. ASSUME NEW t \in Threads, Up(t) PROVE waiters' \in Seq(Threads)
    <3>1. waiters' = waiters \/ (waiters # <<>> /\ waiters' = Tail(waiters))
      BY <2>4 DEF Up, Oops, semaphore
    <3> QED BY <1>1, <3>1, HeadTailProperties
  <2> QED BY <1>1, <2>1, <2>2, <2>3, <2>4, Writers_waiters
<1>4. sem_ready' \in BOOLEAN
  BY <1>1, Writers_sem_ready DEF InitModule, SemaInit
<1> QED BY <1>2, <1>3, <1>4

LEMMA RegionsType ==
  ASSUME IInv, [Next]_vars
  PROVE  regions' \in 0 .. MaxRegions
<1>1. regions \in 0 .. MaxRegions
  BY DEF IInv, TypeOK
<1>2. CASE InitModule \/ InitFails
  BY <1>1, <1>2 DEF InitModule, InitFails, Least
<1>3. CASE ExitEnd
  BY <1>1, <1>3 DEF ExitEnd, IInv, PlaceInv
<1> QED BY <1>1, <1>2, <1>3, Writers_regions

LEMMA TypeStep ==
  ASSUME IInv, [Next]_vars
  PROVE  TypeOK'
<1>1. /\ mode \in [Threads -> Modes] /\ fault \in Faults
      /\ formatted \in BOOLEAN /\ overlap \in BOOLEAN /\ early \in BOOLEAN
      /\ sem_ready \in BOOLEAN
  BY DEF IInv, TypeOK
<1>2. mode' \in [Threads -> Modes]
  <2>1. ASSUME NEW t \in Threads, NEW m \in Modes, MevOpen(t, m)
        PROVE  mode' \in [Threads -> Modes]
    BY <1>1, <2>1 DEF MevOpen
  <2>2. ASSUME NEW t \in Threads, MevRelease(t) PROVE mode' \in [Threads -> Modes]
    BY <1>1, <2>2 DEF MevRelease, Modes
  <2> QED BY <1>1, <2>1, <2>2, Writers_mode
<1>7. turns' \in [Proc -> Qsets]
  <2>1. turns \in [Proc -> Qsets] /\ container.qset \in Qsets /\ 0 \in Qsets
    BY Geometries DEF IInv, TypeOK
  <2>2. ASSUME NEW t \in Threads, NEW m \in Modes, MevOpen(t, m)
        PROVE  turns' \in [Proc -> Qsets]
    BY <2>1, <2>2 DEF MevOpen
  <2>3. ASSUME NEW p \in Proc, TrimReset(p) PROVE turns' \in [Proc -> Qsets]
    BY <2>1, <2>3 DEF TrimReset, ResetTo
  <2> QED BY <2>1, <2>2, <2>3, Writers_turns DEF ExitBegin
<1>3. fault' \in Faults
  BY <1>1, FaultSteps DEF Faults, Misuse
<1>4. formatted' \in BOOLEAN
  BY <1>1, Writers_formatted DEF InitModule, TrimReset, ResetTo
<1>5. overlap' \in BOOLEAN
  BY <1>1, Writers_overlap DEF MevOpen, MevCall
<1>6. early' \in BOOLEAN
  BY <1>1, Writers_early DEF DownInterruptible
<1> QED
  BY <1>2, <1>3, <1>4, <1>5, <1>6, <1>7, PcType, CallType, CursorType, ContainerType, HeapType,
     SemaphoreType, RegionsType
  DEF TypeOK

-----------------------------------------------------------------------------
(***************************************************************************)
(* Places and the queue.                                                   *)
(***************************************************************************)
\* What up() does when the kernel survives it.
LEMMA UpEffect ==
  ASSUME IInv, NEW t \in Threads, Up(t)
  PROVE  \/ Oops("semaphore") /\ ~sem_ready
         \/ /\ waiters = <<>> /\ UNCHANGED waiters
            /\ sem' = sem + 1
            /\ pc' = [pc EXCEPT ![t] = "idle"]
         \/ /\ waiters # <<>> /\ waiters' = Tail(waiters)
            /\ UNCHANGED sem
            /\ \E u \in Threads : /\ u = Head(waiters) /\ u = waiters[1] /\ u # t
                                 /\ pc[u] = "wait"
                                 /\ pc' = [pc EXCEPT ![t] = "idle", ![u] = Entry(u)]
<1>1. pc[t] = "up" /\ waiters \in Seq(Threads)
  BY DEF IInv, TypeOK, Up
<1>2. CASE ~sem_ready /\ Oops("semaphore")
  BY <1>2
<1>3. CASE ~(~sem_ready /\ Oops("semaphore"))
  <2>1. CASE waiters = <<>>
    <3>1. UNCHANGED waiters /\ sem' = sem + 1 /\ pc' = [pc EXCEPT ![t] = "idle"]
      BY <1>3, <2>1 DEF Up, Goto
    <3> QED BY <2>1, <3>1
  <2>2. CASE waiters # <<>>
    <3>1. /\ waiters' = Tail(waiters) /\ UNCHANGED sem
          /\ pc' = [pc EXCEPT ![t] = "idle", ![Head(waiters)] = Entry(Head(waiters))]
      BY <1>3, <2>2 DEF Up
    <3>2. Head(waiters) \in Threads /\ Head(waiters) = waiters[1] /\ 1 \in 1 .. Len(waiters)
      BY <1>1, <2>2, HeadTailProperties, EmptySeq
    <3>3. pc[waiters[1]] = "wait"
      BY <3>2 DEF IInv, QueueInv
    <3>4. Head(waiters) # t
      BY <1>1, <3>2, <3>3
    <3> QED BY <2>2, <3>1, <3>2, <3>3, <3>4
  <2> QED BY <2>1, <2>2
<1> QED BY <1>2, <1>3

LEMMA PlaceStep ==
  ASSUME IInv, [Next]_vars
  PROVE  PlaceInv'
<1>1. /\ pc \in [Proc -> InCall \union {"closed", "idle", "trim", "unloaded", "adding",
                                        "loaded", "del"}]
      /\ cursor \in [Proc -> Pointer]
      /\ regions \in Nat /\ MaxRegions \in Nat
  BY DEF IInv, TypeOK
<1>2. PlaceInv
  BY DEF IInv
<1> USE DEF PlaceInv, Goto, Oops, Proc, InCall, Section, Holding, heap, semaphore
<1>3. ASSUME NEW t \in Threads, UserStep(t) PROVE PlaceInv'
  <2>1. ASSUME NEW m \in Modes, MevOpen(t, m) PROVE PlaceInv'
    BY <1>1, <1>2, <2>1 DEF MevOpen
  <2>2. CASE MevRelease(t)
    BY <1>1, <1>2, <2>2 DEF MevRelease
  <2>3. ASSUME NEW op \in Operations, NEW pos \in Positions, NEW count \in Counts,
               MevCall(t, op, pos, count)
        PROVE  PlaceInv'
    BY <1>1, <1>2, <2>3 DEF MevCall
  <2>4. CASE Interrupted(t)
    BY <1>1, <1>2, <2>4 DEF Interrupted
  <2> QED BY <1>3, <2>1, <2>2, <2>3, <2>4 DEF UserStep
<1>4. CASE LoaderStep
  <2>1. CASE InitFails \/ InitModule \/ SemaInit
    BY <1>1, <1>2, <2>1 DEF InitFails, InitModule, SemaInit, Least
  <2>2. CASE ExitBegin \/ ExitEnd
    BY <1>1, <1>2, <2>2 DEF ExitBegin, ExitEnd
  <2>3. CASE TrimNode(Loader)
    BY <1>1, <1>2, <2>3 DEF TrimNode
  <2>4. CASE TrimReset(Loader)
    BY <1>1, <1>2, <2>4 DEF TrimReset, ResetTo
  <2> QED BY <1>4, <2>1, <2>2, <2>3, <2>4 DEF LoaderStep
<1>5. ASSUME NEW t \in Threads, Up(t) PROVE PlaceInv'
  <2>1. regions' = regions /\ pc[t] = "up"
    BY <1>5 DEF Up
  <2>2. CASE Oops("semaphore")
    BY <1>2, <2>2
  <2>3. CASE ~Oops("semaphore")
    <3>1. cursor' = [cursor EXCEPT ![t] = NULL]
      BY <1>5, <2>3 DEF Up
    <3>2. /\ pc'[t] = "idle"
          /\ \A q \in Proc \ {t} : \/ pc'[q] = pc[q]
                                   \/ /\ q \in Threads /\ pc[q] = "wait"
                                      /\ pc'[q] \in {"eof", "head"}
      BY <1>1, <1>5, <2>3, UpEffect DEF Entry
    <3>3. pc[Loader] \in {"adding", "loaded"} /\ pc'[Loader] = pc[Loader]
      BY <1>2, <2>1, <3>2
    <3>4. \A q \in Threads : pc'[q] \in InCall \union {"closed", "idle", "trim"}
      BY <1>2, <3>2
    <3>5. ASSUME NEW q \in Proc, pc'[q] \notin Holding \union {"trim", "up"}
          PROVE  cursor'[q] = NULL
      <4>1. CASE q = t
        BY <1>1, <3>1, <4>1
      <4>2. CASE q # t
        BY <1>1, <1>2, <3>1, <3>2, <3>5, <4>2
      <4> QED BY <4>1, <4>2
    <3> QED BY <1>2, <2>1, <3>3, <3>4, <3>5
  <2> QED BY <2>2, <2>3
<1>6. ASSUME NEW t \in Threads, TrimNode(t) \/ TrimReset(t) PROVE PlaceInv'
  BY <1>1, <1>2, <1>6 DEF TrimNode, TrimReset, ResetTo
<1>7. ASSUME NEW t \in Threads, DownInterruptible(t) \/ EndOfFile(t) \/ Clamp(t) PROVE PlaceInv'
  BY <1>1, <1>2, <1>7 DEF DownInterruptible, EndOfFile, Clamp, Entry
<1>8. ASSUME NEW t \in Threads, FollowHead(t) \/ FollowNext(t) \/ FollowEnd(t) PROVE PlaceInv'
  BY <1>1, <1>2, <1>8 DEF FollowHead, FollowNext, FollowEnd
<1>9. ASSUME NEW t \in Threads, ReadHole(t) \/ WriteArray(t) \/ WriteQuantum(t) PROVE PlaceInv'
  BY <1>1, <1>2, <1>9 DEF ReadHole, WriteArray, WriteQuantum
<1>10. ASSUME NEW t \in Threads, Copy(t) \/ Commit(t) PROVE PlaceInv'
  BY <1>1, <1>2, <1>10 DEF Copy, Commit
<1>11. CASE UNCHANGED vars
  BY <1>2, <1>11 DEF vars
<1> QED
  BY <1>3, <1>4, <1>5, <1>6, <1>7, <1>8, <1>9, <1>10, <1>11 DEF Next, Advance, Halted

LEMMA QueueStep ==
  ASSUME IInv, [Next]_vars
  PROVE  QueueInv'
<1>1. /\ pc \in [Proc -> InCall \union {"closed", "idle", "trim", "unloaded", "adding",
                                        "loaded", "del"}]
      /\ waiters \in Seq(Threads) /\ Len(waiters) \in Nat
      /\ \A i \in 1 .. Len(waiters) : waiters[i] \in Threads
  BY LenProperties, ElementOfSeq DEF IInv, TypeOK
<1>2. QueueInv
  BY DEF IInv
<1> USE DEF QueueInv, Goto, Oops, Proc, semaphore
<1>3. CASE InitModule \/ SemaInit
  BY <1>3 DEF InitModule, SemaInit
<1>4. ASSUME NEW t \in Threads, DownInterruptible(t) PROVE QueueInv'
  <2>1. CASE waiters' = waiters
    BY <1>1, <1>2, <1>4, <2>1 DEF DownInterruptible
  <2>2. CASE waiters' # waiters
    <3>1. waiters' = Append(waiters, t) /\ pc' = [pc EXCEPT ![t] = "wait"] /\ pc[t] = "down"
      BY <1>4, <2>2 DEF DownInterruptible
    <3>2. /\ Len(waiters') = Len(waiters) + 1
          /\ waiters'[Len(waiters) + 1] = t
          /\ \A i \in 1 .. Len(waiters) : waiters'[i] = waiters[i]
      BY <1>1, <3>1
    <3> QED BY <1>1, <1>2, <3>1, <3>2
  <2> QED BY <2>1, <2>2
<1>5. ASSUME NEW t \in Threads, Interrupted(t) PROVE QueueInv'
  <2>1. PICK i \in 1 .. Len(waiters) : waiters[i] = t /\ waiters' = RemoveAt(waiters, i)
    BY <1>5 DEF Interrupted
  <2>2. /\ Len(waiters') = Len(waiters) - 1
        /\ \A j \in 1 .. Len(waiters) - 1 :
             waiters'[j] = IF j < i THEN waiters[j] ELSE waiters[j + 1]
    BY <1>1, <2>1, RemoveAtProperties
  <2>3. pc' = [pc EXCEPT ![t] = "idle"]
    BY <1>5 DEF Interrupted
  <2>4. ASSUME NEW j \in 1 .. Len(waiters')
        PROVE  /\ (IF j < i THEN j ELSE j + 1) \in 1 .. Len(waiters)
               /\ waiters'[j] = waiters[IF j < i THEN j ELSE j + 1]
               /\ waiters'[j] # t
    BY <1>1, <1>2, <2>1, <2>2
  <2>5. \A j \in 1 .. Len(waiters') : pc'[waiters'[j]] = "wait"
    BY <1>1, <1>2, <2>3, <2>4
  <2>6. ASSUME NEW j \in 1 .. Len(waiters'), NEW k \in 1 .. Len(waiters'),
               waiters'[j] = waiters'[k]
        PROVE  j = k
    <3>1. (IF j < i THEN j ELSE j + 1) = (IF k < i THEN k ELSE k + 1)
      BY <1>2, <2>4, <2>6
    <3> QED BY <3>1, <1>1, <2>2
  <2> QED BY <2>5, <2>6
<1>6. ASSUME NEW t \in Threads, Up(t) PROVE QueueInv'
  <2>1. CASE Oops("semaphore")
    BY <1>2, <2>1
  <2>2. CASE waiters' = waiters /\ pc' = [pc EXCEPT ![t] = "idle"]
    BY <1>1, <1>2, <1>6, <2>2 DEF Up
  <2>3. ASSUME NEW u \in Threads, waiters # <<>>, waiters' = Tail(waiters),
               u = waiters[1], u # t,
               pc' = [pc EXCEPT ![t] = "idle", ![u] = Entry(u)]
        PROVE  QueueInv'
    <3>1. /\ Len(waiters') = Len(waiters) - 1
          /\ \A j \in 1 .. Len(waiters') : waiters'[j] = waiters[j + 1]
      BY <1>1, <2>3, HeadTailProperties
    <3>2. pc[t] = "up"
      BY <1>6 DEF Up
    <3>3. ASSUME NEW j \in 1 .. Len(waiters')
          PROVE  /\ j + 1 \in 1 .. Len(waiters) /\ waiters'[j] = waiters[j + 1]
                 /\ waiters'[j] # u /\ waiters'[j] # t
      BY <1>1, <1>2, <2>3, <3>1, <3>2
    <3> QED BY <1>1, <1>2, <2>3, <3>1, <3>3
  <2> QED BY <1>6, <2>1, <2>2, <2>3, UpEffect
<1>7. CASE /\ waiters' = waiters
           /\ \A p \in Proc : pc[p] = "wait" => pc'[p] = "wait"
  BY <1>1, <1>2, <1>7
<1>8. ASSUME NEW t \in Threads, UserStep(t), ~Interrupted(t)
      PROVE  /\ waiters' = waiters
             /\ \A p \in Proc : pc[p] = "wait" => pc'[p] = "wait"
  BY <1>1, <1>8 DEF UserStep, MevOpen, MevRelease, MevCall
<1>9. ASSUME LoaderStep, ~InitModule, ~SemaInit
      PROVE  /\ waiters' = waiters
             /\ \A p \in Proc : pc[p] = "wait" => pc'[p] = "wait"
  BY <1>1, <1>9 DEF LoaderStep, InitFails, ExitBegin, ExitEnd, TrimNode, TrimReset, ResetTo
<1>10. ASSUME NEW t \in Threads, Advance(t), ~DownInterruptible(t), ~Up(t)
       PROVE  /\ waiters' = waiters
              /\ \A p \in Proc : pc[p] = "wait" => pc'[p] = "wait"
  BY <1>1, <1>10 DEF Advance, TrimNode, TrimReset, ResetTo, EndOfFile, Clamp, FollowHead,
    FollowNext, FollowEnd, ReadHole, WriteArray, WriteQuantum, Copy, Commit
<1>11. CASE UNCHANGED vars
  BY <1>2, <1>11 DEF vars
<1> QED
  BY <1>3, <1>4, <1>5, <1>6, <1>7, <1>8, <1>9, <1>10, <1>11 DEF Next, Halted

-----------------------------------------------------------------------------
(***************************************************************************)
(* The semaphore.                                                          *)
(***************************************************************************)
LEMMA LockStep ==
  ASSUME IInv, [Next]_vars
  PROVE  LockInv'
<1>1. /\ pc \in [Proc -> InCall \union {"closed", "idle", "trim", "unloaded", "adding",
                                        "loaded", "del"}]
      /\ sem \in Nat
  BY DEF IInv, TypeOK
<1>2. LockInv /\ PlaceInv
  BY DEF IInv
<1> USE DEF LockInv, Goto, Oops, Proc, Section, semaphore
<1>3. CASE InitModule
  BY <1>1, <1>2, <1>3 DEF InitModule, PlaceInv
<1>4. CASE SemaInit
  BY <1>1, <1>2, <1>4 DEF SemaInit
<1>5. ASSUME NEW t \in Threads, DownInterruptible(t) PROVE LockInv'
  <2>1. pc'[Loader] = pc[Loader] /\ sem_ready' = sem_ready /\ pc[t] = "down"
    BY <1>1, <1>5 DEF DownInterruptible
  <2>2. CASE early'
    BY <1>2, <2>1, <2>2
  <2>3. ASSUME ~early' PROVE ~early /\ sem_ready
    BY <1>5, <2>3 DEF DownInterruptible
  <2>4. CASE ~early' /\ sem = 0
    <3>1. sem' = sem /\ pc' = [pc EXCEPT ![t] = "wait"]
      BY <1>5, <2>3, <2>4 DEF DownInterruptible
    <3> QED BY <1>1, <1>2, <2>1, <2>3, <2>4, <3>1
  <2>5. CASE ~early' /\ sem > 0
    <3>1. sem' = sem - 1 /\ pc' = [pc EXCEPT ![t] = Entry(t)]
      BY <1>5, <2>5 DEF DownInterruptible
    <3>2. sem = 1 /\ \A u \in Threads : pc[u] \notin Section
      BY <1>1, <1>2, <2>3, <2>5
    <3>3. Entry(t) \in Section
      BY DEF Entry
    <3> QED BY <1>1, <1>2, <2>1, <2>3, <2>5, <3>1, <3>2, <3>3
  <2> QED BY <1>1, <2>2, <2>4, <2>5
<1>6. ASSUME NEW t \in Threads, Up(t) PROVE LockInv'
  <2>1. UNCHANGED <<sem_ready, early>> /\ pc[t] = "up"
    BY <1>6 DEF Up
  <2>2. CASE Oops("semaphore")
    BY <1>2, <2>2
  <2>3. CASE sem' = sem + 1 /\ pc' = [pc EXCEPT ![t] = "idle"]
    BY <1>1, <1>2, <2>1, <2>3
  <2>4. ASSUME NEW u \in Threads, u # t, UNCHANGED sem,
               pc' = [pc EXCEPT ![t] = "idle", ![u] = Entry(u)]
        PROVE  LockInv'
    BY <1>1, <1>2, <2>1, <2>4 DEF Entry
  <2> QED BY <1>6, <2>2, <2>3, <2>4, UpEffect
<1>7. ASSUME sem' = sem, sem_ready' = sem_ready, early' = early,
             pc'[Loader] = "adding" => pc[Loader] = "adding",
             \A t \in Threads : pc'[t] \in Section => pc[t] \in Section
      PROVE  LockInv'
  BY <1>2, <1>7
<1>8. ASSUME NEW t \in Threads, UserStep(t) PROVE LockInv'
  BY <1>1, <1>7, <1>8 DEF UserStep, MevOpen, MevRelease, MevCall, Interrupted
<1>9. ASSUME LoaderStep, ~InitModule, ~SemaInit PROVE LockInv'
  BY <1>1, <1>7, <1>9
  DEF LoaderStep, InitFails, ExitBegin, ExitEnd, TrimNode, TrimReset, ResetTo
<1>10. ASSUME NEW t \in Threads, Advance(t), ~DownInterruptible(t), ~Up(t) PROVE LockInv'
  BY <1>1, <1>7, <1>10 DEF Advance, TrimNode, TrimReset, ResetTo, EndOfFile, Clamp,
    FollowHead, FollowNext, FollowEnd, ReadHole, WriteArray, WriteQuantum, Copy, Commit
<1>11. CASE UNCHANGED vars
  BY <1>2, <1>11 DEF vars
<1> QED BY <1>3, <1>4, <1>5, <1>6, <1>8, <1>9, <1>10, <1>11 DEF Next, Halted

-----------------------------------------------------------------------------
(***************************************************************************)
(* Memory.                                                                 *)
(***************************************************************************)
\* The three ways the heap changes.
\* A turn of mev_trim()'s loop that frees its node, and one that faults.
LEMMA TrimEffect ==
  ASSUME NEW p \in Proc, TrimNode(p)
  PROVE  \/ UNCHANGED <<pc, cursor, call, container, live, freed, nxt, data>>
         \/ /\ cursor[p] \in live /\ live' # live
            /\ live' = live \ {cursor[p]} /\ freed' = freed \union {cursor[p]}
            /\ cursor' = [cursor EXCEPT ![p] = nxt[cursor[p]]]
            /\ nxt' = [nxt EXCEPT ![cursor[p]] = NULL]
            /\ data' = [data EXCEPT ![cursor[p]] = NULL]
            /\ UNCHANGED <<pc, call, container, turns, fault>>
BY DEF TrimNode, Oops, heap

LEMMA HeapSteps ==
  ASSUME [Next]_vars
  PROVE  \/ UNCHANGED <<live, freed, nxt>>
         \/ \E p \in Proc : TrimNode(p) /\ live' # live
         \/ \E t \in Threads, a \in Addr : /\ FollowHead(t) \/ FollowNext(t)
                                          /\ NewQset(a) /\ cursor' = [cursor EXCEPT ![t] = a]
<1>1. ASSUME NEW p \in Proc, TrimNode(p), live' = live
      PROVE  UNCHANGED <<live, freed, nxt>>
  BY <1>1, TrimEffect
<1>2. ASSUME NEW t \in Threads, FollowHead(t)
      PROVE  \/ UNCHANGED <<live, freed, nxt>>
             \/ \E a \in Addr : NewQset(a) /\ cursor' = [cursor EXCEPT ![t] = a]
  BY <1>2 DEF FollowHead, Oops, heap
<1>3. ASSUME NEW t \in Threads, FollowNext(t)
      PROVE  \/ UNCHANGED <<live, freed, nxt>>
             \/ \E a \in Addr : NewQset(a) /\ cursor' = [cursor EXCEPT ![t] = a]
  BY <1>3 DEF FollowNext, Oops, heap
<1> QED BY <1>1, <1>2, <1>3, Writers_live, Writers_freed, Writers_nxt

LEMMA AddressStep ==
  ASSUME IInv, [Next]_vars
  PROVE  AddressInv'
<1> DEFINE Known == live \union freed \union {NULL, WILD}
<1>1. /\ live \in SUBSET Addr /\ freed \in SUBSET Addr
      /\ nxt \in [Addr -> Addr \union {NULL}] /\ cursor \in [Proc -> Pointer]
      /\ container \in [data : Pointer, quantum : Quanta, qset : Qsets, size : Nat]
  BY DEF IInv, TypeOK
<1>2. AddressInv
  BY DEF IInv
<1>3. Known \subseteq Known' /\ live' \intersect freed' = {}
  BY <1>1, <1>2, HeapSteps, TrimEffect DEF NewQset, AddressInv
<1>4. container.data \in Known /\ (\A a \in Addr : nxt[a] \in Known)
      /\ (\A p \in Proc : cursor[p] \in Known)
  BY <1>2 DEF AddressInv
<1> HIDE DEF Known
<1>5. container'.data \in Known'
  <2>1. CASE InitModule
    BY <2>1 DEF InitModule, RawContainers, Known
  <2>2. ASSUME NEW p \in Proc, TrimReset(p) PROVE container'.data \in Known'
    BY <2>2 DEF TrimReset, ResetTo, Known
  <2>3. ASSUME NEW t \in Threads, FollowHead(t) PROVE container'.data \in Known'
    BY <1>1, <1>3, <1>4, <2>3 DEF FollowHead, NewQset, Oops, Known
  <2>4. ASSUME NEW t \in Threads, Commit(t) PROVE container'.data \in Known'
    BY <1>1, <1>3, <1>4, <2>4 DEF Commit
  <2> QED BY <1>3, <1>4, <2>1, <2>2, <2>3, <2>4, Writers_container
<1>6. \A a \in Addr : nxt'[a] \in Known'
  <2>1. ASSUME NEW p \in Proc, TrimNode(p) PROVE \A a \in Addr : nxt'[a] \in Known'
    BY <1>1, <1>3, <1>4, <2>1 DEF TrimNode, Oops, heap, Known
  <2>2. ASSUME NEW t \in Threads, FollowNext(t) PROVE \A a \in Addr : nxt'[a] \in Known'
    BY <1>1, <1>3, <1>4, <2>2 DEF FollowNext, NewQset, Oops, heap, Known
  <2> QED BY <1>3, <1>4, <2>1, <2>2, Writers_nxt
<1>8. ASSUME NEW a \in Addr, a \notin live' PROVE nxt'[a] = NULL
  <2>1. a \notin live => nxt[a] = NULL
    BY <1>2 DEF AddressInv
  <2>2. ASSUME NEW p \in Proc, TrimNode(p) PROVE nxt'[a] = NULL
    BY <1>1, <1>8, <2>1, <2>2 DEF TrimNode, Oops, heap
  <2>3. ASSUME NEW t \in Threads, FollowNext(t) PROVE nxt'[a] = NULL
    BY <1>1, <1>8, <2>1, <2>3 DEF FollowNext, NewQset, Oops, heap
  <2>4. CASE nxt' = nxt
    <3>1. a \in live => \E p \in Proc : TrimNode(p)
      BY <1>8, HeapSteps DEF NewQset
    <3> QED BY <2>1, <2>2, <2>4, <3>1
  <2> QED BY <2>2, <2>3, <2>4, Writers_nxt
<1>7. \A p \in Proc : cursor'[p] \in Known'
  <2>1. CASE ExitBegin
    BY <1>1, <1>3, <1>4, <2>1 DEF ExitBegin, Proc
  <2>2. ASSUME NEW t \in Threads, NEW m \in Modes, MevOpen(t, m)
        PROVE  \A p \in Proc : cursor'[p] \in Known'
    BY <1>1, <1>3, <1>4, <2>2 DEF MevOpen
  <2>3. ASSUME NEW q \in Proc, TrimNode(q) PROVE \A p \in Proc : cursor'[p] \in Known'
    BY <1>1, <1>3, <1>4, <2>3 DEF TrimNode, Oops
  <2>4. ASSUME NEW t \in Threads, FollowHead(t) \/ FollowNext(t)
        PROVE  \A p \in Proc : cursor'[p] \in Known'
    BY <1>1, <1>3, <1>4, <2>4 DEF FollowHead, FollowNext, NewQset, Oops, Known
  <2>5. ASSUME NEW t \in Threads, Up(t) PROVE \A p \in Proc : cursor'[p] \in Known'
    BY <1>1, <1>3, <1>4, <2>5 DEF Up, Oops, Known
  <2> QED BY <1>3, <1>4, <2>1, <2>2, <2>3, <2>4, <2>5, Writers_cursor
<1> QED BY <1>3, <1>5, <1>6, <1>7, <1>8 DEF AddressInv, Known

\* A call keeps its geometry from the call on, and a call whose geometry has
\* no items gets no further than the division.
LEMMA SlotStep ==
  ASSUME IInv, [Next]_vars
  PROVE  SlotInv'
<1>1. /\ pc \in [Proc -> InCall \union {"closed", "idle", "trim", "unloaded", "adding",
                                        "loaded", "del"}]
      /\ call \in [Threads -> Calls] /\ cursor \in [Proc -> Pointer]
      /\ live \in SUBSET Addr
      /\ data \in [Addr -> Arrays \union {NULL}]
  BY DEF IInv, TypeOK
<1>2. SlotInv /\ AddressInv
  BY DEF IInv
<1>3. ASSUME NEW u \in Threads, pc'[u] \in Holding
      PROVE  ItemSize(call'[u]) # 0
  <2>1. ASSUME call'[u].quantum = call[u].quantum, call'[u].qset = call[u].qset
        PROVE  ItemSize(call'[u]) = ItemSize(call[u])
    BY <2>1 DEF ItemSize
  <2>2. pc[u] \in Holding => ItemSize(call[u]) # 0
    BY <1>2 DEF SlotInv
  <2> USE DEF Goto, Oops, Proc, Holding, Entry
  <2>3. CASE LoaderStep
    BY <1>1, <1>3, <2>2, <2>3 DEF LoaderStep, InitFails, InitModule, SemaInit, ExitBegin,
      ExitEnd, TrimNode, TrimReset, ResetTo
  <2>4. ASSUME NEW t \in Threads, UserStep(t)
        PROVE  ItemSize(call'[u]) # 0
    BY <1>1, <1>3, <2>2, <2>4 DEF UserStep, MevOpen, MevRelease, MevCall, Interrupted
  <2>5. ASSUME NEW t \in Threads,
               \/ TrimNode(t) \/ TrimReset(t) \/ DownInterruptible(t) \/ EndOfFile(t)
               \/ FollowEnd(t) \/ WriteArray(t) \/ Commit(t)
        PROVE  ItemSize(call'[u]) # 0
    BY <1>1, <1>3, <2>2, <2>5 DEF TrimNode, TrimReset, ResetTo, DownInterruptible,
      EndOfFile, FollowEnd, WriteArray, Commit
  <2>6. ASSUME NEW t \in Threads,
               \/ Clamp(t) \/ FollowNext(t) \/ ReadHole(t) \/ WriteQuantum(t) \/ Copy(t)
        PROVE  ItemSize(call'[u]) # 0
    <3>1. /\ call'[u].quantum = call[u].quantum /\ call'[u].qset = call[u].qset
          /\ pc[u] \in Holding
      BY <1>1, <1>3, <2>6 DEF Clamp, FollowNext, ReadHole, WriteQuantum, Copy, Within, Calls
    <3> QED BY <2>1, <2>2, <3>1
  <2>7. ASSUME NEW t \in Threads, FollowHead(t)
        PROVE  ItemSize(call'[u]) # 0
    <3>1. call'[u].quantum = call[u].quantum /\ call'[u].qset = call[u].qset
      BY <1>1, <2>7 DEF FollowHead, Calls
    <3>2. pc[u] \in Holding \/ ItemSize(call[u]) # 0
      BY <1>1, <1>3, <2>7 DEF FollowHead
    <3> QED BY <2>1, <2>2, <3>1, <3>2
  <2>8. ASSUME NEW t \in Threads, Up(t)
        PROVE  ItemSize(call'[u]) # 0
    <3>1. pc'[u] = pc[u] /\ call'[u] = call[u]
      <4>1. CASE Oops("semaphore")
        BY <4>1
      <4>2. CASE ~Oops("semaphore")
        <5>1. call' = [call EXCEPT ![t] = NoCall]
          BY <2>8, <4>2 DEF Up
        <5> QED BY <1>1, <1>3, <2>8, <4>2, <5>1, UpEffect
      <4> QED BY <4>1, <4>2
    <3> QED BY <1>3, <2>2, <3>1
  <2>9. CASE UNCHANGED vars
    BY <1>3, <2>2, <2>9 DEF vars
  <2> QED BY <2>3, <2>4, <2>5, <2>6, <2>7, <2>8, <2>9 DEF Next, Advance, Halted
<1>4. ASSUME NEW u \in Threads, pc'[u] \in {"quantum", "copy"}, cursor'[u] \in live'
      PROVE  /\ data'[cursor'[u]] # NULL
             /\ pc'[u] = "copy" => /\ SPos(call'[u]) \in DOMAIN data'[cursor'[u]]
                                  /\ data'[cursor'[u]][SPos(call'[u])] # NULL
  <2> DEFINE Goal == /\ data'[cursor'[u]] # NULL
                     /\ pc'[u] = "copy" => /\ SPos(call'[u]) \in DOMAIN data'[cursor'[u]]
                                          /\ data'[cursor'[u]][SPos(call'[u])] # NULL
  <2>1. pc[u] \in {"quantum", "copy"} /\ cursor[u] \in live =>
          /\ data[cursor[u]] # NULL
          /\ pc[u] = "copy" => /\ SPos(call[u]) \in DOMAIN data[cursor[u]]
                              /\ data[cursor[u]][SPos(call[u])] # NULL
    BY <1>2 DEF SlotInv
  <2>2. cursor[u] \in live \union freed \union {NULL, WILD}
    BY <1>2 DEF AddressInv, Proc
  <2> USE DEF Goto, Oops, Proc, Entry, heap
  <2>10. ASSUME pc'[u] = pc[u], call'[u] = call[u], cursor'[u] = cursor[u],
                cursor[u] \in live, data'[cursor[u]] = data[cursor[u]]
         PROVE  Goal
    BY <1>4, <2>1, <2>10
  <2> HIDE DEF Goal
  <2>3. ASSUME LoaderStep \/ UNCHANGED vars PROVE Goal
    <3>1. /\ pc'[u] = pc[u] /\ call'[u] = call[u] /\ cursor'[u] = cursor[u]
          /\ cursor[u] \in live /\ data'[cursor[u]] = data[cursor[u]]
      <4>1. CASE TrimNode(Loader)
        BY <1>1, <1>4, <4>1, MevAssumption, TrimEffect
      <4>2. CASE ~TrimNode(Loader)
        BY <1>1, <1>4, <2>3, <4>2, MevAssumption DEF LoaderStep, InitFails, InitModule,
          SemaInit, ExitBegin, ExitEnd, TrimReset, ResetTo, vars
      <4> QED BY <4>1, <4>2
    <3> QED BY <2>10, <3>1
  <2>4. ASSUME NEW t \in Threads, UserStep(t) PROVE Goal
    <3>1. /\ pc'[u] = pc[u] /\ call'[u] = call[u] /\ cursor'[u] = cursor[u]
          /\ cursor[u] \in live /\ data'[cursor[u]] = data[cursor[u]]
      BY <1>1, <1>4, <2>4 DEF UserStep, MevOpen, MevRelease, MevCall, Interrupted
    <3> QED BY <2>10, <3>1
  <2>5. ASSUME NEW t \in Threads,
               \/ TrimNode(t) \/ TrimReset(t) \/ DownInterruptible(t) \/ EndOfFile(t)
               \/ Clamp(t) \/ FollowEnd(t) \/ Copy(t) \/ Commit(t)
        PROVE  Goal
    <3>1. /\ pc'[u] = pc[u] /\ cursor'[u] = cursor[u]
          /\ cursor[u] \in live /\ data'[cursor[u]] = data[cursor[u]]
      BY <1>1, <1>4, <2>5 DEF TrimNode, TrimReset, ResetTo, DownInterruptible,
        EndOfFile, Clamp, FollowEnd, Copy, Commit
    <3>2. call'[u] = call[u]
      <4>1. u # t \/ call' = call
        BY <1>1, <1>4, <2>5 DEF TrimNode, TrimReset, ResetTo, DownInterruptible,
          EndOfFile, Clamp, FollowEnd, Copy, Commit
      <4>2. call' = call \/ \E c : call' = [call EXCEPT ![t] = c]
        BY <2>5 DEF TrimNode, TrimReset, ResetTo, DownInterruptible,
          EndOfFile, Clamp, FollowEnd, Copy, Commit
      <4> QED BY <1>1, <4>1, <4>2
    <3> QED BY <2>10, <3>1, <3>2
  <2>6. ASSUME NEW t \in Threads, FollowHead(t) \/ FollowNext(t) PROVE Goal
    <3>1. u # t /\ pc'[u] = pc[u] /\ cursor'[u] = cursor[u] /\ call'[u] = call[u]
      BY <1>1, <1>4, <2>6 DEF FollowHead, FollowNext
    <3>2. \/ data' = data /\ live' = live
          \/ \E a \in Addr \ (live \union freed) :
               data' = [data EXCEPT ![a] = NULL] /\ live' = live \union {a}
      BY <2>6 DEF FollowHead, FollowNext, NewQset
    <3>3. cursor[u] \in live \union freed \union {NULL, WILD} /\ cursor[u] \in live'
      BY <1>4, <2>2, <3>1
    <3>4. cursor[u] \in live /\ data'[cursor[u]] = data[cursor[u]]
      BY <1>1, <3>2, <3>3, MevAssumption
    <3> QED BY <2>10, <3>1, <3>4
  <2>7. ASSUME NEW t \in Threads, WriteArray(t) PROVE Goal
    <3>1. cursor' = cursor /\ live' = live /\ call' = call /\ cursor[u] \in Addr
      BY <1>1, <1>4, <2>7 DEF WriteArray
    <3>2. CASE u = t /\ pc'[u] # pc[u]
      <4>1. pc'[u] = "quantum" /\ cursor[u] \in live
        BY <1>1, <1>4, <2>7, <3>2 DEF WriteArray
      <4>2. \/ data' = data /\ data[cursor[u]] # NULL
            \/ data' = [data EXCEPT ![cursor[u]] = [s \in 0 .. call[u].qset - 1 |-> NULL]]
        BY <1>1, <1>4, <2>7, <3>2, <4>1 DEF WriteArray
      <4>3. [s \in 0 .. call[u].qset - 1 |-> NULL] # NULL
        <5>1. call[u].qset \in Qsets
          BY <1>1 DEF Calls
        <5> QED BY <5>1, EmptyArray, MevAssumption
      <4> QED BY <1>1, <3>1, <4>1, <4>2, <4>3 DEF Goal
    <3>3. CASE u # t \/ pc'[u] = pc[u]
      <4>1. pc'[u] = pc[u] /\ cursor[u] \in live
        BY <1>1, <1>4, <2>7, <3>1, <3>3 DEF WriteArray
      <4>2. data[cursor[u]] # NULL
        BY <1>4, <2>1, <4>1
      <4>3. data' = data \/ \E f : data' = [data EXCEPT ![cursor[t]] = f] /\ data[cursor[t]] = NULL
        BY <2>7 DEF WriteArray
      <4>4. data'[cursor[u]] = data[cursor[u]]
        BY <1>1, <3>1, <4>2, <4>3
      <4> QED BY <2>10, <3>1, <4>1, <4>4
    <3> QED BY <3>2, <3>3
  <2>8. ASSUME NEW t \in Threads, ReadHole(t) \/ WriteQuantum(t) PROVE Goal
    <3>1. cursor' = cursor /\ live' = live /\ cursor[u] \in live /\ cursor[u] \in Addr
      BY <1>1, <1>4, <2>8 DEF ReadHole, WriteQuantum
    <3>2. /\ t = u \/ call'[u] = call[u]
          /\ pc'[u] = pc[u] \/ (t = u /\ pc'[u] = "copy")
      BY <1>1, <1>4, <2>8 DEF ReadHole, WriteQuantum
    <3>3. \/ data' = data
          \/ /\ cursor[t] \in Addr /\ data[cursor[t]] # NULL
             /\ call[t].quantum \in Quanta
             /\ data' = [data EXCEPT ![cursor[t]] =
                            [data[cursor[t]] EXCEPT ![SPos(call[t])] = call[t].quantum]]
      BY <1>1, <1>2, <2>8 DEF ReadHole, WriteQuantum, SlotInv, Calls
    <3>4. ASSUME data[cursor[u]] # NULL
          PROVE  /\ data'[cursor[u]] # NULL
                 /\ DOMAIN data'[cursor[u]] = DOMAIN data[cursor[u]]
                 /\ \A s \in DOMAIN data[cursor[u]] :
                      data[cursor[u]][s] # NULL => data'[cursor[u]][s] # NULL
      <4>1. CASE data' = data
        BY <3>4, <4>1
      <4>2. CASE data' # data
        <5>1. CASE cursor[t] = cursor[u]
          <6>1. data'[cursor[u]] = [data[cursor[u]] EXCEPT ![SPos(call[t])] = call[t].quantum]
            BY <1>1, <3>3, <4>2, <5>1
          <6>2. data[cursor[u]] \in Arrays
            BY <1>1, <3>1, <3>4
          <6>6. call[t].quantum \in Quanta
            BY <3>3, <4>2
          <6>7. [data[cursor[u]] EXCEPT ![SPos(call[t])] = call[t].quantum] \in Arrays
            BY <6>2, <6>6, ArrayGrows
          <6>3. data'[cursor[u]] \in Arrays
            BY <6>1, <6>7
          <6>4. call[t].quantum # NULL
            BY <3>3, <4>2, MevAssumption
          <6>5. data'[cursor[u]] # NULL
            BY <6>3, MevAssumption
          <6> HIDE DEF SPos
          <6> QED BY <6>1, <6>4, <6>5
        <5>2. CASE cursor[t] # cursor[u]
          BY <1>1, <3>1, <3>3, <3>4, <4>2, <5>2
        <5> QED BY <5>1, <5>2
      <4> QED BY <4>1, <4>2
    <3>5. CASE t = u /\ pc'[u] # pc[u]
      <4>1. pc'[u] = "copy" /\ call'[u] = Within(call[u]) /\ pc[u] \in {"hole", "quantum"}
        BY <1>1, <2>8, <3>2, <3>5 DEF ReadHole, WriteQuantum
      <4>2. SPos(call'[u]) = SPos(call[u])
        <5>1. ItemSize(call[u]) # 0
          BY <1>2, <4>1 DEF SlotInv, Holding
        <5> QED BY <1>1, <4>1, <5>1, WithinCuts DEF SPos, ItemSize
      <4>3. /\ data[cursor[u]] # NULL /\ SPos(call[u]) \in DOMAIN data[cursor[u]]
            /\ \/ data[cursor[u]][SPos(call[u])] # NULL
               \/ data' = [data EXCEPT ![cursor[u]] =
                              [data[cursor[u]] EXCEPT ![SPos(call[u])] = call[u].quantum]]
        BY <1>1, <2>1, <2>8, <3>1, <3>5, <4>1 DEF ReadHole, WriteQuantum, Beyond
      <4>4. data'[cursor[u]][SPos(call[u])] # NULL
        <5>1. call[u].quantum # NULL
          BY <1>1, MevAssumption DEF Calls
        <5> QED BY <1>1, <3>1, <3>4, <4>3, <5>1
      <4> QED BY <3>1, <3>4, <4>2, <4>3, <4>4 DEF Goal
    <3>6. CASE pc'[u] = pc[u]
      <4>1. call'[u] = call[u]
        BY <1>1, <1>4, <2>8, <3>6 DEF ReadHole, WriteQuantum
      <4> QED BY <1>4, <2>1, <3>1, <3>4, <3>6, <4>1 DEF Goal
    <3> QED BY <3>2, <3>5, <3>6
  <2>9. ASSUME NEW t \in Threads, Up(t) PROVE Goal
    <3>1. data' = data /\ live' = live
      BY <2>9 DEF Up
    <3>2. pc'[u] = pc[u] /\ cursor'[u] = cursor[u] /\ call'[u] = call[u]
      <4>1. CASE Oops("semaphore")
        BY <1>4, <4>1
      <4>2. CASE ~Oops("semaphore")
        <5>1. cursor' = [cursor EXCEPT ![t] = NULL] /\ call' = [call EXCEPT ![t] = NoCall]
          BY <2>9, <4>2 DEF Up
        <5> QED BY <1>1, <1>4, <2>9, <4>2, <5>1, UpEffect
      <4> QED BY <4>1, <4>2
    <3> QED BY <1>4, <2>10, <3>1, <3>2
  <2>11. ASSUME NEW t \in Threads, Advance(t) PROVE Goal
    BY <2>5, <2>6, <2>7, <2>8, <2>9, <2>11, Zenon DEF Advance
  <2>12. Goal
    BY <2>3, <2>4, <2>11 DEF Next, Halted
  <2> QED BY <2>12 DEF Goal
<1> QED BY <1>3, <1>4 DEF SlotInv

-----------------------------------------------------------------------------
(***************************************************************************)
(* Trims that have the device to themselves.                               *)
(***************************************************************************)
LEMMA OverlapStays ==
  ASSUME IInv, [Next]_vars, ~overlap'
  PROVE  ~overlap
<1>1. overlap \in BOOLEAN
  BY DEF IInv, TypeOK
<1> QED BY <1>1, Writers_overlap DEF MevOpen, MevCall

LEMMA AloneStep ==
  ASSUME IInv, [Next]_vars, ~overlap'
  PROVE  AloneInv'
<1>1. pc \in [Proc -> InCall \union {"closed", "idle", "trim", "unloaded", "adding",
                                     "loaded", "del"}]
  BY DEF IInv, TypeOK
<1>2. AloneInv /\ PlaceInv
  BY OverlapStays DEF IInv
<1> USE DEF Goto, Oops, Proc
<1>3. ASSUME NEW t \in Threads, NEW m \in Modes, MevOpen(t, m) PROVE AloneInv'
  <2>1. CASE m = "O_WRONLY"
    <3>1. \A u \in Proc \ {t} : ~Busy(u)
      BY <1>3, <2>1 DEF MevOpen
    <3>2. pc' = [pc EXCEPT ![t] = "trim"]
      BY <1>3, <2>1 DEF MevOpen
    <3>3. \A u \in Proc \ {t} : ~Busy(u)' /\ pc'[u] # "trim"
      BY <1>1, <3>1, <3>2 DEF Busy
    <3> QED BY <3>3 DEF AloneInv
  <2>2. CASE m # "O_WRONLY"
    BY <1>1, <1>2, <1>3, <2>2 DEF MevOpen, AloneInv, Busy, InCall, Section
  <2> QED BY <2>1, <2>2
<1>4. ASSUME NEW t \in Threads, NEW op \in Operations, NEW pos \in Positions,
             NEW count \in Counts, MevCall(t, op, pos, count)
      PROVE  AloneInv'
  <2>1. /\ \A u \in Proc \ {t} : pc[u] # "trim"
        /\ pc' = [pc EXCEPT ![t] = "down"]
    BY <1>4 DEF MevCall
  <2> QED BY <1>1, <2>1 DEF AloneInv
<1>5. CASE ExitBegin
  <2>1. /\ \A t \in Threads : pc[t] = "closed"
        /\ pc' = [pc EXCEPT ![Loader] = "trim"]
    BY <1>5 DEF ExitBegin
  <2> QED BY <1>1, <2>1, MevAssumption DEF AloneInv, Busy, InCall, Section
<1>6. ASSUME \A q \in Proc : pc'[q] = "trim" => pc[q] = "trim",
             \A q \in Proc : Busy(q)' => Busy(q)
      PROVE  AloneInv'
  BY <1>2, <1>6 DEF AloneInv
<1>7. ASSUME NEW t \in Threads, Up(t) PROVE AloneInv'
  <2>1. CASE Oops("semaphore")
    BY <1>2, <2>1 DEF AloneInv, Busy
  <2>2. CASE ~Oops("semaphore")
    <3>1. \A q \in Proc : pc'[q] = "trim" => pc[q] = "trim"
      BY <1>1, <1>7, <2>2, UpEffect DEF Entry
    <3>2. \A q \in Proc : pc'[q] \in InCall \union {"trim"} => pc[q] \in InCall \union {"trim"}
      BY <1>1, <1>7, <2>2, UpEffect DEF Entry, InCall, Section
    <3> QED BY <1>6, <3>1, <3>2 DEF Busy
  <2> QED BY <2>1, <2>2
<1> USE DEF Busy, InCall, Section, Entry
<1>8. ASSUME NEW t \in Threads, MevRelease(t) \/ Interrupted(t) PROVE AloneInv'
  BY <1>1, <1>6, <1>8 DEF MevRelease, Interrupted
<1>9. ASSUME LoaderStep, ~ExitBegin PROVE AloneInv'
  BY <1>1, <1>6, <1>9
  DEF LoaderStep, InitFails, InitModule, SemaInit, ExitEnd, TrimNode, TrimReset, ResetTo
<1>10. ASSUME NEW t \in Threads, Advance(t), ~Up(t) PROVE AloneInv'
  <2>1. \A q \in Proc : pc'[q] = "trim" => pc[q] = "trim"
    BY <1>1, <1>10 DEF Advance, TrimNode, TrimReset, ResetTo, DownInterruptible, EndOfFile,
      Clamp, FollowHead, FollowNext, FollowEnd, ReadHole, WriteArray, WriteQuantum, Copy,
      Commit
  <2>2. \A q \in Proc : Busy(q)' => Busy(q)
    BY <1>1, <1>10 DEF Advance, TrimNode, TrimReset, ResetTo, DownInterruptible, EndOfFile,
      Clamp, FollowHead, FollowNext, FollowEnd, ReadHole, WriteArray, WriteQuantum, Copy,
      Commit
  <2> QED BY <1>6, <2>1, <2>2
<1>11. CASE UNCHANGED vars
  BY <1>6, <1>11 DEF vars
<1> QED
  BY <1>3, <1>4, <1>5, <1>7, <1>8, <1>9, <1>10, <1>11 DEF Next, UserStep, Halted

LEMMA ListStep ==
  ASSUME IInv, [Next]_vars, ~overlap'
  PROVE  ListInv'
<1>1. /\ live \in SUBSET Addr /\ freed \in SUBSET Addr
      /\ nxt \in [Addr -> Addr \union {NULL}] /\ cursor \in [Proc -> Pointer]
  BY DEF IInv, TypeOK
<1>2. AddressInv /\ ListInv /\ PointerInv
  BY OverlapStays DEF IInv
<1>3. CASE UNCHANGED <<live, freed, nxt>>
  BY <1>2, <1>3 DEF ListInv
<1>4. ASSUME NEW p \in Proc, TrimNode(p), live' # live PROVE ListInv'
  <2>1. /\ live' = live \ {cursor[p]} /\ nxt' = [nxt EXCEPT ![cursor[p]] = NULL]
        /\ cursor[p] \in live
    BY <1>4, TrimEffect
  <2>2. \A b \in live : nxt[b] # cursor[p]
    BY <1>2, <1>4, <2>1 DEF PointerInv, IsHead, TrimNode
  <2> QED BY <1>1, <1>2, <2>1, <2>2 DEF ListInv
<1>5. ASSUME NEW t \in Threads, NEW a \in Addr, FollowHead(t) \/ FollowNext(t), NewQset(a),
             cursor' = [cursor EXCEPT ![t] = a]
      PROVE  ListInv'
  <2>1. /\ a \notin live /\ live' = live \union {a} /\ nxt[a] = NULL
        /\ \A b \in live : nxt[b] # a
    BY <1>1, <1>2, <1>5 DEF NewQset, AddressInv, ListInv
  <2>2. CASE FollowHead(t)
    <3>1. nxt' = nxt
      BY <2>2 DEF FollowHead, Oops, heap
    <3> QED BY <1>1, <1>2, <2>1, <3>1 DEF ListInv
  <2>3. CASE FollowNext(t)
    <3>1. \/ nxt' = nxt
          \/ cursor[t] \in live /\ nxt' = [nxt EXCEPT ![cursor[t]] = cursor'[t]]
      BY <1>1, <2>3, <1>5 DEF FollowNext, Oops, heap, Proc
    <3>2. cursor'[t] = a
      BY <1>1, <1>5 DEF Proc
    <3> QED BY <1>1, <1>2, <2>1, <3>1, <3>2 DEF ListInv
  <2> QED BY <1>5, <2>2, <2>3
<1> QED BY <1>3, <1>4, <1>5, HeapSteps

\* What a pointer to the list needs to stay one: the list does not shrink, and
\* grows at its end only.
LEMMA HeadStays ==
  ASSUME IInv, [Next]_vars, ~overlap', \A p \in Proc : ~TrimNode(p), NEW h, IsHead(h)
  PROVE  IsHead(h)' /\ live \subseteq live'
<1>1. /\ live \in SUBSET Addr /\ freed \in SUBSET Addr
      /\ nxt \in [Addr -> Addr \union {NULL}] /\ cursor \in [Proc -> Pointer]
  BY DEF IInv, TypeOK
<1>2. AddressInv /\ ListInv
  BY OverlapStays DEF IInv
<1>3. CASE UNCHANGED <<live, freed, nxt>>
  BY <1>3 DEF IsHead
<1>5. ASSUME NEW t \in Threads, NEW a \in Addr, FollowHead(t) \/ FollowNext(t), NewQset(a),
             cursor' = [cursor EXCEPT ![t] = a]
      PROVE  IsHead(h)' /\ live \subseteq live'
  <2>1. /\ a \notin live /\ live' = live \union {a} /\ nxt[a] = NULL
    BY <1>1, <1>2, <1>5 DEF NewQset, AddressInv
  <2>2. h # a
    BY <2>1, <1>5, MevAssumption DEF IsHead
  <2>3. \/ nxt' = nxt
        \/ cursor[t] \in live /\ nxt' = [nxt EXCEPT ![cursor[t]] = a]
    BY <1>1, <1>5 DEF FollowHead, FollowNext, Oops, heap, Proc
  <2> QED BY <1>1, <2>1, <2>2, <2>3 DEF IsHead
<1> QED BY <1>3, <1>5, HeapSteps

\* A trim ends with mev_trim()'s last assignments, and only so.
LEMMA TrimEnds ==
  ASSUME IInv, [Next]_vars, NEW p \in Proc, pc[p] = "trim", pc'[p] # "trim"
  PROVE  TrimReset(p)
<1>1. pc \in [Proc -> InCall \union {"closed", "idle", "trim", "unloaded", "adding",
                                     "loaded", "del"}]
  BY DEF IInv, TypeOK
<1> USE DEF Goto, Oops, Proc, Entry
<1>2. CASE LoaderStep \/ UNCHANGED vars
  BY <1>1, <1>2 DEF LoaderStep, InitFails, InitModule, SemaInit, ExitBegin, ExitEnd,
    TrimNode, TrimReset, ResetTo, vars
<1>3. ASSUME NEW t \in Threads, UserStep(t) PROVE FALSE
  BY <1>1, <1>3 DEF UserStep, MevOpen, MevRelease, MevCall, Interrupted
<1>4. ASSUME NEW t \in Threads, Up(t) PROVE FALSE
  <2>1. pc[t] = "up"
    BY <1>4 DEF Up
  <2> QED BY <1>1, <1>4, <2>1, UpEffect
<1>5. ASSUME NEW t \in Threads, Advance(t), ~Up(t) PROVE TrimReset(p)
  BY <1>1, <1>5 DEF Advance, TrimNode, TrimReset, ResetTo, DownInterruptible, EndOfFile,
    Clamp, FollowHead, FollowNext, FollowEnd, ReadHole, WriteArray, WriteQuantum, Copy,
    Commit
<1> QED BY <1>2, <1>3, <1>4, <1>5 DEF Next, Halted

\* Where a trim or a pointer of mev_follow() comes from.
LEMMA TrimBegins ==
  ASSUME IInv, [Next]_vars, NEW p \in Proc, pc'[p] = "trim", ~TrimNode(p)
  PROVE  \/ pc[p] = "trim" /\ cursor'[p] = cursor[p]
         \/ (p = Loader /\ ExitBegin /\ cursor'[p] = container.data)
         \/ (p \in Threads /\ MevOpen(p, "O_WRONLY") /\ cursor'[p] = container.data)
<1>1. pc \in [Proc -> InCall \union {"closed", "idle", "trim", "unloaded", "adding",
                                     "loaded", "del"}]
      /\ cursor \in [Proc -> Pointer]
  BY DEF IInv, TypeOK
<1> USE DEF Goto, Oops, Proc, Entry
<1>2. CASE LoaderStep \/ UNCHANGED vars
  BY <1>1, <1>2 DEF LoaderStep, InitFails, InitModule, SemaInit, ExitBegin, ExitEnd,
    TrimNode, TrimReset, ResetTo, vars
<1>3. ASSUME NEW t \in Threads, NEW m \in Modes, MevOpen(t, m)
      PROVE  \/ pc[p] = "trim" /\ cursor'[p] = cursor[p]
             \/ (p \in Threads /\ MevOpen(p, "O_WRONLY") /\ cursor'[p] = container.data)
  BY <1>1, <1>3 DEF MevOpen
<1>4. ASSUME NEW t \in Threads, UserStep(t), \A m \in Modes : ~MevOpen(t, m)
      PROVE  pc[p] = "trim" /\ cursor'[p] = cursor[p]
  BY <1>1, <1>4 DEF UserStep, MevRelease, MevCall, Interrupted
<1>5. ASSUME NEW t \in Threads, Up(t) PROVE pc[p] = "trim" /\ cursor'[p] = cursor[p]
  <2>1. pc[t] = "up" /\ (cursor' = cursor \/ cursor' = [cursor EXCEPT ![t] = NULL])
    BY <1>5 DEF Up
  <2>2. pc[p] = "trim"
    BY <1>1, <1>5, UpEffect
  <2> QED BY <1>1, <2>1, <2>2
<1>6. ASSUME NEW t \in Threads, Advance(t), ~Up(t)
      PROVE  pc[p] = "trim" /\ cursor'[p] = cursor[p]
  BY <1>1, <1>6 DEF Advance, TrimNode, TrimReset, ResetTo, DownInterruptible, EndOfFile,
    Clamp, FollowHead, FollowNext, FollowEnd, ReadHole, WriteArray, WriteQuantum, Copy,
    Commit
<1> QED BY <1>2, <1>3, <1>4, <1>5, <1>6 DEF Next, UserStep, Halted

LEMMA HoldingBegins ==
  ASSUME IInv, [Next]_vars, NEW t \in Threads, pc'[t] \in Holding
  PROVE  \/ pc[t] \in Holding /\ cursor'[t] = cursor[t]
         \/ FollowHead(t) /\ container.data # NULL /\ cursor'[t] = container.data
         \/ FollowNext(t) /\ cursor[t] \in live /\ nxt[cursor[t]] # NULL
            /\ cursor'[t] = nxt[cursor[t]]
         \/ \E a \in Addr : NewQset(a) /\ cursor'[t] = a
<1>1. pc \in [Proc -> InCall \union {"closed", "idle", "trim", "unloaded", "adding",
                                     "loaded", "del"}]
      /\ cursor \in [Proc -> Pointer]
  BY DEF IInv, TypeOK
<1> USE DEF Goto, Oops, Proc, Entry, Holding
<1>2. CASE LoaderStep \/ UNCHANGED vars
  BY <1>1, <1>2 DEF LoaderStep, InitFails, InitModule, SemaInit, ExitBegin, ExitEnd,
    TrimNode, TrimReset, ResetTo, vars
<1>3. ASSUME NEW u \in Threads, UserStep(u) PROVE pc[t] \in Holding /\ cursor'[t] = cursor[t]
  BY <1>1, <1>3 DEF UserStep, MevOpen, MevRelease, MevCall, Interrupted
<1>4. ASSUME NEW u \in Threads, Up(u) PROVE pc[t] \in Holding /\ cursor'[t] = cursor[t]
  <2>1. pc[u] = "up" /\ (cursor' = cursor \/ cursor' = [cursor EXCEPT ![u] = NULL])
    BY <1>4 DEF Up
  <2>2. pc[t] \in Holding
    BY <1>1, <1>4, UpEffect
  <2> QED BY <1>1, <2>1, <2>2
<1>5. ASSUME NEW u \in Threads, FollowHead(u) \/ FollowNext(u)
      PROVE  \/ pc[t] \in Holding /\ cursor'[t] = cursor[t]
             \/ FollowHead(t) /\ container.data # NULL /\ cursor'[t] = container.data
             \/ FollowNext(t) /\ cursor[t] \in live /\ nxt[cursor[t]] # NULL
                /\ cursor'[t] = nxt[cursor[t]]
             \/ \E a \in Addr : NewQset(a) /\ cursor'[t] = a
  <2>1. CASE u # t
    BY <1>1, <1>5, <2>1 DEF FollowHead, FollowNext
  <2>2. CASE FollowHead(t)
    BY <1>1, <2>2 DEF FollowHead
  <2>3. CASE FollowNext(t)
    BY <1>1, <2>3 DEF FollowNext
  <2> QED BY <1>5, <2>1, <2>2, <2>3
<1>6. ASSUME NEW u \in Threads, Advance(u), ~Up(u), ~FollowHead(u), ~FollowNext(u)
      PROVE  pc[t] \in Holding /\ cursor'[t] = cursor[t]
  BY <1>1, <1>6 DEF Advance, TrimNode, TrimReset, ResetTo, DownInterruptible, EndOfFile,
    Clamp, FollowEnd, ReadHole, WriteArray, WriteQuantum, Copy, Commit
<1> QED BY <1>2, <1>3, <1>4, <1>5, <1>6 DEF Next, Halted

LEMMA PointerStep ==
  ASSUME IInv, [Next]_vars, ~overlap'
  PROVE  PointerInv'
<1>1. /\ live \in SUBSET Addr /\ freed \in SUBSET Addr
      /\ nxt \in [Addr -> Addr \union {NULL}] /\ cursor \in [Proc -> Pointer]
      /\ container \in [data : Pointer, quantum : Quanta, qset : Qsets, size : Nat]
      /\ Threads \subseteq Proc
  BY DEF IInv, TypeOK, Proc
<1>2. AloneInv /\ AddressInv /\ ListInv /\ PointerInv /\ PlaceInv
  BY OverlapStays DEF IInv
<1>3. ASSUME NEW p \in Proc, TrimNode(p) PROVE PointerInv'
  <2>1. CASE live' = live
    BY <1>2, <1>3, <2>1, TrimEffect DEF PointerInv, IsHead
  <2>2. CASE live' # live
    <3>1. /\ pc' = pc /\ pc[p] = "trim" /\ cursor[p] \in live
          /\ live' = live \ {cursor[p]} /\ nxt' = [nxt EXCEPT ![cursor[p]] = NULL]
          /\ cursor' = [cursor EXCEPT ![p] = nxt[cursor[p]]]
      BY <1>3, <2>2, TrimEffect DEF TrimNode
    <3>2. \A u \in Proc \ {p} : pc[u] # "trim" /\ pc[u] \notin Holding
      BY <1>2, <3>1 DEF AloneInv, Busy, InCall, Section, Holding
    <3>3. \A b \in live : nxt[b] # cursor[p]
      BY <1>2, <2>2, <3>1, MevAssumption, <1>1 DEF PointerInv, IsHead
    <3>4. IsHead(cursor[p])'
      <4>1. cursor'[p] = nxt[cursor[p]]
        BY <1>1, <3>1
      <4> QED BY <1>1, <1>2, <2>2, <3>1, <3>3, <4>1 DEF IsHead, ListInv
    <3>5. pc[p] \notin Holding
      BY <3>1 DEF Holding
    <3> QED BY <1>1, <3>1, <3>2, <3>4, <3>5 DEF PointerInv
  <2> QED BY <2>1, <2>2
<1>4. ASSUME \A p \in Proc : ~TrimNode(p) PROVE PointerInv'
  <2>0. /\ \A h : IsHead(h) => IsHead(h)'
        /\ live \subseteq live'
    <3>1. IsHead(NULL)
      BY DEF IsHead
    <3> QED BY <1>4, <3>1, HeadStays
  <2>1. ASSUME \A p \in Proc : pc'[p] # "trim" PROVE IsHead(container.data)'
    <3>1. CASE \E p \in Proc : TrimReset(p)
      BY <3>1 DEF TrimReset, ResetTo, IsHead
    <3>2. CASE \A p \in Proc : ~TrimReset(p)
      <4>1. \A p \in Proc : pc[p] # "trim"
        BY <2>1, <3>2, TrimEnds
      <4>2. IsHead(container.data)
        BY <1>2, <4>1 DEF PointerInv
      <4>3. CASE container'.data = container.data
        BY <2>0, <4>2, <4>3
      <4>4. CASE InitModule
        <5>1. container'.data \in {NULL, WILD} /\ nxt' = nxt /\ live' = live
          BY <4>4 DEF InitModule, RawContainers, heap
        <5> QED BY <1>1, <5>1, MevAssumption DEF IsHead
      <4>5. ASSUME NEW t \in Threads, FollowHead(t), container'.data # container.data
            PROVE  IsHead(container.data)'
        <5>1. PICK a \in Addr : /\ NewQset(a) /\ container'.data = a /\ nxt' = nxt
          BY <1>1, <4>5 DEF FollowHead, Oops
        <5> QED BY <1>1, <1>2, <5>1, MevAssumption DEF NewQset, IsHead, ListInv, AddressInv
      <4>6. ASSUME NEW t \in Threads, Commit(t) PROVE container'.data = container.data
        BY <1>1, <4>6 DEF Commit
      <4> QED BY <3>2, <4>3, <4>4, <4>5, <4>6, Writers_container
    <3> QED BY <3>1, <3>2
  <2>2. ASSUME NEW p \in Proc, pc'[p] = "trim" PROVE IsHead(cursor[p])'
    <3>1. CASE pc[p] = "trim" /\ cursor'[p] = cursor[p]
      BY <1>2, <2>0, <3>1 DEF PointerInv
    <3>2. ASSUME cursor'[p] = container.data, \A q \in Proc : pc[q] # "trim"
          PROVE  IsHead(cursor[p])'
      BY <1>2, <2>0, <3>2 DEF PointerInv
    <3>4. CASE p = Loader /\ ExitBegin /\ cursor'[p] = container.data
      <4>1. \A q \in Proc : pc[q] # "trim"
        BY <3>4 DEF ExitBegin, Proc
      <4> QED BY <3>2, <3>4, <4>1
    <3>5. CASE p \in Threads /\ MevOpen(p, "O_WRONLY") /\ cursor'[p] = container.data
      <4>1. \A q \in Proc : pc[q] # "trim"
        BY <3>5 DEF MevOpen, Busy
      <4> QED BY <3>2, <3>5, <4>1
    <3> QED BY <1>4, <2>2, <3>1, <3>4, <3>5, TrimBegins
  <2>3. ASSUME NEW t \in Threads, pc'[t] \in Holding PROVE cursor'[t] \in live' \union {WILD}
    <3>1. CASE pc[t] \in Holding /\ cursor'[t] = cursor[t]
      BY <1>2, <2>0, <3>1 DEF PointerInv
    <3>2. CASE FollowHead(t) /\ container.data # NULL /\ cursor'[t] = container.data
      <4>1. \A q \in Proc : pc[q] # "trim"
        BY <1>1, <1>2, <3>2 DEF AloneInv, Busy, FollowHead, InCall, Section
      <4> QED BY <1>2, <2>0, <3>2, <4>1 DEF PointerInv, IsHead
    <3>3. CASE FollowNext(t) /\ cursor[t] \in live /\ nxt[cursor[t]] # NULL
               /\ cursor'[t] = nxt[cursor[t]]
      BY <1>2, <2>0, <3>3 DEF ListInv
    <3>4. CASE \E a \in Addr : NewQset(a) /\ cursor'[t] = a
      BY <3>4 DEF NewQset
    <3>5. \/ pc[t] \in Holding /\ cursor'[t] = cursor[t]
          \/ FollowHead(t) /\ container.data # NULL /\ cursor'[t] = container.data
          \/ FollowNext(t) /\ cursor[t] \in live /\ nxt[cursor[t]] # NULL
             /\ cursor'[t] = nxt[cursor[t]]
          \/ \E a \in Addr : NewQset(a) /\ cursor'[t] = a
      BY <2>3, HoldingBegins
    <3> QED BY <3>1, <3>2, <3>3, <3>4, <3>5
  <2> QED BY <2>1, <2>2, <2>3 DEF PointerInv
<1> QED BY <1>3, <1>4

\* A task that has the device to itself runs into no memory that was freed.
LEMMA FreedStep ==
  ASSUME IInv, [Next]_vars, ~overlap'
  PROVE  fault' # "freed"
<1>1. freed \in SUBSET Addr
  BY DEF IInv, TypeOK
<1>2. PointerInv /\ fault # "freed"
  BY OverlapStays DEF IInv
<1>3. ASSUME NEW p \in Proc, pc[p] = "trim", cursor[p] # NULL, cursor[p] \notin live
      PROVE  Misuse(cursor[p]) = "wild"
  BY <1>1, <1>2, <1>3, MevAssumption DEF PointerInv, IsHead, Misuse
<1>4. ASSUME NEW t \in Threads, pc[t] \in Holding, cursor[t] \notin live
      PROVE  Misuse(cursor[t]) = "wild"
  BY <1>1, <1>2, <1>4, MevAssumption DEF PointerInv, Misuse
<1>5. CASE fault' = fault
  BY <1>2, <1>5
<1>6. CASE fault' # fault
  BY <1>3, <1>4, <1>6, FaultSteps
<1> QED BY <1>5, <1>6

\* A call has the geometry it began with, which was the container's.
LEMMA CallGeometry ==
  ASSUME IInv, [Next]_vars, NEW u \in Threads, pc'[u] \in InCall
  PROVE  \/ /\ pc[u] \in InCall
            /\ call'[u].quantum = call[u].quantum /\ call'[u].qset = call[u].qset
         \/ /\ call'[u].quantum = container.quantum /\ call'[u].qset = container.qset
            /\ UNCHANGED container
<1>1. /\ pc \in [Proc -> InCall \union {"closed", "idle", "trim", "unloaded", "adding",
                                        "loaded", "del"}]
      /\ call \in [Threads -> Calls] /\ Threads \subseteq Proc
  BY DEF IInv, TypeOK, Proc
<1>2. pc'[u] \in InCall
  OBVIOUS
<1> DEFINE Kept == /\ pc[u] \in InCall
                   /\ call'[u].quantum = call[u].quantum /\ call'[u].qset = call[u].qset
           Begun == /\ call'[u].quantum = container.quantum /\ call'[u].qset = container.qset
                    /\ UNCHANGED container
<1> USE DEF Goto, Oops, Proc, Entry, InCall, Section
<1>3. ASSUME LoaderStep \/ UNCHANGED vars PROVE Kept
  <2>1. call' = call /\ pc[u] = pc'[u]
    <3>1. CASE InitFails \/ InitModule
      BY <1>1, <1>2, <3>1 DEF InitFails, InitModule
    <3>2. CASE SemaInit \/ ExitBegin \/ ExitEnd
      BY <1>1, <1>2, <3>2 DEF SemaInit, ExitBegin, ExitEnd
    <3>3. CASE TrimNode(Loader)
      BY <1>1, <1>2, <3>3 DEF TrimNode
    <3>4. CASE TrimReset(Loader)
      BY <1>1, <1>2, <3>4 DEF TrimReset, ResetTo
    <3>5. CASE UNCHANGED vars
      BY <3>5 DEF vars
    <3> QED BY <1>3, <3>1, <3>2, <3>3, <3>4, <3>5 DEF LoaderStep
  <2> QED BY <1>2, <2>1
<1>4. ASSUME NEW t \in Threads, NEW op \in Operations, NEW pos \in Positions,
             NEW count \in Counts, MevCall(t, op, pos, count)
      PROVE  Kept \/ Begun
  <2>1. CASE u = t
    BY <1>1, <1>4, <2>1 DEF MevCall
  <2>2. CASE u # t
    BY <1>1, <1>2, <1>4, <2>2 DEF MevCall
  <2> QED BY <2>1, <2>2
<1>5. ASSUME NEW t \in Threads, \/ \E m \in Modes : MevOpen(t, m)
                                \/ MevRelease(t) \/ Interrupted(t)
      PROVE  Kept
  <2>1. pc'[u] \in InCall => pc'[u] = pc[u] /\ call'[u] = call[u]
    <3>1. CASE \E m \in Modes : MevOpen(t, m)
      BY <1>1, <3>1 DEF MevOpen
    <3>2. CASE MevRelease(t) \/ Interrupted(t)
      BY <1>1, <3>2 DEF MevRelease, Interrupted
    <3> QED BY <1>5, <3>1, <3>2
  <2> QED BY <1>2, <2>1
<1>6. ASSUME NEW t \in Threads, Up(t)
      PROVE  Kept
  <2>1. CASE Oops("semaphore")
    BY <1>2, <2>1
  <2>2. CASE ~Oops("semaphore")
    <3>1. call' = [call EXCEPT ![t] = NoCall]
      BY <1>6, <2>2 DEF Up
    <3>2. u # t /\ pc[u] \in InCall
      <4>1. CASE pc' = [pc EXCEPT ![t] = "idle"]
        BY <1>1, <1>2, <4>1
      <4>2. ASSUME NEW v \in Threads, v # t, pc[v] = "wait",
                   pc' = [pc EXCEPT ![t] = "idle", ![v] = Entry(v)]
            PROVE  u # t /\ pc[u] \in InCall
        BY <1>1, <1>2, <4>2
      <4> QED BY <1>6, <2>2, <4>1, <4>2, UpEffect
    <3> QED BY <1>1, <3>1, <3>2
  <2> QED BY <2>1, <2>2
<1>7. ASSUME NEW t \in Threads, Advance(t), ~Up(t)
      PROVE  Kept
  <2>1. pc[u] \in InCall
    BY <1>1, <1>2, <1>7 DEF Advance, TrimNode, TrimReset, ResetTo, DownInterruptible,
      EndOfFile, Clamp, FollowHead, FollowNext, FollowEnd, ReadHole, WriteArray,
      WriteQuantum, Copy, Commit
  <2>2. call'[u].quantum = call[u].quantum /\ call'[u].qset = call[u].qset
    <3>0. /\ call' = call => call'[u] = call[u]
          /\ \A n : \/ call' = [call EXCEPT ![t].count = n]
                      \/ call' = [call EXCEPT ![t].n = n]
                      \/ call' = [call EXCEPT ![t].pos = n]
                    => /\ call'[u].quantum = call[u].quantum
                       /\ call'[u].qset = call[u].qset
          /\ call' = [call EXCEPT ![t] = Within(call[t])]
               => /\ call'[u].quantum = call[u].quantum
                  /\ call'[u].qset = call[u].qset
      BY <1>1 DEF Calls, Within
    <3>1. CASE Clamp(t)
      <4>1. \E n : call' = [call EXCEPT ![t].count = n]
        BY <3>1 DEF Clamp
      <4> QED BY <3>0, <4>1
    <3>2. CASE FollowHead(t) \/ FollowNext(t)
      <4>1. call' = call \/ \E n : call' = [call EXCEPT ![t].n = n]
        BY <3>2 DEF FollowHead, FollowNext
      <4> QED BY <3>0, <4>1
    <3>4. CASE Copy(t)
      <4>1. call' = call \/ \E n : call' = [call EXCEPT ![t].pos = n]
        BY <3>4 DEF Copy
      <4> QED BY <3>0, <4>1
    <3>5. CASE ReadHole(t) \/ WriteQuantum(t)
      <4>1. call' = call \/ call' = [call EXCEPT ![t] = Within(call[t])]
        BY <3>5 DEF ReadHole, WriteQuantum
      <4> QED BY <3>0, <4>1
    <3>3. CASE /\ ~Clamp(t) /\ ~FollowHead(t) /\ ~FollowNext(t) /\ ~Copy(t)
               /\ ~ReadHole(t) /\ ~WriteQuantum(t)
      BY <1>7, <3>3 DEF Advance, TrimNode, TrimReset, ResetTo, DownInterruptible,
        EndOfFile, FollowEnd, WriteArray, Commit
    <3> QED BY <3>1, <3>2, <3>3, <3>4, <3>5
  <2> QED BY <2>1, <2>2
<1> HIDE DEF Kept, Begun
<1>8. Kept \/ Begun
  BY <1>3, <1>4, <1>5, <1>6, <1>7 DEF Next, UserStep, Halted
<1> QED BY <1>8 DEF Kept, Begun

LEMMA FormatStep ==
  ASSUME IInv, [Next]_vars, formatted', ~overlap'
  PROVE  FormatInv'
<1>1. /\ pc \in [Proc -> InCall \union {"closed", "idle", "trim", "unloaded", "adding",
                                        "loaded", "del"}]
      /\ nxt \in [Addr -> Addr \union {NULL}] /\ cursor \in [Proc -> Pointer]
      /\ live \in SUBSET Addr /\ call \in [Threads -> Calls]
      /\ container \in [data : Pointer, quantum : Quanta, qset : Qsets, size : Nat]
      /\ Threads \subseteq Proc
  BY DEF IInv, TypeOK, Proc
<1>2. AloneInv /\ AddressInv /\ ListInv /\ PointerInv /\ PlaceInv /\ ~overlap
  BY OverlapStays DEF IInv
<1>3. formatted => FormatInv
  BY <1>2 DEF IInv
<1>4. ASSUME NEW p \in Proc, TrimReset(p) PROVE FormatInv'
  <2>1. /\ container' = [data |-> NULL, quantum |-> QuantumSize, qset |-> QsetSize, size |-> 0]
        /\ cursor' = cursor /\ call' = call /\ pc[p] = "trim" /\ cursor[p] = NULL
        /\ pc' = [pc EXCEPT ![p] = IF p = Loader THEN "del" ELSE "idle"]
    BY <1>4 DEF TrimReset, ResetTo, Goto
  <2>2. \A q \in Proc \ {p} : pc[q] \notin InCall \union {"trim"}
    BY <1>2, <2>1 DEF AloneInv, Busy
  <2>3. \A q \in Proc : cursor[q] = NULL
    BY <1>2, <2>1, <2>2 DEF PlaceInv, Holding, InCall, Section
  <2>4. \A q \in Proc : pc'[q] \notin InCall
    BY <1>1, <2>1, <2>2 DEF InCall, Section
  <2> QED BY <1>1, <2>1, <2>3, <2>4, MevAssumption DEF FormatInv
<1>5. ASSUME \A p \in Proc : ~TrimReset(p) PROVE FormatInv'
  <2>1. formatted /\ ~InitModule
    BY <1>5, Writers_formatted DEF InitModule
  <2>2. FormatInv
    BY <1>3, <2>1
  <2>3. /\ container'.data # WILD
        /\ container'.quantum = QuantumSize /\ container'.qset = QsetSize
    <3>1. ASSUME NEW t \in Threads, FollowHead(t)
          PROVE  /\ container'.data # WILD
                 /\ container'.quantum = QuantumSize /\ container'.qset = QsetSize
      <4>1. \/ container' = container
            \/ \E a \in Addr : container' = [container EXCEPT !.data = a]
        BY <3>1 DEF FollowHead, Oops
      <4> QED BY <1>1, <2>2, <4>1, MevAssumption DEF FormatInv
    <3>2. ASSUME NEW t \in Threads, Commit(t)
          PROVE  /\ container'.data # WILD
                 /\ container'.quantum = QuantumSize /\ container'.qset = QsetSize
      BY <1>1, <2>2, <3>2 DEF Commit, FormatInv
    <3> QED BY <1>5, <2>1, <2>2, <3>1, <3>2, Writers_container DEF FormatInv
  <2>4. \A p \in Proc : cursor'[p] # WILD
    <3>0. (\A p \in Proc : cursor[p] # WILD) /\ container.data # WILD /\ NULL # WILD
          /\ \A a \in Addr : nxt[a] # WILD /\ a # WILD
      BY <1>1, <2>2, MevAssumption DEF FormatInv
    <3>1. CASE ExitBegin
      BY <1>1, <3>0, <3>1 DEF ExitBegin
    <3>2. ASSUME NEW t \in Threads, NEW m \in Modes, MevOpen(t, m)
          PROVE  \A p \in Proc : cursor'[p] # WILD
      BY <1>1, <3>0, <3>2 DEF MevOpen
    <3>3. ASSUME NEW q \in Proc, TrimNode(q) PROVE \A p \in Proc : cursor'[p] # WILD
      <4>1. \/ cursor' = cursor
            \/ cursor[q] \in Addr /\ cursor' = [cursor EXCEPT ![q] = nxt[cursor[q]]]
        BY <1>1, <3>3 DEF TrimNode, Oops
      <4> QED BY <1>1, <3>0, <4>1
    <3>4. ASSUME NEW t \in Threads, FollowHead(t) \/ FollowNext(t) \/ Up(t)
          PROVE  \A p \in Proc : cursor'[p] # WILD
      BY <1>1, <3>0, <3>4 DEF FollowHead, FollowNext, Up, Oops
    <3> QED BY <3>0, <3>1, <3>2, <3>3, <3>4, Writers_cursor
  <2>5. ASSUME NEW u \in Threads, pc'[u] \in InCall
        PROVE  call'[u].quantum = QuantumSize /\ call'[u].qset = QsetSize
    BY <2>2, <2>5, CallGeometry DEF FormatInv
  <2> QED BY <2>3, <2>4, <2>5 DEF FormatInv
<1> QED BY <1>4, <1>5

-----------------------------------------------------------------------------
(***************************************************************************)
(* The theorems.                                                           *)
(***************************************************************************)
LEMMA InvInit == ASSUME Init PROVE IInv
<1> USE DEF Init
<1>1. TypeOK
  <2>1. NoCall \in Calls
    BY Geometries DEF NoCall, Calls, Operations
  <2>2. <<>> \in Seq(Threads)
    BY EmptySeq
  <2>3. call \in [Threads -> Calls]
    BY <2>1
  <2>4. /\ pc \in [Proc -> InCall \union {"closed", "idle", "trim", "unloaded", "adding",
                                          "loaded", "del"}]
        /\ mode \in [Threads -> Modes] /\ cursor \in [Proc -> Pointer]
    BY DEF Modes, Pointer
  <2>5. /\ container \in [data : Pointer, quantum : Quanta, qset : Qsets, size : Nat]
        /\ nxt \in [Addr -> Addr \union {NULL}]
        /\ turns \in [Proc -> Qsets]
    BY Geometries DEF Pointer
  <2>6. data \in [Addr -> Arrays \union {NULL}]
    OBVIOUS
  <2>7. live \in SUBSET Addr /\ freed \in SUBSET Addr /\ sem \in Nat
    OBVIOUS
  <2>8. regions \in 0 .. MaxRegions
    BY MevAssumption
  <2>9. /\ sem_ready \in BOOLEAN /\ formatted \in BOOLEAN /\ overlap \in BOOLEAN
        /\ early \in BOOLEAN /\ fault \in Faults
    BY DEF Faults
  <2> QED BY <2>2, <2>3, <2>4, <2>5, <2>6, <2>7, <2>8, <2>9 DEF TypeOK
<1>2. PlaceInv
  BY MevAssumption DEF PlaceInv, Proc
<1>3. QueueInv
  BY DEF QueueInv
<1>4. LockInv
  BY MevAssumption DEF LockInv, Section, Proc
<1>5. AddressInv
  BY DEF AddressInv
<1>6. SlotInv
  BY MevAssumption DEF SlotInv, Holding, Proc
<1>7. AloneInv /\ ListInv /\ fault # "freed"
  BY MevAssumption DEF AloneInv, ListInv, Proc
<1>8. PointerInv
  BY MevAssumption DEF PointerInv, IsHead, Holding, Proc
<1>9. ~formatted
  OBVIOUS
<1> QED BY <1>1, <1>2, <1>3, <1>4, <1>5, <1>6, <1>7, <1>8, <1>9 DEF IInv

LEMMA InvStep ==
  ASSUME IInv, [Next]_vars
  PROVE  IInv'
BY TypeStep, PlaceStep, QueueStep, LockStep, AddressStep, SlotStep, AloneStep, ListStep,
   PointerStep, FreedStep, FormatStep
DEF IInv

\* The invariant holds in every state the driver reaches.
THEOREM Invariance == Spec => []IInv
<1>1. Init => IInv
  BY InvInit
<1>2. IInv /\ [Next]_vars => IInv'
  BY InvStep
<1> QED BY <1>1, <1>2, PTL DEF Spec

\* Type correctness, for any number of tasks and any size of memory.
THEOREM TypeCorrect == Spec => []TypeOK
<1>1. IInv => TypeOK
  BY DEF IInv
<1> QED BY <1>1, Invariance, PTL

\* The semaphore of lkm_mev.c keeps reads and writes apart, signals, failures
\* and queues of any length notwithstanding, once nobody came before sema_init().
THEOREM Exclusion == Spec => []SectionExclusive
<1>1. IInv => SectionExclusive
  BY DEF IInv, LockInv, SectionExclusive
<1> QED BY <1>1, Invariance, PTL

\* Freed memory is used only after a mev_trim() ran beside a call or a trim.
THEOREM OnlyOverlapFrees == Spec => []FreedNeedsOverlap
<1>1. IInv => FreedNeedsOverlap
  BY DEF IInv, FreedNeedsOverlap
<1> QED BY <1>1, Invariance, PTL

-----------------------------------------------------------------------------
(***************************************************************************)
(* No wakeup is lost.                                                      *)
(***************************************************************************)
Queued(t) == \E i \in 1 .. Len(waiters) : waiters[i] = t

\* A semaphore that is taken is held by somebody, and only then there are
\* waiters.
ServeInv ==
  ~early =>
    /\ \A t \in Threads : pc[t] = "wait" => Queued(t)
    /\ sem_ready /\ sem = 0 => \E u \in Threads : pc[u] \in Section
    /\ waiters # <<>> => sem_ready /\ sem = 0

\* What a step that leaves the semaphore alone does to it.
LEMMA ServeSame ==
  ASSUME ServeInv, UNCHANGED <<sem, waiters, sem_ready, early>>,
         \A t \in Threads : /\ pc'[t] = "wait" => pc[t] = "wait"
                            /\ pc[t] \in Section => pc'[t] \in Section
  PROVE  ServeInv'
BY DEF ServeInv, Queued

\* Who finds the semaphore taken queues behind the others.
LEMMA ServeDown ==
  ASSUME IInv, ServeInv, NEW t \in Threads, DownInterruptible(t)
  PROVE  ServeInv'
<1>1. /\ pc \in [Proc -> InCall \union {"closed", "idle", "trim", "unloaded", "adding",
                                        "loaded", "del"}]
      /\ waiters \in Seq(Threads) /\ Len(waiters) \in Nat /\ sem \in Nat
  BY LenProperties DEF IInv, TypeOK
<1>2. SUFFICES ASSUME ~early' PROVE ServeInv'
  BY DEF ServeInv
<1>3. ~early /\ sem_ready /\ sem_ready' /\ pc[t] = "down"
  BY <1>2 DEF DownInterruptible
<1>4. CASE sem > 0
  <2>1. sem' = sem - 1 /\ waiters' = waiters /\ pc' = [pc EXCEPT ![t] = Entry(t)]
    BY <1>3, <1>4 DEF DownInterruptible, Goto
  <2>2. Entry(t) \in Section /\ Entry(t) # "wait"
    BY DEF Entry, Section
  <2>3. waiters = <<>>
    BY <1>1, <1>3, <1>4 DEF ServeInv
  <2>4. \A u \in Threads : pc'[u] = "wait" => pc[u] = "wait"
    BY <1>1, <2>1, <2>2 DEF Proc
  <2>5. \A u \in Threads : pc'[u] = "wait" => Queued(u)'
    BY <1>3, <2>1, <2>4 DEF ServeInv, Queued
  <2>6. pc'[t] \in Section
    BY <1>1, <2>1, <2>2 DEF Proc
  <2> QED BY <2>1, <2>3, <2>5, <2>6 DEF ServeInv
<1>5. CASE sem = 0
  <2>1. /\ sem' = sem /\ waiters' = Append(waiters, t)
        /\ pc' = [pc EXCEPT ![t] = "wait"]
    BY <1>3, <1>5 DEF DownInterruptible, Goto
  <2>2. /\ Len(waiters') = Len(waiters) + 1
        /\ waiters'[Len(waiters) + 1] = t
        /\ \A i \in 1 .. Len(waiters) : waiters'[i] = waiters[i]
    BY <1>1, <2>1
  <2>3. \A u \in Threads : pc'[u] = "wait" => Queued(u)'
    <3>1. Queued(t)'
      BY <1>1, <2>2 DEF Queued
    <3>2. ASSUME NEW u \in Threads, u # t, pc'[u] = "wait" PROVE Queued(u)'
      <4>1. pc[u] = "wait"
        BY <1>1, <2>1, <3>2 DEF Proc
      <4>2. PICK i \in 1 .. Len(waiters) : waiters[i] = u
        BY <1>3, <4>1 DEF ServeInv, Queued
      <4>3. i \in 1 .. Len(waiters') /\ waiters'[i] = u
        BY <1>1, <2>2, <4>2
      <4> QED BY <4>3 DEF Queued
    <3> QED BY <3>1, <3>2
  <2>4. PICK u \in Threads : pc[u] \in Section
    BY <1>3, <1>5 DEF ServeInv
  <2>5. pc'[u] \in Section
    BY <1>1, <1>3, <2>1, <2>4 DEF Proc, Section
  <2> QED BY <1>3, <1>5, <2>1, <2>3, <2>5 DEF ServeInv
<1> QED BY <1>1, <1>4, <1>5

\* A signal takes one out of the queue and leaves the others in it.
LEMMA ServeInterrupted ==
  ASSUME IInv, ServeInv, NEW t \in Threads, Interrupted(t)
  PROVE  ServeInv'
<1>1. /\ pc \in [Proc -> InCall \union {"closed", "idle", "trim", "unloaded", "adding",
                                        "loaded", "del"}]
      /\ waiters \in Seq(Threads) /\ Len(waiters) \in Nat
  BY LenProperties DEF IInv, TypeOK
<1>2. SUFFICES ASSUME ~early' PROVE ServeInv'
  BY DEF ServeInv
<1>3. PICK i \in 1 .. Len(waiters) : waiters[i] = t /\ waiters' = RemoveAt(waiters, i)
  BY DEF Interrupted
<1>4. /\ Len(waiters') = Len(waiters) - 1
      /\ \A j \in 1 .. Len(waiters) - 1 :
           waiters'[j] = IF j < i THEN waiters[j] ELSE waiters[j + 1]
  BY <1>1, <1>3, RemoveAtProperties
<1>5. /\ UNCHANGED <<sem, sem_ready, early>>
      /\ pc' = [pc EXCEPT ![t] = "idle"] /\ pc[t] = "wait"
  BY DEF Interrupted, Goto
<1>6. ASSUME NEW u \in Threads, pc'[u] = "wait" PROVE Queued(u)'
  <2>1. u # t /\ pc[u] = "wait"
    BY <1>1, <1>5, <1>6 DEF Proc
  <2>2. PICK k \in 1 .. Len(waiters) : waiters[k] = u
    BY <1>2, <1>5, <2>1 DEF ServeInv, Queued
  <2>3. k # i
    BY <1>3, <2>1, <2>2
  <2>4. CASE k < i
    <3>1. k \in 1 .. Len(waiters') /\ waiters'[k] = u
      BY <1>1, <1>3, <1>4, <2>2, <2>4
    <3> QED BY <3>1 DEF Queued
  <2>5. CASE k > i
    <3>1. k - 1 \in 1 .. Len(waiters') /\ waiters'[k - 1] = u
      BY <1>1, <1>3, <1>4, <2>2, <2>5
    <3> QED BY <3>1 DEF Queued
  <2> QED BY <1>1, <2>2, <2>3, <2>4, <2>5
<1>7. sem_ready /\ sem = 0
  <2>1. waiters # <<>>
    BY <1>1, <1>3, EmptySeq
  <2> QED BY <1>2, <1>5, <2>1 DEF ServeInv
<1>8. PICK u \in Threads : pc[u] \in Section
  BY <1>2, <1>5, <1>7 DEF ServeInv
<1>9. pc'[u] \in Section
  BY <1>1, <1>5, <1>8 DEF Proc, Section
<1> QED BY <1>5, <1>6, <1>7, <1>9 DEF ServeInv

\* up() lets the first one of the queue in, or nobody waits.
LEMMA ServeUp ==
  ASSUME IInv, ServeInv, NEW t \in Threads, Up(t)
  PROVE  ServeInv'
<1>1. /\ pc \in [Proc -> InCall \union {"closed", "idle", "trim", "unloaded", "adding",
                                        "loaded", "del"}]
      /\ waiters \in Seq(Threads) /\ Len(waiters) \in Nat /\ sem \in Nat
  BY LenProperties DEF IInv, TypeOK
<1>2. SUFFICES ASSUME ~early' PROVE ServeInv'
  BY DEF ServeInv
<1>3. UNCHANGED <<sem_ready, early>> /\ pc[t] = "up"
  BY DEF Up, Oops, semaphore
<1>4. CASE Oops("semaphore")
  BY <1>4, ServeSame DEF Oops, semaphore
<1>5. CASE waiters = <<>> /\ UNCHANGED waiters /\ sem' = sem + 1 /\ pc' = [pc EXCEPT ![t] = "idle"]
  <2>1. \A u \in Threads : pc'[u] = "wait" => pc[u] = "wait"
    BY <1>1, <1>5 DEF Proc
  <2>2. \A u \in Threads : pc'[u] = "wait" => Queued(u)'
    BY <1>2, <1>3, <1>5, <2>1 DEF ServeInv, Queued
  <2>3. sem' # 0
    BY <1>1, <1>5
  <2> QED BY <1>5, <2>2, <2>3 DEF ServeInv
<1>6. ASSUME NEW u \in Threads, waiters # <<>>, waiters' = Tail(waiters), UNCHANGED sem,
             u = waiters[1], u # t,
             pc' = [pc EXCEPT ![t] = "idle", ![u] = Entry(u)]
      PROVE  ServeInv'
  <2>1. /\ Len(waiters') = Len(waiters) - 1
        /\ \A j \in 1 .. Len(waiters') : waiters'[j] = waiters[j + 1]
    BY <1>1, <1>6, HeadTailProperties
  <2>2. Entry(u) \in Section /\ Entry(u) # "wait"
    BY DEF Entry, Section
  <2>3. ASSUME NEW v \in Threads, pc'[v] = "wait" PROVE Queued(v)'
    <3>1. v # u /\ pc[v] = "wait"
      BY <1>1, <1>6, <2>2, <2>3 DEF Proc
    <3>2. PICK k \in 1 .. Len(waiters) : waiters[k] = v
      BY <1>2, <1>3, <3>1 DEF ServeInv, Queued
    <3>3. k - 1 \in 1 .. Len(waiters') /\ waiters'[k - 1] = v
      BY <1>1, <1>6, <2>1, <3>1, <3>2
    <3> QED BY <3>3 DEF Queued
  <2>4. pc'[u] \in Section
    BY <1>1, <1>6, <2>2 DEF Proc
  <2>5. sem_ready /\ sem = 0
    BY <1>2, <1>3, <1>6 DEF ServeInv
  <2> QED BY <1>3, <1>6, <2>3, <2>4, <2>5 DEF ServeInv
<1> QED BY <1>4, <1>5, <1>6, UpEffect

LEMMA ServeStep ==
  ASSUME IInv, ServeInv, [Next]_vars
  PROVE  ServeInv'
<1>1. pc \in [Proc -> InCall \union {"closed", "idle", "trim", "unloaded", "adding",
                                     "loaded", "del"}]
  BY DEF IInv, TypeOK
<1>2. PlaceInv /\ LockInv
  BY DEF IInv
<1> USE DEF Goto, Oops, Proc, Section, semaphore
<1>3. CASE InitModule
  <2>1. \A t \in Threads : pc'[t] = "closed"
    BY <1>1, <1>2, <1>3 DEF InitModule, PlaceInv
  <2>2. waiters' = <<>> /\ ~sem_ready'
    BY <1>3 DEF InitModule
  <2> QED BY <2>1, <2>2 DEF ServeInv
<1>4. CASE SemaInit
  <2>1. ~sem_ready /\ early' = early /\ sem' = 1 /\ waiters' = <<>>
    BY <1>2, <1>4 DEF SemaInit, LockInv
  <2>2. \A t \in Threads : pc'[t] = pc[t]
    BY <1>1, <1>4 DEF SemaInit
  <2>3. ~early => waiters = <<>>
    BY <2>1 DEF ServeInv
  <2>4. ~early => \A t \in Threads : pc[t] # "wait"
    BY <2>3 DEF ServeInv, Queued
  <2> QED BY <2>1, <2>2, <2>4 DEF ServeInv
<1>5. ASSUME NEW t \in Threads, UserStep(t), ~Interrupted(t) PROVE ServeInv'
  <2>1. /\ UNCHANGED <<sem, waiters, sem_ready, early>>
        /\ \A u \in Threads : /\ pc'[u] = "wait" => pc[u] = "wait"
                              /\ pc[u] \in Section => pc'[u] \in Section
    BY <1>1, <1>5 DEF UserStep, MevOpen, MevRelease, MevCall
  <2> QED BY <2>1, ServeSame
<1>6. ASSUME LoaderStep, ~InitModule, ~SemaInit PROVE ServeInv'
  <2>1. /\ UNCHANGED <<sem, waiters, sem_ready, early>>
        /\ \A u \in Threads : pc'[u] = pc[u]
    BY <1>1, <1>6, MevAssumption
    DEF LoaderStep, InitFails, ExitBegin, ExitEnd, TrimNode, TrimReset, ResetTo
  <2> QED BY <2>1, ServeSame
<1>7. ASSUME NEW t \in Threads, Advance(t), ~DownInterruptible(t), ~Up(t) PROVE ServeInv'
  <2>1. /\ UNCHANGED <<sem, waiters, sem_ready, early>>
        /\ \A u \in Threads : /\ pc'[u] = "wait" => pc[u] = "wait"
                              /\ pc[u] \in Section => pc'[u] \in Section
    BY <1>1, <1>7 DEF Advance, TrimNode, TrimReset, ResetTo, EndOfFile, Clamp,
      FollowHead, FollowNext, FollowEnd, ReadHole, WriteArray, WriteQuantum, Copy, Commit
  <2> QED BY <2>1, ServeSame
<1>8. CASE UNCHANGED vars
  BY <1>8, ServeSame DEF vars
<1>9. ASSUME NEW t \in Threads, DownInterruptible(t) \/ Interrupted(t) \/ Up(t) PROVE ServeInv'
  BY <1>9, ServeDown, ServeInterrupted, ServeUp
<1> QED BY <1>3, <1>4, <1>5, <1>6, <1>7, <1>8, <1>9 DEF Next, Halted

\* Whoever waits for the semaphore is in its queue, and somebody is in the
\* section whose up() serves the queue, for any number of tasks and signals.
THEOREM NoLostWakeup == Spec => []WaitersServed
<1>1. Init => ServeInv
  BY MevAssumption DEF Init, ServeInv, Proc
<1>2. IInv /\ ServeInv /\ [Next]_vars => ServeInv'
  BY ServeStep
<1>3. IInv /\ ServeInv => WaitersServed
  <2>1. SUFFICES ASSUME IInv, ServeInv, ~early, NEW t \in Threads, pc[t] = "wait"
                 PROVE  Queued(t) /\ \E u \in Threads : pc[u] \in Section
    BY DEF WaitersServed, Queued
  <2>2. PICK i \in 1 .. Len(waiters) : waiters[i] = t
    BY <2>1 DEF ServeInv, Queued
  <2>3. waiters # <<>>
    BY <2>2, EmptySeq
  <2> QED BY <2>1, <2>2, <2>3 DEF ServeInv, Queued
<1> QED BY <1>1, <1>2, <1>3, Invariance, PTL DEF Spec

\* A task that goes on waiting keeps its place in the queue or moves up, and
\* does move up when up() serves another.
Moves(t) ==
  \A i \in 1 .. Len(waiters), j \in 1 .. Len(waiters') :
    waiters[i] = t /\ waiters'[j] = t =>
      /\ j <= i
      /\ (\E u \in Threads : Up(u)) /\ fault' = fault => j < i

LEMMA MovesStep ==
  ASSUME IInv, [Next]_vars, NEW t \in Threads
  PROVE  Moves(t)
<1>1. /\ waiters \in Seq(Threads) /\ Len(waiters) \in Nat
      /\ \A i \in 1 .. Len(waiters) : waiters[i] \in Threads /\ pc[waiters[i]] = "wait"
      /\ \A i, j \in 1 .. Len(waiters) : waiters[i] = waiters[j] => i = j
  BY LenProperties, ElementOfSeq DEF IInv, TypeOK, QueueInv
<1>2. ASSUME NEW u \in Threads, NEW v \in Threads, NEW place, pc[u] # "up",
             pc' = [pc EXCEPT ![u] = place], Up(v), fault' = fault
      PROVE  FALSE
  <2>1. pc[v] = "up" /\ u # v
    BY <1>2 DEF Up
  <2>2. pc'[v] = "up"
    BY <1>2, <2>1 DEF IInv, TypeOK, Proc
  <2>3. ~Oops("semaphore")
    BY <1>2 DEF Up, Oops
  <2>4. pc'[v] = "idle"
    <3>1. pc' = [pc EXCEPT ![v] = "idle"] \/
            \E w \in Threads : w # v /\ pc' = [pc EXCEPT ![v] = "idle", ![w] = Entry(w)]
      BY <1>2, <2>3, UpEffect
    <3> QED BY <3>1 DEF IInv, TypeOK, Proc
  <2> QED BY <2>2, <2>4
<1>3. ASSUME NEW u \in Threads, Up(u) PROVE Moves(t)
  <2>1. CASE Oops("semaphore")
    <3>1. waiters' = waiters /\ fault' # fault
      BY <1>3, <2>1 DEF Up, Oops, semaphore
    <3> QED BY <1>1, <3>1 DEF Moves
  <2>2. CASE waiters = <<>> /\ waiters' = waiters
    BY <2>2 DEF Moves
  <2>3. CASE waiters # <<>> /\ waiters' = Tail(waiters)
    <3>1. /\ Len(waiters') = Len(waiters) - 1
          /\ \A j \in 1 .. Len(waiters') : waiters'[j] = waiters[j + 1]
      BY <1>1, <2>3, HeadTailProperties
    <3>2. ASSUME NEW i \in 1 .. Len(waiters), NEW j \in 1 .. Len(waiters'),
                 waiters[i] = t, waiters'[j] = t
          PROVE  j < i
      <4>1. j + 1 \in 1 .. Len(waiters) /\ waiters[j + 1] = waiters[i]
        BY <1>1, <3>1, <3>2
      <4>2. j + 1 = i
        BY <1>1, <4>1
      <4> QED BY <4>2
    <3>3. \A i \in 1 .. Len(waiters), j \in 1 .. Len(waiters') : j < i => j <= i
      BY <1>1, <3>1
    <3> QED BY <3>2, <3>3 DEF Moves
  <2> QED BY <1>3, <2>1, <2>2, <2>3, UpEffect
<1>4. ASSUME NEW u \in Threads, Interrupted(u) PROVE Moves(t)
  <2>1. PICK k \in 1 .. Len(waiters) : waiters[k] = u /\ waiters' = RemoveAt(waiters, k)
    BY <1>4 DEF Interrupted
  <2>2. /\ Len(waiters') = Len(waiters) - 1
        /\ \A j \in 1 .. Len(waiters) - 1 :
             waiters'[j] = IF j < k THEN waiters[j] ELSE waiters[j + 1]
    <3>1. waiters \in Seq(Threads) /\ k \in 1 .. Len(waiters)
      BY <1>1
    <3> QED BY <2>1, <3>1, RemoveAtProperties, Zenon
  <2>3. ASSUME NEW i \in 1 .. Len(waiters), NEW j \in 1 .. Len(waiters'),
               waiters[i] = t, waiters'[j] = t
        PROVE  j <= i
    <3>1. i = j \/ i = j + 1
      BY <1>1, <2>2, <2>3
    <3> QED BY <3>1
  <2>4. pc[u] = "wait" /\ pc' = [pc EXCEPT ![u] = "idle"]
    BY <1>4 DEF Interrupted, Goto
  <2>5. ~\E v \in Threads : Up(v) /\ fault' = fault
    BY <1>2, <1>4, <2>4
  <2> QED BY <2>3, <2>5 DEF Moves
<1>5. ASSUME NEW u \in Threads, DownInterruptible(u) PROVE Moves(t)
  <2>1. ~\E v \in Threads : Up(v) /\ fault' = fault
    <3>1. /\ pc[u] = "down"
          /\ fault' # fault \/ \E place : pc' = [pc EXCEPT ![u] = place]
      BY <1>5 DEF DownInterruptible, Goto
    <3> QED BY <1>2, <3>1
  <2>2. CASE waiters' = waiters
    BY <1>1, <2>1, <2>2 DEF Moves
  <2>3. CASE waiters' # waiters
    <3>1. waiters' = Append(waiters, u) /\ pc[u] = "down"
      BY <1>5, <2>3 DEF DownInterruptible
    <3>2. /\ Len(waiters') = Len(waiters) + 1
          /\ waiters'[Len(waiters) + 1] = u
          /\ \A i \in 1 .. Len(waiters) : waiters'[i] = waiters[i]
      BY <1>1, <3>1
    <3>3. ASSUME NEW i \in 1 .. Len(waiters), NEW j \in 1 .. Len(waiters'),
                 waiters[i] = t, waiters'[j] = t
          PROVE  j <= i
      BY <1>1, <3>1, <3>2, <3>3
    <3> QED BY <2>1, <3>3 DEF Moves
  <2> QED BY <2>2, <2>3
<1>6. CASE InitModule \/ SemaInit
  BY <1>6 DEF InitModule, SemaInit, Moves
<1>7. CASE waiters' = waiters /\ ~\E u \in Threads : Up(u)
  BY <1>1, <1>7 DEF Moves
<1> QED BY <1>3, <1>4, <1>5, <1>6, <1>7, Writers_waiters

\* The queue in front of a waiter only gets shorter: no task that came later
\* is served before it, and each up() brings it nearer to the section.
THEOREM QueueIsFair == Spec => [][\A t \in Threads : Moves(t)]_vars
<1>1. IInv /\ [Next]_vars => [\A t \in Threads : Moves(t)]_vars
  BY MovesStep
<1> QED BY <1>1, Invariance, PTL DEF Spec

-----------------------------------------------------------------------------
(***************************************************************************)
(* Nothing goes round in circles: the rank of a call only falls.  Together *)
(* with NoLostWakeup and QueueIsFair this is the code's part of            *)
(* CallReturns; that a task which can run does run is the scheduler's.     *)
(***************************************************************************)
\* How many steps a call is away from its end, waiting not counted: the nodes
\* mev_follow() may yet walk, or those mev_trim() may yet free, are finite.
Rank(t) ==
  CASE pc[t] = "trim"    -> Cardinality(Addr \ freed) + 1
    [] pc[t] = "down"    -> 2 * IntMax + 12
    [] pc[t] = "wait"    -> 2 * IntMax + 11
    [] pc[t] = "eof"     -> 2 * IntMax + 10
    [] pc[t] = "clamp"   -> 2 * IntMax + 9
    [] pc[t] = "head"    -> 2 * IntMax + 8
    [] pc[t] = "follow"  -> call[t].n + 7
    [] pc[t] = "hole"    -> 6
    [] pc[t] = "array"   -> 6
    [] pc[t] = "quantum" -> 5
    [] pc[t] = "copy"    -> 4
    [] pc[t] = "commit"  -> 3
    [] pc[t] = "up"      -> 2
    [] OTHER             -> 0

RankStep(t) == /\ Rank(t)' <= Rank(t)
               /\ Advance(t) /\ fault' = fault => Rank(t)' < Rank(t)

\* What is not freed is finite and gets less.
LEMMA Unfreed ==
  ASSUME IInv, [Next]_vars
  PROVE  /\ Cardinality(Addr \ freed) \in Nat /\ Cardinality(Addr \ freed') \in Nat
         /\ Cardinality(Addr \ freed') <= Cardinality(Addr \ freed)
         /\ \A a \in live : freed' = freed \union {a} =>
              Cardinality(Addr \ freed') < Cardinality(Addr \ freed)
<1>1. live \in SUBSET Addr /\ live \intersect freed = {}
  BY DEF IInv, TypeOK, AddressInv
<1>2. freed \subseteq freed'
  BY HeapSteps, TrimEffect DEF NewQset
<1>3. IsFiniteSet(Addr \ freed) /\ (Addr \ freed') \in SUBSET (Addr \ freed)
  BY <1>2, MemoryAssumption, FS_Difference
<1>4. /\ IsFiniteSet(Addr \ freed')
      /\ Cardinality(Addr \ freed') <= Cardinality(Addr \ freed)
      /\ Cardinality(Addr \ freed) = Cardinality(Addr \ freed') => Addr \ freed = Addr \ freed'
  BY <1>3, FS_Subset
<1>5. Cardinality(Addr \ freed) \in Nat /\ Cardinality(Addr \ freed') \in Nat
  BY <1>3, <1>4, FS_CardinalityType
<1>6. ASSUME NEW a \in live, freed' = freed \union {a}
      PROVE  Cardinality(Addr \ freed') < Cardinality(Addr \ freed)
  <2>1. a \in Addr \ freed /\ a \notin Addr \ freed'
    BY <1>1, <1>6
  <2>2. Cardinality(Addr \ freed) # Cardinality(Addr \ freed')
    BY <1>4, <2>1
  <2> QED BY <1>4, <1>5, <2>2
<1> QED BY <1>4, <1>5, <1>6

\* The rank of a task is a number.
LEMMA RankType ==
  ASSUME IInv, [Next]_vars, NEW t \in Threads
  PROVE  Rank(t) \in Nat /\ Rank(t)' \in Nat
<1>1. call[t].pos \in Nat /\ call[t].n \in Nat
  BY DEF IInv, TypeOK, Calls
<1>2. call'[t].pos \in Nat /\ call'[t].n \in Nat
  <2>1. IInv'
    BY InvStep
  <2> QED BY <2>1 DEF IInv, TypeOK, Calls
<1>3. Cardinality(Addr \ freed) \in Nat /\ Cardinality(Addr \ freed') \in Nat
  BY Unfreed
<1>4. Rank(t) \in Nat
  BY <1>1, <1>3 DEF Rank
<1>5. Rank(t)' \in Nat
  BY <1>2, <1>3 DEF Rank
<1> QED BY <1>4, <1>5

\* A task's own steps, a hand-over of the semaphore, and what others do.
LEMMA StepsOf ==
  ASSUME IInv, [Next]_vars, NEW t \in Threads
  PROVE  \/ Advance(t)
         \/ UserStep(t)
         \/ pc'[t] = pc[t] /\ call'[t] = call[t]
         \/ pc[t] = "wait" /\ pc'[t] = Entry(t) /\ call'[t] = call[t]
<1>1. /\ pc \in [Proc -> InCall \union {"closed", "idle", "trim", "unloaded", "adding",
                                        "loaded", "del"}]
      /\ call \in [Threads -> Calls]
  BY DEF IInv, TypeOK
<1> USE DEF Goto, Oops, Proc
<1>2. CASE LoaderStep
  BY <1>1, <1>2, MevAssumption DEF LoaderStep, InitFails, InitModule, SemaInit, ExitBegin,
    ExitEnd, TrimNode, TrimReset, ResetTo
<1>3. ASSUME NEW u \in Threads, u # t, UserStep(u) PROVE pc'[t] = pc[t] /\ call'[t] = call[t]
  BY <1>1, <1>3 DEF UserStep, MevOpen, MevRelease, MevCall, Interrupted
<1>4. ASSUME NEW u \in Threads, u # t, Up(u)
      PROVE  \/ pc'[t] = pc[t] /\ call'[t] = call[t]
             \/ pc[t] = "wait" /\ pc'[t] = Entry(t) /\ call'[t] = call[t]
  <2>1. call'[t] = call[t]
    BY <1>1, <1>4 DEF Up
  <2> QED BY <1>1, <1>4, <2>1, UpEffect
<1>5. ASSUME NEW u \in Threads, u # t, Advance(u), ~Up(u)
      PROVE  pc'[t] = pc[t] /\ call'[t] = call[t]
  <2>1. pc'[t] = pc[t]
    BY <1>1, <1>5 DEF Advance, TrimNode, TrimReset, ResetTo, DownInterruptible, EndOfFile, Clamp,
      FollowHead, FollowNext, FollowEnd, ReadHole, WriteArray, WriteQuantum, Copy, Commit
  <2>2. call'[t] = call[t]
    <3>1. CASE Clamp(u)
      <4>1. \E c : call' = [call EXCEPT ![u] = c]
        BY <3>1 DEF Clamp
      <4> QED BY <1>1, <1>5, <4>1
    <3>2. CASE ~Clamp(u)
      BY <1>1, <1>5, <3>2 DEF Advance, TrimNode, TrimReset, ResetTo, DownInterruptible, EndOfFile,
        FollowHead, FollowNext, FollowEnd, ReadHole, WriteArray, WriteQuantum, Copy, Commit
    <3> QED BY <3>1, <3>2
  <2> QED BY <2>1, <2>2
<1>6. CASE UNCHANGED vars
  BY <1>6 DEF vars
<1> QED BY <1>2, <1>3, <1>4, <1>5, <1>6 DEF Next, Halted

\* A step of a call that does not end in a fault brings it closer to its end.
LEMMA AdvanceFalls ==
  ASSUME IInv, [Next]_vars, NEW t \in Threads, Advance(t), fault' = fault
  PROVE  Rank(t)' < Rank(t)
<1>1. /\ pc \in [Proc -> InCall \union {"closed", "idle", "trim", "unloaded", "adding",
                                        "loaded", "del"}]
      /\ call \in [Threads -> Calls] /\ call[t].pos \in Nat /\ call[t].n \in Nat
      /\ t \in Proc
  BY DEF IInv, TypeOK, Calls, Proc
<1>2. /\ Cardinality(Addr \ freed) \in Nat
      /\ \A a \in live : freed' = freed \union {a} =>
           Cardinality(Addr \ freed') < Cardinality(Addr \ freed)
      /\ Cardinality(Addr \ freed') \in Nat
  BY Unfreed
<1>3. fault = "none" /\ fault' = "none"
  BY DEF Advance, TrimNode, TrimReset, ResetTo, DownInterruptible, Up, EndOfFile, Clamp,
    FollowHead, FollowNext, FollowEnd, ReadHole, WriteArray, WriteQuantum, Copy, Commit
<1>4. \A kind : Oops(kind) => kind = "none"
  BY <1>3 DEF Oops
<1>5. \A a : Misuse(a) # "none"
  BY DEF Misuse
<1> USE DEF Goto, Rank
<1>6. CASE TrimNode(t)
  <2>1. cursor[t] \in live /\ freed' = freed \union {cursor[t]} /\ pc' = pc /\ pc[t] = "trim"
    <3> HIDE DEF Rank
    <3>1. ~Oops("bounds") /\ ~Oops(Misuse(cursor[t]))
      BY <1>4, <1>5
    <3> QED BY <1>6, <3>1 DEF TrimNode
  <2>2. Cardinality(Addr \ freed') < Cardinality(Addr \ freed)
    BY <1>2, <2>1
  <2>3. Rank(t) = Cardinality(Addr \ freed) + 1 /\ Rank(t)' = Cardinality(Addr \ freed') + 1
    BY <2>1
  <2> QED BY <1>2, <2>2, <2>3
<1>7. CASE TrimReset(t)
  <2>1. pc[t] = "trim" /\ pc'[t] \in {"del", "idle"}
    BY <1>1, <1>7 DEF TrimReset, ResetTo
  <2>2. Rank(t)' = 0
    BY <2>1
  <2>3. Rank(t) = Cardinality(Addr \ freed) + 1
    BY <2>1
  <2> QED BY <1>2, <2>2, <2>3
<1>8. CASE DownInterruptible(t)
  <2>1. pc[t] = "down" /\ call' = call /\ pc'[t] \in {"wait", "eof", "head"}
    BY <1>1, <1>3, <1>8 DEF DownInterruptible, Entry
  <2> QED BY <1>1, <2>1
<1>9. CASE Up(t)
  <2>1. pc[t] = "up" /\ pc'[t] = "idle"
    <3>1. ~Oops("semaphore")
      BY <1>4
    <3> QED BY <1>1, <1>9, <3>1, UpEffect DEF Up
  <2> QED BY <2>1
<1>10. CASE EndOfFile(t)
  <2>1. pc[t] = "eof" /\ call' = call /\ pc'[t] \in {"up", "clamp"}
    BY <1>1, <1>10 DEF EndOfFile
  <2> QED BY <1>1, <2>1
<1>11. CASE Clamp(t)
  <2>1. PICK n : call' = [call EXCEPT ![t].count = n]
    BY <1>11 DEF Clamp
  <2>2. pc[t] = "clamp" /\ pc'[t] = "head"
    BY <1>1, <1>11 DEF Clamp
  <2>3. call'[t].pos = call[t].pos
    BY <1>1, <2>1 DEF Calls
  <2> QED BY <1>1, <2>2, <2>3
<1>12. CASE FollowHead(t)
  <2>1. ItemSize(call[t]) # 0
    BY <1>4, <1>12 DEF FollowHead
  <2>2. call' = [call EXCEPT ![t].n = Item(call[t])]
    BY <1>12, <2>1 DEF FollowHead
  <2>3. pc[t] = "head" /\ pc'[t] \in {"follow", "up"}
    BY <1>1, <1>12, <2>1 DEF FollowHead
  <2>5. Item(call[t]) \in 0 .. 2 * IntMax - 1 /\ IntMax \in Nat
    BY <1>1, <2>1, PositionTypes, WrapIs
  <2>6. call'[t].n = Item(call[t])
    BY <1>1, <2>2 DEF Calls
  <2> QED BY <1>1, <2>3, <2>5, <2>6
<1>13. CASE FollowNext(t)
  <2>1. cursor[t] \in live
    BY <1>4, <1>5, <1>13 DEF FollowNext
  <2>2. /\ call[t].n > 0 /\ pc[t] = "follow" /\ pc'[t] \in {"follow", "up"}
        /\ call' = [call EXCEPT ![t].n = call[t].n - 1]
    BY <1>1, <1>13, <2>1 DEF FollowNext
  <2>3. call'[t].n = call[t].n - 1
    BY <1>1, <2>2 DEF Calls
  <2> QED BY <1>1, <2>2, <2>3
<1>14. CASE FollowEnd(t)
  <2>1. pc[t] = "follow" /\ pc'[t] \in {"hole", "array"}
    BY <1>1, <1>14 DEF FollowEnd
  <2> QED BY <1>1, <2>1
<1>15. CASE ReadHole(t)
  <2>1. pc[t] = "hole" /\ pc'[t] \in {"up", "copy"}
    BY <1>1, <1>4, <1>5, <1>15 DEF ReadHole
  <2> QED BY <2>1
<1>16. CASE WriteArray(t)
  <2>1. pc[t] = "array" /\ pc'[t] \in {"up", "quantum"}
    BY <1>1, <1>4, <1>5, <1>16 DEF WriteArray
  <2> QED BY <2>1
<1>17. CASE WriteQuantum(t)
  <2>1. pc[t] = "quantum" /\ pc'[t] \in {"up", "copy"}
    BY <1>1, <1>4, <1>5, <1>17 DEF WriteQuantum
  <2> QED BY <2>1
<1>18. CASE Copy(t)
  <2>1. pc[t] = "copy" /\ pc'[t] \in {"up", "commit"}
    BY <1>1, <1>4, <1>5, <1>18 DEF Copy
  <2> QED BY <2>1
<1>19. CASE Commit(t)
  <2>1. pc[t] = "commit" /\ pc'[t] = "up"
    BY <1>1, <1>19 DEF Commit
  <2> QED BY <2>1
<1> QED
  BY <1>6, <1>7, <1>8, <1>9, <1>10, <1>11, <1>12, <1>13, <1>14, <1>15, <1>16, <1>17, <1>18,
     <1>19 DEF Advance

\* Nobody's steps take it away from it.
LEMMA RankFalls ==
  ASSUME IInv, [Next]_vars, NEW t \in Threads, Busy(t)
  PROVE  RankStep(t)
<1>1. /\ pc \in [Proc -> InCall \union {"closed", "idle", "trim", "unloaded", "adding",
                                        "loaded", "del"}]
      /\ call[t].pos \in Nat /\ call[t].n \in Nat /\ t \in Proc
  BY DEF IInv, TypeOK, Calls, Proc
<1>2. Rank(t) \in Nat /\ Rank(t)' \in Nat
  BY RankType
<1>3. Cardinality(Addr \ freed) \in Nat /\ Cardinality(Addr \ freed') \in Nat
      /\ Cardinality(Addr \ freed') <= Cardinality(Addr \ freed)
  BY Unfreed
<1>4. ASSUME pc'[t] = pc[t], call'[t] = call[t] PROVE Rank(t)' <= Rank(t)
  BY <1>1, <1>3, <1>4 DEF Rank
<1>5. ASSUME pc[t] = "wait", pc'[t] = Entry(t), call'[t] = call[t] PROVE Rank(t)' <= Rank(t)
  BY <1>1, <1>5 DEF Rank, Entry
<1>6. ASSUME UserStep(t) PROVE Rank(t)' <= Rank(t)
  <2>1. pc[t] = "wait" /\ pc'[t] = "idle"
    BY <1>1, <1>6
    DEF UserStep, MevOpen, MevRelease, MevCall, Interrupted, Goto, Busy, InCall, Section
  <2>2. Rank(t)' = 0
    BY <2>1 DEF Rank
  <2> QED BY <1>2, <2>2
<1>7. ASSUME Advance(t), fault' # fault PROVE Rank(t)' <= Rank(t)
  <2>1. pc' = pc /\ call' = call
    BY <1>7 DEF Advance, TrimNode, TrimReset, ResetTo, DownInterruptible, Up, EndOfFile, Clamp,
      FollowHead, FollowNext, FollowEnd, ReadHole, WriteArray, WriteQuantum, Copy, Commit, Oops
  <2> QED BY <1>1, <1>3, <2>1 DEF Rank
<1>8. Rank(t)' <= Rank(t)
  BY <1>2, <1>4, <1>5, <1>6, <1>7, StepsOf, AdvanceFalls
<1> QED BY <1>8, AdvanceFalls DEF RankStep

\* No open, read or write goes round in circles, whatever else goes on, also
\* beside overlapping trims: its rank falls with each of its steps, and never
\* rises before it returns.
THEOREM CallsProgress == Spec => [][\A t \in Threads : Busy(t) => RankStep(t)]_vars
<1>1. IInv /\ [Next]_vars => [\A t \in Threads : Busy(t) => RankStep(t)]_vars
  BY RankFalls
<1> QED BY <1>1, Invariance, PTL DEF Spec

-----------------------------------------------------------------------------
(***************************************************************************)
(* What calls copy, that the nodes they allocate are never lost, and that  *)
(* the size is backed by data, for any finite memory.                      *)
(***************************************************************************)
\* Where a call knows where it ends.
Bounded == {"clamp", "head", "follow", "hole", "array", "quantum", "copy"}

\* A read that got past a test of the size keeps to it, since nobody else
\* writes the size while the read is in the section.
BoundInv ==
  ~overlap /\ ~early =>
    \A t \in Threads : call[t].op = "read" =>
      /\ pc[t] = "clamp" => call[t].pos < container.size
      /\ pc[t] \in Bounded \ {"clamp"} => call[t].pos + call[t].count <= container.size

\* How a call comes to, or stays at, one of these places.
LEMMA BoundedSteps ==
  ASSUME IInv, [Next]_vars, NEW t \in Threads, pc'[t] \in Bounded
  PROVE  \/ pc'[t] = pc[t] /\ call'[t] = call[t]
         \/ EndOfFile(t) /\ call'[t] = call[t]
         \/ Clamp(t)
         \/ pc'[t] = "head" /\ call'[t] = call[t] /\ call[t].op # "read"
         \/ /\ pc[t] \in {"head", "follow", "array"}
            /\ pc'[t] \in {"follow", "hole", "array", "quantum"}
            /\ \E n : call'[t] = [call[t] EXCEPT !.n = n]
         \/ /\ pc[t] \in {"hole", "quantum"} /\ pc'[t] = "copy"
            /\ call'[t] = Within(call[t])
            /\ ReadHole(t) \/ WriteQuantum(t)
<1>1. pc \in [Proc -> InCall \union {"closed", "idle", "trim", "unloaded", "adding",
                                     "loaded", "del"}]
      /\ call \in [Threads -> Calls]
  BY DEF IInv, TypeOK
<1> USE DEF Goto, Oops, Proc, Bounded
<1>2. CASE LoaderStep \/ UNCHANGED vars
  BY <1>1, <1>2 DEF LoaderStep, InitFails, InitModule, SemaInit, ExitBegin, ExitEnd,
    TrimNode, TrimReset, ResetTo, vars
<1>3. ASSUME NEW u \in Threads, UserStep(u) PROVE pc'[t] = pc[t] /\ call'[t] = call[t]
  BY <1>1, <1>3 DEF UserStep, MevOpen, MevRelease, MevCall, Interrupted
<1>4. ASSUME NEW u \in Threads, Up(u)
      PROVE  \/ pc'[t] = pc[t] /\ call'[t] = call[t]
             \/ pc'[t] = "head" /\ call'[t] = call[t] /\ call[t].op # "read"
  <2>1. call' = call \/ call' = [call EXCEPT ![u] = NoCall]
    BY <1>4 DEF Up
  <2>2. CASE Oops("semaphore")
    BY <2>2
  <2>3. CASE ~Oops("semaphore")
    <3>1. pc'[u] = "idle" /\ (pc'[t] = pc[t] \/ pc'[t] = Entry(t))
      BY <1>1, <1>4, <2>3, UpEffect
    <3>2. t # u /\ call'[t] = call[t]
      BY <1>1, <2>1, <3>1
    <3> QED BY <3>1, <3>2 DEF Entry
  <2> QED BY <2>2, <2>3
<1>5. ASSUME NEW u \in Threads, u # t, Advance(u), ~Up(u)
      PROVE  pc'[t] = pc[t] /\ call'[t] = call[t]
  BY <1>1, <1>5 DEF Advance, TrimNode, TrimReset, ResetTo, DownInterruptible, EndOfFile,
    Clamp, FollowHead, FollowNext, FollowEnd, ReadHole, WriteArray, WriteQuantum, Copy, Commit
<1>6. CASE DownInterruptible(t)
  BY <1>1, <1>6 DEF DownInterruptible, Entry
<1>7. CASE EndOfFile(t) \/ Clamp(t)
  BY <1>7 DEF EndOfFile
<1>8. CASE FollowHead(t)
  BY <1>1, <1>8 DEF FollowHead
<1>9. CASE FollowNext(t)
  BY <1>1, <1>9 DEF FollowNext
<1>10. CASE FollowEnd(t)
  <2>1. call'[t] = [call[t] EXCEPT !.n = call[t].n]
    BY <1>1, <1>10 DEF FollowEnd, Calls
  <2> QED BY <1>1, <1>10, <2>1 DEF FollowEnd
<1>11. CASE ReadHole(t)
  BY <1>1, <1>11 DEF ReadHole
<1>12. CASE WriteArray(t)
  <2>1. call'[t] = [call[t] EXCEPT !.n = call[t].n]
    BY <1>1, <1>12 DEF WriteArray, Calls
  <2> QED BY <1>1, <1>12, <2>1 DEF WriteArray
<1>13. CASE WriteQuantum(t)
  BY <1>1, <1>13 DEF WriteQuantum
<1>14. CASE Copy(t) \/ Commit(t)
  BY <1>1, <1>14 DEF Copy, Commit
<1>15. CASE TrimNode(t) \/ TrimReset(t)
  BY <1>1, <1>15 DEF TrimNode, TrimReset, ResetTo
<1> QED
  BY <1>2, <1>3, <1>4, <1>5, <1>6, <1>7, <1>8, <1>9, <1>10, <1>11, <1>12, <1>13, <1>14, <1>15
  DEF Next, Advance, Halted

\* Nobody writes the size beside a task in the section.
LEMMA SizeStays ==
  ASSUME IInv, [Next]_vars, ~overlap', ~early', NEW t \in Threads, pc[t] \in Section \ {"commit"}
  PROVE  container'.size = container.size
<1>1. /\ container \in [data : Pointer, quantum : Quanta, qset : Qsets, size : Nat]
      /\ Threads \subseteq Proc
  BY DEF IInv, TypeOK, Proc
<1>2. ~overlap /\ ~early
  <2>1. early \in BOOLEAN
    BY DEF IInv, TypeOK
  <2>2. CASE early' = early
    BY <2>1, <2>2, OverlapStays
  <2>3. CASE early' # early
    BY <2>1, <2>3, OverlapStays, Writers_early DEF DownInterruptible
  <2> QED BY <2>2, <2>3
<1>3. \A p \in Proc : pc[p] # "trim"
  BY <1>1, <1>2 DEF IInv, AloneInv, Busy, InCall, Section
<1>4. ~InitModule
  BY DEF InitModule, IInv, PlaceInv, Section
<1>5. ASSUME NEW u \in Threads, FollowHead(u) PROVE container'.size = container.size
  BY <1>1, <1>5 DEF FollowHead, Oops
<1>6. ASSUME NEW u \in Threads, Commit(u) PROVE FALSE
  <2>1. pc[u] = "commit"
    BY <1>6 DEF Commit
  <2> QED BY <1>2, <2>1 DEF IInv, LockInv, Section
<1> QED BY <1>3, <1>4, <1>5, <1>6, Writers_container DEF TrimReset, ResetTo

\* Every step keeps the reads below the size.
LEMMA BoundStep ==
  ASSUME IInv, BoundInv, [Next]_vars
  PROVE  BoundInv'
<1>1. SUFFICES ASSUME ~overlap', ~early', NEW t \in Threads, call'[t].op = "read",
                      pc'[t] \in Bounded
               PROVE  /\ pc'[t] = "clamp" => call'[t].pos < container'.size
                      /\ pc'[t] # "clamp" => call'[t].pos + call'[t].count <= container'.size
  BY DEF BoundInv, Bounded
<1>2. /\ call[t] \in Calls /\ call[t].pos \in Nat /\ call[t].count \in Nat
      /\ container.size \in Nat
      /\ pc \in [Proc -> InCall \union {"closed", "idle", "trim", "unloaded", "adding",
                                        "loaded", "del"}]
      /\ call \in [Threads -> Calls]
  BY DEF IInv, TypeOK, Calls
<1>3. ~overlap /\ ~early
  <2>1. early \in BOOLEAN
    BY DEF IInv, TypeOK
  <2>2. CASE early' = early
    BY <1>1, <2>1, <2>2, OverlapStays
  <2>3. CASE early' # early
    BY <1>1, <2>1, <2>3, OverlapStays, Writers_early DEF DownInterruptible
  <2> QED BY <2>2, <2>3
<1>4. ASSUME pc[t] \in Section \ {"commit"} PROVE container'.size = container.size
  BY <1>1, <1>4, SizeStays
<1>5. CASE pc'[t] = pc[t] /\ call'[t] = call[t]
  BY <1>1, <1>3, <1>4, <1>5 DEF BoundInv, Bounded, Section
<1>6. CASE EndOfFile(t) /\ call'[t] = call[t]
  BY <1>1, <1>2, <1>4, <1>6 DEF EndOfFile, Goto, Oops, Bounded, Section, Proc
<1>7. CASE Clamp(t)
  <2>1. pc[t] = "clamp" /\ pc'[t] = "head" /\ container'.size = container.size
    BY <1>2, <1>4, <1>7 DEF Clamp, Goto, Section, Proc
  <2>2. call'[t].pos = call[t].pos /\ call'[t].op = call[t].op
    BY <1>2, <1>7 DEF Clamp, Calls
  <2>3. call'[t].count = IF call[t].pos + call[t].count <= container.size THEN call[t].count
                         ELSE IF call[t].pos <= container.size THEN container.size - call[t].pos
                         ELSE IntMax
    BY <1>2, <1>7 DEF Clamp, Calls
  <2>4. call[t].pos < container.size
    BY <1>1, <1>3, <2>1, <2>2 DEF BoundInv
  <2> QED BY <1>2, <2>1, <2>2, <2>3, <2>4
<1>8. CASE /\ pc[t] \in {"head", "follow", "array"}
           /\ pc'[t] \in {"follow", "hole", "array", "quantum"}
           /\ \E n : call'[t] = [call[t] EXCEPT !.n = n]
  <2>1. call'[t].op = call[t].op /\ call'[t].pos = call[t].pos /\ call'[t].count = call[t].count
    BY <1>2, <1>8 DEF Calls
  <2> QED BY <1>1, <1>3, <1>4, <1>8, <2>1 DEF BoundInv, Bounded, Section
<1>9. CASE pc[t] \in {"hole", "quantum"} /\ pc'[t] = "copy" /\ call'[t] = Within(call[t])
  <2>1. ItemSize(call[t]) # 0
    BY <1>9 DEF IInv, SlotInv, Holding
  <2>2. /\ call'[t].op = call[t].op /\ call'[t].pos = call[t].pos
        /\ call'[t].count <= call[t].count
    BY <1>2, <1>9, <2>1, WithinCuts
  <2>3. call[t].pos + call[t].count <= container.size
    BY <1>1, <1>3, <1>9, <2>2 DEF BoundInv, Bounded
  <2>4. container'.size = container.size
    BY <1>4, <1>9 DEF Section
  <2>5. call'[t].count \in Nat
    BY <1>2, <1>9, <2>1, WithinCuts DEF Calls
  <2> QED BY <1>2, <1>9, <2>2, <2>3, <2>4, <2>5
<1> QED BY <1>1, <1>5, <1>6, <1>7, <1>8, <1>9, BoundedSteps

\* In the beginning nobody copies, and there is no module.
LEMMA BoundInit ==
  ASSUME Init
  PROVE  BoundInv
BY DEF Init, BoundInv, Bounded, Proc

-----------------------------------------------------------------------------
\* Reads deliver no byte at or behind the size, unless a trim ran beside them
\* or the semaphore was used too early.
THEOREM BelowSize == Spec => []ReadsBelowSize
<1>1. Init => BoundInv
  BY BoundInit
<1>2. IInv /\ BoundInv /\ [Next]_vars => BoundInv'
  BY BoundStep
<1>3. BoundInv => ReadsBelowSize
  BY DEF BoundInv, ReadsBelowSize, Bounded
<1> QED BY <1>1, <1>2, <1>3, Invariance, PTL DEF Spec

-----------------------------------------------------------------------------
\* s are the nodes, one after the other, from the head on.
Along(n, s, nodes, next, head) ==
  /\ \A i, j \in 1 .. n : s[i] = s[j] => i = j
  /\ \A a \in nodes : \E i \in 1 .. n : s[i] = a
  /\ \A i \in 1 .. n : next[s[i]] = IF i < n THEN s[i + 1] ELSE NULL
  /\ n > 0 => head = s[1]

\* All the nodes hang on one list.
Chain(nodes, next, head) ==
  \E n \in Nat : \E s \in [1 .. n -> nodes] : Along(n, s, nodes, next, head)

\* A list whose head is no node has no nodes.
LEMMA ChainEmpty ==
  ASSUME NEW nodes, NEW next, NEW h, Chain(nodes, next, h), h \notin nodes
  PROVE  nodes = {}
BY DEF Chain, Along

\* No nodes are a list, whatever its head.
LEMMA ChainNone ==
  ASSUME NEW next, NEW h
  PROVE  Chain({}, next, h)
<1> DEFINE s == [i \in 1 .. 0 |-> NULL]
<1>1. s \in [1 .. 0 -> {}] /\ Along(0, s, {}, next, h)
  BY DEF Along
<1> HIDE DEF s
<1> QED BY <1>1 DEF Chain

\* A node without next is a list.
LEMMA ChainOne ==
  ASSUME NEW next, NEW a, next[a] = NULL
  PROVE  Chain({a}, next, a)
<1> DEFINE s == [i \in 1 .. 1 |-> a]
<1>1. s \in [1 .. 1 -> {a}] /\ Along(1, s, {a}, next, a)
  BY DEF Along
<1> HIDE DEF s
<1> QED BY <1>1 DEF Chain

\* The first node goes.
LEMMA ChainTail ==
  ASSUME NEW nodes \in SUBSET Addr, NEW next \in [Addr -> Addr \union {NULL}], NEW h \in nodes,
         Chain(nodes, next, h)
  PROVE  Chain(nodes \ {h}, [next EXCEPT ![h] = NULL], next[h])
<1> PICK n \in Nat : \E s \in [1 .. n -> nodes] : Along(n, s, nodes, next, h)
  BY DEF Chain
<1>1. PICK s \in [1 .. n -> nodes] : Along(n, s, nodes, next, h)
  OBVIOUS
<1> DEFINE r == [i \in 1 .. n - 1 |-> s[i + 1]]
           rest == [next EXCEPT ![h] = NULL]
<1>2. n > 0 /\ s[1] = h /\ n - 1 \in Nat
  BY <1>1 DEF Along
<1>3. \A i \in 1 .. n - 1 :
        i + 1 \in 1 .. n /\ s[i + 1] \in nodes /\ s[i + 1] # h /\ r[i] = s[i + 1]
  BY <1>1, <1>2 DEF Along
<1>4. r \in [1 .. n - 1 -> nodes \ {h}]
  BY <1>3
<1>5. \A i, j \in 1 .. n - 1 : r[i] = r[j] => i = j
  BY <1>1, <1>3 DEF Along
<1>6. \A a \in nodes \ {h} : \E i \in 1 .. n - 1 : r[i] = a
  <2>1. SUFFICES ASSUME NEW a \in nodes \ {h} PROVE \E i \in 1 .. n - 1 : r[i] = a
    OBVIOUS
  <2>2. PICK i \in 1 .. n : s[i] = a
    BY <1>1 DEF Along
  <2>3. i - 1 \in 1 .. n - 1 /\ (i - 1) + 1 = i
    BY <1>2, <2>2
  <2> QED BY <1>3, <2>2, <2>3
<1>7. \A i \in 1 .. n - 1 : rest[r[i]] = IF i < n - 1 THEN r[i + 1] ELSE NULL
  <2>1. SUFFICES ASSUME NEW i \in 1 .. n - 1
                 PROVE  rest[r[i]] = IF i < n - 1 THEN r[i + 1] ELSE NULL
    OBVIOUS
  <2>2. rest[r[i]] = next[s[i + 1]]
    BY <1>3
  <2>3. next[s[i + 1]] = IF i + 1 < n THEN s[(i + 1) + 1] ELSE NULL
    BY <1>1, <1>3 DEF Along
  <2>4. i < n - 1 => r[i + 1] = s[(i + 1) + 1]
    BY <1>3
  <2> QED BY <2>2, <2>3, <2>4
<1>8. n - 1 > 0 => next[h] = r[1]
  <2>1. 1 \in 1 .. n /\ next[s[1]] = IF 1 < n THEN s[1 + 1] ELSE NULL
    BY <1>1, <1>2 DEF Along
  <2> QED BY <1>2, <1>3, <2>1
<1>9. Along(n - 1, r, nodes \ {h}, rest, next[h])
  BY <1>5, <1>6, <1>7, <1>8 DEF Along
<1> QED BY <1>2, <1>4, <1>9 DEF Chain

\* A node comes behind the last one.
LEMMA ChainAppend ==
  ASSUME NEW nodes \in SUBSET Addr, NEW next \in [Addr -> Addr \union {NULL}], NEW h,
         Chain(nodes, next, h), NEW b \in nodes, next[b] = NULL,
         NEW a \in Addr \ nodes, next[a] = NULL
  PROVE  Chain(nodes \union {a}, [next EXCEPT ![b] = a], h)
<1> PICK n \in Nat : \E s \in [1 .. n -> nodes] : Along(n, s, nodes, next, h)
  BY DEF Chain
<1>1. PICK s \in [1 .. n -> nodes] : Along(n, s, nodes, next, h)
  OBVIOUS
<1> DEFINE r == [i \in 1 .. n + 1 |-> IF i <= n THEN s[i] ELSE a]
           longer == [next EXCEPT ![b] = a]
<1>2. n > 0 /\ s[n] = b
  <2>1. PICK i \in 1 .. n : s[i] = b
    BY <1>1 DEF Along
  <2>2. i < n => next[b] \in nodes
    BY <1>1, <2>1 DEF Along
  <2> QED BY <2>1, <2>2
<1>3. \A i \in 1 .. n : r[i] = s[i] /\ s[i] \in nodes /\ i \in 1 .. n + 1
  BY <1>1
<1>4. r[n + 1] = a /\ n + 1 \in 1 .. n + 1 /\ \A i \in 1 .. n + 1 : i \in 1 .. n \/ i = n + 1
  BY <1>1
<1>5. r \in [1 .. n + 1 -> nodes \union {a}]
  BY <1>3, <1>4
<1> HIDE DEF r
<1>6. ASSUME NEW i \in 1 .. n + 1, NEW j \in 1 .. n + 1, r[i] = r[j] PROVE i = j
  <2>1. CASE i \in 1 .. n /\ j \in 1 .. n
    <3>1. s[i] = s[j]
      BY <1>3, <1>6, <2>1
    <3> QED BY <1>1, <2>1, <3>1 DEF Along
  <2>2. \A k \in 1 .. n : r[k] # r[n + 1]
    BY <1>3, <1>4
  <2>3. CASE i = n + 1
    BY <1>4, <1>6, <2>2, <2>3
  <2>4. CASE j = n + 1
    BY <1>4, <1>6, <2>2, <2>4
  <2> QED BY <1>4, <2>1, <2>3, <2>4
<1>7. ASSUME NEW c \in nodes \union {a} PROVE \E i \in 1 .. n + 1 : r[i] = c
  <2>1. CASE c = a
    BY <1>4, <2>1
  <2>2. CASE c \in nodes
    <3>1. PICK i \in 1 .. n : s[i] = c
      BY <1>1, <2>2 DEF Along
    <3> QED BY <1>3, <3>1
  <2> QED BY <2>1, <2>2
<1>8. \A i \in 1 .. n + 1 : longer[r[i]] = IF i < n + 1 THEN r[i + 1] ELSE NULL
  <2>1. longer[a] = NULL /\ longer[b] = a /\ \A c \in nodes \ {b} : longer[c] = next[c]
    OBVIOUS
  <2>2. ASSUME NEW i \in 1 .. n, i # n PROVE longer[r[i]] = r[i + 1]
    <3>1. i + 1 \in 1 .. n /\ n \in 1 .. n /\ i < n
      BY <2>2
    <3>2. s[i] # b
      BY <1>1, <1>2, <2>2, <3>1 DEF Along
    <3>3. next[s[i]] = s[i + 1]
      BY <1>1, <3>1 DEF Along
    <3> QED BY <1>3, <2>1, <3>1, <3>2, <3>3
  <2>3. longer[r[n]] = r[n + 1]
    BY <1>2, <1>3, <1>4, <2>1
  <2>4. longer[r[n + 1]] = NULL
    BY <1>4, <2>1
  <2>5. SUFFICES ASSUME NEW i \in 1 .. n + 1
                 PROVE  longer[r[i]] = IF i < n + 1 THEN r[i + 1] ELSE NULL
    OBVIOUS
  <2> HIDE DEF longer, r
  <2>6. i = n + 1 \/ i = n \/ (i \in 1 .. n /\ i # n)
    BY <2>5
  <2>7. CASE i = n + 1
    BY <2>4, <2>7
  <2>8. CASE i = n
    BY <2>3, <2>8
  <2>9. CASE i \in 1 .. n /\ i # n
    BY <2>2, <2>9
  <2> QED BY <2>6, <2>7, <2>8, <2>9
<1>9. n + 1 > 0 => h = r[1]
  <2>1. h = s[1]
    BY <1>1, <1>2 DEF Along
  <2>2. 1 \in 1 .. n
    BY <1>2
  <2> QED BY <1>3, <2>1, <2>2
<1>10. Along(n + 1, r, nodes \union {a}, longer, h)
  <2> HIDE DEF longer, r
  <2> QED BY <1>6, <1>7, <1>8, <1>9 DEF Along
<1> QED BY <1>5, <1>10 DEF Chain

-----------------------------------------------------------------------------
\* The live nodes are those on the container's list, or those a trim has yet
\* to free; without a module there are none.
LeakInv ==
  ~overlap =>
    /\ (\A p \in Proc : pc[p] # "trim") => Chain(live, nxt, container.data)
    /\ \A p \in Proc : pc[p] = "trim" => Chain(live, nxt, cursor[p])
    /\ pc[Loader] \in {"unloaded", "del"} => live = {}

\* The module is gone only after a trim.
LEMMA LoaderLeaves ==
  ASSUME IInv, [Next]_vars, pc'[Loader] \in {"unloaded", "del"}
  PROVE  pc[Loader] \in {"unloaded", "del"} \/ TrimReset(Loader)
<1>1. pc \in [Proc -> InCall \union {"closed", "idle", "trim", "unloaded", "adding",
                                     "loaded", "del"}]
      /\ Loader \notin Threads /\ Loader \in Proc
  BY DEF IInv, TypeOK, Proc
<1> USE DEF Goto, Oops, Proc, Entry
<1>2. CASE LoaderStep \/ UNCHANGED vars
  BY <1>1, <1>2 DEF LoaderStep, InitFails, InitModule, SemaInit, ExitBegin, ExitEnd,
    TrimNode, TrimReset, ResetTo, vars
<1>3. ASSUME NEW t \in Threads, UserStep(t) PROVE pc[Loader] \in {"unloaded", "del"}
  BY <1>1, <1>3 DEF UserStep, MevOpen, MevRelease, MevCall, Interrupted
<1>4. ASSUME NEW t \in Threads, Up(t) PROVE pc[Loader] \in {"unloaded", "del"}
  BY <1>1, <1>4, UpEffect
<1>5. ASSUME NEW t \in Threads, Advance(t), ~Up(t) PROVE pc[Loader] \in {"unloaded", "del"}
  BY <1>1, <1>5 DEF Advance, TrimNode, TrimReset, ResetTo, DownInterruptible, EndOfFile,
    Clamp, FollowHead, FollowNext, FollowEnd, ReadHole, WriteArray, WriteQuantum, Copy,
    Commit
<1> QED BY <1>2, <1>3, <1>4, <1>5 DEF Next, Halted

\* Steps that leave the nodes alone.
LEMMA LeakSame ==
  ASSUME IInv, LeakInv, [Next]_vars, ~overlap', UNCHANGED <<live, freed, nxt>>
  PROVE  LeakInv'
<1>1. /\ live \in SUBSET Addr
      /\ container \in [data : Pointer, quantum : Quanta, qset : Qsets, size : Nat]
  BY DEF IInv, TypeOK
<1>2. ~overlap /\ AloneInv /\ PlaceInv
  BY OverlapStays DEF IInv
<1>3. /\ (\A p \in Proc : pc[p] # "trim") => Chain(live, nxt, container.data)
      /\ \A p \in Proc : pc[p] = "trim" => Chain(live, nxt, cursor[p])
      /\ pc[Loader] \in {"unloaded", "del"} => live = {}
  BY <1>2 DEF LeakInv
<1>4. ASSUME NEW p \in Proc, TrimReset(p) PROVE live = {} /\ container'.data = NULL
  <2>1. pc[p] = "trim" /\ cursor[p] = NULL /\ container'.data = NULL
    BY <1>4 DEF TrimReset, ResetTo
  <2> QED BY <1>1, <1>3, <2>1, ChainEmpty
<1>5. ASSUME \A p \in Proc : pc'[p] # "trim" PROVE Chain(live, nxt, container'.data)
  <2>1. CASE \E p \in Proc : TrimReset(p)
    BY <1>4, <2>1, ChainNone
  <2>2. CASE \A p \in Proc : ~TrimReset(p)
    <3>1. \A p \in Proc : pc[p] # "trim"
      BY <1>5, <2>2, TrimEnds
    <3>2. CASE InitModule
      BY <1>3, <3>2, ChainNone DEF InitModule
    <3>3. ASSUME NEW t \in Threads, FollowHead(t) PROVE container'.data = container.data
      BY <1>1, <3>3 DEF FollowHead, NewQset, Oops
    <3>4. ASSUME NEW t \in Threads, Commit(t) PROVE container'.data = container.data
      BY <1>1, <3>4 DEF Commit
    <3> QED BY <1>3, <2>2, <3>1, <3>2, <3>3, <3>4, Writers_container
  <2> QED BY <2>1, <2>2
<1>6. ASSUME NEW p \in Proc, pc'[p] = "trim" PROVE Chain(live, nxt, cursor'[p])
  <2>1. CASE TrimNode(p)
    <3>1. pc[p] = "trim" /\ cursor'[p] = cursor[p]
      BY <1>1, <2>1 DEF TrimNode, Oops
    <3> QED BY <1>3, <3>1
  <2>2. CASE pc[p] = "trim" /\ cursor'[p] = cursor[p]
    BY <1>3, <2>2
  <2>3. CASE ExitBegin /\ cursor'[p] = container.data
    <3>1. \A q \in Proc : pc[q] # "trim"
      BY <2>3 DEF ExitBegin, Proc
    <3> QED BY <1>3, <2>3, <3>1
  <2>4. CASE p \in Threads /\ MevOpen(p, "O_WRONLY") /\ cursor'[p] = container.data
    <3>1. \A q \in Proc : pc[q] # "trim"
      BY <2>4 DEF MevOpen, Busy, Proc
    <3> QED BY <1>3, <2>4, <3>1
  <2> QED BY <1>6, <2>1, <2>2, <2>3, <2>4, TrimBegins
<1>7. ASSUME pc'[Loader] \in {"unloaded", "del"} PROVE live = {}
  BY <1>3, <1>4, <1>7, LoaderLeaves DEF Proc
<1> QED BY <1>5, <1>6, <1>7 DEF LeakInv

\* A turn of the loop of mev_trim().
LEMMA LeakTrim ==
  ASSUME IInv, LeakInv, ~overlap, NEW p \in Proc, TrimNode(p), live' # live
  PROVE  LeakInv'
<1>1. /\ live \in SUBSET Addr /\ nxt \in [Addr -> Addr \union {NULL}]
      /\ cursor \in [Proc -> Pointer]
  BY DEF IInv, TypeOK
<1>2. /\ pc[p] = "trim" /\ UNCHANGED pc
      /\ live' = live \ {cursor[p]} /\ nxt' = [nxt EXCEPT ![cursor[p]] = NULL]
      /\ cursor'[p] = nxt[cursor[p]] /\ cursor[p] \in live
  BY <1>1, TrimEffect DEF TrimNode
<1>3. \A q \in Proc : pc[q] = "trim" => q = p
  BY <1>2 DEF IInv, AloneInv, Busy
<1>4. Chain(live, nxt, cursor[p])
  BY <1>2 DEF LeakInv
<1>5. Chain(live', nxt', cursor'[p])
  BY <1>1, <1>2, <1>4, ChainTail
<1>6. pc'[Loader] \in {"unloaded", "del"} => live' = {}
  BY <1>2 DEF LeakInv
<1> QED BY <1>2, <1>3, <1>5, <1>6 DEF LeakInv

\* A turn of mev_follow() that allocates a node.
LEMMA LeakFollow ==
  ASSUME IInv, LeakInv, ~overlap, NEW t \in Threads, NEW a \in Addr,
         FollowHead(t) \/ FollowNext(t), NewQset(a), cursor' = [cursor EXCEPT ![t] = a]
  PROVE  LeakInv'
<1>1. /\ live \in SUBSET Addr /\ nxt \in [Addr -> Addr \union {NULL}]
      /\ cursor \in [Proc -> Pointer]
      /\ container \in [data : Pointer, quantum : Quanta, qset : Qsets, size : Nat]
      /\ pc \in [Proc -> InCall \union {"closed", "idle", "trim", "unloaded", "adding",
                                        "loaded", "del"}]
  BY DEF IInv, TypeOK
<1>2. pc[t] \in {"head", "follow"} /\ a \notin live /\ live' = live \union {a}
  BY DEF FollowHead, FollowNext, NewQset
<1>3. \A p \in Proc : pc[p] # "trim"
  BY <1>2 DEF IInv, AloneInv, Busy, InCall, Section, Proc
<1>4. pc[Loader] \notin {"unloaded", "del"}
  BY <1>2 DEF IInv, PlaceInv
<1>5. /\ \A p \in Proc : pc'[p] # "trim"
      /\ pc'[Loader] \notin {"unloaded", "del"}
  BY <1>1, <1>3, <1>4 DEF FollowHead, FollowNext, Goto, Oops, Proc
<1>6. Chain(live, nxt, container.data) /\ nxt[a] = NULL
  BY <1>2, <1>3 DEF LeakInv, IInv, AddressInv
<1>7. CASE FollowHead(t)
  <2>1. PICK b \in Addr : /\ container.data = NULL /\ NewQset(b)
                          /\ container'.data = b /\ nxt' = nxt
    BY <1>1, <1>2, <1>7 DEF FollowHead, Oops, heap
  <2>2. b = a
    BY <1>2, <2>1 DEF NewQset
  <2>3. live = {}
    BY <1>1, <1>6, <2>1, ChainEmpty
  <2>4. Chain({a}, nxt, a)
    BY <1>6, ChainOne
  <2>5. live' = {a}
    BY <1>2, <2>3
  <2> QED BY <1>5, <2>1, <2>2, <2>4, <2>5 DEF LeakInv
<1>8. CASE FollowNext(t)
  <2>1. PICK b \in Addr : /\ cursor[t] \in live /\ nxt[cursor[t]] = NULL /\ NewQset(b)
                          /\ nxt' = [nxt EXCEPT ![cursor[t]] = b]
                          /\ container' = container
    BY <1>1, <1>2, <1>8 DEF FollowNext, Oops, heap
  <2>2. b = a
    BY <1>2, <2>1 DEF NewQset
  <2>3. Chain(live \union {a}, [nxt EXCEPT ![cursor[t]] = a], container.data)
    BY <1>1, <1>2, <1>6, <2>1, ChainAppend
  <2> QED BY <1>2, <1>5, <2>1, <2>2, <2>3 DEF LeakInv
<1> QED BY <1>7, <1>8

\* Every step keeps the nodes on their list.
LEMMA LeakStep ==
  ASSUME IInv, LeakInv, [Next]_vars
  PROVE  LeakInv'
<1>1. SUFFICES ASSUME ~overlap' PROVE LeakInv'
  BY DEF LeakInv
<1>2. ~overlap
  BY <1>1, OverlapStays
<1> QED BY <1>1, <1>2, LeakSame, LeakTrim, LeakFollow, HeapSteps

\* In the beginning there are none.
LEMMA LeakInit ==
  ASSUME Init
  PROVE  LeakInv
BY ChainNone DEF Init, LeakInv, Proc

-----------------------------------------------------------------------------
\* Nodes are as many as addresses, at most.
LEMMA AlongLength ==
  ASSUME NEW nodes \in SUBSET Addr, NEW next, NEW h, NEW n \in Nat, NEW s \in [1 .. n -> nodes],
         Along(n, s, nodes, next, h)
  PROVE  n <= Cardinality(Addr) /\ Cardinality(Addr) \in Nat
<1>1. s \in Injection(1 .. n, Addr)
  BY DEF Along, Injection, IsInjective
<1>2. Cardinality(1 .. n) <= Cardinality(Addr)
  BY <1>1, MemoryAssumption, FS_Injection
<1>3. Cardinality(1 .. n) = n
  BY FS_Interval
<1> QED BY <1>2, <1>3, MemoryAssumption, FS_CardinalityType

\* A set of numbers has a least one.
LEMMA LeastNumber ==
  ASSUME NEW T \in SUBSET Nat, T # {}
  PROVE  \E x \in T : \A y \in T : x <= y
<1> DEFINE R == {ss \in Nat \X Nat : ss[1] < ss[2]}
<1>1. IsWellFoundedOn(R, Nat)
  BY NatLessThanWellFounded, Zenon DEF OpToRel
<1>2. \E x \in T : \A y \in T : ~(<<y, x>> \in R)
  <2> HIDE DEF R
  <2> QED BY <1>1, WFMin, Zenon
<1>3. \A x, y \in Nat : <<y, x>> \in R <=> y < x
  OBVIOUS
<1> HIDE DEF R
<1>4. PICK x \in T : \A y \in T : ~(<<y, x>> \in R)
  BY <1>2
<1>5. ASSUME NEW y \in T PROVE x <= y
  <2>1. x \in Nat /\ y \in Nat /\ ~(y < x)
    BY <1>3, <1>4, <1>5
  <2> QED BY <2>1
<1> QED BY <1>5

\* What the definition of List says of f.
ListOf(f) ==
  [k \in 0 .. Cardinality(Addr) |->
     IF k = 0 THEN container.data ELSE IF f[k - 1] \in Addr THEN nxt[f[k - 1]] ELSE NULL]

\* There is a List if anything is as its definition says.
LEMMA ListRec ==
  ASSUME NEW f, f = ListOf(f)
  PROVE  List = ListOf(List)
BY Zenon DEF List, ListOf

\* List runs along the nodes of the container and leaves them at the end.
LEMMA ListIs ==
  ASSUME live \in SUBSET Addr, NEW n \in Nat, NEW s \in [1 .. n -> live],
         Along(n, s, live, nxt, container.data), container.data \in Addr => n > 0
  PROVE  /\ List = [k \in 0 .. Cardinality(Addr) |->
                      IF k < n THEN s[k + 1] ELSE IF k = 0 THEN container.data ELSE NULL]
         /\ List = ListOf(List)
<1> DEFINE last == Cardinality(Addr)
           w == [k \in 0 .. last |->
                   IF k < n THEN s[k + 1] ELSE IF k = 0 THEN container.data ELSE NULL]
<1>1. last \in Nat /\ n <= last
  BY AlongLength
<1>2. ASSUME NEW k \in 0 .. last PROVE w[k] = ListOf(w)[k]
  <2> USE DEF ListOf
  <2>1. CASE k = 0
    BY <2>1, <1>1 DEF Along
  <2>2. CASE k > 0 /\ k <= n
    <3>1. k \in 1 .. n /\ k - 1 \in 0 .. last /\ k - 1 < n /\ (k - 1) + 1 = k
      BY <1>1, <2>2
    <3>2. w[k - 1] = s[k] /\ s[k] \in Addr
      BY <3>1
    <3>3. nxt[s[k]] = IF k < n THEN s[k + 1] ELSE NULL
      BY <3>1 DEF Along
    <3> QED BY <2>2, <3>2, <3>3
  <2>3. CASE k > n
    <3>1. k - 1 \in 0 .. last /\ ~(k - 1 < n) /\ k # 0 /\ ~(k < n)
      BY <1>1, <2>3
    <3>2. w[k - 1] = IF k - 1 = 0 THEN container.data ELSE NULL
      BY <3>1
    <3>3. w[k - 1] \notin Addr
      <4>1. k - 1 = 0 => n = 0
        BY <2>3
      <4> QED BY <3>2, <4>1
    <3> QED BY <3>1, <3>3
  <2> QED BY <1>1, <1>2, <2>1, <2>2, <2>3
<1>3. w = ListOf(w)
  <2>1. ListOf(w) = [k \in 0 .. last |-> ListOf(w)[k]]
    BY DEF ListOf
  <2> HIDE DEF last
  <2> QED BY <1>2, <2>1
<1>4. List = ListOf(List)
  <2> HIDE DEF w
  <2> QED BY <1>3, ListRec
<1>5. w = [k \in 0 .. last |-> w[k]]
  OBVIOUS
<1> HIDE DEF w
<1>6. List = [k \in 0 .. last |-> List[k]]
  BY <1>4 DEF ListOf
<1>7. ASSUME NEW i \in 0 .. last, List[i] # w[i] PROVE FALSE
  <2> DEFINE T == {k \in 0 .. last : List[k] # w[k]}
  <2>1. PICK k \in T : \A j \in T : k <= j
    <3>1. T \in SUBSET Nat /\ T # {}
      BY <1>1, <1>7
    <3> HIDE DEF T
    <3> QED BY <3>1, LeastNumber, Zenon
  <2>2. List[k] = ListOf(List)[k] /\ w[k] = ListOf(w)[k] /\ k \in 0 .. last /\ List[k] # w[k]
    BY <1>3, <1>4, <2>1
  <2>3. CASE k = 0
    BY <2>2, <2>3 DEF ListOf
  <2>4. CASE k # 0
    <3>1. k - 1 \in 0 .. last /\ ~(k <= k - 1)
      BY <1>1, <2>2, <2>4
    <3>2. List[k - 1] = w[k - 1]
      BY <2>1, <3>1
    <3>3. ListOf(List)[k] = ListOf(w)[k]
      BY <2>2, <2>4, <3>2 DEF ListOf
    <3> QED BY <2>2, <3>3
  <2> QED BY <2>3, <2>4
<1>8. List = w
  <2> HIDE DEF last
  <2>1. \A k \in 0 .. last : List[k] = w[k]
    BY <1>7
  <2> QED BY <1>5, <1>6, <2>1
<1> QED BY <1>4, <1>8 DEF w

\* Every node a trim would free is either on the list or awaits a trim that is
\* running, and without a module there is none.
LEMMA LeakSafe ==
  ASSUME IInv, LeakInv
  PROVE  NothingLeaked
<1>1. /\ live \in SUBSET Addr /\ container.data \in Pointer
  BY DEF IInv, TypeOK
<1>2. ASSUME ~overlap, NEW a \in live
      PROVE  \/ \E k \in DOMAIN List : List[k] = a
             \/ \E p \in Proc : pc[p] = "trim" /\ cursor[p] # NULL
  <2>1. CASE \E p \in Proc : pc[p] = "trim"
    <3>1. PICK p \in Proc : pc[p] = "trim"
      BY <2>1
    <3>2. Chain(live, nxt, cursor[p])
      BY <1>2, <3>1 DEF LeakInv
    <3>3. cursor[p] \in live
      BY <1>2, <3>2, ChainEmpty
    <3> QED BY <1>1, <3>1, <3>3
  <2>2. CASE \A p \in Proc : pc[p] # "trim"
    <3> PICK n \in Nat : \E s \in [1 .. n -> live] : Along(n, s, live, nxt, container.data)
      BY <1>2, <2>2 DEF LeakInv, Chain
    <3>1. PICK s \in [1 .. n -> live] : Along(n, s, live, nxt, container.data)
      OBVIOUS
    <3>2. PICK i \in 1 .. n : s[i] = a
      BY <1>2, <3>1 DEF Along
    <3>3. List = [k \in 0 .. Cardinality(Addr) |->
                    IF k < n THEN s[k + 1] ELSE IF k = 0 THEN container.data ELSE NULL]
      BY <1>1, <3>1, <3>2, ListIs
    <3>4. i - 1 \in 0 .. Cardinality(Addr) /\ i - 1 < n /\ (i - 1) + 1 = i
      BY <1>1, <3>1, <3>2, AlongLength
    <3> QED BY <3>2, <3>3, <3>4
  <2> QED BY <2>1, <2>2
<1> QED BY <1>2 DEF NothingLeaked, LeakInv

\* The driver loses no memory: what it allocated, a trim finds and frees.
THEOREM LosesNothing == Spec => []NothingLeaked
<1>1. Init => LeakInv
  BY LeakInit
<1>2. IInv /\ LeakInv /\ [Next]_vars => LeakInv'
  BY LeakStep
<1>3. IInv /\ LeakInv => NothingLeaked
  BY LeakSafe
<1> QED BY <1>1, <1>2, <1>3, Invariance, PTL DEF Spec

-----------------------------------------------------------------------------
(***************************************************************************)
(* Who uses which geometry, and the accesses that stay in bounds by that.  *)
(***************************************************************************)
\* A call has the geometry the container has, and so has a trim.
CallShape ==
  /\ \A t \in Threads : pc[t] \in InCall =>
       call[t].quantum = container.quantum /\ call[t].qset = container.qset
  /\ \A p \in Proc : pc[p] = "trim" => turns[p] = container.qset

\* What is allocated is as long as that geometry says.
HeapShape ==
  \A a \in live : data[a] # NULL =>
    /\ container.qset > 0 /\ DOMAIN data[a] = 0 .. container.qset - 1
    /\ \A s \in DOMAIN data[a] : data[a][s] # NULL =>
         data[a][s] = container.quantum /\ container.quantum > 0

\* A call copies at most what is left of its quantum.
CopyShape ==
  \A t \in Threads : pc[t] = "copy" => QPos(call[t]) + call[t].count <= call[t].quantum

\* All this as long as no trim ran beside a call.
ShapeInv ==
  ~overlap /\ ~early =>
    /\ CallShape /\ HeapShape /\ CopyShape
    /\ fault = "bounds" => container.quantum < 0

\* A semaphore that was used too early stays so.
LEMMA EarlyStays ==
  ASSUME IInv, [Next]_vars, ~early'
  PROVE  ~early
<1>1. early \in BOOLEAN
  BY DEF IInv, TypeOK
<1> QED BY <1>1, Writers_early DEF DownInterruptible

\* The geometry changes when there is no memory and no call it would matter to.
LEMMA GeometryStays ==
  ASSUME IInv, LeakInv, [Next]_vars, ~overlap
  PROVE  \/ container'.quantum = container.quantum /\ container'.qset = container.qset
         \/ /\ live' = {} /\ fault' = "none"
            /\ \A t \in Threads : pc'[t] \notin InCall
            /\ \A p \in Proc : pc'[p] # "trim"
<1>1. /\ pc \in [Proc -> InCall \union {"closed", "idle", "trim", "unloaded", "adding",
                                        "loaded", "del"}]
      /\ container \in [data : Pointer, quantum : Quanta, qset : Qsets, size : Nat]
      /\ live \in SUBSET Addr /\ Threads \subseteq Proc /\ Loader \in Proc /\ Loader \notin Threads
  BY DEF IInv, TypeOK, Proc
<1>2. AloneInv /\ PlaceInv
  BY DEF IInv
<1>3. ASSUME NEW t \in Threads, FollowHead(t) \/ Commit(t)
      PROVE  container'.quantum = container.quantum /\ container'.qset = container.qset
  BY <1>1, <1>3 DEF FollowHead, Commit, Oops
<1>4. CASE InitModule
  <2>1. /\ pc[Loader] = "unloaded" /\ live' = live /\ fault' = "none"
        /\ pc' = [pc EXCEPT ![Loader] = "adding"]
    BY <1>4 DEF InitModule, Goto, heap
  <2>2. live = {} /\ \A t \in Threads : pc[t] = "closed"
    BY <1>2, <2>1 DEF LeakInv, PlaceInv
  <2> QED BY <1>1, <2>1, <2>2 DEF InCall, Section, Proc
<1>5. ASSUME NEW p \in Proc, TrimReset(p)
      PROVE  /\ live' = {} /\ fault' = "none"
             /\ \A q \in Proc : pc'[q] \notin InCall \union {"trim"}
  <2>1. /\ pc[p] = "trim" /\ cursor[p] = NULL /\ live' = live /\ fault' = "none"
        /\ pc' = [pc EXCEPT ![p] = IF p = Loader THEN "del" ELSE "idle"]
    BY <1>5 DEF TrimReset, ResetTo, Goto, heap
  <2>2. live = {}
    BY <1>1, <2>1, ChainEmpty DEF LeakInv
  <2>3. \A q \in Proc \ {p} : pc[q] \notin InCall \union {"trim"}
    BY <1>2, <2>1 DEF AloneInv, Busy
  <2> QED BY <1>1, <2>1, <2>2, <2>3 DEF InCall, Section
<1> QED BY <1>1, <1>3, <1>4, <1>5, Writers_container

\* Calls and trims take the container's geometry.
LEMMA CallShapeStep ==
  ASSUME IInv, CallShape, [Next]_vars,
         container'.quantum = container.quantum, container'.qset = container.qset
  PROVE  CallShape'
<1>1. /\ turns \in [Proc -> Qsets] /\ Threads \subseteq Proc
      /\ pc \in [Proc -> InCall \union {"closed", "idle", "trim", "unloaded", "adding",
                                        "loaded", "del"}]
  BY DEF IInv, TypeOK, Proc
<1>2. ASSUME NEW t \in Threads, pc'[t] \in InCall
      PROVE  call'[t].quantum = container'.quantum /\ call'[t].qset = container'.qset
  BY <1>2, CallGeometry DEF CallShape
<1>3. ASSUME NEW p \in Proc, pc'[p] = "trim", ~TrimReset(p) PROVE turns'[p] = container'.qset
  <2>1. CASE TrimNode(p)
    <3>1. pc[p] = "trim" /\ turns' = turns
      BY <2>1 DEF TrimNode, Oops
    <3> QED BY <3>1 DEF CallShape
  <2>2. CASE ExitBegin /\ p = Loader
    BY <1>1, <2>2 DEF ExitBegin
  <2>3. CASE p \in Threads /\ MevOpen(p, "O_WRONLY")
    BY <1>1, <2>3 DEF MevOpen
  <2>4. CASE pc[p] = "trim" /\ ~TrimNode(p)
    <3>1. ASSUME turns' # turns PROVE turns'[p] = turns[p]
      <4>1. ASSUME NEW t \in Threads, NEW m \in Modes, MevOpen(t, m) PROVE turns'[p] = turns[p]
        BY <1>1, <2>4, <4>1 DEF MevOpen
      <4>2. CASE ExitBegin
        BY <1>1, <2>4, <4>2 DEF ExitBegin
      <4>3. ASSUME NEW q \in Proc, TrimReset(q) PROVE turns'[p] = turns[p]
        BY <1>1, <1>3, <4>3 DEF TrimReset, ResetTo
      <4> QED BY <3>1, <4>1, <4>2, <4>3, Writers_turns
    <3> QED BY <2>4, <3>1 DEF CallShape
  <2> QED BY <1>3, <2>1, <2>2, <2>3, <2>4, TrimBegins
<1>4. ASSUME NEW p \in Proc, TrimReset(p) PROVE pc'[p] # "trim"
  BY <1>1, <1>4 DEF TrimReset, ResetTo, Goto
<1> QED BY <1>2, <1>3, <1>4 DEF CallShape

\* What is allocated is allocated by that geometry.
LEMMA HeapShapeStep ==
  ASSUME IInv, CallShape, HeapShape, [Next]_vars,
         container'.quantum = container.quantum, container'.qset = container.qset
  PROVE  HeapShape'
<1>1. /\ live \in SUBSET Addr /\ data \in [Addr -> Arrays \union {NULL}]
      /\ call \in [Threads -> Calls]
  BY DEF IInv, TypeOK
<1> DEFINE Q == container.quantum
           N == container.qset
           Fits(d) == d # NULL =>
             /\ N > 0 /\ DOMAIN d = 0 .. N - 1
             /\ \A s \in DOMAIN d : d[s] # NULL => d[s] = Q /\ Q > 0
<1>2. \A a \in live : Fits(data[a])
  BY DEF HeapShape
<1>3. SUFFICES ASSUME NEW a \in live' PROVE Fits(data'[a])
  BY DEF HeapShape
<1>4. ASSUME NEW p \in Proc, TrimNode(p) PROVE Fits(data'[a])
  <2>1. CASE live' = live /\ data' = data
    BY <1>2, <2>1
  <2>2. CASE live' = live \ {cursor[p]} /\ data' = [data EXCEPT ![cursor[p]] = NULL]
    <3>1. a \in live /\ data'[a] = data[a]
      BY <1>1, <2>2
    <3> QED BY <1>2, <3>1
  <2> QED BY <1>4, <2>1, <2>2, TrimEffect
<1>5. ASSUME NEW t \in Threads, FollowHead(t) \/ FollowNext(t) PROVE Fits(data'[a])
  <2>1. CASE live' = live /\ data' = data
    BY <1>2, <2>1
  <2>2. CASE \E b \in Addr : NewQset(b)
    BY <1>1, <1>2, <2>2 DEF NewQset
  <2> QED BY <1>5, <2>1, <2>2 DEF FollowHead, FollowNext, Oops, heap
<1>6. ASSUME NEW t \in Threads, WriteArray(t) PROVE Fits(data'[a])
  <2>1. pc[t] = "array" /\ live' = live
    BY <1>6 DEF WriteArray, Oops, heap
  <2>2. call[t].qset = N
    BY <2>1 DEF CallShape, InCall, Section
  <2>3. CASE data' = data
    BY <1>2, <2>1, <2>3
  <2>4. CASE /\ call[t].qset > 0
             /\ data' = [data EXCEPT ![cursor[t]] = [s \in 0 .. call[t].qset - 1 |-> NULL]]
    <3>1. CASE a = cursor[t]
      <4>1. data'[a] = [s \in 0 .. N - 1 |-> NULL] /\ N > 0
        BY <1>1, <2>1, <2>2, <2>4, <3>1
      <4> QED BY <4>1
    <3>2. CASE a # cursor[t]
      BY <1>1, <1>2, <2>1, <2>4, <3>2
    <3> QED BY <3>1, <3>2
  <2> QED BY <1>6, <2>3, <2>4 DEF WriteArray, Oops, heap
<1>7. ASSUME NEW t \in Threads, WriteQuantum(t) PROVE Fits(data'[a])
  <2> DEFINE here == cursor[t]
             slot == SPos(call[t])
  <2>1. pc[t] = "quantum" /\ live' = live
    BY <1>7 DEF WriteQuantum, Oops, heap
  <2>2. call[t].quantum = Q
    BY <2>1 DEF CallShape, InCall, Section
  <2>3. CASE data' = data
    BY <1>2, <2>1, <2>3
  <2>4. CASE /\ call[t].quantum > 0 /\ here \in live
             /\ data' = [data EXCEPT ![here] = [data[here] EXCEPT ![slot] = call[t].quantum]]
    <3>1. CASE a = here
      <4>1. data[a] # NULL
        BY <2>1, <2>4, <3>1 DEF IInv, SlotInv
      <4>2. data'[a] = [data[a] EXCEPT ![slot] = Q] /\ Q > 0
        BY <1>1, <2>2, <2>4, <3>1
      <4>3. Fits(data[a])
        BY <1>2, <2>1
      <4> HIDE DEF Q, slot
      <4> QED BY <4>1, <4>2, <4>3
    <3>2. CASE a # here
      BY <1>1, <1>2, <2>1, <2>4, <3>2
    <3> QED BY <3>1, <3>2
  <2> QED BY <1>7, <2>3, <2>4 DEF WriteQuantum, Oops, heap
<1>8. CASE UNCHANGED <<live, data>>
  BY <1>2, <1>8
<1> HIDE DEF Fits
<1>9. live' # live \/ data' # data => Fits(data'[a])
  BY <1>4, <1>5, <1>6, <1>7, Writers_live, Writers_data
<1> QED BY <1>8, <1>9

\* A quantum that is there has a length, and the call that found it cuts its
\* count to what is left of that.
LEMMA CopyShapeStep ==
  ASSUME IInv, CallShape, HeapShape, CopyShape, ~overlap, [Next]_vars
  PROVE  CopyShape'
<1>1. SUFFICES ASSUME NEW t \in Threads, pc'[t] = "copy"
               PROVE  QPos(call'[t]) + call'[t].count <= call'[t].quantum
  BY DEF CopyShape, QPos, ItemSize, Rem, Abs, Wrap
<1>2. /\ call[t] \in Calls /\ live \in SUBSET Addr /\ data \in [Addr -> Arrays \union {NULL}]
      /\ pc \in [Proc -> InCall \union {"closed", "idle", "trim", "unloaded", "adding",
                                        "loaded", "del"}] /\ t \in Proc
  BY DEF IInv, TypeOK, Proc
<1>3. CASE pc'[t] = pc[t] /\ call'[t] = call[t]
  BY <1>1, <1>3 DEF CopyShape
<1>4. CASE /\ pc[t] \in {"hole", "quantum"} /\ call'[t] = Within(call[t])
           /\ ReadHole(t) \/ WriteQuantum(t)
  <2>1. ItemSize(call[t]) # 0 /\ pc[t] \in InCall
    BY <1>4 DEF IInv, SlotInv, Holding, InCall, Section
  <2>2. call[t].quantum = container.quantum /\ call[t].qset = container.qset
    BY <2>1 DEF CallShape
  <2>3. pc[t] # pc'[t]
    BY <1>1, <1>4
  <2>4. cursor[t] \in live /\ data[cursor[t]] # NULL
    BY <1>1, <1>2, <1>4, <2>3 DEF ReadHole, WriteQuantum, Goto, Oops, IInv, SlotInv
  <2>5. container.qset > 0
    BY <2>4 DEF HeapShape
  <2>6. container.quantum > 0
    <3>1. CASE WriteQuantum(t) /\ data' # data
      BY <2>2, <3>1 DEF WriteQuantum, Oops, heap
    <3>2. CASE data[cursor[t]][SPos(call[t])] # NULL /\ SPos(call[t]) \in DOMAIN data[cursor[t]]
      BY <2>4, <3>2 DEF HeapShape
    <3>3. CASE ReadHole(t)
      BY <1>1, <1>2, <1>4, <2>3, <2>4, <3>2, <3>3 DEF ReadHole, Goto, Oops, Beyond
    <3>4. CASE WriteQuantum(t)
      <4>1. ~Beyond(cursor[t], SPos(call[t]))
        BY <1>1, <1>2, <2>3, <2>4, <3>4 DEF WriteQuantum, Oops
      <4>2. data[cursor[t]][SPos(call[t])] # NULL \/ call[t].quantum > 0
        BY <1>1, <1>2, <1>4, <2>3, <2>4, <3>4 DEF WriteQuantum, Oops, Goto
      <4> QED BY <2>2, <2>4, <3>2, <4>1, <4>2 DEF Beyond
    <3> QED BY <1>4, <3>3, <3>4
  <2>7. container.quantum < IntMax
    BY Geometries DEF IInv, TypeOK
  <2>8. QPos(Within(call[t])) + Within(call[t]).count <= call[t].quantum
    BY <1>2, <2>1, <2>2, <2>5, <2>6, <2>7, PositiveGeometry
  <2>9. Within(call[t]).quantum = call[t].quantum
    BY <1>2, <2>1, WithinCuts
  <2> QED BY <1>4, <2>8, <2>9
<1>5. pc'[t] \in Bounded
  BY <1>1 DEF Bounded
<1> QED BY <1>1, <1>2, <1>3, <1>4, <1>5, BoundedSteps DEF EndOfFile, Clamp, Goto

\* Then only a negative quantum leads out of bounds.
LEMMA BoundsStep ==
  ASSUME IInv, CallShape, HeapShape, CopyShape, [Next]_vars, fault' # fault, fault' = "bounds"
  PROVE  container.quantum < 0 /\ UNCHANGED container
<1>1. /\ call \in [Threads -> Calls] /\ live \in SUBSET Addr
      /\ container \in [data : Pointer, quantum : Quanta, qset : Qsets, size : Nat]
  BY DEF IInv, TypeOK
<1>2. container.quantum \in Int /\ container.quantum < IntMax
  BY <1>1, Geometries
<1>3. ASSUME NEW p \in Proc, pc[p] = "trim", cursor[p] \in live, data[cursor[p]] # NULL
      PROVE  0 .. turns[p] - 1 \subseteq DOMAIN data[cursor[p]]
  BY <1>3 DEF CallShape, HeapShape
<1>4. ASSUME NEW t \in Threads, cursor[t] \in live, pc[t] \in {"hole", "quantum"},
             Beyond(cursor[t], SPos(call[t]))
      PROVE  container.quantum < 0
  <2>1. ItemSize(call[t]) # 0 /\ pc[t] \in InCall
    BY <1>4 DEF IInv, SlotInv, Holding, InCall, Section
  <2>2. call[t].quantum = container.quantum /\ call[t].qset = container.qset
    BY <2>1 DEF CallShape
  <2>3. /\ container.qset > 0 /\ DOMAIN data[cursor[t]] = 0 .. container.qset - 1
        /\ SPos(call[t]) \notin DOMAIN data[cursor[t]]
    BY <1>4 DEF HeapShape, Beyond
  <2>4. call[t].quantum # 0
    BY <1>1, <2>1, PositionTypes
  <2>5. ~(container.quantum > 0)
    BY <1>1, <1>2, <2>1, <2>2, <2>3, PositiveGeometry
  <2> QED BY <1>2, <2>2, <2>4, <2>5
<1>5. ASSUME NEW t \in Threads, cursor[t] \in live, pc[t] = "copy"
      PROVE  ~(QPos(call[t]) + call[t].count > data[cursor[t]][SPos(call[t])])
  <2>1. pc[t] \in InCall /\ ItemSize(call[t]) # 0
    BY <1>5 DEF InCall, Section, IInv, SlotInv, Holding
  <2>2. call[t].quantum = container.quantum
    BY <2>1 DEF CallShape
  <2>3. SPos(call[t]) \in DOMAIN data[cursor[t]] /\ data[cursor[t]][SPos(call[t])] # NULL
        /\ data[cursor[t]] # NULL
    BY <1>5 DEF IInv, SlotInv
  <2>4. data[cursor[t]][SPos(call[t])] = call[t].quantum
    BY <1>5, <2>2, <2>3 DEF HeapShape
  <2>5. QPos(call[t]) + call[t].count <= call[t].quantum
    BY <1>5 DEF CopyShape
  <2>6. QPos(call[t]) \in Nat /\ call[t].count \in Nat /\ call[t].quantum \in Int
    BY <1>1, <2>1, PositionTypes DEF Calls
  <2> QED BY <2>4, <2>5, <2>6
<1> QED BY <1>3, <1>4, <1>5, FaultSteps DEF Misuse

LEMMA ShapeStep ==
  ASSUME IInv, LeakInv, ShapeInv, [Next]_vars
  PROVE  ShapeInv'
<1>1. SUFFICES ASSUME ~overlap', ~early'
               PROVE  /\ CallShape' /\ HeapShape' /\ CopyShape'
                      /\ fault' = "bounds" => container'.quantum < 0
  BY DEF ShapeInv
<1>2. ~overlap /\ ~early
  BY <1>1, OverlapStays, EarlyStays
<1>3. /\ CallShape /\ HeapShape /\ CopyShape
      /\ fault = "bounds" => container.quantum < 0
  BY <1>2 DEF ShapeInv
<1>4. CASE container'.quantum = container.quantum /\ container'.qset = container.qset
  <2>1. fault' = "bounds" => container'.quantum < 0
    BY <1>3, <1>4, BoundsStep
  <2> QED BY <1>2, <1>3, <1>4, <2>1, CallShapeStep, HeapShapeStep, CopyShapeStep
<1>5. CASE /\ live' = {} /\ fault' = "none"
           /\ \A t \in Threads : pc'[t] \notin InCall
           /\ \A p \in Proc : pc'[p] # "trim"
  BY <1>5 DEF CallShape, HeapShape, CopyShape, InCall, Section
<1> QED BY <1>2, <1>4, <1>5, GeometryStays

LEMMA ShapeInit ==
  ASSUME Init
  PROVE  ShapeInv
BY MevAssumption DEF Init, ShapeInv, CallShape, HeapShape, CopyShape, InCall, Section, Proc

\* No slot and no copy leaves its array or quantum, for any geometry an
\* uninitialised container may show, unless its quantum is negative or a trim
\* ran beside a call that knew the geometry before.
THEOREM StaysInBounds == Spec => []InBounds
<1>1. Init => LeakInv /\ ShapeInv
  BY LeakInit, ShapeInit
<1>2. IInv /\ LeakInv /\ ShapeInv /\ [Next]_vars => LeakInv' /\ ShapeInv'
  BY LeakStep, ShapeStep
<1>3. ShapeInv => InBounds
  BY DEF ShapeInv, InBounds
<1> QED BY <1>1, <1>2, <1>3, Invariance, PTL DEF Spec

\* Once formatted, the geometry divides and the list is not wild.
LEMMA SafeStep ==
  ASSUME IInv, LeakInv, ShapeInv, SafeOnceFormatted, [Next]_vars
  PROVE  SafeOnceFormatted'
<1>1. SUFFICES ASSUME formatted', ~overlap', ~early' PROVE fault' = "none"
  BY DEF SafeOnceFormatted
<1>2. /\ ~overlap /\ ~early /\ PointerInv /\ LockInv /\ CallShape /\ HeapShape /\ CopyShape
      /\ (formatted => FormatInv)
      /\ call \in [Threads -> Calls] /\ Threads \subseteq Proc
  BY <1>1, OverlapStays, EarlyStays DEF IInv, ShapeInv, TypeOK, Proc
<1>3. CASE formatted
  <2>1. FormatInv /\ fault = "none"
    BY <1>2, <1>3 DEF SafeOnceFormatted
  <2>2. ASSUME NEW p \in Proc, pc[p] = "trim", cursor[p] # NULL, cursor[p] \notin live
        PROVE  FALSE
    BY <1>2, <2>1, <2>2 DEF PointerInv, IsHead, FormatInv
  <2>3. ASSUME NEW t \in Threads, pc[t] \in Holding, cursor[t] \notin live
        PROVE  FALSE
    BY <1>2, <2>1, <2>3 DEF PointerInv, FormatInv
  <2>4. ASSUME NEW t \in Threads, pc[t] = "head" PROVE ItemSize(call[t]) # 0
    <3>1. call[t].quantum = QuantumSize /\ call[t].qset = QsetSize
      BY <2>1, <2>4 DEF FormatInv, InCall, Section
    <3> QED BY <1>2, <3>1, FormattedGeometry
  <2>5. ASSUME NEW t \in Threads, pc[t] = "up" PROVE sem_ready
    BY <1>2, <2>5 DEF LockInv, Section
  <2>6. fault' # "bounds"
    <3>1. ~(container.quantum < 0)
      BY <2>1, MevAssumption DEF FormatInv
    <3> QED BY <1>2, <2>1, <3>1, BoundsStep
  <2>7. CASE fault' # fault
    BY <1>1, <2>2, <2>3, <2>4, <2>5, <2>6, <2>7, FaultSteps
  <2> QED BY <2>1, <2>7
<1>4. CASE ~formatted
  <2>1. PICK p \in Proc : TrimReset(p)
    BY <1>1, <1>4, Writers_formatted DEF InitModule
  <2> QED BY <2>1 DEF TrimReset, ResetTo
<1> QED BY <1>3, <1>4

\* A container that was formatted, and is trimmed by nobody while in use, makes
\* no call fault.
THEOREM FormattedIsSafe == Spec => []SafeOnceFormatted
<1>1. Init => LeakInv /\ ShapeInv /\ SafeOnceFormatted
  BY LeakInit, ShapeInit DEF Init, SafeOnceFormatted
<1>2. IInv /\ LeakInv /\ ShapeInv /\ SafeOnceFormatted /\ [Next]_vars
        => LeakInv' /\ ShapeInv' /\ SafeOnceFormatted'
  BY LeakStep, ShapeStep, SafeStep
<1> QED BY <1>1, <1>2, Invariance, PTL DEF Spec

-----------------------------------------------------------------------------
\* The node and the slot of a position, in the geometry of the module.
ItemAt(p) == (p \div (QuantumSize * QsetSize)) % (2 * IntMax)
SlotAt(p) == (p % (QuantumSize * QsetSize)) \div QuantumSize

\* A slot that holds a quantum, k nodes behind the head.
Filled(k, slot) ==
  /\ k \in 0 .. Cardinality(Addr)
  /\ List[k] \in live /\ data[List[k]] # NULL
  /\ slot \in DOMAIN data[List[k]] /\ data[List[k]][slot] # NULL

\* Where a call looks is where its position lies.
LEMMA Places ==
  ASSUME NEW c \in Calls, c.quantum = QuantumSize, c.qset = QsetSize
  PROVE  /\ Item(c) = ItemAt(c.pos) /\ SPos(c) = SlotAt(c.pos)
         /\ ItemAt(c.pos) \in Nat
<1>1. Item(c) \in Nat
  BY FormattedGeometry, PositionTypes
<1>2. Item(c) = ItemAt(c.pos) /\ SPos(c) = SlotAt(c.pos)
  BY FormattedGeometry DEF ItemAt, SlotAt
<1> QED BY <1>1, <1>2

\* Backed, by node and slot.
LEMMA BackedIsFilled ==
  ASSUME NEW p \in Nat
  PROVE  /\ Backed(p) <=> Filled(ItemAt(p), SlotAt(p))
         /\ Backed(p)' <=> Filled(ItemAt(p), SlotAt(p))'
<1> DEFINE c == [NoCall EXCEPT !.pos = p, !.quantum = QuantumSize, !.qset = QsetSize]
<1>1. c \in Calls /\ c.pos = p /\ c.quantum = QuantumSize /\ c.qset = QsetSize
  BY Geometries DEF NoCall, Calls, Operations
<1> HIDE DEF c
<1>2. Item(c) = ItemAt(p) /\ SPos(c) = SlotAt(p)
  BY <1>1, Places
<1>3. /\ Backed(p) <=> /\ Item(c) \in 0 .. Cardinality(Addr)
                       /\ List[Item(c)] \in live /\ data[List[Item(c)]] # NULL
                       /\ SPos(c) \in DOMAIN data[List[Item(c)]]
                       /\ data[List[Item(c)]][SPos(c)] # NULL
      /\ Backed(p)' <=> /\ Item(c) \in 0 .. Cardinality(Addr)
                        /\ List'[Item(c)] \in live' /\ data'[List'[Item(c)]] # NULL
                        /\ SPos(c) \in DOMAIN data'[List'[Item(c)]]
                        /\ data'[List'[Item(c)]][SPos(c)] # NULL
  BY DEF Backed, c
<1> QED BY <1>2, <1>3 DEF Filled, ItemAt, SlotAt

\* Positions in one quantum.
LEMMA SameQuantum ==
  ASSUME NEW p \in Nat, NEW k \in Nat \ {0},
         ((p % (QuantumSize * QsetSize)) % QuantumSize) + k <= QuantumSize
  PROVE  ItemAt(p + k - 1) = ItemAt(p) /\ SlotAt(p + k - 1) = SlotAt(p)
<1>1. PICK q \in Nat \ {0}, s \in Nat \ {0} : q = QuantumSize /\ s = QsetSize
  OBVIOUS
<1>2. PICK m \in Nat \ {0} : m = q * s
  BY SlotInRange, <1>1
<1>3. p \div m \in Nat /\ p % m \in 0 .. m - 1 /\ p = m * (p \div m) + (p % m)
  OBVIOUS
<1>4. PICK d \in Nat, r \in 0 .. m - 1 : d = p \div m /\ r = p % m /\ p = m * d + r
  BY <1>3
<1>5. r \div q \in Nat /\ r % q \in 0 .. q - 1 /\ r = q * (r \div q) + (r % q)
  OBVIOUS
<1>6. PICK a \in Nat, b \in 0 .. q - 1 : a = r \div q /\ b = r % q /\ r = q * a + b
  BY <1>5
<1>7. b + k <= q
  BY <1>1, <1>2, <1>4, <1>6
<1>8. a < s
  <2>1. SUFFICES ASSUME a >= s PROVE FALSE
    OBVIOUS
  <2>2. q * a >= q * s
    BY <2>1
  <2> QED BY <1>2, <1>4, <1>6, <2>2
<1>9. PICK x \in Nat : x = b + k - 1 /\ x < q
  BY <1>7
<1>10. q * a + x < m
  <2>1. q * (a + 1) <= q * s
    BY <1>8
  <2>2. q * (a + 1) = q * a + q
    OBVIOUS
  <2> QED BY <1>2, <1>9, <2>1, <2>2
<1>11. PICK y \in 0 .. m - 1 : y = q * a + x
  BY <1>9, <1>10
<1>12. p + k - 1 = m * d + y
  <2> DEFINE u == m * d
             v == q * a
  <2>1. u \in Nat /\ v \in Nat /\ p = u + r /\ r = v + b /\ y = v + x
    BY <1>4, <1>6, <1>11
  <2> HIDE DEF u, v
  <2>2. p + k - 1 = u + y
    BY <1>9, <2>1
  <2> QED BY <2>2 DEF u
<1>13. (m * d + y) \div m = d /\ (m * d + y) % m = y
  OBVIOUS
<1>14. (q * a + x) \div q = a
  BY <1>9
<1>15. ItemAt(p + k - 1) = d % (2 * IntMax) /\ SlotAt(p + k - 1) = a
  BY <1>1, <1>2, <1>11, <1>12, <1>13, <1>14 DEF ItemAt, SlotAt
<1>16. ItemAt(p) = d % (2 * IntMax) /\ SlotAt(p) = a
  BY <1>1, <1>2, <1>4, <1>6 DEF ItemAt, SlotAt
<1> QED BY <1>15, <1>16

-----------------------------------------------------------------------------
\* What the list is while nobody trims.
LEMMA ListFacts ==
  ASSUME IInv, LeakInv, ~overlap, \A p \in Proc : pc[p] # "trim"
  PROVE  /\ List = ListOf(List)
         /\ \A k \in 0 .. Cardinality(Addr) : List[k] \in live => k + 1 \in 0 .. Cardinality(Addr)
         /\ Cardinality(Addr) \in Nat
<1>1. live \in SUBSET Addr /\ AddressInv /\ PointerInv
  BY DEF IInv, TypeOK
<1> PICK n \in Nat : \E s \in [1 .. n -> live] : Along(n, s, live, nxt, container.data)
  BY DEF LeakInv, Chain
<1>2. PICK s \in [1 .. n -> live] : Along(n, s, live, nxt, container.data)
  OBVIOUS
<1>3. container.data \in Addr => n > 0
  BY <1>1, <1>2 DEF PointerInv, IsHead, Along
<1> DEFINE w == [k \in 0 .. Cardinality(Addr) |->
                   IF k < n THEN s[k + 1] ELSE IF k = 0 THEN container.data ELSE NULL]
<1>4. List = w /\ List = ListOf(List)
  BY <1>1, <1>2, <1>3, ListIs
<1>5. n <= Cardinality(Addr) /\ Cardinality(Addr) \in Nat
  BY <1>1, <1>2, AlongLength
<1>6. ASSUME NEW k \in 0 .. Cardinality(Addr), List[k] \in live
      PROVE  k + 1 \in 0 .. Cardinality(Addr)
  <2>1. CASE k < n
    BY <1>5, <2>1
  <2>2. CASE ~(k < n)
    <3>1. List[k] = IF k = 0 THEN container.data ELSE NULL
      BY <1>4, <2>2
    <3>2. k # 0
      BY <1>1, <1>3, <1>5, <1>6, <2>2, <3>1
    <3> QED BY <1>1, <1>6, <3>1, <3>2
  <2> QED BY <2>1, <2>2
<1> QED BY <1>4, <1>5, <1>6

\* A list that only grows at its end keeps its nodes where they are.
LEMMA ListGrows ==
  ASSUME List = ListOf(List), (List = ListOf(List))', Cardinality(Addr) \in Nat,
         container.data # NULL => container'.data = container.data,
         \A b \in Addr : nxt[b] # NULL => nxt'[b] = nxt[b]
  PROVE  \A k \in 0 .. Cardinality(Addr) : List[k] # NULL => List'[k] = List[k]
<1> DEFINE last == Cardinality(Addr)
           T == {k \in 0 .. last : List[k] # NULL /\ List'[k] # List[k]}
<1>1. SUFFICES ASSUME T # {} PROVE FALSE
  OBVIOUS
<1>2. PICK k \in T : \A j \in T : k <= j
  <2>1. T \in SUBSET Nat
    OBVIOUS
  <2> HIDE DEF T
  <2> QED BY <1>1, <2>1, LeastNumber, Zenon
<1>3. k \in 0 .. last /\ List[k] # NULL /\ List'[k] # List[k]
  BY <1>2
<1>4. /\ List[k] = ListOf(List)[k]
      /\ List'[k] = ListOf(List)'[k]
  OBVIOUS
<1>5. CASE k = 0
  BY <1>3, <1>4, <1>5 DEF ListOf
<1>6. CASE k # 0
  <2>1. k - 1 \in 0 .. last /\ ~(k <= k - 1)
    BY <1>3, <1>6
  <2>2. List[k - 1] \in Addr /\ List[k] = nxt[List[k - 1]]
    BY <1>3, <1>4, <1>6 DEF ListOf
  <2>3. List'[k - 1] = List[k - 1]
    BY <1>2, <2>1, <2>2
  <2>4. List'[k] = nxt'[List[k - 1]]
    BY <1>3, <1>4, <1>6, <2>2, <2>3 DEF ListOf
  <2> QED BY <1>3, <2>2, <2>4
<1> QED BY <1>5, <1>6

-----------------------------------------------------------------------------
\* Where the pointer of mev_follow() is, and what it found there.
WalkAt(t) ==
  LET c == call[t] IN
  /\ pc[t] = "follow" => /\ c.n <= Item(c) /\ Item(c) - c.n \in 0 .. Cardinality(Addr)
                         /\ cursor[t] = List[Item(c) - c.n]
  /\ pc[t] \in {"hole", "array", "quantum", "copy"} =>
       Item(c) \in 0 .. Cardinality(Addr) /\ cursor[t] = List[Item(c)]
  /\ pc[t] = "copy" => Backed(c.pos)
  /\ pc[t] = "commit" /\ c.pos > 0 => Backed(c.pos - 1) \/ Backed(c.pos)

\* A container that was formatted and is used as it should be.
Orderly == formatted /\ ~overlap /\ ~early

WalkInv == Orderly => \A t \in Threads : WalkAt(t)

\* The size is not ahead of the data.
SizeInv ==
  Orderly /\ (\A p \in Proc : pc[p] # "trim") /\ container.size > 0
    => Backed(container.size - 1) \/ Backed(container.size)

\* Only a trim makes it so.
LEMMA OrderlyBefore ==
  ASSUME IInv, [Next]_vars, Orderly', \A p \in Proc : ~TrimReset(p)
  PROVE  Orderly
<1>1. ~overlap /\ ~early
  BY OverlapStays, EarlyStays DEF Orderly
<1>2. formatted
  BY Writers_formatted DEF Orderly, InitModule
<1> QED BY <1>1, <1>2 DEF Orderly

\* Then every call has the geometry of the module.
LEMMA OrderlyCalls ==
  ASSUME IInv, Orderly, NEW t \in Threads, pc[t] \in InCall
  PROVE  call[t] \in Calls /\ call[t].quantum = QuantumSize /\ call[t].qset = QsetSize
BY DEF IInv, TypeOK, Orderly, FormatInv

\* Steps of a driver that neither trims nor is loaded.
Calm ==
  /\ \A p \in Proc : ~TrimNode(p) /\ ~TrimReset(p)
  /\ ~InitModule

\* What a trim does to others: they are not there.
LEMMA CalmBeside ==
  ASSUME IInv, ~overlap, NEW t \in Threads, pc[t] \in InCall
  PROVE  Calm /\ \A p \in Proc : pc[p] # "trim"
<1>1. \A p \in Proc : pc[p] # "trim"
  BY DEF IInv, AloneInv, Busy, InCall, Section, Proc
<1>2. pc[Loader] # "unloaded"
  BY DEF IInv, PlaceInv, InCall, Section
<1> QED BY <1>1, <1>2 DEF Calm, TrimNode, TrimReset, ResetTo, InitModule

\* Then the list and what hangs on it only grow.
LEMMA CalmGrows ==
  ASSUME IInv, [Next]_vars, Calm
  PROVE  /\ live \subseteq live'
         /\ container.data # NULL => container'.data = container.data
         /\ \A b \in Addr : nxt[b] # NULL => nxt'[b] = nxt[b]
         /\ \A b \in live : data[b] # NULL =>
              /\ data'[b] # NULL /\ DOMAIN data'[b] = DOMAIN data[b]
              /\ \A s \in DOMAIN data[b] : data[b][s] # NULL => data'[b][s] # NULL
<1>1. /\ live \in SUBSET Addr /\ nxt \in [Addr -> Addr \union {NULL}]
      /\ data \in [Addr -> Arrays \union {NULL}]
      /\ container \in [data : Pointer, quantum : Quanta, qset : Qsets, size : Nat]
  BY DEF IInv, TypeOK
<1>2. live \subseteq live'
  BY HeapSteps DEF Calm, NewQset
<1>3. container.data # NULL => container'.data = container.data
  BY <1>1, Writers_container DEF Calm, FollowHead, Commit, Oops
<1>4. ASSUME NEW b \in Addr, nxt[b] # NULL PROVE nxt'[b] = nxt[b]
  BY <1>1, <1>4, Writers_nxt DEF Calm, FollowNext, Oops, heap
<1>5. ASSUME NEW b \in live, data[b] # NULL
      PROVE  /\ data'[b] # NULL /\ DOMAIN data'[b] = DOMAIN data[b]
             /\ \A s \in DOMAIN data[b] : data[b][s] # NULL => data'[b][s] # NULL
  <2>1. ASSUME NEW t \in Threads, FollowHead(t) \/ FollowNext(t) PROVE data'[b] = data[b]
    BY <1>1, <2>1 DEF FollowHead, FollowNext, NewQset, Oops, heap
  <2>2. ASSUME NEW t \in Threads, WriteArray(t) PROVE data'[b] = data[b]
    BY <1>1, <1>5, <2>2 DEF WriteArray, Oops, heap
  <2>3. ASSUME NEW t \in Threads, WriteQuantum(t)
        PROVE  /\ data'[b] # NULL /\ DOMAIN data'[b] = DOMAIN data[b]
               /\ \A s \in DOMAIN data[b] : data[b][s] # NULL => data'[b][s] # NULL
    <3>1. PICK q \in Quanta, slot \in {SPos(call[t])} :
            \/ data' = data
            \/ data' = [data EXCEPT ![cursor[t]] = [data[cursor[t]] EXCEPT ![slot] = q]]
      <4>1. call[t].quantum \in Quanta
        BY DEF IInv, TypeOK, Calls
      <4> QED BY <2>3, <4>1 DEF WriteQuantum, Oops, heap
    <3>2. CASE data' = data \/ b # cursor[t]
      BY <1>1, <1>5, <3>1, <3>2
    <3>3. CASE data' # data /\ b = cursor[t]
      <4>1. data'[b] = [data[b] EXCEPT ![slot] = q]
        BY <1>1, <3>1, <3>3
      <4>2. data[b] \in Arrays
        BY <1>1, <1>5
      <4>4. NULL \notin Arrays /\ q # NULL
        BY MevAssumption
      <4>5. [data[b] EXCEPT ![slot] = q] \in Arrays
        BY <4>2, ArrayGrows
      <4>3. data'[b] # NULL
        BY <4>1, <4>4, <4>5
      <4> QED BY <4>1, <4>3, <4>4
    <3> QED BY <3>2, <3>3
  <2> QED BY <1>5, <2>1, <2>2, <2>3, Writers_data DEF Calm
<1> QED BY <1>2, <1>3, <1>4, <1>5

\* So a position that is backed stays so, and the nodes keep their index.
LEMMA BackedStays ==
  ASSUME IInv, LeakInv, [Next]_vars, Calm, ~overlap', \A p \in Proc : pc[p] # "trim",
         \A p \in Proc : pc'[p] # "trim"
  PROVE  /\ \A k \in 0 .. Cardinality(Addr) : List[k] # NULL => List'[k] = List[k]
         /\ \A p \in Nat : Backed(p) => Backed(p)'
<1>1. IInv' /\ LeakInv' /\ ~overlap
  BY InvStep, LeakStep, OverlapStays
<1>2. \A k \in 0 .. Cardinality(Addr) : List[k] # NULL => List'[k] = List[k]
  <2>1. List = ListOf(List) /\ Cardinality(Addr) \in Nat
    BY <1>1, ListFacts
  <2>2. (List = ListOf(List))'
    <3>1. (\A p \in Proc : pc[p] # "trim")' /\ (~overlap)'
      OBVIOUS
    <3> QED BY <1>1, <3>1, ListFacts, PTL
  <2> QED BY <2>1, <2>2, CalmGrows, ListGrows
<1>3. ASSUME NEW k, NEW slot, Filled(k, slot) PROVE Filled(k, slot)'
  <2>1. /\ k \in 0 .. Cardinality(Addr) /\ List[k] \in live /\ data[List[k]] # NULL
        /\ slot \in DOMAIN data[List[k]] /\ data[List[k]][slot] # NULL /\ live \in SUBSET Addr
    BY <1>3 DEF Filled, IInv, TypeOK
  <2>2. List'[k] = List[k]
    BY <1>2, <2>1
  <2> QED BY <2>1, <2>2, CalmGrows DEF Filled
<1>4. ASSUME NEW p \in Nat, Backed(p) PROVE Backed(p)'
  BY <1>3, <1>4, BackedIsFilled
<1> QED BY <1>2, <1>4

-----------------------------------------------------------------------------
\* How a call comes to, or stays at, a place where it has the pointer.
LEMMA WalkSteps ==
  ASSUME IInv, [Next]_vars, NEW t \in Threads, pc'[t] \in Holding
  PROVE  \/ pc'[t] = pc[t] /\ call'[t] = call[t] /\ cursor'[t] = cursor[t]
         \/ FollowHead(t) \/ FollowNext(t) \/ FollowEnd(t)
         \/ ReadHole(t) \/ WriteArray(t) \/ WriteQuantum(t) \/ Copy(t)
<1>1. pc \in [Proc -> InCall \union {"closed", "idle", "trim", "unloaded", "adding",
                                     "loaded", "del"}]
      /\ call \in [Threads -> Calls] /\ cursor \in [Proc -> Pointer]
  BY DEF IInv, TypeOK
<1> USE DEF Goto, Oops, Proc, Holding
<1>2. CASE LoaderStep \/ UNCHANGED vars
  BY <1>1, <1>2 DEF LoaderStep, InitFails, InitModule, SemaInit, ExitBegin, ExitEnd,
    TrimNode, TrimReset, ResetTo, vars
<1>3. ASSUME NEW u \in Threads, UserStep(u)
      PROVE  pc'[t] = pc[t] /\ call'[t] = call[t] /\ cursor'[t] = cursor[t]
  BY <1>1, <1>3 DEF UserStep, MevOpen, MevRelease, MevCall, Interrupted
<1>4. ASSUME NEW u \in Threads, Up(u)
      PROVE  pc'[t] = pc[t] /\ call'[t] = call[t] /\ cursor'[t] = cursor[t]
  <2>1. \/ UNCHANGED <<pc, call, cursor>>
        \/ call' = [call EXCEPT ![u] = NoCall] /\ cursor' = [cursor EXCEPT ![u] = NULL]
    BY <1>4 DEF Up
  <2>2. pc'[t] = pc[t] /\ pc[u] = "up"
    BY <1>1, <1>4, UpEffect DEF Entry, Up
  <2> QED BY <1>1, <2>1, <2>2
<1>5. ASSUME NEW u \in Threads, u # t, Advance(u), ~Up(u)
      PROVE  pc'[t] = pc[t] /\ call'[t] = call[t] /\ cursor'[t] = cursor[t]
  BY <1>1, <1>5 DEF Advance, TrimNode, TrimReset, ResetTo, DownInterruptible, EndOfFile,
    Clamp, FollowHead, FollowNext, FollowEnd, ReadHole, WriteArray, WriteQuantum, Copy, Commit
<1>6. CASE \/ DownInterruptible(t) \/ EndOfFile(t) \/ Clamp(t) \/ Commit(t)
           \/ TrimNode(t) \/ TrimReset(t)
  BY <1>1, <1>6 DEF DownInterruptible, Entry, EndOfFile, Clamp, Commit, TrimNode, TrimReset,
    ResetTo
<1> QED BY <1>2, <1>3, <1>4, <1>5, <1>6 DEF Next, Advance, Halted

\* A call that does not move keeps its place on the list.
LEMMA WalkSame ==
  ASSUME IInv, LeakInv, WalkInv, [Next]_vars, Orderly, Orderly', NEW t \in Threads,
         pc'[t] = pc[t], call'[t] = call[t], cursor'[t] = cursor[t], pc[t] \in Holding
  PROVE  WalkAt(t)'
<1>1. ~overlap /\ overlap' = FALSE /\ call[t].pos \in Nat
  BY DEF Orderly, IInv, TypeOK, Calls
<1>2. WalkAt(t) /\ pc[t] \in InCall
  BY DEF WalkInv, Holding, InCall, Section
<1>3. Calm /\ (\A p \in Proc : pc[p] # "trim") /\ \A p \in Proc : pc'[p] # "trim"
  <2>1. IInv' /\ pc'[t] \in InCall
    BY <1>2, InvStep
  <2>2. \A p \in Proc : pc'[p] # "trim"
    BY <1>1, <2>1 DEF IInv, AloneInv, Busy, InCall, Section, Proc
  <2> QED BY <1>1, <1>2, <2>2, CalmBeside
<1>4. /\ \A k \in 0 .. Cardinality(Addr) : List[k] # NULL => List'[k] = List[k]
      /\ \A p \in Nat : Backed(p) => Backed(p)'
  BY <1>1, <1>3, BackedStays
<1>5. cursor[t] # NULL
  BY <1>1 DEF IInv, TypeOK, PointerInv
<1>6. Item(call'[t]) = Item(call[t])
  OBVIOUS
<1>7. pc[t] = "commit" /\ call[t].pos > 0 => call[t].pos - 1 \in Nat
  BY <1>1
<1> QED BY <1>1, <1>2, <1>4, <1>5, <1>6, <1>7 DEF WalkAt

\* What holds around every step of a call that has, or gets, the pointer.
LEMMA WalkBeside ==
  ASSUME IInv, LeakInv, WalkInv, [Next]_vars, Orderly, Orderly', NEW t \in Threads,
         pc[t] \in InCall, pc'[t] \in Holding
  PROVE  /\ WalkAt(t)
         /\ (List = ListOf(List))'
         /\ Cardinality(Addr) \in Nat
         /\ \A k \in 0 .. Cardinality(Addr) : List[k] \in live => k + 1 \in 0 .. Cardinality(Addr)
         /\ \A k \in 0 .. Cardinality(Addr) : List[k] # NULL => List'[k] = List[k]
         /\ \A p \in Nat : Backed(p) => Backed(p)'
         /\ call[t] \in Calls /\ call'[t] \in Calls
         /\ call[t].quantum = QuantumSize /\ call[t].qset = QsetSize
         /\ call'[t].quantum = QuantumSize /\ call'[t].qset = QsetSize
         /\ live \in SUBSET Addr /\ live \subseteq live'
<1>1. IInv' /\ LeakInv' /\ ~overlap /\ ~overlap'
  BY InvStep, LeakStep DEF Orderly
<1>2. pc'[t] \in InCall
  BY DEF Holding, InCall, Section
<1>3. \A p \in Proc : pc'[p] # "trim"
  BY <1>1, <1>2 DEF IInv, AloneInv, Busy, InCall, Section, Proc
<1>4. Calm /\ \A p \in Proc : pc[p] # "trim"
  BY <1>1, CalmBeside
<1>5. (List = ListOf(List))'
  <2>1. (\A p \in Proc : pc[p] # "trim")' /\ (~overlap)'
    BY <1>1, <1>3
  <2> QED BY <1>1, <2>1, ListFacts, PTL
<1>6. /\ \A k \in 0 .. Cardinality(Addr) : List[k] \in live => k + 1 \in 0 .. Cardinality(Addr)
      /\ Cardinality(Addr) \in Nat
  BY <1>1, <1>4, ListFacts
<1>7. /\ \A k \in 0 .. Cardinality(Addr) : List[k] # NULL => List'[k] = List[k]
      /\ \A p \in Nat : Backed(p) => Backed(p)'
  BY <1>1, <1>3, <1>4, BackedStays
<1>8. /\ call[t] \in Calls /\ call'[t] \in Calls /\ live \in SUBSET Addr
      /\ call[t].quantum = QuantumSize /\ call[t].qset = QsetSize
      /\ call'[t].quantum = QuantumSize /\ call'[t].qset = QsetSize
  <2>1. call'[t] \in Calls /\ call'[t].quantum = QuantumSize /\ call'[t].qset = QsetSize
    BY <1>1, <1>2 DEF IInv, TypeOK, Orderly, FormatInv
  <2> QED BY <2>1, OrderlyCalls DEF IInv, TypeOK
<1>9. WalkAt(t)
  BY DEF WalkInv
<1> QED BY <1>4, <1>5, <1>6, <1>7, <1>8, <1>9, CalmGrows

\* mev_follow() begins at the head ...
LEMMA WalkHead ==
  ASSUME IInv, LeakInv, WalkInv, [Next]_vars, Orderly, Orderly', NEW t \in Threads,
         FollowHead(t), pc'[t] \in Holding
  PROVE  WalkAt(t)'
<1>1. /\ pc[t] = "head"
      /\ pc \in [Proc -> InCall \union {"closed", "idle", "trim", "unloaded", "adding",
                                        "loaded", "del"}]
      /\ cursor \in [Proc -> Pointer] /\ call \in [Threads -> Calls]
      /\ container \in [data : Pointer, quantum : Quanta, qset : Qsets, size : Nat]
  BY DEF FollowHead, IInv, TypeOK
<1>2. /\ (List = ListOf(List))' /\ Cardinality(Addr) \in Nat
      /\ call[t] \in Calls /\ call'[t] \in Calls
      /\ call'[t].quantum = QuantumSize /\ call'[t].qset = QsetSize
  BY <1>1, WalkBeside DEF InCall, Section
<1>3. /\ pc'[t] = "follow" /\ cursor'[t] = container'.data
      /\ call'[t] = [call[t] EXCEPT !.n = Item(call[t])]
  BY <1>1 DEF FollowHead, Goto, Oops, Holding, Proc
<1>4. Item(call'[t]) = Item(call[t]) /\ call'[t].n = Item(call[t])
  BY <1>2, <1>3 DEF Item, ItemSize, Quot, Calls
<1>5. Item(call'[t]) \in Nat
  BY <1>2, Places
<1>6. List'[0] = container'.data
  BY <1>2 DEF ListOf
<1>7. Item(call'[t]) - call'[t].n = 0 /\ call'[t].n <= Item(call'[t])
  BY <1>4, <1>5
<1> QED BY <1>2, <1>3, <1>6, <1>7 DEF WalkAt

\* ... and goes on to the next node, with one turn less before it.
LEMMA WalkNext ==
  ASSUME IInv, LeakInv, WalkInv, [Next]_vars, Orderly, Orderly', NEW t \in Threads,
         FollowNext(t), pc'[t] \in Holding
  PROVE  WalkAt(t)'
<1>1. /\ pc[t] = "follow"
      /\ pc \in [Proc -> InCall \union {"closed", "idle", "trim", "unloaded", "adding",
                                        "loaded", "del"}]
      /\ cursor \in [Proc -> Pointer]
      /\ call \in [Threads -> Calls] /\ nxt \in [Addr -> Addr \union {NULL}]
  BY DEF FollowNext, IInv, TypeOK
<1>2. /\ (List = ListOf(List))' /\ Cardinality(Addr) \in Nat /\ WalkAt(t)
      /\ \A k \in 0 .. Cardinality(Addr) : List[k] \in live => k + 1 \in 0 .. Cardinality(Addr)
      /\ \A k \in 0 .. Cardinality(Addr) : List[k] # NULL => List'[k] = List[k]
      /\ call[t] \in Calls /\ call'[t] \in Calls
      /\ call'[t].quantum = QuantumSize /\ call'[t].qset = QsetSize
      /\ live \in SUBSET Addr
  BY <1>1, WalkBeside DEF InCall, Section
<1>3. CASE cursor[t] \notin live
  BY <1>1, <1>3, WalkSame DEF FollowNext, Oops, Holding
<1>4. CASE cursor[t] \in live
  <2>1. /\ pc'[t] = "follow" /\ cursor'[t] = nxt'[cursor[t]] /\ call[t].n > 0
        /\ call'[t] = [call[t] EXCEPT !.n = call[t].n - 1]
    <3>1. /\ cursor[t] \in Addr /\ t \in Proc
      BY <1>2, <1>4 DEF Proc
    <3>2. /\ call[t].n > 0 /\ call' = [call EXCEPT ![t].n = call[t].n - 1]
          /\ \/ /\ cursor' = [cursor EXCEPT ![t] = nxt[cursor[t]]] /\ nxt' = nxt /\ pc' = pc
             \/ \E a \in Addr : /\ nxt' = [nxt EXCEPT ![cursor[t]] = a]
                               /\ cursor' = [cursor EXCEPT ![t] = a] /\ pc' = pc
             \/ pc' = [pc EXCEPT ![t] = "up"]
      BY <1>4 DEF FollowNext, Goto, heap
    <3>3. pc' = pc
      BY <1>1, <3>1, <3>2 DEF Holding
    <3>4. nxt'[cursor[t]] = cursor'[t]
      BY <1>1, <3>1, <3>2, <3>3
    <3>5. call'[t] = [call[t] EXCEPT !.n = call[t].n - 1]
      BY <1>1, <3>2
    <3> QED BY <1>1, <3>2, <3>3, <3>4, <3>5
  <2>2. /\ Item(call'[t]) = Item(call[t]) /\ call'[t].n = call[t].n - 1
        /\ Item(call[t]) \in Nat /\ call[t].n \in Nat
    <3>1. Item(call'[t]) = Item(call[t]) /\ call'[t].n = call[t].n - 1
      BY <1>2, <2>1 DEF Item, ItemSize, Quot, Calls
    <3>2. Item(call'[t]) \in Nat
      BY <1>2, Places
    <3> QED BY <1>2, <3>1, <3>2 DEF Calls
  <2>3. PICK k \in 0 .. Cardinality(Addr) : k = Item(call[t]) - call[t].n /\ cursor[t] = List[k]
                                            /\ call[t].n <= Item(call[t])
    BY <1>1, <1>2 DEF WalkAt
  <2>4. k + 1 \in 0 .. Cardinality(Addr) /\ List'[k] = cursor[t]
    BY <1>2, <1>4, <2>3
  <2>5. List'[k + 1] = nxt'[cursor[t]]
    <3>1. List'[k + 1] = ListOf(List)'[k + 1]
      BY <1>2
    <3>2. (k + 1) - 1 = k /\ k + 1 # 0
      BY <2>3
    <3> QED BY <1>2, <1>4, <2>4, <3>1, <3>2 DEF ListOf
  <2>6. Item(call'[t]) - call'[t].n = k + 1 /\ call'[t].n <= Item(call'[t])
    BY <2>1, <2>2, <2>3
  <2> QED BY <2>1, <2>4, <2>5, <2>6 DEF WalkAt
<1> QED BY <1>3, <1>4

\* When no turn is left, the pointer is at the node of the position.
LEMMA WalkEnd ==
  ASSUME IInv, LeakInv, WalkInv, [Next]_vars, Orderly, Orderly', NEW t \in Threads,
         FollowEnd(t), pc'[t] \in Holding
  PROVE  WalkAt(t)'
<1>1. /\ pc[t] = "follow" /\ pc'[t] \in {"hole", "array"} /\ call[t].n = 0
      /\ call'[t] = call[t] /\ cursor'[t] = cursor[t]
  BY DEF FollowEnd, Goto, IInv, TypeOK, Proc
<1>2. /\ WalkAt(t) /\ \A k \in 0 .. Cardinality(Addr) : List[k] # NULL => List'[k] = List[k]
      /\ call'[t] \in Calls /\ call'[t].quantum = QuantumSize /\ call'[t].qset = QsetSize
  BY <1>1, WalkBeside DEF InCall, Section
<1>3. Item(call[t]) \in Nat
  BY <1>1, <1>2, Places
<1>4. Item(call[t]) - call[t].n = Item(call[t])
  BY <1>1, <1>3
<1>5. cursor[t] # NULL
  BY <1>1 DEF Orderly, IInv, TypeOK, PointerInv, Holding
<1> QED BY <1>1, <1>2, <1>4, <1>5 DEF WalkAt

\* The array of the node is looked up or allocated.
LEMMA WalkArray ==
  ASSUME IInv, LeakInv, WalkInv, [Next]_vars, Orderly, Orderly', NEW t \in Threads,
         WriteArray(t), pc'[t] \in Holding
  PROVE  WalkAt(t)'
<1>1. /\ pc[t] = "array" /\ call'[t] = call[t] /\ cursor'[t] = cursor[t]
      /\ pc'[t] = pc[t] \/ pc'[t] = "quantum"
  BY DEF WriteArray, Goto, IInv, TypeOK, Proc, Oops, Holding
<1>2. /\ WalkAt(t) /\ \A k \in 0 .. Cardinality(Addr) : List[k] # NULL => List'[k] = List[k]
  BY <1>1, WalkBeside DEF InCall, Section
<1>3. cursor[t] # NULL
  BY <1>1 DEF Orderly, IInv, TypeOK, PointerInv, Holding
<1> QED BY <1>1, <1>2, <1>3 DEF WalkAt

\* A read gets to the copy only where there is a quantum.
LEMMA WalkHole ==
  ASSUME IInv, LeakInv, WalkInv, [Next]_vars, Orderly, Orderly', NEW t \in Threads,
         ReadHole(t), pc'[t] \in Holding
  PROVE  WalkAt(t)'
<1>1. /\ pc[t] = "hole" /\ cursor'[t] = cursor[t] /\ t \in Proc
      /\ pc \in [Proc -> InCall \union {"closed", "idle", "trim", "unloaded", "adding",
                                     "loaded", "del"}]
      /\ call \in [Threads -> Calls]
  BY DEF ReadHole, Oops, IInv, TypeOK, Proc
<1>2. /\ WalkAt(t) /\ \A k \in 0 .. Cardinality(Addr) : List[k] # NULL => List'[k] = List[k]
      /\ \A p \in Nat : Backed(p) => Backed(p)'
      /\ call[t] \in Calls /\ call[t].quantum = QuantumSize /\ call[t].qset = QsetSize
  BY <1>1, WalkBeside DEF InCall, Section
<1>3. CASE pc' = pc /\ call' = call
  BY <1>1, <1>3, WalkSame DEF Holding
<1>4. CASE ~(pc' = pc /\ call' = call)
  <2>1. /\ pc'[t] = "copy" /\ call'[t] = Within(call[t])
        /\ cursor[t] \in live /\ data[cursor[t]] # NULL
        /\ SPos(call[t]) \in DOMAIN data[cursor[t]] /\ data[cursor[t]][SPos(call[t])] # NULL
    <3>1. pc'[t] # "up"
      BY DEF Holding
    <3>2. cursor[t] \in live /\ ~Beyond(cursor[t], SPos(call[t]))
      BY <1>4 DEF ReadHole, Oops
    <3>3. \/ pc' = [pc EXCEPT ![t] = "up"]
          \/ /\ pc' = [pc EXCEPT ![t] = "copy"]
             /\ call' = [call EXCEPT ![t] = Within(call[t])]
             /\ data[cursor[t]] # NULL /\ data[cursor[t]][SPos(call[t])] # NULL
      BY <3>2 DEF ReadHole, Goto
    <3> QED BY <1>1, <3>1, <3>2, <3>3 DEF Beyond
  <2>2. ItemSize(call[t]) # 0
    BY <1>2, FormattedGeometry
  <2>3. call'[t].pos = call[t].pos /\ Item(call'[t]) = Item(call[t])
    BY <1>2, <2>1, <2>2, WithinCuts DEF Item, ItemSize
  <2>4. Filled(Item(call[t]), SPos(call[t])) /\ cursor[t] # NULL
    BY <1>1, <1>2, <2>1 DEF WalkAt, Filled, IInv, TypeOK
  <2>5. Backed(call[t].pos)' /\ call[t].pos \in Nat
    <3>1. call[t].pos \in Nat
      BY <1>2 DEF Calls
    <3>2. PICK p \in Nat : p = call[t].pos
      BY <3>1
    <3>3. Backed(p)
      BY <1>2, <2>4, <3>2, Places, BackedIsFilled
    <3>4. Backed(p)'
      BY <1>2, <3>3
    <3> QED BY <2>1, <2>3, <3>2, <3>4
  <2> QED BY <1>1, <1>2, <2>1, <2>3, <2>4, <2>5 DEF WalkAt
<1> QED BY <1>3, <1>4

\* A write gets there with a quantum that is there, new or not.
LEMMA WalkQuantum ==
  ASSUME IInv, LeakInv, WalkInv, [Next]_vars, Orderly, Orderly', NEW t \in Threads,
         WriteQuantum(t), pc'[t] \in Holding
  PROVE  WalkAt(t)'
<1>1. /\ pc[t] = "quantum" /\ cursor'[t] = cursor[t] /\ t \in Proc
      /\ pc \in [Proc -> InCall \union {"closed", "idle", "trim", "unloaded", "adding",
                                     "loaded", "del"}]
      /\ call \in [Threads -> Calls] /\ data \in [Addr -> Arrays \union {NULL}]
      /\ live \in SUBSET Addr
  BY DEF WriteQuantum, Oops, IInv, TypeOK, Proc
<1>2. /\ WalkAt(t) /\ \A k \in 0 .. Cardinality(Addr) : List[k] # NULL => List'[k] = List[k]
      /\ live \subseteq live'
      /\ call[t] \in Calls /\ call[t].quantum = QuantumSize /\ call[t].qset = QsetSize
  BY <1>1, WalkBeside DEF InCall, Section
<1>3. CASE pc' = pc /\ call' = call
  BY <1>1, <1>3, WalkSame DEF Holding
<1>4. CASE ~(pc' = pc /\ call' = call)
  <2>1. /\ pc'[t] = "copy" /\ call'[t] = Within(call[t]) /\ cursor[t] \in live
        /\ ~Beyond(cursor[t], SPos(call[t]))
        /\ \/ data[cursor[t]][SPos(call[t])] # NULL /\ data' = data
           \/ data' = [data EXCEPT ![cursor[t]] =
                         [data[cursor[t]] EXCEPT ![SPos(call[t])] = call[t].quantum]]
    <3>1. pc'[t] # "up"
      BY DEF Holding
    <3>2. cursor[t] \in live /\ ~Beyond(cursor[t], SPos(call[t]))
      BY <1>4 DEF WriteQuantum, Oops
    <3>3. \/ pc' = [pc EXCEPT ![t] = "up"]
          \/ /\ pc' = [pc EXCEPT ![t] = "copy"]
             /\ call' = [call EXCEPT ![t] = Within(call[t])]
             /\ \/ data[cursor[t]][SPos(call[t])] # NULL /\ data' = data
                \/ data' = [data EXCEPT ![cursor[t]] =
                              [data[cursor[t]] EXCEPT ![SPos(call[t])] = call[t].quantum]]
      BY <3>2 DEF WriteQuantum, Goto
    <3> QED BY <1>1, <3>1, <3>2, <3>3
  <2>2. ItemSize(call[t]) # 0
    BY <1>2, FormattedGeometry
  <2>3. call'[t].pos = call[t].pos /\ Item(call'[t]) = Item(call[t])
    BY <1>2, <2>1, <2>2, WithinCuts DEF Item, ItemSize
  <2>4. /\ Item(call[t]) = ItemAt(call[t].pos) /\ SPos(call[t]) = SlotAt(call[t].pos)
        /\ Item(call[t]) \in 0 .. Cardinality(Addr) /\ List'[Item(call[t])] = cursor[t]
        /\ cursor[t] \in Addr /\ cursor[t] \in live' /\ cursor[t] # NULL
    BY <1>1, <1>2, <2>1, Places DEF WalkAt
  <2>5. /\ data'[cursor[t]] # NULL /\ SPos(call[t]) \in DOMAIN data'[cursor[t]]
        /\ data'[cursor[t]][SPos(call[t])] # NULL
    <3>1. data[cursor[t]] # NULL /\ SPos(call[t]) \in DOMAIN data[cursor[t]]
      BY <1>1, <2>1 DEF IInv, SlotInv, Beyond
    <3>2. CASE data[cursor[t]][SPos(call[t])] # NULL /\ data' = data
      BY <3>1, <3>2
    <3>3. CASE data' = [data EXCEPT ![cursor[t]] =
                          [data[cursor[t]] EXCEPT ![SPos(call[t])] = call[t].quantum]]
      <4>1. data'[cursor[t]] = [data[cursor[t]] EXCEPT ![SPos(call[t])] = call[t].quantum]
        BY <1>1, <2>4, <3>3
      <4>2. call[t].quantum \in Quanta /\ data[cursor[t]] \in Arrays
        BY <1>1, <1>2, <2>4, <3>1 DEF Calls
      <4>3. [data[cursor[t]] EXCEPT ![SPos(call[t])] = call[t].quantum] \in Arrays
        BY <4>2, ArrayGrows
      <4>4. NULL \notin Arrays /\ call[t].quantum # NULL
        BY <4>2, MevAssumption
      <4>5. data'[cursor[t]] # NULL
        BY <4>1, <4>3, <4>4
      <4> QED BY <3>1, <4>1, <4>4, <4>5
    <3> QED BY <2>1, <3>2, <3>3
  <2>6. PICK p \in Nat : p = call[t].pos
    BY <1>2 DEF Calls
  <2>7. Filled(ItemAt(p), SlotAt(p))'
    BY <2>4, <2>5, <2>6 DEF Filled, ItemAt, SlotAt
  <2>8. Backed(p)'
    BY <2>7, BackedIsFilled
  <2> QED BY <1>1, <1>2, <2>1, <2>3, <2>4, <2>6, <2>8 DEF WalkAt
<1> QED BY <1>3, <1>4

\* The bytes copied end in the quantum they began in.
LEMMA WalkCopy ==
  ASSUME IInv, LeakInv, WalkInv, ShapeInv, [Next]_vars, Orderly, Orderly',
         NEW t \in Threads, Copy(t), pc'[t] \in Holding
  PROVE  WalkAt(t)'
<1>1. /\ pc[t] = "copy" /\ cursor'[t] = cursor[t] /\ t \in Proc
      /\ pc \in [Proc -> InCall \union {"closed", "idle", "trim", "unloaded", "adding",
                                     "loaded", "del"}]
      /\ call \in [Threads -> Calls]
  BY DEF Copy, Oops, IInv, TypeOK, Proc
<1>2. /\ WalkAt(t) /\ \A p \in Nat : Backed(p) => Backed(p)'
      /\ call[t] \in Calls /\ call[t].quantum = QuantumSize /\ call[t].qset = QsetSize
  BY <1>1, WalkBeside DEF InCall, Section
<1>3. CASE pc' = pc /\ call' = call
  BY <1>1, <1>3, WalkSame DEF Holding
<1>4. CASE ~(pc' = pc /\ call' = call)
  <2>1. pc'[t] = "commit" /\ call'[t] = [call[t] EXCEPT !.pos = call[t].pos + call[t].count]
    <3>1. pc'[t] # "up"
      BY DEF Holding
    <3>2. \/ pc' = [pc EXCEPT ![t] = "up"]
          \/ /\ pc' = [pc EXCEPT ![t] = "commit"]
             /\ call' = [call EXCEPT ![t].pos = call[t].pos + call[t].count]
      BY <1>4 DEF Copy, Goto, Oops
    <3> QED BY <1>1, <3>1, <3>2
  <2>2. PICK p \in Nat, k \in Nat : p = call[t].pos /\ k = call[t].count
    BY <1>2 DEF Calls
  <2>3. call'[t].pos = p + k
    BY <1>2, <2>1, <2>2 DEF Calls
  <2>4. Backed(p) /\ ((p % (QuantumSize * QsetSize)) % QuantumSize) + k <= QuantumSize
    <3>1. QPos(call[t]) = (p % (QuantumSize * QsetSize)) % QuantumSize
      BY <1>2, <2>2, FormattedGeometry
    <3>2. QPos(call[t]) + k <= QuantumSize
      BY <1>1, <1>2, <2>2 DEF ShapeInv, Orderly, CopyShape
    <3> QED BY <1>1, <1>2, <2>2, <3>1, <3>2 DEF WalkAt
  <2>5. (p + k - 1 \in Nat /\ Backed(p + k - 1)) \/ Backed(p + k)
    <3>1. CASE k = 0
      BY <2>2, <2>4, <3>1
    <3>2. CASE k # 0
      <4>1. ItemAt(p + k - 1) = ItemAt(p) /\ SlotAt(p + k - 1) = SlotAt(p)
        BY <2>2, <2>4, <3>2, SameQuantum
      <4>2. p + k - 1 \in Nat
        BY <2>2, <3>2
      <4> QED BY <2>4, <4>1, <4>2, BackedIsFilled
    <3> QED BY <3>1, <3>2
  <2>6. Backed(p + k - 1)' \/ Backed(p + k)'
    BY <1>2, <2>2, <2>5
  <2> QED BY <2>1, <2>3, <2>6 DEF WalkAt
<1> QED BY <1>3, <1>4

\* Every step keeps the pointers of the calls in their places.
LEMMA WalkStep ==
  ASSUME IInv, LeakInv, WalkInv, ShapeInv, [Next]_vars
  PROVE  WalkInv'
<1>1. SUFFICES ASSUME Orderly', NEW t \in Threads PROVE WalkAt(t)'
  BY DEF WalkInv
<1>2. CASE pc'[t] \notin Holding
  BY <1>2 DEF WalkAt, Holding
<1>3. CASE pc'[t] \in Holding
  <2>1. \A p \in Proc : ~TrimReset(p)
    <3>1. ASSUME NEW p \in Proc, TrimReset(p) PROVE FALSE
      <4>1. ~overlap /\ pc[p] = "trim"
        BY <1>1, <3>1, OverlapStays DEF Orderly, TrimReset, ResetTo
      <4>2. \A q \in Proc \ {p} : pc[q] \notin Holding
        BY <4>1 DEF IInv, AloneInv, Busy, Holding, InCall, Section
      <4>3. pc' = [pc EXCEPT ![p] = IF p = Loader THEN "del" ELSE "idle"]
        BY <3>1 DEF TrimReset, ResetTo, Goto
      <4> QED BY <1>3, <4>2, <4>3 DEF IInv, TypeOK, Holding, Proc
    <3> QED BY <3>1
  <2>2. Orderly
    BY <1>1, <2>1, OrderlyBefore
  <2>3. CASE pc'[t] = pc[t] /\ call'[t] = call[t] /\ cursor'[t] = cursor[t]
    <3>1. pc[t] \in Holding
      BY <1>3, <2>3
    <3> QED BY <1>1, <2>2, <2>3, <3>1, WalkSame
  <2> QED BY <1>1, <1>3, <2>2, <2>3, WalkSteps, WalkHead, WalkNext, WalkEnd, WalkHole, WalkArray,
             WalkQuantum, WalkCopy
<1> QED BY <1>2, <1>3

-----------------------------------------------------------------------------
\* Only its end ends a trim.
LEMMA TrimStays ==
  ASSUME IInv, [Next]_vars, NEW p \in Proc, pc[p] = "trim", ~TrimReset(p)
  PROVE  pc'[p] = "trim"
<1>1. pc \in [Proc -> InCall \union {"closed", "idle", "trim", "unloaded", "adding",
                                     "loaded", "del"}]
  BY DEF IInv, TypeOK
<1> USE DEF Goto, Oops, Proc
<1>2. CASE LoaderStep \/ UNCHANGED vars
  BY <1>1, <1>2 DEF LoaderStep, InitFails, InitModule, SemaInit, ExitBegin, ExitEnd,
    TrimNode, TrimReset, ResetTo, vars
<1>3. ASSUME NEW u \in Threads, UserStep(u) PROVE pc'[p] = "trim"
  BY <1>1, <1>3 DEF UserStep, MevOpen, MevRelease, MevCall, Interrupted
<1>4. ASSUME NEW u \in Threads, Up(u) PROVE pc'[p] = "trim"
  <2>1. pc[u] = "up"
    BY <1>4 DEF Up
  <2>2. \/ pc' = pc
        \/ pc' = [pc EXCEPT ![u] = "idle"]
        \/ \E w \in Threads : pc[w] = "wait" /\ pc' = [pc EXCEPT ![u] = "idle", ![w] = Entry(w)]
    BY <1>4, UpEffect
  <2> QED BY <1>1, <2>1, <2>2
<1>5. ASSUME NEW u \in Threads, Advance(u), ~Up(u) PROVE pc'[p] = "trim"
  BY <1>1, <1>5 DEF Advance, TrimNode, TrimReset, ResetTo, DownInterruptible, EndOfFile,
    Clamp, FollowHead, FollowNext, FollowEnd, ReadHole, WriteArray, WriteQuantum, Copy, Commit
<1> QED BY <1>2, <1>3, <1>4, <1>5 DEF Next, Halted

\* Every step keeps the size behind the data.
LEMMA SizeStep ==
  ASSUME IInv, LeakInv, WalkInv, SizeInv, [Next]_vars
  PROVE  SizeInv'
<1>1. SUFFICES ASSUME Orderly', \A p \in Proc : pc'[p] # "trim",
                      container'.size > 0
               PROVE  (Backed(container.size - 1) \/ Backed(container.size))'
  BY DEF SizeInv
<1>2. ~overlap /\ ~overlap'
  BY <1>1, OverlapStays DEF Orderly
<1>3. ~InitModule
  BY <1>1 DEF InitModule, Orderly
<1>4. \A p \in Proc : ~TrimReset(p)
  BY <1>1 DEF TrimReset, ResetTo
<1>5. \A p \in Proc : ~TrimNode(p)
  BY <1>1, <1>2 DEF TrimNode, Oops
<1>6. \A p \in Proc : pc[p] # "trim"
  BY <1>1, <1>4, TrimStays
<1>7. Calm
  BY <1>3, <1>4, <1>5 DEF Calm
<1>8. \A p \in Nat : Backed(p) => Backed(p)'
  BY <1>1, <1>2, <1>6, <1>7, BackedStays
<1>9. Orderly
  BY <1>1, <1>4, OrderlyBefore
<1>10. container \in [data : Pointer, quantum : Quanta, qset : Qsets, size : Nat]
       /\ call \in [Threads -> Calls]
  BY DEF IInv, TypeOK
<1>11. CASE container'.size = container.size
  <2>1. Backed(container.size - 1) \/ Backed(container.size)
    BY <1>1, <1>2, <1>6, <1>9, <1>11 DEF SizeInv
  <2>2. PICK n \in Nat : n = container.size /\ n - 1 \in Nat
    BY <1>1, <1>10, <1>11
  <2>3. Backed(n - 1)' \/ Backed(n)'
    BY <1>8, <2>1, <2>2
  <2> QED BY <1>11, <2>2, <2>3 DEF Backed
<1>12. CASE container'.size # container.size
  <2>1. PICK t \in Threads : Commit(t)
    <3>1. container' # container
      BY <1>12
    <3>2. ASSUME NEW t \in Threads, FollowHead(t) PROVE container'.size = container.size
      BY <1>10, <3>2 DEF FollowHead, Oops
    <3> QED BY <1>3, <1>4, <1>12, <3>1, <3>2, Writers_container
  <2>2. PICK n \in Nat : n = call[t].pos
    BY <1>10 DEF Calls
  <2>3. pc[t] = "commit" /\ container'.size = n
    BY <1>10, <1>12, <2>1, <2>2 DEF Commit
  <2>4. (Backed(n - 1) \/ Backed(n)) /\ n - 1 \in Nat
    BY <1>1, <1>9, <2>2, <2>3 DEF WalkInv, WalkAt
  <2>5. Backed(n - 1)' \/ Backed(n)'
    BY <1>8, <2>2, <2>4
  <2> QED BY <2>3, <2>5 DEF Backed
<1> QED BY <1>11, <1>12

\* Before the first call nobody holds a pointer, and nothing is formatted.
LEMMA SizeInit ==
  ASSUME Init
  PROVE  WalkInv /\ SizeInv
<1>1. \A t \in Threads : pc[t] = "closed"
  BY DEF Init, Proc
<1> QED BY <1>1 DEF Init, WalkInv, WalkAt, SizeInv, Orderly

\* The size of the device never runs ahead of its data: under every interleaving
\* of calls, failing allocations and copies, the last position below the size, or
\* the size itself, lies in a quantum that exists (lkm_mev.c:515-523).
THEOREM SizeIsBacked == Spec => []SizeBacked
<1>1. Init => LeakInv /\ ShapeInv /\ WalkInv /\ SizeInv
  BY LeakInit, ShapeInit, SizeInit
<1>2. /\ LeakInv /\ ShapeInv /\ WalkInv /\ SizeInv
      /\ IInv /\ [Next]_vars
      => (LeakInv /\ ShapeInv /\ WalkInv /\ SizeInv)'
  BY LeakStep, ShapeStep, WalkStep, SizeStep
<1>3. SizeInv => SizeBacked
  BY DEF SizeInv, SizeBacked, Orderly
<1> QED BY <1>1, <1>2, <1>3, Invariance, PTL DEF Spec
=============================================================================

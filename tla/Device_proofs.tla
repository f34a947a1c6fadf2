--------------------------- MODULE Device_proofs ---------------------------
(***************************************************************************)
(* Proofs about Device, for any number of tasks, any message and buffers   *)
(* of any length: what the unlocked counter and the unlocked pointer are   *)
(* good for as long as calls do not overlap.                               *)
(***************************************************************************)
EXTENDS Device, TLAPS

USE DeviceAssumption

\* What a task keeps to itself on its way through device_read(): it comes to
\* put_user() with room in its buffer, and leaves with what it got.
LocalInv ==
  \A t \in Threads : /\ pc[t] \in {"load", "store"} => len[t] > 0
                     /\ pc[t] = "store" => reg[t] \in Nat
                     /\ pc[t] \notin Reading => got[t] = <<>>

\* Without overlapping opens and releases one task at most changes the counter,
\* and until it has, the counter has its old value and so has the register.
CountInv ==
  ~raced =>
    /\ \A t, u \in Threads : pc[t] \in Counting /\ pc[u] \in Counting => t = u
    /\ OneOpenFile
    /\ CountsFiles
    /\ \A t \in Threads :
         /\ pc[t] \in {"inc_load", "inc_store"} => files = {} /\ device_open_count = 0
         /\ pc[t] \in {"dec_load", "dec_store"} => files = {} /\ device_open_count = 1
         /\ pc[t] \in {"inc_store", "dec_store"} => reg[t] = device_open_count

\* Without overlapping reads one task at most is at the pointer, which stays in
\* the message and, once tested, before its end.
ReadInv ==
  ~mixed =>
    /\ \A t, u \in Threads : pc[t] \in Reading /\ pc[u] \in Reading => t = u
    /\ InMessage
    /\ message_ptr <= Length
    /\ \A t \in Threads :
         /\ pc[t] \in {"load", "store"} => message_ptr < Length
         /\ pc[t] = "store" => reg[t] = message_ptr

IInv == TypeOK /\ LocalInv /\ CountInv /\ ReadInv

\* TypeOK in two parts, one for each prover: the flags are Boolean, and the rest.
Flags ==
  /\ fault \in BOOLEAN /\ raced \in BOOLEAN /\ mixed \in BOOLEAN /\ lost \in BOOLEAN
Types ==
  /\ pc \in [Threads -> {"user"} \union Counting \union Reading]
  /\ files \in SUBSET Threads
  /\ device_open_count \in Int
  /\ message_ptr \in Nat
  /\ reg \in [Threads -> Int] /\ via \in [Threads -> Threads]
  /\ len \in [Threads -> Nat] /\ got \in [Threads -> Seq(Nat)]
  /\ empty \in SUBSET Threads
  /\ expected \in 0 .. Length - 1

LEMMA TypeParts == TypeOK <=> Types /\ Flags
BY DEF TypeOK, Types, Flags

-----------------------------------------------------------------------------
\* What Init leaves.
LEMMA InvInit == ASSUME Init PROVE IInv
<1> USE DEF Init
<1>1. Types
  <2>1. 0 \in 0 .. Length - 1
    OBVIOUS
  <2> QED BY <2>1 DEF Types
<1>2. Flags
  BY DEF Flags
<1>3. LocalInv
  BY DEF LocalInv
<1>4. CountInv
  BY DEF CountInv, OneOpenFile, CountsFiles, Counting
<1>5. ReadInv
  BY DEF ReadInv, InMessage, Reading
<1> QED BY <1>1, <1>2, <1>3, <1>4, <1>5, TypeParts DEF IInv

\* A step of one task, or one that all of them wait for.
LEMMA Cases ==
  ASSUME [Next]_vars,
         NEW P,
         \A t \in Threads : Open(t) \/ Release(t) => P,
         \A t \in Threads : CountLoad(t) \/ CountStore(t) => P,
         \A t, f \in Threads, n \in Lengths : Read(t, f, n) => P,
         \A t \in Threads : RewindTest(t) \/ Rewind(t) \/ Test(t) => P,
         \A t \in Threads : Load(t) \/ Store(t) => P,
         Reload => P,
         UNCHANGED vars => P
  PROVE  P
BY DEF Next, Advance, Halted

LEMMA FlagsStep ==
  ASSUME Flags, [Next]_vars
  PROVE  Flags'
<1>1. ASSUME NEW t \in Threads, Open(t) \/ Release(t) PROVE Flags'
  BY <1>1, Zenon DEF Flags, Open, Release, reading
<1>2. ASSUME NEW t \in Threads, CountLoad(t) \/ CountStore(t) PROVE Flags'
  BY <1>2, Zenon DEF Flags, CountLoad, CountStore, opening, reading
<1>3. ASSUME NEW t \in Threads, NEW f \in Threads, NEW n \in Lengths, Read(t, f, n)
      PROVE  Flags'
  BY <1>3, Zenon DEF Flags, Read, opening
<1>4. ASSUME NEW t \in Threads, RewindTest(t) \/ Rewind(t) \/ Test(t) PROVE Flags'
  <2>1. CASE RewindTest(t)
    <3>1. fault' = (message_ptr > Length)
      BY <2>1 DEF RewindTest
    <3>2. (message_ptr > Length) \in BOOLEAN
      OBVIOUS
    <3>3. fault' \in BOOLEAN
      BY <3>1, <3>2, Zenon
    <3> QED BY <2>1, <3>3, Zenon DEF Flags, RewindTest, opening
  <2>2. CASE Rewind(t)
    BY <2>2, Zenon DEF Flags, Rewind, opening
  <2>3. CASE Test(t)
    BY <2>3, Zenon DEF Flags, Test, opening
  <2> QED BY <1>4, <2>1, <2>2, <2>3
<1>5. ASSUME NEW t \in Threads, Load(t) \/ Store(t) PROVE Flags'
  <2>1. CASE Load(t)
    BY <2>1, Zenon DEF Flags, Load, opening, reading
  <2>2. CASE Store(t)
    <3>1. fault' = (reg[t] > Length)
      BY <2>2 DEF Store
    <3>2. (reg[t] > Length) \in BOOLEAN
      OBVIOUS
    <3>3. fault' \in BOOLEAN
      BY <3>1, <3>2, Zenon
    <3>4. lost' \in BOOLEAN
      BY <2>2, Zenon DEF Flags, Store
    <3> QED BY <2>2, <3>3, <3>4, Zenon DEF Flags, Store, opening
  <2> QED BY <1>5, <2>1, <2>2
<1>6. CASE Reload
  BY <1>6, Zenon DEF Flags, Reload
<1>7. CASE UNCHANGED vars
  BY <1>7, Zenon DEF Flags, vars, opening, reading
<1> QED BY <1>1, <1>2, <1>3, <1>4, <1>5, <1>6, <1>7, Cases

LEMMA TypesStep ==
  ASSUME Types, LocalInv, [Next]_vars
  PROVE  Types'
<1> USE DEF Types, Goto
<1>1. ASSUME NEW t \in Threads, Open(t) \/ Release(t) PROVE Types'
  <2>1. CASE Open(t)
    BY <2>1 DEF Open, reading, Counting
  <2>2. CASE Release(t)
    BY <2>2 DEF Release, reading, Counting
  <2> QED BY <1>1, <2>1, <2>2
<1>2. ASSUME NEW t \in Threads, CountLoad(t) PROVE Types'
  BY <1>2 DEF CountLoad, opening, reading, Counting
<1>3. ASSUME NEW t \in Threads, CountStore(t) PROVE Types'
  BY <1>3 DEF CountStore, reading
<1>4. ASSUME NEW t \in Threads, NEW f \in Threads, NEW n \in Lengths, Read(t, f, n)
      PROVE  Types'
  BY <1>4 DEF Read, opening, Reading
<1>5. ASSUME NEW t \in Threads, RewindTest(t) \/ Rewind(t) PROVE Types'
  <2>1. CASE RewindTest(t)
    BY <2>1 DEF RewindTest, opening, Reading
  <2>2. CASE Rewind(t)
    BY <2>2 DEF Rewind, opening, Reading
  <2> QED BY <1>5, <2>1, <2>2
<1>6. ASSUME NEW t \in Threads, Return(t) PROVE
         /\ pc' \in [Threads -> {"user"} \union Counting \union Reading]
         /\ via' \in [Threads -> Threads] /\ len' \in [Threads -> Nat]
         /\ got' \in [Threads -> Seq(Nat)] /\ empty' \in SUBSET Threads
  BY <1>6 DEF Return
<1>7. ASSUME NEW t \in Threads, Test(t) PROVE Types'
  <2>1. CASE Return(t)
    BY <2>1, <1>6, <1>7 DEF Test, opening
  <2>2. CASE Goto(t, "load") /\ UNCHANGED <<empty, via, got, len>>
    BY <2>2, <1>7 DEF Test, opening, Reading
  <2> QED BY <1>7, <2>1, <2>2 DEF Test
<1>8. ASSUME NEW t \in Threads, Load(t) PROVE Types'
  BY <1>8 DEF Load, opening, reading, Reading
<1>9. ASSUME NEW t \in Threads, Store(t) PROVE Types'
  <2>1. reg[t] \in Nat /\ len[t] - 1 \in Nat
    BY <1>9 DEF Store, LocalInv
  <2>2. (reg[t] + 1) % Length \in 0 .. Length - 1
    BY <2>1
  <2>3. Append(got[t], reg[t]) \in Seq(Nat)
    BY <2>1
  <2>4. /\ message_ptr' \in Nat /\ reg' \in [Threads -> Int]
        /\ files' \in SUBSET Threads /\ device_open_count' \in Int
    BY <1>9, <2>1 DEF Store, opening
  <2>5. CASE Return(t) /\ UNCHANGED expected
    BY <2>4, <2>5, <1>6
  <2>6. CASE /\ got' = [got EXCEPT ![t] = Append(@, reg[t])]
             /\ len' = [len EXCEPT ![t] = @ - 1]
             /\ expected' = (reg[t] + 1) % Length
             /\ Goto(t, "test")
             /\ UNCHANGED <<empty, via, lost>>
    BY <2>1, <2>2, <2>3, <2>4, <2>6 DEF Reading
  <2> QED BY <1>9, <2>5, <2>6 DEF Store
<1>10. CASE Reload
  <2>1. 0 \in 0 .. Length - 1
    OBVIOUS
  <2> QED BY <1>10, <2>1 DEF Reload
<1>11. CASE UNCHANGED vars
  BY <1>11 DEF vars, opening, reading
<1> QED BY <1>1, <1>2, <1>3, <1>4, <1>5, <1>7, <1>8, <1>9, <1>10, <1>11, Cases

LEMMA LocalStep ==
  ASSUME Types, LocalInv, [Next]_vars
  PROVE  LocalInv'
<1> USE DEF Types, LocalInv, Goto, Reading
<1>1. ASSUME NEW t \in Threads, Open(t) \/ Release(t) PROVE LocalInv'
  BY <1>1 DEF Open, Release, reading
<1>2. ASSUME NEW t \in Threads, CountLoad(t) \/ CountStore(t) PROVE LocalInv'
  BY <1>2 DEF CountLoad, CountStore, reading
<1>3. ASSUME NEW t \in Threads, NEW f \in Threads, NEW n \in Lengths, Read(t, f, n)
      PROVE  LocalInv'
  BY <1>3 DEF Read
<1>4. ASSUME NEW t \in Threads, RewindTest(t) \/ Rewind(t) \/ Test(t) PROVE LocalInv'
  <2>1. CASE RewindTest(t)
    BY <2>1 DEF RewindTest
  <2>2. CASE Rewind(t)
    BY <2>2 DEF Rewind
  <2>3. CASE Test(t) /\ (len[t] = 0 \/ message_ptr = Length)
    BY <2>3 DEF Test, Return
  <2>4. CASE Test(t) /\ ~(len[t] = 0 \/ message_ptr = Length)
    <3>1. /\ pc' = [pc EXCEPT ![t] = "load"] /\ pc[t] = "test"
          /\ UNCHANGED <<got, len, reg>>
      BY <2>4 DEF Test
    <3>2. len[t] > 0
      BY <2>4
    <3> QED BY <3>1, <3>2
  <2> QED BY <1>4, <2>1, <2>2, <2>3, <2>4
<1>5. ASSUME NEW t \in Threads, Load(t) \/ Store(t) PROVE LocalInv'
  <2>1. CASE Load(t)
    BY <2>1 DEF Load, reading
  <2>2. CASE Store(t)
    <3>1. pc[t] = "store" /\ pc'[t] \in {"user", "test"}
      BY <2>2 DEF Store, Return
    <3>2. pc'[t] = "user" => got'[t] = <<>>
      BY <2>2 DEF Store, Return
    <3>3. ASSUME NEW u \in Threads, u # t
          PROVE  pc'[u] = pc[u] /\ len'[u] = len[u] /\ reg'[u] = reg[u] /\ got'[u] = got[u]
      BY <2>2, <3>3 DEF Store, Return
    <3> QED BY <3>1, <3>2, <3>3
  <2> QED BY <1>5, <2>1, <2>2
<1>6. CASE Reload
  BY <1>6 DEF Reload
<1>7. CASE UNCHANGED vars
  BY <1>7 DEF vars, reading
<1> QED BY <1>1, <1>2, <1>3, <1>4, <1>5, <1>6, <1>7, Cases

\* A task in read() leaves alone what opens and releases use ...
LEMMA ReadLeaves ==
  ASSUME Types, NEW t \in Threads,
         \/ \E f \in Threads, n \in Lengths : Read(t, f, n)
         \/ RewindTest(t) \/ Rewind(t) \/ Test(t) \/ Load(t) \/ Store(t)
  PROVE  /\ UNCHANGED opening
         /\ pc[t] \notin Counting /\ pc'[t] \notin Counting
         /\ \A u \in Threads \ {t} : pc'[u] = pc[u] /\ reg'[u] = reg[u]
<1> USE DEF Types, Goto, Counting
<1>1. CASE \E f \in Threads, n \in Lengths : Read(t, f, n)
  BY <1>1 DEF Read
<1>2. CASE RewindTest(t) \/ Rewind(t)
  BY <1>2 DEF RewindTest, Rewind
<1>3. CASE Test(t)
  BY <1>3 DEF Test, Return
<1>4. CASE Load(t)
  BY <1>4 DEF Load
<1>5. CASE Store(t)
  BY <1>5 DEF Store, Return
<1> QED BY <1>1, <1>2, <1>3, <1>4, <1>5

\* ... and one in open() or release() what reads use.
LEMMA CountLeaves ==
  ASSUME Types, NEW t \in Threads,
         Open(t) \/ Release(t) \/ CountLoad(t) \/ CountStore(t)
  PROVE  /\ UNCHANGED reading
         /\ pc[t] \notin Reading /\ pc'[t] \notin Reading
         /\ \A u \in Threads \ {t} : pc'[u] = pc[u] /\ reg'[u] = reg[u]
BY DEF Types, Goto, Reading, Open, Release, CountLoad, CountStore

LEMMA CountStep ==
  ASSUME Types, CountInv, [Next]_vars
  PROVE  CountInv'
<1> SUFFICES ASSUME ~raced' PROVE CountInv'
  BY DEF CountInv
<1> USE DEF Types, CountInv, OneOpenFile, CountsFiles, Counting, Goto
<1>1. ASSUME NEW t \in Threads, Open(t) PROVE CountInv'
  <2>1. ~raced /\ \A u \in Threads : pc[u] \notin Counting
    BY <1>1 DEF Open
  <2>2. files = {} /\ device_open_count = 0
    BY <1>1, <2>1 DEF Open
  <2>3. files' = {} /\ device_open_count' = 0
    BY <1>1, <2>2 DEF Open
  <2>4. pc'[t] = "inc_load" /\ \A u \in Threads \ {t} : pc'[u] \notin Counting
    BY <1>1, <2>1 DEF Open
  <2> QED BY <2>3, <2>4
<1>2. ASSUME NEW t \in Threads, Release(t) PROVE CountInv'
  <2>1. ~raced /\ \A u \in Threads : pc[u] \notin Counting
    BY <1>2 DEF Release
  <2>2. files = {t} /\ device_open_count = 1
    BY <1>2, <2>1 DEF Release
  <2>3. files' = {} /\ device_open_count' = 1
    BY <1>2, <2>2 DEF Release
  <2> QED BY <1>2, <2>1, <2>3 DEF Release
<1>3. ASSUME NEW t \in Threads, CountLoad(t) PROVE CountInv'
  BY <1>3 DEF CountLoad, opening
<1>4. ASSUME NEW t \in Threads, CountStore(t) PROVE CountInv'
  <2>1. ~raced /\ files = {} /\ \A u \in Threads \ {t} : pc[u] \notin Counting
    BY <1>4 DEF CountStore
  <2>2. \A u \in Threads : pc'[u] \notin Counting
    BY <1>4, <2>1 DEF CountStore
  <2>3. /\ pc[t] = "inc_store" => files' = {t} /\ device_open_count' = 1
        /\ pc[t] = "dec_store" => files' = {} /\ device_open_count' = 0
    BY <1>4, <2>1 DEF CountStore
  <2> QED BY <1>4, <2>2, <2>3 DEF CountStore
<1>5. ASSUME NEW t \in Threads,
             \/ \E f \in Threads, n \in Lengths : Read(t, f, n)
             \/ RewindTest(t) \/ Rewind(t) \/ Test(t) \/ Load(t) \/ Store(t)
      PROVE  CountInv'
  BY <1>5, ReadLeaves DEF opening
<1>6. CASE Reload
  BY <1>6 DEF Reload
<1>7. CASE UNCHANGED vars
  BY <1>7 DEF vars, opening
<1> QED BY <1>1, <1>2, <1>3, <1>4, <1>5, <1>6, <1>7, Cases

LEMMA ReadStep ==
  ASSUME Types, LocalInv, ReadInv, [Next]_vars
  PROVE  ReadInv'
<1> SUFFICES ASSUME ~mixed' PROVE ReadInv'
  BY DEF ReadInv
<1> USE DEF Types, ReadInv, InMessage, Reading, Goto
<1>1. ASSUME NEW t \in Threads, Open(t) \/ Release(t) \/ CountLoad(t) \/ CountStore(t)
      PROVE  ReadInv'
  <2>1. /\ UNCHANGED <<message_ptr, got, fault, mixed>>
        /\ pc[t] \notin Reading /\ pc'[t] \notin Reading
        /\ \A u \in Threads \ {t} : pc'[u] = pc[u] /\ reg'[u] = reg[u]
    BY <1>1, CountLeaves DEF reading
  <2>2. \A u \in Threads : pc'[u] \in Reading => pc'[u] = pc[u] /\ reg'[u] = reg[u]
    BY <2>1
  <2>3. \A u, v \in Threads : pc'[u] \in Reading /\ pc'[v] \in Reading => u = v
    BY <2>1, <2>2
  <2>4. InMessage'
    BY <2>1
  <2>5. \A u \in Threads : /\ pc'[u] \in {"load", "store"} => message_ptr' < Length
                          /\ pc'[u] = "store" => reg'[u] = message_ptr'
    BY <2>1, <2>2
  <2> QED BY <2>1, <2>3, <2>4, <2>5
<1>2. ASSUME NEW t \in Threads, NEW f \in Threads, NEW n \in Lengths, Read(t, f, n)
      PROVE  ReadInv'
  <2>1. /\ ~mixed /\ \A u \in Threads : pc[u] \notin Reading
        /\ UNCHANGED <<message_ptr, got, fault>>
        /\ pc' = [pc EXCEPT ![t] = "rewind_test"]
    BY <1>2 DEF Read
  <2>2. \A u \in Threads : pc'[u] \in Reading => u = t /\ pc'[u] = "rewind_test"
    BY <2>1
  <2> QED BY <2>1, <2>2
<1>3. ASSUME NEW t \in Threads, RewindTest(t) \/ Rewind(t) PROVE ReadInv'
  <2>1. CASE RewindTest(t)
    <3>1. ~mixed /\ fault' = (message_ptr > Length)
      BY <2>1 DEF RewindTest
    <3>2. ~(message_ptr > Length)
      BY <3>1
    <3>3. ~fault'
      BY <3>1, <3>2, Zenon
    <3>4. /\ UNCHANGED <<message_ptr, got, reg>>
          /\ pc' = [pc EXCEPT ![t] = IF message_ptr = Length THEN "rewind" ELSE "test"]
          /\ pc[t] \in Reading
      BY <2>1 DEF RewindTest
    <3> QED BY <3>1, <3>3, <3>4
  <2>2. CASE Rewind(t)
    BY <2>2 DEF Rewind
  <2> QED BY <1>3, <2>1, <2>2
<1>4. ASSUME NEW t \in Threads, Test(t) PROVE ReadInv'
  <2>1. ~mixed /\ ~fault' /\ message_ptr' = message_ptr /\ \A u \in Threads : reg'[u] = reg[u]
    <3>1. ~mixed /\ UNCHANGED <<message_ptr, reg>>
      BY <1>4 DEF Test
    <3>2. fault' = (len[t] > 0 /\ message_ptr > Length)
      BY <1>4 DEF Test
    <3>3. ~(len[t] > 0 /\ message_ptr > Length)
      BY <3>1
    <3>4. ~fault'
      BY <3>2, <3>3, Zenon
    <3> QED BY <3>1, <3>4
  <2>2. \A u \in Threads \ {t} : pc'[u] = pc[u] /\ got'[u] = got[u] /\ pc[u] \notin Reading
    BY <1>4, <2>1 DEF Test, Return
  <2>3. /\ got'[t] = got[t] \/ got'[t] = <<>>
        /\ pc'[t] = "user" \/ (pc'[t] = "load" /\ message_ptr < Length)
    <3>1. CASE len[t] = 0 \/ message_ptr = Length
      BY <3>1, <1>4 DEF Test, Return
    <3>2. CASE ~(len[t] = 0 \/ message_ptr = Length)
      BY <3>2, <1>4, <2>1 DEF Test
    <3> QED BY <3>1, <3>2
  <2>4. \A i \in DOMAIN got'[t] : got'[t][i] < Length
    BY <2>1, <2>3
  <2> QED BY <2>1, <2>2, <2>3, <2>4
<1>5. ASSUME NEW t \in Threads, Load(t) PROVE ReadInv'
  BY <1>5 DEF Load, reading
<1>6. ASSUME NEW t \in Threads, Store(t) PROVE ReadInv'
  <2>1. /\ ~mixed /\ reg[t] = message_ptr /\ message_ptr < Length
        /\ \A u \in Threads \ {t} : pc[u] \notin Reading
    BY <1>6 DEF Store
  <2>2. /\ message_ptr' = message_ptr + 1 /\ ~fault'
        /\ \A u \in Threads \ {t} : pc'[u] = pc[u] /\ got'[u] = got[u] /\ reg'[u] = reg[u]
        /\ pc'[t] \in {"user", "test"}
    <3>1. message_ptr' = message_ptr + 1 /\ \A u \in Threads \ {t} : reg'[u] = reg[u]
      BY <1>6, <2>1 DEF Store
    <3>2. fault' = (reg[t] > Length)
      BY <1>6 DEF Store
    <3>3. ~(reg[t] > Length)
      BY <2>1
    <3>4. ~fault'
      BY <3>2, <3>3, Zenon
    <3>5. /\ \A u \in Threads \ {t} : pc'[u] = pc[u] /\ got'[u] = got[u]
          /\ pc'[t] \in {"user", "test"}
      BY <1>6 DEF Store, Return
    <3> QED BY <3>1, <3>4, <3>5
  <2>3. \A i \in DOMAIN got'[t] : got'[t][i] < Length
    <3>1. CASE got'[t] = <<>>
      BY <3>1
    <3>2. CASE got'[t] = Append(got[t], reg[t])
      BY <3>2, <1>6, <2>1 DEF Store
    <3> QED BY <3>1, <3>2, <1>6 DEF Store, Return
  <2>4. \A u, v \in Threads : pc'[u] \in Reading /\ pc'[v] \in Reading => u = v
    BY <2>1, <2>2
  <2>5. \A u \in Threads : \A i \in DOMAIN got'[u] : got'[u][i] < Length
    BY <2>1, <2>2, <2>3
  <2>6. message_ptr' <= Length
    BY <2>1, <2>2
  <2>7. \A u \in Threads : pc'[u] \notin {"load", "store"}
    BY <2>1, <2>2
  <2> QED BY <2>2, <2>4, <2>5, <2>6, <2>7
<1>7. CASE Reload
  <2>1. /\ ~fault' /\ message_ptr' = 0
        /\ \A u \in Threads : pc'[u] = "user" /\ got'[u] = <<>>
    BY <1>7 DEF Reload, LocalInv
  <2> QED BY <2>1
<1>8. CASE UNCHANGED vars
  BY <1>8 DEF vars, reading
<1> QED BY <1>1, <1>2, <1>3, <1>4, <1>5, <1>6, <1>7, <1>8, Cases

-----------------------------------------------------------------------------
\* The invariant holds in every state of the driver and its users.
THEOREM Invariance == Spec => []IInv
<1>1. Init => IInv
  BY InvInit
<1>2. IInv /\ [Next]_vars => IInv'
  <2> SUFFICES ASSUME IInv, [Next]_vars PROVE IInv'
    OBVIOUS
  <2>1. Types /\ Flags /\ LocalInv /\ CountInv /\ ReadInv
    BY TypeParts DEF IInv
  <2>2. Types' /\ Flags' /\ LocalInv' /\ CountInv' /\ ReadInv'
    BY <2>1, TypesStep, FlagsStep, LocalStep, CountStep, ReadStep
  <2>3. TypeOK'
    BY <2>2, Zenon DEF TypeOK, Types, Flags
  <2> QED BY <2>2, <2>3 DEF IInv
<1> QED BY <1>1, <1>2, PTL DEF Spec

\* Type correctness, for any number of tasks and any message.
THEOREM TypeCorrect == Spec => []TypeOK
<1>1. IInv => TypeOK
  BY DEF IInv
<1> QED BY <1>1, Invariance, PTL

\* The test of device_open() keeps a second opener out, as long as no two opens
\* or releases overlap.
THEOREM OpenedOnce == Spec => []SingleOpen
<1>1. IInv => SingleOpen
  BY DEF IInv, CountInv, SingleOpen
<1> QED BY <1>1, Invariance, PTL

\* device_open_count is exact whenever nobody is changing it, as long as no two
\* opens or releases overlap.
THEOREM Counted == Spec => []CountsFiles
<1>1. IInv => CountsFiles
  BY DEF IInv, CountInv, CountsFiles
<1> QED BY <1>1, Invariance, PTL

\* device_read() stays in the message, for buffers of any length, as long as no
\* two reads overlap.
THEOREM StaysInMessage == Spec => []InMessage
<1>1. IInv => InMessage
  BY DEF IInv, ReadInv, InMessage
<1> QED BY <1>1, Invariance, PTL

-----------------------------------------------------------------------------
\* Without overlapping reads, and none that failed, the pointer is where a
\* reader who missed nothing goes on: at the character expected next, or behind
\* the last one when it is the first.
OrderInv ==
  ~mixed /\ ~lost =>
    /\ message_ptr = expected \/ (message_ptr = Length /\ expected = 0)
    /\ \A t \in Threads : pc[t] = "rewind" => message_ptr = Length

\* The character after the last one is the first.
LEMMA NextExpected ==
  ASSUME NEW L \in Nat \ {0}, NEW n \in 0 .. L - 1
  PROVE  (n + 1) % L = IF n + 1 = L THEN 0 ELSE n + 1
OBVIOUS

LEMMA OrderStep ==
  ASSUME Types, ReadInv, OrderInv, [Next]_vars
  PROVE  OrderInv'
<1> SUFFICES ASSUME ~mixed', ~lost' PROVE OrderInv'
  BY DEF OrderInv
<1> USE DEF Types, OrderInv, Goto
<1>1. ASSUME NEW t \in Threads, Open(t) \/ Release(t) \/ CountLoad(t) \/ CountStore(t)
      PROVE  OrderInv'
  <2>1. UNCHANGED <<message_ptr, expected, mixed, lost>>
        /\ \A u \in Threads : pc'[u] = "rewind" => pc[u] = "rewind"
    BY <1>1, CountLeaves DEF reading, Reading
  <2> QED BY <2>1
<1>2. ASSUME NEW t \in Threads, NEW f \in Threads, NEW n \in Lengths, Read(t, f, n)
      PROVE  OrderInv'
  BY <1>2 DEF Read
<1>3. ASSUME NEW t \in Threads, RewindTest(t) \/ Rewind(t) PROVE OrderInv'
  <2>1. CASE RewindTest(t)
    BY <2>1 DEF RewindTest
  <2>2. CASE Rewind(t)
    <3>1. ~mixed /\ ~lost /\ message_ptr = Length /\ expected = 0
      BY <2>2, DeviceAssumption DEF Rewind
    <3>2. \A u \in Threads : pc'[u] # "rewind"
      BY <2>2, <3>1 DEF Rewind, ReadInv, Reading
    <3> QED BY <2>2, <3>1, <3>2 DEF Rewind
  <2> QED BY <1>3, <2>1, <2>2
<1>4. ASSUME NEW t \in Threads, Test(t) \/ Load(t) PROVE OrderInv'
  <2>1. /\ UNCHANGED <<message_ptr, expected, mixed, lost>>
        /\ \A u \in Threads : pc'[u] = "rewind" => pc[u] = "rewind"
    BY <1>4 DEF Test, Load, Return, reading
  <2> QED BY <2>1
<1>5. ASSUME NEW t \in Threads, Store(t) PROVE OrderInv'
  <2>1. ~mixed /\ ~lost /\ reg[t] = message_ptr /\ message_ptr < Length
    BY <1>5 DEF Store, ReadInv
  <2>2. /\ message_ptr' = message_ptr + 1 /\ expected' = (message_ptr + 1) % Length
        /\ \A u \in Threads : pc'[u] = "rewind" => pc[u] = "rewind"
    BY <1>5, <2>1 DEF Store
  <2>3. expected' = IF message_ptr + 1 = Length THEN 0 ELSE message_ptr + 1
    <3>1. message_ptr \in 0 .. Length - 1 /\ Length \in Nat \ {0}
      BY <2>1, DeviceAssumption
    <3>2. (message_ptr + 1) % Length = IF message_ptr + 1 = Length THEN 0 ELSE message_ptr + 1
      BY <3>1, NextExpected
    <3> QED BY <2>2, <3>2, Zenon
  <2>4. \A u \in Threads : pc'[u] # "rewind"
    BY <2>1, <2>2, DeviceAssumption
  <2> QED BY <2>2, <2>3, <2>4
<1>6. CASE Reload
  BY <1>6 DEF Reload
<1>7. CASE UNCHANGED vars
  BY <1>7 DEF vars, reading
<1> QED BY <1>1, <1>2, <1>3, <1>4, <1>5, <1>6, <1>7, Cases

\* A step that hands over a character is a store, of the character expected.
LEMMA HandsOverExpected ==
  ASSUME Types, LocalInv, ReadInv, OrderInv, [Next]_vars,
         ~mixed', ~lost', NEW t \in Threads, Len(got'[t]) > Len(got[t])
  PROVE  got'[t] = Append(got[t], expected)
<1>1. got[t] \in Seq(Nat) /\ Len(got[t]) \in Nat /\ Len(<<>>) = 0
  BY DEF Types
<1>2. got'[t] # got[t] /\ got'[t] # <<>>
  BY <1>1
<1>3. ASSUME NEW u \in Threads, Store(u) PROVE got'[t] = Append(got[t], expected)
  <2>1. ~mixed /\ ~lost /\ reg[u] = message_ptr /\ message_ptr < Length
    BY <1>3 DEF Store, ReadInv, Types
  <2>2. message_ptr = expected
    BY <2>1 DEF OrderInv
  <2>3. u = t /\ got'[t] = Append(got[t], reg[t])
    BY <1>2, <1>3 DEF Store, Return, Types
  <2> QED BY <2>1, <2>2, <2>3
<1>4. ASSUME NEW u \in Threads, Open(u) \/ Release(u) \/ CountLoad(u) \/ CountStore(u) PROVE FALSE
  BY <1>2, <1>4, CountLeaves DEF reading
<1>5. ASSUME NEW u \in Threads, NEW f \in Threads, NEW n \in Lengths, Read(u, f, n) PROVE FALSE
  BY <1>2, <1>5 DEF Read
<1>6. ASSUME NEW u \in Threads, RewindTest(u) \/ Rewind(u) \/ Load(u) PROVE FALSE
  BY <1>2, <1>6 DEF RewindTest, Rewind, Load, reading
<1>7. ASSUME NEW u \in Threads, Test(u) PROVE FALSE
  BY <1>2, <1>7 DEF Test, Return, Types
<1>8. CASE Reload \/ UNCHANGED vars
  BY <1>2, <1>8 DEF Reload, vars, reading
<1> QED BY <1>3, <1>4, <1>5, <1>6, <1>7, <1>8, Cases

\* Readers who do not overlap get the message in order, over and over, for
\* messages and buffers of any length and any number of readers.
THEOREM GivesInOrder == Spec => InOrder
<1>1. Init => OrderInv
  BY DEF Init, OrderInv
<1>2. IInv /\ OrderInv /\ [Next]_vars => OrderInv'
  BY OrderStep, TypeParts DEF IInv
<1>3. IInv /\ OrderInv /\ [Next]_vars =>
        [\A t \in Threads : ~mixed' /\ ~lost' /\ Len(got'[t]) > Len(got[t])
                              => got'[t] = Append(got[t], expected)]_vars
  BY HandsOverExpected, TypeParts DEF IInv
<1> QED BY <1>1, <1>2, <1>3, Invariance, PTL DEF Spec, InOrder

-----------------------------------------------------------------------------
(***************************************************************************)
(* Calls come to an end, also when they overlap: CallReturns but for the   *)
(* scheduler's part.                                                       *)
(***************************************************************************)
\* How many steps a call is away from its end at most: three for each byte of
\* room, whatever the other tasks do to the pointer.
Rank(t) ==
  CASE pc[t] \in {"inc_load", "dec_load"}   -> 2
    [] pc[t] \in {"inc_store", "dec_store"} -> 1
    [] pc[t] = "rewind_test"                -> 3 * len[t] + 5
    [] pc[t] = "rewind"                     -> 3 * len[t] + 4
    [] pc[t] = "test"                       -> 3 * len[t] + 3
    [] pc[t] = "load"                       -> 3 * len[t] + 2
    [] pc[t] = "store"                      -> 3 * len[t] + 1
    [] OTHER                                -> 0

RankStep(t) == IF Advance(t) THEN Rank(t)' < Rank(t) ELSE Rank(t)' = Rank(t)

\* A task in a call is moved by nobody else.
LEMMA OthersLeave ==
  ASSUME Types, [Next]_vars, NEW t \in Threads, pc[t] # "user", ~Advance(t)
  PROVE  pc'[t] = pc[t] /\ len'[t] = len[t]
<1> USE DEF Types, Goto
<1>1. ASSUME NEW u \in Threads, Open(u) \/ Release(u) PROVE pc'[t] = pc[t] /\ len'[t] = len[t]
  BY <1>1 DEF Open, Release, reading
<1>2. ASSUME NEW u \in Threads, CountLoad(u) \/ CountStore(u)
      PROVE  pc'[t] = pc[t] /\ len'[t] = len[t]
  <2>1. u # t
    BY <1>2 DEF Advance
  <2> QED BY <1>2, <2>1 DEF CountLoad, CountStore, reading
<1>3. ASSUME NEW u \in Threads, NEW f \in Threads, NEW n \in Lengths, Read(u, f, n)
      PROVE  pc'[t] = pc[t] /\ len'[t] = len[t]
  BY <1>3 DEF Read
<1>4. ASSUME NEW u \in Threads, RewindTest(u) \/ Rewind(u) \/ Test(u)
      PROVE  pc'[t] = pc[t] /\ len'[t] = len[t]
  <2>1. u # t
    BY <1>4 DEF Advance
  <2>2. CASE RewindTest(u) \/ Rewind(u)
    BY <2>1, <2>2 DEF RewindTest, Rewind
  <2>3. CASE Test(u)
    BY <2>1, <2>3 DEF Test, Return
  <2> QED BY <1>4, <2>2, <2>3
<1>5. ASSUME NEW u \in Threads, Load(u) \/ Store(u) PROVE pc'[t] = pc[t] /\ len'[t] = len[t]
  <2>1. u # t
    BY <1>5 DEF Advance
  <2>2. CASE Load(u)
    BY <2>1, <2>2 DEF Load, reading
  <2>3. CASE Store(u)
    BY <2>1, <2>3 DEF Store, Return
  <2> QED BY <1>5, <2>2, <2>3
<1>6. CASE Reload \/ UNCHANGED vars
  BY <1>6 DEF Reload, vars, reading
<1> QED BY <1>1, <1>2, <1>3, <1>4, <1>5, <1>6, Cases

LEMMA RankFalls ==
  ASSUME Types, LocalInv, NEW t \in Threads, Advance(t)
  PROVE  Rank(t)' < Rank(t)
<1>1. len[t] \in Nat
  BY DEF Types
<1> USE DEF Types, Goto
<1>2. CASE CountLoad(t)
  <2>1. \/ pc[t] = "inc_load" /\ pc'[t] = "inc_store"
        \/ pc[t] = "dec_load" /\ pc'[t] = "dec_store"
    BY <1>2 DEF CountLoad
  <2> QED BY <2>1 DEF Rank
<1>3. CASE CountStore(t)
  <2>1. pc[t] \in {"inc_store", "dec_store"} /\ pc'[t] = "user"
    BY <1>3 DEF CountStore
  <2> QED BY <2>1 DEF Rank
<1>4. CASE RewindTest(t)
  <2>1. pc[t] = "rewind_test" /\ pc'[t] \in {"rewind", "test"} /\ len'[t] = len[t]
    BY <1>4 DEF RewindTest
  <2> QED BY <1>1, <2>1 DEF Rank
<1>5. CASE Rewind(t)
  <2>1. pc[t] = "rewind" /\ pc'[t] = "test" /\ len'[t] = len[t]
    BY <1>5 DEF Rewind
  <2> QED BY <1>1, <2>1 DEF Rank
<1>6. CASE Test(t)
  <2>1. pc[t] = "test" /\ (pc'[t] = "user" \/ (pc'[t] = "load" /\ len'[t] = len[t]))
    BY <1>6 DEF Test, Return
  <2> QED BY <1>1, <2>1 DEF Rank
<1>7. CASE Load(t)
  <2>1. pc[t] = "load" /\ pc'[t] = "store" /\ len'[t] = len[t]
    BY <1>7 DEF Load, reading
  <2> QED BY <1>1, <2>1 DEF Rank
<1>8. CASE Store(t)
  <2>1. pc[t] = "store" /\ len[t] > 0
    BY <1>8 DEF Store, LocalInv
  <2>2. pc'[t] = "user" \/ (pc'[t] = "test" /\ len'[t] = len[t] - 1)
    BY <1>8 DEF Store, Return
  <2> QED BY <1>1, <2>1, <2>2 DEF Rank
<1> QED BY <1>2, <1>3, <1>4, <1>5, <1>6, <1>7, <1>8 DEF Advance

\* No open, release or read goes round in circles or is thrown back by another
\* one: each of its steps brings it closer to its end, and no step of others
\* takes it away.  In particular a read beside others ends, which between them
\* can carry the pointer past the NUL that is to end its loop
\* (lkm_device.c:76-81): the room in its buffer does.
THEOREM CallsProgress == Spec => [][\A t \in Threads : pc[t] # "user" => RankStep(t)]_vars
<1>1. ASSUME IInv, [Next]_vars, NEW t \in Threads, pc[t] # "user" PROVE RankStep(t)
  <2>1. Types /\ LocalInv
    BY <1>1, TypeParts DEF IInv
  <2>2. CASE Advance(t)
    BY <2>1, <2>2, RankFalls DEF RankStep
  <2>3. CASE ~Advance(t)
    <3>1. pc'[t] = pc[t] /\ len'[t] = len[t]
      BY <1>1, <2>1, <2>3, OthersLeave
    <3>2. Rank(t)' = Rank(t)
      BY <3>1 DEF Rank
    <3> QED BY <2>3, <3>2 DEF RankStep
  <2> QED BY <2>2, <2>3
<1>2. IInv /\ [Next]_vars => [\A t \in Threads : pc[t] # "user" => RankStep(t)]_vars
  BY <1>1
<1> QED BY <1>2, Invariance, PTL DEF Spec
=============================================================================

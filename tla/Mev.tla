-------------------------------- MODULE Mev --------------------------------
(***************************************************************************)
(* lkm_mev.c: the driver of a memory-based character device, as the user   *)
(* tasks that call it and the task that loads and unloads it see it.       *)
(*                                                                         *)
(* A step is the code a task runs between two points where another task    *)
(* may interfere: taking and releasing the semaphore, every kmalloc() that *)
(* may sleep, every read of container->size, every user copy, every node   *)
(* mev_trim() frees.  Bytes are left to module MevStore; what matters here *)
(* is which memory is live, who points to it and who owns the semaphore.   *)
(*                                                                         *)
(* Memory: a qset is an address; data[a] is its array, NULL or the size of *)
(* the quantum in each slot, or NULL while it has none.  Quanta and array  *)
(* are freed with their node, so a node's liveness is theirs.  An address  *)
(* is handed out once: any later access through a stale pointer is then    *)
(* seen as one.  A fault, which is an access to memory that is not there   *)
(* or not the driver's, ends the run: what follows is undefined.           *)
(*                                                                         *)
(* A container is used as kmalloc() returned it, until a trim sets it up.  *)
(* Before that its geometry is any two integers.                           *)
(***************************************************************************)
EXTENDS Integers, Sequences, SequencesExt, FiniteSets

CONSTANTS
  Threads,      \* user tasks; each has its own struct file
  Loader,       \* the task that runs insmod and rmmod
  Addr,         \* addresses kmalloc can return for a mev_qset
  NULL,         \* the null pointer
  WILD,         \* whatever else an uninitialised pointer holds
  QuantumSize,  \* LKM_MEV_QUANTUM_SIZE
  QsetSize,     \* LKM_MEV_QSET_SIZE
  Positions,    \* bound: the file offsets calls are made with
  Counts,       \* bound: the byte counts calls are made with
  IntMax,       \* 2^31: an int is below
  Garbage,      \* geometries and sizes an uninitialised container may show
  MaxRegions    \* majors the kernel can allocate dynamically

\* What the fields quantum and qset may hold.
Integer == -IntMax .. IntMax - 1
Quanta == {0, QuantumSize} \union {g.quantum : g \in Garbage}
Qsets == {0, QsetSize} \union {g.qset : g \in Garbage}

\* An array of quanta, as kmalloc() and memset() may make it.
Arrays == UNION {[0 .. n - 1 -> Quanta \union {NULL}] : n \in Qsets}

ASSUME MevAssumption ==
  /\ Loader \notin Threads
  /\ NULL \notin Addr /\ WILD \notin Addr /\ NULL # WILD
  /\ QuantumSize \in Nat \ {0} /\ QsetSize \in Nat \ {0}
  /\ IntMax \in Nat /\ QuantumSize * QsetSize < IntMax
  /\ Garbage \subseteq [quantum : Integer, qset : Integer, size : Nat]
  /\ NULL \notin Quanta /\ NULL \notin Arrays
  /\ Positions \subseteq Nat /\ Counts \subseteq 0 .. IntMax - 1
  /\ MaxRegions \in Nat

\* Memory is finite: List counts addresses to know where to stop.
ASSUME MemoryAssumption == IsFiniteSet(Addr)

VARIABLES
  pc,         \* where each task is
  mode,       \* access mode of each open file
  call,       \* locals of the read or write each task is in
  cursor,     \* the local dptr/qset pointer of mev_trim, mev_follow, read, write
  container,  \* *dev_container
  live,       \* addresses of the mev_qset nodes that are allocated
  freed,      \* addresses that were allocated and freed again
  nxt,        \* node -> its next field
  data,       \* node -> its array: slot -> size of the quantum; NULL without
  turns,      \* the local qset of mev_trim: the turns of its inner loop
  sem,        \* container->sem.count
  waiters,    \* container->sem.wait_list
  sem_ready,  \* sema_init() has run
  regions,    \* device number regions the module holds
  fault,      \* the first fault, "none" before it
  formatted,  \* history: a mev_trim() completed since the last insmod
  overlap,    \* history: a mev_trim() ran beside another call or trim
  early       \* history: the semaphore was used before sema_init()

heap == <<live, freed, nxt, data>>
semaphore == <<sem, waiters, sem_ready>>
vars == <<pc, mode, turns, call, cursor, container, heap, semaphore, regions,
          fault, formatted, overlap, early>>

Proc == Threads \union {Loader}
Pointer == Addr \union {NULL, WILD}

Modes == {"O_RDONLY", "O_WRONLY", "O_RDWR"}
Operations == {"read", "write"}
Section == {"eof", "clamp", "head", "follow", "hole", "array", "quantum",
            "copy", "commit", "up"}
InCall == Section \union {"down", "wait"}
Busy(p) == pc[p] \in InCall \union {"trim"}

\* What kmalloc() leaves in a fresh container: what was there before.
RawContainers == {[data |-> d, quantum |-> g.quantum, qset |-> g.qset, size |-> g.size] :
                    d \in {NULL, WILD}, g \in Garbage}

NoCall == [op |-> "read", pos |-> 0, count |-> 0, quantum |-> 0, qset |-> 0, n |-> 0]

\* Arithmetic on int wraps, as the kernel is built.  A division of what is not
\* negative rounds towards zero, also when the divisor is negative.
Wrap(i) == ((i + IntMax) % (2 * IntMax)) - IntMax
Abs(i) == IF i < 0 THEN -i ELSE i
Quot(a, b) == IF b < 0 THEN -(a \div (-b)) ELSE a \div b
Rem(a, b) == a % Abs(b)

\* Position arithmetic of mev_read() and mev_write(), from the cached geometry.
ItemSize(c) == Wrap(c.quantum * c.qset)

\* As many turns as the while (n--) of mev_follow() takes: a negative item is
\* counted down all the way round.
Item(c) == Quot(c.pos, ItemSize(c)) % (2 * IntMax)

SPos(c) == Quot(Rem(c.pos, ItemSize(c)), c.quantum)
QPos(c) == Rem(Rem(c.pos, ItemSize(c)), c.quantum)

Least(a, b) == IF a < b THEN a ELSE b

-----------------------------------------------------------------------------
Goto(p, label) == pc' = [pc EXCEPT ![p] = label]

\* A task runs into something it must not do: the kernel stops here.
Oops(kind) ==
  /\ fault' = kind
  /\ UNCHANGED <<pc, mode, turns, call, cursor, container, heap, semaphore, regions,
                 formatted, overlap, early>>

\* What dereferencing a pointer that is not live is: use after free, or worse.
Misuse(a) == IF a \in freed THEN "freed" ELSE "wild"

\* kmalloc() and memset() of a mev_qset: a node without data and without next.
NewQset(a) ==
  /\ a \in Addr \ (live \union freed)
  /\ live' = live \union {a}
  /\ data' = [data EXCEPT ![a] = NULL]
  /\ UNCHANGED freed

-----------------------------------------------------------------------------
\* lkm_mev_init() fails: when the region was allocated already, the module
\* never gives it back, and without a region left no insmod gets further.
InitFails ==
  /\ pc[Loader] = "unloaded" /\ fault = "none"
  /\ regions' = Least(regions + 1, MaxRegions)
  /\ UNCHANGED <<pc, mode, turns, call, cursor, container, heap, semaphore, fault,
                 formatted, overlap, early>>

\* lkm_mev_init() up to cdev_add(), which makes the device live.
InitModule ==
  /\ pc[Loader] = "unloaded" /\ fault = "none"
  /\ regions < MaxRegions
  /\ regions' = regions + 1
  /\ container' \in RawContainers
  /\ sem' \in {0, 1} /\ waiters' = <<>> /\ sem_ready' = FALSE
  /\ formatted' = FALSE
  /\ Goto(Loader, "adding")
  /\ UNCHANGED <<mode, turns, call, cursor, heap, fault, overlap, early>>

\* The rest of lkm_mev_setup_cdev().
SemaInit ==
  /\ pc[Loader] = "adding" /\ fault = "none"
  /\ sem' = 1 /\ waiters' = <<>> /\ sem_ready' = TRUE
  /\ Goto(Loader, "loaded")
  /\ UNCHANGED <<mode, turns, call, cursor, container, heap, regions, fault,
                 formatted, overlap, early>>

\* rmmod: the module's use count is zero, so no file is open.
ExitBegin ==
  /\ pc[Loader] = "loaded" /\ fault = "none"
  /\ \A t \in Threads : pc[t] = "closed"
  /\ cursor' = [cursor EXCEPT ![Loader] = container.data]
  /\ turns' = [turns EXCEPT ![Loader] = container.qset]
  /\ Goto(Loader, "trim")
  /\ UNCHANGED <<mode, call, container, heap, semaphore, regions, fault,
                 formatted, overlap, early>>

\* lkm_mev_exit() after mev_trim().
ExitEnd ==
  /\ pc[Loader] = "del" /\ fault = "none"
  /\ regions' = regions - 1
  /\ Goto(Loader, "unloaded")
  /\ UNCHANGED <<mode, turns, call, cursor, container, heap, semaphore, fault,
                 formatted, overlap, early>>

-----------------------------------------------------------------------------
\* mev_open(): opening for writing only starts a trim, semaphore or not.
MevOpen(t, m) ==
  /\ pc[t] = "closed" /\ fault = "none"
  /\ pc[Loader] \in {"adding", "loaded"}
  /\ mode' = [mode EXCEPT ![t] = m]
  /\ IF m = "O_WRONLY"
     THEN /\ Goto(t, "trim")
          /\ cursor' = [cursor EXCEPT ![t] = container.data]
          /\ turns' = [turns EXCEPT ![t] = container.qset]
          /\ overlap' = (overlap \/ \E u \in Proc \ {t} : Busy(u))
     ELSE /\ Goto(t, "idle")
          /\ UNCHANGED <<cursor, turns, overlap>>
  /\ UNCHANGED <<call, container, heap, semaphore, regions, fault, formatted, early>>

\* mev_release() does nothing; the open file is gone.
MevRelease(t) ==
  /\ pc[t] = "idle" /\ fault = "none"
  /\ mode' = [mode EXCEPT ![t] = "O_RDONLY"]
  /\ Goto(t, "closed")
  /\ UNCHANGED <<turns, call, cursor, container, heap, semaphore, regions, fault,
                 formatted, overlap, early>>

\* A mutant: the loop ends after the first node.
MutantTrimNode(p) ==
  LET here == cursor[p] IN
  /\ pc[p] = "trim" /\ fault = "none"
  /\ here # NULL
  /\ IF here \notin live THEN Oops(Misuse(here))
     ELSE /\ live' = live \ {here}
          /\ freed' = freed \union {here}
          /\ cursor' = [cursor EXCEPT ![p] = NULL]
          /\ nxt' = [nxt EXCEPT ![here] = NULL]
          /\ data' = [data EXCEPT ![here] = NULL]
          /\ UNCHANGED <<pc, mode, turns, call, container, semaphore, regions, fault,
                         formatted, overlap, early>>

\* One turn of the loop of mev_trim(): a node, its array and its quanta go.  The
\* inner loop looks into as many slots as the container had at the beginning.
TrimNode(p) ==
  LET here == cursor[p] IN
  /\ pc[p] = "trim" /\ fault = "none"
  /\ here # NULL
  /\ IF here \notin live THEN Oops(Misuse(here))
     ELSE IF data[here] # NULL /\ ~(0 .. turns[p] - 1 \subseteq DOMAIN data[here])
     THEN Oops("bounds")
     ELSE /\ live' = live \ {here}
          /\ freed' = freed \union {here}
          /\ cursor' = [cursor EXCEPT ![p] = nxt[here]]
          /\ nxt' = [nxt EXCEPT ![here] = NULL]
          /\ data' = [data EXCEPT ![here] = NULL]
          /\ UNCHANGED <<pc, mode, turns, call, container, semaphore, regions, fault,
                         formatted, overlap, early>>

\* The end of mev_trim(): the fields of the container are assigned.
ResetTo(p, c) ==
  /\ pc[p] = "trim" /\ fault = "none"
  /\ cursor[p] = NULL
  /\ container' = c
  /\ formatted' = TRUE
  /\ turns' = [turns EXCEPT ![p] = 0]
  /\ Goto(p, IF p = Loader THEN "del" ELSE "idle")
  /\ UNCHANGED <<mode, call, cursor, heap, semaphore, regions, fault, overlap, early>>

\* Mutants: one of the assignments is missing.
MutantResetData(p) ==
  ResetTo(p, [data |-> container.data, quantum |-> QuantumSize, qset |-> QsetSize, size |-> 0])
MutantResetGeometry(p) ==
  ResetTo(p, [data |-> NULL, quantum |-> container.quantum, qset |-> container.qset, size |-> 0])
MutantResetSize(p) ==
  ResetTo(p, [data |-> NULL, quantum |-> QuantumSize, qset |-> QsetSize, size |-> container.size])

TrimReset(p) ==
  ResetTo(p, [data |-> NULL, quantum |-> QuantumSize, qset |-> QsetSize, size |-> 0])

-----------------------------------------------------------------------------
\* Where a call goes on once it holds the semaphore.
Entry(t) == IF call[t].op = "read" THEN "eof" ELSE "head"

\* mev_read() and mev_write() are called: the geometry is read, then the
\* semaphore asked for.  pread() and pwrite() may pass any position.
MevCall(t, op, pos, count) ==
  /\ pc[t] = "idle" /\ fault = "none"
  /\ mode[t] # (IF op = "read" THEN "O_WRONLY" ELSE "O_RDONLY")
  /\ call' = [call EXCEPT ![t] = [op |-> op, pos |-> pos, count |-> count,
                                 quantum |-> container.quantum,
                                 qset |-> container.qset, n |-> 0]]
  /\ overlap' = (overlap \/ \E u \in Proc \ {t} : pc[u] = "trim")
  /\ Goto(t, "down")
  /\ UNCHANGED <<mode, turns, cursor, container, heap, semaphore, regions, fault,
                 formatted, early>>

\* down_interruptible(): take the semaphore, or queue for it.  Before
\* sema_init() the count is whatever it is and the list cannot be used.
DownInterruptible(t) ==
  /\ pc[t] = "down" /\ fault = "none"
  /\ early' = (early \/ ~sem_ready)
  /\ \/ /\ sem > 0
        /\ sem' = sem - 1
        /\ Goto(t, Entry(t))
        /\ UNCHANGED <<waiters, fault>>
     \/ /\ sem = 0 /\ sem_ready
        /\ waiters' = Append(waiters, t)
        /\ Goto(t, "wait")
        /\ UNCHANGED <<sem, fault>>
     \/ /\ sem = 0 /\ ~sem_ready
        /\ fault' = "semaphore"
        /\ UNCHANGED <<pc, sem, waiters>>
  /\ UNCHANGED <<mode, turns, call, cursor, container, heap, sem_ready, regions,
                 formatted, overlap>>

\* A mutant: a signal takes the way out that calls up().
MutantInterrupted(t) ==
  /\ pc[t] = "wait" /\ fault = "none"
  /\ \E i \in 1 .. Len(waiters) :
       waiters[i] = t /\ waiters' = RemoveAt(waiters, i)
  /\ Goto(t, "up")
  /\ UNCHANGED <<mode, turns, call, cursor, container, heap, sem, sem_ready, regions, fault,
                 formatted, overlap, early>>

\* A signal ends the wait: -ERESTARTSYS, and up() is not called.
Interrupted(t) ==
  /\ pc[t] = "wait" /\ fault = "none"
  /\ \E i \in 1 .. Len(waiters) :
       waiters[i] = t /\ waiters' = RemoveAt(waiters, i)
  /\ call' = [call EXCEPT ![t] = NoCall]
  /\ Goto(t, "idle")
  /\ UNCHANGED <<mode, turns, cursor, container, heap, sem, sem_ready, regions, fault,
                 formatted, overlap, early>>

-----------------------------------------------------------------------------
\* mev_read(): nothing to read at or behind the size.
EndOfFile(t) ==
  /\ pc[t] = "eof" /\ fault = "none"
  /\ Goto(t, IF call[t].pos >= container.size THEN "up" ELSE "clamp")
  /\ UNCHANGED <<mode, turns, call, cursor, container, heap, semaphore, regions, fault,
                 formatted, overlap, early>>

\* A mutant: the clamp forgets the position.
MutantClamp(t) ==
  /\ pc[t] = "clamp" /\ fault = "none"
  /\ call' = [call EXCEPT ![t].count = Least(call[t].count, container.size)]
  /\ Goto(t, "head")
  /\ UNCHANGED <<mode, turns, cursor, container, heap, semaphore, regions, fault,
                 formatted, overlap, early>>

\* A mutant: the subtraction is signed.
MutantSigned(t) ==
  LET c == call[t] IN
  /\ pc[t] = "clamp" /\ fault = "none"
  /\ call' = [call EXCEPT ![t].count = Least(c.count, container.size - c.pos)]
  /\ Goto(t, "head")
  /\ UNCHANGED <<mode, turns, cursor, container, heap, semaphore, regions, fault,
                 formatted, overlap, early>>

\* mev_read() reads the size again to clamp count.  The subtraction is unsigned:
\* should the size have dropped below pos, count wraps, above any int.
Clamp(t) ==
  LET c == call[t] IN
  /\ pc[t] = "clamp" /\ fault = "none"
  /\ call' = [call EXCEPT ![t].count =
                IF c.pos + c.count <= container.size THEN c.count
                ELSE IF c.pos <= container.size THEN container.size - c.pos
                ELSE IntMax]
  /\ Goto(t, "head")
  /\ UNCHANGED <<mode, turns, cursor, container, heap, semaphore, regions, fault,
                 formatted, overlap, early>>

\* The addressing, and mev_follow() up to its loop.
FollowHead(t) ==
  /\ pc[t] = "head" /\ fault = "none"
  /\ IF ItemSize(call[t]) = 0
     THEN Oops("divide")
     ELSE /\ call' = [call EXCEPT ![t].n = Item(call[t])]
          /\ \/ /\ container.data # NULL
                /\ cursor' = [cursor EXCEPT ![t] = container.data]
                /\ Goto(t, "follow")
                /\ UNCHANGED <<container, heap>>
             \/ /\ container.data = NULL
                /\ \E a \in Addr :
                     /\ NewQset(a)
                     /\ container' = [container EXCEPT !.data = a]
                     /\ cursor' = [cursor EXCEPT ![t] = a]
                /\ Goto(t, "follow")
                /\ UNCHANGED nxt
             \/ /\ container.data = NULL       \* no memory
                /\ Goto(t, "up")
                /\ UNCHANGED <<cursor, container, heap>>
          /\ UNCHANGED <<mode, turns, semaphore, regions, fault, formatted, overlap, early>>

\* The test n-- of mev_follow()'s loop when it fails.
FollowEnd(t) ==
  /\ pc[t] = "follow" /\ fault = "none"
  /\ call[t].n = 0
  /\ Goto(t, IF call[t].op = "read" THEN "hole" ELSE "array")
  /\ UNCHANGED <<mode, turns, call, cursor, container, heap, semaphore, regions, fault,
                 formatted, overlap, early>>

\* One turn of the loop: a node that is missing is allocated, in a read too.
FollowNext(t) ==
  LET here == cursor[t] IN
  /\ pc[t] = "follow" /\ fault = "none"
  /\ call[t].n > 0
  /\ IF here \notin live
     THEN Oops(Misuse(here))
     ELSE /\ call' = [call EXCEPT ![t].n = call[t].n - 1]
          /\ \/ /\ nxt[here] # NULL
                /\ cursor' = [cursor EXCEPT ![t] = nxt[here]]
                /\ UNCHANGED <<pc, heap>>
             \/ /\ nxt[here] = NULL
                /\ \E a \in Addr :
                     /\ NewQset(a)
                     /\ nxt' = [nxt EXCEPT ![here] = a]
                     /\ cursor' = [cursor EXCEPT ![t] = a]
                /\ UNCHANGED pc
             \/ /\ nxt[here] = NULL            \* no memory
                /\ Goto(t, "up")
                /\ UNCHANGED <<cursor, heap>>
          /\ UNCHANGED <<mode, turns, container, semaphore, regions, fault, formatted,
                         overlap, early>>

-----------------------------------------------------------------------------
\* A mutant: a quantum's worth of bytes from the middle of a quantum.
MutantWithin(c) == [c EXCEPT !.count = Least(c.count, c.quantum)]

\* Both calls stop at the end of a quantum.  The comparison is unsigned: what
\* is left of a negative quantum is more than any count.
Within(c) ==
  LET left == Wrap(c.quantum - QPos(c)) IN
  IF left < 0 THEN c ELSE [c EXCEPT !.count = Least(c.count, left)]

\* The array of a node ends before the slot, or begins behind it.
Beyond(a, slot) == data[a] # NULL /\ slot \notin DOMAIN data[a]

\* A mutant: a hole is answered without up().
MutantReadHole(t) ==
  LET here == cursor[t]
      slot == SPos(call[t]) IN
  /\ pc[t] = "hole" /\ fault = "none"
  /\ here \in live /\ ~Beyond(here, slot)
  /\ IF data[here] = NULL \/ data[here][slot] = NULL
     THEN Goto(t, "idle") /\ UNCHANGED call
     ELSE Goto(t, "copy") /\ call' = [call EXCEPT ![t] = Within(call[t])]
  /\ UNCHANGED <<mode, turns, cursor, container, heap, semaphore, regions, fault,
                 formatted, overlap, early>>

\* mev_read(): a position without a quantum reads as the end of the file.
ReadHole(t) ==
  LET here == cursor[t]
      slot == SPos(call[t]) IN
  /\ pc[t] = "hole" /\ fault = "none"
  /\ IF here \notin live THEN Oops(Misuse(here))
     ELSE IF Beyond(here, slot) THEN Oops("bounds")
     ELSE /\ IF data[here] = NULL \/ data[here][slot] = NULL
             THEN Goto(t, "up") /\ UNCHANGED call
             ELSE Goto(t, "copy") /\ call' = [call EXCEPT ![t] = Within(call[t])]
          /\ UNCHANGED <<mode, turns, cursor, container, heap, semaphore, regions, fault,
                         formatted, overlap, early>>

\* mev_write(): the node's array of quanta.  There is no memory for an array of
\* a negative length, nor for such a quantum.
WriteArray(t) ==
  LET here == cursor[t] IN
  /\ pc[t] = "array" /\ fault = "none"
  /\ IF here \notin live
     THEN Oops(Misuse(here))
     ELSE /\ \/ /\ data[here] # NULL
                /\ Goto(t, "quantum")
                /\ UNCHANGED data
             \/ /\ data[here] = NULL /\ call[t].qset > 0
                /\ data' = [data EXCEPT ![here] = [s \in 0 .. call[t].qset - 1 |-> NULL]]
                /\ Goto(t, "quantum")
             \/ /\ data[here] = NULL           \* no memory
                /\ Goto(t, "up")
                /\ UNCHANGED data
          /\ UNCHANGED <<mode, turns, call, cursor, container, live, freed, nxt, semaphore,
                         regions, fault, formatted, overlap, early>>

\* mev_write(): the quantum itself; a new one keeps the bytes it came with.
WriteQuantum(t) ==
  LET here == cursor[t]
      slot == SPos(call[t]) IN
  /\ pc[t] = "quantum" /\ fault = "none"
  /\ IF here \notin live THEN Oops(Misuse(here))
     ELSE IF Beyond(here, slot) THEN Oops("bounds")
     ELSE /\ \/ /\ data[here][slot] # NULL
                /\ call' = [call EXCEPT ![t] = Within(call[t])]
                /\ Goto(t, "copy")
                /\ UNCHANGED data
             \/ /\ data[here][slot] = NULL /\ call[t].quantum > 0
                /\ data' = [data EXCEPT ![here] = [@ EXCEPT ![slot] = call[t].quantum]]
                /\ call' = [call EXCEPT ![t] = Within(call[t])]
                /\ Goto(t, "copy")
             \/ /\ data[here][slot] = NULL     \* no memory
                /\ Goto(t, "up")
                /\ UNCHANGED <<call, data>>
          /\ UNCHANGED <<mode, turns, cursor, container, live, freed, nxt, semaphore,
                         regions, fault, formatted, overlap, early>>

\* copy_to_user() and copy_from_user(), which may sleep and may fail, or go
\* beyond the end of a quantum that is smaller than the call takes it for.  A
\* count that wrapped is more than user space has: it is refused.
Copy(t) ==
  LET here == cursor[t]
      c == call[t] IN
  /\ pc[t] = "copy" /\ fault = "none"
  /\ IF here \notin live THEN Oops(Misuse(here))
     ELSE IF c.count < IntMax /\ QPos(c) + c.count > data[here][SPos(c)] THEN Oops("bounds")
     ELSE /\ \/ /\ c.op = "read"
                /\ Goto(t, "up")
                /\ UNCHANGED call
             \/ /\ c.op = "write"
                /\ call' = [call EXCEPT ![t].pos = c.pos + c.count]
                /\ Goto(t, "commit")
             \/ /\ c.op = "write"             \* -EFAULT
                /\ Goto(t, "up")
                /\ UNCHANGED call
          /\ UNCHANGED <<mode, turns, cursor, container, heap, semaphore, regions, fault,
                         formatted, overlap, early>>

\* mev_write(): the size grows to the position behind the bytes written.
Commit(t) ==
  /\ pc[t] = "commit" /\ fault = "none"
  /\ container' = [container EXCEPT !.size = IF @ < call[t].pos THEN call[t].pos ELSE @]
  /\ Goto(t, "up")
  /\ UNCHANGED <<mode, turns, call, cursor, heap, semaphore, regions, fault, formatted,
                 overlap, early>>

\* up(): the semaphore goes to the task that waits longest, else its count
\* rises.  Before sema_init() the list up() looks at is not one.
Up(t) ==
  /\ pc[t] = "up" /\ fault = "none"
  /\ \/ /\ ~sem_ready
        /\ Oops("semaphore")
     \/ /\ call' = [call EXCEPT ![t] = NoCall]
        /\ cursor' = [cursor EXCEPT ![t] = NULL]
        /\ IF waiters = <<>>
           THEN /\ sem' = sem + 1
                /\ Goto(t, "idle")
                /\ UNCHANGED waiters
           ELSE /\ waiters' = Tail(waiters)
                /\ pc' = [pc EXCEPT ![t] = "idle", ![Head(waiters)] = Entry(Head(waiters))]
                /\ UNCHANGED sem
        /\ UNCHANGED <<mode, turns, container, heap, sem_ready, regions, fault, formatted,
                       overlap, early>>

-----------------------------------------------------------------------------
Init ==
  /\ pc = [p \in Proc |-> IF p = Loader THEN "unloaded" ELSE "closed"]
  /\ mode = [t \in Threads |-> "O_RDONLY"]
  /\ turns = [p \in Proc |-> 0]
  /\ call = [t \in Threads |-> NoCall]
  /\ cursor = [p \in Proc |-> NULL]
  /\ container = [data |-> NULL, quantum |-> 0, qset |-> 0, size |-> 0]
  /\ live = {} /\ freed = {}
  /\ nxt = [a \in Addr |-> NULL]
  /\ data = [a \in Addr |-> NULL]
  /\ sem = 0 /\ waiters = <<>> /\ sem_ready = FALSE
  /\ regions = 0
  /\ fault = "none"
  /\ formatted = FALSE /\ overlap = FALSE /\ early = FALSE

\* What a task does by itself once it is in a call.
Advance(t) ==
  \/ TrimNode(t) \/ TrimReset(t)
  \/ DownInterruptible(t) \/ Up(t)
  \/ EndOfFile(t) \/ Clamp(t)
  \/ FollowHead(t) \/ FollowNext(t) \/ FollowEnd(t)
  \/ ReadHole(t) \/ WriteArray(t) \/ WriteQuantum(t)
  \/ Copy(t) \/ Commit(t)

\* What user space decides.
UserStep(t) ==
  \/ \E m \in Modes : MevOpen(t, m)
  \/ MevRelease(t)
  \/ \E op \in Operations, pos \in Positions, count \in Counts : MevCall(t, op, pos, count)
  \/ Interrupted(t)

LoaderStep ==
  \/ InitFails \/ InitModule \/ SemaInit
  \/ ExitBegin \/ TrimNode(Loader) \/ TrimReset(Loader) \/ ExitEnd

\* The kernel has stopped.
Halted == fault # "none" /\ UNCHANGED vars

Next ==
  \/ \E t \in Threads : Advance(t) \/ UserStep(t)
  \/ LoaderStep
  \/ Halted

Spec == Init /\ [][Next]_vars

\* The scheduler runs every task that can run.
FairSpec == Spec /\ \A t \in Threads : WF_vars(Advance(t))

-----------------------------------------------------------------------------
Calls == [op : Operations, pos : Nat, count : Nat, quantum : Quanta, qset : Qsets,
          n : Nat]
Faults == {"none", "freed", "wild", "bounds", "divide", "semaphore"}

\* Type invariant of the driver's state, of its heap and of its callers.
TypeOK ==
  /\ pc \in [Proc -> InCall \union {"closed", "idle", "trim", "unloaded", "adding",
                                    "loaded", "del"}]
  /\ mode \in [Threads -> Modes]
  /\ turns \in [Proc -> Qsets]
  /\ call \in [Threads -> Calls]
  /\ cursor \in [Proc -> Pointer]
  /\ container \in [data : Pointer, quantum : Quanta, qset : Qsets, size : Nat]
  /\ live \in SUBSET Addr /\ freed \in SUBSET Addr
  /\ nxt \in [Addr -> Addr \union {NULL}]
  /\ data \in [Addr -> Arrays \union {NULL}]
  /\ sem \in Nat /\ waiters \in Seq(Threads) /\ sem_ready \in BOOLEAN
  /\ regions \in 0 .. MaxRegions
  /\ fault \in Faults
  /\ formatted \in BOOLEAN /\ overlap \in BOOLEAN /\ early \in BOOLEAN

\* The semaphore does its work: unless somebody used it before sema_init(), at
\* most one task is between down_interruptible() and up(), whatever signals,
\* failures and hand-offs to waiters there were (lkm_mev.c:312-380, 439-526).
SectionExclusive ==
  ~early => \A t, u \in Threads : pc[t] \in Section /\ pc[u] \in Section => t = u

\* No wakeup is lost: who waits for the semaphore is in its queue, and somebody
\* is in the section whose up() will serve the queue, whatever signals, failures
\* and early returns there were (lkm_mev.c:312, 355, 380, 439, 526).
WaitersServed ==
  ~early =>
    \A t \in Threads : pc[t] = "wait" =>
      /\ \E i \in 1 .. Len(waiters) : waiters[i] = t
      /\ \E u \in Threads : pc[u] \in Section

\* Memory the driver freed is touched again only after a mev_trim() ran beside
\* another call or beside another trim: the unlocked trim of mev_open()
\* (lkm_mev.c:280-282) is the one way there, and rmmod's trim is not one.
FreedNeedsOverlap == fault = "freed" => overlap

\* Once a trim has formatted the container, no legal use of the device makes
\* the kernel fault, as long as no trim runs beside a call and nobody called
\* before sema_init(): no wild pointer, no division by zero, no stale node.
SafeOnceFormatted == formatted /\ ~overlap /\ ~early => fault = "none"

\* What the tests of the Makefile take for granted: insmod, some calls one after
\* another, rmmod, and the kernel is still there (include/make/tests.mk:74-80,
\* Makefile:172-179).  kmalloc() at lkm_mev.c:139 does not keep that promise:
\* until a trim formats it, the container holds what the memory held before.
SafeFromTheStart == ~overlap /\ ~early => fault = "none"

\* The node at each index of the container's list.
List ==
  LET node[k \in 0 .. Cardinality(Addr)] ==
        IF k = 0 THEN container.data
        ELSE IF node[k - 1] \in Addr THEN nxt[node[k - 1]] ELSE NULL
  IN  node

\* Position i lies in a quantum that is allocated.
Backed(i) ==
  LET c == [NoCall EXCEPT !.pos = i, !.quantum = QuantumSize, !.qset = QsetSize]
      node == List[Item(c)]
  IN  /\ Item(c) \in 0 .. Cardinality(Addr)
      /\ node \in live
      /\ data[node] # NULL
      /\ SPos(c) \in DOMAIN data[node] /\ data[node][SPos(c)] # NULL

\* The size never runs ahead of the data: the last position below it, or the
\* size itself after a write of no bytes, lies in a quantum that exists
\* (lkm_mev.c:515-523 against the failures at 463, 476, 489 and 506).
SizeBacked ==
  formatted /\ ~overlap /\ ~early /\ (\A p \in Proc : pc[p] # "trim") /\ container.size > 0
    => Backed(container.size - 1) \/ Backed(container.size)

\* Whatever was allocated can be freed again: a node that is live hangs on the
\* list, or on what the one running trim has yet to free, and an unloaded
\* module has no node left (lkm_mev.c:173, 394-419).
NothingLeaked ==
  /\ ~overlap /\ ~early /\ fault = "none" =>
       \A a \in live : \/ \E k \in DOMAIN List : List[k] = a
                       \/ \E p \in Proc : pc[p] = "trim" /\ cursor[p] # NULL
  /\ ~overlap /\ ~early /\ pc[Loader] = "unloaded" => live = {}

\* A read never hands out bytes at or behind the size, although it looks at the
\* size twice and subtracts unsigned (lkm_mev.c:320-333).
ReadsBelowSize ==
  ~overlap /\ ~early =>
    \A t \in Threads : pc[t] = "copy" /\ call[t].op = "read"
                         => call[t].pos + call[t].count <= container.size

\* No access goes beyond an array or a quantum, neither a slot nor a copy nor
\* the loop of a trim (lkm_mev.c:360, 368, 402, 486-506), as long as no trim
\* changes the geometry beside a call that has read it (303-304, 430-431).  That
\* geometry may even be garbage: the lengths that were allocated by it are those
\* that are used, except that a negative quantum gives slots before the array.
InBounds == fault = "bounds" => overlap \/ early \/ container.quantum < 0

\* Every open, read and write returns: the semaphore is given back on every
\* path and no waiter is forgotten, a kernel that stopped and a semaphore used
\* before sema_init() excepted.
CallReturns ==
  \A t \in Threads : Busy(t) ~> (~Busy(t) \/ fault # "none" \/ early)
=============================================================================

------------------------------- MODULE Device -------------------------------
(***************************************************************************)
(* lkm_device.c: the file operations of the sandbox device.  One counter   *)
(* is to keep a second opener out, one pointer into the message serves all *)
(* readers, and neither is locked: a step is one load or one store of      *)
(* them.  Who holds a major number is module Majors' matter.               *)
(*                                                                         *)
(* A struct file is named after the task that opened it; after fork(), or  *)
(* between threads, other tasks read from it as well.                      *)
(***************************************************************************)
EXTENDS Integers, Sequences, FiniteSets

CONSTANTS
  Threads,   \* user tasks
  Length,    \* length of MESSAGE, its NUL not counted
  Lengths,   \* bound: the buffer lengths read() is called with
  MaxDrift   \* bound: how far races may drive device_open_count below zero

ASSUME DeviceAssumption ==
  /\ Length \in Nat \ {0}
  /\ Lengths \subseteq Nat
  /\ MaxDrift \in Nat

VARIABLES
  pc,                 \* where each task is
  files,              \* the open struct files
  device_open_count,
  message_ptr,        \* as an index into message_buffer; Length is the NUL
  reg,                \* what a task loaded and is about to write back
  via,                \* the file a task reads through
  len,                \* bytes its buffer still has room for
  got,                \* the indices of the characters its read() delivered so far
  empty,              \* the tasks whose last read() returned nothing
  expected,           \* history: the index a reader who missed nothing gets next
  fault,              \* a load behind message_buffer
  raced,              \* history: an open or release ran beside another one
  mixed,              \* history: a read ran beside another one
  lost                \* history: a put_user() failed

opening == <<files, device_open_count, raced>>
reading == <<message_ptr, via, len, got, empty, expected, fault, mixed, lost>>
vars == <<pc, reg, opening, reading>>

Counting == {"inc_load", "inc_store", "dec_load", "dec_store"}
Reading == {"rewind_test", "rewind", "test", "load", "store"}

Goto(t, label) == pc' = [pc EXCEPT ![t] = label]

-----------------------------------------------------------------------------
\* A mutant: >= became >.
MutantOpen(t) ==
  /\ pc[t] = "user" /\ t \notin files /\ ~fault
  /\ device_open_count \in -MaxDrift .. 1
  /\ raced' = (raced \/ \E u \in Threads : pc[u] \in Counting)
  /\ Goto(t, "inc_load")
  /\ UNCHANGED <<reg, files, device_open_count, reading>>

\* device_open(): the test.  Otherwise it is -EBUSY, and nothing changes.
Open(t) ==
  /\ pc[t] = "user" /\ t \notin files /\ ~fault
  /\ device_open_count \in -MaxDrift .. 0
  /\ raced' = (raced \/ \E u \in Threads : pc[u] \in Counting)
  /\ Goto(t, "inc_load")
  /\ UNCHANGED <<reg, files, device_open_count, reading>>

\* device_release(), once the last reference to the file is gone.
Release(t) ==
  /\ pc[t] = "user" /\ t \in files /\ ~fault
  /\ \A u \in Threads : pc[u] \in Reading => via[u] # t
  /\ files' = files \ {t}
  /\ raced' = (raced \/ \E u \in Threads : pc[u] \in Counting)
  /\ Goto(t, "dec_load")
  /\ UNCHANGED <<reg, device_open_count, reading>>

\* device_open_count++ and device_open_count-- load the counter ...
CountLoad(t) ==
  /\ pc[t] \in {"inc_load", "dec_load"} /\ ~fault
  /\ reg' = [reg EXCEPT ![t] = device_open_count]
  /\ Goto(t, IF pc[t] = "inc_load" THEN "inc_store" ELSE "dec_store")
  /\ UNCHANGED <<opening, reading>>

\* A mutant: device_release() does not count.
MutantCountStore(t) ==
  /\ pc[t] \in {"inc_store", "dec_store"} /\ ~fault
  /\ device_open_count' = IF pc[t] = "inc_store" THEN reg[t] + 1 ELSE reg[t]
  /\ files' = IF pc[t] = "inc_store" THEN files \union {t} ELSE files
  /\ reg' = [reg EXCEPT ![t] = 0]
  /\ Goto(t, "user")
  /\ UNCHANGED <<raced, reading>>

\* ... and store it; an open is then through, and so is a release.
CountStore(t) ==
  /\ pc[t] \in {"inc_store", "dec_store"} /\ ~fault
  /\ device_open_count' = IF pc[t] = "inc_store" THEN reg[t] + 1 ELSE reg[t] - 1
  /\ files' = IF pc[t] = "inc_store" THEN files \union {t} ELSE files
  /\ reg' = [reg EXCEPT ![t] = 0]
  /\ Goto(t, "user")
  /\ UNCHANGED <<raced, reading>>

-----------------------------------------------------------------------------
\* read() on an open file.
Read(t, f, n) ==
  /\ pc[t] = "user" /\ f \in files /\ ~fault
  /\ via' = [via EXCEPT ![t] = f]
  /\ len' = [len EXCEPT ![t] = n]
  /\ empty' = empty \ {t}
  /\ mixed' = (mixed \/ \E u \in Threads : pc[u] \in Reading)
  /\ Goto(t, "rewind_test")
  /\ UNCHANGED <<reg, opening, message_ptr, got, expected, fault, lost>>

\* A mutant: every read starts from the beginning.
MutantRewindTest(t) ==
  /\ pc[t] = "rewind_test" /\ ~fault
  /\ Goto(t, "rewind")
  /\ UNCHANGED <<reg, opening, reading>>

\* if (*message_ptr == 0)
RewindTest(t) ==
  /\ pc[t] = "rewind_test" /\ ~fault
  /\ fault' = (message_ptr > Length)
  /\ Goto(t, IF message_ptr = Length THEN "rewind" ELSE "test")
  /\ UNCHANGED <<reg, opening, message_ptr, via, len, got, empty, expected, mixed, lost>>

\* message_ptr = message_buffer;
Rewind(t) ==
  /\ pc[t] = "rewind" /\ ~fault
  /\ message_ptr' = 0
  /\ Goto(t, "test")
  /\ UNCHANGED <<reg, opening, via, len, got, empty, expected, fault, mixed, lost>>

\* A read returns the number of characters it delivered, if any.
Return(t) ==
  /\ empty' = IF got[t] = <<>> THEN empty \union {t} ELSE empty
  /\ got' = [got EXCEPT ![t] = <<>>]
  /\ via' = [via EXCEPT ![t] = t]
  /\ len' = [len EXCEPT ![t] = 0]
  /\ Goto(t, "user")

\* Mutants: only the room in the buffer is tested, or only the character.
MutantTestRoom(t) ==
  /\ pc[t] = "test" /\ ~fault
  /\ IF len[t] = 0
     THEN Return(t)
     ELSE Goto(t, "load") /\ UNCHANGED <<empty, via, got, len>>
  /\ UNCHANGED <<reg, opening, message_ptr, expected, fault, mixed, lost>>
MutantTestChar(t) ==
  /\ pc[t] = "test" /\ ~fault
  /\ IF message_ptr = Length
     THEN Return(t)
     ELSE Goto(t, "load") /\ UNCHANGED <<empty, via, got, len>>
  /\ UNCHANGED <<reg, opening, message_ptr, expected, fault, mixed, lost>>

\* while (len && *message_ptr)
Test(t) ==
  /\ pc[t] = "test" /\ ~fault
  /\ fault' = (len[t] > 0 /\ message_ptr > Length)
  /\ IF len[t] = 0 \/ message_ptr = Length
     THEN Return(t)
     ELSE Goto(t, "load") /\ UNCHANGED <<empty, via, got, len>>
  /\ UNCHANGED <<reg, opening, message_ptr, expected, mixed, lost>>

\* put_user(*(message_ptr++), buffer++) loads the pointer ...
Load(t) ==
  /\ pc[t] = "load" /\ ~fault
  /\ reg' = [reg EXCEPT ![t] = message_ptr]
  /\ Goto(t, "store")
  /\ UNCHANGED <<opening, reading>>

\* A mutant: len-- is missing.
MutantStore(t) ==
  /\ pc[t] = "store" /\ ~fault
  /\ message_ptr' = reg[t] + 1
  /\ reg' = [reg EXCEPT ![t] = 0]
  /\ fault' = (reg[t] > Length)
  /\ got' = [got EXCEPT ![t] = <<reg[t]>>]
  /\ expected' = (reg[t] + 1) % Length
  /\ Goto(t, "test")
  /\ UNCHANGED <<opening, via, len, empty, mixed, lost>>

\* ... stores it advanced, and hands over the character; when that fails the
\* read ends, and the character is gone.
Store(t) ==
  /\ pc[t] = "store" /\ ~fault
  /\ message_ptr' = reg[t] + 1
  /\ reg' = [reg EXCEPT ![t] = 0]
  /\ fault' = (reg[t] > Length)
  /\ \/ /\ got' = [got EXCEPT ![t] = Append(@, reg[t])]
        /\ len' = [len EXCEPT ![t] = @ - 1]
        /\ expected' = (reg[t] + 1) % Length
        /\ Goto(t, "test")
        /\ UNCHANGED <<empty, via, lost>>
     \/ /\ Return(t)
        /\ lost' = TRUE
        /\ UNCHANGED expected
  /\ UNCHANGED <<opening, mixed>>

-----------------------------------------------------------------------------
\* What device_init_sub() and the module's initialised data leave.
Init ==
  /\ pc = [t \in Threads |-> "user"]
  /\ files = {}
  /\ device_open_count = 0
  /\ message_ptr = 0
  /\ reg = [t \in Threads |-> 0]
  /\ via = [t \in Threads |-> t]
  /\ len = [t \in Threads |-> 0]
  /\ got = [t \in Threads |-> <<>>]
  /\ empty = {}
  /\ expected = 0
  /\ fault = FALSE
  /\ raced = FALSE /\ mixed = FALSE /\ lost = FALSE

\* rmmod and insmod: no file is open, and the module starts afresh.
Reload ==
  /\ files = {} /\ ~fault /\ \A t \in Threads : pc[t] = "user"
  /\ device_open_count' = 0
  /\ message_ptr' = 0
  /\ expected' = 0
  /\ empty' = {}
  /\ raced' = FALSE /\ mixed' = FALSE /\ lost' = FALSE
  /\ UNCHANGED <<pc, files, reg, via, len, got, fault>>

\* What a task does by itself once it is in a call.
Advance(t) ==
  \/ CountLoad(t) \/ CountStore(t)
  \/ RewindTest(t) \/ Rewind(t) \/ Test(t) \/ Load(t) \/ Store(t)

Halted == fault /\ UNCHANGED vars

Next ==
  \/ \E t \in Threads : \/ Advance(t) \/ Open(t) \/ Release(t)
                        \/ \E f \in Threads, n \in Lengths : Read(t, f, n)
  \/ Reload
  \/ Halted

Spec == Init /\ [][Next]_vars

\* The scheduler runs every task that can run.
FairSpec == Spec /\ \A t \in Threads : WF_vars(Advance(t))

-----------------------------------------------------------------------------
\* Type invariant of the counter, the pointer and the tasks.
TypeOK ==
  /\ pc \in [Threads -> {"user"} \union Counting \union Reading]
  /\ files \in SUBSET Threads
  /\ device_open_count \in Int
  /\ message_ptr \in Nat
  /\ reg \in [Threads -> Int] /\ via \in [Threads -> Threads]
  /\ len \in [Threads -> Nat] /\ got \in [Threads -> Seq(Nat)]
  /\ empty \in SUBSET Threads
  /\ expected \in 0 .. Length - 1
  /\ fault \in BOOLEAN /\ raced \in BOOLEAN /\ mixed \in BOOLEAN /\ lost \in BOOLEAN

\* "Sandbox device already open.": a second opener is sent away
\* (lkm_device.c:106-110), whatever the first one is doing.
OneOpenFile == \A f, g \in files : f = g

\* As long as no two opens or releases overlap, the counter keeps its word:
\* there is never a second open file, however many opens and releases went by
\* and whoever reads through inherited descriptors (lkm_device.c:106-121).
SingleOpen == ~raced => OneOpenFile

\* Without such a race the counter is exact whenever nobody is changing it: it
\* neither locks the device for good nor lets a second opener in later.
CountsFiles ==
  ~raced /\ (\A t \in Threads : pc[t] \notin Counting)
    => device_open_count = IF files = {} THEN 0 ELSE 1

\* As long as no two reads overlap, a reader gets characters of the message
\* only, never its NUL, and never a byte behind message_buffer: the pointer is
\* tested, advanced and used in three places (lkm_device.c:76-81).
InMessage ==
  ~mixed => /\ ~fault
            /\ \A t \in Threads : \A i \in DOMAIN got[t] : got[t][i] < Length

\* Readers who do not overlap get the message in order, over and over: no
\* character is repeated or skipped from one read to the next, whatever the
\* lengths of their buffers, unless put_user() failed (lkm_device.c:76-89).
InOrder ==
  [][\A t \in Threads :
       ~mixed' /\ ~lost' /\ Len(got'[t]) > Len(got[t])
         => got'[t] = Append(got[t], expected)]_vars

\* Every open, release and read returns, also when they overlap.
CallReturns == \A t \in Threads : pc[t] # "user" ~> (pc[t] = "user" \/ fault)
=============================================================================

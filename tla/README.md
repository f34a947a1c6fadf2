# Models and proofs of the LKM sandbox

TLA+ modules for the kernel modules and rehearsals of this repository, TLC
configurations that check small instances of them, and proofs that TLAPS
checks for every instance. `PROJECT.json` maps every definition to the lines it
translates and lists the runs, the mutants, the hazards and the theorems.

To repeat a run: `tlc -config MCMev.cfg MCMev`. To repeat a proof:
`tlapm Mev_proofs.tla`.

## 1. Inventory

| Part | State | Operations | What is hard about it |
|---|---|---|---|
| `lkm_mev.c`, a device whose contents live in a list of *qsets*, each an array of *quanta* | the container (head of the list, quantum, qset, size, semaphore, cdev), the nodes, the region of device numbers; per open file a position | insmod, rmmod; open (write-only ones trim), release, read, write; `mev_follow()`, `mev_trim()` below them | concurrency: one semaphore that open does not take; memory: freed under a user, half allocated by a write that fails, never cleared; the device is live before its semaphore is |
| `lkm_device.c`, a device that hands out one message | `device_open_count`, `message_ptr`, `message_buffer`, `major_num`, `/proc/lkm_device_major` | insmod (with `param_major_num`), rmmod; open, release, read, a write that is refused | unlocked counter and pointer, both shared by all tasks; failing init; what `register_chrdev()` returns |
| `lkm_device_numbers.c` | two device numbers | insmod, rmmod | failing half-way |
| `lkm_debugfs.c` | a directory, a number, a 200 byte buffer | insmod, rmmod; read and write of the buffer | unlocked buffer; failing init |
| `lkm_mem.c` | nine `/proc` entries, one `sysinfo` | insmod, rmmod; reads | init goes on after any failure; values as old as the module |
| `lkm_proc.c` | one `/proc` entry | insmod, rmmod; reads | init succeeds without the entry |
| `lkm_process.c`, `lkm_parameters.c`, `lkm_pp.c`, `lkm_sandbox.c`, `lkm_skeleton.c` | none beyond a call | insmod, rmmod | nothing |
| `rehearsals/circular-buffers/simple_circular_buffer.c` | array, two indices, a length | read, write | wrapping; full against empty |
| `pocs/io-port-permissions/*.c` | the port permission of each task (kept by the kernel) | iopl, ioperm, fork, clone, pthread, execve, port reads | which task inherits what, when |
| the other rehearsals | none beyond a call | | nothing |

How they interact: `lkm_mev.c`, `lkm_device.c` and `lkm_device_numbers.c` share
the kernel's table of major numbers; `lkm_device.c`, `lkm_mem.c` and
`lkm_proc.c` share the root of `/proc`; user tasks call the file operations, of
any module, concurrently, and share descriptors after fork; the kernel keeps a
module loaded while one of its files is open, so rmmod never meets an open
file. Nothing is persistent: rmmod and insmod start a module afresh.

What makes each part correct:

* `lkm_mev.c`: the semaphore excludes, is always given back, and no wakeup is
  lost; no memory is used after it was freed; nothing is leaked; the size never lies about the
  data; copies stay inside a quantum and inside the size.
* `lkm_device.c`: one open file at a time; a counter that is exact; a message
  that arrives whole and in order; an end of the file; the major in `/proc` is
  the one that was registered.
* device numbers: what was registered is unregistered, and nothing else is.
* circular buffer: it is a bounded queue.
* `lkm_debugfs.c`, `lkm_mem.c`, `lkm_proc.c`: exit removes what init created,
  whatever failed; a read nobody disturbs sees the text of one moment.
* port permissions: the thread created before the permission was given never
  reads the port, and nobody who was given or handed it is killed for that.

## 2. The modules

| Module | Models | Run by | Proved in |
|---|---|---|---|
| `Mev` | `lkm_mev.c` | `MCMev` | `MevInv`, `Mev_proofs` |
| `FlatDevice` | what a memory device promises | `MCMevStore` | |
| `MevStore` | `lkm_mev.c`, the bytes | `MCMevStore` | `MevStore_proofs` |
| `Device` | file operations of `lkm_device.c` | `MCDevice` | `Device_proofs` |
| `Majors` | init and exit of the three drivers, on one table of majors | `MCMajors` | `Majors_proofs` |
| `ProcTree` | `lkm_mem.c` and `lkm_proc.c`: their entries in `/proc` | `MCProcTree` | `ProcTree_proofs` |
| `DebugFs` | `lkm_debugfs.c` | `MCDebugFs` | `DebugFs_proofs` |
| `IoPermissions` | the two programs of `pocs/io-port-permissions`, and the target of `execve()` | `MCIoPermissions` | `IoPermissions_proofs` |
| `BoundedFifo` | what a circular buffer promises | `MCCircularBuffer` | |
| `CircularBuffer` | `simple_circular_buffer.c` | `MCCircularBuffer` | `CircularBuffer_proofs` |

### Mev

A task is at one place, `pc`; a step is the code from there to the next point
where another task can interfere.

| In the code | In the model |
|---|---|
| `*dev_container` | `container`, `sem`, `waiters`, `sem_ready` |
| the `mev_qset` nodes | `live`, `freed`, `nxt`, `data`; an address is handed out once, so that a stale pointer stays recognisable |
| a node's array, and its quanta | `data[a]`: `NULL`, or for each slot of the array `NULL` or the size of its quantum |
| the local `qset` of `mev_trim()` | `turns` |
| `quantum`, `qset`, `itemsize`, `item`, `s_pos`, `q_pos` | `int`s that wrap (`Wrap`), divided as C does (`Quot`, `Rem`): `ItemSize`, `Item`, `SPos`, `QPos` |
| locals of read and write | `call[t]`, and the pointer that walks the list, `cursor[t]` |
| `lkm_mev_init()` | `InitModule` up to `cdev_add()`, `SemaInit` after it, `InitFails` |
| `lkm_mev_exit()` | `ExitBegin`, the trim, `ExitEnd` |
| `mev_open()`, `mev_release()` | `MevOpen`, `MevRelease` |
| `mev_trim()` | `TrimNode` for each node, `TrimReset` |
| read and write up to the semaphore | `MevCall`, `DownInterruptible`, `Interrupted` |
| the size tests of read | `EndOfFile`, `Clamp` |
| addressing and `mev_follow()` | `FollowHead`, `FollowNext`, `FollowEnd` |
| the hole test of read | `ReadHole` |
| the allocations of write | `WriteArray`, `WriteQuantum` |
| `copy_to_user()`, `copy_from_user()` | `Copy` |
| the size update | `Commit` |
| `out: up()` | `Up` |

Each allocation and each user copy may fail. `kmalloc()` of the container
leaves garbage: its data pointer may be `NULL` or wild, its geometry any two
integers, its size anything (`Garbage`, `RawContainers`). Such a container can be
used: if its pointer happens to be `NULL`, arrays and quanta are allocated by
the garbage, with lengths of their own, and these stay when a trim sets the
geometry right. A dereference of what is not live, an access beyond an array or
a quantum (`"bounds"`), a division by zero and the use of a semaphore that was
not initialised are *faults*; after one the kernel has stopped.

Three history variables say what went on so far: `overlap` (a trim ran beside a
call or another trim; nothing but `mev_open()`'s unlocked trim can cause
that), `early` (somebody used the semaphore before `sema_init()`) and
`formatted` (a trim has set the container's fields since insmod). The code has
real bugs in the first two cases, so most properties say what holds without
them, and `FreedNeedsOverlap` says that there is no *other* way into freed
memory, `InBounds` that there is no other way out of an array or a quantum. The
geometry is read before the semaphore is taken and used after it, so that a trim
in between leaves a call with a geometry that is not that of the memory it goes
to; and a negative garbage quantum gives slots before the array. Nothing else
does: a garbage geometry alone is used consistently.

Between a test for `NULL` and the assignment that follows it the semaphore keeps
others out, so each allocation is one step. After a use of the semaphore before
`sema_init()` it does not; the properties about memory and the section excuse
that (`early`).

The bytes themselves are not in this model, and neither is the file position
kept between calls: a call is made with any position. Both are in `MevStore`.

### MevStore, FlatDevice

The list of qsets is a sequence of nodes; a node is `NULL` (no array yet) or an
array of quanta, each `NULL` or a function from offsets to bytes. A call is one
step, in all its outcomes: it stops at the end of the quantum, at the end of the
device, at a hole, for want of memory after any of the allocations, or at the
user's buffer. That calls are atomic is what `Mev` shows (`SectionExclusive`),
as long as no trim overlaps one, and `MevStore` has no such trims: `MevOpen`
closes a file and opens it again, between two calls. It starts from a container
that a first trim has formatted.

| In the code | In the model |
|---|---|
| `item`, `s_pos`, `q_pos` | `Item(p)`, `SPos(p)`, `QPos(p)` |
| `mev_follow()` | `Extended` |
| the hole test of read, the byte it copies | `Backed`, `ByteAt` |
| the cut at the size, at the quantum | `Readable`, `Within` |
| the three allocations of write, one failing | `NoMemory` |
| the rest of write | `Store`; `Padded` is what `copy_from_user()` leaves when it fails |
| the position of the file, and those of pread and pwrite | `MevRead`, `MevWrite`; `Pread`, `Pwrite` |

Fresh memory holds `JUNK`, since the quanta are not cleared: a byte that may be
anything. `FlatDevice` is a size and a function from positions to bytes, `JUNK`
where nobody wrote; `IsFlatDevice` says that `MevStore` implements it, with
`ByteAt` as the refinement mapping. What it leaves open is what the code leaves
open: calls may transfer less than asked for, a read may end early before a byte
that was never written, a write that fails may have changed bytes in its own
range, and a write of no bytes behind the end makes the device larger.

### Device

`device_open_count++`, `device_open_count--` and `message_ptr++` are a load and
a store each, the compiler having no reason to do better and the two printk()
calls around them forbidding it to keep the values in registers. Struct files
are named after the task that opened them, and a read may go through anybody's
open file, as after fork(). `raced` and `mixed` remember overlapping opens and
overlapping reads, `lost` a failed `put_user()`. `Reload` is rmmod and insmod.

### Majors

The table of majors is the kernel's and external. One action per init and exit
function, each init with all its outcomes that leave something behind; an
attempt that registered nothing changes nothing and is left out. An exit
function does not run after an init that failed.

### ProcTree

`tree` is `/proc`: paths and the module each belongs to; the functions on it are
the kernel's and external. `lkm_mem` takes a step for each entry it creates or
removes, and other modules act in between; `at` counts the steps. A creation may
fail at any time, and must if the name is taken. As in the code, what failed is
`NULL`, and `NULL` as a parent is the root of `/proc`, so that `free` and
`total` of `mem` and of `swap` can meet there. Of the values the files show,
`si` keeps which were filled in: those below `mem` by `si_meminfo()`, those below
`swap` by nobody. `MemFilledBeforeShown` is about the first four and would be
false of the other two.

Other modules use `/proc` as they should: they create entries in its root or in
directories of their own, remove what is theirs, and remove a directory with
what is below it. Their names are free (`OtherAssumption` says only that they
are paths), so that one of them may be in the place of any entry of `lkm_mem`.

`lkm_proc_exit()` does remove an entry that its init function did not get, and
that may then be another module's, which goes with what is below it:
`RemovesOwn` and `OrderlyExit` excuse it after such a failure, and it only.

### DebugFs

The init function takes a step for each file it creates, one for each byte of
the greeting, and one to return; the file operations copy byte by byte, too, so
that everything can interleave as on two processors without a lock.

| In the code | In the model |
|---|---|
| how far `lkm_debugfs_init()` is | `stage`; the tests after it in `CreateDir`, `InitReturns` |
| `debug_root`, `debug_file_entry` | the same: a name, `NULL`, or an error pointer |
| what debugfs returns of a file it does not create | `refusal`: `NULL` in older kernels, an error pointer in later ones; the code tests for `NULL` only |
| files in debugfs | `files`; `number` only as being there, since debugfs has a file of its own for it |
| `strncpy()` at 102 | `Greet`, `greeted` |
| `content` | `content`; fresh when the module is loaded again |
| `debug_read()`, `simple_read_from_buffer()` | `Read`, `CopyOut`, `ReadReturns` |
| `debug_write()`, `simple_write_to_buffer()` | `Write`, `CopyIn`, `WriteReturns`; what `copy_from_user()` pads when it fails is one step |
| the position of a file | `position`; moved when the call returns |
| `lkm_debugfs_exit()` | `Exit`, when no file is open |

Each task has a struct file of its own: the kernel serialises calls on a shared
one. `text` is what the buffer holds between stores and so what an undisturbed
read must deliver; while stores overlap (`clash`) it waits for the last of them,
and then is whatever they left. The init function's `strncpy()` is such a store
as well. `quiet` are the readers beside whom nothing was stored, and `stranded`
remembers an init that failed half-way, which leaves the directory for good.

### IoPermissions

A task is the list of the steps it has still to take (`todo`): what `main()`
does with the arguments it was given (`Main`), and what those it creates do
(`Course`). `port` is the kernel's: who may use the ports; `inherited` is chosen
at the start, since which ways of creating a task hand the permission on is the
question the programs ask. Tasks of one process end together (`End`), also when
one of them is killed by its `inb()`. Every call may fail, `iopl()` and
`ioperm()` included, and `pthread_create()` without anybody noticing.
`pthread_join()` of a thread that was created (`Join`) waits for its end. What
it does with a variable that no `pthread_create()` wrote is undefined
(`JoinNobody`): it may return, crash, or wait for ever, and so no fairness is
assumed of it. `Adrift` names that state of `main()`, and `Ends` says that it is
the only way for the programs to hang. `clone()` fails
with the read still to come, or, when there is no memory for a stack, without.

### CircularBuffer, BoundedFifo

`Contents` is the refinement mapping: the `buffer_length` values from
`index_read` on, wrapping. A write to a full buffer changes nothing and is a
stuttering step.

## 3. The runs

| Run | Instance | Shows |
|---|---|---|
| `mev_two_tasks` | 2 tasks, 2 nodes, quanta of 2, one slot each; three garbage geometries | all safety properties of `Mev` under every interleaving, and the inductive invariant `IInv` |
| `mev_returns` | 2 tasks, 1 node | liveness: every call returns |
| `mev_raw_container` | no task, insmod and rmmod only | **violation**: the container was never cleared |
| `mev_bytes` | 2 files, a node of two quanta of 2 bytes and one quantum of the next, 2 values, counts 0 and 2 | refinement of the flat device; reads allocate nothing |
| `device_two_tasks` | 2 tasks, a message of 2, buffers of 0, 1 and 3 | counter, single open, message in order; liveness: every call returns, even overlapping ones |
| `device_open_race` | 2 tasks | **violation**: the device opens twice |
| `device_cat` | 1 task that runs cat | **violation**: cat never ends |
| `majors` | 3 drivers, 4 numbers | only own numbers are given back, and all of them |
| `proc_tree` | all nine entries, five paths that others may take | exit removes what init created, whatever failed; the files of `mem` show what was filled in |
| `circular_buffer` | 3 slots, 2 values | refinement of the queue |
| `debugfs` | 2 tasks and the init function, a buffer of 3, a greeting of 2, counts 2 and 4 | undisturbed reads get what the buffer held at one moment; no file outlives its module |
| `io_permissions` | both programs, all arguments, every set of ways that hand the permission on | who reads the port, who is killed for it; liveness: every process ends, but for a `main()` that joins a thread it failed to create |

Bounds, and why they are enough:

* `Threads`: the code distinguishes the task in the section, those who wait and
  one that trims; two tasks and the loader give every pair. Three would give a
  queue in which a signal can hit the first or the second of two waiters; the
  proofs cover any number.
* `Addr`: since an address is not used again, it bounds the allocations of a
  run, not the nodes at a time. Two are enough for a node that is freed beside
  one that is live, and for a list whose second node is missing.
* `Positions`, `Counts` of `Mev`: with quanta of two, the last byte of a quantum
  and the first of the next node; a count of three does not fit either.
* `Garbage` of `Mev`: no geometry, one with quanta and arrays that are larger
  than the driver's, and one with a negative quantum. The first divides by zero,
  the second goes beyond the driver's arrays and quanta when it is stale, the
  third before an array. `IntMax` is 8, so that the products of the geometries
  are near the limit and the negative ones wrap as an item. The proofs cover all
  integers.
* `Capacity` of `MevStore`: three quanta give a border between quanta and one
  between nodes. `Starts`, the positions of pread and pwrite: the second
  quantum, and the last byte, so that holes come first; read and write get to
  every position. `Bytes`: two values tell a byte that is overwritten with
  another. A count of 2 ends in the quantum, at its end or behind it.
* `OtherPaths` of `ProcTree`: one name a file falls back on, one a directory
  falls back on, the one of `lkm_proc`, and a file below each of the two that
  others may have as a directory.
* `MaxRegions`: one leaked region behaves like any other.
* `LKM_DEBUGFS_CONTENT_LEN`, `Hello`, `Counts` of `DebugFs`: three bytes have a
  greeting, a NUL behind it, and room for a call that starts in the middle and
  is cut at the end; a count of 2 fits, one of 4 is refused for a write and cut
  for a read. `Letters`: two tell overlapping writes apart. Two tasks and the
  init function give two stores beside a read; the proofs cover any number.
* `IoPermissions` has no bounds: its instance is all there is.
* `MaxDrift`: how far below zero races may push `device_open_count`; each
  further step repeats the same race.

Deadlock is checked, except in `Majors`, where a system whose numbers are all
stranded really cannot load another module, and in `IoPermissions`, whose
programs end.

Fairness: `WF(Advance(t))` for each task, that is, the scheduler runs a task
that is in a system call and can go on. Nothing is assumed of what user space
decides (opening, calling, signalling) nor of which outcome an allocation has.
The semaphore queues its waiters in order, as the kernel's does, so that weak
fairness is enough. `device_cat` assumes the same of the one task that runs cat,
and `io_permissions` of every task of the programs: they run when they can, and
`sleep(2)` ends. It is not assumed that `pthread_join()` of no thread returns.

Symmetry (tasks, addresses, open files) is used where only invariants, action
properties and a refinement of safety are checked.

Each property of a passing run has a mutant in `PROJECT.json`: a version of one
definition with a plausible mistake, under which TLC finds the property
violated. They stand in the modules just before the definitions they replace.

## 4. The findings

1. `lkm_mev.c:139`: the container is never cleared. Loading and unloading the
   module, as `include/make/tests.mk:76-78` does with every module, follows a
   pointer from uninitialised memory.
2. `lkm_device.c:106`: two tasks can open the device at once.
3. `lkm_device.c:76`: a read never reports the end of the file, so the
   `cat /dev/lkm_device` of `README.md:82` does not end.

More things came up while the models were written, and stand here without
a run of their own:

* `lkm_device.c:170`: with `param_major_num` the module takes the 0 that
  `register_chrdev()` returns for the major; `/proc` shows 0 and rmmod leaves
  the major registered, which explains the failure `README.md:75-76` describes.
  `NothingStranded` and `ProcShowsDynamicMajor` except that case.
* `lkm_mem.c:114`: the swap files always show zero, since `si_meminfo()` does
  not fill in the swap fields and nobody calls `si_swapinfo()`, although
  `README.md:28` and `lkm_mem.c:33` promise swap information.
  `MemFilledBeforeShown` leaves them out.
* `lkm_mev.c:303-304`, `430-431`: the geometry is read before the semaphore is
  taken. On a module just loaded, whose `data` happens to be `NULL` and whose
  quantum a large number, a task calls write with 8000 bytes and has read the
  quantum; another opens the device write-only, which trims, and writes a byte,
  which allocates 4000; the first then copies 8000 bytes into them, since 499
  compares with its own quantum. `InBounds` excuses the trim beside the call.
* `lkm_mev.c:454`: on such a module a negative quantum gives slots before the
  array. `InBounds` excuses that as well.
* `comparing-iopl-ioperm.c:98-100`, `permissions-revisited.c:137-139`: when
  `pthread_create()` fails, `pthread_join()` gets an uninitialised `pthread_t`
  and may never return. `Ends` and `NoDeadlock` say that nothing else hangs.
* `lkm_debugfs.c:99-102`: a write that comes between the creation of the file
  and the greeting succeeds, and is overwritten.
* `lkm_debugfs.c:104-109`: after `-EIO` the directory and `number` are left, and
  `number` points into the memory of a module that is gone.

## 5. The proofs

`Mev_proofs` proves, for any set of tasks, any set of addresses, any geometry
and any positions and counts, from `MevAssumption` only:

* `Invariance`: `Spec => []IInv`, the inductive invariant of `MevInv`;
* `TypeCorrect`, `Exclusion` and `OnlyOverlapFrees`: three of the safety
  properties, which follow from it.

None of them is inductive by itself. That no freed memory is used needs to know
who may hold a pointer to what: a pointer into the list points to a live node
because only a trim frees nodes (`PointerInv`), no call has a pointer while a
trim runs (`AloneInv`), the node a trim frees is the head, so that no live node
has it as its next (`ListInv`, `IsHead`), and a fresh address is nobody's next
yet (`AddressInv`). That the section is exclusive needs the value of the
semaphore together with who is inside (`LockInv`), that those in the queue wait
and queue once, so that `Up` hands over to a task outside (`QueueInv`). The
geometry may be garbage throughout: `IInv` says of it only that a call past the
division has something to divide by and that what it is about to copy into is
there (`SlotInv`), and, once a trim has formatted the container and none ran
beside a call, that no call remembers the time before (`FormatInv`). The
proof has one lemma per part of the invariant, and before them one per variable
that says which actions write it, so that each part is shown only for the
actions that can disturb it.

`Device_proofs` proves, for any set of tasks, any message and buffers of any
length, from `DeviceAssumption`: `TypeCorrect`, `OpenedOnce`, `Counted`,
`StaysInMessage` and `GivesInOrder`. They follow from one invariant with a part for the counter and
a part for the pointer. `SingleOpen` and `CountsFiles` need each other, and both
need to know what a task that is about to write the counter back has loaded
(`CountInv`); `InMessage` needs to know that between the test and the increment
the pointer is before the end, and that who is not reading has nothing left of
an earlier read, which may have been mixed up (`ReadInv`, `LocalInv`). Reads do
not touch what the counter part is about, nor opens and releases what the
pointer part is about (`ReadLeaves`, `CountLeaves`). `GivesInOrder` adds
`OrderInv`: as long as no read overlapped or failed, the pointer is at the
character that is due, or behind the last one when the first is due.

The last part of `Mev_proofs` continues from there with `BelowSize`.
That a read stays below the size needs that the size does not change
between the two places where a read looks at it: nobody else is in the section
to commit a write, no trim runs (`AloneInv`), and no init does while a file is
open (`SizeStays`); `BoundInv` then carries the clamped count to the copy.

It goes on to the list of nodes, from `MemoryAssumption`, that memory is finite.
`LosesNothing` needs that the live nodes are one list with no node beside it
(`Chain`, `LeakInv`): a turn of a trim takes the first node off (`ChainTail`), a
turn of `mev_follow()` puts a new one behind the last (`ChainAppend`), and the
only other step that writes the head is a reset, when the list is empty. `List`
of the properties is defined by recursion on the index; that it runs along the
chain (`ListIs`), and keeps its nodes where they are while it grows
(`ListGrows`), is shown by the least index at which it would not (`LeastNumber`).
`SizeIsBacked` needs where a call's pointer is: `Item - n` nodes behind the head
while `mev_follow()` walks, at the node of the position after it, and at a slot
that is filled when bytes are copied (`WalkInv`). The bytes written end in the
same slot (`SameQuantum`), so the size that is committed is backed (`SizeInv`), and
what is backed stays so until a trim (`BackedStays`).

`StaysInBounds` and `FormattedIsSafe` are about the geometry, whichever two
integers it is. As long as no trim ran beside a call and nobody used the
semaphore too early, three facts go together (`ShapeInv`): every call and every
trim has the geometry the container has (`CallShape`); every array and every quantum that is
allocated has the length that geometry says (`HeapShape`); and a count that is
about to be copied was cut to what is left of the quantum (`CopyShape`). The
geometry changes only at a trim's end, when there is no node and no call, and at
insmod, when there is none of either (`GeometryStays`, which takes from
`LeakInv` that the list is all there is). Then a slot is in its array and a copy
in its quantum by arithmetic on `int`s that wrap (`SlotInRange`,
`PositiveGeometry`, `WithinCuts`): a product that overflows still gives
remainders below itself, and only a negative quantum gives a slot before the
array. A formatted geometry is not negative, so that no fault is left
(`FormattedIsSafe`).

Three theorems of `Mev_proofs` are about calls that end, and are what the code
itself contributes to `CallReturns`:

* `NoLostWakeup` (`WaitersServed`): who waits is in the queue, and while anybody
  waits somebody is in the section, so that an `up()` is still to come. It
  needs that waiters are only there while the semaphore is taken, and a taken
  one is held (`ServeInv`). An `up()` hands the semaphore to the first waiter
  without giving it back in between, who is in the section at once; a task that
  a signal takes out of the queue is no holder. That no task is in the queue
  twice, or behind its back, is `QueueInv` again.
* `QueueIsFair`: a waiter's place in the queue only falls, and falls with each
  `up()` that serves another, also when a signal takes a task out before it.
* `CallsProgress`: the rank of a call, the number of steps it is away from its
  end, falls with each of its steps and rises with no step of others. Behind it
  are the two loops: `mev_follow()` counts down the nodes to walk, and
  `mev_trim()` goes on only after it freed another address. The latter holds
  beside a second trim of the same list as well, because a node that was
  freed is a fault and not another turn. Here too the memory must be finite
  (`MemoryAssumption`).

`Device_proofs` has `CallsProgress`, too: a read takes no more than three steps
for each byte of room and five besides, whatever other reads do to the pointer
they share. They may carry it past the NUL that is to stop the loop; then it is
the length of the user's buffer that does.

`MevStore_proofs` proves, for any geometry, positions, counts and number of open
files, `ReadsLookOnly`: `mev_follow()` never allocates for a read. The list
reaches to the size (`SizeInv`): a write sets the size only after it made the
list reach to its position, and to no more than the end of its quantum, which is
not behind the end of its item (`QuantumInItem`); a write that fails leaves a
longer list at most (`Longer`).

It goes on to `TypeCorrect` and `Refinement`: the list of arrays of quanta is a
flat device. They use `StoreAssumption` and `ValueAssumption`, that `NULL` is
neither a quantum nor an array. The core is that a position is a node, a slot
and an offset (`Decompose`) and that no two positions are the same ones
(`Recompose`): the bytes a call copies, which all lie in one quantum
(`InQuantum`, `WithinQuantum`), are those at its positions and no others
(`CopiedBytes`). What is allocated on the way shows nothing: a node, an array or
a quantum more leaves every byte as it was, `JUNK` where there was none
(`ExtendedBytes`, `ArrayBytes`, `NoMemoryBytes`). So each outcome of a write is
one of `FlatDevice`, bytes stored, bytes of its own range spoiled, or none
(`WriteBytes`, `FlatWrite`), and each outcome of a read delivers a beginning of
what the flat device holds (`ReadBytes`, `FlatRead`). Without `TypeOK` none of it holds: a
quantum must have its full length for the end of the copy to be in it, and
that the last quantum ends below `Capacity` needs that this is a multiple of the
quantum (`LastQuantum`).

`Majors_proofs` proves, for any table of numbers, `TypeCorrect`, `TakesOwn`,
`NoneStranded` and `ShowsMajor`. The invariant has a part for each driver
(`DeviceInv`, `NumbersInv`, `MevInv`): loaded, it holds the numbers it remembers;
not excused by a failure, it holds no others. What makes them independent is
`Foreign`: a driver's steps change only numbers that are its own or nobody's,
and `FileInv` keeps the `/proc` file with the driver.

`DebugFs_proofs` proves, for any number of tasks, a buffer and a greeting of any
length and any counts, `TypeCorrect` (with it, that no call gets behind the
buffer), `ReadsAtOnce` and `NoneDangles`. The invariant says what is there at
which stage (`SetupInv`, `GreetInv`), that nobody has a file open that is not
there (`OpenInv`), that a call keeps to its range (`CallInv`), that without a
clash one at most is storing (`ClashInv`) and then the buffer is `text` except
where that one has got to (`StoreInv`), and that nobody stores beside a quiet
reader (`QuietInv`).

`ProcTree_proofs` proves, beside any other modules and whatever fails,
`NothingLeft`, `ShownFilled`, `TypeCorrect`, `RemovesOnlyOwn` and `NoComplaint`.
They use `ProcTreeAssumption` and `OtherAssumption` only. What `lkm_mem` has in `/proc` it knows of and has
yet to remove (`KnownInv`), which needs that the name and the parent it removes
by still give the path it created (`PathInv`): a parent is created before its
entries and not changed after. That is enough for the first two.

The others need the tree as well, `Ownership`: an entry belongs to the owner of
every directory above it (`TreeInv`), so that who removes a directory removes
nobody else's entries (`BelowOwner`); what `lkm_mem` has yet to remove is there,
its own, and no other entry's path (`StandInv`); and `lkm_proc` has its name
exactly when it is loaded and was not refused it (`ProcInv`). That a directory
of `lkm_mem` is empty when its turn comes (`NothingBelow`) is the order of
`Removals`: children before parents (`RemovalOrder`), also when a directory was
not created and its children are in the root, where two of them may want one
name and only the first gets it.

`CircularBuffer_proofs` proves, for any size and any values, that the indices
agree with the length (`TypeCorrect` with them), and from it `Refinement`: the buffer implements
`BoundedFifo`.

`IoPermissions_proofs` proves `TypeCorrect`, `SleepyFails`, `GrantHolds` and
`ZeroIsOutOfReach`. `IoPermissions` has no constants, so that its run is all
cases and the theorems add none; they say why. What a task has still to do is the
end of its course, as long as it runs (`CourseInv`), so that what is left tells what is done. From
it: the sleeping thread is created before `main()` has asked for the permission,
and none of its own steps gets it any (`SleepyInv`); who has the
permission, from the kernel or from the one that created it, keeps it
up to the port read (`GrantInv`); and `main()` of the comparing program ends only
after both threads were joined, so that the sleeping one was killed first, and the
process with it, unless it was never created.

`Terminates` and `NoDeadlock` are the programs' part of `Ends`: each step of any
task brings the whole closer to its end, a creation being worth more than what
it creates has to do; and while a task runs, one of them can go on, because a
task that is joined joins nobody. The latter needs that `main()` has created what
it joins unless `pthread_create()` failed (`JoinedInv`, and `SleepyInv` for the
sleeping thread); where it failed, the theorem says no more than that this is
where `main()` is.

Model-checked only: liveness, `CallReturns` of `Mev` and of `Device` and `Ends` of
`IoPermissions`. The argument is ranks that fall, waiters that are served, a
queue that is fair, no deadlock, and all of these are theorems; the step from there to
"eventually" needs fairness, ENABLED and induction on the rank, which the
provers do not do.

## 6. Not modelled

* `mev_ioctl()`, `mev_llseek()` and `device_write()` change nothing.
* printk() and what it prints.
* 32-bit overflow of `item` in `MevStore` (`lkm_mev.c:338`, `450`): positions
  beyond two billion items, which wrap onto the first ones, are above its
  `Capacity`. In `Mev` the addressing does overflow.
* An address that `kmalloc()` returns again after it was freed: a stale
  pointer to it would not be noticed at once; the model reports it earlier.
* The value behind `number` of `lkm_debugfs.c`, which debugfs reads and writes at
  once, and a byte that is read while it is written.
* A page fault that leaves a read of `lkm_debugfs.c` half done is modelled, one
  that delays it is not told from any other delay.
* `lkm_process.c`, `lkm_parameters.c`, `lkm_pp.c`, `lkm_sandbox.c`,
  `lkm_skeleton.c` and the rehearsals other than the circular buffer: straight
  lines without a state to be wrong.
* the Makefile; its tests are quoted where a property states what they expect.

## 7. Plan

In this order; all of it is done.

1. `Mev`, `MCMev`: tasks, heap, semaphore, rmmod.
2. `MevInv`, `Mev_proofs`: the inductive invariant and the safety theorems.
3. `CircularBuffer`, `BoundedFifo`, with the proof of the refinement.
4. `Device`, `Majors`.
5. `FlatDevice` and `MevStore`: the bytes.
6. `ProcTree`: `lkm_mem.c`, `lkm_proc.c`.
7. `DebugFs`, `DebugFs_proofs`.
8. `IoPermissions`.
9. `Device_proofs`, `Majors_proofs`, `ProcTree_proofs` (first part),
   the copies of `Mev_proofs`, `MevStore_proofs` (first part).
10. `NothingLeaked` and `SizeBacked` of `Mev` as theorems, in `Mev_proofs`.
11. That `MevStore` is a flat device, as a theorem, in `MevStore_proofs`.
12. Who owns what under `/proc`, with `RemovesOwn` and `OrderlyExit` as theorems,
    in `ProcTree_proofs`.
13. No lost wakeup, the fair queue and the ranks of calls, in `Mev_proofs` and
    `Device_proofs`.
14. `IoPermissions_proofs`.
15. The geometry of an uncleared container: any two integers, with the accesses
    beyond arrays and quanta as faults, in `Mev`, and `StaysInBounds` in
    `Mev_proofs`.

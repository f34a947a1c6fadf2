------------------------------- MODULE DebugFs -------------------------------
(***************************************************************************)
(* lkm_debugfs.c: a directory in debugfs with two files, "number" and      *)
(* "message".  The latter is one buffer for everybody, which is published  *)
(* before it is filled, and read and written without a lock: a step copies *)
(* one byte.                                                               *)
(*                                                                         *)
(* debugfs is external, and so are the simple_read_from_buffer() and       *)
(* simple_write_to_buffer() that the file operations hand their buffer to. *)
(* "number" is a file of debugfs' own kind, of which only its being there  *)
(* matters.  A task has one struct file at most, named after it: the       *)
(* kernel serialises the calls on a shared one, whose position moves.      *)
(***************************************************************************)
EXTENDS Integers, Sequences

CONSTANTS
  Threads,                  \* user tasks
  LKM_DEBUGFS_CONTENT_LEN,
  Hello,                    \* the length of the greeting
  Letters,                  \* what tasks write, a write being of one letter
  Counts                    \* bound: the counts of the calls

ASSUME DebugFsAssumption ==
  /\ LKM_DEBUGFS_CONTENT_LEN \in Nat \ {0}
  /\ Hello \in 0 .. LKM_DEBUGFS_CONTENT_LEN
  /\ Counts \subseteq Nat
  /\ "init" \notin Threads   \* which is the init function

VARIABLES
  refusal,           \* external: what debugfs returns of what it does not create, NULL or, in
                     \* later kernels, an error pointer
  files,             \* external: the files in debugfs
  stage,             \* how far the module is loaded
  debug_root, debug_file_entry,
  greeted,           \* how much of the greeting was copied
  content,
  pc,                \* where each task is
  position,          \* of the file of each task
  io,                \* the call of a task: the offset it has got to, where it ends, what it writes
  got,               \* the bytes a read delivered so far
  quiet,             \* history: the readers since whose call nothing was stored
  clash,             \* history: stores overlapped, the last of which still goes on
  text,              \* history: what the buffer holds once nothing is being stored
  stranded           \* history: an init function failed after it had made the directory

module == <<refusal, files, debug_root, debug_file_entry, stranded>>
calls == <<pc, position, io, got, quiet>>
vars == <<module, stage, greeted, content, calls, clash, text>>

Offsets == 0 .. LKM_DEBUGFS_CONTENT_LEN - 1
Zeroes == [i \in Offsets |-> "NUL"]

\* strncpy() pads with NUL.
Greeting == [i \in Offsets |-> IF i < Hello THEN "hello" ELSE "NUL"]

\* A call returns, its locals being gone, and the position having moved.
Nothing == [at |-> 0, end |-> 0, letter |-> "NUL"]
Returns(t) ==
  /\ pc' = [pc EXCEPT ![t] = "idle"]
  /\ position' = [position EXCEPT ![t] = io[t].at]
  /\ io' = [io EXCEPT ![t] = Nothing]
  /\ got' = [got EXCEPT ![t] = <<>>]

\* Who is storing: tasks, and the init function from when the file is there.
Storing == {t \in Threads : pc[t] = "in"} \union IF stage = "greet" THEN {"init"} ELSE {}

Begins(s) == quiet' = {} /\ clash' = (clash \/ Storing # {})

\* The store of s is over.  Alone, it leaves new; of stores that overlapped,
\* whatever they left in the end.
Ends(s, new) ==
  /\ clash' = (clash /\ Storing # {s})
  /\ text' = IF ~clash THEN new ELSE IF Storing = {s} THEN content' ELSE text

-----------------------------------------------------------------------------
\* External: a file is created or refused, and must be refused below what is no
\* directory, or when it exists.
Creation(name, parent, entry) ==
  \/ /\ parent # refusal /\ name \notin files
     /\ files' = files \union {name}
     /\ entry = name
  \/ entry = refusal /\ UNCHANGED files

\* lkm_debugfs_init() up to the test of the directory; -ENODEV for NULL only.
CreateDir ==
  /\ stage = "unloaded"
  /\ \E entry \in {"lkm", refusal} :
       /\ Creation("lkm", "/", entry)
       /\ debug_root' = entry
       /\ stage' = IF entry = "NULL" THEN "unloaded" ELSE "number"
  /\ UNCHANGED <<refusal, debug_file_entry, stranded, greeted, content, calls, clash, text>>

CreateNumber ==
  /\ stage = "number"
  /\ \E entry \in {"number", refusal} : Creation("number", debug_root, entry)
  /\ stage' = "message"
  /\ UNCHANGED <<refusal, debug_root, debug_file_entry, stranded, greeted, content, calls, clash, text>>

\* From here on the file can be opened, and the greeting is still to come.
CreateMessage ==
  /\ stage = "message"
  /\ \E entry \in {"message", refusal} :
       Creation("message", debug_root, entry) /\ debug_file_entry' = entry
  /\ Begins("init")
  /\ stage' = "greet"
  /\ UNCHANGED <<refusal, debug_root, stranded, greeted, content, pc, position, io, got, text>>

\* strncpy(), one byte.
Greet ==
  /\ stage = "greet" /\ greeted \in Offsets
  /\ content' = [content EXCEPT ![greeted] = Greeting[greeted]]
  /\ greeted' = greeted + 1
  /\ UNCHANGED <<module, stage, calls, clash, text>>

\* A module that is loaded again starts from zeroes.
Fresh == content' = Zeroes /\ text' = Zeroes /\ greeted' = 0

\* The end of lkm_debugfs_init(): 0, or -EIO, which leaves what was created.
InitReturns ==
  /\ stage = "greet" /\ greeted \notin Offsets
  /\ \/ /\ debug_file_entry # "NULL"
        /\ stage' = "live"
        /\ UNCHANGED content /\ Ends("init", Greeting)
        /\ UNCHANGED <<debug_root, stranded, greeted>>
     \/ /\ debug_file_entry = "NULL"
        /\ stage' = "unloaded" /\ Fresh
        /\ debug_root' = "NULL"
        /\ stranded' = TRUE
        /\ UNCHANGED clash
  /\ UNCHANGED <<refusal, files, debug_file_entry, calls>>

\* A mutant: only the file is removed.
MutantExit ==
  /\ stage = "live" /\ \A t \in Threads : pc[t] = "closed"
  /\ files' = files \ {debug_file_entry}
  /\ debug_file_entry' = "NULL" /\ debug_root' = "NULL"
  /\ stage' = "unloaded" /\ Fresh
  /\ UNCHANGED <<refusal, stranded, calls, clash>>

\* lkm_debugfs_exit(), when no file is open.
Exit ==
  /\ stage = "live" /\ \A t \in Threads : pc[t] = "closed"
  /\ IF debug_root # "NULL"
     THEN /\ files' = IF debug_root = "lkm" THEN {} ELSE files
          /\ debug_file_entry' = "NULL" /\ debug_root' = "NULL"
     ELSE UNCHANGED <<files, debug_file_entry, debug_root>>
  /\ stage' = "unloaded" /\ Fresh
  /\ UNCHANGED <<refusal, stranded, calls, clash>>

-----------------------------------------------------------------------------
Open(t) ==
  /\ pc[t] = "closed" /\ "message" \in files
  /\ pc' = [pc EXCEPT ![t] = "idle"]
  /\ UNCHANGED <<module, stage, greeted, content, position, io, got, quiet, clash, text>>

Close(t) ==
  /\ pc[t] = "idle"
  /\ pc' = [pc EXCEPT ![t] = "closed"]
  /\ position' = [position EXCEPT ![t] = 0]
  /\ UNCHANGED <<module, stage, greeted, content, io, got, quiet, clash, text>>

\* The offset at which a call for n bytes ends.
End(t, n) ==
  IF position[t] + n < LKM_DEBUGFS_CONTENT_LEN THEN position[t] + n ELSE LKM_DEBUGFS_CONTENT_LEN

\* debug_read() to the first byte.  With nothing to deliver it returns 0.
Read(t, n) ==
  /\ pc[t] = "idle" /\ position[t] < End(t, n)
  /\ pc' = [pc EXCEPT ![t] = "out"]
  /\ io' = [io EXCEPT ![t] = [at |-> position[t], end |-> End(t, n), letter |-> "NUL"]]
  /\ got' = [got EXCEPT ![t] = <<>>]
  /\ quiet' = IF Storing = {} THEN quiet \union {t} ELSE quiet \ {t}
  /\ UNCHANGED <<module, stage, greeted, content, position, clash, text>>

\* A mutant: the file is read from its beginning.
MutantCopyOut(t) ==
  /\ pc[t] = "out" /\ io[t].at < io[t].end
  /\ got' = [got EXCEPT ![t] = Append(@, content[Len(@)])]
  /\ io' = [io EXCEPT ![t].at = @ + 1]
  /\ UNCHANGED <<module, stage, greeted, content, pc, position, quiet, clash, text>>

CopyOut(t) ==
  /\ pc[t] = "out" /\ io[t].at < io[t].end
  /\ got' = [got EXCEPT ![t] = Append(@, content[io[t].at])]
  /\ io' = [io EXCEPT ![t].at = @ + 1]
  /\ UNCHANGED <<module, stage, greeted, content, pc, position, quiet, clash, text>>

\* The read returns: all is copied, or the user's buffer is at fault.
ReadReturns(t) ==
  /\ pc[t] = "out"
  /\ Returns(t)
  /\ quiet' = quiet \ {t}
  /\ UNCHANGED <<module, stage, greeted, content, clash, text>>

\* A mutant: the length is not passed on.
MutantWrite(t, n, letter) ==
  /\ pc[t] = "idle" /\ n <= LKM_DEBUGFS_CONTENT_LEN
  /\ position[t] < End(t, n)
  /\ pc' = [pc EXCEPT ![t] = "in"]
  /\ io' = [io EXCEPT ![t] = [at |-> position[t], end |-> position[t] + n, letter |-> letter]]
  /\ Begins(t)
  /\ UNCHANGED <<module, stage, greeted, content, position, got, text>>

\* debug_write() to the first byte.  It refuses what is longer than the buffer,
\* and of the rest takes what fits behind the position; 0 if nothing does.
Write(t, n, letter) ==
  /\ pc[t] = "idle" /\ n <= LKM_DEBUGFS_CONTENT_LEN
  /\ position[t] < End(t, n)
  /\ pc' = [pc EXCEPT ![t] = "in"]
  /\ io' = [io EXCEPT ![t] = [at |-> position[t], end |-> End(t, n), letter |-> letter]]
  /\ Begins(t)
  /\ UNCHANGED <<module, stage, greeted, content, position, got, text>>

CopyIn(t) ==
  /\ pc[t] = "in" /\ io[t].at < io[t].end
  /\ content' = [content EXCEPT ![io[t].at] = io[t].letter]
  /\ io' = [io EXCEPT ![t].at = @ + 1]
  /\ UNCHANGED <<module, stage, greeted, pc, position, got, quiet, clash, text>>

\* The write returns.  If the user's buffer is at fault, copy_from_user() has
\* set the rest of the range to NUL.
WriteReturns(t) ==
  /\ pc[t] = "in"
  /\ content' = [i \in Offsets |-> IF i \in io[t].at .. io[t].end - 1 THEN "NUL" ELSE content[i]]
  /\ Ends(t, [i \in Offsets |->
                IF i \in position[t] .. io[t].at - 1 THEN io[t].letter
                ELSE IF i \in io[t].at .. io[t].end - 1 THEN "NUL"
                ELSE text[i]])
  /\ Returns(t)
  /\ UNCHANGED <<module, stage, greeted, quiet>>

-----------------------------------------------------------------------------
Init ==
  /\ refusal \in {"NULL", "ERR_PTR"}
  /\ files = {} /\ stage = "unloaded"
  /\ debug_root = "NULL" /\ debug_file_entry = "NULL"
  /\ greeted = 0 /\ content = Zeroes /\ text = Zeroes
  /\ pc = [t \in Threads |-> "closed"]
  /\ position = [t \in Threads |-> 0]
  /\ io = [t \in Threads |-> [at |-> 0, end |-> 0, letter |-> "NUL"]]
  /\ got = [t \in Threads |-> <<>>]
  /\ quiet = {} /\ clash = FALSE /\ stranded = FALSE

Step(t) ==
  \/ Open(t) \/ Close(t)
  \/ \E n \in Counts : Read(t, n) \/ \E letter \in Letters : Write(t, n, letter)
  \/ CopyOut(t) \/ ReadReturns(t) \/ CopyIn(t) \/ WriteReturns(t)

InitFunction == CreateDir \/ CreateNumber \/ CreateMessage \/ Greet \/ InitReturns

Next == InitFunction \/ Exit \/ \E t \in Threads : Step(t)

Spec == Init /\ [][Next]_vars

-----------------------------------------------------------------------------
\* Type invariant; no call gets behind the end of content, whatever the
\* positions and counts.
TypeOK ==
  /\ refusal \in {"NULL", "ERR_PTR"}
  /\ files \subseteq {"lkm", "number", "message"}
  /\ stage \in {"unloaded", "number", "message", "greet", "live"}
  /\ debug_root \in {"NULL", "ERR_PTR", "lkm"}
  /\ debug_file_entry \in {"NULL", "ERR_PTR", "message"}
  /\ greeted \in 0 .. LKM_DEBUGFS_CONTENT_LEN
  /\ content \in [Offsets -> Letters \union {"hello", "NUL"}]
  /\ text \in [Offsets -> Letters \union {"hello", "NUL"}]
  /\ pc \in [Threads -> {"closed", "idle", "in", "out"}]
  /\ position \in [Threads -> 0 .. LKM_DEBUGFS_CONTENT_LEN]
  /\ io \in [Threads -> [at : 0 .. LKM_DEBUGFS_CONTENT_LEN, end : 0 .. LKM_DEBUGFS_CONTENT_LEN,
                         letter : Letters \union {"NUL"}]]
  /\ got \in [Threads -> Seq(Letters \union {"hello", "NUL"})]
  /\ quiet \subseteq Threads
  /\ clash \in BOOLEAN /\ stranded \in BOOLEAN

\* A read beside which nothing is stored delivers what the buffer held at one
\* moment, from its position on: the greeting, as the test expects right after
\* insmod (Makefile:113, 123-125), or what the writes and failing writes since
\* then left, a short one on top of what was there (lkm_debugfs.c:58, 68).
ReadsSettled ==
  \A t \in quiet : pc[t] = "out" =>
    \A i \in 1 .. Len(got[t]) : got[t][i] = text[position[t] + i - 1]

\* A module that is not loaded has left no file that leads into its memory: none
\* at all, unless an init function gave up half-way (lkm_debugfs.c:104-109), and
\* even then not the one whose operations are its own (118-122).
NothingDangles ==
  stage = "unloaded" =>
    /\ "message" \notin files /\ \A t \in Threads : pc[t] = "closed"
    /\ ~stranded => files = {}
=============================================================================

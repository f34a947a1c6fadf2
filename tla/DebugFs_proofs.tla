--------------------------- MODULE DebugFs_proofs ---------------------------
(***************************************************************************)
(* Proofs about DebugFs, for any number of tasks, a buffer and a greeting  *)
(* of any length, and calls with any counts: what undisturbed reads get,   *)
(* and that no file outlives the module.                                   *)
(***************************************************************************)
EXTENDS DebugFs, TLAPS

USE DebugFsAssumption

\* What is there at which stage.  Where creations were refused with NULL the
\* directory is there from the second stage on, and otherwise, if not, nothing.
SetupInv ==
  /\ stage = "unloaded" => debug_root = "NULL" /\ debug_file_entry = "NULL"
  /\ stage # "unloaded" => debug_root # "NULL" /\ ~stranded
  /\ stage = "unloaded" /\ ~stranded => files = {}
  /\ stranded => refusal = "NULL" /\ "lkm" \in files
  /\ debug_root = "lkm" => "lkm" \in files
  /\ debug_root = "ERR_PTR" => refusal = "ERR_PTR" /\ files = {}
  /\ stage \in {"greet", "live"} => debug_file_entry \in {"message", refusal}
  /\ stage = "live" => debug_file_entry # "NULL"
  /\ "message" \in files <=> stage \in {"greet", "live"} /\ debug_file_entry = "message"

\* The greeting starts from its beginning.
GreetInv == stage \in {"unloaded", "number", "message"} => greeted = 0

\* Nobody has a file open that is not there.
OpenInv == \A t \in Threads : pc[t] # "closed" => "message" \in files

\* A call keeps to its range.
CallInv ==
  \A t \in Threads :
    /\ pc[t] \in {"in", "out"} => position[t] <= io[t].at
    /\ pc[t] = "out" => Len(got[t]) = io[t].at - position[t]

\* Stores that overlap leave somebody who is still storing; without them there
\* is one at most.
ClashInv ==
  /\ clash => Storing # {} /\ "message" \in files
  /\ ~clash => \A s, u \in Storing : s = u

\* Without overlapping stores the buffer holds what text says, except where the
\* only store has got to.
StoreInv ==
  ~clash =>
    /\ Storing = {} => content = text
    /\ stage = "greet" =>
         \A i \in Offsets : content[i] = IF i < greeted THEN Greeting[i] ELSE text[i]
    /\ \A t \in Threads : pc[t] = "in" =>
         \A i \in Offsets :
           content[i] = IF i \in position[t] .. io[t].at - 1 THEN io[t].letter ELSE text[i]

\* A quiet reader is one beside whom nobody stores.
QuietInv == quiet # {} => Storing = {}

IInv ==
  /\ TypeOK /\ SetupInv /\ GreetInv /\ OpenInv /\ CallInv
  /\ ClashInv /\ StoreInv /\ QuietInv /\ ReadsSettled

\* TypeOK in parts: what Booleans there are, the call of each task, the rest.
Flags == clash \in BOOLEAN /\ stranded \in BOOLEAN
Bytes == Letters \union {"hello", "NUL"}
Lengths == 0 .. LKM_DEBUGFS_CONTENT_LEN
Setup ==
  /\ refusal \in {"NULL", "ERR_PTR"}
  /\ files \subseteq {"lkm", "number", "message"}
  /\ stage \in {"unloaded", "number", "message", "greet", "live"}
  /\ debug_root \in {"NULL", "ERR_PTR", "lkm"}
  /\ debug_file_entry \in {"NULL", "ERR_PTR", "message"}
Buffer ==
  /\ greeted \in Lengths
  /\ content \in [Offsets -> Bytes]
  /\ text \in [Offsets -> Bytes]
CallTypes ==
  /\ pc \in [Threads -> {"closed", "idle", "in", "out"}]
  /\ position \in [Threads -> Lengths]
  /\ io \in [Threads -> [at : Lengths, end : Lengths, letter : Letters \union {"NUL"}]]
  /\ got \in [Threads -> Seq(Bytes)]
  /\ quiet \subseteq Threads

LEMMA TypeParts == TypeOK <=> Setup /\ Buffer /\ CallTypes /\ Flags
BY Zenon DEF TypeOK, Setup, Buffer, CallTypes, Flags, Bytes, Lengths

-----------------------------------------------------------------------------
LEMMA Cases ==
  ASSUME [Next]_vars
  PROVE  \/ CreateDir \/ CreateNumber \/ CreateMessage \/ Greet \/ InitReturns \/ Exit
         \/ \E t \in Threads : Open(t) \/ Close(t) \/ CopyOut(t) \/ ReadReturns(t)
                               \/ CopyIn(t) \/ WriteReturns(t)
         \/ \E t \in Threads, n \in Counts : Read(t, n)
         \/ \E t \in Threads, n \in Counts, letter \in Letters : Write(t, n, letter)
         \/ UNCHANGED vars
BY Zenon DEF Next, InitFunction, Step

\* What a task does leaves the module's own state alone.
LEMMA TasksLeave ==
  ASSUME NEW t \in Threads, Step(t)
  PROVE  UNCHANGED <<refusal, files, debug_root, debug_file_entry, stranded, stage, greeted>>
BY Zenon DEF Step, Open, Close, Read, CopyOut, ReadReturns, Write, CopyIn, WriteReturns, module

\* What the init and exit functions do leaves the calls alone, but for the
\* readers that are no longer quiet.
LEMMA ModuleLeaves ==
  ASSUME InitFunction \/ Exit
  PROVE  /\ UNCHANGED <<pc, position, io, got>>
         /\ quiet' \in {quiet, {}}
BY Zenon DEF InitFunction, CreateDir, CreateNumber, CreateMessage, Greet, InitReturns, Exit,
             calls, Begins

\* The offset at which a call ends is in the buffer, behind the position.
LEMMA EndInBuffer ==
  ASSUME CallTypes, NEW t \in Threads, NEW n \in Counts
  PROVE  End(t, n) \in Lengths /\ End(t, n) >= position[t] /\ End(t, n) <= position[t] + n
<1>1. position[t] \in Lengths /\ n \in Nat
  BY DEF CallTypes
<1> QED BY <1>1 DEF End, Lengths

-----------------------------------------------------------------------------
\* A creation adds its name, or nothing, and must be refused without a parent.
LEMMA Creations ==
  ASSUME NEW name, NEW parent, NEW entry, Creation(name, parent, entry)
  PROVE  /\ entry \in {name, refusal}
         /\ files' \in {files, files \union {name}}
         /\ parent = refusal => entry = refusal /\ files' = files
         /\ name \in files => entry = refusal /\ files' = files
         /\ entry # refusal => files' = files \union {name}
         /\ name # refusal /\ entry = refusal => files' = files
BY Zenon DEF Creation

LEMMA SetupStep ==
  ASSUME Setup, [Next]_vars
  PROVE  Setup'
<1>1. CASE InitFunction
  <2>1. CASE CreateDir
    <3>1. PICK entry : /\ Creation("lkm", "/", entry)
                       /\ debug_root' = entry
                       /\ stage' = IF entry = "NULL" THEN "unloaded" ELSE "number"
      BY <2>1, Zenon DEF CreateDir
    <3>2. entry \in {"lkm", refusal} /\ files' \in {files, files \union {"lkm"}}
      BY <3>1, Creations, Zenon
    <3>3. UNCHANGED <<refusal, debug_file_entry>>
      BY <2>1, Zenon DEF CreateDir
    <3> QED BY <3>1, <3>2, <3>3 DEF Setup
  <2>2. CASE CreateNumber
    <3>1. files' \in {files, files \union {"number"}}
      BY <2>2, Creations, Zenon DEF CreateNumber
    <3>2. stage' = "message" /\ UNCHANGED <<refusal, debug_root, debug_file_entry>>
      BY <2>2, Zenon DEF CreateNumber
    <3> QED BY <3>1, <3>2 DEF Setup
  <2>3. CASE CreateMessage
    <3>1. /\ files' \in {files, files \union {"message"}}
          /\ debug_file_entry' \in {"message", refusal}
      BY <2>3, Creations, Zenon DEF CreateMessage
    <3>2. stage' = "greet" /\ UNCHANGED <<refusal, debug_root>>
      BY <2>3, Zenon DEF CreateMessage
    <3> QED BY <3>1, <3>2 DEF Setup
  <2>4. CASE Greet
    BY <2>4 DEF Greet, module, Setup
  <2>5. CASE InitReturns
    BY <2>5 DEF InitReturns, Setup
  <2> QED BY <1>1, <2>1, <2>2, <2>3, <2>4, <2>5 DEF InitFunction
<1>2. CASE Exit
  BY <1>2 DEF Exit, Setup
<1>3. ASSUME NEW t \in Threads, Step(t) PROVE Setup'
  BY <1>3, TasksLeave DEF Setup
<1>4. CASE UNCHANGED vars
  BY <1>4 DEF vars, module, Setup
<1> QED BY <1>1, <1>2, <1>3, <1>4 DEF Next

LEMMA FlagsStep ==
  ASSUME Flags, [Next]_vars
  PROVE  Flags'
<1>1. CASE InitFunction
  BY <1>1, Zenon DEF InitFunction, CreateDir, CreateNumber, CreateMessage, Greet, InitReturns,
                     Begins, Ends, module, Flags
<1>2. CASE Exit
  BY <1>2, Zenon DEF Exit, Flags
<1>3. ASSUME NEW t \in Threads, Step(t) PROVE Flags'
  BY <1>3, Zenon DEF Step, Open, Close, Read, CopyOut, ReadReturns, Write, CopyIn, WriteReturns,
                     module, Begins, Ends, Flags
<1>4. CASE UNCHANGED vars
  BY <1>4, Zenon DEF vars, module, Flags
<1> QED BY <1>1, <1>2, <1>3, <1>4, Zenon DEF Next

\* A store of new, in Bytes, leaves Bytes.
LEMMA EndsBytes ==
  ASSUME NEW s, NEW new, Ends(s, new), Buffer,
         new \in [Offsets -> Bytes], content' \in [Offsets -> Bytes]
  PROVE  text' \in [Offsets -> Bytes]
BY Zenon DEF Ends, Buffer

LEMMA Constants ==
  Greeting \in [Offsets -> Bytes] /\ Zeroes \in [Offsets -> Bytes]
<1>1. "hello" \in Bytes /\ "NUL" \in Bytes
  BY DEF Bytes
<1> QED BY <1>1, Zenon DEF Greeting, Zeroes

\* What a write returns with, in content and in text.
LEMMA Patches ==
  ASSUME Buffer, CallTypes, NEW t \in Threads,
         NEW old \in [Offsets -> Bytes]
  PROVE  /\ [i \in Offsets |-> IF i \in io[t].at .. io[t].end - 1 THEN "NUL" ELSE old[i]]
              \in [Offsets -> Bytes]
         /\ [i \in Offsets |-> IF i \in position[t] .. io[t].at - 1 THEN io[t].letter
                               ELSE IF i \in io[t].at .. io[t].end - 1 THEN "NUL" ELSE old[i]]
              \in [Offsets -> Bytes]
<1>1. io[t].letter \in Bytes /\ "NUL" \in Bytes
  BY DEF CallTypes, Bytes
<1>2. \A i \in Offsets : old[i] \in Bytes
  BY Zenon
<1> QED BY <1>1, <1>2, Zenon

LEMMA BufferStep ==
  ASSUME Buffer, CallTypes, [Next]_vars
  PROVE  Buffer'
<1>1. CASE CreateDir \/ CreateNumber \/ CreateMessage
  BY <1>1, Zenon DEF CreateDir, CreateNumber, CreateMessage, Buffer
<1>2. CASE Greet
  <2>1. greeted \in Offsets /\ greeted' = greeted + 1 /\ UNCHANGED text
        /\ content' = [content EXCEPT ![greeted] = Greeting[greeted]]
    BY <1>2, Zenon DEF Greet
  <2>2. greeted' \in Lengths
    BY <2>1 DEF Offsets, Lengths
  <2>3. content' \in [Offsets -> Bytes]
    BY <2>1, Constants, Zenon DEF Buffer
  <2> QED BY <2>1, <2>2, <2>3, Zenon DEF Buffer
<1>3. CASE InitReturns
  <2>1. CASE debug_file_entry # "NULL"
    <3>1. UNCHANGED <<content, greeted>> /\ Ends("init", Greeting)
      BY <1>3, <2>1, Zenon DEF InitReturns
    <3>2. text' \in [Offsets -> Bytes]
      BY <3>1, EndsBytes, Constants, Zenon DEF Buffer
    <3> QED BY <3>1, <3>2, Zenon DEF Buffer
  <2>2. CASE debug_file_entry = "NULL"
    <3>1. Fresh
      BY <1>3, <2>2, Zenon DEF InitReturns
    <3> QED BY <3>1, Constants DEF Fresh, Buffer, Lengths
  <2> QED BY <2>1, <2>2
<1>4. CASE Exit
  <2>1. Fresh
    BY <1>4, Zenon DEF Exit
  <2> QED BY <2>1, Constants DEF Fresh, Buffer, Lengths
<1>5. ASSUME NEW t \in Threads,
             Open(t) \/ Close(t) \/ CopyOut(t) \/ ReadReturns(t)
             \/ (\E n \in Counts : Read(t, n))
             \/ (\E n \in Counts, letter \in Letters : Write(t, n, letter))
      PROVE  Buffer'
  BY <1>5, Zenon DEF Open, Close, CopyOut, ReadReturns, Read, Write, Buffer
<1>6. ASSUME NEW t \in Threads, CopyIn(t) PROVE Buffer'
  <2>1. content' = [content EXCEPT ![io[t].at] = io[t].letter] /\ UNCHANGED <<greeted, text>>
    BY <1>6, Zenon DEF CopyIn
  <2>2. io[t].letter \in Bytes
    BY DEF CallTypes, Bytes
  <2> QED BY <2>1, <2>2, Zenon DEF Buffer
<1>7. ASSUME NEW t \in Threads, WriteReturns(t) PROVE Buffer'
  <2>1. UNCHANGED greeted /\ content' \in [Offsets -> Bytes]
    BY <1>7, Patches, Zenon DEF WriteReturns, Buffer
  <2>2. text' \in [Offsets -> Bytes]
    BY <1>7, <2>1, Patches, EndsBytes, Zenon DEF WriteReturns, Buffer
  <2> QED BY <2>1, <2>2, Zenon DEF Buffer
<1>8. CASE UNCHANGED vars
  BY <1>8, Zenon DEF vars, Buffer
<1> QED BY <1>1, <1>2, <1>3, <1>4, <1>5, <1>6, <1>7, <1>8, Cases, Zenon

\* A call that returns leaves its types alone.
LEMMA ReturnsTypes ==
  ASSUME CallTypes, NEW t \in Threads, Returns(t), quiet' \subseteq Threads
  PROVE  CallTypes'
<1>1. io[t].at \in Lengths
  BY DEF CallTypes
<1>2. Nothing \in [at : Lengths, end : Lengths, letter : Letters \union {"NUL"}]
  BY DEF Nothing, Lengths
<1>3. <<>> \in Seq(Bytes)
  OBVIOUS
<1>4. pc' \in [Threads -> {"closed", "idle", "in", "out"}]
  BY Zenon DEF Returns, CallTypes
<1>5. position' \in [Threads -> Lengths]
  BY <1>1, Zenon DEF Returns, CallTypes
<1>6. io' \in [Threads -> [at : Lengths, end : Lengths, letter : Letters \union {"NUL"}]]
  BY <1>2, Zenon DEF Returns, CallTypes
<1>7. got' \in [Threads -> Seq(Bytes)]
  BY <1>3, Zenon DEF Returns, CallTypes
<1> QED BY <1>4, <1>5, <1>6, <1>7, Zenon DEF CallTypes

LEMMA CallTypesStep ==
  ASSUME Buffer, CallTypes, [Next]_vars
  PROVE  CallTypes'
<1>1. CASE InitFunction \/ Exit
  BY <1>1, ModuleLeaves, Zenon DEF CallTypes
<1>2. ASSUME NEW t \in Threads, Open(t) \/ Close(t) PROVE CallTypes'
  <2>1. 0 \in Lengths
    BY DEF Lengths
  <2>2. pc' \in [Threads -> {"closed", "idle", "in", "out"}]
    BY <1>2, Zenon DEF Open, Close, CallTypes
  <2>3. position' \in [Threads -> Lengths]
    BY <1>2, <2>1, Zenon DEF Open, Close, CallTypes
  <2>4. UNCHANGED <<io, got, quiet>>
    BY <1>2, Zenon DEF Open, Close
  <2> QED BY <2>2, <2>3, <2>4, Zenon DEF CallTypes
<1>3. ASSUME NEW t \in Threads, CopyOut(t) PROVE CallTypes'
  <2>1. UNCHANGED <<pc, position, quiet>> /\ io' = [io EXCEPT ![t].at = @ + 1]
        /\ got' = [got EXCEPT ![t] = Append(@, content[io[t].at])]
        /\ io[t].at < io[t].end
    BY <1>3, Zenon DEF CopyOut
  <2>2. io[t].at + 1 \in Lengths /\ io[t].at \in Offsets
    BY <2>1 DEF CallTypes, Lengths, Offsets
  <2>3. Append(got[t], content[io[t].at]) \in Seq(Bytes)
    BY <2>2 DEF CallTypes, Buffer
  <2>4. got' \in [Threads -> Seq(Bytes)]
    BY <2>1, <2>3, Zenon DEF CallTypes
  <2>5. io' \in [Threads -> [at : Lengths, end : Lengths, letter : Letters \union {"NUL"}]]
    BY <2>1, <2>2 DEF CallTypes
  <2> QED BY <2>1, <2>4, <2>5, Zenon DEF CallTypes
<1>4. ASSUME NEW t \in Threads, CopyIn(t) PROVE CallTypes'
  <2>1. UNCHANGED <<pc, position, quiet, got>> /\ io' = [io EXCEPT ![t].at = @ + 1]
        /\ io[t].at < io[t].end
    BY <1>4, Zenon DEF CopyIn
  <2>2. io[t].at + 1 \in Lengths
    BY <2>1 DEF CallTypes, Lengths
  <2>3. io' \in [Threads -> [at : Lengths, end : Lengths, letter : Letters \union {"NUL"}]]
    BY <2>1, <2>2 DEF CallTypes
  <2> QED BY <2>1, <2>3, Zenon DEF CallTypes
<1>5. ASSUME NEW t \in Threads, ReadReturns(t) \/ WriteReturns(t) PROVE CallTypes'
  BY <1>5, ReturnsTypes, Zenon DEF ReadReturns, WriteReturns, CallTypes
<1>6. ASSUME NEW t \in Threads, NEW n \in Counts, Read(t, n) PROVE CallTypes'
  <2>1. position[t] \in Lengths /\ End(t, n) \in Lengths
    BY EndInBuffer DEF CallTypes
  <2>2. [at |-> position[t], end |-> End(t, n), letter |-> "NUL"]
          \in [at : Lengths, end : Lengths, letter : Letters \union {"NUL"}]
    BY <2>1
  <2>3. io' \in [Threads -> [at : Lengths, end : Lengths, letter : Letters \union {"NUL"}]]
    BY <1>6, <2>2, Zenon DEF Read, CallTypes
  <2>4. pc' \in [Threads -> {"closed", "idle", "in", "out"}] /\ UNCHANGED position
    BY <1>6, Zenon DEF Read, CallTypes
  <2>5. got' \in [Threads -> Seq(Bytes)]
    <3>1. <<>> \in Seq(Bytes)
      OBVIOUS
    <3> QED BY <1>6, <3>1, Zenon DEF Read, CallTypes
  <2>6. quiet' \subseteq Threads
    BY <1>6, Zenon DEF Read, CallTypes
  <2> QED BY <2>3, <2>4, <2>5, <2>6, Zenon DEF CallTypes
<1>7. ASSUME NEW t \in Threads, NEW n \in Counts, NEW letter \in Letters, Write(t, n, letter)
      PROVE  CallTypes'
  <2>1. position[t] \in Lengths /\ End(t, n) \in Lengths
    BY EndInBuffer DEF CallTypes
  <2>2. [at |-> position[t], end |-> End(t, n), letter |-> letter]
          \in [at : Lengths, end : Lengths, letter : Letters \union {"NUL"}]
    BY <2>1
  <2>3. io' \in [Threads -> [at : Lengths, end : Lengths, letter : Letters \union {"NUL"}]]
    BY <1>7, <2>2, Zenon DEF Write, CallTypes
  <2>4. pc' \in [Threads -> {"closed", "idle", "in", "out"}] /\ UNCHANGED <<position, got>>
    BY <1>7, Zenon DEF Write, CallTypes
  <2>5. quiet' = {}
    BY <1>7, Zenon DEF Write, Begins
  <2> QED BY <2>3, <2>4, <2>5, Zenon DEF CallTypes
<1>8. CASE UNCHANGED vars
  BY <1>8, Zenon DEF vars, calls, CallTypes
<1> QED BY <1>1, <1>2, <1>3, <1>4, <1>5, <1>6, <1>7, <1>8, Cases, Zenon DEF InitFunction

-----------------------------------------------------------------------------
LEMMA SetupInvStep ==
  ASSUME Setup, SetupInv, OpenInv, [Next]_vars
  PROVE  SetupInv'
<1>1. CASE CreateDir
  <2>1. PICK entry : /\ Creation("lkm", "/", entry)
                     /\ debug_root' = entry
                     /\ stage' = IF entry = "NULL" THEN "unloaded" ELSE "number"
    BY <1>1, Zenon DEF CreateDir
  <2>2. stage = "unloaded" /\ UNCHANGED <<refusal, debug_file_entry, stranded>>
    BY <1>1, Zenon DEF CreateDir
  <2>3. /\ entry \in {"lkm", refusal}
        /\ "lkm" \in files => entry = refusal /\ files' = files
        /\ entry # refusal => files' = files \union {"lkm"}
        /\ "lkm" # refusal /\ entry = refusal => files' = files
    BY <2>1 DEF Creation
  <2>4. "lkm" # refusal /\ stage' \in {"unloaded", "number"}
    BY <2>1 DEF Setup
  <2>5. CASE stranded
    BY <2>1, <2>2, <2>3, <2>4, <2>5 DEF SetupInv
  <2>6. CASE ~stranded
    <3>1. files = {}
      BY <2>2, <2>6, Zenon DEF SetupInv
    <3>2. CASE entry = refusal
      BY <2>1, <2>2, <2>3, <2>4, <2>6, <3>1, <3>2 DEF SetupInv, Setup
    <3>3. CASE entry # refusal
      BY <2>1, <2>2, <2>3, <2>4, <2>6, <3>1, <3>3 DEF SetupInv, Setup
    <3> QED BY <3>2, <3>3
  <2> QED BY <2>5, <2>6
<1>2. CASE CreateNumber
  <2>1. /\ stage = "number" /\ stage' = "message"
        /\ UNCHANGED <<refusal, debug_root, debug_file_entry, stranded>>
        /\ files' \in {files, files \union {"number"}}
        /\ debug_root = refusal => files' = files
    BY <1>2, Creations, Zenon DEF CreateNumber
  <2> QED BY <2>1 DEF SetupInv
<1>3. CASE CreateMessage
  <2>1. PICK entry : Creation("message", debug_root, entry) /\ debug_file_entry' = entry
    BY <1>3, Zenon DEF CreateMessage
  <2>2. /\ stage = "message" /\ stage' = "greet"
        /\ UNCHANGED <<refusal, debug_root, stranded>>
    BY <1>3, Zenon DEF CreateMessage
  <2>3. /\ entry \in {"message", refusal}
        /\ debug_root = refusal => entry = refusal /\ files' = files
        /\ entry # refusal => files' = files \union {"message"}
        /\ "message" # refusal /\ entry = refusal => files' = files
    BY <2>1 DEF Creation
  <2>4. "message" # refusal /\ debug_root # "NULL" /\ ~stranded /\ "message" \notin files
    BY <2>2 DEF Setup, SetupInv
  <2>5. CASE entry = refusal
    BY <2>1, <2>2, <2>3, <2>4, <2>5 DEF SetupInv
  <2>6. CASE entry # refusal
    BY <2>1, <2>2, <2>3, <2>4, <2>6 DEF SetupInv
  <2> QED BY <2>5, <2>6
<1>4. CASE Greet
  BY <1>4, Zenon DEF Greet, module, SetupInv
<1>5. CASE InitReturns
  <2>1. stage = "greet" /\ UNCHANGED <<refusal, files, debug_file_entry>>
    BY <1>5, Zenon DEF InitReturns
  <2>2. CASE debug_file_entry # "NULL"
    <3>1. stage' = "live" /\ UNCHANGED <<debug_root, stranded>>
      BY <1>5, <2>2, Zenon DEF InitReturns
    <3> QED BY <2>1, <2>2, <3>1 DEF SetupInv
  <2>3. CASE debug_file_entry = "NULL"
    <3>1. stage' = "unloaded" /\ debug_root' = "NULL" /\ stranded' = TRUE
      BY <1>5, <2>3, Zenon DEF InitReturns
    <3>2. refusal = "NULL" /\ "message" \notin files
      BY <2>1, <2>3 DEF SetupInv
    <3>3. "lkm" \in files
      BY <2>1, <3>2 DEF SetupInv, Setup
    <3> QED BY <2>1, <2>3, <3>1, <3>2, <3>3 DEF SetupInv
  <2> QED BY <2>2, <2>3
<1>6. CASE Exit
  <2>1. stage = "live" /\ stage' = "unloaded" /\ UNCHANGED <<refusal, stranded>>
    BY <1>6, Zenon DEF Exit
  <2>2. debug_root # "NULL" /\ ~stranded
    BY <2>1 DEF SetupInv
  <2>3. /\ files' = IF debug_root = "lkm" THEN {} ELSE files
        /\ debug_file_entry' = "NULL" /\ debug_root' = "NULL"
    BY <1>6, <2>2, Zenon DEF Exit
  <2>4. files' = {}
    BY <2>2, <2>3 DEF SetupInv, Setup
  <2> QED BY <2>1, <2>2, <2>3, <2>4 DEF SetupInv
<1>7. ASSUME NEW t \in Threads, Step(t) PROVE SetupInv'
  BY <1>7, TasksLeave, Zenon DEF SetupInv
<1>8. CASE UNCHANGED vars
  BY <1>8, Zenon DEF vars, module, SetupInv
<1> QED BY <1>1, <1>2, <1>3, <1>4, <1>5, <1>6, <1>7, <1>8, Zenon DEF Next, InitFunction

\* A module that is going has no file open, and one that has not come so far
\* neither.
LEMMA OpenStep ==
  ASSUME CallTypes, Setup, SetupInv, OpenInv, [Next]_vars
  PROVE  OpenInv'
<1>1. CASE CreateDir \/ CreateNumber \/ CreateMessage \/ Greet
  <2>1. "message" \in files => "message" \in files'
    <3>1. \A name, parent, entry : Creation(name, parent, entry) => files \subseteq files'
      BY DEF Creation
    <3> QED BY <1>1, <3>1, Zenon DEF CreateDir, CreateNumber, CreateMessage, Greet, module
  <2>2. UNCHANGED pc
    BY <1>1, ModuleLeaves, Zenon DEF InitFunction
  <2> QED BY <2>1, <2>2, Zenon DEF OpenInv
<1>2. CASE InitReturns
  BY <1>2, ModuleLeaves, Zenon DEF InitFunction, InitReturns, OpenInv
<1>3. CASE Exit
  <2>1. UNCHANGED pc /\ \A t \in Threads : pc[t] = "closed"
    BY <1>3, ModuleLeaves, Zenon DEF Exit
  <2> QED BY <2>1, Zenon DEF OpenInv
<1>4. ASSUME NEW t \in Threads, Step(t) PROVE OpenInv'
  <2>1. UNCHANGED files
    BY <1>4, TasksLeave, Zenon
  <2>2. \A u \in Threads : u # t => pc'[u] = pc[u]
    BY <1>4, Zenon DEF Step, Open, Close, Read, CopyOut, ReadReturns, Write, CopyIn, WriteReturns,
                       Returns, CallTypes
  <2>3. pc[t] # "closed" \/ "message" \in files
    BY <1>4, Zenon DEF Step, Open, Close, Read, CopyOut, ReadReturns, Write, CopyIn, WriteReturns
  <2>4. "message" \in files
    BY <2>3, Zenon DEF OpenInv
  <2> QED BY <2>1, <2>2, <2>4, Zenon DEF OpenInv
<1>5. CASE UNCHANGED vars
  BY <1>5, Zenon DEF vars, module, calls, OpenInv
<1> QED BY <1>1, <1>2, <1>3, <1>4, <1>5, Zenon DEF Next, InitFunction

\* Copying moves at and, when reading, the length of what was got.
LEMMA CallStep ==
  ASSUME Buffer, CallTypes, CallInv, [Next]_vars
  PROVE  CallInv'
<1>1. CASE InitFunction \/ Exit
  BY <1>1, ModuleLeaves, Zenon DEF CallInv
<1>2. ASSUME NEW t \in Threads,
             Open(t) \/ Close(t) \/ ReadReturns(t) \/ WriteReturns(t)
      PROVE  CallInv'
  <2>1. /\ \A u \in Threads : u # t => /\ pc'[u] = pc[u] /\ position'[u] = position[u]
                                       /\ io'[u] = io[u] /\ got'[u] = got[u]
        /\ pc'[t] \in {"idle", "closed"}
    BY <1>2, Zenon DEF Open, Close, ReadReturns, WriteReturns, Returns, CallTypes
  <2> QED BY <2>1 DEF CallInv
<1>3. ASSUME NEW t \in Threads, CopyOut(t) PROVE CallInv'
  <2>1. /\ pc[t] = "out" /\ UNCHANGED <<pc, position>>
        /\ io[t].at < io[t].end /\ io' = [io EXCEPT ![t].at = @ + 1]
        /\ got' = [got EXCEPT ![t] = Append(@, content[io[t].at])]
    BY <1>3, Zenon DEF CopyOut
  <2>2. io[t].at \in Nat /\ position[t] \in Nat /\ got[t] \in Seq(Bytes)
    BY DEF CallTypes, Lengths
  <2>3. io'[t].at = io[t].at + 1
    BY <2>1 DEF CallTypes
  <2>4. got'[t] = Append(got[t], content[io[t].at])
    BY <2>1, Zenon DEF CallTypes
  <2>5. content[io[t].at] \in Bytes
    BY <2>1, <2>2 DEF CallTypes, Lengths, Offsets, Buffer
  <2>6. Len(got'[t]) = Len(got[t]) + 1
    BY <2>2, <2>4, <2>5
  <2>7. \A u \in Threads : u # t => io'[u] = io[u] /\ got'[u] = got[u]
    BY <2>1, Zenon DEF CallTypes
  <2>8. position[t] <= io'[t].at /\ Len(got'[t]) = io'[t].at - position[t]
    <3>1. position[t] <= io[t].at /\ Len(got[t]) = io[t].at - position[t]
      BY <2>1, Zenon DEF CallInv
    <3> QED BY <2>2, <2>3, <2>6, <3>1
  <2> QED BY <2>1, <2>7, <2>8 DEF CallInv
<1>4. ASSUME NEW t \in Threads, CopyIn(t) PROVE CallInv'
  <2>1. /\ pc[t] = "in" /\ UNCHANGED <<pc, position, got>>
        /\ io' = [io EXCEPT ![t].at = @ + 1]
    BY <1>4, Zenon DEF CopyIn
  <2>2. io[t].at \in Nat /\ position[t] \in Nat
    BY DEF CallTypes, Lengths
  <2>3. io'[t].at = io[t].at + 1
    BY <2>1 DEF CallTypes
  <2>4. \A u \in Threads : u # t => io'[u] = io[u]
    BY <2>1, Zenon DEF CallTypes
  <2>5. position[t] <= io'[t].at
    BY <2>1, <2>2, <2>3 DEF CallInv
  <2> QED BY <2>1, <2>4, <2>5 DEF CallInv
<1>5. ASSUME NEW t \in Threads, NEW n \in Counts, Read(t, n) PROVE CallInv'
  <2>1. /\ UNCHANGED position /\ io'[t].at = position[t] /\ got'[t] = <<>>
        /\ \A u \in Threads : u # t => /\ pc'[u] = pc[u] /\ io'[u] = io[u] /\ got'[u] = got[u]
    BY <1>5 DEF Read, CallTypes
  <2>2. position[t] \in Nat
    BY DEF CallTypes, Lengths
  <2> QED BY <2>1, <2>2 DEF CallInv
<1>6. ASSUME NEW t \in Threads, NEW n \in Counts, NEW letter \in Letters, Write(t, n, letter)
      PROVE  CallInv'
  <2>1. /\ UNCHANGED <<position, got>> /\ io'[t].at = position[t] /\ pc'[t] = "in"
        /\ \A u \in Threads : u # t => /\ pc'[u] = pc[u] /\ io'[u] = io[u]
    BY <1>6 DEF Write, CallTypes
  <2>2. position[t] \in Nat
    BY DEF CallTypes, Lengths
  <2> QED BY <2>1, <2>2 DEF CallInv
<1>7. CASE UNCHANGED vars
  BY <1>7, Zenon DEF vars, calls, CallInv
<1> QED BY <1>1, <1>2, <1>3, <1>4, <1>5, <1>6, <1>7, Cases, Zenon DEF InitFunction

-----------------------------------------------------------------------------
\* Who is storing before and after each action.
LEMMA StoringSame ==
  ASSUME stage' = "greet" <=> stage = "greet",
         \A t \in Threads : pc'[t] = "in" <=> pc[t] = "in"
  PROVE  Storing' = Storing
BY Zenon DEF Storing

LEMMA StoringTasks ==
  ASSUME CallTypes, NEW t \in Threads
  PROVE  /\ Open(t) \/ Close(t) \/ CopyOut(t) \/ ReadReturns(t) \/ CopyIn(t)
            \/ (\E n \in Counts : Read(t, n)) => Storing' = Storing
         /\ \A n \in Counts, letter \in Letters :
              Write(t, n, letter) => Storing' = Storing \union {t}
         /\ WriteReturns(t) => t \in Storing /\ Storing' = Storing \ {t}
<1>1. ASSUME Open(t) \/ Close(t) \/ CopyOut(t) \/ ReadReturns(t) \/ CopyIn(t)
             \/ (\E n \in Counts : Read(t, n))
      PROVE  Storing' = Storing
  <2>1. stage' = stage
    BY <1>1, Zenon DEF Open, Close, CopyOut, ReadReturns, CopyIn, Read
  <2>2. /\ \A u \in Threads : u # t => pc'[u] = pc[u]
        /\ pc'[t] = pc[t] \/ (pc[t] \in {"closed", "idle", "out"} /\ pc'[t] \in {"closed", "idle", "out"})
    BY <1>1, Zenon DEF Open, Close, CopyOut, ReadReturns, CopyIn, Read, Returns, CallTypes
  <2>3. \A u \in Threads : pc'[u] = "in" <=> pc[u] = "in"
    BY <2>2
  <2> QED BY <2>1, <2>3, StoringSame
<1>2. ASSUME NEW n \in Counts, NEW letter \in Letters, Write(t, n, letter)
      PROVE  Storing' = Storing \union {t}
  <2>1. stage' = stage /\ pc'[t] = "in" /\ \A u \in Threads : u # t => pc'[u] = pc[u]
    BY <1>2, Zenon DEF Write, CallTypes
  <2> QED BY <2>1 DEF Storing
<1>3. ASSUME WriteReturns(t)
      PROVE  t \in Storing /\ Storing' = Storing \ {t}
  <2>1. /\ stage' = stage /\ pc[t] = "in" /\ pc'[t] = "idle"
        /\ \A u \in Threads : u # t => pc'[u] = pc[u]
    BY <1>3, Zenon DEF WriteReturns, Returns, CallTypes
  <2> QED BY <2>1 DEF Storing
<1> QED BY <1>1, <1>2, <1>3, Zenon

LEMMA StoringModule ==
  ASSUME Setup, SetupInv, OpenInv
  PROVE  /\ CreateDir \/ CreateNumber \/ Greet \/ Exit => Storing' = Storing
         /\ CreateMessage => Storing = {} /\ Storing' = {"init"}
         /\ InitReturns => "init" \in Storing /\ Storing' = Storing \ {"init"}
<1>1. ASSUME CreateDir \/ CreateNumber \/ Greet \/ Exit
      PROVE  Storing' = Storing
  <2>1. UNCHANGED pc
    BY <1>1, ModuleLeaves, Zenon DEF InitFunction
  <2>2. stage' = "greet" <=> stage = "greet"
    BY <1>1 DEF CreateDir, CreateNumber, Greet, Exit
  <2> QED BY <2>1, <2>2, StoringSame, Zenon
<1>2. ASSUME CreateMessage
      PROVE  Storing = {} /\ Storing' = {"init"}
  <2>1. stage = "message" /\ stage' = "greet" /\ UNCHANGED pc
    BY <1>2, Zenon DEF CreateMessage
  <2>2. \A t \in Threads : pc[t] = "closed"
    BY <2>1 DEF OpenInv, SetupInv
  <2> QED BY <2>1, <2>2 DEF Storing
<1>3. ASSUME InitReturns
      PROVE  "init" \in Storing /\ Storing' = Storing \ {"init"}
  <2>1. stage = "greet" /\ stage' \in {"live", "unloaded"}
    BY <1>3, Zenon DEF InitReturns
  <2>2. UNCHANGED pc
    BY <1>3, ModuleLeaves, Zenon DEF InitFunction
  <2> QED BY <2>1, <2>2 DEF Storing
<1> QED BY <1>1, <1>2, <1>3, Zenon

\* While no file is there, nobody but the init function stores, and no clash is
\* possible.
LEMMA AloneWithoutFile ==
  ASSUME OpenInv, ClashInv, "message" \notin files
  PROVE  ~clash /\ \A t \in Threads : pc[t] = "closed"
BY Zenon DEF OpenInv, ClashInv

LEMMA ClashStep ==
  ASSUME Flags, CallTypes, Setup, SetupInv, OpenInv, ClashInv, [Next]_vars
  PROVE  ClashInv'
<1>1. CASE CreateDir \/ CreateNumber \/ Greet
  <2>1. Storing' = Storing /\ clash' = clash
    BY <1>1, StoringModule, Zenon DEF CreateDir, CreateNumber, Greet
  <2>2. files \subseteq files'
    <3>1. \A name, parent, entry : Creation(name, parent, entry) => files \subseteq files'
      BY DEF Creation
    <3> QED BY <1>1, <3>1, Zenon DEF CreateDir, CreateNumber, Greet, module
  <2> QED BY <2>1, <2>2, Zenon DEF ClashInv
<1>2. CASE CreateMessage
  <2>1. Storing = {} /\ Storing' = {"init"} /\ (clash' <=> clash \/ Storing # {})
    BY <1>2, StoringModule, Zenon DEF CreateMessage, Begins
  <2>2. ~clash'
    BY <2>1, Zenon DEF ClashInv
  <2> QED BY <2>1, <2>2, Zenon DEF ClashInv
<1>3. CASE InitReturns
  <2>1. "init" \in Storing /\ Storing' = Storing \ {"init"} /\ files' = files
    BY <1>3, StoringModule, Zenon DEF InitReturns
  <2>2. CASE debug_file_entry # "NULL"
    <3>1. clash' <=> clash /\ Storing # {"init"}
      BY <1>3, <2>2, Zenon DEF InitReturns, Ends
    <3>2. CASE clash'
      BY <2>1, <3>1, <3>2, Zenon DEF ClashInv
    <3>3. CASE ~clash'
      BY <2>1, <3>1, <3>3, Zenon DEF ClashInv
    <3> QED BY <3>2, <3>3
  <2>3. CASE debug_file_entry = "NULL"
    <3>1. stage = "greet" /\ clash' = clash
      BY <1>3, <2>3, Zenon DEF InitReturns
    <3>2. ~clash
      BY <2>3, <3>1, AloneWithoutFile DEF SetupInv
    <3> QED BY <2>1, <3>1, <3>2, Zenon DEF ClashInv
  <2> QED BY <2>2, <2>3
<1>4. CASE Exit
  <2>1. Storing' = Storing /\ clash' = clash
    BY <1>4, StoringModule, Zenon DEF Exit
  <2>2. Storing = {}
    BY <1>4 DEF Exit, Storing
  <2> QED BY <2>1, <2>2, Zenon DEF ClashInv
<1>5. ASSUME NEW t \in Threads,
             Open(t) \/ Close(t) \/ CopyOut(t) \/ ReadReturns(t) \/ CopyIn(t)
             \/ (\E n \in Counts : Read(t, n))
      PROVE  ClashInv'
  <2>1. Storing' = Storing
    BY <1>5, StoringTasks, Zenon
  <2>2. clash' = clash /\ files' = files
    BY <1>5, Zenon DEF Open, Close, CopyOut, ReadReturns, CopyIn, Read, module
  <2> QED BY <2>1, <2>2, Zenon DEF ClashInv
<1>6. ASSUME NEW t \in Threads, NEW n \in Counts, NEW letter \in Letters, Write(t, n, letter)
      PROVE  ClashInv'
  <2>1. Storing' = Storing \union {t} /\ (clash' <=> clash \/ Storing # {})
    BY <1>6, StoringTasks, Zenon DEF Write, Begins
  <2>2. pc[t] # "closed" /\ files' = files
    BY <1>6 DEF Write, module
  <2>3. "message" \in files'
    BY <2>2, Zenon DEF OpenInv
  <2>4. CASE clash'
    BY <2>1, <2>3, <2>4, Zenon DEF ClashInv
  <2>5. CASE ~clash'
    <3>1. Storing' = {t}
      BY <2>1, <2>5, Zenon
    <3> QED BY <2>5, <3>1, Zenon DEF ClashInv
  <2> QED BY <2>4, <2>5
<1>7. ASSUME NEW t \in Threads, WriteReturns(t) PROVE ClashInv'
  <2>1. /\ t \in Storing /\ Storing' = Storing \ {t} /\ files' = files
        /\ clash' <=> clash /\ Storing # {t}
    BY <1>7, StoringTasks, Zenon DEF WriteReturns, Ends, module
  <2>2. CASE clash'
    BY <2>1, <2>2, Zenon DEF ClashInv
  <2>3. CASE ~clash'
    BY <2>1, <2>3, Zenon DEF ClashInv
  <2> QED BY <2>2, <2>3
<1>8. CASE UNCHANGED vars
  BY <1>8, Zenon DEF vars, module, calls, ClashInv, Storing
<1> QED BY <1>1, <1>2, <1>3, <1>4, <1>5, <1>6, <1>7, <1>8, Cases, Zenon

LEMMA QuietStep ==
  ASSUME CallTypes, Setup, SetupInv, OpenInv, QuietInv, [Next]_vars
  PROVE  QuietInv'
<1>1. CASE CreateDir \/ CreateNumber \/ Greet \/ Exit
  <2>1. Storing' = Storing /\ quiet' = quiet
    BY <1>1, StoringModule, Zenon DEF CreateDir, CreateNumber, Greet, Exit, calls
  <2> QED BY <2>1, Zenon DEF QuietInv
<1>2. CASE CreateMessage
  BY <1>2, Zenon DEF CreateMessage, Begins, QuietInv
<1>3. CASE InitReturns
  <2>1. Storing' \subseteq Storing /\ quiet' = quiet
    BY <1>3, StoringModule, Zenon DEF InitReturns, calls
  <2> QED BY <2>1, Zenon DEF QuietInv
<1>4. ASSUME NEW t \in Threads,
             Open(t) \/ Close(t) \/ CopyOut(t) \/ ReadReturns(t) \/ CopyIn(t)
      PROVE  QuietInv'
  <2>1. Storing' = Storing
    BY <1>4, StoringTasks, Zenon
  <2>2. quiet' \subseteq quiet
    BY <1>4, Zenon DEF Open, Close, CopyOut, ReadReturns, CopyIn
  <2> QED BY <2>1, <2>2, Zenon DEF QuietInv
<1>5. ASSUME NEW t \in Threads, NEW n \in Counts, Read(t, n) PROVE QuietInv'
  <2>1. Storing' = Storing
    BY <1>5, StoringTasks, Zenon
  <2>2. quiet' = IF Storing = {} THEN quiet \union {t} ELSE quiet \ {t}
    BY <1>5, Zenon DEF Read
  <2> QED BY <2>1, <2>2, Zenon DEF QuietInv
<1>6. ASSUME NEW t \in Threads, NEW n \in Counts, NEW letter \in Letters, Write(t, n, letter)
      PROVE  QuietInv'
  BY <1>6, Zenon DEF Write, Begins, QuietInv
<1>7. ASSUME NEW t \in Threads, WriteReturns(t) PROVE QuietInv'
  <2>1. Storing' \subseteq Storing /\ quiet' = quiet
    BY <1>7, StoringTasks, Zenon DEF WriteReturns
  <2> QED BY <2>1, Zenon DEF QuietInv
<1>8. CASE UNCHANGED vars
  BY <1>8, Zenon DEF vars, calls, QuietInv, Storing
<1> QED BY <1>1, <1>2, <1>3, <1>4, <1>5, <1>6, <1>7, <1>8, Cases, Zenon

-----------------------------------------------------------------------------
LEMMA GreetStep ==
  ASSUME GreetInv, [Next]_vars
  PROVE  GreetInv'
<1>1. CASE InitFunction
  BY <1>1 DEF InitFunction, CreateDir, CreateNumber, CreateMessage, Greet, InitReturns, Fresh, GreetInv
<1>2. CASE Exit
  BY <1>2 DEF Exit, Fresh, GreetInv
<1>3. ASSUME NEW t \in Threads, Step(t) PROVE GreetInv'
  BY <1>3, TasksLeave, Zenon DEF GreetInv
<1>4. CASE UNCHANGED vars
  BY <1>4, Zenon DEF vars, GreetInv
<1> QED BY <1>1, <1>2, <1>3, <1>4, Zenon DEF Next

\* Two functions with the same values are the same.
LEMMA SameBuffer ==
  ASSUME NEW f \in [Offsets -> Bytes], NEW g \in [Offsets -> Bytes], \A i \in Offsets : f[i] = g[i]
  PROVE  f = g
OBVIOUS

\* When nobody stores and the two say the same, all is said.
LEMMA Settled ==
  ASSUME content' = text', Storing' = {}
  PROVE  StoreInv'
<1>1. stage' # "greet" /\ \A t \in Threads : pc'[t] # "in"
  BY DEF Storing
<1> QED BY <1>1, Zenon DEF StoreInv

\* Steps that touch neither the buffer nor what the stores are about.
LEMMA StoreLeaves ==
  ASSUME StoreInv, UNCHANGED <<clash, content, text, greeted>>, Storing' = Storing,
         stage' = "greet" => stage = "greet",
         \A t \in Threads :
           pc'[t] = "in" => pc[t] = "in" /\ position'[t] = position[t] /\ io'[t] = io[t]
  PROVE  StoreInv'
<1> SUFFICES ASSUME ~clash' PROVE StoreInv'
  BY Zenon DEF StoreInv
<1>1. Storing' = {} => content' = text'
  BY Zenon DEF StoreInv
<1>2. stage' = "greet" =>
        \A i \in Offsets : content'[i] = IF i < greeted' THEN Greeting[i] ELSE text'[i]
  BY Zenon DEF StoreInv
<1>3. ASSUME NEW t \in Threads, pc'[t] = "in", NEW i \in Offsets
      PROVE  content'[i] = IF i \in position'[t] .. io'[t].at - 1 THEN io'[t].letter ELSE text'[i]
  BY <1>3, Zenon DEF StoreInv
<1> QED BY <1>1, <1>2, <1>3, Zenon DEF StoreInv, Greeting, Offsets

LEMMA StoreModuleStep ==
  ASSUME Flags, Buffer, CallTypes, Setup, SetupInv, GreetInv, OpenInv, ClashInv, StoreInv,
         InitFunction \/ Exit
  PROVE  StoreInv'
<1>1. CASE CreateDir \/ CreateNumber
  <2>1. Storing' = Storing
    BY <1>1, StoringModule, Zenon
  <2>2. UNCHANGED <<clash, content, text, greeted, pc, position, io>> /\ stage' # "greet"
    BY <1>1 DEF CreateDir, CreateNumber, calls
  <2> QED BY <2>1, <2>2, StoreLeaves, Zenon
<1>2. CASE CreateMessage
  <2>1. /\ Storing = {} /\ Storing' = {"init"}
        /\ stage = "message" /\ stage' = "greet"
        /\ UNCHANGED <<content, text, greeted, pc>>
    BY <1>2, StoringModule, Zenon DEF CreateMessage
  <2>2. content = text
    BY <2>1, Zenon DEF ClashInv, StoreInv
  <2>3. \A t \in Threads : pc'[t] # "in"
    BY <2>1 DEF Storing
  <2>4. greeted' = 0
    BY <2>1 DEF GreetInv
  <2>5. \A i \in Offsets : content'[i] = IF i < greeted' THEN Greeting[i] ELSE text'[i]
    BY <2>1, <2>2, <2>4 DEF Offsets
  <2> QED BY <2>1, <2>3, <2>5, Zenon DEF StoreInv, Greeting, Offsets
<1>3. CASE Greet
  <2>1. /\ greeted \in Offsets /\ greeted' = greeted + 1 /\ stage = "greet"
        /\ content' = [content EXCEPT ![greeted] = Greeting[greeted]]
        /\ UNCHANGED <<stage, text, clash, pc>>
    BY <1>3, Zenon DEF Greet, calls
  <2>2. Storing' = Storing /\ "init" \in Storing
    BY <1>3, <2>1, StoringModule, Zenon DEF Storing
  <2>3. CASE clash
    BY <2>1, <2>3, Zenon DEF StoreInv
  <2>4. CASE ~clash
    <3>1. \A t \in Threads : pc[t] # "in"
      <4> SUFFICES ASSUME NEW t \in Threads, pc[t] = "in" PROVE FALSE
        OBVIOUS
      <4>1. t \in Storing
        BY DEF Storing
      <4>2. t = "init"
        BY <2>2, <2>4, <4>1, Zenon DEF ClashInv
      <4> QED BY <4>2
    <3>2. \A i \in Offsets : content[i] = IF i < greeted THEN Greeting[i] ELSE text[i]
      BY <2>1, <2>4, Zenon DEF StoreInv
    <3>3. \A i \in Offsets : content'[i] = IF i = greeted THEN Greeting[i] ELSE content[i]
      BY <2>1, Zenon DEF Buffer
    <3>4. \A i \in Offsets : i < greeted' <=> i < greeted \/ i = greeted
      BY <2>1 DEF Offsets
    <3>5. \A i \in Offsets : content'[i] = IF i < greeted' THEN Greeting[i] ELSE text'[i]
      BY <2>1, <3>2, <3>3, <3>4, Zenon
    <3>6. Storing' # {} /\ \A t \in Threads : pc'[t] # "in"
      BY <2>1, <2>2, <3>1, Zenon
    <3> QED BY <3>5, <3>6, Zenon DEF StoreInv, Greeting, Offsets
  <2> QED BY <2>3, <2>4
<1>4. CASE InitReturns
  <2>1. /\ "init" \in Storing /\ Storing' = Storing \ {"init"}
        /\ stage = "greet" /\ greeted \notin Offsets /\ UNCHANGED pc
    BY <1>4, StoringModule, Zenon DEF InitReturns, calls
  <2>2. CASE debug_file_entry = "NULL"
    <3>1. Fresh /\ ~clash
      BY <1>4, <2>1, <2>2, AloneWithoutFile DEF InitReturns, SetupInv
    <3>2. Storing' = {}
      BY <2>1, <3>1, Zenon DEF ClashInv
    <3> QED BY <3>1, <3>2, Settled, Zenon DEF Fresh
  <2>3. CASE debug_file_entry # "NULL"
    <3>1. /\ UNCHANGED content /\ stage' = "live"
          /\ clash' <=> clash /\ Storing # {"init"}
          /\ text' = IF ~clash THEN Greeting ELSE IF Storing = {"init"} THEN content' ELSE text
      BY <1>4, <2>3, Zenon DEF InitReturns, Ends
    <3>2. CASE clash'
      BY <3>2, Zenon DEF StoreInv
    <3>3. CASE ~clash'
      <4>1. Storing' = {}
        BY <2>1, <3>1, <3>3, Zenon DEF ClashInv
      <4>2. content' = text'
        <5>1. CASE clash
          BY <3>1, <3>3, <5>1, Zenon
        <5>2. CASE ~clash
          <6>1. \A i \in Offsets : i < greeted
            BY <2>1 DEF Offsets, Lengths, Buffer
          <6>2. \A i \in Offsets : content[i] = Greeting[i]
            BY <2>1, <5>2, <6>1, Zenon DEF StoreInv
          <6>3. content = Greeting
            BY <6>2, Constants, SameBuffer DEF Buffer
          <6> QED BY <3>1, <5>2, <6>3, Zenon
        <5> QED BY <5>1, <5>2
      <4> QED BY <4>1, <4>2, Settled, Zenon
    <3> QED BY <3>2, <3>3
  <2> QED BY <2>2, <2>3
<1>5. CASE Exit
  <2>1. Fresh /\ Storing' = Storing /\ Storing = {}
    BY <1>5, StoringModule DEF Exit, Storing
  <2> QED BY <2>1, Settled, Zenon DEF Fresh
<1> QED BY <1>1, <1>2, <1>3, <1>4, <1>5, Zenon DEF InitFunction

\* A task that stores without a clash is the only one.
LEMMA OnlyStore ==
  ASSUME ClashInv, ~clash, NEW t \in Threads, pc[t] = "in"
  PROVE  Storing = {t} /\ stage # "greet" /\ \A u \in Threads : pc[u] = "in" => u = t
<1>1. t \in Storing
  BY DEF Storing
<1>2. Storing = {t}
  BY <1>1, Zenon DEF ClashInv
<1>3. t # "init"
  OBVIOUS
<1> QED BY <1>2, <1>3 DEF Storing

LEMMA StoreTaskStep ==
  ASSUME Flags, Buffer, CallTypes, CallInv, ClashInv, StoreInv, NEW t \in Threads, Step(t)
  PROVE  StoreInv'
<1>1. CASE Open(t) \/ Close(t) \/ CopyOut(t) \/ ReadReturns(t) \/ (\E n \in Counts : Read(t, n))
  <2>1. Storing' = Storing
    BY <1>1, StoringTasks, Zenon
  <2>2. UNCHANGED <<clash, content, text, greeted, stage>>
    BY <1>1, Zenon DEF Open, Close, CopyOut, ReadReturns, Read
  <2>3. /\ \A u \in Threads : u # t => /\ pc'[u] = pc[u] /\ position'[u] = position[u]
                                       /\ io'[u] = io[u]
        /\ pc'[t] \in {"idle", "closed", "out"}
    BY <1>1, Zenon DEF Open, Close, CopyOut, ReadReturns, Read, Returns, CallTypes
  <2>4. pc'[t] # "in"
    BY <2>3
  <2> QED BY <2>1, <2>2, <2>3, <2>4, StoreLeaves, Zenon
<1>2. ASSUME NEW n \in Counts, NEW letter \in Letters, Write(t, n, letter)
      PROVE  StoreInv'
  <2>1. CASE clash'
    BY <2>1, Zenon DEF StoreInv
  <2>2. CASE ~clash'
    <3>1. /\ ~clash /\ Storing = {} /\ UNCHANGED <<stage, content, text, position>>
      BY <1>2, <2>2, Zenon DEF Write, Begins
    <3>2. content' = text'
      BY <3>1, Zenon DEF StoreInv
    <3>3. Storing' = {t} /\ stage' # "greet"
      BY <1>2, <3>1, StoringTasks DEF Storing
    <3>4. \A u \in Threads : pc'[u] = "in" => u = t
      BY <3>3 DEF Storing
    <3>5. io'[t].at = position'[t] /\ position'[t] \in Nat
      BY <1>2 DEF Write, CallTypes, Lengths
    <3>6. position'[t] .. io'[t].at - 1 = {}
      BY <3>5
    <3> QED BY <3>2, <3>3, <3>4, <3>6, Zenon DEF StoreInv
  <2> QED BY <2>1, <2>2
<1>3. CASE CopyIn(t)
  <2>1. /\ pc[t] = "in" /\ UNCHANGED <<pc, position, clash, text, stage>>
        /\ content' = [content EXCEPT ![io[t].at] = io[t].letter]
        /\ io' = [io EXCEPT ![t].at = @ + 1]
    BY <1>3, Zenon DEF CopyIn
  <2>2. CASE clash
    BY <2>1, <2>2, Zenon DEF StoreInv
  <2>3. CASE ~clash
    <3>1. Storing = {t} /\ stage # "greet" /\ \A u \in Threads : pc[u] = "in" => u = t
      BY <2>1, <2>3, OnlyStore, Zenon
    <3>2. Storing' # {}
      BY <1>3, <3>1, StoringTasks, Zenon
    <3>3. io'[t].at = io[t].at + 1 /\ io'[t].letter = io[t].letter
      BY <2>1 DEF CallTypes
    <3>4. io[t].at \in Nat /\ position[t] \in Nat /\ position[t] <= io[t].at
      BY <2>1 DEF CallTypes, Lengths, CallInv
    <3>5. \A i \in Offsets : i \in position[t] .. io'[t].at - 1
                             <=> i \in position[t] .. io[t].at - 1 \/ i = io[t].at
      BY <3>3, <3>4 DEF Offsets
    <3>6. \A i \in Offsets : content'[i] = IF i = io[t].at THEN io[t].letter ELSE content[i]
      BY <2>1, Zenon DEF Buffer
    <3>7. \A i \in Offsets :
            content[i] = IF i \in position[t] .. io[t].at - 1 THEN io[t].letter ELSE text[i]
      BY <2>1, <2>3, Zenon DEF StoreInv
    <3>8. \A i \in Offsets :
            content'[i] = IF i \in position'[t] .. io'[t].at - 1 THEN io'[t].letter ELSE text'[i]
      BY <2>1, <3>3, <3>5, <3>6, <3>7, Zenon
    <3>9. stage' # "greet" /\ \A u \in Threads : pc'[u] = "in" => u = t
      BY <2>1, <3>1, Zenon
    <3> QED BY <3>2, <3>8, <3>9, Zenon DEF StoreInv
  <2> QED BY <2>2, <2>3
<1>4. CASE WriteReturns(t)
  <2> DEFINE rest == io[t].at .. io[t].end - 1
             new == [i \in Offsets |-> IF i \in position[t] .. io[t].at - 1 THEN io[t].letter
                                       ELSE IF i \in rest THEN "NUL" ELSE text[i]]
  <2>1. /\ pc[t] = "in"
        /\ content' = [i \in Offsets |-> IF i \in rest THEN "NUL" ELSE content[i]]
        /\ clash' <=> clash /\ Storing # {t}
        /\ text' = IF ~clash THEN new ELSE IF Storing = {t} THEN content' ELSE text
    BY <1>4, Zenon DEF WriteReturns, Ends
  <2>2. t \in Storing /\ Storing' = Storing \ {t}
    BY <1>4, StoringTasks, Zenon
  <2>3. CASE clash'
    BY <2>3, Zenon DEF StoreInv
  <2>4. CASE ~clash'
    <3>1. Storing' = {}
      BY <2>1, <2>2, <2>4, Zenon DEF ClashInv
    <3>2. CASE clash
      <4>1. content' = text'
        BY <2>1, <2>4, <3>2, Zenon
      <4> QED BY <3>1, <4>1, Settled
    <3>3. CASE ~clash
      <4>1. \A i \in Offsets :
              content[i] = IF i \in position[t] .. io[t].at - 1 THEN io[t].letter ELSE text[i]
        BY <2>1, <3>3, Zenon DEF StoreInv
      <4>2. io[t].at \in Nat /\ position[t] \in Nat /\ io[t].end \in Nat
        BY DEF CallTypes, Lengths
      <4>3. \A i \in Offsets : ~(i \in position[t] .. io[t].at - 1 /\ i \in rest)
        BY <4>2 DEF Offsets
      <4> HIDE DEF rest
      <4>4. content' = new
        BY <2>1, <4>1, <4>3, Zenon
      <4>5. text' = new
        BY <2>1, <3>3, Zenon
      <4> QED BY <3>1, <4>4, <4>5, Settled, Zenon
    <3> QED BY <3>2, <3>3
  <2> QED BY <2>3, <2>4
<1> QED BY <1>1, <1>2, <1>3, <1>4, Zenon DEF Step

LEMMA StoreStep ==
  ASSUME Flags, Buffer, CallTypes, Setup, SetupInv, GreetInv, OpenInv, CallInv, ClashInv, StoreInv,
         [Next]_vars
  PROVE  StoreInv'
<1>1. CASE InitFunction \/ Exit
  BY <1>1, StoreModuleStep, Zenon
<1>2. ASSUME NEW t \in Threads, Step(t) PROVE StoreInv'
  BY <1>2, StoreTaskStep, Zenon
<1>3. CASE UNCHANGED vars
  <2>1. UNCHANGED <<clash, content, text, greeted, stage, pc, position, io>>
    BY <1>3, Zenon DEF vars, calls
  <2>2. Storing' = Storing
    BY <2>1, Zenon DEF Storing
  <2> QED BY <2>1, <2>2, StoreLeaves, Zenon
<1> QED BY <1>1, <1>2, <1>3, Zenon DEF Next

-----------------------------------------------------------------------------
\* While quiet readers are there, text stays as it is, unless the module goes.
LEMMA TextKept ==
  ASSUME CallTypes, Setup, SetupInv, OpenInv, QuietInv, quiet' # {}, [Next]_vars
  PROVE  text' = text \/ \A t \in Threads : pc'[t] = "closed"
<1>1. CASE CreateDir \/ CreateNumber \/ CreateMessage \/ Greet
  BY <1>1, Zenon DEF CreateDir, CreateNumber, CreateMessage, Greet
<1>2. CASE InitReturns
  <2>1. "init" \in Storing /\ quiet' = quiet
    BY <1>2, StoringModule, Zenon DEF InitReturns, calls
  <2> QED BY <2>1, Zenon DEF QuietInv
<1>3. CASE Exit
  BY <1>3, Zenon DEF Exit, calls
<1>4. ASSUME NEW t \in Threads,
             Open(t) \/ Close(t) \/ CopyOut(t) \/ ReadReturns(t) \/ CopyIn(t)
             \/ (\E n \in Counts : Read(t, n))
             \/ (\E n \in Counts, letter \in Letters : Write(t, n, letter))
      PROVE  text' = text
  BY <1>4, Zenon DEF Open, Close, CopyOut, ReadReturns, CopyIn, Read, Write
<1>5. ASSUME NEW t \in Threads, WriteReturns(t) PROVE text' = text
  <2>1. t \in Storing /\ quiet' = quiet
    BY <1>5, StoringTasks, Zenon DEF WriteReturns
  <2> QED BY <2>1, Zenon DEF QuietInv
<1>6. CASE UNCHANGED vars
  BY <1>6, Zenon DEF vars
<1> QED BY <1>1, <1>2, <1>3, <1>4, <1>5, <1>6, Cases, Zenon

\* What a quiet reader has, it keeps, and what it gets next is in text.
LEMMA ReadsStep ==
  ASSUME Flags, Buffer, CallTypes, Setup, SetupInv, OpenInv, CallInv, ClashInv, StoreInv, QuietInv,
         ReadsSettled, [Next]_vars
  PROVE  ReadsSettled'
<1> SUFFICES ASSUME NEW u \in quiet', pc'[u] = "out",
                    NEW j \in 1 .. Len(got'[u])
             PROVE  got'[u][j] = text'[position'[u] + j - 1]
  BY Zenon DEF ReadsSettled
<1>0. u \in Threads
  BY CallTypesStep, Zenon DEF CallTypes
<1>1. text' = text
  BY <1>0, TextKept
<1>2. ASSUME u \in quiet, pc[u] = "out", position'[u] = position[u], got'[u] = got[u]
      PROVE  got'[u][j] = text'[position'[u] + j - 1]
  BY <1>1, <1>2, Zenon DEF ReadsSettled
<1>3. CASE InitFunction \/ Exit
  <2>1. UNCHANGED <<pc, position, got>> /\ u \in quiet
    BY <1>3, ModuleLeaves, Zenon
  <2> QED BY <1>2, <2>1, Zenon
<1>4. ASSUME NEW t \in Threads,
             Open(t) \/ Close(t) \/ ReadReturns(t) \/ CopyIn(t) \/ WriteReturns(t)
      PROVE  got'[u][j] = text'[position'[u] + j - 1]
  <2>1. u \in quiet
    BY <1>4, Zenon DEF Open, Close, ReadReturns, CopyIn, WriteReturns
  <2>2. CASE u = t
    <3>1. pc'[t] \in {"idle", "closed", "in"}
      BY <1>4, Zenon DEF Open, Close, ReadReturns, CopyIn, WriteReturns, Returns, CallTypes
    <3> QED BY <2>2, <3>1
  <2>3. CASE u # t
    <3>1. pc'[u] = pc[u] /\ position'[u] = position[u] /\ got'[u] = got[u]
      BY <1>0, <1>4, <2>3, Zenon DEF Open, Close, ReadReturns, CopyIn, WriteReturns, Returns, CallTypes
    <3> QED BY <1>2, <2>1, <3>1, Zenon
  <2> QED BY <2>2, <2>3
<1>5. ASSUME NEW t \in Threads, CopyOut(t)
      PROVE  got'[u][j] = text'[position'[u] + j - 1]
  <2>1. /\ UNCHANGED <<pc, position, quiet>> /\ pc[t] = "out" /\ io[t].at < io[t].end
        /\ got' = [got EXCEPT ![t] = Append(@, content[io[t].at])]
    BY <1>5, Zenon DEF CopyOut
  <2>2. CASE u # t
    <3>1. got'[u] = got[u]
      BY <1>0, <2>1, <2>2, Zenon DEF CallTypes
    <3> QED BY <1>2, <2>1, <3>1, Zenon
  <2>3. CASE u = t
    <3>1. content = text
      BY <2>1, Zenon DEF QuietInv, StoreInv, ClashInv
    <3>2. got'[u] = Append(got[u], content[io[u].at])
      BY <2>1, <2>3, Zenon DEF CallTypes
    <3>3. /\ got[u] \in Seq(Bytes) /\ io[u].at \in Offsets
          /\ io[u].at \in Nat /\ position[u] \in Nat
      BY <1>0, <2>1, <2>3 DEF CallTypes, Lengths, Offsets
    <3>4. content[io[u].at] \in Bytes
      BY <3>3, Zenon DEF Buffer
    <3>5. Len(got[u]) = io[u].at - position[u]
      BY <1>0, <2>1, <2>3, Zenon DEF CallInv
    <3>6. CASE j \in 1 .. Len(got[u])
      <4>1. got'[u][j] = got[u][j]
        BY <3>2, <3>3, <3>4, <3>6
      <4>2. got[u][j] = text[position[u] + j - 1]
        BY <2>1, <3>6, Zenon DEF ReadsSettled
      <4> QED BY <1>1, <2>1, <4>1, <4>2, Zenon
    <3>7. CASE j \notin 1 .. Len(got[u])
      <4>1. Len(got'[u]) = Len(got[u]) + 1 /\ Len(got[u]) \in Nat
        BY <3>2, <3>3, <3>4
      <4>2. j = Len(got[u]) + 1
        BY <3>7, <4>1
      <4>3. got'[u][j] = content[io[u].at]
        BY <3>2, <3>3, <3>4, <4>2
      <4>4. position[u] + j - 1 = io[u].at
        BY <3>3, <3>5, <4>2
      <4>5. position'[u] = position[u]
        BY <2>1, Zenon
      <4> QED BY <1>1, <3>1, <4>3, <4>4, <4>5, Zenon
    <3> QED BY <3>6, <3>7
  <2> QED BY <2>2, <2>3
<1>6. ASSUME NEW t \in Threads, NEW n \in Counts, Read(t, n)
      PROVE  got'[u][j] = text'[position'[u] + j - 1]
  <2>1. CASE u # t
    <3>1. /\ u \in quiet /\ pc'[u] = pc[u] /\ position'[u] = position[u] /\ got'[u] = got[u]
      BY <1>0, <1>6, <2>1, Zenon DEF Read, CallTypes
    <3> QED BY <1>2, <3>1, Zenon
  <2>2. CASE u = t
    <3>1. got'[u] = <<>>
      BY <1>6, <2>2, Zenon DEF Read, CallTypes
    <3>2. Len(got'[u]) = 0
      BY <3>1
    <3> QED BY <3>2
  <2> QED BY <2>1, <2>2
<1>7. ASSUME NEW t \in Threads, NEW n \in Counts, NEW letter \in Letters, Write(t, n, letter)
      PROVE  got'[u][j] = text'[position'[u] + j - 1]
  BY <1>7, Zenon DEF Write, Begins
<1>8. CASE UNCHANGED vars
  <2>1. UNCHANGED <<pc, position, got, quiet>>
    BY <1>8, Zenon DEF vars, calls
  <2> QED BY <1>2, <2>1, Zenon
<1> QED BY <1>3, <1>4, <1>5, <1>6, <1>7, <1>8, Cases, Zenon DEF InitFunction

-----------------------------------------------------------------------------
LEMMA InvInit == Init => IInv
<1> SUFFICES ASSUME Init PROVE IInv
  OBVIOUS
<1>1. Setup /\ Flags /\ SetupInv /\ GreetInv /\ OpenInv
  BY DEF Init, Setup, Flags, SetupInv, GreetInv, OpenInv
<1>2. Buffer
  <2>1. content = Zeroes /\ text = Zeroes /\ greeted = 0
    BY Zenon DEF Init
  <2>2. 0 \in Lengths
    BY DEF Lengths
  <2> QED BY <2>1, <2>2, Constants, Zenon DEF Buffer
<1>3. CallTypes
  BY DEF Init, CallTypes, Lengths
<1>4. Storing = {} /\ ~clash /\ content = text /\ quiet = {} /\ stage = "unloaded"
      /\ \A t \in Threads : pc[t] = "closed"
  BY DEF Init, Storing
<1>5. CallInv /\ ClashInv /\ StoreInv /\ QuietInv /\ ReadsSettled
  BY <1>4 DEF CallInv, ClashInv, StoreInv, QuietInv, ReadsSettled
<1> QED BY <1>1, <1>2, <1>3, <1>5, TypeParts, Zenon DEF IInv

\* The invariant holds in every state of the module and its users.
THEOREM Invariance == Spec => []IInv
<1>1. IInv /\ [Next]_vars => IInv'
  <2> SUFFICES ASSUME IInv, [Next]_vars PROVE IInv'
    OBVIOUS
  <2>1. /\ Setup /\ Buffer /\ CallTypes /\ Flags
        /\ SetupInv /\ GreetInv /\ OpenInv /\ CallInv
        /\ ClashInv /\ StoreInv /\ QuietInv /\ ReadsSettled
    BY TypeParts, Zenon DEF IInv
  <2>2. Setup' /\ Buffer' /\ CallTypes' /\ Flags'
    BY <2>1, SetupStep, BufferStep, CallTypesStep, FlagsStep, Zenon
  <2>3. SetupInv' /\ GreetInv' /\ OpenInv' /\ CallInv'
    BY <2>1, SetupInvStep, GreetStep, OpenStep, CallStep, Zenon
  <2>4. ClashInv' /\ QuietInv'
    BY <2>1, ClashStep, QuietStep, Zenon
  <2>5. StoreInv'
    BY <2>1, StoreStep, Zenon
  <2>6. ReadsSettled'
    BY <2>1, ReadsStep, Zenon
  <2>7. TypeOK'
    BY <2>2, Zenon DEF TypeOK, Setup, Buffer, CallTypes, Flags, Bytes, Lengths
  <2> QED BY <2>3, <2>4, <2>5, <2>6, <2>7, Zenon DEF IInv
<1> QED BY InvInit, <1>1, PTL DEF Spec

\* Type correctness: no call of debug_read() or debug_write() leaves the buffer,
\* whatever the counts and positions.
THEOREM TypeCorrect == Spec => []TypeOK
<1>1. IInv => TypeOK
  BY Zenon DEF IInv
<1> QED BY <1>1, Invariance, PTL

\* A read beside which nothing is stored delivers what the buffer held at one
\* moment.
THEOREM ReadsAtOnce == Spec => []ReadsSettled
<1>1. IInv => ReadsSettled
  BY Zenon DEF IInv
<1> QED BY <1>1, Invariance, PTL

\* Whatever could not be created, no file of an unloaded module is left, but for
\* what an init function that gave up half-way leaves.
THEOREM NoneDangles == Spec => []NothingDangles
<1>1. IInv => NothingDangles
  BY DEF IInv, SetupInv, OpenInv, NothingDangles
<1> QED BY <1>1, Invariance, PTL
=============================================================================

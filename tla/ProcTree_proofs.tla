--------------------------- MODULE ProcTree_proofs ---------------------------
(***************************************************************************)
(* Proofs about ProcTree, whatever entries other modules have in /proc and *)
(* whichever creations fail: lkm_mem leaves nothing behind, shows no field *)
(* of memory before it is filled in, and takes away what is its own and    *)
(* there, children first; nobody's entries disappear by another's doing.   *)
(***************************************************************************)
EXTENDS ProcTree, SequenceTheorems, TLAPS

USE ProcTreeAssumption, OtherAssumption

Names == {Entries[i].name : i \in 1 .. 9}
Paths == Seq(Names)

Types ==
  /\ at \in 0 .. 19
  /\ entry \in [1 .. 9 -> Paths \union {NULL}]

\* The entries that were come to and not yet removed.
Standing ==
  IF at = 0 THEN {} ELSE IF at <= 10 THEN 1 .. at - 1 ELSE {Removals[k] : k \in at - 10 .. 9}

\* What lkm_mem has in /proc it knows of, and has yet to remove.
KnownInv ==
  \A p \in DOMAIN tree : tree[p] = Mem => p # NULL /\ \E i \in Standing : entry[i] = p

\* The fields are filled in when there is a file, even of a module that is gone.
FilledInv ==
  \/ MemFiles \subseteq si
  \/ at \in {0, 1} /\ \A i \in 1 .. 9 : entry[i] = NULL

\* What was made is below what its parent was and is; parents come first.
PathInv ==
  /\ \A i \in 1 .. 9 : entry[i] # NULL => entry[i] = PathOf(i)
  /\ at \in 1 .. 9 => \A i \in at .. 9 : entry[i] = NULL

IInv == Types /\ KnownInv /\ FilledInv /\ PathInv

-----------------------------------------------------------------------------
LEMMA Nine == Last = 9 /\ MemFiles = 3 .. 6
BY DEF Last, Entries, MemFiles

\* The entries have names, and their parents come first.
LEMMA EntryFields ==
  ASSUME NEW i \in 1 .. 9
  PROVE  /\ Entries[i].name \in Names
         /\ Entries[i].parent \in 0 .. 9 /\ Entries[i].parent < i
<1>1. i \in {1, 2, 3, 4, 5, 6, 7, 8, 9}
  OBVIOUS
<1>2. Entries[i].parent \in 0 .. 9 /\ Entries[i].parent < i
  BY <1>1 DEF Entries
<1>3. Entries[i].name \in Names
  BY DEF Names
<1> QED BY <1>2, <1>3

\* Every entry is removed once.
LEMMA RemovesEach ==
  /\ \A k \in 1 .. 9 : Removals[k] \in 1 .. 9
  /\ \A i \in 1 .. 9 : \E k \in 1 .. 9 : Removals[k] = i
<1>1. /\ Removals[1] = 3 /\ Removals[2] = 4 /\ Removals[3] = 5 /\ Removals[4] = 6
      /\ Removals[5] = 2 /\ Removals[6] = 8 /\ Removals[7] = 9 /\ Removals[8] = 7
      /\ Removals[9] = 1
  BY DEF Removals
<1>2. \A k \in 1 .. 9 : Removals[k] \in 1 .. 9
  <2>1. SUFFICES ASSUME NEW k \in 1 .. 9 PROVE Removals[k] \in 1 .. 9
    OBVIOUS
  <2>2. k \in {1, 2, 3, 4, 5, 6, 7, 8, 9}
    OBVIOUS
  <2> QED BY <1>1, <2>2
<1>3. \A i \in 1 .. 9 : \E k \in 1 .. 9 : Removals[k] = i
  <2>1. SUFFICES ASSUME NEW i \in 1 .. 9 PROVE \E k \in 1 .. 9 : Removals[k] = i
    OBVIOUS
  <2>2. i \in {1, 2, 3, 4, 5, 6, 7, 8, 9}
    OBVIOUS
  <2> QED BY <1>1, <2>2
<1> QED BY <1>2, <1>3

\* The path of an entry is a path, never NULL.
LEMMA PathType ==
  ASSUME Types, NEW i \in 1 .. 9
  PROVE  PathOf(i) \in Paths /\ PathOf(i) # NULL
<1>1. PICK n \in Names, j \in 0 .. 9 : n = Entries[i].name /\ j = Entries[i].parent
  BY EntryFields
<1>2. PICK dir \in Paths \union {NULL} : dir = IF j = 0 THEN NULL ELSE entry[j]
  BY DEF Types
<1>3. PICK base \in Seq(Names) : base = IF dir = NULL THEN <<>> ELSE dir
  <2> <<>> \in Seq(Names)
    BY EmptySeq
  <2> QED BY <1>2 DEF Paths
<1>4. PathOf(i) = Append(base, n)
  BY <1>1, <1>2, <1>3, Zenon DEF PathOf
<1>5. PathOf(i) \in Seq(Names)
  BY <1>1, <1>3, <1>4, AppendProperties
<1>6. NULL \notin Paths
  BY Nine DEF Paths, Names, Last
<1> QED BY <1>5, <1>6 DEF Paths

\* What RemoveProcEntry leaves of an owner's entries was there before, and is
\* not what was removed.
LEMMA Removed ==
  ASSUME NEW path, RemoveProcEntry(path), NEW p \in DOMAIN tree'
  PROVE  p \in DOMAIN tree /\ tree'[p] = tree[p] /\ p # path
BY DEF RemoveProcEntry, Without

\* A path changes only with an earlier entry.
LEMMA PathsStay ==
  ASSUME NEW i \in 1 .. 9, \A j \in 1 .. 9 : j < i => entry'[j] = entry[j]
  PROVE  PathOf(i)' = PathOf(i)
<1>1. Entries[i].parent \in 0 .. 9 /\ Entries[i].parent < i
  BY EntryFields
<1>2. PICK j \in 0 .. 9 : j = Entries[i].parent /\ j < i
  BY <1>1
<1>3. (IF j = 0 THEN NULL ELSE entry'[j]) = IF j = 0 THEN NULL ELSE entry[j]
  <2>1. j = 0 \/ j \in 1 .. 9
    BY <1>2
  <2> QED BY <1>2, <2>1
<1> QED BY <1>2, <1>3, Zenon DEF PathOf

\* Whoever leaves lkm_mem and its entries alone keeps the invariant.
LEMMA Kept ==
  ASSUME IInv, UNCHANGED memVars,
         \A p \in DOMAIN tree' : tree'[p] = Mem => p \in DOMAIN tree /\ tree[p] = Mem
  PROVE  IInv'
<1>1. Types' /\ Standing' = Standing /\ entry' = entry /\ si' = si /\ at' = at
  BY DEF IInv, Types, Standing, memVars
<1>2. KnownInv'
  BY <1>1 DEF IInv, KnownInv
<1>3. PathInv'
  BY <1>1, PathsStay DEF IInv, PathInv
<1> QED BY <1>1, <1>2, <1>3 DEF IInv, FilledInv

-----------------------------------------------------------------------------
LEMMA LoadStep == ASSUME IInv, MemLoad PROVE IInv'
<1>1. /\ at = 0 /\ at' = 1 /\ tree' = tree
      /\ entry' = [i \in 1 .. 9 |-> NULL]
  BY Nine DEF MemLoad, Unloaded
<1>2. \A p \in DOMAIN tree : tree[p] # Mem
  BY <1>1 DEF IInv, KnownInv, Standing
<1> QED BY <1>1, <1>2 DEF IInv, Types, KnownInv, FilledInv, PathInv

\* A creation by lkm_mem keeps the invariant.
LEMMA CreateStep == ASSUME IInv, MemCreate PROVE IInv'
<1>1. /\ at \in 1 .. 9 /\ at' = at + 1 /\ entry \in [1 .. 9 -> Paths \union {NULL}]
      /\ Standing = 1 .. at - 1 /\ Standing' = 1 .. at
  BY Nine DEF MemCreate, Creating, IInv, Types, Standing
<1>2. FilledInv'
  <2>1. si \subseteq si' /\ (at = 1 => MemFiles \subseteq si')
    BY DEF MemCreate, Filled
  <2> QED BY <1>1, <2>1 DEF IInv, FilledInv
<1>3. CASE Created(PathOf(at), Mem) /\ entry' = [entry EXCEPT ![at] = PathOf(at)]
  <2>1. PathOf(at) \in Paths /\ PathOf(at) # NULL
    BY <1>1, PathType DEF IInv
  <2>2. Types'
    BY <1>1, <1>3, <2>1 DEF Types
  <2>3. /\ entry'[at] = PathOf(at)
        /\ \A i \in 1 .. at - 1 : entry'[i] = entry[i]
    BY <1>1, <1>3
  <2>4. \A p \in DOMAIN tree' : p = PathOf(at) \/ (p \in DOMAIN tree /\ tree'[p] = tree[p])
    BY <1>3 DEF Created
  <2>5. KnownInv'
    BY <1>1, <2>1, <2>3, <2>4 DEF IInv, KnownInv
  <2>6. PathInv'
    <3>1. ASSUME NEW i \in 1 .. at PROVE PathOf(i)' = PathOf(i)
      BY <1>1, <2>3, PathsStay
    <3>2. ASSUME NEW i \in 1 .. 9, entry'[i] # NULL PROVE entry'[i] = PathOf(i)'
      <4>1. i \in 1 .. at /\ (i = at \/ entry[i] = entry'[i])
        BY <1>1, <1>3, <3>2 DEF IInv, PathInv
      <4> QED BY <1>1, <2>3, <3>1, <3>2, <4>1 DEF IInv, PathInv
    <3> QED BY <1>1, <1>3, <3>2 DEF IInv, PathInv
  <2> QED BY <1>2, <2>2, <2>5, <2>6 DEF IInv
<1>4. CASE UNCHANGED <<tree, entry>>
  <2>1. PathInv'
    BY <1>1, <1>4, PathsStay DEF IInv, PathInv
  <2> QED BY <1>1, <1>2, <1>4, <2>1 DEF IInv, Types, KnownInv
<1> QED BY <1>3, <1>4 DEF MemCreate, Refused

\* The beginning of lkm_mem_exit() keeps the invariant.
LEMMA ExitStep == ASSUME IInv, MemExit PROVE IInv'
<1>1. /\ at = 10 /\ at' = 11 /\ UNCHANGED <<tree, entry, si>>
  BY Nine DEF MemExit, Loaded
<1>2. Standing = 1 .. 9 /\ Standing' = {Removals[k] : k \in 1 .. 9}
  BY <1>1 DEF Standing
<1>3. \A i \in Standing : i \in Standing'
  BY <1>2, RemovesEach
<1>4. KnownInv'
  BY <1>1, <1>3 DEF IInv, KnownInv
<1>5. PathInv'
  BY <1>1, PathsStay DEF IInv, PathInv
<1> QED BY <1>1, <1>4, <1>5 DEF IInv, Types, FilledInv

\* A removal by lkm_mem keeps the invariant.
LEMMA RemoveStep == ASSUME IInv, MemRemove PROVE IInv'
<1>1. /\ at \in 11 .. 19 /\ UNCHANGED <<entry, si>>
      /\ at' = IF at = 19 THEN 0 ELSE at + 1
      /\ Remove(Removals[at - 10])
  BY Nine DEF MemRemove, Removing
<1>2. Standing = {Removals[k] : k \in at - 10 .. 9}
  BY <1>1 DEF Standing
<1>3. \A i \in Standing : i = Removals[at - 10] \/ i \in Standing'
  <2>1. CASE at = 19
    BY <1>2, <2>1
  <2>2. CASE at # 19
    <3>1. Standing' = {Removals[k] : k \in at - 9 .. 9}
      BY <1>1, <2>2 DEF Standing
    <3> QED BY <1>1, <1>2, <3>1
  <2> QED BY <2>1, <2>2
<1>4. ASSUME NEW p \in DOMAIN tree', tree'[p] = Mem
      PROVE  /\ p # NULL
             /\ p \in DOMAIN tree /\ tree[p] = Mem /\ p # entry[Removals[at - 10]]
  <2>1. CASE entry[Removals[at - 10]] # NULL
    <3>1. Removals[at - 10] \in 1 .. 9
      BY <1>1, RemovesEach
    <3>2. RemoveProcEntry(entry[Removals[at - 10]])
      BY <1>1, <2>1, <3>1 DEF Remove, IInv, PathInv
    <3> QED BY <1>4, <3>2, Removed DEF IInv, KnownInv
  <2>2. CASE entry[Removals[at - 10]] = NULL
    BY <1>1, <1>4, <2>2 DEF Remove, IInv, KnownInv
  <2> QED BY <2>1, <2>2
<1>5. KnownInv'
  BY <1>1, <1>3, <1>4 DEF IInv, KnownInv
<1>6. Types'
  BY <1>1 DEF IInv, Types
<1>7. FilledInv'
  BY <1>1 DEF IInv, FilledInv
<1>8. PathInv'
  BY <1>1, PathsStay DEF IInv, PathInv
<1> QED BY <1>5, <1>6, <1>7, <1>8 DEF IInv

\* lkm_proc and other modules create nothing in the name of lkm_mem.
LEMMA OthersStep ==
  ASSUME IInv, ProcInit \/ ProcExit \/ OtherCreate \/ OtherRemove
  PROVE  IInv'
<1>1. UNCHANGED memVars
  BY DEF ProcInit, ProcExit, OtherCreate, OtherRemove
<1>2. ASSUME NEW path, NEW owner \in {Proc, Other}, Created(path, owner)
      PROVE  \A p \in DOMAIN tree' : tree'[p] = Mem => p \in DOMAIN tree /\ tree[p] = Mem
  BY <1>2 DEF Created, Mem, Proc, Other
<1>3. CASE ProcInit
  BY <1>1, <1>2, <1>3, Kept DEF ProcInit, Refused
<1>4. CASE ProcExit
  BY <1>1, <1>4, Removed, Kept DEF ProcExit
<1>5. CASE OtherCreate
  <2>1. \E path : Created(path, Other)
    BY <1>5 DEF OtherCreate
  <2> QED BY <1>1, <1>2, <2>1, Kept
<1>6. CASE OtherRemove
  <2>1. \E path : tree' = Without(path)
    BY <1>6 DEF OtherRemove
  <2>2. \A p \in DOMAIN tree' : p \in DOMAIN tree /\ tree'[p] = tree[p]
    BY <2>1 DEF Without
  <2> QED BY <1>1, <2>2, Kept
<1> QED BY <1>3, <1>4, <1>5, <1>6

\* Every step keeps the invariant.
LEMMA InvStep == ASSUME IInv, [Next]_vars PROVE IInv'
<1>1. CASE UNCHANGED vars
  BY <1>1, Kept DEF vars
<1> QED BY <1>1, LoadStep, CreateStep, ExitStep, RemoveStep, OthersStep DEF Next

\* The invariant holds at first.
LEMMA InvInit == ASSUME Init PROVE IInv
BY Nine DEF Init, IInv, Types, KnownInv, FilledInv, PathInv

-----------------------------------------------------------------------------
\* The invariant holds in every state, beside any other modules.
THEOREM Invariance == Spec => []IInv
<1>1. Init => IInv
  BY InvInit
<1>2. IInv /\ [Next]_vars => IInv'
  BY InvStep
<1> QED BY <1>1, <1>2, PTL DEF Spec

\* An unloaded lkm_mem has nothing in /proc, whatever failed while it was
\* loaded and whichever names others use.
THEOREM NothingLeft == Spec => []LeavesNothing
<1>1. IInv => LeavesNothing
  BY DEF IInv, KnownInv, Standing, LeavesNothing, Unloaded
<1> QED BY <1>1, Invariance, PTL

\* Users see none of the four files of mem whose field is yet to be filled in,
\* wherever failures have put it (lkm_mem.c:114-128).  Of the files of swap
\* nothing is claimed: theirs are never filled in.
THEOREM ShownFilled == Spec => []MemFilledBeforeShown
<1>1. ASSUME IInv, NEW i \in MemFiles, Visible(i) PROVE i \in si
  <2>1. i \in 1 .. 9 /\ entry[i] # NULL
    BY <1>1, Nine DEF Visible, IInv, KnownInv
  <2> QED BY <1>1, <2>1 DEF IInv, FilledInv
<1>2. IInv => MemFilledBeforeShown
  BY <1>1 DEF MemFilledBeforeShown
<1> QED BY <1>2, Invariance, PTL

-----------------------------------------------------------------------------
(***************************************************************************)
(* Paths and their prefixes.                                               *)
(***************************************************************************)
AllNames == STRING \union Names \union {"lkm_proc"}
AllPaths == Seq(AllNames) \ {<<>>}

\* A prefix of a path is a path.
LEMMA PrefixType ==
  ASSUME NEW p \in AllPaths, NEW n \in 1 .. Len(p)
  PROVE  /\ SubSeq(p, 1, n) \in AllPaths /\ Len(SubSeq(p, 1, n)) = n
         /\ Len(p) \in Nat \ {0}
<1>1. p \in Seq(AllNames) /\ Len(p) \in Nat \ {0}
  BY EmptySeq DEF AllPaths
<1>2. \A i \in 1 .. n : p[i] \in AllNames
  BY <1>1, ElementOfSeq
<1>3. SubSeq(p, 1, n) \in Seq(AllNames) /\ Len(SubSeq(p, 1, n)) = n
  BY <1>1, <1>2, SubSeqProperties
<1>4. SubSeq(p, 1, n) # <<>>
  BY <1>1, <1>3, EmptySeq
<1> QED BY <1>1, <1>3, <1>4 DEF AllPaths

\* A prefix of a prefix is a prefix.
LEMMA PrefixOfPrefix ==
  ASSUME NEW p \in AllPaths, NEW m \in 1 .. Len(p), NEW n \in 1 .. m
  PROVE  SubSeq(SubSeq(p, 1, m), 1, n) = SubSeq(p, 1, n)
<1>1. Len(p) \in Nat /\ n \in 1 .. Len(p)
  BY PrefixType
<1>2. PICK q \in AllPaths, r \in AllPaths, s \in AllPaths :
        /\ q = SubSeq(p, 1, m) /\ Len(q) = m
        /\ r = SubSeq(p, 1, n) /\ Len(r) = n
        /\ s = SubSeq(q, 1, n) /\ Len(s) = n
  <2>1. SubSeq(p, 1, m) \in AllPaths /\ Len(SubSeq(p, 1, m)) = m
    BY PrefixType
  <2>2. SubSeq(p, 1, n) \in AllPaths /\ Len(SubSeq(p, 1, n)) = n
    BY <1>1, PrefixType
  <2>3. PICK q \in AllPaths : q = SubSeq(p, 1, m) /\ Len(q) = m
    BY <2>1
  <2>4. n \in 1 .. Len(q)
    BY <2>3
  <2>5. SubSeq(q, 1, n) \in AllPaths /\ Len(SubSeq(q, 1, n)) = n
    BY <2>3, <2>4, PrefixType
  <2> QED BY <2>2, <2>3, <2>5
<1>3. ASSUME NEW i \in 1 .. n PROVE s[i] = r[i]
  BY <1>1, <1>2, <1>3
<1> QED BY <1>2, <1>3, SeqEqual DEF AllPaths

\* The prefixes of a path that was made longer.
LEMMA PrefixOfAppend ==
  ASSUME NEW base \in Seq(AllNames), NEW name \in AllNames, NEW n \in 1 .. Len(base)
  PROVE  SubSeq(Append(base, name), 1, n) = SubSeq(base, 1, n)
<1>1. Append(base, name) = base \o <<name>>
  BY AppendIsConcat
<1>2. <<name>> \in Seq(AllNames) /\ Len(base) \in Nat /\ 1 \in 1 .. Len(base)
  BY LenProperties
<1> QED BY <1>1, <1>2, SubSeqOfConcat1

\* The directory of a path is what its name was appended to.
LEMMA DirOfAppend ==
  ASSUME NEW base \in AllPaths, NEW name \in AllNames
  PROVE  /\ Append(base, name) \in AllPaths /\ Len(Append(base, name)) = Len(base) + 1
         /\ Len(base) \in Nat \ {0}
         /\ DirOf(Append(base, name)) = base
<1>1. base \in Seq(AllNames) /\ Len(base) \in Nat \ {0}
  BY EmptySeq DEF AllPaths
<1>2. /\ Append(base, name) \in AllPaths /\ Len(Append(base, name)) = Len(base) + 1
  BY <1>1, AppendProperties DEF AllPaths
<1>3. DirOf(Append(base, name)) = SubSeq(Append(base, name), 1, Len(base))
  BY <1>1, <1>2 DEF DirOf
<1>4. SubSeq(Append(base, name), 1, Len(base)) = SubSeq(base, 1, Len(base))
  BY <1>1, PrefixOfAppend
<1>5. SubSeq(base, 1, Len(base)) = base
  BY <1>1, SubSeqFull
<1> QED BY <1>1, <1>2, <1>3, <1>4, <1>5

-----------------------------------------------------------------------------
(***************************************************************************)
(* The tree: every entry belongs to whom its directory belongs to.         *)
(***************************************************************************)
Owners == {Mem, Proc, Other}

EntryOK(p) ==
  /\ p \in AllPaths /\ tree[p] \in Owners
  /\ \A n \in 1 .. Len(p) - 1 :
       SubSeq(p, 1, n) \in DOMAIN tree /\ tree[SubSeq(p, 1, n)] = tree[p]

TreeInv == \A p \in DOMAIN tree : EntryOK(p)

\* What is below an entry belongs to its owner.
LEMMA BelowOwner ==
  ASSUME TreeInv, NEW path \in AllPaths, NEW p \in Below(path)
  PROVE  /\ p \in DOMAIN tree /\ path \in DOMAIN tree /\ tree[p] = tree[path]
         /\ Len(path) \in 1 .. Len(p) - 1 /\ SubSeq(p, 1, Len(path)) = path
<1>1. p \in DOMAIN tree /\ Len(p) > Len(path) /\ SubSeq(p, 1, Len(path)) = path
  BY DEF Below
<1>2. p \in AllPaths
  BY <1>1 DEF TreeInv, EntryOK
<1>3. Len(path) \in Nat \ {0} /\ Len(p) \in Nat \ {0}
  BY <1>2, EmptySeq DEF AllPaths
<1>4. Len(path) \in 1 .. Len(p) - 1
  BY <1>1, <1>3
<1> QED BY <1>1, <1>4 DEF TreeInv, EntryOK

\* An entry may be added in the root or in a directory of the same owner.
LEMMA CreatedTree ==
  ASSUME TreeInv, NEW path \in AllPaths, NEW owner \in Owners, Created(path, owner),
         Len(path) > 1 => DirOf(path) \in DOMAIN tree /\ tree[DirOf(path)] = owner
  PROVE  TreeInv'
<1>1. /\ DOMAIN tree' = DOMAIN tree \union {path} /\ path \notin DOMAIN tree
      /\ tree'[path] = owner /\ \A p \in DOMAIN tree : tree'[p] = tree[p]
  BY DEF Created
<1>2. ASSUME NEW p \in DOMAIN tree PROVE EntryOK(p)'
  <2>1. EntryOK(p)
    BY DEF TreeInv
  <2> QED BY <1>1, <2>1 DEF EntryOK
<1>3. EntryOK(path)'
  <2>1. ASSUME NEW n \in 1 .. Len(path) - 1
        PROVE  SubSeq(path, 1, n) \in DOMAIN tree' /\ tree'[SubSeq(path, 1, n)] = owner
    <3>0. Len(path) \in Nat \ {0}
      BY EmptySeq DEF AllPaths
    <3>1. PICK l : l = Len(path) - 1 /\ l \in 1 .. Len(path) /\ n \in 1 .. l /\ Len(path) > 1
      BY <2>1, <3>0
    <3>2. PICK dir : dir = DirOf(path)
      OBVIOUS
    <3>3. dir = SubSeq(path, 1, l) /\ dir \in DOMAIN tree /\ tree[dir] = owner
      BY <3>1, <3>2 DEF DirOf
    <3>4. Len(dir) = l /\ EntryOK(dir)
      BY <3>1, <3>3, PrefixType DEF TreeInv
    <3>5. SubSeq(path, 1, n) = SubSeq(dir, 1, n)
      BY <3>1, <3>3, PrefixOfPrefix
    <3>6. CASE n = l
      BY <1>1, <3>3, <3>6
    <3>7. CASE n # l
      <4>1. n \in 1 .. Len(dir) - 1
        BY <3>1, <3>4, <3>7
      <4>2. SubSeq(dir, 1, n) \in DOMAIN tree /\ tree[SubSeq(dir, 1, n)] = owner
        BY <3>3, <3>4, <4>1 DEF EntryOK
      <4> QED BY <1>1, <3>5, <4>2
    <3> QED BY <3>6, <3>7
  <2> QED BY <1>1, <2>1 DEF EntryOK
<1> QED BY <1>1, <1>2, <1>3 DEF TreeInv

\* An entry may be removed with all that is below it.
LEMMA WithoutTree ==
  ASSUME TreeInv, NEW path \in AllPaths, tree' = Without(path)
  PROVE  TreeInv'
<1>1. /\ DOMAIN tree' = DOMAIN tree \ ({path} \union Below(path))
      /\ \A p \in DOMAIN tree' : tree'[p] = tree[p]
  BY DEF Without
<1>2. SUFFICES ASSUME NEW p \in DOMAIN tree' PROVE EntryOK(p)'
  BY DEF TreeInv
<1>3. p \in DOMAIN tree /\ p # path /\ p \notin Below(path) /\ EntryOK(p)
  BY <1>1, <1>2 DEF TreeInv
<1>4. ASSUME NEW n \in 1 .. Len(p) - 1 PROVE SubSeq(p, 1, n) \in DOMAIN tree'
  <2>1. p \in AllPaths /\ Len(p) \in Nat /\ n \in 1 .. Len(p) /\ n < Len(p)
    <3>1. p \in AllPaths
      BY <1>3 DEF EntryOK
    <3>2. Len(p) \in Nat
      BY <3>1, LenProperties DEF AllPaths
    <3> QED BY <3>1, <3>2
  <2>2. PICK q : q = SubSeq(p, 1, n) /\ Len(q) = n /\ q \in DOMAIN tree
    BY <1>3, <2>1, PrefixType DEF EntryOK
  <2>3. q # path
    BY <1>3, <2>1, <2>2 DEF Below
  <2>4. ASSUME q \in Below(path) PROVE FALSE
    <3>1. Len(path) \in 1 .. n - 1 /\ SubSeq(q, 1, Len(path)) = path
      BY <2>2, <2>4, BelowOwner
    <3>2. Len(path) \in 1 .. n /\ Len(path) < Len(p)
      BY <2>1, <3>1
    <3>3. SubSeq(q, 1, Len(path)) = SubSeq(p, 1, Len(path))
      BY <2>1, <2>2, <3>2, PrefixOfPrefix
    <3> QED BY <1>3, <3>1, <3>2, <3>3 DEF Below
  <2> QED BY <1>1, <2>2, <2>3, <2>4
<1> QED BY <1>1, <1>3, <1>4 DEF EntryOK

-----------------------------------------------------------------------------
(***************************************************************************)
(* The entries of lkm_mem: what is removed has nothing below it.           *)
(***************************************************************************)
Parent(i) == Entries[i].parent

\* The tree that lkm_mem_init() means to build.
LEMMA Parents ==
  /\ Parent(1) = 0 /\ Parent(2) = 1 /\ Parent(3) = 2 /\ Parent(4) = 2 /\ Parent(5) = 2
  /\ Parent(6) = 2 /\ Parent(7) = 1 /\ Parent(8) = 7 /\ Parent(9) = 7
BY DEF Parent, Entries

\* There are three levels.
LEMMA Levels ==
  ASSUME NEW i \in 1 .. 9
  PROVE  /\ Parent(i) \in 0 .. 9 /\ Parent(i) < i
         /\ Parent(i) # 0 /\ Parent(Parent(i)) # 0 => Parent(Parent(Parent(i))) = 0
<1>1. i \in {1, 2, 3, 4, 5, 6, 7, 8, 9}
  OBVIOUS
<1> QED BY <1>1, Parents

\* Removals is a permutation that puts children before their parents.
LEMMA RemovalOrder ==
  /\ \A k, m \in 1 .. 9 : Removals[k] = Removals[m] => k = m
  /\ \A m \in 1 .. 9 :
       Parent(Removals[m]) # 0 => \E l \in m + 1 .. 9 : Removals[l] = Parent(Removals[m])
<1>1. /\ Removals[1] = 3 /\ Removals[2] = 4 /\ Removals[3] = 5 /\ Removals[4] = 6
      /\ Removals[5] = 2 /\ Removals[6] = 8 /\ Removals[7] = 9 /\ Removals[8] = 7
      /\ Removals[9] = 1
  BY DEF Removals
<1>2. ASSUME NEW k \in 1 .. 9, NEW m \in 1 .. 9, Removals[k] = Removals[m] PROVE k = m
  <2>1. k \in {1, 2, 3, 4, 5, 6, 7, 8, 9} /\ m \in {1, 2, 3, 4, 5, 6, 7, 8, 9}
    OBVIOUS
  <2> QED BY <1>1, <1>2, <2>1
<1>3. ASSUME NEW m \in 1 .. 9, Parent(Removals[m]) # 0
      PROVE  \E l \in m + 1 .. 9 : Removals[l] = Parent(Removals[m])
  <2>1. CASE m \in {1, 2, 3, 4}
    BY <1>1, <2>1, Parents
  <2>2. CASE m \in {5, 8}
    BY <1>1, <2>2, Parents
  <2>3. CASE m \in {6, 7}
    BY <1>1, <2>3, Parents
  <2>4. CASE m = 9
    BY <1>1, <1>3, <2>4, Parents
  <2>5. m \in {1, 2, 3, 4, 5, 6, 7, 8, 9}
    OBVIOUS
  <2> QED BY <2>1, <2>2, <2>3, <2>4, <2>5
<1> QED BY <1>2, <1>3

\* Which entry is next, while the module is removed.
Leaving == Removals[at - 10]

\* The parent of an entry that stands does so too, and is not the next to go.
LEMMA ParentStands ==
  ASSUME at \in 0 .. 19, NEW i \in Standing, Parent(i) # 0
  PROVE  /\ i \in 1 .. 9 /\ Parent(i) \in 1 .. 9
         /\ Parent(i) \in Standing /\ (at \in 11 .. 19 => Parent(i) # Leaving)
<1>1. CASE at <= 10
  <2>1. at # 0 /\ i \in 1 .. at - 1
    BY <1>1 DEF Standing
  <2>2. i \in 1 .. 9 /\ Parent(i) \in 0 .. 9 /\ Parent(i) < i
    BY <1>1, <2>1, Levels
  <2>3. Parent(i) \in 1 .. at - 1 /\ Parent(i) \in 1 .. 9
    BY <1>1, <2>1, <2>2
  <2> QED BY <1>1, <2>1, <2>2, <2>3 DEF Standing
<1>2. CASE at > 10
  <2>1. PICK m \in at - 10 .. 9 : i = Removals[m]
    BY <1>2 DEF Standing
  <2>2. m \in 1 .. 9 /\ i \in 1 .. 9 /\ Parent(i) \in 1 .. 9
    <3>1. m \in 1 .. 9
      BY <1>2, <2>1
    <3>2. i \in 1 .. 9
      BY <2>1, <3>1, RemovesEach
    <3> QED BY <3>1, <3>2, Levels
  <2>3. PICK l \in m + 1 .. 9 : Removals[l] = Parent(i)
    BY <2>1, <2>2, RemovalOrder
  <2>4. l \in at - 10 .. 9 /\ l # at - 10 /\ l \in 1 .. 9 /\ at - 10 \in 1 .. 9
    BY <1>2, <2>1, <2>2, <2>3
  <2>5. Parent(i) \in Standing
    BY <1>2, <2>3, <2>4 DEF Standing
  <2>6. Parent(i) # Leaving
    BY <2>3, <2>4, RemovalOrder DEF Leaving
  <2> QED BY <2>2, <2>5, <2>6
<1> QED BY <1>1, <1>2

\* lkm_proc is no name of lkm_mem.
LEMMA NamesAre ==
  /\ "lkm_proc" \notin Names
  /\ \A i \in 1 .. 9 : Entries[i].name \in Names /\ Entries[i].name \in AllNames
<1>1. /\ Entries[1].name = "lkm" /\ Entries[2].name = "mem" /\ Entries[3].name = "buffer"
      /\ Entries[4].name = "free" /\ Entries[5].name = "shared" /\ Entries[6].name = "total"
      /\ Entries[7].name = "swap" /\ Entries[8].name = "free" /\ Entries[9].name = "total"
  BY DEF Entries
<1>2. ASSUME NEW i \in 1 .. 9 PROVE Entries[i].name # "lkm_proc"
  <2>1. i \in {1, 2, 3, 4, 5, 6, 7, 8, 9}
    OBVIOUS
  <2> QED BY <1>1, <2>1
<1> QED BY <1>2 DEF Names, AllNames

\* What an entry's path is, in the root or in a directory of lkm_mem.
LEMMA PathShape ==
  ASSUME Types, NEW i \in 1 .. 9, NEW p, p = PathOf(i)
  PROVE  /\ p \in AllPaths
         /\ \/ /\ Parent(i) = 0 \/ entry[Parent(i)] = NULL
               /\ p = <<Entries[i].name>>
            \/ /\ Parent(i) \in 1 .. 9 /\ entry[Parent(i)] # NULL
               /\ entry[Parent(i)] \in Seq(AllNames)
               /\ p = Append(entry[Parent(i)], Entries[i].name)
<1>1. PICK n \in AllNames : n = Entries[i].name
  BY NamesAre
<1>2. PICK j \in 0 .. 9 : j = Parent(i)
  BY Levels
<1>3. CASE j = 0 \/ entry[j] = NULL
  <2>1. p = Append(<<>>, n)
    BY <1>1, <1>2, <1>3, Zenon DEF PathOf, Parent
  <2>2. p = <<n>> /\ <<n>> \in Seq(AllNames) /\ <<n>> # <<>>
    BY <2>1
  <2> QED BY <1>1, <1>2, <1>3, <2>2 DEF AllPaths
<1>4. CASE j # 0 /\ entry[j] # NULL
  <2>1. j \in 1 .. 9
    BY <1>4
  <2>2. p = Append(entry[j], n)
    BY <1>1, <1>2, <1>4, Zenon DEF PathOf, Parent
  <2>3. entry[j] \in Seq(AllNames)
    <3>1. entry[j] \in Seq(Names)
      BY <1>4, <2>1 DEF Types, Paths
    <3>2. Names \subseteq AllNames
      BY DEF AllNames
    <3> QED BY <3>1, <3>2, SeqMonotonic
  <2>4. p \in AllPaths
    BY <2>2, <2>3, AppendProperties DEF AllPaths
  <2> QED BY <1>1, <1>2, <1>4, <2>1, <2>2, <2>3, <2>4
<1> QED BY <1>3, <1>4

\* Whoever stands, with an entry, is in the tree, and is there once.
StandInv ==
  /\ \A i \in Standing : entry[i] # NULL => entry[i] \in DOMAIN tree /\ tree[entry[i]] = Mem
  /\ \A i, j \in Standing : entry[i] # NULL /\ entry[i] = entry[j] => i = j

\* A proper prefix of an entry's path is one of its parent's, or that itself.
LEMMA PrefixOfEntry ==
  ASSUME Types, PathInv, NEW i \in 1 .. 9, entry[i] # NULL, NEW n \in 1 .. Len(entry[i]) - 1
  PROVE  LET j == Parent(i) IN
         /\ j \in 1 .. 9 /\ entry[j] # NULL /\ SubSeq(entry[i], 1, n) = SubSeq(entry[j], 1, n)
         /\ \/ n = Len(entry[j]) /\ SubSeq(entry[j], 1, n) = entry[j]
            \/ n \in 1 .. Len(entry[j]) - 1
<1>1. PICK p : p = PathOf(i) /\ p = entry[i]
  BY DEF PathInv
<1>2. PICK name \in AllNames : name = Entries[i].name
  BY NamesAre
<1>3. /\ \/ p = <<name>>
         \/ /\ Parent(i) \in 1 .. 9 /\ entry[Parent(i)] # NULL
            /\ entry[Parent(i)] \in Seq(AllNames)
            /\ p = Append(entry[Parent(i)], name)
  BY <1>1, <1>2, PathShape
<1>4. p # <<name>>
  <2>1. SUFFICES ASSUME p = <<name>> PROVE FALSE
    OBVIOUS
  <2>2. Len(<<name>>) = 1
    OBVIOUS
  <2> QED BY <1>1, <2>1, <2>2
<1>5. PICK dir \in Seq(AllNames) : dir = entry[Parent(i)] /\ p = Append(dir, name)
  BY <1>3, <1>4
<1>6. PICK l \in Nat : l = Len(dir) /\ Len(p) = l + 1
  BY <1>5, LenProperties, AppendProperties
<1>7. n \in 1 .. l
  BY <1>1, <1>6
<1>8. SubSeq(p, 1, n) = SubSeq(dir, 1, n)
  BY <1>5, <1>6, <1>7, PrefixOfAppend
<1>9. SubSeq(dir, 1, l) = dir
  BY <1>6, SubSeqFull
<1>10. n = l \/ n \in 1 .. l - 1
  BY <1>7
<1> QED BY <1>1, <1>3, <1>4, <1>5, <1>6, <1>8, <1>9, <1>10

\* So whatever lkm_mem has above an entry that stands is another one that does
\* and stays.
LEMMA Above ==
  ASSUME Types, PathInv, NEW i \in Standing, i \in 1 .. 9, entry[i] # NULL,
         NEW n \in 1 .. Len(entry[i]) - 1
  PROVE  \E j \in Standing : /\ entry[j] # NULL /\ entry[j] = SubSeq(entry[i], 1, n)
                             /\ at \in 11 .. 19 => j # Leaving
<1>1. at \in 0 .. 19
  BY DEF Types
<1>2. PICK j \in 1 .. 9 :
        /\ j = Parent(i) /\ entry[j] # NULL /\ SubSeq(entry[i], 1, n) = SubSeq(entry[j], 1, n)
        /\ \/ n = Len(entry[j]) /\ SubSeq(entry[j], 1, n) = entry[j]
           \/ n \in 1 .. Len(entry[j]) - 1
  BY PrefixOfEntry
<1>3. j \in Standing /\ (at \in 11 .. 19 => j # Leaving)
  BY <1>1, <1>2, ParentStands
<1>4. CASE n = Len(entry[j]) /\ SubSeq(entry[j], 1, n) = entry[j]
  BY <1>2, <1>3, <1>4
<1>5. CASE n \in 1 .. Len(entry[j]) - 1
  <2>1. PICK k \in 1 .. 9 :
          /\ k = Parent(j) /\ entry[k] # NULL /\ SubSeq(entry[j], 1, n) = SubSeq(entry[k], 1, n)
          /\ \/ n = Len(entry[k]) /\ SubSeq(entry[k], 1, n) = entry[k]
             \/ n \in 1 .. Len(entry[k]) - 1
    BY <1>2, <1>5, PrefixOfEntry
  <2>2. k \in Standing /\ (at \in 11 .. 19 => k # Leaving)
    BY <1>1, <1>3, <2>1, ParentStands
  <2>3. CASE n = Len(entry[k]) /\ SubSeq(entry[k], 1, n) = entry[k]
    BY <1>2, <2>1, <2>2, <2>3
  <2>4. CASE n \in 1 .. Len(entry[k]) - 1
    <3>1. Parent(k) \in 1 .. 9
      BY <2>1, <2>4, PrefixOfEntry
    <3>2. Parent(Parent(i)) = k /\ Parent(i) # 0 /\ k # 0
      BY <1>2, <2>1
    <3>3. Parent(k) = 0
      BY <3>2, Levels
    <3> QED BY <3>1, <3>3
  <2> QED BY <2>1, <2>3, <2>4
<1> QED BY <1>2, <1>4, <1>5

\* Nothing is below the entry that goes next.
LEMMA NothingBelow ==
  ASSUME Types, PathInv, KnownInv, TreeInv, StandInv, at \in 11 .. 19, entry[Leaving] # NULL
  PROVE  /\ Leaving \in Standing /\ Leaving \in 1 .. 9
         /\ entry[Leaving] \in DOMAIN tree /\ tree[entry[Leaving]] = Mem
         /\ entry[Leaving] \in AllPaths
         /\ Below(entry[Leaving]) = {}
<1>1. Leaving \in Standing /\ Leaving \in 1 .. 9
  <2>1. at - 10 \in at - 10 .. 9 /\ at - 10 \in 1 .. 9
    OBVIOUS
  <2>2. Standing = {Removals[k] : k \in at - 10 .. 9}
    BY DEF Standing
  <2> QED BY <2>1, <2>2, RemovesEach DEF Leaving
<1>2. PICK path : path = entry[Leaving] /\ path \in DOMAIN tree /\ tree[path] = Mem
  BY <1>1 DEF StandInv
<1>3. path \in AllPaths
  BY <1>2 DEF TreeInv, EntryOK
<1>4. ASSUME NEW p \in Below(path) PROVE FALSE
  <2>1. /\ p \in DOMAIN tree /\ tree[p] = Mem
        /\ Len(path) \in 1 .. Len(p) - 1 /\ SubSeq(p, 1, Len(path)) = path
    BY <1>2, <1>3, BelowOwner
  <2>2. PICK i \in Standing : entry[i] = p /\ entry[i] # NULL
    BY <2>1 DEF KnownInv
  <2>3. i \in 1 .. 9
    <3>1. PICK k \in at - 10 .. 9 : i = Removals[k]
      BY <2>2 DEF Standing
    <3>2. k \in 1 .. 9
      BY <3>1
    <3> QED BY <3>1, <3>2, RemovesEach
  <2>4. PICK n : n = Len(path) /\ n \in 1 .. Len(entry[i]) - 1
    BY <2>1, <2>2
  <2>5. PICK j \in Standing : entry[j] # NULL /\ entry[j] = SubSeq(entry[i], 1, n) /\ j # Leaving
    BY <2>2, <2>3, <2>4, Above
  <2>6. entry[j] = entry[Leaving]
    BY <1>2, <2>1, <2>2, <2>4, <2>5
  <2> QED BY <1>1, <2>5, <2>6 DEF StandInv
<1> QED BY <1>1, <1>2, <1>3, <1>4

\* lkm_proc has its entry exactly if it was not refused one.
ProcInv ==
  /\ loaded \in BOOLEAN /\ failed \in BOOLEAN /\ warned \in BOOLEAN
  /\ \A p \in DOMAIN tree : tree[p] = Proc => p = ProcPath
  /\ (ProcPath \in DOMAIN tree /\ tree[ProcPath] = Proc) <=> (loaded /\ ~failed)

OwnInv == TreeInv /\ StandInv /\ ProcInv /\ si \subseteq MemFiles

\* The steps of RemovesOwn and of OrderlyExit.
OwnStep ==
  \A p \in DOMAIN tree \ DOMAIN tree' :
    /\ tree[p] = Mem => at' # at
    /\ tree[p] = Proc => loaded' # loaded
    /\ tree[p] = Other => \/ at' = at /\ loaded' = loaded
                          \/ failed /\ SubSeq(p, 1, 1) = ProcPath
OrderlyStep == warned' # warned => at' = at /\ failed

Good == OwnInv' /\ OwnStep /\ OrderlyStep

\* The path of lkm_proc is in the root.
LEMMA ProcPathType == ProcPath \in AllPaths /\ Len(ProcPath) = 1
BY DEF ProcPath, AllPaths, AllNames

\* They are entries.
LEMMA StandingRange == ASSUME Types PROVE Standing \subseteq 1 .. 9
<1>1. at \in 0 .. 19
  BY DEF Types
<1>2. CASE at <= 10
  BY <1>1, <1>2 DEF Standing
<1>3. CASE at > 10
  <2>1. ASSUME NEW k \in at - 10 .. 9 PROVE Removals[k] \in 1 .. 9
    <3>1. k \in 1 .. 9
      BY <1>1, <1>3
    <3> QED BY <3>1, RemovesEach
  <2> QED BY <1>1, <1>3, <2>1 DEF Standing
<1> QED BY <1>1, <1>2, <1>3

\* Nobody else has the name of lkm_proc's entry among those of lkm_mem.
LEMMA NotMem ==
  ASSUME Types, KnownInv, ProcPath \in DOMAIN tree
  PROVE  tree[ProcPath] # Mem
<1>1. SUFFICES ASSUME tree[ProcPath] = Mem PROVE FALSE
  OBVIOUS
<1>2. PICK i \in Standing : entry[i] = ProcPath /\ ProcPath # NULL
  BY <1>1 DEF KnownInv
<1>3. Standing \subseteq 1 .. 9
  BY StandingRange
<1>4. ProcPath \in Seq(Names)
  BY <1>2, <1>3 DEF Types, Paths
<1>5. ProcPath[1] \in Names
  <2>1. 1 \in 1 .. Len(ProcPath)
    BY ProcPathType
  <2> QED BY <1>4, <2>1, ElementOfSeq
<1>6. ProcPath[1] = "lkm_proc"
  BY DEF ProcPath
<1> QED BY <1>5, <1>6, NamesAre

\* lkm_mem's entries stay as they are for as long as the tree keeps them.
LEMMA StandKept ==
  ASSUME StandInv, entry' = entry, Standing' \subseteq Standing,
         \A i \in Standing' :
           entry[i] # NULL => entry[i] \in DOMAIN tree' /\ tree'[entry[i]] = tree[entry[i]]
  PROVE  StandInv'
BY DEF StandInv

\* Others add to the tree and take away what is not lkm_mem's.
LEMMA StandOthers ==
  ASSUME StandInv, UNCHANGED memVars,
         \A p \in DOMAIN tree : tree[p] = Mem => p \in DOMAIN tree' /\ tree'[p] = tree[p]
  PROVE  StandInv'
<1>1. entry' = entry /\ Standing' = Standing
  BY DEF memVars, Standing
<1> QED BY <1>1 DEF StandInv

\* Nothing is lost where something is created, or nothing happens to the tree.
LEMMA Nothing ==
  ASSUME DOMAIN tree \subseteq DOMAIN tree', warned' = warned
  PROVE  OwnStep /\ OrderlyStep
BY DEF OwnStep, OrderlyStep

\* A creation adds one entry, and the others stay.
LEMMA CreatedKeeps ==
  ASSUME NEW path, NEW owner, Created(path, owner)
  PROVE  /\ DOMAIN tree' = DOMAIN tree \union {path} /\ path \notin DOMAIN tree
         /\ tree'[path] = owner /\ \A p \in DOMAIN tree : tree'[p] = tree[p]
BY DEF Created

\* insmod lkm_mem.
LEMMA LoadGood == ASSUME IInv, OwnInv, MemLoad PROVE Good
<1>1. /\ at' = 1 /\ UNCHANGED <<tree, loaded, failed, warned>> /\ si' = {}
  BY DEF MemLoad, procVars
<1>2. StandInv'
  <2>1. Standing' = {}
    BY <1>1 DEF Standing
  <2> QED BY <2>1 DEF StandInv
<1>3. TreeInv' /\ ProcInv'
  BY <1>1 DEF OwnInv, TreeInv, EntryOK, ProcInv
<1>4. OwnStep /\ OrderlyStep
  BY <1>1, Nothing
<1> QED BY <1>1, <1>2, <1>3, <1>4 DEF Good, OwnInv

\* A creation by lkm_mem, or its failure.
LEMMA CreateGood == ASSUME IInv, OwnInv, MemCreate PROVE Good
<1>1. /\ at \in 1 .. 9 /\ at' = at + 1 /\ UNCHANGED <<loaded, failed, warned>>
      /\ Standing = 1 .. at - 1 /\ Standing' = 1 .. at
      /\ entry \in [1 .. 9 -> Paths \union {NULL}]
  BY Nine DEF MemCreate, Creating, IInv, Types, Standing, procVars
<1>2. si' \subseteq MemFiles
  BY DEF MemCreate, Filled, OwnInv
<1>3. CASE Created(PathOf(at), Mem) /\ entry' = [entry EXCEPT ![at] = PathOf(at)]
  <2>1. PICK path : path = PathOf(at)
    OBVIOUS
  <2>2. path \in AllPaths
    BY <1>1, <2>1, PathShape DEF IInv
  <2>3. /\ DOMAIN tree' = DOMAIN tree \union {path} /\ path \notin DOMAIN tree
        /\ tree'[path] = Mem /\ \A p \in DOMAIN tree : tree'[p] = tree[p]
    BY <1>3, <2>1, CreatedKeeps
  <2>4. Len(path) > 1 => DirOf(path) \in DOMAIN tree /\ tree[DirOf(path)] = Mem
    <3>1. SUFFICES ASSUME Len(path) > 1
                   PROVE  DirOf(path) \in DOMAIN tree /\ tree[DirOf(path)] = Mem
      OBVIOUS
    <3>2. PICK name \in AllNames : name = Entries[at].name
      BY <1>1, NamesAre
    <3>3. path # <<name>>
      <4>1. SUFFICES ASSUME path = <<name>> PROVE FALSE
        OBVIOUS
      <4>2. Len(<<name>>) = 1
        OBVIOUS
      <4>3. Len(path) = 1
        BY <4>1, <4>2, Zenon
      <4> QED BY <3>1, <4>3
    <3>4. PICK j : /\ j = Parent(at) /\ j \in 1 .. 9 /\ entry[j] # NULL
                   /\ path = Append(entry[j], name)
      BY <1>1, <2>1, <3>2, <3>3, PathShape DEF IInv
    <3>5. j < at
      BY <1>1, <3>4, Levels
    <3>6. j \in Standing
      BY <1>1, <3>4, <3>5
    <3>7. entry[j] \in DOMAIN tree /\ tree[entry[j]] = Mem
      BY <3>4, <3>6 DEF OwnInv, StandInv
    <3>8. entry[j] \in AllPaths
      BY <3>7 DEF OwnInv, TreeInv, EntryOK
    <3>9. DirOf(path) = entry[j]
      BY <3>4, <3>8, DirOfAppend
    <3> QED BY <3>7, <3>9
  <2>5. TreeInv'
    BY <1>3, <2>1, <2>2, <2>4, CreatedTree DEF OwnInv, Owners
  <2>6. StandInv'
    <3>1. entry'[at] = path /\ \A i \in 1 .. at - 1 : entry'[i] = entry[i]
      BY <1>1, <1>3, <2>1
    <3>2. \A i \in 1 .. at : i = at \/ i \in 1 .. at - 1
      BY <1>1
    <3>3. \A i \in 1 .. at - 1 :
            entry[i] # NULL => entry[i] \in DOMAIN tree /\ tree[entry[i]] = Mem
      BY <1>1 DEF OwnInv, StandInv
    <3>4. \A i, j \in 1 .. at - 1 : entry[i] # NULL /\ entry[i] = entry[j] => i = j
      BY <1>1 DEF OwnInv, StandInv
    <3>5. \A i \in 1 .. at :
            entry'[i] # NULL => entry'[i] \in DOMAIN tree' /\ tree'[entry'[i]] = Mem
      BY <2>3, <3>1, <3>2, <3>3
    <3>6. \A i \in 1 .. at - 1 : entry[i] # NULL => entry[i] # path
      BY <2>3, <3>3
    <3>7. ASSUME NEW i \in 1 .. at, NEW j \in 1 .. at, entry'[i] # NULL, entry'[i] = entry'[j]
          PROVE  i = j
      BY <3>1, <3>2, <3>4, <3>6, <3>7
    <3> QED BY <1>1, <3>5, <3>7 DEF StandInv
  <2>7. ProcInv'
    BY <1>1, <2>3 DEF OwnInv, ProcInv, Mem, Proc
  <2>8. OwnStep /\ OrderlyStep
    BY <1>1, <2>3, Nothing
  <2> QED BY <1>2, <2>5, <2>6, <2>7, <2>8 DEF Good, OwnInv
<1>4. CASE UNCHANGED <<tree, entry>>
  <2>1. entry[at] = NULL
    BY <1>1 DEF IInv, PathInv
  <2>2. StandInv'
    <3>1. \A i \in 1 .. at : i = at \/ i \in 1 .. at - 1
      BY <1>1
    <3> QED BY <1>1, <1>4, <2>1, <3>1 DEF OwnInv, StandInv
  <2>3. TreeInv' /\ ProcInv'
    BY <1>1, <1>4 DEF OwnInv, TreeInv, EntryOK, ProcInv
  <2>4. OwnStep /\ OrderlyStep
    BY <1>1, <1>4, Nothing
  <2> QED BY <1>2, <2>2, <2>3, <2>4 DEF Good, OwnInv
<1> QED BY <1>3, <1>4 DEF MemCreate, Refused

\* rmmod lkm_mem.
LEMMA ExitGood == ASSUME IInv, OwnInv, MemExit PROVE Good
<1>1. at = 10 /\ at' = 11 /\ UNCHANGED <<tree, entry, si, loaded, failed, warned>>
  BY Nine DEF MemExit, Loaded, procVars
<1>2. Standing = 1 .. 9 /\ Standing' \subseteq 1 .. 9
  BY <1>1, RemovesEach DEF Standing
<1>3. StandInv'
  BY <1>1, <1>2, StandKept DEF OwnInv, StandInv
<1>4. TreeInv' /\ ProcInv'
  BY <1>1 DEF OwnInv, TreeInv, EntryOK, ProcInv
<1>5. OwnStep /\ OrderlyStep
  BY <1>1, Nothing
<1> QED BY <1>1, <1>3, <1>4, <1>5 DEF Good, OwnInv

\* remove_proc_entry() of a path: what is gone and what stays.
LEMMA WithoutKeeps ==
  ASSUME NEW path, tree' = Without(path)
  PROVE  /\ DOMAIN tree' = DOMAIN tree \ ({path} \union Below(path))
         /\ \A p \in DOMAIN tree' : tree'[p] = tree[p]
BY DEF Without

\* A removal by lkm_mem takes away one entry, which is there and is empty.
LEMMA RemoveGood == ASSUME IInv, OwnInv, MemRemove PROVE Good
<1>1. /\ at \in 11 .. 19 /\ UNCHANGED <<entry, si, loaded, failed>>
      /\ at' = IF at = 19 THEN 0 ELSE at + 1
      /\ Remove(Leaving)
  BY Nine DEF MemRemove, Removing, Leaving, procVars
<1>2. /\ Standing = {Removals[k] : k \in at - 10 .. 9}
      /\ Standing' \subseteq Standing /\ Leaving \notin Standing'
  <2>1. Standing = {Removals[k] : k \in at - 10 .. 9}
    BY <1>1 DEF Standing
  <2>2. CASE at = 19
    BY <1>1, <2>2 DEF Standing
  <2>3. CASE at # 19
    <3>1. Standing' = {Removals[k] : k \in at - 9 .. 9}
      BY <1>1, <2>3 DEF Standing
    <3>2. Standing' \subseteq Standing
      BY <1>1, <2>1, <3>1
    <3>3. ASSUME Leaving \in Standing' PROVE FALSE
      <4>1. PICK k \in at - 9 .. 9 : Removals[k] = Removals[at - 10]
        BY <3>1, <3>3 DEF Leaving
      <4>2. k \in 1 .. 9 /\ at - 10 \in 1 .. 9 /\ k # at - 10
        BY <1>1
      <4> QED BY <4>1, <4>2, RemovalOrder
    <3> QED BY <2>1, <3>2, <3>3
  <2> QED BY <2>2, <2>3, <2>1
<1>3. at' # at
  BY <1>1
<1>4. CASE entry[Leaving] = NULL
  <2>1. tree' = tree /\ warned' = warned
    BY <1>1, <1>4 DEF Remove
  <2>2. StandInv'
    BY <1>1, <1>2, <2>1, StandKept DEF OwnInv, StandInv
  <2>3. TreeInv' /\ ProcInv'
    BY <1>1, <2>1 DEF OwnInv, TreeInv, EntryOK, ProcInv
  <2>4. OwnStep /\ OrderlyStep
    BY <2>1, Nothing
  <2> QED BY <1>1, <2>2, <2>3, <2>4 DEF Good, OwnInv
<1>5. CASE entry[Leaving] # NULL
  <2>1. /\ Leaving \in Standing /\ Leaving \in 1 .. 9
        /\ entry[Leaving] \in DOMAIN tree /\ tree[entry[Leaving]] = Mem
        /\ entry[Leaving] \in AllPaths
        /\ Below(entry[Leaving]) = {}
    BY <1>1, <1>5, NothingBelow DEF IInv, OwnInv
  <2>2. PICK path : path = entry[Leaving]
    OBVIOUS
  <2>3. tree' = Without(path) /\ warned' = (warned \/ path \notin DOMAIN tree \/ Below(path) # {})
    BY <1>1, <1>5, <2>1, <2>2 DEF Remove, RemoveProcEntry, IInv, PathInv
  <2>4. /\ DOMAIN tree' = DOMAIN tree \ {path}
        /\ \A p \in DOMAIN tree' : tree'[p] = tree[p]
        /\ tree[path] = Mem
    BY <2>1, <2>2, <2>3, WithoutKeeps
  <2>5. warned' = warned
    BY <2>1, <2>2, <2>3 DEF OwnInv, ProcInv
  <2>6. TreeInv'
    BY <2>1, <2>2, <2>3, WithoutTree DEF OwnInv
  <2>7. StandInv'
    <3>1. ASSUME NEW i \in Standing', entry[i] # NULL
          PROVE  entry[i] \in DOMAIN tree' /\ tree'[entry[i]] = tree[entry[i]]
      <4>1. i \in Standing /\ i # Leaving
        BY <1>2
      <4>2. entry[i] # path /\ entry[i] \in DOMAIN tree
        BY <2>1, <2>2, <3>1, <4>1 DEF OwnInv, StandInv
      <4> QED BY <2>4, <4>2
    <3> QED BY <1>1, <1>2, <3>1, StandKept DEF OwnInv
  <2>8. ProcInv'
    BY <1>1, <2>4, <2>5 DEF OwnInv, ProcInv, Mem, Proc
  <2>9. OwnStep /\ OrderlyStep
    BY <1>3, <2>4, <2>5 DEF OwnStep, OrderlyStep, Mem, Proc, Other
  <2> QED BY <1>1, <2>6, <2>7, <2>8, <2>9 DEF Good, OwnInv
<1> QED BY <1>4, <1>5

\* lkm_proc_init(), with its entry or without.
LEMMA ProcInitGood == ASSUME IInv, OwnInv, ProcInit PROVE Good
<1>1. /\ ~loaded /\ loaded' = TRUE /\ UNCHANGED memVars /\ warned' = warned
      /\ si' \subseteq MemFiles
  BY DEF ProcInit, memVars, OwnInv
<1>2. CASE Created(ProcPath, Proc) /\ failed' = FALSE
  <2>1. /\ DOMAIN tree' = DOMAIN tree \union {ProcPath} /\ ProcPath \notin DOMAIN tree
        /\ tree'[ProcPath] = Proc /\ \A p \in DOMAIN tree : tree'[p] = tree[p]
    BY <1>2, CreatedKeeps
  <2>2. TreeInv'
    <3>1. ~(Len(ProcPath) > 1) /\ ProcPath \in AllPaths
      BY ProcPathType
    <3>2. Proc \in Owners /\ TreeInv
      BY DEF OwnInv, Owners
    <3> QED BY <1>2, <3>1, <3>2, CreatedTree
  <2>3. StandInv'
    BY <1>1, <2>1, StandOthers DEF OwnInv
  <2>4. ProcInv'
    BY <1>1, <1>2, <2>1 DEF OwnInv, ProcInv
  <2>5. OwnStep /\ OrderlyStep
    BY <1>1, <2>1, Nothing
  <2> QED BY <1>1, <2>2, <2>3, <2>4, <2>5 DEF Good, OwnInv
<1>3. CASE tree' = tree /\ failed' = TRUE
  <2>1. TreeInv' /\ ProcInv'
    BY <1>1, <1>3 DEF OwnInv, TreeInv, EntryOK, ProcInv
  <2>2. StandInv'
    BY <1>1, <1>3, StandOthers DEF OwnInv
  <2>3. OwnStep /\ OrderlyStep
    BY <1>1, <1>3, Nothing
  <2> QED BY <1>1, <2>1, <2>2, <2>3 DEF Good, OwnInv
<1> QED BY <1>2, <1>3 DEF ProcInit, Refused

\* lkm_proc_exit() takes away its own entry, or what has its name.
LEMMA ProcExitGood == ASSUME IInv, OwnInv, ProcExit PROVE Good
<1>1. /\ loaded /\ loaded' = FALSE /\ UNCHANGED memVars /\ failed' = failed
      /\ si' \subseteq MemFiles
      /\ tree' = Without(ProcPath)
      /\ warned' = (warned \/ ProcPath \notin DOMAIN tree \/ Below(ProcPath) # {})
  BY DEF ProcExit, memVars, OwnInv, RemoveProcEntry
<1>2. /\ DOMAIN tree' = DOMAIN tree \ ({ProcPath} \union Below(ProcPath))
      /\ \A p \in DOMAIN tree' : tree'[p] = tree[p]
  BY <1>1, WithoutKeeps
<1>3. ASSUME NEW p \in DOMAIN tree \ DOMAIN tree'
      PROVE  /\ ProcPath \in DOMAIN tree /\ tree[p] = tree[ProcPath]
             /\ SubSeq(p, 1, 1) = ProcPath
  <2>1. CASE p = ProcPath
    <3>1. SubSeq(ProcPath, 1, Len(ProcPath)) = ProcPath
      BY ProcPathType, SubSeqFull DEF AllPaths
    <3> QED BY <1>3, <2>1, <3>1, ProcPathType
  <2>2. CASE p \in Below(ProcPath)
    BY <2>2, BelowOwner, ProcPathType DEF OwnInv
  <2> QED BY <1>2, <1>3, <2>1, <2>2
<1>4. ProcPath \in DOMAIN tree => tree[ProcPath] # Mem
  BY NotMem DEF IInv
<1>5. TreeInv'
  BY <1>1, ProcPathType, WithoutTree DEF OwnInv
<1>6. StandInv'
  <2>1. \A p \in DOMAIN tree : tree[p] = Mem => p \in DOMAIN tree' /\ tree'[p] = tree[p]
    BY <1>2, <1>3, <1>4
  <2> QED BY <1>1, <2>1, StandOthers DEF OwnInv
<1>7. ~failed => warned' = warned
  <2>1. SUFFICES ASSUME ~failed PROVE warned' = warned
    OBVIOUS
  <2>2. ProcPath \in DOMAIN tree /\ tree[ProcPath] = Proc
    BY <1>1, <2>1 DEF OwnInv, ProcInv
  <2>3. ASSUME NEW p \in Below(ProcPath) PROVE FALSE
    <3>1. p \in DOMAIN tree /\ tree[p] = Proc /\ Len(ProcPath) \in 1 .. Len(p) - 1
      BY <2>2, BelowOwner, ProcPathType DEF OwnInv
    <3>2. p = ProcPath
      BY <3>1 DEF OwnInv, ProcInv
    <3> QED BY <3>1, <3>2, ProcPathType
  <2>4. Below(ProcPath) = {}
    BY <2>3
  <2> QED BY <1>1, <2>2, <2>4 DEF OwnInv, ProcInv
<1>8. ProcInv'
  <2>1. warned' \in BOOLEAN
    BY <1>1
  <2>2. ProcPath \notin DOMAIN tree'
    BY <1>2
  <2>3. \A p \in DOMAIN tree' : tree'[p] = Proc => p = ProcPath
    BY <1>2 DEF OwnInv, ProcInv
  <2>4. failed' \in BOOLEAN
    BY <1>1 DEF OwnInv, ProcInv
  <2> QED BY <1>1, <2>1, <2>2, <2>3, <2>4 DEF ProcInv
<1>9. OrderlyStep
  BY <1>1, <1>7 DEF OrderlyStep, memVars, OwnInv, ProcInv
<1>10. OwnStep
  <2>1. ASSUME NEW p \in DOMAIN tree \ DOMAIN tree', tree[p] = Other, ~failed PROVE FALSE
    <3>1. tree[ProcPath] = Proc
      BY <1>1, <2>1 DEF OwnInv, ProcInv
    <3> QED BY <1>3, <2>1, <3>1 DEF Proc, Other
  <2>2. loaded' # loaded
    BY <1>1
  <2> QED BY <1>3, <1>4, <2>1, <2>2 DEF OwnStep
<1> QED BY <1>1, <1>5, <1>6, <1>8, <1>9, <1>10 DEF Good, OwnInv

\* The paths of other modules are paths.
LEMMA OtherPathType ==
  ASSUME NEW p \in OtherPaths PROVE p \in AllPaths
<1>1. p \in Seq(STRING) /\ p # <<>>
  OBVIOUS
<1>2. STRING \subseteq AllNames
  BY DEF AllNames
<1> QED BY <1>1, <1>2, SeqMonotonic DEF AllPaths

\* Another module creates an entry.
LEMMA OtherCreateGood == ASSUME IInv, OwnInv, OtherCreate PROVE Good
<1>1. UNCHANGED memVars /\ UNCHANGED <<loaded, failed, warned>> /\ si' \subseteq MemFiles
  BY DEF OtherCreate, memVars, procVars, OwnInv
<1>2. PICK p \in OtherPaths :
        /\ Len(p) > 1 => DirOf(p) \in DOMAIN tree /\ tree[DirOf(p)] = Other
        /\ Created(p, Other)
  BY DEF OtherCreate
<1>3. /\ DOMAIN tree' = DOMAIN tree \union {p} /\ p \notin DOMAIN tree
      /\ tree'[p] = Other /\ \A q \in DOMAIN tree : tree'[q] = tree[q]
  BY <1>2, CreatedKeeps
<1>4. TreeInv'
  BY <1>2, OtherPathType, CreatedTree DEF OwnInv, Owners
<1>5. StandInv'
  BY <1>1, <1>3, StandOthers DEF OwnInv
<1>6. ProcInv'
  BY <1>1, <1>3 DEF OwnInv, ProcInv, Proc, Other
<1>7. OwnStep /\ OrderlyStep
  BY <1>1, <1>3, Nothing
<1> QED BY <1>1, <1>4, <1>5, <1>6, <1>7 DEF Good, OwnInv

\* Another module removes an entry with what is below it.
LEMMA OtherRemoveGood == ASSUME IInv, OwnInv, OtherRemove PROVE Good
<1>1. UNCHANGED memVars /\ UNCHANGED <<loaded, failed, warned>> /\ si' \subseteq MemFiles
  BY DEF OtherRemove, memVars, procVars, OwnInv
<1>2. PICK path \in OtherPaths : path \in DOMAIN tree /\ tree[path] = Other /\ tree' = Without(path)
  BY DEF OtherRemove
<1>3. /\ DOMAIN tree' = DOMAIN tree \ ({path} \union Below(path))
      /\ \A p \in DOMAIN tree' : tree'[p] = tree[p]
  BY <1>2, WithoutKeeps
<1>4. path \in AllPaths
  BY OtherPathType
<1>5. \A p \in DOMAIN tree \ DOMAIN tree' : tree[p] = Other
  <2>1. \A p \in Below(path) : tree[p] = Other
    BY <1>2, <1>4, BelowOwner DEF OwnInv
  <2> QED BY <1>2, <1>3, <2>1
<1>6. TreeInv'
  BY <1>2, <1>4, WithoutTree DEF OwnInv
<1>7. StandInv'
  <2>1. \A p \in DOMAIN tree : tree[p] = Mem => p \in DOMAIN tree' /\ tree'[p] = tree[p]
    BY <1>3, <1>5 DEF Mem, Other
  <2> QED BY <1>1, <2>1, StandOthers DEF OwnInv
<1>8. ProcInv'
  <2>1. ProcPath \in DOMAIN tree /\ tree[ProcPath] = Proc => ProcPath \in DOMAIN tree'
    BY <1>5 DEF Proc, Other
  <2>2. ProcPath \in DOMAIN tree' => ProcPath \in DOMAIN tree /\ tree'[ProcPath] = tree[ProcPath]
    BY <1>3
  <2>3. \A p \in DOMAIN tree' : tree'[p] = Proc => p = ProcPath
    BY <1>3 DEF OwnInv, ProcInv
  <2> QED BY <1>1, <2>1, <2>2, <2>3 DEF OwnInv, ProcInv
<1>9. OwnStep /\ OrderlyStep
  <2>1. at' = at /\ loaded' = loaded /\ warned' = warned
    BY <1>1 DEF memVars
  <2> QED BY <1>5, <2>1 DEF OwnStep, OrderlyStep, Mem, Proc, Other
<1> QED BY <1>1, <1>6, <1>7, <1>8, <1>9 DEF Good, OwnInv

\* /proc is empty at first.
LEMMA InitOwn == ASSUME Init PROVE OwnInv
<1>1. DOMAIN tree = {} /\ Standing = {} /\ si = {}
  BY DEF Init, Standing
<1>2. TreeInv /\ StandInv
  BY <1>1 DEF TreeInv, StandInv
<1>3. ProcInv
  BY <1>1 DEF Init, ProcInv
<1> QED BY <1>1, <1>2, <1>3 DEF OwnInv

\* Every step keeps the invariant and takes away only what it may.
LEMMA StepOwn ==
  ASSUME IInv, OwnInv, [Next]_vars
  PROVE  OwnInv' /\ [OwnStep]_vars /\ [OrderlyStep]_vars
<1>1. CASE Next
  <2>1. Good
    BY <1>1, LoadGood, CreateGood, ExitGood, RemoveGood, ProcInitGood, ProcExitGood,
       OtherCreateGood, OtherRemoveGood DEF Next
  <2> QED BY <2>1 DEF Good
<1>2. CASE UNCHANGED vars
  <2>1. UNCHANGED <<tree, entry, at, si, loaded, failed, warned>>
    BY <1>2 DEF vars, memVars, procVars
  <2>2. TreeInv' /\ ProcInv' /\ si' \subseteq MemFiles
    BY <2>1 DEF OwnInv, TreeInv, EntryOK, ProcInv
  <2>3. StandInv'
    BY <2>1 DEF OwnInv, StandInv, Standing
  <2> QED BY <1>2, <2>2, <2>3 DEF OwnInv
<1> QED BY <1>1, <1>2

\* Who owns what under /proc: every entry its directory's owner, lkm_mem's
\* entries those it knows of, and the one of lkm_proc its own.
THEOREM Ownership == Spec => []OwnInv
<1>1. Init => OwnInv
  BY InitOwn
<1>2. IInv /\ OwnInv /\ [Next]_vars => OwnInv'
  BY StepOwn
<1> QED BY <1>1, <1>2, Invariance, PTL DEF Spec

\* The directories above every entry are there, and a pointer of lkm_mem.c is
\* NULL or that of the path with the entry's name.
THEOREM TypeCorrect == Spec => []TypeOK
<1>1. ASSUME IInv, NEW i \in 1 .. 9, entry[i] # NULL
      PROVE  entry[i][Len(entry[i])] = Entries[i].name
  <2>1. PICK name \in AllNames : name = Entries[i].name
    BY NamesAre
  <2>2. PICK p \in AllPaths :
          /\ p = entry[i]
          /\ p = <<name>> \/ \E dir \in Seq(AllNames) : p = Append(dir, name)
    BY <1>1, <2>1, PathShape DEF IInv, PathInv
  <2>3. CASE p = <<name>>
    BY <2>1, <2>2, <2>3
  <2>4. ASSUME NEW dir \in Seq(AllNames), p = Append(dir, name) PROVE p[Len(p)] = name
    BY <2>4, LenProperties, AppendProperties
  <2> QED BY <2>1, <2>2, <2>3, <2>4
<1>2. IInv /\ OwnInv => TypeOK
  <2>1. SUFFICES ASSUME IInv, OwnInv PROVE TypeOK
    OBVIOUS
  <2>2. ASSUME NEW p \in DOMAIN tree
        PROVE  /\ tree[p] \in {Mem, Proc, Other}
               /\ \A n \in 1 .. Len(p) - 1 : SubSeq(p, 1, n) \in DOMAIN tree
    BY <2>1 DEF OwnInv, TreeInv, EntryOK, Owners
  <2>3. /\ \A i \in 1 .. Last : entry[i] # NULL => entry[i][Len(entry[i])] = Entries[i].name
        /\ at \in 0 .. 2 * Last + 1
    BY <1>1, <2>1, Nine DEF IInv, Types
  <2>4. si \subseteq MemFiles \union SwapFiles /\ {loaded, failed, warned} \subseteq BOOLEAN
    BY <2>1 DEF OwnInv, ProcInv
  <2> QED BY <2>2, <2>3, <2>4 DEF TypeOK
<1> QED BY <1>2, Invariance, Ownership, PTL

\* Nobody's entries disappear by another's doing, but for those below a name
\* that lkm_proc was refused.
THEOREM RemovesOnlyOwn == Spec => RemovesOwn
<1>1. IInv /\ OwnInv /\ [Next]_vars => [OwnStep]_vars
  BY StepOwn
<1> QED BY <1>1, Invariance, Ownership, PTL DEF Spec, RemovesOwn, OwnStep

\* The kernel never complains of what lkm_mem_exit() removes, whatever failed
\* when it was created: every name is there, and every directory empty.
THEOREM NoComplaint == Spec => OrderlyExit
<1>1. IInv /\ OwnInv /\ [Next]_vars => [OrderlyStep]_vars
  BY StepOwn
<1> QED BY <1>1, Invariance, Ownership, PTL DEF Spec, OrderlyExit, OrderlyStep
=============================================================================

------------------------------ MODULE ProcTree ------------------------------
(***************************************************************************)
(* lkm_mem.c and lkm_proc.c: what their init functions put into /proc, what*)
(* of it their exit functions take away, when any creation may fail and    *)
(* other modules have entries of their own.                                *)
(*                                                                         *)
(* lkm_mem takes one step for each entry it creates or removes: /proc may  *)
(* be used by others in between.  lkm_mem.c goes on after a failure, with  *)
(* NULL for the parent, which is the root of /proc: names that were meant  *)
(* for two directories meet there.                                         *)
(***************************************************************************)
EXTENDS Integers, Sequences

CONSTANTS
  NULL,
  OtherPaths    \* bound: paths other modules may use

VARIABLES
  tree,     \* the entries of /proc: path -> the module that owns it
  entry,    \* the *_entry and *_parent variables of lkm_mem.c: NULL or a path
  at,       \* how far lkm_mem is: see Creating, Loaded, Removing
  si,       \* the files whose field of struct sysinfo was filled in
  loaded,   \* lkm_proc is loaded
  failed,   \* history: and was refused its entry
  warned    \* history: remove_proc_entry() complained

memVars == <<entry, at, si>>
procVars == <<loaded, failed>>
vars == <<tree, memVars, procVars, warned>>

Mem == "lkm_mem"
Proc == "lkm_proc"
Other == "other"

-----------------------------------------------------------------------------
\* The entries of lkm_mem.c in the order of their creation; a parent is named
\* by its number, 0 is NULL.
Entries == <<
  [name |-> "lkm",    parent |-> 0],
  [name |-> "mem",    parent |-> 1],
  [name |-> "buffer", parent |-> 2],
  [name |-> "free",   parent |-> 2],
  [name |-> "shared", parent |-> 2],
  [name |-> "total",  parent |-> 2],
  [name |-> "swap",   parent |-> 1],
  [name |-> "free",   parent |-> 7],
  [name |-> "total",  parent |-> 7] >>

\* Paths are sequences of names ...
ASSUME OtherAssumption == OtherPaths \subseteq Seq(STRING) \ {<<>>}

\* ... and NULL is none.
ASSUME ProcTreeAssumption == NULL \notin Seq({Entries[i].name : i \in 1 .. Len(Entries)})

MemFiles == 3 .. 6
SwapFiles == 8 .. 9

\* Mutants: the parents first; swap/free twice instead of swap/total.
MutantParentsFirst == <<1, 2, 3, 4, 5, 6, 7, 8, 9>>
MutantTwice == <<3, 4, 5, 6, 2, 8, 8, 7, 1>>

\* The order in which lkm_mem_exit() removes them.
Removals == <<3, 4, 5, 6, 2, 8, 9, 7, 1>>

Last == Len(Entries)
Unloaded == at = 0
Creating == at \in 1 .. Last
Loaded == at = Last + 1
Removing == at \in Last + 2 .. 2 * Last + 1

\* A mutant: the name of "free" is used for "shared" as well.
MutantPathOf(i) ==
  LET parent == Entries[i].parent
      dir == IF parent = 0 THEN NULL ELSE entry[parent] IN
  Append(IF dir = NULL THEN <<>> ELSE dir, Entries[IF i = 5 THEN 4 ELSE i].name)

\* The path an entry has below its parent, if that exists, or in the root.
PathOf(i) ==
  LET parent == Entries[i].parent
      dir == IF parent = 0 THEN NULL ELSE entry[parent] IN
  Append(IF dir = NULL THEN <<>> ELSE dir, Entries[i].name)

-----------------------------------------------------------------------------
\* proc_mkdir(), proc_create_single(): refused when the name is taken, or for
\* want of memory.
Created(path, owner) ==
  /\ path \notin DOMAIN tree
  /\ tree' = [p \in DOMAIN tree \union {path} |-> IF p = path THEN owner ELSE tree[p]]
Refused == UNCHANGED tree

Below(path) == {p \in DOMAIN tree : Len(p) > Len(path) /\ SubSeq(p, 1, Len(path)) = path}

\* The tree without an entry and what is below it.
Without(path) == [p \in DOMAIN tree \ ({path} \union Below(path)) |-> tree[p]]

\* remove_proc_entry(): complains of a name that is not there and of a
\* directory that is not empty, and removes what there is.
RemoveProcEntry(path) ==
  /\ tree' = Without(path)
  /\ warned' = (warned \/ path \notin DOMAIN tree \/ Below(path) # {})

-----------------------------------------------------------------------------
\* lkm_mem.c

\* A mutant: si_meminfo() is called when everything is set up.
MutantFilled == IF at = Last THEN MemFiles ELSE {}

\* si_meminfo(), after the first directory was made; nobody calls si_swapinfo().
Filled == IF at = 1 THEN MemFiles ELSE {}

\* insmod: the variables of the module are zero.
MemLoad ==
  /\ Unloaded
  /\ at' = 1
  /\ entry' = [i \in 1 .. Last |-> NULL] /\ si' = {}
  /\ UNCHANGED <<tree, procVars, warned>>

\* lkm_proc_mkdir() or lkm_proc_create_single_data(), for the entry it is at.
MemCreate ==
  /\ Creating
  /\ \/ Created(PathOf(at), Mem) /\ entry' = [entry EXCEPT ![at] = PathOf(at)]
     \/ Refused /\ UNCHANGED entry
  /\ at' = at + 1 /\ si' = si \union Filled
  /\ UNCHANGED <<procVars, warned>>

MemExit ==
  /\ Loaded /\ at' = at + 1
  /\ UNCHANGED <<tree, entry, si, procVars, warned>>

\* A mutant: remove_proc_entry() is called without a look at the entry.
MutantRemove(i) == RemoveProcEntry(PathOf(i))

\* lkm_remove_proc_entry()
Remove(i) ==
  IF entry[i] # NULL THEN RemoveProcEntry(PathOf(i)) ELSE UNCHANGED <<tree, warned>>

MemRemove ==
  /\ Removing
  /\ Remove(Removals[at - Last - 1])
  /\ at' = IF at = 2 * Last + 1 THEN 0 ELSE at + 1
  /\ UNCHANGED <<entry, si, procVars>>

-----------------------------------------------------------------------------
\* lkm_proc.c
ProcPath == <<"lkm_proc">>

\* lkm_proc_init() succeeds whether or not it gets its entry.
ProcInit ==
  /\ ~loaded /\ loaded' = TRUE
  /\ \/ Created(ProcPath, Proc) /\ failed' = FALSE
     \/ Refused /\ failed' = TRUE
  /\ UNCHANGED <<memVars, warned>>

\* lkm_proc_exit() removes it whether or not it got it.
ProcExit ==
  /\ loaded /\ loaded' = FALSE
  /\ RemoveProcEntry(ProcPath)
  /\ UNCHANGED <<memVars, failed>>

-----------------------------------------------------------------------------
\* Other modules, which use their own entries only: they create below their own
\* directories or in the root, and remove a directory with its contents.
DirOf(path) == SubSeq(path, 1, Len(path) - 1)

OtherCreate ==
  /\ \E p \in OtherPaths :
       /\ Len(p) > 1 => DirOf(p) \in DOMAIN tree /\ tree[DirOf(p)] = Other
       /\ Created(p, Other)
  /\ UNCHANGED <<memVars, procVars, warned>>

OtherRemove ==
  /\ \E p \in OtherPaths : p \in DOMAIN tree /\ tree[p] = Other /\ tree' = Without(p)
  /\ UNCHANGED <<memVars, procVars, warned>>

Init ==
  /\ tree = <<>> /\ warned = FALSE
  /\ entry = [i \in 1 .. Last |-> NULL] /\ at = 0 /\ si = {}
  /\ loaded = FALSE /\ failed = FALSE

Next ==
  \/ MemLoad \/ MemCreate \/ MemExit \/ MemRemove
  \/ ProcInit \/ ProcExit
  \/ OtherCreate \/ OtherRemove

Spec == Init /\ [][Next]_vars

-----------------------------------------------------------------------------
\* Type invariant: every entry of /proc has a directory above it, and what
\* lkm_mem.c holds for an entry is NULL or a path of that name.
TypeOK ==
  /\ \A p \in DOMAIN tree : /\ tree[p] \in {Mem, Proc, Other}
                            /\ \A n \in 1 .. Len(p) - 1 : SubSeq(p, 1, n) \in DOMAIN tree
  /\ \A i \in 1 .. Last : entry[i] # NULL => entry[i][Len(entry[i])] = Entries[i].name
  /\ at \in 0 .. 2 * Last + 1
  /\ si \subseteq MemFiles \union SwapFiles
  /\ {loaded, failed, warned} \subseteq BOOLEAN

\* lkm_mem_exit() removes everything lkm_mem_init() created, in whichever
\* directory it ended up after failures (lkm_mem.c:142-169).
LeavesNothing == Unloaded => \A p \in DOMAIN tree : tree[p] # Mem

\* An entry disappears by its owner's doing only; lkm_proc_exit() is excused
\* if its init function was refused the name, which then is another's, with
\* all its contents (lkm_mem.c:105, lkm_proc.c:67).
RemovesOwn ==
  [][\A p \in DOMAIN tree \ DOMAIN tree' :
       /\ tree[p] = Mem => at' # at
       /\ tree[p] = Proc => loaded' # loaded
       /\ tree[p] = Other => \/ at' = at /\ loaded' = loaded
                             \/ failed /\ SubSeq(p, 1, 1) = ProcPath]_vars

\* The kernel has no reason to complain of lkm_mem: no name is removed that is
\* not there, and no directory before its contents (lkm_mem.c:144-168).
OrderlyExit == [][warned' # warned => at' = at /\ failed]_vars

\* Users can read the file.
Visible(i) == entry[i] \in DOMAIN tree /\ tree[entry[i]] = Mem

\* The four files below mem never show a field before si_meminfo() filled it,
\* even while the module is being loaded and wherever they ended up
\* (lkm_mem.c:114).  It is not true of the two files below swap: si_meminfo() has
\* nothing to say of swap, and nobody calls si_swapinfo().
MemFilledBeforeShown == \A i \in MemFiles : Visible(i) => i \in si
=============================================================================

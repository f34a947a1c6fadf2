---------------------------- MODULE IoPermissions ----------------------------
(***************************************************************************)
(* pocs/io-port-permissions: two programs that ask for the permission to   *)
(* use I/O ports and find out which tasks then have it.                    *)
(*                                                                         *)
(*   comparing   comparing-iopl-ioperm.c: one thread is created before the *)
(*               permission is asked for and one after                     *)
(*   revisited   permissions-revisited.c: a task is created in one of four *)
(*               ways after it, execve() running                           *)
(*               permissions-with-execve-target.c                          *)
(*                                                                         *)
(* The kernel is external: it keeps a permission for each task, and which  *)
(* ways of creating a task hand it on is what the programs ask.            *)
(***************************************************************************)
EXTENDS Sequences

Programs == {"comparing", "revisited"}
Methods == {"iopl", "ioperm", "anything"}
Creations == {"clone", "execve", "fork", "pthread"}

\* main() of the program, and those that it creates.
Tasks == {"main", "sleepy", "thread", "child"}

VARIABLES
  program, method, creation,  \* what was started, with which arguments
  inherited,  \* external: the ways of creation that hand the permission on
  todo,       \* the steps a task has still to take
  task,       \* external: a task is "none" yet, "running" or "ended"
  port,       \* external: the tasks that may use the ports
  status,     \* external: how the process of a task ended, or "running"
  retval,     \* revisited: creating the child failed
  readers,    \* history: the tasks that read the port
  culprit,    \* history: the tasks that were killed for trying
  failed      \* history: a thread was not created, and nobody noticed

arguments == <<program, method, creation, inherited>>
vars == <<arguments, todo, task, port, status, retval, readers, culprit, failed>>

\* The steps of a task.
Acquiring == <<"acquire">>
Reading == <<"read">>
Sleeping == <<"sleep">>
Executing == <<"execve">>
Creating(t) == <<"create", t>>
Joining(t) == <<"join", t>>

-----------------------------------------------------------------------------
\* A mutant: the permission is asked for first.
MutantMain ==
  IF program = "comparing"
  THEN <<Acquiring, Creating("sleepy"), Reading, Creating("thread"),
         Joining("sleepy"), Joining("thread")>>
  ELSE <<Acquiring, Creating("child"), Reading>>

\* A mutant: a thread is joined before it is created.
MutantJoinsFirst ==
  IF program = "comparing"
  THEN <<Creating("sleepy"), Acquiring, Reading, Joining("thread"), Creating("thread"),
         Joining("sleepy")>>
  ELSE IF creation = "execve" THEN <<Acquiring, Reading, Executing, Reading>>
  ELSE IF creation = "pthread" THEN <<Acquiring, Joining("child"), Creating("child"), Reading>>
  ELSE <<Acquiring, Creating("child"), Reading>>

\* What main() does, up to its return.
Main ==
  IF program = "comparing"
  THEN <<Creating("sleepy"), Acquiring, Reading, Creating("thread"),
         Joining("sleepy"), Joining("thread")>>
  ELSE IF creation = "execve" THEN <<Acquiring, Reading, Executing, Reading>>
  ELSE IF creation = "pthread" THEN <<Acquiring, Creating("child"), Reading, Joining("child")>>
  ELSE <<Acquiring, Creating("child"), Reading>>

\* What the created tasks do; sleep(2) takes as long as it takes.
Course(t) == IF t = "sleepy" THEN <<Sleeping, Reading>> ELSE <<Reading>>

\* The task a process is named after, and those that are in it with one.
Process(t) == IF t = "child" /\ creation \in {"clone", "fork"} THEN "child" ELSE "main"
Mates(t) == {u \in Tasks : Process(u) = Process(t)}

At(t, step) == task[t] = "running" /\ todo[t] # <<>> /\ Head(todo[t]) = step
Goes(t) == todo' = [todo EXCEPT ![t] = Tail(@)]

\* A mutant: a thread ends alone.
MutantEnd(t, how) ==
  /\ status' = IF Process(t) = t THEN [status EXCEPT ![t] = how] ELSE status
  /\ task' = [task EXCEPT ![t] = "ended"]

\* A process that ends takes its threads with it.
End(t, how) ==
  /\ status' = [status EXCEPT ![Process(t)] = how]
  /\ task' = [u \in Tasks |-> IF u \in Mates(t) /\ task[u] = "running" THEN "ended" ELSE task[u]]

-----------------------------------------------------------------------------
\* A mutant: a refusal is not noticed.
MutantAcquire ==
  /\ At("main", Acquiring)
  /\ port' \in IF method = "anything" THEN {port} ELSE {port, port \union {"main"}}
  /\ Goes("main")
  /\ UNCHANGED <<arguments, task, status, retval, readers, culprit, failed>>

\* iopl() or ioperm(), which may be refused.  Of a method it does not know,
\* comparing makes nothing, and revisited a failure.
Acquire ==
  /\ At("main", Acquiring)
  /\ \/ /\ method # "anything"
        /\ port' = port \union {"main"}
        /\ Goes("main")
        /\ UNCHANGED <<task, status>>
     \/ /\ method = "anything" /\ program = "comparing"
        /\ Goes("main")
        /\ UNCHANGED <<port, task, status>>
     \/ /\ ~(method = "anything" /\ program = "comparing")
        /\ End("main", "error")
        /\ UNCHANGED <<todo, port>>
  /\ UNCHANGED <<arguments, retval, readers, culprit, failed>>

\* External: a new task has the permission of the one that creates it, if that
\* is handed on.
Created(t) ==
  /\ task' = [task EXCEPT !["main"] = "running", ![t] = "running"]
  /\ todo' = [todo EXCEPT !["main"] = Tail(@), ![t] = Course(t)]
  /\ port' = IF "main" \in port /\ creation \in inherited THEN port \union {t} ELSE port
  /\ status' = [status EXCEPT ![Process(t)] = "running"]
  /\ UNCHANGED <<retval, failed>>

\* pthread_create(), whose result nobody looks at; clone() and fork(), after
\* whose failure main() goes to its end, by way of the read where clone() had
\* been given a stack.
Create(t) ==
  /\ At("main", Creating(t))
  /\ \/ Created(t)
     \/ /\ creation = "pthread"
        /\ failed' = TRUE
        /\ Goes("main")
        /\ UNCHANGED <<task, port, status, retval>>
     \/ /\ creation # "pthread"
        /\ retval' = TRUE
        /\ \/ Goes("main") /\ creation = "clone"
           \/ todo' = [todo EXCEPT !["main"] = <<>>]
        /\ UNCHANGED <<task, port, status, failed>>
  /\ UNCHANGED <<arguments, readers, culprit>>

Sleep(t) ==
  /\ At(t, Sleeping)
  /\ Goes(t)
  /\ UNCHANGED <<arguments, task, port, status, retval, readers, culprit, failed>>

\* inb(): without the permission it is a segmentation fault.
Read(t) ==
  /\ At(t, Reading)
  /\ IF t \in port
     THEN readers' = readers \union {t} /\ Goes(t) /\ UNCHANGED <<task, status, culprit>>
     ELSE culprit' = culprit \union {t} /\ End(t, "segfault") /\ UNCHANGED <<todo, readers>>
  /\ UNCHANGED <<arguments, port, retval, failed>>

\* pthread_join() waits for a thread that was created.
Join(t) ==
  /\ At("main", Joining(t))
  /\ task[t] = "ended"
  /\ Goes("main")
  /\ UNCHANGED <<arguments, task, port, status, retval, readers, culprit, failed>>

\* pthread_join() where pthread_create() has failed: it takes for a thread
\* whatever the variable holds, and may return, crash, or wait for ever.
JoinNobody(t) ==
  /\ At("main", Joining(t))
  /\ task[t] = "none"
  /\ \/ Goes("main") /\ UNCHANGED <<task, status>>
     \/ End("main", "segfault") /\ UNCHANGED todo
  /\ UNCHANGED <<arguments, port, retval, readers, culprit, failed>>

\* A mutant: the target is taken for another task.
MutantExecve ==
  /\ At("main", Executing)
  /\ Goes("main")
  /\ port' = port \union {"child"}
  /\ UNCHANGED <<arguments, task, status, retval, readers, culprit, failed>>

\* execve(): main() is now that of the target.
Execve ==
  /\ At("main", Executing)
  /\ \/ /\ Goes("main")
        /\ port' = IF "execve" \in inherited THEN port ELSE {}
        /\ UNCHANGED <<task, status>>
     \/ End("main", "error") /\ UNCHANGED <<todo, port>>
  /\ UNCHANGED <<arguments, retval, readers, culprit, failed>>

\* The end of a thread, or of main() and with it of the process.
Return(t) ==
  /\ task[t] = "running" /\ todo[t] = <<>>
  /\ IF Process(t) = t
     THEN End(t, IF t = "main" /\ retval THEN "error" ELSE "zero")
     ELSE task' = [task EXCEPT ![t] = "ended"] /\ UNCHANGED status
  /\ UNCHANGED <<arguments, todo, port, retval, readers, culprit, failed>>

-----------------------------------------------------------------------------
Init ==
  /\ program \in Programs /\ method \in Methods /\ creation \in Creations
  /\ program = "comparing" => creation = "pthread"
  /\ inherited \in SUBSET Creations
  /\ todo = [t \in Tasks |-> IF t = "main" THEN Main ELSE <<>>]
  /\ task = [t \in Tasks |-> IF t = "main" THEN "running" ELSE "none"]
  /\ status = [t \in Tasks |-> IF t = "main" THEN "running" ELSE "none"]
  /\ port = {} /\ readers = {} /\ culprit = {}
  /\ retval = FALSE /\ failed = FALSE

MainStep == Acquire \/ Execve \/ \E t \in Tasks : Create(t) \/ Join(t)
Step(t) == (t = "main" /\ MainStep) \/ Sleep(t) \/ Read(t) \/ Return(t)

Next == \E t \in Tasks : Step(t) \/ JoinNobody(t)

Spec == Init /\ [][Next]_vars

\* The scheduler runs every task that can run; sleep(2) ends.  Nothing makes a
\* pthread_join() of no thread return.
FairSpec == Spec /\ \A t \in Tasks : WF_vars(Step(t))

-----------------------------------------------------------------------------
\* Type invariant; only tasks that were created may use the ports, have read
\* them or were killed.
TypeOK ==
  /\ \A t \in Tasks : task[t] \in {"none", "running", "ended"}
  /\ \A t \in Tasks : status[t] \in {"none", "running", "zero", "error", "segfault"}
  /\ port \union readers \union culprit \subseteq {t \in Tasks : task[t] # "none"}

\* comparing-iopl-ioperm.c:48-49: the inb() of the sleepy thread "will fail due
\* to missing permissions and it'll segfault although permissions are acquired
\* before threads are joined", whichever comes first and whatever is inherited.
SleepyNeverReads == "sleepy" \notin readers

\* main() is not killed for using a port it got the permission for, before
\* execve(), nor are tasks it creates after that in a way that hands the
\* permission on (comparing-iopl-ioperm.c:36-37, 94-95), whoever is killed
\* beside them and in whichever order they come to their reads.
GrantedMayRead ==
  method # "anything" =>
    /\ creation \in inherited => culprit \subseteq {"sleepy"}
    /\ "main" \in culprit => creation = "execve" /\ "main" \in readers

\* comparing never gets to its "return retval" with 0: it joins a thread that
\* takes the process along (comparing-iopl-ioperm.c:99-102), unless that thread
\* could not be created.
NeverZero == program = "comparing" /\ ~failed => status["main"] # "zero"

\* main() is in pthread_join() of a thread that pthread_create() has failed to
\* create, unnoticed: that call may never return.
Adrift == failed /\ \E t \in Tasks : At("main", Joining(t)) /\ task[t] = "none"

\* Every process and every thread ends, whoever is killed and however main()
\* comes to its joins (comparing-iopl-ioperm.c:98-100,
\* permissions-revisited.c:137-139): only a main() that is adrift may stay, and
\* that one alone.
Ends ==
  <>[](\A t \in Tasks :
         \/ status[t] # "running" /\ task[t] # "running"
         \/ t = "main" /\ Adrift)
=============================================================================

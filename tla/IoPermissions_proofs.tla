------------------------ MODULE IoPermissions_proofs -------------------------
(***************************************************************************)
(* Proofs about IoPermissions: what every order of steps comes to, on      *)
(* every kernel.                                                           *)
(***************************************************************************)
EXTENDS IoPermissions, Integers, SequenceTheorems, TLAPS

\* All steps there are, and the whole course of a task.
Steps == {Acquiring, Reading, Sleeping, Executing}
           \union {Creating(t) : t \in Tasks} \union {Joining(t) : t \in Tasks}
Whole(t) == IF t = "main" THEN Main ELSE Course(t)
Left(t) == Len(todo[t])

\* pthread_join(), of a thread or of none.
Joins(t) == Join(t) \/ JoinNobody(t)

ShapeInv ==
  /\ program \in Programs /\ method \in Methods /\ creation \in Creations
  /\ program = "comparing" => creation = "pthread"
  /\ todo \in [Tasks -> Seq(Steps)]
  /\ task \in [Tasks -> {"none", "running", "ended"}]
  /\ status \in [Tasks -> {"none", "running", "zero", "error", "segfault"}]
  /\ port \union readers \union culprit \subseteq {t \in Tasks : task[t] # "none"}

\* What a task has still to do is the end of its course.
EndOf(s, w) ==
  /\ Len(s) <= Len(w)
  /\ \A i \in 1 .. Len(s) : s[i] = w[Len(w) - Len(s) + i]

CourseInv == \A t \in Tasks : EndOf(todo[t], Whole(t))

\* Which program creates which tasks; a process runs no longer than its main().
CreatedInv ==
  /\ task["main"] # "none"
  /\ \A t \in {"sleepy", "thread"} : task[t] # "none" => program = "comparing"
  /\ task["child"] # "none" => program = "revisited" /\ creation # "execve"
  /\ \A t \in Tasks : status[t] = "running" => Process(t) = t /\ task[t] = "running"

\* main() joins threads that it has created, if it could.
JoinedInv ==
  ~failed /\ Left("main") <= 2 =>
    /\ program = "comparing" => task["thread"] # "none"
    /\ program = "revisited" /\ creation = "pthread" => task["child"] # "none"

\* The sleepy thread was created before the permission was there, and so its
\* read takes the process along.
SleepyInv ==
  /\ "sleepy" \notin port \union readers
  /\ task["sleepy"] = "running" => todo["sleepy"] # <<>>
  /\ program = "comparing" =>
       /\ Left("main") >= 5 => port = {}
       /\ task["main"] = "running" => task["sleepy"] # "ended"
       /\ ~failed /\ Left("main") <= 5 => task["sleepy"] # "none"
       /\ ~failed /\ task["main"] = "running" => Left("main") >= 2

\* The permission main() has and hands on.
Acquired == Left("main") <= IF program = "comparing" THEN 4 ELSE Len(Main) - 1
Executed == creation = "execve" /\ Left("main") <= 1
GrantInv ==
  method # "anything" =>
    /\ Acquired => "main" \in port \/ (Executed /\ creation \notin inherited)
    /\ creation \in inherited =>
         \A t \in {"thread", "child"} : task[t] # "none" => t \in port
    /\ creation = "execve" /\ Left("main") <= 2 => "main" \in readers

IInv ==
  /\ ShapeInv /\ CourseInv /\ CreatedInv /\ SleepyInv /\ GrantInv /\ JoinedInv
  /\ GrantedMayRead /\ NeverZero

-----------------------------------------------------------------------------
(***************************************************************************)
(* Steps and courses.                                                      *)
(***************************************************************************)
\* No step is another one.
LEMMA StepsDiffer ==
  /\ \A s, t \in {Acquiring, Reading, Sleeping, Executing} : s[1] = t[1] => s = t
  /\ Acquiring[1] = "acquire" /\ Reading[1] = "read" /\ Sleeping[1] = "sleep"
  /\ Executing[1] = "execve"
  /\ \A t : Creating(t)[1] = "create" /\ Creating(t)[2] = t
  /\ \A t : Joining(t)[1] = "join" /\ Joining(t)[2] = t
BY DEF Acquiring, Reading, Sleeping, Executing, Creating, Joining

\* What is left of a course without its first step is the end of it, too.
LEMMA TailEnd ==
  ASSUME NEW S, NEW s \in Seq(S), NEW w \in Seq(S), s # <<>>, EndOf(s, w)
  PROVE  /\ Tail(s) \in Seq(S) /\ EndOf(Tail(s), w)
         /\ Len(s) \in Nat \ {0} /\ Len(Tail(s)) = Len(s) - 1
         /\ Head(s) = w[Len(w) - Len(s) + 1]
<1>1. /\ Len(s) \in Nat \ {0} /\ Len(w) \in Nat /\ Head(s) = s[1]
      /\ Tail(s) \in Seq(S) /\ Len(Tail(s)) = Len(s) - 1
      /\ \A i \in 1 .. Len(s) - 1 : Tail(s)[i] = s[i + 1]
  BY HeadTailProperties, EmptySeq, LenProperties
<1>2. Head(s) = w[Len(w) - Len(s) + 1]
  BY <1>1 DEF EndOf
<1>3. ASSUME NEW i \in 1 .. Len(s) - 1
      PROVE  Tail(s)[i] = w[Len(w) - (Len(s) - 1) + i]
  <2>1. i + 1 \in 1 .. Len(s) /\ Len(w) - Len(s) + (i + 1) = Len(w) - (Len(s) - 1) + i
    BY <1>1
  <2>2. s[i + 1] = w[Len(w) - Len(s) + (i + 1)]
    BY <2>1 DEF EndOf
  <2> QED BY <1>1, <2>1, <2>2
<1> QED BY <1>1, <1>2, <1>3 DEF EndOf

\* The courses, step by step.
LEMMA MainIs ==
  /\ Main \in Seq(Steps)
  /\ program = "comparing" =>
       /\ Len(Main) = 6
       /\ Main[1] = Creating("sleepy") /\ Main[2] = Acquiring /\ Main[3] = Reading
       /\ Main[4] = Creating("thread") /\ Main[5] = Joining("sleepy")
       /\ Main[6] = Joining("thread")
  /\ program # "comparing" =>
       /\ Main[1] = Acquiring
       /\ creation = "execve" =>
            Len(Main) = 4 /\ Main[2] = Reading /\ Main[3] = Executing /\ Main[4] = Reading
       /\ creation # "execve" => Main[2] = Creating("child") /\ Main[3] = Reading
       /\ creation = "pthread" => Len(Main) = 4 /\ Main[4] = Joining("child")
       /\ creation \notin {"execve", "pthread"} => Len(Main) = 3
<1>1. /\ {Acquiring, Reading, Sleeping, Executing} \subseteq Steps
      /\ \A t \in Tasks : Creating(t) \in Steps /\ Joining(t) \in Steps
      /\ "sleepy" \in Tasks /\ "thread" \in Tasks /\ "child" \in Tasks
  BY DEF Steps, Tasks
<1> HIDE DEF Steps
<1>2. CASE program = "comparing"
  BY <1>1, <1>2 DEF Main
<1>3. CASE program # "comparing"
  BY <1>1, <1>3 DEF Main
<1> QED BY <1>2, <1>3

LEMMA CourseIs ==
  /\ \A t : Course(t) \in Seq(Steps) /\ Len(Course(t)) = IF t = "sleepy" THEN 2 ELSE 1
  /\ \A t : Course(t)[Len(Course(t))] = Reading
  /\ Course("sleepy")[1] = Sleeping
<1>1. Reading \in Steps /\ Sleeping \in Steps
  BY DEF Steps
<1> HIDE DEF Steps
<1> QED BY <1>1 DEF Course

LEMMA WholeIs == \A t \in Tasks : Whole(t) \in Seq(Steps)
BY MainIs, CourseIs DEF Whole

\* Where main() and the tasks it creates are, by what they have still to do.
LEMMA Stages ==
  ASSUME ShapeInv, CourseInv, todo["main"] # <<>>
  PROVE  LET n == Left("main")  s == Head(todo["main"]) IN
         /\ n \in Nat \ {0}
         /\ program = "comparing" =>
              \/ n = 6 /\ s = Creating("sleepy")
              \/ n = 5 /\ s = Acquiring
              \/ n = 4 /\ s = Reading
              \/ n = 3 /\ s = Creating("thread")
              \/ n = 2 /\ s = Joining("sleepy")
              \/ n = 1 /\ s = Joining("thread")
         /\ program # "comparing" /\ creation = "execve" =>
              \/ n = 4 /\ s = Acquiring
              \/ n = 3 /\ s = Reading
              \/ n = 2 /\ s = Executing
              \/ n = 1 /\ s = Reading
         /\ program # "comparing" /\ creation = "pthread" =>
              \/ n = 4 /\ s = Acquiring
              \/ n = 3 /\ s = Creating("child")
              \/ n = 2 /\ s = Reading
              \/ n = 1 /\ s = Joining("child")
         /\ program # "comparing" /\ creation \notin {"execve", "pthread"} =>
              \/ n = 3 /\ s = Acquiring
              \/ n = 2 /\ s = Creating("child")
              \/ n = 1 /\ s = Reading
<1> DEFINE n == Left("main")
           s == Head(todo["main"])
<1>1. /\ todo["main"] \in Seq(Steps) /\ EndOf(todo["main"], Main) /\ Main \in Seq(Steps)
  BY MainIs DEF ShapeInv, CourseInv, Whole, Tasks
<1>2. /\ n \in Nat \ {0} /\ n <= Len(Main) /\ s = Main[Len(Main) - n + 1]
  <2>1. /\ Len(todo["main"]) \in Nat \ {0}
        /\ Head(todo["main"]) = Main[Len(Main) - Len(todo["main"]) + 1]
    BY <1>1, TailEnd, Zenon
  <2> QED BY <1>1, <2>1 DEF EndOf, Left
<1> HIDE DEF n, s
<1>3. ASSUME program = "comparing"
      PROVE  \/ n = 6 /\ s = Creating("sleepy")
             \/ n = 5 /\ s = Acquiring
             \/ n = 4 /\ s = Reading
             \/ n = 3 /\ s = Creating("thread")
             \/ n = 2 /\ s = Joining("sleepy")
             \/ n = 1 /\ s = Joining("thread")
  <2>1. Len(Main) = 6
    BY <1>3, MainIs
  <2>2. \/ n = 6 /\ s = Main[1]
        \/ n = 5 /\ s = Main[2]
        \/ n = 4 /\ s = Main[3]
        \/ n = 3 /\ s = Main[4]
        \/ n = 2 /\ s = Main[5]
        \/ n = 1 /\ s = Main[6]
    BY <1>2, <2>1
  <2> QED BY <1>3, <2>2, MainIs
<1>4. ASSUME program # "comparing", creation = "execve"
      PROVE  \/ n = 4 /\ s = Acquiring
             \/ n = 3 /\ s = Reading
             \/ n = 2 /\ s = Executing
             \/ n = 1 /\ s = Reading
  <2>1. Len(Main) = 4
    BY <1>4, MainIs
  <2>2. \/ n = 4 /\ s = Main[1]
        \/ n = 3 /\ s = Main[2]
        \/ n = 2 /\ s = Main[3]
        \/ n = 1 /\ s = Main[4]
    BY <1>2, <2>1
  <2> QED BY <1>4, <2>2, MainIs
<1>5. ASSUME program # "comparing", creation = "pthread"
      PROVE  \/ n = 4 /\ s = Acquiring
             \/ n = 3 /\ s = Creating("child")
             \/ n = 2 /\ s = Reading
             \/ n = 1 /\ s = Joining("child")
  <2>1. Len(Main) = 4
    BY <1>5, MainIs
  <2>2. \/ n = 4 /\ s = Main[1]
        \/ n = 3 /\ s = Main[2]
        \/ n = 2 /\ s = Main[3]
        \/ n = 1 /\ s = Main[4]
    BY <1>2, <2>1
  <2> QED BY <1>5, <2>2, MainIs
<1>6. ASSUME program # "comparing", creation \notin {"execve", "pthread"}
      PROVE  \/ n = 3 /\ s = Acquiring
             \/ n = 2 /\ s = Creating("child")
             \/ n = 1 /\ s = Reading
  <2>1. Len(Main) = 3
    BY <1>6, MainIs
  <2>2. \/ n = 3 /\ s = Main[1]
        \/ n = 2 /\ s = Main[2]
        \/ n = 1 /\ s = Main[3]
    BY <1>2, <2>1
  <2> QED BY <1>6, <2>2, MainIs
<1> USE DEF n, s
<1> QED BY <1>2, <1>3, <1>4, <1>5, <1>6, Zenon

LEMMA OtherStages ==
  ASSUME ShapeInv, CourseInv, NEW t \in Tasks \ {"main"}, todo[t] # <<>>
  PROVE  /\ Left(t) = 1 => Head(todo[t]) = Reading
         /\ Left(t) = 1 \/ (Left(t) = 2 /\ t = "sleepy" /\ Head(todo[t]) = Sleeping)
<1>1. todo[t] \in Seq(Steps) /\ EndOf(todo[t], Course(t))
  BY DEF ShapeInv, CourseInv, Whole
<1>2. /\ Left(t) \in Nat \ {0} /\ Left(t) <= Len(Course(t))
      /\ Head(todo[t]) = Course(t)[Len(Course(t)) - Left(t) + 1]
  <2>1. /\ Len(todo[t]) \in Nat \ {0}
        /\ Head(todo[t]) = Course(t)[Len(Course(t)) - Len(todo[t]) + 1]
    BY <1>1, TailEnd, CourseIs, Zenon
  <2> QED BY <1>1, <2>1 DEF EndOf, Left
<1>3. CASE t = "sleepy"
  <2>1. \/ Left(t) = 1 /\ Head(todo[t]) = Course(t)[2]
        \/ Left(t) = 2 /\ Head(todo[t]) = Course(t)[1]
    BY <1>2, <1>3, CourseIs
  <2> QED BY <1>3, <2>1, CourseIs
<1>4. CASE t # "sleepy"
  <2>1. Left(t) = 1 /\ Head(todo[t]) = Course(t)[1]
    BY <1>2, <1>4, CourseIs
  <2> QED BY <1>4, <2>1, CourseIs
<1> QED BY <1>3, <1>4

-----------------------------------------------------------------------------
(***************************************************************************)
(* What a step does to the courses.                                        *)
(***************************************************************************)
LEMMA NextCases ==
  ASSUME [Next]_vars
  PROVE  \/ Acquire \/ Execve
         \/ \E t \in Tasks : Create(t) \/ Joins(t) \/ Sleep(t) \/ Read(t) \/ Return(t)
         \/ UNCHANGED vars
BY DEF Next, Step, MainStep, Joins

LEMMA SameArguments ==
  ASSUME [Next]_vars
  PROVE  /\ UNCHANGED <<program, method, creation, inherited>>
         /\ Main' = Main
         /\ \A t : Whole(t)' = Whole(t) /\ Process(t)' = Process(t)
<1>1. UNCHANGED <<program, method, creation, inherited>>
  BY NextCases
  DEF Acquire, Execve, Create, Joins, Join, JoinNobody, Sleep, Read, Return, arguments, vars
<1> QED BY <1>1 DEF Main, Whole, Course, Process

\* main() creates the tasks of its program, and not itself.
LEMMA CreateWhom ==
  ASSUME ShapeInv, CourseInv, NEW t \in Tasks, Create(t)
  PROVE  /\ t # "main" /\ t \in Tasks /\ task["main"] = "running"
         /\ todo["main"] # <<>>
         /\ program = "comparing" => \/ t = "sleepy" /\ Left("main") = 6
                                     \/ t = "thread" /\ Left("main") = 3
         /\ program # "comparing" =>
              /\ t = "child" /\ creation # "execve"
              /\ Left("main") = IF creation = "pthread" THEN 3 ELSE 2
<1>1. /\ task["main"] = "running" /\ todo["main"] # <<>>
      /\ Head(todo["main"]) = Creating(t)
  BY DEF Create, At
<1>2. /\ \A u : Creating(t) = Creating(u) => t = u
      /\ \A u : Creating(t) # Joining(u)
      /\ Creating(t) \notin {Acquiring, Reading, Executing}
  BY StepsDiffer
<1> QED BY <1>1, <1>2, Stages

LEMMA JoinWhom ==
  ASSUME ShapeInv, CourseInv, NEW t \in Tasks, Joins(t)
  PROVE  /\ task["main"] = "running" /\ todo["main"] # <<>>
         /\ program = "comparing" => \/ t = "sleepy" /\ Left("main") = 2
                                     \/ t = "thread" /\ Left("main") = 1
         /\ program # "comparing" =>
              t = "child" /\ creation = "pthread" /\ Left("main") = 1
<1>1. /\ task["main"] = "running" /\ todo["main"] # <<>>
      /\ Head(todo["main"]) = Joining(t)
  BY DEF Joins, Join, JoinNobody, At
<1>2. /\ \A u : Joining(t) = Joining(u) => t = u
      /\ \A u : Joining(t) # Creating(u)
      /\ Joining(t) \notin {Acquiring, Reading, Executing}
  BY StepsDiffer
<1> QED BY <1>1, <1>2, Stages

LEMMA AcquireWhen ==
  ASSUME ShapeInv, CourseInv, Acquire
  PROVE  /\ task["main"] = "running" /\ todo["main"] # <<>>
         /\ program = "comparing" => Left("main") = 5
         /\ program # "comparing" => Left("main") = Len(Main)
<1>1. /\ task["main"] = "running" /\ todo["main"] # <<>>
      /\ Head(todo["main"]) = Acquiring
  BY DEF Acquire, At
<1>2. /\ \A u : Acquiring # Creating(u) /\ Acquiring # Joining(u)
      /\ Acquiring \notin {Reading, Executing}
  BY StepsDiffer
<1> QED BY <1>1, <1>2, Stages, MainIs

LEMMA ExecveWhen ==
  ASSUME ShapeInv, CourseInv, Execve
  PROVE  /\ task["main"] = "running" /\ todo["main"] # <<>>
         /\ program # "comparing" /\ creation = "execve" /\ Left("main") = 2
<1>1. /\ task["main"] = "running" /\ todo["main"] # <<>>
      /\ Head(todo["main"]) = Executing
  BY DEF Execve, At
<1>2. /\ \A u : Executing # Creating(u) /\ Executing # Joining(u)
      /\ Executing \notin {Reading, Acquiring}
  BY StepsDiffer
<1>3. program # "comparing"
  BY <1>1, <1>2, Stages
<1>4. creation = "execve"
  BY <1>1, <1>2, <1>3, Stages
<1> QED BY <1>1, <1>2, <1>3, <1>4, Stages

LEMMA ReadWhen ==
  ASSUME ShapeInv, CourseInv, NEW t \in Tasks, Read(t)
  PROVE  /\ task[t] = "running" /\ todo[t] # <<>>
         /\ t # "main" => Left(t) = 1
         /\ t = "main" /\ program = "comparing" => Left(t) = 4
         /\ t = "main" /\ program # "comparing" =>
              Left(t) \in CASE creation = "execve" -> {3, 1}
                            [] creation = "pthread" -> {2}
                            [] OTHER -> {1}
<1>1. /\ task[t] = "running" /\ todo[t] # <<>> /\ Head(todo[t]) = Reading
  BY DEF Read, At
<1>2. /\ \A u : Reading # Creating(u) /\ Reading # Joining(u)
      /\ Reading \notin {Sleeping, Acquiring, Executing}
  BY StepsDiffer
<1>3. ASSUME t # "main" PROVE Left(t) = 1
  BY <1>1, <1>2, <1>3, OtherStages
<1>4. ASSUME t = "main" PROVE todo["main"] # <<>> /\ Head(todo["main"]) = Reading
  BY <1>1, <1>4
<1> QED BY <1>1, <1>2, <1>3, <1>4, Stages

LEMMA SleepWhen ==
  ASSUME ShapeInv, CourseInv, NEW t \in Tasks, Sleep(t)
  PROVE  t = "sleepy" /\ todo[t] # <<>> /\ Left(t) = 2 /\ task[t] = "running"
<1>1. task[t] = "running" /\ todo[t] # <<>> /\ Head(todo[t]) = Sleeping
  BY DEF Sleep, At
<1>2. /\ \A u : Sleeping # Creating(u) /\ Sleeping # Joining(u)
      /\ Sleeping \notin {Reading, Acquiring, Executing}
  BY StepsDiffer
<1>3. t # "main"
  <2>1. SUFFICES ASSUME t = "main" PROVE FALSE
    OBVIOUS
  <2>2. todo["main"] # <<>> /\ Head(todo["main"]) = Sleeping
    BY <1>1, <2>1
  <2> QED BY <1>2, <2>2, Stages DEF ShapeInv, Creations
<1> QED BY <1>1, <1>2, <1>3, OtherStages

\* A course gets shorter by a step, starts, or is given up.
LEMMA TodoSteps ==
  ASSUME ShapeInv, CourseInv, [Next]_vars, NEW t \in Tasks
  PROVE  \/ todo'[t] = todo[t]
         \/ todo[t] # <<>> /\ todo'[t] = Tail(todo[t])
         \/ t # "main" /\ Create(t) /\ todo'[t] = Course(t)
         \/ t = "main" /\ creation # "pthread" /\ todo'[t] = <<>>
<1>1. todo \in [Tasks -> Seq(Steps)] /\ "main" \in Tasks
  BY DEF ShapeInv, Tasks
<1> USE DEF Goes
<1>2. CASE Acquire
  BY <1>1, <1>2, AcquireWhen DEF Acquire
<1>3. CASE Execve
  BY <1>1, <1>3, ExecveWhen DEF Execve
<1>4. ASSUME NEW u \in Tasks, Create(u)
      PROVE  \/ todo'[t] = todo[t]
             \/ todo[t] # <<>> /\ todo'[t] = Tail(todo[t])
             \/ t = u /\ t # "main" /\ todo'[t] = Course(t)
             \/ t = "main" /\ creation # "pthread" /\ todo'[t] = <<>>
  <2>1. u # "main" /\ todo["main"] # <<>>
    BY <1>4, CreateWhom
  <2>2. \/ todo' = [todo EXCEPT !["main"] = Tail(@), ![u] = Course(u)]
        \/ todo' = [todo EXCEPT !["main"] = Tail(@)]
        \/ creation # "pthread" /\ todo' = [todo EXCEPT !["main"] = <<>>]
    BY <1>4 DEF Create, Created
  <2> QED BY <1>1, <2>1, <2>2
<1>5. ASSUME NEW u \in Tasks, Joins(u)
      PROVE  todo'[t] = todo[t] \/ (todo[t] # <<>> /\ todo'[t] = Tail(todo[t]))
  BY <1>1, <1>5, JoinWhom DEF Joins, Join, JoinNobody
<1>6. ASSUME NEW u \in Tasks, Sleep(u) \/ Read(u)
      PROVE  todo'[t] = todo[t] \/ (todo[t] # <<>> /\ todo'[t] = Tail(todo[t]))
  <2>1. todo[u] # <<>>
    BY <1>6 DEF Sleep, Read, At
  <2> QED BY <1>1, <1>6, <2>1 DEF Sleep, Read
<1>7. ASSUME NEW u \in Tasks, Return(u) PROVE todo' = todo
  BY <1>7 DEF Return
<1>8. CASE UNCHANGED vars
  BY <1>8 DEF vars
<1> QED BY <1>2, <1>3, <1>4, <1>5, <1>6, <1>7, <1>8, NextCases

LEMMA CourseStep ==
  ASSUME ShapeInv, CourseInv, [Next]_vars, NEW t \in Tasks
  PROVE  todo'[t] \in Seq(Steps) /\ EndOf(todo'[t], Whole(t)')
<1>1. /\ todo[t] \in Seq(Steps) /\ EndOf(todo[t], Whole(t)) /\ Whole(t)' = Whole(t)
      /\ Whole(t) \in Seq(Steps) /\ Len(Whole(t)) \in Nat
  BY SameArguments, WholeIs, LenProperties DEF ShapeInv, CourseInv
<1>2. CASE todo'[t] = todo[t]
  BY <1>1, <1>2, Zenon
<1>3. CASE todo[t] # <<>> /\ todo'[t] = Tail(todo[t])
  BY <1>1, <1>3, TailEnd, Zenon
<1>4. CASE t # "main" /\ todo'[t] = Course(t)
  <2>1. todo'[t] = Whole(t)
    BY <1>4 DEF Whole
  <2>2. EndOf(Whole(t), Whole(t))
    BY <1>1 DEF EndOf
  <2> QED BY <1>1, <2>1, <2>2, Zenon
<1>5. CASE todo'[t] = <<>>
  BY <1>1, <1>5, EmptySeq DEF EndOf
<1> QED BY <1>2, <1>3, <1>4, <1>5, TodoSteps

LEMMA LeftSteps ==
  ASSUME ShapeInv, CourseInv, [Next]_vars, NEW t \in Tasks
  PROVE  /\ Left(t) \in Nat /\ Left(t)' \in Nat
         /\ todo[t] = <<>> <=> Left(t) = 0
         /\ todo'[t] = <<>> <=> Left(t)' = 0
         /\ todo[t] # <<>> /\ todo'[t] = Tail(todo[t]) => Left(t)' = Left(t) - 1
         /\ t = "main" => Left(t)' <= Left(t)
<1>1. /\ todo[t] \in Seq(Steps) /\ todo'[t] \in Seq(Steps)
  BY CourseStep DEF ShapeInv
<1>2. ASSUME todo[t] # <<>>
      PROVE  Len(Tail(todo[t])) = Len(todo[t]) - 1
  BY <1>1, <1>2, HeadTailProperties, Zenon
<1>3. /\ Left(t) \in Nat /\ Left(t)' \in Nat
      /\ todo[t] = <<>> <=> Left(t) = 0
      /\ todo'[t] = <<>> <=> Left(t)' = 0
  BY <1>1, EmptySeq, LenProperties DEF Left
<1>4. todo[t] # <<>> /\ todo'[t] = Tail(todo[t]) => Left(t)' = Left(t) - 1
  BY <1>2 DEF Left
<1>5. todo'[t] = todo[t] => Left(t)' = Left(t)
  BY DEF Left
<1> QED BY <1>3, <1>4, <1>5, TodoSteps

-----------------------------------------------------------------------------
(***************************************************************************)
(* The parts of the invariant.                                             *)
(***************************************************************************)
\* End() ends those that run in the process, and the process.
LEMMA EndEffect ==
  ASSUME ShapeInv, NEW t \in Tasks, NEW how \in {"zero", "error", "segfault"}, End(t, how)
  PROVE  /\ status' = [status EXCEPT ![Process(t)] = how]
         /\ Process(t) \in {"main", "child"}
         /\ task' \in [Tasks -> {"none", "running", "ended"}]
         /\ \A u \in Tasks : /\ task'[u] = "none" <=> task[u] = "none"
                             /\ task'[u] = "running" => task[u] = "running"
                             /\ task[u] = "running" /\ task'[u] # task[u] => task'[u] = "ended"
                             /\ task[u] = "running" =>
                                  task'[u] = IF Process(u) = Process(t) THEN "ended" ELSE "running"
<1>1. /\ status' = [status EXCEPT ![Process(t)] = how]
      /\ \A u \in Tasks :
           task'[u] = IF u \in Mates(t) /\ task[u] = "running" THEN "ended" ELSE task[u]
      /\ task \in [Tasks -> {"none", "running", "ended"}]
      /\ task' \in [Tasks -> {"none", "running", "ended"}]
  BY DEF End, ShapeInv
<1> QED BY <1>1 DEF Mates, Process

LEMMA ShapeStep ==
  ASSUME ShapeInv, CourseInv, [Next]_vars
  PROVE  ShapeInv'
<1>1. /\ task \in [Tasks -> {"none", "running", "ended"}]
      /\ status \in [Tasks -> {"none", "running", "zero", "error", "segfault"}]
      /\ port \union readers \union culprit \subseteq {t \in Tasks : task[t] # "none"}
      /\ \A t \in Tasks : Process(t) \in Tasks
      /\ "main" \in Tasks
  BY DEF ShapeInv, Process, Tasks
<1> DEFINE Kept == /\ task' \in [Tasks -> {"none", "running", "ended"}]
                   /\ status' \in [Tasks -> {"none", "running", "zero", "error", "segfault"}]
                   /\ (port \union readers \union culprit)'
                        \subseteq {t \in Tasks : task'[t] # "none"}
<1>2. todo' \in [Tasks -> Seq(Steps)]
  <2>1. todo \in [Tasks -> Seq(Steps)]
    BY DEF ShapeInv
  <2>2. todo' = [t \in Tasks |-> todo'[t]]
    <3>1. CASE Acquire \/ Execve \/ UNCHANGED vars
      BY <2>1, <3>1 DEF Acquire, Execve, vars, Goes
    <3>2. ASSUME NEW t \in Tasks, Create(t) PROVE todo' = [u \in Tasks |-> todo'[u]]
      BY <2>1, <3>2 DEF Create, Created, Goes
    <3>3. ASSUME NEW t \in Tasks, Joins(t) \/ Sleep(t) \/ Read(t) \/ Return(t)
          PROVE  todo' = [u \in Tasks |-> todo'[u]]
      BY <2>1, <3>3 DEF Joins, Join, JoinNobody, Sleep, Read, Return, Goes
    <3> QED BY <3>1, <3>2, <3>3, NextCases
  <2>3. \A t \in Tasks : todo'[t] \in Seq(Steps)
    BY CourseStep
  <2> QED BY <2>2, <2>3
<1>3. ASSUME NEW t \in Tasks, NEW how \in {"zero", "error", "segfault"}, End(t, how),
             (port \union readers)' = port \union readers,
             culprit' \subseteq culprit \union {t}, task[t] # "none"
      PROVE  Kept
  BY <1>1, <1>3, EndEffect
<1>4. ASSUME task' = task, status' = status,
             (port \union readers \union culprit)'
               \subseteq {t \in Tasks : task[t] # "none"}
      PROVE  Kept
  BY <1>1, <1>4
<1>5. ASSUME Acquire PROVE Kept
  <2>1. CASE End("main", "error") /\ port' = port
    BY <1>1, <1>3, <1>5, <2>1 DEF Acquire, At
  <2>2. CASE task' = task /\ status' = status /\ port' \in {port, port \union {"main"}}
    BY <1>1, <1>5, <2>2 DEF Acquire, At
  <2> QED BY <1>5, <2>1, <2>2 DEF Acquire
<1>6. ASSUME Execve PROVE Kept
  <2>1. CASE End("main", "error") /\ port' = port
    BY <1>1, <1>3, <1>6, <2>1 DEF Execve, At
  <2>2. CASE task' = task /\ status' = status /\ port' \in {port, {}}
    BY <1>1, <1>6, <2>2 DEF Execve, At
  <2> QED BY <1>6, <2>1, <2>2 DEF Execve
<1>7. ASSUME NEW t \in Tasks, Create(t) PROVE Kept
  <2>1. CASE Created(t)
    <3>1. /\ task' = [task EXCEPT !["main"] = "running", ![t] = "running"]
          /\ status' = [status EXCEPT ![Process(t)] = "running"]
          /\ port' \in {port, port \union {t}}
      BY <2>1 DEF Created
    <3> QED BY <1>1, <1>7, <3>1 DEF Create
  <2>2. CASE task' = task /\ status' = status /\ port' = port
    BY <1>1, <1>7, <2>2 DEF Create
  <2> QED BY <1>7, <2>1, <2>2 DEF Create
<1>8. ASSUME NEW t \in Tasks, Joins(t) PROVE Kept
  <2>1. CASE End("main", "segfault")
    BY <1>1, <1>3, <1>8, <2>1 DEF Joins, Join, JoinNobody, At
  <2>2. CASE task' = task /\ status' = status
    BY <1>1, <1>8, <2>2 DEF Joins, Join, JoinNobody
  <2> QED BY <1>8, <2>1, <2>2 DEF Joins, Join, JoinNobody
<1>9. ASSUME NEW t \in Tasks, Read(t) PROVE Kept
  <2>1. CASE End(t, "segfault") /\ readers' = readers /\ culprit' = culprit \union {t}
    BY <1>1, <1>3, <1>9, <2>1 DEF Read, At
  <2>2. CASE task' = task /\ status' = status /\ culprit' = culprit
    BY <1>1, <1>9, <2>2 DEF Read, At
  <2> QED BY <1>9, <2>1, <2>2 DEF Read
<1>10. ASSUME NEW t \in Tasks, Return(t) PROVE Kept
  <2>1. CASE Process(t) = t
    BY <1>1, <1>3, <1>10, <2>1 DEF Return
  <2>2. CASE Process(t) # t
    BY <1>1, <1>10, <2>2 DEF Return
  <2> QED BY <2>1, <2>2
<1>11. ASSUME NEW t \in Tasks, Sleep(t) PROVE Kept
  BY <1>1, <1>11 DEF Sleep
<1>12. ASSUME UNCHANGED vars PROVE Kept
  BY <1>1, <1>12 DEF vars
<1>13. Kept
  BY <1>5, <1>6, <1>7, <1>8, <1>9, <1>10, <1>11, <1>12, NextCases
<1> QED BY <1>2, <1>13, SameArguments DEF ShapeInv

\* A task is created by main() and ends alone or with its process.
LEMMA TaskSteps ==
  ASSUME ShapeInv, CourseInv, [Next]_vars, NEW t \in Tasks
  PROVE  \/ task'[t] = task[t]
         \/ Create(t) /\ Created(t) /\ task'[t] = "running" /\ t # "main"
         \/ /\ task[t] = "running" /\ task'[t] = "ended"
            /\ \/ \E u \in Tasks, how \in {"zero", "error", "segfault"} :
                    End(u, how) /\ Process(u) = Process(t)
               \/ Process(t) # t /\ Return(t)
<1>1. task \in [Tasks -> {"none", "running", "ended"}] /\ "main" \in Tasks
  BY DEF ShapeInv, Tasks
<1> DEFINE Changed ==
             \/ task'[t] = task[t]
             \/ Create(t) /\ Created(t) /\ task'[t] = "running" /\ t # "main"
             \/ /\ task[t] = "running" /\ task'[t] = "ended"
                /\ \/ \E u \in Tasks, how \in {"zero", "error", "segfault"} :
                        End(u, how) /\ Process(u) = Process(t)
                   \/ Process(t) # t /\ Return(t)
<1>2. ASSUME NEW u \in Tasks, NEW how \in {"zero", "error", "segfault"}, End(u, how)
      PROVE  Changed
  <2>1. task'[t] = task[t] \/ (task[t] = "running" /\ task'[t] = "ended" /\ Process(u) = Process(t))
    BY <1>1, <1>2, EndEffect
  <2> QED BY <1>2, <2>1
<1>3. ASSUME NEW u \in Tasks, Create(u) PROVE Changed
  <2>1. u # "main" /\ task["main"] = "running"
    BY <1>3, CreateWhom
  <2>2. CASE Created(u)
    BY <1>1, <1>3, <2>1, <2>2 DEF Created
  <2> QED BY <1>3, <2>2 DEF Create
<1>4. ASSUME NEW u \in Tasks, Return(u) PROVE Changed
  <2>1. CASE Process(u) = u
    BY <1>2, <1>4, <2>1 DEF Return
  <2>2. CASE Process(u) # u
    BY <1>1, <1>4, <2>2 DEF Return
  <2> QED BY <2>1, <2>2
<1>5. ASSUME NEW u \in Tasks, Read(u) PROVE Changed
  BY <1>2, <1>5 DEF Read
<1>6. ASSUME NEW u \in Tasks, Joins(u) PROVE Changed
  BY <1>1, <1>2, <1>6 DEF Joins, Join, JoinNobody
<1>7. CASE Acquire \/ Execve
  BY <1>1, <1>2, <1>7 DEF Acquire, Execve
<1>8. CASE UNCHANGED vars \/ \E u \in Tasks : Sleep(u)
  BY <1>8 DEF Sleep, vars
<1> QED BY <1>3, <1>4, <1>5, <1>6, <1>7, <1>8, NextCases

LEMMA CreatedStep ==
  ASSUME ShapeInv, CourseInv, CreatedInv, [Next]_vars
  PROVE  CreatedInv'
<1>1. /\ task \in [Tasks -> {"none", "running", "ended"}]
      /\ status \in [Tasks -> {"none", "running", "zero", "error", "segfault"}]
      /\ {"main", "sleepy", "thread", "child"} \subseteq Tasks
  BY DEF ShapeInv, Tasks
<1>2. task'["main"] # "none"
  BY <1>1, TaskSteps DEF CreatedInv
<1>3. ASSUME NEW t \in {"sleepy", "thread"}, task'[t] # "none" PROVE program' = "comparing"
  <2>1. task[t] # "none" \/ Create(t)
    BY <1>1, <1>3, TaskSteps
  <2>2. program = "comparing"
    BY <1>1, <2>1, CreateWhom DEF CreatedInv
  <2> QED BY <2>2, SameArguments
<1>4. ASSUME task'["child"] # "none" PROVE (program = "revisited" /\ creation # "execve")'
  <2>1. task["child"] # "none" \/ Create("child")
    BY <1>1, <1>4, TaskSteps
  <2>2. program = "revisited" /\ creation # "execve"
    BY <1>1, <2>1, CreateWhom DEF CreatedInv, ShapeInv, Programs
  <2> QED BY <2>2, SameArguments
<1>5. \A t : Process(t) \in {"main", "child"} /\ Process(Process(t)) = Process(t)
  BY DEF Process
<1>6. ASSUME NEW u \in Tasks, NEW how \in {"zero", "error", "segfault"}, End(u, how)
      PROVE  status' = [status EXCEPT ![Process(u)] = how]
  BY <1>6 DEF End
<1>7. \/ status' = status
      \/ \E u \in Tasks, how \in {"zero", "error", "segfault"} : End(u, how)
      \/ \E u \in Tasks : Create(u) /\ Created(u)
  <2>1. ASSUME NEW t \in Tasks, Return(t)
        PROVE  status' = status \/ End(t, "zero") \/ End(t, "error")
    BY <2>1 DEF Return
  <2>2. ASSUME NEW t \in Tasks, Read(t) PROVE status' = status \/ End(t, "segfault")
    BY <2>2 DEF Read
  <2>3. ASSUME NEW t \in Tasks, Joins(t) PROVE status' = status \/ End("main", "segfault")
    BY <2>3 DEF Joins, Join, JoinNobody
  <2>4. CASE Acquire \/ Execve
    BY <1>1, <2>4 DEF Acquire, Execve
  <2>5. ASSUME NEW t \in Tasks, Create(t) PROVE status' = status \/ Created(t)
    BY <2>5 DEF Create
  <2>6. CASE UNCHANGED vars \/ \E t \in Tasks : Sleep(t)
    BY <2>6 DEF Sleep, vars
  <2> QED BY <1>1, <2>1, <2>2, <2>3, <2>4, <2>5, <2>6, NextCases
<1>8. ASSUME NEW t \in Tasks, status'[t] = "running"
      PROVE  Process(t) = t /\ task'[t] = "running"
  <2>1. CASE \E u \in Tasks : Create(u) /\ Created(u)
    <3>1. PICK u \in Tasks : Create(u) /\ Created(u)
      BY <2>1
    <3>2. /\ status' = [status EXCEPT ![Process(u)] = "running"]
          /\ task' = [task EXCEPT !["main"] = "running", ![u] = "running"]
          /\ Process(u) \in {"main", u}
      BY <3>1 DEF Created, Process
    <3> QED BY <1>1, <1>5, <1>8, <3>2 DEF CreatedInv
  <2>2. CASE \E u \in Tasks, how \in {"zero", "error", "segfault"} : End(u, how)
    <3>1. PICK u \in Tasks, how \in {"zero", "error", "segfault"} : End(u, how)
      BY <2>2
    <3>2. status'[t] # how /\ Process(u) # t /\ status[t] = "running"
      BY <1>1, <1>5, <1>6, <1>8, <3>1
    <3>3. Process(t) = t /\ task[t] = "running"
      BY <3>2 DEF CreatedInv
    <3> QED BY <3>1, <3>2, <3>3, EndEffect
  <2>3. CASE /\ status' = status
             /\ ~\E u \in Tasks, how \in {"zero", "error", "segfault"} : End(u, how)
    <3>1. Process(t) = t /\ task[t] = "running"
      BY <1>8, <2>3 DEF CreatedInv
    <3> QED BY <2>3, <3>1, TaskSteps
  <2> QED BY <1>7, <2>1, <2>2, <2>3
<1> QED BY <1>2, <1>3, <1>4, <1>8, SameArguments DEF CreatedInv

LEMMA SleepyStep ==
  ASSUME ShapeInv, CourseInv, CreatedInv, SleepyInv, [Next]_vars
  PROVE  SleepyInv'
<1>1. /\ task \in [Tasks -> {"none", "running", "ended"}]
      /\ {"main", "sleepy", "thread", "child"} \subseteq Tasks
      /\ program' = program /\ creation' = creation
      /\ program = "comparing" => creation = "pthread"
      /\ Left("main") \in Nat /\ Left("main")' \in Nat /\ Left("main")' <= Left("main")
  BY LeftSteps, SameArguments DEF ShapeInv, Tasks
\* Who gets the permission.
<1>2. /\ "sleepy" \notin port'
      /\ program = "comparing" /\ Left("main")' >= 5 => port' = {}
  <2>1. CASE Acquire
    <3>1. CASE port' = port
      BY <1>1, <3>1 DEF SleepyInv
    <3>2. CASE port' = port \union {"main"} /\ Goes("main")
      <4>1. todo'["main"] = Tail(todo["main"]) /\ todo["main"] # <<>>
        BY <1>1, <2>1, <3>2, AcquireWhen DEF Goes, ShapeInv
      <4>2. program = "comparing" => Left("main")' = 4
        BY <1>1, <2>1, <4>1, AcquireWhen, LeftSteps
      <4> QED BY <3>2, <4>2 DEF SleepyInv
    <3> QED BY <2>1, <3>1, <3>2 DEF Acquire
  <2>2. ASSUME NEW t \in Tasks, Create(t)
        PROVE  /\ "sleepy" \notin port'
               /\ program = "comparing" /\ Left("main")' >= 5 => port' = {}
    <3>1. port' = port \/ ("main" \in port /\ port' = port \union {t})
      BY <2>2 DEF Create, Created
    <3>2. t = "sleepy" => port = {}
      BY <2>2, CreateWhom DEF SleepyInv
    <3>3. program = "comparing" /\ Left("main")' >= 5 => port = {}
      BY <1>1 DEF SleepyInv
    <3> QED BY <3>1, <3>2, <3>3 DEF SleepyInv
  <2>3. CASE port' = port \/ port' = {}
    BY <1>1, <2>3 DEF SleepyInv
  <2>4. CASE Execve
    BY <2>3, <2>4 DEF Execve
  <2> QED BY <2>1, <2>2, <2>3, <2>4, NextCases DEF Joins, Join, JoinNobody, Sleep, Read, Return, vars
<1>3. "sleepy" \notin readers'
  <2>1. readers' = readers \/ \E t \in port : readers' = readers \union {t}
    BY NextCases DEF Acquire, Execve, Create, Joins, Join, JoinNobody, Sleep, Read, Return, vars
  <2> QED BY <2>1 DEF SleepyInv
\* What the sleepy thread does.
<1>4. ASSUME task'["sleepy"] = "running" PROVE todo'["sleepy"] # <<>>
  <2>1. CASE Create("sleepy") /\ Created("sleepy")
    <3>1. todo'["sleepy"] = Course("sleepy")
      BY <1>1, <2>1 DEF Created, ShapeInv
    <3>2. Len(Course("sleepy")) = 2
      BY CourseIs
    <3>3. Left("sleepy")' = 2
      BY <3>1, <3>2 DEF Left
    <3> QED BY <1>1, <3>3, LeftSteps
  <2>2. CASE task'["sleepy"] = task["sleepy"] /\ todo'["sleepy"] = todo["sleepy"]
    BY <1>4, <2>2 DEF SleepyInv
  <2>3. CASE /\ task'["sleepy"] = task["sleepy"] /\ todo'["sleepy"] # todo["sleepy"]
             /\ ~Create("sleepy")
    <3>1. todo["sleepy"] # <<>> /\ todo'["sleepy"] = Tail(todo["sleepy"])
      BY <1>1, <2>3, TodoSteps
    <3>2. ~Read("sleepy")
      <4>1. SUFFICES ASSUME Read("sleepy") PROVE FALSE
        OBVIOUS
      <4>2. End("sleepy", "segfault")
        BY <4>1 DEF Read, SleepyInv
      <4>3. task["sleepy"] = "running" /\ task'["sleepy"] = "ended"
        BY <1>1, <4>1, <4>2, EndEffect DEF Read, At
      <4> QED BY <2>3, <4>3
    <3>3. Sleep("sleepy")
      <4>1. ASSUME NEW t \in Tasks, Sleep(t) \/ Read(t)
            PROVE  t = "sleepy"
        BY <1>1, <2>3, <4>1 DEF Sleep, Read, Goes, ShapeInv
      <4>2. ASSUME NEW t \in Tasks, Create(t) PROVE FALSE
        <5>1. t # "sleepy"
          BY <2>3, <4>2
        <5> QED BY <1>1, <2>3, <4>2, <5>1 DEF Create, Created, Goes, ShapeInv
      <4>3. ASSUME NEW t \in Tasks, Joins(t) \/ Return(t) PROVE FALSE
        BY <1>1, <2>3, <4>3 DEF Joins, Join, JoinNobody, Return, Goes, ShapeInv
      <4>4. ~Acquire /\ ~Execve /\ ~UNCHANGED vars
        BY <1>1, <2>3 DEF Acquire, Execve, Goes, ShapeInv, vars
      <4> QED BY <3>2, <4>1, <4>2, <4>3, <4>4, NextCases
    <3>4. Left("sleepy")' = 1
      BY <1>1, <3>1, <3>3, SleepWhen, LeftSteps
    <3> QED BY <1>1, <3>4, LeftSteps
  <2>4. CASE task'["sleepy"] = task["sleepy"] /\ Create("sleepy") /\ ~Created("sleepy")
    <3>1. todo'["sleepy"] = todo["sleepy"]
      BY <1>1, <2>4 DEF Create, Goes, ShapeInv
    <3> QED BY <2>2, <2>4, <3>1
  <2> QED BY <1>1, <1>4, <2>1, <2>2, <2>3, <2>4, TaskSteps
\* What main() knows of it.
<1>5. ASSUME program = "comparing", task'["main"] = "running"
      PROVE  task["main"] = "running" /\ task'["sleepy"] # "ended"
  <2>1. task["main"] = "running"
    BY <1>1, <1>5, TaskSteps
  <2>2. task["sleepy"] # "ended"
    BY <1>5, <2>1 DEF SleepyInv
  <2>3. ASSUME task["sleepy"] = "running", task'["sleepy"] = "ended" PROVE FALSE
    <3>1. CASE Return("sleepy")
      BY <2>3, <3>1 DEF Return, SleepyInv
    <3>2. CASE \E u \in Tasks, how \in {"zero", "error", "segfault"} :
                 End(u, how) /\ Process(u) = Process("sleepy")
      <4>1. Process("sleepy") = Process("main")
        BY DEF Process
      <4> QED BY <1>1, <1>5, <2>1, <3>2, <4>1, EndEffect
    <3> QED BY <1>1, <2>3, <3>1, <3>2, TaskSteps
  <2> QED BY <1>1, <2>1, <2>2, <2>3, TaskSteps
<1>6. ASSUME program = "comparing", ~failed', Left("main")' <= 5 PROVE task'["sleepy"] # "none"
  <2>1. ~failed
    BY <1>6, NextCases
    DEF Acquire, Execve, Create, Created, Joins, Join, JoinNobody, Sleep, Read, Return, vars
  <2>2. CASE Left("main") <= 5
    <3>1. task["sleepy"] # "none"
      BY <1>6, <2>1, <2>2 DEF SleepyInv
    <3> QED BY <1>1, <3>1, TaskSteps
  <2>3. CASE Left("main") > 5
    <3>1. todo'["main"] # todo["main"] /\ Left("main") \notin {1, 2, 3, 4, 5}
      <4>1. Left("main")' # Left("main") /\ Left("main") \notin {1, 2, 3, 4, 5}
        BY <1>1, <1>6, <2>3
      <4>2. todo'["main"] = todo["main"] => Left("main")' = Left("main")
        BY DEF Left
      <4> QED BY <4>1, <4>2
    <3>2. ASSUME NEW t \in Tasks, Create(t) PROVE task'["sleepy"] # "none"
      <4>1. t = "sleepy"
        BY <1>6, <3>1, <3>2, CreateWhom
      <4>2. Created(t)
        BY <1>1, <1>6, <3>2 DEF Create
      <4> QED BY <1>1, <4>1, <4>2 DEF Created
    <3>3. ~Acquire /\ ~Execve
      BY <1>6, <3>1, AcquireWhen, ExecveWhen
    <3>4. ASSUME NEW t \in Tasks PROVE ~Joins(t) /\ ~Return(t)
      BY <1>6, <3>1, JoinWhom DEF Return
    <3>5. ASSUME NEW t \in Tasks, Read(t) \/ Sleep(t) PROVE FALSE
      <4>1. t # "main"
        BY <1>6, <3>1, <3>5, ReadWhen, SleepWhen
      <4> QED BY <1>1, <3>1, <3>5, <4>1 DEF Read, Sleep, Goes, ShapeInv
    <3> QED BY <3>1, <3>2, <3>3, <3>4, <3>5, NextCases DEF vars
  <2> QED BY <1>1, <2>2, <2>3
<1>7. ASSUME program = "comparing", ~failed', task'["main"] = "running" PROVE Left("main")' >= 2
  <2>1. ~failed
    BY <1>7, NextCases
    DEF Acquire, Execve, Create, Created, Joins, Join, JoinNobody, Sleep, Read, Return, vars
  <2>2. Left("main") >= 2 /\ task["main"] = "running" /\ task["sleepy"] # "ended"
    BY <1>5, <1>7, <2>1 DEF SleepyInv
  <2>3. SUFFICES ASSUME Left("main")' < 2 PROVE FALSE
    BY <1>1
  <2>4. todo'["main"] # todo["main"]
    BY <1>1, <2>2, <2>3 DEF Left
  <2>5. Left("main") = 2
    BY <1>1, <1>7, <2>2, <2>3, <2>4, TodoSteps, LeftSteps
  <2>6. task["sleepy"] = "running"
    BY <1>1, <1>7, <2>1, <2>2, <2>5 DEF SleepyInv
  <2>7. ~Acquire /\ ~Execve
    BY <1>7, <2>5, AcquireWhen, ExecveWhen
  <2>8. ASSUME NEW t \in Tasks PROVE ~Create(t) /\ ~Return(t)
    BY <1>7, <2>4, <2>5, CreateWhom DEF Return
  <2>9. ASSUME NEW t \in Tasks, Read(t) \/ Sleep(t) PROVE FALSE
    <3>1. t # "main"
      BY <1>7, <2>5, <2>9, ReadWhen, SleepWhen
    <3> QED BY <1>1, <2>4, <2>9, <3>1 DEF Read, Sleep, Goes, ShapeInv
  <2>10. ASSUME NEW t \in Tasks, Joins(t) PROVE FALSE
    <3>1. t = "sleepy"
      BY <1>7, <2>5, <2>10, JoinWhom
    <3> QED BY <2>4, <2>6, <2>10, <3>1 DEF Joins, Join, JoinNobody
  <2> QED BY <2>4, <2>7, <2>8, <2>9, <2>10, NextCases DEF vars
<1> QED BY <1>1, <1>2, <1>3, <1>4, <1>5, <1>6, <1>7 DEF SleepyInv

LEMMA Going ==
  ASSUME ShapeInv, CourseInv, [Next]_vars, NEW t \in Tasks, todo[t] # <<>>, Goes(t)
  PROVE  Left(t)' = Left(t) - 1
<1>1. todo'[t] = Tail(todo[t])
  BY DEF Goes, ShapeInv
<1> QED BY <1>1, LeftSteps

\* How far main() is when it has asked for the permission.
LEMMA AcquiredIs ==
  /\ program = "comparing" => (Acquired <=> Left("main") <= 4)
  /\ program # "comparing" /\ creation \in {"execve", "pthread"} =>
       (Acquired <=> Left("main") <= 3)
  /\ program # "comparing" /\ creation \notin {"execve", "pthread"} =>
       (Acquired <=> Left("main") <= 2)
<1>1. program # "comparing" =>
        /\ creation \in {"execve", "pthread"} => Len(Main) - 1 = 3
        /\ creation \notin {"execve", "pthread"} => Len(Main) - 1 = 2
  BY MainIs
<1> QED BY <1>1 DEF Acquired

\* Whoever moves main() on has the permission asked for, but for the creation
\* of the sleepy thread.
LEMMA MovesLate ==
  ASSUME ShapeInv, CourseInv, [Next]_vars, ~Acquire, todo'["main"] # todo["main"]
  PROVE  Acquired \/ (program = "comparing" /\ Left("main") = 6)
<1>1. /\ "main" \in Tasks /\ todo \in [Tasks -> Seq(Steps)]
  BY DEF ShapeInv, Tasks
<1>2. CASE Execve
  BY <1>1, <1>2, ExecveWhen, AcquiredIs
<1>3. ASSUME NEW t \in Tasks, Create(t)
      PROVE  Acquired \/ (program = "comparing" /\ Left("main") = 6)
  BY <1>1, <1>3, CreateWhom, AcquiredIs
<1>4. ASSUME NEW t \in Tasks, Joins(t) PROVE Acquired
  <2>1. CASE program = "comparing"
    <3>1. Left("main") \in {1, 2}
      BY <1>4, <2>1, JoinWhom
    <3> QED BY <2>1, <3>1, AcquiredIs
  <2>2. CASE program # "comparing"
    <3>1. creation = "pthread" /\ Left("main") = 1
      BY <1>4, <2>2, JoinWhom
    <3> QED BY <2>2, <3>1, AcquiredIs
  <2> QED BY <2>1, <2>2
<1>5. ASSUME NEW t \in Tasks, Read(t) PROVE Acquired
  <2>1. t = "main"
    BY <1>1, <1>5 DEF Read, Goes
  <2> QED BY <1>1, <1>5, <2>1, ReadWhen, AcquiredIs
<1>6. ASSUME NEW t \in Tasks, Sleep(t) \/ Return(t) PROVE FALSE
  <2>1. ~Return(t) /\ Sleep(t)
    BY <1>6 DEF Return
  <2>2. t = "sleepy"
    BY <2>1, SleepWhen
  <2> QED BY <1>1, <2>1, <2>2 DEF Sleep, Goes
<1> QED BY <1>2, <1>3, <1>4, <1>5, <1>6, NextCases DEF vars

LEMMA ReadLate ==
  ASSUME ShapeInv, CourseInv, Read("main")
  PROVE  Acquired
BY ReadWhen, AcquiredIs DEF Tasks

LEMMA GrantStep ==
  ASSUME ShapeInv, CourseInv, CreatedInv, GrantInv, [Next]_vars
  PROVE  GrantInv'
<1>1. /\ task \in [Tasks -> {"none", "running", "ended"}]
      /\ {"main", "sleepy", "thread", "child"} \subseteq Tasks
      /\ program' = program /\ creation' = creation /\ inherited' = inherited
      /\ method' = method /\ Main' = Main
      /\ program = "comparing" => creation = "pthread"
      /\ Left("main") \in Nat /\ Left("main")' \in Nat /\ Left("main")' <= Left("main")
      /\ Len(Main) \in Nat
  BY LeftSteps, SameArguments, MainIs, LenProperties DEF ShapeInv, Tasks
<1>2. SUFFICES ASSUME method # "anything" PROVE GrantInv'
  BY <1>1 DEF GrantInv
<1>3. /\ Executed => Executed'
      /\ port \subseteq port' \/ (Execve /\ port' = {} /\ creation \notin inherited)
  <2>1. Execve => port' = port \/ (port' = {} /\ creation \notin inherited)
    BY ExecveWhen DEF Execve
  <2>2. ~Execve => port \subseteq port'
    BY NextCases DEF Acquire, Create, Created, Joins, Join, JoinNobody, Sleep, Read, Return, vars
  <2> QED BY <1>1, <2>1, <2>2 DEF Executed
<1>4. ASSUME Acquired' PROVE "main" \in port' \/ (Executed /\ creation \notin inherited)'
  <2>1. CASE Acquired
    <3>1. CASE Executed /\ creation \notin inherited
      BY <1>1, <1>3, <3>1
    <3>2. CASE "main" \in port /\ port \subseteq port'
      BY <3>2
    <3>3. CASE Execve /\ port' = {} /\ "main" \in port
      <4>1. Goes("main") /\ todo["main"] # <<>> /\ Left("main") = 2 /\ creation = "execve"
        BY <3>3, ExecveWhen DEF Execve
      <4>2. Left("main")' = 1
        BY <1>1, <4>1, Going
      <4> QED BY <1>1, <1>3, <3>3, <4>1, <4>2 DEF Executed
    <3> QED BY <1>2, <1>3, <2>1, <3>1, <3>2, <3>3 DEF GrantInv
  <2>2. CASE ~Acquired
    <3>1. Left("main")' # Left("main")
      BY <1>1, <1>4, <2>2 DEF Acquired
    <3>2. todo'["main"] # todo["main"]
      BY <3>1 DEF Left
    <3>3. CASE ~Acquire
      <4>1. program = "comparing" /\ Left("main") = 6
        BY <2>2, <3>2, <3>3, MovesLate
      <4>2. Left("main")' = 5
        BY <1>1, <3>2, <4>1, TodoSteps, LeftSteps
      <4> QED BY <1>1, <1>4, <4>1, <4>2 DEF Acquired
    <3>4. CASE Acquire
      BY <1>1, <1>2, <3>2, <3>4 DEF Acquire
    <3> QED BY <3>3, <3>4
  <2> QED BY <2>1, <2>2
<1>5. ASSUME creation \in inherited, NEW t \in {"thread", "child"}, task'[t] # "none"
      PROVE  t \in port'
  <2>1. CASE task[t] # "none"
    <3>1. t \in port
      BY <1>2, <1>5, <2>1 DEF GrantInv
    <3> QED BY <1>3, <1>5, <3>1
  <2>2. CASE task[t] = "none"
    <3>1. Create(t) /\ Created(t)
      BY <1>1, <1>5, <2>2, TaskSteps
    <3>2. Acquired
      BY <1>1, <3>1, CreateWhom, AcquiredIs
    <3>3. "main" \in port
      BY <1>2, <1>5, <3>2 DEF GrantInv
    <3> QED BY <1>5, <3>1, <3>3 DEF Created
  <2> QED BY <1>1, <2>1, <2>2
<1>6. ASSUME creation = "execve", Left("main")' <= 2 PROVE "main" \in readers'
  <2>1. readers \subseteq readers' /\ program # "comparing"
    BY <1>1, <1>6, NextCases
    DEF Acquire, Execve, Create, Joins, Join, JoinNobody, Sleep, Read, Return, vars
  <2>2. CASE Left("main") <= 2
    BY <1>2, <1>6, <2>1, <2>2 DEF GrantInv
  <2>3. CASE Left("main") > 2
    <3>1. Left("main")' # Left("main") /\ Left("main") # 2
      BY <1>1, <1>6, <2>3
    <3>2. todo'["main"] # todo["main"]
      BY <3>1 DEF Left
    <3>3. ~Execve /\ \A t \in Tasks : ~Create(t) /\ ~Joins(t)
      BY <1>6, <2>1, <3>1, ExecveWhen, CreateWhom, JoinWhom
    <3>4. ~Acquire
      <4>1. SUFFICES ASSUME Acquire PROVE FALSE
        OBVIOUS
      <4>2. Left("main") = 4 /\ Goes("main") /\ todo["main"] # <<>>
        BY <1>2, <1>6, <2>1, <3>2, <4>1, AcquireWhen, MainIs DEF Acquire
      <4>3. Left("main")' = 3
        BY <1>1, <4>2, Going
      <4> QED BY <1>6, <4>3
    <3>5. ASSUME NEW t \in Tasks, Sleep(t) PROVE FALSE
      <4>1. t = "sleepy"
        BY <3>5, SleepWhen
      <4> QED BY <1>1, <3>2, <3>5, <4>1 DEF Sleep, Goes, ShapeInv
    <3>6. ASSUME NEW t \in Tasks, Read(t) PROVE "main" \in readers'
      <4>1. t = "main"
        BY <1>1, <3>2, <3>6 DEF Read, Goes, ShapeInv
      <4> QED BY <3>2, <3>6, <4>1 DEF Read
    <3>7. ASSUME NEW t \in Tasks, Return(t) PROVE FALSE
      BY <3>2, <3>7 DEF Return
    <3> QED BY <3>2, <3>3, <3>4, <3>5, <3>6, <3>7, NextCases DEF vars
  <2> QED BY <1>1, <2>2, <2>3
<1> QED BY <1>1, <1>4, <1>5, <1>6 DEF GrantInv

LEMMA GrantedStep ==
  ASSUME ShapeInv, CourseInv, CreatedInv, GrantInv, GrantedMayRead, [Next]_vars
  PROVE  GrantedMayRead'
<1>1. /\ program' = program /\ creation' = creation /\ inherited' = inherited
      /\ method' = method
  BY SameArguments
<1>2. SUFFICES ASSUME method # "anything" PROVE GrantedMayRead'
  BY <1>1 DEF GrantedMayRead
<1>3. readers \subseteq readers'
  BY NextCases DEF Acquire, Execve, Create, Joins, Join, JoinNobody, Sleep, Read, Return, vars
<1>4. CASE culprit' = culprit
  BY <1>1, <1>2, <1>3, <1>4 DEF GrantedMayRead
<1>5. ASSUME NEW t \in Tasks, Read(t), culprit' # culprit PROVE GrantedMayRead'
  <2>1. t \notin port /\ culprit' = culprit \union {t} /\ task[t] = "running"
    BY <1>5 DEF Read, At
  <2>2. ASSUME t = "main"
        PROVE  creation \notin inherited /\ creation = "execve" /\ "main" \in readers
    <3>1. Acquired
      BY <1>5, <2>2, ReadLate
    <3>2. creation \notin inherited /\ creation = "execve" /\ Left("main") <= 1
      BY <1>2, <2>1, <2>2, <3>1 DEF GrantInv, Executed
    <3>3. Left("main") <= 2
      BY <3>2, LeftSteps DEF Tasks
    <3> QED BY <1>2, <3>2, <3>3 DEF GrantInv
  <2>3. t \in {"thread", "child"} => creation \notin inherited
    BY <1>2, <2>1 DEF GrantInv
  <2> QED BY <1>1, <1>2, <1>3, <2>1, <2>2, <2>3 DEF GrantedMayRead, Tasks
<1> QED
  BY <1>4, <1>5, NextCases DEF Acquire, Execve, Create, Joins, Join, JoinNobody, Sleep, Return, vars

LEMMA JoinedStep ==
  ASSUME ShapeInv, CourseInv, JoinedInv, [Next]_vars
  PROVE  JoinedInv'
<1>1. /\ task \in [Tasks -> {"none", "running", "ended"}]
      /\ {"main", "sleepy", "thread", "child"} \subseteq Tasks
      /\ program' = program /\ creation' = creation
      /\ program = "comparing" => creation = "pthread"
      /\ Left("main") \in Nat /\ Left("main")' \in Nat /\ Left("main")' <= Left("main")
      /\ todo \in [Tasks -> Seq(Steps)]
  BY LeftSteps, SameArguments DEF ShapeInv, Tasks
<1>2. SUFFICES ASSUME ~failed', Left("main")' <= 2, creation = "pthread",
                      NEW u \in {"thread", "child"},
                      u = "thread" => program = "comparing",
                      u = "child" => program = "revisited"
               PROVE  task'[u] # "none"
  BY <1>1 DEF JoinedInv
<1>3. program # "comparing" <=> u = "child"
  BY <1>2
<1>4. ~failed
  BY <1>2, NextCases DEF Acquire, Execve, Create, Created, Joins, Join, JoinNobody, Sleep, Read, Return, vars
<1>5. CASE Left("main") <= 2
  <2>1. task[u] # "none"
    BY <1>2, <1>4, <1>5 DEF JoinedInv
  <2> QED BY <1>1, <2>1, TaskSteps
<1>6. CASE Left("main") > 2
  <2>1. Left("main") = 3 /\ todo'["main"] # todo["main"]
    <3>1. todo'["main"] # todo["main"]
      BY <1>1, <1>2, <1>6 DEF Left
    <3> QED BY <1>1, <1>2, <1>6, <3>1, TodoSteps, LeftSteps
  <2>2. ~Acquire /\ ~Execve
    <3>1. ASSUME Acquire PROVE FALSE
      <4>1. program = "comparing" => Left("main") = 5
        BY <3>1, AcquireWhen
      <4>2. program # "comparing" => Left("main") = 4
        BY <1>2, <3>1, AcquireWhen, MainIs
      <4> QED BY <2>1, <4>1, <4>2
    <3> QED BY <1>2, <3>1, ExecveWhen
  <2>3. ASSUME NEW t \in Tasks, Create(t) PROVE task'[u] # "none"
    <3>1. t = u
      BY <1>2, <1>3, <2>1, <2>3, CreateWhom
    <3>2. Created(t)
      BY <1>2, <2>3 DEF Create
    <3> QED BY <1>1, <3>1, <3>2 DEF Created
  <2>4. ASSUME NEW t \in Tasks PROVE ~Joins(t) /\ ~Return(t)
    BY <2>1, <1>2, JoinWhom DEF Return
  <2>5. ASSUME NEW t \in Tasks, Read(t) \/ Sleep(t) PROVE FALSE
    <3>1. t # "main"
      BY <1>2, <2>1, <2>5, ReadWhen, SleepWhen
    <3> QED BY <1>1, <2>1, <2>5, <3>1 DEF Read, Sleep, Goes
  <2> QED BY <2>1, <2>2, <2>3, <2>4, <2>5, NextCases DEF vars
<1> QED BY <1>1, <1>5, <1>6

LEMMA ZeroStep ==
  ASSUME ShapeInv, CourseInv, SleepyInv, NeverZero, [Next]_vars
  PROVE  NeverZero'
<1>1. /\ status \in [Tasks -> {"none", "running", "zero", "error", "segfault"}]
      /\ "main" \in Tasks
      /\ program' = program
      /\ program = "comparing" => \A t \in Tasks : Process(t) = "main"
      /\ Left("main") \in Nat /\ (todo["main"] = <<>> <=> Left("main") = 0)
  BY SameArguments, LeftSteps DEF ShapeInv, Tasks, Process
<1>2. SUFFICES ASSUME program = "comparing", ~failed' PROVE status'["main"] # "zero"
  BY <1>1 DEF NeverZero
<1>3. ~failed
  BY <1>2, NextCases DEF Acquire, Execve, Create, Created, Joins, Join, JoinNobody, Sleep, Read, Return, vars
<1>4. status["main"] # "zero"
  BY <1>2, <1>3 DEF NeverZero
<1>5. ASSUME NEW t \in Tasks, Return(t) PROVE status'["main"] # "zero"
  <2>1. t # "main"
    BY <1>1, <1>2, <1>3, <1>5 DEF Return, SleepyInv
  <2> QED BY <1>1, <1>2, <1>4, <1>5, <2>1 DEF Return
<1>6. ASSUME NEW t \in Tasks, Read(t) PROVE status'["main"] # "zero"
  BY <1>1, <1>4, <1>6 DEF Read, End
<1>7. ASSUME NEW t \in Tasks, Create(t) PROVE status'["main"] # "zero"
  BY <1>1, <1>4, <1>7 DEF Create, Created
<1>8. ASSUME NEW t \in Tasks, Joins(t) PROVE status'["main"] # "zero"
  BY <1>1, <1>4, <1>8 DEF Joins, Join, JoinNobody, End
<1>9. CASE Acquire \/ Execve
  BY <1>1, <1>4, <1>9 DEF Acquire, Execve, End
<1>10. CASE UNCHANGED vars \/ \E t \in Tasks : Sleep(t)
  BY <1>4, <1>10 DEF Sleep, vars
<1> QED BY <1>5, <1>6, <1>7, <1>8, <1>9, <1>10, NextCases

LEMMA InvInit == ASSUME Init PROVE IInv
<1>1. /\ {"main", "sleepy", "thread", "child"} = Tasks
      /\ todo = [t \in Tasks |-> IF t = "main" THEN Main ELSE <<>>]
      /\ task = [t \in Tasks |-> IF t = "main" THEN "running" ELSE "none"]
      /\ status = [t \in Tasks |-> IF t = "main" THEN "running" ELSE "none"]
      /\ port = {} /\ readers = {} /\ culprit = {} /\ ~failed
      /\ todo["main"] = Main /\ \A t \in Tasks : Whole(t) \in Seq(Steps)
  BY WholeIs DEF Init, Tasks
<1>2. ShapeInv
  <2>1. \A t \in Tasks : todo[t] \in Seq(Steps)
    BY <1>1, MainIs
  <2> QED BY <1>1, <2>1 DEF Init, ShapeInv
<1>3. CourseInv
  <2>1. ASSUME NEW t \in Tasks PROVE EndOf(todo[t], Whole(t))
    <3>1. Len(Whole(t)) \in Nat
      BY <1>1, LenProperties
    <3>2. CASE t = "main"
      <4>1. todo[t] = Whole(t)
        BY <1>1, <3>2 DEF Whole
      <4>2. EndOf(Whole(t), Whole(t))
        BY <3>1 DEF EndOf
      <4> QED BY <4>1, <4>2
    <3>3. CASE t # "main"
      <4>1. todo[t] = <<>>
        BY <1>1, <3>3
      <4> QED BY <3>1, <4>1, EmptySeq DEF EndOf
    <3> QED BY <3>2, <3>3
  <2> QED BY <2>1 DEF CourseInv
<1>4. CreatedInv
  BY <1>1 DEF CreatedInv, Process
<1>5. Left("main") = Len(Main)
  BY <1>1 DEF Left
<1>6. SleepyInv
  BY <1>1, <1>5, MainIs DEF SleepyInv
<1>7. GrantInv
  <2>1. ~Acquired
    BY <1>5, AcquiredIs, MainIs
  <2>2. creation = "execve" => Left("main") = 4
    BY <1>2, <1>5, MainIs DEF ShapeInv
  <2> QED BY <1>1, <2>1, <2>2 DEF GrantInv
<1>8. GrantedMayRead /\ NeverZero
  BY <1>1 DEF GrantedMayRead, NeverZero
<1>9. JoinedInv
  <2>1. program = "comparing" => Left("main") = 6
    BY <1>5, MainIs
  <2>2. program = "revisited" /\ creation = "pthread" => Left("main") = 4
    BY <1>5, MainIs
  <2> QED BY <1>2, <2>1, <2>2 DEF JoinedInv, ShapeInv, Programs
<1> QED BY <1>2, <1>3, <1>4, <1>6, <1>7, <1>8, <1>9 DEF IInv

LEMMA InvStep ==
  ASSUME IInv, [Next]_vars
  PROVE  IInv'
<1>1. /\ ShapeInv /\ CourseInv /\ CreatedInv /\ SleepyInv /\ GrantInv /\ JoinedInv
      /\ GrantedMayRead /\ NeverZero
  BY DEF IInv
<1>2. CourseInv'
  BY <1>1, CourseStep DEF CourseInv
<1>3. /\ ShapeInv' /\ CreatedInv' /\ SleepyInv' /\ GrantInv' /\ JoinedInv'
      /\ GrantedMayRead' /\ NeverZero'
  BY <1>1, ShapeStep, CreatedStep, SleepyStep, GrantStep, JoinedStep, GrantedStep, ZeroStep
<1> QED BY <1>2, <1>3 DEF IInv

-----------------------------------------------------------------------------
(***************************************************************************)
(* The theorems.                                                           *)
(***************************************************************************)
\* The invariant holds, whatever the kernel hands on.
THEOREM Invariance == Spec => []IInv
<1>1. IInv /\ [Next]_vars => IInv'
  BY InvStep
<1> QED BY <1>1, InvInit, PTL DEF Spec

\* Types; only tasks that were created use the ports or are killed for it.
THEOREM TypeCorrect == Spec => []TypeOK
<1>1. IInv => TypeOK
  BY DEF IInv, ShapeInv, TypeOK
<1> QED BY <1>1, Invariance, PTL

\* The thread created before the permission never reads the port, though it
\* reads long after main() has the permission (comparing-iopl-ioperm.c:48-49).
THEOREM SleepyFails == Spec => []SleepyNeverReads
<1>1. IInv => SleepyNeverReads
  BY DEF IInv, SleepyInv, SleepyNeverReads
<1> QED BY <1>1, Invariance, PTL

\* Whoever was given the permission, or inherits it, is not killed for using it.
THEOREM GrantHolds == Spec => []GrantedMayRead
<1>1. IInv => GrantedMayRead
  BY DEF IInv
<1> QED BY <1>1, Invariance, PTL

\* comparing never returns 0 unless a thread could not be created.
THEOREM ZeroIsOutOfReach == Spec => []NeverZero
<1>1. IInv => NeverZero
  BY DEF IInv
<1> QED BY <1>1, Invariance, PTL

-----------------------------------------------------------------------------
(***************************************************************************)
(* The processes come to an end: no step is taken back, and there is a     *)
(* task that can go on.  That it does go on is left to the scheduler.      *)
(***************************************************************************)
\* The steps that are left and the tasks that have not ended; a creation is
\* worth more than the steps and the end of the task it creates.
Alive(t) == IF task[t] = "ended" THEN 0 ELSE 1
Rank == 4 * Left("main") + Left("sleepy") + Left("thread") + Left("child")
        + Alive("main") + Alive("sleepy") + Alive("thread") + Alive("child")

\* A task that waits for no running one.
CanGoOn(t) ==
  /\ task[t] = "running"
  /\ \A u \in Tasks : At(t, Joining(u)) => task[u] = "ended"

\* No deadlock: while a task is running one of them can go on, whoever has been
\* killed and however main() comes to its joins (comparing-iopl-ioperm.c:98-100,
\* permissions-revisited.c:137-139), unless it is adrift.
NobodyStuck ==
  (\E t \in Tasks : task[t] = "running") => (\E t \in Tasks : CanGoOn(t)) \/ Adrift

LEMMA RankFalls ==
  ASSUME IInv, [Next]_vars, vars' # vars
  PROVE  Rank' < Rank
<1>1. /\ ShapeInv /\ CourseInv /\ {"main", "sleepy", "thread", "child"} = Tasks
      /\ task \in [Tasks -> {"none", "running", "ended"}]
      /\ todo \in [Tasks -> Seq(Steps)]
  BY DEF IInv, ShapeInv, Tasks
<1>2. \A t \in Tasks : Left(t) \in Nat /\ Left(t)' \in Nat
  BY <1>1, LeftSteps
<1>3. \A t \in Tasks : /\ Alive(t) \in {0, 1} /\ Alive(t)' \in {0, 1}
                       /\ task'[t] = task[t] => Alive(t)' = Alive(t)
                       /\ todo'[t] = todo[t] => Left(t)' = Left(t)
  BY DEF Alive, Left
<1>4. /\ Left("main") \in Nat /\ Left("sleepy") \in Nat
      /\ Left("thread") \in Nat /\ Left("child") \in Nat
      /\ Left("main")' \in Nat /\ Left("sleepy")' \in Nat
      /\ Left("thread")' \in Nat /\ Left("child")' \in Nat
      /\ Alive("main") \in 0 .. 1 /\ Alive("sleepy") \in 0 .. 1
      /\ Alive("thread") \in 0 .. 1 /\ Alive("child") \in 0 .. 1
      /\ Alive("main")' \in 0 .. 1 /\ Alive("sleepy")' \in 0 .. 1
      /\ Alive("thread")' \in 0 .. 1 /\ Alive("child")' \in 0 .. 1
  <2>1. \A t \in Tasks : Left(t) \in Nat /\ Left(t)' \in Nat
    BY <1>2
  <2>2. \A t : Alive(t) \in 0 .. 1 /\ Alive(t)' \in 0 .. 1
    BY DEF Alive
  <2> QED BY <1>1, <2>1, <2>2
\* Where the rank falls.
<1>5. ASSUME Left("main")' <= Left("main"), Left("sleepy")' <= Left("sleepy"),
             Left("thread")' <= Left("thread"), Left("child")' <= Left("child"),
             Alive("main")' <= Alive("main"), Alive("sleepy")' <= Alive("sleepy"),
             Alive("thread")' <= Alive("thread"), Alive("child")' <= Alive("child"),
             NEW t \in Tasks, Left(t)' < Left(t) \/ Alive(t)' < Alive(t)
      PROVE  Rank' < Rank
  <2>1. t \in {"main", "sleepy", "thread", "child"}
    BY <1>1
  <2>2. CASE t = "main"
    BY <1>4, <1>5, <2>2 DEF Rank
  <2>3. CASE t = "sleepy"
    BY <1>4, <1>5, <2>3 DEF Rank
  <2>4. CASE t = "thread"
    BY <1>4, <1>5, <2>4 DEF Rank
  <2>5. CASE t = "child"
    BY <1>4, <1>5, <2>5 DEF Rank
  <2> QED BY <2>1, <2>2, <2>3, <2>4, <2>5
\* A task ends.
<1>6. ASSUME todo' = todo, NEW t \in Tasks, task[t] = "running", task'[t] = "ended",
             \A u \in Tasks : task'[u] = task[u] \/ task'[u] = "ended"
      PROVE  Rank' < Rank
  <2>1. \A u \in Tasks : Left(u)' = Left(u) /\ Alive(u)' <= Alive(u)
    BY <1>3, <1>6 DEF Alive
  <2>2. Alive(t)' < Alive(t)
    BY <1>6 DEF Alive
  <2>3. \A u \in Tasks : Left(u)' <= Left(u)
    BY <1>2, <2>1
  <2> QED BY <1>1, <1>5, <2>1, <2>2, <2>3
<1>7. ASSUME NEW t \in Tasks, NEW how \in {"zero", "error", "segfault"}, End(t, how),
             task[t] = "running", todo' = todo
      PROVE  Rank' < Rank
  BY <1>1, <1>6, <1>7, EndEffect
\* A task goes on.
<1>8. ASSUME task' = task, NEW t \in Tasks, Left(t)' < Left(t),
             \A u \in Tasks : u # t => todo'[u] = todo[u]
      PROVE  Rank' < Rank
  <2>1. \A u \in Tasks : Alive(u)' = Alive(u) /\ (u # t => Left(u)' = Left(u))
    BY <1>3, <1>8
  <2>2. \A u \in Tasks : Left(u)' <= Left(u) /\ Alive(u)' <= Alive(u)
    BY <1>2, <1>3, <1>8, <2>1
  <2> QED BY <1>1, <1>5, <1>8, <2>2
<1>9. ASSUME NEW t \in Tasks, todo[t] # <<>>, Goes(t), task' = task PROVE Rank' < Rank
  <2>1. Left(t)' < Left(t)
    BY <1>1, <1>2, <1>9, Going
  <2>2. \A u \in Tasks : u # t => todo'[u] = todo[u]
    BY <1>1, <1>9 DEF Goes
  <2> QED BY <1>8, <1>9, <2>1, <2>2
<1>10. CASE Acquire
  BY <1>1, <1>7, <1>9, <1>10, AcquireWhen DEF Acquire
<1>11. CASE Execve
  BY <1>1, <1>7, <1>9, <1>11, ExecveWhen DEF Execve
<1>12. ASSUME NEW t \in Tasks, Create(t) PROVE Rank' < Rank
  <2>1. t # "main" /\ task["main"] = "running" /\ todo["main"] # <<>>
    BY <1>1, <1>12, CreateWhom
  <2>2. CASE Created(t)
    <3>1. /\ todo'["main"] = Tail(todo["main"]) /\ todo'[t] = Course(t)
          /\ \A u \in Tasks \ {"main", t} : todo'[u] = todo[u] /\ task'[u] = task[u]
          /\ task'["main"] = task["main"]
      BY <1>1, <2>1, <2>2 DEF Created
    <3>2. Left("main")' = Left("main") - 1
      BY <1>1, <2>1, <3>1, LeftSteps
    <3>3. Left(t)' <= 2
      BY <1>1, <3>1, CourseIs DEF Left
    <3>4. /\ Alive("main")' = Alive("main")
          /\ \A u \in Tasks \ {"main", t} : Left(u)' = Left(u) /\ Alive(u)' = Alive(u)
      BY <1>1, <1>3, <3>1
    <3>5. t \in {"sleepy", "thread", "child"}
      BY <1>1, <2>1
    <3>6. CASE t = "sleepy"
      <4>1. /\ Left("thread")' = Left("thread") /\ Alive("thread")' = Alive("thread")
            /\ Left("child")' = Left("child") /\ Alive("child")' = Alive("child")
        BY <1>1, <3>4, <3>6
      <4> QED BY <1>4, <3>2, <3>3, <3>4, <3>6, <4>1 DEF Rank
    <3>7. CASE t = "thread"
      <4>1. /\ Left("sleepy")' = Left("sleepy") /\ Alive("sleepy")' = Alive("sleepy")
            /\ Left("child")' = Left("child") /\ Alive("child")' = Alive("child")
        BY <1>1, <3>4, <3>7
      <4> QED BY <1>4, <3>2, <3>3, <3>4, <3>7, <4>1 DEF Rank
    <3>8. CASE t = "child"
      <4>1. /\ Left("sleepy")' = Left("sleepy") /\ Alive("sleepy")' = Alive("sleepy")
            /\ Left("thread")' = Left("thread") /\ Alive("thread")' = Alive("thread")
        BY <1>1, <3>4, <3>8
      <4> QED BY <1>4, <3>2, <3>3, <3>4, <3>8, <4>1 DEF Rank
    <3> QED BY <3>5, <3>6, <3>7, <3>8
  <2>3. CASE task' = task /\ Goes("main")
    BY <1>1, <1>9, <2>1, <2>3
  <2>4. CASE task' = task /\ todo' = [todo EXCEPT !["main"] = <<>>]
    <3>1. /\ todo'["main"] = <<>> /\ \A u \in Tasks : u # "main" => todo'[u] = todo[u]
      BY <1>1, <2>4
    <3>2. Left("main")' < Left("main")
      BY <1>1, <2>1, <3>1, LeftSteps
    <3> QED BY <1>1, <1>8, <2>4, <3>1, <3>2
  <2> QED BY <1>12, <2>2, <2>3, <2>4 DEF Create, Goes
<1>13. ASSUME NEW t \in Tasks, Joins(t) PROVE Rank' < Rank
  BY <1>1, <1>7, <1>9, <1>13, JoinWhom DEF Joins, Join, JoinNobody
<1>14. ASSUME NEW t \in Tasks, Read(t) \/ Sleep(t) PROVE Rank' < Rank
  <2>1. task[t] = "running" /\ todo[t] # <<>>
    BY <1>14 DEF Read, Sleep, At
  <2> QED BY <1>7, <1>9, <1>14, <2>1 DEF Read, Sleep
<1>15. ASSUME NEW t \in Tasks, Return(t) PROVE Rank' < Rank
  <2>1. CASE Process(t) = t
    BY <1>7, <1>15, <2>1 DEF Return
  <2>2. CASE Process(t) # t
    BY <1>1, <1>6, <1>15, <2>2 DEF Return
  <2> QED BY <2>1, <2>2
<1> QED BY <1>10, <1>11, <1>12, <1>13, <1>14, <1>15, NextCases

\* Every step of every task brings the program closer to its end.
THEOREM Terminates == Spec => [][Rank' < Rank]_vars
<1>1. IInv /\ [Next]_vars => [Rank' < Rank]_vars
  BY RankFalls
<1> QED BY <1>1, Invariance, PTL DEF Spec

\* There is no deadlock: while a task is running, one of them waits for no
\* running one, unless main() joins a thread that was not created because
\* pthread_create() failed (comparing-iopl-ioperm.c:98-100,
\* permissions-revisited.c:137-139).
THEOREM NoDeadlock == Spec => []NobodyStuck
<1>1. ASSUME IInv PROVE NobodyStuck
  <2>1. /\ ShapeInv /\ CourseInv /\ CreatedInv /\ SleepyInv /\ JoinedInv
        /\ task \in [Tasks -> {"none", "running", "ended"}]
        /\ {"main", "sleepy", "thread", "child"} = Tasks
    BY <1>1 DEF IInv, ShapeInv, Tasks
  <2>2. SUFFICES ASSUME NEW t \in Tasks, task[t] = "running"
                 PROVE  (\E u \in Tasks : CanGoOn(u)) \/ Adrift
    BY DEF NobodyStuck
  <2>3. /\ \A v : Joining(v) \notin {Acquiring, Reading, Sleeping, Executing}
        /\ \A v, w : Joining(v) # Creating(w)
        /\ \A v, w : Joining(v) = Joining(w) => v = w
    BY StepsDiffer
  <2>4. ASSUME NEW u \in Tasks \ {"main"}, task[u] = "running" PROVE CanGoOn(u)
    <3>1. todo[u] = <<>> \/ Head(todo[u]) \in {Reading, Sleeping}
      BY <2>1, <2>4, OtherStages
    <3> QED BY <2>3, <2>4, <3>1 DEF CanGoOn, At
  <2>5. ASSUME t = "main", NEW u \in Tasks, At("main", Joining(u)), task[u] # "ended"
        PROVE  (\E v \in Tasks : CanGoOn(v)) \/ Adrift
    <3>1. /\ u # "main"
          /\ ~failed => task[u] # "none"
      <4>1. /\ todo["main"] # <<>> /\ Head(todo["main"]) = Joining(u)
            /\ program \in Programs /\ creation \in Creations
        BY <2>1, <2>5 DEF At, ShapeInv
      <4>2. CASE program = "comparing"
        <5>1. (u = "sleepy" /\ Left("main") = 2) \/ (u = "thread" /\ Left("main") = 1)
          BY <2>1, <2>3, <4>1, <4>2, Stages
        <5> QED BY <2>1, <4>2, <5>1 DEF SleepyInv, JoinedInv
      <4>3. CASE program # "comparing"
        <5>1. u = "child" /\ Left("main") = 1 /\ creation = "pthread"
          BY <2>1, <2>3, <4>1, <4>3, Stages
        <5> QED BY <2>1, <4>1, <4>3, <5>1 DEF JoinedInv, Programs
      <4> QED BY <4>2, <4>3
    <3>2. CASE task[u] = "running"
      BY <2>4, <3>1, <3>2
    <3>3. CASE task[u] = "none"
      BY <2>5, <3>1, <3>3 DEF Adrift
    <3> QED BY <2>1, <2>5, <3>2, <3>3
  <2> QED BY <2>1, <2>2, <2>4, <2>5 DEF CanGoOn
<1> QED BY <1>1, Invariance, PTL
=============================================================================

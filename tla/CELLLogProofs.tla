----------------------------- MODULE CELLLogProofs -----------------------------
(***************************************************************************)
(* The log of module CELLLog, for any number of lines and of controllers:  *)
(* its task server loses, repeats and reorders no line, the worker writes  *)
(* to an open file only, and the file is complete when it is closed.       *)
(***************************************************************************)
EXTENDS CELLLog, TLAPS, SequenceTheorems

TaskTypes ==
    /\ worker \in [Workers -> Thread!WorkerStates]
    /\ tasks \in Seq(Tasks) /\ tasksBuf \in Seq(Tasks)
    /\ added \in Seq(Tasks) /\ done \in Seq(Tasks)
    /\ place \in Places
    /\ position \in Nat

\* One worker was ever made, and place is where it is.
OneWorkerMade ==
    /\ \A v, w \in Workers : worker[v] # "unborn" /\ worker[w] # "unborn" => v = w
    /\ \A w \in Workers : worker[w] = "run" => place # "drain"
    /\ \A w \in Workers : worker[w] \notin {"unborn", "run"} => place = "drain"

\* _tasks is empty outside its loop, and position is inside the list it belongs to.
ListsFit ==
    /\ place = "run" => position <= Len(tasks)
    /\ place # "run" => tasks = <<>>
    /\ place \in {"loop", "test", "move"} => position = 0
    /\ place = "drain" => position <= Len(tasksBuf)

TaskInv == TaskTypes /\ OneWorkerMade /\ ListsFit /\ TasksConserved

\* What is left of a list.
LEMMA RestOfSeq ==
    ASSUME NEW s \in Seq(Tasks), NEW p \in Nat, p <= Len(s)
    PROVE  /\ SubSeq(s, p + 1, Len(s)) \in Seq(Tasks)
           /\ Len(SubSeq(s, p + 1, Len(s))) = Len(s) - p
           /\ \A i \in 1..(Len(s) - p) : SubSeq(s, p + 1, Len(s))[i] = s[p + i]
<1> DEFINE n == Len(s)
           m == p + 1
<1>1. m \in Int /\ n \in Int /\ \A i \in m..n : s[i] \in Tasks
  OBVIOUS
<1> HIDE DEF n, m
<1>2. /\ SubSeq(s, m, n) \in Seq(Tasks)
      /\ Len(SubSeq(s, m, n)) = IF m <= n THEN n - m + 1 ELSE 0
      /\ \A i \in 1..n - m + 1 : SubSeq(s, m, n)[i] = s[m + i - 1]
  BY <1>1, SubSeqProperties
<1> QED BY <1>2 DEF n, m

\* A task goes from a list to those that have run, or from one list to the other,
\* and the lists in a row stay the same.
LEMMA NextOfRest ==
    ASSUME NEW s \in Seq(Tasks), NEW p \in Nat, p < Len(s)
    PROVE  /\ s[p + 1] \in Tasks
           /\ SubSeq(s, p + 1, Len(s)) = <<s[p + 1]>> \o SubSeq(s, p + 2, Len(s))
           /\ SubSeq(s, p + 2, Len(s)) \in Seq(Tasks)
<1>1. p + 1 \in 1..Len(s) /\ Len(s) \in (p + 1)..Len(s)
  OBVIOUS
<1>2. SubSeq(s, p + 1, Len(s)) = <<s[p + 1]>> \o SubSeq(s, (p + 1) + 1, Len(s))
  BY <1>1, SubSeqRecursiveFirst
<1>3. SubSeq(s, p + 2, Len(s)) \in Seq(Tasks)
  BY SubSeqProperties
<1> QED BY <1>1, <1>2, <1>3

\* Concatenation associates.
Grouped(x, y, z) == (x \o y) \o z = x \o (y \o z)

LEMMA Regroup ==
    ASSUME NEW x \in Seq(Tasks), NEW y \in Seq(Tasks), NEW z \in Seq(Tasks)
    PROVE  Grouped(x, y, z)
  BY DEF Grouped

\* Running the task at position p moves it from what is left of s to the end of d.
TaskMoves(d, s, p, r) ==
    /\ Append(d, s[p + 1]) \in Seq(Tasks)
    /\ Append(d, s[p + 1]) \o (SubSeq(s, p + 2, Len(s)) \o r)
         = d \o (SubSeq(s, p + 1, Len(s)) \o r)

LEMMA TakeOne ==
    ASSUME NEW d \in Seq(Tasks), NEW s \in Seq(Tasks), NEW p \in Nat, p < Len(s),
           NEW r \in Seq(Tasks)
    PROVE  TaskMoves(d, s, p, r)
<1> DEFINE h == <<s[p + 1]>>
           t == SubSeq(s, p + 2, Len(s))
<1>1. h \in Seq(Tasks) /\ t \in Seq(Tasks) /\ SubSeq(s, p + 1, Len(s)) = h \o t
  BY NextOfRest
<1>2. Append(d, s[p + 1]) \in Seq(Tasks) /\ Append(d, s[p + 1]) = d \o h
  BY NextOfRest, AppendProperties, AppendIsConcat
<1>3. t \o r \in Seq(Tasks) /\ h \o t \in Seq(Tasks)
  BY <1>1, ConcatProperties
<1> HIDE DEF h, t
<1>4. (d \o h) \o (t \o r) = d \o (h \o (t \o r))
  <2>1. h \in Seq(Tasks)
    BY <1>1
  <2>2. Grouped(d, h, t \o r)
    BY <2>1, <1>3, Regroup
  <2> QED BY <2>2, Zenon DEF Grouped
<1>5. (h \o t) \o r = h \o (t \o r)
  <2>1. h \in Seq(Tasks) /\ t \in Seq(Tasks)
    BY <1>1
  <2>2. Grouped(h, t, r)
    BY <2>1, Regroup
  <2> QED BY <2>2, Zenon DEF Grouped
<1> QED BY <1>1, <1>2, <1>4, <1>5 DEF t, TaskMoves

\* A task added at the end of a list is at the end of what is left of it.
LEMMA AppendToRest ==
    ASSUME NEW s \in Seq(Tasks), NEW p \in Nat, p <= Len(s), NEW t \in Tasks
    PROVE  SubSeq(Append(s, t), p + 1, Len(Append(s, t)))
              = Append(SubSeq(s, p + 1, Len(s)), t)
<1> DEFINE longer == Append(s, t)
           rest == SubSeq(s, p + 1, Len(s))
           a == SubSeq(longer, p + 1, Len(longer))
           b == Append(rest, t)
<1>1. /\ longer \in Seq(Tasks) /\ Len(longer) = Len(s) + 1
      /\ \A i \in 1..Len(s) : longer[i] = s[i]
      /\ longer[Len(s) + 1] = t
  BY AppendProperties
<1>2. /\ rest \in Seq(Tasks) /\ Len(rest) = Len(s) - p
      /\ \A i \in 1..(Len(s) - p) : rest[i] = s[p + i]
  BY RestOfSeq
<1> HIDE DEF longer, rest
<1>3. /\ a \in Seq(Tasks) /\ Len(a) = Len(longer) - p
      /\ \A i \in 1..(Len(longer) - p) : a[i] = longer[p + i]
  <2>1. p <= Len(longer)
    BY <1>1
  <2> QED BY <1>1, <2>1, RestOfSeq
<1>4. /\ b \in Seq(Tasks) /\ Len(b) = Len(rest) + 1
      /\ \A i \in 1..Len(rest) : b[i] = rest[i]
      /\ b[Len(rest) + 1] = t
  BY <1>2, AppendProperties
<1> HIDE DEF a, b
<1>0. Len(s) \in Nat /\ Len(a) = Len(s) - p + 1 /\ Len(rest) = Len(s) - p
  BY <1>1, <1>2, <1>3
<1>5. ASSUME NEW i \in 1..Len(a) PROVE a[i] = b[i]
  <2>1. CASE i = Len(s) - p + 1
    BY <1>1, <1>2, <1>3, <1>4, <2>1
  <2>2. CASE i # Len(s) - p + 1
    <3>1. i \in 1..(Len(s) - p) /\ p + i \in 1..Len(s)
      BY <1>0, <2>2
    <3>2. a[i] = longer[p + i] /\ b[i] = rest[i]
      BY <1>1, <1>2, <1>3, <1>4, <1>0, <3>1
    <3> QED BY <1>1, <1>2, <3>1, <3>2
  <2> QED BY <2>1, <2>2
<1>6. Len(a) = Len(b)
  BY <1>1, <1>2, <1>3, <1>4
<1>7. a = b
  BY <1>3, <1>4, <1>5, <1>6, SeqEqual
<1> QED BY <1>7 DEF a, b, longer, rest

LEMMA HeadTailOfPrefix ==
    ASSUME NEW t \in Tasks, NEW s \in Seq(Tasks)
    PROVE  <<t>> \o s # <<>> /\ Head(<<t>> \o s) = t /\ Tail(<<t>> \o s) = s
  OBVIOUS

LEMMA RestsAreSeqs ==
    ASSUME TaskTypes
    PROVE  RestOfTasks \in Seq(Tasks) /\ RestOfBuf \in Seq(Tasks) /\ Queue \in Seq(Tasks)
<1>1. SubSeq(tasks, position + 1, Len(tasks)) \in Seq(Tasks)
  BY SubSeqProperties DEF TaskTypes
<1>2. SubSeq(tasksBuf, position + 1, Len(tasksBuf)) \in Seq(Tasks)
  BY SubSeqProperties DEF TaskTypes
<1> QED BY <1>1, <1>2, ConcatProperties DEF TaskTypes, RestOfTasks, RestOfBuf, Queue

------------------------------------------------------------------------------
\* The one worker decides about the phase.
LEMMA PhaseIs ==
    ASSUME OneWorkerMade, NEW w \in Workers, worker[w] # "unborn"
    PROVE  /\ worker[w] \in {"destroy", "wakeup", "done"} => Phase = "stopped"
           /\ worker[w] \in {"run", "returning"} => Phase = "running"
  BY DEF OneWorkerMade, Phase, Stopped

LEMMA PhaseWillBe ==
    ASSUME OneWorkerMade', NEW w \in Workers, worker'[w] # "unborn"
    PROVE  /\ worker'[w] \in {"destroy", "wakeup", "done"} => Phase' = "stopped"
           /\ worker'[w] \in {"run", "returning"} => Phase' = "running"
  BY DEF OneWorkerMade, Phase, Stopped

\* CELLTask.hpp:36-40: addTask, at any moment.
LEMMA AddStep ==
    ASSUME TaskInv, NEW t \in Tasks, addTask(t)
    PROVE  TaskInv' /\ Executor!Add(t)
<1>1. /\ tasksBuf' = Append(tasksBuf, t) /\ added' = Append(added, t)
      /\ UNCHANGED worker
      /\ UNCHANGED <<tasks, place, position, done, before>>
  BY DEF addTask, threadVars
<1>2. TaskTypes' /\ OneWorkerMade'
  BY <1>1, AppendProperties DEF TaskInv, TaskTypes, OneWorkerMade
<1>3. Len(tasksBuf') = Len(tasksBuf) + 1 /\ Len(tasksBuf) \in Nat
  BY <1>1, AppendProperties DEF TaskInv, TaskTypes
<1>4. ListsFit'
  BY <1>1, <1>3 DEF TaskInv, TaskTypes, ListsFit
<1>5. RestOfBuf' = Append(RestOfBuf, t)
  <2>1. CASE place = "drain"
    <3>1. position <= Len(tasksBuf) /\ position \in Nat /\ tasksBuf \in Seq(Tasks)
      BY <2>1 DEF TaskInv, TaskTypes, ListsFit
    <3> QED BY <1>1, <2>1, <3>1, AppendToRest DEF RestOfBuf
  <2>2. CASE place # "drain"
    BY <1>1, <2>2 DEF RestOfBuf
  <2> QED BY <2>1, <2>2
<1>6. RestOfTasks' = RestOfTasks
  BY <1>1 DEF RestOfTasks
<1>7. RestOfTasks \in Seq(Tasks) /\ RestOfBuf \in Seq(Tasks) /\ Queue \in Seq(Tasks)
  BY RestsAreSeqs DEF TaskInv
<1>8. Queue' = Append(Queue, t)
  BY <1>5, <1>6, <1>7 DEF Queue
<1>9. TasksConserved'
  <2>1. done \in Seq(Tasks) /\ done' = done /\ added = done \o Queue
    BY <1>1 DEF TaskInv, TaskTypes, TasksConserved
  <2>2. done \o Append(Queue, t) = Append(done \o Queue, t)
    BY <1>7, <2>1
  <2> QED BY <1>1, <1>8, <2>1, <2>2 DEF TasksConserved
<1>10. UNCHANGED <<done, Phase>>
  BY <1>1 DEF Phase, Stopped
<1> QED BY <1>2, <1>4, <1>8, <1>9, <1>10 DEF TaskInv, Executor!Add

\* Start, before any worker was made.
LEMMA StartStep ==
    ASSUME TaskInv, NEW c \in Controllers, NEW w \in Workers, Start(c, w),
           \A v \in Workers : worker[v] = "unborn", place = "loop"
    PROVE  TaskInv' /\ Executor!Begin
<1>1. /\ worker' = [worker EXCEPT ![w] = "run"]
      /\ place' = "loop" /\ position' = 0
      /\ UNCHANGED <<tasks, tasksBuf, added, done, before>>
  BY DEF Start, Thread!Start
<1>2. TaskTypes'
  BY <1>1 DEF TaskInv, TaskTypes, Thread!WorkerStates, Places
<1>3. OneWorkerMade' /\ worker'[w] = "run"
  BY <1>1 DEF TaskInv, TaskTypes, OneWorkerMade
<1>4. ListsFit' /\ tasks = <<>>
  BY <1>1 DEF TaskInv, ListsFit
<1>5. UNCHANGED <<Queue, done>>
  BY <1>1 DEF Queue, RestOfTasks, RestOfBuf
<1>6. TasksConserved'
  BY <1>1, <1>5 DEF TaskInv, TasksConserved
<1>7. Phase = "idle" /\ Phase' = "running"
  BY <1>3, PhaseWillBe DEF Phase, Stopped
<1> QED BY <1>2, <1>3, <1>4, <1>5, <1>6, <1>7 DEF TaskInv, Executor!Begin

\* A step that leaves the worker and the lists alone.
LEMMA OutsideStep ==
    ASSUME TaskInv, UNCHANGED <<worker, tasks, tasksBuf, place, position, added, done>>
    PROVE  TaskInv' /\ UNCHANGED Executor!vars
<1>1. TaskTypes' /\ OneWorkerMade' /\ ListsFit'
  BY DEF TaskInv, TaskTypes, OneWorkerMade, ListsFit
<1>2. UNCHANGED <<Queue, done, Phase>>
  BY DEF Queue, RestOfTasks, RestOfBuf, Phase, Stopped
<1>3. TasksConserved'
  BY <1>2 DEF TaskInv, TasksConserved
<1> QED BY <1>1, <1>2, <1>3 DEF TaskInv, Executor!vars

\* The empty list, and a whole list, are what is left of a list.
LEMMA RestEnds ==
    ASSUME NEW s \in Seq(Tasks)
    PROVE  SubSeq(s, 1, Len(s)) = s /\ SubSeq(s, Len(s) + 1, Len(s)) = <<>>
  BY SubSeqFull, SubSeqEmpty

\* CELLTask.hpp:54-70,80-82: the tests and the transfer move tasks from list to list.
LEMMA LoopStep ==
    ASSUME TaskInv, NEW w \in Workers, Loop(w) \/ Test(w) \/ Move(w)
    PROVE  TaskInv' /\ UNCHANGED Executor!vars
<1>1. /\ TaskTypes /\ OneWorkerMade /\ ListsFit /\ TasksConserved
      /\ worker[w] = "run" /\ place \in {"loop", "test", "move"}
      /\ tasks = <<>> /\ position = 0
  BY DEF TaskInv, Loop, Test, Move, Running, ListsFit
<1>2. Queue = tasksBuf
  BY <1>1 DEF Queue, RestOfTasks, RestOfBuf, TaskTypes
<1>3. UNCHANGED <<added, done, position>>
  BY DEF Loop, Test, Move
<1>4. CASE worker' = worker /\ place' \in {"loop", "test", "move"}
           /\ tasks' = tasks /\ tasksBuf' = tasksBuf
  <2>1. TaskTypes' /\ OneWorkerMade' /\ ListsFit'
    BY <1>1, <1>3, <1>4 DEF TaskTypes, OneWorkerMade, ListsFit, Places
  <2>2. UNCHANGED <<Queue, done, Phase>>
    BY <1>1, <1>3, <1>4 DEF Queue, RestOfTasks, RestOfBuf, Phase, Stopped
  <2> QED BY <1>1, <1>3, <2>1, <2>2 DEF TaskInv, TasksConserved, Executor!vars
<1>5. CASE worker' = [worker EXCEPT ![w] = "returning"] /\ place' = "drain"
           /\ tasks' = tasks /\ tasksBuf' = tasksBuf
  <2>1. TaskTypes'
    BY <1>1, <1>3, <1>5 DEF TaskTypes, Places, Thread!WorkerStates
  <2>2. OneWorkerMade' /\ worker'[w] = "returning"
    BY <1>1, <1>5 DEF TaskTypes, OneWorkerMade
  <2>3. ListsFit'
    BY <1>1, <1>3, <1>5 DEF TaskTypes, ListsFit
  <2>4. Queue' = tasksBuf
    BY <1>1, <1>3, <1>5, RestEnds DEF Queue, RestOfTasks, RestOfBuf, TaskTypes
  <2>5. Phase = "running" /\ Phase' = "running"
    BY <1>1, <2>2, PhaseIs, PhaseWillBe
  <2> QED BY <1>1, <1>2, <1>3, <2>1, <2>2, <2>3, <2>4, <2>5
          DEF TaskInv, TasksConserved, Executor!vars
<1>6. CASE worker' = worker /\ place' = "run" /\ tasks' = tasks \o tasksBuf
           /\ tasksBuf' = <<>>
  <2>1. tasks' = tasksBuf /\ tasksBuf' \in Seq(Tasks)
    BY <1>1, <1>6 DEF TaskTypes
  <2>2. TaskTypes' /\ OneWorkerMade'
    BY <1>1, <1>3, <1>6, <2>1 DEF TaskTypes, Places, OneWorkerMade
  <2>3. ListsFit'
    BY <1>1, <1>3, <1>6, <2>1 DEF TaskTypes, ListsFit
  <2>4. Queue' = tasksBuf
    BY <1>1, <1>3, <1>6, <2>1, RestEnds DEF Queue, RestOfTasks, RestOfBuf, TaskTypes
  <2>5. UNCHANGED Phase
    BY <1>6 DEF Phase, Stopped
  <2> QED BY <1>1, <1>2, <1>3, <2>2, <2>3, <2>4, <2>5
          DEF TaskInv, TasksConserved, Executor!vars
<1> QED
  BY <1>1, <1>4, <1>5, <1>6
     DEF Loop, Test, Move, Thread!SeeStop, Thread!Goto, threadVars

\* CELLTask.hpp:72-78: the next task of _tasks runs, or the list is cleared.
LEMMA RunStep ==
    ASSUME TaskInv, NEW w \in Workers, RunTask(w)
    PROVE  TaskInv' /\ (Executor!Run \/ UNCHANGED Executor!vars)
<1>1. /\ TaskTypes /\ OneWorkerMade /\ ListsFit /\ TasksConserved
      /\ worker[w] = "run" /\ place = "run" /\ position <= Len(tasks)
      /\ UNCHANGED <<tasksBuf, added>> /\ worker' = worker
  BY DEF TaskInv, RunTask, Running, ListsFit, threadVars
<1>2. Phase = "running" /\ Phase' = Phase
  <2>1. Phase = "running"
    BY <1>1, PhaseIs
  <2>2. Phase' = Phase
    BY <1>1 DEF Phase, Stopped
  <2> QED BY <2>1, <2>2
<1>3. Queue = SubSeq(tasks, position + 1, Len(tasks)) \o tasksBuf
  BY <1>1 DEF Queue, RestOfTasks, RestOfBuf
<1>4. CASE position < Len(tasks) /\ done' = Append(done, tasks[position + 1])
           /\ position' = position + 1 /\ UNCHANGED <<tasks, place>>
  <2> DEFINE h == tasks[position + 1]
             r == SubSeq(tasks, position + 2, Len(tasks))
  <2>1. h \in Tasks /\ r \in Seq(Tasks)
        /\ SubSeq(tasks, position + 1, Len(tasks)) = <<h>> \o r
    BY <1>1, <1>4, NextOfRest DEF TaskTypes
  <2>2. done' \in Seq(Tasks) /\ done' \o (r \o tasksBuf) = done \o Queue
    <3>1. TaskMoves(done, tasks, position, tasksBuf)
      BY <1>1, <1>4, TakeOne DEF TaskTypes
    <3> QED BY <1>3, <1>4, <3>1 DEF TaskMoves
  <2>3. Queue' = r \o tasksBuf
    <3>1. position' + 1 = position + 2
      BY <1>1, <1>4 DEF TaskTypes
    <3> QED BY <1>1, <1>4, <3>1 DEF Queue, RestOfTasks, RestOfBuf
  <2>4. Queue # <<>> /\ Head(Queue) = h /\ Tail(Queue) = Queue'
    <3>1. Queue = <<h>> \o (r \o tasksBuf)
      <4>1. <<h>> \in Seq(Tasks) /\ tasksBuf \in Seq(Tasks)
        BY <1>1, <2>1 DEF TaskTypes
      <4> HIDE DEF h, r
      <4>2. (<<h>> \o r) \o tasksBuf = <<h>> \o (r \o tasksBuf)
        BY <2>1, <4>1, Regroup DEF Grouped
      <4> QED BY <1>3, <2>1, <4>2, Zenon
    <3>2. r \o tasksBuf \in Seq(Tasks)
      BY <1>1, <2>1, ConcatProperties DEF TaskTypes
    <3> QED BY <2>1, <2>3, <3>1, <3>2, HeadTailOfPrefix
  <2>5. TaskTypes' /\ OneWorkerMade' /\ ListsFit'
    BY <1>1, <1>4, <2>2 DEF TaskTypes, OneWorkerMade, ListsFit
  <2>6. TasksConserved'
    BY <1>1, <2>2, <2>3 DEF TasksConserved
  <2> QED BY <1>2, <1>4, <2>4, <2>5, <2>6 DEF TaskInv, Executor!Run
<1>5. CASE position = Len(tasks) /\ tasks' = <<>> /\ position' = 0 /\ place' = "loop"
           /\ done' = done
  <2>1. Queue = tasksBuf /\ Queue' = tasksBuf
    <3>1. SubSeq(tasks, position + 1, Len(tasks)) = <<>>
      BY <1>1, <1>5, RestEnds DEF TaskTypes
    <3> QED BY <1>1, <1>3, <1>5, <3>1 DEF TaskTypes, Queue, RestOfTasks, RestOfBuf
  <2>2. TaskTypes' /\ OneWorkerMade' /\ ListsFit'
    BY <1>1, <1>5 DEF TaskTypes, OneWorkerMade, ListsFit, Places
  <2> QED BY <1>1, <1>2, <1>5, <2>1, <2>2 DEF TaskInv, TasksConserved, Executor!vars
<1> QED
  BY <1>4, <1>5 DEF RunTask

\* CELLTask.hpp:80-85: the next task of _tasksBuf runs, or OnRun returns.
LEMMA DrainStep ==
    ASSUME TaskInv, NEW w \in Workers, Drain(w)
    PROVE  TaskInv' /\ (Executor!Run \/ Executor!Stop)
<1>1. /\ TaskTypes /\ OneWorkerMade /\ ListsFit /\ TasksConserved
      /\ worker[w] = "returning" /\ place = "drain"
      /\ tasks = <<>> /\ position <= Len(tasksBuf)
      /\ UNCHANGED <<tasks, tasksBuf, place, added>>
  BY DEF TaskInv, Drain, OneWorkerMade, ListsFit
<1>2. Queue = SubSeq(tasksBuf, position + 1, Len(tasksBuf)) /\ Phase = "running"
  <2>1. RestOfBuf \in Seq(Tasks)
    BY <1>1, RestsAreSeqs
  <2>2. Queue = RestOfBuf
    BY <1>1, <2>1 DEF Queue, RestOfTasks
  <2> QED BY <1>1, <2>2, PhaseIs DEF RestOfBuf
<1>3. CASE position < Len(tasksBuf) /\ done' = Append(done, tasksBuf[position + 1])
           /\ position' = position + 1 /\ worker' = worker
  <2> DEFINE h == tasksBuf[position + 1]
             r == SubSeq(tasksBuf, position + 2, Len(tasksBuf))
  <2>1. h \in Tasks /\ r \in Seq(Tasks) /\ Queue = <<h>> \o r
    BY <1>1, <1>2, <1>3, NextOfRest DEF TaskTypes
  <2>2. done' \in Seq(Tasks) /\ done' \o (r \o <<>>) = done \o (Queue \o <<>>)
    <3>1. /\ done \in Seq(Tasks) /\ tasksBuf \in Seq(Tasks) /\ position \in Nat
          /\ <<>> \in Seq(Tasks)
      BY <1>1 DEF TaskTypes
    <3>2. /\ Append(done, h) \in Seq(Tasks)
          /\ Append(done, h) \o (r \o <<>>)
               = done \o (SubSeq(tasksBuf, position + 1, Len(tasksBuf)) \o <<>>)
      <4>1. TaskMoves(done, tasksBuf, position, <<>>)
        BY <1>3, <3>1, TakeOne
      <4> QED BY <4>1 DEF TaskMoves
    <3> HIDE DEF h, r
    <3> QED BY <1>2, <1>3, <3>2 DEF h
  <2>3. TaskTypes' /\ OneWorkerMade' /\ ListsFit'
    BY <1>1, <1>3, <2>2 DEF TaskTypes, OneWorkerMade, ListsFit
  <2>4. Queue' = r
    <3>1. position' + 1 = position + 2
      BY <1>1, <1>3 DEF TaskTypes
    <3>2. RestOfBuf' = r /\ RestOfTasks' = <<>>
      BY <1>1, <3>1 DEF RestOfBuf, RestOfTasks
    <3> QED BY <2>1, <3>2 DEF Queue
  <2>5. Queue # <<>> /\ Head(Queue) = h /\ Tail(Queue) = Queue'
    BY <2>1, <2>4, HeadTailOfPrefix
  <2>6. TasksConserved'
    <3>1. Queue \in Seq(Tasks)
      BY <1>1, RestsAreSeqs
    <3>2. r \o <<>> = r /\ Queue \o <<>> = Queue
      BY <2>1, <3>1, ConcatEmptySeq
    <3> QED BY <1>1, <2>2, <2>4, <3>2 DEF TasksConserved
  <2>7. Phase' = Phase
    BY <1>3 DEF Phase, Stopped
  <2> QED BY <1>2, <1>3, <2>3, <2>5, <2>6, <2>7 DEF TaskInv, Executor!Run
<1>4. CASE position = Len(tasksBuf) /\ worker' = [worker EXCEPT ![w] = "destroy"]
           /\ UNCHANGED <<done, position>>
  <2>1. TaskTypes'
    BY <1>1, <1>4 DEF TaskTypes, Thread!WorkerStates
  <2>2. OneWorkerMade' /\ ListsFit' /\ worker'[w] = "destroy"
    BY <1>1, <1>4 DEF TaskTypes, OneWorkerMade, ListsFit
  <2>3. UNCHANGED Queue
    BY <1>1, <1>4 DEF Queue, RestOfTasks, RestOfBuf
  <2>4. Queue = <<>>
    BY <1>1, <1>2, <1>4, RestEnds DEF TaskTypes
  <2>5. Phase' = "stopped"
    BY <2>2, PhaseWillBe
  <2> QED BY <1>1, <1>2, <1>4, <2>1, <2>2, <2>3, <2>4, <2>5
          DEF TaskInv, TasksConserved, Executor!Stop
<1> QED
  BY <1>3, <1>4 DEF Drain, Thread!ReturnRun, Thread!Goto, threadVars

\* CELLThread.hpp:71-73: after the return of OnRun.
LEMMA FinishStep ==
    ASSUME TaskInv, NEW w \in Workers, Finish(w)
    PROVE  TaskInv' /\ UNCHANGED Executor!vars
<1>1. /\ TaskTypes /\ OneWorkerMade /\ ListsFit /\ TasksConserved
      /\ UNCHANGED <<tasks, tasksBuf, place, position, added, done>>
  BY DEF TaskInv, Finish, taskVars
<1>2. PICK from \in {"destroy", "wakeup"}, to \in {"wakeup", "done"} :
          worker[w] = from /\ worker' = [worker EXCEPT ![w] = to]
  BY DEF Finish, Thread!Destroy, Thread!SemWakeup, Thread!Goto
<1>3. TaskTypes'
  BY <1>1, <1>2 DEF TaskTypes, Thread!WorkerStates
<1>4. OneWorkerMade' /\ worker'[w] = to
  BY <1>1, <1>2 DEF TaskTypes, OneWorkerMade
<1>5. ListsFit'
  BY <1>1 DEF ListsFit
<1>6. UNCHANGED Queue
  BY <1>1 DEF Queue, RestOfTasks, RestOfBuf
<1>7. UNCHANGED Phase
  BY <1>1, <1>2, <1>4, PhaseIs, PhaseWillBe
<1> QED BY <1>1, <1>3, <1>4, <1>5, <1>6, <1>7 DEF TaskInv, TasksConserved, Executor!vars

------------------------------------------------------------------------------
\* The main thread makes the task server and its worker with its first step.
Unmade == main = "start" => (\A v \in Workers : worker[v] = "unborn") /\ place = "loop"

LEMMA LogInitTasks == LogInit => TaskInv /\ Unmade /\ Executor!Init
<1> SUFFICES ASSUME LogInit PROVE TaskInv /\ Unmade /\ Executor!Init
  OBVIOUS
<1> USE DEF LogInit, Init
<1>1. worker = [v \in Workers |-> "unborn"]
  BY DEF Thread!Init
<1>2. Queue = <<>>
  BY DEF Queue, RestOfTasks, RestOfBuf
<1>3. TaskTypes /\ OneWorkerMade /\ ListsFit
  BY <1>1 DEF TaskTypes, OneWorkerMade, ListsFit, Thread!WorkerStates, Places
<1>4. TasksConserved
  BY <1>2 DEF TasksConserved
<1>5. Phase = "idle"
  BY <1>1 DEF Phase, Stopped
<1> QED BY <1>1, <1>2, <1>3, <1>4, <1>5 DEF TaskInv, Unmade, Executor!Init

\* Every step of the log is a step of the task executor, or nothing it shows.
LEMMA LogStepTasks ==
    ASSUME TaskInv, Unmade, [LogNext]_allVars
    PROVE  TaskInv' /\ Unmade' /\ [Executor!Next]_Executor!vars
<1>1. ASSUME NEW w \in Workers, Construct(w)
      PROVE  TaskInv' /\ Executor!Begin /\ main' # "start"
  <2>1. Start(Main, w) /\ main = "start" /\ main' = "setLogPath"
    BY <1>1 DEF Construct, MainGoes
  <2> QED BY <2>1, StartStep, LogConstants DEF Unmade
<1>2. ASSUME NEW t \in Tasks, addTask(t), main' # "start"
      PROVE  TaskInv' /\ (\E u \in Tasks : Executor!Add(u))
  BY <1>2, AddStep
<1>3. CASE SetInfo \/ DestroyInfo \/ \E t \in Tasks : Echo(t)
  <2>1. PICK t \in Tasks : addTask(t)
    BY <1>3, LogConstants DEF SetInfo, DestroyInfo, Echo
  <2>2. main' # "start"
    BY <1>3 DEF SetInfo, DestroyInfo, Echo, MainGoes, logVars
  <2> QED BY <1>2, <2>1, <2>2 DEF Unmade, Executor!Next
<1>4. CASE Fopen \/ Gone \/ CallDestroy \/ Closing
           \/ (\E w \in Workers : TestFile(w) \/ WriteFile(w)) \/ UNCHANGED allVars
  <2>1. UNCHANGED <<worker, tasks, tasksBuf, place, position, added, done>>
    BY <1>4 DEF Fopen, Gone, CallDestroy, Closing, TestFile, WriteFile, allVars, vars,
                threadVars, taskVars, CallClose, CloseStep, Thread!CallClose,
                Thread!ControllerStep, Thread!LockClose, Thread!SemWait, Thread!SemResume,
                Thread!SemSpurious
  <2>2. main' = "start" => main = "start"
    BY <1>4 DEF Fopen, Gone, CallDestroy, Closing, TestFile, WriteFile, allVars, logVars,
                MainGoes
  <2>3. Unmade'
    BY <2>1, <2>2 DEF Unmade
  <2> QED BY <2>1, <2>3, OutsideStep
<1>5. ASSUME NEW w \in Workers,
             PrintLine(w) \/ ((Loop(w) \/ Test(w) \/ Move(w) \/ Finish(w)) /\ UNCHANGED logVars)
      PROVE  TaskInv' /\ Unmade' /\ [Executor!Next]_Executor!vars
  <2>1. main' = main
    BY <1>5 DEF PrintLine, logVars
  <2>2. worker[w] # "unborn"
    BY <1>5 DEF PrintLine, RunTask, Drain, Loop, Test, Move, Running, Finish,
                Thread!Destroy, Thread!SemWakeup, Thread!Goto
  <2>3. Unmade'
    BY <2>1, <2>2 DEF Unmade
  <2> QED BY <1>5, <2>3, LoopStep, RunStep, DrainStep, FinishStep
          DEF PrintLine, Executor!Next
<1>6. [Executor!Next]_Executor!vars \/ ~(Executor!Begin)
  BY DEF Executor!Next
<1> QED
  BY <1>1, <1>3, <1>4, <1>5, <1>6 DEF LogNext, MainStep, LogWorkerStep, Unmade

\* CELLTask.hpp:57-85: no line is lost, written twice or overtaken by another one.
THEOREM LogTasksConserved == LogSpec => []TasksConserved
<1>1. TaskInv /\ Unmade => TasksConserved
  BY DEF TaskInv
<1> QED BY LogInitTasks, LogStepTasks, <1>1, PTL DEF LogSpec

\* CELLTask.hpp: the log's task server implements the task executor (its safety part).
THEOREM LogRefinesExecutor == LogSpec => Executor!SafetySpec
  BY LogInitTasks, LogStepTasks, PTL DEF LogSpec, Executor!SafetySpec

------------------------------------------------------------------------------
\* The worker is inside the task of a line.
AtTask(w) ==
    \/ worker[w] = "run" /\ place = "run" /\ position < Len(tasks)
    \/ worker[w] = "returning" /\ position < Len(tasksBuf)

Ended == \E w \in Workers : worker[w] = "done"

SemIs(n, k) == wait = n /\ wakeup = k

\* Where the main thread is decides about the flag, the worker and the semaphore:
\* Close has returned only when the worker has ended.
Joins ==
    \/ /\ main \in {"start", "setLogPath", "info", "run"} /\ caller[Main] = "out"
       /\ (isRun \/ main = "start") /\ SemIs(0, 0) /\ ~Ended
    \/ /\ main = "close" /\ caller[Main] = "lock"
       /\ isRun /\ SemIs(0, 0) /\ ~Ended
    \/ /\ main = "close" /\ caller[Main] = "wait"
       /\ ~isRun /\ IF Ended THEN SemIs(1, 0) ELSE SemIs(0, 0)
    \/ /\ main = "close" /\ caller[Main] = "blocked"
       /\ ~isRun /\ IF Ended THEN SemIs(0, 1) ELSE SemIs(-1, 0)
    \/ /\ main \in {"close", "fclose", "gone"} /\ caller[Main] = "out"
       /\ ~isRun /\ Ended

\* The worker goes on while the flag is up; when it stops, everything that was
\* added before Close has run.
Stops ==
    /\ isRun => \A w \in Workers : worker[w] \in {"unborn", "run"}
    /\ \A w \in Workers :
          worker[w] \in {"destroy", "wakeup", "done"} => Len(done) >= before[Main]
    /\ before \in [Controllers -> Nat] /\ before[Main] <= Len(added)
    /\ caller \in [Controllers -> Thread!CallerStates]

JoinInv == Joins /\ Stops

\* The file has the lines that have run, and the one the worker is about to print.
Written ==
    /\ logFile \in {"none", "open", "closed"} /\ line \in {"test", "write", "print"}
    /\ main \in {"start", "setLogPath"} => added = <<>> /\ logFile = "none"
    /\ logFile = "closed" => main = "gone"
    /\ main = "fclose" => logFile # "none"
    /\ line # "test" => \E w \in Workers : AtTask(w)
    /\ logFile = "none" => text = <<>>
    /\ logFile # "none" =>
          text = SubSeq(added, 1, IF line = "print" THEN Len(done) + 1 ELSE Len(done))

LogInv == TaskInv /\ Unmade /\ JoinInv /\ Written /\ WritesOpenFile

\* The line the worker has reached is the first one that has not run.
LEMMA ReachedIsNext ==
    ASSUME TaskInv, NEW w \in Workers
    PROVE  /\ AtTask(w) => /\ Reached(w) \in Tasks
                           /\ Len(done) < Len(added) /\ Reached(w) = added[Len(done) + 1]
           /\ ~AtTask(w) => Reached(w) = Nobody
<1> USE DEF TaskInv
<1>1. CASE worker[w] = "run" /\ place = "run" /\ position < Len(tasks)
  <2> DEFINE h == tasks[position + 1]
             r == SubSeq(tasks, position + 2, Len(tasks))
  <2>1. h \in Tasks /\ r \in Seq(Tasks)
        /\ SubSeq(tasks, position + 1, Len(tasks)) = <<h>> \o r
    BY <1>1, NextOfRest DEF TaskTypes
  <2>2. Reached(w) = h
    BY <1>1 DEF Reached, Running
  <2>3. Queue = (<<h>> \o r) \o tasksBuf /\ tasksBuf \in Seq(Tasks)
    BY <1>1, <2>1 DEF Queue, RestOfTasks, RestOfBuf, TaskTypes
  <2> HIDE DEF h, r
  <2>4. Queue \in Seq(Tasks) /\ Len(Queue) > 0 /\ Queue[1] = h
    BY <2>1, <2>3
  <2>5. done \in Seq(Tasks) /\ added = done \o Queue
    BY DEF TaskTypes, TasksConserved
  <2>6. Len(done) < Len(added) /\ added[Len(done) + 1] = h
    BY <2>4, <2>5
  <2> QED BY <1>1, <2>1, <2>2, <2>6 DEF AtTask
<1>2. CASE worker[w] = "returning" /\ position < Len(tasksBuf)
  <2> DEFINE h == tasksBuf[position + 1]
             r == SubSeq(tasksBuf, position + 2, Len(tasksBuf))
  <2>1. h \in Tasks /\ r \in Seq(Tasks)
        /\ SubSeq(tasksBuf, position + 1, Len(tasksBuf)) = <<h>> \o r
    BY <1>2, NextOfRest DEF TaskTypes
  <2>2. Reached(w) = h
    BY <1>2 DEF Reached, Running
  <2>3. place = "drain" /\ tasks = <<>>
    BY <1>2 DEF OneWorkerMade, ListsFit
  <2>4. Queue = <<>> \o (<<h>> \o r)
    BY <2>1, <2>3 DEF Queue, RestOfTasks, RestOfBuf
  <2> HIDE DEF h, r
  <2>5. Queue \in Seq(Tasks) /\ Len(Queue) > 0 /\ Queue[1] = h
    BY <2>1, <2>4
  <2>6. done \in Seq(Tasks) /\ added = done \o Queue
    BY DEF TaskTypes, TasksConserved
  <2>7. Len(done) < Len(added) /\ added[Len(done) + 1] = h
    BY <2>5, <2>6
  <2> QED BY <1>2, <2>1, <2>2, <2>7 DEF AtTask
<1>3. CASE ~AtTask(w)
  BY <1>3 DEF AtTask, Reached, Running
<1> QED BY <1>1, <1>2, <1>3 DEF AtTask

\* The beginning of a list that grows, and one line more of it.
LEMMA Prefixes ==
    ASSUME NEW s \in Seq(Tasks), NEW n \in Nat, n <= Len(s)
    PROVE  /\ Len(SubSeq(s, 1, n)) = n
           /\ \A t \in Tasks : SubSeq(Append(s, t), 1, n) = SubSeq(s, 1, n)
           /\ n < Len(s) => Append(SubSeq(s, 1, n), s[n + 1]) = SubSeq(s, 1, n + 1)
<1>1. ASSUME NEW m \in Nat, NEW q \in Seq(Tasks), m <= Len(q)
      PROVE  /\ SubSeq(q, 1, m) \in Seq(Tasks)
             /\ Len(SubSeq(q, 1, m)) = m
             /\ \A i \in 1..m : SubSeq(q, 1, m)[i] = q[i]
  BY <1>1, SubSeqProperties
<1>2. ASSUME NEW t \in Tasks PROVE SubSeq(Append(s, t), 1, n) = SubSeq(s, 1, n)
  <2> DEFINE longer == Append(s, t)
             a == SubSeq(longer, 1, n)
             b == SubSeq(s, 1, n)
  <2>1. longer \in Seq(Tasks) /\ Len(longer) = Len(s) + 1 /\ \A i \in 1..n : longer[i] = s[i]
    BY AppendProperties
  <2> HIDE DEF longer
  <2>2. /\ a \in Seq(Tasks) /\ Len(a) = n /\ \A i \in 1..n : a[i] = longer[i]
        /\ b \in Seq(Tasks) /\ Len(b) = n /\ \A i \in 1..n : b[i] = s[i]
    <3>1. n <= Len(longer)
      BY <2>1
    <3> QED BY <1>1, <2>1, <3>1
  <2> HIDE DEF a, b
  <2>3. a = b
    BY <2>1, <2>2, SeqEqual
  <2> QED BY <2>3 DEF a, b, longer
<1>3. ASSUME n < Len(s) PROVE Append(SubSeq(s, 1, n), s[n + 1]) = SubSeq(s, 1, n + 1)
  <2> DEFINE b == SubSeq(s, 1, n)
             a == Append(b, s[n + 1])
             c == SubSeq(s, 1, n + 1)
  <2>1. /\ b \in Seq(Tasks) /\ Len(b) = n /\ \A i \in 1..n : b[i] = s[i]
        /\ c \in Seq(Tasks) /\ Len(c) = n + 1 /\ \A i \in 1..(n + 1) : c[i] = s[i]
    <3>1. n + 1 \in Nat /\ n + 1 <= Len(s)
      BY <1>3
    <3> QED BY <1>1, <3>1
  <2>2. s[n + 1] \in Tasks
    BY <1>3
  <2> HIDE DEF b, c
  <2>3. /\ a \in Seq(Tasks) /\ Len(a) = n + 1 /\ \A i \in 1..n : a[i] = b[i]
        /\ a[n + 1] = s[n + 1]
    BY <2>1, <2>2, AppendProperties
  <2> HIDE DEF a
  <2>4. \A i \in 1..(n + 1) : a[i] = c[i]
    <3> SUFFICES ASSUME NEW i \in 1..(n + 1) PROVE a[i] = c[i]
      OBVIOUS
    <3>1. CASE i = n + 1
      BY <2>1, <2>3, <3>1
    <3>2. CASE i \in 1..n
      BY <2>1, <2>3, <3>2
    <3> QED BY <3>1, <3>2
  <2>5. a = c
    BY <2>1, <2>3, <2>4, SeqEqual
  <2> QED BY <2>5 DEF a, b, c
<1> QED BY <1>1, <1>2, <1>3

LEMMA LogInitInv == LogInit => LogInv
<1> SUFFICES ASSUME LogInit PROVE LogInv
  OBVIOUS
<1>1. TaskInv /\ Unmade
  BY LogInitTasks
<1> USE DEF LogInit, Init, Thread!Init, Thread!SemInit
<1>2. worker = [v \in Workers |-> "unborn"] /\ ~isRun /\ wait = 0 /\ wakeup = 0
  OBVIOUS
<1>3. caller \in [Controllers -> Thread!CallerStates] /\ caller[Main] = "out"
  BY LogConstants DEF Thread!CallerStates
<1>4. JoinInv
  BY <1>2, <1>3, LogConstants DEF JoinInv, Joins, Stops, Ended, SemIs
<1>5. Written /\ WritesOpenFile
  BY DEF Written, WritesOpenFile
<1> QED BY <1>1, <1>4, <1>5 DEF LogInv

\* Before the worker is made and after its end no line is being written.
LEMMA NoTask ==
    ASSUME TaskInv, Ended \/ (Unmade /\ main = "start")
    PROVE  \A w \in Workers : ~AtTask(w)
  BY DEF TaskInv, OneWorkerMade, Ended, Unmade, AtTask

\* A line added by any thread, while the file and the worker stay as they are.
LEMMA AddKeepsJoin ==
    ASSUME LogInv, NEW t \in Tasks, addTask(t),
           UNCHANGED <<logFile, line, text>>,
           main \notin {"start", "setLogPath"}, main' \notin {"start", "setLogPath"},
           Joins', logFile = "closed" => main' = "gone",
           main' = "fclose" => logFile # "none"
    PROVE  JoinInv' /\ Written' /\ WritesOpenFile'
<1> USE DEF LogInv
<1>1. /\ tasksBuf' = Append(tasksBuf, t) /\ added' = Append(added, t)
      /\ UNCHANGED <<isRun, caller, worker, tasks, place, position, done, before>>
  BY DEF addTask, threadVars
<1>2. /\ tasksBuf \in Seq(Tasks) /\ added \in Seq(Tasks) /\ done \in Seq(Tasks)
      /\ position \in Nat
      /\ Len(added') = Len(added) + 1 /\ Len(tasksBuf') = Len(tasksBuf) + 1
  BY <1>1, AppendProperties DEF TaskInv, TaskTypes
<1>3. Stops'
  BY <1>1, <1>2, LogConstants DEF JoinInv, Stops
<1>4. \A w \in Workers : AtTask(w) => AtTask(w)'
  BY <1>1, <1>2 DEF AtTask
<1>5. Len(done) <= Len(added) /\ (line # "test" => Len(done) < Len(added))
  <2>1. Len(done) <= Len(added)
    <3>1. Queue \in Seq(Tasks) /\ added = done \o Queue
      BY RestsAreSeqs DEF TaskInv, TasksConserved
    <3> QED BY <1>2, <3>1
  <2> QED BY <2>1, ReachedIsNext DEF Written
<1>6. logFile # "none" => text' = SubSeq(added', 1, IF line = "print" THEN Len(done) + 1 ELSE Len(done))
  <2> DEFINE n == IF line = "print" THEN Len(done) + 1 ELSE Len(done)
  <2>1. n \in Nat /\ n <= Len(added)
    BY <1>2, <1>5
  <2>2. logFile # "none" => text = SubSeq(added, 1, n)
    BY DEF Written
  <2> HIDE DEF n
  <2>3. SubSeq(Append(added, t), 1, n) = SubSeq(added, 1, n)
    BY <1>2, <2>1, Prefixes
  <2> QED BY <1>1, <2>2, <2>3 DEF n
<1>7. Written' /\ WritesOpenFile'
  BY <1>1, <1>4, <1>6 DEF Written, WritesOpenFile
<1> QED BY <1>3, <1>7 DEF JoinInv

\* A step of the main thread that adds nothing.
LEMMA MainKeepsFile ==
    ASSUME LogInv, UNCHANGED <<worker, tasks, tasksBuf, place, position, added, done>>,
           UNCHANGED <<logFile, line, text>>,
           main' \in {"start", "setLogPath"} => main \in {"start", "setLogPath"},
           logFile = "closed" => main' = "gone",
           main' = "fclose" => logFile # "none"
    PROVE  Written' /\ WritesOpenFile'
<1>1. \A w \in Workers : AtTask(w) => AtTask(w)'
  BY DEF AtTask
<1> QED BY <1>1 DEF LogInv, Written, WritesOpenFile

\* CELLLog.hpp:117-127: a line from any thread, from setLogPath and from ~CELLLog.
LEMMA LineStep ==
    ASSUME LogInv, SetInfo \/ DestroyInfo \/ \E t \in Tasks : Echo(t)
    PROVE  JoinInv' /\ Written' /\ WritesOpenFile'
<1>1. PICK t \in Tasks : addTask(t)
  BY LogConstants DEF SetInfo, DestroyInfo, Echo
<1>2. /\ main \notin {"start", "setLogPath"} /\ main' \notin {"start", "setLogPath"}
      /\ UNCHANGED <<logFile, line, text>>
      /\ \/ main = "info" /\ main' = "run"
         \/ main = "close" /\ main' = "fclose" /\ caller[Main] = "out"
         \/ main' = main
  BY DEF SetInfo, DestroyInfo, Echo, MainGoes, logVars
<1>3. UNCHANGED <<isRun, caller, worker, wait, wakeup>>
  BY <1>1 DEF addTask, threadVars
<1>4. Joins'
  BY <1>2, <1>3 DEF LogInv, JoinInv, Joins, Ended, SemIs
<1>5. (logFile = "closed" => main' = "gone") /\ (main' = "fclose" => logFile # "none")
  <2>1. main = "fclose" => logFile # "none"
    BY DEF LogInv, Written
  <2>2. main' = "fclose" => main = "fclose" \/ logFile # "none"
    BY DEF SetInfo, DestroyInfo, Echo, MainGoes, logVars
  <2>3. logFile = "closed" => main = "gone"
    BY DEF LogInv, Written
  <2> QED BY <1>2, <2>1, <2>2, <2>3
<1> QED BY <1>1, <1>2, <1>4, <1>5, AddKeepsJoin

\* Instance(): the constructor.
LEMMA ConstructStep ==
    ASSUME LogInv, NEW w \in Workers, Construct(w)
    PROVE  JoinInv' /\ Written' /\ WritesOpenFile'
<1> USE DEF LogInv
<1>1. /\ main = "start" /\ main' = "setLogPath"
      /\ worker' = [worker EXCEPT ![w] = "run"] /\ isRun'
      /\ UNCHANGED <<caller, wait, wakeup, tasks, tasksBuf, added, done, before>>
      /\ UNCHANGED <<logFile, line, text>>
  BY DEF Construct, MainGoes, Start, Thread!Start, Thread!semUnchanged, Thread!semVars
<1>2. /\ \A v \in Workers : worker[v] = "unborn"
      /\ \A v \in Workers : worker'[v] \in {"unborn", "run"}
  BY <1>1 DEF Unmade, TaskInv, TaskTypes
<1>3. Joins'
  BY <1>1, <1>2 DEF JoinInv, Joins, Ended, SemIs
<1>4. Stops'
  BY <1>1, <1>2 DEF JoinInv, Stops
<1>5. line = "test"
  BY <1>1, NoTask DEF Written
<1>6. Written' /\ WritesOpenFile'
  BY <1>1, <1>5 DEF Written, WritesOpenFile
<1> QED BY <1>3, <1>4, <1>6 DEF JoinInv

\* CELLLog.hpp:44-70: fopen, before anything is logged.
LEMMA FopenStep ==
    ASSUME LogInv, Fopen
    PROVE  JoinInv' /\ Written' /\ WritesOpenFile'
<1> USE DEF LogInv
<1>1. /\ main = "setLogPath" /\ main' = "info" /\ logFile' \in {"none", "open"}
      /\ UNCHANGED <<line, text>>
      /\ UNCHANGED <<isRun, caller, worker, wait, wakeup, tasks, tasksBuf, place, position,
                     added, done, before>>
  BY DEF Fopen, MainGoes, vars, threadVars, taskVars
<1>2. JoinInv'
  BY <1>1 DEF JoinInv, Joins, Stops, Ended, SemIs
<1>3. line = "test" /\ text = <<>> /\ added = <<>> /\ Len(done) = 0
  <2>1. added = <<>> /\ logFile = "none" /\ text = <<>>
    BY <1>1 DEF Written
  <2>2. Queue \in Seq(Tasks) /\ done \in Seq(Tasks) /\ added = done \o Queue
    BY RestsAreSeqs DEF TaskInv, TaskTypes, TasksConserved
  <2>3. Len(done) = 0
    BY <2>1, <2>2
  <2>4. line = "test"
    BY <2>1, <2>3, ReachedIsNext DEF Written
  <2> QED BY <2>1, <2>3, <2>4
<1>4. Written' /\ WritesOpenFile'
  BY <1>1, <1>3 DEF Written, WritesOpenFile
<1> QED BY <1>2, <1>4

\* CELLLog.hpp:31-40: Close of the task server is called.
LEMMA CallDestroyStep ==
    ASSUME LogInv, CallDestroy
    PROVE  JoinInv' /\ Written' /\ WritesOpenFile'
<1> USE DEF LogInv
<1>1. /\ main = "run" /\ main' = "close"
      /\ caller' = [caller EXCEPT ![Main] = "lock"]
      /\ before' = [before EXCEPT ![Main] = Len(added)]
      /\ UNCHANGED <<isRun, worker, wait, wakeup>>
      /\ UNCHANGED <<tasks, tasksBuf, place, position, added, done>>
      /\ UNCHANGED <<logFile, line, text>>
  BY DEF CallDestroy, MainGoes, CallClose, Thread!CallClose, Thread!semUnchanged, Thread!semVars
<1>2. isRun /\ caller[Main] = "out" /\ SemIs(0, 0) /\ ~Ended
  BY <1>1 DEF JoinInv, Joins
<1>3. caller'[Main] = "lock" /\ caller' \in [Controllers -> Thread!CallerStates]
  BY <1>1, LogConstants DEF JoinInv, Stops, Thread!CallerStates
<1>4. Joins'
  BY <1>1, <1>2, <1>3 DEF Joins, Ended, SemIs
<1>5. Stops'
  <2>1. Len(added) \in Nat
    BY DEF TaskInv, TaskTypes
  <2>2. /\ before' \in [Controllers -> Nat] /\ before'[Main] = Len(added)
        /\ \A w \in Workers : worker'[w] \in {"unborn", "run"}
    BY <1>1, <1>2, <2>1, LogConstants DEF JoinInv, Stops
  <2> QED BY <1>1, <1>3, <2>1, <2>2 DEF Stops
<1>6. logFile # "closed" /\ main' # "fclose"
  BY <1>1 DEF Written
<1>7. Written' /\ WritesOpenFile'
  BY <1>1, <1>6, MainKeepsFile
<1> QED BY <1>4, <1>5, <1>7 DEF JoinInv

\* CELLThread.hpp:36-44: Close goes on, and comes out of its wait only when the
\* worker has ended.
LEMMA ClosingStep ==
    ASSUME LogInv, Closing
    PROVE  JoinInv' /\ Written' /\ WritesOpenFile'
<1> USE DEF LogInv
<1>1. /\ UNCHANGED <<worker, tasks, tasksBuf, place, position, added, done, before>>
      /\ UNCHANGED <<main, logFile, line, text>>
  BY DEF Closing, CloseStep, taskVars, logVars, Thread!ControllerStep, Thread!LockClose,
         Thread!SemWait, Thread!SemResume, Thread!SemSpurious
<1>2. Written' /\ WritesOpenFile'
  <2>1. (logFile = "closed" => main' = "gone") /\ (main' = "fclose" => logFile # "none")
    BY <1>1 DEF Written
  <2> QED BY <1>1, <2>1, MainKeepsFile
<1>3. caller \in [Controllers -> Thread!CallerStates] /\ Main \in Controllers
  BY LogConstants DEF JoinInv, Stops
<1>4. ASSUME caller' \in [Controllers -> Thread!CallerStates], isRun' => isRun
      PROVE  Stops'
  BY <1>1, <1>4 DEF JoinInv, Stops
<1>5. CASE Thread!LockClose(Main)
  <2>1. caller[Main] = "lock" /\ main = "close" /\ isRun /\ SemIs(0, 0) /\ ~Ended
    BY <1>5 DEF Thread!LockClose, JoinInv, Joins
  <2>2. ~isRun' /\ caller' = [caller EXCEPT ![Main] = "wait"] /\ UNCHANGED <<wait, wakeup>>
    BY <1>5, <2>1 DEF Thread!LockClose, Thread!semUnchanged, Thread!semVars
  <2>3. caller'[Main] = "wait" /\ caller' \in [Controllers -> Thread!CallerStates]
    BY <1>3, <2>2 DEF Thread!CallerStates
  <2>4. Joins'
    BY <1>1, <2>1, <2>2, <2>3 DEF Joins, Ended, SemIs
  <2> QED BY <1>2, <1>4, <2>2, <2>3, <2>4 DEF JoinInv
<1>6. CASE Thread!SemWait(Main)
  <2>1. /\ caller[Main] = "wait" /\ main = "close" /\ ~isRun
        /\ IF Ended THEN SemIs(1, 0) ELSE SemIs(0, 0)
    BY <1>6 DEF Thread!SemWait, JoinInv, Joins
  <2>2. CASE Ended
    <3>1. caller' = [caller EXCEPT ![Main] = "out"] /\ isRun' = isRun
      BY <1>6, <2>1, <2>2 DEF Thread!SemWait, Thread!Sleep, Thread!LeaveClose, SemIs
    <3>2. caller'[Main] = "out" /\ caller' \in [Controllers -> Thread!CallerStates]
      BY <1>3, <3>1 DEF Thread!CallerStates
    <3>3. Joins'
      BY <1>1, <2>1, <2>2, <3>1, <3>2 DEF Joins, Ended
    <3> QED BY <1>2, <1>4, <3>1, <3>2, <3>3 DEF JoinInv
  <2>3. CASE ~Ended
    <3>1. /\ caller' = [caller EXCEPT ![Main] = "blocked"] /\ isRun' = isRun
          /\ wait' = -1 /\ wakeup' = 0
      BY <1>6, <2>1, <2>3 DEF Thread!SemWait, Thread!Pass, Thread!Sleep, SemIs
    <3>2. caller'[Main] = "blocked" /\ caller' \in [Controllers -> Thread!CallerStates]
      BY <1>3, <3>1 DEF Thread!CallerStates
    <3>3. Joins'
      BY <1>1, <2>1, <2>3, <3>1, <3>2 DEF Joins, Ended, SemIs
    <3> QED BY <1>2, <1>4, <3>1, <3>2, <3>3 DEF JoinInv
  <2> QED BY <2>2, <2>3
<1>7. CASE Thread!SemResume(Main)
  <2>1. /\ caller[Main] = "blocked" /\ main = "close" /\ ~isRun
        /\ IF Ended THEN SemIs(0, 1) ELSE SemIs(-1, 0)
    BY <1>7 DEF Thread!SemResume, JoinInv, Joins
  <2>2. CASE Ended
    <3>1. caller' = [caller EXCEPT ![Main] = "out"] /\ isRun' = isRun
      BY <1>7, <2>1, <2>2 DEF Thread!SemResume, Thread!SleepAgain, Thread!LeaveClose, SemIs
    <3>2. caller'[Main] = "out" /\ caller' \in [Controllers -> Thread!CallerStates]
      BY <1>3, <3>1 DEF Thread!CallerStates
    <3>3. Joins'
      BY <1>1, <2>1, <2>2, <3>1, <3>2 DEF Joins, Ended
    <3> QED BY <1>2, <1>4, <3>1, <3>2, <3>3 DEF JoinInv
  <2>3. CASE ~Ended
    <3>1. UNCHANGED <<caller, isRun, wait, wakeup>>
      BY <1>7, <2>1, <2>3 DEF Thread!SemResume, Thread!Return, Thread!SleepAgain, SemIs
    <3>2. Joins'
      BY <1>1, <2>1, <2>3, <3>1 DEF Joins, Ended, SemIs
    <3> QED BY <1>2, <1>3, <1>4, <3>1, <3>2 DEF JoinInv
  <2> QED BY <2>2, <2>3
<1>8. CASE Thread!SemSpurious(Main)
  <2>1. UNCHANGED <<caller, isRun, wait, wakeup>>
    BY <1>8 DEF Thread!SemSpurious, Thread!Spurious
  <2>2. Joins'
    BY <1>1, <2>1 DEF JoinInv, Joins, Ended, SemIs
  <2> QED BY <1>2, <1>3, <1>4, <2>1, <2>2 DEF JoinInv
<1> QED BY <1>5, <1>6, <1>7, <1>8 DEF Closing, CloseStep, Thread!ControllerStep

\* CELLLog.hpp:36-38: fclose, and the end of the object.  The worker has ended, and
\* with it everything that was added before ~CELLLog.
LEMMA GoneStep ==
    ASSUME LogInv, Gone
    PROVE  /\ JoinInv' /\ Written' /\ WritesOpenFile'
           /\ logFile = "open" => /\ Len(text) >= before[Main]
                                  /\ text = SubSeq(added, 1, Len(text))
<1> USE DEF LogInv
<1>1. /\ main \in {"close", "fclose"} /\ main' = "gone" /\ caller[Main] = "out"
      /\ UNCHANGED <<line, text>>
      /\ \/ logFile' = "closed" /\ logFile # "none"
         \/ logFile' = "none" /\ logFile = "none"
      /\ UNCHANGED <<isRun, caller, worker, wait, wakeup, tasks, tasksBuf, place, position,
                     added, done, before>>
  <2>1. /\ main \in {"close", "fclose"} /\ main' = "gone"
        /\ UNCHANGED <<line, text>> /\ UNCHANGED vars
    BY DEF Gone, MainGoes
  <2>2. caller[Main] = "out"
    BY <2>1 DEF Gone, MainGoes, JoinInv, Joins
  <2>3. \/ logFile' = "closed" /\ logFile # "none"
        \/ logFile' = "none" /\ logFile = "none"
    <3>1. main = "fclose" => logFile # "none"
      BY DEF Written
    <3> QED BY <3>1 DEF Gone, MainGoes
  <2> QED BY <2>1, <2>2, <2>3 DEF vars, threadVars, taskVars
<1>2. Ended /\ ~isRun
  BY <1>1 DEF JoinInv, Joins
<1>3. line = "test"
  <2>1. TaskInv /\ Ended
    BY <1>2
  <2>2. \A w \in Workers : ~AtTask(w)
    BY <2>1, NoTask
  <2> QED BY <2>2 DEF Written
<1>4. JoinInv'
  <2>1. Stops'
    BY <1>1 DEF JoinInv, Stops
  <2>2. Joins'
    BY <1>1, <1>2 DEF Joins, Ended
  <2> QED BY <2>1, <2>2 DEF JoinInv
<1>5. Written' /\ WritesOpenFile'
  <2>1. WritesOpenFile' /\ main' = "gone" /\ line' = "test"
    BY <1>1, <1>3 DEF WritesOpenFile
  <2>2. /\ logFile' = "none" => text' = <<>>
        /\ logFile' # "none" => text' = SubSeq(added', 1, Len(done'))
    BY <1>1, <1>3 DEF Written
  <2>3. logFile' \in {"none", "open", "closed"}
    BY <1>1
  <2> QED BY <2>1, <2>2, <2>3 DEF Written
<1>6. ASSUME logFile = "open"
      PROVE  Len(text) >= before[Main] /\ text = SubSeq(added, 1, Len(text))
  <2>1. added \in Seq(Tasks) /\ Len(done) \in Nat /\ Len(done) <= Len(added)
    <3>1. Queue \in Seq(Tasks) /\ done \in Seq(Tasks) /\ added = done \o Queue
      BY RestsAreSeqs DEF TaskInv, TaskTypes, TasksConserved
    <3> QED BY <3>1
  <2>2. text = SubSeq(added, 1, Len(done)) /\ Len(text) = Len(done)
    BY <1>3, <1>6, <2>1, Prefixes DEF Written
  <2>3. Len(done) >= before[Main]
    BY <1>2 DEF JoinInv, Stops, Ended
  <2> QED BY <2>2, <2>3
<1> QED BY <1>4, <1>5, <1>6

LEMMA DoneFits ==
    ASSUME TaskInv
    PROVE  /\ added \in Seq(Tasks) /\ done \in Seq(Tasks)
           /\ Len(done) \in Nat /\ Len(added) \in Nat /\ Len(done) <= Len(added)
           /\ Queue = <<>> => Len(done) = Len(added)
<1>1. Queue \in Seq(Tasks) /\ done \in Seq(Tasks) /\ added = done \o Queue
  BY RestsAreSeqs DEF TaskInv, TaskTypes, TasksConserved
<1> QED BY <1>1 DEF TaskInv, TaskTypes

\* While a worker is at work none has ended: no other one was made.
LEMMA TheWorker ==
    ASSUME TaskInv, JoinInv, NEW w \in Workers, worker[w] \notin {"unborn", "done"}
    PROVE  ~Ended /\ main # "gone"
  BY DEF TaskInv, OneWorkerMade, Ended, JoinInv, Joins

\* CELLLog.hpp:117-127: the test of _logFile and the writes to it.
LEMMA FileStep ==
    ASSUME LogInv, NEW w \in Workers, TestFile(w) \/ WriteFile(w)
    PROVE  JoinInv' /\ Written' /\ WritesOpenFile'
<1> USE DEF LogInv
<1>1. /\ UNCHANGED <<main, logFile>>
      /\ UNCHANGED <<isRun, caller, worker, wait, wakeup, tasks, tasksBuf, place, position,
                     added, done, before>>
  BY DEF TestFile, WriteFile, vars, threadVars, taskVars
<1>2. JoinInv'
  <2>1. Stops'
    BY <1>1 DEF JoinInv, Stops
  <2>2. Joins'
    BY <1>1 DEF JoinInv, Joins, Ended, SemIs
  <2> QED BY <2>1, <2>2 DEF JoinInv
<1>3. AtTask(w) /\ AtTask(w)'
  <2>1. Reached(w) # Nobody
    BY DEF TestFile, WriteFile
  <2>2. AtTask(w)
    BY <2>1, ReachedIsNext
  <2> QED BY <1>1, <2>2 DEF AtTask
<1>4. logFile # "closed"
  <2>1. worker[w] \notin {"unborn", "done"}
    BY <1>3 DEF AtTask
  <2> QED BY <2>1, TheWorker DEF Written
<1>5. CASE TestFile(w)
  <2>1. line = "test" /\ line' = (IF logFile # "none" THEN "write" ELSE "print") /\ text' = text
    BY <1>5 DEF TestFile
  <2>2. WritesOpenFile'
    BY <1>1, <1>4, <2>1 DEF Written, WritesOpenFile
  <2>3. Written'
    BY <1>1, <1>3, <2>1 DEF Written
  <2> QED BY <1>2, <2>2, <2>3
<1>6. CASE WriteFile(w)
  <2>1. line = "write" /\ line' = "print" /\ text' = Append(text, Reached(w))
    BY <1>6 DEF WriteFile
  <2>2. Reached(w) = added[Len(done) + 1] /\ Len(done) < Len(added)
    BY <1>3, ReachedIsNext
  <2>3. logFile = "open" /\ text = SubSeq(added, 1, Len(done))
    BY <2>1 DEF Written, WritesOpenFile
  <2>4. text' = SubSeq(added, 1, Len(done) + 1)
    BY <2>1, <2>2, <2>3, DoneFits, Prefixes
  <2>5. Written'
    BY <1>1, <1>3, <2>1, <2>3, <2>4 DEF Written
  <2> QED BY <1>2, <2>1, <2>5 DEF WritesOpenFile
<1> QED BY <1>5, <1>6

\* What a step of the worker must keep of the counters and the flag.
LEMMA WorkerKeepsJoin ==
    ASSUME LogInv, NEW w \in Workers, NEW from, NEW to,
           worker[w] = from, worker' = [worker EXCEPT ![w] = to],
           from \in {"run", "returning", "destroy"},
           to \in {"run", "returning", "destroy", "wakeup"},
           from = to \/ from # "run" \/ ~isRun,
           UNCHANGED <<main, isRun, caller, wait, wakeup, before, added>>
    PROVE  Joins' /\ (isRun' => \A v \in Workers : worker'[v] \in {"unborn", "run"})
<1>1. worker \in [Workers -> Thread!WorkerStates] /\ worker'[w] = to
  BY DEF LogInv, TaskInv, TaskTypes
<1>2. ~Ended /\ ~Ended'
  <2>1. worker[w] \notin {"unborn", "done"}
    OBVIOUS
  <2>2. ~Ended
    BY <2>1, TheWorker DEF LogInv
  <2> QED BY <1>1, <2>2 DEF Ended
<1>3. isRun' => \A v \in Workers : worker'[v] \in {"unborn", "run"}
  BY <1>1 DEF LogInv, JoinInv, Stops
<1> QED BY <1>2, <1>3 DEF LogInv, JoinInv, Joins, SemIs

\* CELLTask.hpp:54-70: between the tasks nothing is written.
LEMMA BetweenStep ==
    ASSUME LogInv, NEW w \in Workers, Loop(w) \/ Test(w) \/ Move(w), UNCHANGED logVars
    PROVE  JoinInv' /\ Written' /\ WritesOpenFile'
<1> USE DEF LogInv
<1>1. /\ UNCHANGED <<main, logFile, line, text>>
      /\ UNCHANGED <<isRun, caller, wait, wakeup, before, added, done>>
      /\ worker[w] = "run" /\ place \in {"loop", "test", "move"}
      /\ \/ worker' = [worker EXCEPT ![w] = "run"]
         \/ worker' = [worker EXCEPT ![w] = "returning"] /\ ~isRun
  BY DEF Loop, Test, Move, Running, logVars, threadVars, Thread!SeeStop, Thread!Goto,
         Thread!semUnchanged, Thread!semVars, TaskInv, TaskTypes
<1>2. Joins' /\ (isRun' => \A v \in Workers : worker'[v] \in {"unborn", "run"})
  BY <1>1, WorkerKeepsJoin
<1>3. Stops'
  <2>1. \A v \in Workers : worker'[v] \in {"destroy", "wakeup", "done"}
           => worker[v] \in {"destroy", "wakeup", "done"}
    BY <1>1 DEF TaskInv, TaskTypes
  <2> QED BY <1>1, <1>2, <2>1 DEF JoinInv, Stops
<1>4. line = "test"
  BY <1>1 DEF Written, AtTask, TaskInv, OneWorkerMade
<1>5. Written' /\ WritesOpenFile'
  BY <1>1, <1>4 DEF Written, WritesOpenFile
<1> QED BY <1>2, <1>3, <1>5 DEF JoinInv

\* CELLThread.hpp:71-73: onDestory, and the wakeup that lets Close return.
LEMMA FinishJoins ==
    ASSUME LogInv, NEW w \in Workers, Finish(w), UNCHANGED logVars
    PROVE  JoinInv' /\ Written' /\ WritesOpenFile'
<1> USE DEF LogInv
<1>1. /\ UNCHANGED <<main, logFile, line, text>>
      /\ UNCHANGED <<isRun, caller, before, added, done, tasks, tasksBuf, place, position>>
  BY DEF Finish, logVars, taskVars, Thread!Destroy, Thread!SemWakeup
<1>2. /\ worker[w] \in {"destroy", "wakeup"} /\ worker \in [Workers -> Thread!WorkerStates]
      /\ \/ worker' = [worker EXCEPT ![w] = "wakeup"]
         \/ worker' = [worker EXCEPT ![w] = "done"]
  BY DEF Finish, Thread!Destroy, Thread!SemWakeup, Thread!Goto, TaskInv, TaskTypes
<1>3. line = "test"
  BY <1>2 DEF Written, AtTask, TaskInv, OneWorkerMade
<1>4. Written' /\ WritesOpenFile'
  BY <1>1, <1>3 DEF Written, WritesOpenFile
<1>5. ~isRun
  BY <1>2 DEF JoinInv, Stops
<1>6. Stops'
  <2>1. Len(done) >= before[Main]
    BY <1>2 DEF JoinInv, Stops
  <2> QED BY <1>1, <1>5, <2>1 DEF JoinInv, Stops
<1>7. ~Ended
  BY <1>2, TheWorker
<1>8. CASE Thread!Destroy(w)
  <2>1. worker[w] = "destroy" /\ worker' = [worker EXCEPT ![w] = "wakeup"]
        /\ UNCHANGED <<wait, wakeup>>
    BY <1>8 DEF Thread!Destroy, Thread!Goto, Thread!semUnchanged, Thread!semVars
  <2>2. Joins'
    BY <1>1, <2>1, WorkerKeepsJoin
  <2> QED BY <1>4, <1>6, <2>2 DEF JoinInv
<1>9. CASE Thread!SemWakeup(w)
  <2>1. /\ worker'[w] = "done"
        /\ wait' = wait + 1 /\ IF wait + 1 <= 0 THEN wakeup' = wakeup + 1 ELSE wakeup' = wakeup
    BY <1>2, <1>9 DEF Thread!SemWakeup, Thread!Goto, Thread!Wakeup
  <2>2. Ended'
    BY <2>1 DEF Ended
  <2>3. main # "start"
    BY <1>2 DEF Unmade
  <2>4. Joins'
    BY <1>1, <1>5, <1>7, <2>1, <2>2, <2>3 DEF JoinInv, Joins, SemIs
  <2> QED BY <1>4, <1>6, <2>4 DEF JoinInv
<1> QED BY <1>8, <1>9 DEF Finish

\* CELLLog.hpp:126: printf, and the line has run; or a loop that is at its end.
LEMMA PrintStep ==
    ASSUME LogInv, NEW w \in Workers, PrintLine(w)
    PROVE  JoinInv' /\ Written' /\ WritesOpenFile'
<1> USE DEF LogInv
<1>1. /\ UNCHANGED <<main, logFile, text>> /\ line' = "test"
      /\ UNCHANGED <<isRun, caller, wait, wakeup, before, added>>
  BY DEF PrintLine, RunTask, Drain, threadVars, Thread!ReturnRun, Thread!semUnchanged, Thread!semVars
<1>2. worker \in [Workers -> Thread!WorkerStates] /\ worker[w] \in {"run", "returning"}
  BY DEF PrintLine, RunTask, Drain, Running, TaskInv, TaskTypes
<1>3. \/ worker' = [worker EXCEPT ![w] = worker[w]]
      \/ worker[w] = "returning" /\ worker' = [worker EXCEPT ![w] = "destroy"]
         /\ position = Len(tasksBuf)
  <2>1. CASE UNCHANGED threadVars
    BY <1>2, <2>1 DEF threadVars
  <2>2. CASE ~(UNCHANGED threadVars)
    BY <2>2 DEF PrintLine, RunTask, Drain, Thread!ReturnRun, Thread!Goto
  <2> QED BY <2>1, <2>2
<1>4. Joins' /\ (isRun' => \A v \in Workers : worker'[v] \in {"unborn", "run"})
  BY <1>1, <1>2, <1>3, WorkerKeepsJoin
<1>5. CASE AtTask(w)
  <2>1. line = "print" /\ done' = Append(done, Reached(w))
    <3>1. Reached(w) # Nobody
      BY <1>5, ReachedIsNext, LogConstants
    <3>2. position < (IF worker[w] = "run" THEN Len(tasks) ELSE Len(tasksBuf))
          /\ Len(tasks) \in Nat /\ Len(tasksBuf) \in Nat /\ position \in Nat
      BY <1>5 DEF AtTask, TaskInv, TaskTypes
    <3>3. CASE RunTask(w)
      BY <1>5, <3>1, <3>2, <3>3 DEF PrintLine, RunTask, Reached, Running
    <3>4. CASE Drain(w)
      BY <1>5, <3>1, <3>2, <3>4 DEF PrintLine, Drain, Reached, Running
    <3> QED BY <3>3, <3>4 DEF PrintLine
  <2>2. Reached(w) \in Tasks /\ Len(done') = Len(done) + 1 /\ Len(done) \in Nat
    BY <1>5, <2>1, ReachedIsNext, DoneFits, AppendProperties
  <2>3. Stops'
    <3>1. before[Main] \in Nat
      BY LogConstants DEF JoinInv, Stops
    <3>2. \A v \in Workers : worker'[v] \in {"destroy", "wakeup", "done"}
             => worker[v] \in {"destroy", "wakeup", "done"}
      <4>1. worker' = worker
        BY <1>2, <1>3, <1>5 DEF AtTask, TaskInv, TaskTypes
      <4> QED BY <4>1
    <3> QED BY <1>1, <1>4, <2>2, <3>1, <3>2 DEF JoinInv, Stops
  <2>4. Written'
    BY <1>1, <2>1, <2>2 DEF Written
  <2> QED BY <1>1, <1>4, <2>3, <2>4 DEF JoinInv, WritesOpenFile
<1>6. CASE ~AtTask(w)
  <2>1. Reached(w) = Nobody /\ line = "test"
    BY <1>6, ReachedIsNext DEF PrintLine
  <2>2. done' = done
    BY <1>6 DEF PrintLine, RunTask, Drain, Running, AtTask
  <2>3. Written' /\ WritesOpenFile'
    BY <1>1, <2>1, <2>2 DEF Written, WritesOpenFile
  <2>4. Stops'
    <3>1. CASE worker' = [worker EXCEPT ![w] = worker[w]]
      BY <1>1, <1>2, <1>4, <2>2, <3>1 DEF JoinInv, Stops
    <3>2. CASE worker[w] = "returning" /\ position = Len(tasksBuf)
      <4>1. Queue = <<>>
        <5>1. place = "drain" /\ tasks = <<>> /\ tasksBuf \in Seq(Tasks)
          BY <3>2 DEF TaskInv, OneWorkerMade, ListsFit, TaskTypes
        <5> QED BY <3>2, <5>1, RestEnds DEF Queue, RestOfTasks, RestOfBuf
      <4>2. Len(done) >= before[Main]
        BY <4>1, DoneFits DEF JoinInv, Stops
      <4> QED BY <1>1, <1>4, <2>2, <4>2 DEF JoinInv, Stops
    <3> QED BY <1>3, <3>1, <3>2
  <2> QED BY <1>4, <2>3, <2>4 DEF JoinInv
<1> QED BY <1>5, <1>6

\* A step changes nothing, or is one of those above.
LEMMA LogStepInv == LogInv /\ [LogNext]_allVars => LogInv'
<1> SUFFICES ASSUME LogInv, [LogNext]_allVars PROVE LogInv'
  OBVIOUS
<1>1. TaskInv' /\ Unmade'
  BY LogStepTasks DEF LogInv
<1>2. JoinInv' /\ Written' /\ WritesOpenFile'
  <2>1. CASE UNCHANGED allVars
    <3>1. /\ UNCHANGED <<isRun, mutex, caller, worker, wait, wakeup, sleeping, notified, exited>>
          /\ UNCHANGED <<tasks, tasksBuf, place, position, added, done, before>>
          /\ UNCHANGED <<main, logFile, line, text>>
      BY <2>1 DEF allVars, vars, threadVars, taskVars, logVars
    <3>2. JoinInv'
      BY <3>1 DEF LogInv, JoinInv, Joins, Stops, Ended, SemIs
    <3>3. Written' /\ WritesOpenFile'
      BY <3>1 DEF LogInv, Written, WritesOpenFile, AtTask
    <3> QED BY <3>2, <3>3
  <2>2. ASSUME NEW w \in Workers, Construct(w) \/ LogWorkerStep(w)
        PROVE  JoinInv' /\ Written' /\ WritesOpenFile'
    BY <2>2, ConstructStep, FileStep, PrintStep, BetweenStep, FinishJoins DEF LogWorkerStep
  <2>3. CASE MainStep \/ CallDestroy \/ \E t \in Tasks : Echo(t)
    BY <2>3, FopenStep, LineStep, ClosingStep, GoneStep, CallDestroyStep DEF MainStep
  <2> QED BY <2>1, <2>2, <2>3 DEF LogNext
<1> QED BY <1>1, <1>2 DEF LogInv

\* CELLLog.hpp, CELLTask.hpp, CELLThread.hpp: the worker, the Close of ~CELLLog, the lists of
\* the task server and the file fit together as LogInv says, in every state.
THEOREM LogInvariant == LogSpec => []LogInv
  BY LogInitInv, LogStepInv, PTL DEF LogSpec

\* CELLLog.hpp:31-40,117-127: the worker writes only to an open file.
THEOREM LogWritesOpenFile == LogSpec => []WritesOpenFile
<1>1. LogInv => WritesOpenFile
  BY DEF LogInv
<1> QED BY <1>1, LogInvariant, PTL

\* CELLLog.hpp:33-38: the file is complete when it is closed.
THEOREM LogFileComplete == LogSpec => FileComplete
<1> DEFINE Complete ==
        logFile = "open" /\ logFile' = "closed"
          => /\ Len(text) >= before[Main]
             /\ text = SubSeq(added, 1, Len(text))
<1>1. LogInv /\ [LogNext]_allVars => [Complete]_allVars
  <2> SUFFICES ASSUME LogInv, LogNext, logFile = "open", logFile' = "closed"
               PROVE  Complete
    BY DEF allVars
  <2>1. Gone
    BY DEF LogNext, MainStep, LogWorkerStep, Construct, Fopen, SetInfo, Closing, DestroyInfo,
           CallDestroy, Echo, TestFile, WriteFile, PrintLine, logVars
  <2> QED BY <2>1, GoneStep
<1> QED BY <1>1, LogInvariant, PTL DEF LogSpec, FileComplete
=============================================================================

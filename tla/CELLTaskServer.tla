---------------------------- MODULE CELLTaskServer ----------------------------
(***************************************************************************)
(* CELLTaskServer (CELLTask.hpp): a CELLThread whose work function moves   *)
(* tasks from the shared list _tasksBuf to its own list _tasks and runs    *)
(* them.  CELLLog writes every line through one.                           *)
(*                                                                         *)
(* The thread is module CELLThread itself; its work function never calls   *)
(* Exit, so there is one worker at a time and one place in OnRun.          *)
(*                                                                         *)
(* addTask and the transfer hold _mutex for one step each.  The test of    *)
(* _tasksBuf before the transfer and the last loop of OnRun read the list  *)
(* without the mutex: an addTask may fall between any two of their steps.  *)
(***************************************************************************)
EXTENDS Integers, Sequences, FiniteSets

CONSTANTS Controllers, Workers, Nobody,         \* of CELLThread
          Tasks                                 \* the tasks that may be added

VARIABLES isRun, mutex, caller, worker, wait, wakeup, sleeping, notified, exited,
          tasks,        \* _tasks
          tasksBuf,     \* _tasksBuf
          place,        \* where the worker is in OnRun
          position,     \* how far a loop over _tasks or _tasksBuf has come
          added,        \* history: the tasks in the order of addTask
          done,         \* history: the tasks in the order they ran
          before        \* history: how many were added when Close was called

threadVars == <<isRun, mutex, caller, worker, wait, wakeup, sleeping, notified, exited>>
taskVars == <<tasks, tasksBuf, place, position, added, done, before>>
vars == <<threadVars, taskVars>>

Thread == INSTANCE CELLThread WITH Threads <- Controllers, CanExit <- FALSE

Places == {"loop", "test", "move", "run", "drain"}

Init ==
    /\ Thread!Init
    /\ tasks = <<>>
    /\ tasksBuf = <<>>
    /\ place = "loop"
    /\ position = 0
    /\ added = <<>>
    /\ done = <<>>
    /\ before = [c \in Controllers |-> 0]

------------------------------------------------------------------------------
\* A task is added once; threads that add different tasks are not told apart.
addTask(t) ==
    /\ \A i \in DOMAIN added : added[i] # t
    /\ tasksBuf' = Append(tasksBuf, t)
    /\ added' = Append(added, t)
    /\ UNCHANGED threadVars
    /\ UNCHANGED <<tasks, place, position, done, before>>

Start(c, w) ==
    /\ Thread!Start(c, w)
    /\ place' = "loop"
    /\ position' = 0
    /\ UNCHANGED <<tasks, tasksBuf, added, done, before>>

CallClose(c) ==
    /\ Thread!CallClose(c)
    /\ before' = [before EXCEPT ![c] = Len(added)]
    /\ UNCHANGED <<tasks, tasksBuf, place, position, added, done>>

CloseStep(c) ==
    /\ Thread!ControllerStep(c) \/ Thread!SemSpurious(c)
    /\ UNCHANGED taskVars

------------------------------------------------------------------------------
Running(w) == worker[w] = "run"

\* while (pThread->isRun()): read again before every round.
Loop(w) ==
    /\ Running(w)
    /\ place = "loop"
    /\ \/ /\ isRun
          /\ place' = "test"
          /\ UNCHANGED threadVars
       \/ /\ Thread!SeeStop(w)
          /\ place' = "drain"
    /\ UNCHANGED <<tasks, tasksBuf, position, added, done, before>>

\* The unlocked test of _tasksBuf; with nothing to do, sleep and start over.
Test(w) ==
    /\ Running(w)
    /\ place = "test"
    /\ place' = IF tasksBuf # <<>> THEN "move" ELSE "loop"
    /\ UNCHANGED threadVars
    /\ UNCHANGED <<tasks, tasksBuf, position, added, done, before>>

\* Mutant of Move: _tasksBuf is not cleared.
MoveKeepsBuf(w) ==
    /\ Running(w)
    /\ place = "move"
    /\ tasks' = tasks \o tasksBuf
    /\ place' = "run"
    /\ UNCHANGED threadVars
    /\ UNCHANGED <<tasksBuf, position, added, done, before>>

\* Under _mutex: the whole of _tasksBuf goes behind _tasks.
Move(w) ==
    /\ Running(w)
    /\ place = "move"
    /\ tasks' = tasks \o tasksBuf
    /\ tasksBuf' = <<>>
    /\ place' = "run"
    /\ UNCHANGED threadVars
    /\ UNCHANGED <<position, added, done, before>>

\* Mutants of RunTask: the last task first; and an iterator kept over the clear.
RunTaskLastFirst(w) ==
    /\ Running(w)
    /\ place = "run"
    /\ \/ /\ position < Len(tasks)
          /\ done' = Append(done, tasks[Len(tasks) - position])
          /\ position' = position + 1
          /\ UNCHANGED <<tasks, place>>
       \/ /\ position = Len(tasks)
          /\ tasks' = <<>>
          /\ position' = 0
          /\ place' = "loop"
          /\ UNCHANGED done
    /\ UNCHANGED threadVars
    /\ UNCHANGED <<tasksBuf, added, before>>

\* The loop over _tasks runs the next task, or ends and clears the list.
RunTask(w) ==
    /\ Running(w)
    /\ place = "run"
    /\ \/ /\ position < Len(tasks)
          /\ done' = Append(done, tasks[position + 1])
          /\ position' = position + 1
          /\ UNCHANGED <<tasks, place>>
       \/ /\ position = Len(tasks)
          /\ tasks' = <<>>
          /\ position' = 0
          /\ place' = "loop"
          /\ UNCHANGED done
    /\ UNCHANGED threadVars
    /\ UNCHANGED <<tasksBuf, added, before>>

\* Mutant of Drain: OnRun returns with tasks still in _tasksBuf.
DrainNothing(w) ==
    /\ Thread!ReturnRun(w)
    /\ UNCHANGED taskVars

\* After the while loop: run what is in _tasksBuf, which is not cleared; at its
\* end OnRun returns.
Drain(w) ==
    /\ worker[w] = "returning"
    /\ \/ /\ position < Len(tasksBuf)
          /\ done' = Append(done, tasksBuf[position + 1])
          /\ position' = position + 1
          /\ UNCHANGED threadVars
       \/ /\ position = Len(tasksBuf)
          /\ Thread!ReturnRun(w)
          /\ UNCHANGED <<done, position>>
    /\ UNCHANGED <<tasks, tasksBuf, place, added, before>>

\* OnWork after onRun: there is no onDestory, then the wakeup.
Finish(w) ==
    /\ Thread!Destroy(w) \/ Thread!SemWakeup(w)
    /\ UNCHANGED taskVars

------------------------------------------------------------------------------
WorkerStep(w) == Loop(w) \/ Test(w) \/ Move(w) \/ RunTask(w) \/ Drain(w) \/ Finish(w)

Next ==
    \/ \E t \in Tasks : addTask(t)
    \/ \E c \in Controllers :
          \/ \E w \in Workers : Start(c, w)
          \/ CallClose(c) \/ CloseStep(c)
    \/ \E w \in Workers : WorkerStep(w)

\* Every thread runs and every task returns.
Fairness ==
    /\ \A c \in Controllers : WF_vars(Thread!ControllerStep(c) /\ UNCHANGED taskVars)
    /\ \A w \in Workers : WF_vars(WorkerStep(w))

Spec == Init /\ [][Next]_vars /\ Fairness
------------------------------------------------------------------------------
\* The part of _tasks the loop has not reached, and that of _tasksBuf.
RestOfTasks == IF place = "run" THEN SubSeq(tasks, position + 1, Len(tasks)) ELSE tasks
RestOfBuf == IF place = "drain" THEN SubSeq(tasksBuf, position + 1, Len(tasksBuf)) ELSE tasksBuf

Queue == RestOfTasks \o RestOfBuf

Stopped == \E w \in Workers : worker[w] \in {"destroy", "wakeup", "done"}

Phase == CASE Stopped -> "stopped"
           [] \E w \in Workers : worker[w] \in {"run", "returning"} -> "running"
           [] OTHER -> "idle"

\* CELLTask.hpp:57-85: what has run and what is still queued are together exactly
\* what was added, in the order of addTask: no task is lost, run twice or overtaken
\* by another one, with additions between any two steps of the loops.
TasksConserved == done \o Queue = added

Executor == INSTANCE TaskExecutor WITH queue <- Queue, phase <- Phase

\* CELLTask.hpp is a task executor: one task at a time, in order, and it stops with
\* an empty queue.
IsExecutor == Executor!Spec
==============================================================================

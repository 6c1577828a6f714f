------------------------------ MODULE CELLThread ------------------------------
(***************************************************************************)
(* CELLThread (CELLThread.hpp): a worker thread that is started, asked to  *)
(* stop and waited for (Close), or that stops itself (Exit).  One object   *)
(* has one _mutex, one _isRun flag and one CELLSemaphore; every Start that *)
(* finds the flag down makes a new worker, so the workers are the          *)
(* successive (or overlapping) incarnations of the thread.                 *)
(*                                                                         *)
(* Close() holds _mutex from its test of _isRun to the return of           *)
(* _sem.wait(); Start and Exit hold it for a moment only, so each of them  *)
(* is one step taken when the mutex is free.  isRun() reads the flag       *)
(* without the mutex.  Threads, which wait in _sem, are the controllers:   *)
(* the threads that call Start and Close.                                  *)
(***************************************************************************)
EXTENDS CELLSemaphore

CONSTANTS Workers,      \* incarnations of the worker thread
          Nobody,       \* the owner of a free mutex
          CanExit       \* whether the work function may call Exit on an error

ASSUME ThreadConstants ==
    /\ IsFiniteSet(Workers)
    /\ Threads \cap Workers = {}
    /\ Nobody \notin Threads
    /\ CanExit \in BOOLEAN

VARIABLES isRun,        \* _isRun
          mutex,        \* who holds _mutex between two steps
          caller,       \* where each controller is in Close
          worker,       \* where each worker is in OnWork
          exited        \* history: Exit has lowered the flag at least once

threadVars == <<isRun, mutex, caller, worker, semVars, exited>>

CallerStates == {"out", "lock", "wait", "blocked"}
WorkerStates == {"unborn", "run", "exit", "returning", "destroy", "wakeup", "done"}

\* Workers between their creation and their last statement.
Live == {w \in Workers : worker[w] \notin {"unborn", "done"}}

Init ==
    /\ isRun = FALSE
    /\ mutex = Nobody
    /\ caller = [c \in Threads |-> "out"]
    /\ worker = [w \in Workers |-> "unborn"]
    /\ SemInit
    /\ exited = FALSE

semUnchanged == UNCHANGED semVars

------------------------------------------------------------------------------
\* Start() finds the flag down and makes worker w (when the flag is up it does
\* nothing).
Start(c, w) ==
    /\ caller[c] = "out"
    /\ mutex = Nobody
    /\ ~isRun
    /\ worker[w] = "unborn"
    /\ isRun' = TRUE
    /\ worker' = [worker EXCEPT ![w] = "run"]
    /\ semUnchanged
    /\ UNCHANGED <<mutex, caller, exited>>

\* Close() is called and asks for the mutex.
CallClose(c) ==
    /\ caller[c] = "out"
    /\ caller' = [caller EXCEPT ![c] = "lock"]
    /\ semUnchanged
    /\ UNCHANGED <<isRun, mutex, worker, exited>>

\* Mutants of LockClose: the mutex is given back before the wait; and Close does
\* not wait at all.
LockCloseUnlocked(c) ==
    /\ caller[c] = "lock"
    /\ mutex = Nobody
    /\ isRun' = FALSE
    /\ caller' = [caller EXCEPT ![c] = IF isRun THEN "wait" ELSE "out"]
    /\ semUnchanged
    /\ UNCHANGED <<mutex, worker, exited>>

\* Close() has the mutex: with the flag up it lowers it and keeps the mutex,
\* otherwise it returns.
LockClose(c) ==
    /\ caller[c] = "lock"
    /\ mutex = Nobody
    /\ \/ /\ isRun
          /\ isRun' = FALSE
          /\ mutex' = c
          /\ caller' = [caller EXCEPT ![c] = "wait"]
       \/ /\ ~isRun
          /\ caller' = [caller EXCEPT ![c] = "out"]
          /\ UNCHANGED <<isRun, mutex>>
    /\ semUnchanged
    /\ UNCHANGED <<worker, exited>>

\* Close() returns from _sem.wait() and gives the mutex back.
LeaveClose(c) ==
    /\ caller' = [caller EXCEPT ![c] = "out"]
    /\ mutex' = Nobody

SemWait(c) ==
    /\ caller[c] = "wait"
    /\ \/ Pass(c) /\ LeaveClose(c)
       \/ /\ Sleep(c)
          /\ caller' = [caller EXCEPT ![c] = "blocked"]
          /\ UNCHANGED mutex
    /\ UNCHANGED <<isRun, worker, exited>>

SemResume(c) ==
    /\ caller[c] = "blocked"
    /\ \/ Return(c) /\ LeaveClose(c)
       \/ SleepAgain(c) /\ UNCHANGED <<caller, mutex>>
    /\ UNCHANGED <<isRun, worker, exited>>

SemSpurious(c) ==
    /\ Spurious(c)
    /\ UNCHANGED <<isRun, mutex, caller, worker, exited>>

------------------------------------------------------------------------------
Goto(w, from, to) ==
    /\ worker[w] = from
    /\ worker' = [worker EXCEPT ![w] = to]

\* The loop of the work function reads isRun() and finds it false.
SeeStop(w) ==
    /\ Goto(w, "run", "returning")
    /\ ~isRun
    /\ semUnchanged
    /\ UNCHANGED <<isRun, mutex, caller, exited>>

\* The work function meets an error and calls Exit().
CallExit(w) ==
    /\ CanExit
    /\ Goto(w, "run", "exit")
    /\ semUnchanged
    /\ UNCHANGED <<isRun, mutex, caller, exited>>

\* Exit() has the mutex, lowers the flag and returns.
LockExit(w) ==
    /\ Goto(w, "exit", "returning")
    /\ mutex = Nobody
    /\ isRun' = FALSE
    /\ exited' = (exited \/ isRun)
    /\ semUnchanged
    /\ UNCHANGED <<mutex, caller>>

\* Mutant of ReturnRun: the wakeup comes before onDestory.
ReturnRunSignals(w) ==
    /\ Goto(w, "returning", "destroy")
    /\ Wakeup
    /\ UNCHANGED <<isRun, mutex, caller, exited>>

\* OnWork: _onRun has returned, then _onDestory, then _sem.wakeup().
ReturnRun(w) ==
    /\ Goto(w, "returning", "destroy")
    /\ semUnchanged
    /\ UNCHANGED <<isRun, mutex, caller, exited>>

Destroy(w) ==
    /\ Goto(w, "destroy", "wakeup")
    /\ semUnchanged
    /\ UNCHANGED <<isRun, mutex, caller, exited>>

\* Mutant of SemWakeup: OnWork ends without the wakeup.
SemWakeupForgotten(w) ==
    /\ Goto(w, "wakeup", "done")
    /\ semUnchanged
    /\ UNCHANGED <<isRun, mutex, caller, exited>>

SemWakeup(w) ==
    /\ Goto(w, "wakeup", "done")
    /\ Wakeup
    /\ UNCHANGED <<isRun, mutex, caller, exited>>

------------------------------------------------------------------------------
ControllerStep(c) == LockClose(c) \/ SemWait(c) \/ SemResume(c)

WorkerStep(w) == SeeStop(w) \/ LockExit(w) \/ ReturnRun(w) \/ Destroy(w) \/ SemWakeup(w)

Next ==
    \/ \E c \in Threads :
          \/ \E w \in Workers : Start(c, w)
          \/ CallClose(c) \/ ControllerStep(c) \/ SemSpurious(c)
    \/ \E w \in Workers : CallExit(w) \/ WorkerStep(w)

\* The operating system runs every thread; nothing makes a program call Start or
\* Close, and no error has to happen.
Fairness ==
    /\ \A c \in Threads : WF_threadVars(ControllerStep(c))
    /\ \A w \in Workers : WF_threadVars(WorkerStep(w))

Spec == Init /\ [][Next]_threadVars /\ Fairness
------------------------------------------------------------------------------
\* The state is well formed; in particular only a Close between its test of the
\* flag and its return keeps the mutex.
TypeOK ==
    /\ isRun \in BOOLEAN
    /\ mutex \in Threads \cup {Nobody}
    /\ caller \in [Threads -> CallerStates]
    /\ worker \in [Workers -> WorkerStates]
    /\ SemTypeOK
    /\ exited \in BOOLEAN
    /\ \A c \in Threads : caller[c] \in {"wait", "blocked"} <=> mutex = c
    /\ \A c \in Threads : caller[c] = "blocked" <=> c \in Waiters

\* CELLThread.hpp:36-44: Close waits for the worker: when it returns from a wait,
\* no worker is left that still runs onRun or onDestory, as long as no work
\* function has stopped itself with Exit.
CloseJoins ==
    [][\A c \in Threads :
          caller[c] \in {"wait", "blocked"} /\ caller'[c] = "out" /\ ~exited
             => Live = {}]_threadVars

\* CELLThread.hpp:18-31: however Start and Close of several threads interleave,
\* the object never has two workers at a time, as long as no work function has
\* stopped itself with Exit.
OneWorker == ~exited => \A v, w \in Live : v = w

\* CELLThread.hpp:42,73: each worker's wakeup is used up by the Close that stopped
\* it; none is left for a later Close, which would then return without waiting
\* (as long as no work function has stopped itself with Exit).
NoStaleWakeup == ~exited /\ mutex = Nobody => wait = 0 /\ wakeup = 0

\* CELLThread.hpp:36-44: Close returns, unless a worker is stuck in its own Exit.
CloseReturns ==
    \A c \in Threads :
        caller[c] = "lock"
            ~> (caller[c] = "out" \/ \E w \in Workers : worker[w] = "exit")

\* CELLThread.hpp:45-47: "exit from within the work function; no need to block on
\* the semaphore, it would block": a worker that calls Exit comes out of it.
ExitReturns == \A w \in Workers : worker[w] = "exit" ~> worker[w] # "exit"
==============================================================================

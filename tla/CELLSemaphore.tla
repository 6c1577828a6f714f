---------------------------- MODULE CELLSemaphore ----------------------------
(***************************************************************************)
(* CELLSemaphore (CELLSemaphore.hpp): two counters under a mutex and a     *)
(* condition variable.  Every critical section is short and never blocks   *)
(* except inside _cv.wait, which gives the mutex up, so each one is a step:*)
(*                                                                         *)
(*   Wait(t)     wait() up to its return, or up to falling asleep in       *)
(*               _cv.wait when the predicate _wakeup > 0 is false          *)
(*   Resume(t)   a notified sleeper has the mutex again and tests the      *)
(*               predicate: it returns, or goes back to sleep              *)
(*   Wakeup      wakeup(), with the sleeper notify_one picks, if any       *)
(*   Spurious(t) the condition variable wakes a sleeper for no reason      *)
(*                                                                         *)
(* A thread that calls wait() while an earlier sleeper has been notified   *)
(* but does not have the mutex yet may take that sleeper's wakeup.         *)
(***************************************************************************)
EXTENDS Integers, FiniteSets

CONSTANT Threads

ASSUME ThreadsFinite == IsFiniteSet(Threads)

VARIABLES wait,         \* _wait: wakeups minus waits
          wakeup,       \* _wakeup: wakeups given to a waiter and not yet used
          sleeping,     \* threads asleep in _cv.wait
          notified      \* threads woken in _cv.wait, not yet past the predicate

semVars == <<wait, wakeup, sleeping, notified>>

Waiters == sleeping \cup notified

SemInit ==
    /\ wait = 0
    /\ wakeup = 0
    /\ sleeping = {}
    /\ notified = {}

\* Mutant of Pass: wait() blocks from the second waiter on only.
PassTooEasily(t) ==
    /\ t \notin Waiters
    /\ wait' = wait - 1
    /\ \/ wait >= 0 /\ UNCHANGED wakeup
       \/ wait < 0 /\ wakeup > 0 /\ wakeup' = wakeup - 1
    /\ UNCHANGED <<sleeping, notified>>

\* wait() returns at once: _wait was positive, or _wakeup already is.
Pass(t) ==
    /\ t \notin Waiters
    /\ wait' = wait - 1
    /\ \/ wait > 0 /\ UNCHANGED wakeup
       \/ wait <= 0 /\ wakeup > 0 /\ wakeup' = wakeup - 1
    /\ UNCHANGED <<sleeping, notified>>

Sleep(t) ==
    /\ t \notin Waiters
    /\ wait <= 0
    /\ wakeup = 0
    /\ wait' = wait - 1
    /\ sleeping' = sleeping \cup {t}
    /\ UNCHANGED <<wakeup, notified>>

Wait(t) == Pass(t) \/ Sleep(t)

\* The predicate is tested again under the mutex.
Return(t) ==
    /\ t \in notified
    /\ wakeup > 0
    /\ wakeup' = wakeup - 1
    /\ notified' = notified \ {t}
    /\ UNCHANGED <<wait, sleeping>>

SleepAgain(t) ==
    /\ t \in notified
    /\ wakeup <= 0
    /\ notified' = notified \ {t}
    /\ sleeping' = sleeping \cup {t}
    /\ UNCHANGED <<wait, wakeup>>

Resume(t) == Return(t) \/ SleepAgain(t)

\* Mutant of NotifyOne: the notify_one is forgotten.
NotifyNone == UNCHANGED <<sleeping, notified>>

NotifyOne ==
    IF sleeping = {}
    THEN UNCHANGED <<sleeping, notified>>
    ELSE \E t \in sleeping : /\ sleeping' = sleeping \ {t}
                             /\ notified' = notified \cup {t}

Wakeup ==
    /\ wait' = wait + 1
    /\ IF wait + 1 <= 0
       THEN wakeup' = wakeup + 1 /\ NotifyOne
       ELSE UNCHANGED <<wakeup, sleeping, notified>>

Spurious(t) ==
    /\ t \in sleeping
    /\ sleeping' = sleeping \ {t}
    /\ notified' = notified \cup {t}
    /\ UNCHANGED <<wait, wakeup>>

SemNext ==
    \/ Wakeup
    \/ \E t \in Threads : Wait(t) \/ Resume(t) \/ Spurious(t)

\* A notified thread is given the mutex and the processor.
SemFairness == \A t \in Threads : WF_semVars(Resume(t))

SemSpec == SemInit /\ [][SemNext]_semVars /\ SemFairness
------------------------------------------------------------------------------
\* The counters never go below what their readers expect.
SemTypeOK ==
    /\ wait \in Int
    /\ wakeup \in Nat
    /\ sleeping \subseteq Threads
    /\ notified \subseteq Threads
    /\ sleeping \cap notified = {}

\* CELLSemaphore.hpp:16,29: the two counters count the threads inside wait()
\* exactly, however waits, wakeups and barging threads interleave: each one is
\* owed a wakeup (_wakeup) or is one the count _wait is short of.
CountersCountWaiters ==
    Cardinality(Waiters) = wakeup + (IF wait < 0 THEN -wait ELSE 0)

\* CELLSemaphore.hpp:31-32: notify_one is called once per wakeup, and a barging
\* wait() may use it up; still every unused _wakeup has a woken thread of its
\* own on the way to it, so none is lost with all the waiters asleep.
NoLostWakeup == wakeup <= Cardinality(notified)

\* The permits of the abstract semaphore: wakeups minus the waits that have
\* returned, whatever the code makes of its counters.
Permits == wait + Cardinality(Waiters)

Abstract == INSTANCE Semaphore WITH permits <- Permits, waiting <- Waiters

\* CELLSemaphore.hpp:13-34 is a counting semaphore: wait() returns only against a
\* wakeup, and a wakeup does not stay unused while a thread waits.
IsSemaphore == Abstract!Spec
==============================================================================

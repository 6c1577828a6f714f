--------------------------- MODULE CELLThreadProofs ---------------------------
(***************************************************************************)
(* CELLSemaphore keeps its counters exact, loses no wakeup, and implements *)
(* the counting semaphore of module Semaphore (its safety part), for any   *)
(* finite set of threads and any number of wakeups.  A CELLThread, which   *)
(* has one, joins its worker in Close and has one worker at a time, for any*)
(* number of controlling threads and of incarnations, until a work function*)
(* stops itself with Exit.                                                 *)
(***************************************************************************)
EXTENDS CELLThread, FiniteSetTheorems, TLAPS

\* The two cardinalities the counters are compared with, bounded together with
\* them: the invariant the three properties rest on.
SemInv == SemTypeOK /\ CountersCountWaiters /\ NoLostWakeup

\* Moving one thread between or out of the two sets changes the cardinalities
\* by one.
LEMMA AddOne ==
    ASSUME NEW S, IsFiniteSet(S), NEW x, x \notin S
    PROVE  /\ IsFiniteSet(S \cup {x})
           /\ Cardinality(S \cup {x}) = Cardinality(S) + 1
           /\ Cardinality(S) \in Nat
  BY FS_AddElement, FS_CardinalityType

\* The same for a thread that is taken out.
LEMMA RemoveOne ==
    ASSUME NEW S, IsFiniteSet(S), NEW x \in S
    PROVE  /\ IsFiniteSet(S \ {x})
           /\ Cardinality(S \ {x}) = Cardinality(S) - 1
           /\ Cardinality(S) \in Nat
           /\ Cardinality(S \ {x}) \in Nat
  BY FS_RemoveElement, FS_CardinalityType

\* The sets of waiting threads are finite, so that they can be counted.
LEMMA FiniteWaiters ==
    ASSUME SemTypeOK
    PROVE  /\ IsFiniteSet(sleeping) /\ IsFiniteSet(notified) /\ IsFiniteSet(Waiters)
           /\ Cardinality(sleeping) \in Nat
           /\ Cardinality(notified) \in Nat
           /\ Cardinality(Waiters) \in Nat
<1>1. Waiters \subseteq Threads
  BY DEF SemTypeOK, Waiters
<1>2. IsFiniteSet(sleeping) /\ IsFiniteSet(notified) /\ IsFiniteSet(Waiters)
  BY <1>1, ThreadsFinite, FS_Subset DEF SemTypeOK
<1>3. QED
  BY <1>2, FS_CardinalityType

\* Nobody waits in the initial state.
LEMMA InitSem == SemInit => SemInv
<1> SUFFICES ASSUME SemInit PROVE SemInv
  OBVIOUS
<1>1. Waiters = {}
  BY DEF SemInit, Waiters
<1>2. QED
  BY <1>1, FS_EmptySet DEF SemInit, SemInv, SemTypeOK, CountersCountWaiters, NoLostWakeup

\* CELLSemaphore.hpp:13-34: every step of wait and wakeup keeps the invariant.
LEMMA NextSem == SemInv /\ [SemNext]_semVars => SemInv'
<1> SUFFICES ASSUME SemInv, [SemNext]_semVars PROVE SemInv'
  OBVIOUS
<1> USE DEF SemInv
<1>f. /\ IsFiniteSet(sleeping) /\ IsFiniteSet(notified) /\ IsFiniteSet(Waiters)
      /\ Cardinality(sleeping) \in Nat
      /\ Cardinality(notified) \in Nat
      /\ Cardinality(Waiters) \in Nat
  BY FiniteWaiters
<1>1. CASE Wakeup
  <2>1. CASE wait + 1 > 0
    <3>1. wait' = wait + 1 /\ UNCHANGED <<wakeup, sleeping, notified>>
      BY <1>1, <2>1 DEF Wakeup, SemTypeOK
    <3>2. Waiters' = Waiters
      BY <3>1 DEF Waiters
    <3>3. QED
      BY <2>1, <3>1, <3>2, <1>f DEF SemTypeOK, CountersCountWaiters, NoLostWakeup
  <2>2. CASE wait + 1 <= 0 /\ sleeping = {}
    <3>1. Waiters = notified
      BY <2>2 DEF Waiters
    <3>2. /\ wait' = wait + 1 /\ wakeup' = wakeup + 1
          /\ sleeping' = sleeping /\ notified' = notified
      BY <1>1, <2>2 DEF Wakeup, NotifyOne, SemTypeOK
    <3>3. Cardinality(notified) = wakeup - wait
      BY <2>2, <3>1 DEF SemTypeOK, CountersCountWaiters
    <3>4. QED
      BY <2>2, <3>1, <3>2, <3>3, <1>f
         DEF SemTypeOK, CountersCountWaiters, NoLostWakeup, Waiters
  <2>3. CASE wait + 1 <= 0 /\ sleeping # {}
    <3>1. PICK t \in sleeping : /\ sleeping' = sleeping \ {t}
                                /\ notified' = notified \cup {t}
      BY <1>1, <2>3 DEF Wakeup, NotifyOne, SemTypeOK
    <3>2. wait' = wait + 1 /\ wakeup' = wakeup + 1
      BY <1>1, <2>3 DEF Wakeup, SemTypeOK
    <3>3. Waiters' = Waiters
      BY <3>1 DEF Waiters
    <3>4. Cardinality(notified') = Cardinality(notified) + 1
      BY <3>1, <1>f, AddOne DEF SemTypeOK
    <3>5. SemTypeOK'
      BY <3>1, <3>2 DEF SemTypeOK
    <3>6. QED
      BY <2>3, <3>2, <3>3, <3>4, <3>5, <1>f
         DEF SemTypeOK, CountersCountWaiters, NoLostWakeup
  <2>4. QED
    BY <2>1, <2>2, <2>3 DEF SemTypeOK
<1>2. ASSUME NEW t \in Threads, Pass(t) PROVE SemInv'
  <2>1. Waiters' = Waiters
    BY <1>2 DEF Pass, Waiters
  <2>2. QED
    BY <1>2, <2>1, <1>f DEF Pass, SemTypeOK, CountersCountWaiters, NoLostWakeup
<1>3. ASSUME NEW t \in Threads, Sleep(t) PROVE SemInv'
  <2>1. Waiters' = Waiters \cup {t} /\ t \notin Waiters
    BY <1>3 DEF Sleep, Waiters
  <2>2. Cardinality(Waiters') = Cardinality(Waiters) + 1
    BY <2>1, <1>f, AddOne
  <2>3. SemTypeOK'
    BY <1>3 DEF Sleep, SemTypeOK, Waiters
  <2>4. QED
    BY <1>3, <2>2, <2>3, <1>f DEF Sleep, SemTypeOK, CountersCountWaiters, NoLostWakeup
<1>4. ASSUME NEW t \in Threads, Return(t) PROVE SemInv'
  <2>1. Waiters' = Waiters \ {t} /\ t \in Waiters
    BY <1>4 DEF Return, Waiters, SemTypeOK
  <2>2. Cardinality(Waiters') = Cardinality(Waiters) - 1
    BY <2>1, <1>f, RemoveOne
  <2>3. Cardinality(notified') = Cardinality(notified) - 1
    BY <1>4, <1>f, RemoveOne DEF Return
  <2>4. SemTypeOK'
    BY <1>4 DEF Return, SemTypeOK
  <2>5. QED
    BY <1>4, <2>2, <2>3, <2>4, <1>f
       DEF Return, SemTypeOK, CountersCountWaiters, NoLostWakeup
<1>5. ASSUME NEW t \in Threads, SleepAgain(t) PROVE SemInv'
  <2>1. Waiters' = Waiters
    BY <1>5 DEF SleepAgain, Waiters
  <2>2. SemTypeOK'
    BY <1>5 DEF SleepAgain, SemTypeOK
  <2>3. wakeup' = 0 /\ wakeup = 0 /\ wait' = wait
    BY <1>5 DEF SleepAgain, SemTypeOK
  <2>4. Cardinality(notified)' \in Nat
    BY <1>5, <1>f, RemoveOne DEF SleepAgain
  <2>5. QED
    BY <2>1, <2>2, <2>3, <2>4 DEF CountersCountWaiters, NoLostWakeup
<1>6. ASSUME NEW t \in Threads, Spurious(t) PROVE SemInv'
  <2>1. Waiters' = Waiters
    BY <1>6 DEF Spurious, Waiters
  <2>2. SemTypeOK'
    BY <1>6 DEF Spurious, SemTypeOK
  <2>3. Cardinality(notified)' = Cardinality(notified) + 1
    BY <1>6, <1>f, AddOne DEF Spurious, SemTypeOK
  <2>4. QED
    BY <1>6, <2>1, <2>2, <2>3, <1>f
       DEF Spurious, SemTypeOK, CountersCountWaiters, NoLostWakeup
<1>7. CASE UNCHANGED semVars
  BY <1>7 DEF semVars, SemTypeOK, CountersCountWaiters, NoLostWakeup, Waiters
<1>8. QED
  BY <1>1, <1>2, <1>3, <1>4, <1>5, <1>6, <1>7 DEF SemNext, Wait, Resume

\* CELLSemaphore.hpp:13-34: the types, the count of the waiters and the woken
\* thread behind every unused wakeup hold in every reachable state.
THEOREM SemaphoreInvariant ==
    SemSpec => [](SemTypeOK /\ CountersCountWaiters /\ NoLostWakeup)
<1>1. SemInv => SemTypeOK /\ CountersCountWaiters /\ NoLostWakeup
  BY DEF SemInv
<1>2. QED
  BY <1>1, InitSem, NextSem, PTL DEF SemSpec

\* In the invariant's states the permits are what the counters say: the wakeups
\* given to a waiter, and those nobody waits for.
CountedPermits == wakeup + (IF wait > 0 THEN wait ELSE 0)

LEMMA PermitsCounted == SemInv => Permits = CountedPermits
  BY DEF SemInv, SemTypeOK, CountersCountWaiters, Permits, CountedPermits

\* The same after a step.
LEMMA PermitsCountedNext == SemInv' => Permits' = CountedPermits'
  BY DEF SemInv, SemTypeOK, CountersCountWaiters, Permits, CountedPermits

\* The initial state of the counters is that of a semaphore without permits.
LEMMA SemMapsInit == SemInit => Abstract!Init
  BY InitSem, PermitsCounted DEF SemInit, Abstract!Init, CountedPermits, Waiters

\* CELLSemaphore.hpp:13-34: every step is a step of the counting semaphore, or none.
LEMMA SemMapsNext == SemInv /\ [SemNext]_semVars => [Abstract!Next]_(Abstract!vars)
<1> SUFFICES ASSUME SemInv, [SemNext]_semVars
             PROVE  [Abstract!Next]_(Abstract!vars)
  OBVIOUS
<1>0. /\ SemTypeOK
      /\ Permits = CountedPermits
      /\ Permits' = CountedPermits'
  BY NextSem, PermitsCounted, PermitsCountedNext DEF SemInv
<1>1. CASE Wakeup
  <2>1. Permits' = Permits + 1
    BY <1>0, <1>1 DEF Wakeup, CountedPermits, SemTypeOK
  <2>2. Waiters' = Waiters
    BY <1>0, <1>1 DEF Wakeup, NotifyOne, Waiters, SemTypeOK
  <2>3. QED
    BY <2>1, <2>2 DEF Abstract!Next, Abstract!Signal
<1>2. ASSUME NEW t \in Threads, Pass(t) PROVE Abstract!Take(t)
  BY <1>0, <1>2 DEF Pass, SemTypeOK, Abstract!Take, CountedPermits, Waiters
<1>3. ASSUME NEW t \in Threads, Sleep(t) PROVE Abstract!Block(t)
  BY <1>0, <1>3 DEF Sleep, SemTypeOK, Abstract!Block, CountedPermits, Waiters
<1>4. ASSUME NEW t \in Threads, Return(t) PROVE Abstract!Resume(t)
  BY <1>0, <1>4 DEF Return, SemTypeOK, Abstract!Resume, CountedPermits, Waiters
<1>5. ASSUME NEW t \in Threads, SleepAgain(t) \/ Spurious(t)
      PROVE  UNCHANGED Abstract!vars
  BY <1>0, <1>5 DEF SleepAgain, Spurious, Abstract!vars, CountedPermits, Waiters
<1>6. CASE UNCHANGED semVars
  BY <1>0, <1>6 DEF semVars, Abstract!vars, CountedPermits, Waiters
<1>7. QED
  BY <1>1, <1>2, <1>3, <1>4, <1>5, <1>6 DEF SemNext, Wait, Resume, Abstract!Next

\* CELLSemaphore.hpp:13-34 implements the counting semaphore: the safety part of
\* IsSemaphore (its fairness stays with the model checker).
THEOREM SemaphoreRefines == SemSpec => Abstract!SafetySpec
  BY SemMapsInit, SemMapsNext, InitSem, NextSem, PTL DEF SemSpec, Abstract!SafetySpec

------------------------------------------------------------------------------
SemAt(n, k) == wait = n /\ wakeup = k

\* Who holds the mutex decides how the flag, the worker and the semaphore are
\* related:
\*   nobody       flag up and one worker at work, or flag down and no worker;
\*                the semaphore is back to zero
\*   c, not yet in _sem.wait()    the worker is on its way out, or has signalled
\*   c, blocked in _sem.wait()    the same, one wait later
Joined ==
    \/ /\ mutex = Nobody
       /\ SemAt(0, 0)
       /\ IF isRun THEN \E w \in Workers : Live = {w} /\ worker[w] \in {"run", "exit"}
                   ELSE Live = {}
    \/ /\ mutex # Nobody /\ caller[mutex] = "wait" /\ ~isRun
       /\ \/ (\E w \in Workers : Live = {w}) /\ SemAt(0, 0)
          \/ Live = {} /\ SemAt(1, 0)
    \/ /\ mutex # Nobody /\ caller[mutex] = "blocked" /\ ~isRun
       /\ \/ (\E w \in Workers : Live = {w}) /\ SemAt(-1, 0)
          \/ Live = {} /\ SemAt(0, 1)

ThreadInv == TypeOK /\ (~exited => Joined)

\* A free mutex is held by no controller.
LEMMA NobodyIsNoController == \A c \in Threads : c # Nobody
  BY ThreadConstants

\* How a worker's step from one place to another changes the set of live workers.
LEMMA StepKeepsLive ==
    ASSUME TypeOK, NEW w \in Workers, NEW from, NEW to, Goto(w, from, to),
           from \notin {"unborn", "done"}, to \notin {"unborn", "done"}
    PROVE  Live' = Live /\ w \in Live
  BY DEF TypeOK, Goto, Live

\* The init state and every step of the thread keep the state well formed.
LEMMA InitInv == Init => ThreadInv
<1> SUFFICES ASSUME Init PROVE ThreadInv
  OBVIOUS
<1>1. TypeOK
  <2>1. SemTypeOK /\ Waiters = {}
    BY DEF Init, SemInit, SemTypeOK, Waiters
  <2>2. /\ caller \in [Threads -> CallerStates]
        /\ worker \in [Workers -> WorkerStates]
        /\ \A c \in Threads : caller[c] = "out"
    BY DEF Init, CallerStates, WorkerStates
  <2>3. QED
    BY <2>1, <2>2, NobodyIsNoController DEF Init, TypeOK
<1>2. Live = {}
  BY DEF Init, Live
<1>3. QED
  BY <1>1, <1>2 DEF Init, ThreadInv, Joined, SemAt, SemInit

\* CELLThread.hpp:12-74: every step keeps the state well formed.
LEMMA TypeStep == TypeOK /\ [Next]_threadVars => TypeOK'
<1> SUFFICES ASSUME TypeOK, [Next]_threadVars PROVE TypeOK'
  OBVIOUS
<1> USE NobodyIsNoController
    DEF TypeOK, CallerStates, WorkerStates, SemTypeOK, Waiters, semUnchanged, semVars
<1>1. ASSUME NEW c \in Threads, NEW w \in Workers, Start(c, w) PROVE TypeOK'
  BY <1>1 DEF Start
<1>2. ASSUME NEW c \in Threads, CallClose(c) PROVE TypeOK'
  BY <1>2 DEF CallClose
<1>3. ASSUME NEW c \in Threads, LockClose(c) PROVE TypeOK'
  BY <1>3, ZenonT(60) DEF LockClose
<1>4. ASSUME NEW c \in Threads, SemWait(c) PROVE TypeOK'
  <2>1. CASE Pass(c) /\ LeaveClose(c)
    BY <1>4, <2>1 DEF SemWait, Pass, LeaveClose
  <2>2. CASE Sleep(c) /\ caller' = [caller EXCEPT ![c] = "blocked"] /\ UNCHANGED mutex
    BY <1>4, <2>2 DEF SemWait, Sleep
  <2>3. QED
    BY <1>4, <2>1, <2>2 DEF SemWait
<1>5. ASSUME NEW c \in Threads, SemResume(c) PROVE TypeOK'
  <2>1. CASE Return(c) /\ LeaveClose(c)
    BY <1>5, <2>1 DEF SemResume, Return, LeaveClose
  <2>2. CASE SleepAgain(c) /\ UNCHANGED <<caller, mutex>>
    BY <1>5, <2>2 DEF SemResume, SleepAgain
  <2>3. QED
    BY <1>5, <2>1, <2>2 DEF SemResume
<1>6. ASSUME NEW c \in Threads, SemSpurious(c) PROVE TypeOK'
  BY <1>6 DEF SemSpurious, Spurious
<1>7. ASSUME NEW w \in Workers, CallExit(w) PROVE TypeOK'
  BY <1>7 DEF CallExit, Goto
<1>8. ASSUME NEW w \in Workers, SeeStop(w) PROVE TypeOK'
  BY <1>8 DEF SeeStop, Goto
<1>9. ASSUME NEW w \in Workers, LockExit(w) PROVE TypeOK'
  BY <1>9 DEF LockExit, Goto
<1>10. ASSUME NEW w \in Workers, ReturnRun(w) PROVE TypeOK'
  BY <1>10 DEF ReturnRun, Goto
<1>11. ASSUME NEW w \in Workers, Destroy(w) PROVE TypeOK'
  BY <1>11 DEF Destroy, Goto
<1>12. ASSUME NEW w \in Workers, SemWakeup(w) PROVE TypeOK'
  <2>1. /\ worker' \in [Workers -> WorkerStates]
        /\ UNCHANGED <<isRun, mutex, caller, exited>>
    BY <1>12 DEF SemWakeup, Goto
  <2>2. SemTypeOK' /\ Waiters' = Waiters
    BY <1>12 DEF SemWakeup, Wakeup, NotifyOne
  <2>3. QED
    BY <2>1, <2>2
<1>13. CASE UNCHANGED threadVars
  BY <1>13 DEF threadVars
<1>14. QED
  BY <1>1, <1>2, <1>3, <1>4, <1>5, <1>6, <1>7, <1>8, <1>9, <1>10, <1>11, <1>12, <1>13
     DEF Next, ControllerStep, WorkerStep

\* CELLThread.hpp:36-44,73: before an Exit every step keeps the worker, the flag, the
\* mutex and the semaphore in agreement.
LEMMA JoinedStep == ThreadInv /\ [Next]_threadVars /\ ~exited' => Joined'
<1> SUFFICES ASSUME ThreadInv, [Next]_threadVars, ~exited' PROVE Joined'
  OBVIOUS
<1>ty. TypeOK
  BY DEF ThreadInv
<1>ex. ~exited
  <2>1. CASE UNCHANGED threadVars
    BY <2>1 DEF threadVars
  <2>2. CASE Next
    BY <2>2, <1>ty
       DEF TypeOK, Next, ControllerStep, WorkerStep, Start, CallClose, LockClose, SemWait,
           SemResume, SemSpurious, CallExit, SeeStop, LockExit, ReturnRun, Destroy, SemWakeup
  <2>3. QED
    BY <2>1, <2>2
<1>jo. Joined
  BY <1>ex DEF ThreadInv
<1> USE NobodyIsNoController
<1>1. ASSUME NEW c \in Threads, NEW w \in Workers, Start(c, w) PROVE Joined'
  <2>1. Live = {} /\ mutex = Nobody /\ SemAt(0, 0)
    BY <1>1, <1>jo DEF Start, Joined
  <2>2. Live' = {w} /\ worker'[w] = "run"
    BY <1>1, <1>ty, <2>1 DEF Start, Live, TypeOK
  <2>3. QED
    BY <1>1, <2>1, <2>2 DEF Start, Joined, SemAt, semUnchanged, semVars
<1>2. ASSUME NEW c \in Threads, CallClose(c) PROVE Joined'
  <2>1. Live' = Live
    BY <1>2 DEF CallClose, Live
  <2>2. mutex # Nobody => caller'[mutex] = caller[mutex]
    BY <1>2, <1>ty DEF CallClose, TypeOK
  <2>3. QED
    BY <1>2, <1>jo, <2>1, <2>2 DEF CallClose, Joined, SemAt, semUnchanged, semVars
<1>3. ASSUME NEW c \in Threads, LockClose(c) PROVE Joined'
  <2>1. Live' = Live
    BY <1>3 DEF LockClose, Live
  <2>2. CASE ~isRun
    BY <1>3, <1>jo, <2>1, <2>2 DEF LockClose, Joined, SemAt, semUnchanged, semVars
  <2>3. CASE isRun
    <3>1. (\E w \in Workers : Live = {w}) /\ SemAt(0, 0)
      BY <1>3, <1>jo, <2>3 DEF LockClose, Joined
    <3>2. mutex' = c /\ caller'[c] = "wait" /\ ~isRun'
      BY <1>3, <1>ty, <2>3 DEF LockClose, TypeOK
    <3>3. QED
      BY <1>3, <2>1, <3>1, <3>2 DEF LockClose, Joined, SemAt, semUnchanged, semVars
  <2>4. QED
    BY <2>2, <2>3
<1>4. ASSUME NEW c \in Threads, SemWait(c) PROVE Joined'
  <2>1. Live' = Live
    BY <1>4 DEF SemWait, Live
  <2>2. mutex = c /\ caller[mutex] = "wait" /\ ~isRun
    BY <1>4, <1>ty, <1>jo DEF SemWait, TypeOK, Joined
  <2>3. CASE Live = {} /\ SemAt(1, 0)
    <3>1. Pass(c) /\ LeaveClose(c)
      BY <1>4, <2>3 DEF SemWait, Sleep, SemAt
    <3>2. SemAt(0, 0)'
      BY <2>3, <3>1 DEF Pass, SemAt
    <3>3. QED
      BY <1>4, <2>1, <2>2, <2>3, <3>1, <3>2 DEF SemWait, LeaveClose, Joined
  <2>4. CASE (\E w \in Workers : Live = {w}) /\ SemAt(0, 0)
    <3>1. Sleep(c) /\ caller' = [caller EXCEPT ![c] = "blocked"] /\ mutex' = mutex
      BY <1>4, <2>4 DEF SemWait, Pass, SemAt
    <3>2. SemAt(-1, 0)'
      BY <2>4, <3>1 DEF Sleep, SemAt
    <3>3. caller'[c] = "blocked"
      BY <3>1, <1>ty DEF TypeOK
    <3>4. QED
      BY <1>4, <2>1, <2>2, <2>4, <3>1, <3>2, <3>3 DEF SemWait, Joined
  <2>5. QED
    BY <2>2, <2>3, <2>4, <1>jo DEF Joined
<1>5. ASSUME NEW c \in Threads, SemResume(c) PROVE Joined'
  <2>1. Live' = Live
    BY <1>5 DEF SemResume, Live
  <2>2. mutex = c /\ caller[mutex] = "blocked" /\ ~isRun
    BY <1>5, <1>ty, <1>jo DEF SemResume, TypeOK, Joined
  <2>3. CASE Return(c) /\ LeaveClose(c)
    <3>1. Live = {} /\ SemAt(0, 1)
      BY <2>2, <2>3, <1>jo DEF Joined, Return, SemAt
    <3>2. SemAt(0, 0)'
      BY <2>3, <3>1 DEF Return, SemAt
    <3>3. QED
      BY <1>5, <2>1, <2>2, <2>3, <3>1, <3>2 DEF SemResume, LeaveClose, Joined
  <2>4. CASE SleepAgain(c) /\ UNCHANGED <<caller, mutex>>
    BY <1>5, <1>jo, <2>1, <2>2, <2>4 DEF SemResume, SleepAgain, Joined, SemAt
  <2>5. QED
    BY <1>5, <2>3, <2>4 DEF SemResume
<1>6. ASSUME NEW c \in Threads, SemSpurious(c) PROVE Joined'
  <2>1. Live' = Live
    BY <1>6 DEF SemSpurious, Live
  <2>2. QED
    BY <1>6, <1>jo, <2>1 DEF SemSpurious, Spurious, Joined, SemAt
<1>7. ASSUME NEW w \in Workers, CallExit(w) PROVE Joined'
  <2>1. Live' = Live /\ w \in Live
    BY <1>7, <1>ty, StepKeepsLive DEF CallExit
  <2>2. worker'[w] = "exit"
    BY <1>7, <1>ty DEF CallExit, Goto, TypeOK
  <2>3. \A v \in Workers : Live = {v} => v = w
    BY <2>1
  <2>4. QED
    BY <1>7, <1>jo, <2>1, <2>2, <2>3 DEF CallExit, Joined, SemAt, semUnchanged, semVars
<1>8. ASSUME NEW w \in Workers, SeeStop(w) PROVE Joined'
  <2>1. Live' = Live /\ w \in Live
    BY <1>8, <1>ty, StepKeepsLive DEF SeeStop
  <2>2. QED
    BY <1>8, <1>jo, <2>1 DEF SeeStop, Joined, SemAt, semUnchanged, semVars
<1>9. ASSUME NEW w \in Workers, LockExit(w) PROVE Joined'
  <2>1. w \in Live
    BY <1>9, <1>ty, StepKeepsLive DEF LockExit
  <2>2. ~isRun /\ mutex = Nobody
    BY <1>9 DEF LockExit
  <2>3. QED
    BY <2>1, <2>2, <1>jo DEF Joined
<1>10. ASSUME NEW w \in Workers, ReturnRun(w) \/ Destroy(w) PROVE Joined'
  <2>1. Live' = Live /\ w \in Live
    BY <1>10, <1>ty, StepKeepsLive DEF ReturnRun, Destroy
  <2>2. worker[w] \notin {"run", "exit"}
    BY <1>10 DEF ReturnRun, Destroy, Goto
  <2>3. mutex # Nobody
    BY <2>1, <2>2, <1>jo DEF Joined
  <2>4. QED
    BY <1>10, <1>jo, <2>1, <2>3 DEF ReturnRun, Destroy, Joined, SemAt, semUnchanged, semVars
<1>11. ASSUME NEW w \in Workers, SemWakeup(w) PROVE Joined'
  <2>1. w \in Live /\ worker[w] = "wakeup"
    BY <1>11 DEF SemWakeup, Goto, Live
  <2>2. \A v \in Workers : Live = {v} => v = w
    BY <2>1
  <2>3. Live' = Live \ {w}
    BY <1>11, <1>ty DEF SemWakeup, Goto, Live, TypeOK
  <2>4. mutex # Nobody /\ ~isRun /\ Live = {w}
    BY <2>1, <2>2, <1>jo DEF Joined
  <2>5. Live' = {}
    BY <2>3, <2>4
  <2>6. CASE caller[mutex] = "wait"
    <3>1. SemAt(0, 0)
      BY <2>4, <2>6, <1>jo DEF Joined
    <3>2. SemAt(1, 0)'
      BY <1>11, <3>1 DEF SemWakeup, Wakeup, SemAt
    <3>3. QED
      BY <1>11, <2>4, <2>5, <2>6, <3>2 DEF SemWakeup, Joined
  <2>7. CASE caller[mutex] = "blocked"
    <3>1. SemAt(-1, 0)
      BY <2>4, <2>7, <1>jo DEF Joined
    <3>2. SemAt(0, 1)'
      BY <1>11, <3>1 DEF SemWakeup, Wakeup, SemAt
    <3>3. QED
      BY <1>11, <2>4, <2>5, <2>7, <3>2 DEF SemWakeup, Joined
  <2>8. QED
    BY <2>4, <2>6, <2>7, <1>jo DEF Joined
<1>12. CASE UNCHANGED threadVars
  BY <1>12, <1>jo DEF threadVars, semVars, Joined, SemAt, Live
<1>13. QED
  BY <1>1, <1>2, <1>3, <1>4, <1>5, <1>6, <1>7, <1>8, <1>9, <1>10, <1>11, <1>12
     DEF Next, ControllerStep, WorkerStep

\* The three facts behind the invariant, put together.
THEOREM ThreadInvariant == Spec => []ThreadInv
<1>1. ThreadInv /\ [Next]_threadVars => ThreadInv'
  BY TypeStep, JoinedStep DEF ThreadInv
<1>2. QED
  BY InitInv, <1>1, PTL DEF Spec

\* CELLThread.hpp:12-74: the state stays well formed, and only a Close that waits
\* for the worker keeps the mutex.
THEOREM ThreadType == Spec => []TypeOK
  BY ThreadInvariant, PTL DEF ThreadInv

\* CELLThread.hpp:18-31: never two workers at a time before an Exit.
THEOREM ThreadOneWorker == Spec => []OneWorker
<1>1. ThreadInv => OneWorker
  BY DEF ThreadInv, Joined, OneWorker
<1>2. QED
  BY <1>1, ThreadInvariant, PTL

\* CELLThread.hpp:42,73: no wakeup is left for a later Close before an Exit.
THEOREM ThreadNoStaleWakeup == Spec => []NoStaleWakeup
<1>1. ThreadInv => NoStaleWakeup
  BY NobodyIsNoController DEF ThreadInv, TypeOK, Joined, SemAt, NoStaleWakeup
<1>2. QED
  BY <1>1, ThreadInvariant, PTL

\* CELLThread.hpp:42,73: the thread takes only the steps of its semaphore that module
\* CELLSemaphore describes: a Close waits and a worker wakes.
LEMMA ThreadTakesSem == [Next]_threadVars => [SemNext]_semVars
<1>1. CASE Next
  <2>1. ASSUME NEW c \in Threads, SemWait(c) \/ SemResume(c) \/ SemSpurious(c) PROVE SemNext
    BY <2>1 DEF SemWait, SemResume, SemSpurious, Wait, Resume, SemNext
  <2>2. ASSUME NEW w \in Workers, SemWakeup(w) PROVE SemNext
    BY <2>2 DEF SemWakeup, SemNext
  <2>3. ASSUME NEW c \in Threads,
               CallClose(c) \/ LockClose(c) \/ \E w \in Workers : Start(c, w)
        PROVE  UNCHANGED semVars
    BY <2>3 DEF CallClose, LockClose, Start, semUnchanged
  <2>4. ASSUME NEW w \in Workers,
               CallExit(w) \/ SeeStop(w) \/ LockExit(w) \/ ReturnRun(w) \/ Destroy(w)
        PROVE  UNCHANGED semVars
    BY <2>4 DEF CallExit, SeeStop, LockExit, ReturnRun, Destroy, semUnchanged
  <2>5. QED
    BY <1>1, <2>1, <2>2, <2>3, <2>4 DEF Next, ControllerStep, WorkerStep
<1>2. CASE UNCHANGED threadVars
  BY <1>2 DEF threadVars
<1>3. QED
  BY <1>1, <1>2

\* CELLThread.hpp:36-44,73 with CELLSemaphore.hpp:13-34: what the Close of a thread and its
\* worker have between them is a counting semaphore; each Close that waits returns only
\* against a wakeup, and no wakeup is lost, also after an Exit.
THEOREM ThreadSemaphore == Spec => Abstract!SafetySpec /\ []NoLostWakeup
<1>1. Init => SemInit
  BY DEF Init
<1>2. SemInv => NoLostWakeup
  BY DEF SemInv
<1>3. QED
  BY <1>1, <1>2, ThreadTakesSem, InitSem, NextSem, SemMapsInit, SemMapsNext, PTL
     DEF Spec, Abstract!SafetySpec

\* CELLThread.hpp:36-44: Close returns from its wait only when no worker is left,
\* before an Exit.
THEOREM ThreadCloseJoins == Spec => CloseJoins
<1> DEFINE Joins ==
        \A c \in Threads :
          caller[c] \in {"wait", "blocked"} /\ caller'[c] = "out" /\ ~exited
             => Live = {}
<1>1. ThreadInv /\ [Next]_threadVars => [Joins]_threadVars
  <2> SUFFICES ASSUME ThreadInv, Next, NEW c \in Threads,
                      caller[c] \in {"wait", "blocked"}, caller'[c] = "out", ~exited
               PROVE  Live = {}
    BY DEF threadVars
  <2>1. TypeOK /\ Joined /\ mutex = c
    BY DEF ThreadInv, TypeOK
  <2>2. PICK d \in Threads : SemWait(d) \/ SemResume(d)
    BY <2>1 DEF Next, ControllerStep, WorkerStep, Start, CallClose, LockClose, SemSpurious,
                CallExit, SeeStop, LockExit, ReturnRun, Destroy, SemWakeup, TypeOK
  <2>3. d = c
    BY <2>1, <2>2 DEF SemWait, SemResume, TypeOK
  <2>4. CASE SemWait(d)
    <3>1. SemWait(c) /\ Pass(c)
      BY <2>1, <2>3, <2>4 DEF SemWait, TypeOK
    <3>2. QED
      BY <2>1, <3>1, NobodyIsNoController DEF Joined, SemWait, Pass, SemAt
  <2>5. CASE SemResume(d)
    <3>1. SemResume(c) /\ Return(c)
      BY <2>1, <2>3, <2>5 DEF SemResume, TypeOK
    <3>2. QED
      BY <2>1, <3>1, NobodyIsNoController DEF Joined, SemResume, Return, SemAt
  <2>6. QED
    BY <2>2, <2>4, <2>5
<1>2. QED
  BY <1>1, ThreadInvariant, PTL DEF Spec, CloseJoins
==============================================================================

------------------------------ MODULE Semaphore ------------------------------
(***************************************************************************)
(* What a counting semaphore promises.  A wakeup is a permit; a call of    *)
(* wait() takes one, at once when there is one and later when there is     *)
(* none.  Nothing is said of the order in which waiting threads pass.      *)
(*                                                                         *)
(* CELLSemaphore implements this specification with two counters, a mutex  *)
(* and a condition variable.                                               *)
(***************************************************************************)
EXTENDS Naturals

CONSTANT Threads        \* the threads that may call wait()

VARIABLES permits,      \* wakeups nobody has used yet
          waiting       \* the threads inside wait()

vars == <<permits, waiting>>

Init == permits = 0 /\ waiting = {}

\* wait() finds a permit and returns at once.
Take(t) ==
    /\ t \notin waiting
    /\ permits > 0
    /\ permits' = permits - 1
    /\ UNCHANGED waiting

\* wait() finds no permit and blocks.
Block(t) ==
    /\ t \notin waiting
    /\ permits = 0
    /\ waiting' = waiting \cup {t}
    /\ UNCHANGED permits

\* A blocked wait() takes a permit and returns.
Resume(t) ==
    /\ t \in waiting
    /\ permits > 0
    /\ permits' = permits - 1
    /\ waiting' = waiting \ {t}

Signal ==
    /\ permits' = permits + 1
    /\ UNCHANGED waiting

Next == \/ Signal
        \/ \E t \in Threads : Take(t) \/ Block(t) \/ Resume(t)

SafetySpec == Init /\ [][Next]_vars

\* A permit is not left lying about while a thread waits for one.
Spec == SafetySpec /\ WF_vars(\E t \in Threads : Resume(t))
==============================================================================

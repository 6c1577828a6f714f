----------------------------- MODULE MCSemaphore -----------------------------
(***************************************************************************)
(* CELLSemaphore on a few threads.  MaxWait bounds the wakeups nobody waits*)
(* for, the only unbounded counter.                                        *)
(***************************************************************************)
EXTENDS CELLSemaphore, TLC

CONSTANT MaxWait

MCNext ==
    \/ wait < MaxWait /\ Wakeup
    \/ \E t \in Threads : Wait(t) \/ Resume(t) \/ Spurious(t)

MCSpec == SemInit /\ [][MCNext]_semVars /\ SemFairness
==============================================================================

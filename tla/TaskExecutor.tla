----------------------------- MODULE TaskExecutor -----------------------------
(***************************************************************************)
(* What a task server promises: tasks run one at a time, each once, in the *)
(* order they were added, and the executor stops only when none is left.   *)
(* A task added to an executor that is not started, or that has stopped,   *)
(* just stays in the queue.                                                *)
(***************************************************************************)
EXTENDS Sequences, Naturals

CONSTANT Tasks

VARIABLES queue,        \* tasks added and not yet run
          done,         \* tasks that have run, in order
          phase         \* "idle", "running" or "stopped"

vars == <<queue, done, phase>>

Init == queue = <<>> /\ done = <<>> /\ phase = "idle"

Add(t) ==
    /\ queue' = Append(queue, t)
    /\ UNCHANGED <<done, phase>>

Begin ==
    /\ phase = "idle"
    /\ phase' = "running"
    /\ UNCHANGED <<queue, done>>

Run ==
    /\ phase = "running"
    /\ queue # <<>>
    /\ done' = Append(done, Head(queue))
    /\ queue' = Tail(queue)
    /\ UNCHANGED phase

Stop ==
    /\ phase = "running"
    /\ queue = <<>>
    /\ phase' = "stopped"
    /\ UNCHANGED <<queue, done>>

Next == Begin \/ Run \/ Stop \/ \E t \in Tasks : Add(t)

SafetySpec == Init /\ [][Next]_vars

Spec == SafetySpec /\ WF_vars(Run)
===============================================================================

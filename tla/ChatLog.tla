------------------------------- MODULE ChatLog -------------------------------
(***************************************************************************)
(* What a chat room promises: one log of messages, and readers that see a  *)
(* stretch of it, in its order and without a gap.  The stretch begins with *)
(* the last MaxRecent messages before the reader entered and ends with the *)
(* last one before it left; a reader that stays sees everything.           *)
(***************************************************************************)
EXTENDS Sequences, Integers

CONSTANTS Readers, Messages, MaxRecent

VARIABLES log,          \* the messages of the room
          status,       \* "out", "in" or "left", for each reader
          from,         \* where in the log each reader's stretch begins
          last,         \* and where it ends, so far
          seen,         \* what each reader has seen
          open          \* whether the room exists

vars == <<log, status, from, last, seen, open>>

Init ==
    /\ log = <<>>
    /\ status = [r \in Readers |-> "out"]
    /\ from = [r \in Readers |-> 0]
    /\ last = [r \in Readers |-> 0]
    /\ seen = [r \in Readers |-> <<>>]
    /\ open = TRUE

Enter(r) ==
    /\ open /\ status[r] = "out"
    /\ status' = [status EXCEPT ![r] = "in"]
    /\ from' = [from EXCEPT ![r] = IF Len(log) > MaxRecent THEN Len(log) - MaxRecent ELSE 0]
    /\ last' = [last EXCEPT ![r] = Len(log)]
    /\ UNCHANGED <<log, seen, open>>

\* The room may cease to exist with a message.
Say(m) ==
    /\ open
    /\ log' = Append(log, m)
    /\ last' = [r \in Readers |-> IF status[r] = "in" THEN Len(log) + 1 ELSE last[r]]
    /\ open' \in BOOLEAN
    /\ UNCHANGED <<status, from, seen>>

See(r) ==
    /\ open
    /\ from[r] + Len(seen[r]) < last[r]
    /\ seen' = [seen EXCEPT ![r] = Append(@, log[from[r] + Len(@) + 1])]
    /\ UNCHANGED <<log, status, from, last, open>>

Leave(r) ==
    /\ open /\ status[r] = "in"
    /\ status' = [status EXCEPT ![r] = "left"]
    /\ UNCHANGED <<log, from, last, seen, open>>

End ==
    /\ open
    /\ open' = FALSE
    /\ UNCHANGED <<log, status, from, last, seen>>

Next ==
    \/ \E r \in Readers : Enter(r) \/ See(r) \/ Leave(r)
    \/ \E m \in Messages : Say(m)
    \/ End

SafetySpec == Init /\ [][Next]_vars

\* A reader that stays is not left behind.
Spec == SafetySpec /\ \A r \in Readers : WF_vars(status[r] = "in" /\ See(r))
==============================================================================

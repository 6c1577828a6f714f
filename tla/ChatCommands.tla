----------------------------- MODULE ChatCommands -----------------------------
(***************************************************************************)
(* The commands of the chat server (new_server.cpp), which a thread of     *)
(* their own carries out on the documents the sessions store.  A document  *)
(* has the ip of the session (here: the session) and the content (here:    *)
(* the number) of a message.  delete_many and update_many are taken to be  *)
(* one step each; what is deleted leaves its place empty.  Waiting for     *)
(* what is typed, query and a command that finds nothing change nothing.   *)
(***************************************************************************)
EXTENDS ChatRoom, SequencesExt, TLC

CONSTANTS All,          \* the filter every document matches
          Gone,         \* in the place of a document that has been deleted
          MaxCommands   \* bound: commands typed

VARIABLES named,       \* history: ips, contents, and All that commands have named
          commands     \* number of commands

commandVars == <<named, commands>>

CommandInit == named = {} /\ commands \in 0 .. MaxCommands

Contents == 1 .. MaxMessages
Filters == {All} \cup Sessions \cup Contents

Matches(m, f) == m # Gone /\ (f = All \/ m[1] = f \/ m[2] = f)

\* A command with the filter f, and with a new value.
Named(f, new) ==
    /\ \E i \in DOMAIN stored : Matches(stored[i], f)
    /\ named' = named \cup {f} \cup new
    /\ commands < MaxCommands /\ commands' = commands + 1

\* delDate: everything, or what has an ip, or a content.
delDate(f) ==
    /\ stored' = [i \in DOMAIN stored |-> IF Matches(stored[i], f) THEN Gone ELSE stored[i]]
    /\ Named(f, {})

\* Mutant of Changed: the filter is left out.
ChangedAll(m, f, field, new) == IF m # Gone THEN [m EXCEPT ![field] = new] ELSE m

Changed(m, f, field, new) == IF Matches(m, f) THEN [m EXCEPT ![field] = new] ELSE m

\* update: what has an ip, or a content, gets another ip, or another content.
update(f, field, new) ==
    /\ f # All
    /\ stored' = [i \in DOMAIN stored |-> Changed(stored[i], f, field, new)]
    /\ Named(f, {new})

handle_command ==
    /\ running
    /\ \/ \E f \in Filters : delDate(f)
       \/ \E f \in Filters, ip \in Sessions : update(f, 1, ip)
       \/ \E f \in Filters, content \in Contents : update(f, 2, content)
    /\ UNCHANGED <<participants, recent, reading, queue, writing, running, up, failed, sent, log,
                   start, got>>

------------------------------------------------------------------------------
\* new_server.cpp:124-144,205-265,316-430: whatever commands run beside the sessions,
\* the database has every message the room was told, once and in that order, but
\* for those whose ip or content a command has named, and for the last one, when the
\* program has ended before that was stored.
StoredUnlessNamed ==
    LET Unnamed(m) == m # Gone /\ \A f \in named : ~Matches(m, f)
    IN  /\ \A i \in DOMAIN log : Unnamed(log[i]) =>
              \/ i \in DOMAIN stored /\ stored[i] = log[i]
              \/ ~running /\ i = Len(log)
        /\ \A i \in DOMAIN stored : Unnamed(stored[i]) => i \in DOMAIN log /\ stored[i] = log[i]
===============================================================================

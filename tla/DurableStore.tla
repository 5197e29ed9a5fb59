---------------------------- MODULE DurableStore ----------------------------
(***************************************************************************)
(* What a zega database promises the program that writes to it, stated     *)
(* without files, threads or locks (README.md "How persistence works"):    *)
(* an acknowledged write is found by every later open, a write that was    *)
(* refused for good is found by none, and a write whose outcome nobody was *)
(* told may go either way.  Wal implements it (ImplementsStore).            *)
(***************************************************************************)
EXTENDS Naturals

CONSTANT Writes     \* the statements clients may submit

VARIABLES
  up,       \* the database is open
  memory,   \* the writes the open graph holds
  acked,    \* the writes that returned Ok
  refused,  \* the writes whose error says that nothing of them is left
  doubt     \* the writes in flight, and those that ended without such an answer

vars == <<up, memory, acked, refused, doubt>>

TypeOK ==
  /\ up \in BOOLEAN
  /\ memory \subseteq Writes
  /\ acked \subseteq Writes
  /\ refused \subseteq Writes
  /\ doubt \subseteq Writes

Init ==
  /\ up = TRUE
  /\ memory = {}
  /\ acked = {}
  /\ refused = {}
  /\ doubt = {}

\* A client submits a write; until it is answered it is in doubt.
Submit(i) ==
  /\ up
  /\ i \notin acked \cup refused \cup doubt
  /\ doubt' = doubt \cup {i}
  /\ UNCHANGED <<up, memory, acked, refused>>

\* The write returns Ok, and the graph holds it.
Accept(i) ==
  /\ up
  /\ i \in doubt
  /\ doubt' = doubt \ {i}
  /\ acked' = acked \cup {i}
  /\ memory' = memory \cup {i}
  /\ UNCHANGED <<up, refused>>

\* The write returns an error that promises it is gone.
Refuse(i) ==
  /\ up
  /\ i \in doubt
  /\ i \notin memory
  /\ doubt' = doubt \ {i}
  /\ refused' = refused \cup {i}
  /\ UNCHANGED <<up, memory, acked>>

\* The process exits, is killed or loses power.
Stop ==
  /\ up
  /\ up' = FALSE
  /\ memory' = {}
  /\ UNCHANGED <<acked, refused, doubt>>

\* The next open finds every acknowledged write, no refused one, and any of
\* those in doubt.
Reopen ==
  /\ ~up
  /\ up' = TRUE
  /\ \E found \in SUBSET doubt : memory' = acked \cup found
  /\ UNCHANGED <<acked, refused, doubt>>

Next ==
  \/ \E i \in Writes : Submit(i) \/ Accept(i) \/ Refuse(i)
  \/ Stop
  \/ Reopen

Spec == Init /\ [][Next]_vars

-----------------------------------------------------------------------------

\* An open database shows every acknowledged write and no refused one.
Honest == up => /\ acked \subseteq memory
                /\ memory \cap refused = {}
=============================================================================

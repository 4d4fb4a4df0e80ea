--------------------------- MODULE ChildPerClient ---------------------------
(***************************************************************************)
(* What fork does for the servers of src/other that have a child process   *)
(* for each connection: a child has every descriptor the server has then,  *)
(* and is a zombie from its end until the server waits for it or ends.     *)
(***************************************************************************)
EXTENDS Connections

VARIABLE proc    \* the child for each client: how far it is, or "none"

Ended == {"zombie", "reaped"}

Running(c) == proc[c] \notin Ended \cup {"none"}

\* A child x, at its first step; the server goes on with the connection next.
Fork(x, next) ==
  /\ srv = "up"
  /\ conn' = next
  /\ held' = [c \in Clients |->
                IF "server" \in held[c] THEN held[c] \cup {x} ELSE held[c]]
  /\ UNCHANGED <<srv, backlog>>

\* exit, or a signal: a zombie, which nobody but the server could wait for.
EndChild(c) ==
  /\ Running(c)
  /\ proc' = [proc EXCEPT ![c] = IF srv = "up" THEN "zombie" ELSE "reaped"]
  /\ held' = WithoutProcess(c)

\* With the server its zombies go.
EndServer ==
  /\ ServerEnds
  /\ proc' = [c \in Clients |-> IF proc[c] = "zombie" THEN "reaped" ELSE proc[c]]
=============================================================================

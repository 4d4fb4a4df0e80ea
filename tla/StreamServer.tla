---------------------------- MODULE StreamServer ----------------------------
(***************************************************************************)
(* src/other/streamserver/server.c: a child process says hello to every    *)
(* connection and exits, and the SIGCHLD handler of the server waits for   *)
(* the children.  A pending SIGCHLD is one signal for any number of ended  *)
(* children, and is held back while the handler runs.                      *)
(***************************************************************************)
EXTENDS ChildPerClient

VARIABLES
  forked,      \* fork was called for the connection in hand
  sigchld,     \* SIGCHLD is pending
  handling     \* sigchld_handler runs

vars == <<connVars, proc, forked, sigchld, handling>>

Init ==
  /\ ConnInit
  /\ proc = [c \in Clients |-> "none"]
  /\ forked = FALSE
  /\ sigchld = FALSE
  /\ handling = FALSE

Call(c)   == Connect(c, <<>>) /\ UNCHANGED <<proc, forked, sigchld, handling>>
HangUp(c) == /\ \E unread \in {FALSE, got[c] # <<>>} : Close(c, unread)
             /\ UNCHANGED <<proc, forked, sigchld, handling>>

-----------------------------------------------------------------------------
(* The server, outside the handler *)

AcceptNext ==
  ~ handling /\ Accept /\ forked' = FALSE /\ UNCHANGED <<proc, sigchld, handling>>

ForkChild ==
  /\ ~ handling /\ conn # NoClient /\ ~ forked
  /\ Fork(conn, conn)
  /\ proc' = [proc EXCEPT ![conn] = "hello"]
  /\ forked' = TRUE
  /\ UNCHANGED <<up, got, cend, sigchld, handling>>

\* fork returned -1, which is not 0: the connection is only closed.
ForkFails ==
  /\ ~ handling /\ conn # NoClient /\ ~ forked
  /\ forked' = TRUE
  /\ UNCHANGED <<connVars, proc, sigchld, handling>>

\* Variant: close is left to the child.
LeaveOpen ==
  /\ ~ handling /\ forked /\ conn # NoClient
  /\ conn' = NoClient
  /\ UNCHANGED <<srv, backlog, held, up, got, cend, proc, forked, sigchld, handling>>

CloseNew ==
  /\ ~ handling /\ forked /\ conn # NoClient
  /\ held' = [held EXCEPT ![conn] = @ \ {"server"}]
  /\ conn' = NoClient
  /\ UNCHANGED <<srv, backlog, up, got, cend, proc, forked, sigchld, handling>>

-----------------------------------------------------------------------------
(* sigchld_handler *)

TakeSignal ==
  /\ srv = "up" /\ sigchld /\ ~ handling
  /\ sigchld' = FALSE
  /\ handling' = TRUE
  /\ UNCHANGED <<connVars, proc, forked>>

Reap(c) == proc[c] = "zombie" /\ proc' = [proc EXCEPT ![c] = "reaped"]

\* Variant: if instead of while.
WaitForOne ==
  /\ handling
  /\ handling' = FALSE
  /\ \/ \E c \in Clients : Reap(c)
     \/ UNCHANGED proc /\ \A c \in Clients : proc[c] # "zombie"
  /\ UNCHANGED <<connVars, forked, sigchld>>

\* One call of waitpid: it waits for an ended child, or returns 0 or -1.
WaitForAll ==
  /\ handling
  /\ \/ /\ \E c \in Clients : Reap(c)
        /\ UNCHANGED handling
     \/ /\ \A c \in Clients : proc[c] # "zombie"
        /\ handling' = FALSE
        /\ UNCHANGED proc
  /\ UNCHANGED <<connVars, forked, sigchld>>

-----------------------------------------------------------------------------
(* A child *)

SendHello(c) ==
  /\ proc[c] = "hello"
  /\ Write(c, "hello")
  /\ proc' = [proc EXCEPT ![c] = "close"]
  /\ UNCHANGED <<srv, conn, backlog, held, up, forked, sigchld, handling>>

\* close and exit.
ChildExits(c) ==
  /\ proc[c] = "close"
  /\ EndChild(c)
  /\ sigchld' = (srv = "up")
  /\ UNCHANGED <<srv, conn, backlog, up, got, cend, forked, handling>>

Child(c) == SendHello(c) \/ ChildExits(c)

Server == AcceptNext \/ ForkChild \/ ForkFails \/ CloseNew \/ TakeSignal \/ WaitForAll

ServerKilled == /\ EndServer
                /\ forked' = FALSE /\ sigchld' = FALSE /\ handling' = FALSE

Next ==
  \/ Server
  \/ ServerKilled
  \/ \E c \in Clients : Call(c) \/ HangUp(c) \/ Child(c)

-----------------------------------------------------------------------------
TypeOK ==
  /\ ConnTypeOK
  /\ proc \in [Clients -> {"none", "hello", "close"} \cup Ended]
  /\ {forked, sigchld, handling} \subseteq BOOLEAN
  /\ got \in [Clients -> {<<>>, <<"hello">>}]

\* However many children end at once, and whenever: there is a signal to come
\* or a call of waitpid to come for each of them (server.c:17-21, 92-99).
NoZombieForgotten == (\E c \in Clients : proc[c] = "zombie") => sigchld \/ handling

\* Every connection ends for its client, and the child with it, although two
\* processes have it open and fork may fail (server.c:103-129).
ConnectionsEnd ==
  \A c \in Clients : held[c] # {} ~> held[c] = {} /\ proc[c] \in {"none", "reaped"}
=============================================================================

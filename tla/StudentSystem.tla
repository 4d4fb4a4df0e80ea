--------------------------- MODULE StudentSystem ---------------------------
(***************************************************************************)
(* The server and its clients of src/assignment, composed: their steps     *)
(* interleave, and they share nothing but the connections of Sockets.      *)
(***************************************************************************)
EXTENDS StudentServer, StudentClient

vars == <<sockVars, serverVars, clientVars>>

Init == SocketsInit /\ ServerInit /\ ClientInit

Server == ServerNext /\ UNCHANGED clientVars

Client(c) == ClientNext(c) /\ UNCHANGED serverVars

Next == Server \/ \E c \in Clients : Client(c)

\* The scheduler runs the server, and runs a client that has something from
\* its socket to handle.  Nothing makes the user type, quit or kill.
Fairness ==
  /\ WF_vars(Server)
  /\ \A c \in Clients :
       WF_vars((SockMessage(c) \/ SockEnd(c) \/ SelectError(c))
               /\ UNCHANGED serverVars)

Spec == Init /\ [][Next]_vars

FairSpec == Spec /\ Fairness

-----------------------------------------------------------------------------
TypeOK == SocketsTypeOK /\ ServerTypeOK /\ ClientTypeOK

\* An id in the session of an open descriptor was sent by the client that
\* is connected on it now: no session outlives its connection, although the
\* kernel hands the same descriptor to the next client (server.c:84, 99-100).
SessionOwner ==
  \A b \in serverStore :
    LET c == sock[sess[b].fd]
    IN  c # NoClient => sess[b].clientId \in asked[c]

\* The list holds at most one session of a descriptor, so that ss_search and
\* ss_delete, which stop at the first match, miss none (server_store_ll.c).
OneSessionPerFd ==
  \A b1, b2 \in serverStore : sess[b1].fd = sess[b2].fd => b1 = b2

\* While the server runs, select is told of every open connection: no client
\* is forgotten, and none is beyond nfds (server.c:70, 85-87, 99).
EveryConnectionWatched ==
  srv = "up" => \A f \in OpenFds : f \in masterFDs /\ f <= fdMax

\* A client only ever displays the record of the id it was started with.
\* The server may send it another (see DetailsGoToOwner), but only after a
\* not_found, which ends the client first (client.c:102-109).
DisplayedOwn ==
  \A c \in Clients : \A k \in DOMAIN shown[c] : shown[c][k] = arg[c]

\* The server's reads never block: a descriptor left in readFDs still has
\* something to read when its turn comes (server.c:78, 84, 97).
VisitsNeverBlock ==
  srv = "up" =>
    \A f \in readFDs : \/ f = ListenFD /\ backlog # <<>>
                       \/ f \in OpenFds /\ Readable(sock[f])

-----------------------------------------------------------------------------
(* The inductive invariant behind SessionOwner, OneSessionPerFd,            *)
(* EveryConnectionWatched and VisitsNeverBlock.                             *)

\* What is left of a pass is watched and, while the server runs, open.
ReadyOpen ==
  /\ readFDs \subseteq masterFDs
  /\ srv = "up" => \A f \in readFDs : f = ListenFD \/ f \in OpenFds

MasterBelowMax == \A f \in masterFDs : f <= fdMax

\* A session's descriptor stays in masterFDs as long as the session is linked.
SessionsWatched == \A b \in serverStore : sess[b].fd \in masterFDs \cap Fds

\* After a read error left a closed descriptor in masterFDs nothing is
\* accepted any more: the listening descriptor is the lowest, so it has had
\* its turn in this pass, and the next select fails.
NoAcceptAfterError ==
  srv = "up" /\ ~ (masterFDs \cap Fds \subseteq OpenFds) => ListenFD \notin readFDs

\* The ids on their way to the server were written by the client that is
\* connected there.
UpAsked ==
  \A c \in Clients : \A k \in DOMAIN up[c] :
    up[c][k] \in Ids => up[c][k] \in asked[c]

\* Each client has at most one connection: in the backlog, once, or on one
\* descriptor.
OneConnection ==
  /\ \A j, k \in DOMAIN backlog : backlog[j] = backlog[k] => j = k
  /\ \A k \in DOMAIN backlog : \A f \in Fds : sock[f] # backlog[k]
  /\ \A f, g \in OpenFds : sock[f] = sock[g] => f = g
  /\ \A c \in Clients : client[c] = "start" =>
       /\ \A k \in DOMAIN backlog : backlog[k] # c
       /\ \A f \in Fds : sock[f] # c

IInv ==
  /\ TypeOK
  /\ ReadyOpen
  /\ MasterBelowMax
  /\ SessionsWatched
  /\ NoAcceptAfterError
  /\ UpAsked
  /\ OneSessionPerFd
  /\ SessionOwner
  /\ EveryConnectionWatched
  /\ OneConnection
  /\ VisitsNeverBlock

-----------------------------------------------------------------------------
(* What the service owes its clients, stated for clients with known ids *)

\* Every record written to a client is the one it asked for: the requests
\* of other clients and the descriptor's earlier users have no say in it
\* (server.c:104-124, 143-150).  It fails for the requests of a client that
\* was refused: see RefusedGetNothing.
DetailsGoToOwner ==
  \A c \in Clients : \A k \in DOMAIN sent[c] : sent[c][k] = arg[c]

Gone(c) == client[c] = "exit" \/ srv # "up"

\* A client that connects with a student's id is shown the record, unless it
\* goes first or the server stops (server.c:104-124, client.c:115-119).
EveryoneServed ==
  \A c \in Clients :
    (client[c] = "run" /\ arg[c] \in StudentIds) ~> (shown[c] # <<>> \/ Gone(c))

\* "again" after the thanks is on its way to the server.
AgainAfterThanks(c) ==
  \E j, k \in DOMAIN up[c] : /\ j < k
                             /\ up[c][j] = "thank_you"
                             /\ up[c][k] = "again"

\* A client that asks again after its thanks is shown the record a second
\* time (server.c:131-150).  The "again" of a hasty user, which overtakes the
\* thanks, has no answer.
AgainAnswered ==
  \A c \in Clients :
    AgainAfterThanks(c) ~> (Len(shown[c]) >= 2 \/ Gone(c))

\* A connection its client has closed does not stay with the server: its
\* descriptor is closed, masterFDs forgets it and its session is unlinked
\* (server.c:97-101), or the server stops.
Reaped(c) == /\ \A f \in OpenFds : sock[f] # c
             /\ masterFDs \subseteq OpenFds \cup {ListenFD}
             /\ \A b \in serverStore : sock[sess[b].fd] # NoClient

ClosedConnectionsReaped ==
  \A c \in Clients :
    (cend[c] \in {"fin", "poked", "rst"}) ~> (Reaped(c) \/ srv # "up")

-----------------------------------------------------------------------------
(* What the sources say of the programs, and the server does not keep *)

\* What client.c:104 says to the user of a client that is refused, "No client
\* data found by server": a client that never sent the id of a student is
\* sent no record.
RefusedGetNothing ==
  \A c \in Clients : asked[c] \cap StudentIds = {} => sent[c] = <<>>

-----------------------------------------------------------------------------
(* The abstract service: see StudentService *)

Accepted(c) == client[c] # "start" /\ \A k \in DOMAIN backlog : backlog[k] # c

Connected(c) == \E f \in OpenFds : sock[f] = c

ServicePhase(c) ==
  IF srv # "up" \/ (Accepted(c) /\ ~ Connected(c)) THEN "left"
  ELSE IF \E b \in serverStore : sock[sess[b].fd] = c
  THEN LET b == CHOOSE b \in serverStore : sock[sess[b].fd] = c
       IN  IF sess[b].ty_flag = 1 THEN "thanked" ELSE "served"
  ELSE "out"

Service == INSTANCE StudentService
             WITH phase <- [c \in Clients |-> ServicePhase(c)],
                  given <- sent

\* With known ids, the server behaves as the service of StudentService.
ImplementsService == Service!Spec
=============================================================================

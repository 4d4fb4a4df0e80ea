----------------------------- MODULE SelectLoop -----------------------------
(***************************************************************************)
(* What the two select servers of src/other have in common                 *)
(* (select/selectserver.c and other/select/server.c): the kernel's         *)
(* connections, the descriptor sets, select, accept and the closing of a   *)
(* connection that hung up.  Both loops clear a closed descriptor from     *)
(* their set, and neither ends when accept or a read fails.                *)
(***************************************************************************)
EXTENDS Integers, Sequences, FiniteSets

CONSTANTS
  Clients,    \* programs that connect, once each
  ListenFD,   \* the listening descriptor
  MaxFD,      \* the highest descriptor the process may have open
  NoClient    \* marks a descriptor that is not open

LoopAssumption ==
  /\ ListenFD \in Nat
  /\ MaxFD \in Nat
  /\ NoClient \notin Clients

ASSUME LoopAssumption

VARIABLES
  srv,        \* "up", or "killed" by SIGPIPE
  backlog,    \* connections not accepted yet, oldest first
  up,         \* what each client sent and the server has not read yet
  cend,       \* the client's end of each connection: see EndStates
  masterFDs,  \* the set handed to select
  readFDs,    \* ready descriptors this pass has not visited yet
  fdMax,      \* highest descriptor ever in masterFDs
  sock        \* the process's descriptor table: the peer of each descriptor

loopVars == <<srv, backlog, up, cend, masterFDs, readFDs, fdMax, sock>>

Fds == (ListenFD + 1) .. MaxFD

\* The ends of Sockets, and "reset": a call has reported that the connection is
\* gone, and the next write raises SIGPIPE.
EndStates == {"none", "open", "fin", "poked", "rst", "reset"}

LoopTypeOK ==
  /\ srv \in {"up", "killed"}
  /\ backlog \in Seq(Clients)
  /\ cend \in [Clients -> EndStates]
  /\ masterFDs \subseteq Fds \cup {ListenFD}
  /\ readFDs \subseteq Fds \cup {ListenFD}
  /\ fdMax \in Fds \cup {ListenFD}
  /\ sock \in [Fds -> Clients \cup {NoClient}]

LoopInit ==
  /\ srv = "up"
  /\ backlog = <<>>
  /\ up = [c \in Clients |-> <<>>]
  /\ cend = [c \in Clients |-> "none"]
  /\ masterFDs = {ListenFD}
  /\ readFDs = {}
  /\ fdMax = ListenFD
  /\ sock = [f \in Fds |-> NoClient]

-----------------------------------------------------------------------------
(* The clients' side *)

\* connect, with what the client sends at once.
Connect(c, first) ==
  /\ srv = "up"
  /\ cend[c] = "none"
  /\ cend' = [cend EXCEPT ![c] = "open"]
  /\ backlog' = Append(backlog, c)
  /\ up' = [up EXCEPT ![c] = first]
  /\ UNCHANGED <<srv, masterFDs, readFDs, fdMax, sock>>

Say(c, text) ==
  /\ srv = "up"
  /\ cend[c] = "open"
  /\ up' = [up EXCEPT ![c] = Append(@, text)]
  /\ UNCHANGED <<srv, backlog, cend, masterFDs, readFDs, fdMax, sock>>

\* close or exit: a reset follows when the client has left something unread,
\* which it can only have if it was sent something.
Close(c, unread) ==
  /\ cend[c] = "open"
  /\ \E e \in IF unread THEN {"fin", "rst"} ELSE {"fin"} :
       cend' = [cend EXCEPT ![c] = e]
  /\ UNCHANGED <<srv, backlog, up, masterFDs, readFDs, fdMax, sock>>

\* What writes that the server survives may do to a client's end: a closed one
\* answers the first with a reset, which takes its time, and a reset is
\* reported by the first that comes after it.
EndsAfterWrites(e) ==
  CASE e = "fin" -> {"poked"} [] e = "rst" -> {"rst", "reset"} [] OTHER -> {e}

\* A write raises SIGPIPE: the answer to an earlier one has come, or was told.
MayKill(e)  == e \in {"poked", "reset"}
MustKill(e) == e = "reset"

-----------------------------------------------------------------------------
(* The server's side *)

OpenFds == {f \in Fds : sock[f] # NoClient}

Readable(c)    == up[c] # <<>> \/ cend[c] # "open"
NothingFrom(c) == up[c] = <<>> /\ cend[c] # "open"

\* Variant: the loop visits the set, not what select left of its copy.
AllWatched == {f \in masterFDs : f <= fdMax}

ReadyFds ==
  {f \in masterFDs :
     /\ f <= fdMax
     /\ \/ f = ListenFD /\ backlog # <<>>
        \/ f \in OpenFds /\ Readable(sock[f])}

Select ==
  /\ srv = "up"
  /\ readFDs = {}
  /\ ReadyFds # {}
  /\ readFDs' = ReadyFds
  /\ UNCHANGED <<srv, backlog, up, cend, masterFDs, fdMax, sock>>

\* The loop visits the lowest ready descriptor that is left.
Turn(i) ==
  /\ srv = "up"
  /\ i \in readFDs
  /\ \A f \in readFDs : i <= f
  /\ readFDs' = readFDs \ {i}

\* Variant: fdMax holds the count for select, one more than the descriptor.
AcceptCounting ==
  /\ Turn(ListenFD)
  /\ \E newFD \in Fds \ OpenFds :
       /\ \A f \in Fds \ OpenFds : newFD <= f
       /\ sock' = [sock EXCEPT ![newFD] = Head(backlog)]
       /\ backlog' = Tail(backlog)
       /\ masterFDs' = masterFDs \cup {newFD}
       /\ fdMax' = IF newFD >= fdMax THEN newFD + 1 ELSE fdMax
  /\ UNCHANGED <<srv, up, cend>>

\* Variant: the new descriptor is not added to the set.
AcceptUnwatched ==
  /\ Turn(ListenFD)
  /\ \E newFD \in Fds \ OpenFds :
       /\ \A f \in Fds \ OpenFds : newFD <= f
       /\ sock' = [sock EXCEPT ![newFD] = Head(backlog)]
       /\ backlog' = Tail(backlog)
       /\ fdMax' = IF newFD > fdMax THEN newFD ELSE fdMax
  /\ UNCHANGED <<srv, up, cend, masterFDs>>

AcceptClient ==
  /\ Turn(ListenFD)
  /\ \E newFD \in Fds \ OpenFds :
       /\ \A f \in Fds \ OpenFds : newFD <= f
       /\ sock' = [sock EXCEPT ![newFD] = Head(backlog)]
       /\ backlog' = Tail(backlog)
       /\ masterFDs' = masterFDs \cup {newFD}
       /\ fdMax' = IF newFD > fdMax THEN newFD ELSE fdMax
  /\ UNCHANGED <<srv, up, cend>>

\* No descriptor is free, in the table of this process or of the system:
\* accept returns -1, which neither loop notices, and FD_SET(-1) marks a
\* descriptor above fdMax if any.  The connection stays in the backlog and the
\* next select returns at once.
AcceptFails ==
  /\ Turn(ListenFD)
  /\ UNCHANGED <<srv, backlog, up, cend, masterFDs, fdMax, sock>>

\* Variant: FD_CLR is forgotten.
CloseWatched(i) ==
  /\ sock' = [sock EXCEPT ![i] = NoClient]
  /\ UNCHANGED masterFDs

\* Variant: close is forgotten.
ClearOnly(i) ==
  /\ masterFDs' = masterFDs \ {i}
  /\ UNCHANGED sock

CloseFD(i) ==
  /\ sock' = [sock EXCEPT ![i] = NoClient]
  /\ masterFDs' = masterFDs \ {i}

-----------------------------------------------------------------------------
\* Exactly the open connections are watched, and sent to: none is forgotten,
\* and no closed descriptor is left behind for select to fail on, which is
\* why Select has no error (selectserver.c:88, 95, 116-120, 142-143; server.c
\* of other/select:59, 68, 83-87, 101-102, 143-144).
WatchedAreOpen ==
  /\ masterFDs = OpenFds \cup {ListenFD}
  /\ \A f \in masterFDs : f <= fdMax

\* accept and the reads never block: what select found ready still is when
\* its turn comes (selectserver.c:101-132; server.c of other/select:74-98).
VisitsNeverBlock ==
  srv = "up" =>
    \A f \in readFDs : \/ f = ListenFD /\ backlog # <<>>
                       \/ f \in OpenFds /\ Readable(sock[f])

\* c was accepted, and the server has not closed its connection.
Connected(c) == \E f \in OpenFds : sock[f] = c

\* A connection that was accepted and that its client closes is closed by
\* the server as well, unless a write to it kills the server first.
ClosedAreDropped ==
  \A c \in Clients :
    (Connected(c) /\ cend[c] # "open") ~> (srv = "killed" \/ ~ Connected(c))
=============================================================================

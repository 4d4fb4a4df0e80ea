---------------------------- MODULE Connections ----------------------------
(***************************************************************************)
(* TCP connections as the servers of src/other without a select loop see   *)
(* them: one connection in hand at a time, and descriptors that several    *)
(* processes may hold after a fork.  The end of a stream is sent when the  *)
(* last of them is closed.  Texts are written and read whole.              *)
(***************************************************************************)
EXTENDS Naturals, Sequences, FiniteSets

CONSTANTS
  Clients,    \* programs that connect, once each
  MaxOpen,    \* number of connections a process has descriptors for
  NoClient    \* no connection in hand

ConnectionAssumption ==
  /\ MaxOpen \in Nat \ {0}
  /\ NoClient \notin Clients

ASSUME ConnectionAssumption

VARIABLES
  srv,        \* the server process is up, or gone
  conn,       \* the connection it has accepted last and is busy with
  backlog,    \* connections not accepted yet, oldest first
  held,       \* the processes that have a descriptor for each connection
  up,         \* what each client sent and nobody has read yet
  got,        \* what arrived at each client
  cend        \* the client's end of each connection: see ConnTypeOK

connVars == <<srv, conn, backlog, held, up, got, cend>>

\* The server, the child it has for a client, and a child without a client.
Processes == Clients \cup {"server", "stray"}

\* The ends of a connection are those of Sockets, and "reset": a call has
\* reported that the connection is gone, and the next write raises SIGPIPE.
ConnTypeOK ==
  /\ srv \in {"up", "gone"}
  /\ conn \in Clients \cup {NoClient}
  /\ backlog \in Seq(Clients)
  /\ held \in [Clients -> SUBSET Processes]
  /\ cend \in [Clients -> {"none", "open", "fin", "poked", "rst", "reset"}]

ConnInit ==
  /\ srv = "up"
  /\ conn = NoClient
  /\ backlog = <<>>
  /\ held = [c \in Clients |-> {}]
  /\ up = [c \in Clients |-> <<>>]
  /\ got = [c \in Clients |-> <<>>]
  /\ cend = [c \in Clients |-> "none"]

Pending(c) == \E k \in DOMAIN backlog : backlog[k] = c

\* Nobody will write to c any more.
Hung(c) == held[c] = {} /\ ~ Pending(c)

-----------------------------------------------------------------------------
(* The clients' side *)

\* connect, with what the client sends at once.
Connect(c, first) ==
  /\ srv = "up"
  /\ cend[c] = "none"
  /\ cend' = [cend EXCEPT ![c] = "open"]
  /\ backlog' = Append(backlog, c)
  /\ up' = [up EXCEPT ![c] = first]
  /\ UNCHANGED <<srv, conn, held, got>>

Send(c, text) ==
  /\ cend[c] = "open"
  /\ up' = [up EXCEPT ![c] = Append(@, text)]
  /\ UNCHANGED <<srv, conn, backlog, held, got, cend>>

\* close or exit, with or without something left unread.
Close(c, unread) ==
  /\ cend[c] = "open"
  /\ cend' = [cend EXCEPT ![c] = IF unread THEN "rst" ELSE "fin"]
  /\ UNCHANGED <<srv, conn, backlog, held, up, got>>

-----------------------------------------------------------------------------
(* The servers' side *)

OpenFds == {c \in Clients : "server" \in held[c]}

Accept ==
  /\ srv = "up" /\ conn = NoClient
  /\ backlog # <<>>
  /\ Cardinality(OpenFds) < MaxOpen
  /\ conn' = Head(backlog)
  /\ backlog' = Tail(backlog)
  /\ held' = [held EXCEPT ![conn'] = {"server"}]
  /\ UNCHANGED <<srv, up, got, cend>>

\* No descriptor is left: accept fails at once.
AcceptFull == srv = "up" /\ conn = NoClient /\ Cardinality(OpenFds) >= MaxOpen

\* The end of a process, which closes its descriptors.
WithoutProcess(p) == [c \in Clients |-> held[c] \ {p}]

\* The server exits or is killed: with its socket goes what is not accepted.
ServerEnds ==
  /\ srv = "up"
  /\ srv' = "gone"
  /\ conn' = NoClient
  /\ backlog' = <<>>
  /\ held' = WithoutProcess("server")
  /\ UNCHANGED <<up, got, cend>>

NothingFrom(c) == up[c] = <<>> /\ cend[c] # "open"

\* What a write that the process survives may do to the client's end: a closed
\* one answers the first with a reset, which takes its time, and a reset is
\* reported by the first that comes after it.
EndsAfterWrite(e) ==
  CASE e = "fin" -> {"poked"} [] e = "rst" -> {"rst", "reset"} [] OTHER -> {e}

\* A write raises SIGPIPE: the answer to an earlier one has come, or was told.
MayKill(e)  == e \in {"poked", "reset"}
MustKill(e) == e = "reset"

Write(c, text) ==
  /\ got' = [got EXCEPT ![c] = IF cend[c] = "open" THEN Append(@, text) ELSE @]
  /\ \E e \in EndsAfterWrite(cend[c]) : cend' = [cend EXCEPT ![c] = e]
=============================================================================

------------------------------ MODULE Sockets ------------------------------
(***************************************************************************)
(* The kernel's part of src/assignment: the TCP connections between the    *)
(* client processes and the server, seen through the calls the programs    *)
(* make (connect, accept, select, read, write, close).                     *)
(*                                                                         *)
(* TCP carries bytes, and both programs read and write a struct Message of *)
(* three members {msg, buffer, detail}.  A stream is modelled as a         *)
(* sequence of cells, one cell per member, so that a read which returns    *)
(* fewer bytes than the struct (a short read) can be represented: it ends  *)
(* at a member boundary and leaves the rest of the struct in the stream.   *)
(***************************************************************************)
EXTENDS Integers, Sequences, FiniteSets

CONSTANTS
  Clients,     \* the client processes; each one runs once
  Ids,         \* the client ids a process can be started with
  LISTENQ,     \* length of the queue of connections not accepted yet
  ShortReads   \* TRUE when a read may return a part of a struct Message

VARIABLES
  srv,         \* status of the server process
  backlog,     \* connections waiting in the listening socket, oldest first
  up,          \* cells written by each client, not yet read by the server
  down,        \* cells written by the server, not yet read by each client
  cend         \* the client's end of each connection

sockVars == <<srv, backlog, up, down, cend>>

\* Contents of a buffer member the programs compare with strncmp, and the
\* zeroed member ("blank") that matches none of them.
Words  == {"again", "thank_you", "not_found", "blank"}
Labels == {"buffer", "detail"}
Cells  == Labels \cup Words \cup Ids

SocketsAssumption ==
  /\ Ids \cap (Labels \cup Words) = {}
  /\ LISTENQ \in Nat
  /\ ShortReads \in BOOLEAN

ASSUME SocketsAssumption

-----------------------------------------------------------------------------
(* struct Message *)

FrameLen == 3

\* Variant: the label is left out of a refusal.
UnlabelledRefusal(text) ==
  IF text = "not_found" THEN <<"blank", text, "blank">>
                        ELSE <<"buffer", text, "blank">>

TextFrame(text)  == <<"buffer", text, "blank">>
DetailFrame(id)  == <<"detail", "blank", id>>

\* The number of cells one read of sizeof(struct Message) may return.
ReadSizes(stream) ==
  LET most == IF Len(stream) < FrameLen THEN Len(stream) ELSE FrameLen
  IN  IF ShortReads THEN 1 .. most ELSE {most} \ {0}

\* The struct after a read into zeroed memory.  Members the read did not
\* reach stay zero.  When the stream is out of step (a short read left half
\* a struct behind) the 200 bytes of msg hold no label, and buffer starts
\* inside the zero tail of another member: neither matches any word.
Message(read) ==
  IF read[1] \in Labels
  THEN [msg    |-> read[1],
        buffer |-> IF Len(read) >= 2 THEN read[2] ELSE "blank",
        detail |-> IF Len(read) >= 3 THEN read[3] ELSE "blank"]
  ELSE [msg |-> "blank", buffer |-> "blank", detail |-> "blank"]

\* What is left of a stream after a read of n cells.
Rest(stream, n) == SubSeq(stream, n + 1, Len(stream))

-----------------------------------------------------------------------------
(* Connections.  cend[c] is                                                *)
(*   "none"   c has not connected                                          *)
(*   "open"   the socket of c is open                                      *)
(*   "fin"    c closed it after reading everything: end of file follows    *)
(*   "poked"  as "fin", and the server has written since: its data is      *)
(*            answered by a reset, but end of file is still what it reads  *)
(*   "rst"    c closed it with unread data: a reset follows                *)

EndStates == {"none", "open", "fin", "poked", "rst"}

Readable(c) == up[c] # <<>> \/ cend[c] \in {"fin", "poked", "rst"}
AtEOF(c)    == up[c] = <<>> /\ cend[c] \in {"fin", "poked"}
AtReset(c)  == up[c] = <<>> /\ cend[c] = "rst"

\* The client's end is closed, by close() or by the exit of the process, with
\* the cells unread left in the stream.  Unread data turns the close into a
\* reset; data still on its way when the socket closes is answered by one
\* later.
CloseClientEnd(c, unread) ==
  /\ \E e \in IF unread = <<>> THEN {"fin"} ELSE {"rst", "poked"} :
       cend' = [cend EXCEPT ![c] = e]
  /\ down' = [down EXCEPT ![c] = <<>>]

\* The server writes cells to c and every write is accepted: they reach an
\* open socket, and are dropped by a closed one.
ServerWriteOk(c, cells) ==
  /\ down' = IF cend[c] = "open" THEN [down EXCEPT ![c] = @ \o cells] ELSE down
  /\ cend' = IF cend[c] = "fin" /\ cells # <<>>
             THEN [cend EXCEPT ![c] = "poked"] ELSE cend

\* A write by the server meets a reset: EPIPE or ECONNRESET.  The first
\* write to an orderly closed socket is always accepted.
ServerWriteFails(c, cells) ==
  /\ cells # <<>>
  /\ \/ cend[c] \in {"poked", "rst"}
     \/ cend[c] = "fin" /\ Len(cells) > FrameLen
  /\ UNCHANGED <<down, cend>>

SocketsTypeOK ==
  /\ srv \in {"up", "exited", "segv"}
  /\ backlog \in Seq(Clients)
  /\ up \in [Clients -> Seq(Cells)]
  /\ down \in [Clients -> Seq(Cells)]
  /\ cend \in [Clients -> EndStates]

SocketsInit ==
  /\ srv = "up"
  /\ backlog = <<>>
  /\ up = [c \in Clients |-> <<>>]
  /\ down = [c \in Clients |-> <<>>]
  /\ cend = [c \in Clients |-> "none"]
=============================================================================

--------------------------- MODULE StudentClient ---------------------------
(***************************************************************************)
(* The client of src/assignment (client.c with utils.c): each process      *)
(* connects, sends the id it was started with, and then serves its         *)
(* standard input and its socket in a select loop that looks at standard   *)
(* input first.  What the user types, and when, is the environment's       *)
(* choice; a line is handled in the step in which it is typed, so standard *)
(* input is never ready when SockMessage is taken.                         *)
(***************************************************************************)
EXTENDS Sockets

CONSTANTS
  IdArgs,      \* ids a client may be started with
  Typed,       \* lines the user may type, other than "quit"
  MaxTyped     \* bound on the lines typed into one client

VARIABLES
  client,      \* status of each client process
  stdin,       \* TRUE while descriptor 0 of the process is open
  typed,       \* lines typed so far (counts up to MaxTyped)
  arg,         \* argv[3] of each process
  shown,       \* history: the details each client displayed
  asked        \* history: the texts each client wrote

clientVars == <<client, stdin, typed, arg, shown, asked>>

ClientAssumption ==
  /\ IdArgs \subseteq Ids
  /\ IdArgs # {}
  /\ Typed \subseteq Ids \cup Words
  /\ MaxTyped \in Nat

ASSUME ClientAssumption

Texts == Words \cup Ids

ClientTypeOK ==
  /\ client \in [Clients -> {"start", "run", "exit"}]
  /\ stdin \in [Clients -> BOOLEAN]
  /\ typed \in [Clients -> 0 .. MaxTyped]
  /\ arg \in [Clients -> IdArgs]
  /\ shown \in [Clients -> Seq(Cells)]
  /\ asked \in [Clients -> SUBSET Texts]

ClientInit ==
  /\ client = [c \in Clients |-> "start"]
  /\ stdin = [c \in Clients |-> TRUE]
  /\ typed = [c \in Clients |-> 0]
  /\ arg \in [Clients -> IdArgs]
  /\ shown = [c \in Clients |-> <<>>]
  /\ asked = [c \in Clients |-> {}]

-----------------------------------------------------------------------------
\* The process ends with the cells unread in its stream; the kernel closes
\* the socket unless Read has done so.
Terminate(c, unread) ==
  /\ client' = [client EXCEPT ![c] = "exit"]
  /\ IF cend[c] = "open" THEN CloseClientEnd(c, unread)
                         ELSE UNCHANGED <<down, cend>>

\* Write of one text, with the cells unread in the stream from the server.  A
\* running server gets it.  The socket of one that has gone still takes it,
\* and loses it, or fails, which ends the client.
WriteText(c, text, unread) ==
  /\ asked' = [asked EXCEPT ![c] = @ \cup {text}]
  /\ \/ /\ up' = IF srv = "up" THEN [up EXCEPT ![c] = @ \o TextFrame(text)] ELSE up
        /\ down' = [down EXCEPT ![c] = unread]
        /\ UNCHANGED <<client, cend>>
     \/ /\ srv # "up"
        /\ Terminate(c, unread)
        /\ UNCHANGED up

\* At the top of the loop, with both descriptors open.
Serving(c) == client[c] = "run" /\ stdin[c] /\ cend[c] = "open"

-----------------------------------------------------------------------------
\* connect and the first Write.  The kernel completes the connection while
\* the listening socket has room, whether or not the server is in accept.
Connect(c) ==
  /\ client[c] = "start"
  /\ srv = "up"
  /\ Len(backlog) <= LISTENQ
  /\ client' = [client EXCEPT ![c] = "run"]
  /\ cend' = [cend EXCEPT ![c] = "open"]
  /\ backlog' = Append(backlog, c)
  /\ up' = [up EXCEPT ![c] = TextFrame(arg[c])]
  /\ asked' = [asked EXCEPT ![c] = @ \cup {arg[c]}]
  /\ UNCHANGED <<srv, down, stdin, typed, arg, shown>>

\* Nobody listens: connect fails and the process ends.
ConnectError(c) ==
  /\ client[c] = "start"
  /\ srv # "up"
  /\ client' = [client EXCEPT ![c] = "exit"]
  /\ UNCHANGED <<sockVars, stdin, typed, arg, shown, asked>>

\* A line from standard input is sent as it is.
StdinLine(c) ==
  /\ Serving(c)
  /\ typed[c] < MaxTyped
  /\ typed' = [typed EXCEPT ![c] = @ + 1]
  /\ \E text \in Typed : WriteText(c, text, down[c])
  /\ UNCHANGED <<srv, backlog, stdin, arg, shown>>

\* "quit" closes the socket and ends the process.
StdinQuit(c) ==
  /\ Serving(c)
  /\ Terminate(c, down[c])
  /\ UNCHANGED <<srv, backlog, up, stdin, typed, arg, shown, asked>>

\* End of file on standard input: Read closes descriptor 0, and the loop
\* goes on to send an empty text.
StdinEOF(c) ==
  /\ Serving(c)
  /\ stdin' = [stdin EXCEPT ![c] = FALSE]
  /\ WriteText(c, "blank", down[c])
  /\ UNCHANGED <<srv, backlog, typed, arg, shown>>

\* select on a descriptor Read has closed fails, and the process ends.
SelectError(c) ==
  /\ client[c] = "run"
  /\ ~ (stdin[c] /\ cend[c] = "open")
  /\ Terminate(c, down[c])
  /\ UNCHANGED <<srv, backlog, up, stdin, typed, arg, shown, asked>>

\* A struct from the server: not_found ends the client, a detail is
\* displayed and thanked for, anything else is passed over.
SockMessage(c) ==
  /\ Serving(c)
  /\ \E n \in ReadSizes(down[c]) :
       LET res     == Message(SubSeq(down[c], 1, n))
           unread  == Rest(down[c], n)
           refused == res.msg = "buffer" /\ res.buffer = "not_found"
       IN  \/ /\ refused
              /\ Terminate(c, unread)
              /\ UNCHANGED <<up, shown, asked>>
           \/ /\ res.msg = "detail"
              /\ shown' = [shown EXCEPT ![c] = Append(@, res.detail)]
              /\ WriteText(c, "thank_you", unread)
           \/ /\ res.msg # "detail" /\ ~ refused
              /\ down' = [down EXCEPT ![c] = unread]
              /\ UNCHANGED <<client, up, cend, shown, asked>>
  /\ UNCHANGED <<srv, backlog, stdin, typed, arg>>

\* The server's process is gone and everything it sent is read: Read sees
\* the end of the stream and closes the socket.
SockEnd(c) ==
  /\ Serving(c)
  /\ srv # "up"
  /\ down[c] = <<>>
  /\ CloseClientEnd(c, <<>>)
  /\ UNCHANGED <<srv, backlog, up, client, stdin, typed, arg, shown, asked>>

\* The process is killed by a signal at any point after it connected.
Killed(c) ==
  /\ client[c] = "run"
  /\ Terminate(c, down[c])
  /\ UNCHANGED <<srv, backlog, up, stdin, typed, arg, shown, asked>>

ClientNext(c) ==
  \/ Connect(c)
  \/ ConnectError(c)
  \/ StdinLine(c)
  \/ StdinQuit(c)
  \/ StdinEOF(c)
  \/ SelectError(c)
  \/ SockMessage(c)
  \/ SockEnd(c)
  \/ Killed(c)
=============================================================================

-------------------------- MODULE IterativeServer --------------------------
(***************************************************************************)
(* The servers of src/other that serve one client after the other, with    *)
(* their clients: echo (echo), upper case (upp_recv_server), words typed   *)
(* by an operator (s2c_chat), and the time of day (daytime, tcp).  The     *)
(* first three answer what a client sends until it ends and never close    *)
(* their end; the other two write once and close.  A client stands for the *)
(* line its user types and for every answer made from that line.           *)
(***************************************************************************)
EXTENDS Connections

VARIABLES
  program,    \* which of the servers runs, with its clients
  typed,      \* what the user of a client gave it: a line, or the end of file
  shown,      \* the client has read and shown an answer
  sendline,   \* s2c_chat: for whom the last word that scanf took was typed
  ahead,      \* s2c_chat: typed words that scanf has not taken yet
  operator    \* s2c_chat: "exact": has typed one word at every prompt so far

wordVars == <<sendline, ahead, operator>>
iterVars == <<connVars, typed, shown, wordVars>>

LineServers == {"echo", "upper", "line"}
TimeServers == {"daytime", "tcp"}

TheTime == "time"

Init ==
  /\ ConnInit
  /\ typed = [c \in Clients |-> "no"]
  /\ shown = [c \in Clients |-> FALSE]
  /\ sendline = NoClient
  /\ ahead = <<>>
  /\ operator = "exact"

-----------------------------------------------------------------------------
(* The clients *)

Unread(c) == got[c] # <<>> /\ ~ shown[c]

Call(c) == Connect(c, <<>>) /\ UNCHANGED <<typed, shown, wordVars>>

\* fgets and write, which writes nothing at the end of file.
TypeLine(c) ==
  /\ typed[c] = "no"
  /\ \/ Send(c, c) /\ typed' = [typed EXCEPT ![c] = "line"]
     \/ /\ cend[c] = "open" /\ UNCHANGED connVars
        /\ typed' = [typed EXCEPT ![c] = "end"]
  /\ UNCHANGED <<shown, wordVars>>

\* Reading an answer, and the end of the program in the same breath.
ShowAnswer(c) ==
  /\ Unread(c)
  /\ shown' = [shown EXCEPT ![c] = TRUE]
  /\ Close(c, FALSE)
  /\ UNCHANGED <<typed, wordVars>>

SeeEnd(c) ==
  /\ Hung(c) /\ ~ Unread(c)
  /\ Close(c, FALSE)
  /\ UNCHANGED <<typed, shown, wordVars>>

\* The loop that shows what comes until the stream ends.
ShowTime(c) ==
  /\ cend[c] = "open" /\ Unread(c)
  /\ shown' = [shown EXCEPT ![c] = TRUE]
  /\ UNCHANGED <<connVars, typed, wordVars>>

Killed(c) == Close(c, Unread(c)) /\ UNCHANGED <<typed, shown, wordVars>>

Finishes(c) == IF program \in LineServers
               THEN typed[c] # "no" /\ (ShowAnswer(c) \/ SeeEnd(c))
               ELSE ShowTime(c) \/ SeeEnd(c)

EchoClient(c)    == program = "echo" /\ (Call(c) \/ TypeLine(c) \/ Finishes(c))
UpperClient(c)   == program = "upper" /\ (Call(c) \/ TypeLine(c) \/ Finishes(c))
LineClient(c)    == program = "line" /\ (Call(c) \/ TypeLine(c) \/ Finishes(c))
DaytimeClient(c) == program = "daytime" /\ (Call(c) \/ Finishes(c))
TcpClient(c)     == program = "tcp" /\ (Call(c) \/ Finishes(c))

-----------------------------------------------------------------------------
(* The servers *)

AcceptNext == Accept /\ UNCHANGED <<typed, shown, wordVars>>

\* accept returned -1, read and write on it fail, and the loop starts over.
AcceptFails == AcceptFull /\ UNCHANGED iterVars

ReadLine == /\ conn # NoClient /\ up[conn] # <<>>
            /\ up' = [up EXCEPT ![conn] = Tail(@)]

\* The line goes back as it came, or in upper case with its size.
Return ==
  /\ ReadLine
  /\ Write(conn, Head(up[conn]))
  /\ UNCHANGED <<srv, conn, backlog, held, typed, shown, wordVars>>

\* Variant: the loop runs for one line only.
FinishAfterOne ==
  /\ conn # NoClient /\ (NothingFrom(conn) \/ got[conn] # <<>>)
  /\ conn' = NoClient
  /\ UNCHANGED <<srv, backlog, held, up, got, cend, typed, shown, wordVars>>

\* read returned 0 or -1.  The descriptor is not closed.
Finish ==
  /\ conn # NoClient /\ NothingFrom(conn)
  /\ conn' = NoClient
  /\ UNCHANGED <<srv, backlog, held, up, got, cend, typed, shown, wordVars>>

\* scanf takes one word: one left over from an earlier prompt, the first of
\* the one or two the operator types now, or none when the input has ended.
Scan ==
  \/ /\ ahead # <<>>
     /\ sendline' = Head(ahead)
     /\ ahead' = Tail(ahead)
     /\ UNCHANGED operator
  \/ /\ ahead = <<>> /\ operator # "ended"
     /\ sendline' = conn
     /\ \/ UNCHANGED <<ahead, operator>>
        \/ ahead' = <<conn>> /\ operator' = "ahead"
  \/ /\ ahead = <<>>
     /\ operator' = "ended"
     /\ UNCHANGED <<sendline, ahead>>

Relay ==
  /\ ReadLine
  /\ Scan
  /\ Write(conn, sendline')
  /\ UNCHANGED <<srv, conn, backlog, held, typed, shown>>


\* Variant: accept is not called again.
TellAgain == /\ conn # NoClient
             /\ Write(conn, TheTime)
             /\ UNCHANGED <<srv, conn, backlog, held, up, typed, shown, wordVars>>

\* write and close.
Tell ==
  /\ conn # NoClient
  /\ Write(conn, TheTime)
  /\ held' = [held EXCEPT ![conn] = {}]
  /\ conn' = NoClient
  /\ UNCHANGED <<srv, backlog, up, typed, shown, wordVars>>

EchoServer    == program = "echo" /\ (AcceptNext \/ AcceptFails \/ Return \/ Finish)
UpperServer   == program = "upper" /\ (AcceptNext \/ AcceptFails \/ Return \/ Finish)
LineServer    == program = "line" /\ (AcceptNext \/ AcceptFails \/ Relay \/ Finish)
DaytimeServer == program = "daytime" /\ (AcceptNext \/ Tell)
TcpServer     == program = "tcp" /\ (AcceptNext \/ Tell)

ServerRuns == \/ EchoServer \/ UpperServer \/ LineServer
              \/ DaytimeServer \/ TcpServer

ServerKilled == ServerEnds /\ UNCHANGED <<typed, shown, wordVars>>

Next ==
  \/ ServerRuns
  \/ ServerKilled
  \/ \E c \in Clients : \/ EchoClient(c) \/ UpperClient(c) \/ LineClient(c)
                        \/ DaytimeClient(c) \/ TcpClient(c)
                        \/ Killed(c)

-----------------------------------------------------------------------------
TypeOK ==
  /\ ConnTypeOK
  /\ typed \in [Clients -> {"no", "line", "end"}]
  /\ shown \in [Clients -> BOOLEAN]
  /\ up \in [Clients -> Seq(Clients)]
  /\ got \in [Clients -> Seq(Clients \cup {NoClient, TheTime})]
  /\ sendline \in Clients \cup {NoClient}
  /\ ahead \in Seq(Clients)
  /\ operator \in {"exact", "ahead", "ended"}

\* What a client is sent answers its own line although one buffer serves all,
\* and the time is told once; the operator's answers may go astray only when
\* a second word was typed at a prompt or the input has ended
\* (echo_server.c:49-54, upp_recv_server.c:68-84, s2c_chat_server.c:50-57).
AnswerIsOwn ==
  \A c \in Clients :
    IF program \in TimeServers THEN got[c] \in {<<>>, <<TheTime>>}
    ELSE \A k \in DOMAIN got[c] : \/ got[c][k] = c /\ typed[c] = "line"
                                  \/ program = "line" /\ operator # "exact"

\* No client is left behind: a server turns to the next connection only when
\* the last client has gone, or was told the time and hung up on.
EarlierAreDone ==
  \A c \in Clients \ {conn} :
    "server" \in held[c] => program \in LineServers /\ cend[c] # "open"

\* The operator is at the prompt.
Asked == program = "line" /\ conn # NoClient /\ up[conn] # <<>>

\* The server has a client in hand that is still there.
InHand == program \in LineServers /\ conn # NoClient /\ cend[conn] = "open"

\* c waits for a person: its own user, the operator, or the user of the client
\* that the server has in hand.
AtPrompt(c) == \/ Asked
               \/ program \in LineServers /\ typed[c] = "no"
               \/ InHand /\ typed[conn] = "no"

\* The user of the client in hand has ended the input, so that the client has
\* sent nothing: it reads, and so does the server, each waiting for the other
\* and everybody else for both (echo_client.c:45-48, echo_server.c:49).
BothRead == InHand /\ typed[conn] = "end" /\ up[conn] = <<>> /\ ~ Unread(conn)

\* No descriptor is left for c, which no server runs into that closes its own.
Refused(c) == program \in LineServers /\ AcceptFull /\ Pending(c)

=============================================================================

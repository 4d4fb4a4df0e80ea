--------------------------- MODULE ProtocolClient ---------------------------
(***************************************************************************)
(* The client of the first single-process student server, src/other/other/ *)
(* select/client.c, together with that server and guests.  The client      *)
(* sends its id, reads its record, reads once more, and only then asks its *)
(* user how to go on.  Its reads and writes block.                         *)
(***************************************************************************)
EXTENDS ProtocolServer

CONSTANT Programs    \* the clients that run client.c

ASSUME ProgramAssumption == Programs \subseteq Clients

VARIABLES
  ctl,       \* the call a program is at: a read, fgets, or not running
  seen,      \* number of texts it has read
  broken     \* a write or a read has told it that the connection is gone

clientVars == <<ctl, seen, broken>>
vars == <<protocolVars, clientVars>>

ClientInit ==
  /\ ctl = [p \in Programs |-> "none"]
  /\ seen = [p \in Programs |-> 0]
  /\ broken = [p \in Programs |-> FALSE]

Init == ServerInit /\ ClientInit

Waiting(p) == \E k \in DOMAIN backlog : backlog[k] = p

\* The server has closed its end, or its process is gone.
Over(p) ==
  /\ cend[p] = "open"
  /\ \/ srv = "killed"
     \/ ~ Connected(p) /\ ~ Waiting(p)

\* A process that dies with something unread resets the connection, which
\* one read reports as -1; in all other cases the end of a stream reads as 0.
ResetDue(p) == Over(p) /\ ~ broken[p] /\ (up[p] # <<>> \/ Waiting(p))

Unread(p) == seen[p] < Len(got[p])
AtEnd(p)  == ~ Unread(p) /\ Over(p)

\* connect, and the id.
Start(p) ==
  /\ Join(p)
  /\ ctl' = [ctl EXCEPT ![p] = "record"]
  /\ UNCHANGED <<seen, broken>>

Goto(p, call) == ctl' = [ctl EXCEPT ![p] = call] /\ UNCHANGED protocolVars

\* exit, or the end by a signal.
Exit(p) ==
  /\ ctl' = [ctl EXCEPT ![p] = "none"]
  /\ cend' = [cend EXCEPT ![p] = IF Unread(p) THEN "rst" ELSE "fin"]
  /\ UNCHANGED <<srv, backlog, up, masterFDs, readFDs, fdMax, sock>>
  /\ UNCHANGED <<store, recvBuffer, said, got, seen, broken>>

\* Reading a text, or the end.
ReadText(p) == /\ Unread(p)
               /\ seen' = [seen EXCEPT ![p] = @ + 1]
               /\ UNCHANGED broken
ReadEnd(p)  == /\ AtEnd(p)
               /\ broken' = [broken EXCEPT ![p] = @ \/ ResetDue(p)]
               /\ UNCHANGED seen

\* The result of the first read is not looked at.
ReadRecord(p) ==
  /\ ctl[p] = "record"
  /\ ReadText(p) \/ ReadEnd(p)
  /\ Goto(p, "ack")

\* n is the result of a comparison: only -1 ends the program.
ReadAck(p) ==
  /\ ctl[p] = "ack"
  /\ \/ ReadText(p) /\ Goto(p, "prompt")
     \/ ~ ResetDue(p) /\ ReadEnd(p) /\ Goto(p, "prompt")
     \/ ~ Unread(p) /\ ResetDue(p) /\ Exit(p)

\* Writes of texts, followed by the next call.  The first write after the
\* end of the connection is lost; one more raises SIGPIPE.
WriteThen(p, texts, call) ==
  \/ /\ ~ Over(p)
     /\ up' = [up EXCEPT ![p] = @ \o texts]
     /\ ctl' = [ctl EXCEPT ![p] = call]
     /\ UNCHANGED <<srv, backlog, cend, masterFDs, readFDs, fdMax, sock>>
     /\ UNCHANGED <<store, recvBuffer, said, got, broken>>
  \/ /\ Over(p) /\ ~ broken[p] /\ Len(texts) = 1
     /\ broken' = [broken EXCEPT ![p] = TRUE]
     /\ Goto(p, call)

WriteKills(p, texts) == Over(p) /\ (broken[p] \/ Len(texts) > 1) /\ Exit(p)

\* The user's line is sent, whatever it is.
Prompt(p, line) ==
  /\ ctl[p] = "prompt"
  /\ \/ /\ WriteThen(p, <<line>>, CASE line = "again" -> "repeat"
                                     [] line = "quit"  -> "quit"
                                     [] OTHER          -> "record")
        /\ UNCHANGED seen
     \/ WriteKills(p, <<line>>)

Quit(p) == ctl[p] = "quit" /\ Exit(p)

\* A record asked for is thanked for, and the next one asked for at once.
\* 0 ends the program, -1 does not.
Repeat(p) ==
  /\ ctl[p] = "repeat"
  /\ \/ ReadText(p) /\ WriteThen(p, <<"thank_you", "again">>, "record")
     \/ (Unread(p) \/ ResetDue(p)) /\ WriteKills(p, <<"thank_you", "again">>)
     \/ AtEnd(p) /\ ~ ResetDue(p) /\ Exit(p)

Killed(p) == ctl[p] # "none" /\ Exit(p)

Program(p) ==
  \/ Start(p)
  \/ ReadRecord(p)
  \/ ReadAck(p)
  \/ \E line \in Words \cup {"quit"} : Prompt(p, line)
  \/ Quit(p)
  \/ Repeat(p)
  \/ Killed(p)

Next ==
  \/ Server /\ UNCHANGED clientVars
  \/ \E c \in Clients \ Programs : Guest(c) /\ UNCHANGED clientVars
  \/ \E p \in Programs : Program(p)

\* The server process runs; guests and users do what they like.
Spec == Init /\ [][Next]_vars /\ WF_vars(Server /\ UNCHANGED clientVars)

-----------------------------------------------------------------------------
TypeOK ==
  /\ ServerTypeOK
  /\ ctl \in [Programs -> {"none", "record", "ack", "prompt", "repeat", "quit"}]
  /\ seen \in [Programs -> Nat]
  /\ broken \in [Programs -> BOOLEAN]

\* As long as the server serves it, the program is never done reading: after
\* the record it waits for an answer to a thanks it has not sent, so that its
\* user is asked to go on only when the connection is over (client.c:60-73,
\* server.c:152-170).
PromptedOnlyAfterEnd ==
  \A p \in Programs : ctl[p] \in {"prompt", "repeat", "quit"} => Over(p)
=============================================================================

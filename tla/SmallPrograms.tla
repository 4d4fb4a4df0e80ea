--------------------------- MODULE SmallPrograms ---------------------------
(***************************************************************************)
(* The programs of src/other that have no select loop and keep no          *)
(* container: a behaviour is one of the iterative servers, the stream      *)
(* server or the forking student server with its clients, or the exercise  *)
(* with fork and a pipe.                                                   *)
(***************************************************************************)
EXTENDS ChildPerClient

CONSTANTS
  Programs,                               \* the programs of this run
  Students, Callers, Talkers, MaxTexts,   \* of the forking server
  Width, NoSum                            \* of the exercise

VARIABLES
  program,
  typed, shown, sendline, ahead, operator,   \* of the iterative servers
  forked, sigchld, handling,                 \* of streamserver/server.c
  mem, said,                                 \* of other/server.c
  unset, sum, at, pipe, ends, full           \* of fork_pipe.c

iterativeVars == <<typed, shown, sendline, ahead, operator>>
streamVars    == <<forked, sigchld, handling>>
forkingVars   == <<mem, said>>
pipeVars      == <<unset, sum, at, pipe, ends, full>>
vars == <<program, connVars, proc, iterativeVars, streamVars, forkingVars, pipeVars>>

iterating == program \notin {"stream", "forking", "pipe"}

Iterative == INSTANCE IterativeServer
Stream    == INSTANCE StreamServer
Forking   == INSTANCE ForkingServer
Pipe      == INSTANCE ForkPipe

ProgramsAssumption ==
  /\ Programs \subseteq
       Iterative!LineServers \cup Iterative!TimeServers \cup {"stream", "forking", "pipe"}
  /\ Talkers \subseteq Callers /\ Callers \subseteq Clients
  /\ "unset" \notin Students /\ MaxTexts \in Nat
  /\ Width \in Nat \ {0} /\ NoSum \notin Nat

ASSUME ProgramsAssumption

Init ==
  /\ program \in Programs
  /\ Iterative!Init /\ Stream!Init /\ Forking!Init
  /\ Pipe!Init
  /\ program # "pipe" => unset = [p \in Pipe!Halves |-> 0]

IterativeOnly == UNCHANGED <<program, proc, streamVars, forkingVars, pipeVars>>
IterativeStep == iterating /\ Iterative!Next /\ IterativeOnly

StreamOnly == UNCHANGED <<program, iterativeVars, forkingVars, pipeVars>>
StreamStep == program = "stream" /\ Stream!Next /\ StreamOnly

ForkingStep ==
  /\ program = "forking" /\ Forking!Next
  /\ UNCHANGED <<program, iterativeVars, streamVars, pipeVars>>

PipeStep ==
  /\ program = "pipe" /\ Pipe!Next
  /\ UNCHANGED <<program, connVars, proc, iterativeVars, streamVars, forkingVars>>

Next == IterativeStep \/ StreamStep \/ ForkingStep \/ PipeStep

\* The kernel runs every process that can run.  Nobody must connect, type,
\* answer at a prompt or kill.
Spec ==
  /\ Init /\ [][Next]_vars
  /\ WF_vars(/\ iterating /\ ~ Iterative!Asked
             /\ Iterative!ServerRuns /\ IterativeOnly)
  /\ WF_vars(program = "stream" /\ Stream!Server /\ StreamOnly)
  /\ \A c \in Clients :
       /\ WF_vars(iterating /\ Iterative!Finishes(c) /\ IterativeOnly)
       /\ WF_vars(program = "stream" /\ Stream!Child(c) /\ StreamOnly)

-----------------------------------------------------------------------------
TypeOK == /\ program \in Programs
          /\ CASE program = "stream"  -> Stream!TypeOK
               [] program = "forking" -> Forking!TypeOK
               [] program = "pipe"    -> Pipe!TypeOK
               [] OTHER               -> Iterative!TypeOK

\* The client of an iterative server is sent what it asked for, and nothing
\* made from another's line (see IterativeServer).
AnswerIsOwn == iterating => Iterative!AnswerIsOwn

\* An iterative server turns to a client only when it is done with the last
\* (echo_server.c:41-56, daytimeserver.c:49-56).
EarlierAreDone == iterating => Iterative!EarlierAreDone


\* The stream server waits for each of its children
\* (streamserver/server.c:17-21).
NoZombieForgotten == program = "stream" => Stream!NoZombieForgotten

\* Every connection of the stream server ends, and the child with it
\* (streamserver/server.c:103-129).
ConnectionsEnd == program = "stream" => Stream!ConnectionsEnd

\* A client of the forking server gets the records it has asked for, no fewer
\* and no more (other/server.c:127-182).
RecordsEarned == program = "forking" => Forking!RecordsEarned

\* A child of the forking server that is done has closed the connection to its
\* client, as the comment says: "close conn for the client"
\* (other/server.c:139).  The server still has it open.
DoneIsClosed == program = "forking" => Forking!DoneIsClosed

\* The full sum is that of the whole array, and of what the variables held
\* before (fork_pipe.c:31-70).
FullSum == program = "pipe" => Pipe!FullSum
=============================================================================

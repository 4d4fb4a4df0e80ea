----------------------------- MODULE ChatServer -----------------------------
(***************************************************************************)
(* The chat server of src/other/select/selectserver.c: a select loop that  *)
(* passes what it receives from one connection on to all the others.  The  *)
(* clients are any programs that connect to it; there is none in the       *)
(* repository.  A line is a client and a number.  recv returns what has    *)
(* arrived: one or more lines, which are passed on in one piece.           *)
(***************************************************************************)
EXTENDS SelectLoop

CONSTANT MaxSaid    \* bound on the lines of all clients together

ASSUME ChatAssumption == MaxSaid \in Nat

VARIABLES
  said,       \* number of lines each client has sent
  log,        \* history: lines received by the server, in order
  joined,     \* history: length of log when each client was accepted
  got         \* history: lines that arrived at each client

chatVars == <<loopVars, said, log, joined, got>>

Lines == [from : Clients, n : 1 .. MaxSaid]

SaidSoFar == {line \in Lines : line.n <= said[line.from]}

Init ==
  /\ LoopInit
  /\ said = [c \in Clients |-> 0]
  /\ log = <<>>
  /\ joined = [c \in Clients |-> 0]
  /\ got = [c \in Clients |-> <<>>]

-----------------------------------------------------------------------------
(* A client *)

Join(c) == Connect(c, <<>>) /\ UNCHANGED <<said, log, joined, got>>

SayLine(c) ==
  /\ Cardinality(SaidSoFar) < MaxSaid
  /\ said' = [said EXCEPT ![c] = @ + 1]
  /\ Say(c, [from |-> c, n |-> said'[c]])
  /\ UNCHANGED <<log, joined, got>>

Leave(c) == Close(c, got[c] # <<>>) /\ UNCHANGED <<said, log, joined, got>>

-----------------------------------------------------------------------------
(* The server *)

WaitForReady == Select /\ UNCHANGED <<said, log, joined, got>>

NewConnection ==
  /\ \/ /\ AcceptClient
        /\ joined' = [joined EXCEPT ![Head(backlog)] = Len(log)]
     \/ /\ AcceptFails
        /\ UNCHANGED joined
  /\ UNCHANGED <<said, log, got>>

\* recv returns 0, or -1 after a reset.
HangUp(i) ==
  /\ Turn(i)
  /\ NothingFrom(sock[i])
  /\ CloseFD(i)
  /\ UNCHANGED <<srv, backlog, up, cend, fdMax, said, log, joined, got>>

\* Variant: the inner loop stops below fdMax.
OthersBelow(i) == {j \in masterFDs : j < fdMax /\ j # ListenFD /\ j # i}

\* The descriptors the inner loop sends to, and those of them it has sent to
\* when the send to stop kills the process, or none does.
Others(i) == {j \in masterFDs : j <= fdMax /\ j # ListenFD /\ j # i}

Nowhere == MaxFD + 1

Stops(i) == {j \in Others(i) : MayKill(cend[sock[j]])} \cup {Nowhere}

Reached(i, stop) == {j \in Others(i) : j < stop}

Broadcast(i) ==
  /\ Turn(i)
  /\ \E n \in 1 .. Len(up[sock[i]]), stop \in Stops(i) :
       LET c    == sock[i]
           text == SubSeq(up[c], 1, n)
           to   == {sock[j] : j \in Reached(i, stop)}
       IN  /\ \A d \in to : ~ MustKill(cend[d])
           /\ up' = [up EXCEPT ![c] = SubSeq(@, n + 1, Len(@))]
           /\ log' = log \o text
           /\ got' = [d \in Clients |->
                        IF d \in to /\ cend[d] = "open" THEN got[d] \o text
                                                        ELSE got[d]]
           /\ \E told \in SUBSET {d \in to : cend[d] = "rst"} :
                cend' = [d \in Clients |->
                           IF d \in told THEN "reset"
                           ELSE IF d \in to /\ cend[d] = "fin" THEN "poked"
                           ELSE cend[d]]
           /\ srv' = IF stop = Nowhere THEN srv ELSE "killed"
  /\ UNCHANGED <<backlog, masterFDs, fdMax, sock, said, joined>>

Server ==
  \/ WaitForReady
  \/ NewConnection
  \/ \E i \in Fds : HangUp(i)
  \/ \E i \in Fds : Broadcast(i)

Next ==
  \/ Server
  \/ \E c \in Clients : Join(c) \/ SayLine(c) \/ Leave(c)

\* The process runs; the clients do what they like.
Spec == Init /\ [][Next]_chatVars /\ WF_chatVars(Server)

-----------------------------------------------------------------------------
TypeOK ==
  /\ LoopTypeOK
  /\ up \in [Clients -> Seq(Lines)]
  /\ said \in [Clients -> 0 .. MaxSaid]
  /\ log \in Seq(Lines)
  /\ joined \in [Clients -> Nat]
  /\ got \in [Clients -> Seq(Lines)]

\* What c should have seen: the lines of the others since it was accepted.
Due(c) ==
  LET due[k \in joined[c] .. Len(log)] ==
        IF k = joined[c] THEN <<>>
        ELSE IF log[k].from = c THEN due[k - 1] ELSE Append(due[k - 1], log[k])
  IN  due[Len(log)]

\* A client that stays connected has got every line of every other client
\* since it was accepted, each once, all in the order the server received
\* them, and none of its own (selectserver.c:147-159).
NoLineMissed ==
  srv = "up" =>
    \A c \in Clients : Connected(c) /\ cend[c] = "open" => got[c] = Due(c)

\* What an accepted client has said is received, and so passed on.
LinesReceived ==
  \A c \in Clients :
    (Connected(c) /\ up[c] # <<>>) ~> (srv = "killed" \/ up[c] = <<>>)
=============================================================================

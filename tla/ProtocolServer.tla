--------------------------- MODULE ProtocolServer ---------------------------
(***************************************************************************)
(* The first single-process student server, src/other/other/select/        *)
(* server.c: a select loop with a session per descriptor, found again by   *)
(* descriptor number and never removed.  The helpers it includes are not   *)
(* in its directory; Accept, Read and Write are those of its sibling       *)
(* src/other/other/server.c:32-64, which report an error and return -1.    *)
(* Its guests are any programs that send the id they were started with and *)
(* then "thank_you" and "again" as they like; ProtocolClient adds the      *)
(* program that belongs to it.  A read returns one or more whole texts;    *)
(* the code looks only at the start of what it read.                       *)
(***************************************************************************)
EXTENDS SelectLoop

CONSTANTS
  Known,      \* the clients whose id is in the student list
  MaxSaid,    \* bound on the words all guests together send after their ids
  Garbage,    \* an allocated, unwritten StudentDetail
  NoSession   \* no session for this descriptor

ASSUME ProtocolAssumption ==
  /\ Known \subseteq Clients
  /\ MaxSaid \in Nat

VARIABLES
  store,      \* session of each descriptor number
  recvBuffer, \* what the last successful read returned
  said,       \* number of words the guests have sent
  got         \* history: what arrived at each client

protocolVars == <<loopVars, store, recvBuffer, said, got>>

\* A client stands for its id and for its record in the student list.
Words    == {"thank_you", "again"}
Texts    == Clients \cup Words \cup {"quit"}
Sessions == [data : Known \cup {Garbage}, send : BOOLEAN, tq : BOOLEAN]

\* No program is started with one of the words for its id.
ASSUME TextAssumption ==
  /\ Clients \cap (Words \cup {"quit"}) = {}
  /\ NoSession \notin Sessions

ServerInit ==
  /\ LoopInit
  /\ store = [f \in Fds |-> NoSession]
  /\ recvBuffer = "again"
  /\ said = 0
  /\ got = [c \in Clients |-> <<>>]

-----------------------------------------------------------------------------
(* A guest *)

Join(c) == Connect(c, <<c>>) /\ UNCHANGED <<store, recvBuffer, said, got>>

SayWord(c, word) ==
  /\ said < MaxSaid
  /\ said' = said + 1
  /\ Say(c, word)
  /\ UNCHANGED <<store, recvBuffer, got>>

Leave(c) ==
  Close(c, got[c] # <<>>) /\ UNCHANGED <<store, recvBuffer, said, got>>

-----------------------------------------------------------------------------
(* The server *)

WaitForReady == Select /\ UNCHANGED <<store, recvBuffer, said, got>>

NewConnection ==
  (AcceptClient \/ AcceptFails) /\ UNCHANGED <<store, recvBuffer, said, got>>

\* Read returned 0.  The session stays in the list.
HangUp(i) ==
  /\ Turn(i)
  /\ NothingFrom(sock[i])
  /\ cend[sock[i]] # "rst"
  /\ CloseFD(i)
  /\ UNCHANGED <<srv, backlog, up, cend, fdMax, store, recvBuffer, said, got>>

\* Variant: a new session does not ask for its record.
SessionUnflagged(i, text) ==
  IF store[i] # NoSession THEN store[i]
  ELSE [data |-> IF text \in Known THEN text ELSE Garbage,
        send |-> FALSE, tq |-> FALSE]

\* ss_search by descriptor, or a new session for the id that was read.
SessionFor(i, text) ==
  IF store[i] # NoSession THEN store[i]
  ELSE [data |-> IF text \in Known THEN text ELSE Garbage,
        send |-> TRUE, tq |-> FALSE]

NotFound(i, text) == store[i] = NoSession /\ text \notin Known

\* Variant: every text is acknowledged.
RepliesAlways(session, text) ==
  (IF session.send THEN <<session.data>> ELSE <<>>) \o <<"ackTy">>

\* What the handler writes for a text, and the session it leaves.
Replies(session, text) ==
  (IF session.send THEN <<session.data>> ELSE <<>>)
    \o (IF text = "thank_you" THEN <<"ackTy">> ELSE <<>>)

\* Variant: sending the record does not clear the send flag.
AnsweredKeeping(session, text) ==
  LET thanked == session.tq \/ text = "thank_you"
      again   == thanked /\ text = "again"
  IN [session EXCEPT !.send = @ \/ again, !.tq = thanked /\ ~ again]

Answered(session, text) ==
  LET thanked == session.tq \/ text = "thank_you"
      again   == thanked /\ text = "again"
  IN [session EXCEPT !.send = again, !.tq = thanked /\ ~ again]

\* Writing the replies to a client whose end is e: they arrive, or are lost,
\* and one of them may raise SIGPIPE after n others.
WriteAll(c, e, replies) ==
  /\ \E n \in 0 .. Len(replies) :
       \E last \in IF n = 0 THEN {e} ELSE EndsAfterWrites(e) :
         /\ n # 0 => ~ MustKill(e)
         /\ cend' = [cend EXCEPT ![c] = last]
         /\ IF n = Len(replies) THEN UNCHANGED srv
                                ELSE MayKill(last) /\ srv' = "killed"
  /\ got' = [got EXCEPT ![c] = IF e = "open" THEN @ \o replies ELSE @]

\* Variant: the descriptor of an unknown id is closed and not cleared.
HandleUncleared(i, text, e) ==
  LET session == SessionFor(i, text)
  IN  /\ store' = [store EXCEPT ![i] = Answered(session, text)]
      /\ IF NotFound(i, text)
         THEN /\ sock' = [sock EXCEPT ![i] = NoClient]
              /\ cend' = [cend EXCEPT ![sock[i]] = e]
              /\ UNCHANGED <<srv, got, masterFDs>>
         ELSE WriteAll(sock[i], e, Replies(session, text))
                /\ UNCHANGED <<masterFDs, sock>>

\* Handling text as read from i.  After an unknown id the descriptor is
\* closed and the writes fail; the session is stored all the same.
Handle(i, text, e) ==
  LET session == SessionFor(i, text)
  IN  /\ store' = [store EXCEPT ![i] = Answered(session, text)]
      /\ IF NotFound(i, text)
         THEN CloseFD(i) /\ cend' = [cend EXCEPT ![sock[i]] = e]
                         /\ UNCHANGED <<srv, got>>
         ELSE WriteAll(sock[i], e, Replies(session, text))
                /\ UNCHANGED <<masterFDs, sock>>

Request(i) ==
  /\ Turn(i)
  /\ \E n \in 1 .. Len(up[sock[i]]) :
       LET c == sock[i]
       IN  /\ recvBuffer' = Head(up[c])
           /\ up' = [up EXCEPT ![c] = SubSeq(@, n + 1, Len(@))]
           /\ Handle(i, Head(up[c]), cend[c])
  /\ UNCHANGED <<backlog, fdMax, said>>

\* Read returned -1, which is not 0: the previous text, of whatever client,
\* is handled again for i.
ReadError(i) ==
  /\ Turn(i)
  /\ NothingFrom(sock[i])
  /\ cend[sock[i]] = "rst"
  /\ Handle(i, recvBuffer, "reset")
  /\ UNCHANGED <<backlog, up, fdMax, recvBuffer, said>>

Server ==
  \/ WaitForReady
  \/ NewConnection
  \/ \E i \in Fds : HangUp(i)
  \/ \E i \in Fds : Request(i)
  \/ \E i \in Fds : ReadError(i)

Guest(c) == Join(c) \/ Leave(c) \/ \E word \in Words : SayWord(c, word)

-----------------------------------------------------------------------------
ServerTypeOK ==
  /\ LoopTypeOK
  /\ up \in [Clients -> Seq(Texts)]
  /\ store \in [Fds -> Sessions \cup {NoSession}]
  /\ recvBuffer \in Texts
  /\ said \in 0 .. MaxSaid
  /\ got \in [Clients -> Seq(Known \cup {Garbage, "ackTy"})]

\* A connection is sent a second record only after a thank_you that was
\* acknowledged to it, whatever a descriptor's earlier user, a reset or a
\* read of several texts did to the flags (server.c of other/select:152-176).
EarnedRecords ==
  \A c \in Clients : \A j, k \in DOMAIN got[c] :
    (j < k /\ got[c][j] # "ackTy" /\ got[c][k] # "ackTy")
      => \E m \in j .. k : got[c][m] = "ackTy"

\* What the comment at :125 says, "send data of current client": a client
\* is sent no record but its own.
OwnRecordsOnly ==
  \A c \in Clients : \A j \in DOMAIN got[c] : got[c][j] \in {c, "ackTy"}

\* A known client that is given a descriptor nobody used before gets its
\* record, unless it leaves or the server is killed.
FreshClientsServed ==
  \A c \in Known :
    (\E f \in Fds : sock[f] = c /\ store[f] = NoSession)
      ~> (srv = "killed" \/ cend[c] # "open" \/ got[c] # <<>>)
=============================================================================

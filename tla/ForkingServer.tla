--------------------------- MODULE ForkingServer ---------------------------
(***************************************************************************)
(* The forking student server, src/other/other/server.c: a child process   *)
(* for each connection, with its own copy of the flags, answers the first  *)
(* text with the student's record and each "again" after a "thank_you"     *)
(* with the record again.  The server keeps every connection open, waits   *)
(* for no child and ends when it cannot fork.                              *)
(***************************************************************************)
EXTENDS ChildPerClient

CONSTANTS
  Students,   \* ids in the student list
  Callers,    \* bound: the clients that connect to this server
  Talkers,    \* bound: the clients that send it anything
  MaxTexts    \* bound: number of texts a client sends

VARIABLES
  mem,        \* the variables of each child
  said        \* what each client has sent

vars == <<connVars, proc, mem, said>>

Texts == Students \cup {"thank_you", "again", "quit"}

\* recvBuffer is unset at first, and clientStudentDetail until a search finds.
NewChild == [first |-> TRUE, write |-> FALSE, thanked |-> FALSE,
             detail |-> "unset", text |-> "unset"]

Init ==
  /\ ConnInit
  /\ proc = [c \in Clients |-> "none"]
  /\ mem = [c \in Clients |-> NewChild]
  /\ said = [c \in Clients |-> <<>>]

-----------------------------------------------------------------------------
(* The clients *)

Call(c)   == c \in Callers /\ Connect(c, <<>>) /\ UNCHANGED <<proc, mem, said>>
HangUp(c) == /\ \E unread \in {FALSE, got[c] # <<>>} : Close(c, unread)
             /\ UNCHANGED <<proc, mem, said>>

\* Bound: one text at a time is under way.
Say(c) ==
  \E text \in Texts :
    /\ c \in Talkers /\ up[c] = <<>> /\ Len(said[c]) < MaxTexts
    /\ Send(c, text)
    /\ said' = [said EXCEPT ![c] = Append(@, text)]
    /\ UNCHANGED <<proc, mem>>

-----------------------------------------------------------------------------
(* The server *)

AcceptNext == Accept /\ UNCHANGED <<proc, mem, said>>

ForkChild ==
  /\ conn # NoClient
  /\ Fork(conn, NoClient)
  /\ proc' = [proc EXCEPT ![conn] = "read"]
  /\ UNCHANGED <<up, got, cend, mem, said>>

\* accept returned -1 and the server forks all the same, again and again; all
\* such children are one "stray" here.
ForkStray ==
  /\ AcceptFull
  /\ Fork("stray", NoClient)
  /\ UNCHANGED <<up, got, cend, proc, mem, said>>

ForkFails ==
  /\ conn # NoClient \/ AcceptFull
  /\ EndServer
  /\ UNCHANGED <<mem, said>>

-----------------------------------------------------------------------------
(* A child *)

SetText(c, text) ==
  /\ mem' = [mem EXCEPT ![c].text = text]
  /\ proc' = [proc EXCEPT ![c] = "handle"]

ReadText(c) ==
  /\ proc[c] = "read" /\ up[c] # <<>>
  /\ SetText(c, Head(up[c]))
  /\ up' = [up EXCEPT ![c] = Tail(@)]
  /\ UNCHANGED <<srv, conn, backlog, held, got, cend, said>>

\* read returned 0, which makes the text empty, or -1 to report a reset, which
\* leaves the text as it was.
ReadEnd(c) ==
  /\ proc[c] = "read" /\ NothingFrom(c)
  /\ \E text \in IF cend[c] \in {"fin", "reset"} THEN {""} ELSE {"", mem[c].text} :
       SetText(c, text)
  /\ cend' = [cend EXCEPT ![c] = IF @ = "rst" THEN "reset" ELSE @]
  /\ UNCHANGED <<srv, conn, backlog, held, up, got, said>>

\* What atoi and search may make of a text: memory that was never written may
\* hold any id.
Found(text) == IF text = "unset" THEN Students ELSE Students \cap {text}
Missed(text) == text \notin Students

\* The first text is no student's id: close and exit.
NotFound(c) ==
  /\ proc[c] = "handle" /\ mem[c].first /\ Missed(mem[c].text)
  /\ EndChild(c)
  /\ mem' = [mem EXCEPT ![c] = NewChild]
  /\ UNCHANGED <<srv, conn, backlog, up, got, cend, said>>

\* Variant: write_flag is not reset.
AfterwardsUnreset(m) == [m EXCEPT !.first = FALSE, !.thanked = FALSE]

\* The record is written: the flags are reset, and the request is counted.
Afterwards(m) == [m EXCEPT !.first = FALSE, !.write = FALSE, !.thanked = FALSE]

\* Variant: what search finds is not stored.
FlaggedUnset(m, detail) ==
  LET thanked == m.thanked \/ m.text = "thank_you"
  IN  [m EXCEPT !.thanked = thanked,
                !.write   = @ \/ m.first \/ (thanked /\ m.text = "again")]

\* The record found and the flags, after a text and before anything is written.
Flagged(m, detail) ==
  LET thanked == m.thanked \/ m.text = "thank_you"
  IN  [m EXCEPT !.detail  = detail,
                !.thanked = thanked,
                !.write   = @ \/ m.first \/ (thanked /\ m.text = "again")]

\* The rest of the loop's body, up to the next read or exit.  A write to a
\* connection that the client has closed may raise SIGPIPE, but for the first.
Handle(c) ==
  /\ proc[c] = "handle"
  /\ \E detail \in IF mem[c].first THEN Found(mem[c].text) ELSE {mem[c].detail},
        killed \in BOOLEAN :
       LET m == Flagged(mem[c], detail)
       IN  /\ killed => m.write /\ MayKill(cend[c])
           /\ m.write /\ MustKill(cend[c]) => killed
           /\ IF m.write THEN Write(c, m.detail) ELSE UNCHANGED <<got, cend>>
           /\ IF m.text = "quit" \/ killed
              THEN EndChild(c) /\ mem' = [mem EXCEPT ![c] = NewChild]
              ELSE /\ mem' = [mem EXCEPT ![c] = IF m.write THEN Afterwards(m) ELSE m]
                   /\ proc' = [proc EXCEPT ![c] = "read"]
                   /\ UNCHANGED held
  /\ UNCHANGED <<srv, conn, backlog, up, said>>

\* The children without a connection take what recvBuffer holds for an id:
\* they exit, or read on for ever.
StraysEnd ==
  /\ \E c \in Clients : "stray" \in held[c]
  /\ held' = WithoutProcess("stray")
  /\ UNCHANGED <<srv, conn, backlog, up, got, cend, proc, mem, said>>

ServerKilled == EndServer /\ UNCHANGED <<mem, said>>

Server == AcceptNext \/ ForkChild \/ ForkStray \/ ForkFails

Child(c) == ReadText(c) \/ ReadEnd(c) \/ NotFound(c) \/ Handle(c)

Next ==
  \/ Server \/ StraysEnd \/ ServerKilled
  \/ \E c \in Clients : Call(c) \/ HangUp(c) \/ Say(c) \/ Child(c)

-----------------------------------------------------------------------------
TypeOK ==
  /\ ConnTypeOK
  /\ proc \in [Clients -> {"none", "read", "handle"} \cup Ended]
  /\ mem \in [Clients -> [first : BOOLEAN, write : BOOLEAN, thanked : BOOLEAN,
                          detail : Students \cup {"unset"},
                          text : Texts \cup {"", "unset"}]]
  /\ {up, said, got} \subseteq [Clients -> Seq(Texts)]

\* The repeats a client has asked for: each "again" with a thank_you of its own.
Repeats(c) ==
  {i \in DOMAIN said[c] :
     /\ said[c][i] = "again"
     /\ \E j \in 2..i : /\ said[c][j] = "thank_you"
                        /\ \A k \in j..(i - 1) : said[c][k] # "again"}

\* Whatever the clients send, in any order and however their connections end,
\* a client gets the record of the id it sent first, once and once more for
\* each repeat it has asked for: never more often, nor before it has sent
\* anything, and just as often when its child has come to the next read, as
\* long as the client listens (server.c:127-182).
RecordsEarned ==
  \A c \in Clients :
    /\ \A k \in DOMAIN got[c] : got[c][k] = said[c][1]
    /\ Len(got[c]) <= 1 + Cardinality(Repeats(c))
    /\ proc[c] = "read" /\ up[c] = <<>> /\ cend[c] = "open"
         => Len(got[c]) = IF said[c] = <<>> THEN 0 ELSE 1 + Cardinality(Repeats(c))

\* A child that is done has closed the connection to its client, as the
\* comments say: "close conn for the client" (server.c:139), "closing
\* connection to client" (server.c:184).  The server still has it open.
DoneIsClosed == \A c \in Clients : proc[c] \in Ended => held[c] = {}
=============================================================================

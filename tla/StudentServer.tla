--------------------------- MODULE StudentServer ---------------------------
(***************************************************************************)
(* The server of src/assignment (server.c with server_store_ll.c,          *)
(* student_ll.c and utils.c): one process, one thread, one select loop.    *)
(*                                                                         *)
(* A pass of the loop starts with select() and then visits the ready       *)
(* descriptors in ascending order.  Visiting one descriptor is one action: *)
(* the process runs alone between two reads, and what a client does while  *)
(* a visit runs has the same effect as doing it just before or just after. *)
(***************************************************************************)
EXTENDS Sockets

CONSTANTS
  ListenFD,    \* the listening descriptor, opened first
  MaxFD,       \* the highest descriptor the process may have open
  StudentIds,  \* the ids in the list built by st_ll_get
  Blocks,      \* addresses malloc may return for a struct SS_Data
  Block0,      \* the struct SS_Data main allocates before the loop
  NoClient,    \* marks a descriptor that is not open
  NoId         \* an id that is no student's: atoi of a text with no digits

VARIABLES
  masterFDs,   \* the set handed to select
  readFDs,     \* ready descriptors this pass has not visited yet
  fdMax,       \* highest descriptor ever in masterFDs
  sock,        \* the process's descriptor table: the peer of each descriptor
  serverStore, \* the sessions: the SS_Data blocks linked in the list
  sess,        \* contents of the SS_Data blocks
  clientData,  \* the block clientData points to, kept between messages
  sent         \* history: ids of the details written to each client

serverVars == <<masterFDs, readFDs, fdMax, sock, serverStore, sess,
                clientData, sent>>

Fds == (ListenFD + 1) .. MaxFD

ServerAssumption ==
  /\ ListenFD \in Nat
  /\ MaxFD \in Nat
  /\ StudentIds \subseteq Ids
  /\ NoId \notin Ids \cup Labels \cup Words
  /\ Blocks \subseteq Nat
  /\ Block0 \in Blocks
  /\ NoClient \notin Clients

ASSUME ServerAssumption

Session == [fd : Fds \cup {0}, clientId : Ids \cup {NoId},
            s_flag : {0, 1}, ty_flag : {0, 1}, data : Ids \cup {NoId}]

ServerTypeOK ==
  /\ masterFDs \subseteq Fds \cup {ListenFD}
  /\ readFDs \subseteq Fds \cup {ListenFD}
  /\ fdMax \in Fds \cup {ListenFD}
  /\ sock \in [Fds -> Clients \cup {NoClient}]
  /\ serverStore \subseteq Blocks
  /\ sess \in [Blocks -> Session]
  /\ clientData \in Blocks
  /\ sent \in [Clients -> Seq(Ids)]

\* Block0 is never written before its first use; it is the first use of
\* fresh heap memory, so its flags read as 0 and its data pointer is not
\* a student's record.
ServerInit ==
  /\ masterFDs = {ListenFD}
  /\ readFDs = {}
  /\ fdMax = ListenFD
  /\ sock = [f \in Fds |-> NoClient]
  /\ serverStore = {}
  /\ sess = [b \in Blocks |-> [fd |-> 0, clientId |-> NoId, s_flag |-> 0,
                               ty_flag |-> 0, data |-> NoId]]
  /\ clientData = Block0
  /\ sent = [c \in Clients |-> <<>>]

-----------------------------------------------------------------------------
(* The session list and the student list *)

\* Variant: the walk stops a node too early.
ss_searchShort(i) ==
  IF Cardinality(serverStore) <= 1 THEN {}
  ELSE {b \in serverStore : sess[b].fd = i}

\* Blocks in the list whose fd is i.
ss_search(i) == {b \in serverStore : sess[b].fd = i}

\* ss_delete unlinks one match, and nothing when there is none.
ss_delete(i) ==
  \/ ss_search(i) = {} /\ serverStore' = serverStore
  \/ \E b \in ss_search(i) : serverStore' = serverStore \ {b}

\* Variant: the send flag is left as create_ss clears it.
create_ssUnflagged(i, id) ==
  [fd |-> i, clientId |-> id, s_flag |-> 0, ty_flag |-> 0, data |-> id]

\* The record made for a first request, with the send flag main sets on it.
create_ss(i, id) ==
  [fd |-> i, clientId |-> id, s_flag |-> 1, ty_flag |-> 0, data |-> id]

st_search(id) == id \in StudentIds

atoi(text) == IF text \in Ids THEN text ELSE NoId

\* The block malloc returns: one that no pointer of the program reaches.
\* Which of them is irrelevant, so it is the lowest.
Fresh(b) ==
  LET free == Blocks \ (serverStore \cup {clientData})
  IN  b \in free /\ \A other \in free : b <= other

-----------------------------------------------------------------------------
(* select *)

OpenFds == {f \in Fds : sock[f] # NoClient}

\* Descriptors below nfds that are still in masterFDs but closed: select
\* fails with EBADF on any of them.
BadFds == {f \in masterFDs : f \in Fds \ OpenFds /\ f <= fdMax}

\* Variant: the loop visits masterFDs, not what select left of its copy.
AllWatched == {f \in masterFDs : f <= fdMax}

ReadyFds ==
  {f \in masterFDs :
     /\ f <= fdMax
     /\ \/ f = ListenFD /\ backlog # <<>>
        \/ f \in OpenFds /\ Readable(sock[f])}

Select ==
  /\ srv = "up"
  /\ readFDs = {}
  /\ \/ /\ BadFds # {}
        /\ srv' = "exited"
        /\ readFDs' = readFDs
     \/ /\ BadFds = {}
        /\ ReadyFds # {}
        /\ readFDs' = ReadyFds
        /\ srv' = srv
  /\ UNCHANGED <<backlog, up, down, cend, masterFDs, fdMax, sock,
                 serverStore, sess, clientData, sent>>

\* The loop visits the lowest ready descriptor that is left.
Turn(i) ==
  /\ srv = "up"
  /\ i \in readFDs
  /\ \A f \in readFDs : i <= f
  /\ readFDs' = readFDs \ {i}

-----------------------------------------------------------------------------
(* A new connection: the kernel hands out the lowest free descriptor.  With *)
(* none left accept fails, and Accept ends the process.                     *)

\* Variant: fdMax is never raised.
AcceptBelowMax ==
  /\ Turn(ListenFD)
  /\ \E newFD \in Fds \ OpenFds :
       /\ \A f \in Fds \ OpenFds : newFD <= f
       /\ sock' = [sock EXCEPT ![newFD] = Head(backlog)]
       /\ backlog' = Tail(backlog)
       /\ masterFDs' = masterFDs \cup {newFD}
  /\ UNCHANGED <<srv, fdMax, up, down, cend, serverStore, sess, clientData, sent>>

\* Variant: fdMax holds the count for select, one more than the descriptor.
AcceptCounting ==
  /\ Turn(ListenFD)
  /\ \E newFD \in Fds \ OpenFds :
       /\ \A f \in Fds \ OpenFds : newFD <= f
       /\ sock' = [sock EXCEPT ![newFD] = Head(backlog)]
       /\ backlog' = Tail(backlog)
       /\ masterFDs' = masterFDs \cup {newFD}
       /\ fdMax' = IF newFD >= fdMax THEN newFD + 1 ELSE fdMax
  /\ UNCHANGED <<srv, up, down, cend, serverStore, sess, clientData, sent>>

AcceptClient ==
  /\ Turn(ListenFD)
  /\ \/ /\ OpenFds = Fds
        /\ srv' = "exited"
        /\ UNCHANGED <<backlog, masterFDs, fdMax, sock>>
     \/ \E newFD \in Fds \ OpenFds :
          /\ \A f \in Fds \ OpenFds : newFD <= f
          /\ sock' = [sock EXCEPT ![newFD] = Head(backlog)]
          /\ backlog' = Tail(backlog)
          /\ masterFDs' = masterFDs \cup {newFD}
          /\ fdMax' = IF newFD > fdMax THEN newFD ELSE fdMax
          /\ srv' = srv
  /\ UNCHANGED <<up, down, cend, serverStore, sess, clientData, sent>>

-----------------------------------------------------------------------------
(* A client's descriptor *)

\* Read closes the descriptor when read() returns nothing, error or not.
ReadCloses(i) == sock' = [sock EXCEPT ![i] = NoClient]

\* Variant: the session of a closed connection is not deleted.
HangUpKeepingSession(i) ==
  /\ Turn(i)
  /\ AtEOF(sock[i])
  /\ sock' = [sock EXCEPT ![i] = NoClient]
  /\ masterFDs' = masterFDs \ {i}
  /\ UNCHANGED <<srv, backlog, up, down, cend, fdMax, serverStore, sess,
                 clientData, sent>>

\* read() returns 0: Read closes i, main drops it and its session.
HangUp(i) ==
  /\ Turn(i)
  /\ AtEOF(sock[i])
  /\ ReadCloses(i)
  /\ masterFDs' = masterFDs \ {i}
  /\ ss_delete(i)
  /\ UNCHANGED <<srv, backlog, up, down, cend, fdMax, sess, clientData, sent>>

\* Variant: a read error clears the descriptor and keeps the session.
ReadErrorClearing(i) ==
  /\ Turn(i)
  /\ AtReset(sock[i])
  /\ sock' = [sock EXCEPT ![i] = NoClient]
  /\ masterFDs' = masterFDs \ {i}
  /\ UNCHANGED <<srv, backlog, up, down, cend, fdMax, serverStore, sess,
                 clientData, sent>>

\* read() returns -1: Read closes i as well, but main takes the branch of a
\* request, with an empty struct: i stays in masterFDs and its session in
\* the list.  Without a session the answer is written to the closed i, and
\* Write ends the process.
ReadError(i) ==
  /\ Turn(i)
  /\ AtReset(sock[i])
  /\ ReadCloses(i)
  /\ \/ \E b \in ss_search(i) :
          /\ clientData' = b
          /\ srv' = IF sess[b].s_flag = 1 THEN "exited" ELSE srv
     \/ /\ ss_search(i) = {}
        /\ clientData' = clientData
        /\ srv' = "exited"
  /\ UNCHANGED <<backlog, up, down, cend, masterFDs, fdMax, serverStore,
                 sess, sent>>

\* Variant: "again" takes the thanks but does not ask for the record.
AgainForgotten(s, res) ==
  LET word == IF res.msg = "buffer" THEN res.buffer ELSE "blank"
  IN  CASE word = "thank_you" -> [s EXCEPT !.ty_flag = 1]
        [] word = "again"     -> [s EXCEPT !.ty_flag = 0]
        [] OTHER              -> s

\* Variant: "again" leaves the thanks standing for the next "again".
ThanksKept(s, res) ==
  LET word == IF res.msg = "buffer" THEN res.buffer ELSE "blank"
  IN  CASE word = "thank_you"                   -> [s EXCEPT !.ty_flag = 1]
        [] word = "again" /\ s.ty_flag = 1 -> [s EXCEPT !.s_flag = 1]
        [] OTHER                                -> s

\* The two flags after the words of a request.
Flagged(s, res) ==
  LET word     == IF res.msg = "buffer" THEN res.buffer ELSE "blank"
      thanked  == IF word = "thank_you" THEN [s EXCEPT !.ty_flag = 1] ELSE s
  IN  IF word = "again" /\ thanked.ty_flag = 1
      THEN [thanked EXCEPT !.ty_flag = 0, !.s_flag = 1]
      ELSE thanked

\* The end of a request from c: clientData points to block b, whose record
\* was s when the request was looked up, and answer is what was written so
\* far.  A record asked for is sent, whoever it belongs to; that of Block0
\* is read through a wild pointer.
Respond(c, b, s, answer, res) ==
  LET f      == Flagged(s, res)
      detail == answer \o DetailFrame(f.data)
  IN  /\ clientData' = b
      /\ \/ /\ f.s_flag = 0
            /\ ServerWriteOk(c, answer)
            /\ sess' = [sess EXCEPT ![b] = f]
            /\ UNCHANGED <<srv, sent>>
         \/ /\ f.s_flag = 1
            /\ f.data \in Ids
            /\ ServerWriteOk(c, detail)
            /\ sess' = [sess EXCEPT ![b] = [f EXCEPT !.s_flag = 0]]
            /\ sent' = [sent EXCEPT ![c] = Append(@, f.data)]
            /\ UNCHANGED srv
         \/ /\ f.s_flag = 1
            /\ f.data \notin Ids
            /\ ServerWriteOk(c, answer)
            /\ sess' = [sess EXCEPT ![b] = f]
            /\ srv' = "segv"
            /\ UNCHANGED sent
         \/ /\ ServerWriteFails(c, IF f.s_flag = 1 /\ f.data \in Ids
                                   THEN detail ELSE answer)
            /\ sess' = [sess EXCEPT ![b] = f]
            /\ srv' = "exited"
            /\ UNCHANGED sent

\* read() returns n > 0 cells.  The session of i is looked up; without one
\* the request is a client id, which makes a session when it is a student's
\* and is refused otherwise.  A refusal leaves clientData at whatever the
\* last request used.
Request(i) ==
  /\ Turn(i)
  /\ \E n \in ReadSizes(up[sock[i]]) :
       LET c   == sock[i]
           res == Message(SubSeq(up[c], 1, n))
           id  == atoi(res.buffer)
       IN  /\ up' = [up EXCEPT ![c] = Rest(@, n)]
           /\ \/ \E b \in ss_search(i) :
                   /\ Respond(c, b, sess[b], <<>>, res)
                   /\ UNCHANGED serverStore
              \/ /\ ss_search(i) = {}
                 /\ st_search(id)
                 /\ \E b \in Blocks :
                      /\ Fresh(b)
                      /\ serverStore' = serverStore \cup {b}
                      /\ Respond(c, b, create_ss(i, id), <<>>, res)
              \/ /\ ss_search(i) = {}
                 /\ ~ st_search(id)
                 /\ Respond(c, clientData, sess[clientData],
                            TextFrame("not_found"), res)
                 /\ UNCHANGED serverStore
  /\ UNCHANGED <<backlog, masterFDs, fdMax, sock>>

ServerNext ==
  \/ Select
  \/ AcceptClient
  \/ \E i \in Fds : HangUp(i)
  \/ \E i \in Fds : ReadError(i)
  \/ \E i \in Fds : Request(i)
=============================================================================

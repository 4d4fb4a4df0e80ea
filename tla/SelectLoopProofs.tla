-------------------------- MODULE SelectLoopProofs --------------------------
(***************************************************************************)
(* Lemmas about SelectLoop, for both servers built from it: what each kind *)
(* of step does to the invariant of the loop, for any clients and any      *)
(* size of the descriptor table.                                           *)
(***************************************************************************)
EXTENDS SelectLoop, SequenceTheorems, TLAPS

\* A client has one connection, which is in one place: not made yet, in the
\* backlog or on one descriptor.
OneEach ==
  /\ \A f, g \in OpenFds : sock[f] = sock[g] => f = g
  /\ \A j, k \in DOMAIN backlog : backlog[j] = backlog[k] => j = k
  /\ \A k \in DOMAIN backlog : \A f \in OpenFds : sock[f] # backlog[k]
  /\ \A k \in DOMAIN backlog : cend[backlog[k]] # "none"
  /\ \A f \in OpenFds : cend[sock[f]] # "none"

\* VisitsNeverBlock, of a process that was killed as well.
StillReady ==
  \A f \in readFDs : \/ f = ListenFD /\ backlog # <<>>
                     \/ f \in OpenFds /\ Readable(sock[f])

LoopInv == LoopTypeOK /\ WatchedAreOpen /\ StillReady /\ OneEach

\* What the invariant is for: every visit finds something to read or accept.
LEMMA LoopInvImplies == LoopInv => LoopTypeOK /\ WatchedAreOpen /\ VisitsNeverBlock
BY DEF LoopInv, StillReady, VisitsNeverBlock

\* Descriptors are numbers above that of the listening socket.
LEMMA FdsFacts ==
  /\ ListenFD \in Nat /\ ListenFD \notin Fds
  /\ Fds \subseteq Nat
  /\ \A f \in Fds : ListenFD < f
  /\ NoClient \notin Clients
BY LoopAssumption DEF LoopAssumption, Fds

\* An open descriptor is a client's.
LEMMA OpenFdsFacts ==
  ASSUME LoopTypeOK, NEW f \in OpenFds
  PROVE  f \in Fds /\ sock[f] \in Clients
BY DEF LoopTypeOK, OpenFds

\* Only the listening socket is watched at first.
LEMMA LoopInitInv ==
  ASSUME LoopInit
  PROVE  LoopInv
<1>1. OpenFds = {}
  BY DEF LoopInit, OpenFds
<1>2. LoopTypeOK
  BY LoopAssumption DEF LoopInit, LoopTypeOK, EndStates
<1>3. backlog = <<>> /\ readFDs = {} /\ masterFDs = {ListenFD} /\ fdMax = ListenFD
  BY DEF LoopInit
<1> QED  BY <1>1, <1>2, <1>3, FdsFacts
    DEF LoopInv, WatchedAreOpen, StillReady, OneEach

\* Steps that leave the descriptors alone and take nothing away that can be
\* read: what clients send and how they close.
LEMMA QuietStep ==
  ASSUME LoopInv, UNCHANGED <<backlog, masterFDs, readFDs, fdMax, sock>>,
         srv' \in {"up", "killed"}, cend' \in [Clients -> EndStates],
         \A c \in Clients : cend'[c] = "none" => cend[c] = "none",
         \A c \in Clients : Readable(c) => Readable(c)'
  PROVE  LoopInv'
<1>1. OpenFds' = OpenFds
  BY DEF OpenFds
<1>2. LoopTypeOK'
  BY DEF LoopInv, LoopTypeOK
<1>3. WatchedAreOpen'
  BY <1>1 DEF LoopInv, WatchedAreOpen
<1>4. \A f \in OpenFds : f \in Fds /\ sock[f] \in Clients
  BY OpenFdsFacts DEF LoopInv
<1>5. StillReady'
  BY <1>1, <1>4 DEF LoopInv, StillReady
<1>6. OneEach'
  <2>1. \A k \in DOMAIN backlog : backlog[k] \in Clients
    BY DEF LoopInv, LoopTypeOK
  <2> QED  BY <1>1, <1>4, <2>1 DEF LoopInv, OneEach
<1> QED  BY <1>2, <1>3, <1>5, <1>6 DEF LoopInv

\* A client that was not connected goes to the end of the backlog.
LEMMA ConnectStep ==
  ASSUME LoopInv, NEW T, up \in [Clients -> Seq(T)],
         NEW c \in Clients, NEW first, Connect(c, first)
  PROVE  LoopInv'
<1>1. /\ LoopTypeOK /\ cend[c] = "none" /\ backlog \in Seq(Clients)
      /\ backlog' = Append(backlog, c)
      /\ cend' = [cend EXCEPT ![c] = "open"] /\ cend \in [Clients -> EndStates]
      /\ up' = [up EXCEPT ![c] = first]
      /\ UNCHANGED <<srv, masterFDs, readFDs, fdMax, sock>>
  BY DEF LoopInv, LoopTypeOK, Connect
<1>2. /\ OpenFds' = OpenFds
      /\ \A f \in OpenFds : f \in Fds /\ sock[f] \in Clients /\ sock[f] # c
  BY <1>1, OpenFdsFacts DEF OpenFds, LoopInv, OneEach
<1>3. /\ Len(backlog) \in Nat /\ DOMAIN backlog = 1 .. Len(backlog)
      /\ DOMAIN backlog' = 1 .. Len(backlog) + 1
      /\ \A k \in DOMAIN backlog : backlog'[k] = backlog[k] /\ backlog[k] \in Clients
      /\ backlog'[Len(backlog) + 1] = c /\ backlog' # <<>>
      /\ backlog' \in Seq(Clients)
  <2>1. /\ Len(backlog) \in Nat /\ DOMAIN backlog = 1 .. Len(backlog)
        /\ \A k \in 1 .. Len(backlog) : backlog[k] \in Clients
    BY <1>1, LenProperties, ElementOfSeq
  <2>2. /\ backlog' \in Seq(Clients) /\ Len(backlog') = Len(backlog) + 1
        /\ \A k \in 1 .. Len(backlog) : backlog'[k] = backlog[k]
        /\ backlog'[Len(backlog) + 1] = c /\ backlog' # <<>>
    BY <1>1, AppendProperties
  <2>3. DOMAIN backlog' = 1 .. Len(backlog) + 1
    BY <2>2, LenProperties
  <2> QED  BY <2>1, <2>2, <2>3
<1>4. \A k \in DOMAIN backlog : backlog[k] # c
  BY <1>1 DEF LoopInv, OneEach
<1>5. LoopTypeOK'
  BY <1>1, <1>3 DEF LoopTypeOK, EndStates
<1>6. WatchedAreOpen'
  BY <1>1, <1>2 DEF LoopInv, WatchedAreOpen
<1>7. StillReady'
  BY <1>1, <1>2, <1>3 DEF LoopInv, StillReady, Readable
<1>8. \A k \in DOMAIN backlog' : k \in DOMAIN backlog \/ k = Len(backlog) + 1
  BY <1>3
<1>9. \A x \in Clients : x # c => cend'[x] = cend[x]
  BY <1>1
<1>10. cend'[c] = "open"
  BY <1>1
<1>11. OneEach'
  <2>1. \A f, g \in OpenFds' : sock'[f] = sock'[g] => f = g
    BY <1>1, <1>2 DEF LoopInv, OneEach
  <2>2. \A j, k \in DOMAIN backlog' : backlog'[j] = backlog'[k] => j = k
    BY <1>3, <1>4, <1>8 DEF LoopInv, OneEach
  <2>3. \A k \in DOMAIN backlog' : \A f \in OpenFds' : sock'[f] # backlog'[k]
    BY <1>1, <1>2, <1>3, <1>8 DEF LoopInv, OneEach
  <2>4. \A k \in DOMAIN backlog' : cend'[backlog'[k]] # "none"
    BY <1>3, <1>8, <1>9, <1>10 DEF LoopInv, OneEach
  <2>5. \A f \in OpenFds' : cend'[sock'[f]] # "none"
    BY <1>1, <1>2, <1>9 DEF LoopInv, OneEach
  <2> QED  BY <2>1, <2>2, <2>3, <2>4, <2>5 DEF OneEach
<1> QED  BY <1>5, <1>6, <1>7, <1>11 DEF LoopInv

\* A client adds to what it has sent.
LEMMA SayStep ==
  ASSUME LoopInv, NEW T, up \in [Clients -> Seq(T)],
         NEW c \in Clients, NEW text \in T, Say(c, text)
  PROVE  LoopInv' /\ up' \in [Clients -> Seq(T)]
<1>1. up[c] \in Seq(T) /\ Append(up[c], text) \in Seq(T) /\ Append(up[c], text) # <<>>
  BY AppendProperties
<1>2. up' = [up EXCEPT ![c] = Append(up[c], text)]
  BY DEF Say
<1>3. \A d \in Clients : Readable(d) => Readable(d)'
  BY <1>1, <1>2 DEF Say, Readable
<1>4. LoopInv'
  BY <1>3, QuietStep DEF Say, LoopInv, LoopTypeOK
<1> QED  BY <1>1, <1>2, <1>4

\* A client closes its end, which makes its descriptor readable.
LEMMA CloseStep ==
  ASSUME LoopInv, NEW c \in Clients, NEW unread \in BOOLEAN, Close(c, unread)
  PROVE  LoopInv' /\ up' = up
<1>1. PICK e \in {"fin", "rst"} : cend' = [cend EXCEPT ![c] = e]
  BY DEF Close
<1>2. cend \in [Clients -> EndStates] /\ cend' \in [Clients -> EndStates]
  BY <1>1 DEF LoopInv, LoopTypeOK, EndStates
<1>3. \A d \in Clients : Readable(d) => Readable(d)'
  BY <1>1, <1>2 DEF Close, Readable
<1>4. \A d \in Clients : cend'[d] = "none" => cend[d] = "none"
  BY <1>1, <1>2
<1> QED  BY <1>2, <1>3, <1>4, QuietStep DEF Close, LoopInv, LoopTypeOK

\* select: what is ready stays ready until it is visited.
LEMMA SelectStep ==
  ASSUME LoopInv, Select
  PROVE  LoopInv'
<1>1. OpenFds' = OpenFds
  BY DEF OpenFds, Select
<1>2. /\ LoopTypeOK /\ readFDs' = ReadyFds
      /\ UNCHANGED <<srv, backlog, up, cend, masterFDs, fdMax, sock>>
  BY DEF LoopInv, Select
<1>3. ReadyFds \subseteq Fds \cup {ListenFD}
  BY <1>2 DEF ReadyFds, LoopTypeOK
<1>4. LoopTypeOK'
  BY <1>2, <1>3 DEF LoopTypeOK
<1>5. WatchedAreOpen'
  BY <1>1, <1>2 DEF LoopInv, WatchedAreOpen
<1>6. StillReady'
  BY <1>1, <1>2 DEF StillReady, ReadyFds, Readable
<1>7. OneEach'
  BY <1>1, <1>2 DEF LoopInv, OneEach
<1> QED  BY <1>4, <1>5, <1>6, <1>7 DEF LoopInv

\* accept finds no descriptor.
LEMMA AcceptFailsStep ==
  ASSUME LoopInv, AcceptFails
  PROVE  LoopInv'
<1>1. OpenFds' = OpenFds
  BY DEF OpenFds, AcceptFails
<1>2. /\ LoopTypeOK /\ readFDs' \subseteq readFDs
      /\ UNCHANGED <<srv, backlog, up, cend, masterFDs, fdMax, sock>>
  BY DEF LoopInv, AcceptFails, Turn
<1>3. LoopTypeOK'
  BY <1>2 DEF LoopTypeOK
<1>4. WatchedAreOpen'
  BY <1>1, <1>2 DEF LoopInv, WatchedAreOpen
<1>5. StillReady'
  BY <1>1, <1>2 DEF LoopInv, StillReady, Readable
<1>6. OneEach'
  BY <1>1, <1>2 DEF LoopInv, OneEach
<1> QED  BY <1>3, <1>4, <1>5, <1>6 DEF LoopInv

\* What accept does: the oldest connection of the backlog gets a free
\* descriptor, and fdMax stays above every descriptor that is watched.
LEMMA AcceptStep ==
  ASSUME LoopInv, AcceptClient
  PROVE  /\ LoopInv'
         /\ Head(backlog) \in Clients
         /\ \E k \in DOMAIN backlog : backlog[k] = Head(backlog)
         /\ \E newFD \in Fds \ OpenFds :
              /\ sock' = [sock EXCEPT ![newFD] = Head(backlog)]
              /\ OpenFds' = OpenFds \cup {newFD}
<1>1. PICK newFD \in Fds \ OpenFds :
        /\ sock' = [sock EXCEPT ![newFD] = Head(backlog)]
        /\ masterFDs' = masterFDs \cup {newFD}
        /\ fdMax' = IF newFD > fdMax THEN newFD ELSE fdMax
  BY DEF AcceptClient
<1>2. /\ LoopTypeOK /\ backlog \in Seq(Clients) /\ backlog' = Tail(backlog)
      /\ ListenFD \in readFDs /\ readFDs' = readFDs \ {ListenFD}
      /\ UNCHANGED <<srv, up, cend>>
      /\ sock \in [Fds -> Clients \cup {NoClient}]
  BY DEF LoopInv, LoopTypeOK, AcceptClient, Turn
<1>3. backlog # <<>>
  BY <1>2, FdsFacts, OpenFdsFacts DEF LoopInv, StillReady
<1>4. /\ Len(backlog) \in Nat \ {0} /\ DOMAIN backlog = 1 .. Len(backlog)
      /\ Head(backlog) = backlog[1] /\ Head(backlog) \in Clients
      /\ backlog' \in Seq(Clients)
      /\ DOMAIN backlog' = 1 .. Len(backlog) - 1
      /\ \A k \in DOMAIN backlog' : backlog'[k] = backlog[k + 1]
  BY <1>2, <1>3, HeadTailProperties, LenProperties, EmptySeq
<1>5. OpenFds' = OpenFds \cup {newFD}
  BY <1>1, <1>2, <1>4, FdsFacts DEF OpenFds
<1>6. \A f \in OpenFds : f \in Fds /\ f # newFD /\ sock'[f] = sock[f] /\ sock[f] \in Clients
  BY <1>1, <1>2, OpenFdsFacts
<1>7. sock'[newFD] = Head(backlog)
  BY <1>1, <1>2
<1>8. LoopTypeOK'
  <2>1. fdMax' \in Fds \cup {ListenFD}
    BY <1>1, <1>2 DEF LoopTypeOK
  <2>2. sock' \in [Fds -> Clients \cup {NoClient}]
    BY <1>1, <1>2, <1>4
  <2> QED  BY <1>1, <1>2, <1>4, <2>1, <2>2 DEF LoopTypeOK
<1>9. WatchedAreOpen'
  <2>1. masterFDs' = OpenFds' \cup {ListenFD}
    BY <1>1, <1>5 DEF LoopInv, WatchedAreOpen
  <2>2. \A f \in masterFDs : f \in Nat /\ f <= fdMax
    BY <1>2, FdsFacts DEF LoopInv, WatchedAreOpen, LoopTypeOK
  <2>3. fdMax \in Nat /\ newFD \in Nat
    BY <1>2, FdsFacts DEF LoopTypeOK
  <2>4. \A f \in masterFDs' : f <= fdMax'
    BY <1>1, <2>2, <2>3
  <2> QED  BY <2>1, <2>4 DEF WatchedAreOpen
<1>10. StillReady'
  BY <1>2, <1>5, <1>6 DEF LoopInv, StillReady, Readable
<1>11. \A k \in DOMAIN backlog' : k + 1 \in DOMAIN backlog /\ k + 1 # 1 /\ 1 \in DOMAIN backlog
  BY <1>4
<1>12. OneEach'
  <2>1. \A f, g \in OpenFds' : sock'[f] = sock'[g] => f = g
    <3>1. \A f \in OpenFds : sock[f] # Head(backlog)
      BY <1>4 DEF LoopInv, OneEach
    <3> QED  BY <1>5, <1>6, <1>7, <3>1 DEF LoopInv, OneEach
  <2>2. ASSUME NEW j \in DOMAIN backlog', NEW k \in DOMAIN backlog', backlog'[j] = backlog'[k]
        PROVE  j = k
    <3>1. j + 1 = k + 1
      BY <1>4, <1>11, <2>2 DEF LoopInv, OneEach
    <3> QED  BY <1>4, <3>1
  <2>3. ASSUME NEW k \in DOMAIN backlog', NEW f \in OpenFds'
        PROVE  sock'[f] # backlog'[k]
    <3>1. backlog'[k] = backlog[k + 1] /\ backlog[k + 1] # backlog[1]
      BY <1>4, <1>11 DEF LoopInv, OneEach
    <3>2. \A g \in OpenFds : sock[g] # backlog[k + 1]
      BY <1>11 DEF LoopInv, OneEach
    <3> QED  BY <1>4, <1>5, <1>6, <1>7, <3>1, <3>2
  <2>4. \A k \in DOMAIN backlog' : cend'[backlog'[k]] # "none"
    BY <1>2, <1>4, <1>11 DEF LoopInv, OneEach
  <2>5. \A f \in OpenFds' : cend'[sock'[f]] # "none"
    BY <1>2, <1>4, <1>5, <1>6, <1>7 DEF LoopInv, OneEach
  <2> QED  BY <2>1, <2>2, <2>3, <2>4, <2>5 DEF OneEach
<1>13. LoopInv'
  BY <1>8, <1>9, <1>10, <1>12 DEF LoopInv
<1>14. 1 \in DOMAIN backlog /\ backlog[1] = Head(backlog)
  BY <1>4
<1> QED  BY <1>1, <1>4, <1>5, <1>13, <1>14

\* A connection's turn: what it sent is read, clients are written to, and its
\* descriptor is closed or left open.  What the others sent is not touched,
\* so that they are still ready when their turn comes.
LEMMA VisitStep ==
  ASSUME LoopInv, NEW i \in Fds, Turn(i), UNCHANGED <<backlog, fdMax>>,
         srv' \in {"up", "killed"}, cend' \in [Clients -> EndStates],
         \A c \in Clients : cend'[c] \in {"none", "open"} => cend[c] = cend'[c],
         \A c \in Clients : c # sock[i] => up'[c] = up[c],
         CloseFD(i) \/ UNCHANGED <<masterFDs, sock>>
  PROVE  LoopInv'
<1>1. /\ LoopTypeOK /\ i \in readFDs /\ readFDs' = readFDs \ {i}
      /\ sock \in [Fds -> Clients \cup {NoClient}]
  BY DEF LoopInv, LoopTypeOK, Turn
<1>2. i \in OpenFds
  BY <1>1, FdsFacts DEF LoopInv, StillReady
<1>3. /\ OpenFds' \subseteq OpenFds
      /\ \A f \in OpenFds : f # i => f \in OpenFds'
      /\ \A f \in OpenFds' : sock'[f] = sock[f]
      /\ sock' \in [Fds -> Clients \cup {NoClient}]
      /\ masterFDs' \subseteq masterFDs
  BY <1>1, FdsFacts DEF CloseFD, OpenFds
<1>4. \A f \in OpenFds : f \in Fds /\ sock[f] \in Clients
  BY <1>1, OpenFdsFacts
<1>5. LoopTypeOK'
  BY <1>1, <1>3 DEF LoopTypeOK
<1>6. WatchedAreOpen'
  <2>1. CASE CloseFD(i)
    <3>1. OpenFds' = OpenFds \ {i}
      BY <1>1, <2>1 DEF CloseFD, OpenFds
    <3> QED  BY <2>1, <3>1, FdsFacts DEF LoopInv, WatchedAreOpen, CloseFD
  <2>2. CASE UNCHANGED <<masterFDs, sock>>
    <3>1. OpenFds' = OpenFds
      BY <2>2 DEF OpenFds
    <3> QED  BY <2>2, <3>1 DEF LoopInv, WatchedAreOpen
  <2> QED  BY <2>1, <2>2
<1>7. StillReady'
  <2>1. ASSUME NEW f \in readFDs', f # ListenFD
        PROVE  f \in OpenFds' /\ Readable(sock[f])'
    <3>1. f \in readFDs /\ f # i /\ f \in OpenFds /\ Readable(sock[f])
      BY <1>1, <2>1 DEF LoopInv, StillReady
    <3>2. f \in OpenFds' /\ sock'[f] = sock[f] /\ sock[f] \in Clients
      BY <1>3, <1>4, <3>1
    <3>3. sock[f] # sock[i]
      BY <1>2, <3>1 DEF LoopInv, OneEach
    <3>4. Readable(sock[f])'
      BY <3>1, <3>2, <3>3 DEF Readable
    <3> QED  BY <3>2, <3>4
  <2>2. ListenFD \in readFDs' => backlog' # <<>>
    BY <1>1, FdsFacts, <1>4 DEF LoopInv, StillReady
  <2> QED  BY <2>1, <2>2 DEF StillReady
<1>8. OneEach'
  <2>1. \A k \in DOMAIN backlog : backlog[k] \in Clients
    BY <1>1 DEF LoopTypeOK
  <2> QED  BY <1>3, <1>4, <2>1 DEF LoopInv, OneEach
<1> QED  BY <1>5, <1>6, <1>7, <1>8 DEF LoopInv
=============================================================================

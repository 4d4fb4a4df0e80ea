--------------------------- MODULE ProtocolProofs ---------------------------
(***************************************************************************)
(* Proofs about ProtocolServer and ProtocolClient, for any clients, ids    *)
(* and descriptor table: the loop watches what is open, no connection is   *)
(* sent two records without an acknowledged thanks between them, and       *)
(* client.c never gets as far as asking its user while it is served.       *)
(***************************************************************************)
EXTENDS ProtocolClient, SelectLoopProofs

Records == Known \cup {Garbage, "ackTy"}

-----------------------------------------------------------------------------
(* What one connection is sent *)

Earned(s) ==
  \A j, k \in DOMAIN s :
    (j < k /\ s[j] # "ackTy" /\ s[k] # "ackTy") => \E m \in j .. k : s[m] = "ackTy"

\* Every record in s is followed by an acknowledgement.
Settled(s) ==
  \A j \in DOMAIN s :
    s[j] # "ackTy" => \E m \in DOMAIN s : j < m /\ s[m] = "ackTy"

\* Who was sent nothing is owed nothing.
LEMMA EmptyEarned == Earned(<<>>) /\ Settled(<<>>)
BY DEF Earned, Settled

\* An acknowledgement settles everything before it.
LEMMA AckSettles ==
  ASSUME NEW s \in Seq(Records), Earned(s)
  PROVE  LET t == Append(s, "ackTy")
         IN  t \in Seq(Records) /\ Earned(t) /\ Settled(t)
<1> DEFINE t == Append(s, "ackTy")
<1>1. /\ Len(s) \in Nat /\ DOMAIN s = 1 .. Len(s) /\ DOMAIN t = 1 .. Len(s) + 1
      /\ \A k \in 1 .. Len(s) : t[k] = s[k]
      /\ t[Len(s) + 1] = "ackTy" /\ t \in Seq(Records)
  BY AppendProperties, LenProperties DEF Records
<1> HIDE DEF t
<1>2. Earned(t)
  <2> SUFFICES ASSUME NEW j \in DOMAIN t, NEW k \in DOMAIN t, j < k,
                      t[j] # "ackTy", t[k] # "ackTy"
               PROVE  \E m \in j .. k : t[m] = "ackTy"
    BY DEF Earned
  <2>1. j \in DOMAIN s /\ k \in DOMAIN s /\ s[j] # "ackTy" /\ s[k] # "ackTy"
    BY <1>1
  <2>2. PICK m \in j .. k : s[m] = "ackTy"
    BY <2>1 DEF Earned
  <2> QED  BY <1>1, <2>1, <2>2
<1>3. Settled(t)
  BY <1>1 DEF Settled
<1> QED  BY <1>1, <1>2, <1>3 DEF t

\* A record may follow when everything before it is settled.
LEMMA RecordEarned ==
  ASSUME NEW s \in Seq(Records), Earned(s), Settled(s), NEW r \in Records
  PROVE  LET t == Append(s, r)
         IN  t \in Seq(Records) /\ Earned(t)
<1> DEFINE t == Append(s, r)
<1>1. /\ Len(s) \in Nat /\ DOMAIN s = 1 .. Len(s) /\ DOMAIN t = 1 .. Len(s) + 1
      /\ \A k \in 1 .. Len(s) : t[k] = s[k]
      /\ t \in Seq(Records)
  BY AppendProperties, LenProperties
<1> HIDE DEF t
<1>2. Earned(t)
  <2> SUFFICES ASSUME NEW j \in DOMAIN t, NEW k \in DOMAIN t, j < k,
                      t[j] # "ackTy", t[k] # "ackTy"
               PROVE  \E m \in j .. k : t[m] = "ackTy"
    BY DEF Earned
  <2>1. j \in DOMAIN s /\ s[j] # "ackTy"
    BY <1>1
  <2>2. CASE k \in DOMAIN s
    <3>1. PICK m \in j .. k : s[m] = "ackTy"
      BY <1>1, <2>1, <2>2 DEF Earned
    <3> QED  BY <1>1, <2>1, <2>2, <3>1
  <2>3. CASE k \notin DOMAIN s
    <3>1. PICK m \in DOMAIN s : j < m /\ s[m] = "ackTy"
      BY <2>1 DEF Settled
    <3> QED  BY <1>1, <2>3, <3>1
  <2> QED  BY <2>2, <2>3
<1> QED  BY <1>1, <1>2 DEF t

-----------------------------------------------------------------------------
(* The flags of a session *)

\* send and tq are never up together, and either is up only when what the
\* connection has got is settled.
FlagsFit(session, s) ==
  /\ ~ (session.send /\ session.tq)
  /\ session.send \/ session.tq => Settled(s)

\* Handling a text: what is written is earned, and the flags fit again.
LEMMA RepliesEarned ==
  ASSUME NEW session \in Sessions, NEW text, NEW s \in Seq(Records),
         Earned(s), FlagsFit(session, s)
  PROVE  LET t == s \o Replies(session, text)
         IN  /\ t \in Seq(Records) /\ Earned(t)
             /\ FlagsFit(Answered(session, text), t)
<1> DEFINE a == Answered(session, text)
           t == s \o Replies(session, text)
           s1 == IF session.send THEN Append(s, session.data) ELSE s
<1>1. /\ session.data \in Records /\ session.send \in BOOLEAN /\ session.tq \in BOOLEAN
  BY DEF Sessions, Records
<1>2. /\ a.send <=> (session.tq \/ text = "thank_you") /\ text = "again"
      /\ a.tq <=> (session.tq \/ text = "thank_you") /\ text # "again"
  BY DEF Answered, Sessions
<1>3. s1 \in Seq(Records) /\ Earned(s1)
  BY <1>1, RecordEarned DEF FlagsFit
<1>4. t = IF text = "thank_you" THEN Append(s1, "ackTy") ELSE s1
  <2>1. s \in Seq(Records) /\ session.data \in Records /\ "ackTy" \in Records
    BY <1>1 DEF Records
  <2>2. /\ <<session.data>> \in Seq(Records) /\ <<"ackTy">> \in Seq(Records)
        /\ s \o <<session.data>> = Append(s, session.data)
        /\ s1 \o <<"ackTy">> = Append(s1, "ackTy")
    BY <1>3, <2>1, AppendIsConcat
  <2>3. /\ s \o (<<session.data>> \o <<"ackTy">>) = (s \o <<session.data>>) \o <<"ackTy">>
        /\ <<session.data>> \o <<>> = <<session.data>>
        /\ <<>> \o <<"ackTy">> = <<"ackTy">> /\ <<>> \o <<>> = <<>> /\ s \o <<>> = s
    BY <2>1, <2>2, ConcatAssociative, ConcatEmptySeq
  <2> QED  BY <2>2, <2>3 DEF Replies
<1> HIDE DEF a, t, s1
<1>5. CASE text = "thank_you"
  <2>1. t \in Seq(Records) /\ Earned(t) /\ Settled(t)
    BY <1>3, <1>4, <1>5, AckSettles
  <2> QED  BY <1>2, <1>5, <2>1 DEF FlagsFit, a, t
<1>6. CASE text # "thank_you"
  <2>1. t = s1
    BY <1>4, <1>6
  <2>2. a.send \/ a.tq => session.tq
    BY <1>2, <1>6
  <2>3. session.tq => s1 = s /\ Settled(s)
    BY DEF FlagsFit, s1
  <2> QED  BY <1>2, <1>3, <2>1, <2>2, <2>3 DEF FlagsFit, a, t
<1> QED  BY <1>5, <1>6

\* A session stays a session.
LEMMA AnsweredTyped ==
  ASSUME NEW session \in Sessions, NEW text
  PROVE  Answered(session, text) \in Sessions
BY DEF Answered, Sessions

-----------------------------------------------------------------------------
(* The server *)

\* A client that was not accepted yet has got nothing.
NothingYet ==
  /\ \A c \in Clients : cend[c] = "none" => got[c] = <<>>
  /\ \A k \in DOMAIN backlog : got[backlog[k]] = <<>>

\* The session a descriptor's earlier user left behind fits its present one
\* as well, as long as that one is there to be sent something.
SessionsFit ==
  /\ \A f \in OpenFds : store[f] = NoSession => got[sock[f]] = <<>>
  /\ \A f \in Fds : store[f] # NoSession => ~ (store[f].send /\ store[f].tq)
  /\ \A f \in OpenFds :
       store[f] # NoSession /\ cend[sock[f]] = "open" => FlagsFit(store[f], got[sock[f]])

AllEarned == \A c \in Clients : Earned(got[c])

ServInv ==
  /\ LoopInv
  /\ ServerTypeOK
  /\ NothingYet
  /\ SessionsFit
  /\ AllEarned

\* The server's part of the invariant says what the theorems state of it.
LEMMA ServInvImplies == ServInv => WatchedAreOpen /\ EarnedRecords
BY LoopInvImplies DEF ServInv, AllEarned, Earned, EarnedRecords

\* A server without connections.
LEMMA ServInit ==
  ASSUME ServerInit
  PROVE  ServInv
<1>1. LoopInv /\ OpenFds = {} /\ Fds \subseteq Nat
  BY LoopInitInv, FdsFacts DEF ServerInit, LoopInit, OpenFds
<1>2. /\ up = [c \in Clients |-> <<>>] /\ got = [c \in Clients |-> <<>>] /\ backlog = <<>>
      /\ store = [f \in Fds |-> NoSession] /\ recvBuffer = "again" /\ said = 0
  BY DEF ServerInit, LoopInit
<1>3. ServerTypeOK
  <2>1. 0 \in 0 .. MaxSaid /\ "again" \in Texts
    BY ProtocolAssumption DEF Texts, Words
  <2> QED  BY <1>1, <1>2, <2>1 DEF ServerTypeOK, LoopInv
<1>4. NothingYet /\ SessionsFit /\ AllEarned
  BY <1>1, <1>2, EmptyEarned DEF NothingYet, SessionsFit, AllEarned
<1> QED  BY <1>1, <1>3, <1>4 DEF ServInv

\* The types that most steps need.
LEMMA ServTyped ==
  ServInv => /\ LoopInv /\ up \in [Clients -> Seq(Texts)]
             /\ got \in [Clients -> Seq(Records)]
             /\ cend \in [Clients -> EndStates]
             /\ store \in [Fds -> Sessions \cup {NoSession}]
             /\ sock \in [Fds -> Clients \cup {NoClient}]
             /\ backlog \in Seq(Clients)
BY DEF ServInv, ServerTypeOK, LoopInv, LoopTypeOK, Records

\* Steps that write nothing to anybody and leave the sessions alone.
LEMMA ServQuiet ==
  ASSUME ServInv, LoopInv', UNCHANGED <<store, got>>,
         up' \in [Clients -> Seq(Texts)], recvBuffer' \in Texts, said' \in 0 .. MaxSaid,
         OpenFds' \subseteq OpenFds, \A f \in OpenFds' : sock'[f] = sock[f],
         \A c \in Clients : cend'[c] = "none" => cend[c] = "none",
         \A c \in Clients : cend'[c] = "open" => cend[c] \in {"open", "none"},
         \A k \in DOMAIN backlog' : got[backlog'[k]] = <<>>
  PROVE  ServInv'
<1>1. ServerTypeOK'
  BY DEF ServInv, ServerTypeOK, LoopInv
<1>2. NothingYet' /\ AllEarned'
  BY DEF ServInv, NothingYet, AllEarned
<1>3. ASSUME NEW f \in OpenFds', cend'[sock'[f]] = "open"
      PROVE  f \in OpenFds /\ sock'[f] = sock[f] /\ cend[sock[f]] = "open"
  <2>1. f \in OpenFds /\ sock'[f] = sock[f] /\ sock[f] \in Clients
    BY OpenFdsFacts DEF ServInv, LoopInv
  <2>2. cend[sock[f]] # "none"
    BY <2>1 DEF ServInv, LoopInv, OneEach
  <2> QED  BY <1>3, <2>1, <2>2
<1>4. SessionsFit'
  BY <1>3 DEF ServInv, SessionsFit
<1> QED  BY <1>1, <1>2, <1>4 DEF ServInv

\* connect and the first text, for guests and for client.c.
LEMMA JoinStep ==
  ASSUME ServInv, NEW c \in Clients, Join(c)
  PROVE  ServInv' /\ OpenFds' = OpenFds
<1>1. /\ Connect(c, <<c>>) /\ UNCHANGED <<store, recvBuffer, said, got>>
      /\ LoopInv /\ up \in [Clients -> Seq(Texts)] /\ backlog \in Seq(Clients)
      /\ cend \in [Clients -> EndStates]
  BY ServTyped DEF Join
<1>2. LoopInv'
  BY <1>1, ConnectStep
<1>3. /\ up' = [up EXCEPT ![c] = <<c>>] /\ cend' = [cend EXCEPT ![c] = "open"]
      /\ backlog' = Append(backlog, c) /\ cend[c] = "none"
      /\ UNCHANGED <<srv, sock>>
  BY <1>1 DEF Connect
<1>4. up' \in [Clients -> Seq(Texts)]
  BY <1>1, <1>3 DEF Texts
<1>5. OpenFds' = OpenFds
  BY <1>3 DEF OpenFds
<1>6. \A k \in DOMAIN backlog' : got[backlog'[k]] = <<>>
  <2>1. /\ DOMAIN backlog = 1 .. Len(backlog) /\ DOMAIN backlog' = 1 .. Len(backlog')
        /\ Len(backlog') = Len(backlog) + 1 /\ Len(backlog) \in Nat
        /\ \A k \in 1 .. Len(backlog) : backlog'[k] = backlog[k]
        /\ backlog'[Len(backlog) + 1] = c
    BY <1>1, <1>3, AppendProperties, LenProperties
  <2>2. got[c] = <<>>
    BY <1>3 DEF ServInv, NothingYet
  <2> QED  BY <2>1, <2>2 DEF ServInv, NothingYet
<1>7. recvBuffer' \in Texts /\ said' \in 0 .. MaxSaid
  BY <1>1 DEF ServInv, ServerTypeOK
<1>8. \A d \in Clients : /\ cend'[d] = "none" => cend[d] = "none"
                         /\ cend'[d] = "open" => cend[d] \in {"open", "none"}
  BY <1>1, <1>3
<1> QED  BY <1>1, <1>2, <1>3, <1>4, <1>5, <1>6, <1>7, <1>8, ServQuiet

\* What a client sends later, and how it closes, is read by nobody yet.
LEMMA ClientQuiet ==
  ASSUME ServInv, UNCHANGED <<srv, backlog, masterFDs, readFDs, fdMax, sock>>,
         UNCHANGED <<store, recvBuffer, got>>, said' \in 0 .. MaxSaid,
         NEW c \in Clients, NEW texts \in Seq(Texts), NEW e \in EndStates \ {"none"},
         \/ cend' = cend /\ up' = [up EXCEPT ![c] = @ \o texts]
         \/ up' = up /\ e # "open" /\ cend' = [cend EXCEPT ![c] = e]
  PROVE  ServInv'
<1>1. /\ LoopInv /\ up \in [Clients -> Seq(Texts)] /\ cend \in [Clients -> EndStates]
  BY ServTyped
<1>2. /\ up[c] \o texts \in Seq(Texts)
      /\ up[c] # <<>> => up[c] \o texts # <<>>
  BY <1>1, ConcatProperties, ConcatEqualIffEmpty
<1>3. up' \in [Clients -> Seq(Texts)] /\ cend' \in [Clients -> EndStates]
  BY <1>1, <1>2
<1>4. \A d \in Clients : Readable(d) => Readable(d)'
  BY <1>1, <1>2 DEF Readable
<1>5. \A d \in Clients : /\ cend'[d] = "none" => cend[d] = "none"
                         /\ cend'[d] = "open" => cend[d] \in {"open", "none"}
  BY <1>1
<1>6. LoopInv'
  BY <1>1, <1>3, <1>4, <1>5, QuietStep DEF LoopInv, LoopTypeOK
<1>7. OpenFds' = OpenFds
  BY DEF OpenFds
<1>8. \A k \in DOMAIN backlog' : got[backlog'[k]] = <<>>
  BY DEF ServInv, NothingYet
<1>9. recvBuffer' \in Texts
  BY DEF ServInv, ServerTypeOK
<1> QED  BY <1>3, <1>5, <1>6, <1>7, <1>8, <1>9, ServQuiet

\* What a client of another make may send, and when it may leave.
LEMMA GuestStep ==
  ASSUME ServInv, NEW c \in Clients, Guest(c)
  PROVE  ServInv'
<1>1. CASE Join(c)
  BY <1>1, JoinStep
<1>2. CASE Leave(c)
  <2>1. PICK e \in {"fin", "rst"} : cend' = [cend EXCEPT ![c] = e]
    BY <1>2 DEF Leave, Close
  <2>2. e \in EndStates \ {"none"} /\ e # "open" /\ <<>> \in Seq(Texts)
    BY DEF EndStates
  <2> QED  BY <1>2, <2>1, <2>2, ClientQuiet DEF Leave, Close, ServInv, ServerTypeOK
<1>3. CASE \E word \in Words : SayWord(c, word)
  <2>1. PICK word \in Words : SayWord(c, word)
    BY <1>3
  <2>2. /\ up' = [up EXCEPT ![c] = Append(@, word)] /\ said' = said + 1 /\ said < MaxSaid
        /\ UNCHANGED <<srv, backlog, cend, masterFDs, readFDs, fdMax, sock>>
        /\ UNCHANGED <<store, recvBuffer, got>>
    BY <2>1 DEF SayWord, Say
  <2>3. <<word>> \in Seq(Texts) /\ word \in Texts
    BY DEF Texts
  <2>4. up' = [up EXCEPT ![c] = @ \o <<word>>]
    <3>1. Append(up[c], word) = up[c] \o <<word>>
      BY <2>3, ServTyped, AppendIsConcat
    <3> QED  BY <2>2, <3>1
  <2>5. said' \in 0 .. MaxSaid
    BY <2>2, ProtocolAssumption DEF ServInv, ServerTypeOK
  <2>6. "fin" \in EndStates \ {"none"}
    BY DEF EndStates
  <2> QED  BY <2>2, <2>3, <2>4, <2>5, <2>6, ClientQuiet
<1> QED  BY <1>1, <1>2, <1>3 DEF Guest

\* The loop calls select.
LEMMA WaitStep ==
  ASSUME ServInv, WaitForReady
  PROVE  ServInv'
<1>1. /\ LoopInv' /\ up \in [Clients -> Seq(Texts)]
      /\ UNCHANGED <<srv, backlog, up, cend, sock, store, recvBuffer, said, got>>
  BY SelectStep, ServTyped DEF WaitForReady, Select
<1>2. OpenFds' = OpenFds
  BY <1>1 DEF OpenFds
<1>3. recvBuffer' \in Texts /\ said' \in 0 .. MaxSaid
  BY <1>1 DEF ServInv, ServerTypeOK
<1>4. \A k \in DOMAIN backlog' : got[backlog'[k]] = <<>>
  BY <1>1 DEF ServInv, NothingYet
<1> QED  BY <1>1, <1>2, <1>3, <1>4, ServQuiet

\* The new connection has got nothing, whatever session its descriptor has.
LEMMA AcceptServ ==
  ASSUME ServInv, NewConnection
  PROVE  ServInv'
<1>1. /\ LoopInv /\ up \in [Clients -> Seq(Texts)] /\ backlog \in Seq(Clients)
      /\ sock \in [Fds -> Clients \cup {NoClient}]
      /\ UNCHANGED <<store, recvBuffer, said, got>>
      /\ recvBuffer \in Texts /\ said \in 0 .. MaxSaid
  BY ServTyped DEF NewConnection, ServInv, ServerTypeOK
<1>2. CASE AcceptFails
  <2>1. LoopInv' /\ UNCHANGED <<srv, backlog, up, cend, sock>>
    BY <1>1, <1>2, AcceptFailsStep DEF AcceptFails
  <2>2. OpenFds' = OpenFds
    BY <2>1 DEF OpenFds
  <2>3. \A k \in DOMAIN backlog' : got[backlog'[k]] = <<>>
    BY <2>1 DEF ServInv, NothingYet
  <2> QED  BY <1>1, <2>1, <2>2, <2>3, ServQuiet
<1>3. CASE AcceptClient
  <2> DEFINE c == Head(backlog)
  <2>1. /\ LoopInv' /\ c \in Clients /\ UNCHANGED <<srv, up, cend>> /\ backlog' = Tail(backlog)
    BY <1>1, <1>3, AcceptStep DEF AcceptClient
  <2>2. PICK newFD \in Fds \ OpenFds : /\ sock' = [sock EXCEPT ![newFD] = c]
                                       /\ OpenFds' = OpenFds \cup {newFD}
    BY <1>1, <1>3, AcceptStep
  <2>3. got[c] = <<>>
    <3>1. PICK k \in DOMAIN backlog : backlog[k] = c
      BY <1>1, <1>3, AcceptStep
    <3> QED  BY <3>1 DEF ServInv, NothingYet
  <2> HIDE DEF c
  <2>4. /\ \A f \in OpenFds : sock'[f] = sock[f] /\ f \in Fds
        /\ sock'[newFD] = c
    <3>1. \A f \in OpenFds : f \in Fds
      BY DEF OpenFds
    <3> QED  BY <1>1, <2>2, <3>1
  <2>5. ServerTypeOK' /\ AllEarned'
    BY <1>1, <2>1 DEF ServInv, ServerTypeOK, LoopInv, AllEarned
  <2>6. NothingYet'
    <3>1. \A k \in DOMAIN backlog' : \E l \in DOMAIN backlog : backlog'[k] = backlog[l]
      <4>1. backlog # <<>>
        BY <1>1, <1>3, FdsFacts, OpenFdsFacts DEF LoopInv, StillReady, AcceptClient, Turn
      <4>2. /\ DOMAIN backlog = 1 .. Len(backlog) /\ Len(backlog) \in Nat
            /\ DOMAIN backlog' = 1 .. Len(backlog) - 1
            /\ \A k \in 1 .. Len(backlog) - 1 : backlog'[k] = backlog[k + 1]
        BY <1>1, <2>1, <4>1, HeadTailProperties, LenProperties
      <4>3. \A k \in DOMAIN backlog' : k + 1 \in DOMAIN backlog
        BY <4>2
      <4> QED  BY <4>2, <4>3
    <3> QED  BY <1>1, <2>1, <3>1 DEF ServInv, NothingYet
  <2>7. SessionsFit'
    <3>1. \A f \in OpenFds' : f \in OpenFds \/ (f = newFD /\ got[sock'[f]] = <<>>)
      BY <2>2, <2>3, <2>4
    <3>2. \A f \in OpenFds : sock'[f] = sock[f]
      BY <2>4
    <3>3. ASSUME NEW f \in OpenFds'
          PROVE  store'[f] = NoSession => got'[sock'[f]] = <<>>
      BY <1>1, <3>1, <3>2 DEF ServInv, SessionsFit
    <3>4. ASSUME NEW f \in OpenFds', store'[f] # NoSession, cend'[sock'[f]] = "open"
          PROVE  FlagsFit(store'[f], got'[sock'[f]])
      <4>1. CASE f \in OpenFds
        BY <1>1, <2>1, <3>2, <3>4, <4>1 DEF ServInv, SessionsFit
      <4>2. CASE f \notin OpenFds
        <5>1. got[sock'[f]] = <<>> /\ f \in Fds
          BY <2>2, <3>1, <4>2
        <5>2. ~ (store[f].send /\ store[f].tq)
          BY <1>1, <3>4, <5>1 DEF ServInv, SessionsFit
        <5> QED  BY <1>1, <5>1, <5>2, EmptyEarned DEF FlagsFit
      <4> QED  BY <4>1, <4>2
    <3>5. \A f \in Fds : store'[f] # NoSession => ~ (store'[f].send /\ store'[f].tq)
      BY <1>1 DEF ServInv, SessionsFit
    <3> QED  BY <3>3, <3>4, <3>5 DEF SessionsFit
  <2> QED  BY <2>1, <2>5, <2>6, <2>7 DEF ServInv
<1> QED  BY <1>2, <1>3 DEF NewConnection

\* A descriptor that is visited is open.
LEMMA TurnOpen ==
  ASSUME LoopInv, NEW i \in Fds, Turn(i)
  PROVE  i \in OpenFds /\ sock[i] \in Clients
<1>1. i \in OpenFds
  BY FdsFacts DEF LoopInv, StillReady, Turn
<1> QED  BY <1>1, OpenFdsFacts DEF LoopInv

\* A connection that has ended is closed, and its session stays behind.
LEMMA HangUpStep ==
  ASSUME ServInv, NEW i \in Fds, HangUp(i)
  PROVE  ServInv'
<1>1. /\ LoopInv /\ Turn(i) /\ CloseFD(i) /\ up \in [Clients -> Seq(Texts)]
      /\ sock \in [Fds -> Clients \cup {NoClient}]
      /\ UNCHANGED <<srv, backlog, up, cend, fdMax, store, recvBuffer, said, got>>
  BY ServTyped DEF HangUp
<1>2. LoopInv'
  BY <1>1, VisitStep DEF LoopInv, LoopTypeOK
<1>3. /\ OpenFds' \subseteq OpenFds
      /\ \A f \in OpenFds' : sock'[f] = sock[f]
  BY <1>1 DEF OpenFds, CloseFD
<1>4. recvBuffer' \in Texts /\ said' \in 0 .. MaxSaid
  BY <1>1 DEF ServInv, ServerTypeOK
<1>5. \A k \in DOMAIN backlog' : got[backlog'[k]] = <<>>
  BY <1>1 DEF ServInv, NothingYet
<1> QED  BY <1>1, <1>2, <1>3, <1>4, <1>5, ServQuiet

\* The session that serves a text fits the connection, be it new or left over
\* from the descriptor's last user.
LEMMA SessionForFits ==
  ASSUME ServInv, NEW i \in OpenFds, NEW text \in Texts
  PROVE  /\ SessionFor(i, text) \in Sessions
         /\ cend[sock[i]] = "open" => FlagsFit(SessionFor(i, text), got[sock[i]])
         /\ ~ (SessionFor(i, text).send /\ SessionFor(i, text).tq)
<1>1. i \in Fds /\ store[i] \in Sessions \cup {NoSession}
  BY ServTyped DEF OpenFds
<1>2. CASE store[i] # NoSession
  <2>1. SessionFor(i, text) = store[i]
    BY <1>2 DEF SessionFor
  <2> QED  BY <1>1, <1>2, <2>1 DEF ServInv, SessionsFit
<1>3. CASE store[i] = NoSession
  <2>1. SessionFor(i, text) = [data |-> IF text \in Known THEN text ELSE Garbage,
                               send |-> TRUE, tq |-> FALSE]
    BY <1>3 DEF SessionFor
  <2>2. got[sock[i]] = <<>>
    BY <1>3 DEF ServInv, SessionsFit
  <2> QED  BY <2>1, <2>2, EmptyEarned DEF Sessions, FlagsFit
<1> QED  BY <1>2, <1>3

\* Handling a text for i, of a client whose end is e by then.
LEMMA HandleStep ==
  ASSUME ServInv, NEW i \in Fds, Turn(i), NEW text \in Texts, NEW e \in EndStates,
         cend[sock[i]] = e \/ (cend[sock[i]] = "rst" /\ e = "reset"),
         Handle(i, text, e), UNCHANGED <<backlog, fdMax, said>>,
         up' \in [Clients -> Seq(Texts)], recvBuffer' \in Texts,
         \A d \in Clients : d # sock[i] => up'[d] = up[d]
  PROVE  /\ ServInv'
         /\ \A d \in Clients : cend[d] = "open" => cend'[d] = "open"
         /\ \A d \in Clients : d # sock[i] => got'[d] = got[d]
         /\ \A f \in OpenFds : f # i => f \in OpenFds' /\ sock'[f] = sock[f]
<1> DEFINE c == sock[i]
           session == SessionFor(i, text)
           a == Answered(session, text)
           t == got[c] \o Replies(session, text)
<1>1. /\ LoopInv /\ up \in [Clients -> Seq(Texts)] /\ got \in [Clients -> Seq(Records)]
      /\ cend \in [Clients -> EndStates] /\ store \in [Fds -> Sessions \cup {NoSession}]
      /\ sock \in [Fds -> Clients \cup {NoClient}]
      /\ i \in OpenFds /\ c \in Clients
  BY ServTyped, TurnOpen
<1>2. /\ session \in Sessions /\ a \in Sessions
      /\ e = "open" => FlagsFit(session, got[c])
      /\ ~ (a.send /\ a.tq)
  <2>1. session \in Sessions /\ (cend[c] = "open" => FlagsFit(session, got[c]))
    BY <1>1, SessionForFits
  <2>2. ~ (a.send /\ a.tq)
    BY <2>1 DEF Answered, Sessions
  <2> QED  BY <2>1, <2>2, AnsweredTyped
<1>3. e = "open" => t \in Seq(Records) /\ Earned(t) /\ FlagsFit(a, t)
  <2>1. got[c] \in Seq(Records) /\ Earned(got[c])
    BY <1>1 DEF ServInv, AllEarned
  <2> QED  BY <1>2, <2>1, RepliesEarned
<1>4. store' = [store EXCEPT ![i] = a]
  BY DEF Handle
<1>5. \/ CloseFD(i) /\ cend' = [cend EXCEPT ![c] = e] /\ UNCHANGED <<srv, got>>
      \/ /\ WriteAll(c, e, Replies(session, text))
         /\ UNCHANGED <<masterFDs, sock>>
  BY DEF Handle
<1> HIDE DEF session, a
<1>6. /\ srv' \in {"up", "killed"}
      /\ \E e2 \in EndStates : /\ cend' = [cend EXCEPT ![c] = e2]
                               /\ e2 \in {"none", "open"} => cend[c] = e2
                               /\ cend[c] = "open" => e2 = "open"
      /\ CloseFD(i) \/ UNCHANGED <<masterFDs, sock>>
      /\ got' = got \/ (got' = [got EXCEPT ![c] = t] /\ e = "open")
  <2>1. srv \in {"up", "killed"}
    BY <1>1 DEF LoopInv, LoopTypeOK
  <2>2. CASE CloseFD(i) /\ cend' = [cend EXCEPT ![c] = e] /\ UNCHANGED <<srv, got>>
    BY <2>1, <2>2
  <2>3. CASE WriteAll(c, e, Replies(session, text)) /\ UNCHANGED <<masterFDs, sock>>
    <3>1. /\ srv' \in {"up", "killed"}
          /\ \E e2 \in EndStates : /\ cend' = [cend EXCEPT ![c] = e2]
                                   /\ e2 \in {"none", "open"} => e2 = e
                                   /\ e = "open" => e2 = "open"
      <4>1. PICK last \in {e} \cup EndsAfterWrites(e) : /\ cend' = [cend EXCEPT ![c] = last]
                                                       /\ srv' \in {srv, "killed"}
        BY <2>3 DEF WriteAll
      <4>2. /\ last \in EndStates
            /\ last \in {"none", "open"} => last = e
            /\ e = "open" => last = "open"
        BY <4>1 DEF EndsAfterWrites, EndStates
      <4> QED  BY <2>1, <4>1, <4>2
    <3>2. got' = got \/ (got' = [got EXCEPT ![c] = t] /\ e = "open")
      <4>1. got' = [got EXCEPT ![c] = IF e = "open" THEN t ELSE got[c]]
        BY <2>3 DEF WriteAll
      <4> HIDE DEF t
      <4> QED  BY <1>1, <4>1
    <3> QED  BY <2>3, <3>1, <3>2
  <2> QED  BY <1>5, <2>2, <2>3
<1> HIDE DEF t
<1>7. PICK e2 \in EndStates : /\ cend' = [cend EXCEPT ![c] = e2]
                              /\ e2 \in {"none", "open"} => cend[c] = e2
                              /\ cend[c] = "open" => e2 = "open"
  BY <1>6
<1>8. /\ cend' \in [Clients -> EndStates]
      /\ \A d \in Clients : cend'[d] \in {"none", "open"} => cend[d] = cend'[d]
      /\ \A d \in Clients : cend[d] = "open" => cend'[d] = "open"
  BY <1>1, <1>7
<1>9. LoopInv'
  BY <1>1, <1>6, <1>8, VisitStep
<1>10. /\ OpenFds' \subseteq OpenFds
       /\ \A f \in OpenFds' : sock'[f] = sock[f]
       /\ \A f \in OpenFds : f # i => f \in OpenFds' /\ sock'[f] = sock[f]
  BY <1>1, <1>6 DEF OpenFds, CloseFD
<1>11. /\ \A d \in Clients : d # c => got'[d] = got[d]
       /\ got'[c] = got[c] \/ (got'[c] = t /\ e = "open")
       /\ got' \in [Clients -> Seq(Records)]
  BY <1>1, <1>3, <1>6
<1>12. ServerTypeOK'
  <2>1. store' \in [Fds -> Sessions \cup {NoSession}]
    BY <1>1, <1>2, <1>4
  <2> QED  BY <1>9, <1>11, <2>1 DEF ServInv, ServerTypeOK, LoopInv, Records
<1>13. NothingYet'
  <2>1. \A k \in DOMAIN backlog : backlog[k] # c /\ backlog[k] \in Clients
    BY <1>1 DEF LoopInv, LoopTypeOK, OneEach
  <2>2. cend'[c] # "none"
    BY <1>1, <1>8 DEF LoopInv, OneEach
  <2> QED  BY <1>8, <1>11, <2>1, <2>2 DEF ServInv, NothingYet
<1>14. AllEarned'
  BY <1>3, <1>11 DEF ServInv, AllEarned
<1>15. SessionsFit'
  <2>1. ASSUME NEW f \in OpenFds', f # i
        PROVE  /\ f \in OpenFds /\ sock'[f] = sock[f] /\ sock[f] \in Clients
               /\ got'[sock[f]] = got[sock[f]] /\ store'[f] = store[f]
               /\ cend'[sock[f]] = "open" => cend[sock[f]] = "open"
    <3>1. f \in OpenFds /\ sock'[f] = sock[f] /\ sock[f] \in Clients /\ f \in Fds
      BY <1>1, <1>10, OpenFdsFacts DEF LoopInv
    <3>2. sock[f] # c
      BY <1>1, <2>1, <3>1 DEF LoopInv, OneEach
    <3> QED  BY <1>1, <1>4, <1>8, <1>11, <2>1, <3>1, <3>2
  <2>2. store'[i] = a /\ a # NoSession
    BY <1>1, <1>2, <1>4, TextAssumption DEF TextAssumption
  <2>3. ASSUME i \in OpenFds', cend'[sock'[i]] = "open"
        PROVE  FlagsFit(a, got'[sock'[i]])
    <3>1. sock'[i] = c /\ cend[c] = "open"
      BY <1>1, <1>8, <1>10, <2>3
    <3>2. e = "open"
      BY <3>1
    <3>3. got'[c] = t
      <4>1. CASE CloseFD(i)
        BY <1>1, <2>3, <4>1, FdsFacts DEF CloseFD, OpenFds
      <4>2. CASE WriteAll(c, e, Replies(session, text))
        BY <1>1, <3>2, <4>2 DEF WriteAll, t
      <4> QED  BY <1>5, <4>1, <4>2
    <3> QED  BY <1>3, <3>1, <3>2, <3>3
  <2>4. \A f \in OpenFds' : store'[f] = NoSession => got'[sock'[f]] = <<>>
    BY <2>1, <2>2 DEF ServInv, SessionsFit
  <2>5. \A f \in Fds : store'[f] # NoSession => ~ (store'[f].send /\ store'[f].tq)
    BY <1>1, <1>2, <1>4 DEF ServInv, SessionsFit
  <2>6. \A f \in OpenFds' : store'[f] # NoSession /\ cend'[sock'[f]] = "open"
                              => FlagsFit(store'[f], got'[sock'[f]])
    <3>1. ASSUME NEW f \in OpenFds', f # i, store'[f] # NoSession, cend'[sock'[f]] = "open"
          PROVE  FlagsFit(store'[f], got'[sock'[f]])
      <4>1. FlagsFit(store[f], got[sock[f]])
        BY <2>1, <3>1 DEF ServInv, SessionsFit
      <4> QED  BY <2>1, <3>1, <4>1
    <3> QED  BY <2>2, <2>3, <3>1
  <2> QED  BY <2>4, <2>5, <2>6 DEF SessionsFit
<1>16. ServInv'
  BY <1>9, <1>12, <1>13, <1>14, <1>15 DEF ServInv
<1> QED  BY <1>8, <1>10, <1>11, <1>16

\* What a read of whole texts leaves in the stream.
LEMMA ReadTyped ==
  ASSUME ServInv, NEW c \in Clients, NEW n \in 1 .. Len(up[c])
  PROVE  /\ Head(up[c]) \in Texts /\ up[c] # <<>>
         /\ [up EXCEPT ![c] = SubSeq(@, n + 1, Len(@))] \in [Clients -> Seq(Texts)]
<1>1. up \in [Clients -> Seq(Texts)] /\ up[c] \in Seq(Texts)
  BY ServTyped
<1>2. Len(up[c]) \in Nat /\ \A k \in 1 .. Len(up[c]) : up[c][k] \in Texts
  BY <1>1, LenProperties, ElementOfSeq
<1>3. SubSeq(up[c], n + 1, Len(up[c])) \in Seq(Texts)
  <2>1. \A k \in n + 1 .. Len(up[c]) : up[c][k] \in Texts
    BY <1>2
  <2> QED  BY <1>2, <2>1, SubSeqProperties
<1>4. up[c] # <<>> /\ Head(up[c]) \in Texts
  BY <1>1, <1>2, EmptySeq, HeadTailProperties
<1> QED  BY <1>1, <1>3, <1>4

-----------------------------------------------------------------------------
(* The program *)

\* It has sent its id and nothing else, which the server answers with one
\* text at most.
Fresh(p) ==
  /\ up[p] = <<>> \/ up[p] = <<p>>
  /\ Len(got[p]) = 0 \/ (Len(got[p]) = 1 /\ up[p] = <<>>)

\* Where the program is, seen from the server.
ProgAt(p) ==
  /\ cend[p] = "none" => ctl[p] = "none" /\ seen[p] = 0
  /\ ctl[p] # "none" => cend[p] = "open"
  /\ ctl[p] \in {"prompt", "repeat", "quit"} => Over(p)
  /\ ctl[p] = "record" => Over(p) \/ (Fresh(p) /\ seen[p] = 0)
  /\ ctl[p] = "ack" => Over(p) \/ (Fresh(p) /\ seen[p] = 1)

ClientTyped ==
  /\ ctl \in [Programs -> {"none", "record", "ack", "prompt", "repeat", "quit"}]
  /\ seen \in [Programs -> Nat]
  /\ broken \in [Programs -> BOOLEAN]

Inv == ServInv /\ ClientTyped /\ \A p \in Programs : ProgAt(p)

\* The invariant says what the theorems state.
LEMMA InvImplies ==
  Inv => TypeOK /\ WatchedAreOpen /\ EarnedRecords /\ PromptedOnlyAfterEnd
<1>1. Inv => PromptedOnlyAfterEnd
  BY DEF Inv, ProgAt, PromptedOnlyAfterEnd
<1> QED  BY <1>1, ServInvImplies DEF Inv, ServInv, ClientTyped, TypeOK

\* What the other processes do cannot move the program, but can end its
\* connection.
LEMMA OthersMove ==
  ASSUME Inv, ServInv', UNCHANGED clientVars,
         \A p \in Programs : cend'[p] = "none" => cend[p] = "none",
         \A p \in Programs : cend[p] = "open" => cend'[p] = "open",
         \A p \in Programs : Over(p) => Over(p)',
         \A p \in Programs : cend[p] = "open" /\ Fresh(p) => Over(p)' \/ Fresh(p)'
  PROVE  Inv'
<1>1. UNCHANGED <<ctl, seen, broken>>
  BY DEF clientVars
<1>2. ClientTyped'
  BY <1>1 DEF Inv, ClientTyped
<1>3. ASSUME NEW p \in Programs
      PROVE  ProgAt(p)'
  <2>1. ProgAt(p)
    BY DEF Inv
  <2> QED  BY <1>1, <2>1 DEF ProgAt
<1> QED  BY <1>2, <1>3 DEF Inv

\* The end of a connection is final.
LEMMA OverKept ==
  ASSUME Inv, srv = "up", NEW p \in Programs, Over(p), cend'[p] = "open",
         OpenFds' \subseteq OpenFds, \A f \in OpenFds' : sock'[f] = sock[f],
         backlog' = backlog
  PROVE  Over(p)'
<1>1. ~ Connected(p) /\ ~ Waiting(p)
  BY DEF Over
<1>2. ~ Connected(p)' /\ ~ Waiting(p)'
  BY <1>1 DEF Connected, Waiting
<1> QED  BY <1>2 DEF Over

\* A visit to another connection leaves the program's alone.
LEMMA OtherVisited ==
  ASSUME Inv, NEW p \in Programs, Fresh(p), up'[p] = up[p], got'[p] = got[p]
  PROVE  Fresh(p)'
BY DEF Fresh

\* The server's steps, seen from client.c.
LEMMA ServerMoves ==
  ASSUME Inv, Server, UNCHANGED clientVars
  PROVE  Inv'
<1>1. /\ ServInv /\ LoopInv /\ Programs \subseteq Clients
      /\ sock \in [Fds -> Clients \cup {NoClient}]
      /\ backlog \in Seq(Clients)
  BY ServTyped, ProgramAssumption DEF Inv
<1>2. CASE WaitForReady
  <2>1. /\ ServInv' /\ srv = "up"
        /\ UNCHANGED <<srv, backlog, up, cend, masterFDs, fdMax, sock, store, recvBuffer, said, got>>
    BY <1>1, <1>2, WaitStep DEF WaitForReady, Select
  <2>2. OpenFds' = OpenFds
    BY <2>1 DEF OpenFds
  <2>3. \A p \in Programs : Over(p) => Over(p)'
    BY <2>1, <2>2, OverKept DEF Over
  <2>4. \A p \in Programs : Fresh(p) => Fresh(p)'
    BY <2>1, OtherVisited
  <2> QED  BY <2>1, <2>3, <2>4, OthersMove
<1>3. CASE NewConnection
  <2>1. /\ ServInv' /\ srv = "up"
        /\ UNCHANGED <<srv, up, cend, store, recvBuffer, said, got>>
    BY <1>1, <1>3, AcceptServ DEF NewConnection, AcceptClient, AcceptFails, Turn
  <2>2. ASSUME NEW p \in Programs, Over(p)
        PROVE  Over(p)'
    <3>1. ~ Connected(p) /\ ~ Waiting(p) /\ cend[p] = "open"
      BY <2>1, <2>2 DEF Over
    <3>2. CASE AcceptFails
      <4>1. OpenFds' = OpenFds /\ UNCHANGED <<backlog, sock>>
        BY <3>2 DEF AcceptFails, OpenFds
      <4> QED  BY <2>1, <2>2, <3>1, <4>1, OverKept
    <3>3. CASE AcceptClient
      <4>1. PICK newFD \in Fds \ OpenFds :
              /\ sock' = [sock EXCEPT ![newFD] = Head(backlog)]
              /\ OpenFds' = OpenFds \cup {newFD}
        BY <1>1, <3>3, AcceptStep
      <4>2. PICK k \in DOMAIN backlog : backlog[k] = Head(backlog)
        BY <1>1, <3>3, AcceptStep
      <4>3. Head(backlog) # p
        BY <3>1, <4>2 DEF Waiting
      <4>4. ~ Connected(p)'
        BY <1>1, <3>1, <4>1, <4>3 DEF Connected, OpenFds
      <4>5. ~ Waiting(p)'
        <5>1. backlog # <<>> /\ backlog' = Tail(backlog)
          BY <1>1, <3>3, FdsFacts, OpenFdsFacts DEF LoopInv, StillReady, AcceptClient, Turn
        <5>2. /\ DOMAIN backlog = 1 .. Len(backlog) /\ Len(backlog) \in Nat
              /\ DOMAIN backlog' = 1 .. Len(backlog) - 1
              /\ \A l \in 1 .. Len(backlog) - 1 : backlog'[l] = backlog[l + 1]
          BY <1>1, <5>1, HeadTailProperties, LenProperties
        <5>3. \A l \in DOMAIN backlog' : l + 1 \in DOMAIN backlog /\ backlog'[l] = backlog[l + 1]
          BY <5>2
        <5> QED  BY <3>1, <5>3 DEF Waiting
      <4> QED  BY <2>1, <3>1, <4>4, <4>5 DEF Over
    <3> QED  BY <1>3, <3>2, <3>3 DEF NewConnection
  <2>3. \A p \in Programs : Fresh(p) => Fresh(p)'
    BY <2>1, OtherVisited
  <2> QED  BY <2>1, <2>2, <2>3, OthersMove
<1>4. ASSUME NEW i \in Fds, HangUp(i)
      PROVE  Inv'
  <2>1. /\ ServInv' /\ srv = "up" /\ CloseFD(i)
        /\ UNCHANGED <<srv, backlog, up, cend, fdMax, store, recvBuffer, said, got>>
    BY <1>1, <1>4, HangUpStep DEF HangUp, Turn
  <2>2. OpenFds' \subseteq OpenFds /\ \A f \in OpenFds' : sock'[f] = sock[f]
    BY <1>1, <2>1 DEF OpenFds, CloseFD
  <2>3. \A p \in Programs : Over(p) => Over(p)'
    BY <2>1, <2>2, OverKept DEF Over
  <2>4. \A p \in Programs : Fresh(p) => Fresh(p)'
    BY <2>1, OtherVisited
  <2> QED  BY <2>1, <2>3, <2>4, OthersMove
<1>5. ASSUME NEW i \in Fds, ReadError(i)
      PROVE  Inv'
  <2> DEFINE c == sock[i]
  <2>1. /\ srv = "up" /\ Turn(i) /\ cend[c] = "rst" /\ recvBuffer \in Texts
        /\ Handle(i, recvBuffer, "reset")
        /\ UNCHANGED <<backlog, up, fdMax, recvBuffer, said>>
        /\ up \in [Clients -> Seq(Texts)] /\ "reset" \in EndStates
    BY <1>1, <1>5, ServTyped DEF ReadError, Turn, ServInv, ServerTypeOK, EndStates
  <2>2. /\ ServInv'
        /\ \A d \in Clients : cend[d] = "open" => cend'[d] = "open"
        /\ \A d \in Clients : d # c => got'[d] = got[d]
    BY <1>1, <2>1, HandleStep
  <2>3. /\ OpenFds' \subseteq OpenFds /\ \A f \in OpenFds' : sock'[f] = sock[f]
        /\ \A d \in Clients : cend'[d] = "none" => cend[d] = "none"
    <3>1. CloseFD(i) \/ UNCHANGED <<masterFDs, sock>>
      BY <2>1 DEF Handle
    <3>2. cend \in [Clients -> EndStates]
      BY <1>1, ServTyped
    <3>3. cend' = [cend EXCEPT ![c] = "reset"]
      BY <2>1 DEF Handle, WriteAll, EndsAfterWrites
    <3> QED  BY <1>1, <3>1, <3>2, <3>3 DEF OpenFds, CloseFD
  <2>4. \A p \in Programs : Over(p) => Over(p)'
    BY <1>1, <2>1, <2>2, <2>3, OverKept DEF Over
  <2>5. \A p \in Programs : cend[p] = "open" /\ Fresh(p) => Fresh(p)'
    BY <1>1, <2>1, <2>2, OtherVisited
  <2> QED  BY <1>1, <2>2, <2>3, <2>4, <2>5, OthersMove
<1>6. ASSUME NEW i \in Fds, Request(i)
      PROVE  Inv'
  <2> DEFINE c == sock[i]
  <2>1. /\ srv = "up" /\ Turn(i) /\ c \in Clients /\ i \in OpenFds
        /\ UNCHANGED <<backlog, fdMax, said>>
        /\ up \in [Clients -> Seq(Texts)] /\ cend \in [Clients -> EndStates]
        /\ got \in [Clients -> Seq(Records)]
    BY <1>1, <1>6, ServTyped, TurnOpen DEF Request, Turn
  <2> DEFINE text == Head(up[c])
  <2>2. PICK n \in 1 .. Len(up[c]) :
          /\ recvBuffer' = text
          /\ up' = [up EXCEPT ![c] = SubSeq(@, n + 1, Len(@))]
          /\ Handle(i, text, cend[c])
    BY <1>6 DEF Request
  <2>3. text \in Texts /\ up[c] # <<>> /\ up' \in [Clients -> Seq(Texts)]
    BY <1>1, <2>1, <2>2, ReadTyped
  <2>4. /\ ServInv'
        /\ \A d \in Clients : cend[d] = "open" => cend'[d] = "open"
        /\ \A d \in Clients : d # c => got'[d] = got[d] /\ up'[d] = up[d]
    <3>1. \A d \in Clients : d # c => up'[d] = up[d]
      BY <2>1, <2>2
    <3>2. recvBuffer' \in Texts /\ Handle(i, text, cend[c]) /\ cend[c] \in EndStates
      BY <2>1, <2>2, <2>3
    <3> HIDE DEF text
    <3>3. /\ ServInv'
          /\ \A d \in Clients : cend[d] = "open" => cend'[d] = "open"
          /\ \A d \in Clients : d # c => got'[d] = got[d]
      BY <1>1, <2>1, <2>3, <3>1, <3>2, HandleStep, Zenon
    <3> QED  BY <3>1, <3>3, Zenon
  <2>5. \/ CloseFD(i) /\ cend' = [cend EXCEPT ![c] = cend[c]] /\ UNCHANGED <<srv, got>>
        \/ /\ WriteAll(c, cend[c], Replies(SessionFor(i, text), text))
           /\ UNCHANGED <<masterFDs, sock>>
    BY <2>2 DEF Handle
  <2>6. /\ OpenFds' \subseteq OpenFds /\ \A f \in OpenFds' : sock'[f] = sock[f]
    BY <1>1, <2>5 DEF OpenFds, CloseFD
  <2>7. \A d \in Clients : cend'[d] = "none" => cend[d] = "none"
    <3>1. PICK e \in {cend[c]} \cup EndsAfterWrites(cend[c]) : cend' = [cend EXCEPT ![c] = e]
      BY <2>5 DEF WriteAll
    <3>2. e = "none" => cend[c] = "none"
      BY DEF EndsAfterWrites
    <3> QED  BY <2>1, <3>1, <3>2
  <2>8. \A p \in Programs : Over(p) => Over(p)'
    BY <1>1, <2>1, <2>4, <2>6, OverKept DEF Over
  <2>9. ASSUME NEW p \in Programs, cend[p] = "open", Fresh(p)
        PROVE  Over(p)' \/ Fresh(p)'
    <3>1. CASE p # c
      BY <1>1, <2>4, <2>9, <3>1, OtherVisited
    <3>2. CASE p = c /\ CloseFD(i)
      <4>1. ~ Connected(p)'
        BY <1>1, <2>1, <2>6, <3>2, FdsFacts DEF Connected, CloseFD, OpenFds, LoopInv, OneEach
      <4>2. ~ Waiting(p)'
        BY <1>1, <2>1, <3>2 DEF Waiting, LoopInv, OneEach
      <4> QED  BY <1>1, <2>4, <2>9, <4>1, <4>2 DEF Over
    <3>3. CASE p = c /\ WriteAll(c, cend[c], Replies(SessionFor(i, text), text))
      <4>1. up[p] = <<p>> /\ Len(got[p]) = 0 /\ text = p
        BY <2>3, <2>9, <3>3 DEF Fresh
      <4>2. p \in Clients /\ text # "thank_you"
        BY <1>1, <4>1, TextAssumption DEF TextAssumption, Words
      <4>3. PICK r \in {<<>>, <<SessionFor(i, text).data>>} : got'[p] = got[p] \o r
        <5>1. Replies(SessionFor(i, text), text) \in {<<>>, <<SessionFor(i, text).data>>}
          BY <4>2 DEF Replies
        <5> QED  BY <2>1, <2>9, <3>3, <5>1 DEF WriteAll
      <4>4. got[p] = <<>>
        BY <2>1, <3>3, <4>1, EmptySeq
      <4>5. Len(got'[p]) = 0 \/ Len(got'[p]) = 1
        BY <4>3, <4>4
      <4>6. up'[p] = <<>>
        BY <2>1, <2>2, <3>3, <4>1
      <4> QED  BY <4>5, <4>6 DEF Fresh
    <3>4. CloseFD(i) \/ WriteAll(c, cend[c], Replies(SessionFor(i, text), text))
      BY <2>5, Zenon
    <3> QED  BY <3>1, <3>2, <3>3, <3>4, Zenon
  <2> QED  BY <1>1, <2>4, <2>7, <2>8, <2>9, OthersMove
<1> QED  BY <1>2, <1>3, <1>4, <1>5, <1>6 DEF Server

\* What guests do concerns none of the programs.
LEMMA GuestMoves ==
  ASSUME Inv, NEW c \in Clients \ Programs, Guest(c), UNCHANGED clientVars
  PROVE  Inv'
<1>1. /\ ServInv /\ Programs \subseteq Clients /\ backlog \in Seq(Clients)
      /\ up \in [Clients -> Seq(Texts)] /\ cend \in [Clients -> EndStates]
  BY ServTyped, ProgramAssumption DEF Inv
<1>2. ServInv'
  BY <1>1, GuestStep
<1>3. UNCHANGED <<srv, masterFDs, readFDs, fdMax, sock, got>>
  BY DEF Guest, Join, Leave, SayWord, Connect, Close, Say
<1>4. \A p \in Programs : up'[p] = up[p] /\ cend'[p] = cend[p]
  <2>1. \A p \in Programs : p # c /\ p \in Clients
    BY <1>1
  <2>2. CASE Join(c)
    BY <1>1, <2>1, <2>2 DEF Join, Connect
  <2>3. CASE Leave(c)
    BY <1>1, <2>1, <2>3 DEF Leave, Close
  <2>4. CASE \E word \in Words : SayWord(c, word)
    BY <1>1, <2>1, <2>4 DEF SayWord, Say
  <2> QED  BY <2>2, <2>3, <2>4 DEF Guest
<1>5. backlog' \in {backlog, Append(backlog, c)}
  BY DEF Guest, Join, Leave, SayWord, Connect, Close, Say
<1>6. ASSUME NEW p \in Programs, Over(p)
      PROVE  Over(p)'
  <2>1. Connected(p)' <=> Connected(p)
    BY <1>3 DEF Connected, OpenFds
  <2>2. Waiting(p)' => Waiting(p)
    <3>1. CASE backlog' = Append(backlog, c)
      <4>1. /\ DOMAIN backlog = 1 .. Len(backlog) /\ DOMAIN backlog' = 1 .. Len(backlog) + 1
            /\ Len(backlog) \in Nat
            /\ \A k \in 1 .. Len(backlog) : backlog'[k] = backlog[k]
            /\ backlog'[Len(backlog) + 1] = c
        BY <1>1, <3>1, AppendProperties, LenProperties
      <4>2. p # c
        OBVIOUS
      <4> QED  BY <4>1, <4>2 DEF Waiting
    <3>2. CASE backlog' = backlog
      BY <3>2 DEF Waiting
    <3> QED  BY <1>5, <3>1, <3>2
  <2> QED  BY <1>3, <1>4, <1>6, <2>1, <2>2 DEF Over
<1>7. \A p \in Programs : Fresh(p) => Fresh(p)'
  BY <1>3, <1>4, OtherVisited
<1> QED  BY <1>2, <1>4, <1>6, <1>7, OthersMove

\* A step of one program is none of another.
LEMMA OtherPrograms ==
  ASSUME Inv, NEW p \in Programs, NEW q \in Programs, p # q,
         UNCHANGED <<srv, masterFDs, readFDs, fdMax, sock, got>>,
         backlog' \in {backlog, Append(backlog, p)},
         up'[q] = up[q], cend'[q] = cend[q], ctl'[q] = ctl[q], seen'[q] = seen[q]
  PROVE  ProgAt(q)'
<1>1. Programs \subseteq Clients /\ backlog \in Seq(Clients)
  BY ServTyped, ProgramAssumption DEF Inv
<1>2. Over(q) => Over(q)'
  <2> SUFFICES ASSUME Over(q) PROVE Over(q)'
    OBVIOUS
  <2>1. Connected(q)' <=> Connected(q)
    BY DEF Connected, OpenFds
  <2>2. Waiting(q)' => Waiting(q)
    <3>1. CASE backlog' = Append(backlog, p)
      <4>1. /\ DOMAIN backlog = 1 .. Len(backlog) /\ DOMAIN backlog' = 1 .. Len(backlog) + 1
            /\ Len(backlog) \in Nat
            /\ \A k \in 1 .. Len(backlog) : backlog'[k] = backlog[k]
            /\ backlog'[Len(backlog) + 1] = p
        BY <1>1, <3>1, AppendProperties, LenProperties
      <4> QED  BY <4>1 DEF Waiting
    <3>2. CASE backlog' = backlog
      BY <3>2 DEF Waiting
    <3> QED  BY <3>1, <3>2
  <2> QED  BY <2>1, <2>2 DEF Over
<1>3. Fresh(q) => Fresh(q)'
  BY OtherVisited
<1>4. ProgAt(q)
  BY DEF Inv
<1> QED  BY <1>2, <1>3, <1>4 DEF ProgAt

\* client.c connects and sends its id.
LEMMA StartMoves ==
  ASSUME Inv, NEW p \in Programs, Start(p)
  PROVE  Inv'
<1>1. /\ ServInv /\ p \in Clients /\ Programs \subseteq Clients
      /\ up \in [Clients -> Seq(Texts)] /\ cend \in [Clients -> EndStates]
      /\ ClientTyped /\ ProgAt(p)
  BY ServTyped, ProgramAssumption DEF Inv
<1>2. /\ Join(p) /\ ctl' = [ctl EXCEPT ![p] = "record"] /\ UNCHANGED <<seen, broken>>
      /\ up' = [up EXCEPT ![p] = <<p>>] /\ cend' = [cend EXCEPT ![p] = "open"]
      /\ cend[p] = "none" /\ backlog' = Append(backlog, p)
      /\ UNCHANGED <<srv, masterFDs, readFDs, fdMax, sock, got>>
  BY DEF Start, Join, Connect
<1>3. ServInv'
  BY <1>1, <1>2, JoinStep
<1>4. ClientTyped'
  BY <1>1, <1>2 DEF ClientTyped
<1>5. ProgAt(p)'
  <2>1. ctl'[p] = "record" /\ seen'[p] = 0 /\ up'[p] = <<p>> /\ cend'[p] = "open"
    BY <1>1, <1>2 DEF ClientTyped, ProgAt
  <2>2. got'[p] = <<>>
    BY <1>1, <1>2 DEF ServInv, NothingYet
  <2>3. Fresh(p)'
    BY <2>1, <2>2 DEF Fresh
  <2> QED  BY <2>1, <2>3 DEF ProgAt
<1>6. ASSUME NEW q \in Programs, q # p
      PROVE  ProgAt(q)'
  <2>1. up'[q] = up[q] /\ cend'[q] = cend[q] /\ ctl'[q] = ctl[q] /\ seen'[q] = seen[q]
    BY <1>1, <1>2, <1>6 DEF ClientTyped
  <2> QED  BY <1>2, <1>6, <2>1, OtherPrograms
<1> QED  BY <1>3, <1>4, <1>5, <1>6 DEF Inv

\* client.c ends, or is killed.
LEMMA ExitMoves ==
  ASSUME Inv, NEW p \in Programs, ctl[p] # "none", Exit(p)
  PROVE  Inv'
<1>1. /\ ServInv /\ p \in Clients /\ Programs \subseteq Clients
      /\ up \in [Clients -> Seq(Texts)] /\ cend \in [Clients -> EndStates]
      /\ ClientTyped
  BY ServTyped, ProgramAssumption DEF Inv
<1>2. /\ ctl' = [ctl EXCEPT ![p] = "none"]
      /\ \E e \in {"rst", "fin"} : cend' = [cend EXCEPT ![p] = e]
      /\ UNCHANGED <<srv, backlog, up, masterFDs, readFDs, fdMax, sock>>
      /\ UNCHANGED <<store, recvBuffer, said, got, seen, broken>>
  BY DEF Exit
<1>3. ServInv'
  <2>1. PICK e \in {"rst", "fin"} : cend' = [cend EXCEPT ![p] = e]
    BY <1>2
  <2>2. e \in EndStates \ {"none"} /\ e # "open" /\ <<>> \in Seq(Texts)
    BY DEF EndStates
  <2> QED  BY <1>1, <1>2, <2>1, <2>2, ClientQuiet DEF ServInv, ServerTypeOK
<1>4. ClientTyped'
  BY <1>1, <1>2 DEF ClientTyped
<1>5. ProgAt(p)'
  BY <1>1, <1>2 DEF ProgAt, ClientTyped
<1>6. ASSUME NEW q \in Programs, q # p
      PROVE  ProgAt(q)'
  <2>1. up'[q] = up[q] /\ cend'[q] = cend[q] /\ ctl'[q] = ctl[q] /\ seen'[q] = seen[q]
    BY <1>1, <1>2, <1>6 DEF ClientTyped
  <2> QED  BY <1>2, <1>6, <2>1, OtherPrograms
<1> QED  BY <1>3, <1>4, <1>5, <1>6 DEF Inv

\* A call that returns without touching the connection: what it leaves is
\* allowed if the connection is over, or if it was the first read and had
\* something to read.
LEMMA GotoMoves ==
  ASSUME Inv, NEW p \in Programs, ctl[p] # "none",
         NEW call \in {"record", "ack", "prompt", "repeat", "quit"},
         ctl' = [ctl EXCEPT ![p] = call], UNCHANGED protocolVars,
         NEW s \in Nat, seen' = [seen EXCEPT ![p] = s],
         broken' \in [Programs -> BOOLEAN],
         \/ Over(p)
         \/ call = "ack" /\ Fresh(p) /\ s = 1
  PROVE  Inv'
<1>1. ServInv /\ ClientTyped /\ ProgAt(p) /\ cend[p] = "open"
  BY DEF Inv, ProgAt
<1>2. /\ UNCHANGED <<srv, backlog, up, cend, masterFDs, readFDs, fdMax, sock>>
      /\ UNCHANGED <<store, recvBuffer, said, got>>
  BY DEF protocolVars, loopVars
<1>3. /\ Over(p)' = Over(p) /\ Fresh(p)' = Fresh(p)
  BY <1>2 DEF Over, Connected, OpenFds, Waiting, Fresh
<1>4. ServInv'
  <2>1. up \in [Clients -> Seq(Texts)] /\ LoopInv
    BY <1>1, ServTyped
  <2>2. OpenFds' = OpenFds
    BY <1>2 DEF OpenFds
  <2>3. LoopInv'
    BY <1>2, <2>1, QuietStep DEF LoopInv, LoopTypeOK, Readable
  <2>4. \A k \in DOMAIN backlog' : got[backlog'[k]] = <<>>
    BY <1>1, <1>2 DEF ServInv, NothingYet
  <2>5. recvBuffer' \in Texts /\ said' \in 0 .. MaxSaid
    BY <1>1, <1>2 DEF ServInv, ServerTypeOK
  <2> QED  BY <1>1, <1>2, <2>1, <2>2, <2>3, <2>4, <2>5, ServQuiet
<1>5. ClientTyped'
  BY <1>1 DEF ClientTyped
<1>6. ProgAt(p)'
  <2>1. ctl'[p] = call /\ seen'[p] = s /\ cend'[p] = "open"
    BY <1>1, <1>2 DEF ClientTyped
  <2> QED  BY <1>3, <2>1 DEF ProgAt
<1>7. ASSUME NEW q \in Programs, q # p
      PROVE  ProgAt(q)'
  <2>1. ctl'[q] = ctl[q] /\ seen'[q] = seen[q]
    BY <1>1, <1>7 DEF ClientTyped
  <2> QED  BY <1>2, <1>7, <2>1, OtherPrograms
<1> QED  BY <1>4, <1>5, <1>6, <1>7 DEF Inv

\* The program's own steps.
LEMMA ProgramMoves ==
  ASSUME Inv, NEW p \in Programs, Program(p)
  PROVE  Inv'
<1>1. /\ ServInv /\ ClientTyped /\ ProgAt(p) /\ p \in Clients
      /\ got \in [Clients -> Seq(Records)]
  BY ServTyped, ProgramAssumption DEF Inv
<1>2. /\ seen[p] \in Nat /\ seen' \in {seen, [seen EXCEPT ![p] = @ + 1]} =>
           \E s \in Nat : seen' = [seen EXCEPT ![p] = s]
      /\ seen = [seen EXCEPT ![p] = seen[p]]
      /\ broken \in [Programs -> BOOLEAN]
      /\ \A b \in BOOLEAN : [broken EXCEPT ![p] = b] \in [Programs -> BOOLEAN]
  BY <1>1 DEF ClientTyped
<1>3. ReadEnd(p) => /\ Over(p) /\ seen' = [seen EXCEPT ![p] = seen[p]]
                    /\ broken' \in [Programs -> BOOLEAN]
  <2> SUFFICES ASSUME ReadEnd(p)
               PROVE  /\ Over(p) /\ seen' = [seen EXCEPT ![p] = seen[p]]
                      /\ broken' \in [Programs -> BOOLEAN]
    OBVIOUS
  <2>1. Over(p) /\ seen' = seen
    BY DEF ReadEnd, AtEnd
  <2>2. broken' = [broken EXCEPT ![p] = broken[p] \/ ResetDue(p)]
    BY DEF ReadEnd
  <2>3. (broken[p] \/ ResetDue(p)) \in BOOLEAN
    BY Zenon
  <2> HIDE DEF ResetDue
  <2> QED  BY <1>2, <2>1, <2>2, <2>3
<1>4. ReadText(p) => /\ seen[p] < Len(got[p])
                     /\ seen' = [seen EXCEPT ![p] = seen[p] + 1]
                     /\ broken' \in [Programs -> BOOLEAN]
  BY <1>1 DEF ReadText, Unread, ClientTyped
<1>5. /\ seen[p] \in Nat /\ seen[p] + 1 \in Nat
      /\ Len(got[p]) \in Nat
  BY <1>1, LenProperties DEF ClientTyped
<1>6. CASE Start(p)
  BY <1>6, StartMoves
<1>7. CASE ReadRecord(p)
  <2>1. ctl[p] = "record" /\ Goto(p, "ack")
    BY <1>7 DEF ReadRecord
  <2>2. ctl' = [ctl EXCEPT ![p] = "ack"] /\ UNCHANGED protocolVars /\ ctl[p] # "none"
    BY <2>1 DEF Goto
  <2>3. CASE ReadText(p)
    <3>1. Over(p) \/ (Fresh(p) /\ seen[p] + 1 = 1)
      BY <1>1, <1>5, <2>1 DEF ProgAt
    <3> QED  BY <1>4, <1>5, <2>2, <2>3, <3>1, GotoMoves
  <2>4. CASE ReadEnd(p)
    BY <1>3, <1>5, <2>2, <2>4, GotoMoves
  <2> QED  BY <1>7, <2>3, <2>4 DEF ReadRecord
<1>8. CASE ReadAck(p)
  <2>1. ctl[p] = "ack"
    BY <1>8 DEF ReadAck
  <2>2. CASE ReadText(p) /\ Goto(p, "prompt")
    <3>1. seen[p] < Len(got[p])
      BY <1>4, <2>2
    <3>2. Over(p) \/ (Fresh(p) /\ seen[p] = 1)
      BY <1>1, <2>1 DEF ProgAt
    <3>3. Fresh(p) => Len(got[p]) = 0 \/ Len(got[p]) = 1
      BY Zenon DEF Fresh
    <3> DEFINE n == Len(got[p])
               k == seen[p]
    <3>4. /\ k \in Nat /\ k < n
          /\ Fresh(p) => n = 0 \/ n = 1
          /\ Over(p) \/ (Fresh(p) /\ k = 1)
      BY <1>5, <3>1, <3>2, <3>3
    <3> HIDE DEF n, k
    <3>5. Over(p)
      BY <3>4
    <3> QED  BY <1>4, <1>5, <2>1, <2>2, <3>5, GotoMoves DEF Goto
  <2>3. CASE ReadEnd(p) /\ Goto(p, "prompt")
    BY <1>3, <1>5, <2>1, <2>3, GotoMoves DEF Goto
  <2>4. CASE Exit(p)
    BY <2>1, <2>4, ExitMoves
  <2> QED  BY <1>8, <2>2, <2>3, <2>4 DEF ReadAck
<1>9. ASSUME NEW call \in {"record", "ack", "prompt", "repeat", "quit"},
             NEW texts, WriteThen(p, texts, call), Over(p), ctl[p] # "none",
             NEW s \in Nat, seen' = [seen EXCEPT ![p] = s]
      PROVE  Inv'
  <2>1. broken' = [broken EXCEPT ![p] = TRUE] /\ Goto(p, call)
    BY <1>9 DEF WriteThen
  <2> QED  BY <1>2, <1>9, <2>1, GotoMoves DEF Goto
<1>10. ASSUME NEW line \in Words \cup {"quit"}, Prompt(p, line)
       PROVE  Inv'
  <2>1. ctl[p] = "prompt" /\ Over(p)
    BY <1>1, <1>10 DEF Prompt, ProgAt
  <2>2. CASE WriteKills(p, <<line>>)
    BY <2>1, <2>2, ExitMoves DEF WriteKills
  <2>3. CASE ~ WriteKills(p, <<line>>)
    <3> DEFINE call == CASE line = "again" -> "repeat"
                         [] line = "quit"  -> "quit"
                         [] OTHER          -> "record"
    <3>1. WriteThen(p, <<line>>, call) /\ seen' = seen
      BY <1>10, <2>3 DEF Prompt
    <3>2. call \in {"record", "ack", "prompt", "repeat", "quit"}
      OBVIOUS
    <3> HIDE DEF call
    <3> QED  BY <1>2, <1>5, <1>9, <2>1, <3>1, <3>2
  <2> QED  BY <2>2, <2>3
<1>11. CASE Quit(p)
  BY <1>11, ExitMoves DEF Quit
<1>12. CASE Repeat(p)
  <2>1. ctl[p] = "repeat" /\ Over(p)
    BY <1>1, <1>12 DEF Repeat, ProgAt
  <2>2. CASE ReadText(p) /\ WriteThen(p, <<"thank_you", "again">>, "record")
    BY <1>4, <1>5, <1>9, <2>1, <2>2
  <2>3. CASE Exit(p)
    BY <2>1, <2>3, ExitMoves
  <2> QED  BY <1>12, <2>2, <2>3 DEF Repeat, WriteKills
<1>13. CASE Killed(p)
  BY <1>13, ExitMoves DEF Killed
<1> QED  BY <1>6, <1>7, <1>8, <1>10, <1>11, <1>12, <1>13 DEF Program

\* Nobody has connected.
LEMMA InvInit ==
  ASSUME Init
  PROVE  Inv
<1>1. ServInv
  BY ServInit DEF Init
<1>2. /\ ctl = [p \in Programs |-> "none"] /\ seen = [p \in Programs |-> 0]
      /\ broken = [p \in Programs |-> FALSE]
  BY DEF Init, ClientInit
<1>3. ClientTyped
  BY <1>2 DEF ClientTyped
<1>4. \A p \in Programs : ProgAt(p)
  BY <1>2 DEF ProgAt
<1> QED  BY <1>1, <1>3, <1>4 DEF Inv

\* Nothing happens.
LEMMA InvStutter ==
  ASSUME Inv, UNCHANGED vars
  PROVE  Inv'
<1>1. /\ UNCHANGED <<srv, backlog, up, cend, masterFDs, readFDs, fdMax, sock>>
      /\ UNCHANGED <<store, recvBuffer, said, got>> /\ UNCHANGED clientVars
  BY DEF vars, protocolVars, loopVars
<1>2. ServInv /\ LoopInv /\ up \in [Clients -> Seq(Texts)]
  BY ServTyped DEF Inv
<1>3. OpenFds' = OpenFds
  BY <1>1 DEF OpenFds
<1>4. LoopInv'
  BY <1>1, <1>2, QuietStep DEF LoopInv, LoopTypeOK, Readable
<1>5. \A k \in DOMAIN backlog' : got[backlog'[k]] = <<>>
  BY <1>1, <1>2 DEF ServInv, NothingYet
<1>6. recvBuffer' \in Texts /\ said' \in 0 .. MaxSaid
  BY <1>1, <1>2 DEF ServInv, ServerTypeOK
<1>7. ServInv'
  BY <1>1, <1>2, <1>3, <1>4, <1>5, <1>6, ServQuiet
<1>8. \A p \in Programs : Over(p)' = Over(p) /\ Fresh(p)' = Fresh(p)
  BY <1>1 DEF Over, Connected, OpenFds, Waiting, Fresh
<1> QED  BY <1>1, <1>7, <1>8, OthersMove

-----------------------------------------------------------------------------
(* The theorems *)

\* Inv holds in every reachable state: the session on each descriptor fits what
\* its connection was sent, and where client.c is fits what it has seen.
THEOREM ProtocolInductive == Spec => []Inv
<1>1. Init => Inv
  BY InvInit
<1>2. Inv /\ [Next]_vars => Inv'
  <2> SUFFICES ASSUME Inv, [Next]_vars PROVE Inv'
    OBVIOUS
  <2>1. CASE UNCHANGED vars
    BY <2>1, InvStutter
  <2>2. CASE Next
    BY <2>2, ServerMoves, GuestMoves, ProgramMoves DEF Next
  <2> QED  BY <2>1, <2>2
<1> QED  BY <1>1, <1>2, PTL DEF Spec

\* Streams carry texts, sessions hold a student's record or none, and the
\* buffer is never without a text, as the second use of it after a failed
\* read needs (server.c of other/select:74-98).
THEOREM ProtocolTypeOK == Spec => []TypeOK
<1>1. Inv => TypeOK
  BY InvImplies
<1> QED  BY <1>1, ProtocolInductive, PTL

\* Exactly the open connections are watched, after an unknown id as well
\* (server.c of other/select:59, 68, 83-87, 101-102, 143-144).
THEOREM ProtocolWatchedAreOpen == Spec => []WatchedAreOpen
<1>1. Inv => WatchedAreOpen
  BY InvImplies
<1> QED  BY <1>1, ProtocolInductive, PTL

\* No connection is sent a second record without an acknowledgement since the
\* first, although the flags belong to a descriptor and outlive its users
\* (server.c of other/select:152-176).
THEOREM ProtocolEarnedRecords == Spec => []EarnedRecords
<1>1. Inv => EarnedRecords
  BY InvImplies
<1> QED  BY <1>1, ProtocolInductive, PTL

\* client.c asks its user to go on only when its connection is over
\* (client.c:60-73, server.c:152-170 of other/select).
THEOREM ProtocolPromptedOnlyAfterEnd == Spec => []PromptedOnlyAfterEnd
<1>1. Inv => PromptedOnlyAfterEnd
  BY InvImplies
<1> QED  BY <1>1, ProtocolInductive, PTL
=============================================================================

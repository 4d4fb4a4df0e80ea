------------------------ MODULE SmallProgramsProofs ------------------------
(***************************************************************************)
(* Proofs about SmallPrograms, for any clients, descriptors, students and  *)
(* width of an int.  One invariant for each kind of program: an iterative  *)
(* server answers the client in hand, and it only; the stream server       *)
(* forgets no child; the records of the forking server were asked for;     *)
(* and the sum that comes through the pipe is that of the array.           *)
(***************************************************************************)
EXTENDS SmallPrograms, LeastNumber, FiniteSetTheorems, TLAPS

\* Strengthening: a server that has ended leaves no zombie behind.
ZombieInv ==
  /\ proc \in [Clients -> {"none", "hello", "close"} \cup Stream!Ended]
  /\ Stream!NoZombieForgotten
  /\ srv # "up" => \A c \in Clients : proc[c] # "zombie"

\* The server starts without children.
LEMMA InitZombieInv == Stream!Init => ZombieInv
BY DEF Stream!Init, Stream!ConnInit, ZombieInv, Stream!NoZombieForgotten

\* Steps that make no zombie and take away neither the signal nor the handler.
LEMMA NoNewZombie ==
  ASSUME ZombieInv, srv' = srv,
         proc' \in [Clients -> {"none", "hello", "close"} \cup Stream!Ended],
         \A c \in Clients : proc'[c] = "zombie" => proc[c] = "zombie",
         sigchld \/ handling => sigchld' \/ handling'
  PROVE  ZombieInv'
BY DEF ZombieInv, Stream!NoZombieForgotten

\* What the server does, its handler included, leaves no child unaccounted for.
LEMMA ServerStep == ZombieInv /\ Stream!Server => ZombieInv'
<1> SUFFICES ASSUME ZombieInv, Stream!Server PROVE ZombieInv'
  OBVIOUS
<1>1. CASE Stream!AcceptNext \/ Stream!ForkFails \/ Stream!CloseNew
  <2>1. srv' = srv /\ UNCHANGED <<proc, sigchld, handling>>
    BY <1>1 DEF Stream!AcceptNext, Stream!Accept, Stream!ForkFails, Stream!CloseNew,
                Stream!connVars
  <2> QED  BY <2>1 DEF ZombieInv, Stream!NoZombieForgotten
<1>2. CASE Stream!ForkChild
  BY <1>2, NoNewZombie DEF Stream!ForkChild, Stream!Fork, ZombieInv, Stream!Ended
<1>3. CASE Stream!TakeSignal
  BY <1>3, NoNewZombie DEF Stream!TakeSignal, Stream!connVars, ZombieInv
<1>4. CASE Stream!WaitForAll
  <2>1. srv' = srv
    BY <1>4 DEF Stream!WaitForAll, Stream!connVars
  <2>2. CASE \E c \in Clients : Stream!Reap(c) /\ UNCHANGED handling
    <3>1. UNCHANGED sigchld
      BY <1>4 DEF Stream!WaitForAll
    <3> QED  BY <2>1, <2>2, <3>1, NoNewZombie DEF Stream!Reap, ZombieInv, Stream!Ended
  <2>3. CASE UNCHANGED proc /\ \A c \in Clients : proc[c] # "zombie"
    BY <2>1, <2>3 DEF ZombieInv, Stream!NoZombieForgotten
  <2> QED  BY <1>4, <2>2, <2>3 DEF Stream!WaitForAll
<1> QED  BY <1>1, <1>2, <1>3, <1>4 DEF Stream!Server

\* A child that exits while the server runs raises the signal it is reaped for.
LEMMA ChildStep == \A c \in Clients : ZombieInv /\ Stream!Child(c) => ZombieInv'
<1> SUFFICES ASSUME NEW c \in Clients, ZombieInv, Stream!Child(c) PROVE ZombieInv'
  OBVIOUS
<1>1. CASE Stream!SendHello(c)
  BY <1>1, NoNewZombie DEF Stream!SendHello, ZombieInv, Stream!Ended
<1>2. CASE Stream!ChildExits(c)
  <2>1. proc' \in [Clients -> {"none", "hello", "close"} \cup Stream!Ended]
    BY <1>2 DEF Stream!ChildExits, Stream!EndChild, ZombieInv, Stream!Ended
  <2>2. CASE srv = "up"
    BY <1>2, <2>1, <2>2 DEF Stream!ChildExits, ZombieInv, Stream!NoZombieForgotten
  <2>3. CASE srv # "up"
    BY <1>2, <2>1, <2>3 DEF Stream!ChildExits, Stream!EndChild, ZombieInv,
                             Stream!NoZombieForgotten
  <2> QED  BY <2>2, <2>3
<1> QED  BY <1>1, <1>2 DEF Stream!Child

\* The zombies of a server that ends are waited for by init.
LEMMA KilledStep == ZombieInv /\ Stream!ServerKilled => ZombieInv'
BY DEF Stream!ServerKilled, Stream!EndServer, Stream!ServerEnds, Stream!Ended,
       ZombieInv, Stream!NoZombieForgotten

\* Every step of the stream server keeps ZombieInv.
LEMMA StreamZombieInv == ZombieInv /\ Stream!Next => ZombieInv'
<1> SUFFICES ASSUME ZombieInv, Stream!Next PROVE ZombieInv'
  OBVIOUS
<1>1. ASSUME NEW c \in Clients, Stream!Call(c) \/ Stream!HangUp(c) PROVE ZombieInv'
  BY <1>1 DEF Stream!Call, Stream!HangUp, Stream!Connect, Stream!Close,
              ZombieInv, Stream!NoZombieForgotten
<1> QED  BY <1>1, ServerStep, ChildStep, KilledStep DEF Stream!Next

\* However many children end at once, and whenever, SIGCHLD is pending or the
\* handler runs as long as one of them is a zombie
\* (streamserver/server.c:17-21, 92-99).
THEOREM ZombiesReaped == Spec => []NoZombieForgotten
<1> DEFINE Inv == program = "stream" => ZombieInv
<1>1. Init => Inv
  BY InitZombieInv DEF Init
<1>2. Inv /\ [Next]_vars => Inv'
  <2> SUFFICES ASSUME Inv, [Next]_vars, program' = "stream" PROVE ZombieInv'
    OBVIOUS
  <2>1. program = "stream"
    BY DEF Next, IterativeStep, IterativeOnly, StreamStep, StreamOnly,
           ForkingStep, PipeStep, vars
  <2>2. CASE StreamStep
    BY <2>1, <2>2, StreamZombieInv DEF StreamStep
  <2>3. CASE UNCHANGED vars
    BY <2>1, <2>3 DEF vars, connVars, streamVars, ZombieInv, Stream!NoZombieForgotten
  <2> QED  BY <2>1, <2>2, <2>3
           DEF Next, IterativeStep, iterating, ForkingStep, PipeStep
<1>3. Inv => NoZombieForgotten
  BY DEF ZombieInv, NoZombieForgotten, Stream!NoZombieForgotten
<1> QED  BY <1>1, <1>2, <1>3, PTL DEF Spec

-----------------------------------------------------------------------------
(* Connections *)

\* A connection is accepted once, and before it is made nothing is known of it.
OnePlace ==
  /\ \A j, k \in DOMAIN backlog : backlog[j] = backlog[k] => j = k
  /\ \A k \in DOMAIN backlog : backlog[k] # conn
  /\ \A c \in Clients : cend[c] = "none" => c # conn /\ ~ Pending(c) /\ held[c] = {}

\* A new connection waits.
LEMMA ConnectPlaces ==
  ASSUME ConnTypeOK, OnePlace, NEW c \in Clients,
         cend[c] = "none", cend' = [cend EXCEPT ![c] = "open"],
         backlog' = Append(backlog, c), UNCHANGED <<srv, conn, held>>
  PROVE  /\ ConnTypeOK' /\ OnePlace' /\ c # conn /\ held[c] = {}
         /\ \A d \in Clients \ {c} : /\ cend'[d] = cend[d]
                                     /\ Pending(d)' => Pending(d)
<1>1. /\ backlog \in Seq(Clients) /\ c # conn /\ held[c] = {}
      /\ \A k \in DOMAIN backlog : backlog[k] # c
      /\ \A d \in Clients \ {c} : cend'[d] = cend[d]
      /\ cend'[c] = "open"
  BY DEF ConnTypeOK, OnePlace, Pending
<1>2. /\ DOMAIN backlog' = 1 .. Len(backlog) + 1 /\ backlog'[Len(backlog) + 1] = c
      /\ \A k \in DOMAIN backlog : backlog'[k] = backlog[k]
      /\ \A k \in DOMAIN backlog' : k \in DOMAIN backlog \/ k = Len(backlog) + 1
  BY <1>1
<1>3. ConnTypeOK'
  BY DEF ConnTypeOK
<1>4. OnePlace'
  BY <1>1, <1>2 DEF OnePlace, Pending
<1> QED  BY <1>1, <1>2, <1>3, <1>4 DEF Pending

\* The oldest connection that waits is in hand.
LEMMA AcceptPlaces ==
  ASSUME ConnTypeOK, OnePlace, conn = NoClient, backlog # <<>>,
         conn' = Head(backlog), backlog' = Tail(backlog),
         held' = [held EXCEPT ![conn'] = {"server"}], UNCHANGED <<srv, cend>>
  PROVE  /\ ConnTypeOK' /\ OnePlace' /\ conn' \in Clients /\ Pending(conn')
         /\ \A c \in Clients : held'[c] = IF c = conn' THEN {"server"} ELSE held[c]
         /\ \A c \in Clients : Pending(c)' => Pending(c)
<1>1. /\ conn' = backlog[1] /\ conn' \in Clients /\ 1 \in DOMAIN backlog
      /\ backlog' \in Seq(Clients)
      /\ \A k \in DOMAIN backlog' : k + 1 \in DOMAIN backlog /\ backlog'[k] = backlog[k + 1]
      /\ DOMAIN backlog' \subseteq Nat
  BY DEF ConnTypeOK
<1>2. \A c \in Clients : held'[c] = IF c = conn' THEN {"server"} ELSE held[c]
  BY <1>1 DEF ConnTypeOK
<1>3. ConnTypeOK'
  <2>1. {"server"} \in SUBSET Processes
    BY DEF Processes
  <2> QED  BY <1>1, <2>1 DEF ConnTypeOK
<1>4. \A c \in Clients : Pending(c)' => Pending(c)
  BY <1>1 DEF Pending
<1>5. Pending(conn')
  BY <1>1 DEF Pending
<1>6. \A j, k \in DOMAIN backlog' : backlog'[j] = backlog'[k] => j = k
  BY <1>1 DEF OnePlace
<1>7. \A k \in DOMAIN backlog' : backlog'[k] # conn'
  <2> SUFFICES ASSUME NEW k \in DOMAIN backlog'
               PROVE  backlog'[k] # conn'
    OBVIOUS
  <2>1. k \in Nat /\ k # 0 /\ k + 1 # 1
    BY <1>1
  <2> QED  BY <1>1, <2>1 DEF OnePlace
<1>8. \A c \in Clients : cend[c] = "none" => c # conn' /\ ~ Pending(c)' /\ held'[c] = {}
  BY <1>2, <1>4, <1>5 DEF OnePlace
<1>9. OnePlace'
  BY <1>6, <1>7, <1>8 DEF OnePlace
<1> QED  BY <1>1, <1>2, <1>3, <1>4, <1>5, <1>9

-----------------------------------------------------------------------------
(* The iterative servers *)

\* The lines under way are those their clients were given.
OwnLines == \A c \in Clients : \A k \in DOMAIN up[c] : up[c][k] = c /\ typed[c] = "line"

\* Words are left over only from an operator that has typed too many.
NoneAhead == operator = "exact" => ahead = <<>>

\* The time is told to the client in hand only, and then no more.
ToldOnce ==
  program \in Iterative!TimeServers =>
    \A c \in Clients : cend[c] = "none" \/ c = conn \/ Pending(c) => got[c] = <<>>

IterInv ==
  /\ Iterative!TypeOK
  /\ OnePlace /\ OwnLines /\ NoneAhead /\ ToldOnce
  /\ Iterative!EarlierAreDone /\ Iterative!AnswerIsOwn

\* Nobody has connected to the iterative server.
LEMMA InitIterInv == Init => IterInv
<1> SUFFICES ASSUME Init PROVE IterInv
  OBVIOUS
<1>1. NoClient \notin Clients
  BY ConnectionAssumption DEF ConnectionAssumption
<1> QED
  BY <1>1 DEF Init, Iterative!Init, Iterative!ConnInit, IterInv, Iterative!TypeOK,
     Iterative!ConnTypeOK, OnePlace, OwnLines, NoneAhead, ToldOnce, Pending,
     Iterative!EarlierAreDone, Iterative!AnswerIsOwn, Iterative!LineServers,
     Iterative!TimeServers

\* Steps after which only the ends of connections are others.
LEMMA EndsChange ==
  ASSUME IterInv,
         UNCHANGED <<program, srv, conn, backlog, held, up, got, typed,
                     sendline, ahead, operator>>,
         shown' \in [Clients -> BOOLEAN],
         cend' \in [Clients -> {"none", "open", "fin", "poked", "rst", "reset"}],
         \A c \in Clients : /\ cend'[c] = "none" => cend[c] = "none"
                            /\ cend'[c] = "open" => cend[c] = "open"
  PROVE  IterInv'
<1>1. Iterative!TypeOK'
  BY DEF IterInv, Iterative!TypeOK, Iterative!ConnTypeOK
<1>2. OnePlace' /\ OwnLines' /\ NoneAhead' /\ ToldOnce'
  BY DEF IterInv, OnePlace, OwnLines, NoneAhead, ToldOnce, Pending
<1>3. Iterative!EarlierAreDone' /\ Iterative!AnswerIsOwn'
  BY DEF IterInv, Iterative!EarlierAreDone, Iterative!AnswerIsOwn
<1> QED  BY <1>1, <1>2, <1>3 DEF IterInv

\* A new connection.
LEMMA CallStep ==
  ASSUME IterInv, NEW c \in Clients, Iterative!Call(c), program' = program
  PROVE  IterInv'
<1>0. Iterative!TypeOK /\ ConnTypeOK /\ OnePlace /\ NoClient \notin Clients
  BY ConnectionAssumption
     DEF IterInv, Iterative!TypeOK, Iterative!ConnTypeOK, ConnTypeOK, Processes,
         Iterative!Processes, ConnectionAssumption
<1>1. /\ cend[c] = "none" /\ cend' = [cend EXCEPT ![c] = "open"]
      /\ backlog' = Append(backlog, c) /\ up' = [up EXCEPT ![c] = <<>>]
      /\ UNCHANGED <<srv, conn, held, got, typed, shown, sendline, ahead, operator>>
  BY DEF Iterative!Call, Iterative!Connect, Iterative!wordVars
<1>2. /\ ConnTypeOK' /\ OnePlace' /\ c # conn /\ held[c] = {}
      /\ \A d \in Clients \ {c} : cend'[d] = cend[d] /\ (Pending(d)' => Pending(d))
  BY <1>0, <1>1, ConnectPlaces
<1>3. up' \in [Clients -> Seq(Clients)] /\ up'[c] = <<>>
      /\ \A d \in Clients \ {c} : up'[d] = up[d]
  BY <1>0, <1>1 DEF Iterative!TypeOK
<1>4. Iterative!TypeOK'
  BY <1>0, <1>1, <1>2, <1>3
     DEF Iterative!TypeOK, Iterative!ConnTypeOK, ConnTypeOK, Processes, Iterative!Processes
<1>5. OwnLines' /\ NoneAhead'
  BY <1>1, <1>3 DEF IterInv, OwnLines, NoneAhead
<1>6. ToldOnce'
  BY <1>1, <1>2 DEF IterInv, ToldOnce
<1>7. Iterative!EarlierAreDone' /\ Iterative!AnswerIsOwn'
  BY <1>0, <1>1, <1>2 DEF IterInv, Iterative!EarlierAreDone, Iterative!AnswerIsOwn
<1> QED  BY <1>2, <1>4, <1>5, <1>6, <1>7 DEF IterInv

\* A line is typed.
LEMMA TypeStep ==
  ASSUME IterInv, NEW c \in Clients, Iterative!TypeLine(c), program' = program
  PROVE  IterInv'
<1>0. Iterative!TypeOK /\ Iterative!ConnTypeOK
  BY DEF IterInv, Iterative!TypeOK
<1>1. /\ typed[c] = "no" /\ cend[c] = "open"
      /\ UNCHANGED <<srv, conn, backlog, held, got, cend, shown, sendline, ahead, operator>>
      /\ \/ up' = [up EXCEPT ![c] = Append(@, c)] /\ typed' = [typed EXCEPT ![c] = "line"]
         \/ up' = up /\ typed' = [typed EXCEPT ![c] = "end"]
  BY DEF Iterative!TypeLine, Iterative!Send, Iterative!wordVars, Iterative!connVars
<1>2. /\ \A d \in Clients \ {c} : up'[d] = up[d] /\ typed'[d] = typed[d]
      /\ \/ up'[c] = Append(up[c], c) /\ typed'[c] = "line"
         \/ up'[c] = up[c] /\ typed'[c] = "end"
      /\ up[c] \in Seq(Clients)
  BY <1>0, <1>1 DEF Iterative!TypeOK
<1>3. \A k \in DOMAIN up[c] : FALSE
  BY <1>1 DEF IterInv, OwnLines
<1>4. Iterative!TypeOK'
  <2>1. typed' \in [Clients -> {"no", "line", "end"}]
    BY <1>0, <1>1 DEF Iterative!TypeOK
  <2>2. up' \in [Clients -> Seq(Clients)]
    <3>1. up \in [Clients -> Seq(Clients)] /\ Append(up[c], c) \in Seq(Clients)
      BY <1>0, <1>2 DEF Iterative!TypeOK
    <3> QED  BY <1>1, <3>1
  <2> QED  BY <1>0, <1>1, <2>1, <2>2 DEF Iterative!TypeOK, Iterative!ConnTypeOK
<1>5. OnePlace' /\ NoneAhead' /\ ToldOnce'
  BY <1>1 DEF IterInv, OnePlace, NoneAhead, ToldOnce, Pending
<1>6. OwnLines'
  <2>1. \A k \in DOMAIN up'[c] : up'[c][k] = c /\ typed'[c] = "line"
    BY <1>2, <1>3
  <2> QED  BY <1>2, <2>1 DEF IterInv, OwnLines
<1>7. Iterative!EarlierAreDone'
  BY <1>1 DEF IterInv, Iterative!EarlierAreDone
<1>8. Iterative!AnswerIsOwn'
  BY <1>1, <1>2 DEF IterInv, Iterative!AnswerIsOwn
<1> QED  BY <1>4, <1>5, <1>6, <1>7, <1>8 DEF IterInv

\* The oldest connection is accepted.
LEMMA AcceptStep ==
  ASSUME IterInv, Iterative!AcceptNext, program' = program
  PROVE  IterInv'
<1>0. Iterative!TypeOK /\ ConnTypeOK /\ OnePlace /\ NoClient \notin Clients
  BY ConnectionAssumption
     DEF IterInv, Iterative!TypeOK, Iterative!ConnTypeOK, ConnTypeOK, Processes,
         Iterative!Processes, ConnectionAssumption
<1>1. /\ conn = NoClient /\ backlog # <<>> /\ conn' = Head(backlog)
      /\ backlog' = Tail(backlog) /\ held' = [held EXCEPT ![conn'] = {"server"}]
      /\ UNCHANGED <<srv, up, got, cend, typed, shown, sendline, ahead, operator>>
  BY DEF Iterative!AcceptNext, Iterative!Accept, Iterative!wordVars
<1>2. /\ ConnTypeOK' /\ OnePlace' /\ conn' \in Clients /\ Pending(conn')
      /\ \A c \in Clients : held'[c] = IF c = conn' THEN {"server"} ELSE held[c]
      /\ \A c \in Clients : Pending(c)' => Pending(c)
  BY <1>0, <1>1, AcceptPlaces
<1>3. Iterative!TypeOK'
  BY <1>0, <1>1, <1>2
     DEF Iterative!TypeOK, Iterative!ConnTypeOK, ConnTypeOK, Processes, Iterative!Processes
<1>4. OwnLines' /\ NoneAhead'
  BY <1>1 DEF IterInv, OwnLines, NoneAhead
<1>5. ToldOnce'
  BY <1>1, <1>2 DEF IterInv, ToldOnce
<1>6. Iterative!EarlierAreDone'
  BY <1>0, <1>1, <1>2 DEF IterInv, Iterative!EarlierAreDone
<1>7. Iterative!AnswerIsOwn'
  BY <1>1 DEF IterInv, Iterative!AnswerIsOwn
<1> QED  BY <1>2, <1>3, <1>4, <1>5, <1>6, <1>7 DEF IterInv

\* What a write to the client in hand changes.
LEMMA WriteEffect ==
  ASSUME Iterative!TypeOK, NEW c \in Clients, NEW text \in Clients \cup {NoClient, Iterative!TheTime},
         Iterative!Write(c, text)
  PROVE  /\ got' \in [Clients -> Seq(Clients \cup {NoClient, Iterative!TheTime})]
         /\ cend' \in [Clients -> {"none", "open", "fin", "poked", "rst", "reset"}]
         /\ \A d \in Clients \ {c} : got'[d] = got[d] /\ cend'[d] = cend[d]
         /\ cend'[c] = "none" => cend[c] = "none"
         /\ cend'[c] = "open" => cend[c] = "open"
         /\ got'[c] = got[c] \/ got'[c] = Append(got[c], text)
<1>1. /\ got \in [Clients -> Seq(Clients \cup {NoClient, Iterative!TheTime})]
      /\ cend \in [Clients -> {"none", "open", "fin", "poked", "rst", "reset"}]
  BY DEF Iterative!TypeOK, Iterative!ConnTypeOK
<1>2. Append(got[c], text) \in Seq(Clients \cup {NoClient, Iterative!TheTime})
  BY <1>1
<1>3. /\ got' = [got EXCEPT ![c] = IF cend[c] = "open" THEN Append(got[c], text) ELSE got[c]]
      /\ \E e \in Iterative!EndsAfterWrite(cend[c]) : cend' = [cend EXCEPT ![c] = e]
  BY DEF Iterative!Write
<1>4. /\ got' \in [Clients -> Seq(Clients \cup {NoClient, Iterative!TheTime})]
      /\ \A d \in Clients \ {c} : got'[d] = got[d]
      /\ got'[c] = got[c] \/ got'[c] = Append(got[c], text)
  BY <1>1, <1>2, <1>3
<1>5. /\ cend' \in [Clients -> {"none", "open", "fin", "poked", "rst", "reset"}]
      /\ \A d \in Clients \ {c} : cend'[d] = cend[d]
      /\ cend'[c] = "none" => cend[c] = "none"
      /\ cend'[c] = "open" => cend[c] = "open"
  <2>1. PICK e \in Iterative!EndsAfterWrite(cend[c]) : cend' = [cend EXCEPT ![c] = e]
    BY <1>3
  <2>2. /\ e \in {"none", "open", "fin", "poked", "rst", "reset"}
        /\ e \in {"none", "open"} => cend[c] = e
    BY <1>1, <2>1 DEF Iterative!EndsAfterWrite
  <2> QED  BY <1>1, <2>1, <2>2
<1> QED  BY <1>4, <1>5

\* A line is answered with text: with itself, or with what an operator who does
\* not keep to the prompts has typed.
LEMMA AnswerStep ==
  ASSUME IterInv, Iterative!ReadLine, NEW text \in Clients \cup {NoClient},
         Iterative!Write(conn, text), program \in Iterative!LineServers,
         UNCHANGED <<program, srv, conn, backlog, held, typed, shown>>,
         sendline' \in Clients \cup {NoClient}, ahead' \in Seq(Clients),
         operator' \in {"exact", "ahead", "ended"},
         operator' = "exact" => operator = "exact" /\ ahead' = <<>>,
         text = conn \/ (program = "line" /\ operator' # "exact")
  PROVE  IterInv'
<1>0. Iterative!TypeOK /\ Iterative!ConnTypeOK
  BY DEF IterInv, Iterative!TypeOK
<1>1. /\ conn \in Clients /\ up[conn] # <<>> /\ up[conn] \in Seq(Clients)
      /\ up' = [up EXCEPT ![conn] = Tail(@)]
      /\ program \notin Iterative!TimeServers
  BY <1>0 DEF Iterative!ReadLine, Iterative!TypeOK, Iterative!ConnTypeOK,
     Iterative!LineServers, Iterative!TimeServers
<1>2. /\ got' \in [Clients -> Seq(Clients \cup {NoClient, Iterative!TheTime})]
      /\ cend' \in [Clients -> {"none", "open", "fin", "poked", "rst", "reset"}]
      /\ \A d \in Clients \ {conn} : got'[d] = got[d] /\ cend'[d] = cend[d]
      /\ cend'[conn] = "none" => cend[conn] = "none"
      /\ cend'[conn] = "open" => cend[conn] = "open"
      /\ got'[conn] = got[conn] \/ got'[conn] = Append(got[conn], text)
  BY <1>0, <1>1, WriteEffect
<1>3. /\ Tail(up[conn]) \in Seq(Clients)
      /\ \A k \in DOMAIN Tail(up[conn]) :
           k + 1 \in DOMAIN up[conn] /\ Tail(up[conn])[k] = up[conn][k + 1]
      /\ 1 \in DOMAIN up[conn]
  BY <1>1
<1>4. /\ up' \in [Clients -> Seq(Clients)] /\ up'[conn] = Tail(up[conn])
      /\ \A d \in Clients \ {conn} : up'[d] = up[d]
  BY <1>0, <1>1, <1>3 DEF Iterative!TypeOK
<1>5. typed[conn] = "line"
  BY <1>1, <1>3 DEF IterInv, OwnLines
<1>6. Iterative!TypeOK'
  BY <1>0, <1>2, <1>4 DEF Iterative!TypeOK, Iterative!ConnTypeOK
<1>7. OnePlace' /\ NoneAhead' /\ ToldOnce'
  BY <1>1, <1>2 DEF IterInv, OnePlace, NoneAhead, ToldOnce, Pending
<1>8. OwnLines'
  <2> SUFFICES ASSUME NEW d \in Clients, NEW k \in DOMAIN up'[d]
               PROVE  up'[d][k] = d /\ typed[d] = "line"
    BY DEF OwnLines
  <2>1. CASE d # conn
    BY <1>4, <2>1 DEF IterInv, OwnLines
  <2>2. CASE d = conn
    BY <1>3, <1>4, <2>2 DEF IterInv, OwnLines
  <2> QED  BY <2>1, <2>2
<1>9. Iterative!EarlierAreDone'
  BY <1>1, <1>2 DEF IterInv, Iterative!EarlierAreDone
<1>10. Iterative!AnswerIsOwn'
  <2> SUFFICES ASSUME NEW d \in Clients, NEW k \in DOMAIN got'[d]
               PROVE  \/ got'[d][k] = d /\ typed[d] = "line"
                      \/ program = "line" /\ operator' # "exact"
    BY <1>1 DEF Iterative!AnswerIsOwn
  <2>1. \/ k \in DOMAIN got[d] /\ got'[d][k] = got[d][k]
        \/ d = conn /\ got'[d][k] = text
    <3>1. got[d] \in Seq(Clients \cup {NoClient, Iterative!TheTime})
      BY <1>0 DEF Iterative!TypeOK
    <3>2. CASE got'[d] = got[d]
      BY <3>2
    <3>3. CASE d = conn /\ got'[d] = Append(got[d], text)
      BY <3>1, <3>3
    <3> QED  BY <1>2, <3>2, <3>3
  <2>2. CASE k \in DOMAIN got[d] /\ got'[d][k] = got[d][k]
    BY <1>1, <2>2 DEF IterInv, Iterative!AnswerIsOwn
  <2> QED  BY <1>5, <2>1, <2>2
<1> QED  BY <1>6, <1>7, <1>8, <1>9, <1>10 DEF IterInv

\* A line is read, and answered.
LEMMA ReturnStep ==
  ASSUME IterInv, Iterative!Return, program \in Iterative!LineServers, program' = program
  PROVE  IterInv'
<1>1. Iterative!TypeOK /\ NoneAhead /\ OwnLines
  BY DEF IterInv
<1>2. conn \in Clients /\ 1 \in DOMAIN up[conn] /\ Head(up[conn]) = up[conn][1]
  BY <1>1 DEF Iterative!Return, Iterative!ReadLine, Iterative!TypeOK, Iterative!ConnTypeOK
<1>3. Head(up[conn]) = conn
  BY <1>1, <1>2 DEF OwnLines
<1>4. /\ Iterative!ReadLine /\ Iterative!Write(conn, conn)
      /\ UNCHANGED <<srv, conn, backlog, held, typed, shown, sendline, ahead, operator>>
  BY <1>3 DEF Iterative!Return, Iterative!wordVars
<1> QED  BY <1>1, <1>2, <1>4, AnswerStep DEF Iterative!TypeOK, NoneAhead

\* The operator's words are relayed.
LEMMA RelayStep ==
  ASSUME IterInv, Iterative!Relay, program = "line", program' = program
  PROVE  IterInv'
<1>1. Iterative!TypeOK /\ NoneAhead
  BY DEF IterInv
<1>2. /\ conn \in Clients /\ Iterative!ReadLine /\ Iterative!Scan
      /\ Iterative!Write(conn, sendline')
      /\ UNCHANGED <<srv, conn, backlog, held, typed, shown>>
      /\ program \in Iterative!LineServers
  BY <1>1 DEF Iterative!Relay, Iterative!ReadLine, Iterative!TypeOK, Iterative!ConnTypeOK,
     Iterative!LineServers
<1>3. /\ sendline' \in Clients \cup {NoClient} /\ ahead' \in Seq(Clients)
      /\ operator' \in {"exact", "ahead", "ended"}
      /\ operator' = "exact" => operator = "exact" /\ ahead' = <<>>
      /\ sendline' = conn \/ operator' # "exact"
  <2>0. ahead \in Seq(Clients) /\ operator \in {"exact", "ahead", "ended"}
        /\ sendline \in Clients \cup {NoClient}
    BY <1>1 DEF Iterative!TypeOK
  <2>1. CASE /\ ahead # <<>> /\ sendline' = Head(ahead) /\ ahead' = Tail(ahead)
             /\ operator' = operator
    <3>1. Head(ahead) \in Clients /\ Tail(ahead) \in Seq(Clients)
      BY <2>0, <2>1
    <3> QED  BY <1>1, <2>0, <2>1, <3>1 DEF NoneAhead
  <2>2. CASE /\ ahead = <<>> /\ sendline' = conn
             /\ \/ ahead' = ahead /\ operator' = operator
                \/ ahead' = <<conn>> /\ operator' = "ahead"
    <3>1. <<conn>> \in Seq(Clients) /\ <<>> \in Seq(Clients)
      BY <1>2
    <3> QED  BY <1>2, <2>0, <2>2, <3>1
  <2>3. CASE operator' = "ended" /\ sendline' = sendline /\ ahead' = ahead
    BY <2>0, <2>3
  <2> QED  BY <1>2, <2>1, <2>2, <2>3 DEF Iterative!Scan
<1> QED  BY <1>2, <1>3, AnswerStep

\* The server is done with a client that is gone.
LEMMA FinishStep ==
  ASSUME IterInv, Iterative!Finish, program \in Iterative!LineServers, program' = program
  PROVE  IterInv'
<1>0. Iterative!TypeOK /\ Iterative!ConnTypeOK /\ NoClient \notin Clients
  BY ConnectionAssumption DEF IterInv, Iterative!TypeOK, ConnectionAssumption
<1>1. /\ conn \in Clients /\ cend[conn] # "open" /\ conn' = NoClient
      /\ UNCHANGED <<srv, backlog, held, up, got, cend, typed, shown,
                     sendline, ahead, operator>>
      /\ program \notin Iterative!TimeServers
  BY <1>0 DEF Iterative!Finish, Iterative!NothingFrom, Iterative!wordVars,
     Iterative!ConnTypeOK, Iterative!LineServers, Iterative!TimeServers
<1>2. Iterative!TypeOK'
  BY <1>0, <1>1 DEF Iterative!TypeOK, Iterative!ConnTypeOK
<1>3. OnePlace'
  BY <1>0, <1>1 DEF IterInv, OnePlace, Pending, Iterative!ConnTypeOK
<1>4. OwnLines' /\ NoneAhead' /\ ToldOnce'
  BY <1>1 DEF IterInv, OwnLines, NoneAhead, ToldOnce
<1>5. Iterative!EarlierAreDone' /\ Iterative!AnswerIsOwn'
  BY <1>1 DEF IterInv, Iterative!EarlierAreDone, Iterative!AnswerIsOwn
<1> QED  BY <1>2, <1>3, <1>4, <1>5 DEF IterInv

\* The time is told, and the connection closed.
LEMMA TellStep ==
  ASSUME IterInv, Iterative!Tell, program \in Iterative!TimeServers, program' = program
  PROVE  IterInv'
<1>0. Iterative!TypeOK /\ Iterative!ConnTypeOK /\ NoClient \notin Clients
  BY ConnectionAssumption DEF IterInv, Iterative!TypeOK, ConnectionAssumption
<1>1. /\ conn \in Clients /\ conn' = NoClient /\ held' = [held EXCEPT ![conn] = {}]
      /\ Iterative!Write(conn, Iterative!TheTime)
      /\ UNCHANGED <<srv, backlog, up, typed, shown, sendline, ahead, operator>>
  BY <1>0 DEF Iterative!Tell, Iterative!wordVars, Iterative!ConnTypeOK
<1>2. /\ got' \in [Clients -> Seq(Clients \cup {NoClient, Iterative!TheTime})]
      /\ cend' \in [Clients -> {"none", "open", "fin", "poked", "rst", "reset"}]
      /\ \A d \in Clients \ {conn} : got'[d] = got[d] /\ cend'[d] = cend[d]
      /\ cend'[conn] = "none" => cend[conn] = "none"
      /\ cend'[conn] = "open" => cend[conn] = "open"
      /\ got'[conn] = got[conn] \/ got'[conn] = Append(got[conn], Iterative!TheTime)
  BY <1>0, <1>1, WriteEffect
<1>3. \A c \in Clients : held'[c] = IF c = conn THEN {} ELSE held[c]
  BY <1>0, <1>1 DEF Iterative!ConnTypeOK
<1>4. Iterative!TypeOK'
  <2>1. held' \in [Clients -> SUBSET Iterative!Processes]
    BY <1>0, <1>1 DEF Iterative!ConnTypeOK
  <2> QED  BY <1>0, <1>1, <1>2, <2>1 DEF Iterative!TypeOK, Iterative!ConnTypeOK
<1>5. ~ Pending(conn) /\ cend[conn] # "none"
  BY <1>1 DEF IterInv, OnePlace, Pending
<1>6. OnePlace'
  <2>1. conn' = NoClient /\ NoClient \notin Clients /\ UNCHANGED <<srv, backlog>>
    BY <1>0, <1>1
  <2>2. backlog \in Seq(Clients)
    BY <1>0 DEF Iterative!ConnTypeOK
  <2>3. \A k \in DOMAIN backlog : backlog[k] \in Clients
    BY <2>2
  <2>4. ASSUME NEW c \in Clients, cend'[c] = "none"
        PROVE  c # conn' /\ ~ Pending(c)' /\ held'[c] = {}
    <3>1. cend[c] = "none"
      BY <1>1, <1>2, <2>4
    <3>2. ~ Pending(c) /\ held[c] = {}
      BY <3>1 DEF IterInv, OnePlace
    <3> QED  BY <1>3, <2>1, <3>2 DEF Pending
  <2> QED  BY <2>1, <2>3, <2>4 DEF IterInv, OnePlace
<1>7. OwnLines' /\ NoneAhead'
  BY <1>1 DEF IterInv, OwnLines, NoneAhead
<1>8. ToldOnce'
  <2>1. \A d \in Clients : Pending(d)' => Pending(d)
    BY <1>1 DEF Pending
  <2> QED  BY <1>0, <1>1, <1>2, <1>5, <2>1 DEF IterInv, ToldOnce
<1>9. Iterative!EarlierAreDone'
  <2>1. Iterative!EarlierAreDone
    BY DEF IterInv
  <2>2. ASSUME NEW c \in Clients, "server" \in held'[c]
        PROVE  c # conn /\ "server" \in held[c] /\ cend'[c] = cend[c]
    BY <1>2, <1>3, <2>2
  <2> QED  BY <2>1, <2>2 DEF Iterative!EarlierAreDone
<1>10. Iterative!AnswerIsOwn'
  <2>1. got[conn] = <<>>
    BY <1>1 DEF IterInv, ToldOnce
  <2>2. Append(<<>>, Iterative!TheTime) = <<Iterative!TheTime>>
    BY DEF Iterative!TheTime
  <2>3. got'[conn] \in {<<>>, <<Iterative!TheTime>>}
    BY <1>2, <2>1, <2>2
  <2> QED  BY <1>2, <2>3 DEF IterInv, Iterative!AnswerIsOwn
<1> QED  BY <1>4, <1>6, <1>7, <1>8, <1>9, <1>10 DEF IterInv

\* The server is killed.
LEMMA KillStep ==
  ASSUME IterInv, Iterative!ServerKilled, program' = program
  PROVE  IterInv'
<1>0. Iterative!TypeOK /\ Iterative!ConnTypeOK /\ NoClient \notin Clients
  BY ConnectionAssumption DEF IterInv, Iterative!TypeOK, ConnectionAssumption
<1>1. /\ srv' = "gone" /\ conn' = NoClient /\ backlog' = <<>>
      /\ held' = [c \in Clients |-> held[c] \ {"server"}]
      /\ UNCHANGED <<up, got, cend, typed, shown, sendline, ahead, operator>>
  BY DEF Iterative!ServerKilled, Iterative!ServerEnds, Iterative!WithoutProcess,
     Iterative!wordVars
<1>2. Iterative!TypeOK'
  <2>1. held' \in [Clients -> SUBSET Iterative!Processes]
    BY <1>0, <1>1 DEF Iterative!ConnTypeOK
  <2> QED  BY <1>0, <1>1, <2>1 DEF Iterative!TypeOK, Iterative!ConnTypeOK
<1>3. OnePlace'
  BY <1>0, <1>1 DEF IterInv, OnePlace, Pending
<1>4. OwnLines' /\ NoneAhead' /\ ToldOnce'
  BY <1>0, <1>1 DEF IterInv, OwnLines, NoneAhead, ToldOnce, Pending
<1>5. Iterative!EarlierAreDone' /\ Iterative!AnswerIsOwn'
  BY <1>1 DEF IterInv, Iterative!EarlierAreDone, Iterative!AnswerIsOwn
<1> QED  BY <1>2, <1>3, <1>4, <1>5 DEF IterInv

\* Every step of an iterative server or of its clients keeps IterInv.
LEMMA IterStep ==
  ASSUME IterInv, Iterative!Next, program' = program
  PROVE  IterInv'
<1>0. Iterative!TypeOK /\ Iterative!ConnTypeOK
  BY DEF IterInv, Iterative!TypeOK
<1>1. \/ Iterative!AcceptNext \/ Iterative!AcceptFails \/ Iterative!ServerKilled
      \/ Iterative!Return /\ program \in Iterative!LineServers
      \/ Iterative!Relay /\ program = "line"
      \/ Iterative!Finish /\ program \in Iterative!LineServers
      \/ Iterative!Tell /\ program \in Iterative!TimeServers
      \/ \E c \in Clients :
           \/ Iterative!Call(c) \/ Iterative!TypeLine(c)
           \/ Iterative!ShowAnswer(c) \/ Iterative!SeeEnd(c)
           \/ Iterative!ShowTime(c) \/ Iterative!Killed(c)
  BY DEF Iterative!Next, Iterative!ServerRuns, Iterative!EchoServer,
     Iterative!UpperServer, Iterative!LineServer, Iterative!DaytimeServer,
     Iterative!TcpServer, Iterative!EchoClient, Iterative!UpperClient,
     Iterative!LineClient, Iterative!DaytimeClient, Iterative!TcpClient,
     Iterative!Finishes, Iterative!LineServers, Iterative!TimeServers
<1>2. ASSUME NEW c \in Clients,
             \/ Iterative!ShowAnswer(c) \/ Iterative!SeeEnd(c)
             \/ Iterative!ShowTime(c) \/ Iterative!Killed(c)
      PROVE  IterInv'
  <2>1. /\ UNCHANGED <<program, srv, conn, backlog, held, up, got, typed,
                       sendline, ahead, operator>>
        /\ \/ cend' = cend
           \/ \E e \in {"rst", "fin"} : cend' = [cend EXCEPT ![c] = e]
        /\ shown' = shown \/ shown' = [shown EXCEPT ![c] = TRUE]
    BY <1>2 DEF Iterative!ShowAnswer, Iterative!SeeEnd, Iterative!ShowTime,
       Iterative!Killed, Iterative!Close, Iterative!wordVars, Iterative!connVars
  <2>2. shown' \in [Clients -> BOOLEAN]
    BY <1>0, <2>1 DEF Iterative!TypeOK
  <2>3. /\ cend' \in [Clients -> {"none", "open", "fin", "poked", "rst", "reset"}]
        /\ \A d \in Clients : /\ cend'[d] = "none" => cend[d] = "none"
                              /\ cend'[d] = "open" => cend[d] = "open"
    BY <1>0, <2>1 DEF Iterative!ConnTypeOK
  <2> QED  BY <2>1, <2>2, <2>3, EndsChange
<1>3. CASE Iterative!AcceptFails
  BY <1>0, <1>3, EndsChange
     DEF Iterative!AcceptFails, Iterative!iterVars, Iterative!connVars,
         Iterative!wordVars, Iterative!TypeOK, Iterative!ConnTypeOK
<1> QED
  BY <1>1, <1>2, <1>3, AcceptStep, KillStep, ReturnStep, RelayStep, FinishStep,
     TellStep, CallStep, TypeStep

IterativeInv == iterating => IterInv

\* IterInv holds as long as an iterative server runs.
LEMMA IterativeInvariant == Spec => []IterativeInv
<1>1. Init => IterativeInv
  BY InitIterInv DEF IterativeInv
<1>2. IterativeInv /\ [Next]_vars => IterativeInv'
  <2> SUFFICES ASSUME IterativeInv, [Next]_vars, iterating'
               PROVE  IterInv'
    BY DEF IterativeInv
  <2>1. iterating /\ program' = program
    BY DEF iterating, Next, IterativeStep, IterativeOnly, StreamStep, StreamOnly,
           ForkingStep, PipeStep, vars
  <2>2. IterInv
    BY <2>1 DEF IterativeInv
  <2>3. CASE IterativeStep
    BY <2>1, <2>2, <2>3, IterStep DEF IterativeStep
  <2>4. CASE UNCHANGED vars
    <3>1. Iterative!TypeOK
      BY <2>2 DEF IterInv
    <3>2. UNCHANGED <<srv, conn, backlog, held, up, got, cend, typed, shown,
                      sendline, ahead, operator>>
      BY <2>4 DEF vars, connVars, iterativeVars
    <3> QED
      BY <2>1, <2>2, <3>1, <3>2, EndsChange DEF Iterative!TypeOK, Iterative!ConnTypeOK
  <2> QED  BY <2>1, <2>3, <2>4 DEF Next, StreamStep, ForkingStep, PipeStep, iterating
<1> QED  BY <1>1, <1>2, PTL DEF Spec

\* Nobody is sent an answer made from another's line, although one buffer
\* serves all clients (echo_server.c:49-54, upp_recv_server.c:68-84,
\* s2c_chat_server.c:50-57, daytimeserver.c:49-56).
THEOREM AnswersOwn == Spec => []AnswerIsOwn
<1>1. IterativeInv => AnswerIsOwn
  BY DEF IterativeInv, IterInv, AnswerIsOwn
<1> QED  BY <1>1, IterativeInvariant, PTL

\* A server turns to the next client when the last has gone, or was told the
\* time (echo_server.c:41-56, daytimeserver.c:49-56).
THEOREM EarlierDone == Spec => []EarlierAreDone
<1>1. IterativeInv => EarlierAreDone
  BY DEF IterativeInv, IterInv, EarlierAreDone
<1> QED  BY <1>1, IterativeInvariant, PTL

-----------------------------------------------------------------------------
(* The repeats that a sequence of texts asks for *)

RepeatAt(s, i) ==
  /\ s[i] = "again"
  /\ \E j \in 2 .. i : s[j] = "thank_you" /\ \A k \in j .. (i - 1) : s[k] # "again"

RepeatsTo(s, n) == {i \in 1 .. n : RepeatAt(s, i)}

\* The next "again" is one of them.
Thanked(s, n) ==
  \E j \in 2 .. n : s[j] = "thank_you" /\ \A k \in j .. n : s[k] # "again"

\* They can be counted.
LEMMA RepeatsFinite ==
  ASSUME NEW s, NEW n \in Nat
  PROVE  IsFiniteSet(RepeatsTo(s, n)) /\ Cardinality(RepeatsTo(s, n)) \in Nat
<1>1. IsFiniteSet(1 .. n)
  BY FS_Interval
<1>2. RepeatsTo(s, n) \subseteq 1 .. n
  BY DEF RepeatsTo
<1> QED  BY <1>1, <1>2, FS_Subset, FS_CardinalityType

\* More texts, no fewer repeats.
LEMMA RepeatsMore ==
  ASSUME NEW s, NEW n \in Nat, NEW m \in Nat, n <= m
  PROVE  Cardinality(RepeatsTo(s, n)) <= Cardinality(RepeatsTo(s, m))
<1>1. RepeatsTo(s, n) \subseteq RepeatsTo(s, m)
  BY DEF RepeatsTo
<1> QED  BY <1>1, RepeatsFinite, FS_Subset

\* An "again" after a thanks of its own.
LEMMA RepeatNext ==
  ASSUME NEW s, NEW n \in Nat, Thanked(s, n), s[n + 1] = "again"
  PROVE  Cardinality(RepeatsTo(s, n + 1)) = Cardinality(RepeatsTo(s, n)) + 1
<1>1. RepeatAt(s, n + 1)
  BY DEF RepeatAt, Thanked
<1>2. RepeatsTo(s, n + 1) = RepeatsTo(s, n) \cup {n + 1} /\ n + 1 \notin RepeatsTo(s, n)
  BY <1>1 DEF RepeatsTo
<1> QED  BY <1>2, RepeatsFinite, FS_AddElement

\* Any other text asks for nothing.
LEMMA RepeatNot ==
  ASSUME NEW s, NEW n \in Nat, ~ (Thanked(s, n) /\ s[n + 1] = "again")
  PROVE  RepeatsTo(s, n + 1) = RepeatsTo(s, n)
<1>1. ~ RepeatAt(s, n + 1)
  <2> SUFFICES ASSUME RepeatAt(s, n + 1) PROVE FALSE
    OBVIOUS
  <2>1. s[n + 1] = "again"
    BY DEF RepeatAt
  <2>2. PICK j \in 2 .. n + 1 :
          s[j] = "thank_you" /\ \A k \in j .. (n + 1 - 1) : s[k] # "again"
    BY DEF RepeatAt
  <2>3. j \in 2 .. n /\ \A k \in j .. n : s[k] # "again"
    BY <2>1, <2>2
  <2> QED  BY <2>1, <2>2, <2>3 DEF Thanked
<1>2. \A i \in 1 .. n + 1 : i \in 1 .. n \/ i = n + 1
  OBVIOUS
<1>3. \A i \in 1 .. n : i \in 1 .. n + 1
  OBVIOUS
<1> QED  BY <1>1, <1>2, <1>3 DEF RepeatsTo

\* Whether the next "again" asks for a repeat, a text later.
LEMMA ThankedNext ==
  ASSUME NEW s, NEW n \in Nat
  PROVE  Thanked(s, n + 1) <=> /\ Thanked(s, n) \/ (n # 0 /\ s[n + 1] = "thank_you")
                               /\ s[n + 1] # "again"
<1>1. ASSUME Thanked(s, n + 1)
      PROVE  /\ Thanked(s, n) \/ (n # 0 /\ s[n + 1] = "thank_you")
             /\ s[n + 1] # "again"
  <2>1. PICK j \in 2 .. n + 1 :
          s[j] = "thank_you" /\ \A k \in j .. n + 1 : s[k] # "again"
    BY <1>1 DEF Thanked
  <2>2. s[n + 1] # "again"
    BY <2>1
  <2>3. CASE j = n + 1
    BY <2>1, <2>2, <2>3
  <2>4. CASE j # n + 1
    <3>1. j \in 2 .. n /\ \A k \in j .. n : s[k] # "again"
      BY <2>1, <2>4
    <3> QED  BY <2>1, <2>2, <3>1 DEF Thanked
  <2> QED  BY <2>3, <2>4
<1>2. ASSUME Thanked(s, n), s[n + 1] # "again"
      PROVE  Thanked(s, n + 1)
  <2>1. PICK j \in 2 .. n : s[j] = "thank_you" /\ \A k \in j .. n : s[k] # "again"
    BY <1>2 DEF Thanked
  <2>2. j \in 2 .. n + 1 /\ \A k \in j .. n + 1 : s[k] # "again"
    BY <1>2, <2>1
  <2> QED  BY <2>1, <2>2 DEF Thanked
<1>3. ASSUME n # 0, s[n + 1] = "thank_you"
      PROVE  Thanked(s, n + 1)
  <2>1. n + 1 \in 2 .. n + 1 /\ \A k \in n + 1 .. n + 1 : k = n + 1
    BY <1>3
  <2>2. s[n + 1] # "again"
    BY <1>3
  <2> QED  BY <1>3, <2>1, <2>2 DEF Thanked
<1> QED  BY <1>1, <1>2, <1>3

\* Nothing is asked for with the first text.
LEMMA NoneAtFirst ==
  ASSUME NEW s
  PROVE  ~ Thanked(s, 0) /\ RepeatsTo(s, 0) = {} /\ RepeatsTo(s, 1) = {}
<1>1. 2 .. 0 = {} /\ 1 .. 0 = {}
  OBVIOUS
<1>2. ~ Thanked(s, 0) /\ RepeatsTo(s, 0) = {}
  BY <1>1 DEF Thanked, RepeatsTo
<1>3. RepeatsTo(s, 0 + 1) = RepeatsTo(s, 0)
  BY <1>2, RepeatNot
<1> QED  BY <1>2, <1>3

\* What was asked for stays asked for.
LEMMA RepeatsKept ==
  ASSUME NEW T, NEW s \in Seq(T), NEW t \in T, NEW n \in 0 .. Len(s)
  PROVE  /\ RepeatsTo(Append(s, t), n) = RepeatsTo(s, n)
         /\ Thanked(s, n) <=> Thanked(Append(s, t), n)
<1>1. \A k \in 1 .. n : Append(s, t)[k] = s[k]
  OBVIOUS
<1> DEFINE u == Append(s, t)
<1> HIDE DEF u
<1>2. \A k \in 1 .. n : u[k] = s[k]
  BY <1>1 DEF u
<1>3. ASSUME NEW i \in 1 .. n
      PROVE  RepeatAt(u, i) <=> RepeatAt(s, i)
  <2>1. \A j \in 2 .. i : \A k \in j .. (i - 1) : k \in 1 .. n
    OBVIOUS
  <2> QED  BY <1>2, <2>1 DEF RepeatAt
<1>4. RepeatsTo(u, n) = RepeatsTo(s, n)
  BY <1>3 DEF RepeatsTo
<1>5. Thanked(s, n) <=> Thanked(u, n)
  BY <1>2 DEF Thanked
<1> QED  BY <1>4, <1>5 DEF u

\* The repeats of the model.
LEMMA RepeatsOf ==
  ASSUME NEW c \in Clients, NEW T, said[c] \in Seq(T)
  PROVE  Forking!Repeats(c) = RepeatsTo(said[c], Len(said[c]))
BY DEF Forking!Repeats, RepeatsTo, RepeatAt

-----------------------------------------------------------------------------
(* The forking server *)

\* The child of c has handled the first h texts of c, and is not at the end of
\* its input: what its variables say of them.
Handled(c, h) ==
  /\ h \in Nat
  /\ \/ proc[c] = "read" /\ Len(said[c]) = h + Len(up[c])
     \/ /\ proc[c] = "handle" /\ Len(said[c]) = h + 1 + Len(up[c])
        /\ mem[c].text = said[c][h + 1]
  /\ mem[c].write = FALSE
  /\ mem[c].first = TRUE => h = 0 /\ got[c] = <<>>
  /\ mem[c].first = FALSE =>
       /\ h # 0 /\ mem[c].detail = said[c][1]
       /\ Len(got[c]) = 1 + Cardinality(RepeatsTo(said[c], h))
  /\ mem[c].thanked = TRUE <=> Thanked(said[c], h)

\* What is under way is what was said last, and one text at most.
LastSaid(c) ==
  \/ up[c] = <<>>
  \/ said[c] # <<>> /\ up[c] = <<said[c][Len(said[c])]>>

Earned(c) ==
  /\ \A k \in DOMAIN got[c] : said[c] # <<>> /\ got[c][k] = said[c][1]
  /\ Len(got[c]) <= 1 + Cardinality(RepeatsTo(said[c], Len(said[c])))

Story(c) ==
  /\ cend[c] = "none" => said[c] = <<>>
  /\ proc[c] = "none" => got[c] = <<>> /\ said[c] = up[c] /\ mem[c] = Forking!NewChild
  /\ LastSaid(c)
  /\ Earned(c)
  /\ cend[c] = "open" /\ proc[c] \in {"read", "handle"} => \E h : Handled(c, h)

\* The connections without a child have had none.
Unserved ==
  \A c \in Clients : cend[c] = "none" \/ c = conn \/ Pending(c) => proc[c] = "none"

ForkInv ==
  /\ Forking!TypeOK /\ OnePlace /\ Unserved
  /\ \A c \in Clients : Story(c)

\* The types that the steps need.
LEMMA ForkTypes ==
  ASSUME ForkInv
  PROVE  /\ Forking!TypeOK /\ ConnTypeOK /\ OnePlace /\ NoClient \notin Clients
         /\ proc \in [Clients -> {"none", "read", "handle", "zombie", "reaped"}]
         /\ up \in [Clients -> Seq(Forking!Texts)]
         /\ said \in [Clients -> Seq(Forking!Texts)]
         /\ got \in [Clients -> Seq(Forking!Texts)]
BY ConnectionAssumption
   DEF ForkInv, Forking!TypeOK, Forking!ConnTypeOK, ConnTypeOK, Forking!Processes,
       Processes, Forking!Ended, ConnectionAssumption

\* A text that is read changes one member of the child's copy of the flags.
LEMMA TextSet ==
  ASSUME Forking!TypeOK, NEW c \in Clients, NEW text \in Forking!Texts \cup {"", "unset"},
         mem' = [mem EXCEPT ![c].text = text]
  PROVE  /\ mem' \in [Clients -> [first : BOOLEAN, write : BOOLEAN, thanked : BOOLEAN,
                                  detail : Students \cup {"unset"},
                                  text : Forking!Texts \cup {"", "unset"}]]
         /\ mem'[c].text = text /\ mem'[c].first = mem[c].first
         /\ mem'[c].write = mem[c].write /\ mem'[c].thanked = mem[c].thanked
         /\ mem'[c].detail = mem[c].detail
         /\ \A d \in Clients \ {c} : mem'[d] = mem[d]
<1> DEFINE R == [first : BOOLEAN, write : BOOLEAN, thanked : BOOLEAN,
                 detail : Students \cup {"unset"}, text : Forking!Texts \cup {"", "unset"}]
<1>1. mem \in [Clients -> R]
  BY DEF Forking!TypeOK
<1>2. [mem[c] EXCEPT !.text = text] \in R
  BY <1>1
<1>3. mem[c] \in R /\ mem' = [mem EXCEPT ![c] = [mem[c] EXCEPT !.text = text]]
  BY <1>1
<1>4. mem' \in [Clients -> R]
  <2> HIDE DEF R
  <2>1. PICK r \in R : r = [mem[c] EXCEPT !.text = text]
    BY <1>2
  <2> QED  BY <1>1, <1>3, <2>1
<1>5. mem'[c] = [mem[c] EXCEPT !.text = text] /\ \A d \in Clients \ {c} : mem'[d] = mem[d]
  <2> HIDE DEF R
  <2> QED  BY <1>1, <1>3
<1> QED  BY <1>3, <1>4, <1>5

\* Nobody has connected to the forking server.
LEMMA InitForkInv == Init => ForkInv
<1> SUFFICES ASSUME Init PROVE ForkInv
  OBVIOUS
<1>1. NoClient \notin Clients
  BY ConnectionAssumption DEF ConnectionAssumption
<1>2. Forking!TypeOK /\ OnePlace /\ Unserved
  BY <1>1 DEF Init, Forking!Init, Forking!ConnInit, Forking!TypeOK, Forking!ConnTypeOK,
     Forking!Ended, Forking!NewChild, OnePlace, Unserved, Pending
<1>3. ASSUME NEW c \in Clients
      PROVE  Story(c)
  <2>1. /\ cend[c] = "none" /\ got[c] = <<>> /\ said[c] = <<>> /\ up[c] = <<>>
        /\ proc[c] = "none" /\ mem[c] = Forking!NewChild
    BY DEF Init, Forking!Init, Forking!ConnInit
  <2>2. Cardinality(RepeatsTo(said[c], 0)) \in Nat /\ Len(said[c]) = 0 /\ Len(got[c]) = 0
    BY <2>1, RepeatsFinite
  <2> QED  BY <2>1, <2>2 DEF Story, LastSaid, Earned
<1> QED  BY <1>2, <1>3 DEF ForkInv

\* What a step leaves of the story of c.
LEMMA StoryKept ==
  ASSUME NEW c \in Clients, Story(c),
         up'[c] = up[c], said'[c] = said[c], got'[c] = got[c], mem'[c] = mem[c],
         cend'[c] = "none" => cend[c] = "none",
         cend'[c] = "open" => cend[c] = "open",
         proc'[c] = proc[c] \/ proc'[c] \in {"zombie", "reaped"}
  PROVE  Story(c)'
<1>1. LastSaid(c)' /\ Earned(c)'
  BY DEF Story, LastSaid, Earned
<1>2. ASSUME cend'[c] = "open", proc'[c] \in {"read", "handle"}
      PROVE  \E h : Handled(c, h)'
  <2>1. PICK h : Handled(c, h)
    BY <1>2 DEF Story
  <2>2. proc'[c] = proc[c]
    BY <1>2
  <2>3. Handled(c, h)'
    BY <2>1, <2>2 DEF Handled
  <2> QED  BY <2>3
<1> QED  BY <1>1, <1>2 DEF Story

\* Steps that make and accept no connection.
LEMMA PlacesKept ==
  ASSUME ForkInv,
         backlog' = backlog \/ backlog' = <<>>,
         conn' = conn \/ conn' = NoClient,
         \A c \in Clients : /\ held[c] = {} => held'[c] = {}
                            /\ cend'[c] = "none" => cend[c] = "none"
                            /\ proc[c] = "none" /\ proc'[c] # "none" =>
                                 c = conn /\ conn' = NoClient
  PROVE  OnePlace' /\ Unserved'
<1>1. /\ OnePlace /\ Unserved /\ NoClient \notin Clients
      /\ backlog \in Seq(Clients)
  BY ForkTypes DEF ForkInv, ConnTypeOK
<1>2. \A c \in Clients : Pending(c)' => Pending(c)
  BY <1>1 DEF Pending
<1>3. OnePlace'
  BY <1>1, <1>2 DEF OnePlace
<1>4. Unserved'
  BY <1>1, <1>2 DEF Unserved, OnePlace, Pending
<1> QED  BY <1>3, <1>4

\* A connection is made: it waits without a child.
LEMMA ForkCallStep ==
  ASSUME ForkInv, NEW c \in Clients, Forking!Call(c)
  PROVE  ForkInv'
<1>0. /\ Forking!TypeOK /\ ConnTypeOK /\ OnePlace /\ NoClient \notin Clients
      /\ up \in [Clients -> Seq(Forking!Texts)]
      /\ said \in [Clients -> Seq(Forking!Texts)]
      /\ got \in [Clients -> Seq(Forking!Texts)]
  BY ForkTypes
<1>1. /\ cend[c] = "none" /\ cend' = [cend EXCEPT ![c] = "open"]
      /\ backlog' = Append(backlog, c) /\ up' = [up EXCEPT ![c] = <<>>]
      /\ UNCHANGED <<srv, conn, held, got, proc, mem, said>>
  BY DEF Forking!Call, Forking!Connect
<1>2. /\ ConnTypeOK' /\ OnePlace' /\ c # conn /\ held[c] = {}
      /\ \A d \in Clients \ {c} : cend'[d] = cend[d] /\ (Pending(d)' => Pending(d))
  BY <1>0, <1>1, ConnectPlaces
<1>3. /\ up' \in [Clients -> Seq(Forking!Texts)] /\ up'[c] = <<>>
      /\ \A d \in Clients \ {c} : up'[d] = up[d]
  BY <1>0, <1>1
<1>4. Forking!TypeOK'
  BY <1>0, <1>1, <1>2, <1>3
     DEF Forking!TypeOK, Forking!ConnTypeOK, ConnTypeOK
<1>5. Unserved'
  BY <1>1, <1>2 DEF ForkInv, Unserved
<1>6. Story(c)'
  <2>1. Story(c) /\ proc[c] = "none" /\ said[c] = <<>> /\ cend'[c] = "open"
    BY <1>0, <1>1 DEF ForkInv, Unserved, Story, ConnTypeOK
  <2> QED  BY <1>1, <1>3, <2>1 DEF Story, LastSaid, Earned
<1>7. ASSUME NEW d \in Clients \ {c}
      PROVE  Story(d)'
  <2>1. Story(d)
    BY DEF ForkInv
  <2> QED  BY <1>1, <1>2, <1>3, <2>1, StoryKept
<1> QED  BY <1>2, <1>4, <1>5, <1>6, <1>7 DEF ForkInv

\* A client hangs up: nothing more arrives there.
LEMMA ForkHangUpStep ==
  ASSUME ForkInv, NEW c \in Clients, Forking!HangUp(c)
  PROVE  ForkInv'
<1>0. Forking!TypeOK /\ Forking!ConnTypeOK
  BY ForkTypes DEF Forking!TypeOK
<1>1. /\ \E e \in {"rst", "fin"} : cend' = [cend EXCEPT ![c] = e]
      /\ UNCHANGED <<srv, conn, backlog, held, up, got, proc, mem, said>>
  BY DEF Forking!HangUp, Forking!Close
<1>2. /\ cend' \in [Clients -> {"none", "open", "fin", "poked", "rst", "reset"}]
      /\ \A d \in Clients : /\ cend'[d] = "none" => cend[d] = "none"
                            /\ cend'[d] = "open" => cend[d] = "open"
  BY <1>0, <1>1 DEF Forking!ConnTypeOK
<1>3. Forking!TypeOK'
  BY <1>0, <1>1, <1>2 DEF Forking!TypeOK, Forking!ConnTypeOK
<1>4. OnePlace' /\ Unserved'
  BY <1>1, <1>2, PlacesKept
<1>5. \A d \in Clients : Story(d)'
  BY <1>1, <1>2, StoryKept DEF ForkInv
<1> QED  BY <1>3, <1>4, <1>5 DEF ForkInv

\* A text is on its way: the child may be reading, and what was earned stays so.
LEMMA ForkSayStep ==
  ASSUME ForkInv, NEW c \in Clients, Forking!Say(c)
  PROVE  ForkInv'
<1>0. /\ Forking!TypeOK /\ Forking!ConnTypeOK
      /\ proc \in [Clients -> {"none", "read", "handle", "zombie", "reaped"}]
      /\ up \in [Clients -> Seq(Forking!Texts)]
      /\ said \in [Clients -> Seq(Forking!Texts)]
      /\ got \in [Clients -> Seq(Forking!Texts)]
  BY ForkTypes DEF Forking!TypeOK
<1>1. PICK text \in Forking!Texts :
        /\ up[c] = <<>> /\ cend[c] = "open"
        /\ up' = [up EXCEPT ![c] = Append(@, text)]
        /\ said' = [said EXCEPT ![c] = Append(@, text)]
        /\ UNCHANGED <<srv, conn, backlog, held, got, cend, proc, mem>>
  BY DEF Forking!Say, Forking!Send
<1> DEFINE n == Len(said[c])
<1>2. /\ n \in Nat /\ said'[c] = Append(said[c], text)
      /\ Len(said'[c]) = n + 1 /\ said'[c][n + 1] = text
      /\ \A k \in 1 .. n : said'[c][k] = said[c][k]
      /\ up'[c] = <<text>> /\ Len(up'[c]) = 1
      /\ \A d \in Clients \ {c} : up'[d] = up[d] /\ said'[d] = said[d]
      /\ said' \in [Clients -> Seq(Forking!Texts)]
      /\ up' \in [Clients -> Seq(Forking!Texts)]
  BY <1>0, <1>1
<1>3. ASSUME NEW h \in 0 .. n
      PROVE  /\ RepeatsTo(said'[c], h) = RepeatsTo(said[c], h)
             /\ Thanked(said[c], h) <=> Thanked(said'[c], h)
  BY <1>0, <1>2, RepeatsKept
<1>4. Forking!TypeOK'
  BY <1>0, <1>1, <1>2 DEF Forking!TypeOK, Forking!ConnTypeOK
<1>5. OnePlace' /\ Unserved'
  BY <1>1, PlacesKept
<1> HIDE DEF n
<1>6. Story(c)'
  <2>0. Story(c)
    BY DEF ForkInv
  <2>1. LastSaid(c)'
    BY <1>2 DEF LastSaid
  <2>2. Earned(c)'
    <3>1. \A k \in DOMAIN got[c] : said'[c] # <<>> /\ got[c][k] = said'[c][1]
      <4>1. \A k \in DOMAIN got[c] : said[c] # <<>> /\ got[c][k] = said[c][1]
        BY <2>0 DEF Story, Earned
      <4>2. said[c] # <<>> => 1 \in 1 .. n
        BY <1>0, <1>2 DEF n
      <4> QED  BY <1>2, <4>1, <4>2
    <3>2. /\ Len(got[c]) <= 1 + Cardinality(RepeatsTo(said[c], n))
          /\ Cardinality(RepeatsTo(said[c], n)) <= Cardinality(RepeatsTo(said'[c], n + 1))
      <4>1. RepeatsTo(said'[c], n) = RepeatsTo(said[c], n) /\ n + 1 \in Nat
        BY <1>2, <1>3
      <4>2. Cardinality(RepeatsTo(said'[c], n)) <= Cardinality(RepeatsTo(said'[c], n + 1))
        BY <1>2, <4>1, RepeatsMore
      <4> QED  BY <2>0, <4>1, <4>2 DEF Story, Earned, n
    <3>3. /\ Cardinality(RepeatsTo(said[c], n)) \in Nat
          /\ Cardinality(RepeatsTo(said'[c], n + 1)) \in Nat
          /\ Len(got[c]) \in Nat
      BY <1>0, <1>2, RepeatsFinite
    <3>4. Len(got[c]) <= 1 + Cardinality(RepeatsTo(said'[c], n + 1))
      BY <3>2, <3>3
    <3> QED  BY <1>1, <1>2, <3>1, <3>4 DEF Earned
  <2>3. ASSUME proc'[c] \in {"read", "handle"}
        PROVE  \E h : Handled(c, h)'
    <3>1. PICK h : Handled(c, h)
      BY <1>1, <2>0, <2>3 DEF Story
    <3>2. h \in 0 .. n /\ Len(up[c]) = 0
      BY <1>0, <1>1, <3>1 DEF Handled, n
    <3>3. /\ \/ proc'[c] = "read" /\ Len(said'[c]) = h + Len(up'[c])
             \/ /\ proc'[c] = "handle" /\ Len(said'[c]) = h + 1 + Len(up'[c])
                /\ mem'[c].text = said'[c][h + 1]
      BY <1>1, <1>2, <3>1, <3>2 DEF Handled, n
    <3>4. mem'[c].first = FALSE =>
            /\ h # 0 /\ mem'[c].detail = said'[c][1]
            /\ Len(got'[c]) = 1 + Cardinality(RepeatsTo(said'[c], h))
      BY <1>1, <1>2, <1>3, <3>1, <3>2 DEF Handled
    <3>5. Handled(c, h)'
      BY <1>1, <1>3, <3>1, <3>2, <3>3, <3>4 DEF Handled
    <3> QED  BY <3>5
  <2>4. proc'[c] = "none" => got'[c] = <<>> /\ said'[c] = up'[c] /\ mem'[c] = Forking!NewChild
    BY <1>1, <1>2, <2>0 DEF Story
  <2> QED  BY <1>1, <2>1, <2>2, <2>3, <2>4 DEF Story
<1>7. ASSUME NEW d \in Clients \ {c}
      PROVE  Story(d)'
  BY <1>1, <1>2, StoryKept DEF ForkInv
<1> QED  BY <1>4, <1>5, <1>6, <1>7 DEF ForkInv

\* The server: a connection is accepted, and gets its child.
LEMMA ForkAcceptStep ==
  ASSUME ForkInv, Forking!AcceptNext
  PROVE  ForkInv'
<1>0. /\ Forking!TypeOK /\ ConnTypeOK /\ OnePlace /\ NoClient \notin Clients
  BY ForkTypes
<1>1. /\ conn = NoClient /\ backlog # <<>> /\ conn' = Head(backlog)
      /\ backlog' = Tail(backlog) /\ held' = [held EXCEPT ![conn'] = {"server"}]
      /\ UNCHANGED <<srv, up, got, cend, proc, mem, said>>
  BY DEF Forking!AcceptNext, Forking!Accept
<1>2. /\ ConnTypeOK' /\ OnePlace' /\ conn' \in Clients /\ Pending(conn')
      /\ \A c \in Clients : Pending(c)' => Pending(c)
  BY <1>0, <1>1, AcceptPlaces
<1>3. Forking!ConnTypeOK'
  BY <1>2 DEF Forking!ConnTypeOK, ConnTypeOK, Forking!Processes, Processes
<1>t. Forking!TypeOK'
  BY <1>0, <1>1, <1>3 DEF Forking!TypeOK
<1>4. Unserved'
  BY <1>1, <1>2 DEF ForkInv, Unserved
<1>5. \A d \in Clients : Story(d)'
  BY <1>1, StoryKept DEF ForkInv
<1> QED  BY <1>2, <1>t, <1>4, <1>5 DEF ForkInv

\* A child is forked, with unset variables, for a client that was sent nothing.
LEMMA ForkChildStep ==
  ASSUME ForkInv, Forking!ForkChild
  PROVE  ForkInv'
<1>0. /\ Forking!TypeOK /\ Forking!ConnTypeOK /\ OnePlace /\ NoClient \notin Clients
      /\ proc \in [Clients -> {"none", "read", "handle", "zombie", "reaped"}]
      /\ up \in [Clients -> Seq(Forking!Texts)]
      /\ got \in [Clients -> Seq(Forking!Texts)]
  BY ForkTypes DEF Forking!TypeOK
<1>c. PICK c \in Clients : c = conn
  BY <1>0 DEF Forking!ForkChild, Forking!ConnTypeOK
<1>1. /\ conn' = NoClient /\ proc' = [proc EXCEPT ![c] = "read"]
      /\ held' = [d \in Clients |->
                    IF "server" \in held[d] THEN held[d] \cup {c} ELSE held[d]]
      /\ UNCHANGED <<srv, backlog, up, got, cend, mem, said>>
  BY <1>c DEF Forking!ForkChild, Forking!Fork
<1>2. /\ proc'[c] = "read" /\ \A d \in Clients \ {c} : proc'[d] = proc[d]
      /\ proc' \in [Clients -> {"none", "read", "handle", "zombie", "reaped"}]
  BY <1>0, <1>1
<1>3. Forking!TypeOK'
  <2>1. held' \in [Clients -> SUBSET Forking!Processes]
    BY <1>0, <1>1 DEF Forking!ConnTypeOK, Forking!Processes
  <2> QED  BY <1>0, <1>1, <1>2, <2>1 DEF Forking!TypeOK, Forking!ConnTypeOK, Forking!Ended
<1>4. OnePlace' /\ Unserved'
  <2>1. \A d \in Clients : held[d] = {} => held'[d] = {}
    BY <1>1
  <2> QED  BY <1>c, <1>1, <1>2, <2>1, PlacesKept
<1>5. Story(c)'
  <2>1. Story(c) /\ proc[c] = "none"
    BY <1>c DEF ForkInv, Unserved
  <2>2. Handled(c, 0)'
    <3>1. /\ said[c] = up[c] /\ got[c] = <<>> /\ mem[c] = Forking!NewChild
          /\ LastSaid(c) /\ Len(got[c]) = 0 /\ Len(up[c]) \in Nat
      BY <1>0, <2>1 DEF Story
    <3>2. ~ Thanked(said[c], 0)
      BY NoneAtFirst
    <3> QED  BY <1>1, <1>2, <3>1, <3>2 DEF Handled, Forking!NewChild
  <2>3. LastSaid(c)' /\ Earned(c)'
    BY <1>1, <2>1 DEF Story, LastSaid, Earned
  <2> QED  BY <1>1, <1>2, <2>1, <2>2, <2>3 DEF Story
<1>6. ASSUME NEW d \in Clients \ {c}
      PROVE  Story(d)'
  BY <1>1, <1>2, StoryKept DEF ForkInv
<1> QED  BY <1>3, <1>4, <1>5, <1>6 DEF ForkInv

\* A child without a connection, and the end of all of them.
LEMMA ForkStrayStep ==
  ASSUME ForkInv, Forking!ForkStray \/ Forking!StraysEnd
  PROVE  ForkInv'
<1>0. /\ Forking!TypeOK /\ Forking!ConnTypeOK
  BY ForkTypes DEF Forking!TypeOK
<1>1. /\ \/ held' = [d \in Clients |-> IF "server" \in held[d] THEN held[d] \cup {"stray"}
                                                             ELSE held[d]]
         \/ held' = [d \in Clients |-> held[d] \ {"stray"}]
      /\ conn' = conn \/ conn' = NoClient
      /\ UNCHANGED <<srv, backlog, up, got, cend, proc, mem, said>>
  BY DEF Forking!ForkStray, Forking!Fork, Forking!StraysEnd, Forking!WithoutProcess
<1>2. Forking!TypeOK'
  <2>1. held' \in [Clients -> SUBSET Forking!Processes]
    BY <1>0, <1>1 DEF Forking!ConnTypeOK, Forking!Processes
  <2> QED  BY <1>0, <1>1, <2>1 DEF Forking!TypeOK, Forking!ConnTypeOK
<1>3. OnePlace' /\ Unserved'
  <2>1. \A d \in Clients : held[d] = {} => held'[d] = {}
    BY <1>1
  <2> QED  BY <1>1, <2>1, PlacesKept
<1>4. \A d \in Clients : Story(d)'
  BY <1>1, StoryKept DEF ForkInv
<1> QED  BY <1>2, <1>3, <1>4 DEF ForkInv

\* The server ends; its children do not.
LEMMA ForkEndStep ==
  ASSUME ForkInv, Forking!ForkFails \/ Forking!ServerKilled
  PROVE  ForkInv'
<1>0. /\ Forking!TypeOK /\ Forking!ConnTypeOK
      /\ proc \in [Clients -> {"none", "read", "handle", "zombie", "reaped"}]
  BY ForkTypes DEF Forking!TypeOK
<1>1. /\ srv' = "gone" /\ conn' = NoClient /\ backlog' = <<>>
      /\ held' = [d \in Clients |-> held[d] \ {"server"}]
      /\ proc' = [d \in Clients |-> IF proc[d] = "zombie" THEN "reaped" ELSE proc[d]]
      /\ UNCHANGED <<up, got, cend, mem, said>>
  BY DEF Forking!ForkFails, Forking!ServerKilled, Forking!EndServer, Forking!ServerEnds,
     Forking!WithoutProcess
<1>2. Forking!TypeOK'
  <2>1. held' \in [Clients -> SUBSET Forking!Processes]
    BY <1>0, <1>1 DEF Forking!ConnTypeOK, Forking!Processes
  <2>2. proc' \in [Clients -> {"none", "read", "handle", "zombie", "reaped"}]
    BY <1>0, <1>1
  <2>3. Forking!ConnTypeOK'
    BY <1>0, <1>1, <2>1 DEF Forking!ConnTypeOK
  <2> QED  BY <1>0, <1>1, <2>2, <2>3 DEF Forking!TypeOK, Forking!Ended
<1>3. OnePlace' /\ Unserved'
  <2>1. \A d \in Clients : held[d] = {} => held'[d] = {}
    BY <1>1
  <2>2. \A d \in Clients : proc[d] = "none" => proc'[d] = "none"
    BY <1>1
  <2> QED  BY <1>1, <2>1, <2>2, PlacesKept
<1>4. ASSUME NEW d \in Clients
      PROVE  Story(d)'
  <2>1. proc'[d] = proc[d] \/ proc'[d] \in {"zombie", "reaped"}
    BY <1>1
  <2> QED  BY <1>1, <2>1, StoryKept DEF ForkInv
<1> QED  BY <1>2, <1>3, <1>4 DEF ForkInv

\* The end of a child.
LEMMA ChildEnds ==
  ASSUME ForkInv, NEW c \in Clients, Forking!EndChild(c),
         mem' = [mem EXCEPT ![c] = Forking!NewChild]
  PROVE  /\ proc' \in [Clients -> {"none", "read", "handle", "zombie", "reaped"}]
         /\ mem' \in [Clients -> [first : BOOLEAN, write : BOOLEAN, thanked : BOOLEAN,
                                  detail : Students \cup {"unset"},
                                  text : Forking!Texts \cup {"", "unset"}]]
         /\ held' \in [Clients -> SUBSET Forking!Processes]
         /\ proc[c] # "none" /\ proc'[c] \in {"zombie", "reaped"}
         /\ \A d \in Clients : held[d] = {} => held'[d] = {}
         /\ \A d \in Clients \ {c} : proc'[d] = proc[d] /\ mem'[d] = mem[d]
<1>0. /\ Forking!TypeOK /\ Forking!ConnTypeOK
      /\ proc \in [Clients -> {"none", "read", "handle", "zombie", "reaped"}]
  BY ForkTypes DEF Forking!TypeOK
<1>1. /\ proc[c] # "none"
      /\ proc' = [proc EXCEPT ![c] = IF srv = "up" THEN "zombie" ELSE "reaped"]
      /\ held' = [d \in Clients |-> held[d] \ {c}]
  BY DEF Forking!EndChild, Forking!Running, Forking!WithoutProcess
<1>2. held' \in [Clients -> SUBSET Forking!Processes]
  BY <1>0, <1>1 DEF Forking!ConnTypeOK
<1>3. /\ mem' \in [Clients -> [first : BOOLEAN, write : BOOLEAN, thanked : BOOLEAN,
                               detail : Students \cup {"unset"},
                               text : Forking!Texts \cup {"", "unset"}]]
      /\ \A d \in Clients \ {c} : mem'[d] = mem[d]
  BY <1>0 DEF Forking!TypeOK, Forking!NewChild
<1>4. /\ \A d \in Clients : held[d] = {} => held'[d] = {}
      /\ \A d \in Clients \ {c} : proc'[d] = proc[d]
      /\ proc'[c] \in {"zombie", "reaped"}
      /\ proc' \in [Clients -> {"none", "read", "handle", "zombie", "reaped"}]
  BY <1>0, <1>1
<1> QED  BY <1>1, <1>2, <1>3, <1>4

\* The child reads what was said last.
LEMMA ForkReadTextStep ==
  ASSUME ForkInv, NEW c \in Clients, Forking!ReadText(c)
  PROVE  ForkInv'
<1>0. /\ Forking!TypeOK /\ Forking!ConnTypeOK
      /\ proc \in [Clients -> {"none", "read", "handle", "zombie", "reaped"}]
      /\ up \in [Clients -> Seq(Forking!Texts)]
      /\ said \in [Clients -> Seq(Forking!Texts)]
      /\ got \in [Clients -> Seq(Forking!Texts)]
  BY ForkTypes DEF Forking!TypeOK
<1>1. /\ proc[c] = "read" /\ up[c] # <<>>
      /\ mem' = [mem EXCEPT ![c].text = Head(up[c])]
      /\ proc' = [proc EXCEPT ![c] = "handle"]
      /\ up' = [up EXCEPT ![c] = Tail(@)]
      /\ UNCHANGED <<srv, conn, backlog, held, got, cend, said>>
  BY DEF Forking!ReadText, Forking!SetText
<1>s. Story(c)
  BY DEF ForkInv
<1> DEFINE n == Len(said[c])
<1>2. /\ n \in Nat \ {0} /\ said[c][n] \in Forking!Texts
      /\ up[c] = <<said[c][n]>> /\ Len(up[c]) = 1 /\ Head(up[c]) = said[c][n]
      /\ up'[c] = <<>> /\ Len(up'[c]) = 0
  <2>1. said[c] # <<>> /\ up[c] = <<said[c][n]>>
    BY <1>1, <1>s DEF Story, LastSaid
  <2>2. n \in Nat \ {0} /\ said[c][n] \in Forking!Texts
    BY <1>0, <2>1
  <2> QED  BY <1>0, <1>1, <2>1, <2>2
<1>3. /\ up' \in [Clients -> Seq(Forking!Texts)]
      /\ proc' \in [Clients -> {"none", "read", "handle", "zombie", "reaped"}]
      /\ proc'[c] = "handle"
      /\ \A d \in Clients \ {c} : proc'[d] = proc[d] /\ up'[d] = up[d]
  <2>1. Tail(up[c]) \in Seq(Forking!Texts)
    BY <1>0, <1>1
  <2> QED  BY <1>0, <1>1, <2>1
<1> HIDE DEF n
<1>t. PICK text \in Forking!Texts : text = said[c][n]
  BY <1>2
<1>4. /\ mem'[c].text = said[c][n] /\ mem'[c].first = mem[c].first
      /\ mem'[c].write = mem[c].write /\ mem'[c].thanked = mem[c].thanked
      /\ mem'[c].detail = mem[c].detail
      /\ \A d \in Clients \ {c} : mem'[d] = mem[d]
      /\ mem' \in [Clients -> [first : BOOLEAN, write : BOOLEAN, thanked : BOOLEAN,
                               detail : Students \cup {"unset"},
                               text : Forking!Texts \cup {"", "unset"}]]
  <2>1. mem' = [mem EXCEPT ![c].text = text]
    BY <1>1, <1>2, <1>t
  <2> QED  BY <1>0, <1>t, <2>1, TextSet
<1>5. Forking!TypeOK'
  BY <1>0, <1>1, <1>3, <1>4 DEF Forking!TypeOK, Forking!ConnTypeOK, Forking!Ended
<1>6. OnePlace' /\ Unserved'
  <2>1. \A d \in Clients : proc[d] = "none" => proc'[d] = "none"
    BY <1>1, <1>3
  <2> QED  BY <1>1, <2>1, PlacesKept
<1>7. Story(c)'
  <2>1. ASSUME cend[c] = "open"
        PROVE  \E h : Handled(c, h)'
    <3>1. PICK h : Handled(c, h)
      BY <1>1, <1>s, <2>1 DEF Story
    <3>2. h \in Nat /\ n = h + 1
      BY <1>1, <1>2, <3>1 DEF Handled, n
    <3> HIDE DEF n
    <3>3. /\ said' = said /\ got'[c] = got[c] /\ proc'[c] = "handle"
          /\ Len(said'[c]) = h + 1 + Len(up'[c])
      BY <1>1, <1>2, <1>3, <3>2 DEF n
    <3>4. Handled(c, h)'
      BY <1>1, <1>4, <3>1, <3>2, <3>3 DEF Handled
    <3> QED  BY <3>4
  <2>2. LastSaid(c)' /\ Earned(c)'
    BY <1>1, <1>2, <1>s DEF Story, LastSaid, Earned
  <2>3. cend[c] # "none" \/ said[c] = <<>>
    BY <1>s DEF Story
  <2> QED  BY <1>1, <1>3, <2>1, <2>2, <2>3 DEF Story
<1>8. ASSUME NEW d \in Clients \ {c}
      PROVE  Story(d)'
  BY <1>1, <1>3, StoryKept DEF ForkInv
<1> QED  BY <1>5, <1>6, <1>7, <1>8 DEF ForkInv

\* What c may still be sent no longer depends on what it says.
LEMMA StoryOver ==
  ASSUME NEW c \in Clients, Story(c),
         up'[c] = up[c], said'[c] = said[c], got'[c] = got[c],
         cend[c] # "none", cend'[c] \notin {"none", "open"}, proc'[c] # "none"
  PROVE  Story(c)'
BY DEF Story, LastSaid, Earned

\* The end of the input, read as a text: nothing more arrives at c.
LEMMA ForkReadEndStep ==
  ASSUME ForkInv, NEW c \in Clients, Forking!ReadEnd(c)
  PROVE  ForkInv'
<1>0. /\ Forking!TypeOK /\ Forking!ConnTypeOK /\ NoClient \notin Clients
      /\ proc \in [Clients -> {"none", "read", "handle", "zombie", "reaped"}]
  BY ForkTypes DEF Forking!TypeOK
<1>1. PICK text \in {"", mem[c].text} :
        /\ proc[c] = "read" /\ cend[c] # "open"
        /\ mem' = [mem EXCEPT ![c].text = text]
        /\ proc' = [proc EXCEPT ![c] = "handle"]
        /\ cend' = [cend EXCEPT ![c] = IF @ = "rst" THEN "reset" ELSE @]
        /\ UNCHANGED <<srv, conn, backlog, held, up, got, said>>
  BY DEF Forking!ReadEnd, Forking!SetText, Forking!NothingFrom
<1>2. /\ proc' \in [Clients -> {"none", "read", "handle", "zombie", "reaped"}]
      /\ proc'[c] = "handle"
      /\ \A d \in Clients \ {c} : proc'[d] = proc[d] /\ mem'[d] = mem[d] /\ cend'[d] = cend[d]
      /\ cend' \in [Clients -> {"none", "open", "fin", "poked", "rst", "reset"}]
      /\ mem' \in [Clients -> [first : BOOLEAN, write : BOOLEAN, thanked : BOOLEAN,
                               detail : Students \cup {"unset"},
                               text : Forking!Texts \cup {"", "unset"}]]
  <2>1. text \in Forking!Texts \cup {"", "unset"}
    BY <1>0 DEF Forking!TypeOK
  <2>2. /\ mem' \in [Clients -> [first : BOOLEAN, write : BOOLEAN, thanked : BOOLEAN,
                                 detail : Students \cup {"unset"},
                                 text : Forking!Texts \cup {"", "unset"}]]
        /\ \A d \in Clients \ {c} : mem'[d] = mem[d]
    BY <1>0, <1>1, <2>1, TextSet
  <2> QED  BY <1>0, <1>1, <2>2 DEF Forking!ConnTypeOK
<1>3. Forking!TypeOK'
  BY <1>0, <1>1, <1>2 DEF Forking!TypeOK, Forking!ConnTypeOK, Forking!Ended
<1>4. cend[c] # "none" /\ cend'[c] \notin {"none", "open"}
  BY <1>0, <1>1 DEF ForkInv, Unserved, Forking!ConnTypeOK
<1>5. OnePlace' /\ Unserved'
  <2>1. /\ \A d \in Clients : proc[d] = "none" => proc'[d] = "none"
        /\ \A d \in Clients : cend'[d] = "none" => cend[d] = "none"
    BY <1>1, <1>2, <1>4
  <2> QED  BY <1>1, <2>1, PlacesKept
<1>6. Story(c)'
  BY <1>1, <1>2, <1>4, StoryOver DEF ForkInv
<1>7. ASSUME NEW d \in Clients \ {c}
      PROVE  Story(d)'
  BY <1>1, <1>2, StoryKept DEF ForkInv
<1> QED  BY <1>3, <1>5, <1>6, <1>7 DEF ForkInv

\* The first text is no id: the child ends.
LEMMA ForkNotFoundStep ==
  ASSUME ForkInv, NEW c \in Clients, Forking!NotFound(c)
  PROVE  ForkInv'
<1>0. /\ Forking!TypeOK /\ Forking!ConnTypeOK
  BY ForkTypes DEF Forking!TypeOK
<1>1. /\ Forking!EndChild(c) /\ mem' = [mem EXCEPT ![c] = Forking!NewChild]
      /\ UNCHANGED <<srv, conn, backlog, up, got, cend, said>>
  BY DEF Forking!NotFound
<1>2. /\ proc' \in [Clients -> {"none", "read", "handle", "zombie", "reaped"}]
      /\ mem' \in [Clients -> [first : BOOLEAN, write : BOOLEAN, thanked : BOOLEAN,
                               detail : Students \cup {"unset"},
                               text : Forking!Texts \cup {"", "unset"}]]
      /\ held' \in [Clients -> SUBSET Forking!Processes]
      /\ proc[c] # "none" /\ proc'[c] \in {"zombie", "reaped"}
      /\ \A d \in Clients : held[d] = {} => held'[d] = {}
      /\ \A d \in Clients \ {c} : proc'[d] = proc[d] /\ mem'[d] = mem[d]
  BY <1>1, ChildEnds
<1>3. Forking!TypeOK'
  BY <1>0, <1>1, <1>2 DEF Forking!TypeOK, Forking!ConnTypeOK, Forking!Ended
<1>4. OnePlace' /\ Unserved'
  <2>1. \A d \in Clients : proc[d] = "none" => proc'[d] = "none"
    BY <1>2
  <2> QED  BY <1>1, <1>2, <2>1, PlacesKept
<1>5. Story(c)'
  BY <1>1, <1>2 DEF ForkInv, Story, LastSaid, Earned
<1>6. ASSUME NEW d \in Clients \ {c}
      PROVE  Story(d)'
  BY <1>1, <1>2, StoryKept DEF ForkInv
<1> QED  BY <1>3, <1>4, <1>5, <1>6 DEF ForkInv

Memory == [first : BOOLEAN, write : BOOLEAN, thanked : BOOLEAN,
           detail : Students \cup {"unset"}, text : Forking!Texts \cup {"", "unset"}]

\* The flags after a text.
LEMMA Flags ==
  ASSUME NEW m \in Memory, NEW detail \in Students \cup {"unset"}
  PROVE  LET f == Forking!Flagged(m, detail)
         IN  /\ f \in Memory
             /\ f.first = m.first /\ f.text = m.text /\ f.detail = detail
             /\ f.thanked = (m.thanked \/ m.text = "thank_you")
             /\ f.write = (m.write \/ m.first \/ (f.thanked /\ m.text = "again"))
BY DEF Memory, Forking!Flagged

\* The flags when the record was written.
LEMMA FlagsReset ==
  ASSUME NEW m \in Memory
  PROVE  LET a == Forking!Afterwards(m)
         IN  /\ a \in Memory
             /\ a.first = FALSE /\ a.write = FALSE /\ a.thanked = FALSE
             /\ a.detail = m.detail
BY DEF Memory, Forking!Afterwards

\* What the child of c has made of the text, m, and does about it.
HandledAs(c, m) ==
  /\ m.first = mem[c].first /\ m.text = mem[c].text
  /\ m.detail \in IF mem[c].first THEN Forking!Found(mem[c].text) ELSE {mem[c].detail}
  /\ m.thanked = (mem[c].thanked \/ mem[c].text = "thank_you")
  /\ m.write = (\/ mem[c].write \/ mem[c].first
                \/ m.thanked /\ mem[c].text = "again")
  /\ IF m.write THEN Forking!Write(c, m.detail) ELSE UNCHANGED <<got, cend>>
  /\ \/ Forking!EndChild(c) /\ mem' = [mem EXCEPT ![c] = Forking!NewChild]
     \/ /\ mem' = [mem EXCEPT ![c] = IF m.write THEN Forking!Afterwards(m) ELSE m]
        /\ proc' = [proc EXCEPT ![c] = "read"]
        /\ UNCHANGED held

\* Handle, with the flags taken apart.
LEMMA HandleSplit ==
  ASSUME ForkInv, NEW c \in Clients, Forking!Handle(c)
  PROVE  /\ \E m \in Memory : HandledAs(c, m)
         /\ proc[c] = "handle"
         /\ UNCHANGED <<srv, conn, backlog, up, said>>
<1>1. mem[c] \in Memory
  BY ForkTypes DEF Forking!TypeOK, Memory
<1>2. PICK detail \in IF mem[c].first THEN Forking!Found(mem[c].text) ELSE {mem[c].detail} :
        LET m == Forking!Flagged(mem[c], detail)
        IN  /\ IF m.write THEN Forking!Write(c, m.detail) ELSE UNCHANGED <<got, cend>>
            /\ \/ Forking!EndChild(c) /\ mem' = [mem EXCEPT ![c] = Forking!NewChild]
               \/ /\ mem' = [mem EXCEPT ![c] = IF m.write THEN Forking!Afterwards(m) ELSE m]
                  /\ proc' = [proc EXCEPT ![c] = "read"]
                  /\ UNCHANGED held
  BY DEF Forking!Handle
<1>3. detail \in Students \cup {"unset"}
  BY <1>1 DEF Memory, Forking!Found
<1> DEFINE m == Forking!Flagged(mem[c], detail)
<1>4. /\ m \in Memory
      /\ m.first = mem[c].first /\ m.text = mem[c].text /\ m.detail = detail
      /\ m.thanked = (mem[c].thanked \/ mem[c].text = "thank_you")
      /\ m.write = (mem[c].write \/ mem[c].first \/ (m.thanked /\ mem[c].text = "again"))
  BY <1>1, <1>3, Flags
<1> HIDE DEF m
<1>5. HandledAs(c, m)
  BY <1>2, <1>4 DEF HandledAs, m
<1>6. proc[c] = "handle" /\ UNCHANGED <<srv, conn, backlog, up, said>>
  BY DEF Forking!Handle
<1> QED  BY <1>4, <1>5, <1>6

\* What c has said earns what it is sent, as long as it listens.
LEMMA HandledEarns ==
  ASSUME ForkInv, NEW c \in Clients, NEW m \in Memory, HandledAs(c, m),
         NEW h, Handled(c, h), proc[c] = "handle"
  PROVE  /\ h + 1 \in 1 .. Len(said[c])
         /\ m.detail = said[c][1]
         /\ m.write = FALSE =>
              /\ m.first = FALSE
              /\ m.thanked = TRUE <=> Thanked(said[c], h + 1)
              /\ Len(got[c]) = 1 + Cardinality(RepeatsTo(said[c], h + 1))
         /\ m.write = TRUE =>
              /\ ~ Thanked(said[c], h + 1)
              /\ Len(got[c]) + 1 = 1 + Cardinality(RepeatsTo(said[c], h + 1))
<1>0. /\ up[c] \in Seq(Forking!Texts) /\ said[c] \in Seq(Forking!Texts)
      /\ got[c] \in Seq(Forking!Texts) /\ mem[c] \in Memory
  BY ForkTypes DEF Forking!TypeOK, Memory
<1>1. /\ h \in Nat /\ h + 1 \in 1 .. Len(said[c]) /\ mem[c].text = said[c][h + 1]
      /\ mem[c].write = FALSE
  <2>1. /\ h \in Nat /\ Len(said[c]) = h + 1 + Len(up[c])
        /\ mem[c].text = said[c][h + 1] /\ mem[c].write = FALSE
    BY DEF Handled
  <2>2. Len(up[c]) \in Nat
    BY <1>0
  <2>3. h + 1 \in 1 .. Len(said[c])
    <3>1. \A a, b \in Nat : a + 1 \in 1 .. a + 1 + b
      OBVIOUS
    <3> QED  BY <2>1, <2>2, <3>1, Zenon
  <2> QED  BY <2>1, <2>3, Zenon
<1>2. m.detail = said[c][1]
  <2>1. CASE mem[c].first = TRUE
    <3>1. mem[c].text = said[c][1] /\ said[c][1] \in Forking!Texts
      BY <1>0, <1>1, <2>1 DEF Handled
    <3>2. mem[c].text # "unset"
      BY <3>1, ProgramsAssumption DEF ProgramsAssumption, Forking!Texts
    <3> QED  BY <2>1, <3>1, <3>2 DEF HandledAs, Forking!Found
  <2>2. CASE mem[c].first = FALSE
    BY <2>2 DEF HandledAs, Handled
  <2> QED  BY <1>0, <2>1, <2>2 DEF Memory
<1>3. /\ mem[c].thanked = TRUE <=> Thanked(said[c], h)
      /\ mem[c].first = TRUE => h = 0 /\ got[c] = <<>>
      /\ mem[c].first = FALSE => /\ h # 0
                                 /\ Len(got[c]) = 1 + Cardinality(RepeatsTo(said[c], h))
  BY DEF Handled
<1>4. Cardinality(RepeatsTo(said[c], h)) \in Nat
  BY <1>1, RepeatsFinite
<1>5. ASSUME m.write = FALSE
      PROVE  /\ m.first = FALSE
             /\ m.thanked = TRUE <=> Thanked(said[c], h + 1)
             /\ Len(got[c]) = 1 + Cardinality(RepeatsTo(said[c], h + 1))
  <2>1. /\ mem[c].first = FALSE /\ m.first = FALSE
        /\ ~ (m.thanked = TRUE /\ said[c][h + 1] = "again")
        /\ m.thanked = TRUE <=> mem[c].thanked = TRUE \/ said[c][h + 1] = "thank_you"
    BY <1>0, <1>1, <1>5 DEF HandledAs, Memory
  <2>2. m.thanked = TRUE <=> Thanked(said[c], h + 1)
    BY <1>1, <1>3, <2>1, ThankedNext
  <2>3. RepeatsTo(said[c], h + 1) = RepeatsTo(said[c], h)
    BY <1>1, <1>3, <2>1, RepeatNot
  <2> QED  BY <1>3, <2>1, <2>2, <2>3
<1>6. ASSUME m.write = TRUE
      PROVE  /\ ~ Thanked(said[c], h + 1)
             /\ Len(got[c]) + 1 = 1 + Cardinality(RepeatsTo(said[c], h + 1))
  <2>1. CASE mem[c].first = TRUE
    <3>1. h = 0 /\ Len(got[c]) = 0
      BY <1>3, <2>1
    <3>2. ~ Thanked(said[c], 0 + 1)
      BY NoneAtFirst, ThankedNext
    <3>3. Cardinality(RepeatsTo(said[c], 0 + 1)) = 0
      BY NoneAtFirst, FS_EmptySet
    <3> QED  BY <3>1, <3>2, <3>3
  <2>2. CASE mem[c].first = FALSE
    <3>1. mem[c].thanked = TRUE /\ said[c][h + 1] = "again"
      BY <1>0, <1>1, <1>6, <2>2 DEF HandledAs, Memory
    <3>2. Cardinality(RepeatsTo(said[c], h + 1)) = Cardinality(RepeatsTo(said[c], h)) + 1
      BY <1>1, <1>3, <3>1, RepeatNext
    <3>3. ~ Thanked(said[c], h + 1)
      BY <1>1, <3>1, ThankedNext
    <3> QED  BY <1>3, <1>4, <2>2, <3>2, <3>3
  <2> QED  BY <1>0, <2>1, <2>2 DEF Memory
<1> QED  BY <1>1, <1>2, <1>5, <1>6

\* What is handled leaves of the types, and of the other clients.
LEMMA HandledTypes ==
  ASSUME ForkInv, NEW c \in Clients, NEW m \in Memory, HandledAs(c, m),
         proc[c] = "handle", cend[c] = "open" => m.detail \in Forking!Texts,
         UNCHANGED <<srv, conn, backlog, up, said>>
  PROVE  /\ Forking!TypeOK' /\ OnePlace' /\ Unserved'
         /\ proc'[c] \in {"read", "zombie", "reaped"}
         /\ cend'[c] = "none" => cend[c] = "none"
         /\ cend'[c] = "open" <=> cend[c] = "open"
         /\ cend[c] # "open" => got'[c] = got[c]
         /\ \A d \in Clients \ {c} : /\ proc'[d] = proc[d] /\ mem'[d] = mem[d]
                                     /\ got'[d] = got[d] /\ cend'[d] = cend[d]
<1>0. /\ Forking!TypeOK /\ Forking!ConnTypeOK
      /\ proc \in [Clients -> {"none", "read", "handle", "zombie", "reaped"}]
      /\ got \in [Clients -> Seq(Forking!Texts)]
      /\ mem \in [Clients -> Memory]
  BY ForkTypes DEF Forking!TypeOK, Memory
<1>1. /\ got' \in [Clients -> Seq(Forking!Texts)]
      /\ cend' \in [Clients -> {"none", "open", "fin", "poked", "rst", "reset"}]
      /\ cend'[c] = "none" => cend[c] = "none"
      /\ cend'[c] = "open" <=> cend[c] = "open"
      /\ cend[c] # "open" => got'[c] = got[c]
      /\ \A d \in Clients \ {c} : got'[d] = got[d] /\ cend'[d] = cend[d]
  <2>1. CASE UNCHANGED <<got, cend>>
    BY <1>0, <2>1 DEF Forking!ConnTypeOK
  <2>2. CASE Forking!Write(c, m.detail)
    <3>1. cend[c] = "open" => Append(got[c], m.detail) \in Seq(Forking!Texts)
      BY <1>0
    <3>2. /\ got' = [got EXCEPT ![c] = IF cend[c] = "open" THEN Append(@, m.detail) ELSE @]
          /\ \E e \in Forking!EndsAfterWrite(cend[c]) : cend' = [cend EXCEPT ![c] = e]
      BY <2>2 DEF Forking!Write
    <3>3. got' \in [Clients -> Seq(Forking!Texts)]
      BY <1>0, <3>1, <3>2
    <3>4. PICK e \in Forking!EndsAfterWrite(cend[c]) : cend' = [cend EXCEPT ![c] = e]
      BY <3>2
    <3>5. /\ cend \in [Clients -> {"none", "open", "fin", "poked", "rst", "reset"}]
          /\ e \in {"none", "open", "fin", "poked", "rst", "reset"}
          /\ e = "none" => cend[c] = "none"
          /\ e = "open" <=> cend[c] = "open"
      BY <1>0, <3>4 DEF Forking!EndsAfterWrite, Forking!ConnTypeOK
    <3> QED  BY <1>0, <3>2, <3>3, <3>4, <3>5
  <2> QED  BY <2>1, <2>2 DEF HandledAs
<1>2. /\ proc' \in [Clients -> {"none", "read", "handle", "zombie", "reaped"}]
      /\ mem' \in [Clients -> Memory]
      /\ held' \in [Clients -> SUBSET Forking!Processes]
      /\ proc'[c] \in {"read", "zombie", "reaped"}
      /\ \A d \in Clients : held[d] = {} => held'[d] = {}
      /\ \A d \in Clients \ {c} : proc'[d] = proc[d] /\ mem'[d] = mem[d]
  <2>1. CASE Forking!EndChild(c) /\ mem' = [mem EXCEPT ![c] = Forking!NewChild]
    BY <2>1, ChildEnds DEF Memory
  <2>2. CASE /\ mem' = [mem EXCEPT ![c] = IF m.write THEN Forking!Afterwards(m) ELSE m]
             /\ proc' = [proc EXCEPT ![c] = "read"]
             /\ UNCHANGED held
    <3>1. PICK a \in Memory : mem' = [mem EXCEPT ![c] = a]
      BY <2>2, FlagsReset
    <3> QED  BY <1>0, <2>2, <3>1 DEF Forking!ConnTypeOK
  <2> QED  BY <2>1, <2>2 DEF HandledAs
<1>3. Forking!TypeOK'
  <2>1. Forking!ConnTypeOK'
    BY <1>0, <1>1, <1>2 DEF Forking!ConnTypeOK
  <2>2. {up', said', got'} \subseteq [Clients -> Seq(Forking!Texts)]
    BY <1>0, <1>1 DEF Forking!TypeOK
  <2> QED  BY <1>2, <2>1, <2>2 DEF Forking!TypeOK, Forking!Ended, Memory
<1>4. OnePlace' /\ Unserved'
  <2>1. \A d \in Clients : /\ proc[d] = "none" => proc'[d] = "none"
                           /\ cend'[d] = "none" => cend[d] = "none"
    BY <1>1, <1>2
  <2> QED  BY <1>1, <1>2, <2>1, PlacesKept
<1> QED  BY <1>1, <1>2, <1>3, <1>4

\* The record, when it has been earned; and on to the next text.
LEMMA ForkHandleStep ==
  ASSUME ForkInv, NEW c \in Clients, Forking!Handle(c)
  PROVE  ForkInv'
<1>0. /\ up[c] \in Seq(Forking!Texts) /\ said[c] \in Seq(Forking!Texts)
      /\ got \in [Clients -> Seq(Forking!Texts)] /\ mem \in [Clients -> Memory]
      /\ proc \in [Clients -> {"none", "read", "handle", "zombie", "reaped"}]
  BY ForkTypes DEF Forking!TypeOK, Memory
<1>1. PICK m \in Memory : HandledAs(c, m)
  BY HandleSplit
<1>2. proc[c] = "handle" /\ UNCHANGED <<srv, conn, backlog, up, said>>
  BY HandleSplit
<1>s. Story(c)
  BY DEF ForkInv
<1>3. cend[c] = "open" => \E h : Handled(c, h)
  BY <1>2, <1>s DEF Story
<1>4. cend[c] = "open" => said[c] # <<>> /\ m.detail = said[c][1]
  <2> SUFFICES ASSUME cend[c] = "open" PROVE said[c] # <<>> /\ m.detail = said[c][1]
    OBVIOUS
  <2>1. PICK h : Handled(c, h)
    BY <1>3
  <2>2. h + 1 \in 1 .. Len(said[c]) /\ m.detail = said[c][1]
    BY <1>1, <1>2, <2>1, HandledEarns
  <2> QED  BY <1>0, <2>2
<1>5. cend[c] = "open" => m.detail \in Forking!Texts
  BY <1>0, <1>4
<1>6. /\ Forking!TypeOK' /\ OnePlace' /\ Unserved'
      /\ proc'[c] \in {"read", "zombie", "reaped"}
      /\ cend'[c] = "none" => cend[c] = "none"
      /\ cend'[c] = "open" <=> cend[c] = "open"
      /\ cend[c] # "open" => got'[c] = got[c]
      /\ \A d \in Clients \ {c} : /\ proc'[d] = proc[d] /\ mem'[d] = mem[d]
                                  /\ got'[d] = got[d] /\ cend'[d] = cend[d]
  BY <1>1, <1>2, <1>5, HandledTypes
<1>7. Story(c)'
  <2>1. CASE cend[c] # "open"
    <3>1. cend[c] # "none"
      BY <1>2 DEF ForkInv, Unserved
    <3> QED  BY <1>2, <1>6, <1>s, <2>1, <3>1, StoryOver
  <2>2. CASE cend[c] = "open"
    <3>1. PICK h : Handled(c, h)
      BY <1>3, <2>2
    <3>2. /\ h + 1 \in 1 .. Len(said[c])
          /\ m.detail = said[c][1]
          /\ m.write = FALSE =>
               /\ m.first = FALSE
               /\ m.thanked = TRUE <=> Thanked(said[c], h + 1)
               /\ Len(got[c]) = 1 + Cardinality(RepeatsTo(said[c], h + 1))
          /\ m.write = TRUE =>
               /\ ~ Thanked(said[c], h + 1)
               /\ Len(got[c]) + 1 = 1 + Cardinality(RepeatsTo(said[c], h + 1))
      BY <1>1, <1>2, <3>1, HandledEarns
    <3>3. /\ h \in Nat /\ Len(said[c]) = h + 1 + Len(up[c]) /\ Len(up[c]) \in Nat
      <4>1. h \in Nat /\ Len(said[c]) = h + 1 + Len(up[c])
        BY <1>2, <3>1 DEF Handled
      <4> QED  BY <1>0, <4>1
    <3>4. /\ m.write = FALSE => got'[c] = got[c]
          /\ m.write = TRUE => got'[c] = Append(got[c], m.detail)
      BY <1>0, <1>1, <2>2 DEF HandledAs, Forking!Write
    <3>5. Len(got'[c]) = 1 + Cardinality(RepeatsTo(said[c], h + 1))
      <4>1. CASE m.write = FALSE
        BY <3>2, <3>4, <4>1
      <4>2. CASE m.write = TRUE
        <5>1. Len(got'[c]) = Len(got[c]) + 1
          BY <1>0, <3>4, <4>2
        <5> QED  BY <3>2, <4>2, <5>1
      <4> QED  BY <4>1, <4>2 DEF Memory
    <3>6. Earned(c)'
      <4>1. \A k \in DOMAIN got'[c] : got'[c][k] = said[c][1]
        <5>1. \A k \in DOMAIN got[c] : got[c][k] = said[c][1]
          BY <1>s DEF Story, Earned
        <5>2. CASE m.write = FALSE
          BY <3>4, <5>1, <5>2
        <5>3. CASE m.write = TRUE
          <6>1. got'[c] = Append(got[c], said[c][1])
            BY <3>2, <3>4, <5>3
          <6> QED  BY <1>0, <5>1, <6>1
        <5> QED  BY <5>2, <5>3 DEF Memory
      <4>2. /\ Cardinality(RepeatsTo(said[c], h + 1)) <=
                  Cardinality(RepeatsTo(said[c], Len(said[c])))
            /\ Cardinality(RepeatsTo(said[c], h + 1)) \in Nat
            /\ Cardinality(RepeatsTo(said[c], Len(said[c]))) \in Nat
        <5>1. h + 1 \in Nat /\ Len(said[c]) \in Nat /\ h + 1 <= Len(said[c])
          <6>1. h + 1 \in 1 .. Len(said[c])
            BY <3>2
          <6>2. Len(said[c]) \in Nat
            BY <1>0
          <6>3. h \in Nat
            BY <3>3
          <6> QED  BY <6>1, <6>2, <6>3
        <5> QED  BY <5>1, RepeatsMore, RepeatsFinite
      <4>3. Len(got'[c]) \in Nat
        <5>1. got' \in [Clients -> Seq(Forking!Texts)]
          BY <1>6 DEF Forking!TypeOK
        <5> QED  BY <5>1
      <4>4. Len(got'[c]) <= 1 + Cardinality(RepeatsTo(said[c], Len(said[c])))
        BY <3>5, <4>2, <4>3
      <4> QED  BY <1>2, <1>4, <2>2, <4>1, <4>4 DEF Earned
    <3>7. ASSUME proc'[c] = "read"
          PROVE  Handled(c, h + 1)'
      <4>1. \/ m.write = FALSE /\ mem'[c] = m
            \/ m.write = TRUE /\ mem'[c] = Forking!Afterwards(m)
        <5>1. ~ Forking!EndChild(c)
          BY <1>0, <3>7 DEF Forking!EndChild
        <5>2. mem' = [mem EXCEPT ![c] = IF m.write THEN Forking!Afterwards(m) ELSE m]
          BY <1>1, <5>1 DEF HandledAs
        <5> QED  BY <1>0, <5>2 DEF Memory
      <4>2. /\ mem'[c].write = FALSE /\ mem'[c].first = FALSE
            /\ mem'[c].detail = said[c][1]
            /\ mem'[c].thanked = TRUE <=> Thanked(said[c], h + 1)
        BY <3>2, <4>1, FlagsReset
      <4> QED  BY <1>2, <3>3, <3>5, <3>7, <4>2 DEF Handled
    <3>8. LastSaid(c)'
      BY <1>2, <1>s DEF Story, LastSaid
    <3> QED  BY <1>2, <1>6, <2>2, <3>6, <3>7, <3>8 DEF Story
  <2> QED  BY <2>1, <2>2
<1>8. ASSUME NEW d \in Clients \ {c}
      PROVE  Story(d)'
  BY <1>2, <1>6, StoryKept DEF ForkInv
<1> QED  BY <1>6, <1>7, <1>8 DEF ForkInv

\* Whatever the server, its children and the clients do.
LEMMA ForkStep == ForkInv /\ Forking!Next => ForkInv'
<1> SUFFICES ASSUME ForkInv, Forking!Next PROVE ForkInv'
  OBVIOUS
<1>1. CASE Forking!Server
  BY <1>1, ForkAcceptStep, ForkChildStep, ForkStrayStep, ForkEndStep DEF Forking!Server
<1>2. CASE Forking!StraysEnd \/ Forking!ServerKilled
  BY <1>2, ForkStrayStep, ForkEndStep
<1>3. ASSUME NEW c \in Clients, Forking!Call(c) \/ Forking!HangUp(c) \/ Forking!Say(c)
      PROVE  ForkInv'
  BY <1>3, ForkCallStep, ForkHangUpStep, ForkSayStep
<1>4. ASSUME NEW c \in Clients, Forking!Child(c)
      PROVE  ForkInv'
  BY <1>4, ForkReadTextStep, ForkReadEndStep, ForkNotFoundStep, ForkHandleStep
     DEF Forking!Child
<1> QED  BY <1>1, <1>2, <1>3, <1>4 DEF Forking!Next

ForkingInv == program = "forking" => ForkInv

\* ForkInv holds as long as the forking server or a child of it runs.
LEMMA ForkingInvariant == Spec => []ForkingInv
<1>1. Init => ForkingInv
  BY InitForkInv DEF ForkingInv
<1>2. ForkingInv /\ [Next]_vars => ForkingInv'
  <2> SUFFICES ASSUME ForkingInv, [Next]_vars, program' = "forking"
               PROVE  ForkInv'
    BY DEF ForkingInv
  <2>1. program = "forking"
    BY DEF Next, IterativeStep, IterativeOnly, StreamStep, StreamOnly,
           ForkingStep, PipeStep, vars
  <2>2. ForkInv
    BY <2>1 DEF ForkingInv
  <2>3. CASE ForkingStep
    BY <2>2, <2>3, ForkStep DEF ForkingStep
  <2>4. CASE UNCHANGED vars
    <3>1. UNCHANGED <<srv, conn, backlog, held, up, got, cend, proc, mem, said>>
      BY <2>4 DEF vars, connVars, forkingVars
    <3>2. Forking!TypeOK'
      BY <2>2, <3>1 DEF ForkInv, Forking!TypeOK, Forking!ConnTypeOK
    <3>3. OnePlace' /\ Unserved'
      BY <2>2, <3>1, PlacesKept
    <3>4. \A c \in Clients : Story(c)'
      BY <2>2, <3>1, StoryKept DEF ForkInv
    <3> QED  BY <3>2, <3>3, <3>4 DEF ForkInv
  <2> QED
    BY <2>1, <2>3, <2>4 DEF Next, IterativeStep, StreamStep, PipeStep, iterating
<1> QED  BY <1>1, <1>2, PTL DEF Spec

\* Whatever the clients of the forking server send, and however their
\* connections end, each gets the record it asked for first, once and once more
\* for each repeat it has asked for (other/server.c:127-182).
THEOREM RecordsEarnedAll == Spec => []RecordsEarned
<1>1. ForkInv => Forking!RecordsEarned
  <2> SUFFICES ASSUME ForkInv, NEW c \in Clients
               PROVE  /\ \A k \in DOMAIN got[c] : got[c][k] = said[c][1]
                      /\ Len(got[c]) <= 1 + Forking!Cardinality(Forking!Repeats(c))
                      /\ proc[c] = "read" /\ up[c] = <<>> /\ cend[c] = "open" =>
                           Len(got[c]) = IF said[c] = <<>> THEN 0
                                         ELSE 1 + Forking!Cardinality(Forking!Repeats(c))
    BY DEF Forking!RecordsEarned
  <2>1. said[c] \in Seq(Forking!Texts)
    BY ForkTypes
  <2>2. Forking!Repeats(c) = RepeatsTo(said[c], Len(said[c]))
    BY <2>1, RepeatsOf
  <2>3. \A S : Forking!Cardinality(S) = Cardinality(S)
    BY DEF Cardinality, Forking!Cardinality
  <2>4. ASSUME proc[c] = "read", up[c] = <<>>, cend[c] = "open"
        PROVE  Len(got[c]) = IF said[c] = <<>> THEN 0
                             ELSE 1 + Cardinality(RepeatsTo(said[c], Len(said[c])))
    <3>1. PICK h : Handled(c, h)
      BY <2>4 DEF ForkInv, Story
    <3>2. h \in Nat /\ Len(said[c]) = h
      BY <2>4, <3>1 DEF Handled
    <3>3. said[c] = <<>> <=> h = 0
      BY <2>1, <3>2
    <3>4. mem[c].first \in BOOLEAN
      BY ForkTypes DEF Forking!TypeOK
    <3> QED  BY <3>1, <3>2, <3>3, <3>4 DEF Handled
  <2> QED  BY <2>2, <2>3, <2>4 DEF ForkInv, Story, Earned
<1>2. ForkingInv => RecordsEarned
  BY <1>1 DEF ForkingInv, RecordsEarned
<1> QED  BY <1>2, ForkingInvariant, PTL

-----------------------------------------------------------------------------
(* The exercise with a pipe *)

\* The sums of the first elements of the array, of none of them first.
Sums == <<0, 1, 3, 9, 16, 17, 19, 22, 28, 35, 36>>

\* Each is one element more than the last.
LEMMA SumsGrow ==
  /\ Len(Pipe!array) = 10
  /\ \A i \in 0 .. 10 : Sums[i + 1] \in Nat
  /\ \A i \in 1 .. 10 : Sums[i + 1] = Sums[i] + Pipe!array[i]
<1>1. \A i \in 1 .. 10 : \/ i = 1 \/ i = 2 \/ i = 3 \/ i = 4 \/ i = 5
                         \/ i = 6 \/ i = 7 \/ i = 8 \/ i = 9 \/ i = 10
  OBVIOUS
<1>2. \A i \in 1 .. 10 : Sums[i + 1] = Sums[i] + Pipe!array[i]
  BY <1>1 DEF Sums, Pipe!array
<1>3. \A i \in 0 .. 10 : Sums[i + 1] \in Nat
  BY <1>1 DEF Sums
<1> QED  BY <1>2, <1>3 DEF Pipe!array

\* The equation that defines total in Total.
Totals(total, start, end) ==
  total = [i \in start .. end |-> IF i = start THEN 0 ELSE total[i - 1] + Pipe!array[i]]

\* The recursive function of the model, as the solution of that equation.
LEMMA TotalIsTotals ==
  \A slice : Pipe!Total(slice) =
              (CHOOSE total : Totals(total, slice.start, slice.end))[slice.end]
BY Zenon DEF Pipe!Total, Totals

\* What the loop adds up is the difference of two of the sums.
LEMMA TotalOf ==
  ASSUME NEW start \in 0 .. 10, NEW end \in start .. 10
  PROVE  Pipe!Total([start |-> start, end |-> end]) = Sums[end + 1] - Sums[start + 1]
<1> DEFINE f == [i \in start .. end |-> Sums[i + 1] - Sums[start + 1]]
<1>1. Totals(f, start, end)
  <2>1. ASSUME NEW i \in start .. end
        PROVE  f[i] = IF i = start THEN 0 ELSE f[i - 1] + Pipe!array[i]
    <3>1. CASE i = start
      <4>1. Sums[start + 1] \in Nat
        BY SumsGrow
      <4> QED  BY <3>1, <4>1
    <3>2. CASE i # start
      <4>1. /\ i \in 1 .. 10 /\ i - 1 \in start .. end
            /\ i - 1 \in 0 .. 10 /\ (i - 1) + 1 = i
        BY <3>2
      <4>2. /\ Sums[i + 1] = Sums[i] + Pipe!array[i]
            /\ Sums[i + 1] \in Nat /\ Sums[i] \in Nat /\ Sums[start + 1] \in Nat
        BY <4>1, SumsGrow
      <4>3. Pipe!array[i] \in Nat
        BY <4>1 DEF Pipe!array
      <4>4. f[i - 1] = Sums[i] - Sums[start + 1]
        BY <4>1
      <4> QED  BY <3>2, <4>2, <4>3, <4>4
    <3> QED  BY <3>1, <3>2
  <2> QED  BY <2>1 DEF Totals
<1> HIDE DEF f
<1> DEFINE g == CHOOSE total : Totals(total, start, end)
<1>2. Totals(g, start, end)
  BY <1>1
<1> HIDE DEF g
<1> DEFINE T == {i \in start .. end : g[i] # f[i]}
<1>3. T = {}
  <2> SUFFICES ASSUME T # {} PROVE FALSE
    OBVIOUS
  <2>1. T \in SUBSET Nat
    OBVIOUS
  <2>2. PICK i \in T : \A k \in T : i <= k
    BY <2>1, Least
  <2>3. i # start
    BY <1>1, <1>2 DEF Totals
  <2>4. i - 1 \in start .. end /\ i - 1 \notin T
    BY <2>2, <2>3
  <2>5. g[i - 1] = f[i - 1]
    BY <2>4
  <2>6. /\ g[i] = g[i - 1] + Pipe!array[i]
        /\ f[i] = f[i - 1] + Pipe!array[i]
    BY <1>1, <1>2, <2>3 DEF Totals
  <2> QED  BY <2>5, <2>6
<1>4. g[end] = f[end]
  BY <1>3
<1>5. f[end] = Sums[end + 1] - Sums[start + 1]
  BY DEF f
<1> DEFINE slice == [start |-> start, end |-> end]
<1>6. slice.start = start /\ slice.end = end
  OBVIOUS
<1> HIDE DEF slice
<1>7. Pipe!Total(slice) = g[end]
  BY <1>6, TotalIsTotals DEF g
<1> QED  BY <1>4, <1>5, <1>7 DEF slice

\* The two halves, and the whole array.
LEMMA HalvesTotal ==
  /\ Pipe!Total(Pipe!Slice("child")) = 17
  /\ Pipe!Total(Pipe!Slice("parent")) = 19
  /\ Pipe!Total([start |-> 0, end |-> Len(Pipe!array)]) = 36
<1>1. /\ Pipe!Slice("child") = [start |-> 0, end |-> 5]
      /\ Pipe!Slice("parent") = [start |-> 5, end |-> 10]
  BY SumsGrow DEF Pipe!Slice
<1>2. /\ Pipe!Total([start |-> 0, end |-> 5]) = Sums[6] - Sums[1]
      /\ Pipe!Total([start |-> 5, end |-> 10]) = Sums[11] - Sums[6]
      /\ Pipe!Total([start |-> 0, end |-> 10]) = Sums[11] - Sums[1]
  BY TotalOf
<1>3. Sums[1] = 0 /\ Sums[6] = 17 /\ Sums[11] = 36
  BY DEF Sums
<1> QED  BY <1>1, <1>2, <1>3, SumsGrow

\* An int has a value: there are as many as sets of bits.
LEMMA WidthPositive == 2 ^ Width \in Nat \ {0}
<1>1. Width \in Nat
  BY ProgramsAssumption DEF ProgramsAssumption
<1> DEFINE B == 1 .. Width
<1>2. IsFiniteSet(B) /\ Cardinality(B) = Width
  BY <1>1, FS_Interval
<1> HIDE DEF B
<1>3. IsFiniteSet(SUBSET B) /\ Cardinality(SUBSET B) = 2 ^ Width
  BY <1>2, FS_SUBSET
<1>4. Cardinality(SUBSET B) \in Nat /\ Cardinality(SUBSET B) # 0
  BY <1>3, FS_CardinalityType, FS_EmptySet
<1> QED  BY <1>3, <1>4

\* Adding in the machine's arithmetic.
LEMMA RemainderAdd ==
  ASSUME NEW M \in Nat \ {0}, NEW a \in Nat, NEW b \in Nat
  PROVE  ((a % M) + (b % M)) % M = (a + b) % M
<1> DEFINE q == a \div M
           r == b \div M
           s == ((a % M) + (b % M)) \div M
           t == (a + b) \div M
           x == ((a % M) + (b % M)) % M
           y == (a + b) % M
<1>1. /\ a = M * q + (a % M) /\ b = M * r + (b % M)
      /\ q \in Nat /\ r \in Nat /\ a % M \in Nat /\ b % M \in Nat
  OBVIOUS
<1>2. /\ (a % M) + (b % M) = M * s + x /\ s \in Nat /\ x \in 0 .. M - 1
      /\ a + b = M * t + y /\ t \in Nat /\ y \in 0 .. M - 1
  BY <1>1
<1> HIDE DEF q, r, s, t, x, y
<1>3. M * q + M * r + M * s + x = M * t + y
  BY <1>1, <1>2
<1> DEFINE k == t - q - r - s
<1>4. k \in Int /\ M * k = x - y
  BY <1>1, <1>2, <1>3
<1> HIDE DEF k
<1>5. k = 0
  <2>1. k >= 1 => M * k >= M
    BY <1>4
  <2>2. k <= -1 => M * k <= -M
    BY <1>4
  <2> QED  BY <1>2, <1>4, <2>1, <2>2
<1>6. x = y
  BY <1>2, <1>4, <1>5
<1> QED  BY <1>6 DEF x, y

\* Only the child writes, before it is gone; the parent reads after that.  A
\* pipe at its end with nothing in it is one whose child was killed.
Course ==
  /\ at["parent"] \in {"fork", "sum", "close", "read", "wait", "gone", "killed"}
  /\ at["child"] \in {"none", "sum", "close", "write", "gone", "killed"}
  /\ at["child"] = "none" => at["parent"] \in {"fork", "gone", "killed"}
  /\ at["parent"] = "fork" => at["child"] = "none" /\ ends["parent"] = {"read", "write"}
  /\ at["parent"] \in {"sum", "close", "read"} => "read" \in ends["parent"]
  /\ at["child"] \in {"sum", "close", "write"} => "write" \in ends["child"]
  /\ at["child"] \in {"none", "sum", "close", "write"} => pipe = <<>>
  /\ at["child"] = "gone" /\ at["parent"] \in {"sum", "close", "read"} => pipe # <<>>

\* What is in the variables, in the pipe and in what is printed.
Values ==
  /\ \A p \in Pipe!Halves :
       /\ at[p] \in {"none", "fork", "sum"} => sum[p] = unset[p]
       /\ at[p] \in {"close", "write", "read"} =>
            sum[p] = Pipe!Wrap(unset[p] + Pipe!Total(Pipe!Slice(p)))
  /\ pipe # <<>> => pipe = <<Pipe!Wrap(unset["child"] + 17)>>
  /\ full # NoSum => \/ at["child"] = "killed"
                     \/ full = Pipe!Wrap(36 + unset["parent"] + unset["child"])

PipeInv == Pipe!TypeOK /\ Course /\ Values

\* Remainders are words, and words are numbers.
LEMMA WrapInWords ==
  /\ \A n \in Nat : Pipe!Wrap(n) \in Pipe!Words
  /\ \A n \in Pipe!Words : n \in Nat
<1> PICK M \in Nat \ {0} : M = 2 ^ Width
  BY WidthPositive
<1>1. \A n \in Nat : n % M \in 0 .. (M - 1)
  OBVIOUS
<1> QED  BY <1>1 DEF Pipe!Wrap, Pipe!Words

\* The sum of two words, in words.
LEMMA WrapAdd ==
  ASSUME NEW a \in Nat, NEW b \in Nat
  PROVE  Pipe!Wrap(Pipe!Wrap(a) + Pipe!Wrap(b)) = Pipe!Wrap(a + b)
BY WidthPositive, RemainderAdd DEF Pipe!Wrap

\* The parent alone, before fork.
LEMMA InitPipeInv == Init /\ program = "pipe" => PipeInv
<1> SUFFICES ASSUME Init PROVE PipeInv
  OBVIOUS
<1>1. Pipe!Init
  BY DEF Init
<1>2. at \in [Pipe!Halves -> {"fork", "none"}] /\ ends \in [Pipe!Halves -> SUBSET {"read", "write"}]
  BY <1>1 DEF Pipe!Init, Pipe!Halves
<1>3. at["parent"] = "fork" /\ at["child"] = "none" /\ ends["parent"] = {"read", "write"}
  BY <1>1 DEF Pipe!Init
<1>4. Pipe!TypeOK
  BY <1>1, <1>2 DEF Pipe!Init, Pipe!TypeOK
<1>5. Course
  BY <1>1, <1>3 DEF Pipe!Init, Course
<1>6. Values
  <2>1. \A p \in Pipe!Halves : at[p] \in {"fork", "none"}
    BY <1>2
  <2> QED  BY <1>1, <2>1 DEF Pipe!Init, Values
<1> QED  BY <1>4, <1>5, <1>6 DEF PipeInv

\* The types that the steps need.
LEMMA PipeTypes ==
  ASSUME PipeInv
  PROVE  /\ Course /\ Values /\ Pipe!TypeOK
         /\ "parent" \in Pipe!Halves /\ "child" \in Pipe!Halves
         /\ \A p \in Pipe!Halves : p = "parent" \/ p = "child"
         /\ unset \in [Pipe!Halves -> Pipe!Words] /\ sum \in [Pipe!Halves -> Pipe!Words]
         /\ at \in [Pipe!Halves -> {"none", "fork", "sum", "close", "write", "read",
                                    "wait", "killed", "gone"}]
         /\ ends \in [Pipe!Halves -> SUBSET {"read", "write"}]
         /\ pipe = <<>> \/ pipe \in [{1} -> Pipe!Words]
         /\ full \in Pipe!Words \cup {NoSum}
         /\ unset["parent"] \in Nat /\ unset["child"] \in Nat
<1>1. "parent" \in Pipe!Halves /\ "child" \in Pipe!Halves
  BY DEF Pipe!Halves
<1> QED  BY <1>1, WrapInWords DEF PipeInv, Pipe!TypeOK, Pipe!Halves

\* Two processes with the same unset sum, or none.
LEMMA PipeForkStep ==
  ASSUME PipeInv, Pipe!Fork
  PROVE  PipeInv'
<1>0. /\ at["parent"] = "fork" /\ UNCHANGED <<unset, sum, pipe, full>>
      /\ \/ /\ at' = [parent |-> "sum", child |-> "sum"]
            /\ ends' = [ends EXCEPT !["child"] = ends["parent"]]
         \/ /\ at' = [at EXCEPT !["parent"] = "gone"]
            /\ ends' = [ends EXCEPT !["parent"] = {}]
  BY DEF Pipe!Fork, Pipe!Goto
<1>1. /\ at["child"] = "none" /\ ends["parent"] = {"read", "write"} /\ pipe = <<>>
      /\ sum["parent"] = unset["parent"] /\ sum["child"] = unset["child"]
      /\ \A p \in Pipe!Halves : p = "parent" \/ p = "child"
  BY <1>0, PipeTypes DEF Course, Values
<1>2. /\ at' \in [Pipe!Halves -> {"none", "sum", "gone"}]
      /\ ends' \in [Pipe!Halves -> SUBSET {"read", "write"}]
      /\ \/ /\ at'["parent"] = "sum" /\ at'["child"] = "sum"
            /\ ends'["parent"] = {"read", "write"} /\ ends'["child"] = {"read", "write"}
         \/ at'["parent"] = "gone" /\ at'["child"] = "none"
  <2>1. CASE at' = [parent |-> "sum", child |-> "sum"]
    <3>1. at' \in [Pipe!Halves -> {"none", "sum", "gone"}]
      BY <2>1 DEF Pipe!Halves
    <3> QED  BY <1>0, <1>1, <2>1, <3>1, PipeTypes
  <2>2. CASE at' = [at EXCEPT !["parent"] = "gone"]
    BY <1>0, <1>1, <2>2, PipeTypes
  <2> QED  BY <1>0, <2>1, <2>2
<1>3. Pipe!TypeOK'
  BY <1>0, <1>2, PipeTypes DEF Pipe!TypeOK
<1>4. Course'
  BY <1>0, <1>1, <1>2 DEF Course
<1>5. Values'
  BY <1>0, <1>1, <1>2, PipeTypes DEF Values
<1> QED  BY <1>3, <1>4, <1>5 DEF PipeInv

\* What Total is for each process, and the words it is added to.
LEMMA SliceTotals ==
  ASSUME PipeInv, NEW p \in Pipe!Halves
  PROVE  /\ Pipe!Total(Pipe!Slice(p)) \in Nat
         /\ unset[p] + Pipe!Total(Pipe!Slice(p)) \in Nat
<1>1. p = "parent" \/ p = "child"
  BY PipeTypes
<1>2. Pipe!Total(Pipe!Slice(p)) \in Nat
  BY <1>1, HalvesTotal
<1> QED  BY <1>1, <1>2, PipeTypes

\* A process adds up its half.
LEMMA PipeAddUpStep ==
  ASSUME PipeInv, NEW p \in Pipe!Halves, Pipe!AddUp(p)
  PROVE  PipeInv'
<1>0. /\ at[p] = "sum" /\ UNCHANGED <<unset, pipe, ends, full>>
      /\ sum' = [sum EXCEPT ![p] = Pipe!Wrap(sum[p] + Pipe!Total(Pipe!Slice(p)))]
      /\ at' = [at EXCEPT ![p] = "close"]
  BY DEF Pipe!AddUp, Pipe!Goto
<1>1. sum[p] = unset[p]
  BY <1>0, PipeTypes DEF Values
<1>2. PICK n \in Pipe!Words : n = Pipe!Wrap(unset[p] + Pipe!Total(Pipe!Slice(p)))
  BY SliceTotals, WrapInWords
<1>3. /\ sum' = [sum EXCEPT ![p] = n]
      /\ sum'[p] = n /\ \A q \in Pipe!Halves \ {p} : sum'[q] = sum[q]
      /\ sum' \in [Pipe!Halves -> Pipe!Words]
  BY <1>0, <1>1, <1>2, PipeTypes
<1>4. /\ at'[p] = "close" /\ \A q \in Pipe!Halves \ {p} : at'[q] = at[q]
      /\ at' \in [Pipe!Halves -> {"none", "fork", "sum", "close", "write", "read",
                                 "wait", "killed", "gone"}]
  BY <1>0, PipeTypes
<1>5. Pipe!TypeOK'
  BY <1>0, <1>3, <1>4, PipeTypes DEF Pipe!TypeOK
<1>6. Course'
  BY <1>0, <1>4, PipeTypes DEF Course
<1>7. Values'
  <2>1. ASSUME NEW q \in Pipe!Halves
        PROVE  /\ at'[q] \in {"none", "fork", "sum"} => sum'[q] = unset'[q]
               /\ at'[q] \in {"close", "write", "read"} =>
                    sum'[q] = Pipe!Wrap(unset'[q] + Pipe!Total(Pipe!Slice(q)))
    BY <1>0, <1>2, <1>3, <1>4, PipeTypes DEF Values
  <2>2. at'["child"] = "killed" <=> at["child"] = "killed"
    BY <1>0, <1>4, PipeTypes
  <2> QED  BY <1>0, <2>1, <2>2, PipeTypes DEF Values
<1> QED  BY <1>5, <1>6, <1>7 DEF PipeInv

\* Steps that move on one process and leave the sums.
LEMMA ValuesKept ==
  ASSUME PipeInv, NEW p \in Pipe!Halves,
         NEW call \in {"write", "read", "wait", "gone", "killed"},
         at' = [at EXCEPT ![p] = call],
         call \in {"write", "read"} => at[p] = "close",
         at[p] # "killed",
         UNCHANGED <<unset, sum>>
  PROVE  /\ at' \in [Pipe!Halves -> {"none", "fork", "sum", "close", "write", "read",
                                    "wait", "killed", "gone"}]
         /\ at'[p] = call /\ \A q \in Pipe!Halves \ {p} : at'[q] = at[q]
         /\ at["child"] = "killed" => at'["child"] = "killed"
         /\ UNCHANGED <<pipe, full>> => Values'
<1>1. /\ at' \in [Pipe!Halves -> {"none", "fork", "sum", "close", "write", "read",
                                 "wait", "killed", "gone"}]
      /\ at'[p] = call /\ \A q \in Pipe!Halves \ {p} : at'[q] = at[q]
  BY PipeTypes
<1>2. at["child"] = "killed" => at'["child"] = "killed"
  BY <1>1, PipeTypes
<1>3. ASSUME NEW q \in Pipe!Halves
      PROVE  /\ at'[q] \in {"none", "fork", "sum"} => sum'[q] = unset'[q]
             /\ at'[q] \in {"close", "write", "read"} =>
                  sum'[q] = Pipe!Wrap(unset'[q] + Pipe!Total(Pipe!Slice(q)))
  BY <1>1, PipeTypes DEF Values
<1>4. UNCHANGED <<pipe, full>> => Values'
  BY <1>2, <1>3, PipeTypes DEF Values
<1> QED  BY <1>1, <1>2, <1>4

\* Steps that leave the sums: close, wait, and a kill.
LEMMA PipeMoveStep ==
  ASSUME PipeInv, NEW p \in Pipe!Halves,
         Pipe!CloseOther(p) \/ Pipe!Killed(p) \/ Pipe!Wait
  PROVE  PipeInv'
<1>1. CASE Pipe!CloseOther(p)
  <2>1. PICK call \in {"write", "read"} :
          /\ at[p] = "close" /\ at' = [at EXCEPT ![p] = call]
          /\ call = IF p = "child" THEN "write" ELSE "read"
          /\ ends' = [ends EXCEPT ![p] = @ \ {IF p = "child" THEN "read" ELSE "write"}]
          /\ UNCHANGED <<unset, sum, pipe, full>>
    BY <1>1 DEF Pipe!CloseOther, Pipe!Goto
  <2>2. /\ at' \in [Pipe!Halves -> {"none", "fork", "sum", "close", "write", "read",
                                   "wait", "killed", "gone"}]
        /\ at'[p] = call /\ \A q \in Pipe!Halves \ {p} : at'[q] = at[q]
        /\ Values'
    BY <2>1, ValuesKept
  <2>3. /\ ends' \in [Pipe!Halves -> SUBSET {"read", "write"}]
        /\ \A q \in Pipe!Halves \ {p} : ends'[q] = ends[q]
        /\ p = "child" => ("write" \in ends["child"] => "write" \in ends'["child"])
        /\ p = "parent" => ("read" \in ends["parent"] => "read" \in ends'["parent"])
    BY <2>1, PipeTypes
  <2>4. Pipe!TypeOK'
    BY <2>1, <2>2, <2>3, PipeTypes DEF Pipe!TypeOK
  <2>5. Course'
    BY <2>1, <2>2, <2>3, PipeTypes DEF Course
  <2> QED  BY <2>2, <2>4, <2>5 DEF PipeInv
<1>2. CASE Pipe!Killed(p)
  <2>1. /\ at[p] \notin {"none", "gone", "killed"} /\ at' = [at EXCEPT ![p] = "killed"]
        /\ ends' = [ends EXCEPT ![p] = {}]
        /\ UNCHANGED <<unset, sum, pipe, full>>
    BY <1>2 DEF Pipe!Killed, Pipe!Goto
  <2>2. /\ at' \in [Pipe!Halves -> {"none", "fork", "sum", "close", "write", "read",
                                   "wait", "killed", "gone"}]
        /\ at'[p] = "killed" /\ \A q \in Pipe!Halves \ {p} : at'[q] = at[q]
        /\ Values'
    BY <2>1, ValuesKept
  <2>3. /\ ends' \in [Pipe!Halves -> SUBSET {"read", "write"}]
        /\ \A q \in Pipe!Halves \ {p} : ends'[q] = ends[q]
    BY <2>1, PipeTypes
  <2>4. Pipe!TypeOK'
    BY <2>1, <2>2, <2>3, PipeTypes DEF Pipe!TypeOK
  <2>5. Course'
    BY <2>1, <2>2, <2>3, PipeTypes DEF Course
  <2> QED  BY <2>2, <2>4, <2>5 DEF PipeInv
<1>3. CASE Pipe!Wait
  <2>1. /\ at["parent"] = "wait" /\ at' = [at EXCEPT !["parent"] = "gone"]
        /\ UNCHANGED <<unset, sum, pipe, ends, full>>
    BY <1>3 DEF Pipe!Wait, Pipe!Goto
  <2>2. /\ at' \in [Pipe!Halves -> {"none", "fork", "sum", "close", "write", "read",
                                   "wait", "killed", "gone"}]
        /\ at'["parent"] = "gone" /\ at'["child"] = at["child"]
        /\ Values'
    BY <2>1, PipeTypes, ValuesKept
  <2>3. Pipe!TypeOK'
    BY <2>1, <2>2, PipeTypes DEF Pipe!TypeOK
  <2>4. Course'
    BY <2>1, <2>2, PipeTypes DEF Course
  <2> QED  BY <2>2, <2>3, <2>4 DEF PipeInv
<1> QED  BY <1>1, <1>2, <1>3

\* The child writes the sum of its half, as long as the parent has the pipe.
LEMMA PipeWriteStep ==
  ASSUME PipeInv, Pipe!WriteSum
  PROVE  PipeInv'
<1>0. /\ at["child"] = "write" /\ at' = [at EXCEPT !["child"] = "gone"]
      /\ pipe' = IF "read" \in ends["parent"] THEN Append(pipe, sum["child"]) ELSE pipe
      /\ ends' = [ends EXCEPT !["child"] = {}]
      /\ UNCHANGED <<unset, sum, full>>
  BY DEF Pipe!WriteSum, Pipe!Goto
<1>1. /\ pipe = <<>> /\ sum["child"] = Pipe!Wrap(unset["child"] + 17)
      /\ sum["child"] \in Pipe!Words
  BY <1>0, HalvesTotal, PipeTypes DEF Course, Values
<1>2. /\ at' \in [Pipe!Halves -> {"none", "fork", "sum", "close", "write", "read",
                                 "wait", "killed", "gone"}]
      /\ at'["child"] = "gone" /\ at'["parent"] = at["parent"]
      /\ UNCHANGED <<pipe, full>> => Values'
  BY <1>0, PipeTypes, ValuesKept
<1>3. /\ ends' \in [Pipe!Halves -> SUBSET {"read", "write"}]
      /\ ends'["parent"] = ends["parent"]
  BY <1>0, PipeTypes
<1>4. /\ pipe' = <<>> \/ pipe' = <<sum["child"]>>
      /\ "read" \in ends["parent"] => pipe' # <<>>
  BY <1>0, <1>1
<1>5. Pipe!TypeOK'
  <2>1. pipe' = <<>> \/ pipe' \in [{1} -> Pipe!Words]
    BY <1>1, <1>4
  <2> QED  BY <1>0, <1>2, <1>3, <2>1, PipeTypes DEF Pipe!TypeOK
<1>6. Course'
  BY <1>0, <1>2, <1>3, <1>4, PipeTypes DEF Course
<1>7. Values'
  <2>1. ASSUME NEW q \in Pipe!Halves
        PROVE  /\ at'[q] \in {"none", "fork", "sum"} => sum'[q] = unset'[q]
               /\ at'[q] \in {"close", "write", "read"} =>
                    sum'[q] = Pipe!Wrap(unset'[q] + Pipe!Total(Pipe!Slice(q)))
    BY <1>0, <1>2, PipeTypes DEF Values
  <2>2. full # NoSum => full = Pipe!Wrap(36 + unset["parent"] + unset["child"])
    BY <1>0, PipeTypes DEF Values
  <2>3. pipe' # <<>> => pipe' = <<Pipe!Wrap(unset["child"] + 17)>>
    BY <1>1, <1>4
  <2> QED  BY <1>0, <2>1, <2>2, <2>3 DEF Values
<1> QED  BY <1>5, <1>6, <1>7 DEF PipeInv

\* The parent adds what it reads, which is not the child's sum only when the
\* child was killed.
LEMMA PipeReadStep ==
  ASSUME PipeInv, Pipe!ReadSum
  PROVE  PipeInv'
<1>0. /\ at["parent"] = "read" /\ at' = [at EXCEPT !["parent"] = "wait"]
      /\ pipe' = <<>> /\ ends' = [ends EXCEPT !["parent"] = {}]
      /\ UNCHANGED <<unset, sum>>
  BY DEF Pipe!ReadSum, Pipe!Goto
<1>1. PICK recv \in Pipe!Words :
        /\ full' = Pipe!Wrap(recv + sum["parent"])
        /\ \/ pipe # <<>> /\ recv = Head(pipe)
           \/ pipe = <<>> /\ "write" \notin ends["child"]
  <2>1. PICK recv \in IF pipe # <<>> THEN {Head(pipe)}
                      ELSE IF "write" \notin ends["child"] THEN Pipe!Words ELSE {} :
          full' = Pipe!Wrap(recv + sum["parent"])
    BY DEF Pipe!ReadSum
  <2>2. pipe # <<>> => Head(pipe) \in Pipe!Words
    BY PipeTypes
  <2> QED  BY <2>1, <2>2
<1>2. sum["parent"] = Pipe!Wrap(unset["parent"] + 19) /\ sum["parent"] \in Nat
  BY <1>0, HalvesTotal, PipeTypes, WrapInWords DEF Values
<1>3. /\ at' \in [Pipe!Halves -> {"none", "fork", "sum", "close", "write", "read",
                                 "wait", "killed", "gone"}]
      /\ at'["parent"] = "wait" /\ at'["child"] = at["child"]
  BY <1>0, PipeTypes
<1>4. full' = Pipe!Wrap(36 + unset["parent"] + unset["child"]) \/ at["child"] = "killed"
  <2>1. CASE pipe # <<>>
    <3>1. recv = Pipe!Wrap(unset["child"] + 17)
      BY <1>1, <2>1, PipeTypes DEF Values
    <3>2. /\ unset["child"] + 17 \in Nat /\ unset["parent"] + 19 \in Nat
          /\ (unset["child"] + 17) + (unset["parent"] + 19) =
                36 + unset["parent"] + unset["child"]
      BY PipeTypes
    <3>3. Pipe!Wrap(recv + sum["parent"])
            = Pipe!Wrap((unset["child"] + 17) + (unset["parent"] + 19))
      BY <1>2, <3>1, <3>2, WrapAdd, Zenon
    <3> QED  BY <1>1, <3>2, <3>3, Zenon
  <2>2. CASE pipe = <<>>
    BY <1>0, <1>1, <2>2, PipeTypes DEF Course
  <2> QED  BY <2>1, <2>2
<1>5. full' \in Pipe!Words
  <2>1. recv + sum["parent"] \in Nat
    BY <1>2, WrapInWords
  <2> QED  BY <1>1, <2>1, WrapInWords
<1>6. /\ ends' \in [Pipe!Halves -> SUBSET {"read", "write"}]
      /\ ends'["child"] = ends["child"]
  BY <1>0, PipeTypes
<1>7. Pipe!TypeOK'
  BY <1>0, <1>3, <1>5, <1>6, PipeTypes DEF Pipe!TypeOK
<1>8. Course'
  BY <1>0, <1>3, <1>6, PipeTypes DEF Course
<1>9. Values'
  <2>1. ASSUME NEW q \in Pipe!Halves
        PROVE  /\ at'[q] \in {"none", "fork", "sum"} => sum'[q] = unset'[q]
               /\ at'[q] \in {"close", "write", "read"} =>
                    sum'[q] = Pipe!Wrap(unset'[q] + Pipe!Total(Pipe!Slice(q)))
    BY <1>0, <1>3, PipeTypes DEF Values
  <2> QED  BY <1>0, <1>3, <1>4, <2>1 DEF Values
<1> QED  BY <1>7, <1>8, <1>9 DEF PipeInv

\* Every step of either process keeps PipeInv.
LEMMA PipeStepInv == PipeInv /\ Pipe!Next => PipeInv'
BY PipeTypes, PipeForkStep, PipeAddUpStep, PipeMoveStep, PipeWriteStep, PipeReadStep
   DEF Pipe!Next

PipesInv == program = "pipe" => PipeInv

\* PipeInv holds as long as the exercise runs.
LEMMA PipesInvariant == Spec => []PipesInv
<1>1. Init => PipesInv
  BY InitPipeInv DEF PipesInv
<1>2. PipesInv /\ [Next]_vars => PipesInv'
  <2> SUFFICES ASSUME PipesInv, [Next]_vars, program' = "pipe"
               PROVE  PipeInv'
    BY DEF PipesInv
  <2>1. program = "pipe"
    BY DEF Next, IterativeStep, IterativeOnly, StreamStep, StreamOnly,
           ForkingStep, PipeStep, vars
  <2>2. PipeInv
    BY <2>1 DEF PipesInv
  <2>3. CASE PipeStep
    BY <2>2, <2>3, PipeStepInv DEF PipeStep
  <2>4. CASE UNCHANGED vars
    <3>1. UNCHANGED pipeVars
      BY <2>4 DEF vars
    <3> QED  BY <2>2, <3>1 DEF pipeVars, PipeInv, Pipe!TypeOK, Course, Values
  <2> QED
    BY <2>1, <2>3, <2>4 DEF Next, IterativeStep, StreamStep, ForkingStep, iterating
<1> QED  BY <1>1, <1>2, PTL DEF Spec

\* Whatever the two variables held before they were added to, and whatever the
\* width of an int: what the parent prints is the sum of both and of the whole
\* array, unless the child was killed (fork_pipe.c:31-70).
THEOREM SumsAddUp == Spec => []FullSum
<1>1. PipeInv => Pipe!FullSum
  BY HalvesTotal DEF PipeInv, Values, Pipe!FullSum
<1>2. PipesInv => FullSum
  BY <1>1 DEF PipesInv, FullSum
<1> QED  BY <1>2, PipesInvariant, PTL

-----------------------------------------------------------------------------
(* The types of all programs: what the stream server's depend on *)

\* No child yet, no hello yet.
NoHelloYet ==
  \A c \in Clients :
    /\ \/ cend[c] = "none" \/ (c = conn /\ ~ forked) \/ Pending(c)
       => proc[c] = "none"
    /\ proc[c] \in {"none", "hello"} => got[c] = <<>>

StreamInv == Stream!TypeOK /\ OnePlace /\ NoHelloYet

\* The types that the steps need.
LEMMA StreamTypes ==
  ASSUME StreamInv
  PROVE  /\ Stream!ConnTypeOK /\ ConnTypeOK /\ OnePlace /\ NoHelloYet
         /\ NoClient \notin Clients
         /\ proc \in [Clients -> {"none", "hello", "close", "zombie", "reaped"}]
         /\ forked \in BOOLEAN /\ sigchld \in BOOLEAN /\ handling \in BOOLEAN
         /\ got \in [Clients -> {<<>>, <<"hello">>}]
BY ConnectionAssumption
   DEF StreamInv, Stream!TypeOK, Stream!ConnTypeOK, ConnTypeOK, Stream!Processes,
       Processes, Stream!Ended, ConnectionAssumption

\* Put together again.
LEMMA StreamTyped ==
  ASSUME ConnTypeOK',
         proc' \in [Clients -> {"none", "hello", "close", "zombie", "reaped"}],
         forked' \in BOOLEAN, sigchld' \in BOOLEAN, handling' \in BOOLEAN,
         got' \in [Clients -> {<<>>, <<"hello">>}]
  PROVE  Stream!TypeOK'
<1>1. Stream!ConnTypeOK'
  BY DEF Stream!ConnTypeOK, ConnTypeOK, Stream!Processes, Processes
<1> QED  BY <1>1 DEF Stream!TypeOK, Stream!Ended

\* Nobody has connected to the stream server.
LEMMA InitStreamInv == Init => StreamInv
<1> SUFFICES ASSUME Init PROVE StreamInv
  OBVIOUS
<1>1. NoClient \notin Clients
  BY ConnectionAssumption DEF ConnectionAssumption
<1>2. Stream!TypeOK
  <2>1. Stream!ConnTypeOK
    BY <1>1 DEF Init, Stream!Init, Stream!ConnInit, Stream!ConnTypeOK
  <2>2. got \in [Clients -> {<<>>, <<"hello">>}]
    BY DEF Init, Stream!Init, Stream!ConnInit
  <2> QED  BY <2>1, <2>2 DEF Init, Stream!Init, Stream!TypeOK, Stream!Ended
<1>3. OnePlace /\ NoHelloYet
  BY <1>1 DEF Init, Stream!Init, Stream!ConnInit, OnePlace, NoHelloYet, Pending
<1> QED  BY <1>2, <1>3 DEF StreamInv

\* Steps that make and accept no connection, and send nothing to a client
\* without a child.
LEMMA HellosKept ==
  ASSUME StreamInv,
         backlog' = backlog \/ backlog' = <<>>,
         (conn' = conn /\ (forked => forked')) \/ conn' = NoClient,
         \A c \in Clients : /\ held[c] = {} => held'[c] = {}
                            /\ cend'[c] = "none" => cend[c] = "none"
                            /\ \/ proc'[c] = proc[c] /\ got'[c] = got[c]
                               \/ /\ c = conn /\ ~ forked /\ forked' /\ proc'[c] = "hello"
                                  /\ got'[c] = got[c]
                               \/ proc[c] # "none" /\ proc'[c] \notin {"none", "hello"}
  PROVE  OnePlace' /\ NoHelloYet'
<1>1. /\ OnePlace /\ NoHelloYet /\ NoClient \notin Clients
      /\ backlog \in Seq(Clients)
  BY StreamTypes DEF ConnTypeOK
<1>2. \A c \in Clients : Pending(c)' => Pending(c)
  BY <1>1 DEF Pending
<1>3. OnePlace'
  BY <1>1, <1>2 DEF OnePlace
<1>4. NoHelloYet'
  BY <1>1, <1>2 DEF NoHelloYet, OnePlace, Pending
<1> QED  BY <1>3, <1>4

\* A client connects or hangs up.
LEMMA StreamCallStep ==
  ASSUME StreamInv, NEW c \in Clients, Stream!Call(c) \/ Stream!HangUp(c)
  PROVE  StreamInv'
<1>1. CASE Stream!Call(c)
  <2>1. /\ cend[c] = "none" /\ cend' = [cend EXCEPT ![c] = "open"]
        /\ backlog' = Append(backlog, c)
        /\ UNCHANGED <<srv, conn, held, got, proc, forked, sigchld, handling>>
    BY <1>1 DEF Stream!Call, Stream!Connect
  <2>2. /\ ConnTypeOK' /\ OnePlace' /\ c # conn /\ held[c] = {}
        /\ \A d \in Clients \ {c} : cend'[d] = cend[d] /\ (Pending(d)' => Pending(d))
    BY <2>1, StreamTypes, ConnectPlaces
  <2>3. Stream!TypeOK'
    BY <2>1, <2>2, StreamTypes, StreamTyped
  <2>4. NoHelloYet'
    BY <2>1, <2>2, StreamTypes DEF NoHelloYet
  <2> QED  BY <2>2, <2>3, <2>4 DEF StreamInv
<1>2. CASE Stream!HangUp(c)
  <2>1. /\ \E e \in {"rst", "fin"} : cend' = [cend EXCEPT ![c] = e]
        /\ UNCHANGED <<srv, conn, backlog, held, got, proc, forked, sigchld, handling>>
    BY <1>2 DEF Stream!HangUp, Stream!Close
  <2>2. /\ ConnTypeOK' /\ \A d \in Clients : cend'[d] = "none" => cend[d] = "none"
    BY <2>1, StreamTypes DEF ConnTypeOK
  <2>3. Stream!TypeOK'
    BY <2>1, <2>2, StreamTypes, StreamTyped
  <2>4. OnePlace' /\ NoHelloYet'
    BY <2>1, <2>2, HellosKept
  <2> QED  BY <2>3, <2>4 DEF StreamInv
<1> QED  BY <1>1, <1>2

\* The server accepts, forks, closes, and takes its signals.
LEMMA StreamServerStep ==
  ASSUME StreamInv, Stream!Server
  PROVE  StreamInv'
<1>1. CASE Stream!AcceptNext
  <2>1. /\ conn = NoClient /\ backlog # <<>> /\ conn' = Head(backlog)
        /\ backlog' = Tail(backlog) /\ held' = [held EXCEPT ![conn'] = {"server"}]
        /\ forked' = FALSE /\ UNCHANGED <<srv, got, cend, proc, sigchld, handling>>
    BY <1>1 DEF Stream!AcceptNext, Stream!Accept
  <2>2. /\ ConnTypeOK' /\ OnePlace' /\ conn' \in Clients /\ Pending(conn')
        /\ \A d \in Clients : Pending(d)' => Pending(d)
    BY <2>1, StreamTypes, AcceptPlaces
  <2>3. Stream!TypeOK'
    BY <2>1, <2>2, StreamTypes, StreamTyped
  <2>4. NoHelloYet'
    BY <2>1, <2>2, StreamTypes DEF NoHelloYet
  <2> QED  BY <2>2, <2>3, <2>4 DEF StreamInv
<1>2. CASE Stream!ForkChild
  <2>c. PICK c \in Clients : c = conn
    BY <1>2, StreamTypes DEF Stream!ForkChild, ConnTypeOK
  <2>1. /\ ~ forked /\ forked' = TRUE /\ proc' = [proc EXCEPT ![c] = "hello"]
        /\ held' = [d \in Clients |->
                      IF "server" \in held[d] THEN held[d] \cup {c} ELSE held[d]]
        /\ UNCHANGED <<srv, conn, backlog, got, cend, sigchld, handling>>
    BY <1>2, <2>c DEF Stream!ForkChild, Stream!Fork
  <2>2. ConnTypeOK'
    <3>1. held' \in [Clients -> SUBSET Processes]
      BY <2>1, StreamTypes DEF ConnTypeOK, Processes
    <3> QED  BY <2>1, <3>1, StreamTypes DEF ConnTypeOK
  <2>3. /\ proc' \in [Clients -> {"none", "hello", "close", "zombie", "reaped"}]
        /\ \A d \in Clients : \/ proc'[d] = proc[d]
                              \/ d = conn /\ proc'[d] = "hello"
    BY <2>c, <2>1, StreamTypes
  <2>4. Stream!TypeOK'
    BY <2>1, <2>2, <2>3, StreamTypes, StreamTyped
  <2>5. \A d \in Clients : held[d] = {} => held'[d] = {}
    BY <2>1
  <2>6. OnePlace' /\ NoHelloYet'
    BY <2>1, <2>3, <2>5, HellosKept
  <2> QED  BY <2>4, <2>6 DEF StreamInv
<1>3. CASE Stream!ForkFails \/ Stream!TakeSignal
  <2>1. /\ UNCHANGED <<srv, conn, backlog, held, got, cend, proc>>
        /\ forked' \in BOOLEAN /\ sigchld' \in BOOLEAN /\ handling' \in BOOLEAN
        /\ forked => forked'
    <3>1. CASE Stream!ForkFails
      BY <3>1, StreamTypes DEF Stream!ForkFails, Stream!connVars
    <3>2. CASE Stream!TakeSignal
      BY <3>2, StreamTypes DEF Stream!TakeSignal, Stream!connVars
    <3> QED  BY <1>3, <3>1, <3>2
  <2>2. ConnTypeOK'
    BY <2>1, StreamTypes DEF ConnTypeOK
  <2>3. Stream!TypeOK'
    BY <2>1, <2>2, StreamTypes, StreamTyped
  <2>4. OnePlace' /\ NoHelloYet'
    BY <2>1, HellosKept
  <2> QED  BY <2>3, <2>4 DEF StreamInv
<1>4. CASE Stream!CloseNew
  <2>c. PICK c \in Clients : c = conn
    BY <1>4, StreamTypes DEF Stream!CloseNew, ConnTypeOK
  <2>1. /\ held' = [held EXCEPT ![c] = @ \ {"server"}] /\ conn' = NoClient
        /\ UNCHANGED <<srv, backlog, got, cend, proc, forked, sigchld, handling>>
    BY <1>4, <2>c DEF Stream!CloseNew
  <2>2. /\ held' \in [Clients -> SUBSET Processes]
        /\ \A d \in Clients : held[d] = {} => held'[d] = {}
    BY <2>1, StreamTypes DEF ConnTypeOK
  <2>3. ConnTypeOK'
    BY <2>1, <2>2, StreamTypes DEF ConnTypeOK
  <2>4. Stream!TypeOK'
    BY <2>1, <2>3, StreamTypes, StreamTyped
  <2>5. OnePlace' /\ NoHelloYet'
    BY <2>1, <2>2, HellosKept
  <2> QED  BY <2>4, <2>5 DEF StreamInv
<1>5. CASE Stream!WaitForAll
  <2>1. /\ UNCHANGED <<srv, conn, backlog, held, got, cend, forked, sigchld>>
        /\ handling' \in BOOLEAN
        /\ \/ UNCHANGED proc
           \/ \E c \in Clients : proc[c] = "zombie" /\ proc' = [proc EXCEPT ![c] = "reaped"]
    BY <1>5, StreamTypes DEF Stream!WaitForAll, Stream!Reap, Stream!connVars
  <2>2. /\ proc' \in [Clients -> {"none", "hello", "close", "zombie", "reaped"}]
        /\ \A d \in Clients : \/ proc'[d] = proc[d]
                              \/ proc[d] = "zombie" /\ proc'[d] = "reaped"
    BY <2>1, StreamTypes
  <2>3. ConnTypeOK'
    BY <2>1, StreamTypes DEF ConnTypeOK
  <2>4. Stream!TypeOK'
    BY <2>1, <2>2, <2>3, StreamTypes, StreamTyped
  <2>5. OnePlace' /\ NoHelloYet'
    BY <2>1, <2>2, HellosKept
  <2> QED  BY <2>4, <2>5 DEF StreamInv
<1> QED  BY <1>1, <1>2, <1>3, <1>4, <1>5 DEF Stream!Server

\* One hello, from the child of the connection.
LEMMA StreamChildStep ==
  ASSUME StreamInv, NEW c \in Clients, Stream!Child(c)
  PROVE  StreamInv'
<1>1. CASE Stream!SendHello(c)
  <2>1. /\ proc[c] = "hello" /\ proc' = [proc EXCEPT ![c] = "close"]
        /\ got' = [got EXCEPT ![c] = IF cend[c] = "open" THEN Append(@, "hello") ELSE @]
        /\ \E e \in Stream!EndsAfterWrite(cend[c]) : cend' = [cend EXCEPT ![c] = e]
        /\ UNCHANGED <<srv, conn, backlog, held, forked, sigchld, handling>>
    BY <1>1 DEF Stream!SendHello, Stream!Write
  <2>2. got[c] = <<>> /\ Append(got[c], "hello") = <<"hello">>
    <3>1. got[c] = <<>>
      BY <2>1, StreamTypes DEF NoHelloYet
    <3> QED  BY <3>1
  <2>3. /\ got' \in [Clients -> {<<>>, <<"hello">>}]
        /\ proc' \in [Clients -> {"none", "hello", "close", "zombie", "reaped"}]
        /\ \A d \in Clients : \/ proc'[d] = proc[d] /\ got'[d] = got[d]
                              \/ proc[d] = "hello" /\ proc'[d] = "close"
    BY <2>1, <2>2, StreamTypes
  <2>4. ConnTypeOK' /\ \A d \in Clients : cend'[d] = "none" => cend[d] = "none"
    <3>1. PICK e \in Stream!EndsAfterWrite(cend[c]) : cend' = [cend EXCEPT ![c] = e]
      BY <2>1
    <3>2. /\ cend \in [Clients -> {"none", "open", "fin", "poked", "rst", "reset"}]
          /\ e \in {"none", "open", "fin", "poked", "rst", "reset"}
          /\ e = "none" => cend[c] = "none"
      BY <3>1, StreamTypes DEF ConnTypeOK, Stream!EndsAfterWrite
    <3> QED  BY <2>1, <3>1, <3>2, StreamTypes DEF ConnTypeOK
  <2>5. Stream!TypeOK'
    BY <2>1, <2>3, <2>4, StreamTypes, StreamTyped
  <2>6. OnePlace' /\ NoHelloYet'
    BY <2>1, <2>3, <2>4, HellosKept
  <2> QED  BY <2>5, <2>6 DEF StreamInv
<1>2. CASE Stream!ChildExits(c)
  <2>1. /\ proc[c] = "close"
        /\ proc' = [proc EXCEPT ![c] = IF srv = "up" THEN "zombie" ELSE "reaped"]
        /\ held' = [d \in Clients |-> held[d] \ {c}]
        /\ sigchld' \in BOOLEAN
        /\ UNCHANGED <<srv, conn, backlog, got, cend, forked, handling>>
    BY <1>2 DEF Stream!ChildExits, Stream!EndChild, Stream!WithoutProcess
  <2>2. /\ proc' \in [Clients -> {"none", "hello", "close", "zombie", "reaped"}]
        /\ \A d \in Clients : \/ proc'[d] = proc[d]
                              \/ proc[d] = "close" /\ proc'[d] \in {"zombie", "reaped"}
    BY <2>1, StreamTypes
  <2>3. /\ held' \in [Clients -> SUBSET Processes]
        /\ \A d \in Clients : held[d] = {} => held'[d] = {}
    BY <2>1, StreamTypes DEF ConnTypeOK
  <2>4. ConnTypeOK'
    BY <2>1, <2>3, StreamTypes DEF ConnTypeOK
  <2>5. Stream!TypeOK'
    BY <2>1, <2>2, <2>4, StreamTypes, StreamTyped
  <2>6. OnePlace' /\ NoHelloYet'
    BY <2>1, <2>2, <2>3, HellosKept
  <2> QED  BY <2>5, <2>6 DEF StreamInv
<1> QED  BY <1>1, <1>2 DEF Stream!Child

\* The server is killed, and its children go on.
LEMMA StreamKilledStep ==
  ASSUME StreamInv, Stream!ServerKilled
  PROVE  StreamInv'
<1>1. /\ srv' = "gone" /\ conn' = NoClient /\ backlog' = <<>>
      /\ held' = [d \in Clients |-> held[d] \ {"server"}]
      /\ proc' = [d \in Clients |-> IF proc[d] = "zombie" THEN "reaped" ELSE proc[d]]
      /\ forked' = FALSE /\ sigchld' = FALSE /\ handling' = FALSE
      /\ UNCHANGED <<got, cend>>
  BY DEF Stream!ServerKilled, Stream!EndServer, Stream!ServerEnds, Stream!WithoutProcess
<1>2. /\ proc' \in [Clients -> {"none", "hello", "close", "zombie", "reaped"}]
      /\ \A d \in Clients : \/ proc'[d] = proc[d]
                            \/ proc[d] = "zombie" /\ proc'[d] = "reaped"
  BY <1>1, StreamTypes
<1>3. /\ held' \in [Clients -> SUBSET Processes]
      /\ \A d \in Clients : held[d] = {} => held'[d] = {}
  BY <1>1, StreamTypes DEF ConnTypeOK
<1>4. ConnTypeOK'
  BY <1>1, <1>3, StreamTypes DEF ConnTypeOK
<1>5. Stream!TypeOK'
  BY <1>1, <1>2, <1>4, StreamTypes, StreamTyped
<1>6. OnePlace' /\ NoHelloYet'
  BY <1>1, <1>2, <1>3, HellosKept
<1> QED  BY <1>5, <1>6 DEF StreamInv

StreamsInv == program = "stream" => StreamInv

\* StreamInv holds as long as the stream server or a child of it runs.
LEMMA StreamsInvariant == Spec => []StreamsInv
<1>1. Init => StreamsInv
  BY InitStreamInv DEF StreamsInv
<1>2. StreamsInv /\ [Next]_vars => StreamsInv'
  <2> SUFFICES ASSUME StreamsInv, [Next]_vars, program' = "stream"
               PROVE  StreamInv'
    BY DEF StreamsInv
  <2>1. program = "stream"
    BY DEF Next, IterativeStep, IterativeOnly, StreamStep, StreamOnly,
           ForkingStep, PipeStep, vars
  <2>2. StreamInv
    BY <2>1 DEF StreamsInv
  <2>3. CASE StreamStep
    BY <2>2, <2>3, StreamCallStep, StreamServerStep, StreamChildStep, StreamKilledStep
       DEF StreamStep, Stream!Next
  <2>4. CASE UNCHANGED vars
    <3>1. UNCHANGED <<srv, conn, backlog, held, got, cend, proc, forked, sigchld, handling>>
      BY <2>4 DEF vars, connVars, streamVars
    <3>2. ConnTypeOK'
      BY <2>2, <3>1, StreamTypes DEF ConnTypeOK
    <3>3. Stream!TypeOK'
      BY <2>2, <3>1, <3>2, StreamTypes, StreamTyped
    <3>4. OnePlace' /\ NoHelloYet'
      BY <2>2, <3>1, HellosKept
    <3> QED  BY <3>3, <3>4 DEF StreamInv
  <2> QED
    BY <2>1, <2>3, <2>4 DEF Next, IterativeStep, ForkingStep, PipeStep, iterating
<1> QED  BY <1>1, <1>2, PTL DEF Spec

\* Whatever program runs, its variables have their types: no client of the
\* stream server is sent a second hello, no pipe holds a second sum.
THEOREM ProgramsTyped == Spec => []TypeOK
<1> DEFINE Known == program \in Programs
<1>1. Init => Known
  BY DEF Init
<1>2. Known /\ [Next]_vars => Known'
  BY DEF Next, IterativeStep, IterativeOnly, StreamStep, StreamOnly, ForkingStep,
         PipeStep, vars
<1>3. Known /\ IterativeInv /\ StreamsInv /\ ForkingInv /\ PipesInv => TypeOK
  BY DEF TypeOK, IterativeInv, IterInv, iterating, StreamsInv, StreamInv, ForkingInv,
         ForkInv, PipesInv, PipeInv
<1> HIDE DEF Known
<1>4. Spec => []Known
  BY <1>1, <1>2, PTL DEF Spec
<1> QED
  BY <1>3, <1>4, IterativeInvariant, StreamsInvariant, ForkingInvariant, PipesInvariant,
     PTL

=============================================================================

------------------------ MODULE StudentSystemProofs ------------------------
(***************************************************************************)
(* Proofs about StudentSystem, for any number of clients, descriptors, ids *)
(* and blocks.  The first part allows short reads, and its argument is one *)
(* inductive invariant, IInv: every action of the server and of a client   *)
(* preserves each of its parts.  The second part has whole reads, adds the *)
(* stages of the connections (SInv), and shows what clients get.           *)
(***************************************************************************)
EXTENDS StudentSystem, TLAPS

\* The three texts and the three labels of a struct are no ids.
LEMMA IdsApart ==
  /\ "buffer" \notin Ids /\ "detail" \notin Ids /\ "blank" \notin Ids
  /\ "thank_you" \notin Ids /\ "not_found" \notin Ids /\ "again" \notin Ids
  /\ NoId \notin Ids
BY SocketsAssumption, ServerAssumption
   DEF SocketsAssumption, ServerAssumption, Labels, Words

\* Both frames are streams of cells.
LEMMA FrameTypes ==
  /\ \A text \in Cells : TextFrame(text) \in Seq(Cells)
  /\ \A id \in Ids : DetailFrame(id) \in Seq(Cells)
BY DEF TextFrame, DetailFrame, Cells, Labels, Words

\* Each element of a concatenation is one of the first sequence, in its
\* place, or one of the second.
LEMMA Concatenation ==
  ASSUME NEW s \in Seq(Cells), NEW t \in Seq(Cells)
  PROVE  /\ s \o t \in Seq(Cells)
         /\ \A k \in DOMAIN (s \o t) :
              \/ k \in DOMAIN s /\ (s \o t)[k] = s[k]
              \/ \E j \in DOMAIN t : (s \o t)[k] = t[j]
<1>1. /\ s \o t \in Seq(Cells)
      /\ DOMAIN (s \o t) = 1 .. (Len(s) + Len(t))
      /\ DOMAIN s = 1 .. Len(s) /\ DOMAIN t = 1 .. Len(t)
      /\ Len(s) \in Nat /\ Len(t) \in Nat
  OBVIOUS
<1>2. ASSUME NEW k \in 1 .. Len(s)
      PROVE  (s \o t)[k] = s[k]
  OBVIOUS
<1>3. ASSUME NEW k \in Len(s) + 1 .. Len(s) + Len(t)
      PROVE  (s \o t)[k] = t[k - Len(s)] /\ k - Len(s) \in 1 .. Len(t)
  BY <1>1
<1> QED  BY <1>1, <1>2, <1>3

\* A read takes at least one cell and at most what is there.
LEMMA ReadSizesType ==
  ASSUME NEW stream \in Seq(Cells), NEW n \in ReadSizes(stream)
  PROVE  n \in 1 .. Len(stream)
BY DEF ReadSizes, FrameLen

\* What is left of a stream is its end, shifted by the cells that were read.
LEMMA RestOfStream ==
  ASSUME NEW stream \in Seq(Cells), NEW n \in 1 .. Len(stream)
  PROVE  /\ Rest(stream, n) \in Seq(Cells)
         /\ Len(Rest(stream, n)) = Len(stream) - n
         /\ \A k \in DOMAIN Rest(stream, n) :
              /\ k + n \in DOMAIN stream
              /\ Rest(stream, n)[k] = stream[k + n]
BY DEF Rest

\* The words of a struct that was read come from the stream, or are blank.
LEMMA MessageFromStream ==
  ASSUME NEW stream \in Seq(Cells), NEW n \in 1 .. Len(stream)
  PROVE  LET res == Message(SubSeq(stream, 1, n))
         IN  /\ res.msg \in Cells /\ res.buffer \in Cells /\ res.detail \in Cells
             /\ res.buffer \in Ids =>
                  \E k \in DOMAIN stream : stream[k] = res.buffer
<1> DEFINE read == SubSeq(stream, 1, n)
<1>1. /\ Len(read) = n
      /\ \A k \in 1 .. n : read[k] = stream[k] /\ read[k] \in Cells
  OBVIOUS
<1>2. "blank" \in Cells
  BY DEF Cells, Words
<1>3. 1 .. n \subseteq DOMAIN stream
  OBVIOUS
<1>4. CASE read[1] \in Labels
  <2>1. Message(read) = [msg    |-> read[1],
                         buffer |-> IF Len(read) >= 2 THEN read[2] ELSE "blank",
                         detail |-> IF Len(read) >= 3 THEN read[3] ELSE "blank"]
    BY <1>4 DEF Message
  <2> QED  BY <2>1, <1>1, <1>2, <1>3, IdsApart
<1>5. CASE read[1] \notin Labels
  <2>1. Message(read) = [msg |-> "blank", buffer |-> "blank", detail |-> "blank"]
    BY <1>5 DEF Message
  <2> QED  BY <2>1, <1>2, IdsApart
<1> QED  BY <1>4, <1>5

-----------------------------------------------------------------------------
(* The kernel's operations *)

\* A write by the server to c keeps the types, leaves the streams to the
\* server alone, and reopens nothing.
LEMMA ServerWriteEffect ==
  ASSUME SocketsTypeOK, NEW c \in Clients, NEW cells \in Seq(Cells),
         ServerWriteOk(c, cells) \/ ServerWriteFails(c, cells)
  PROVE  /\ down' \in [Clients -> Seq(Cells)]
         /\ cend' \in [Clients -> EndStates]
         /\ \A d \in Clients :
              cend[d] \in {"fin", "poked", "rst"} => cend'[d] \in {"fin", "poked", "rst"}
<1>1. CASE ServerWriteFails(c, cells)
  BY <1>1 DEF ServerWriteFails, SocketsTypeOK
<1>2. CASE ServerWriteOk(c, cells)
  <2>1. down' \in [Clients -> Seq(Cells)]
    <3>1. down[c] \o cells \in Seq(Cells)
      BY DEF SocketsTypeOK
    <3> QED  BY <3>1, <1>2 DEF ServerWriteOk, SocketsTypeOK
  <2>2. cend' \in [Clients -> EndStates]
    BY <1>2 DEF ServerWriteOk, SocketsTypeOK, EndStates
  <2>3. \A d \in Clients :
          cend[d] \in {"fin", "poked", "rst"} => cend'[d] \in {"fin", "poked", "rst"}
    BY <1>2 DEF ServerWriteOk, SocketsTypeOK
  <2> QED  BY <2>1, <2>2, <2>3
<1> QED  BY <1>1, <1>2

\* A client's end that closes keeps the types and closes nothing else.
LEMMA CloseEffect ==
  ASSUME SocketsTypeOK, NEW c \in Clients, NEW unread, CloseClientEnd(c, unread)
  PROVE  /\ down' \in [Clients -> Seq(Cells)]
         /\ cend' \in [Clients -> EndStates]
         /\ \A d \in Clients :
              cend[d] \in {"fin", "poked", "rst"} => cend'[d] \in {"fin", "poked", "rst"}
<1>1. PICK e \in {"fin", "rst", "poked"} : cend' = [cend EXCEPT ![c] = e]
  BY DEF CloseClientEnd
<1>2. down' \in [Clients -> Seq(Cells)]
  BY DEF CloseClientEnd, SocketsTypeOK
<1>3. e \in EndStates
  BY DEF EndStates
<1> QED  BY <1>1, <1>2, <1>3 DEF SocketsTypeOK

-----------------------------------------------------------------------------
(* The actions of a client: what they leave to the server's invariant *)

\* The end of a client's process, in the words of CloseEffect.
LEMMA TerminateEffect ==
  ASSUME TypeOK, NEW c \in Clients, NEW unread, Terminate(c, unread)
  PROVE  /\ down' \in [Clients -> Seq(Cells)]
         /\ cend' \in [Clients -> EndStates]
         /\ \A d \in Clients :
              cend[d] \in {"fin", "poked", "rst"} => cend'[d] \in {"fin", "poked", "rst"}
         /\ client' = [client EXCEPT ![c] = "exit"]
<1>0. SocketsTypeOK
  BY DEF TypeOK
<1>1. CASE CloseClientEnd(c, unread)
  BY <1>0, <1>1, CloseEffect DEF Terminate
<1>2. CASE UNCHANGED <<down, cend>>
  BY <1>0, <1>2 DEF Terminate, SocketsTypeOK
<1> QED  BY <1>1, <1>2 DEF Terminate

\* A stream that is readable stays so when nothing leaves it and its end
\* does not reopen.
LEMMA StaysReadable ==
  ASSUME SocketsTypeOK, up' \in [Clients -> Seq(Cells)], NEW d \in Clients,
         up[d] # <<>> => up'[d] # <<>>,
         cend[d] \in {"fin", "poked", "rst"} => cend'[d] \in {"fin", "poked", "rst"}
  PROVE  Readable(d) => Readable(d)'
BY DEF Readable

\* A text a client writes reaches the server, if at all, behind what was
\* there, and is recorded in asked.
LEMMA WriteTextEffect ==
  ASSUME TypeOK, UpAsked, NEW c \in Clients, NEW text \in Texts,
         NEW unread \in Seq(Cells), WriteText(c, text, unread)
  PROVE  /\ up' \in [Clients -> Seq(Cells)]
         /\ down' \in [Clients -> Seq(Cells)]
         /\ cend' \in [Clients -> EndStates]
         /\ asked' \in [Clients -> SUBSET Texts]
         /\ client' \in [Clients -> {"start", "run", "exit"}]
         /\ \A d \in Clients :
              /\ asked[d] \subseteq asked'[d]
              /\ client'[d] = "start" => client[d] = "start"
              /\ Readable(d) => Readable(d)'
         /\ UpAsked'
<1> DEFINE frame == TextFrame(text)
<1>0. SocketsTypeOK /\ ClientTypeOK
  BY DEF TypeOK
<1>1. /\ asked' \in [Clients -> SUBSET Texts]
      /\ \A d \in Clients : asked[d] \subseteq asked'[d]
      /\ text \in asked'[c]
  BY <1>0 DEF WriteText, ClientTypeOK
<1>2. frame \in Seq(Cells)
  BY FrameTypes DEF Texts, Cells
<1>3. CASE UNCHANGED up /\ Terminate(c, unread)
  <2>1. /\ down' \in [Clients -> Seq(Cells)]
        /\ cend' \in [Clients -> EndStates]
        /\ \A d \in Clients :
             cend[d] \in {"fin", "poked", "rst"} => cend'[d] \in {"fin", "poked", "rst"}
        /\ client' = [client EXCEPT ![c] = "exit"]
    BY <1>3, TerminateEffect
  <2>2. up' \in [Clients -> Seq(Cells)]
    BY <1>0, <1>3 DEF SocketsTypeOK
  <2>3. \A d \in Clients : Readable(d) => Readable(d)'
    BY <1>0, <1>3, <2>1, <2>2, StaysReadable
  <2>4. UpAsked'
    BY <1>1, <1>3 DEF UpAsked
  <2>5. /\ client' \in [Clients -> {"start", "run", "exit"}]
        /\ \A d \in Clients : client'[d] = "start" => client[d] = "start"
    BY <1>0, <2>1 DEF ClientTypeOK
  <2> QED  BY <1>1, <2>1, <2>2, <2>3, <2>4, <2>5
<1>4. CASE /\ up' = IF srv = "up" THEN [up EXCEPT ![c] = @ \o frame] ELSE up
           /\ down' = [down EXCEPT ![c] = unread]
           /\ UNCHANGED <<client, cend>>
  <2>1. up[c] \o frame \in Seq(Cells)
    BY <1>0, <1>2 DEF SocketsTypeOK
  <2>2. up' \in [Clients -> Seq(Cells)]
    BY <1>0, <1>4, <2>1 DEF SocketsTypeOK
  <2>3. /\ down' \in [Clients -> Seq(Cells)]
        /\ cend' \in [Clients -> EndStates]
        /\ client' \in [Clients -> {"start", "run", "exit"}]
        /\ \A d \in Clients : client'[d] = "start" => client[d] = "start"
    BY <1>0, <1>4 DEF SocketsTypeOK, ClientTypeOK
  <2>4. ASSUME NEW d \in Clients
        PROVE  Readable(d) => Readable(d)'
    <3>1. up[d] # <<>> => up'[d] # <<>>
      BY <1>0, <1>4, <2>1 DEF SocketsTypeOK, TextFrame
    <3> QED  BY <1>0, <1>4, <2>2, <3>1, StaysReadable
  <2>5. UpAsked'
    <3> SUFFICES ASSUME NEW d \in Clients, NEW k \in DOMAIN up'[d],
                        up'[d][k] \in Ids
                 PROVE  up'[d][k] \in asked'[d]
      BY DEF UpAsked
    <3>1. CASE up'[d] = up[d]
      BY <3>1, <1>1 DEF UpAsked
    <3>2. CASE d = c /\ up'[c] = up[c] \o frame
      <4>1. CASE k \in DOMAIN up[c] /\ up'[c][k] = up[c][k]
        BY <3>2, <4>1, <1>1 DEF UpAsked
      <4>2. CASE \E j \in DOMAIN frame : up'[c][k] = frame[j]
        <5>1. \A j \in DOMAIN frame : frame[j] \in {"buffer", text, "blank"}
          BY DEF TextFrame
        <5> QED  BY <3>2, <4>2, <5>1, <1>1, IdsApart
      <4>3. up[c] \in Seq(Cells)
        BY <1>0 DEF SocketsTypeOK
      <4> HIDE DEF frame
      <4> QED  BY <3>2, <4>1, <4>2, <4>3, <1>2, Concatenation
    <3>3. up'[d] = up[d] \/ (d = c /\ up'[c] = up[c] \o frame)
      BY <1>0, <1>4 DEF SocketsTypeOK
    <3> QED  BY <3>1, <3>2, <3>3
  <2> QED  BY <1>1, <2>2, <2>3, <2>4, <2>5
<1> QED  BY <1>3, <1>4 DEF WriteText

\* What a client's action may do to the server's invariant: nothing.
KeepsServer ==
  /\ SocketsTypeOK' /\ ClientTypeOK'
  /\ UpAsked'
  /\ srv' = srv
  /\ \A d \in Clients : /\ asked[d] \subseteq asked'[d]
                        /\ client'[d] = "start" => client[d] = "start"
                        /\ Readable(d) => Readable(d)'
  /\ \/ backlog' = backlog
     \/ \E c \in Clients : /\ client[c] = "start" /\ client'[c] # "start"
                           /\ backlog' = Append(backlog, c)

\* An action that ends the process.
LEMMA ExitKeepsServer ==
  ASSUME TypeOK, UpAsked, NEW c \in Clients, NEW unread, Terminate(c, unread),
         UNCHANGED <<srv, backlog, up, stdin, typed, arg, shown, asked>>
  PROVE  KeepsServer
<1>0. SocketsTypeOK /\ ClientTypeOK
  BY DEF TypeOK
<1>1. /\ down' \in [Clients -> Seq(Cells)]
      /\ cend' \in [Clients -> EndStates]
      /\ \A d \in Clients :
           cend[d] \in {"fin", "poked", "rst"} => cend'[d] \in {"fin", "poked", "rst"}
      /\ client' = [client EXCEPT ![c] = "exit"]
  BY TerminateEffect
<1>2. SocketsTypeOK'
  BY <1>0, <1>1 DEF SocketsTypeOK
<1>3. ClientTypeOK' /\ \A d \in Clients : client'[d] = "start" => client[d] = "start"
  BY <1>0, <1>1 DEF ClientTypeOK
<1>4. \A d \in Clients : Readable(d) => Readable(d)'
  BY <1>0, <1>1, <1>2, StaysReadable DEF SocketsTypeOK
<1>5. UpAsked'
  BY DEF UpAsked
<1> QED  BY <1>2, <1>3, <1>4, <1>5 DEF KeepsServer

\* An action that writes one text, and leaves arg, stdin, typed and shown
\* with their types.
LEMMA WriteKeepsServer ==
  ASSUME TypeOK, UpAsked, NEW c \in Clients, NEW text \in Texts,
         NEW unread \in Seq(Cells), WriteText(c, text, unread),
         UNCHANGED <<srv, backlog, arg>>,
         stdin' \in [Clients -> BOOLEAN],
         typed' \in [Clients -> 0 .. MaxTyped],
         shown' \in [Clients -> Seq(Cells)]
  PROVE  KeepsServer
<1>0. SocketsTypeOK /\ ClientTypeOK
  BY DEF TypeOK
<1>1. /\ up' \in [Clients -> Seq(Cells)]
      /\ down' \in [Clients -> Seq(Cells)]
      /\ cend' \in [Clients -> EndStates]
      /\ asked' \in [Clients -> SUBSET Texts]
      /\ client' \in [Clients -> {"start", "run", "exit"}]
      /\ \A d \in Clients :
           /\ asked[d] \subseteq asked'[d]
           /\ client'[d] = "start" => client[d] = "start"
           /\ Readable(d) => Readable(d)'
      /\ UpAsked'
  BY WriteTextEffect
<1>2. SocketsTypeOK'
  BY <1>0, <1>1 DEF SocketsTypeOK
<1>3. ClientTypeOK'
  BY <1>0, <1>1 DEF ClientTypeOK
<1> QED  BY <1>1, <1>2, <1>3 DEF KeepsServer

\* A client connects and sends its id.
LEMMA ConnectKeepsServer ==
  ASSUME TypeOK, UpAsked, NEW c \in Clients, Connect(c)
  PROVE  KeepsServer
<1>0. SocketsTypeOK /\ ClientTypeOK
  BY DEF TypeOK
<1>1. arg[c] \in Ids /\ arg[c] \in Cells /\ arg[c] \in Texts
  BY <1>0, ClientAssumption DEF ClientTypeOK, ClientAssumption, Cells, Texts
<1>2. TextFrame(arg[c]) \in Seq(Cells)
  BY <1>1, FrameTypes
<1>3. Append(backlog, c) \in Seq(Clients)
  BY <1>0 DEF SocketsTypeOK
<1>4. SocketsTypeOK'
  BY <1>0, <1>2, <1>3 DEF Connect, SocketsTypeOK, EndStates
<1>5. /\ ClientTypeOK'
      /\ arg[c] \in asked'[c]
      /\ \A d \in Clients : /\ asked[d] \subseteq asked'[d]
                            /\ client'[d] = "start" => client[d] = "start"
      /\ client[c] = "start" /\ client'[c] # "start"
  BY <1>0, <1>1 DEF Connect, ClientTypeOK
<1>6. UpAsked'
  <2> SUFFICES ASSUME NEW d \in Clients, NEW k \in DOMAIN up'[d], up'[d][k] \in Ids
               PROVE  up'[d][k] \in asked'[d]
    BY DEF UpAsked
  <2>1. CASE d = c
    <3>1. up'[c] = TextFrame(arg[c])
      BY <1>0 DEF Connect, SocketsTypeOK
    <3>2. \A j \in DOMAIN TextFrame(arg[c]) :
            TextFrame(arg[c])[j] \in {"buffer", arg[c], "blank"}
      BY DEF TextFrame
    <3> QED  BY <2>1, <3>1, <3>2, <1>5, IdsApart
  <2>2. CASE d # c
    BY <2>2, <1>0, <1>5 DEF Connect, SocketsTypeOK, UpAsked
  <2> QED  BY <2>1, <2>2
<1>7. ASSUME NEW d \in Clients
      PROVE  Readable(d) => Readable(d)'
  BY <1>0 DEF Connect, SocketsTypeOK, Readable, TextFrame
<1> QED  BY <1>4, <1>5, <1>6, <1>7 DEF Connect, KeepsServer

\* A struct that arrives is shown with the type of a cell; its end is what
\* the client goes on with.
LEMMA SockMessageKeepsServer ==
  ASSUME TypeOK, UpAsked, NEW c \in Clients, SockMessage(c)
  PROVE  KeepsServer
<1>0. SocketsTypeOK /\ ClientTypeOK
  BY DEF TypeOK
<1>1. down[c] \in Seq(Cells)
  BY <1>0 DEF SocketsTypeOK
<1> DEFINE res(n)     == Message(SubSeq(down[c], 1, n))
           unread(n)  == Rest(down[c], n)
           refused(n) == res(n).msg = "buffer" /\ res(n).buffer = "not_found"
<1>2. PICK n \in ReadSizes(down[c]) :
        \/ /\ refused(n)
           /\ Terminate(c, unread(n))
           /\ UNCHANGED <<up, shown, asked>>
        \/ /\ res(n).msg = "detail"
           /\ shown' = [shown EXCEPT ![c] = Append(@, res(n).detail)]
           /\ WriteText(c, "thank_you", unread(n))
        \/ /\ res(n).msg # "detail" /\ ~ refused(n)
           /\ down' = [down EXCEPT ![c] = unread(n)]
           /\ UNCHANGED <<client, up, cend, shown, asked>>
  BY DEF SockMessage
<1>3. UNCHANGED <<srv, backlog, stdin, typed, arg>>
  BY DEF SockMessage
<1>4. n \in 1 .. Len(down[c])
  BY <1>1, ReadSizesType
<1>5. unread(n) \in Seq(Cells)
  BY <1>1, <1>4, RestOfStream
<1>6. res(n).detail \in Cells
  BY <1>1, <1>4, MessageFromStream
<1> HIDE DEF res, unread, refused
<1>7. CASE Terminate(c, unread(n)) /\ UNCHANGED <<up, shown, asked>>
  BY <1>3, <1>7, ExitKeepsServer
<1>8. CASE /\ shown' = [shown EXCEPT ![c] = Append(@, res(n).detail)]
           /\ WriteText(c, "thank_you", unread(n))
  <2>1. shown' \in [Clients -> Seq(Cells)]
    BY <1>0, <1>6, <1>8 DEF ClientTypeOK
  <2>2. /\ stdin' \in [Clients -> BOOLEAN]
        /\ typed' \in [Clients -> 0 .. MaxTyped]
    BY <1>0, <1>3 DEF ClientTypeOK
  <2>3. "thank_you" \in Texts
    BY DEF Texts, Words
  <2> QED  BY <1>3, <1>5, <1>8, <2>1, <2>2, <2>3, WriteKeepsServer
<1>9. CASE /\ down' = [down EXCEPT ![c] = unread(n)]
           /\ UNCHANGED <<client, up, cend, shown, asked>>
  <2>1. SocketsTypeOK'
    BY <1>0, <1>3, <1>5, <1>9 DEF SocketsTypeOK
  <2>2. ClientTypeOK'
    BY <1>0, <1>3, <1>9 DEF ClientTypeOK
  <2> QED  BY <1>3, <1>9, <2>1, <2>2 DEF KeepsServer, UpAsked, Readable
<1> QED  BY <1>2, <1>7, <1>8, <1>9

\* A client sees the end of its connection, and closes its own.
LEMMA SockEndKeepsServer ==
  ASSUME TypeOK, UpAsked, NEW c \in Clients, SockEnd(c)
  PROVE  KeepsServer
<1>0. SocketsTypeOK /\ ClientTypeOK
  BY DEF TypeOK
<1>1. /\ CloseClientEnd(c, <<>>)
      /\ UNCHANGED <<srv, backlog, up, client, stdin, typed, arg, shown, asked>>
  BY DEF SockEnd
<1>2. /\ down' \in [Clients -> Seq(Cells)]
      /\ cend' \in [Clients -> EndStates]
      /\ \A d \in Clients :
           cend[d] \in {"fin", "poked", "rst"} => cend'[d] \in {"fin", "poked", "rst"}
  BY <1>0, <1>1, CloseEffect
<1>3. SocketsTypeOK' /\ ClientTypeOK'
  BY <1>0, <1>1, <1>2 DEF SocketsTypeOK, ClientTypeOK
<1>4. \A d \in Clients : Readable(d) => Readable(d)'
  BY <1>0, <1>1, <1>2, <1>3, StaysReadable DEF SocketsTypeOK
<1> QED  BY <1>1, <1>3, <1>4 DEF KeepsServer, UpAsked

\* Whatever a client does, it leaves the server's part of the invariant.
LEMMA ClientKeepsServer ==
  ASSUME TypeOK, UpAsked, NEW c \in Clients, ClientNext(c)
  PROVE  KeepsServer
<1>0. SocketsTypeOK /\ ClientTypeOK
  BY DEF TypeOK
<1>d. down[c] \in Seq(Cells)
  BY <1>0 DEF SocketsTypeOK
<1>1. CASE Connect(c)
  BY <1>1, ConnectKeepsServer
<1>2. CASE ConnectError(c)
  <2>1. SocketsTypeOK' /\ ClientTypeOK'
    BY <1>0, <1>2 DEF ConnectError, sockVars, SocketsTypeOK, ClientTypeOK
  <2>2. \A d \in Clients : client'[d] = "start" => client[d] = "start"
    BY <1>0, <1>2 DEF ConnectError, ClientTypeOK
  <2> QED  BY <1>2, <2>1, <2>2
             DEF ConnectError, sockVars, KeepsServer, UpAsked, Readable
<1>3. CASE StdinLine(c)
  <2>1. PICK text \in Typed : WriteText(c, text, down[c])
    BY <1>3 DEF StdinLine
  <2>2. text \in Texts
    BY ClientAssumption DEF ClientAssumption, Texts
  <2>3. /\ typed' \in [Clients -> 0 .. MaxTyped]
        /\ stdin' \in [Clients -> BOOLEAN]
        /\ shown' \in [Clients -> Seq(Cells)]
        /\ UNCHANGED <<srv, backlog, arg>>
    BY <1>0, <1>3, ClientAssumption DEF StdinLine, ClientTypeOK, ClientAssumption
  <2> QED  BY <1>d, <2>1, <2>2, <2>3, WriteKeepsServer
<1>4. CASE StdinQuit(c)
  BY <1>4, ExitKeepsServer DEF StdinQuit
<1>5. CASE StdinEOF(c)
  <2>1. /\ typed' \in [Clients -> 0 .. MaxTyped]
        /\ stdin' \in [Clients -> BOOLEAN]
        /\ shown' \in [Clients -> Seq(Cells)]
        /\ UNCHANGED <<srv, backlog, arg>>
        /\ WriteText(c, "blank", down[c])
    BY <1>0, <1>5 DEF StdinEOF, ClientTypeOK
  <2>2. "blank" \in Texts
    BY DEF Texts, Words
  <2> QED  BY <1>d, <2>1, <2>2, WriteKeepsServer
<1>6. CASE SelectError(c)
  BY <1>6, ExitKeepsServer DEF SelectError
<1>7. CASE SockMessage(c)
  BY <1>7, SockMessageKeepsServer
<1>8. CASE SockEnd(c)
  BY <1>8, SockEndKeepsServer
<1>9. CASE Killed(c)
  BY <1>9, ExitKeepsServer DEF Killed
<1> QED  BY <1>1, <1>2, <1>3, <1>4, <1>5, <1>6, <1>7, <1>8, <1>9 DEF ClientNext

\* A client's action preserves the invariant.
LEMMA ClientStep ==
  ASSUME IInv, NEW c \in Clients, Client(c)
  PROVE  IInv'
<1>0. TypeOK /\ SocketsTypeOK /\ ServerTypeOK /\ ClientTypeOK
  BY DEF IInv, TypeOK
<1>1. KeepsServer /\ UNCHANGED serverVars
  BY <1>0, ClientKeepsServer DEF IInv, Client
<1>2. TypeOK'
  BY <1>0, <1>1 DEF KeepsServer, TypeOK, ServerTypeOK, serverVars
<1>3. /\ ReadyOpen' /\ MasterBelowMax' /\ SessionsWatched'
      /\ NoAcceptAfterError' /\ OneSessionPerFd' /\ EveryConnectionWatched'
  BY <1>1 DEF IInv, KeepsServer, serverVars, ReadyOpen, MasterBelowMax,
       SessionsWatched, NoAcceptAfterError, OneSessionPerFd,
       EveryConnectionWatched, OpenFds
<1>4. UpAsked'
  BY <1>1 DEF KeepsServer
<1>5. SessionOwner'
  <2> SUFFICES ASSUME NEW b \in serverStore, sock[sess[b].fd] # NoClient
               PROVE  sess[b].clientId \in asked'[sock[sess[b].fd]]
    BY <1>1 DEF serverVars, SessionOwner
  <2>1. sess[b].fd \in Fds
    BY DEF IInv, SessionsWatched
  <2>2. sock[sess[b].fd] \in Clients
    BY <1>0, <2>1 DEF ServerTypeOK
  <2> QED  BY <1>1, <2>2 DEF IInv, SessionOwner, KeepsServer
<1>6. OneConnection'
  <2>1. CASE backlog' = backlog
    BY <1>1, <2>1 DEF IInv, OneConnection, KeepsServer, serverVars, OpenFds
  <2>2. ASSUME NEW d \in Clients, client[d] = "start", client'[d] # "start",
               backlog' = Append(backlog, d)
        PROVE  OneConnection'
    <3>1. /\ backlog \in Seq(Clients)
          /\ \A k \in DOMAIN backlog : backlog[k] # d
          /\ \A f \in Fds : sock[f] # d
      BY <1>0, <2>2 DEF SocketsTypeOK, IInv, OneConnection
    <3>2. /\ \A k \in DOMAIN backlog : k \in DOMAIN backlog' /\ backlog'[k] = backlog[k]
          /\ \A k \in DOMAIN backlog' :
               k \in DOMAIN backlog \/ (k = Len(backlog) + 1 /\ backlog'[k] = d)
      BY <2>2, <3>1
    <3>3. \A j, k \in DOMAIN backlog' : backlog'[j] = backlog'[k] => j = k
      BY <3>1, <3>2 DEF IInv, OneConnection
    <3>4. \A k \in DOMAIN backlog' : \A f \in Fds : sock'[f] # backlog'[k]
      BY <1>1, <3>1, <3>2 DEF IInv, OneConnection, serverVars
    <3>5. \A f, g \in OpenFds' : sock'[f] = sock'[g] => f = g
      BY <1>1 DEF IInv, OneConnection, serverVars, OpenFds
    <3>6. \A e \in Clients : client'[e] = "start" =>
            /\ \A k \in DOMAIN backlog' : backlog'[k] # e
            /\ \A f \in Fds : sock'[f] # e
      BY <1>1, <2>2, <3>2 DEF IInv, OneConnection, serverVars, KeepsServer
    <3> QED  BY <3>3, <3>4, <3>5, <3>6 DEF OneConnection
  <2> QED  BY <1>1, <2>1, <2>2 DEF KeepsServer
<1>7. VisitsNeverBlock'
  <2> SUFFICES ASSUME srv = "up", NEW f \in readFDs, f # ListenFD \/ backlog' = <<>>
               PROVE  f \in OpenFds /\ Readable(sock[f])'
    BY <1>1 DEF VisitsNeverBlock, KeepsServer, serverVars, OpenFds, Readable
  <2>1. (f = ListenFD /\ backlog # <<>>) \/ (f \in OpenFds /\ Readable(sock[f]))
    BY DEF IInv, VisitsNeverBlock
  <2>2. backlog # <<>> => backlog' # <<>>
    BY <1>0, <1>1 DEF KeepsServer, SocketsTypeOK
  <2>3. f \in OpenFds => sock[f] \in Clients
    BY <1>0 DEF OpenFds, ServerTypeOK
  <2>4. UNCHANGED sock
    BY <1>1 DEF serverVars
  <2> QED  BY <1>1, <2>1, <2>2, <2>3, <2>4 DEF KeepsServer
<1> QED  BY <1>2, <1>3, <1>4, <1>5, <1>6, <1>7 DEF IInv

-----------------------------------------------------------------------------
(* The actions of the server *)

\* The listening descriptor is below every other, and no Fds member is it.
LEMMA FdsAbove == \A f \in Fds : f \in Nat /\ f > ListenFD /\ f # ListenFD
BY ServerAssumption DEF ServerAssumption, Fds

\* select: what is ready stays ready until it is visited.
LEMMA SelectStep ==
  ASSUME IInv, Select, UNCHANGED clientVars
  PROVE  IInv'
<1>0. TypeOK /\ SocketsTypeOK /\ ServerTypeOK /\ ClientTypeOK
  BY DEF IInv, TypeOK
<1>1. UNCHANGED <<backlog, up, down, cend, masterFDs, fdMax, sock,
                  serverStore, sess, clientData, sent>>
  BY DEF Select
<1>2. \/ srv' = "exited" /\ readFDs' = readFDs
      \/ srv' = srv /\ readFDs' = ReadyFds /\ BadFds = {}
  BY DEF Select
<1>3. ReadyFds \subseteq masterFDs /\ OpenFds' = OpenFds
  BY <1>1 DEF ReadyFds, OpenFds
<1>4. TypeOK'
  BY <1>0, <1>1, <1>2, <1>3
     DEF SocketsTypeOK, ServerTypeOK, ClientTypeOK, TypeOK, clientVars
<1>5. ReadyOpen'
  BY <1>0, <1>1, <1>2, <1>3, FdsAbove DEF IInv, ReadyOpen, ReadyFds, ServerTypeOK
<1>6. /\ MasterBelowMax' /\ SessionsWatched' /\ UpAsked' /\ OneSessionPerFd'
      /\ SessionOwner'
  BY <1>1 DEF IInv, MasterBelowMax, SessionsWatched, UpAsked, OneSessionPerFd,
       SessionOwner, clientVars
<1>7. EveryConnectionWatched'
  BY <1>1, <1>3 DEF IInv, EveryConnectionWatched, Select
<1>8. NoAcceptAfterError'
  BY <1>1, <1>2, <1>3 DEF IInv, NoAcceptAfterError, BadFds, MasterBelowMax
<1>9. OneConnection'
  BY <1>1, <1>3 DEF IInv, OneConnection, clientVars
<1>10. VisitsNeverBlock'
  BY <1>1, <1>2, <1>3 DEF VisitsNeverBlock, ReadyFds, Readable
<1> QED  BY <1>4, <1>5, <1>6, <1>7, <1>8, <1>9, <1>10 DEF IInv

\* A new connection gets a descriptor that no session is left on.
LEMMA AcceptStep ==
  ASSUME IInv, AcceptClient, UNCHANGED clientVars
  PROVE  IInv'
<1>0. TypeOK /\ SocketsTypeOK /\ ServerTypeOK /\ ClientTypeOK
  BY DEF IInv, TypeOK
<1>1. /\ srv = "up" /\ ListenFD \in readFDs /\ readFDs' = readFDs \ {ListenFD}
      /\ UNCHANGED <<up, down, cend, serverStore, sess, clientData, sent>>
  BY DEF AcceptClient, Turn
<1>2. CASE srv' = "exited" /\ UNCHANGED <<backlog, masterFDs, fdMax, sock>>
  <2>1. TypeOK'
    BY <1>0, <1>1, <1>2
       DEF SocketsTypeOK, ServerTypeOK, ClientTypeOK, TypeOK, clientVars
  <2>2. OpenFds' = OpenFds
    BY <1>2 DEF OpenFds
  <2>3. ReadyOpen'
    BY <1>1, <1>2, <2>2 DEF IInv, ReadyOpen
  <2>4. /\ MasterBelowMax' /\ SessionsWatched' /\ UpAsked' /\ OneSessionPerFd'
        /\ SessionOwner'
    BY <1>1, <1>2 DEF IInv, MasterBelowMax, SessionsWatched, UpAsked,
         OneSessionPerFd, SessionOwner, clientVars
  <2>5. EveryConnectionWatched' /\ NoAcceptAfterError' /\ VisitsNeverBlock'
    BY <1>2 DEF EveryConnectionWatched, NoAcceptAfterError, VisitsNeverBlock
  <2>6. OneConnection'
    BY <1>2, <2>2 DEF IInv, OneConnection, clientVars
  <2> QED  BY <2>1, <2>3, <2>4, <2>5, <2>6 DEF IInv
<1>3. ASSUME NEW newFD \in Fds \ OpenFds,
             sock' = [sock EXCEPT ![newFD] = Head(backlog)],
             backlog' = Tail(backlog),
             masterFDs' = masterFDs \cup {newFD},
             fdMax' = (IF newFD > fdMax THEN newFD ELSE fdMax),
             srv' = srv
      PROVE  IInv'
  <2>1. backlog # <<>>
    BY <1>0, <1>1, FdsAbove DEF IInv, VisitsNeverBlock, OpenFds
  <2>2. /\ Head(backlog) \in Clients
        /\ Head(backlog) = backlog[1] /\ 1 \in DOMAIN backlog
        /\ Tail(backlog) \in Seq(Clients)
        /\ \A k \in DOMAIN Tail(backlog) :
             /\ k + 1 \in DOMAIN backlog /\ k + 1 # 1 /\ k \in Nat
             /\ Tail(backlog)[k] = backlog[k + 1]
    BY <1>0, <2>1 DEF SocketsTypeOK
  <2>3. OpenFds' = OpenFds \cup {newFD}
    BY <1>0, <1>3, <2>2, ServerAssumption DEF OpenFds, ServerTypeOK, ServerAssumption
  <2>4. /\ fdMax \in Nat /\ fdMax' \in Nat /\ fdMax <= fdMax' /\ newFD <= fdMax'
        /\ masterFDs \subseteq Nat
    BY <1>0, <1>3, FdsAbove, ServerAssumption DEF ServerTypeOK, ServerAssumption
  <2>5. TypeOK'
    BY <1>0, <1>1, <1>3, <2>2
       DEF SocketsTypeOK, ServerTypeOK, ClientTypeOK, TypeOK, clientVars
  <2>6. ReadyOpen'
    BY <1>1, <1>3, <2>3 DEF IInv, ReadyOpen
  <2>7. MasterBelowMax'
    BY <1>3, <2>4 DEF IInv, MasterBelowMax
  <2>8. SessionsWatched'
    BY <1>1, <1>3 DEF IInv, SessionsWatched
  <2>9. NoAcceptAfterError' /\ UpAsked' /\ OneSessionPerFd'
    BY <1>1 DEF IInv, NoAcceptAfterError, UpAsked, OneSessionPerFd, clientVars
  <2>10. \A b \in serverStore : sess[b].fd \in Fds /\ sess[b].fd # newFD
    BY <1>1 DEF IInv, NoAcceptAfterError, SessionsWatched
  <2>11. SessionOwner'
    <3> SUFFICES ASSUME NEW b \in serverStore, sock'[sess[b].fd] # NoClient
                 PROVE  sess[b].clientId \in asked[sock'[sess[b].fd]]
      BY <1>1 DEF SessionOwner, clientVars
    <3>1. sock'[sess[b].fd] = sock[sess[b].fd]
      BY <1>0, <1>3, <2>10 DEF ServerTypeOK
    <3> QED  BY <3>1 DEF IInv, SessionOwner
  <2>12. EveryConnectionWatched'
    <3>1. \A f \in OpenFds : f \in masterFDs /\ f <= fdMax
      BY <1>1 DEF IInv, EveryConnectionWatched
    <3>2. \A f \in masterFDs : f <= fdMax => f <= fdMax'
      BY <2>4
    <3>3. \A f \in OpenFds : f \in masterFDs' /\ f <= fdMax'
      BY <1>3, <3>1, <3>2
    <3>4. newFD \in masterFDs' /\ newFD <= fdMax'
      BY <1>3, <2>4
    <3> QED  BY <2>3, <3>3, <3>4 DEF EveryConnectionWatched
  <2>13. \A f \in Fds : sock'[f] = IF f = newFD THEN backlog[1] ELSE sock[f]
    BY <1>0, <1>3, <2>2 DEF ServerTypeOK
  <2>14. OneConnection'
    <3>1. \A j, k \in DOMAIN backlog' : backlog'[j] = backlog'[k] => j = k
      BY <1>3, <2>2 DEF IInv, OneConnection
    <3>2. \A k \in DOMAIN backlog' : \A f \in Fds : sock'[f] # backlog'[k]
      BY <1>3, <2>2, <2>13 DEF IInv, OneConnection
    <3>3. \A f, g \in OpenFds' : sock'[f] = sock'[g] => f = g
      BY <2>2, <2>3, <2>13 DEF IInv, OneConnection, OpenFds
    <3>4. \A c \in Clients : client'[c] = "start" =>
            /\ \A k \in DOMAIN backlog' : backlog'[k] # c
            /\ \A f \in Fds : sock'[f] # c
      BY <1>3, <2>2, <2>13 DEF IInv, OneConnection, clientVars
    <3> QED  BY <3>1, <3>2, <3>3, <3>4 DEF OneConnection
  <2>15. VisitsNeverBlock'
    <3> SUFFICES ASSUME NEW f \in readFDs, f # ListenFD
                 PROVE  f \in OpenFds' /\ Readable(sock[f])' /\ sock'[f] = sock[f]
      BY <1>1 DEF VisitsNeverBlock, Readable
    <3>1. f \in OpenFds /\ Readable(sock[f])
      BY <1>1 DEF IInv, VisitsNeverBlock
    <3>2. sock'[f] = sock[f]
      BY <1>3, <2>13, <3>1 DEF OpenFds
    <3> QED  BY <1>1, <2>3, <3>1, <3>2 DEF Readable
  <2> QED
    BY <2>5, <2>6, <2>7, <2>8, <2>9, <2>11, <2>12, <2>14, <2>15 DEF IInv
<1> QED  BY <1>2, <1>3 DEF AcceptClient

\* A visit to a descriptor of a client finds it open, watched and the lowest
\* that is left: the listening one has had its turn.
LEMMA VisitedIsOpen ==
  ASSUME IInv, NEW i \in Fds, Turn(i)
  PROVE  /\ srv = "up" /\ i \in readFDs /\ readFDs' = readFDs \ {i}
         /\ i \in OpenFds /\ i \in masterFDs /\ i # ListenFD
         /\ sock[i] \in Clients /\ Readable(sock[i])
         /\ ListenFD \notin readFDs
<1>1. srv = "up" /\ i \in readFDs /\ readFDs' = readFDs \ {i}
  BY DEF Turn
<1>2. i \in OpenFds /\ i \in masterFDs /\ i # ListenFD
  BY <1>1, FdsAbove DEF IInv, ReadyOpen
<1>3. sock[i] \in Clients /\ Readable(sock[i])
  BY <1>1, <1>2 DEF IInv, VisitsNeverBlock, TypeOK, ServerTypeOK, OpenFds
<1>4. ListenFD \notin readFDs
  BY FdsAbove, ServerAssumption DEF Turn, ServerAssumption
<1> QED  BY <1>1, <1>2, <1>3, <1>4

\* Closing the descriptor that is visited leaves the rest of the pass, and
\* the other connections, as they were.
LEMMA CloseKeeps ==
  ASSUME IInv, NEW i \in Fds, Turn(i), sock' = [sock EXCEPT ![i] = NoClient],
         UNCHANGED <<backlog, up, cend>>, UNCHANGED clientVars
  PROVE  /\ OpenFds' = OpenFds \ {i}
         /\ \A f \in Fds : sock'[f] = IF f = i THEN NoClient ELSE sock[f]
         /\ OneConnection' /\ VisitsNeverBlock'
<1>0. /\ srv = "up" /\ readFDs' = readFDs \ {i} /\ ServerTypeOK /\ SocketsTypeOK
      /\ ListenFD \notin readFDs
  BY VisitedIsOpen DEF IInv, TypeOK
<1>1. \A f \in Fds : sock'[f] = IF f = i THEN NoClient ELSE sock[f]
  BY <1>0 DEF ServerTypeOK
<1>2. OpenFds' = OpenFds \ {i}
  BY <1>1 DEF OpenFds
<1>3. OneConnection'
  <2>1. \A k \in DOMAIN backlog : backlog[k] # NoClient
    BY <1>0, ServerAssumption DEF SocketsTypeOK, ServerAssumption
  <2>2. \A c \in Clients : c # NoClient
    BY ServerAssumption DEF ServerAssumption
  <2>3. \A f, g \in OpenFds' : sock'[f] = sock'[g] => f = g
    BY <1>1, <1>2 DEF IInv, OneConnection, OpenFds
  <2> QED  BY <1>1, <2>1, <2>2, <2>3 DEF IInv, OneConnection, clientVars
<1>4. VisitsNeverBlock'
  <2> SUFFICES ASSUME NEW f \in readFDs, f # i
               PROVE  f \in OpenFds' /\ Readable(sock[f])' /\ sock'[f] = sock[f]
    BY <1>0 DEF VisitsNeverBlock, Readable
  <2>1. f \in OpenFds /\ Readable(sock[f])
    BY <1>0 DEF IInv, VisitsNeverBlock
  <2>2. sock'[f] = sock[f]
    BY <1>1, <2>1 DEF OpenFds
  <2> QED  BY <1>2, <2>1, <2>2 DEF Readable
<1> QED  BY <1>1, <1>2, <1>3, <1>4

\* Parts of the invariant after a descriptor was closed.
LEMMA HangUpStep ==
  ASSUME IInv, NEW i \in Fds, HangUp(i), UNCHANGED clientVars
  PROVE  IInv'
<1>0. TypeOK /\ SocketsTypeOK /\ ServerTypeOK /\ ClientTypeOK
  BY DEF IInv, TypeOK
<1>t. Turn(i)
  BY DEF HangUp, ReadCloses
<1>1. /\ srv = "up" /\ i \in readFDs /\ readFDs' = readFDs \ {i}
      /\ ListenFD \notin readFDs
  BY <1>t, VisitedIsOpen
<1>2. /\ sock' = [sock EXCEPT ![i] = NoClient]
      /\ masterFDs' = masterFDs \ {i}
      /\ UNCHANGED <<srv, backlog, up, down, cend, fdMax, sess, clientData, sent>>
  BY DEF HangUp, ReadCloses
<1>3. /\ OpenFds' = OpenFds \ {i}
      /\ \A f \in Fds : sock'[f] = IF f = i THEN NoClient ELSE sock[f]
      /\ OneConnection' /\ VisitsNeverBlock'
  BY <1>t, <1>2, CloseKeeps
<1>4. serverStore' \subseteq serverStore
  BY DEF HangUp, ReadCloses, ss_delete
<1>5. \A b \in serverStore' : sess[b].fd # i
  BY DEF HangUp, ReadCloses, ss_delete, ss_search, IInv, OneSessionPerFd
<1>6. TypeOK'
  <2>1. sock' \in [Fds -> Clients \cup {NoClient}]
    BY <1>0, <1>2 DEF ServerTypeOK
  <2> QED
    BY <1>0, <1>1, <1>2, <1>4, <2>1
       DEF SocketsTypeOK, ServerTypeOK, ClientTypeOK, TypeOK, clientVars
<1>7. ReadyOpen'
  BY <1>1, <1>2, <1>3 DEF IInv, ReadyOpen
<1>8. MasterBelowMax' /\ UpAsked' /\ NoAcceptAfterError'
  BY <1>1, <1>2 DEF IInv, MasterBelowMax, UpAsked, NoAcceptAfterError, clientVars
<1>9. SessionsWatched' /\ OneSessionPerFd'
  BY <1>2, <1>4, <1>5 DEF IInv, SessionsWatched, OneSessionPerFd
<1>10. SessionOwner'
  <2> SUFFICES ASSUME NEW b \in serverStore', sock'[sess[b].fd] # NoClient
               PROVE  sess[b].clientId \in asked[sock'[sess[b].fd]]
    BY <1>2 DEF SessionOwner, clientVars
  <2>1. sock'[sess[b].fd] = sock[sess[b].fd]
    BY <1>3, <1>4, <1>5 DEF IInv, SessionsWatched
  <2> QED  BY <1>4, <2>1 DEF IInv, SessionOwner
<1>11. EveryConnectionWatched'
  BY <1>2, <1>3 DEF IInv, EveryConnectionWatched
<1> QED  BY <1>3, <1>6, <1>7, <1>8, <1>9, <1>10, <1>11 DEF IInv

\* The closed descriptor that stays in masterFDs is a danger only to what is
\* accepted later, and nothing is.
LEMMA ReadErrorStep ==
  ASSUME IInv, NEW i \in Fds, ReadError(i), UNCHANGED clientVars
  PROVE  IInv'
<1>0. TypeOK /\ SocketsTypeOK /\ ServerTypeOK /\ ClientTypeOK
  BY DEF IInv, TypeOK
<1>t. Turn(i)
  BY DEF ReadError, ReadCloses
<1>1. /\ srv = "up" /\ i \in readFDs /\ readFDs' = readFDs \ {i}
      /\ ListenFD \notin readFDs
  BY <1>t, VisitedIsOpen
<1>2. /\ sock' = [sock EXCEPT ![i] = NoClient]
      /\ UNCHANGED <<backlog, up, down, cend, masterFDs, fdMax, serverStore,
                     sess, sent>>
  BY DEF ReadError, ReadCloses
<1>3. /\ OpenFds' = OpenFds \ {i}
      /\ \A f \in Fds : sock'[f] = IF f = i THEN NoClient ELSE sock[f]
      /\ OneConnection' /\ VisitsNeverBlock'
  BY <1>t, <1>2, CloseKeeps
<1>4. srv' \in {"up", "exited"} /\ clientData' \in Blocks
  BY <1>0, <1>1 DEF ReadError, ReadCloses, ss_search, ServerTypeOK
<1>5. TypeOK'
  <2>1. sock' \in [Fds -> Clients \cup {NoClient}]
    BY <1>0, <1>2 DEF ServerTypeOK
  <2> QED
    BY <1>0, <1>1, <1>2, <1>4, <2>1
       DEF SocketsTypeOK, ServerTypeOK, ClientTypeOK, TypeOK, clientVars
<1>6. ReadyOpen'
  BY <1>1, <1>2, <1>3 DEF IInv, ReadyOpen
<1>7. /\ MasterBelowMax' /\ UpAsked' /\ NoAcceptAfterError'
      /\ SessionsWatched' /\ OneSessionPerFd'
  BY <1>1, <1>2 DEF IInv, MasterBelowMax, UpAsked, NoAcceptAfterError,
       SessionsWatched, OneSessionPerFd, clientVars
<1>8. SessionOwner'
  <2> SUFFICES ASSUME NEW b \in serverStore, sock'[sess[b].fd] # NoClient
               PROVE  sess[b].clientId \in asked[sock'[sess[b].fd]]
    BY <1>2 DEF SessionOwner, clientVars
  <2>1. sock'[sess[b].fd] = sock[sess[b].fd]
    BY <1>3 DEF IInv, SessionsWatched
  <2> QED  BY <2>1 DEF IInv, SessionOwner
<1>9. EveryConnectionWatched'
  BY <1>1, <1>2, <1>3 DEF IInv, EveryConnectionWatched
<1> QED  BY <1>3, <1>5, <1>6, <1>7, <1>8, <1>9 DEF IInv

\* The flags move, the rest of a session does not.
LEMMA FlaggedKeeps ==
  ASSUME NEW s \in Session, NEW res
  PROVE  /\ Flagged(s, res) \in Session
         /\ [Flagged(s, res) EXCEPT !.s_flag = 0] \in Session
         /\ Flagged(s, res).fd = s.fd /\ Flagged(s, res).clientId = s.clientId
BY DEF Flagged, Session

\* Whatever the answer is, the session that was used keeps its descriptor
\* and its id.
LEMMA RespondEffect ==
  ASSUME TypeOK, NEW c \in Clients, NEW b \in Blocks, NEW s \in Session,
         NEW answer \in Seq(Cells), NEW res, srv = "up",
         Respond(c, b, s, answer, res)
  PROVE  /\ down' \in [Clients -> Seq(Cells)]
         /\ cend' \in [Clients -> EndStates]
         /\ \A d \in Clients :
              cend[d] \in {"fin", "poked", "rst"} => cend'[d] \in {"fin", "poked", "rst"}
         /\ srv' \in {"up", "exited", "segv"}
         /\ sent' \in [Clients -> Seq(Ids)]
         /\ clientData' \in Blocks
         /\ \E r \in Session : /\ r.fd = s.fd /\ r.clientId = s.clientId
                               /\ sess' = [sess EXCEPT ![b] = r]
<1> DEFINE f      == Flagged(s, res)
           detail == answer \o DetailFrame(f.data)
<1>0. SocketsTypeOK /\ ServerTypeOK
  BY DEF TypeOK
<1>1. /\ f \in Session
      /\ [f EXCEPT !.s_flag = 0] \in Session
      /\ f.fd = s.fd /\ f.clientId = s.clientId
      /\ [f EXCEPT !.s_flag = 0].fd = s.fd
      /\ [f EXCEPT !.s_flag = 0].clientId = s.clientId
  BY FlaggedKeeps DEF Session
<1>2. f.data \in Ids => detail \in Seq(Cells)
  <2>1. f.data \in Ids => DetailFrame(f.data) \in Seq(Cells)
    BY FrameTypes
  <2> HIDE DEF f
  <2> QED  BY <2>1
<1>3. clientData' \in Blocks
  BY DEF Respond
<1> DEFINE Wrote(cells) == ServerWriteOk(c, cells) \/ ServerWriteFails(c, cells)
<1>4. PICK cells \in {answer, detail} :
        /\ Wrote(cells)
        /\ cells = detail => f.data \in Ids \/ detail = answer
  BY DEF Respond
<1>5. cells \in Seq(Cells)
  BY <1>2, <1>4
<1>6. /\ down' \in [Clients -> Seq(Cells)]
      /\ cend' \in [Clients -> EndStates]
      /\ \A d \in Clients :
           cend[d] \in {"fin", "poked", "rst"} => cend'[d] \in {"fin", "poked", "rst"}
  BY <1>0, <1>4, <1>5, ServerWriteEffect
<1>7. srv' \in {"up", "exited", "segv"}
  BY DEF Respond
<1>8. sent' \in [Clients -> Seq(Ids)]
  <2>1. sent' = sent \/ (f.data \in Ids /\ sent' = [sent EXCEPT ![c] = Append(@, f.data)])
    BY DEF Respond
  <2>2. sent \in [Clients -> Seq(Ids)]
    BY <1>0 DEF ServerTypeOK
  <2> HIDE DEF f
  <2>3. f.data \in Ids => Append(sent[c], f.data) \in Seq(Ids)
    BY <2>2
  <2> QED  BY <2>1, <2>2, <2>3
<1>9. \E r \in Session : /\ r.fd = s.fd /\ r.clientId = s.clientId
                         /\ sess' = [sess EXCEPT ![b] = r]
  <2>1. sess' = [sess EXCEPT ![b] = f] \/ sess' = [sess EXCEPT ![b] = [f EXCEPT !.s_flag = 0]]
    BY DEF Respond
  <2> HIDE DEF f
  <2> QED  BY <1>1, <2>1
<1> QED  BY <1>3, <1>6, <1>7, <1>8, <1>9

\* A session that exists keeps its owner; a new one is made from an id that
\* came from the client itself.
LEMMA RequestStep ==
  ASSUME IInv, NEW i \in Fds, Request(i), UNCHANGED clientVars
  PROVE  IInv'
<1>0. TypeOK /\ SocketsTypeOK /\ ServerTypeOK /\ ClientTypeOK
  BY DEF IInv, TypeOK
<1>t. Turn(i)
  BY DEF Request
<1>1. /\ srv = "up" /\ i \in readFDs /\ readFDs' = readFDs \ {i}
      /\ i \in OpenFds /\ i \in masterFDs
      /\ sock[i] \in Clients /\ ListenFD \notin readFDs
  BY <1>t, VisitedIsOpen
<1> DEFINE c       == sock[i]
           res(n)  == Message(SubSeq(up[c], 1, n))
           id(n)   == atoi(res(n).buffer)
<1>2. UNCHANGED <<backlog, masterFDs, fdMax, sock>> /\ OpenFds' = OpenFds
  BY DEF Request, OpenFds
<1>3. PICK n \in ReadSizes(up[c]) :
        /\ up' = [up EXCEPT ![c] = Rest(@, n)]
        /\ \/ \E b \in ss_search(i) :
                /\ Respond(c, b, sess[b], <<>>, res(n))
                /\ UNCHANGED serverStore
           \/ /\ ss_search(i) = {}
              /\ st_search(id(n))
              /\ \E b \in Blocks :
                   /\ Fresh(b)
                   /\ serverStore' = serverStore \cup {b}
                   /\ Respond(c, b, create_ss(i, id(n)), <<>>, res(n))
           \/ /\ ss_search(i) = {}
              /\ ~ st_search(id(n))
              /\ Respond(c, clientData, sess[clientData],
                         TextFrame("not_found"), res(n))
              /\ UNCHANGED serverStore
  BY DEF Request
<1>4. up[c] \in Seq(Cells) /\ n \in 1 .. Len(up[c])
  BY <1>0, <1>1, <1>3, ReadSizesType DEF SocketsTypeOK
<1>5. res(n).buffer \in Ids => \E k \in DOMAIN up[c] : up[c][k] = res(n).buffer
  BY <1>4, MessageFromStream
<1>6. st_search(id(n)) => id(n) \in Ids /\ id(n) \in asked[c]
  <2> SUFFICES ASSUME id(n) \in StudentIds
               PROVE  id(n) \in Ids /\ id(n) \in asked[c]
    BY DEF st_search
  <2>1. id(n) \in Ids /\ id(n) # NoId
    BY ServerAssumption DEF ServerAssumption
  <2>2. id(n) = res(n).buffer
    BY <2>1 DEF atoi
  <2> HIDE DEF res, id
  <2>3. PICK k \in DOMAIN up[c] : up[c][k] = id(n)
    BY <1>5, <2>1, <2>2
  <2> QED  BY <1>1, <2>1, <2>3 DEF IInv, UpAsked
<1> HIDE DEF res, id
\* The block the answer is taken from, and what it held.
<1>7. \E b \in Blocks, s \in Session, answer \in Seq(Cells) :
        /\ Respond(c, b, s, answer, res(n))
        /\ \/ s = sess[b] /\ serverStore' = serverStore
           \/ /\ ss_search(i) = {} /\ b \notin serverStore
              /\ serverStore' = serverStore \cup {b}
              /\ s.fd = i /\ s.clientId \in asked[c]
  <2>e. <<>> \in Seq(Cells) /\ TextFrame("not_found") \in Seq(Cells)
    BY FrameTypes DEF Cells, Words
  <2>1. CASE \E b \in ss_search(i) : Respond(c, b, sess[b], <<>>, res(n)) /\ UNCHANGED serverStore
    <3>1. PICK b \in ss_search(i) : Respond(c, b, sess[b], <<>>, res(n))
      BY <2>1
    <3>2. b \in Blocks /\ sess[b] \in Session
      BY <1>0 DEF ss_search, ServerTypeOK
    <3> QED  BY <2>1, <2>e, <3>1, <3>2
  <2>2. CASE /\ ss_search(i) = {} /\ st_search(id(n))
             /\ \E b \in Blocks :
                   /\ Fresh(b)
                   /\ serverStore' = serverStore \cup {b}
                   /\ Respond(c, b, create_ss(i, id(n)), <<>>, res(n))
    <3>1. PICK b \in Blocks :
            /\ Fresh(b)
            /\ serverStore' = serverStore \cup {b}
            /\ Respond(c, b, create_ss(i, id(n)), <<>>, res(n))
      BY <2>2
    <3>2. b \notin serverStore
      BY <3>1 DEF Fresh
    <3>3. /\ create_ss(i, id(n)) \in Session
          /\ create_ss(i, id(n)).fd = i /\ create_ss(i, id(n)).clientId = id(n)
      BY <1>6, <2>2 DEF create_ss, Session
    <3> QED  BY <1>6, <2>2, <2>e, <3>1, <3>2, <3>3
  <2>3. CASE /\ Respond(c, clientData, sess[clientData], TextFrame("not_found"), res(n))
             /\ UNCHANGED serverStore
    <3>1. clientData \in Blocks /\ sess[clientData] \in Session
      BY <1>0 DEF ServerTypeOK
    <3> QED  BY <2>3, <2>e, <3>1
  <2> QED  BY <1>3, <2>1, <2>2, <2>3
<1>8. PICK b \in Blocks, s \in Session, answer \in Seq(Cells) :
        /\ Respond(c, b, s, answer, res(n))
        /\ \/ s = sess[b] /\ serverStore' = serverStore
           \/ /\ ss_search(i) = {} /\ b \notin serverStore
              /\ serverStore' = serverStore \cup {b}
              /\ s.fd = i /\ s.clientId \in asked[c]
  BY <1>7
<1>9. /\ down' \in [Clients -> Seq(Cells)]
      /\ cend' \in [Clients -> EndStates]
      /\ \A d \in Clients :
           cend[d] \in {"fin", "poked", "rst"} => cend'[d] \in {"fin", "poked", "rst"}
      /\ srv' \in {"up", "exited", "segv"}
      /\ sent' \in [Clients -> Seq(Ids)]
      /\ clientData' \in Blocks
      /\ \E r \in Session : /\ r.fd = s.fd /\ r.clientId = s.clientId
                            /\ sess' = [sess EXCEPT ![b] = r]
  BY <1>0, <1>1, <1>8, RespondEffect
<1>10. PICK r \in Session : /\ r.fd = s.fd /\ r.clientId = s.clientId
                            /\ sess' = [sess EXCEPT ![b] = r]
  BY <1>9
<1>11. /\ Rest(up[c], n) \in Seq(Cells)
       /\ \A k \in DOMAIN Rest(up[c], n) :
            k + n \in DOMAIN up[c] /\ Rest(up[c], n)[k] = up[c][k + n]
  BY <1>4, RestOfStream
<1> HIDE DEF c
<1>12. TypeOK'
  <2>1. up' \in [Clients -> Seq(Cells)]
    BY <1>0, <1>3, <1>11 DEF SocketsTypeOK
  <2>2. SocketsTypeOK'
    BY <1>0, <1>2, <1>9, <2>1 DEF SocketsTypeOK
  <2>3. sess' \in [Blocks -> Session] /\ serverStore' \subseteq Blocks
    BY <1>0, <1>8, <1>10 DEF ServerTypeOK
  <2>4. ServerTypeOK'
    BY <1>0, <1>1, <1>2, <1>9, <2>3 DEF ServerTypeOK
  <2> QED  BY <1>0, <2>2, <2>4 DEF TypeOK, ClientTypeOK, clientVars
<1>13. ReadyOpen' /\ NoAcceptAfterError'
  BY <1>1, <1>2 DEF IInv, ReadyOpen, NoAcceptAfterError
<1>14. MasterBelowMax'
  BY <1>2 DEF IInv, MasterBelowMax
<1>15. EveryConnectionWatched'
  BY <1>1, <1>2 DEF IInv, EveryConnectionWatched
<1>16. UpAsked'
  <2>1. \A d \in Clients : up'[d] = IF d = c THEN Rest(up[c], n) ELSE up[d]
    BY <1>0, <1>3 DEF SocketsTypeOK
  <2>2. UNCHANGED asked /\ c \in Clients
    BY <1>1 DEF clientVars, c
  <2> QED  BY <1>11, <2>1, <2>2 DEF IInv, UpAsked
\* What every linked block says of its descriptor and its id.
<1>17. \A x \in serverStore : /\ x \in Blocks /\ x \in serverStore'
                              /\ sess'[x].fd = sess[x].fd
                              /\ sess'[x].clientId = sess[x].clientId
  BY <1>0, <1>8, <1>10 DEF ServerTypeOK
<1>18. \A x \in serverStore' :
         \/ x \in serverStore
         \/ /\ x = b /\ ss_search(i) = {}
            /\ sess'[x].fd = i /\ sess'[x].clientId \in asked[c]
  BY <1>0, <1>8, <1>10 DEF ServerTypeOK
<1>19. SessionsWatched'
  BY <1>1, <1>2, <1>17, <1>18 DEF IInv, SessionsWatched
<1>20. OneSessionPerFd'
  <2>1. ss_search(i) = {} => \A x \in serverStore : sess[x].fd # i
    BY DEF ss_search
  <2> QED  BY <1>17, <1>18, <2>1 DEF IInv, OneSessionPerFd
<1>21. SessionOwner'
  <2> SUFFICES ASSUME NEW x \in serverStore', sock[sess'[x].fd] # NoClient
               PROVE  sess'[x].clientId \in asked[sock[sess'[x].fd]]
    BY <1>2 DEF SessionOwner, clientVars
  <2> QED  BY <1>17, <1>18 DEF IInv, SessionOwner, c
<1>22. OneConnection'
  BY <1>2 DEF IInv, OneConnection, clientVars
<1>23. VisitsNeverBlock'
  <2> SUFFICES ASSUME NEW f \in readFDs, f # i
               PROVE  f \in OpenFds /\ Readable(sock[f])'
    BY <1>1, <1>2 DEF VisitsNeverBlock, Readable
  <2>1. f \in OpenFds /\ Readable(sock[f])
    BY <1>1 DEF IInv, VisitsNeverBlock
  <2>2. sock[f] \in Clients /\ sock[f] # c
    BY <1>0, <1>1, <2>1 DEF IInv, OneConnection, OpenFds, ServerTypeOK, c
  <2>3. up'[sock[f]] = up[sock[f]]
    BY <1>0, <1>3, <2>2 DEF SocketsTypeOK
  <2> QED  BY <1>2, <1>9, <2>1, <2>2, <2>3 DEF Readable
<1> QED
  BY <1>12, <1>13, <1>14, <1>15, <1>16, <1>19, <1>20, <1>21, <1>22, <1>23 DEF IInv

-----------------------------------------------------------------------------
(* The invariant and what follows from it *)

\* A server without connections.
LEMMA InitIInv == Init => IInv
<1> SUFFICES ASSUME Init
             PROVE  IInv
  OBVIOUS
<1> USE DEF Init, SocketsInit, ServerInit, ClientInit
<1>1. SocketsTypeOK
  BY DEF SocketsTypeOK, EndStates
<1>2. ServerTypeOK
  BY ServerAssumption DEF ServerTypeOK, Session, ServerAssumption
<1>3. ClientTypeOK
  BY ClientAssumption DEF ClientTypeOK, ClientAssumption, Texts
<1>4. OpenFds = {}
  BY DEF OpenFds
<1>5. /\ ReadyOpen /\ SessionsWatched /\ NoAcceptAfterError /\ OneSessionPerFd
      /\ SessionOwner /\ EveryConnectionWatched /\ VisitsNeverBlock
  BY <1>4, FdsAbove DEF ReadyOpen, SessionsWatched, NoAcceptAfterError,
     OneSessionPerFd, SessionOwner, EveryConnectionWatched, VisitsNeverBlock
<1>6. MasterBelowMax
  BY ServerAssumption DEF MasterBelowMax, ServerAssumption
<1>7. UpAsked
  BY DEF UpAsked
<1>8. OneConnection
  BY <1>4, ServerAssumption DEF OneConnection, ServerAssumption
<1> QED  BY <1>1, <1>2, <1>3, <1>5, <1>6, <1>7, <1>8 DEF IInv, TypeOK

\* Nothing happens.
LEMMA StutterIInv == IInv /\ UNCHANGED vars => IInv'
<1> SUFFICES ASSUME IInv, UNCHANGED vars
             PROVE  IInv'
  OBVIOUS
<1> USE DEF vars, sockVars, serverVars, clientVars
<1>1. TypeOK'
  BY DEF IInv, TypeOK, SocketsTypeOK, ServerTypeOK, ClientTypeOK
<1>2. OpenFds' = OpenFds
  BY DEF OpenFds
<1>3. /\ ReadyOpen' /\ MasterBelowMax' /\ SessionsWatched' /\ NoAcceptAfterError'
      /\ UpAsked' /\ OneSessionPerFd' /\ SessionOwner' /\ EveryConnectionWatched'
      /\ OneConnection' /\ VisitsNeverBlock'
  BY <1>2 DEF IInv, ReadyOpen, MasterBelowMax, SessionsWatched,
     NoAcceptAfterError, UpAsked, OneSessionPerFd, SessionOwner,
     EveryConnectionWatched, OneConnection, VisitsNeverBlock, Readable
<1> QED  BY <1>1, <1>3 DEF IInv

\* Every step keeps the invariant.
LEMMA NextIInv == IInv /\ [Next]_vars => IInv'
<1> SUFFICES ASSUME IInv, [Next]_vars
             PROVE  IInv'
  OBVIOUS
<1>1. CASE Server
  <2>1. CASE Select
    BY <1>1, <2>1, SelectStep DEF Server
  <2>2. CASE AcceptClient
    BY <1>1, <2>2, AcceptStep DEF Server
  <2>3. CASE \E i \in Fds : HangUp(i)
    BY <1>1, <2>3, HangUpStep DEF Server
  <2>4. CASE \E i \in Fds : ReadError(i)
    BY <1>1, <2>4, ReadErrorStep DEF Server
  <2>5. CASE \E i \in Fds : Request(i)
    BY <1>1, <2>5, RequestStep DEF Server
  <2> QED  BY <1>1, <2>1, <2>2, <2>3, <2>4, <2>5 DEF Server, ServerNext
<1>2. CASE \E c \in Clients : Client(c)
  BY <1>2, ClientStep
<1>3. CASE UNCHANGED vars
  BY <1>3, StutterIInv
<1> QED  BY <1>1, <1>2, <1>3 DEF Next

\* The inductive invariant holds in every reachable state.
THEOREM Inductive == Spec => []IInv
<1> QED  BY InitIInv, NextIInv, PTL DEF Spec

\* Every variable keeps its type (the structs of server.c:5-11, client.c:6-12
\* and server_store_ll.h:9-17, the descriptor sets and the histories).
THEOREM TypeCorrect == Spec => []TypeOK
<1>1. IInv => TypeOK
  BY DEF IInv
<1> QED  BY <1>1, Inductive, PTL

\* The session of an open descriptor belongs to the client connected there,
\* although descriptors are reused (server.c:84, 97-124): for every number
\* of clients, unknown ids, short reads, resets and kills included.
THEOREM SessionsBelong == Spec => []SessionOwner
<1>1. IInv => SessionOwner
  BY DEF IInv
<1> QED  BY <1>1, Inductive, PTL

\* The session list never holds two sessions of one descriptor
\* (server.c:104-124, server_store_ll.c:32-69).
THEOREM SessionsUnique == Spec => []OneSessionPerFd
<1>1. IInv => OneSessionPerFd
  BY DEF IInv
<1> QED  BY <1>1, Inductive, PTL

\* select is told of every open connection (server.c:70, 84-87, 99).
THEOREM ConnectionsWatched == Spec => []EveryConnectionWatched
<1>1. IInv => EveryConnectionWatched
  BY DEF IInv
<1> QED  BY <1>1, Inductive, PTL

\* The server's accept and its reads never block (server.c:76-97).
THEOREM ReadsNeverBlock == Spec => []VisitsNeverBlock
<1>1. IInv => VisitsNeverBlock
  BY DEF IInv
<1> QED  BY <1>1, Inductive, PTL

-----------------------------------------------------------------------------
(* What a client gets, when no read is short: the record shown and sent is *)
(* its own, and the programs implement StudentService.  Beyond IInv, the   *)
(* invariant SInv says for each client how far it is, and what its two     *)
(* streams hold at that stage.                                             *)

\* The stream holds whole structs, and every detail in them is that of id.
Details(s, id) ==
  /\ s \in Seq(Cells)
  /\ \E n \in Nat : Len(s) = 3 * n
  /\ \A j \in Nat : 3 * j < Len(s) /\ s[3 * j + 1] = "detail" => s[3 * j + 3] = id

\* The stream begins with one text.
Begins(s, text) ==
  Len(s) >= 3 /\ s[1] = "buffer" /\ s[2] = text /\ s[3] = "blank"

\* A struct is no record but that of id.
RecordOf(m, id) == m.msg = "detail" => m.detail = id

AllAre(s, id) == \A k \in DOMAIN s : s[k] = id

Queued(c) == \E k \in DOMAIN backlog : backlog[k] = c

\* The session of descriptor f is one for id, and owes nothing.
SessionFor(f, id) ==
  \E b \in serverStore : /\ sess[b].fd = f /\ sess[b].data = id
                         /\ srv = "up" => sess[b].s_flag = 0

NoSession(f) == \A b \in serverStore : sess[b].fd # f

\* A client that has not connected, and one whose id the server has not read.
Outside(c) ==
  /\ sent[c] = <<>> /\ shown[c] = <<>> /\ down[c] = <<>>
  /\ ~ Queued(c)
  /\ \A f \in Fds : sock[f] # c

Waiting(c) ==
  /\ Begins(up[c], arg[c])
  /\ sent[c] = <<>> /\ shown[c] = <<>> /\ down[c] = <<>>
  /\ \A f \in Fds : sock[f] = c => NoSession(f)

\* One that has its session, and one that was refused and has not seen it.
Served(c) ==
  /\ arg[c] \in StudentIds
  /\ ~ Queued(c)
  /\ \A f \in Fds : sock[f] = c => SessionFor(f, arg[c])
  /\ srv = "up" => sent[c] # <<>>
  /\ AllAre(sent[c], arg[c]) /\ AllAre(shown[c], arg[c])
  /\ Details(down[c], arg[c])

Refused(c) ==
  /\ arg[c] \notin StudentIds
  /\ shown[c] = <<>>
  /\ cend[c] = "open" => Begins(down[c], "not_found")

Stage(c) ==
  /\ client[c] = "start" => cend[c] = "none"
  /\ cend[c] = "none" => Outside(c)
  /\ cend[c] # "none" => Waiting(c) \/ Served(c) \/ Refused(c)

SInv == IInv /\ \A c \in Clients : Stage(c)

-----------------------------------------------------------------------------
(* Streams of whole structs *)

\* The cells of a concatenation, in their places.
LEMMA Joined ==
  ASSUME NEW s \in Seq(Cells), NEW t \in Seq(Cells)
  PROVE  /\ s \o t \in Seq(Cells) /\ Len(s \o t) = Len(s) + Len(t)
         /\ \A k \in 1 .. Len(s) : (s \o t)[k] = s[k]
         /\ \A k \in 1 .. Len(t) : (s \o t)[Len(s) + k] = t[k]
<1>1. s \o t \in Seq(Cells) /\ Len(s \o t) = Len(s) + Len(t)
  OBVIOUS
<1>2. ASSUME NEW k \in 1 .. Len(s)
      PROVE  (s \o t)[k] = s[k]
  OBVIOUS
<1>3. ASSUME NEW k \in 1 .. Len(t)
      PROVE  (s \o t)[Len(s) + k] = t[k]
  OBVIOUS
<1> QED  BY <1>1, <1>2, <1>3

\* Nothing under way is nobody else's.
LEMMA DetailsEmpty == \A id : Details(<<>>, id)
BY DEF Details

\* One more record of id.
LEMMA DetailsGrow ==
  ASSUME NEW id \in Ids, NEW s, Details(s, id)
  PROVE  Details(s \o DetailFrame(id), id)
<1> DEFINE u == DetailFrame(id)
           t == s \o u
<1>1. /\ s \in Seq(Cells) /\ u \in Seq(Cells)
      /\ Len(u) = 3 /\ Len(s) \in Nat
      /\ u[3] = id
  BY FrameTypes DEF Details, DetailFrame
<1>2. PICK n \in Nat : Len(s) = 3 * n
  BY DEF Details
<1> HIDE DEF u
<1>3. /\ t \in Seq(Cells) /\ Len(t) = Len(s) + 3
      /\ \A k \in 1 .. Len(s) : t[k] = s[k]
      /\ t[Len(s) + 3] = u[3]
  <2>1. /\ t \in Seq(Cells) /\ Len(t) = Len(s) + Len(u)
        /\ \A k \in 1 .. Len(s) : t[k] = s[k]
        /\ \A k \in 1 .. Len(u) : t[Len(s) + k] = u[k]
    BY <1>1, Joined
  <2> HIDE DEF t
  <2> QED  BY <1>1, <2>1
<1>4. t \in Seq(Cells) /\ Len(t) = 3 * (n + 1) /\ n + 1 \in Nat
  BY <1>2, <1>3
<1>5. ASSUME NEW j \in Nat, 3 * j < Len(t), t[3 * j + 1] = "detail"
      PROVE  t[3 * j + 3] = id
  <2>1. CASE j < n
    <3>1. 3 * j + 1 \in 1 .. Len(s) /\ 3 * j + 3 \in 1 .. Len(s) /\ 3 * j < Len(s)
      BY <1>2, <2>1
    <3> QED  BY <1>3, <1>5, <3>1 DEF Details
  <2>2. CASE j = n
    BY <1>1, <1>2, <1>3, <2>2
  <2> QED  BY <1>4, <1>5, <2>1, <2>2
<1>6. Details(t, id)
  <2> HIDE DEF t
  <2> QED  BY <1>4, <1>5 DEF Details
<1> QED  BY <1>6 DEF u

\* A read takes one struct: a record of id, or no record.
LEMMA DetailsRead ==
  ASSUME ShortReads = FALSE, NEW id \in Ids, NEW s \in Seq(Cells), Details(s, id),
         NEW n \in ReadSizes(s)
  PROVE  /\ Details(Rest(s, n), id)
         /\ RecordOf(Message(SubSeq(s, 1, n)), id)
<1>1. s \in Seq(Cells) /\ Len(s) \in Nat
  BY DEF Details
<1>2. PICK m \in Nat : Len(s) = 3 * m
  BY DEF Details
<1>3. n = 3 /\ Len(s) >= 3 /\ m - 1 \in Nat
  BY <1>1, <1>2 DEF ReadSizes, FrameLen
<1> DEFINE r == Rest(s, 3)
           t == SubSeq(s, 1, 3)
<1>4. /\ r \in Seq(Cells) /\ Len(r) = Len(s) - 3
      /\ \A k \in 1 .. Len(r) : r[k] = s[k + 3]
  BY <1>1, <1>3, RestOfStream
<1>5. Details(r, id)
  <2>1. Len(r) = 3 * (m - 1)
    BY <1>2, <1>4
  <2>2. ASSUME NEW j \in Nat, 3 * j < Len(r), r[3 * j + 1] = "detail"
        PROVE  r[3 * j + 3] = id
    <3>1. /\ 3 * j + 1 \in 1 .. Len(r) /\ 3 * j + 3 \in 1 .. Len(r)
          /\ 3 * (j + 1) < Len(s) /\ j + 1 \in Nat
          /\ 3 * j + 1 + 3 = 3 * (j + 1) + 1 /\ 3 * j + 3 + 3 = 3 * (j + 1) + 3
      BY <1>2, <1>4, <2>1, <2>2
    <3>2. /\ r[3 * j + 1] = s[3 * (j + 1) + 1]
          /\ r[3 * j + 3] = s[3 * (j + 1) + 3]
      BY <1>4, <3>1
    <3> QED  BY <2>2, <3>1, <3>2 DEF Details
  <2> HIDE DEF r
  <2> QED  BY <1>3, <1>4, <2>1, <2>2 DEF Details
<1>6. Message(t).msg = "detail" => Message(t).detail = id
  <2>1. Len(t) = 3 /\ t[1] = s[1] /\ t[3] = s[3]
    BY <1>1, <1>3
  <2>2. s[1] = "detail" => s[3] = id
    <3>1. 3 * 0 < Len(s) /\ 3 * 0 + 1 = 1 /\ 3 * 0 + 3 = 3 /\ 0 \in Nat
      BY <1>3
    <3> QED  BY <3>1 DEF Details
  <2> HIDE DEF t
  <2> QED  BY <2>1, <2>2 DEF Message
<1> QED  BY <1>3, <1>5, <1>6 DEF RecordOf

\* What a stream begins with stays in front of what is written later.
LEMMA BeginsGrow ==
  ASSUME NEW text \in Cells, NEW s \in Seq(Cells), NEW t \in Seq(Cells), Begins(s, text)
  PROVE  Begins(s \o t, text)
BY DEF Begins

\* A stream that a text is written to first begins with it.
LEMMA FrameBegins ==
  ASSUME NEW text \in Cells
  PROVE  /\ Begins(TextFrame(text), text)
         /\ \A t \in Seq(Cells) : Begins(TextFrame(text) \o t, text)
<1>1. Begins(TextFrame(text), text) /\ TextFrame(text) \in Seq(Cells)
  BY FrameTypes DEF Begins, TextFrame
<1> QED  BY <1>1, BeginsGrow

\* The first read of a stream that begins with a text yields that text.
LEMMA BeginsRead ==
  ASSUME ShortReads = FALSE, NEW text \in Cells, NEW s \in Seq(Cells), Begins(s, text),
         NEW n \in ReadSizes(s)
  PROVE  Message(SubSeq(s, 1, n)) = [msg |-> "buffer", buffer |-> text, detail |-> "blank"]
<1>1. n = 3
  BY DEF Begins, ReadSizes, FrameLen
<1> DEFINE t == SubSeq(s, 1, 3)
<1>2. Len(t) = 3 /\ t[1] = "buffer" /\ t[2] = text /\ t[3] = "blank"
  BY DEF Begins
<1> HIDE DEF t
<1>3. Message(t) = [msg |-> "buffer", buffer |-> text, detail |-> "blank"]
  BY <1>2 DEF Message, Labels
<1> QED  BY <1>1, <1>3 DEF t

-----------------------------------------------------------------------------
(* Steps that leave a client's stage alone *)

\* What the stage of d says of the server is still so.
Links(d) ==
  /\ sent'[d] = sent[d] /\ arg'[d] = arg[d]
  /\ Queued(d)' => Queued(d)
  /\ srv' = "up" => srv = "up"
  /\ \A f \in Fds : sock'[f] = d =>
       /\ sock[f] = d
       /\ NoSession(f) => NoSession(f)'
       /\ SessionFor(f, arg[d]) => SessionFor(f, arg[d])'

Streams(d) ==
  /\ up'[d] = up[d] /\ down'[d] = down[d] /\ shown'[d] = shown[d]
  /\ cend'[d] = cend[d]
  /\ client'[d] = "start" => client[d] = "start"

\* A client that waits for its first answer still does.
LEMMA WaitingKept ==
  ASSUME NEW c \in Clients, Waiting(c), Links(c), Begins(up'[c], arg[c]),
         shown'[c] = <<>>, down'[c] = <<>>
  PROVE  Waiting(c)'
BY DEF Waiting, Links

\* A client that is served still is.
LEMMA ServedKept ==
  ASSUME NEW c \in Clients, Served(c), Links(c),
         AllAre(shown'[c], arg[c]), Details(down'[c], arg[c])
  PROVE  Served(c)'
BY DEF Served, Links

\* A client that was refused stays so.
LEMMA RefusedKept ==
  ASSUME NEW c \in Clients, Refused(c), arg'[c] = arg[c], shown'[c] = <<>>,
         cend'[c] = "open" => Begins(down'[c], "not_found")
  PROVE  Refused(c)'
BY DEF Refused

\* What others do leaves a client where it is.
LEMMA StageAside ==
  ASSUME NEW d \in Clients, Stage(d), Links(d), Streams(d)
  PROVE  Stage(d)'
<1>1. /\ up'[d] = up[d] /\ down'[d] = down[d] /\ shown'[d] = shown[d]
      /\ cend'[d] = cend[d] /\ arg'[d] = arg[d]
      /\ client'[d] = "start" => client[d] = "start"
  BY DEF Streams, Links
<1>2. CASE cend[d] = "none"
  BY <1>1, <1>2 DEF Stage, Outside, Links
<1>3. CASE Waiting(d) /\ cend[d] # "none"
  <2>1. Begins(up'[d], arg[d]) /\ shown'[d] = <<>> /\ down'[d] = <<>>
    BY <1>1, <1>3 DEF Waiting
  <2> QED  BY <1>1, <1>3, <2>1, WaitingKept DEF Stage
<1>4. CASE Served(d) /\ cend[d] # "none"
  <2>1. AllAre(shown'[d], arg[d]) /\ Details(down'[d], arg[d])
    BY <1>1, <1>4 DEF Served
  <2> QED  BY <1>1, <1>4, <2>1, ServedKept DEF Stage
<1>5. CASE Refused(d) /\ cend[d] # "none"
  <2>1. shown'[d] = <<>> /\ (cend'[d] = "open" => Begins(down'[d], "not_found"))
    BY <1>1, <1>5 DEF Refused
  <2> QED  BY <1>1, <1>5, <2>1, RefusedKept DEF Stage
<1> QED  BY <1>2, <1>3, <1>4, <1>5 DEF Stage

\* A step that leaves the server's variables alone, and of the connections
\* all but that of c.
LEMMA OthersAside ==
  ASSUME SInv, NEW c \in Clients, UNCHANGED serverVars, UNCHANGED <<srv, arg>>,
         backlog' = backlog \/ backlog' = Append(backlog, c),
         \A d \in Clients \ {c} : Streams(d), NEW d \in Clients \ {c}
  PROVE  Stage(d)'
<1>1. backlog \in Seq(Clients) /\ Stage(d)
  BY DEF SInv, IInv, TypeOK, SocketsTypeOK
<1>2. Queued(d)' => Queued(d)
  BY <1>1 DEF Queued
<1>3. Links(d)
  BY <1>2 DEF Links, serverVars, NoSession, SessionFor
<1> QED  BY <1>1, <1>3, StageAside

\* The end of a program: its socket is closed, if it is not yet.
LEMMA Terminated ==
  ASSUME TypeOK, NEW c \in Clients, NEW unread, Terminate(c, unread)
  PROVE  /\ client' = [client EXCEPT ![c] = "exit"] /\ client'[c] = "exit"
         /\ \/ /\ cend[c] = "open" /\ cend'[c] \in {"fin", "rst", "poked"}
               /\ down'[c] = <<>>
            \/ cend[c] # "open" /\ cend' = cend /\ down' = down
         /\ \A d \in Clients \ {c} : /\ down'[d] = down[d] /\ cend'[d] = cend[d]
                                     /\ client'[d] = client[d]
BY DEF Terminate, CloseClientEnd, TypeOK, SocketsTypeOK, ClientTypeOK

\* A program that ends keeps its stage; what it has shown last may be a record
\* of its own.
LEMMA StageEnds ==
  ASSUME SInv, NEW c \in Clients, NEW unread, Terminate(c, unread), Links(c),
         up'[c] = up[c],
         \/ shown'[c] = shown[c]
         \/ Served(c) /\ ~ Waiting(c) /\ ~ Refused(c) /\ AllAre(shown'[c], arg[c])
            /\ cend[c] # "none"
  PROVE  Stage(c)'
<1>1. TypeOK /\ Stage(c)
  BY DEF SInv, IInv
<1>2. /\ client'[c] = "exit"
      /\ \/ /\ cend[c] = "open" /\ cend'[c] \in {"fin", "rst", "poked"}
            /\ down'[c] = <<>>
         \/ cend[c] # "open" /\ cend' = cend /\ down' = down
  BY <1>1, Terminated
<1>3. cend'[c] = "none" => cend[c] = "none"
  BY <1>2
<1>4. CASE cend[c] = "none"
  BY <1>1, <1>2, <1>4 DEF Stage, Outside, Links
<1>5. CASE Waiting(c) /\ cend[c] # "none"
  <2>1. shown'[c] = <<>> /\ down'[c] = <<>> /\ Begins(up'[c], arg[c])
    BY <1>2, <1>5 DEF Waiting
  <2> QED  BY <1>2, <1>3, <1>5, <2>1, WaitingKept DEF Stage
<1>6. CASE Served(c) /\ cend[c] # "none"
  <2>1. AllAre(shown'[c], arg[c]) /\ Details(down'[c], arg[c])
    BY <1>2, <1>6, DetailsEmpty DEF Served
  <2> QED  BY <1>2, <1>3, <1>6, <2>1, ServedKept DEF Stage
<1>7. CASE Refused(c) /\ cend[c] # "none"
  <2>1. shown'[c] = <<>> /\ cend'[c] # "open"
    BY <1>2, <1>7 DEF Refused
  <2> QED  BY <1>2, <1>3, <1>7, <2>1, RefusedKept DEF Stage, Links
<1> QED  BY <1>1, <1>4, <1>5, <1>6, <1>7 DEF Stage

\* A program that writes a text keeps its stage, if what it has taken from its
\* stream and shown suits the stage.
LEMMA StageWrites ==
  ASSUME SInv, NEW c \in Clients, NEW text \in Texts, NEW unread \in Seq(Cells),
         cend[c] = "open", client[c] # "start", WriteText(c, text, unread), Links(c),
         \/ unread = down[c] /\ shown'[c] = shown[c]
         \/ /\ Served(c) /\ ~ Waiting(c) /\ ~ Refused(c)
            /\ AllAre(shown'[c], arg[c]) /\ Details(unread, arg[c])
  PROVE  Stage(c)'
<1>1. /\ TypeOK /\ SocketsTypeOK /\ ClientTypeOK /\ Stage(c)
      /\ arg[c] \in Cells /\ up[c] \in Seq(Cells)
  BY ClientAssumption
     DEF SInv, IInv, TypeOK, SocketsTypeOK, ClientTypeOK, ClientAssumption, Cells
<1>2. CASE Terminate(c, unread) /\ UNCHANGED up
  BY <1>2, StageEnds
<1>3. CASE /\ up' = IF srv = "up" THEN [up EXCEPT ![c] = @ \o TextFrame(text)] ELSE up
           /\ down' = [down EXCEPT ![c] = unread]
           /\ UNCHANGED <<client, cend>>
  <2>1. TextFrame(text) \in Seq(Cells)
    BY FrameTypes DEF Texts, Cells
  <2>2. down'[c] = unread /\ up'[c] \in {up[c], up[c] \o TextFrame(text)}
    BY <1>1, <1>3 DEF SocketsTypeOK
  <2>3. Begins(up[c], arg[c]) => Begins(up'[c], arg[c])
    BY <1>1, <2>1, <2>2, BeginsGrow
  <2>4. CASE Waiting(c)
    <3>1. Begins(up'[c], arg[c]) /\ shown'[c] = <<>> /\ down'[c] = <<>>
      BY <2>2, <2>3, <2>4 DEF Waiting
    <3> QED  BY <1>1, <1>3, <2>4, <3>1, WaitingKept DEF Stage
  <2>5. CASE Served(c)
    <3>1. AllAre(shown'[c], arg[c]) /\ Details(down'[c], arg[c])
      BY <2>2, <2>5 DEF Served
    <3> QED  BY <1>1, <1>3, <2>5, <3>1, ServedKept DEF Stage
  <2>6. CASE Refused(c)
    <3>1. shown'[c] = <<>> /\ Begins(down'[c], "not_found")
      BY <2>2, <2>6 DEF Refused
    <3> QED  BY <1>1, <1>3, <2>6, <3>1, RefusedKept DEF Stage, Links
  <2> QED  BY <1>1, <2>4, <2>5, <2>6 DEF Stage
<1> QED  BY <1>2, <1>3 DEF WriteText

\* A program that connects waits to be read.
LEMMA ConnectStage ==
  ASSUME SInv, NEW c \in Clients, Connect(c), UNCHANGED serverVars
  PROVE  Stage(c)'
<1>1. /\ SocketsTypeOK /\ ClientTypeOK /\ Stage(c) /\ arg[c] \in Cells
  BY ClientAssumption
     DEF SInv, IInv, TypeOK, ClientTypeOK, ClientAssumption, Cells
<1>2. /\ client[c] = "start" /\ cend[c] = "none"
      /\ client'[c] = "run" /\ cend'[c] = "open"
      /\ up'[c] = TextFrame(arg[c]) /\ down' = down /\ arg' = arg /\ shown' = shown
  BY <1>1 DEF Connect, Stage, SocketsTypeOK, ClientTypeOK
<1>3. Outside(c)
  BY <1>1, <1>2 DEF Stage
<1>4. /\ sent'[c] = <<>> /\ shown'[c] = <<>> /\ down'[c] = <<>>
      /\ \A f \in Fds : sock'[f] # c
      /\ Begins(up'[c], arg'[c])
  BY <1>1, <1>2, <1>3, FrameBegins DEF Outside, serverVars
<1>5. Waiting(c)'
  BY <1>4 DEF Waiting
<1> QED  BY <1>2, <1>5 DEF Stage

\* A struct arrives: a record, which is the program's own, or a refusal.
LEMMA SockMessageStage ==
  ASSUME ShortReads = FALSE, SInv, NEW c \in Clients, SockMessage(c), Links(c)
  PROVE  Stage(c)'
<1>1. /\ TypeOK /\ SocketsTypeOK /\ ClientTypeOK /\ Stage(c)
      /\ down[c] \in Seq(Cells) /\ cend[c] = "open" /\ client[c] = "run"
      /\ "not_found" \in Cells
  BY DEF SInv, IInv, TypeOK, SocketsTypeOK, SockMessage, Serving, Cells, Words
<1> DEFINE res(n)     == Message(SubSeq(down[c], 1, n))
           unread(n)  == Rest(down[c], n)
           refused(n) == res(n).msg = "buffer" /\ res(n).buffer = "not_found"
<1>2. PICK n \in ReadSizes(down[c]) :
        \/ /\ refused(n)
           /\ Terminate(c, unread(n))
           /\ UNCHANGED <<up, shown, asked>>
        \/ /\ res(n).msg = "detail"
           /\ shown' = [shown EXCEPT ![c] = Append(@, res(n).detail)]
           /\ WriteText(c, "thank_you", unread(n))
        \/ /\ res(n).msg # "detail" /\ ~ refused(n)
           /\ down' = [down EXCEPT ![c] = unread(n)]
           /\ UNCHANGED <<client, up, cend, shown, asked>>
  BY DEF SockMessage
<1>3. n \in 1 .. Len(down[c]) /\ unread(n) \in Seq(Cells)
  BY <1>1, <1>2, ReadSizesType, RestOfStream
<1>4. ~ Waiting(c)
  BY <1>3 DEF Waiting
<1>5. Refused(c) => refused(n) /\ res(n).msg # "detail"
  <2> SUFFICES ASSUME Refused(c)
               PROVE  refused(n) /\ res(n).msg # "detail"
    OBVIOUS
  <2>1. Begins(down[c], "not_found")
    BY <1>1 DEF Refused
  <2>2. res(n) = [msg |-> "buffer", buffer |-> "not_found", detail |-> "blank"]
    BY <1>1, <1>2, <2>1, BeginsRead
  <2> HIDE DEF res
  <2> QED  BY <2>2
<1>6. Served(c) => Details(unread(n), arg[c]) /\ RecordOf(res(n), arg[c])
  <2> SUFFICES ASSUME Served(c)
               PROVE  Details(unread(n), arg[c]) /\ RecordOf(res(n), arg[c])
    OBVIOUS
  <2>1. Details(down[c], arg[c])
    BY DEF Served
  <2>2. arg[c] \in Ids
    BY <1>1, ClientAssumption DEF ClientTypeOK, ClientAssumption
  <2>3. down[c] \in Seq(Cells) /\ n \in ReadSizes(down[c])
    BY <1>1, <1>2
  <2> QED  BY <2>1, <2>2, <2>3, DetailsRead, Zenon
<1> HIDE DEF res, unread, refused
<1>7. CASE Terminate(c, unread(n)) /\ UNCHANGED <<up, shown, asked>>
  BY <1>7, StageEnds
<1>8. CASE /\ res(n).msg = "detail"
           /\ shown' = [shown EXCEPT ![c] = Append(@, res(n).detail)]
           /\ WriteText(c, "thank_you", unread(n))
  <2>1. Served(c) /\ ~ Refused(c)
    BY <1>1, <1>4, <1>5, <1>8 DEF Stage
  <2>2. shown[c] \in Seq(Cells) /\ shown'[c] = Append(shown[c], arg[c])
    BY <1>1, <1>6, <1>8, <2>1 DEF ClientTypeOK, RecordOf
  <2>3. AllAre(shown'[c], arg[c])
    BY <2>1, <2>2 DEF Served, AllAre
  <2>4. "thank_you" \in Texts
    BY DEF Texts, Words
  <2> QED  BY <1>1, <1>3, <1>4, <1>6, <1>8, <2>1, <2>3, <2>4, StageWrites
<1>9. CASE /\ ~ refused(n)
           /\ down' = [down EXCEPT ![c] = unread(n)]
           /\ UNCHANGED <<client, up, cend, shown, asked>>
  <2>1. Served(c)
    BY <1>1, <1>4, <1>5, <1>9 DEF Stage
  <2>2. AllAre(shown'[c], arg[c]) /\ Details(down'[c], arg[c])
    BY <1>1, <1>6, <1>9, <2>1 DEF SocketsTypeOK, Served
  <2> QED  BY <1>1, <1>9, <2>1, <2>2, ServedKept DEF Stage
<1> QED  BY <1>2, <1>7, <1>8, <1>9

\* Whatever a client does, every client keeps to its stages.
LEMMA ClientStage ==
  ASSUME ShortReads = FALSE, SInv, NEW c \in Clients, Client(c), NEW d \in Clients
  PROVE  Stage(d)'
<1>1. /\ TypeOK /\ SocketsTypeOK /\ ClientTypeOK /\ Stage(c)
      /\ down[c] \in Seq(Cells) /\ UNCHANGED serverVars /\ ClientNext(c)
      /\ \A text \in Typed \cup {"blank"} : text \in Texts
  BY ClientAssumption
     DEF SInv, IInv, TypeOK, SocketsTypeOK, Client, ClientAssumption, Texts, Words
<1>2. /\ UNCHANGED <<srv, arg>>
      /\ backlog' = backlog \/ (Connect(c) /\ backlog' = Append(backlog, c))
  BY <1>1 DEF ClientNext, Connect, ConnectError, StdinLine, StdinQuit, StdinEOF,
       SelectError, SockMessage, SockEnd, Killed, sockVars
<1>3. backlog' = backlog => Links(c)
  BY <1>1, <1>2 DEF Links, serverVars, NoSession, SessionFor, Queued
<1>4. ASSUME NEW unread, Terminate(c, unread),
             UNCHANGED <<backlog, up, shown>>
      PROVE  /\ Stage(c)'
             /\ \A e \in Clients \ {c} : Streams(e)
  BY <1>1, <1>3, <1>4, Terminated, StageEnds DEF Streams
<1>5. ASSUME NEW text \in Texts, NEW unread, WriteText(c, text, unread),
             \A e \in Clients \ {c} : shown'[e] = shown[e]
      PROVE  \A e \in Clients \ {c} : Streams(e)
  <2>1. \A e \in Clients \ {c} : /\ up'[e] = up[e] /\ down'[e] = down[e]
                                 /\ cend'[e] = cend[e] /\ client'[e] = client[e]
    <3>1. CASE Terminate(c, unread) /\ UNCHANGED up
      BY <1>1, <3>1, Terminated
    <3> QED  BY <1>1, <1>5, <3>1 DEF WriteText, SocketsTypeOK
  <2> QED  BY <1>5, <2>1 DEF Streams
<1>6. ASSUME NEW text \in Texts, WriteText(c, text, down[c]), Serving(c),
             UNCHANGED <<backlog, shown>>
      PROVE  /\ Stage(c)'
             /\ \A e \in Clients \ {c} : Streams(e)
  <2>1. Stage(c)'
    BY <1>1, <1>3, <1>6, StageWrites DEF Serving
  <2> QED  BY <1>5, <1>6, <2>1
<1>7. /\ Stage(c)'
      /\ \A e \in Clients \ {c} : Streams(e)
  <2>1. CASE Connect(c)
    BY <1>1, <2>1, ConnectStage DEF Connect, Streams, SocketsTypeOK, ClientTypeOK
  <2>2. CASE ConnectError(c)
    <3>1. \A e \in Clients : Streams(e)
      BY <1>1, <2>2 DEF ConnectError, Streams, ClientTypeOK, sockVars
    <3> QED  BY <1>1, <1>3, <2>2, <3>1, StageAside DEF ConnectError, sockVars
  <2>3. CASE StdinLine(c)
    BY <1>1, <1>6, <2>3 DEF StdinLine
  <2>4. CASE StdinQuit(c) \/ SelectError(c) \/ Killed(c)
    BY <1>4, <2>4 DEF StdinQuit, SelectError, Killed
  <2>5. CASE StdinEOF(c)
    BY <1>1, <1>6, <2>5 DEF StdinEOF
  <2>6. CASE SockMessage(c)
    <3>1. Stage(c)'
      BY <1>3, <2>6, SockMessageStage DEF SockMessage
    <3>2. PICK n, detail :
            \/ Terminate(c, Rest(down[c], n)) /\ UNCHANGED <<up, shown>>
            \/ /\ shown' = [shown EXCEPT ![c] = Append(@, detail)]
               /\ WriteText(c, "thank_you", Rest(down[c], n))
            \/ /\ down' = [down EXCEPT ![c] = Rest(down[c], n)]
               /\ UNCHANGED <<client, up, cend, shown>>
      BY <2>6 DEF SockMessage
    <3>3. CASE Terminate(c, Rest(down[c], n)) /\ UNCHANGED <<up, shown>>
      BY <1>4, <2>6, <3>3 DEF SockMessage
    <3>4. CASE /\ shown' = [shown EXCEPT ![c] = Append(@, detail)]
               /\ WriteText(c, "thank_you", Rest(down[c], n))
      <4>1. \A e \in Clients \ {c} : shown'[e] = shown[e]
        BY <1>1, <3>4 DEF ClientTypeOK
      <4>2. "thank_you" \in Texts
        BY DEF Texts, Words
      <4> QED  BY <1>5, <3>1, <3>4, <4>1, <4>2
    <3>5. CASE /\ down' = [down EXCEPT ![c] = Rest(down[c], n)]
               /\ UNCHANGED <<client, up, cend, shown>>
      BY <1>1, <3>1, <3>5 DEF SocketsTypeOK, Streams
    <3> QED  BY <3>2, <3>3, <3>4, <3>5
  <2>7. CASE SockEnd(c)
    <3>1. /\ CloseClientEnd(c, <<>>) /\ cend[c] = "open"
          /\ UNCHANGED <<backlog, up, client, shown>>
      BY <2>7 DEF SockEnd, Serving
    <3>2. /\ cend'[c] = "fin" /\ down'[c] = <<>>
          /\ \A e \in Clients \ {c} : cend'[e] = cend[e] /\ down'[e] = down[e]
      BY <1>1, <3>1 DEF CloseClientEnd, SocketsTypeOK
    <3>3. Waiting(c) => Waiting(c)'
      <4> SUFFICES ASSUME Waiting(c)
                   PROVE  Waiting(c)'
        OBVIOUS
      <4>1. Begins(up'[c], arg[c]) /\ shown'[c] = <<>>
        BY <3>1 DEF Waiting
      <4> QED  BY <1>3, <3>1, <3>2, <4>1, WaitingKept
    <3>4. Served(c) => Served(c)'
      <4> SUFFICES ASSUME Served(c)
                   PROVE  Served(c)'
        OBVIOUS
      <4>1. AllAre(shown'[c], arg[c]) /\ Details(down'[c], arg[c])
        BY <3>1, <3>2, DetailsEmpty DEF Served
      <4> QED  BY <1>3, <3>1, <4>1, ServedKept
    <3>5. Refused(c) => Refused(c)'
      BY <1>2, <3>1, <3>2 DEF Refused
    <3> QED  BY <1>1, <3>1, <3>2, <3>3, <3>4, <3>5 DEF Stage, Streams
  <2> QED  BY <1>1, <2>1, <2>2, <2>3, <2>4, <2>5, <2>6, <2>7 DEF ClientNext
<1>8. CASE d # c
  BY <1>1, <1>2, <1>7, <1>8, OthersAside
<1> QED  BY <1>7, <1>8

-----------------------------------------------------------------------------
(* Steps of the server *)

\* The server has written cells to c, or c has closed its end.
Added(c, cells) == \/ down'[c] = down[c] \o cells
                   \/ down'[c] = down[c] /\ cend[c] # "open"

\* Block b holds s, but for the flags, and owes nothing if the server goes on.
Answered(b, s) ==
  \E r \in Session : /\ sess' = [sess EXCEPT ![b] = r]
                     /\ r.fd = s.fd /\ r.data = s.data
                     /\ srv' = "up" => r.s_flag = 0

\* The flags are raised and taken back without moving the session.
LEMMA FlaggedFacts ==
  ASSUME NEW s \in Session, NEW res
  PROVE  LET f == Flagged(s, res)
         IN  /\ f \in Session /\ f.data = s.data /\ f.fd = s.fd
             /\ s.s_flag = 1 => f.s_flag = 1
             /\ LET r == [f EXCEPT !.s_flag = 0]
                IN  r \in Session /\ r.data = s.data /\ r.fd = s.fd /\ r.s_flag = 0
BY DEF Flagged, Session

\* An answer: the session keeps its owner, owes nothing while the server goes
\* on, and what is written is the answer, with the record if it was owed.
LEMMA RespondResult ==
  ASSUME TypeOK, NEW c \in Clients, NEW b \in Blocks, NEW s \in Session,
         NEW answer \in Seq(Cells), NEW res, srv = "up",
         Respond(c, b, s, answer, res)
  PROVE  /\ Answered(b, s)
         /\ \A d \in Clients \ {c} : /\ down'[d] = down[d] /\ cend'[d] = cend[d]
                                     /\ sent'[d] = sent[d]
         /\ cend'[c] = "open" => cend[c] = "open"
         /\ cend'[c] = "none" => cend[c] = "none"
         /\ \/ /\ sent'[c] = sent[c] /\ Added(c, answer)
               /\ srv' = "up" => s.s_flag = 0
            \/ /\ s.data \in Ids
               /\ sent'[c] = Append(sent[c], s.data)
               /\ Added(c, answer \o DetailFrame(s.data))
<1> DEFINE f      == Flagged(s, res)
           detail == answer \o DetailFrame(f.data)
           r      == [f EXCEPT !.s_flag = 0]
<1>0. SocketsTypeOK /\ ServerTypeOK
  BY DEF TypeOK
<1>1. /\ f \in Session /\ f.data = s.data /\ f.fd = s.fd
      /\ s.s_flag \in {0, 1} /\ f.s_flag \in {0, 1}
      /\ s.s_flag = 1 => f.s_flag = 1
      /\ r \in Session /\ r.data = s.data /\ r.fd = s.fd /\ r.s_flag = 0
  BY FlaggedFacts DEF Session
<1>2. \/ /\ f.s_flag = 0
         /\ ServerWriteOk(c, answer)
         /\ sess' = [sess EXCEPT ![b] = f]
         /\ UNCHANGED <<srv, sent>>
      \/ /\ f.data \in Ids
         /\ ServerWriteOk(c, detail)
         /\ sess' = [sess EXCEPT ![b] = r]
         /\ sent' = [sent EXCEPT ![c] = Append(@, f.data)]
      \/ /\ ServerWriteOk(c, answer)
         /\ sess' = [sess EXCEPT ![b] = f]
         /\ srv' = "segv"
         /\ UNCHANGED sent
      \/ /\ \E cells : ServerWriteFails(c, cells)
         /\ sess' = [sess EXCEPT ![b] = f]
         /\ srv' = "exited"
         /\ UNCHANGED sent
  BY DEF Respond
<1> HIDE DEF f, r
<1>3. ASSUME NEW cells, ServerWriteOk(c, cells)
      PROVE  /\ \A d \in Clients \ {c} : down'[d] = down[d] /\ cend'[d] = cend[d]
             /\ cend'[c] = "open" => cend[c] = "open"
             /\ cend'[c] = "none" => cend[c] = "none"
             /\ Added(c, cells)
  BY <1>0, <1>3 DEF ServerWriteOk, SocketsTypeOK, Added
<1>4. ASSUME NEW cells, ServerWriteFails(c, cells)
      PROVE  UNCHANGED <<down, cend>> /\ Added(c, answer)
  BY <1>4 DEF ServerWriteFails, Added
<1>5. sent \in [Clients -> Seq(Ids)]
  BY <1>0 DEF ServerTypeOK
<1>6. CASE /\ f.s_flag = 0
           /\ ServerWriteOk(c, answer)
           /\ sess' = [sess EXCEPT ![b] = f]
           /\ UNCHANGED <<srv, sent>>
  BY <1>1, <1>3, <1>6 DEF Answered
<1>7. CASE /\ f.data \in Ids
           /\ ServerWriteOk(c, detail)
           /\ sess' = [sess EXCEPT ![b] = r]
           /\ sent' = [sent EXCEPT ![c] = Append(@, f.data)]
  <2>1. /\ sent'[c] = Append(sent[c], f.data)
        /\ \A d \in Clients \ {c} : sent'[d] = sent[d]
    BY <1>5, <1>7
  <2> QED  BY <1>1, <1>3, <1>7, <2>1 DEF Answered
<1>8. CASE /\ ServerWriteOk(c, answer)
           /\ sess' = [sess EXCEPT ![b] = f]
           /\ srv' = "segv"
           /\ UNCHANGED sent
  BY <1>1, <1>3, <1>8 DEF Answered
<1>9. CASE /\ \E cells : ServerWriteFails(c, cells)
           /\ sess' = [sess EXCEPT ![b] = f]
           /\ srv' = "exited"
           /\ UNCHANGED sent
  BY <1>1, <1>4, <1>9 DEF Answered
<1> QED  BY <1>2, <1>6, <1>7, <1>8, <1>9

\* The flags after a request: a thanks, an "again" that asks for the record, or
\* neither.
LEMMA FlagCases ==
  ASSUME NEW s \in Session, NEW res
  PROVE  LET f == Flagged(s, res)
         IN  \/ f.s_flag = s.s_flag /\ f.ty_flag \in {s.ty_flag, 1}
             \/ f.s_flag = 1 /\ s.ty_flag = 1 /\ f.ty_flag = 0
BY DEF Flagged, Session

\* The flags an answer leaves, and what is sent for them.
LEMMA RespondFlags ==
  ASSUME TypeOK, NEW c \in Clients, NEW b \in Blocks, NEW s \in Session,
         NEW answer, NEW res, srv = "up", Respond(c, b, s, answer, res)
  PROVE  /\ srv' # "up" => sent' = sent
         /\ srv' = "up" =>
              /\ sess'[b].ty_flag = Flagged(s, res).ty_flag
              /\ \/ Flagged(s, res).s_flag = 0 /\ sent' = sent
                 \/ /\ Flagged(s, res).s_flag = 1
                    /\ sent' = [sent EXCEPT ![c] = Append(@, s.data)]
<1> DEFINE f == Flagged(s, res)
<1>1. f \in Session /\ f.data = s.data
  BY FlaggedFacts
<1>2. sess \in [Blocks -> Session]
  BY DEF TypeOK, ServerTypeOK
<1>3. \/ f.s_flag = 0 /\ sess' = [sess EXCEPT ![b] = f] /\ UNCHANGED <<srv, sent>>
      \/ /\ f.s_flag = 1
         /\ sess' = [sess EXCEPT ![b] = [f EXCEPT !.s_flag = 0]]
         /\ sent' = [sent EXCEPT ![c] = Append(@, f.data)]
         /\ UNCHANGED srv
      \/ srv' # "up" /\ UNCHANGED sent
  BY DEF Respond
<1> HIDE DEF f
<1>4. /\ srv' # "up" => sent' = sent
      /\ srv' = "up" =>
           /\ sess'[b].ty_flag = f.ty_flag
           /\ \/ f.s_flag = 0 /\ sent' = sent
              \/ f.s_flag = 1 /\ sent' = [sent EXCEPT ![c] = Append(@, s.data)]
  BY <1>1, <1>2, <1>3 DEF Session
<1> QED  BY <1>4 DEF f

\* Steps of the server that write nothing.
LEMMA SelectStage ==
  ASSUME SInv, Select, UNCHANGED clientVars, NEW d \in Clients
  PROVE  Stage(d)'
<1>1. Links(d) /\ Streams(d) /\ Stage(d)
  BY DEF Links, Streams, Select, clientVars, SInv, NoSession, SessionFor, Queued
<1> QED  BY <1>1, StageAside

\* A client that is accepted has still to be read, or was refused in vain.
LEMMA AcceptStage ==
  ASSUME SInv, AcceptClient, UNCHANGED clientVars, NEW d \in Clients
  PROVE  Stage(d)'
<1>1. /\ srv = "up" /\ ListenFD \in readFDs /\ IInv /\ Stage(d)
      /\ UNCHANGED <<up, down, cend, serverStore, sess, sent, arg, shown, client>>
      /\ SocketsTypeOK /\ ServerTypeOK
  BY DEF AcceptClient, Turn, SInv, IInv, TypeOK, clientVars
<1>2. Streams(d)
  BY <1>1 DEF Streams
<1>3. CASE srv' = "exited" /\ UNCHANGED <<backlog, sock>>
  <2>1. Links(d)
    BY <1>1, <1>3 DEF Links, NoSession, SessionFor, Queued
  <2> QED  BY <1>1, <1>2, <2>1, StageAside
<1>4. ASSUME NEW newFD \in Fds \ OpenFds,
             sock' = [sock EXCEPT ![newFD] = Head(backlog)],
             backlog' = Tail(backlog),
             srv' = srv
      PROVE  Stage(d)'
  <2>1. backlog # <<>>
    BY <1>1, FdsAbove DEF IInv, VisitsNeverBlock, OpenFds
  <2>2. /\ Head(backlog) = backlog[1] /\ 1 \in DOMAIN backlog
        /\ \A k \in DOMAIN Tail(backlog) :
             k + 1 \in DOMAIN backlog /\ Tail(backlog)[k] = backlog[k + 1]
    BY <1>1, <2>1 DEF SocketsTypeOK
  <2>3. \A f \in Fds : sock'[f] = IF f = newFD THEN backlog[1] ELSE sock[f]
    BY <1>1, <1>4, <2>2 DEF ServerTypeOK
  <2>4. Queued(d)' => Queued(d)
    BY <1>4, <2>2 DEF Queued
  <2>5. CASE d # backlog[1]
    <3>1. Links(d)
      BY <1>1, <1>4, <2>3, <2>4, <2>5 DEF Links, NoSession, SessionFor
    <3> QED  BY <1>1, <1>2, <3>1, StageAside
  <2>6. CASE d = backlog[1]
    <3>1. Queued(d) /\ cend[d] # "none" /\ ~ Served(d)
      BY <1>1, <2>2, <2>6 DEF Queued, Stage, Outside, Served
    <3>2. CASE Waiting(d)
      <4>1. \A f \in Fds : sock'[f] = d => f = newFD
        BY <1>1, <2>2, <2>3, <2>6 DEF IInv, OneConnection
      <4>2. NoSession(newFD)
        BY <1>1, <1>4 DEF IInv, NoAcceptAfterError, SessionsWatched, NoSession
      <4>3. Waiting(d)'
        BY <1>1, <3>2, <4>1, <4>2 DEF Waiting, NoSession
      <4> QED  BY <1>1, <3>1, <4>3 DEF Stage
    <3>3. CASE Refused(d)
      BY <1>1, <3>1, <3>3 DEF Refused, Stage
    <3> QED  BY <1>1, <3>1, <3>2, <3>3 DEF Stage
  <2> QED  BY <2>5, <2>6
<1> QED  BY <1>3, <1>4 DEF AcceptClient

\* A descriptor that is closed takes only its own session along.
LEMMA CloseStage ==
  ASSUME SInv, NEW i \in Fds, HangUp(i) \/ ReadError(i), UNCHANGED clientVars,
         NEW d \in Clients
  PROVE  Stage(d)'
<1>1. /\ IInv /\ ServerTypeOK /\ Stage(d)
      /\ sock' = [sock EXCEPT ![i] = NoClient] /\ d # NoClient
      /\ UNCHANGED <<backlog, up, down, cend, sess, sent, arg, shown, client>>
      /\ srv = "up"
  BY ServerAssumption DEF SInv, IInv, TypeOK, HangUp, ReadError, ReadCloses, Turn,
     clientVars, ServerAssumption
<1>2. /\ serverStore' \subseteq serverStore
      /\ \A b \in serverStore \ serverStore' : sess[b].fd = i
  BY DEF HangUp, ReadError, ss_delete, ss_search
<1>3. \A f \in Fds : sock'[f] = d => f # i /\ sock[f] = d
  BY <1>1 DEF ServerTypeOK
<1>4. Links(d)
  BY <1>1, <1>2, <1>3 DEF Links, NoSession, SessionFor, Queued
<1>5. Streams(d)
  BY <1>1 DEF Streams
<1> QED  BY <1>1, <1>4, <1>5, StageAside

\* What a request of c, on descriptor i, is answered from: the session of i, a
\* new one, or none.
FromSession(i, b, s, answer) ==
  /\ b \in serverStore /\ sess[b].fd = i /\ s = sess[b] /\ answer = <<>>
  /\ serverStore' = serverStore

FromNew(i, b, s, answer, c) ==
  /\ NoSession(i) /\ b \notin serverStore /\ serverStore' = serverStore \cup {b}
  /\ s.fd = i /\ s.data \in StudentIds /\ s.s_flag = 1 /\ s.ty_flag = 0
  /\ answer = <<>>
  /\ Waiting(c) => s.data = arg[c]

FromNone(i, b, s, answer, c) ==
  /\ NoSession(i) /\ s = sess[b] /\ answer = TextFrame("not_found")
  /\ serverStore' = serverStore
  /\ Waiting(c) => arg[c] \notin StudentIds

\* The id a client sends first raises no flag.
Unflagged(c, s, res) == Waiting(c) => Flagged(s, res) = s

\* A request is answered from the session on its descriptor, from a new one, or
\* with a refusal, whatever session is in hand then.
LEMMA RequestCases ==
  ASSUME ShortReads = FALSE, SInv, NEW i \in Fds, Request(i)
  PROVE  /\ sock[i] \in Clients /\ i \in OpenFds /\ srv = "up"
         /\ UNCHANGED <<backlog, sock>>
         /\ \A d \in Clients \ {sock[i]} : up'[d] = up[d]
         /\ \E b \in Blocks, s \in Session, answer \in Seq(Cells) :
              /\ \E res : /\ Respond(sock[i], b, s, answer, res)
                         /\ Unflagged(sock[i], s, res)
              /\ \/ FromSession(i, b, s, answer)
                 \/ FromNew(i, b, s, answer, sock[i])
                 \/ FromNone(i, b, s, answer, sock[i])
<1> DEFINE c == sock[i]
           res(n) == Message(SubSeq(up[c], 1, n))
<1>0. /\ IInv /\ SocketsTypeOK /\ ServerTypeOK /\ ClientTypeOK /\ Turn(i)
  BY DEF SInv, IInv, TypeOK, Request
<1>1. /\ srv = "up" /\ i \in OpenFds /\ c \in Clients
  BY <1>0, VisitedIsOpen
<1>2. UNCHANGED <<backlog, sock>>
  BY DEF Request
<1>3. PICK n \in ReadSizes(up[c]) :
        /\ up' = [up EXCEPT ![c] = Rest(@, n)]
        /\ \/ \E b \in ss_search(i) :
                /\ Respond(c, b, sess[b], <<>>, res(n))
                /\ UNCHANGED serverStore
           \/ /\ ss_search(i) = {}
              /\ st_search(atoi(res(n).buffer))
              /\ \E b \in Blocks :
                   /\ Fresh(b)
                   /\ serverStore' = serverStore \cup {b}
                   /\ Respond(c, b, create_ss(i, atoi(res(n).buffer)), <<>>, res(n))
           \/ /\ ss_search(i) = {}
              /\ ~ st_search(atoi(res(n).buffer))
              /\ Respond(c, clientData, sess[clientData],
                         TextFrame("not_found"), res(n))
              /\ UNCHANGED serverStore
  BY DEF Request
<1>4. \A d \in Clients \ {c} : up'[d] = up[d]
  BY <1>0, <1>3 DEF SocketsTypeOK
<1>5. up[c] \in Seq(Cells) /\ arg[c] \in Ids /\ arg[c] \in Cells
  BY <1>0, <1>1, ClientAssumption
     DEF SocketsTypeOK, ClientTypeOK, ClientAssumption, Cells
<1>6. /\ Waiting(c) => atoi(res(n).buffer) = arg[c]
      /\ \A s : Unflagged(c, s, res(n))
  <2> SUFFICES ASSUME Waiting(c)
               PROVE  /\ atoi(res(n).buffer) = arg[c]
                      /\ \A s : Flagged(s, res(n)) = s
    BY DEF Unflagged
  <2>1. Begins(up[c], arg[c]) /\ n \in ReadSizes(up[c])
    BY <1>3 DEF Waiting
  <2>2. res(n) = [msg |-> "buffer", buffer |-> arg[c], detail |-> "blank"]
    BY <1>5, <2>1, BeginsRead
  <2> HIDE DEF res
  <2>3. res(n).msg = "buffer" /\ res(n).buffer = arg[c]
    BY <2>2
  <2>4. arg[c] # "again" /\ arg[c] # "thank_you"
    BY <1>5, IdsApart DEF Words
  <2>5. \A s : Flagged(s, res(n)) = s
    BY <2>3, <2>4 DEF Flagged
  <2> QED  BY <1>5, <2>3, <2>5 DEF atoi
<1>7. ss_search(i) = {} => NoSession(i)
  BY DEF ss_search, NoSession
<1>8. <<>> \in Seq(Cells) /\ TextFrame("not_found") \in Seq(Cells)
  BY FrameTypes DEF Cells, Words
<1> DEFINE Found == \E b \in Blocks, s \in Session, answer \in Seq(Cells) :
             /\ \E r : Respond(c, b, s, answer, r) /\ Unflagged(c, s, r)
             /\ \/ FromSession(i, b, s, answer)
                \/ FromNew(i, b, s, answer, c)
                \/ FromNone(i, b, s, answer, c)
<1> HIDE DEF res
<1>9. ASSUME NEW b \in ss_search(i), Respond(c, b, sess[b], <<>>, res(n)),
             UNCHANGED serverStore
      PROVE  Found
  <2>1. /\ b \in Blocks /\ sess[b] \in Session
        /\ FromSession(i, b, sess[b], <<>>)
    BY <1>0, <1>9 DEF ss_search, FromSession, ServerTypeOK
  <2> QED  BY <1>6, <1>8, <1>9, <2>1
<1>10. ASSUME ss_search(i) = {}, st_search(atoi(res(n).buffer)), NEW b \in Blocks,
              Fresh(b), serverStore' = serverStore \cup {b},
              Respond(c, b, create_ss(i, atoi(res(n).buffer)), <<>>, res(n))
       PROVE  Found
  <2> DEFINE id == atoi(res(n).buffer)
  <2>1. id \in StudentIds /\ id \in Ids /\ (Waiting(c) => id = arg[c])
    BY <1>6, <1>10, ServerAssumption DEF st_search, ServerAssumption
  <2> HIDE DEF id
  <2>2. /\ create_ss(i, id) \in Session
        /\ FromNew(i, b, create_ss(i, id), <<>>, c)
    BY <1>7, <1>10, <2>1 DEF create_ss, Session, FromNew, Fresh
  <2>3. Respond(c, b, create_ss(i, id), <<>>, res(n))
    BY <1>10 DEF id
  <2> QED  BY <1>6, <1>8, <2>2, <2>3
<1>11. ASSUME ss_search(i) = {}, ~ st_search(atoi(res(n).buffer)),
              Respond(c, clientData, sess[clientData], TextFrame("not_found"), res(n)),
              UNCHANGED serverStore
       PROVE  Found
  <2>1. /\ clientData \in Blocks /\ sess[clientData] \in Session
        /\ FromNone(i, clientData, sess[clientData], TextFrame("not_found"), c)
    BY <1>0, <1>6, <1>7, <1>11 DEF ServerTypeOK, FromNone, st_search
  <2> QED  BY <1>6, <1>8, <1>11, <2>1
<1>12. Found
  BY <1>3, <1>9, <1>10, <1>11
<1> QED  BY <1>1, <1>2, <1>4, <1>12

\* The server reads from c and answers: c is served, refused, or stays what it
\* was, and nobody else takes notice.
LEMMA RequestStage ==
  ASSUME ShortReads = FALSE, SInv, NEW i \in Fds, Request(i), UNCHANGED clientVars,
         NEW d \in Clients
  PROVE  Stage(d)'
<1>c. PICK c \in Clients : c = sock[i]
  BY RequestCases
<1>0. /\ IInv /\ TypeOK /\ SocketsTypeOK /\ ServerTypeOK /\ ClientTypeOK
      /\ Stage(c) /\ Stage(d) /\ UNCHANGED <<client, arg, shown>>
  BY DEF SInv, IInv, TypeOK, clientVars
<1>1. /\ c \in Clients /\ i \in OpenFds /\ srv = "up" /\ UNCHANGED <<backlog, sock>>
      /\ \A e \in Clients \ {c} : up'[e] = up[e]
  BY <1>c, RequestCases
<1>2. PICK b \in Blocks, s \in Session, answer \in Seq(Cells) :
        /\ \E res : Respond(c, b, s, answer, res)
        /\ \/ FromSession(i, b, s, answer)
           \/ FromNew(i, b, s, answer, c)
           \/ FromNone(i, b, s, answer, c)
  BY <1>c, RequestCases
<1>3. /\ Answered(b, s)
      /\ \A e \in Clients \ {c} : /\ down'[e] = down[e] /\ cend'[e] = cend[e]
                                  /\ sent'[e] = sent[e]
      /\ cend'[c] = "open" => cend[c] = "open"
      /\ cend'[c] = "none" => cend[c] = "none"
      /\ \/ /\ sent'[c] = sent[c] /\ Added(c, answer)
            /\ srv' = "up" => s.s_flag = 0
         \/ /\ s.data \in Ids
            /\ sent'[c] = Append(sent[c], s.data)
            /\ Added(c, answer \o DetailFrame(s.data))
  <2>1. PICK res : TypeOK /\ srv = "up" /\ Respond(c, b, s, answer, res)
    BY <1>0, <1>1, <1>2
  <2> QED  BY <2>1, RespondResult, Zenon
<1>4. PICK r \in Session : /\ sess' = [sess EXCEPT ![b] = r]
                           /\ r.fd = s.fd /\ r.data = s.data
                           /\ srv' = "up" => r.s_flag = 0
  BY <1>3 DEF Answered
\* The sessions of the other descriptors are what they were.
<1>5. \A x \in serverStore : /\ x \in serverStore'
                             /\ sess'[x].fd = sess[x].fd
                             /\ sess'[x].data = sess[x].data
                             /\ (srv' = "up" /\ sess[x].s_flag = 0) => sess'[x].s_flag = 0
  BY <1>0, <1>2, <1>4 DEF FromSession, FromNew, FromNone, ServerTypeOK
<1>6. \A x \in serverStore' : x \in serverStore \/ sess'[x].fd = i
  BY <1>0, <1>2, <1>4 DEF FromSession, FromNew, FromNone, ServerTypeOK
<1>7. CASE d # c
  <2>1. Streams(d)
    BY <1>0, <1>1, <1>3, <1>7 DEF Streams
  <2>2. \A f \in Fds : sock[f] = d => f # i
    BY <1>7, <1>c
  <2>3. \A f \in Fds : sock[f] = d /\ NoSession(f) => NoSession(f)'
    BY <1>5, <1>6, <2>2 DEF NoSession
  <2>4. \A f \in Fds : sock[f] = d /\ SessionFor(f, arg[d]) => SessionFor(f, arg[d])'
    BY <1>0, <1>1, <1>5, <2>2 DEF SessionFor
  <2>5. Links(d)
    BY <1>0, <1>1, <1>3, <1>7, <2>3, <2>4 DEF Links, Queued
  <2> QED  BY <1>0, <2>1, <2>5, StageAside
<1> SUFFICES ASSUME d = c
             PROVE  Stage(c)'
  BY <1>7
<1>8. /\ cend[c] # "none" /\ cend'[c] # "none" /\ ~ Queued(c)' /\ client[c] # "start"
      /\ \A f \in Fds : sock'[f] = c => f = i
  BY <1>c, <1>0, <1>1, <1>3
     DEF Stage, Outside, IInv, OneConnection, Queued, OpenFds, ServerTypeOK
<1>9. down[c] \in Seq(Cells) /\ sent[c] \in Seq(Ids) /\ arg[c] \in Ids
  BY <1>0, <1>1, ClientAssumption
     DEF SocketsTypeOK, ServerTypeOK, ClientTypeOK, ClientAssumption
\* A record of its own, or nothing.
<1>10. ASSUME Details(down[c], arg[c]), AllAre(sent[c], arg[c]), AllAre(shown[c], arg[c]),
              arg[c] \in StudentIds, s.data = arg[c], answer = <<>>,
              srv' = "up" => sent'[c] # <<>>, SessionFor(i, arg[c])'
       PROVE  Served(c)'
  <2>1. Details(down'[c], arg[c]) /\ AllAre(sent'[c], arg[c])
    <3>1. CASE sent'[c] = sent[c] /\ Added(c, <<>>)
      <4>1. down'[c] = down[c]
        BY <1>9, <3>1 DEF Added
      <4> QED  BY <1>10, <3>1, <4>1
    <3>2. CASE /\ sent'[c] = Append(sent[c], arg[c])
               /\ Added(c, <<>> \o DetailFrame(arg[c]))
      <4>1. AllAre(sent'[c], arg[c])
        BY <1>9, <1>10, <3>2 DEF AllAre
      <4>2. <<>> \o DetailFrame(arg[c]) = DetailFrame(arg[c])
        BY <1>9, FrameTypes
      <4>3. Details(down[c] \o DetailFrame(arg[c]), arg[c])
        BY <1>9, <1>10, DetailsGrow
      <4> QED  BY <1>10, <3>2, <4>1, <4>2, <4>3 DEF Added
    <3> QED  BY <1>3, <1>10, <3>1, <3>2
  <2> QED  BY <1>0, <1>8, <1>10, <2>1 DEF Served
<1>11. CASE Waiting(c)
  <2>0. NoSession(i) /\ sent[c] = <<>> /\ shown[c] = <<>> /\ down[c] = <<>>
    BY <1>c, <1>1, <1>11 DEF Waiting, OpenFds
  <2>1. CASE FromNew(i, b, s, answer, c)
    <3>1. /\ s.data = arg[c] /\ s.s_flag = 1 /\ s.fd = i /\ answer = <<>>
          /\ arg[c] \in StudentIds
      BY <1>11, <2>1 DEF FromNew
    <3>2. SessionFor(i, arg[c])'
      BY <1>0, <1>4, <2>1, <3>1 DEF SessionFor, FromNew, ServerTypeOK
    <3>3. srv' = "up" => sent'[c] # <<>>
      BY <1>3, <1>9, <3>1
    <3>4. Details(down[c], arg[c]) /\ AllAre(sent[c], arg[c]) /\ AllAre(shown[c], arg[c])
      BY <2>0, DetailsEmpty DEF AllAre
    <3> QED  BY <1>8, <1>10, <3>1, <3>2, <3>3, <3>4, <1>0 DEF Stage
  <2>2. CASE FromNone(i, b, s, answer, c)
    <3>1. answer = TextFrame("not_found") /\ arg[c] \notin StudentIds
      BY <1>11, <2>2 DEF FromNone
    <3>2. /\ "not_found" \in Cells /\ TextFrame("not_found") \in Seq(Cells)
          /\ s.data \in Ids => DetailFrame(s.data) \in Seq(Cells)
      BY FrameTypes DEF Cells, Words
    <3>3. cend'[c] = "open" => Begins(down'[c], "not_found")
      <4> DEFINE frame == TextFrame("not_found")
      <4>1. /\ Begins(frame, "not_found")
            /\ s.data \in Ids => Begins(frame \o DetailFrame(s.data), "not_found")
        BY <3>2, FrameBegins
      <4>2. /\ <<>> \o frame = frame
            /\ s.data \in Ids => <<>> \o (frame \o DetailFrame(s.data))
                                 = frame \o DetailFrame(s.data)
        <5>1. \A t \in Seq(Cells) : <<>> \o t = t
          OBVIOUS
        <5>2. s.data \in Ids => frame \o DetailFrame(s.data) \in Seq(Cells)
          BY <3>2, Joined
        <5> QED  BY <3>2, <5>1, <5>2
      <4> HIDE DEF frame
      <4> QED  BY <1>3, <2>0, <3>1, <4>1, <4>2 DEF Added, frame
    <3> QED  BY <1>0, <1>8, <2>0, <3>1, <3>3 DEF Refused, Stage
  <2> QED  BY <1>2, <2>0, <2>1, <2>2 DEF FromSession, NoSession
<1>12. CASE Served(c)
  <2>1. PICK x \in serverStore : sess[x].fd = i /\ sess[x].data = arg[c]
    BY <1>c, <1>1, <1>12 DEF Served, SessionFor, OpenFds
  <2>2. FromSession(i, b, s, answer)
    BY <1>2, <2>1 DEF FromNew, FromNone, NoSession
  <2>3. b = x /\ s = sess[x] /\ answer = <<>>
    BY <1>0, <2>1, <2>2 DEF FromSession, IInv, OneSessionPerFd
  <2>4. SessionFor(i, arg[c])'
    BY <1>0, <1>4, <2>1, <2>2, <2>3 DEF SessionFor, FromSession, ServerTypeOK
  <2>5. srv' = "up" => sent'[c] # <<>>
    BY <1>1, <1>3, <1>9, <1>12 DEF Served
  <2>6. /\ Details(down[c], arg[c]) /\ AllAre(sent[c], arg[c]) /\ AllAre(shown[c], arg[c])
        /\ arg[c] \in StudentIds
    BY <1>12 DEF Served
  <2> QED  BY <1>0, <1>8, <1>10, <2>1, <2>3, <2>4, <2>5, <2>6 DEF Stage
<1>13. CASE Refused(c)
  <2>1. ASSUME cend'[c] = "open"
        PROVE  Begins(down'[c], "not_found")
    <3>1. Begins(down[c], "not_found")
      BY <1>3, <1>13, <2>1 DEF Refused
    <3>2. "not_found" \in Cells /\ answer \in Seq(Cells)
      BY DEF Cells, Words
    <3>3. s.data \in Ids => answer \o DetailFrame(s.data) \in Seq(Cells)
      BY <3>2, FrameTypes, Joined
    <3> QED  BY <1>3, <1>9, <3>1, <3>2, <3>3, BeginsGrow DEF Added
  <2> QED  BY <1>0, <1>8, <1>13, <2>1 DEF Refused, Stage
<1> QED  BY <1>0, <1>8, <1>11, <1>12, <1>13 DEF Stage

-----------------------------------------------------------------------------
(* The stages are invariant, and what follows *)

\* Nobody has connected.
LEMMA InitSInv == Init => SInv
<1> SUFFICES ASSUME Init
             PROVE  SInv
  OBVIOUS
<1>1. IInv
  BY InitIInv
<1>2. ASSUME NEW c \in Clients
      PROVE  Stage(c)
  BY ServerAssumption DEF Init, SocketsInit, ServerInit, ClientInit, Stage,
     Outside, Queued, ServerAssumption
<1> QED  BY <1>1, <1>2 DEF SInv

\* Every step keeps the stages.
LEMMA NextSInv ==
  ASSUME ShortReads = FALSE
  PROVE  SInv /\ [Next]_vars => SInv'
<1> SUFFICES ASSUME SInv, [Next]_vars
             PROVE  SInv'
  OBVIOUS
<1>1. IInv'
  BY NextIInv DEF SInv
<1>2. ASSUME NEW d \in Clients
      PROVE  Stage(d)'
  <2>1. CASE Server
    <3>1. ServerNext /\ UNCHANGED clientVars
      BY <2>1 DEF Server
    <3>2. CASE Select
      BY <3>1, <3>2, SelectStage
    <3>3. CASE AcceptClient
      BY <3>1, <3>3, AcceptStage
    <3>4. CASE \E i \in Fds : HangUp(i) \/ ReadError(i)
      BY <3>1, <3>4, CloseStage
    <3>5. CASE \E i \in Fds : Request(i)
      BY <3>1, <3>5, RequestStage
    <3> QED  BY <3>1, <3>2, <3>3, <3>4, <3>5 DEF ServerNext
  <2>2. CASE \E c \in Clients : Client(c)
    BY <2>2, ClientStage
  <2>3. CASE UNCHANGED vars
    <3>1. Links(d) /\ Streams(d) /\ Stage(d)
      BY <2>3 DEF Links, Streams, vars, sockVars, serverVars, clientVars, SInv,
         NoSession, SessionFor, Queued
    <3> QED  BY <3>1, StageAside
  <2> QED  BY <2>1, <2>2, <2>3 DEF Next
<1> QED  BY <1>1, <1>2 DEF SInv

\* Every client goes through its stages.
THEOREM StagesKept ==
  ASSUME ShortReads = FALSE
  PROVE  Spec => []SInv
<1>1. SInv /\ [Next]_vars => SInv'
  BY NextSInv
<1> QED  BY InitSInv, <1>1, PTL DEF Spec

\* A client displays no record but that of the id it was started with
\* (client.c:102-119): whatever the others do, whatever ids they send, and
\* whoever used its descriptor before.
THEOREM DisplaysOwn ==
  ASSUME ShortReads = FALSE
  PROVE  Spec => []DisplayedOwn
<1>1. SInv => DisplayedOwn
  BY DEF SInv, Stage, Outside, Waiting, Served, Refused, AllAre, DisplayedOwn
<1> QED  BY <1>1, StagesKept, PTL

\* When every client asks for a student, every record the server sends goes to
\* the client that asked for it (server.c:104-124, 143-150).
THEOREM DetailsOwned ==
  ASSUME ShortReads = FALSE, IdArgs \subseteq StudentIds
  PROVE  Spec => []DetailsGoToOwner
<1>1. SInv => DetailsGoToOwner
  <2> SUFFICES ASSUME SInv, NEW c \in Clients
               PROVE  AllAre(sent[c], arg[c])
    BY DEF DetailsGoToOwner, AllAre
  <2>1. Stage(c) /\ arg[c] \in StudentIds
    BY DEF SInv, IInv, TypeOK, ClientTypeOK
  <2> QED  BY <2>1 DEF Stage, Outside, Waiting, Served, Refused, AllAre
<1> QED  BY <1>1, StagesKept, PTL

-----------------------------------------------------------------------------
(* The server implements the service *)

\* What the phase of c depends on.
PhaseIs(c, p) ==
  \/ p = "left" /\ (srv # "up" \/ (Accepted(c) /\ ~ Connected(c)))
  \/ /\ p = "out" /\ srv = "up" /\ (~ Accepted(c) \/ Connected(c))
     /\ \A b \in serverStore : sock[sess[b].fd] # c
  \/ /\ srv = "up" /\ (~ Accepted(c) \/ Connected(c))
     /\ \E b \in serverStore :
          /\ sock[sess[b].fd] = c
          /\ \/ p = "thanked" /\ sess[b].ty_flag = 1
             \/ p = "served" /\ sess[b].ty_flag = 0

OnePhase == \A c \in Clients : \A p : PhaseIs(c, p) => ServicePhase(c) = p

\* A client has one phase, since it has one session at most.
LEMMA PhaseOf == IInv => OnePhase
<1> SUFFICES ASSUME NEW c \in Clients, IInv, NEW p, PhaseIs(c, p)
             PROVE  ServicePhase(c) = p
  BY DEF OnePhase
<1> DEFINE Its(b) == b \in serverStore /\ sock[sess[b].fd] = c
<1>1. ASSUME NEW b1, NEW b2, Its(b1), Its(b2)
      PROVE  b1 = b2
  <2>1. sess[b1].fd \in Fds /\ sess[b2].fd \in Fds
    BY <1>1 DEF IInv, TypeOK, ServerTypeOK, SessionsWatched
  <2>2. sess[b1].fd \in OpenFds /\ sess[b2].fd \in OpenFds
    BY <1>1, <2>1, ServerAssumption DEF OpenFds, ServerAssumption
  <2>3. sess[b1].fd = sess[b2].fd
    BY <1>1, <2>2 DEF IInv, OneConnection
  <2> QED  BY <1>1, <2>3 DEF IInv, OneSessionPerFd
<1>2. ASSUME NEW b, Its(b)
      PROVE  (CHOOSE x \in serverStore : sock[sess[x].fd] = c) = b
  BY <1>1, <1>2
<1>3. CASE p = "left" /\ (srv # "up" \/ (Accepted(c) /\ ~ Connected(c)))
  BY <1>3 DEF ServicePhase
<1>4. CASE /\ p = "out" /\ srv = "up" /\ (~ Accepted(c) \/ Connected(c))
           /\ \A b \in serverStore : sock[sess[b].fd] # c
  BY <1>4 DEF ServicePhase
<1>5. CASE /\ srv = "up" /\ (~ Accepted(c) \/ Connected(c))
           /\ \E b \in serverStore :
                /\ sock[sess[b].fd] = c
                /\ \/ p = "thanked" /\ sess[b].ty_flag = 1
                   \/ p = "served" /\ sess[b].ty_flag = 0
  <2>1. PICK b \in serverStore :
          /\ sock[sess[b].fd] = c
          /\ \/ p = "thanked" /\ sess[b].ty_flag = 1
             \/ p = "served" /\ sess[b].ty_flag = 0
    BY <1>5
  <2> DEFINE found == CHOOSE x \in serverStore : sock[sess[x].fd] = c
  <2>2. found = b
    BY <1>2, <2>1
  <2>3. ~ (srv # "up" \/ (Accepted(c) /\ ~ Connected(c)))
    BY <1>5
  <2>4. ServicePhase(c) = IF sess[found].ty_flag = 1 THEN "thanked" ELSE "served"
    BY <2>1, <2>3, Zenon DEF ServicePhase
  <2> HIDE DEF found
  <2> QED  BY <2>1, <2>2, <2>4
<1> QED  BY <1>3, <1>4, <1>5 DEF PhaseIs

\* A client has one phase after a step, too.
LEMMA PhaseOfNext == IInv' => OnePhase'
BY PhaseOf, PTL

\* And it has one.
LEMMA PhaseFound ==
  ASSUME IInv, NEW c \in Clients
  PROVE  \E p : PhaseIs(c, p)
BY DEF PhaseIs, IInv, TypeOK, ServerTypeOK, Session

\* A step that leaves what the phase of d depends on.
Alike(d) ==
  /\ srv' = srv
  /\ Accepted(d)' <=> Accepted(d)
  /\ Connected(d)' <=> Connected(d)
  /\ \A b \in serverStore : sock[sess[b].fd] = d =>
       /\ b \in serverStore' /\ sock'[sess'[b].fd] = d
       /\ sess'[b].ty_flag = sess[b].ty_flag
  /\ \A b \in serverStore' : sock'[sess'[b].fd] = d =>
       b \in serverStore /\ sock[sess[b].fd] = d

\* A step that leaves what the phase depends on leaves the phase.
LEMMA PhaseKept ==
  ASSUME IInv, IInv', NEW d \in Clients, Alike(d)
  PROVE  ServicePhase(d)' = ServicePhase(d)
<1>1. PICK p : PhaseIs(d, p)
  BY PhaseFound
<1>2. PhaseIs(d, p)'
  BY <1>1 DEF Alike, PhaseIs
<1> QED  BY <1>1, <1>2, PhaseOf, PhaseOfNext DEF OnePhase

\* A step the service does not see.
LEMMA Unseen ==
  ASSUME IInv, IInv', sent' = sent, \A d \in Clients : Alike(d)
  PROVE  UNCHANGED Service!serviceVars
<1>1. \A d \in Clients : ServicePhase(d)' = ServicePhase(d)
  BY PhaseKept
<1> QED  BY <1>1 DEF Service!serviceVars

\* The end of the server is the end of the service.
LEMMA Stops ==
  ASSUME IInv, IInv', sent' = sent, srv' # "up"
  PROVE  Service!Shutdown
<1>1. \A d \in Clients : ServicePhase(d)' = "left"
  BY PhaseOfNext DEF OnePhase, PhaseIs
<1> QED  BY <1>1 DEF Service!Shutdown

\* A step of one client.
LEMMA Moves ==
  ASSUME IInv, IInv', NEW c \in Clients, NEW from, NEW to,
         PhaseIs(c, from), PhaseIs(c, to)', \A d \in Clients \ {c} : Alike(d)
  PROVE  Service!Move(c, from, to)
<1>1. ServicePhase(c) = from /\ ServicePhase(c)' = to
  BY PhaseOf, PhaseOfNext DEF OnePhase
<1>2. \A d \in Clients \ {c} : ServicePhase(d)' = ServicePhase(d)
  BY PhaseKept
<1>3. \A d \in Clients : ServicePhase(d)' = IF d = c THEN to ELSE ServicePhase(d)
  BY <1>1, <1>2
<1> QED  BY <1>1, <1>3 DEF Service!Move

\* What the clients do, and select, the service does not see.
LEMMA ClientUnseen ==
  ASSUME SInv, IInv', NEW c \in Clients, Client(c)
  PROVE  UNCHANGED Service!serviceVars
<1>1. /\ IInv /\ SocketsTypeOK /\ ClientTypeOK /\ Stage(c)
      /\ UNCHANGED serverVars /\ ClientNext(c)
  BY DEF SInv, IInv, TypeOK, Client
<1>2. CASE srv # "up"
  <2>1. srv' = srv
    BY <1>1 DEF ClientNext, Connect, ConnectError, StdinLine, StdinQuit, StdinEOF,
       SelectError, SockMessage, SockEnd, Killed, sockVars
  <2>2. \A d \in Clients : ServicePhase(d) = "left" /\ ServicePhase(d)' = "left"
    BY <1>1, <1>2, <2>1, PhaseOf, PhaseOfNext DEF OnePhase, PhaseIs
  <2> QED  BY <1>1, <2>2 DEF serverVars, Service!serviceVars
<1>3. CASE srv = "up"
  <2>1. CASE Connect(c)
    <3>1. /\ srv' = srv /\ backlog' = Append(backlog, c) /\ backlog \in Seq(Clients)
          /\ client[c] = "start" /\ client'[c] = "run"
          /\ \A d \in Clients \ {c} : client'[d] = client[d]
      BY <1>1, <2>1 DEF Connect, ClientTypeOK, SocketsTypeOK
    <3>2. \A d \in Clients \ {c} : Accepted(d)' <=> Accepted(d)
      BY <3>1 DEF Accepted
    <3>3. ~ Accepted(c) /\ ~ Accepted(c)'
      <4>1. backlog'[Len(backlog) + 1] = c /\ Len(backlog) + 1 \in DOMAIN backlog'
        BY <3>1
      <4> QED  BY <3>1, <4>1 DEF Accepted
    <3>4. \A d \in Clients : Alike(d)
      BY <1>1, <3>1, <3>2, <3>3 DEF Alike, serverVars, Connected, OpenFds
    <3> QED  BY <1>1, <3>4, Unseen DEF serverVars
  <2>2. CASE ~ Connect(c)
    <3>1. UNCHANGED <<srv, backlog>> /\ client[c] = "run"
      BY <1>1, <1>3, <2>2 DEF ClientNext, ConnectError, StdinLine, StdinQuit, StdinEOF,
         SelectError, SockMessage, SockEnd, Killed, sockVars, Serving
    <3>2. client'[c] # "start" /\ \A d \in Clients \ {c} : client'[d] = client[d]
      BY <1>1, <1>3, <2>2 DEF ClientNext, ConnectError, StdinLine, StdinQuit, StdinEOF,
         SelectError, SockMessage, SockEnd, Killed, Terminate, WriteText, ClientTypeOK,
         Serving
    <3>3. \A d \in Clients : Alike(d)
      BY <1>1, <3>1, <3>2 DEF Alike, serverVars, Connected, OpenFds, Accepted
    <3> QED  BY <1>1, <3>3, Unseen DEF serverVars
  <2> QED  BY <2>1, <2>2
<1> QED  BY <1>2, <1>3

\* select is not seen either, unless it fails.
LEMMA SelectUnseen ==
  ASSUME SInv, IInv', Select, UNCHANGED clientVars
  PROVE  UNCHANGED Service!serviceVars \/ Service!Shutdown
<1>1. /\ IInv /\ srv = "up" /\ UNCHANGED <<backlog, sock, serverStore, sess, sent, client>>
  BY DEF SInv, Select, clientVars
<1>2. CASE srv' = srv
  <2>1. \A d \in Clients : Alike(d)
    BY <1>1, <1>2 DEF Alike, Connected, OpenFds, Accepted
  <2> QED  BY <1>1, <2>1, Unseen
<1>3. CASE srv' = "exited"
  BY <1>1, <1>3, Stops
<1> QED  BY <1>2, <1>3 DEF Select

\* Nor is a connection that is accepted: nothing is read from it yet.
LEMMA AcceptUnseen ==
  ASSUME SInv, IInv', AcceptClient, UNCHANGED clientVars
  PROVE  UNCHANGED Service!serviceVars \/ Service!Shutdown
<1>1. /\ srv = "up" /\ ListenFD \in readFDs /\ IInv /\ SocketsTypeOK /\ ServerTypeOK
      /\ UNCHANGED <<serverStore, sess, sent, client>>
  BY DEF AcceptClient, Turn, SInv, IInv, TypeOK, clientVars
<1>2. CASE srv' = "exited"
  BY <1>1, <1>2, Stops
<1>3. ASSUME NEW newFD \in Fds \ OpenFds,
             sock' = [sock EXCEPT ![newFD] = Head(backlog)],
             backlog' = Tail(backlog),
             srv' = srv
      PROVE  UNCHANGED Service!serviceVars
  <2>1. backlog # <<>>
    BY <1>1, FdsAbove DEF IInv, VisitsNeverBlock, OpenFds
  <2>c. PICK c \in Clients : c = Head(backlog)
    BY <1>1, <2>1 DEF SocketsTypeOK
  <2>2. /\ c = backlog[1] /\ 1 \in DOMAIN backlog /\ c \in Clients /\ c # NoClient
        /\ \A k \in DOMAIN Tail(backlog) :
             k + 1 \in DOMAIN backlog /\ Tail(backlog)[k] = backlog[k + 1]
        /\ \A k \in DOMAIN backlog : k = 1 \/ k - 1 \in DOMAIN Tail(backlog)
    BY <1>1, <2>1, <2>c, ServerAssumption DEF SocketsTypeOK, ServerAssumption
  <2>3. \A f \in Fds : sock'[f] = IF f = newFD THEN c ELSE sock[f]
    BY <1>1, <1>3, <2>c DEF ServerTypeOK
  <2>4. /\ ~ Accepted(c) /\ client[c] # "start"
        /\ \A f \in Fds : sock[f] # c
        /\ \A k \in DOMAIN backlog : backlog[k] = c => k = 1
    BY <1>1, <2>2 DEF IInv, OneConnection, Accepted
  <2>5. \A b \in serverStore : sess[b].fd \in Fds /\ sess[b].fd # newFD
    BY <1>1, <1>3 DEF IInv, NoAcceptAfterError, SessionsWatched
  <2>6. ASSUME NEW d \in Clients \ {c}
        PROVE  Alike(d)
    <3>1. Accepted(d)' <=> Accepted(d)
      <4>1. (\A k \in DOMAIN Tail(backlog) : Tail(backlog)[k] # d)
            <=> (\A k \in DOMAIN backlog : backlog[k] # d)
        <5>1. ASSUME NEW k \in DOMAIN backlog, backlog[k] = d
              PROVE  \E j \in DOMAIN Tail(backlog) : Tail(backlog)[j] = d
          <6>1. k # 1 /\ k - 1 \in DOMAIN Tail(backlog) /\ (k - 1) + 1 = k
            BY <1>1, <2>2, <2>6, <5>1 DEF SocketsTypeOK
          <6> QED  BY <2>2, <5>1, <6>1
        <5> QED  BY <2>2, <5>1
      <4> QED  BY <1>1, <1>3, <4>1 DEF Accepted
    <3>2. Connected(d)' <=> Connected(d)
      BY <1>3, <2>3, <2>6 DEF Connected, OpenFds
    <3> QED  BY <1>1, <1>3, <2>3, <2>5, <3>1, <3>2 DEF Alike
  <2>7. Connected(c)'
    BY <2>2, <2>3 DEF Connected, OpenFds
  <2>8. PhaseIs(c, "out") /\ PhaseIs(c, "out")'
    BY <1>1, <1>3, <2>3, <2>4, <2>5, <2>7 DEF PhaseIs
  <2>9. ServicePhase(c) = "out" /\ ServicePhase(c)' = "out"
    BY <1>1, <2>2, <2>8, PhaseOf, PhaseOfNext DEF OnePhase
  <2>10. \A d \in Clients : ServicePhase(d)' = ServicePhase(d)
    BY <1>1, <2>6, <2>9, PhaseKept
  <2> QED  BY <1>1, <2>10 DEF Service!serviceVars
<1> QED  BY <1>2, <1>3 DEF AcceptClient

\* A connection that ends is a client that leaves.
LEMMA CloseLeaves ==
  ASSUME SInv, IInv', NEW i \in Fds, HangUp(i) \/ ReadError(i), UNCHANGED clientVars
  PROVE  Service!Shutdown \/ \E c \in Clients : Service!Leave(c)
<1>1. /\ IInv /\ ServerTypeOK /\ srv = "up" /\ Turn(i)
      /\ sock' = [sock EXCEPT ![i] = NoClient] /\ NoClient \notin Clients
      /\ UNCHANGED <<backlog, sess, sent, client>>
  BY ServerAssumption DEF SInv, IInv, TypeOK, HangUp, ReadError, ReadCloses, Turn,
     clientVars, ServerAssumption
<1>2. /\ serverStore' \subseteq serverStore
      /\ \A b \in serverStore \ serverStore' : sess[b].fd = i
  BY DEF HangUp, ReadError, ss_delete, ss_search
<1>c. PICK c \in Clients : c = sock[i]
  BY <1>1, VisitedIsOpen
<1>3. \A f \in Fds : sock'[f] = IF f = i THEN NoClient ELSE sock[f]
  BY <1>1 DEF ServerTypeOK
<1>4. \A f \in Fds : sock[f] = c => f = i
  BY <1>1, <1>c DEF IInv, OneConnection, OpenFds
<1>5. \A b \in serverStore : sess[b].fd \in Fds
  BY <1>1 DEF IInv, SessionsWatched
<1>6. CASE srv' # "up"
  BY <1>1, <1>6, Stops
<1>7. CASE srv' = "up"
  <2>1. \A d \in Clients \ {c} : Alike(d)
    <3> SUFFICES ASSUME NEW d \in Clients \ {c}
                 PROVE  Alike(d)
      OBVIOUS
    <3>1. Connected(d)' <=> Connected(d)
      BY <1>c, <1>1, <1>3 DEF Connected, OpenFds
    <3>2. Accepted(d)' <=> Accepted(d)
      BY <1>1 DEF Accepted
    <3> QED  BY <1>c, <1>1, <1>2, <1>3, <1>5, <1>7, <3>1, <3>2 DEF Alike
  <2>2. client[c] # "start" /\ (\A k \in DOMAIN backlog : backlog[k] # c)
    BY <1>1, <1>c DEF IInv, OneConnection
  <2>3. Accepted(c)' /\ ~ Connected(c)' /\ Connected(c)
    BY <1>c, <1>1, <1>3, <1>4, <2>2 DEF Accepted, Connected, OpenFds
  <2>4. PhaseIs(c, "left")'
    BY <2>3 DEF PhaseIs
  <2>5. PICK p : PhaseIs(c, p)
    BY <1>1, PhaseFound
  <2>6. p # "left"
    BY <1>1, <2>3, <2>5 DEF PhaseIs
  <2>7. Service!Move(c, p, "left")
    BY <1>1, <2>1, <2>4, <2>5, Moves
  <2>8. Service!Leave(c)
    BY <1>1, <2>6, <2>7 DEF Service!Move, Service!Leave
  <2> QED  BY <2>8
<1> QED  BY <1>6, <1>7

\* A request registers its client, or is a thanks, or an "again" after one, or
\* says nothing.
LEMMA RequestServes ==
  ASSUME ShortReads = FALSE, IdArgs \subseteq StudentIds, SInv, IInv',
         NEW i \in Fds, Request(i), UNCHANGED clientVars
  PROVE  \/ UNCHANGED Service!serviceVars \/ Service!Shutdown
         \/ \E c \in Clients : Service!Register(c) \/ Service!Thank(c) \/ Service!Again(c)
<1>c. PICK c \in Clients : c = sock[i]
  BY RequestCases
<1>0. /\ IInv /\ TypeOK /\ SocketsTypeOK /\ ServerTypeOK /\ ClientTypeOK
      /\ Stage(c) /\ UNCHANGED <<client, arg>> /\ arg[c] \in StudentIds
  BY DEF SInv, IInv, TypeOK, clientVars, ClientTypeOK
<1>1. /\ i \in OpenFds /\ srv = "up" /\ UNCHANGED <<backlog, sock>>
  BY <1>c, RequestCases
<1>2. PICK b \in Blocks, s \in Session, answer \in Seq(Cells) :
        /\ \E res : Respond(c, b, s, answer, res) /\ Unflagged(c, s, res)
        /\ \/ FromSession(i, b, s, answer)
           \/ FromNew(i, b, s, answer, c)
           \/ FromNone(i, b, s, answer, c)
  BY <1>c, RequestCases
<1>r. PICK res : Respond(c, b, s, answer, res) /\ Unflagged(c, s, res)
  BY <1>2
<1> DEFINE f == Flagged(s, res)
<1>3. /\ srv' # "up" => sent' = sent
      /\ srv' = "up" =>
           /\ sess'[b].ty_flag = f.ty_flag
           /\ \/ f.s_flag = 0 /\ sent' = sent
              \/ f.s_flag = 1 /\ sent' = [sent EXCEPT ![c] = Append(@, s.data)]
  BY <1>0, <1>1, <1>r, RespondFlags
<1>4. \/ f.s_flag = s.s_flag /\ f.ty_flag \in {s.ty_flag, 1}
      \/ f.s_flag = 1 /\ s.ty_flag = 1 /\ f.ty_flag = 0
  BY FlagCases
<1>5. Unflagged(c, s, res) => (Waiting(c) => f = s)
  BY DEF Unflagged
<1> HIDE DEF f
<1>6. Answered(b, s)
  BY <1>0, <1>1, <1>r, RespondResult
<1>7. /\ \A x \in Blocks \ {b} : sess'[x] = sess[x]
      /\ sess'[b].fd = s.fd /\ sess'[b].ty_flag \in {0, 1}
  BY <1>0, <1>6 DEF Answered, ServerTypeOK, Session
<1>8. Connected(c) /\ Connected(c)' /\ (\A g \in Fds : sock[g] = c => g = i)
  BY <1>c, <1>0, <1>1 DEF Connected, IInv, OneConnection, OpenFds
<1>9. \A x \in serverStore : x \in Blocks /\ sess[x].fd \in Fds
  BY <1>0 DEF IInv, SessionsWatched, ServerTypeOK
<1>10. CASE srv' # "up"
  BY <1>0, <1>3, <1>10, Stops
<1>11. CASE srv' = "up" /\ FromNew(i, b, s, answer, c)
  <2>1. /\ NoSession(i) /\ b \notin serverStore /\ serverStore' = serverStore \cup {b}
        /\ s.fd = i /\ s.s_flag = 1 /\ s.ty_flag = 0
    BY <1>11 DEF FromNew
  <2>2. Waiting(c) /\ s.data = arg[c] /\ f = s /\ sent[c] = <<>>
    <3>1. ~ Served(c) /\ ~ Refused(c) /\ cend[c] # "none"
      BY <1>c, <1>0, <1>1, <2>1 DEF Served, SessionFor, NoSession, Refused, Stage, Outside
    <3>2. Waiting(c)
      BY <1>0, <3>1 DEF Stage
    <3> QED  BY <1>r, <1>5, <1>11, <3>2 DEF FromNew, Waiting
  <2>3. /\ sent' = [sent EXCEPT ![c] = Append(@, arg[c])] /\ sess'[b].ty_flag = 0
    BY <1>3, <1>11, <2>1, <2>2
  <2>4. sent' = [sent EXCEPT ![c] = <<arg[c]>>] /\ arg[c] \in Ids
    BY <1>0, <2>2, <2>3, ServerAssumption DEF ServerTypeOK, ServerAssumption
  <2>5. \A d \in Clients \ {c} : Alike(d)
    BY <1>c, <1>0, <1>1, <1>7, <1>9, <1>11, <2>1
       DEF Alike, Accepted, Connected, OpenFds
  <2>6. PhaseIs(c, "out")
    BY <1>c, <1>1, <1>8, <1>9, <2>1 DEF PhaseIs, NoSession
  <2>7. PhaseIs(c, "served")'
    BY <1>c, <1>1, <1>7, <1>8, <1>11, <2>1, <2>3 DEF PhaseIs
  <2>8. Service!Move(c, "out", "served")
    BY <1>0, <2>5, <2>6, <2>7, Moves
  <2>9. Service!Register(c)
    BY <2>4, <2>8 DEF Service!Register
  <2> QED  BY <2>9
<1>12. CASE srv' = "up" /\ FromSession(i, b, s, answer)
  <2>1. /\ b \in serverStore /\ sess[b].fd = i /\ s = sess[b] /\ serverStore' = serverStore
    BY <1>12 DEF FromSession
  <2>2. Served(c)
    BY <1>c, <1>0, <1>1, <2>1 DEF Waiting, NoSession, Refused, Stage, Outside
  <2>3. /\ s.data = arg[c] /\ s.s_flag = 0 /\ s.ty_flag \in {0, 1}
        /\ sent[c] \in Seq(Ids) /\ sent[c] # <<>> /\ Head(sent[c]) = arg[c]
    <3>1. PICK x \in serverStore : /\ sess[x].fd = i /\ sess[x].data = arg[c]
                                   /\ sess[x].s_flag = 0
      BY <1>c, <1>1, <2>2 DEF Served, SessionFor, OpenFds
    <3>2. x = b
      BY <1>0, <2>1, <3>1 DEF IInv, OneSessionPerFd
    <3> QED  BY <1>0, <1>1, <2>1, <2>2, <3>1, <3>2 DEF Served, AllAre, ServerTypeOK, Session
  <2>4. \A d \in Clients \ {c} : Alike(d)
    BY <1>c, <1>0, <1>1, <1>7, <1>9, <1>12, <2>1
       DEF Alike, Accepted, Connected, OpenFds
  <2>5. /\ sess'[b].fd = i /\ sess'[b].ty_flag = f.ty_flag
    BY <1>3, <1>7, <1>12, <2>1
  <2>6. CASE f.s_flag = 0 /\ f.ty_flag = s.ty_flag /\ sent' = sent
    <3>1. Alike(c)
      BY <1>c, <1>0, <1>1, <1>7, <1>8, <1>9, <1>12, <2>1, <2>5, <2>6
         DEF Alike, Accepted, Connected
    <3> QED  BY <1>0, <2>4, <2>6, <3>1, Unseen
  <2>7. CASE s.ty_flag = 0 /\ f.ty_flag = 1 /\ sent' = sent
    <3>1. PhaseIs(c, "served") /\ PhaseIs(c, "thanked")'
      BY <1>c, <1>1, <1>8, <1>12, <2>1, <2>5, <2>7 DEF PhaseIs
    <3>2. Service!Move(c, "served", "thanked")
      BY <1>0, <2>4, <3>1, Moves
    <3>3. Service!Thank(c)
      BY <2>7, <3>2 DEF Service!Thank
    <3> QED  BY <3>3
  <2>8. CASE /\ s.ty_flag = 1 /\ f.ty_flag = 0
             /\ sent' = [sent EXCEPT ![c] = Append(@, s.data)]
    <3>1. PhaseIs(c, "thanked") /\ PhaseIs(c, "served")'
      BY <1>c, <1>1, <1>8, <1>12, <2>1, <2>5, <2>8 DEF PhaseIs
    <3>2. Service!Move(c, "thanked", "served")
      BY <1>0, <2>4, <3>1, Moves
    <3>3. sent' = [sent EXCEPT ![c] = Append(@, Head(@))]
      BY <2>3, <2>8
    <3>4. Service!Again(c)
      BY <3>2, <3>3 DEF Service!Again
    <3> QED  BY <3>4
  <2> QED  BY <1>3, <1>4, <1>12, <2>3, <2>6, <2>7, <2>8
<1>13. ~ FromNone(i, b, s, answer, c)
  BY <1>c, <1>0, <1>1
     DEF FromNone, NoSession, Served, SessionFor, Refused, Stage, Outside, OpenFds
<1> QED  BY <1>2, <1>10, <1>11, <1>12, <1>13

\* When every client asks for a student, the server is the service: what the
\* clients get is what StudentService allows, through every interleaving,
\* every end of a client and the end of the server (server.c:76-150).
THEOREM ServiceImplemented ==
  ASSUME ShortReads = FALSE, IdArgs \subseteq StudentIds
  PROVE  Spec => ImplementsService
<1>1. Init => Service!Init
  <2> SUFFICES ASSUME Init
               PROVE  Service!Init
    OBVIOUS
  <2>1. IInv /\ \A c \in Clients : PhaseIs(c, "out")
    BY InitIInv DEF Init, SocketsInit, ServerInit, ClientInit, PhaseIs, Accepted
  <2>2. \A c \in Clients : ServicePhase(c) = "out"
    BY <2>1, PhaseOf DEF OnePhase
  <2> QED  BY <2>2 DEF Init, ServerInit, Service!Init
<1>2. SInv /\ IInv' /\ [Next]_vars => [Service!Next]_(Service!serviceVars)
  <2> SUFFICES ASSUME SInv, IInv', [Next]_vars
               PROVE  [Service!Next]_(Service!serviceVars)
    OBVIOUS
  <2>1. CASE Server
    <3>1. ServerNext /\ UNCHANGED clientVars
      BY <2>1 DEF Server
    <3>2. CASE Select
      BY <3>1, <3>2, SelectUnseen DEF Service!Next
    <3>3. CASE AcceptClient
      BY <3>1, <3>3, AcceptUnseen DEF Service!Next
    <3>4. CASE \E i \in Fds : HangUp(i) \/ ReadError(i)
      BY <3>1, <3>4, CloseLeaves DEF Service!Next
    <3>5. CASE \E i \in Fds : Request(i)
      BY <3>1, <3>5, RequestServes DEF Service!Next
    <3> QED  BY <3>1, <3>2, <3>3, <3>4, <3>5 DEF ServerNext
  <2>2. CASE \E c \in Clients : Client(c)
    BY <2>2, ClientUnseen
  <2>3. CASE UNCHANGED vars
    <3>1. UNCHANGED <<srv, backlog, sock, serverStore, sess, sent, client>>
      BY <2>3 DEF vars, sockVars, serverVars, clientVars
    <3>2. \A d \in Clients : Alike(d)
      BY <3>1 DEF Alike, Accepted, Connected, OpenFds
    <3> QED  BY <3>1, <3>2, Unseen DEF SInv
  <2> QED  BY <2>1, <2>2, <2>3 DEF Next
<1>3. SInv => IInv
  BY DEF SInv
<1> QED  BY <1>1, <1>2, <1>3, StagesKept, PTL DEF Spec, ImplementsService, Service!Spec
=============================================================================

-------------------------- MODULE ChatServerProofs --------------------------
(***************************************************************************)
(* Proofs about ChatServer, for any clients, any descriptor table and any  *)
(* number of lines: the loop watches what is open and never blocks, and    *)
(* nobody who stays connected misses a line.                               *)
(***************************************************************************)
EXTENDS ChatServer, SelectLoopProofs, LeastNumber, FiniteSetTheorems

-----------------------------------------------------------------------------
(* What the others said *)

\* The equation that defines due in Due(c), for the log s, the client c, who
\* joined after j lines, and the first n lines.
Dues(due, s, c, j, n) ==
  due = [k \in j .. n |->
           IF k = j THEN <<>>
           ELSE IF s[k].from = c THEN due[k - 1] ELSE Append(due[k - 1], s[k])]

DueOf(s, c, j) == (CHOOSE due : Dues(due, s, c, j, Len(s)))[Len(s)]

\* The recursive function of the model, as the solution of that equation.
LEMMA DueIsDueOf == \A c : Due(c) = DueOf(log, c, joined[c])
BY Zenon DEF Due, DueOf, Dues

\* There is such a function.
LEMMA DuesExist ==
  ASSUME NEW s, NEW c, NEW j \in Nat, NEW n \in Nat, j <= n
  PROVE  \E due : Dues(due, s, c, j, n)
<1> DEFINE T == {m \in Nat : j <= m /\ ~ \E due : Dues(due, s, c, j, m)}
<1> SUFFICES ASSUME T # {} PROVE FALSE
  OBVIOUS
<1>1. PICK m \in T : \A k \in T : m <= k
  BY Least
<1>2. m # j
  <2> DEFINE f == [k \in j .. j |-> <<>>]
  <2>1. f = [k \in j .. j |->
               IF k = j THEN <<>>
               ELSE IF s[k].from = c THEN f[k - 1] ELSE Append(f[k - 1], s[k])]
    OBVIOUS
  <2>2. Dues(f, s, c, j, j)
    BY <2>1 DEF Dues
  <2> QED  BY <2>2
<1>3. PICK f : Dues(f, s, c, j, m - 1)
  <2>1. m - 1 \in Nat /\ j <= m - 1 /\ m - 1 \notin T
    BY <1>1, <1>2
  <2> QED  BY <2>1
<1> DEFINE next == IF s[m].from = c THEN f[m - 1] ELSE Append(f[m - 1], s[m])
           g == [k \in j .. m |-> IF k < m THEN f[k] ELSE next]
<1>4. ASSUME NEW k \in j .. m
      PROVE  g[k] = IF k = j THEN <<>>
                    ELSE IF s[k].from = c THEN g[k - 1] ELSE Append(g[k - 1], s[k])
  <2>1. CASE k = m
    <3>1. g[k] = next /\ g[k - 1] = f[k - 1] /\ k # j
      BY <1>1, <1>2, <2>1
    <3> QED  BY <2>1, <3>1
  <2>2. CASE k < m
    <3>1. k \in j .. m - 1 /\ g[k] = f[k] /\ (k # j => g[k - 1] = f[k - 1])
      BY <1>1, <2>2
    <3> QED  BY <1>3, <3>1 DEF Dues
  <2> QED  BY <1>1, <2>1, <2>2
<1>5. Dues(g, s, c, j, m)
  BY <1>4 DEF Dues
<1> HIDE DEF g
<1> QED  BY <1>1, <1>5

\* Two such functions agree as far as the logs do.
LEMMA DuesAgree ==
  ASSUME NEW s, NEW t, NEW c, NEW j \in Nat, NEW n \in Nat, NEW m \in Nat, j <= n, n <= m,
         \A k \in j + 1 .. n : s[k] = t[k],
         NEW f, Dues(f, s, c, j, n), NEW g, Dues(g, t, c, j, m)
  PROVE  \A k \in j .. n : f[k] = g[k]
<1> DEFINE T == {k \in j .. n : f[k] # g[k]}
<1> SUFFICES ASSUME T # {} PROVE FALSE
  OBVIOUS
<1>1. PICK k \in T : \A l \in T : k <= l
  <2>1. T \in SUBSET Nat
    OBVIOUS
  <2> HIDE DEF T
  <2> QED  BY <2>1, Least
<1>2. /\ f[k] = IF k = j THEN <<>>
                ELSE IF s[k].from = c THEN f[k - 1] ELSE Append(f[k - 1], s[k])
      /\ g[k] = IF k = j THEN <<>>
                ELSE IF t[k].from = c THEN g[k - 1] ELSE Append(g[k - 1], t[k])
  <2>1. k \in j .. n /\ k \in j .. m
    BY <1>1
  <2> QED  BY <2>1 DEF Dues
<1>3. k # j /\ s[k] = t[k]
  BY <1>1, <1>2
<1>4. f[k - 1] = g[k - 1]
  BY <1>1, <1>3
<1> QED  BY <1>1, <1>2, <1>3, <1>4

\* DueOf is the value of any of them at the end.
LEMMA DueOfIs ==
  ASSUME NEW s, NEW c, NEW j \in Nat, Len(s) \in Nat, j <= Len(s),
         NEW f, Dues(f, s, c, j, Len(s))
  PROVE  DueOf(s, c, j) = f[Len(s)]
<1> DEFINE d == CHOOSE due : Dues(due, s, c, j, Len(s))
<1>1. Dues(d, s, c, j, Len(s))
  BY DuesExist, Zenon
<1> HIDE DEF d
<1>2. \A k \in j .. Len(s) : d[k] = f[k]
  BY <1>1, DuesAgree
<1>3. DueOf(s, c, j) = d[Len(s)]
  BY DEF DueOf, d
<1> QED  BY <1>2, <1>3

\* Nothing is due to a client that has just been accepted.
LEMMA DueAtFirst ==
  ASSUME NEW s \in Seq(Lines), NEW c
  PROVE  DueOf(s, c, Len(s)) = <<>>
<1>1. Len(s) \in Nat
  BY LenProperties
<1>2. PICK f : Dues(f, s, c, Len(s), Len(s))
  <2>1. Len(s) <= Len(s)
    BY <1>1
  <2> QED  BY <1>1, <2>1, DuesExist
<1>3. f[Len(s)] = <<>>
  BY <1>1, <1>2 DEF Dues
<1> QED  BY <1>1, <1>2, <1>3, DueOfIs

SaidBy(t, d) == \A k \in DOMAIN t : t[k].from = d

\* A line at the end of what is put behind other lines.
LEMMA ConcatAppend ==
  ASSUME NEW S, NEW a \in Seq(S), NEW u \in Seq(S), NEW x \in S
  PROVE  a \o (u \o <<x>>) = Append(a \o u, x)
<1>1. <<x>> \in Seq(S)
  OBVIOUS
<1>2. a \o (u \o <<x>>) = (a \o u) \o <<x>>
  BY <1>1, ConcatAssociative
<1>3. a \o u \in Seq(S)
  BY ConcatProperties
<1>4. (a \o u) \o <<x>> = Append(a \o u, x)
  BY <1>3, AppendIsConcat
<1> QED  BY <1>2, <1>4

Followed(s, t) == s \o t

\* The lines of another client are due at once, a client's own are not.
LEMMA DueGrows ==
  ASSUME NEW s \in Seq(Lines), NEW t \in Seq(Lines), NEW c, NEW d,
         NEW j \in Nat, j <= Len(s),
         SaidBy(t, d),
         DueOf(s, c, j) \in Seq(Lines)
  PROVE  /\ c = d => DueOf(Followed(s, t), c, j) = DueOf(s, c, j)
         /\ c # d => DueOf(Followed(s, t), c, j) = Followed(DueOf(s, c, j), t)
<1> DEFINE n == Len(s)
           m == Len(t)
           due == DueOf(s, c, j)
<1>1. /\ n \in Nat /\ m \in Nat /\ s \o t \in Seq(Lines) /\ Len(s \o t) = n + m
      /\ \A k \in 1 .. n : (s \o t)[k] = s[k]
      /\ \A k \in n + 1 .. n + m : (s \o t)[k] = t[k - n]
  BY ConcatProperties, LenProperties
<1>2. \A k \in 1 .. m : t[k].from = d /\ t[k] \in Lines
  BY LenProperties, ElementOfSeq DEF SaidBy
<1>3. PICK f : Dues(f, s, c, j, n)
  BY <1>1, DuesExist
<1>4. f[n] = due
  BY <1>1, <1>3, DueOfIs
<1> DEFINE tail(k) == IF c = d THEN due ELSE due \o SubSeq(t, 1, k)
<1>5. tail(0) = due /\ tail(m) = IF c = d THEN due ELSE due \o t
  <2>1. SubSeq(t, 1, 0) = <<>> /\ SubSeq(t, 1, m) = t
    BY SubSeqEmpty, SubSeqFull
  <2> QED  BY <2>1, ConcatEmptySeq
<1>6. ASSUME NEW k \in 1 .. m
      PROVE  tail(k) = IF t[k].from = c THEN tail(k - 1) ELSE Append(tail(k - 1), t[k])
  <2>1. CASE c = d
    BY <1>2, <2>1
  <2>2. CASE c # d
    <3> DEFINE u == SubSeq(t, 1, k - 1)
    <3>1. 1 \in 1 .. Len(t) /\ k \in 1 .. Len(t)
      BY <1>1
    <3>2. SubSeq(t, 1, k) = u \o <<t[k]>>
      BY <3>1, SubSeqRecursiveSecond
    <3>3. u \in Seq(Lines)
      <4>1. \A i \in 1 .. k - 1 : t[i] \in Lines
        BY <1>1, <1>2
      <4> QED  BY <1>1, <4>1, SubSeqProperties
    <3>4. <<t[k]>> \in Seq(Lines) /\ t[k] \in Lines
      BY <1>2
    <3> HIDE DEF u, due
    <3>5. due \in Seq(Lines)
      BY DEF due
    <3>6. due \o (u \o <<t[k]>>) = Append(due \o u, t[k])
      BY <3>3, <3>4, <3>5, ConcatAppend
    <3> QED  BY <1>2, <2>2, <3>2, <3>6 DEF u
  <2> QED  BY <2>1, <2>2
<1> HIDE DEF due, tail
<1> DEFINE g == [k \in j .. n + m |-> IF k <= n THEN f[k] ELSE tail(k - n)]
<1>7. ASSUME NEW k \in j .. n + m
      PROVE  g[k] = IF k = j THEN <<>>
                    ELSE IF (s \o t)[k].from = c THEN g[k - 1]
                         ELSE Append(g[k - 1], (s \o t)[k])
  <2>1. CASE k <= n
    <3>1. k \in j .. n /\ g[k] = f[k] /\ (k # j => g[k - 1] = f[k - 1] /\ k \in 1 .. n)
      BY <1>1, <2>1
    <3> QED  BY <1>1, <1>3, <3>1 DEF Dues
  <2>2. CASE k > n
    <3>1. k - n \in 1 .. m /\ k # j /\ k \in n + 1 .. n + m
      BY <1>1, <2>2
    <3>2. (s \o t)[k] = t[k - n] /\ g[k] = tail(k - n)
      BY <1>1, <2>2, <3>1
    <3>3. g[k - 1] = tail((k - n) - 1)
      <4>1. CASE k - 1 = n
        <5>1. g[k - 1] = f[n] /\ (k - n) - 1 = 0
          BY <1>1, <3>1, <4>1
        <5> QED  BY <1>4, <1>5, <5>1 DEF due
      <4>2. CASE k - 1 > n
        <5>1. k - 1 \in j .. n + m /\ (k - 1) - n = (k - n) - 1
          BY <1>1, <3>1, <4>2
        <5> QED  BY <1>1, <4>2, <5>1
      <4> QED  BY <1>1, <2>2, <4>1, <4>2
    <3> HIDE DEF g
    <3> QED  BY <1>6, <3>1, <3>2, <3>3
  <2> QED  BY <1>1, <2>1, <2>2
<1>8. Dues(g, s \o t, c, j, Len(s \o t))
  BY <1>1, <1>7 DEF Dues
<1>9. DueOf(s \o t, c, j) = g[n + m]
  <2>1. j <= Len(s \o t) /\ Len(s \o t) \in Nat
    BY <1>1
  <2> HIDE DEF g
  <2>2. DueOf(s \o t, c, j) = g[Len(s \o t)]
    BY <1>8, <2>1, DueOfIs
  <2> QED  BY <1>1, <2>2
<1>10. g[n + m] = tail(m)
  <2>1. CASE m = 0
    BY <1>1, <1>4, <1>5, <2>1 DEF due
  <2>2. CASE m # 0
    BY <1>1, <2>2
  <2> QED  BY <2>1, <2>2
<1> QED  BY <1>5, <1>9, <1>10 DEF due, Followed

-----------------------------------------------------------------------------
(* The invariant *)

\* The lines under way from a client are its own.
OwnLines == \A c \in Clients : \A k \in DOMAIN up[c] : up[c][k].from = c

\* A client that was not accepted yet has got nothing.
NothingYet ==
  /\ \A c \in Clients : cend[c] = "none" => got[c] = <<>>
  /\ \A k \in DOMAIN backlog : got[backlog[k]] = <<>>

\* NoLineMissed, in the terms of the lemmas.
NoneMissed ==
  srv = "up" =>
    \A c \in Clients :
      Connected(c) /\ cend[c] = "open" => got[c] = DueOf(log, c, joined[c])

ChatInv ==
  /\ LoopInv
  /\ TypeOK
  /\ IsFiniteSet(SaidSoFar)
  /\ OwnLines
  /\ \A c \in Clients : joined[c] <= Len(log)
  /\ NothingYet
  /\ NoneMissed

\* The invariant says what the theorems state.
LEMMA ChatInvImplies ==
  ChatInv => TypeOK /\ WatchedAreOpen /\ VisitsNeverBlock /\ NoLineMissed
<1>1. NoneMissed => NoLineMissed
  BY DueIsDueOf, Zenon DEF NoneMissed, NoLineMissed
<1> QED  BY <1>1, LoopInvImplies DEF ChatInv

\* Nobody has said anything, and nothing is missing.
LEMMA ChatInit ==
  ASSUME Init
  PROVE  ChatInv
<1>1. LoopInv /\ OpenFds = {}
  BY LoopInitInv DEF Init, LoopInit, OpenFds
<1>2. /\ said = [c \in Clients |-> 0] /\ log = <<>> /\ backlog = <<>>
      /\ joined = [c \in Clients |-> 0] /\ got = [c \in Clients |-> <<>>]
      /\ up = [c \in Clients |-> <<>>]
  BY DEF Init, LoopInit
<1>3. TypeOK
  <2>1. 0 \in 0 .. MaxSaid
    BY ChatAssumption
  <2> QED  BY <1>1, <1>2, <2>1 DEF TypeOK, LoopInv
<1>4. SaidSoFar = {}
  BY <1>2, ChatAssumption DEF SaidSoFar, Lines
<1>5. IsFiniteSet(SaidSoFar)
  BY <1>4, FS_EmptySet
<1>6. OwnLines /\ NothingYet
  BY <1>2 DEF OwnLines, NothingYet
<1>7. \A c \in Clients : joined[c] <= Len(log)
  BY <1>2
<1>8. NoneMissed
  BY <1>1 DEF NoneMissed, Connected
<1> QED  BY <1>1, <1>3, <1>5, <1>6, <1>7, <1>8 DEF ChatInv

\* Steps that bring nobody a line, and connect nobody to the server.
LEMMA RestSame ==
  ASSUME ChatInv, LoopInv', UNCHANGED <<log, joined, got>>,
         said' \in [Clients -> 0 .. MaxSaid], IsFiniteSet(SaidSoFar)',
         up' \in [Clients -> Seq(Lines)], OwnLines',
         srv' = "up" => srv = "up", OpenFds' \subseteq OpenFds,
         \A f \in OpenFds' : sock'[f] = sock[f],
         \A c \in Clients : cend'[c] = "none" => cend[c] = "none",
         \A c \in Clients : cend'[c] = "open" => cend[c] \in {"open", "none"},
         \A k \in DOMAIN backlog' : got[backlog'[k]] = <<>>
  PROVE  ChatInv'
<1>1. TypeOK'
  BY DEF ChatInv, TypeOK, LoopInv
<1>2. NothingYet'
  BY DEF ChatInv, NothingYet
<1>3. \A c \in Clients : joined'[c] <= Len(log')
  BY DEF ChatInv
<1>4. ASSUME NEW c \in Clients, Connected(c)', cend'[c] = "open"
      PROVE  Connected(c) /\ cend[c] = "open"
  <2>1. PICK f \in OpenFds' : sock'[f] = c
    BY <1>4 DEF Connected
  <2>2. f \in OpenFds /\ sock[f] = c /\ cend[c] # "none"
    BY <2>1 DEF ChatInv, LoopInv, OneEach
  <2> QED  BY <1>4, <2>2 DEF Connected
<1>5. NoneMissed'
  <2> SUFFICES ASSUME srv' = "up", NEW c \in Clients, Connected(c)', cend'[c] = "open"
               PROVE  got'[c] = DueOf(log', c, joined'[c])
    BY DEF NoneMissed
  <2>1. got[c] = DueOf(log, c, joined[c])
    BY <1>4 DEF ChatInv, NoneMissed
  <2> QED  BY <2>1
<1> QED  BY <1>1, <1>2, <1>3, <1>5 DEF ChatInv

\* What is under way to the server are lines.
LEMMA UpTyped == ChatInv => up \in [Clients -> Seq(Lines)]
BY DEF ChatInv, TypeOK

\* A client connects, and the log is not its business yet.
LEMMA JoinStep ==
  ASSUME ChatInv, NEW c \in Clients, Join(c)
  PROVE  ChatInv'
<1>1. /\ Connect(c, <<>>) /\ UNCHANGED <<said, log, joined, got>>
      /\ LoopInv /\ up \in [Clients -> Seq(Lines)]
  BY UpTyped DEF Join, ChatInv
<1>2. LoopInv'
  BY <1>1, ConnectStep
<1>3. /\ up' = [up EXCEPT ![c] = <<>>] /\ cend' = [cend EXCEPT ![c] = "open"]
      /\ backlog' = Append(backlog, c) /\ cend[c] = "none"
      /\ UNCHANGED <<srv, sock>>
  BY <1>1 DEF Connect
<1>4. up' \in [Clients -> Seq(Lines)]
  BY <1>1, <1>3
<1>5. OwnLines'
  BY <1>1, <1>3 DEF ChatInv, OwnLines
<1>6. OpenFds' = OpenFds
  BY <1>3 DEF OpenFds
<1>7. \A k \in DOMAIN backlog' : got[backlog'[k]] = <<>>
  <2>1. backlog \in Seq(Clients)
    BY <1>1 DEF LoopInv, LoopTypeOK
  <2>2. /\ DOMAIN backlog = 1 .. Len(backlog) /\ DOMAIN backlog' = 1 .. Len(backlog')
        /\ Len(backlog') = Len(backlog) + 1 /\ Len(backlog) \in Nat
        /\ \A k \in 1 .. Len(backlog) : backlog'[k] = backlog[k]
        /\ backlog'[Len(backlog) + 1] = c
    BY <1>3, <2>1, AppendProperties, LenProperties
  <2>3. got[c] = <<>>
    BY <1>3 DEF ChatInv, NothingYet
  <2> QED  BY <2>2, <2>3 DEF ChatInv, NothingYet
<1>8. IsFiniteSet(SaidSoFar)' /\ said' \in [Clients -> 0 .. MaxSaid]
  BY <1>1 DEF SaidSoFar, ChatInv, TypeOK
<1>9. cend \in [Clients -> EndStates]
  BY <1>1 DEF LoopInv, LoopTypeOK
<1>10. \A d \in Clients : /\ cend'[d] = "none" => cend[d] = "none"
                          /\ cend'[d] = "open" => cend[d] \in {"open", "none"}
  BY <1>3, <1>9
<1> QED  BY <1>1, <1>2, <1>3, <1>4, <1>5, <1>6, <1>7, <1>8, <1>10, RestSame

\* A client leaves: what it is due no longer matters.
LEMMA LeaveStep ==
  ASSUME ChatInv, NEW c \in Clients, Leave(c)
  PROVE  ChatInv'
<1>1. /\ Close(c, got[c] # <<>>) /\ UNCHANGED <<said, log, joined, got>>
      /\ LoopInv /\ up \in [Clients -> Seq(Lines)]
  BY UpTyped DEF Leave, ChatInv
<1>2. LoopInv' /\ up' = up
  <2>1. (got[c] # <<>>) \in BOOLEAN
    OBVIOUS
  <2> QED  BY <1>1, <2>1, CloseStep
<1>3. PICK e \in {"fin", "rst"} : cend' = [cend EXCEPT ![c] = e]
  BY <1>1 DEF Close
<1>4. cend \in [Clients -> EndStates] /\ UNCHANGED <<srv, sock, backlog>>
  BY <1>1 DEF LoopInv, LoopTypeOK, Close
<1>5. OpenFds' = OpenFds
  BY <1>4 DEF OpenFds
<1>6. OwnLines'
  BY <1>2 DEF ChatInv, OwnLines
<1>7. IsFiniteSet(SaidSoFar)' /\ said' \in [Clients -> 0 .. MaxSaid]
  BY <1>1 DEF SaidSoFar, ChatInv, TypeOK
<1>8. \A d \in Clients : /\ cend'[d] = "none" => cend[d] = "none"
                         /\ cend'[d] = "open" => cend[d] \in {"open", "none"}
  BY <1>3, <1>4
<1>9. \A k \in DOMAIN backlog' : got[backlog'[k]] = <<>>
  BY <1>4 DEF ChatInv, NothingYet
<1> QED  BY <1>1, <1>2, <1>4, <1>5, <1>6, <1>7, <1>8, <1>9, RestSame

\* The bound on what is said leaves room for one more line of the client.
LEMMA RoomForLine ==
  ASSUME ChatInv, NEW c \in Clients, Cardinality(SaidSoFar) < MaxSaid
  PROVE  said[c] + 1 \in 1 .. MaxSaid
<1>1. said[c] \in 0 .. MaxSaid /\ IsFiniteSet(SaidSoFar) /\ MaxSaid \in Nat
  BY ChatAssumption DEF ChatInv, TypeOK
<1> SUFFICES ASSUME said[c] = MaxSaid PROVE FALSE
  BY <1>1
<1> DEFINE f == [k \in 1 .. MaxSaid |-> [from |-> c, n |-> k]]
<1>2. f \in Injection(1 .. MaxSaid, SaidSoFar)
  <2>1. \A k \in 1 .. MaxSaid : f[k] \in SaidSoFar
    BY <1>1 DEF SaidSoFar, Lines
  <2>2. \A j, k \in 1 .. MaxSaid : f[j] = f[k] => j = k
    <3>1. \A k \in 1 .. MaxSaid : f[k].n = k
      OBVIOUS
    <3> HIDE DEF f
    <3> QED  BY <3>1
  <2> QED  BY <2>1, <2>2 DEF Injection, IsInjective
<1>3. Cardinality(1 .. MaxSaid) = MaxSaid
  BY <1>1, FS_Interval
<1>4. Cardinality(1 .. MaxSaid) <= Cardinality(SaidSoFar)
  BY <1>1, <1>2, FS_Injection
<1>5. Cardinality(SaidSoFar) \in Nat
  BY <1>1, FS_CardinalityType
<1> QED  BY <1>1, <1>3, <1>4, <1>5

\* A line is said, and not received by the server yet.
LEMMA SayLineStep ==
  ASSUME ChatInv, NEW c \in Clients, SayLine(c)
  PROVE  ChatInv'
<1> DEFINE line == [from |-> c, n |-> said[c] + 1]
<1>1. /\ said \in [Clients -> 0 .. MaxSaid] /\ said' = [said EXCEPT ![c] = @ + 1]
      /\ LoopInv /\ up \in [Clients -> Seq(Lines)] /\ UNCHANGED <<log, joined, got>>
      /\ Cardinality(SaidSoFar) < MaxSaid
  BY UpTyped DEF SayLine, ChatInv, TypeOK
<1>2. said[c] + 1 \in 1 .. MaxSaid /\ said'[c] = said[c] + 1
  BY <1>1, RoomForLine
<1>3. line \in Lines /\ Say(c, line)
  BY <1>2 DEF Lines, SayLine
<1> HIDE DEF line
<1>4. LoopInv' /\ up' \in [Clients -> Seq(Lines)]
  BY <1>1, <1>3, SayStep
<1>5. /\ up' = [up EXCEPT ![c] = Append(@, line)]
      /\ UNCHANGED <<srv, backlog, cend, masterFDs, readFDs, fdMax, sock>>
  BY <1>3 DEF Say
<1>6. OwnLines'
  <2>1. ASSUME NEW k \in DOMAIN up'[c]
        PROVE  up'[c][k].from = c
    <3>1. up'[c] = Append(up[c], line) /\ up[c] \in Seq(Lines)
      BY <1>1, <1>5
    <3>2. /\ Len(up[c]) \in Nat /\ DOMAIN up[c] = 1 .. Len(up[c])
          /\ DOMAIN up'[c] = 1 .. Len(up[c]) + 1
          /\ \A i \in 1 .. Len(up[c]) : up'[c][i] = up[c][i]
          /\ up'[c][Len(up[c]) + 1] = line
      BY <1>3, <3>1, AppendProperties, LenProperties
    <3>3. line.from = c
      BY DEF line
    <3> QED  BY <3>2, <3>3 DEF ChatInv, OwnLines
  <2>2. \A d \in Clients : d # c => up'[d] = up[d]
    BY <1>1, <1>5
  <2> QED  BY <2>1, <2>2 DEF ChatInv, OwnLines
<1>7. said' \in [Clients -> 0 .. MaxSaid]
  BY <1>1, <1>2
<1>8. IsFiniteSet(SaidSoFar)'
  <2>1. SaidSoFar' \subseteq SaidSoFar \cup {line}
    <3>1. ASSUME NEW l \in Lines, l.n <= said'[l.from], l # line
          PROVE  l.n <= said[l.from]
      <4>1. CASE l.from = c
        <5>1. l.n # said[c] + 1 /\ l.n \in 1 .. MaxSaid
          BY <3>1, <4>1 DEF Lines, line
        <5> QED  BY <1>1, <1>2, <3>1, <4>1, <5>1
      <4>2. CASE l.from # c
        BY <1>1, <3>1, <4>2 DEF Lines
      <4> QED  BY <4>1, <4>2
    <3> QED  BY <3>1 DEF SaidSoFar
  <2>2. IsFiniteSet(SaidSoFar \cup {line})
    BY FS_AddElement DEF ChatInv
  <2> QED  BY <2>1, <2>2, FS_Subset
<1>9. OpenFds' = OpenFds
  BY <1>5 DEF OpenFds
<1>10. \A k \in DOMAIN backlog' : got[backlog'[k]] = <<>>
  BY <1>5 DEF ChatInv, NothingYet
<1> QED  BY <1>1, <1>4, <1>5, <1>6, <1>7, <1>8, <1>9, <1>10, RestSame

\* The loop calls select.
LEMMA WaitStep ==
  ASSUME ChatInv, WaitForReady
  PROVE  ChatInv'
<1>1. /\ LoopInv /\ LoopInv' /\ up \in [Clients -> Seq(Lines)]
      /\ UNCHANGED <<srv, backlog, up, cend, sock, said, log, joined, got>>
  BY SelectStep, UpTyped DEF WaitForReady, Select, ChatInv
<1>2. OpenFds' = OpenFds
  BY <1>1 DEF OpenFds
<1>3. OwnLines' /\ IsFiniteSet(SaidSoFar)' /\ said' \in [Clients -> 0 .. MaxSaid]
  BY <1>1 DEF ChatInv, OwnLines, SaidSoFar, TypeOK
<1>4. \A k \in DOMAIN backlog' : got[backlog'[k]] = <<>>
  BY <1>1 DEF ChatInv, NothingYet
<1> QED  BY <1>1, <1>2, <1>3, <1>4, RestSame

\* accept fails, and nobody joins.
LEMMA AcceptFailsChat ==
  ASSUME ChatInv, AcceptFails, UNCHANGED <<said, log, joined, got>>
  PROVE  ChatInv'
<1>1. /\ LoopInv /\ LoopInv' /\ up \in [Clients -> Seq(Lines)]
      /\ UNCHANGED <<srv, backlog, up, cend, sock, said, log, joined, got>>
  BY AcceptFailsStep, UpTyped DEF AcceptFails, ChatInv
<1>2. OpenFds' = OpenFds
  BY <1>1 DEF OpenFds
<1>3. OwnLines' /\ IsFiniteSet(SaidSoFar)' /\ said' \in [Clients -> 0 .. MaxSaid]
  BY <1>1 DEF ChatInv, OwnLines, SaidSoFar, TypeOK
<1>4. \A k \in DOMAIN backlog' : got[backlog'[k]] = <<>>
  BY <1>1 DEF ChatInv, NothingYet
<1> QED  BY <1>1, <1>2, <1>3, <1>4, RestSame

\* A client that is accepted is due what is received from now on.
LEMMA AcceptChat ==
  ASSUME ChatInv, AcceptClient, joined' = [joined EXCEPT ![Head(backlog)] = Len(log)],
         UNCHANGED <<said, log, got>>
  PROVE  ChatInv'
<1> DEFINE c == Head(backlog)
<1>1. /\ LoopInv /\ LoopInv' /\ c \in Clients
      /\ up \in [Clients -> Seq(Lines)] /\ log \in Seq(Lines)
      /\ joined \in [Clients -> Nat]
      /\ UNCHANGED <<srv, up, cend, said, log, got>> /\ backlog' = Tail(backlog)
  BY AcceptStep, UpTyped DEF AcceptClient, ChatInv, TypeOK
<1>2. PICK newFD \in Fds \ OpenFds : /\ sock' = [sock EXCEPT ![newFD] = c]
                                     /\ OpenFds' = OpenFds \cup {newFD}
  BY <1>1, AcceptStep DEF ChatInv
<1>3. got[c] = <<>>
  <2>1. PICK k \in DOMAIN backlog : backlog[k] = c
    BY <1>1, AcceptStep
  <2> QED  BY <2>1 DEF ChatInv, NothingYet
<1> HIDE DEF c
<1>4. /\ joined' = [joined EXCEPT ![c] = Len(log)] /\ Len(log) \in Nat
      /\ \A f \in OpenFds : sock'[f] = sock[f] /\ f \in Fds
      /\ sock'[newFD] = c
  <2>1. joined' = [joined EXCEPT ![c] = Len(log)]
    BY DEF c
  <2>2. \A f \in OpenFds : f \in Fds
    BY DEF OpenFds
  <2>3. sock \in [Fds -> Clients \cup {NoClient}]
    BY <1>1 DEF LoopInv, LoopTypeOK
  <2> QED  BY <1>1, <1>2, <2>1, <2>2, <2>3, LenProperties
<1>5. TypeOK'
  BY <1>1, <1>4 DEF ChatInv, TypeOK, LoopInv
<1>6. OwnLines' /\ IsFiniteSet(SaidSoFar)'
  BY <1>1 DEF ChatInv, OwnLines, SaidSoFar
<1>7. \A d \in Clients : joined'[d] <= Len(log')
  BY <1>1, <1>4 DEF ChatInv
<1>8. NothingYet'
  <2>1. \A k \in DOMAIN backlog' : \E l \in DOMAIN backlog : backlog'[k] = backlog[l]
    <3>1. backlog \in Seq(Clients) /\ backlog # <<>>
      BY <1>1, FdsFacts, OpenFdsFacts
      DEF LoopInv, LoopTypeOK, StillReady, AcceptClient, Turn
    <3>2. /\ DOMAIN backlog = 1 .. Len(backlog) /\ Len(backlog) \in Nat
          /\ DOMAIN backlog' = 1 .. Len(backlog) - 1
          /\ \A k \in 1 .. Len(backlog) - 1 : backlog'[k] = backlog[k + 1]
      BY <1>1, <3>1, HeadTailProperties, LenProperties
    <3>3. \A k \in DOMAIN backlog' : k + 1 \in DOMAIN backlog
      BY <3>2
    <3> QED  BY <3>2, <3>3
  <2> QED  BY <1>1, <2>1 DEF ChatInv, NothingYet
<1>9. NoneMissed'
  <2> SUFFICES ASSUME srv' = "up", NEW d \in Clients, Connected(d)', cend'[d] = "open"
               PROVE  got'[d] = DueOf(log', d, joined'[d])
    BY DEF NoneMissed
  <2>1. CASE d = c
    BY <1>1, <1>3, <1>4, <2>1, DueAtFirst
  <2>2. CASE d # c
    <3>1. Connected(d)
      BY <1>2, <1>4, <2>2 DEF Connected
    <3> QED  BY <1>1, <1>4, <2>2, <3>1 DEF ChatInv, NoneMissed
  <2> QED  BY <2>1, <2>2
<1> QED  BY <1>1, <1>5, <1>6, <1>7, <1>8, <1>9 DEF ChatInv

\* A descriptor that is visited is open.
LEMMA TurnOpen ==
  ASSUME LoopInv, NEW i \in Fds, Turn(i)
  PROVE  i \in OpenFds /\ sock[i] \in Clients
<1>1. i \in OpenFds
  BY FdsFacts DEF LoopInv, StillReady, Turn
<1> QED  BY <1>1, OpenFdsFacts DEF LoopInv

\* A connection that has ended is closed.
LEMMA HangUpStep ==
  ASSUME ChatInv, NEW i \in Fds, HangUp(i)
  PROVE  ChatInv'
<1>1. /\ LoopInv /\ Turn(i) /\ CloseFD(i) /\ up \in [Clients -> Seq(Lines)]
      /\ UNCHANGED <<srv, backlog, up, cend, fdMax, said, log, joined, got>>
  BY UpTyped DEF HangUp, ChatInv
<1>2. LoopInv'
  BY <1>1, VisitStep DEF LoopInv, LoopTypeOK
<1>3. /\ OpenFds' \subseteq OpenFds
      /\ \A f \in OpenFds' : sock'[f] = sock[f]
  <2>1. sock \in [Fds -> Clients \cup {NoClient}] /\ sock' = [sock EXCEPT ![i] = NoClient]
    BY <1>1 DEF LoopInv, LoopTypeOK, CloseFD
  <2> QED  BY <2>1 DEF OpenFds
<1>4. OwnLines' /\ IsFiniteSet(SaidSoFar)' /\ said' \in [Clients -> 0 .. MaxSaid]
  BY <1>1 DEF ChatInv, OwnLines, SaidSoFar, TypeOK
<1>5. \A k \in DOMAIN backlog' : got[backlog'[k]] = <<>>
  BY <1>1 DEF ChatInv, NothingYet
<1> QED  BY <1>1, <1>2, <1>3, <1>4, <1>5, RestSame

\* What one connection said goes to all the others that are open, and if the
\* server lives on, none of them is left out.
LEMMA BroadcastStep ==
  ASSUME ChatInv, NEW i \in Fds, Broadcast(i)
  PROVE  ChatInv'
<1> DEFINE c == sock[i]
<1>1. /\ LoopInv /\ Turn(i) /\ up \in [Clients -> Seq(Lines)] /\ log \in Seq(Lines)
      /\ cend \in [Clients -> EndStates] /\ got \in [Clients -> Seq(Lines)]
      /\ joined \in [Clients -> Nat]
      /\ UNCHANGED <<backlog, masterFDs, fdMax, sock, said, joined>>
  BY UpTyped DEF Broadcast, ChatInv, LoopInv, LoopTypeOK, TypeOK
<1>2. i \in OpenFds /\ c \in Clients
  BY <1>1, TurnOpen
<1> DEFINE To(stop) == {sock[j] : j \in Reached(i, stop)}
<1>3. PICK n \in 1 .. Len(up[c]), stop \in Stops(i) :
        /\ up' = [up EXCEPT ![c] = SubSeq(@, n + 1, Len(@))]
        /\ log' = log \o SubSeq(up[c], 1, n)
        /\ got' = [d \in Clients |->
                     IF d \in To(stop) /\ cend[d] = "open" THEN got[d] \o SubSeq(up[c], 1, n)
                                                           ELSE got[d]]
        /\ \E told \in SUBSET {d \in To(stop) : cend[d] = "rst"} :
             cend' = [d \in Clients |->
                        IF d \in told THEN "reset"
                        ELSE IF d \in To(stop) /\ cend[d] = "fin" THEN "poked"
                        ELSE cend[d]]
        /\ srv' = IF stop = Nowhere THEN srv ELSE "killed"
  BY Zenon DEF Broadcast
<1> DEFINE to == To(stop)
<1> DEFINE text == SubSeq(up[c], 1, n)
           rest == SubSeq(up[c], n + 1, Len(up[c]))
<1>4. /\ Len(up[c]) \in Nat /\ DOMAIN up[c] = 1 .. Len(up[c])
      /\ \A k \in 1 .. Len(up[c]) : up[c][k] \in Lines /\ up[c][k].from = c
  BY <1>1, <1>2, LenProperties, ElementOfSeq DEF ChatInv, OwnLines
<1>5. /\ text \in Seq(Lines)
      /\ \A k \in DOMAIN text : text[k].from = c
  <2>1. \A k \in 1 .. n : up[c][k] \in Lines
    BY <1>4
  <2>2. /\ text \in Seq(Lines) /\ Len(text) = n
        /\ \A k \in 1 .. n : text[k] = up[c][k]
    BY <1>4, <2>1, SubSeqProperties
  <2>3. DOMAIN text = 1 .. n
    BY <2>2, LenProperties
  <2> HIDE DEF text
  <2> QED  BY <1>4, <2>2, <2>3
<1>6. /\ rest \in Seq(Lines)
      /\ \A k \in DOMAIN rest : rest[k].from = c
  <2>1. \A k \in n + 1 .. Len(up[c]) : up[c][k] \in Lines
    BY <1>4
  <2>2. /\ rest \in Seq(Lines)
        /\ Len(rest) = IF n + 1 <= Len(up[c]) THEN Len(up[c]) - n ELSE 0
        /\ \A k \in 1 .. Len(up[c]) - n : rest[k] = up[c][(n + 1) + k - 1]
    BY <1>4, <2>1, SubSeqProperties
  <2>3. DOMAIN rest = 1 .. Len(rest)
    BY <2>2, LenProperties
  <2>4. \A k \in 1 .. Len(rest) : /\ k \in 1 .. Len(up[c]) - n
                                  /\ (n + 1) + k - 1 \in 1 .. Len(up[c])
    BY <1>4, <2>2
  <2> HIDE DEF rest
  <2> QED  BY <1>4, <2>2, <2>3, <2>4
<1> HIDE DEF text, rest
<1>7. /\ up' = [up EXCEPT ![c] = rest] /\ log' = log \o text
      /\ got' = [d \in Clients |->
                   IF d \in to /\ cend[d] = "open" THEN got[d] \o text ELSE got[d]]
  BY <1>3 DEF text, rest
<1>8. \A d \in Clients : /\ cend'[d] \in EndStates
                         /\ cend'[d] \in {"none", "open"} => cend[d] = cend'[d]
  <2>1. PICK told \in SUBSET {d \in to : cend[d] = "rst"} :
          cend' = [d \in Clients |->
                     IF d \in told THEN "reset"
                     ELSE IF d \in to /\ cend[d] = "fin" THEN "poked"
                     ELSE cend[d]]
    BY <1>3
  <2> HIDE DEF to
  <2> QED  BY <1>1, <2>1 DEF EndStates
<1>9. LoopInv'
  <2>1. srv' \in {"up", "killed"}
    BY <1>1, <1>3 DEF LoopInv, LoopTypeOK
  <2>2. cend' \in [Clients -> EndStates]
    <3>1. \E e : cend' = [d \in Clients |-> e[d]]
      BY <1>3
    <3> QED  BY <1>8, <3>1
  <2>3. \A d \in Clients : d # c => up'[d] = up[d]
    BY <1>1, <1>7
  <2> QED  BY <1>1, <1>8, <2>1, <2>2, <2>3, VisitStep
<1>10. /\ log' \in Seq(Lines) /\ Len(log') = Len(log) + Len(text)
       /\ Len(log) \in Nat /\ Len(text) \in Nat
  BY <1>1, <1>5, <1>7, ConcatProperties, LenProperties
<1>11. TypeOK'
  <2>1. up' \in [Clients -> Seq(Lines)]
    BY <1>1, <1>6, <1>7
  <2>2. got' \in [Clients -> Seq(Lines)]
    <3>1. \A d \in Clients : got[d] \o text \in Seq(Lines)
      BY <1>1, <1>5, ConcatProperties
    <3> QED  BY <1>1, <1>7, <3>1
  <2> QED  BY <1>1, <1>9, <1>10, <2>1, <2>2 DEF ChatInv, TypeOK, LoopInv
<1>12. OwnLines' /\ IsFiniteSet(SaidSoFar)'
  <2>1. up'[c] = rest /\ \A d \in Clients : d # c => up'[d] = up[d]
    BY <1>1, <1>2, <1>7
  <2> QED  BY <1>1, <1>6, <2>1 DEF ChatInv, OwnLines, SaidSoFar
<1>13. \A d \in Clients : joined'[d] <= Len(log')
  BY <1>1, <1>10 DEF ChatInv
<1>14. \A j \in Reached(i, stop) : j \in OpenFds /\ sock[j] \in Clients /\ sock[j] # c
  <2>1. \A j \in Reached(i, stop) : j \in OpenFds /\ j # i
    BY DEF Reached, Others, ChatInv, LoopInv, WatchedAreOpen
  <2> QED  BY <1>1, <1>2, <2>1, OpenFdsFacts DEF LoopInv, OneEach
<1>15. NothingYet'
  <2>1. ASSUME NEW d \in Clients, got[d] = <<>>, got'[d] # got[d]
        PROVE  cend[d] = "open" /\ \E f \in OpenFds : sock[f] = d
    BY <1>7, <1>14, <2>1
  <2>2. \A d \in Clients : cend'[d] = "none" => got'[d] = <<>>
    BY <1>8, <2>1 DEF ChatInv, NothingYet
  <2>3. \A k \in DOMAIN backlog : backlog[k] \in Clients
    BY <1>1 DEF LoopInv, LoopTypeOK
  <2>4. ASSUME NEW k \in DOMAIN backlog
        PROVE  got'[backlog[k]] = <<>>
    <3>1. backlog[k] \in Clients /\ got[backlog[k]] = <<>>
      BY <2>3 DEF ChatInv, NothingYet
    <3>2. \A f \in OpenFds : sock[f] # backlog[k]
      BY <1>1 DEF LoopInv, OneEach
    <3> QED  BY <2>1, <3>1, <3>2
  <2>5. \A k \in DOMAIN backlog' : got'[backlog'[k]] = <<>>
    BY <1>1, <2>4
  <2> QED  BY <2>2, <2>5 DEF NothingYet
<1>16. NoneMissed'
  <2> SUFFICES ASSUME srv' = "up", NEW d \in Clients, Connected(d)', cend'[d] = "open"
               PROVE  got'[d] = DueOf(log', d, joined'[d])
    BY DEF NoneMissed
  <2>1. srv = "up" /\ stop = MaxFD + 1
    BY <1>3 DEF Nowhere
  <2>2. PICK f \in OpenFds : sock[f] = d
    BY <1>1 DEF Connected, OpenFds
  <2>3. cend[d] = "open" /\ got[d] = DueOf(log, d, joined[d])
    BY <1>8, <2>1, <2>2 DEF ChatInv, NoneMissed, Connected
  <2>4. DueOf(log', d, joined[d]) = IF d = c THEN got[d] ELSE got[d] \o text
    <3>1. joined[d] \in Nat /\ joined[d] <= Len(log) /\ got[d] \in Seq(Lines)
      BY <1>1 DEF ChatInv
    <3> HIDE DEF c
    <3>2. DueOf(log \o text, d, joined[d])
            = IF d = c THEN DueOf(log, d, joined[d]) ELSE DueOf(log, d, joined[d]) \o text
      <4> DEFINE j == joined[d]
      <4>1. DueOf(log, d, joined[d]) \in Seq(Lines) /\ log \in Seq(Lines)
        BY <1>1, <2>3, <3>1
      <4>2. /\ text \in Seq(Lines) /\ joined[d] \in Nat /\ joined[d] <= Len(log)
            /\ SaidBy(text, c)
        BY <1>5, <3>1 DEF SaidBy
      <4> HIDE DEF j
      <4>3. j \in Nat /\ j <= Len(log) /\ DueOf(log, d, j) \in Seq(Lines)
        BY <4>1, <4>2 DEF j
      <4>4. /\ d = c => DueOf(Followed(log, text), d, j) = DueOf(log, d, j)
            /\ d # c => DueOf(Followed(log, text), d, j) = Followed(DueOf(log, d, j), text)
        <5> HIDE DEF text
        <5> QED  BY <4>1, <4>2, <4>3, DueGrows
      <4> QED  BY <4>4 DEF j, Followed
    <3> QED  BY <1>7, <2>3, <3>2
  <2>5. CASE d = c
    <3>1. d \notin to
      BY <1>14, <2>5
    <3> QED  BY <1>1, <1>7, <2>4, <2>5, <3>1
  <2>6. CASE d # c
    <3>1. f \in masterFDs /\ f <= fdMax /\ f # ListenFD /\ f # i
      BY <2>2, <2>6, FdsFacts DEF ChatInv, LoopInv, WatchedAreOpen, OpenFds
    <3>2. f \in Reached(i, stop)
      BY <2>1, <3>1, LoopAssumption DEF LoopAssumption, Reached, Others, Fds, OpenFds
    <3>3. d \in to
      BY <2>2, <3>2
    <3> QED  BY <1>1, <1>7, <2>3, <2>4, <2>6, <3>3
  <2> QED  BY <2>5, <2>6
<1> QED  BY <1>9, <1>11, <1>12, <1>13, <1>15, <1>16 DEF ChatInv

-----------------------------------------------------------------------------
(* The theorems *)

\* Every step keeps the invariant.
LEMMA ChatStep ==
  ASSUME ChatInv, [Next]_chatVars
  PROVE  ChatInv'
<1>1. CASE UNCHANGED chatVars
  <2>1. UNCHANGED <<srv, backlog, up, cend, masterFDs, readFDs, fdMax, sock>>
    BY <1>1 DEF chatVars, loopVars
  <2>2. UNCHANGED <<said, log, joined, got>>
    BY <1>1 DEF chatVars
  <2>3. OpenFds' = OpenFds
    BY <2>1 DEF OpenFds
  <2>4. LoopInv'
    BY <2>1, QuietStep DEF ChatInv, LoopInv, LoopTypeOK, Readable
  <2>5. OwnLines' /\ IsFiniteSet(SaidSoFar)' /\ said' \in [Clients -> 0 .. MaxSaid]
    BY <2>1, <2>2 DEF ChatInv, OwnLines, SaidSoFar, TypeOK
  <2>6. \A k \in DOMAIN backlog' : got[backlog'[k]] = <<>>
    BY <2>1 DEF ChatInv, NothingYet
  <2> QED  BY <2>1, <2>2, <2>3, <2>4, <2>5, <2>6, UpTyped, RestSame
<1>2. CASE NewConnection
  BY <1>2, AcceptChat, AcceptFailsChat DEF NewConnection
<1>3. CASE Next /\ ~ NewConnection
  BY <1>3, WaitStep, HangUpStep, BroadcastStep, JoinStep, SayLineStep, LeaveStep, Zenon
  DEF Next, Server
<1> QED  BY <1>1, <1>2, <1>3, Zenon

\* ChatInv holds in every reachable state: the loop watches what is open, the
\* lines under way are their senders', and who is connected has got its due.
THEOREM ChatInductive == Spec => []ChatInv
<1>1. Init => ChatInv
  BY ChatInit
<1>2. ChatInv /\ [Next]_chatVars => ChatInv'
  BY ChatStep
<1> QED  BY <1>1, <1>2, PTL DEF Spec

\* Descriptors, backlog and streams have their types; fdMax never leaves the
\* table of descriptors.
THEOREM ChatTypeOK == Spec => []TypeOK
<1>1. ChatInv => TypeOK
  BY ChatInvImplies
<1> QED  BY <1>1, ChatInductive, PTL

\* Exactly the open connections are watched, and none is above fdMax, at any
\* size of the descriptor table (selectserver.c:88, 95, 116-120, 142-143).
THEOREM ChatWatchedAreOpen == Spec => []WatchedAreOpen
<1>1. ChatInv => WatchedAreOpen
  BY ChatInvImplies
<1> QED  BY <1>1, ChatInductive, PTL

\* What select found ready still is when its turn comes, so that neither
\* accept nor a read blocks the loop (selectserver.c:101-132).
THEOREM ChatVisitsNeverBlock == Spec => []VisitsNeverBlock
<1>1. ChatInv => VisitsNeverBlock
  BY ChatInvImplies
<1> QED  BY <1>1, ChatInductive, PTL

\* Whoever stays connected has got every line the others said since it was
\* accepted, once, in the order of arrival, and none of its own
\* (selectserver.c:147-159).
THEOREM ChatNoLineMissed == Spec => []NoLineMissed
<1>1. ChatInv => NoLineMissed
  BY ChatInvImplies
<1> QED  BY <1>1, ChatInductive, PTL
=============================================================================

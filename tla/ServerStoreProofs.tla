-------------------------- MODULE ServerStoreProofs --------------------------
(***************************************************************************)
(* Proofs about ServerStoreLL, for any descriptors and any nodes: the list *)
(* lies on the heap as one chain without a key twice, the cursors walk     *)
(* along that chain, and the calls do what the abstract SessionStore says. *)
(***************************************************************************)
EXTENDS ServerStoreLL, LeastNumber, FiniteSetTheorems, TLAPS

-----------------------------------------------------------------------------
(* The chain of nodes *)

\* p lists the n allocated nodes in the order in which they are linked: the
\* sessions, of which no two have the same descriptor, and the sentinel.
Chain(n, p) ==
  /\ p \in [1 .. n -> live]
  /\ \A j, k \in 1 .. n : p[j] = p[k] => j = k
  /\ \A x \in live : \E k \in 1 .. n : p[k] = x
  /\ p[1] = head
  /\ \A k \in 1 .. n - 1 : next[p[k]] = p[k + 1] /\ data[p[k]] \in Fds
  /\ next[p[n]] = Null
  /\ \A j, k \in 1 .. n - 1 : data[p[j]] = data[p[k]] => j = k

\* The cursors are at a node of the chain and the one before it, and fd is
\* at none of the nodes they have passed.
CursorAt(n, p, j) ==
  /\ temp = p[j]
  /\ fd \in Fds
  /\ \A k \in 1 .. j - 1 : data[p[k]] # fd
  /\ call = "delete" => prev = IF j = 1 THEN Null ELSE p[j - 1]

ChainInv(n, p) ==
  /\ Chain(n, p)
  /\ call \in {"search", "delete"} => \E j \in 1 .. n : CursorAt(n, p, j)
  /\ call = "push" => /\ fd \in Fds
                      /\ answer = [fd |-> fd, found |-> FALSE]
                      /\ \A k \in 1 .. n - 1 : data[p[k]] # fd

IInv == TypeOK /\ \E n \in Nat \ {0} : \E p \in [1 .. n -> Nodes] : ChainInv(n, p)

-----------------------------------------------------------------------------
(* The walk of NodeAt is the chain *)

\* The nodes of the chain, followed by Null.
Steps(n, p) ==
  [k \in 0 .. Cardinality(Nodes) |-> IF k < n THEN p[k + 1] ELSE Null]

\* One step of the walk.
Step(at, k) ==
  IF k = 0 THEN head ELSE IF at[k - 1] \in Nodes THEN next[at[k - 1]] ELSE Null

\* A chain has at most all the nodes.
LEMMA ChainBound ==
  ASSUME TypeOK, NEW n \in Nat \ {0}, NEW p, Chain(n, p)
  PROVE  n <= Cardinality(Nodes) /\ Cardinality(Nodes) \in Nat
<1>1. IsFiniteSet(Nodes)
  BY ServerStoreAssumption DEF ServerStoreAssumption
<1>2. p \in Injection(1 .. n, Nodes)
  BY DEF Chain, TypeOK, Injection, IsInjective
<1>3. Cardinality(1 .. n) = n
  BY FS_Interval
<1> QED  BY <1>1, <1>2, <1>3, FS_Injection, FS_CardinalityType

\* The walk from the head that ServerStoreLL defines by recursion.
LEMMA NodeAtIsChain ==
  ASSUME TypeOK, NEW n \in Nat \ {0}, NEW p, Chain(n, p)
  PROVE  NodeAt = Steps(n, p)
<1> DEFINE N == Cardinality(Nodes)
           W == Steps(n, p)
<1>1. n <= N /\ N \in Nat
  BY ChainBound
<1>2. /\ \A k \in 1 .. n : p[k] \in Nodes
      /\ Null \notin Nodes
  BY ServerStoreAssumption DEF ServerStoreAssumption, Chain, TypeOK
<1>3. ASSUME NEW k \in 0 .. N
      PROVE  W[k] = Step(W, k)
  <2>1. CASE k = 0
    BY <1>1, <2>1 DEF Steps, Step, Chain
  <2>2. CASE k # 0 /\ k < n
    <3>1. W[k - 1] = p[k] /\ W[k] = p[k + 1] /\ k \in 1 .. n - 1
      BY <1>1, <2>2 DEF Steps
    <3> QED  BY <1>2, <2>2, <3>1 DEF Step, Chain
  <2>3. CASE k = n
    <3>1. W[k - 1] = p[n] /\ W[k] = Null
      BY <1>1, <2>3 DEF Steps
    <3> QED  BY <1>2, <2>3, <3>1 DEF Step, Chain
  <2>4. CASE k > n
    <3>1. W[k - 1] = Null /\ W[k] = Null
      BY <1>1, <2>4 DEF Steps
    <3> QED  BY <1>2, <2>4, <3>1 DEF Step
  <2> QED  BY <2>1, <2>2, <2>3, <2>4
<1>4. W = [k \in 0 .. N |-> Step(W, k)]
  BY <1>3 DEF Steps
<1>5. NodeAt = [k \in 0 .. N |-> Step(NodeAt, k)]
  <2>1. NodeAt = CHOOSE at : at = [k \in 0 .. N |-> Step(at, k)]
    BY Zenon DEF NodeAt, Step
  <2>2. \E at : at = [k \in 0 .. N |-> Step(at, k)]
    BY <1>4, Zenon
  <2> QED  BY <2>1, <2>2, Zenon
<1>6. \A k \in 0 .. N : NodeAt[k] = W[k]
  <2> DEFINE T == {k \in 0 .. N : NodeAt[k] # W[k]}
  <2> SUFFICES ASSUME T # {} PROVE FALSE
    OBVIOUS
  <2>1. T \in SUBSET Nat
    BY <1>1
  <2>2. PICK m \in T : \A k \in T : m <= k
    BY <2>1, Least
  <2>3. m = 0 \/ NodeAt[m - 1] = W[m - 1]
    BY <1>1, <2>2
  <2>4. Step(NodeAt, m) = Step(W, m)
    BY <2>3 DEF Step
  <2> QED  BY <1>3, <1>5, <2>4
<1> QED  BY <1>5, <1>6 DEF Steps

\* The walk meets the allocated nodes, the last one is the sentinel, and the
\* descriptors on the way are the keys of the map.
LEMMA ChainIsList ==
  ASSUME TypeOK, NEW n \in Nat \ {0}, NEW p, Chain(n, p)
  PROVE  /\ Linked = live
         /\ Sentinel = {p[n]}
         /\ {data[x] : x \in Linked \ Sentinel} = {data[p[k]] : k \in 1 .. n - 1}
<1> DEFINE N == Cardinality(Nodes)
           W == Steps(n, p)
<1>1. n <= N /\ N \in Nat
  BY ChainBound
<1>2. /\ \A k \in 1 .. n : p[k] \in Nodes /\ p[k] \in live
      /\ Null \notin Nodes
      /\ live \subseteq Nodes
  BY ServerStoreAssumption DEF ServerStoreAssumption, Chain, TypeOK
<1>3. Linked = {W[k] : k \in 0 .. N} \cap Nodes
  BY NodeAtIsChain DEF Linked, Steps
<1>4. Linked = live
  <2>1. ASSUME NEW x \in live
        PROVE  \E k \in 0 .. N : W[k] = x
    <3>1. PICK k \in 1 .. n : p[k] = x
      BY DEF Chain
    <3>2. k - 1 \in 0 .. N /\ W[k - 1] = p[k]
      BY <1>1 DEF Steps
    <3> QED  BY <3>1, <3>2
  <2>2. ASSUME NEW k \in 0 .. N, W[k] \in Nodes
        PROVE  W[k] \in live
    <3>1. k < n
      BY <1>1, <1>2, <2>2 DEF Steps
    <3>2. W[k] = p[k + 1] /\ k + 1 \in 1 .. n
      BY <1>1, <3>1 DEF Steps
    <3> QED  BY <1>2, <3>2
  <2> HIDE DEF W
  <2> QED  BY <1>2, <1>3, <2>1, <2>2
<1>5. \A k \in 1 .. n : next[p[k]] = Null <=> k = n
  <2>1. \A k \in 1 .. n - 1 : k + 1 \in 1 .. n /\ next[p[k]] = p[k + 1]
    BY DEF Chain
  <2> QED  BY <1>2, <2>1 DEF Chain
<1>6. \A x \in live : \E k \in 1 .. n : x = p[k]
  BY DEF Chain
<1>7. Sentinel = {p[n]}
  BY <1>2, <1>4, <1>5, <1>6 DEF Sentinel
<1>8. live \ {p[n]} = {p[k] : k \in 1 .. n - 1}
  <2>1. \A k \in 1 .. n - 1 : p[k] # p[n] /\ p[k] \in live
    BY <1>2 DEF Chain
  <2> QED  BY <1>6, <2>1
<1> QED  BY <1>4, <1>7, <1>8

\* ListIntact, as the runs check it.
LEMMA ChainIntact ==
  ASSUME TypeOK, NEW n \in Nat \ {0}, NEW p, Chain(n, p)
  PROVE  ListIntact
<1>1. Linked = live /\ Sentinel = {p[n]}
  BY ChainIsList
<1>2. Cardinality(Sentinel) = 1
  BY <1>1, FS_Singleton
<1>3. ASSUME NEW x \in live \ Sentinel
      PROVE  next[x] \in live /\ data[x] \in Fds
  <2>1. PICK k \in 1 .. n : p[k] = x
    BY DEF Chain
  <2>2. k \in 1 .. n - 1 /\ k + 1 \in 1 .. n
    BY <1>1, <2>1
  <2> QED  BY <2>1, <2>2 DEF Chain
<1> QED  BY <1>1, <1>2, <1>3 DEF ListIntact

\* CursorsSound, likewise.
LEMMA ChainCursors ==
  ASSUME TypeOK, NEW n \in Nat \ {0}, NEW p, ChainInv(n, p)
  PROVE  CursorsSound
<1> SUFFICES ASSUME call \in {"search", "delete"}
             PROVE  /\ temp \in live
                    /\ call = "delete" /\ prev # Null =>
                         prev \in live /\ next[prev] = temp /\ data[prev] # fd
                    /\ call = "delete" /\ prev = Null => temp = head
  BY DEF CursorsSound
<1>1. PICK j \in 1 .. n : CursorAt(n, p, j)
  BY DEF ChainInv
<1>2. \A k \in 1 .. n : p[k] \in live /\ p[k] # Null
  BY ServerStoreAssumption DEF ServerStoreAssumption, ChainInv, Chain, TypeOK
<1>3. CASE j = 1
  BY <1>1, <1>2, <1>3 DEF CursorAt, ChainInv, Chain
<1>4. CASE j # 1
  <2>1. j - 1 \in 1 .. n - 1 /\ j - 1 \in 1 .. n /\ (j - 1) + 1 = j
    BY <1>4
  <2> QED  BY <1>1, <1>2, <1>4, <2>1 DEF CursorAt, ChainInv, Chain
<1> QED  BY <1>3, <1>4

\* A chain loses no node, and a cursor on it is sound.
LEMMA IInvImplies == IInv => ListIntact /\ CursorsSound
BY ChainIntact, ChainCursors DEF IInv, ChainInv

-----------------------------------------------------------------------------
(* The steps *)

\* The keys of the map that the list stands for.
Keys == {data[x] : x \in Linked \ Sentinel}

\* ChainIsList, before and after a step.
LEMMA KeysOfChain ==
  \A n \in Nat \ {0} : \A p :
    TypeOK /\ Chain(n, p) => Keys = {data[p[k]] : k \in 1 .. n - 1}
BY ChainIsList DEF Keys

\* And after a step.
LEMMA KeysOfNextChain ==
  (\A n \in Nat \ {0} : \A p :
     TypeOK /\ Chain(n, p) => Keys = {data[p[k]] : k \in 1 .. n - 1})'
BY KeysOfChain, PTL

\* Steps that change nothing of the list.
LEMMA SameChain ==
  ASSUME TypeOK, TypeOK', UNCHANGED <<head, data, next, live>>,
         NEW n \in Nat \ {0}, NEW p, Chain(n, p)
  PROVE  Chain(n, p)' /\ Keys' = Keys
<1>1. Chain(n, p)'
  BY DEF Chain
<1> QED  BY <1>1, KeysOfChain, KeysOfNextChain

\* What a step does, in the terms of SessionStore.
KeepsMap   == Keys' = Keys /\ answer' = answer
FindsKey   == Keys' = Keys /\ answer' = [fd |-> fd, found |-> fd \in Keys]
AddsKey    == /\ answer = [fd |-> fd, found |-> FALSE] /\ answer' = answer
              /\ Keys' = Keys \cup {fd}
RemovesKey == Keys' = Keys \ {fd} /\ answer' = answer

\* The next state has the invariant, and the step is one of the map or none.
Good ==
  /\ IInv'
  /\ \/ KeepsMap
     \/ /\ fd \in Fds
        /\ FindsKey \/ AddsKey \/ RemovesKey

\* What a search that says b of i has answered.
LEMMA AnswerOf ==
  ASSUME NEW S, NEW i, NEW b \in BOOLEAN, b <=> i \in S
  PROVE  [fd |-> i, found |-> b] = [fd |-> i, found |-> i \in S]
BY SMT

\* A chain of the next state is enough for the invariant.
LEMMA NextIInv ==
  ASSUME TypeOK', NEW n \in Nat \ {0}, NEW p \in [1 .. n -> Nodes], ChainInv(n, p)'
  PROVE  IInv'
BY DEF IInv

\* A new call starts at the head.
LEMMA CallStep ==
  ASSUME IInv, NEW i \in Fds, CallSearch(i) \/ CallDelete(i)
  PROVE  Good
<1>1. PICK n \in Nat \ {0} : \E p \in [1 .. n -> Nodes] : ChainInv(n, p)
  BY DEF IInv
<1>2. PICK p \in [1 .. n -> Nodes] : ChainInv(n, p)
  BY <1>1
<1>3. TypeOK /\ TypeOK'
  BY DEF IInv, TypeOK, CallSearch, CallDelete
<1>4. Chain(n, p)' /\ Keys' = Keys
  BY <1>2, <1>3, SameChain DEF ChainInv, CallSearch, CallDelete
<1>5. 1 \in 1 .. n /\ CursorAt(n, p, 1)'
  BY <1>2 DEF ChainInv, Chain, CursorAt, CallSearch, CallDelete
<1>6. ChainInv(n, p)'
  BY <1>4, <1>5 DEF ChainInv, CallSearch, CallDelete
<1>7. IInv' /\ answer' = answer
  BY <1>3, <1>6, NextIInv DEF CallSearch, CallDelete
<1>8. KeepsMap
  BY <1>4, <1>7 DEF KeepsMap
<1> QED  BY <1>7, <1>8, Zenon DEF Good

\* The cursor moves on to the next node, whose predecessors are then passed.
LEMMA NextStep ==
  ASSUME IInv, SearchNext \/ DeleteNext
  PROVE  Good
<1>1. PICK n \in Nat \ {0} : \E p \in [1 .. n -> Nodes] : ChainInv(n, p)
  BY DEF IInv
<1>2. PICK p \in [1 .. n -> Nodes] : ChainInv(n, p)
  BY <1>1
<1>3. call \in {"search", "delete"} /\ call' = call
  BY DEF SearchNext, DeleteNext
<1>4. PICK j \in 1 .. n : CursorAt(n, p, j)
  BY <1>2, <1>3 DEF ChainInv
<1>5. j \in 1 .. n - 1 /\ j + 1 \in 1 .. n
  BY <1>2, <1>4 DEF CursorAt, ChainInv, Chain, SearchNext, DeleteNext
<1>6. temp' = p[j + 1] /\ data[p[j]] # fd
  BY <1>2, <1>4, <1>5 DEF CursorAt, ChainInv, Chain, SearchNext, DeleteNext
<1>7. TypeOK /\ TypeOK'
  BY <1>5, <1>6 DEF IInv, TypeOK, SearchNext, DeleteNext
<1>8. Chain(n, p)' /\ Keys' = Keys
  BY <1>2, <1>7, SameChain DEF ChainInv, SearchNext, DeleteNext
<1>9. CursorAt(n, p, j + 1)'
  <2>1. \A k \in 1 .. (j + 1) - 1 : data[p[k]] # fd
    BY <1>4, <1>6 DEF CursorAt
  <2>2. call' = "delete" => prev' = p[j]
    BY <1>4 DEF CursorAt, SearchNext, DeleteNext
  <2>3. UNCHANGED <<data, fd>>
    BY DEF SearchNext, DeleteNext
  <2> QED  BY <1>4, <1>6, <2>1, <2>2, <2>3 DEF CursorAt
<1>10. ChainInv(n, p)'
  BY <1>3, <1>5, <1>8, <1>9 DEF ChainInv
<1>11. IInv' /\ answer' = answer
  BY <1>7, <1>10, NextIInv DEF SearchNext, DeleteNext
<1>12. KeepsMap
  BY <1>8, <1>11 DEF KeepsMap
<1> QED  BY <1>11, <1>12, Zenon DEF Good

\* A walk stops at a session of the descriptor, or at the sentinel when there
\* is none.
LEMMA WalkEnds ==
  ASSUME TypeOK, NEW n \in Nat \ {0}, NEW p, ChainInv(n, p),
         call \in {"search", "delete"}
  PROVE  /\ fd \in Fds
         /\ next[temp] = Null => fd \notin Keys
         /\ next[temp] # Null /\ data[temp] = fd => fd \in Keys
<1>1. PICK j \in 1 .. n : CursorAt(n, p, j)
  BY DEF ChainInv
<1>2. Keys = {data[p[k]] : k \in 1 .. n - 1}
  BY KeysOfChain DEF ChainInv
<1>3. CASE next[temp] = Null
  <2>1. \A k \in 1 .. n - 1 : k + 1 \in 1 .. n /\ next[p[k]] # Null
    BY ServerStoreAssumption DEF ServerStoreAssumption, ChainInv, Chain, TypeOK
  <2>2. j = n
    BY <1>1, <1>3, <2>1 DEF CursorAt
  <2> QED  BY <1>1, <1>2, <1>3, <2>2 DEF CursorAt
<1>4. CASE next[temp] # Null
  <2>1. j \in 1 .. n - 1
    BY <1>1, <1>4 DEF CursorAt, ChainInv, Chain
  <2> QED  BY <1>1, <1>2, <1>4, <2>1 DEF CursorAt
<1> QED  BY <1>3, <1>4

\* ss_search returns what the map says of the descriptor.
LEMMA SearchEnds ==
  ASSUME IInv, SearchFound \/ SearchMissed
  PROVE  Good
<1>1. PICK n \in Nat \ {0} : \E p \in [1 .. n -> Nodes] : ChainInv(n, p)
  BY DEF IInv
<1>2. PICK p \in [1 .. n -> Nodes] : ChainInv(n, p)
  BY <1>1
<1>3. call = "search" /\ TypeOK
  BY DEF SearchFound, SearchMissed, IInv
<1>4. /\ fd \in Fds
      /\ next[temp] = Null => fd \notin Keys
      /\ next[temp] # Null /\ data[temp] = fd => fd \in Keys
  BY <1>2, <1>3, WalkEnds
<1>5. answer' = [fd |-> fd, found |-> fd \in Keys]
  <2>1. CASE SearchFound
    <3>1. fd \in Keys /\ answer' = [fd |-> fd, found |-> TRUE]
      BY <1>4, <2>1 DEF SearchFound
    <3> QED  BY <3>1, AnswerOf, Zenon
  <2>2. CASE SearchMissed
    <3>1. fd \notin Keys /\ answer' = [fd |-> fd, found |-> FALSE]
      BY <1>4, <2>2 DEF SearchMissed
    <3> QED  BY <3>1, AnswerOf, Zenon
  <2> QED  BY <2>1, <2>2, Zenon
<1>6. TypeOK'
  BY <1>3, <1>4, <1>5 DEF TypeOK, SearchFound, SearchMissed, Return
<1>7. Chain(n, p)' /\ Keys' = Keys
  BY <1>2, <1>3, <1>6, SameChain DEF ChainInv, SearchFound, SearchMissed
<1>8. ChainInv(n, p)'
  <2>1. call' \in {"idle", "push"}
    BY DEF SearchFound, SearchMissed, Return
  <2>2. ASSUME call' = "push"
        PROVE  /\ fd' \in Fds
               /\ answer' = [fd |-> fd', found |-> FALSE]
               /\ \A k \in 1 .. n - 1 : data'[p[k]] # fd'
    <3>1. SearchMissed /\ fd' = fd /\ data' = data
      BY <2>2 DEF SearchFound, SearchMissed, Return
    <3>3. answer' = [fd |-> fd, found |-> FALSE]
      BY <3>1 DEF SearchMissed
    <3>2. fd \notin Keys /\ Keys = {data[p[k]] : k \in 1 .. n - 1}
      BY <1>2, <1>3, <1>4, <3>1, KeysOfChain DEF ChainInv, SearchMissed
    <3> QED  BY <1>4, <3>1, <3>2, <3>3
  <2> QED  BY <1>7, <2>1, <2>2 DEF ChainInv
<1>9. IInv'
  BY <1>6, <1>8, NextIInv
<1>10. FindsKey
  BY <1>5, <1>7, Zenon DEF FindsKey
<1> QED  BY <1>4, <1>9, <1>10, Zenon DEF Good

\* ss_push links a new node before the head.  Its descriptor was searched for
\* and not found.
LEMMA PushStep ==
  ASSUME IInv, ss_push
  PROVE  Good
<1>1. PICK n \in Nat \ {0} : \E p \in [1 .. n -> Nodes] : ChainInv(n, p)
  BY DEF IInv
<1>2. PICK p \in [1 .. n -> Nodes] : ChainInv(n, p)
  BY <1>1
<1>3. PICK e \in Nodes \ live :
        /\ live' = live \cup {e}
        /\ data' = [data EXCEPT ![e] = fd]
        /\ next' = [next EXCEPT ![e] = head]
        /\ head' = e
  BY DEF ss_push
<1>4. TypeOK /\ call = "push" /\ call' = "idle" /\ answer' = answer
  BY DEF IInv, ss_push, Return
<1>5. /\ fd \in Fds
      /\ answer = [fd |-> fd, found |-> FALSE]
      /\ \A k \in 1 .. n - 1 : data[p[k]] # fd
  BY <1>2, <1>4 DEF ChainInv
<1>6. TypeOK'
  BY <1>3, <1>4, <1>5 DEF TypeOK, ss_push, Return
<1> DEFINE q == [k \in 1 .. n + 1 |-> IF k = 1 THEN e ELSE p[k - 1]]
<1>7. /\ q[1] = e
      /\ \A k \in 1 .. n : k + 1 \in 1 .. n + 1 /\ q[k + 1] = p[k]
      /\ \A k \in 1 .. n + 1 : k = 1 \/ k - 1 \in 1 .. n
  OBVIOUS
<1>8. /\ \A k \in 1 .. n : /\ p[k] \in live /\ p[k] # e
                           /\ next'[p[k]] = next[p[k]] /\ data'[p[k]] = data[p[k]]
      /\ next'[e] = head /\ data'[e] = fd
  BY <1>2, <1>3, <1>4 DEF ChainInv, Chain, TypeOK
<1>9. q \in [1 .. n + 1 -> Nodes]
  BY <1>3, <1>8 DEF TypeOK
<1>10. Chain(n + 1, q)'
  <2> HIDE DEF q
  <2>1. q \in [1 .. n + 1 -> live']
    <3>1. ASSUME NEW k \in 1 .. n + 1
          PROVE  q[k] \in live'
      <4>1. CASE k = 1
        BY <1>3, <1>7, <4>1
      <4>2. CASE k # 1
        <5>1. k - 1 \in 1 .. n /\ q[k] = p[k - 1]
          BY <1>7, <4>2
        <5> QED  BY <1>3, <1>8, <5>1
      <4> QED  BY <4>1, <4>2
    <3> QED  BY <1>9, <3>1
  <2>2. ASSUME NEW j \in 1 .. n + 1, NEW k \in 1 .. n + 1, q[j] = q[k]
        PROVE  j = k
    <3>1. \A i \in 1 .. n + 1 : i # 1 => /\ i - 1 \in 1 .. n /\ q[i] = p[i - 1]
                                         /\ q[i] # q[1]
      <4>1. ASSUME NEW i \in 1 .. n + 1, i # 1
            PROVE  i - 1 \in 1 .. n /\ (i - 1) + 1 = i
        BY <4>1
      <4>2. \A m \in 1 .. n : q[m + 1] = p[m] /\ p[m] # q[1]
        BY <1>7, <1>8
      <4> QED  BY <4>1, <4>2
    <3>2. CASE j = 1 \/ k = 1
      BY <2>2, <3>1, <3>2
    <3>3. CASE j # 1 /\ k # 1
      <4>1. j - 1 = k - 1
        BY <1>2, <2>2, <3>1, <3>3 DEF ChainInv, Chain
      <4> QED  BY <4>1
    <3> QED  BY <3>2, <3>3
  <2>3. \A x \in live' : \E k \in 1 .. n + 1 : q[k] = x
    BY <1>2, <1>3, <1>7 DEF ChainInv, Chain
  <2>4. q[1] = head'
    BY <1>3, <1>7
  <2>5. ASSUME NEW k \in 1 .. n
        PROVE  next'[q[k]] = q[k + 1] /\ data'[q[k]] \in Fds
    <3>1. CASE k = 1
      BY <1>2, <1>5, <1>7, <1>8, <3>1 DEF ChainInv, Chain
    <3>2. CASE k # 1
      <4>1. k - 1 \in 1 .. n - 1 /\ k - 1 \in 1 .. n /\ q[k] = p[k - 1] /\ q[k + 1] = p[k]
        BY <1>7, <3>2
      <4> QED  BY <1>2, <1>8, <4>1 DEF ChainInv, Chain
    <3> QED  BY <3>1, <3>2
  <2>6. next'[q[n + 1]] = Null
    BY <1>2, <1>7, <1>8 DEF ChainInv, Chain
  <2>7. ASSUME NEW j \in 1 .. n, NEW k \in 1 .. n, data'[q[j]] = data'[q[k]]
        PROVE  j = k
    <3>1. \A i \in 1 .. n : i # 1 => /\ i - 1 \in 1 .. n - 1 /\ q[i] = p[i - 1]
                                     /\ data'[q[i]] = data[p[i - 1]]
      BY <1>7, <1>8
    <3>2. data'[q[1]] = fd
      BY <1>7, <1>8
    <3>3. CASE j = 1 /\ k # 1
      BY <1>5, <2>7, <3>1, <3>2, <3>3
    <3>4. CASE j # 1 /\ k = 1
      BY <1>5, <2>7, <3>1, <3>2, <3>4
    <3>5. CASE j # 1 /\ k # 1
      <4>1. /\ j - 1 \in 1 .. n - 1 /\ k - 1 \in 1 .. n - 1
            /\ data[p[j - 1]] = data[p[k - 1]]
        BY <2>7, <3>1, <3>5
      <4>2. j - 1 = k - 1
        BY <1>2, <4>1 DEF ChainInv, Chain
      <4> QED  BY <4>2
    <3> QED  BY <3>3, <3>4, <3>5
  <2> QED  BY <2>1, <2>2, <2>3, <2>4, <2>5, <2>6, <2>7 DEF Chain
<1>11. ChainInv(n + 1, q)'
  BY <1>4, <1>10 DEF ChainInv
<1>12. IInv'
  BY <1>6, <1>9, <1>11, NextIInv
<1>13. Keys' = Keys \cup {fd}
  <2>1. Keys = {data[p[k]] : k \in 1 .. n - 1}
    BY <1>2, <1>4, KeysOfChain DEF ChainInv
  <2>2. Keys' = {data'[q[k]] : k \in 1 .. n}
    <3> HIDE DEF q
    <3> QED  BY <1>6, <1>10, KeysOfNextChain
  <2>3. \A k \in 1 .. n - 1 : k + 1 \in 1 .. n /\ data'[q[k + 1]] = data[p[k]]
    BY <1>7, <1>8
  <2>4. \A k \in 1 .. n : k # 1 => k - 1 \in 1 .. n - 1 /\ data'[q[k]] = data[p[k - 1]]
    BY <1>7, <1>8
  <2>5. 1 \in 1 .. n /\ data'[q[1]] = fd
    BY <1>7, <1>8
  <2> HIDE DEF q
  <2>6. \A x \in Keys : x \in Keys'
    BY <2>1, <2>2, <2>3
  <2>7. fd \in Keys'
    BY <2>2, <2>5
  <2>8. ASSUME NEW x \in Keys'
        PROVE  x \in Keys \cup {fd}
    <3>1. PICK k \in 1 .. n : x = data'[q[k]]
      BY <2>2
    <3>2. CASE k = 1
      BY <2>5, <3>1, <3>2
    <3>3. CASE k # 1
      BY <2>1, <2>4, <3>1, <3>3
    <3> QED  BY <3>2, <3>3
  <2> QED  BY <2>6, <2>7, <2>8
<1>14. AddsKey
  BY <1>4, <1>5, <1>13 DEF AddsKey
<1> QED  BY <1>5, <1>12, <1>14, Zenon DEF Good

\* ss_delete takes the node at the cursor out of the chain.  No other node
\* has its descriptor, so that the key is gone from the map.
LEMMA UnlinkStep ==
  ASSUME IInv, DeleteHead \/ DeleteInner
  PROVE  Good
<1>1. PICK n \in Nat \ {0} : \E p \in [1 .. n -> Nodes] : ChainInv(n, p)
  BY DEF IInv
<1>2. PICK p \in [1 .. n -> Nodes] : ChainInv(n, p)
  BY <1>1
<1>3. /\ TypeOK /\ call = "delete" /\ next[temp] # Null /\ data[temp] = fd
      /\ call' = "idle" /\ data' = data /\ live' = live \ {temp} /\ answer' = answer
  BY DEF IInv, DeleteHead, DeleteInner, Return
<1>4. PICK j \in 1 .. n : CursorAt(n, p, j)
  BY <1>2, <1>3 DEF ChainInv
<1>5. /\ \A k \in 1 .. n : p[k] \in live /\ p[k] \in Nodes /\ p[k] # Null
      /\ \A i, k \in 1 .. n : p[i] = p[k] => i = k
      /\ \A x \in live : \E k \in 1 .. n : p[k] = x
      /\ \A k \in 1 .. n - 1 : next[p[k]] = p[k + 1] /\ data[p[k]] \in Fds
      /\ \A i, k \in 1 .. n - 1 : data[p[i]] = data[p[k]] => i = k
      /\ p[1] = head /\ next[p[n]] = Null
  <2>1. \A k \in 1 .. n : p[k] \in live /\ p[k] \in Nodes /\ p[k] # Null
    BY <1>2, <1>3, ServerStoreAssumption
    DEF ServerStoreAssumption, TypeOK, ChainInv, Chain
  <2> QED  BY <1>2, <2>1 DEF ChainInv, Chain
<1>6. /\ fd \in Fds /\ temp = p[j] /\ data[p[j]] = fd
      /\ j \in 1 .. n - 1 /\ next[temp] = p[j + 1]
      /\ prev = IF j = 1 THEN Null ELSE p[j - 1]
  BY <1>3, <1>4, <1>5 DEF CursorAt
<1> DEFINE q == [k \in 1 .. n - 1 |-> IF k < j THEN p[k] ELSE p[k + 1]]
           at(k) == IF k < j THEN k ELSE k + 1
<1>7. /\ n - 1 \in Nat \ {0}
      /\ q \in [1 .. n - 1 -> Nodes]
      /\ \A k \in 1 .. n - 1 : k < j => q[k] = p[k]
      /\ \A k \in 1 .. n - 1 : k >= j => q[k] = p[k + 1]
  BY <1>5, <1>6
<1>a. \A k \in 1 .. n - 1 : at(k) \in 1 .. n /\ at(k) # j /\ q[k] = p[at(k)]
  BY <1>6
<1>b. \A i, k \in 1 .. n - 1 : at(i) = at(k) => i = k
  BY <1>6
<1>c. \A k \in 1 .. (n - 1) - 1 : at(k) \in 1 .. n - 1 /\ k \in 1 .. n - 1
  BY <1>6
<1>d. /\ \A i, k \in 1 .. n : p[i] = p[k] => i = k
      /\ \A i, k \in 1 .. n - 1 : data[p[i]] = data[p[k]] => i = k
  BY <1>5
<1> HIDE DEF at, q
<1>8. /\ \A k \in 1 .. n : k # j - 1 => next'[p[k]] = next[p[k]]
      /\ j # 1 => j - 1 \in 1 .. n /\ next'[p[j - 1]] = p[j + 1]
      /\ head' = IF j = 1 THEN p[2] ELSE p[1]
      /\ next' \in [Nodes -> Nodes \cup {Null, Garbage}]
  <2>1. CASE DeleteHead
    <3>1. j = 1 /\ next' = next /\ head' = p[2]
      BY <1>5, <1>6, <2>1 DEF DeleteHead
    <3> QED  BY <1>3, <3>1 DEF TypeOK
  <2>2. CASE DeleteInner
    <3>1. j # 1 /\ j - 1 \in 1 .. n /\ prev = p[j - 1] /\ head' = p[1]
      BY <1>5, <1>6, <2>2 DEF DeleteInner
    <3>2. next' = [next EXCEPT ![p[j - 1]] = p[j + 1]]
      BY <1>6, <2>2, <3>1 DEF DeleteInner
    <3>3. \A k \in 1 .. n : k # j - 1 => p[k] # p[j - 1]
      BY <1>5, <3>1
    <3>4. j + 1 \in 1 .. n /\ next \in [Nodes -> Nodes \cup {Null, Garbage}]
      BY <1>3, <1>6 DEF TypeOK
    <3> QED  BY <1>5, <3>1, <3>2, <3>3, <3>4
  <2> QED  BY <2>1, <2>2
<1>9. TypeOK'
  <2>1. /\ head' \in Nodes
        /\ fd' = 0 /\ temp' = Null /\ prev' = Null
    BY <1>5, <1>6, <1>8 DEF DeleteHead, DeleteInner, Return
  <2> QED  BY <1>3, <1>8, <2>1 DEF TypeOK
<1>10. Chain(n - 1, q)'
  <2>1. q \in [1 .. n - 1 -> live']
    <3>1. ASSUME NEW k \in 1 .. n - 1
          PROVE  q[k] \in live'
      <4>1. k + 1 \in 1 .. n /\ k \in 1 .. n
        OBVIOUS
      <4> QED  BY <1>3, <1>5, <1>6, <1>7, <4>1
    <3> QED  BY <1>7, <3>1
  <2>2. ASSUME NEW i \in 1 .. n - 1, NEW k \in 1 .. n - 1, q[i] = q[k]
        PROVE  i = k
    <3>1. at(i) = at(k)
      BY <1>a, <1>d, <2>2, Zenon
    <3> QED  BY <1>b, <3>1
  <2>3. ASSUME NEW x \in live'
        PROVE  \E k \in 1 .. n - 1 : q[k] = x
    <3>1. PICK k \in 1 .. n : p[k] = x /\ k # j
      BY <1>3, <1>5, <1>6
    <3>2. CASE k < j
      BY <1>6, <1>7, <3>1, <3>2
    <3>3. CASE k > j
      <4>1. k - 1 \in 1 .. n - 1 /\ k - 1 >= j /\ (k - 1) + 1 = k
        BY <3>3
      <4> QED  BY <1>7, <3>1, <4>1
    <3> QED  BY <3>1, <3>2, <3>3
  <2>4. q[1] = head'
    BY <1>6, <1>7, <1>8
  <2>5. ASSUME NEW k \in 1 .. (n - 1) - 1
        PROVE  next'[q[k]] = q[k + 1] /\ data'[q[k]] \in Fds
    <3>1. /\ k \in 1 .. n - 1 /\ k + 1 \in 1 .. n - 1 /\ k \in 1 .. n
          /\ k + 1 \in 1 .. n /\ (k + 1) + 1 \in 1 .. n
      OBVIOUS
    <3>2. CASE k < j - 1
      <4>1. q[k] = p[k] /\ q[k + 1] = p[k + 1] /\ next'[p[k]] = next[p[k]]
        BY <1>6, <1>7, <1>8, <3>1, <3>2
      <4> QED  BY <1>3, <1>5, <3>1, <4>1
    <3>3. CASE k = j - 1
      <4>1. j # 1 /\ k + 1 = j /\ q[k] = p[j - 1] /\ q[k + 1] = p[j + 1]
        BY <1>6, <1>7, <3>1, <3>3
      <4>2. next'[p[j - 1]] = p[j + 1] /\ data[p[k]] \in Fds
        BY <1>5, <1>8, <3>1, <4>1
      <4> QED  BY <1>3, <3>3, <4>1, <4>2
    <3>4. CASE k >= j
      <4>1. q[k] = p[k + 1] /\ q[k + 1] = p[(k + 1) + 1]
        BY <1>7, <3>1, <3>4
      <4>2. next'[p[k + 1]] = next[p[k + 1]]
        BY <1>8, <3>1, <3>4
      <4> QED  BY <1>3, <1>5, <3>1, <4>1, <4>2
    <3> QED  BY <3>2, <3>3, <3>4
  <2>6. next'[q[n - 1]] = Null
    <3>1. CASE j = n - 1
      BY <1>5, <1>6, <1>7, <1>8, <3>1
    <3>2. CASE j < n - 1
      BY <1>5, <1>6, <1>7, <1>8, <3>2
    <3> QED  BY <1>6, <3>1, <3>2
  <2>7. ASSUME NEW i \in 1 .. (n - 1) - 1, NEW k \in 1 .. (n - 1) - 1,
               data'[q[i]] = data'[q[k]]
        PROVE  i = k
    <3>1. i \in 1 .. n - 1 /\ k \in 1 .. n - 1
      OBVIOUS
    <3>2. data[p[at(i)]] = data[p[at(k)]]
      BY <1>3, <1>a, <2>7, <3>1
    <3>3. at(i) = at(k)
      BY <1>c, <1>d, <3>2, Zenon
    <3> QED  BY <1>b, <3>1, <3>3
  <2> QED  BY <2>1, <2>2, <2>3, <2>4, <2>5, <2>6, <2>7 DEF Chain
<1>11. ChainInv(n - 1, q)'
  BY <1>3, <1>10 DEF ChainInv
<1>12. IInv'
  BY <1>7, <1>9, <1>11, NextIInv
<1>13. Keys' = Keys \ {fd}
  <2>1. Keys = {data[p[k]] : k \in 1 .. n - 1}
    BY <1>2, <1>3, KeysOfChain DEF ChainInv
  <2>2. Keys' = {data'[q[k]] : k \in 1 .. (n - 1) - 1}
    BY <1>7, <1>9, <1>10, KeysOfNextChain
  <2>3. ASSUME NEW x \in Keys'
        PROVE  x \in Keys \ {fd}
    <3>1. PICK k \in 1 .. (n - 1) - 1 : x = data[q[k]]
      BY <1>3, <2>2
    <3>2. q[k] = p[at(k)] /\ at(k) \in 1 .. n - 1 /\ at(k) # j
      BY <1>a, <1>c
    <3>3. x = data[p[at(k)]]
      BY <3>1, <3>2
    <3>4. x # fd
      BY <1>5, <1>6, <3>2, <3>3
    <3> QED  BY <2>1, <3>2, <3>3, <3>4
  <2>4. ASSUME NEW x \in Keys, x # fd
        PROVE  x \in Keys'
    <3>1. PICK k \in 1 .. n - 1 : x = data[p[k]] /\ k # j
      BY <1>6, <2>1, <2>4
    <3>2. \E i \in 1 .. (n - 1) - 1 : q[i] = p[k]
      <4>1. CASE k < j
        BY <1>6, <1>7, <4>1
      <4>2. CASE k > j
        <5>1. /\ k - 1 \in 1 .. (n - 1) - 1 /\ k - 1 \in 1 .. n - 1
              /\ k - 1 >= j /\ (k - 1) + 1 = k
          BY <4>2
        <5> QED  BY <1>7, <5>1
      <4> QED  BY <3>1, <4>1, <4>2
    <3> QED  BY <1>3, <2>2, <3>1, <3>2
  <2> QED  BY <2>3, <2>4
<1>14. RemovesKey
  BY <1>3, <1>13 DEF RemovesKey
<1> QED  BY <1>6, <1>12, <1>14, Zenon DEF Good

\* ss_delete finds no session of the descriptor: it was no key of the map.
LEMMA DeleteMissedStep ==
  ASSUME IInv, DeleteMissed
  PROVE  Good
<1>1. PICK n \in Nat \ {0} : \E p \in [1 .. n -> Nodes] : ChainInv(n, p)
  BY DEF IInv
<1>2. PICK p \in [1 .. n -> Nodes] : ChainInv(n, p)
  BY <1>1
<1>3. TypeOK /\ TypeOK' /\ call = "delete" /\ call' = "idle" /\ answer' = answer
  BY DEF IInv, TypeOK, DeleteMissed, Return
<1>4. fd \in Fds /\ fd \notin Keys
  BY <1>2, <1>3, WalkEnds DEF DeleteMissed
<1>5. Chain(n, p)' /\ Keys' = Keys
  BY <1>2, <1>3, SameChain DEF ChainInv, DeleteMissed
<1>6. ChainInv(n, p)'
  BY <1>3, <1>5 DEF ChainInv
<1>7. IInv'
  BY <1>3, <1>6, NextIInv
<1>8. KeepsMap
  BY <1>3, <1>5 DEF KeepsMap
<1> QED  BY <1>7, <1>8, Zenon DEF Good

\* Every step of Next.
LEMMA StepGood ==
  ASSUME IInv, Next
  PROVE  Good
BY CallStep, NextStep, SearchEnds, PushStep, UnlinkStep, DeleteMissedStep, Zenon
DEF Next, Loop

\* Nothing happens.
LEMMA StutterGood ==
  ASSUME IInv, UNCHANGED listVars
  PROVE  Good
<1>1. PICK n \in Nat \ {0} : \E p \in [1 .. n -> Nodes] : ChainInv(n, p)
  BY DEF IInv
<1>2. PICK p \in [1 .. n -> Nodes] : ChainInv(n, p)
  BY <1>1
<1>3. TypeOK /\ TypeOK'
  BY DEF IInv, TypeOK, listVars
<1>4. Chain(n, p)' /\ Keys' = Keys
  BY <1>2, <1>3, SameChain DEF ChainInv, listVars
<1>5. ASSUME NEW j \in 1 .. n, CursorAt(n, p, j)
      PROVE  CursorAt(n, p, j)'
  BY <1>5 DEF CursorAt, listVars
<1>6. ChainInv(n, p)'
  <2>1. /\ call' = call /\ fd' = fd /\ answer' = answer /\ data' = data
    BY DEF listVars
  <2> QED  BY <1>2, <1>4, <1>5, <2>1 DEF ChainInv
<1>7. IInv'
  BY <1>3, <1>6, NextIInv
<1>8. KeepsMap
  BY <1>4 DEF KeepsMap, listVars
<1> QED  BY <1>7, <1>8, Zenon DEF Good

\* ss_init: the list is a sentinel alone, and the map is empty.
LEMMA InitGood ==
  ASSUME Init
  PROVE  IInv /\ Keys = {} /\ answer = [fd |-> 0, found |-> FALSE]
<1>1. TypeOK
  BY ServerStoreAssumption DEF Init, TypeOK
<1> DEFINE p == [k \in 1 .. 1 |-> head]
<1>2. live = {head} /\ next[head] = Null /\ call = "idle"
  BY DEF Init
<1>3. Chain(1, p)
  BY <1>2 DEF Chain
<1>4. p \in [1 .. 1 -> Nodes] /\ ChainInv(1, p)
  BY <1>1, <1>2, <1>3 DEF ChainInv, TypeOK
<1>5. IInv
  <2> HIDE DEF p
  <2> QED  BY <1>1, <1>4 DEF IInv
<1>6. Keys = {data[p[k]] : k \in 1 .. 1 - 1}
  <2> HIDE DEF p
  <2> QED  BY <1>1, <1>3, KeysOfChain
<1> QED  BY <1>5, <1>6 DEF Init

-----------------------------------------------------------------------------
(* The theorems *)

\* The allocated nodes are always one chain of distinct descriptors that ends
\* in the sentinel, and a call in progress stands on it, whatever was pushed
\* and deleted before (server_store_ll.c:14-69).
THEOREM Inductive == Spec => []IInv
<1>1. Init => IInv
  BY InitGood
<1>2. IInv /\ [Next]_listVars => IInv'
  BY StepGood, StutterGood DEF Good
<1> QED  BY <1>1, <1>2, PTL DEF Spec

\* The variables have their types: a cursor never holds Garbage, and what
\* ss_push stores is a descriptor.
THEOREM StoreTypeOK == Spec => []TypeOK
<1>1. IInv => TypeOK
  BY DEF IInv
<1> QED  BY <1>1, Inductive, PTL

\* Nothing dangles, loops or leaks: the walk from the head meets every
\* allocated node once, no freed one, and ends in the sentinel, wherever in
\* the list sessions were unlinked (server_store_ll.c:46-69).
THEOREM StoreListIntact == Spec => []ListIntact
<1>1. IInv => ListIntact
  BY IInvImplies
<1> QED  BY <1>1, Inductive, PTL

\* The loops of ss_search and ss_delete read no freed node, prev is linked to
\* temp, and neither has passed the descriptor they look for.
THEOREM StoreCursorsSound == Spec => []CursorsSound
<1>1. IInv => CursorsSound
  BY IInvImplies
<1> QED  BY <1>1, Inductive, PTL

\* A step of the calls is a step of the map, or none of it.
LEMMA GoodRefines ==
  ASSUME Good
  PROVE  [Store!Next]_(Store!storeVars)
<1>1. CASE KeepsMap
  BY <1>1 DEF KeepsMap, Keys, Store!storeVars
<1>2. CASE fd \in Fds /\ FindsKey
  BY <1>2, Zenon DEF FindsKey, Keys, Store!Next, Store!Find
<1>3. CASE fd \in Fds /\ AddsKey
  BY <1>3, Zenon DEF AddsKey, Keys, Store!Next, Store!Add
<1>4. CASE fd \in Fds /\ RemovesKey
  BY <1>4, Zenon DEF RemovesKey, Keys, Store!Next, Store!Remove
<1> QED  BY <1>1, <1>2, <1>3, <1>4, Zenon DEF Good

\* The linked list, walked node by node, is the map of descriptors server.c
\* takes it for: a search answers whether the descriptor has a session, a push
\* adds one that had none, a deletion removes that one and no other.
THEOREM StoreImplements == Spec => ImplementsStore
<1>1. Init => Store!Init
  BY InitGood DEF Keys, Store!Init, Store!NoAnswer
<1>2. IInv /\ [Next]_listVars => [Store!Next]_(Store!storeVars)
  BY StepGood, StutterGood, GoodRefines
<1> QED  BY <1>1, <1>2, Inductive, PTL DEF Spec, ImplementsStore, Store!Spec
=============================================================================

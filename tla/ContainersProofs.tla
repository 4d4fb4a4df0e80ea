-------------------------- MODULE ContainersProofs --------------------------
(***************************************************************************)
(* Proofs about Containers, for any nodes and any values: the nodes of     *)
(* each container lie on the heap as one line, whose values are the        *)
(* contents of the abstract sequence.                                      *)
(***************************************************************************)
EXTENDS Containers, LeastNumber, FiniteSetTheorems, SequenceTheorems

-----------------------------------------------------------------------------
(* Sequences, element by element *)

\* A value in front of a sequence.
LEMMA ConsIs ==
  ASSUME NEW S, NEW n \in Nat, NEW a \in [1 .. n -> S], NEW b \in [1 .. n + 1 -> S],
         NEW v, b[1] = v, \A k \in 1 .. n : b[k + 1] = a[k]
  PROVE  b = <<v>> \o a
<1>1. /\ a \in Seq(S) /\ Len(a) = n /\ b \in Seq(S) /\ Len(b) = n + 1
      /\ v \in S /\ <<v>> \in Seq(S) /\ Len(<<v>>) = 1 /\ <<v>>[1] = v
  OBVIOUS
<1>2. /\ <<v>> \o a \in Seq(S) /\ Len(<<v>> \o a) = n + 1
      /\ \A k \in 1 .. n + 1 : (<<v>> \o a)[k] = IF k = 1 THEN v ELSE a[k - 1]
  BY <1>1, ConcatProperties
<1>3. \A k \in 1 .. n + 1 : b[k] = (<<v>> \o a)[k]
  <2>1. \A k \in 1 .. n + 1 : k # 1 => k - 1 \in 1 .. n /\ (k - 1) + 1 = k
    OBVIOUS
  <2> QED  BY <1>2, <2>1
<1> QED  BY <1>1, <1>2, <1>3, SeqEqual

\* A value behind a sequence.
LEMMA SnocIs ==
  ASSUME NEW S, NEW n \in Nat, NEW a \in [1 .. n -> S], NEW b \in [1 .. n + 1 -> S],
         NEW v, b[n + 1] = v, \A k \in 1 .. n : b[k] = a[k]
  PROVE  b = Append(a, v)
<1>1. a \in Seq(S) /\ Len(a) = n /\ b \in Seq(S) /\ Len(b) = n + 1 /\ v \in S
  OBVIOUS
<1>2. /\ Append(a, v) \in Seq(S) /\ Len(Append(a, v)) = n + 1
      /\ \A k \in 1 .. n + 1 : Append(a, v)[k] = IF k = n + 1 THEN v ELSE a[k]
  BY <1>1
<1>3. \A k \in 1 .. n + 1 : b[k] = Append(a, v)[k]
  BY <1>2
<1> QED  BY <1>1, <1>2, <1>3, SeqEqual

\* A sequence without its first value.
LEMMA TailIs ==
  ASSUME NEW S, NEW n \in Nat \ {0}, NEW a \in [1 .. n -> S], NEW b \in [1 .. n - 1 -> S],
         \A k \in 1 .. n - 1 : b[k] = a[k + 1]
  PROVE  a # <<>> /\ b = Tail(a) /\ Head(a) = a[1]
<1>1. a \in Seq(S) /\ Len(a) = n /\ b \in Seq(S) /\ Len(b) = n - 1 /\ a # <<>>
  OBVIOUS
<1>2. /\ Tail(a) \in Seq(S) /\ Len(Tail(a)) = n - 1 /\ Head(a) = a[1]
      /\ \A k \in 1 .. n - 1 : Tail(a)[k] = a[k + 1]
  BY <1>1
<1>3. \A k \in 1 .. n - 1 : b[k] = Tail(a)[k]
  BY <1>2
<1> QED  BY <1>1, <1>2, <1>3, SeqEqual

\* A sequence without its last value.
LEMMA FrontIs ==
  ASSUME NEW S, NEW n \in Nat \ {0}, NEW a \in [1 .. n -> S], NEW b \in [1 .. n - 1 -> S],
         \A k \in 1 .. n - 1 : b[k] = a[k]
  PROVE  a # <<>> /\ b = SubSeq(a, 1, Len(a) - 1) /\ a[Len(a)] = a[n]
<1>1. a \in Seq(S) /\ Len(a) = n /\ b \in Seq(S) /\ Len(b) = n - 1 /\ a # <<>>
  OBVIOUS
<1> DEFINE c == SubSeq(a, 1, n - 1)
<1>2. c \in Seq(S) /\ Len(c) = n - 1 /\ \A k \in 1 .. n - 1 : c[k] = a[k]
  BY SubSeqProperties
<1>3. \A k \in 1 .. n - 1 : b[k] = c[k]
  BY <1>2
<1> HIDE DEF c
<1>4. b = c
  BY <1>1, <1>2, <1>3, SeqEqual
<1> QED  BY <1>1, <1>4 DEF c

-----------------------------------------------------------------------------
(* Lines of nodes *)

\* p lists the n nodes of S, each once, and each of them holds a value.
Listed(n, p, S) ==
  /\ n \in Nat
  /\ p \in [1 .. n -> S]
  /\ \A j, k \in 1 .. n : p[j] = p[k] => j = k
  /\ \A x \in S : \E k \in 1 .. n : p[k] = x
  /\ \A k \in 1 .. n : value[p[k]] \in Values

\* The values of the nodes that p lists.
ValuesOf(n, p) == [k \in 1 .. n |-> value[p[k]]]

\* p with a node more in front or behind, and with a node less.
Before(n, p, e) == [k \in 1 .. n + 1 |-> IF k = 1 THEN e ELSE p[k - 1]]
Behind(n, p, e) == [k \in 1 .. n + 1 |-> IF k = n + 1 THEN e ELSE p[k]]
Rest(n, p)      == [k \in 1 .. n - 1 |-> p[k + 1]]
Start(n, p)     == [k \in 1 .. n - 1 |-> p[k]]

\* A line is as long as its set is large, and not longer than the heap.
LEMMA ListedSize ==
  ASSUME NEW S \in SUBSET Nodes, NEW n, NEW p, Listed(n, p, S)
  PROVE  /\ IsFiniteSet(S) /\ Cardinality(S) = n
         /\ Cardinality(Nodes) \in Nat /\ n <= Cardinality(Nodes)
         /\ S = {} <=> n = 0
<1>1. IsFiniteSet(Nodes) /\ IsFiniteSet(S) /\ Cardinality(S) <= Cardinality(Nodes)
  BY HeapAssumption, FS_Subset DEF HeapAssumption
<1>2. p \in Bijection(1 .. n, S)
  BY DEF Listed, Bijection, Injection, Surjection, IsInjective
<1>3. IsFiniteSet(1 .. n) /\ Cardinality(1 .. n) = n
  BY FS_Interval DEF Listed
<1>4. Cardinality(S) = n
  <2>1. ExistsBijection(1 .. n, S)
    BY <1>2, Zenon DEF ExistsBijection
  <2> QED  BY <1>3, <2>1, FS_Bijection
<1>5. Cardinality(Nodes) \in Nat
  BY <1>1, FS_CardinalityType
<1>6. S = {} <=> n = 0
  BY DEF Listed
<1> QED  BY <1>1, <1>4, <1>5, <1>6

\* W is V with x in front, with x behind, without its first value x, and
\* without its last.
InFront(x, V, W)   == W = <<x>> \o V
InBack(x, V, W)    == W = Append(V, x)
LessFirst(V, W, x) == V # <<>> /\ W = Tail(V) /\ x = Head(V)
LessLast(V, W, x)  == V # <<>> /\ W = SubSeq(V, 1, Len(V) - 1) /\ x = V[Len(V)]

\* The new node comes in front.
LEMMA AddBefore ==
  ASSUME NEW S, NEW n, NEW p, Listed(n, p, S),
         NEW e, e \notin S, NEW v \in Values,
         value'[e] = v, \A x \in S : value'[x] = value[x]
  PROVE  /\ Listed(n + 1, Before(n, p, e), S \cup {e})'
         /\ InFront(v, ValuesOf(n, p), ValuesOf(n + 1, Before(n, p, e))')
<1> DEFINE w == Before(n, p, e)
<1>0. /\ n \in Nat /\ \A k \in 1 .. n : p[k] \in S /\ value[p[k]] \in Values
      /\ \A j, k \in 1 .. n : p[j] = p[k] => j = k
      /\ \A x \in S : \E k \in 1 .. n : p[k] = x
  BY DEF Listed
<1>1. /\ DOMAIN w = 1 .. n + 1 /\ w \in [1 .. n + 1 -> S \cup {e}]
      /\ w[1] = e /\ 1 \in 1 .. n + 1
      /\ \A k \in 1 .. n : k + 1 \in 1 .. n + 1 /\ w[k + 1] = p[k]
      /\ \A k \in 1 .. n + 1 : k # 1 => k - 1 \in 1 .. n /\ w[k] = p[k - 1]
  BY <1>0 DEF Before
<1> HIDE DEF w
<1>2. ASSUME NEW j \in 1 .. n + 1, NEW k \in 1 .. n + 1, w[j] = w[k]
      PROVE  j = k
  <2>1. ASSUME NEW m \in 1 .. n + 1, m # 1
        PROVE  w[m] # e
    <3>1. m - 1 \in 1 .. n /\ w[m] = p[m - 1]
      BY <1>1, <2>1
    <3>2. p[m - 1] \in S
      BY <1>0, <3>1
    <3> QED  BY <3>1, <3>2
  <2>2. CASE j = 1 \/ k = 1
    BY <1>1, <1>2, <2>1, <2>2
  <2>3. CASE j # 1 /\ k # 1
    <3>1. j - 1 \in 1 .. n /\ k - 1 \in 1 .. n /\ p[j - 1] = p[k - 1]
      BY <1>1, <1>2, <2>3
    <3>2. j - 1 = k - 1
      BY <1>0, <3>1
    <3> QED  BY <3>2
  <2> QED  BY <2>2, <2>3
<1>3. \A x \in S \cup {e} : \E k \in 1 .. n + 1 : w[k] = x
  BY <1>0, <1>1
<1>4. \A k \in 1 .. n + 1 : value'[w[k]] = IF k = 1 THEN v ELSE value[p[k - 1]]
  BY <1>0, <1>1
<1>5. \A k \in 1 .. n + 1 : value'[w[k]] \in Values
  <2>1. \A k \in 1 .. n + 1 : k # 1 => k - 1 \in 1 .. n
    BY <1>0
  <2> QED  BY <1>0, <1>4, <2>1
<1>6. Listed(n + 1, w, S \cup {e})'
  BY <1>0, <1>1, <1>2, <1>3, <1>5 DEF Listed
<1>7. [k \in 1 .. n + 1 |-> value'[w[k]]] = <<v>> \o [k \in 1 .. n |-> value[p[k]]]
  <2> DEFINE a == [k \in 1 .. n |-> value[p[k]]]
             b == [k \in 1 .. n + 1 |-> value'[w[k]]]
  <2>1. a \in [1 .. n -> Values] /\ b \in [1 .. n + 1 -> Values]
    BY <1>0, <1>5
  <2>2. b[1] = v /\ \A k \in 1 .. n : b[k + 1] = a[k]
    BY <1>0, <1>1, <1>4
  <2> HIDE DEF a, b
  <2>3. b = <<v>> \o a
    BY <1>0, <2>1, <2>2, ConsIs
  <2> QED  BY <2>3 DEF a, b
<1> QED  BY <1>6, <1>7 DEF ValuesOf, InFront, w

\* The new node comes behind.
LEMMA AddBehind ==
  ASSUME NEW S, NEW n, NEW p, Listed(n, p, S),
         NEW e, e \notin S, NEW v \in Values,
         value'[e] = v, \A x \in S : value'[x] = value[x]
  PROVE  /\ Listed(n + 1, Behind(n, p, e), S \cup {e})'
         /\ InBack(v, ValuesOf(n, p), ValuesOf(n + 1, Behind(n, p, e))')
<1> DEFINE w == Behind(n, p, e)
<1>0. /\ n \in Nat /\ \A k \in 1 .. n : p[k] \in S /\ value[p[k]] \in Values
      /\ \A j, k \in 1 .. n : p[j] = p[k] => j = k
      /\ \A x \in S : \E k \in 1 .. n : p[k] = x
  BY DEF Listed
<1>1. /\ w \in [1 .. n + 1 -> S \cup {e}]
      /\ w[n + 1] = e /\ n + 1 \in 1 .. n + 1
      /\ \A k \in 1 .. n : k \in 1 .. n + 1 /\ w[k] = p[k]
      /\ \A k \in 1 .. n + 1 : k = n + 1 \/ k \in 1 .. n
  BY <1>0 DEF Behind
<1> HIDE DEF w
<1>2. ASSUME NEW j \in 1 .. n + 1, NEW k \in 1 .. n + 1, w[j] = w[k]
      PROVE  j = k
  BY <1>0, <1>1, <1>2
<1>3. \A x \in S \cup {e} : \E k \in 1 .. n + 1 : w[k] = x
  BY <1>0, <1>1
<1>4. value'[w[n + 1]] = v /\ \A k \in 1 .. n : value'[w[k]] = value[p[k]]
  BY <1>0, <1>1
<1>5. \A k \in 1 .. n + 1 : value'[w[k]] \in Values
  BY <1>0, <1>1, <1>4
<1>6. Listed(n + 1, w, S \cup {e})'
  BY <1>0, <1>1, <1>2, <1>3, <1>5 DEF Listed
<1>7. [k \in 1 .. n + 1 |-> value'[w[k]]] = Append([k \in 1 .. n |-> value[p[k]]], v)
  <2> DEFINE a == [k \in 1 .. n |-> value[p[k]]]
             b == [k \in 1 .. n + 1 |-> value'[w[k]]]
  <2>1. a \in [1 .. n -> Values] /\ b \in [1 .. n + 1 -> Values]
    BY <1>0, <1>5
  <2>2. b[n + 1] = v /\ \A k \in 1 .. n : b[k] = a[k]
    BY <1>0, <1>1, <1>4
  <2> HIDE DEF a, b
  <2>3. b = Append(a, v)
    BY <1>0, <2>1, <2>2, SnocIs
  <2> QED  BY <2>3 DEF a, b
<1> QED  BY <1>6, <1>7 DEF ValuesOf, InBack, w

\* The first node is taken away.
LEMMA RemoveFirst ==
  ASSUME NEW S, NEW n, n # 0, NEW p, Listed(n, p, S),
         \A x \in S : value'[x] = value[x]
  PROVE  /\ Listed(n - 1, Rest(n, p), S \ {p[1]})'
         /\ LessFirst(ValuesOf(n, p), ValuesOf(n - 1, Rest(n, p))', value[p[1]])
<1> DEFINE w == Rest(n, p)
<1>0. /\ n \in Nat \ {0} /\ \A k \in 1 .. n : p[k] \in S /\ value[p[k]] \in Values
      /\ \A j, k \in 1 .. n : p[j] = p[k] => j = k
      /\ \A x \in S : \E k \in 1 .. n : p[k] = x
  BY DEF Listed
<1>1. /\ n - 1 \in Nat /\ DOMAIN w = 1 .. n - 1 /\ 1 \in 1 .. n
      /\ \A k \in 1 .. n - 1 : k + 1 \in 1 .. n /\ k + 1 # 1 /\ w[k] = p[k + 1]
      /\ \A k \in 1 .. n : k # 1 => k - 1 \in 1 .. n - 1 /\ (k - 1) + 1 = k
  BY <1>0 DEF Rest
<1>2. w \in [1 .. n - 1 -> S \ {p[1]}]
  <2>1. ASSUME NEW k \in 1 .. n - 1
        PROVE  w[k] \in S \ {p[1]}
    <3>1. k + 1 \in 1 .. n /\ k + 1 # 1 /\ w[k] = p[k + 1]
      BY <1>1
    <3>2. p[k + 1] # p[1] /\ p[k + 1] \in S
      BY <1>0, <1>1, <3>1
    <3> QED  BY <3>1, <3>2
  <2> QED  BY <2>1 DEF Rest
<1> HIDE DEF w
<1>3. ASSUME NEW j \in 1 .. n - 1, NEW k \in 1 .. n - 1, w[j] = w[k]
      PROVE  j = k
  <2>1. j + 1 \in 1 .. n /\ k + 1 \in 1 .. n /\ p[j + 1] = p[k + 1]
    BY <1>1, <1>3
  <2>2. j + 1 = k + 1
    BY <1>0, <2>1
  <2> QED  BY <2>2
<1>4. ASSUME NEW x \in S \ {p[1]}
      PROVE  \E k \in 1 .. n - 1 : w[k] = x
  <2>1. PICK k \in 1 .. n : p[k] = x /\ k # 1
    BY <1>0
  <2>2. k - 1 \in 1 .. n - 1 /\ (k - 1) + 1 = k
    BY <1>1, <2>1
  <2>3. w[k - 1] = x
    BY <1>1, <2>1, <2>2
  <2> QED  BY <2>2, <2>3
<1>5. \A k \in 1 .. n - 1 : value'[w[k]] = value[p[k + 1]] /\ value'[w[k]] \in Values
  BY <1>0, <1>1
<1>6. Listed(n - 1, w, S \ {p[1]})'
  BY <1>1, <1>2, <1>3, <1>4, <1>5 DEF Listed
<1>7. /\ [k \in 1 .. n |-> value[p[k]]] # <<>>
      /\ [k \in 1 .. n - 1 |-> value'[w[k]]] = Tail([k \in 1 .. n |-> value[p[k]]])
      /\ Head([k \in 1 .. n |-> value[p[k]]]) = value[p[1]]
  <2> DEFINE a == [k \in 1 .. n |-> value[p[k]]]
             b == [k \in 1 .. n - 1 |-> value'[w[k]]]
  <2>1. a \in [1 .. n -> Values] /\ b \in [1 .. n - 1 -> Values]
    BY <1>0, <1>5
  <2>2. a[1] = value[p[1]] /\ \A k \in 1 .. n - 1 : b[k] = a[k + 1]
    BY <1>0, <1>1, <1>5
  <2> HIDE DEF a, b
  <2>3. a # <<>> /\ b = Tail(a) /\ Head(a) = a[1]
    BY <1>0, <2>1, <2>2, TailIs
  <2> QED  BY <2>2, <2>3 DEF a, b
<1> QED  BY <1>6, <1>7 DEF ValuesOf, LessFirst, w

\* The last node is taken away.
LEMMA RemoveLast ==
  ASSUME NEW S, NEW n, n # 0, NEW p, Listed(n, p, S),
         \A x \in S : value'[x] = value[x]
  PROVE  /\ Listed(n - 1, Start(n, p), S \ {p[n]})'
         /\ LessLast(ValuesOf(n, p), ValuesOf(n - 1, Start(n, p))', value[p[n]])
<1> DEFINE w == Start(n, p)
<1>0. /\ n \in Nat \ {0} /\ \A k \in 1 .. n : p[k] \in S /\ value[p[k]] \in Values
      /\ \A j, k \in 1 .. n : p[j] = p[k] => j = k
      /\ \A x \in S : \E k \in 1 .. n : p[k] = x
  BY DEF Listed
<1>1. /\ n - 1 \in Nat /\ n \in 1 .. n
      /\ \A k \in 1 .. n - 1 : k \in 1 .. n /\ k # n /\ w[k] = p[k]
      /\ \A k \in 1 .. n : k # n => k \in 1 .. n - 1
  BY <1>0 DEF Start
<1>2. w \in [1 .. n - 1 -> S \ {p[n]}]
  <2>1. \A k \in 1 .. n - 1 : w[k] \in S \ {p[n]}
    BY <1>0, <1>1
  <2> QED  BY <2>1 DEF Start
<1> HIDE DEF w
<1>3. ASSUME NEW j \in 1 .. n - 1, NEW k \in 1 .. n - 1, w[j] = w[k]
      PROVE  j = k
  BY <1>0, <1>1, <1>3
<1>4. \A x \in S \ {p[n]} : \E k \in 1 .. n - 1 : w[k] = x
  BY <1>0, <1>1
<1>5. \A k \in 1 .. n - 1 : value'[w[k]] = value[p[k]] /\ value'[w[k]] \in Values
  BY <1>0, <1>1
<1>6. Listed(n - 1, w, S \ {p[n]})'
  BY <1>1, <1>2, <1>3, <1>4, <1>5 DEF Listed
<1>7. LET a == [k \in 1 .. n |-> value[p[k]]]
      IN  /\ a # <<>>
          /\ [k \in 1 .. n - 1 |-> value'[w[k]]] = SubSeq(a, 1, Len(a) - 1)
          /\ value[p[n]] = a[Len(a)]
  <2> DEFINE a == [k \in 1 .. n |-> value[p[k]]]
             b == [k \in 1 .. n - 1 |-> value'[w[k]]]
  <2>1. a \in [1 .. n -> Values] /\ b \in [1 .. n - 1 -> Values]
    BY <1>0, <1>5
  <2>2. a[n] = value[p[n]] /\ \A k \in 1 .. n - 1 : b[k] = a[k]
    BY <1>0, <1>1, <1>5
  <2> HIDE DEF a, b
  <2>3. a # <<>> /\ b = SubSeq(a, 1, Len(a) - 1) /\ a[Len(a)] = a[n]
    BY <1>0, <2>1, <2>2, FrontIs
  <2> QED  BY <2>2, <2>3 DEF a, b
<1> QED  BY <1>6, <1>7 DEF ValuesOf, LessLast, w

-----------------------------------------------------------------------------
(* Walks along the heap *)

\* Where a walk goes from x.
Onward(x) == IF x \in Nodes THEN next[x] ELSE Null

\* The equation that defines Walk(first), for its first m steps.
Walks(at, first, m) ==
  at = [k \in 0 .. m |-> IF k = 0 THEN first ELSE Onward(at[k - 1])]

\* There is such a walk of any length.
LEMMA WalksExist ==
  ASSUME NEW first, NEW n \in Nat
  PROVE  \E at : Walks(at, first, n)
<1> DEFINE T == {m \in Nat : ~ \E at : Walks(at, first, m)}
<1> SUFFICES ASSUME T # {} PROVE FALSE
  OBVIOUS
<1>1. PICK m \in T : \A k \in T : m <= k
  BY Least
<1>2. m # 0
  <2> DEFINE f == [k \in 0 .. 0 |-> first]
  <2>1. f = [k \in 0 .. 0 |-> IF k = 0 THEN first ELSE Onward(f[k - 1])]
    OBVIOUS
  <2>2. Walks(f, first, 0)
    BY <2>1 DEF Walks
  <2> QED  BY <2>2
<1>3. PICK f : Walks(f, first, m - 1)
  <2>1. m - 1 \in Nat /\ m - 1 \notin T
    BY <1>1, <1>2
  <2> QED  BY <2>1
<1> DEFINE x == Onward(f[m - 1])
           g == [k \in 0 .. m |-> IF k < m THEN f[k] ELSE x]
<1>4. ASSUME NEW k \in 0 .. m
      PROVE  g[k] = IF k = 0 THEN first ELSE Onward(g[k - 1])
  <2>1. CASE k = m
    <3>1. g[k] = x /\ g[k - 1] = f[k - 1] /\ k # 0
      BY <1>1, <1>2, <2>1
    <3> QED  BY <2>1, <3>1
  <2>2. CASE k < m
    <3>1. k \in 0 .. m - 1 /\ g[k] = f[k] /\ (k # 0 => g[k - 1] = f[k - 1])
      BY <1>1, <2>2
    <3> HIDE DEF g
    <3> QED  BY <1>3, <3>1 DEF Walks
  <2> QED  BY <1>1, <2>1, <2>2
<1>5. g = [k \in 0 .. m |-> IF k = 0 THEN first ELSE Onward(g[k - 1])]
  BY <1>4
<1>6. Walks(g, first, m)
  BY <1>5 DEF Walks
<1> QED  BY <1>1, <1>6

\* The walk of the model goes step by step.
LEMMA WalkStep ==
  ASSUME NEW first
  PROVE  LET at == Walk(first)
         IN  /\ DOMAIN at = 0 .. Cardinality(Nodes)
             /\ at[0] = first
             /\ \A k \in 1 .. Cardinality(Nodes) : at[k] = Onward(at[k - 1])
<1> DEFINE at == Walk(first)
           N == Cardinality(Nodes)
<1>0. N \in Nat
  BY HeapAssumption, FS_CardinalityType DEF HeapAssumption
<1>1. at = CHOOSE w : Walks(w, first, N)
  BY Zenon DEF Walk, Walks, Onward
<1>2. Walks(at, first, N)
  <2>1. \E w : Walks(w, first, N)
    BY <1>0, WalksExist
  <2> QED  BY <1>1, <2>1, Zenon
<1> HIDE DEF at
<1>3. /\ DOMAIN at = 0 .. N
      /\ \A k \in 0 .. N : at[k] = IF k = 0 THEN first ELSE Onward(at[k - 1])
  BY <1>2 DEF Walks
<1>4. at[0] = first /\ \A k \in 1 .. N : at[k] = Onward(at[k - 1])
  BY <1>0, <1>3
<1> QED  BY <1>3, <1>4 DEF at

\* The first of the nodes that p lists, and the links between them.
FirstOf(n, p) == IF n = 0 THEN Null ELSE p[1]
Linked(n, p) == \A k \in 1 .. n - 1 : next[p[k]] = p[k + 1]

\* A walk along linked nodes meets them in their order, and all of them.
LEMMA WalkLine ==
  ASSUME NEW S \in SUBSET Nodes, NEW n, NEW p, Listed(n, p, S), Linked(n, p)
  PROVE  /\ \A k \in 1 .. n : Walk(FirstOf(n, p))[k - 1] = p[k]
         /\ \A x \in S : \E k \in 0 .. Cardinality(Nodes) : Walk(FirstOf(n, p))[k] = x
<1> DEFINE at == Walk(FirstOf(n, p))
           N == Cardinality(Nodes)
<1>0. n \in Nat /\ N \in Nat /\ n <= N
  <2>1. n \in Nat
    BY DEF Listed
  <2>2. N \in Nat /\ n <= N
    BY ListedSize
  <2> QED  BY <2>1, <2>2
<1>1. /\ at[0] = FirstOf(n, p)
      /\ \A k \in 1 .. N : at[k] = Onward(at[k - 1])
  BY WalkStep
<1> HIDE DEF at
<1>2. \A k \in 1 .. n : p[k] \in S /\ p[k] \in Nodes
  BY DEF Listed
<1>3. ASSUME NEW k \in 1 .. n
      PROVE  at[k - 1] = p[k]
  <2> DEFINE T == {m \in 1 .. n : at[m - 1] # p[m]}
  <2> SUFFICES ASSUME T # {} PROVE FALSE
    BY <1>3
  <2>1. T \in SUBSET Nat
    BY <1>0
  <2>2. PICK m \in T : \A j \in T : m <= j
    BY <2>1, Least
  <2>3. CASE m = 1
    BY <1>0, <1>1, <2>2, <2>3 DEF FirstOf
  <2>4. CASE m # 1
    <3>1. /\ m - 1 \in 1 .. n - 1 /\ m - 1 \in 1 .. n /\ m - 1 \in 1 .. N
          /\ (m - 1) + 1 = m /\ m - 1 \notin T
      BY <1>0, <2>2, <2>4
    <3>2. at[(m - 1) - 1] = p[m - 1]
      BY <3>1
    <3>3. at[m - 1] = Onward(p[m - 1])
      BY <1>1, <3>1, <3>2
    <3>4. next[p[m - 1]] = p[m]
      BY <3>1 DEF Linked
    <3> QED  BY <1>2, <2>2, <3>1, <3>3, <3>4 DEF Onward
  <2> QED  BY <2>3, <2>4
<1>4. \A k \in 1 .. n : k - 1 \in 0 .. N
  BY <1>0
<1>5. \A x \in S : \E k \in 1 .. n : p[k] = x
  BY DEF Listed
<1>6. \A x \in S : \E k \in 0 .. N : at[k] = x
  BY <1>3, <1>4, <1>5
<1> QED  BY <1>3, <1>6 DEF at

\* A walk that only goes from places of R to places of R meets nothing else.
LEMMA WalkWithin ==
  ASSUME NEW R, NEW first \in R, \A x \in R : Onward(x) \in R
  PROVE  \A k \in 0 .. Cardinality(Nodes) : Walk(first)[k] \in R
<1> DEFINE at == Walk(first)
           N == Cardinality(Nodes)
<1>0. N \in Nat
  BY HeapAssumption, FS_CardinalityType DEF HeapAssumption
<1>1. at[0] = first /\ \A k \in 1 .. N : at[k] = Onward(at[k - 1])
  BY WalkStep
<1> HIDE DEF at
<1> DEFINE T == {m \in 0 .. N : at[m] \notin R}
<1> SUFFICES ASSUME T # {} PROVE FALSE
  BY DEF at
<1>2. T \in SUBSET Nat
  BY <1>0
<1>3. PICK m \in T : \A j \in T : m <= j
  BY <1>2, Least
<1>4. CASE m = 0
  BY <1>1, <1>3, <1>4
<1>5. CASE m # 0
  <2>1. m \in 1 .. N /\ m - 1 \in 0 .. N /\ m - 1 \notin T
    BY <1>0, <1>3, <1>5
  <2>2. at[m - 1] \in R /\ at[m] = Onward(at[m - 1])
    BY <1>1, <2>1
  <2> QED  BY <1>3, <2>2
<1> QED  BY <1>4, <1>5

-----------------------------------------------------------------------------
(* The invariant *)

\* The last of the nodes that p lists.
LastOf(n, p) == IF n = 0 THEN Null ELSE p[n]

\* The stack is linked from the top down.
StackLine(n, p) ==
  /\ Listed(n, p, live) /\ Linked(n, p)
  /\ s = FirstOf(n, p)
  /\ n # 0 => next[p[n]] = Null

\* The queue is linked from the head to the tail, which may dangle when there
\* is no node.
QueueLine(n, p) ==
  /\ Listed(n, p, live) /\ Linked(n, p)
  /\ head = FirstOf(n, p)
  /\ n # 0 => next[p[n]] = Null /\ tail = p[n]

\* The circular queue is closed.
RingLine(n, p) ==
  /\ Listed(n, p, live) /\ Linked(n, p)
  /\ front = FirstOf(n, p)
  /\ rear = LastOf(n, p)
  /\ n # 0 => next[p[n]] = p[1]

\* The k-th node of the deque: its head is before the first and behind the
\* last one.
At(n, p, k) == IF k \in 1 .. n THEN p[k] ELSE d

\* The deque is linked in both directions.
Around(n, p) ==
  /\ d \in live
  /\ Listed(n, p, live \ {d})
  /\ \A k \in 0 .. n : /\ link["front"][At(n, p, k)] = At(n, p, k + 1)
                       /\ link["back"][At(n, p, k + 1)] = At(n, p, k)

DequeLine(n, p) ==
  IF phase \in {"use", "destroy"} THEN Around(n, p) ELSE live = {} /\ Listed(n, p, live)

Line(n, p) ==
  /\ kind = "stack" => StackLine(n, p)
  /\ kind = "queue" => QueueLine(n, p)
  /\ kind = "ring"  => RingLine(n, p)
  /\ kind = "deque" => DequeLine(n, p)

\* The types, without the names of the instances.
Typed ==
  /\ kind \in Kinds
  /\ next \in [Nodes -> Nodes \cup {Null, Garbage}]
  /\ value \in [Nodes -> Values \cup {Garbage}]
  /\ live \subseteq Nodes
  /\ out \in Values \cup {Nothing}
  /\ s \in Nodes \cup {Null}
  /\ q \in {"use", "destroy", "gone"}
  /\ head \in Nodes \cup {Null} /\ tail \in Nodes \cup {Null}
  /\ front \in Nodes \cup {Null} /\ rear \in Nodes \cup {Null}
  /\ d \in Nodes \cup {Null}
  /\ link \in [{"front", "back"} -> [Nodes -> Nodes \cup {Garbage}]]
  /\ phase \in {"none", "use", "destroy", "gone"}

IInv == Typed /\ \E n \in Nat : \E p \in [1 .. n -> Nodes] : Line(n, p)

\* These are the types that the runs check.
LEMMA TypedIs == TypeOK <=> Typed
BY DEF TypeOK, Typed, Stack!TypeOK, Queue!TypeOK, Ring!TypeOK, Deque!TypeOK,
       Stack!HeapTypeOK, Queue!HeapTypeOK, Ring!HeapTypeOK, Deque!HeapTypeOK,
       Stack!Nothing, Queue!Nothing, Ring!Nothing, Deque!Nothing, Nothing,
       Deque!Directions

\* Each container counts as Containers does.
LEMMA Counts ==
  \A S : Deque!Cardinality(S) = Cardinality(S) /\ Ring!Cardinality(S) = Cardinality(S)
         /\ Stack!Cardinality(S) = Cardinality(S) /\ Queue!Cardinality(S) = Cardinality(S)
BY DEF Cardinality, Deque!Cardinality, Ring!Cardinality, Stack!Cardinality,
       Queue!Cardinality

\* The walks of the instances are the walks of Containers.
LEMMA OneHeap ==
  /\ \A f : Ring!Walk(f) = Walk(f) /\ Stack!Met(f) = Met(f)
  /\ \A f : Queue!Met(f) = Met(f) /\ Ring!Met(f) = Met(f)
<1>1. Stack!Cardinality(Nodes) = Cardinality(Nodes)
  BY Counts, Zenon
<1>2. Queue!Cardinality(Nodes) = Cardinality(Nodes)
  BY Counts, Zenon
<1>3. Ring!Cardinality(Nodes) = Cardinality(Nodes)
  BY Counts, Zenon
<1>4. \A f : Stack!Walk(f) = Walk(f) /\ Queue!Walk(f) = Walk(f) /\ Ring!Walk(f) = Walk(f)
  BY <1>1, <1>2, <1>3, Zenon DEF Walk, Stack!Walk, Queue!Walk, Ring!Walk
<1> QED  BY <1>1, <1>2, <1>3, <1>4, Zenon DEF Met, Stack!Met, Queue!Met, Ring!Met

-----------------------------------------------------------------------------
(* What the lines show *)

\* The walk from the first node is the line, and gives its values.
LEMMA LineWalked ==
  ASSUME Typed, NEW n, NEW p, Listed(n, p, live), Linked(n, p)
  PROVE  /\ ValuesFrom(FirstOf(n, p)) = ValuesOf(n, p)
         /\ live \subseteq Met(FirstOf(n, p))
         /\ n # 0 => Walk(FirstOf(n, p))[Cardinality(live) - 1] = p[n]
<1> DEFINE at == Walk(FirstOf(n, p))
<1>1. live \subseteq Nodes /\ Null \notin Nodes /\ n \in Nat
  BY HeapAssumption DEF Typed, HeapAssumption, Listed
<1>2. Cardinality(live) = n
  BY <1>1, ListedSize
<1>3. /\ \A k \in 1 .. n : at[k - 1] = p[k]
      /\ \A x \in live : \E k \in 0 .. Cardinality(Nodes) : at[k] = x
  <2>1. live \in SUBSET Nodes
    BY <1>1
  <2> HIDE DEF at
  <2>2. PICK S \in SUBSET Nodes : S = live
    BY <2>1
  <2>3. Listed(n, p, S)
    BY <2>2
  <2>4. \A k \in 1 .. n : Walk(FirstOf(n, p))[k - 1] = p[k]
    BY <2>3, WalkLine
  <2>5. \A x \in S : \E k \in 0 .. Cardinality(Nodes) : Walk(FirstOf(n, p))[k] = x
    BY <2>3, WalkLine
  <2> QED  BY <2>2, <2>4, <2>5 DEF at
<1> HIDE DEF at
<1>4. [k \in 1 .. n |-> value[at[k - 1]]] = [k \in 1 .. n |-> value[p[k]]]
  BY <1>3
<1>5. live \subseteq {at[k] : k \in 0 .. Cardinality(Nodes)} \ {Null}
  BY <1>1, <1>3
<1>6. n # 0 => at[n - 1] = p[n]
  BY <1>1, <1>3
<1> QED  BY <1>2, <1>4, <1>5, <1>6 DEF ValuesFrom, ValuesOf, Met, at

\* A line that ends in null, or is closed, leads nowhere else.
LEMMA NothingElseMet ==
  ASSUME Typed, NEW n, NEW p, Listed(n, p, live), Linked(n, p),
         n # 0 => next[p[n]] \in {Null, p[1]}
  PROVE  Met(FirstOf(n, p)) = live
<1>1. /\ live \subseteq Nodes /\ Null \notin Nodes /\ n \in Nat
      /\ \A k \in 1 .. n : p[k] \in live
      /\ \A x \in live : \E k \in 1 .. n : p[k] = x
  BY HeapAssumption DEF Typed, HeapAssumption, Listed
<1> DEFINE R == live \cup {Null}
<1>2. FirstOf(n, p) \in R
  BY <1>1 DEF FirstOf
<1>3. ASSUME NEW x \in R
      PROVE  Onward(x) \in R
  <2>1. CASE x = Null
    BY <1>1, <2>1 DEF Onward
  <2>2. CASE x \in live
    <3>1. PICK k \in 1 .. n : p[k] = x
      BY <1>1, <2>2
    <3>2. CASE k = n
      <4>1. n # 0 /\ 1 \in 1 .. n
        BY <1>1, <3>2
      <4> QED  BY <1>1, <2>2, <3>1, <3>2, <4>1 DEF Onward
    <3>3. CASE k # n
      <4>1. k \in 1 .. n - 1 /\ k + 1 \in 1 .. n
        BY <1>1, <3>3
      <4> QED  BY <1>1, <2>2, <3>1, <4>1 DEF Onward, Linked
    <3> QED  BY <3>2, <3>3
  <2> QED  BY <2>1, <2>2
<1>4. \A k \in 0 .. Cardinality(Nodes) : Walk(FirstOf(n, p))[k] \in R
  BY <1>2, <1>3, WalkWithin
<1>5. live \subseteq Met(FirstOf(n, p))
  BY LineWalked
<1> QED  BY <1>1, <1>4, <1>5 DEF Met

\* The nodes around the deque.
LEMMA AroundAt ==
  ASSUME Typed, NEW n, NEW p, Around(n, p)
  PROVE  /\ n \in Nat /\ d \in live /\ d \in Nodes
         /\ \A k : At(n, p, k) \in live
         /\ \A k \in 1 .. n : At(n, p, k) = p[k] /\ p[k] # d
         /\ At(n, p, 0) = d /\ At(n, p, n + 1) = d
         /\ \A x \in live : \E k \in 0 .. n : At(n, p, k) = x
         /\ link["front"][d] = At(n, p, 1) /\ link["back"][d] = At(n, p, n)
<1>1. /\ n \in Nat /\ d \in live /\ d \in Nodes
      /\ \A k \in 1 .. n : p[k] \in live \ {d}
      /\ \A x \in live \ {d} : \E k \in 1 .. n : p[k] = x
  BY DEF Around, Listed, Typed
<1>2. At(n, p, 0) = d /\ At(n, p, n + 1) = d
  BY <1>1 DEF At
<1>3. ASSUME NEW x \in live
      PROVE  \E k \in 0 .. n : At(n, p, k) = x
  <2>1. CASE x = d
    BY <1>1, <1>2, <2>1
  <2>2. CASE x # d
    <3>1. PICK k \in 1 .. n : p[k] = x
      BY <1>1, <2>2
    <3> QED  BY <1>1, <3>1 DEF At
  <2> QED  BY <2>1, <2>2
<1>4. link["front"][At(n, p, 0)] = At(n, p, 0 + 1) /\ link["back"][At(n, p, n + 1)] = At(n, p, n)
  <2>1. 0 \in 0 .. n /\ n \in 0 .. n
    BY <1>1
  <2> QED  BY <2>1 DEF Around
<1>5. \A k : At(n, p, k) \in live
  BY <1>1 DEF At
<1>6. \A k \in 1 .. n : At(n, p, k) = p[k]
  BY DEF At
<1> QED  BY <1>1, <1>2, <1>3, <1>4, <1>5, <1>6

\* The walk from the front of the deque is its line, and then the head.
LEMMA AroundWalked ==
  ASSUME Typed, NEW n, NEW p, Around(n, p)
  PROVE  Deque!FromFront = [k \in 0 .. Cardinality(Nodes) |-> IF k < n THEN p[k + 1] ELSE d]
<1> DEFINE N == Cardinality(Nodes)
           W == [k \in 0 .. N |-> IF k < n THEN p[k + 1] ELSE d]
           Round(at, k) == IF k = 0 THEN link["front"][d]
                           ELSE IF at[k - 1] = d THEN d ELSE link["front"][at[k - 1]]
<1>0. N \in Nat /\ n \in Nat
  BY HeapAssumption, FS_CardinalityType, AroundAt DEF HeapAssumption
<1>1. ASSUME NEW k \in 0 .. N
      PROVE  W[k] = Round(W, k)
  <2>0. /\ \A j \in 1 .. n : At(n, p, j) = p[j] /\ p[j] # d
        /\ At(n, p, n + 1) = d /\ link["front"][d] = At(n, p, 1)
        /\ \A j \in 1 .. n : link["front"][p[j]] = At(n, p, j + 1)
    <3>1. \A j \in 1 .. n : j \in 0 .. n /\ At(n, p, j) = p[j]
      BY <1>0, AroundAt
    <3> QED  BY <3>1, AroundAt DEF Around
  <2>1. CASE k = 0
    <3>1. CASE n = 0
      BY <1>0, <2>0, <2>1, <3>1
    <3>2. CASE n # 0
      <4>1. 1 \in 1 .. n
        BY <1>0, <3>2
      <4> QED  BY <1>0, <2>0, <2>1, <3>2, <4>1
    <3> QED  BY <3>1, <3>2
  <2>2. CASE k # 0 /\ k < n
    <3>1. k - 1 \in 0 .. N /\ k \in 1 .. n /\ k + 1 \in 1 .. n /\ k - 1 < n /\ (k - 1) + 1 = k
      BY <1>0, <2>2
    <3>2. W[k - 1] = p[k] /\ W[k] = p[k + 1]
      BY <2>2, <3>1
    <3> HIDE DEF W
    <3> QED  BY <2>0, <2>2, <3>1, <3>2
  <2>3. CASE k # 0 /\ k = n
    <3>1. k - 1 \in 0 .. N /\ k \in 1 .. n /\ k - 1 < n /\ (k - 1) + 1 = k
      BY <1>0, <2>3
    <3>2. W[k - 1] = p[k] /\ W[k] = d
      BY <1>0, <2>3, <3>1
    <3> HIDE DEF W
    <3> QED  BY <2>0, <2>3, <3>1, <3>2
  <2>4. CASE k # 0 /\ k > n
    <3>1. k - 1 \in 0 .. N /\ ~ (k - 1 < n) /\ ~ (k < n)
      BY <1>0, <2>4
    <3> QED  BY <2>4, <3>1
  <2> QED  BY <1>0, <2>1, <2>2, <2>3, <2>4
<1>2. W = [k \in 0 .. N |-> Round(W, k)]
  BY <1>1
<1> HIDE DEF W
<1>3. Deque!FromFront = [k \in 0 .. N |-> Round(Deque!FromFront, k)]
  <2>0. Deque!Cardinality(Nodes) = N
    BY Counts, Zenon
  <2>1. Deque!FromFront = CHOOSE at : at = [k \in 0 .. N |-> Round(at, k)]
    BY <2>0, Zenon DEF Deque!FromFront
  <2>2. \E at : at = [k \in 0 .. N |-> Round(at, k)]
    BY <1>2, Zenon
  <2> QED  BY <2>1, <2>2, Zenon
<1>4. \A k \in 0 .. N : Deque!FromFront[k] = W[k]
  <2> DEFINE F == Deque!FromFront
             T == {k \in 0 .. N : F[k] # W[k]}
  <2> HIDE DEF F
  <2> SUFFICES ASSUME T # {} PROVE FALSE
    BY DEF F
  <2>0. F = [k \in 0 .. N |-> Round(F, k)]
    BY <1>3 DEF F
  <2>1. T \in SUBSET Nat
    BY <1>0
  <2>2. PICK m \in T : \A k \in T : m <= k
    BY <2>1, Least
  <2>3. m = 0 \/ F[m - 1] = W[m - 1]
    BY <1>0, <2>2
  <2>4. Round(F, m) = Round(W, m)
    BY <2>3
  <2>5. F[m] = Round(F, m) /\ W[m] = Round(W, m)
    <3> HIDE DEF Round
    <3> QED  BY <1>1, <2>0, <2>2
  <2> QED  BY <2>2, <2>4, <2>5
<1>5. Deque!FromFront = W
  <2> HIDE DEF Round
  <2> QED  BY <1>2, <1>3, <1>4
<1> QED  BY <1>5 DEF W

\* NodesIntact, as the runs check it.
LEMMA LineIntact ==
  ASSUME Typed, NEW n, NEW p, Line(n, p)
  PROVE  NodesIntact
<1>1. ASSUME kind = "stack"
      PROVE  Stack!ChainIntact
  <2>1. StackLine(n, p)
    BY <1>1 DEF Line
  <2>2. Met(s) = live
    BY <2>1, NothingElseMet DEF StackLine
  <2> QED  BY <2>2, OneHeap, Zenon DEF Stack!ChainIntact
<1>2. ASSUME kind = "queue"
      PROVE  Queue!ChainIntact
  <2>1. QueueLine(n, p)
    BY <1>2 DEF Line
  <2>2. Met(head) = live
    BY <2>1, NothingElseMet DEF QueueLine
  <2>3. ASSUME head # Null
        PROVE  tail \in live /\ next[tail] = Null
    <3>1. n # 0
      BY <2>1, <2>3 DEF QueueLine, FirstOf
    <3>2. n \in 1 .. n
      BY <2>1, <3>1 DEF QueueLine, Listed
    <3> QED  BY <2>1, <3>1, <3>2 DEF QueueLine, Listed
  <2> QED  BY <2>2, <2>3, OneHeap, Zenon DEF Queue!ChainIntact
<1>3. ASSUME kind = "ring"
      PROVE  Ring!RingIntact
  <2>1. RingLine(n, p)
    BY <1>3 DEF Line
  <2>2. Met(front) = live
    BY <2>1, NothingElseMet DEF RingLine
  <2>3. \A k \in 1 .. n : p[k] # Null
    BY <2>1, HeapAssumption DEF RingLine, Listed, Typed, HeapAssumption
  <2>4. n \in Nat /\ (n # 0 => 1 \in 1 .. n /\ n \in 1 .. n)
    BY <2>1 DEF RingLine, Listed
  <2>5. front = Null <=> rear = Null
    BY <2>1, <2>3, <2>4 DEF RingLine, FirstOf, LastOf
  <2>6. ASSUME front # Null
        PROVE  next[rear] = front /\ Walk(front)[Cardinality(live) - 1] = rear
    <3>1. n # 0
      BY <2>1, <2>6 DEF RingLine, FirstOf
    <3>2. Walk(front)[Cardinality(live) - 1] = p[n]
      BY <2>1, <3>1, LineWalked DEF RingLine
    <3> QED  BY <2>1, <3>1, <3>2 DEF RingLine, FirstOf, LastOf
  <2>7. Ring!Cardinality(live) = Cardinality(live)
    BY Counts, Zenon
  <2> QED  BY <2>2, <2>5, <2>6, <2>7, OneHeap, Zenon DEF Ring!RingIntact
<1>4. ASSUME kind = "deque"
      PROVE  Deque!RingIntact
  <2> SUFFICES ASSUME phase \in {"use", "destroy"}
               PROVE  /\ {Deque!FromFront[k] : k \in DOMAIN Deque!FromFront} = live
                      /\ \A dir \in Deque!Directions, x \in live :
                           /\ link[dir][x] \in live
                           /\ link[Deque!Opposite(dir)][link[dir][x]] = x
    BY Zenon DEF Deque!RingIntact
  <2>1. Around(n, p)
    BY <1>4 DEF Line, DequeLine
  <2> DEFINE N == Cardinality(Nodes)
  <2>2. /\ n \in Nat /\ d \in live /\ live \subseteq Nodes
        /\ \A k : At(n, p, k) \in live
        /\ \A k \in 1 .. n : At(n, p, k) = p[k]
        /\ At(n, p, 0) = d /\ At(n, p, n + 1) = d
        /\ \A x \in live : \E k \in 0 .. n : At(n, p, k) = x
    BY <2>1, AroundAt DEF Typed
  <2>3. N \in Nat /\ n <= N
    <3>1. live \ {d} \in SUBSET Nodes /\ Listed(n, p, live \ {d})
      BY <2>1, <2>2 DEF Around
    <3> QED  BY <3>1, ListedSize
  <2>4. Deque!FromFront = [k \in 0 .. N |-> IF k < n THEN p[k + 1] ELSE d]
    BY <2>1, AroundWalked
  <2>5. {Deque!FromFront[k] : k \in DOMAIN Deque!FromFront} = live
    <3>1. ASSUME NEW k \in 0 .. N
          PROVE  (IF k < n THEN p[k + 1] ELSE d) \in live
      <4>1. k < n => k + 1 \in 1 .. n
        BY <2>2
      <4> QED  BY <2>2, <4>1
    <3>2. ASSUME NEW x \in live
          PROVE  \E k \in 0 .. N : (IF k < n THEN p[k + 1] ELSE d) = x
      <4>1. PICK k \in 0 .. n : At(n, p, k) = x
        BY <2>2
      <4>2. CASE k = 0
        BY <2>2, <2>3, <4>1, <4>2
      <4>3. CASE k # 0
        <5>1. k \in 1 .. n /\ k - 1 \in 0 .. N /\ k - 1 < n /\ (k - 1) + 1 = k
          BY <2>2, <2>3, <4>3
        <5> QED  BY <2>2, <4>1, <5>1
      <4> QED  BY <4>2, <4>3
    <3> QED  BY <2>4, <3>1, <3>2
  <2>6. ASSUME NEW x \in live
        PROVE  /\ link["front"][x] \in live /\ link["back"][link["front"][x]] = x
               /\ link["back"][x] \in live /\ link["front"][link["back"][x]] = x
    <3>1. PICK k \in 0 .. n : At(n, p, k) = x
      BY <2>2
    <3>2. link["front"][x] = At(n, p, k + 1) /\ link["back"][At(n, p, k + 1)] = x
      BY <2>1, <3>1 DEF Around
    <3>3. PICK j \in 0 .. n : At(n, p, j + 1) = x
      <4>1. CASE k = 0
        BY <2>2, <3>1, <4>1
      <4>2. CASE k # 0
        <5>1. k - 1 \in 0 .. n /\ (k - 1) + 1 = k
          BY <2>2, <4>2
        <5> QED  BY <3>1, <5>1
      <4> QED  BY <4>1, <4>2
    <3>4. link["back"][x] = At(n, p, j) /\ link["front"][At(n, p, j)] = x
      BY <2>1, <3>3 DEF Around
    <3> QED  BY <2>2, <3>2, <3>4
  <2> QED  BY <2>5, <2>6 DEF Deque!Directions, Deque!Opposite
<1> QED  BY <1>1, <1>2, <1>3, <1>4 DEF NodesIntact

\* The contents are the values of the line.
LEMMA LineContents ==
  ASSUME Typed, NEW n, NEW p, Line(n, p)
  PROVE  Contents = ValuesOf(n, p)
<1>1. CASE kind = "stack"
  <2>1. ValuesFrom(s) = ValuesOf(n, p)
    BY <1>1, LineWalked DEF Line, StackLine
  <2> QED  BY <1>1, <2>1 DEF Contents
<1>2. CASE kind = "queue"
  <2>1. ValuesFrom(head) = ValuesOf(n, p)
    BY <1>2, LineWalked DEF Line, QueueLine
  <2> QED  BY <1>2, <2>1 DEF Contents
<1>3. CASE kind = "ring"
  <2>1. ValuesFrom(front) = ValuesOf(n, p)
    BY <1>3, LineWalked DEF Line, RingLine
  <2> QED  BY <1>3, <2>1 DEF Contents
<1>4. CASE kind = "deque"
  <2>1. Contents = Deque!Contents
    BY <1>4 DEF Contents
  <2>2. Deque!Contents = [k \in 1 .. Cardinality(live) - 1 |-> value[Deque!FromFront[k - 1]]]
    <3>1. Deque!Cardinality(live) = Cardinality(live)
      BY Counts, Zenon
    <3> QED  BY <3>1, Zenon DEF Deque!Contents
  <2>3. CASE phase \in {"use", "destroy"}
    <3>1. Around(n, p)
      BY <1>4, <2>3 DEF Line, DequeLine
    <3>2. n \in Nat /\ d \in live /\ live \in SUBSET Nodes
      BY <3>1, AroundAt DEF Typed
    <3>3. /\ Cardinality(live \ {d}) = n /\ IsFiniteSet(live \ {d})
          /\ Cardinality(Nodes) \in Nat /\ n <= Cardinality(Nodes)
      <4>1. live \ {d} \in SUBSET Nodes /\ Listed(n, p, live \ {d})
        BY <3>1, <3>2 DEF Around
      <4> QED  BY <4>1, ListedSize
    <3>4. Cardinality(live) = n + 1
      <4>1. (live \ {d}) \cup {d} = live /\ d \notin live \ {d}
        BY <3>2
      <4>2. Cardinality((live \ {d}) \cup {d}) = Cardinality(live \ {d}) + 1
        BY <3>3, <4>1, FS_AddElement
      <4> QED  BY <3>3, <4>1, <4>2
    <3>5. Deque!FromFront = [k \in 0 .. Cardinality(Nodes) |-> IF k < n THEN p[k + 1] ELSE d]
      BY <3>1, AroundWalked
    <3>6. ASSUME NEW k \in 1 .. n
          PROVE  Deque!FromFront[k - 1] = p[k]
      <4>1. k - 1 \in 0 .. Cardinality(Nodes) /\ k - 1 < n /\ (k - 1) + 1 = k
        BY <3>2, <3>3
      <4> QED  BY <3>5, <4>1
    <3>7. (n + 1) - 1 = n
      BY <3>2
    <3>8. Deque!Contents = [k \in 1 .. n |-> value[Deque!FromFront[k - 1]]]
      BY <2>2, <3>4, <3>7, Zenon
    <3> QED  BY <2>1, <3>6, <3>8 DEF ValuesOf
  <2>4. CASE phase \notin {"use", "destroy"}
    <3>1. live = {} /\ Listed(n, p, live) /\ live \in SUBSET Nodes
      BY <1>4, <2>4 DEF Line, DequeLine
    <3>2. n = 0 /\ Cardinality(live) = 0
      <4>1. live \in SUBSET Nodes /\ Listed(n, p, live)
        BY <3>1
      <4>2. (live = {} <=> n = 0) /\ Cardinality(live) = n
        BY <4>1, ListedSize
      <4> QED  BY <3>1, <4>2
    <3>3. 1 .. 0 - 1 = {} /\ 1 .. n = {}
      BY <3>2
    <3>4. Deque!Contents = [k \in {} |-> value[Deque!FromFront[k - 1]]]
      BY <2>2, <3>2, <3>3, Zenon
    <3> QED  BY <2>1, <3>3, <3>4 DEF ValuesOf
  <2> QED  BY <2>3, <2>4
<1> QED  BY <1>1, <1>2, <1>3, <1>4 DEF Typed, Kinds

-----------------------------------------------------------------------------
(* The steps *)

\* What a step may do to the values V that the container holds.
Pushed(V, W, v, end) ==
  /\ out' = out
  /\ IF end = "front" THEN InFront(v, V, W) ELSE InBack(v, V, W)

Popped(V, W, end) == IF end = "front" THEN LessFirst(V, W, out') ELSE LessLast(V, W, out')

Changes(V, W) ==
  \/ W = V /\ out' = out
  \/ V = <<>> /\ W = V /\ out' = Nothing
  \/ \E end \in EndsOf.push, v \in Values : Pushed(V, W, v, end)
  \/ \E end \in EndsOf.pop : Popped(V, W, end)

\* The step goes from the line p to another line, as the sequence may.
Reaches(n, p) ==
  /\ Typed' /\ kind' = kind
  /\ \E m, r : Line(m, r)' /\ Changes(ValuesOf(n, p), ValuesOf(m, r)')

\* The ends of each container.
LEMMA EndsAre ==
  /\ kind = "stack" => EndsOf = [push |-> {"front"}, pop |-> {"front"}]
  /\ kind = "queue" => EndsOf = [push |-> {"back"}, pop |-> {"front"}]
  /\ kind = "ring" => EndsOf = [push |-> {"back"}, pop |-> {"front"}]
  /\ kind = "deque" => EndsOf = [push |-> {"front", "back"}, pop |-> {"front", "back"}]
BY DEF EndsOf

\* A new node on the heap, whatever next becomes of it.
LEMMA NewNodeTyped ==
  ASSUME Typed, NEW e \in Nodes, NEW v \in Values, e \notin live,
         live' = live \cup {e}, value' = [value EXCEPT ![e] = v]
  PROVE  /\ live' \subseteq Nodes
         /\ value' \in [Nodes -> Values \cup {Garbage}]
         /\ value'[e] = v /\ \A x \in live : value'[x] = value[x]
BY DEF Typed

\* The nodes of a line are those on the heap after the step.
LEMMA ListedThen ==
  ASSUME NEW S, NEW n, NEW p, Listed(n, p, S)', live' = S
  PROVE  Listed(n, p, live)'
BY DEF Listed

\* The stack, pushed.
LEMMA StackPushStep ==
  ASSUME Typed, kind = "stack", kind' = kind, NEW n, NEW p, StackLine(n, p),
         NEW v \in Values, Stack!stackPush(v), UNCHANGED <<queueVars, ringVars, dequeVars>>
  PROVE  Reaches(n, p)
<1>1. PICK e \in Nodes : /\ e \notin live /\ live' = live \cup {e}
                         /\ value' = [value EXCEPT ![e] = v]
                         /\ next' = [next EXCEPT ![e] = s]
                         /\ s' = e /\ out' = out
  BY Zenon DEF Stack!stackPush, Stack!NewNode
<1>2. /\ live' \subseteq Nodes /\ value' \in [Nodes -> Values \cup {Garbage}]
      /\ value'[e] = v /\ \A x \in live : value'[x] = value[x]
  BY <1>1, NewNodeTyped
<1>3. Typed'
  <2>1. next' \in [Nodes -> Nodes \cup {Null, Garbage}]
    BY <1>1 DEF Typed
  <2> QED  BY <1>1, <1>2, <2>1 DEF Typed, queueVars, ringVars, dequeVars
<1> DEFINE r == Before(n, p, e)
<1>4. /\ Listed(n + 1, r, live)'
      /\ InFront(v, ValuesOf(n, p), ValuesOf(n + 1, r)')
  <2>1. PICK S : S = live
    OBVIOUS
  <2>2. Listed(n, p, S) /\ e \notin S /\ \A x \in S : value'[x] = value[x]
    BY <1>1, <1>2, <2>1 DEF StackLine
  <2>3. Listed(n + 1, r, S \cup {e})' /\ InFront(v, ValuesOf(n, p), ValuesOf(n + 1, r)')
    BY <1>2, <2>2, AddBefore
  <2>4. live' = S \cup {e}
    BY <1>1, <2>1
  <2> QED  BY <2>3, <2>4, ListedThen
<1>5. /\ n \in Nat /\ r[1] = e
      /\ \A k \in 1 .. n : p[k] \in live /\ r[k + 1] = p[k] /\ k + 1 \in 1 .. n + 1
      /\ \A k \in 1 .. n + 1 : k # 1 => k - 1 \in 1 .. n
  BY DEF StackLine, Listed, Before
<1> HIDE DEF r
<1>6. next'[e] = s /\ \A x \in live : next'[x] = next[x]
  BY <1>1 DEF Typed
<1>7. Linked(n + 1, r)'
  <2> SUFFICES ASSUME NEW k \in 1 .. n
               PROVE  next'[r[k]] = r[k + 1]
    BY <1>5 DEF Linked
  <2>1. CASE k = 1
    BY <1>5, <1>6, <2>1 DEF StackLine, FirstOf
  <2>2. CASE k # 1
    <3>1. k - 1 \in 1 .. n - 1 /\ k - 1 \in 1 .. n /\ (k - 1) + 1 = k
      BY <1>5, <2>2
    <3>2. r[k] = p[k - 1] /\ p[k - 1] \in live /\ r[k + 1] = p[k]
      BY <1>5, <3>1
    <3>3. next[p[k - 1]] = p[k]
      BY <3>1 DEF StackLine, Linked
    <3> QED  BY <1>6, <3>2, <3>3
  <2> QED  BY <2>1, <2>2
<1>8. next'[r[n + 1]] = Null
  <2>1. CASE n = 0
    BY <1>5, <1>6, <2>1 DEF StackLine, FirstOf
  <2>2. CASE n # 0
    BY <1>5, <1>6, <2>2 DEF StackLine
  <2> QED  BY <2>1, <2>2
<1>9. StackLine(n + 1, r)'
  BY <1>1, <1>4, <1>5, <1>7, <1>8 DEF StackLine, FirstOf
<1>10. Line(n + 1, r)'
  BY <1>9 DEF Line
<1>11. Changes(ValuesOf(n, p), ValuesOf(n + 1, r)')
  <2>1. Pushed(ValuesOf(n, p), ValuesOf(n + 1, r)', v, "front")
    BY <1>1, <1>4 DEF Pushed
  <2> QED  BY <2>1, EndsAre DEF Changes
<1> QED  BY <1>3, <1>10, <1>11 DEF Reaches

\* A line whose first node is taken away stays linked.
LEMMA RestLinked ==
  ASSUME NEW n \in Nat \ {0}, NEW p, Linked(n, p), \A k \in 2 .. n - 1 : next'[p[k]] = next[p[k]]
  PROVE  /\ Linked(n - 1, Rest(n, p))'
         /\ \A k \in 1 .. n - 1 : Rest(n, p)[k] = p[k + 1]
         /\ n - 1 # 0 => Rest(n, p)[n - 1] = p[n] /\ Rest(n, p)[1] = p[2]
<1> DEFINE r == Rest(n, p)
<1>1. \A k \in 1 .. n - 1 : r[k] = p[k + 1]
  BY DEF Rest
<1>2. n - 1 # 0 => r[n - 1] = p[n] /\ r[1] = p[2]
  <2> SUFFICES ASSUME n - 1 # 0
               PROVE  r[n - 1] = p[n] /\ r[1] = p[2]
    OBVIOUS
  <2>1. n - 1 \in 1 .. n - 1 /\ 1 \in 1 .. n - 1 /\ (n - 1) + 1 = n /\ 1 + 1 = 2
    OBVIOUS
  <2> HIDE DEF r
  <2> QED  BY <1>1, <2>1
<1> HIDE DEF r
<1>3. ASSUME NEW k \in 1 .. (n - 1) - 1
      PROVE  next'[r[k]] = r[k + 1]
  <2>1. /\ k \in 1 .. n - 1 /\ k + 1 \in 1 .. n - 1 /\ k + 1 \in 2 .. n - 1
    OBVIOUS
  <2>2. r[k] = p[k + 1] /\ r[k + 1] = p[(k + 1) + 1]
    BY <1>1, <2>1
  <2>3. next[p[k + 1]] = p[(k + 1) + 1] /\ next'[p[k + 1]] = next[p[k + 1]]
    BY <2>1 DEF Linked
  <2> QED  BY <2>2, <2>3
<1> QED  BY <1>1, <1>2, <1>3 DEF Linked, r

\* The stack, popped.
LEMMA StackPopStep ==
  ASSUME Typed, kind = "stack", kind' = kind, NEW n, NEW p, StackLine(n, p),
         ~ Stack!stackEmpty, Stack!stackPop, UNCHANGED <<queueVars, ringVars, dequeVars>>
  PROVE  Reaches(n, p)
<1>1. /\ s # Null /\ out' = value[s] /\ live' = live \ {s} /\ value' = value
      /\ s' = next[s] /\ next' = next
  BY DEF Stack!stackEmpty, Stack!stackPop, Stack!TakeOut
<1>2. n \in Nat \ {0} /\ s = p[1] /\ 1 \in 1 .. n
  BY <1>1 DEF StackLine, FirstOf, Listed
<1> DEFINE r == Rest(n, p)
<1>3. /\ Listed(n - 1, r, live)'
      /\ LessFirst(ValuesOf(n, p), ValuesOf(n - 1, r)', value[p[1]])
  <2>1. PICK S : S = live
    OBVIOUS
  <2>2. Listed(n, p, S) /\ \A x \in S : value'[x] = value[x]
    BY <1>1, <2>1 DEF StackLine
  <2>3. /\ Listed(n - 1, r, S \ {p[1]})'
        /\ LessFirst(ValuesOf(n, p), ValuesOf(n - 1, r)', value[p[1]])
    BY <1>2, <2>2, RemoveFirst
  <2>4. live' = S \ {p[1]}
    BY <1>1, <1>2, <2>1
  <2> QED  BY <2>3, <2>4, ListedThen
<1>4. /\ Linked(n - 1, r)'
      /\ n - 1 # 0 => r[n - 1] = p[n] /\ r[1] = p[2]
  BY <1>1, <1>2, RestLinked DEF StackLine
<1> HIDE DEF r
<1>5. s' = FirstOf(n - 1, r)
  <2>1. CASE n = 1
    BY <1>1, <1>2, <2>1 DEF StackLine, FirstOf
  <2>2. CASE n # 1
    <3>1. next[p[1]] = p[1 + 1]
      BY <1>2, <2>2 DEF StackLine, Linked
    <3> QED  BY <1>1, <1>2, <1>4, <2>2, <3>1 DEF FirstOf
  <2> QED  BY <2>1, <2>2
<1>6. StackLine(n - 1, r)'
  <2>2. n - 1 # 0 => next'[r[n - 1]] = Null
    BY <1>1, <1>2, <1>4 DEF StackLine
  <2> QED  BY <1>3, <1>4, <1>5, <2>2 DEF StackLine, FirstOf
<1>7. Line(n - 1, r)'
  BY <1>6 DEF Line
<1>8. Changes(ValuesOf(n, p), ValuesOf(n - 1, r)')
  <2>1. Popped(ValuesOf(n, p), ValuesOf(n - 1, r)', "front")
    BY <1>1, <1>2, <1>3 DEF Popped
  <2> QED  BY <2>1, EndsAre DEF Changes
<1>9. Typed'
  <2>1. value[p[1]] \in Values
    BY <1>2 DEF StackLine, Listed
  <2>2. s' \in Nodes \cup {Null}
    <3>1. \A k \in 1 .. n : p[k] \in Nodes
      BY DEF StackLine, Listed, Typed
    <3>2. n # 1 => 2 \in 1 .. n
      BY <1>2
    <3> QED  BY <1>2, <1>4, <1>5, <3>1, <3>2 DEF FirstOf
  <2> QED  BY <1>1, <1>2, <2>1, <2>2 DEF Typed, queueVars, ringVars, dequeVars
<1> QED  BY <1>7, <1>8, <1>9 DEF Reaches

\* A line whose last node points to a node behind it is linked.
LEMMA BehindLinked ==
  ASSUME NEW n \in Nat, NEW p, NEW e, Linked(n, p),
         \A k \in 1 .. n - 1 : next'[p[k]] = next[p[k]],
         n # 0 => next'[p[n]] = e
  PROVE  /\ Linked(n + 1, Behind(n, p, e))'
         /\ Behind(n, p, e)[n + 1] = e
         /\ \A k \in 1 .. n : Behind(n, p, e)[k] = p[k]
<1> DEFINE r == Behind(n, p, e)
<1>1. r[n + 1] = e /\ \A k \in 1 .. n : r[k] = p[k]
  BY DEF Behind
<1> HIDE DEF r
<1>2. ASSUME NEW k \in 1 .. (n + 1) - 1
      PROVE  next'[r[k]] = r[k + 1]
  <2>1. k \in 1 .. n /\ n # 0
    OBVIOUS
  <2>2. CASE k = n
    BY <1>1, <2>1, <2>2
  <2>3. CASE k # n
    <3>1. k \in 1 .. n - 1 /\ k + 1 \in 1 .. n
      BY <2>1, <2>3
    <3> QED  BY <1>1, <2>1, <3>1 DEF Linked
  <2> QED  BY <2>2, <2>3
<1> QED  BY <1>1, <1>2 DEF Linked, r

\* The queue, with a value more.
LEMMA QueueEnqStep ==
  ASSUME Typed, kind = "queue", kind' = kind, NEW n, NEW p, QueueLine(n, p),
         NEW v \in Values, Queue!enq(v), q' = q, UNCHANGED <<s, ringVars, dequeVars>>
  PROVE  Reaches(n, p)
<1>0. /\ n \in Nat /\ head = FirstOf(n, p)
      /\ \A k \in 1 .. n : p[k] \in live /\ p[k] \in Nodes /\ p[k] # Null
      /\ \A j, k \in 1 .. n : p[j] = p[k] => j = k
  BY HeapAssumption DEF QueueLine, Listed, Typed, HeapAssumption
<1>1. PICK e \in Nodes : /\ e \notin live /\ live' = live \cup {e}
                         /\ value' = [value EXCEPT ![e] = v]
                         /\ \/ head = Null /\ head' = e /\ next' = [next EXCEPT ![e] = Null]
                            \/ /\ head # Null /\ head' = head
                               /\ next' = [[next EXCEPT ![e] = Null] EXCEPT ![tail] = e]
                         /\ tail' = e /\ out' = out
  BY Zenon DEF Queue!enq, Queue!NewNode
<1>2. /\ live' \subseteq Nodes /\ value' \in [Nodes -> Values \cup {Garbage}]
      /\ value'[e] = v /\ \A x \in live : value'[x] = value[x]
  BY <1>1, NewNodeTyped
<1>3. head = Null <=> n = 0
  <2>1. n # 0 => 1 \in 1 .. n
    BY <1>0
  <2> QED  BY <1>0, <2>1 DEF FirstOf
<1>4. n # 0 => tail = p[n] /\ n \in 1 .. n
  BY <1>0 DEF QueueLine
<1>5. next' \in [Nodes -> Nodes \cup {Null, Garbage}]
  <2>1. CASE n = 0
    BY <1>1, <1>3, <2>1 DEF Typed
  <2>2. CASE n # 0
    BY <1>1, <1>3, <2>2 DEF Typed
  <2> QED  BY <2>1, <2>2
<1>6. Typed'
  BY <1>1, <1>2, <1>5 DEF Typed, ringVars, dequeVars
<1>7. /\ next'[e] = Null
      /\ n # 0 => next'[p[n]] = e
      /\ \A k \in 1 .. n - 1 : next'[p[k]] = next[p[k]]
  <2>1. CASE n = 0
    BY <1>1, <1>3, <2>1 DEF Typed
  <2>2. CASE n # 0
    <3>1. next' = [[next EXCEPT ![e] = Null] EXCEPT ![p[n]] = e]
      BY <1>1, <1>3, <1>4, <2>2
    <3>2. e # p[n] /\ p[n] \in Nodes
      BY <1>0, <1>1, <1>4, <2>2
    <3>3. \A k \in 1 .. n - 1 : p[k] # p[n] /\ p[k] # e
      <4>1. \A k \in 1 .. n - 1 : k \in 1 .. n /\ k # n
        BY <1>0
      <4> QED  BY <1>0, <1>1, <1>4, <2>2, <4>1
    <3>4. \A x \in Nodes : next'[x] = IF x = p[n] THEN e ELSE IF x = e THEN Null ELSE next[x]
      BY <3>1 DEF Typed
    <3>5. \A k \in 1 .. n - 1 : p[k] \in Nodes
      <4>1. \A k \in 1 .. n - 1 : k \in 1 .. n
        BY <1>0
      <4> QED  BY <1>0, <4>1
    <3> QED  BY <3>2, <3>3, <3>4, <3>5
  <2> QED  BY <2>1, <2>2
<1> DEFINE r == Behind(n, p, e)
<1>8. /\ Listed(n + 1, r, live)'
      /\ InBack(v, ValuesOf(n, p), ValuesOf(n + 1, r)')
  <2>1. PICK S : S = live
    OBVIOUS
  <2>2. Listed(n, p, S) /\ e \notin S /\ \A x \in S : value'[x] = value[x]
    BY <1>1, <1>2, <2>1 DEF QueueLine
  <2>3. Listed(n + 1, r, S \cup {e})' /\ InBack(v, ValuesOf(n, p), ValuesOf(n + 1, r)')
    BY <1>2, <2>2, AddBehind
  <2>4. live' = S \cup {e}
    BY <1>1, <2>1
  <2> QED  BY <2>3, <2>4, ListedThen
<1>9. Linked(n + 1, r)' /\ r[n + 1] = e /\ \A k \in 1 .. n : r[k] = p[k]
  BY <1>0, <1>7, BehindLinked DEF QueueLine
<1> HIDE DEF r
<1>10. head' = FirstOf(n + 1, r)
  <2>1. CASE n = 0
    BY <1>1, <1>3, <1>9, <2>1 DEF FirstOf
  <2>2. CASE n # 0
    <3>1. 1 \in 1 .. n /\ n + 1 # 0
      BY <1>0, <2>2
    <3> QED  BY <1>0, <1>1, <1>3, <1>9, <2>2, <3>1 DEF FirstOf
  <2> QED  BY <2>1, <2>2
<1>11. QueueLine(n + 1, r)'
  BY <1>1, <1>7, <1>8, <1>9, <1>10 DEF QueueLine, FirstOf
<1>12. Line(n + 1, r)'
  BY <1>11 DEF Line
<1>13. Changes(ValuesOf(n, p), ValuesOf(n + 1, r)')
  <2>1. Pushed(ValuesOf(n, p), ValuesOf(n + 1, r)', v, "back")
    BY <1>1, <1>8 DEF Pushed
  <2> QED  BY <2>1, EndsAre DEF Changes
<1> QED  BY <1>6, <1>12, <1>13 DEF Reaches

\* The queue, with a value less, also while it is being destroyed.
LEMMA QueueDeqStep ==
  ASSUME Typed, kind = "queue", kind' = kind, NEW n, NEW p, QueueLine(n, p),
         ~ Queue!queueEmpty, Queue!deq, q' = q, UNCHANGED <<s, ringVars, dequeVars>>
  PROVE  Reaches(n, p)
<1>1. /\ head # Null /\ out' = value[head] /\ live' = live \ {head} /\ value' = value
      /\ head' = next[head] /\ next' = next /\ tail' = tail
  BY DEF Queue!queueEmpty, Queue!deq, Queue!TakeOut
<1>2. n \in Nat \ {0} /\ head = p[1] /\ 1 \in 1 .. n
  BY <1>1 DEF QueueLine, FirstOf, Listed
<1> DEFINE r == Rest(n, p)
<1>3. /\ Listed(n - 1, r, live)'
      /\ LessFirst(ValuesOf(n, p), ValuesOf(n - 1, r)', value[p[1]])
  <2>1. PICK S : S = live
    OBVIOUS
  <2>2. Listed(n, p, S) /\ \A x \in S : value'[x] = value[x]
    BY <1>1, <2>1 DEF QueueLine
  <2>3. /\ Listed(n - 1, r, S \ {p[1]})'
        /\ LessFirst(ValuesOf(n, p), ValuesOf(n - 1, r)', value[p[1]])
    BY <1>2, <2>2, RemoveFirst
  <2>4. live' = S \ {p[1]}
    BY <1>1, <1>2, <2>1
  <2> QED  BY <2>3, <2>4, ListedThen
<1>4. /\ Linked(n - 1, r)'
      /\ n - 1 # 0 => r[n - 1] = p[n] /\ r[1] = p[2]
  BY <1>1, <1>2, RestLinked DEF QueueLine
<1> HIDE DEF r
<1>5. head' = FirstOf(n - 1, r)
  <2>1. CASE n = 1
    BY <1>1, <1>2, <2>1 DEF QueueLine, FirstOf
  <2>2. CASE n # 1
    <3>1. next[p[1]] = p[1 + 1]
      BY <1>2, <2>2 DEF QueueLine, Linked
    <3> QED  BY <1>1, <1>2, <1>4, <2>2, <3>1 DEF FirstOf
  <2> QED  BY <2>1, <2>2
<1>6. QueueLine(n - 1, r)'
  <2>1. n - 1 # 0 => next'[r[n - 1]] = Null /\ tail' = r[n - 1]
    BY <1>1, <1>2, <1>4 DEF QueueLine
  <2> QED  BY <1>3, <1>4, <1>5, <2>1 DEF QueueLine, FirstOf
<1>7. Line(n - 1, r)'
  BY <1>6 DEF Line
<1>8. Changes(ValuesOf(n, p), ValuesOf(n - 1, r)')
  <2>1. Popped(ValuesOf(n, p), ValuesOf(n - 1, r)', "front")
    BY <1>1, <1>2, <1>3 DEF Popped
  <2> QED  BY <2>1, EndsAre DEF Changes
<1>9. Typed'
  <2>1. value[p[1]] \in Values
    BY <1>2 DEF QueueLine, Listed
  <2>2. head' \in Nodes \cup {Null}
    <3>1. \A k \in 1 .. n : p[k] \in Nodes
      BY DEF QueueLine, Listed, Typed
    <3>2. n # 1 => 2 \in 1 .. n
      BY <1>2
    <3> QED  BY <1>2, <1>4, <1>5, <3>1, <3>2 DEF FirstOf
  <2> QED  BY <1>1, <1>2, <2>1, <2>2 DEF Typed, ringVars, dequeVars
<1> QED  BY <1>7, <1>8, <1>9 DEF Reaches

\* A step that leaves the heap and the ends of the container alone.
LEMMA NothingMoves ==
  ASSUME Typed, NEW n, NEW p, Line(n, p), UNCHANGED <<kind, heapVars>>
  PROVE  /\ ValuesOf(n, p)' = ValuesOf(n, p)
         /\ Changes(ValuesOf(n, p), ValuesOf(n, p)')
<1>1. ValuesOf(n, p)' = ValuesOf(n, p)
  BY DEF ValuesOf, heapVars
<1> QED  BY <1>1 DEF Changes, heapVars

\* Every step of the queue.
LEMMA QueueSteps ==
  ASSUME Typed, NEW n, NEW p, Line(n, p), QueueStep
  PROVE  Reaches(n, p)
<1>0. /\ kind = "queue" /\ kind' = kind /\ QueueLine(n, p)
      /\ UNCHANGED <<s, ringVars, dequeVars>>
  BY DEF QueueStep, Line
<1>1. ASSUME NEW v \in Values, Queue!enq(v), q' = q
      PROVE  Reaches(n, p)
  BY <1>0, <1>1, QueueEnqStep
<1>2. ASSUME ~ Queue!queueEmpty, Queue!deq, q' = q
      PROVE  Reaches(n, p)
  BY <1>0, <1>2, QueueDeqStep
<1>3. ASSUME q' \in {"use", "destroy", "gone"}, UNCHANGED <<head, tail, heapVars>>
      PROVE  Reaches(n, p)
  <2>1. Typed'
    BY <1>0, <1>3 DEF Typed, ringVars, dequeVars, heapVars
  <2>2. QueueLine(n, p)'
    BY <1>0, <1>3 DEF QueueLine, Listed, Linked, heapVars
  <2>3. Line(n, p)'
    BY <1>0, <2>2 DEF Line
  <2>4. Changes(ValuesOf(n, p), ValuesOf(n, p)')
    BY <1>0, <1>3, NothingMoves
  <2> QED  BY <1>0, <2>1, <2>3, <2>4 DEF Reaches
<1>4. Queue!Use \/ Queue!DestroyCall \/ Queue!queueDestroy
  BY DEF QueueStep, Queue!Next
<1>5. CASE Queue!Use
  BY <1>1, <1>2, <1>5, Zenon DEF Queue!Use
<1>6. CASE Queue!DestroyCall
  <2>1. q' = "destroy" /\ UNCHANGED <<head, tail, heapVars>>
    BY <1>6, Zenon DEF Queue!DestroyCall, Queue!heapVars, heapVars
  <2> QED  BY <1>3, <2>1
<1>7. CASE Queue!queueDestroy
  <2>1. \/ ~ Queue!queueEmpty /\ Queue!deq /\ q' = q
        \/ q' = "gone" /\ UNCHANGED <<head, tail, heapVars>>
    BY <1>7, Zenon DEF Queue!queueDestroy, Queue!heapVars, heapVars
  <2> QED  BY <1>2, <1>3, <2>1
<1> QED  BY <1>4, <1>5, <1>6, <1>7

\* The circular queue, with a value more.
LEMMA RingEnqStep ==
  ASSUME Typed, kind = "ring", kind' = kind, NEW n, NEW p, RingLine(n, p),
         NEW v \in Values, Ring!enq(v), UNCHANGED <<s, queueVars, dequeVars>>
  PROVE  Reaches(n, p)
<1>0. /\ n \in Nat /\ front = FirstOf(n, p) /\ rear = LastOf(n, p)
      /\ \A k \in 1 .. n : p[k] \in live /\ p[k] \in Nodes /\ p[k] # Null
      /\ \A j, k \in 1 .. n : p[j] = p[k] => j = k
  BY HeapAssumption DEF RingLine, Listed, Typed, HeapAssumption
<1>1. PICK e \in Nodes : /\ e \notin live /\ live' = live \cup {e}
                         /\ value' = [value EXCEPT ![e] = v]
                         /\ front' = IF front = Null THEN e ELSE front
                         /\ rear' = e /\ out' = out
                         /\ next' = [(IF front = Null THEN next
                                      ELSE [next EXCEPT ![rear] = e]) EXCEPT ![e] = front']
  BY Zenon DEF Ring!enq, Ring!NewNode
<1>2. /\ live' \subseteq Nodes /\ value' \in [Nodes -> Values \cup {Garbage}]
      /\ value'[e] = v /\ \A x \in live : value'[x] = value[x]
  BY <1>1, NewNodeTyped
<1>3. front = Null <=> n = 0
  <2>1. n # 0 => 1 \in 1 .. n
    BY <1>0
  <2> QED  BY <1>0, <2>1 DEF FirstOf
<1>4. n # 0 => front = p[1] /\ rear = p[n] /\ n \in 1 .. n /\ 1 \in 1 .. n
  BY <1>0 DEF FirstOf, LastOf
<1>5. /\ \A x \in Nodes : next'[x] = IF x = e THEN front'
                                     ELSE IF n # 0 /\ x = p[n] THEN e ELSE next[x]
      /\ next' \in [Nodes -> Nodes \cup {Null, Garbage}]
      /\ front' \in Nodes
  <2>1. CASE n = 0
    <3>1. next' = [next EXCEPT ![e] = e] /\ front' = e
      BY <1>1, <1>3, <2>1
    <3> QED  BY <2>1, <3>1 DEF Typed
  <2>2. CASE n # 0
    <3>1. next' = [[next EXCEPT ![p[n]] = e] EXCEPT ![e] = front] /\ front' = front
      BY <1>1, <1>3, <1>4, <2>2
    <3>2. front \in Nodes /\ p[n] \in Nodes
      BY <1>0, <1>4, <2>2
    <3> QED  BY <2>2, <3>1, <3>2 DEF Typed
  <2> QED  BY <2>1, <2>2
<1>6. Typed'
  BY <1>1, <1>2, <1>5 DEF Typed, queueVars, dequeVars
<1>7. /\ next'[e] = front'
      /\ n # 0 => next'[p[n]] = e
      /\ \A k \in 1 .. n - 1 : next'[p[k]] = next[p[k]]
  <2>1. \A k \in 1 .. n : p[k] # e
    BY <1>0, <1>1
  <2>2. \A k \in 1 .. n - 1 : k \in 1 .. n /\ p[k] # p[n]
    <3>1. \A k \in 1 .. n - 1 : k \in 1 .. n /\ k # n /\ n \in 1 .. n
      BY <1>0
    <3> QED  BY <1>0, <3>1
  <2> QED  BY <1>0, <1>4, <1>5, <2>1, <2>2
<1> DEFINE r == Behind(n, p, e)
<1>8. /\ Listed(n + 1, r, live)'
      /\ InBack(v, ValuesOf(n, p), ValuesOf(n + 1, r)')
  <2>1. PICK S : S = live
    OBVIOUS
  <2>2. Listed(n, p, S) /\ e \notin S /\ \A x \in S : value'[x] = value[x]
    BY <1>1, <1>2, <2>1 DEF RingLine
  <2>3. Listed(n + 1, r, S \cup {e})' /\ InBack(v, ValuesOf(n, p), ValuesOf(n + 1, r)')
    BY <1>2, <2>2, AddBehind
  <2>4. live' = S \cup {e}
    BY <1>1, <2>1
  <2> QED  BY <2>3, <2>4, ListedThen
<1>9. Linked(n + 1, r)' /\ r[n + 1] = e /\ \A k \in 1 .. n : r[k] = p[k]
  BY <1>0, <1>7, BehindLinked DEF RingLine
<1> HIDE DEF r
<1>10. front' = r[1] /\ n + 1 # 0
  <2>1. CASE n = 0
    BY <1>1, <1>3, <1>9, <2>1
  <2>2. CASE n # 0
    BY <1>0, <1>1, <1>3, <1>4, <1>9, <2>2
  <2> QED  BY <1>0, <2>1, <2>2
<1>11. RingLine(n + 1, r)'
  BY <1>1, <1>7, <1>8, <1>9, <1>10 DEF RingLine, FirstOf, LastOf
<1>12. Line(n + 1, r)'
  BY <1>11 DEF Line
<1>13. Changes(ValuesOf(n, p), ValuesOf(n + 1, r)')
  <2>1. Pushed(ValuesOf(n, p), ValuesOf(n + 1, r)', v, "back")
    BY <1>1, <1>8 DEF Pushed
  <2> QED  BY <2>1, EndsAre DEF Changes
<1> QED  BY <1>6, <1>12, <1>13 DEF Reaches

\* A container without nodes has no values.
LEMMA NoValues ==
  ASSUME NEW p
  PROVE  ValuesOf(0, p) = <<>> /\ ValuesOf(0, p)' = <<>>
<1>1. [k \in {} |-> value[p[k]]] = <<>> /\ [k \in {} |-> value'[p[k]]] = <<>>
  OBVIOUS
<1>2. 1 .. 0 = {}
  OBVIOUS
<1> QED  BY <1>1, <1>2, Zenon DEF ValuesOf

\* The circular queue, asked for a value when it is empty.
LEMMA RingDeqEmptyStep ==
  ASSUME Typed, kind = "ring", kind' = kind, NEW n, NEW p, RingLine(n, p),
         front = Null, out' = Nothing,
         UNCHANGED <<front, rear, next, value, live, s, queueVars, dequeVars>>
  PROVE  Reaches(n, p)
<1>1. n = 0
  <2>1. n # 0 => 1 \in 1 .. n
    BY DEF RingLine, Listed
  <2>2. \A k \in 1 .. n : p[k] # Null
    BY HeapAssumption DEF RingLine, Listed, Typed, HeapAssumption
  <2> QED  BY <2>1, <2>2 DEF RingLine, FirstOf
<1>2. Typed'
  BY DEF Typed, queueVars, dequeVars
<1>3. RingLine(n, p)'
  BY DEF RingLine, Listed, Linked
<1>4. Line(n, p)'
  BY <1>3 DEF Line
<1>5. ValuesOf(n, p)' = ValuesOf(n, p)
  BY DEF ValuesOf
<1>6. Changes(ValuesOf(n, p), ValuesOf(n, p)')
  BY <1>1, <1>5, NoValues DEF Changes
<1> QED  BY <1>2, <1>4, <1>6 DEF Reaches

\* The circular queue, with a value less.
LEMMA RingDeqStep ==
  ASSUME Typed, kind = "ring", kind' = kind, NEW n, NEW p, RingLine(n, p),
         front # Null, out' = value[front], live' = live \ {front}, value' = value,
         \/ /\ front = rear
            /\ front' = Null /\ rear' = Null /\ next' = next
         \/ /\ front # rear
            /\ front' = next[front] /\ rear' = rear
            /\ next' = [next EXCEPT ![rear] = next[front]],
         UNCHANGED <<s, queueVars, dequeVars>>
  PROVE  Reaches(n, p)
<1>1. /\ n \in Nat \ {0} /\ front = p[1] /\ 1 \in 1 .. n
      /\ rear = p[n] /\ n \in 1 .. n
      /\ \A k \in 1 .. n : p[k] \in live /\ p[k] \in Nodes /\ value[p[k]] \in Values
      /\ \A j, k \in 1 .. n : p[j] = p[k] => j = k
  BY DEF RingLine, FirstOf, LastOf, Listed, Typed
<1>2. front = rear <=> n = 1
  BY <1>1
<1> DEFINE r == Rest(n, p)
<1>3. /\ Listed(n - 1, r, live)'
      /\ LessFirst(ValuesOf(n, p), ValuesOf(n - 1, r)', value[p[1]])
  <2>1. PICK S : S = live
    OBVIOUS
  <2>2. Listed(n, p, S) /\ \A x \in S : value'[x] = value[x]
    BY <1>1, <2>1 DEF RingLine
  <2>3. /\ Listed(n - 1, r, S \ {p[1]})'
        /\ LessFirst(ValuesOf(n, p), ValuesOf(n - 1, r)', value[p[1]])
    BY <1>1, <2>2, RemoveFirst
  <2>4. live' = S \ {p[1]}
    BY <1>1, <2>1
  <2> QED  BY <2>3, <2>4, ListedThen
<1>4. \A x \in Nodes : next'[x] = IF n # 1 /\ x = p[n] THEN next[p[1]] ELSE next[x]
  <2>1. CASE n = 1
    BY <1>2, <2>1
  <2>2. CASE n # 1
    <3>1. next' = [next EXCEPT ![p[n]] = next[p[1]]]
      BY <1>1, <1>2, <2>2
    <3> QED  BY <2>2, <3>1 DEF Typed
  <2> QED  BY <2>1, <2>2
<1>5. \A k \in 2 .. n - 1 : next'[p[k]] = next[p[k]]
  <2>1. \A k \in 2 .. n - 1 : k \in 1 .. n /\ k # n
    BY <1>1
  <2> QED  BY <1>1, <1>4, <2>1
<1>6. /\ Linked(n - 1, r)'
      /\ n - 1 # 0 => r[n - 1] = p[n] /\ r[1] = p[2]
  BY <1>1, <1>5, RestLinked DEF RingLine
<1> HIDE DEF r
<1>7. n # 1 => next[p[1]] = p[2] /\ 2 \in 1 .. n
  <2>1. n # 1 => 1 \in 1 .. n - 1 /\ 1 + 1 = 2 /\ 2 \in 1 .. n
    BY <1>1
  <2> QED  BY <2>1 DEF RingLine, Linked
<1>8. RingLine(n - 1, r)'
  <2>1. CASE n = 1
    <3>1. front' = Null /\ rear' = Null /\ n - 1 = 0
      BY <1>2, <2>1
    <3> QED  BY <1>3, <1>6, <3>1 DEF RingLine, FirstOf, LastOf
  <2>2. CASE n # 1
    <3>1. n - 1 # 0 /\ front' = r[1] /\ rear' = r[n - 1]
      BY <1>1, <1>2, <1>6, <1>7, <2>2
    <3>2. next'[r[n - 1]] = r[1]
      BY <1>1, <1>4, <1>6, <1>7, <2>2, <3>1
    <3> QED  BY <1>3, <1>6, <3>1, <3>2 DEF RingLine, FirstOf, LastOf
  <2> QED  BY <2>1, <2>2
<1>9. Line(n - 1, r)'
  BY <1>8 DEF Line
<1>10. Changes(ValuesOf(n, p), ValuesOf(n - 1, r)')
  <2>1. Popped(ValuesOf(n, p), ValuesOf(n - 1, r)', "front")
    BY <1>1, <1>3 DEF Popped
  <2> QED  BY <2>1, EndsAre DEF Changes
<1>11. Typed'
  <2>1. next' \in [Nodes -> Nodes \cup {Null, Garbage}] /\ {front', rear'} \subseteq Nodes \cup {Null}
    <3>1. CASE n = 1
      BY <1>2, <3>1 DEF Typed
    <3>2. CASE n # 1
      <4>1. front' = p[2] /\ p[2] \in Nodes /\ next' = [next EXCEPT ![rear] = p[2]]
        BY <1>1, <1>2, <1>7, <3>2
      <4> QED  BY <1>2, <3>2, <4>1 DEF Typed
    <3> QED  BY <3>1, <3>2
  <2>2. out' \in Values \cup {Nothing} /\ live' \subseteq Nodes
    BY <1>1 DEF Typed
  <2> QED  BY <2>1, <2>2 DEF Typed, queueVars, dequeVars
<1> QED  BY <1>9, <1>10, <1>11 DEF Reaches

\* Every step of the circular queue.
LEMMA RingSteps ==
  ASSUME Typed, NEW n, NEW p, Line(n, p), RingStep
  PROVE  Reaches(n, p)
<1>0. /\ kind = "ring" /\ kind' = kind /\ RingLine(n, p)
      /\ UNCHANGED <<s, queueVars, dequeVars>>
  BY DEF RingStep, Line
<1>1. Ring!deq \/ \E v \in Values : Ring!enq(v)
  BY DEF RingStep, Ring!Next
<1>2. ASSUME NEW v \in Values, Ring!enq(v)
      PROVE  Reaches(n, p)
  BY <1>0, <1>2, RingEnqStep
<1>3. CASE Ring!deq
  <2>1. \/ front = Null /\ out' = Nothing /\ UNCHANGED <<front, rear, next, value, live>>
        \/ /\ front # Null /\ out' = value[front] /\ live' = live \ {front} /\ value' = value
           /\ \/ /\ front = rear
                 /\ front' = Null /\ rear' = Null /\ next' = next
              \/ /\ front # rear
                 /\ front' = next[front] /\ rear' = rear
                 /\ next' = [next EXCEPT ![rear] = next[front]]
    BY <1>3 DEF Ring!deq, Ring!TakeOut, Ring!Nothing, Nothing
  <2>2. CASE front = Null /\ out' = Nothing /\ UNCHANGED <<front, rear, next, value, live>>
    BY <1>0, <2>2, RingDeqEmptyStep
  <2>3. CASE /\ front # Null /\ out' = value[front] /\ live' = live \ {front} /\ value' = value
             /\ \/ /\ front = rear
                   /\ front' = Null /\ rear' = Null /\ next' = next
                \/ /\ front # rear
                   /\ front' = next[front] /\ rear' = rear
                   /\ next' = [next EXCEPT ![rear] = next[front]]
    BY <1>0, <2>3, RingDeqStep
  <2> QED  BY <2>1, <2>2, <2>3
<1> QED  BY <1>1, <1>2, <1>3

\* Every step of the stack.
LEMMA StackSteps ==
  ASSUME Typed, NEW n, NEW p, Line(n, p), StackStep
  PROVE  Reaches(n, p)
<1>0. /\ kind = "stack" /\ kind' = kind /\ StackLine(n, p)
      /\ UNCHANGED <<queueVars, ringVars, dequeVars>>
  BY DEF StackStep, Line
<1>1. \/ \E v \in Values : Stack!stackPush(v)
      \/ ~ Stack!stackEmpty /\ Stack!stackPop
  BY DEF StackStep, Stack!Next
<1> QED  BY <1>0, <1>1, StackPushStep, StackPopStep

-----------------------------------------------------------------------------
(* Rings in two directions *)

\* The k-th node of the ring that starts and ends at c.
Node(n, p, c, k) == IF k \in 1 .. n THEN p[k] ELSE c

\* p and c, once each, are a ring of nodes of T with the links F and B.
Circle(n, p, c, T, F, B) ==
  /\ n \in Nat /\ c \in T
  /\ \A k \in 1 .. n : p[k] \in T /\ p[k] # c
  /\ \A j, k \in 1 .. n : p[j] = p[k] => j = k
  /\ \A k \in 0 .. n : /\ F[Node(n, p, c, k)] = Node(n, p, c, k + 1)
                       /\ B[Node(n, p, c, k + 1)] = Node(n, p, c, k)

\* Nobody is met twice on the way round, from c on and back to it.
LEMMA CircleNodes ==
  ASSUME NEW n, NEW p, NEW c, NEW T, NEW F, NEW B, Circle(n, p, c, T, F, B)
  PROVE  /\ Node(n, p, c, 0) = c /\ Node(n, p, c, n + 1) = c
         /\ \A k \in 1 .. n : Node(n, p, c, k) = p[k]
         /\ \A k \in 0 .. n + 1 : Node(n, p, c, k) \in T
         /\ \A k \in 1 .. n : Node(n, p, c, k) # c
         /\ \A j, k \in 0 .. n : Node(n, p, c, j) = Node(n, p, c, k) => j = k
         /\ \A j, k \in 1 .. n + 1 : Node(n, p, c, j) = Node(n, p, c, k) => j = k
         /\ F[c] = Node(n, p, c, 1) /\ B[c] = Node(n, p, c, n)
<1>1. /\ n \in Nat /\ c \in T
      /\ \A k \in 1 .. n : p[k] \in T /\ p[k] # c
      /\ \A j, k \in 1 .. n : p[j] = p[k] => j = k
  BY DEF Circle
<1>2. Node(n, p, c, 0) = c /\ Node(n, p, c, n + 1) = c
  BY <1>1 DEF Node
<1>3. \A k \in 1 .. n : Node(n, p, c, k) = p[k]
  BY DEF Node
<1>4. \A k : Node(n, p, c, k) \in T
  BY <1>1 DEF Node
<1>5. ASSUME NEW j \in 0 .. n, NEW k \in 0 .. n, Node(n, p, c, j) = Node(n, p, c, k)
      PROVE  j = k
  BY <1>1, <1>5 DEF Node
<1>6. ASSUME NEW j \in 1 .. n + 1, NEW k \in 1 .. n + 1, Node(n, p, c, j) = Node(n, p, c, k)
      PROVE  j = k
  BY <1>1, <1>6 DEF Node
<1>7. F[Node(n, p, c, 0)] = Node(n, p, c, 0 + 1) /\ B[Node(n, p, c, n + 1)] = Node(n, p, c, n)
  <2>1. 0 \in 0 .. n /\ n \in 0 .. n
    BY <1>1
  <2> QED  BY <2>1 DEF Circle
<1> QED  BY <1>1, <1>2, <1>3, <1>4, <1>5, <1>6, <1>7

\* A node e comes in between c and the first one.
LEMMA CircleBefore ==
  ASSUME NEW n, NEW p, NEW c, NEW T, NEW F, NEW B, Circle(n, p, c, T, F, B),
         NEW e, e \notin T, NEW G, NEW H,
         \A x \in T : G[x] = IF x = c THEN e ELSE F[x], G[e] = F[c],
         \A x \in T : H[x] = IF x = F[c] THEN e ELSE B[x], H[e] = c
  PROVE  Circle(n + 1, Before(n, p, e), c, T \cup {e}, G, H)
<1> DEFINE N(k) == Node(n, p, c, k)
           r == Before(n, p, e)
           R(k) == Node(n + 1, r, c, k)
<1>0. /\ n \in Nat /\ c \in T
      /\ \A k \in 1 .. n : p[k] \in T /\ p[k] # c
      /\ \A j, k \in 1 .. n : p[j] = p[k] => j = k
      /\ \A k \in 0 .. n : F[N(k)] = N(k + 1) /\ B[N(k + 1)] = N(k)
  BY DEF Circle
<1>1. /\ N(0) = c /\ N(n + 1) = c
      /\ \A k \in 0 .. n + 1 : N(k) \in T
      /\ \A k \in 1 .. n : N(k) = p[k] /\ N(k) # c
      /\ \A j, k \in 1 .. n + 1 : N(j) = N(k) => j = k
      /\ F[c] = N(1)
  BY CircleNodes
<1>2. /\ r[1] = e /\ \A k \in 1 .. n : r[k + 1] = p[k]
      /\ \A k \in 1 .. n + 1 : k # 1 => k - 1 \in 1 .. n /\ r[k] = p[k - 1]
  BY <1>0 DEF Before
<1> HIDE DEF r
<1>3. /\ R(0) = c /\ R(1) = e
      /\ \A k \in 1 .. n + 1 : R(k + 1) = N(k)
  <2>1. R(0) = c /\ R(1) = e
    BY <1>0, <1>2 DEF Node
  <2>2. ASSUME NEW k \in 1 .. n + 1
        PROVE  R(k + 1) = N(k)
    <3>1. CASE k = n + 1
      <4>1. k + 1 \notin 1 .. n + 1
        BY <1>0, <3>1
      <4> QED  BY <1>1, <3>1, <4>1 DEF Node
    <3>2. CASE k # n + 1
      <4>1. k \in 1 .. n /\ k + 1 \in 1 .. n + 1
        BY <1>0, <3>2
      <4>2. R(k + 1) = r[k + 1]
        BY <4>1, Zenon DEF Node
      <4> QED  BY <1>1, <1>2, <4>1, <4>2
    <3> QED  BY <3>1, <3>2
  <2> QED  BY <2>1, <2>2
<1> HIDE DEF N, R
<1>4. ASSUME NEW k \in 0 .. n + 1
      PROVE  G[R(k)] = R(k + 1) /\ H[R(k + 1)] = R(k)
  <2>1. CASE k = 0
    BY <1>0, <1>3, <2>1
  <2>2. CASE k = 1
    <3>1. R(1 + 1) = N(1) /\ 1 \in 0 .. n + 1
      BY <1>0, <1>3
    <3> QED  BY <1>1, <1>3, <2>2, <3>1
  <2>3. CASE k > 1
    <3>1. /\ k - 1 \in 1 .. n /\ k - 1 \in 0 .. n /\ k - 1 \in 1 .. n + 1
          /\ k \in 1 .. n + 1 /\ (k - 1) + 1 = k /\ 1 \in 1 .. n + 1
      BY <1>0, <2>3
    <3>2. R(k) = N(k - 1) /\ R(k + 1) = N(k)
      BY <1>3, <3>1
    <3>3. F[N(k - 1)] = N(k) /\ B[N(k)] = N(k - 1)
      BY <1>0, <3>1
    <3>4. N(k - 1) # c /\ N(k) # N(1) /\ N(k - 1) \in T /\ N(k) \in T
      BY <1>1, <2>3, <3>1
    <3> QED  BY <1>1, <3>2, <3>3, <3>4
  <2> QED  BY <2>1, <2>2, <2>3
<1>5. \A k \in 1 .. n + 1 : r[k] \in T \cup {e} /\ r[k] # c
  BY <1>0, <1>2
<1>6. ASSUME NEW j \in 1 .. n + 1, NEW k \in 1 .. n + 1, r[j] = r[k]
      PROVE  j = k
  <2>1. \A m \in 1 .. n + 1 : m # 1 => r[m] # e
    BY <1>0, <1>2
  <2>2. CASE j = 1 \/ k = 1
    BY <1>2, <1>6, <2>1, <2>2
  <2>3. CASE j # 1 /\ k # 1
    <3>1. j - 1 = k - 1
      BY <1>0, <1>2, <1>6, <2>3
    <3> QED  BY <3>1
  <2> QED  BY <2>2, <2>3
<1> QED  BY <1>0, <1>4, <1>5, <1>6 DEF Circle, R, r

\* A node e comes in between the last one and c.
LEMMA CircleBehind ==
  ASSUME NEW n, NEW p, NEW c, NEW T, NEW F, NEW B, Circle(n, p, c, T, F, B),
         NEW e, e \notin T, NEW G, NEW H,
         \A x \in T : H[x] = IF x = c THEN e ELSE B[x], H[e] = B[c],
         \A x \in T : G[x] = IF x = B[c] THEN e ELSE F[x], G[e] = c
  PROVE  Circle(n + 1, Behind(n, p, e), c, T \cup {e}, G, H)
<1> DEFINE N(k) == Node(n, p, c, k)
           r == Behind(n, p, e)
           R(k) == Node(n + 1, r, c, k)
<1>0. /\ n \in Nat /\ c \in T
      /\ \A k \in 1 .. n : p[k] \in T /\ p[k] # c
      /\ \A j, k \in 1 .. n : p[j] = p[k] => j = k
      /\ \A k \in 0 .. n : F[N(k)] = N(k + 1) /\ B[N(k + 1)] = N(k)
  BY DEF Circle
<1>1. /\ N(0) = c /\ N(n + 1) = c
      /\ \A k \in 0 .. n + 1 : N(k) \in T
      /\ \A k \in 1 .. n : N(k) = p[k] /\ N(k) # c
      /\ \A j, k \in 0 .. n : N(j) = N(k) => j = k
      /\ B[c] = N(n)
  BY CircleNodes
<1>2. r[n + 1] = e /\ \A k \in 1 .. n : r[k] = p[k]
  BY <1>0 DEF Behind
<1> HIDE DEF r
<1>3. /\ R(n + 2) = c /\ R(n + 1) = e
      /\ \A k \in 0 .. n : R(k) = N(k)
  <2>1. n + 2 \notin 1 .. n + 1 /\ n + 1 \in 1 .. n + 1
    BY <1>0
  <2>2. R(n + 2) = c /\ R(n + 1) = e
    BY <1>2, <2>1 DEF Node
  <2>3. ASSUME NEW k \in 0 .. n
        PROVE  R(k) = N(k)
    <3>1. CASE k = 0
      BY <1>0, <1>1, <3>1 DEF Node
    <3>2. CASE k # 0
      <4>1. k \in 1 .. n /\ k \in 1 .. n + 1
        BY <1>0, <3>2
      <4> QED  BY <1>1, <1>2, <4>1 DEF Node
    <3> QED  BY <3>1, <3>2
  <2> QED  BY <2>2, <2>3
<1> HIDE DEF N, R
<1>4. ASSUME NEW k \in 0 .. n + 1
      PROVE  G[R(k)] = R(k + 1) /\ H[R(k + 1)] = R(k)
  <2>1. CASE k = n + 1
    <3>1. k + 1 = n + 2
      BY <1>0, <2>1
    <3> QED  BY <1>0, <1>3, <2>1, <3>1
  <2>2. CASE k = n
    <3>1. R(n) = N(n) /\ N(n) \in T
      BY <1>0, <1>1, <1>3
    <3> QED  BY <1>1, <1>3, <2>2, <3>1
  <2>3. CASE k < n
    <3>1. k \in 0 .. n /\ n \in 0 .. n /\ k + 1 \in 0 .. n /\ k + 1 \in 1 .. n /\ k # n
      BY <1>0, <2>3
    <3>2. R(k) = N(k) /\ R(k + 1) = N(k + 1)
      BY <1>3, <3>1
    <3>3. F[N(k)] = N(k + 1) /\ B[N(k + 1)] = N(k)
      BY <1>0, <3>1
    <3>4. N(k) # N(n) /\ N(k) \in T
      BY <1>0, <1>1, <3>1
    <3>5. N(k + 1) # c /\ N(k + 1) \in T
      BY <1>0, <1>1, <3>1
    <3> QED  BY <1>1, <3>2, <3>3, <3>4, <3>5
  <2> QED  BY <1>0, <2>1, <2>2, <2>3
<1>5. \A k \in 1 .. n + 1 : r[k] \in T \cup {e} /\ r[k] # c
  <2>1. \A k \in 1 .. n + 1 : k = n + 1 \/ k \in 1 .. n
    BY <1>0
  <2> QED  BY <1>0, <1>2, <2>1
<1>6. ASSUME NEW j \in 1 .. n + 1, NEW k \in 1 .. n + 1, r[j] = r[k]
      PROVE  j = k
  <2>1. \A m \in 1 .. n + 1 : m = n + 1 \/ (m \in 1 .. n /\ r[m] # e)
    BY <1>0, <1>2
  <2> QED  BY <1>0, <1>2, <1>6, <2>1
<1> QED  BY <1>0, <1>4, <1>5, <1>6 DEF Circle, R, r

\* The first node is left out.
LEMMA CircleRest ==
  ASSUME NEW n, n # 0, NEW p, NEW c, NEW T, NEW F, NEW B, Circle(n, p, c, T, F, B),
         NEW G, NEW H,
         \A x \in T : G[x] = IF x = c THEN F[F[c]] ELSE F[x],
         \A x \in T : H[x] = IF x = F[F[c]] THEN c ELSE B[x]
  PROVE  Circle(n - 1, Rest(n, p), c, T \ {p[1]}, G, H)
<1> DEFINE N(k) == Node(n, p, c, k)
           r == Rest(n, p)
           R(k) == Node(n - 1, r, c, k)
<1>0. /\ n \in Nat \ {0} /\ n - 1 \in Nat /\ c \in T /\ 1 \in 1 .. n
      /\ \A k \in 1 .. n : p[k] \in T /\ p[k] # c
      /\ \A j, k \in 1 .. n : p[j] = p[k] => j = k
      /\ \A k \in 0 .. n : F[N(k)] = N(k + 1) /\ B[N(k + 1)] = N(k)
  BY DEF Circle
<1>1. /\ N(0) = c /\ N(n + 1) = c
      /\ \A k \in 0 .. n + 1 : N(k) \in T
      /\ \A k \in 1 .. n : N(k) = p[k] /\ N(k) # c
      /\ \A j, k \in 1 .. n + 1 : N(j) = N(k) => j = k
      /\ F[c] = N(1)
  BY CircleNodes
<1>2. /\ \A k \in 1 .. n - 1 : k + 1 \in 1 .. n /\ k + 1 # 1 /\ r[k] = p[k + 1]
  BY <1>0 DEF Rest
<1> HIDE DEF r
<1>3. /\ R(0) = c
      /\ \A k \in 1 .. n : R(k) = N(k + 1)
  <2>1. R(0) = c
    BY <1>0 DEF Node
  <2>2. ASSUME NEW k \in 1 .. n
        PROVE  R(k) = N(k + 1)
    <3>1. CASE k = n
      <4>1. k \notin 1 .. n - 1
        BY <1>0, <3>1
      <4> QED  BY <1>1, <3>1, <4>1 DEF Node
    <3>2. CASE k # n
      <4>1. k \in 1 .. n - 1
        BY <1>0, <3>2
      <4> QED  BY <1>1, <1>2, <4>1 DEF Node
    <3> QED  BY <3>1, <3>2
  <2> QED  BY <2>1, <2>2
<1>4. F[F[c]] = N(2)
  <2>1. 1 \in 0 .. n /\ 1 + 1 = 2
    BY <1>0
  <2>2. F[N(1)] = N(1 + 1)
    BY <1>0, <2>1
  <2> QED  BY <1>1, <2>1, <2>2
<1> HIDE DEF N, R
<1>5. ASSUME NEW k \in 0 .. n - 1
      PROVE  G[R(k)] = R(k + 1) /\ H[R(k + 1)] = R(k)
  <2>1. CASE k = 0
    <3>1. R(0 + 1) = N(2) /\ N(2) \in T
      <4>1. 1 \in 1 .. n /\ 1 + 1 = 2 /\ 0 + 1 = 1 /\ 2 \in 0 .. n + 1
        BY <1>0
      <4> QED  BY <1>1, <1>3, <4>1
    <3> QED  BY <1>0, <1>3, <1>4, <2>1, <3>1
  <2>2. CASE k # 0
    <3>1. /\ k \in 1 .. n /\ k + 1 \in 1 .. n /\ k + 1 \in 0 .. n /\ k + 1 \in 0 .. n + 1
          /\ (k + 1) + 1 \in 0 .. n + 1 /\ (k + 1) + 1 \in 1 .. n + 1
          /\ 2 \in 1 .. n + 1 /\ (k + 1) + 1 # 2
      BY <1>0, <2>2
    <3>2. R(k) = N(k + 1) /\ R(k + 1) = N((k + 1) + 1)
      BY <1>3, <3>1
    <3>3. F[N(k + 1)] = N((k + 1) + 1) /\ B[N((k + 1) + 1)] = N(k + 1)
      BY <1>0, <3>1
    <3>4. /\ N(k + 1) # c /\ N(k + 1) \in T
          /\ N((k + 1) + 1) # N(2) /\ N((k + 1) + 1) \in T
      BY <1>1, <3>1
    <3> QED  BY <1>4, <3>2, <3>3, <3>4
  <2> QED  BY <2>1, <2>2
<1>6. \A k \in 1 .. n - 1 : r[k] \in T \ {p[1]} /\ r[k] # c
  BY <1>0, <1>2
<1>7. ASSUME NEW j \in 1 .. n - 1, NEW k \in 1 .. n - 1, r[j] = r[k]
      PROVE  j = k
  <2>1. j + 1 = k + 1
    BY <1>0, <1>2, <1>7
  <2> QED  BY <2>1
<1> QED  BY <1>0, <1>5, <1>6, <1>7 DEF Circle, R, r

\* The last node is left out.
LEMMA CircleStart ==
  ASSUME NEW n, n # 0, NEW p, NEW c, NEW T, NEW F, NEW B, Circle(n, p, c, T, F, B),
         NEW G, NEW H,
         \A x \in T : H[x] = IF x = c THEN B[B[c]] ELSE B[x],
         \A x \in T : G[x] = IF x = B[B[c]] THEN c ELSE F[x]
  PROVE  Circle(n - 1, Start(n, p), c, T \ {p[n]}, G, H)
<1> DEFINE N(k) == Node(n, p, c, k)
           r == Start(n, p)
           R(k) == Node(n - 1, r, c, k)
<1>0. /\ n \in Nat \ {0} /\ n - 1 \in Nat /\ c \in T /\ n \in 1 .. n
      /\ \A k \in 1 .. n : p[k] \in T /\ p[k] # c
      /\ \A j, k \in 1 .. n : p[j] = p[k] => j = k
      /\ \A k \in 0 .. n : F[N(k)] = N(k + 1) /\ B[N(k + 1)] = N(k)
  BY DEF Circle
<1>1. /\ N(0) = c /\ N(n + 1) = c
      /\ \A k \in 0 .. n + 1 : N(k) \in T
      /\ \A k \in 1 .. n : N(k) = p[k] /\ N(k) # c
      /\ \A j, k \in 0 .. n : N(j) = N(k) => j = k
      /\ B[c] = N(n)
  BY CircleNodes
<1>2. \A k \in 1 .. n - 1 : k \in 1 .. n /\ k # n /\ r[k] = p[k]
  BY <1>0 DEF Start
<1> HIDE DEF r
<1>3. /\ R(n) = c
      /\ \A k \in 0 .. n - 1 : R(k) = N(k)
  <2>1. R(n) = c
    <3>1. n \notin 1 .. n - 1
      BY <1>0
    <3> QED  BY <3>1 DEF Node
  <2>2. ASSUME NEW k \in 0 .. n - 1
        PROVE  R(k) = N(k)
    <3>1. CASE k = 0
      BY <1>0, <1>1, <3>1 DEF Node
    <3>2. CASE k # 0
      <4>1. k \in 1 .. n - 1
        BY <1>0, <3>2
      <4> QED  BY <1>1, <1>2, <4>1 DEF Node
    <3> QED  BY <3>1, <3>2
  <2> QED  BY <2>1, <2>2
<1>4. B[B[c]] = N(n - 1)
  <2>1. n - 1 \in 0 .. n /\ (n - 1) + 1 = n
    BY <1>0
  <2>2. B[N((n - 1) + 1)] = N(n - 1)
    BY <1>0, <2>1
  <2> QED  BY <1>1, <2>1, <2>2
<1> HIDE DEF N, R
<1>5. ASSUME NEW k \in 0 .. n - 1
      PROVE  G[R(k)] = R(k + 1) /\ H[R(k + 1)] = R(k)
  <2>1. CASE k = n - 1
    <3>1. k \in 0 .. n - 1 /\ k + 1 = n /\ k \in 0 .. n + 1
      BY <1>0, <2>1
    <3>2. R(k) = N(n - 1) /\ R(k + 1) = c /\ N(n - 1) \in T
      BY <1>1, <1>3, <2>1, <3>1
    <3> QED  BY <1>0, <1>4, <3>2
  <2>2. CASE k < n - 1
    <3>1. /\ k \in 0 .. n /\ k + 1 \in 0 .. n - 1 /\ k + 1 \in 1 .. n
          /\ k \in 0 .. n + 1 /\ k + 1 \in 0 .. n + 1
          /\ n - 1 \in 0 .. n /\ k # n - 1
      BY <1>0, <2>2
    <3>2. R(k) = N(k) /\ R(k + 1) = N(k + 1)
      BY <1>3, <3>1
    <3>3. F[N(k)] = N(k + 1) /\ B[N(k + 1)] = N(k)
      BY <1>0, <3>1
    <3>4. /\ N(k) # N(n - 1) /\ N(k) \in T
          /\ N(k + 1) # c /\ N(k + 1) \in T
      BY <1>1, <3>1
    <3> QED  BY <1>4, <3>2, <3>3, <3>4
  <2> QED  BY <1>0, <2>1, <2>2
<1>6. \A k \in 1 .. n - 1 : r[k] \in T \ {p[n]} /\ r[k] # c
  BY <1>0, <1>2
<1>7. ASSUME NEW j \in 1 .. n - 1, NEW k \in 1 .. n - 1, r[j] = r[k]
      PROVE  j = k
  BY <1>0, <1>2, <1>7
<1> QED  BY <1>0, <1>5, <1>6, <1>7 DEF Circle, R, r

-----------------------------------------------------------------------------
(* The steps of the deque *)

\* A deque in use is such a ring.
LEMMA AroundCircle ==
  ASSUME Typed, NEW n, NEW p, Around(n, p)
  PROVE  Circle(n, p, d, live, link["front"], link["back"])
<1>1. /\ n \in Nat /\ d \in live
      /\ \A k \in 1 .. n : p[k] \in live /\ p[k] # d
      /\ \A j, k \in 1 .. n : p[j] = p[k] => j = k
  BY DEF Around, Listed
<1>2. \A k : Node(n, p, d, k) = At(n, p, k)
  BY DEF Node, At
<1>3. \A k \in 0 .. n : /\ link["front"][Node(n, p, d, k)] = Node(n, p, d, k + 1)
                        /\ link["back"][Node(n, p, d, k + 1)] = Node(n, p, d, k)
  BY <1>2 DEF Around
<1> QED  BY <1>1, <1>3 DEF Circle

\* And such a ring is a deque after the step.
LEMMA AroundThen ==
  ASSUME NEW n, NEW p, NEW c, NEW T, NEW F, NEW B, Circle(n, p, c, T, F, B),
         Listed(n, p, T \ {c})',
         d' = c, live' = T, link'["front"] = F, link'["back"] = B
  PROVE  Around(n, p)'
<1>1. Listed(n, p, live \ {d})'
  BY DEF Listed
<1>2. \A k : At(n, p, k)' = Node(n, p, c, k)
  BY DEF Node, At
<1>3. d' \in live'
  BY DEF Circle
<1>4. \A k \in 0 .. n : /\ link'["front"][At(n, p, k)'] = At(n, p, k + 1)'
                        /\ link'["back"][At(n, p, k + 1)'] = At(n, p, k)'
  BY <1>2 DEF Circle
<1> QED  BY <1>1, <1>3, <1>4 DEF Around

\* What a push and a pop make of the links, in direction a.
LinksWith(L, a, b, c, e, old) ==
  [L EXCEPT ![a][e] = old, ![b][e] = c, ![a][c] = e, ![b][old] = e]
LinksWithout(L, a, b, c, o) == [L EXCEPT ![a][c] = o, ![b][o] = c]

\* The links after a push in direction a.
LEMMA LinksPushed ==
  ASSUME Typed, NEW a \in {"front", "back"}, NEW b \in {"front", "back"}, a # b,
         NEW c \in Nodes, NEW e \in Nodes, NEW old \in Nodes, e # old, e # c,
         link' = LinksWith(link, a, b, c, e, old)
  PROVE  /\ link' \in [{"front", "back"} -> [Nodes -> Nodes \cup {Garbage}]]
         /\ link'[a][e] = old
         /\ \A x \in Nodes : x # e => link'[a][x] = IF x = c THEN e ELSE link[a][x]
         /\ link'[b][e] = c
         /\ \A x \in Nodes : x # e => link'[b][x] = IF x = old THEN e ELSE link[b][x]
<1> DEFINE D == {"front", "back"}
           X == Nodes \cup {Garbage}
<1>1. PICK A1 : A1 = [[link[a] EXCEPT ![e] = old] EXCEPT ![c] = e]
  OBVIOUS
<1>2. PICK B1 : B1 = [[link[b] EXCEPT ![e] = c] EXCEPT ![old] = e]
  OBVIOUS
<1>3. link \in [D -> [Nodes -> X]] /\ link[a] \in [Nodes -> X] /\ link[b] \in [Nodes -> X]
  BY DEF Typed
<1>4. A1 \in [Nodes -> X] /\ B1 \in [Nodes -> X]
  BY <1>1, <1>2, <1>3
<1>5. link' = [link EXCEPT ![a] = A1, ![b] = B1]
  BY <1>1, <1>2, <1>3 DEF LinksWith
<1>6. link' \in [D -> [Nodes -> X]] /\ link'[a] = A1 /\ link'[b] = B1
  <2>1. DOMAIN link' = D /\ \A x \in D : link'[x] = IF x = b THEN B1 ELSE IF x = a THEN A1 ELSE link[x]
    BY <1>3, <1>5
  <2>2. link' = [x \in D |-> link'[x]]
    BY <1>3, <1>5
  <2>3. \A x \in D : link'[x] \in [Nodes -> X]
    BY <1>3, <1>4, <2>1
  <2>4. link'[a] = A1 /\ link'[b] = B1
    BY <2>1
  <2> QED  BY <2>2, <2>3, <2>4
<1>7. A1[e] = old /\ \A x \in Nodes : x # e => A1[x] = IF x = c THEN e ELSE link[a][x]
  BY <1>1, <1>3
<1>8. B1[e] = c /\ \A x \in Nodes : x # e => B1[x] = IF x = old THEN e ELSE link[b][x]
  BY <1>2, <1>3
<1> QED  BY <1>6, <1>7, <1>8

\* The links after a pop in direction a.
LEMMA LinksPopped ==
  ASSUME Typed, NEW a \in {"front", "back"}, NEW b \in {"front", "back"}, a # b,
         NEW c \in Nodes, NEW o \in Nodes, link' = LinksWithout(link, a, b, c, o)
  PROVE  /\ link' \in [{"front", "back"} -> [Nodes -> Nodes \cup {Garbage}]]
         /\ \A x \in Nodes : link'[a][x] = IF x = c THEN o ELSE link[a][x]
         /\ \A x \in Nodes : link'[b][x] = IF x = o THEN c ELSE link[b][x]
<1> DEFINE D == {"front", "back"}
           X == Nodes \cup {Garbage}
<1>1. PICK A1 : A1 = [link[a] EXCEPT ![c] = o]
  OBVIOUS
<1>2. PICK B1 : B1 = [link[b] EXCEPT ![o] = c]
  OBVIOUS
<1>3. link \in [D -> [Nodes -> X]] /\ link[a] \in [Nodes -> X] /\ link[b] \in [Nodes -> X]
  BY DEF Typed
<1>4. A1 \in [Nodes -> X] /\ B1 \in [Nodes -> X]
  BY <1>1, <1>2, <1>3
<1>5. link' = [link EXCEPT ![a] = A1, ![b] = B1]
  BY <1>1, <1>2, <1>3 DEF LinksWithout
<1>6. link' \in [D -> [Nodes -> X]] /\ link'[a] = A1 /\ link'[b] = B1
  <2>1. DOMAIN link' = D /\ \A x \in D : link'[x] = IF x = b THEN B1 ELSE IF x = a THEN A1 ELSE link[x]
    BY <1>3, <1>5
  <2>2. link' = [x \in D |-> link'[x]]
    BY <1>3, <1>5
  <2>3. \A x \in D : link'[x] \in [Nodes -> X]
    BY <1>3, <1>4, <2>1
  <2>4. link'[a] = A1 /\ link'[b] = B1
    BY <2>1
  <2> QED  BY <2>2, <2>3, <2>4
<1>7. /\ \A x \in Nodes : A1[x] = IF x = c THEN o ELSE link[a][x]
      /\ \A x \in Nodes : B1[x] = IF x = o THEN c ELSE link[b][x]
  BY <1>1, <1>2, <1>3
<1> QED  BY <1>6, <1>7

\* The deque, pushed at the front.
LEMMA DequePushFrontStep ==
  ASSUME Typed, kind = "deque", kind' = kind, NEW n, NEW p, Around(n, p),
         phase \in {"use", "destroy"}, phase' = phase,
         NEW v \in Values, Deque!dqueuPush("front", v), UNCHANGED <<s, queueVars, ringVars>>
  PROVE  Reaches(n, p)
<1>1. PICK e \in Nodes : /\ e \notin live /\ live' = live \cup {e}
                         /\ value' = [value EXCEPT ![e] = v]
                         /\ link' = [link EXCEPT !["front"][e] = link["front"][d],
                                                 !["back"][e] = d,
                                                 !["front"][d] = e,
                                                 !["back"][link["front"][d]] = e]
                         /\ d' = d /\ next' = next /\ out' = out
  BY Zenon DEF Deque!dqueuPush, Deque!NewNode, Deque!Opposite
<1>2. /\ live' \subseteq Nodes /\ value' \in [Nodes -> Values \cup {Garbage}]
      /\ value'[e] = v /\ \A x \in live : value'[x] = value[x]
  BY <1>1, NewNodeTyped
<1>3. PICK c, T, F, B : c = d /\ T = live /\ F = link["front"] /\ B = link["back"]
  OBVIOUS
<1>4. Circle(n, p, c, T, F, B) /\ Listed(n, p, T \ {c})
  BY <1>3, AroundCircle DEF Around
<1>5. c \in T /\ c \in Nodes /\ F[c] \in T /\ F[c] \in Nodes /\ T \subseteq Nodes /\ e \notin T
  <2>0. n \in Nat
    BY <1>4 DEF Circle
  <2>1. F[c] = Node(n, p, c, 1) /\ \A k \in 0 .. n + 1 : Node(n, p, c, k) \in T
    BY <1>4, CircleNodes
  <2>2. 1 \in 0 .. n + 1 /\ c \in T /\ T \subseteq Nodes /\ e \notin T
    BY <1>1, <1>3, <1>4, <2>0 DEF Typed, Circle
  <2> QED  BY <2>1, <2>2
<1>6. PICK G, H : G = link'["front"] /\ H = link'["back"]
  OBVIOUS
<1>7. /\ link' \in [{"front", "back"} -> [Nodes -> Nodes \cup {Garbage}]]
      /\ G[e] = F[c] /\ \A x \in Nodes : x # e => G[x] = IF x = c THEN e ELSE F[x]
      /\ H[e] = c /\ \A x \in Nodes : x # e => H[x] = IF x = F[c] THEN e ELSE B[x]
  <2>1. PICK old \in Nodes : old = F[c]
    BY <1>5
  <2>2. link' = LinksWith(link, "front", "back", c, e, old)
    BY <1>1, <1>3, <2>1 DEF LinksWith
  <2>3. e # old /\ e # c
    BY <1>5, <2>1
  <2>4. "front" \in {"front", "back"} /\ "back" \in {"front", "back"} /\ "front" # "back"
    OBVIOUS
  <2>5. /\ link' \in [{"front", "back"} -> [Nodes -> Nodes \cup {Garbage}]]
        /\ link'["front"][e] = old
        /\ \A x \in Nodes : x # e => link'["front"][x] = IF x = c THEN e ELSE link["front"][x]
        /\ link'["back"][e] = c
        /\ \A x \in Nodes : x # e => link'["back"][x] = IF x = old THEN e ELSE link["back"][x]
    BY <1>5, <2>2, <2>3, <2>4, LinksPushed
  <2> QED  BY <1>3, <1>6, <2>1, <2>5
<1>8. Typed'
  BY <1>1, <1>2, <1>7 DEF Typed, queueVars, ringVars
<1> DEFINE r == Before(n, p, e)
<1>9. Circle(n + 1, r, c, T \cup {e}, G, H)
  <2>1. /\ \A x \in T : G[x] = IF x = c THEN e ELSE F[x]
        /\ \A x \in T : H[x] = IF x = F[c] THEN e ELSE B[x]
    BY <1>5, <1>7
  <2> QED  BY <1>4, <1>5, <1>7, <2>1, CircleBefore
<1>10. /\ Listed(n + 1, r, (T \cup {e}) \ {c})'
       /\ InFront(v, ValuesOf(n, p), ValuesOf(n + 1, r)')
  <2>1. PICK S : S = T \ {c}
    OBVIOUS
  <2>2. Listed(n, p, S) /\ e \notin S /\ \A x \in S : value'[x] = value[x]
    BY <1>2, <1>3, <1>4, <1>5, <2>1
  <2>3. Listed(n + 1, r, S \cup {e})' /\ InFront(v, ValuesOf(n, p), ValuesOf(n + 1, r)')
    BY <1>2, <2>2, AddBefore
  <2>4. (T \cup {e}) \ {c} = S \cup {e}
    BY <1>5, <2>1
  <2> QED  BY <2>3, <2>4
<1> HIDE DEF r
<1>11. Around(n + 1, r)'
  <2>1. d' = c /\ live' = T \cup {e} /\ link'["front"] = G /\ link'["back"] = H
    BY <1>1, <1>3, <1>6
  <2> QED  BY <1>9, <1>10, <2>1, AroundThen
<1>12. Line(n + 1, r)'
  BY <1>11 DEF Line, DequeLine
<1>13. Changes(ValuesOf(n, p), ValuesOf(n + 1, r)')
  <2>1. Pushed(ValuesOf(n, p), ValuesOf(n + 1, r)', v, "front")
    BY <1>1, <1>10 DEF Pushed
  <2> QED  BY <2>1, EndsAre DEF Changes
<1> QED  BY <1>8, <1>12, <1>13 DEF Reaches

\* The deque, pushed at the back.
LEMMA DequePushBackStep ==
  ASSUME Typed, kind = "deque", kind' = kind, NEW n, NEW p, Around(n, p),
         phase \in {"use", "destroy"}, phase' = phase,
         NEW v \in Values, Deque!dqueuPush("back", v), UNCHANGED <<s, queueVars, ringVars>>
  PROVE  Reaches(n, p)
<1>1. PICK e \in Nodes : /\ e \notin live /\ live' = live \cup {e}
                         /\ value' = [value EXCEPT ![e] = v]
                         /\ link' = [link EXCEPT !["back"][e] = link["back"][d],
                                                 !["front"][e] = d,
                                                 !["back"][d] = e,
                                                 !["front"][link["back"][d]] = e]
                         /\ d' = d /\ next' = next /\ out' = out
  BY Zenon DEF Deque!dqueuPush, Deque!NewNode, Deque!Opposite
<1>2. /\ live' \subseteq Nodes /\ value' \in [Nodes -> Values \cup {Garbage}]
      /\ value'[e] = v /\ \A x \in live : value'[x] = value[x]
  BY <1>1, NewNodeTyped
<1>3. PICK c, T, F, B : c = d /\ T = live /\ F = link["front"] /\ B = link["back"]
  OBVIOUS
<1>4. Circle(n, p, c, T, F, B) /\ Listed(n, p, T \ {c})
  BY <1>3, AroundCircle DEF Around
<1>5. c \in T /\ c \in Nodes /\ B[c] \in T /\ B[c] \in Nodes /\ T \subseteq Nodes /\ e \notin T
  <2>0. n \in Nat
    BY <1>4 DEF Circle
  <2>1. B[c] = Node(n, p, c, n) /\ \A k \in 0 .. n + 1 : Node(n, p, c, k) \in T
    BY <1>4, CircleNodes
  <2>2. n \in 0 .. n + 1 /\ c \in T /\ T \subseteq Nodes /\ e \notin T
    BY <1>1, <1>3, <1>4, <2>0 DEF Typed, Circle
  <2> QED  BY <2>1, <2>2
<1>6. PICK G, H : G = link'["front"] /\ H = link'["back"]
  OBVIOUS
<1>7. /\ link' \in [{"front", "back"} -> [Nodes -> Nodes \cup {Garbage}]]
      /\ H[e] = B[c] /\ \A x \in Nodes : x # e => H[x] = IF x = c THEN e ELSE B[x]
      /\ G[e] = c /\ \A x \in Nodes : x # e => G[x] = IF x = B[c] THEN e ELSE F[x]
  <2>1. PICK old \in Nodes : old = B[c]
    BY <1>5
  <2>2. link' = LinksWith(link, "back", "front", c, e, old)
    BY <1>1, <1>3, <2>1 DEF LinksWith
  <2>3. e # old /\ e # c
    BY <1>5, <2>1
  <2>4. "front" \in {"front", "back"} /\ "back" \in {"front", "back"} /\ "back" # "front"
    OBVIOUS
  <2>5. /\ link' \in [{"front", "back"} -> [Nodes -> Nodes \cup {Garbage}]]
        /\ link'["back"][e] = old
        /\ \A x \in Nodes : x # e => link'["back"][x] = IF x = c THEN e ELSE link["back"][x]
        /\ link'["front"][e] = c
        /\ \A x \in Nodes : x # e => link'["front"][x] = IF x = old THEN e ELSE link["front"][x]
    BY <1>5, <2>2, <2>3, <2>4, LinksPushed
  <2> QED  BY <1>3, <1>6, <2>1, <2>5
<1>8. Typed'
  BY <1>1, <1>2, <1>7 DEF Typed, queueVars, ringVars
<1> DEFINE r == Behind(n, p, e)
<1>9. Circle(n + 1, r, c, T \cup {e}, G, H)
  <2>1. /\ \A x \in T : H[x] = IF x = c THEN e ELSE B[x]
        /\ \A x \in T : G[x] = IF x = B[c] THEN e ELSE F[x]
    BY <1>5, <1>7
  <2> QED  BY <1>4, <1>5, <1>7, <2>1, CircleBehind
<1>10. /\ Listed(n + 1, r, (T \cup {e}) \ {c})'
       /\ InBack(v, ValuesOf(n, p), ValuesOf(n + 1, r)')
  <2>1. PICK S : S = T \ {c}
    OBVIOUS
  <2>2. Listed(n, p, S) /\ e \notin S /\ \A x \in S : value'[x] = value[x]
    BY <1>2, <1>3, <1>4, <1>5, <2>1
  <2>3. Listed(n + 1, r, S \cup {e})' /\ InBack(v, ValuesOf(n, p), ValuesOf(n + 1, r)')
    BY <1>2, <2>2, AddBehind
  <2>4. (T \cup {e}) \ {c} = S \cup {e}
    BY <1>5, <2>1
  <2> QED  BY <2>3, <2>4
<1> HIDE DEF r
<1>11. Around(n + 1, r)'
  <2>1. d' = c /\ live' = T \cup {e} /\ link'["front"] = G /\ link'["back"] = H
    BY <1>1, <1>3, <1>6
  <2> QED  BY <1>9, <1>10, <2>1, AroundThen
<1>12. Line(n + 1, r)'
  BY <1>11 DEF Line, DequeLine
<1>13. Changes(ValuesOf(n, p), ValuesOf(n + 1, r)')
  <2>1. Pushed(ValuesOf(n, p), ValuesOf(n + 1, r)', v, "back")
    BY <1>1, <1>10 DEF Pushed
  <2> QED  BY <2>1, EndsAre DEF Changes
<1> QED  BY <1>8, <1>12, <1>13 DEF Reaches

\* The deque, popped at the front, when there is a value.
LEMMA DequePopFrontStep ==
  ASSUME Typed, kind = "deque", kind' = kind, NEW n, NEW p, Around(n, p),
         phase \in {"use", "destroy"}, phase' = phase,
         link["front"][d] # d,
         out' = value[link["front"][d]], live' = live \ {link["front"][d]}, value' = value,
         link' = LinksWithout(link, "front", "back", d, link["front"][link["front"][d]]),
         UNCHANGED <<d, next, s, queueVars, ringVars>>
  PROVE  Reaches(n, p)
<1>3. PICK c, T, F, B : c = d /\ T = live /\ F = link["front"] /\ B = link["back"]
  OBVIOUS
<1>4. Circle(n, p, c, T, F, B) /\ Listed(n, p, T \ {c})
  BY <1>3, AroundCircle DEF Around
<1>5. /\ n \in Nat \ {0} /\ F[c] = p[1] /\ p[1] \in T /\ p[1] # c
      /\ F[F[c]] \in T /\ c \in T /\ T \subseteq Nodes /\ value[p[1]] \in Values
  <2>0. n \in Nat /\ c \in T /\ T \subseteq Nodes
    BY <1>3, <1>4 DEF Circle, Typed
  <2>1. /\ F[c] = Node(n, p, c, 1) /\ \A k \in 0 .. n + 1 : Node(n, p, c, k) \in T
        /\ Node(n, p, c, n + 1) = c /\ \A k \in 1 .. n : Node(n, p, c, k) = p[k]
        /\ \A k \in 1 .. n : Node(n, p, c, k) # c
    BY <1>4, CircleNodes
  <2>2. n # 0
    BY <1>3, <2>0, <2>1
  <2>3. 1 \in 1 .. n /\ 1 \in 0 .. n /\ 1 \in 0 .. n + 1 /\ 2 \in 0 .. n + 1 /\ 1 + 1 = 2
    BY <2>0, <2>2
  <2>4. F[Node(n, p, c, 1)] = Node(n, p, c, 2)
    BY <1>4, <2>3 DEF Circle
  <2>5. value[p[1]] \in Values
    BY <1>4, <2>3 DEF Listed
  <2> QED  BY <2>0, <2>1, <2>2, <2>3, <2>4, <2>5
<1>6. PICK G, H : G = link'["front"] /\ H = link'["back"]
  OBVIOUS
<1>7. /\ link' \in [{"front", "back"} -> [Nodes -> Nodes \cup {Garbage}]]
      /\ \A x \in Nodes : G[x] = IF x = c THEN F[F[c]] ELSE F[x]
      /\ \A x \in Nodes : H[x] = IF x = F[F[c]] THEN c ELSE B[x]
  <2>1. PICK o \in Nodes : o = F[F[c]]
    BY <1>5
  <2>2. link' = LinksWithout(link, "front", "back", c, o) /\ c \in Nodes
    BY <1>3, <1>5, <2>1
  <2>4. "front" \in {"front", "back"} /\ "back" \in {"front", "back"} /\ "front" # "back"
    OBVIOUS
  <2>5. /\ link' \in [{"front", "back"} -> [Nodes -> Nodes \cup {Garbage}]]
        /\ \A x \in Nodes : link'["front"][x] = IF x = c THEN o ELSE link["front"][x]
        /\ \A x \in Nodes : link'["back"][x] = IF x = o THEN c ELSE link["back"][x]
    BY <2>2, <2>4, LinksPopped
  <2> QED  BY <1>3, <1>6, <2>1, <2>5
<1>8. Typed'
  <2>1. out' \in Values /\ live' \subseteq Nodes
    BY <1>3, <1>5
  <2> QED  BY <1>7, <2>1 DEF Typed, queueVars, ringVars
<1> DEFINE r == Rest(n, p)
<1>9. Circle(n - 1, r, c, T \ {p[1]}, G, H)
  <2>1. /\ \A x \in T : G[x] = IF x = c THEN F[F[c]] ELSE F[x]
        /\ \A x \in T : H[x] = IF x = F[F[c]] THEN c ELSE B[x]
    BY <1>5, <1>7
  <2>2. n # 0
    BY <1>5
  <2> QED  BY <1>4, <2>1, <2>2, CircleRest
<1>10. /\ Listed(n - 1, r, (T \ {p[1]}) \ {c})'
       /\ LessFirst(ValuesOf(n, p), ValuesOf(n - 1, r)', value[p[1]])
  <2>1. PICK S : S = T \ {c}
    OBVIOUS
  <2>2. n # 0 /\ Listed(n, p, S) /\ \A x \in S : value'[x] = value[x]
    BY <1>4, <1>5, <2>1
  <2>3. /\ Listed(n - 1, r, S \ {p[1]})'
        /\ LessFirst(ValuesOf(n, p), ValuesOf(n - 1, r)', value[p[1]])
    BY <2>2, RemoveFirst
  <2>4. (T \ {p[1]}) \ {c} = S \ {p[1]}
    BY <2>1
  <2> QED  BY <2>3, <2>4
<1> HIDE DEF r
<1>11. Around(n - 1, r)'
  <2>1. d' = c /\ live' = T \ {p[1]} /\ link'["front"] = G /\ link'["back"] = H
    BY <1>3, <1>5, <1>6
  <2> QED  BY <1>9, <1>10, <2>1, AroundThen
<1>12. Line(n - 1, r)'
  BY <1>11 DEF Line, DequeLine
<1>13. Changes(ValuesOf(n, p), ValuesOf(n - 1, r)')
  <2>1. Popped(ValuesOf(n, p), ValuesOf(n - 1, r)', "front")
    BY <1>3, <1>5, <1>10 DEF Popped
  <2> QED  BY <2>1, EndsAre DEF Changes
<1> QED  BY <1>8, <1>12, <1>13 DEF Reaches

\* The deque, popped at the back, when there is a value.
LEMMA DequePopBackStep ==
  ASSUME Typed, kind = "deque", kind' = kind, NEW n, NEW p, Around(n, p),
         phase \in {"use", "destroy"}, phase' = phase,
         link["back"][d] # d,
         out' = value[link["back"][d]], live' = live \ {link["back"][d]}, value' = value,
         link' = LinksWithout(link, "back", "front", d, link["back"][link["back"][d]]),
         UNCHANGED <<d, next, s, queueVars, ringVars>>
  PROVE  Reaches(n, p)
<1>3. PICK c, T, F, B : c = d /\ T = live /\ F = link["front"] /\ B = link["back"]
  OBVIOUS
<1>4. Circle(n, p, c, T, F, B) /\ Listed(n, p, T \ {c})
  BY <1>3, AroundCircle DEF Around
<1>5. /\ n \in Nat \ {0} /\ B[c] = p[n] /\ p[n] \in T /\ p[n] # c
      /\ B[B[c]] \in T /\ c \in T /\ T \subseteq Nodes /\ value[p[n]] \in Values
  <2>0. n \in Nat /\ c \in T /\ T \subseteq Nodes
    BY <1>3, <1>4 DEF Circle, Typed
  <2>1. /\ B[c] = Node(n, p, c, n) /\ \A k \in 0 .. n + 1 : Node(n, p, c, k) \in T
        /\ Node(n, p, c, 0) = c /\ \A k \in 1 .. n : Node(n, p, c, k) = p[k]
        /\ \A k \in 1 .. n : Node(n, p, c, k) # c
    BY <1>4, CircleNodes
  <2>2. n # 0
    BY <1>3, <2>0, <2>1
  <2>3. n \in 1 .. n /\ n \in 0 .. n + 1 /\ n - 1 \in 0 .. n /\ n - 1 \in 0 .. n + 1 /\ (n - 1) + 1 = n
    BY <2>0, <2>2
  <2>4. B[Node(n, p, c, n)] = Node(n, p, c, n - 1)
    BY <1>4, <2>3 DEF Circle
  <2>5. value[p[n]] \in Values
    BY <1>4, <2>3 DEF Listed
  <2> QED  BY <2>0, <2>1, <2>2, <2>3, <2>4, <2>5
<1>6. PICK G, H : G = link'["front"] /\ H = link'["back"]
  OBVIOUS
<1>7. /\ link' \in [{"front", "back"} -> [Nodes -> Nodes \cup {Garbage}]]
      /\ \A x \in Nodes : H[x] = IF x = c THEN B[B[c]] ELSE B[x]
      /\ \A x \in Nodes : G[x] = IF x = B[B[c]] THEN c ELSE F[x]
  <2>1. PICK o \in Nodes : o = B[B[c]]
    BY <1>5
  <2>2. link' = LinksWithout(link, "back", "front", c, o) /\ c \in Nodes
    BY <1>3, <1>5, <2>1
  <2>4. "front" \in {"front", "back"} /\ "back" \in {"front", "back"} /\ "back" # "front"
    OBVIOUS
  <2>5. /\ link' \in [{"front", "back"} -> [Nodes -> Nodes \cup {Garbage}]]
        /\ \A x \in Nodes : link'["back"][x] = IF x = c THEN o ELSE link["back"][x]
        /\ \A x \in Nodes : link'["front"][x] = IF x = o THEN c ELSE link["front"][x]
    BY <2>2, <2>4, LinksPopped
  <2> QED  BY <1>3, <1>6, <2>1, <2>5
<1>8. Typed'
  <2>1. out' \in Values /\ live' \subseteq Nodes
    BY <1>3, <1>5
  <2> QED  BY <1>7, <2>1 DEF Typed, queueVars, ringVars
<1> DEFINE r == Start(n, p)
<1>9. Circle(n - 1, r, c, T \ {p[n]}, G, H)
  <2>1. /\ \A x \in T : H[x] = IF x = c THEN B[B[c]] ELSE B[x]
        /\ \A x \in T : G[x] = IF x = B[B[c]] THEN c ELSE F[x]
    BY <1>5, <1>7
  <2>2. n # 0
    BY <1>5
  <2> QED  BY <1>4, <2>1, <2>2, CircleStart
<1>10. /\ Listed(n - 1, r, (T \ {p[n]}) \ {c})'
       /\ LessLast(ValuesOf(n, p), ValuesOf(n - 1, r)', value[p[n]])
  <2>1. PICK S : S = T \ {c}
    OBVIOUS
  <2>2. n # 0 /\ Listed(n, p, S) /\ \A x \in S : value'[x] = value[x]
    BY <1>4, <1>5, <2>1
  <2>3. /\ Listed(n - 1, r, S \ {p[n]})'
        /\ LessLast(ValuesOf(n, p), ValuesOf(n - 1, r)', value[p[n]])
    BY <2>2, RemoveLast
  <2>4. (T \ {p[n]}) \ {c} = S \ {p[n]}
    BY <2>1
  <2> QED  BY <2>3, <2>4
<1> HIDE DEF r
<1>11. Around(n - 1, r)'
  <2>1. d' = c /\ live' = T \ {p[n]} /\ link'["front"] = G /\ link'["back"] = H
    BY <1>3, <1>5, <1>6
  <2> QED  BY <1>9, <1>10, <2>1, AroundThen
<1>12. Line(n - 1, r)'
  BY <1>11 DEF Line, DequeLine
<1>13. Changes(ValuesOf(n, p), ValuesOf(n - 1, r)')
  <2>1. Popped(ValuesOf(n, p), ValuesOf(n - 1, r)', "back")
    BY <1>3, <1>5, <1>10 DEF Popped
  <2> QED  BY <2>1, EndsAre DEF Changes
<1> QED  BY <1>8, <1>12, <1>13 DEF Reaches

\* The deque, popped when it is empty.
LEMMA DequePopEmptyStep ==
  ASSUME Typed, kind = "deque", kind' = kind, NEW n, NEW p, Around(n, p),
         phase \in {"use", "destroy"}, phase' = phase,
         NEW dir \in {"front", "back"}, link[dir][d] = d, out' = Nothing,
         UNCHANGED <<link, value, live, d, next, s, queueVars, ringVars>>
  PROVE  Reaches(n, p)
<1>1. n = 0
  <2>1. /\ n \in Nat /\ \A k \in 1 .. n : At(n, p, k) = p[k] /\ p[k] # d
        /\ link["front"][d] = At(n, p, 1) /\ link["back"][d] = At(n, p, n)
    BY AroundAt
  <2>2. n # 0 => 1 \in 1 .. n /\ n \in 1 .. n
    BY <2>1
  <2>3. dir = "front" \/ dir = "back"
    OBVIOUS
  <2> QED  BY <2>1, <2>2, <2>3
<1>2. Typed'
  BY DEF Typed, queueVars, ringVars
<1>3. Around(n, p)'
  BY DEF Around, Listed, At
<1>4. Line(n, p)'
  BY <1>3 DEF Line, DequeLine
<1>5. ValuesOf(n, p)' = ValuesOf(n, p)
  BY DEF ValuesOf
<1>6. Changes(ValuesOf(n, p), ValuesOf(n, p)')
  BY <1>1, <1>5, NoValues DEF Changes
<1> QED  BY <1>2, <1>4, <1>6 DEF Reaches

\* A pop in either direction.
LEMMA DequePopStep ==
  ASSUME Typed, kind = "deque", kind' = kind, NEW n, NEW p, Around(n, p),
         phase \in {"use", "destroy"}, phase' = phase,
         NEW dir \in {"front", "back"}, Deque!dqueuPop(dir), UNCHANGED <<s, queueVars, ringVars>>
  PROVE  Reaches(n, p)
<1>1. d' = d /\ next' = next
  BY DEF Deque!dqueuPop
<1>2. CASE link[dir][d] = d
  <2>1. out' = Nothing /\ link' = link /\ value' = value /\ live' = live
    BY <1>2 DEF Deque!dqueuPop, Deque!DQUEU_EMPTY, Deque!Nothing, Nothing
  <2> QED  BY <1>1, <1>2, <2>1, DequePopEmptyStep
<1>3. CASE link[dir][d] # d /\ dir = "front"
  <2>1. /\ out' = value[link["front"][d]] /\ live' = live \ {link["front"][d]} /\ value' = value
        /\ link' = LinksWithout(link, "front", "back", d, link["front"][link["front"][d]])
    BY <1>3 DEF Deque!dqueuPop, Deque!TakeOut, Deque!Opposite, LinksWithout
  <2> QED  BY <1>1, <1>3, <2>1, DequePopFrontStep
<1>4. CASE link[dir][d] # d /\ dir = "back"
  <2>1. /\ out' = value[link["back"][d]] /\ live' = live \ {link["back"][d]} /\ value' = value
        /\ link' = LinksWithout(link, "back", "front", d, link["back"][link["back"][d]])
    BY <1>4 DEF Deque!dqueuPop, Deque!TakeOut, Deque!Opposite, LinksWithout
  <2> QED  BY <1>1, <1>4, <2>1, DequePopBackStep
<1> QED  BY <1>2, <1>3, <1>4

\* Where there is no deque there are no nodes, and no values.
LEMMA NoDeque ==
  ASSUME Typed, kind = "deque", NEW n, NEW p, Line(n, p), phase \notin {"use", "destroy"}
  PROVE  n = 0 /\ live = {} /\ ValuesOf(n, p) = <<>>
<1>1. live = {} /\ Listed(n, p, live)
  BY DEF Line, DequeLine
<1>2. n = 0
  <2>1. n # 0 => 1 \in 1 .. n /\ p[1] \in live
    BY <1>1 DEF Listed
  <2> QED  BY <1>1, <2>1
<1> QED  BY <1>1, <1>2, NoValues

\* The deque is created: its head alone is a ring.
LEMMA DequeCreateStep ==
  ASSUME Typed, kind = "deque", kind' = kind, NEW n, NEW p, Line(n, p),
         Deque!createDqueu, UNCHANGED <<s, queueVars, ringVars>>
  PROVE  Reaches(n, p)
<1>1. PICK h \in Nodes :
        /\ d' = h /\ live' = {h}
        /\ link' = [dir \in {"front", "back"} |-> [link[dir] EXCEPT ![h] = h]]
        /\ phase = "none" /\ phase' = "use" /\ next' = next /\ value' = value /\ out' = out
  BY Zenon DEF Deque!createDqueu, Deque!Directions
<1>2. n = 0 /\ ValuesOf(n, p) = <<>>
  BY <1>1, NoDeque
<1>3. Typed'
  <2>1. link' \in [{"front", "back"} -> [Nodes -> Nodes \cup {Garbage}]]
    BY <1>1 DEF Typed
  <2> QED  BY <1>1, <2>1 DEF Typed, queueVars, ringVars
<1>4. link'["front"][h] = h /\ link'["back"][h] = h
  BY <1>1 DEF Typed
<1>5. Around(0, <<>>)'
  <2>1. Circle(0, <<>>, h, {h}, link'["front"], link'["back"])
    BY <1>4 DEF Circle, Node
  <2>2. Listed(0, <<>>, {h} \ {h})'
    BY DEF Listed
  <2>3. PICK F, B : F = link'["front"] /\ B = link'["back"]
    OBVIOUS
  <2> QED  BY <1>1, <2>1, <2>2, <2>3, AroundThen
<1>6. Line(0, <<>>)'
  BY <1>1, <1>5 DEF Line, DequeLine
<1>7. ValuesOf(0, <<>>)' = <<>>
  BY NoValues
<1>8. Changes(ValuesOf(n, p), ValuesOf(0, <<>>)')
  BY <1>1, <1>2, <1>7 DEF Changes
<1> QED  BY <1>3, <1>6, <1>8 DEF Reaches

\* The head is freed when no value is left.
LEMMA DequeGoneStep ==
  ASSUME Typed, kind = "deque", kind' = kind, NEW n, NEW p, Around(n, p),
         link["front"][d] = d, live' = live \ {d}, phase' = "gone",
         UNCHANGED <<d, link, next, value, out, s, queueVars, ringVars>>
  PROVE  Reaches(n, p)
<1>1. n = 0 /\ live \ {d} = {}
  <2>1. /\ n \in Nat /\ \A k \in 1 .. n : At(n, p, k) = p[k] /\ p[k] # d
        /\ link["front"][d] = At(n, p, 1)
    BY AroundAt
  <2>2. n # 0 => 1 \in 1 .. n
    BY <2>1
  <2>3. n = 0
    BY <2>1, <2>2
  <2> QED  BY <2>3 DEF Around, Listed
<1>2. Typed'
  BY DEF Typed, queueVars, ringVars
<1>3. Listed(n, p, live)'
  BY DEF Around, Listed
<1>4. Line(n, p)'
  BY <1>1, <1>3 DEF Line, DequeLine
<1>5. ValuesOf(n, p)' = ValuesOf(n, p)
  BY DEF ValuesOf
<1>6. Changes(ValuesOf(n, p), ValuesOf(n, p)')
  BY <1>5 DEF Changes
<1> QED  BY <1>2, <1>4, <1>6 DEF Reaches

\* Every step of the deque.
LEMMA DequeSteps ==
  ASSUME Typed, NEW n, NEW p, Line(n, p), DequeStep
  PROVE  Reaches(n, p)
<1>0. kind = "deque" /\ kind' = kind /\ UNCHANGED <<s, queueVars, ringVars>>
  BY DEF DequeStep
<1>1. phase \in {"use", "destroy"} => Around(n, p)
  BY <1>0 DEF Line, DequeLine
<1>2. Deque!createDqueu \/ Deque!Use \/ Deque!DestroyCall \/ Deque!destroyDqueu
  BY DEF DequeStep, Deque!Next
<1>3. CASE Deque!createDqueu
  BY <1>0, <1>3, DequeCreateStep
<1>4. CASE Deque!Use
  <2>1. phase = "use" /\ phase' = phase /\ Around(n, p)
    BY <1>1, <1>4 DEF Deque!Use
  <2>2. PICK dir \in {"front", "back"} :
          Deque!dqueuPop(dir) \/ \E v \in Values : Deque!dqueuPush(dir, v)
    BY <1>4, Zenon DEF Deque!Use, Deque!Directions
  <2>3. CASE Deque!dqueuPop(dir)
    BY <1>0, <2>1, <2>3, DequePopStep
  <2>4. ASSUME NEW v \in Values, Deque!dqueuPush(dir, v)
        PROVE  Reaches(n, p)
    <3>1. CASE dir = "front"
      BY <1>0, <2>1, <2>4, <3>1, DequePushFrontStep
    <3>2. CASE dir = "back"
      BY <1>0, <2>1, <2>4, <3>2, DequePushBackStep
    <3> QED  BY <3>1, <3>2
  <2> QED  BY <2>2, <2>3, <2>4
<1>5. CASE Deque!DestroyCall
  <2>1. phase = "use" /\ phase' = "destroy" /\ UNCHANGED <<d, link, heapVars>>
    BY <1>5, Zenon DEF Deque!DestroyCall, Deque!heapVars, heapVars
  <2>2. Typed'
    BY <1>0, <2>1 DEF Typed, queueVars, ringVars, heapVars
  <2>3. Around(n, p)'
    BY <1>1, <2>1 DEF Around, Listed, At, heapVars
  <2>4. Line(n, p)'
    BY <1>0, <2>1, <2>3 DEF Line, DequeLine
  <2>5. Changes(ValuesOf(n, p), ValuesOf(n, p)')
    BY <1>0, <2>1, NothingMoves
  <2> QED  BY <1>0, <2>2, <2>4, <2>5 DEF Reaches
<1>6. CASE Deque!destroyDqueu
  <2>1. /\ phase = "destroy" /\ Around(n, p)
        /\ \/ Deque!dqueuPop("front") /\ phase' = phase
           \/ /\ link["front"][d] = d /\ live' = live \ {d} /\ phase' = "gone"
              /\ UNCHANGED <<d, link, next, value, out>>
    BY <1>1, <1>6 DEF Deque!destroyDqueu, Deque!dqueuIsEmpty
  <2>2. CASE Deque!dqueuPop("front") /\ phase' = phase
    <3>1. "front" \in {"front", "back"}
      OBVIOUS
    <3> QED  BY <1>0, <2>1, <2>2, <3>1, DequePopStep
  <2>3. CASE /\ link["front"][d] = d /\ live' = live \ {d} /\ phase' = "gone"
             /\ UNCHANGED <<d, link, next, value, out>>
    BY <1>0, <2>1, <2>3, DequeGoneStep
  <2> QED  BY <2>1, <2>2, <2>3
<1> QED  BY <1>2, <1>3, <1>4, <1>5, <1>6

-----------------------------------------------------------------------------
(* The theorems *)

\* Each container starts without nodes.
LEMMA Starts ==
  ASSUME Init
  PROVE  Typed /\ Line(0, <<>>) /\ out = Nothing
<1>1. /\ kind \in Kinds
      /\ next = [x \in Nodes |-> Garbage] /\ value = [x \in Nodes |-> Garbage]
      /\ live = {} /\ out = Nothing
      /\ s = Null /\ q = "use" /\ head = Null /\ tail = Null /\ front = Null /\ rear = Null
      /\ d = Null /\ phase = "none"
      /\ link = [dir \in {"front", "back"} |-> [x \in Nodes |-> Garbage]]
  BY DEF Init, Stack!Init, Queue!Init, Ring!Init, Deque!Init, Queue!createQueue,
         Stack!HeapInit, Stack!Nothing, Deque!Directions, Nothing
<1>2. Typed
  BY <1>1 DEF Typed
<1>3. Listed(0, <<>>, live) /\ Linked(0, <<>>)
  BY <1>1 DEF Listed, Linked
<1>4. Line(0, <<>>)
  BY <1>1, <1>3 DEF Line, StackLine, QueueLine, RingLine, DequeLine, FirstOf, LastOf
<1> QED  BY <1>1, <1>2, <1>4

\* Every step goes from line to line, and moves one value at most.
LEMMA Steps ==
  ASSUME Typed, NEW n, NEW p, Line(n, p), [Next]_vars
  PROVE  Reaches(n, p) \/ UNCHANGED vars
BY StackSteps, QueueSteps, RingSteps, DequeSteps DEF Next

\* What leaves everything alone keeps the line.
LEMMA Stutters ==
  ASSUME Typed, NEW n, NEW p, Line(n, p), UNCHANGED vars
  PROVE  Reaches(n, p)
<1>1. UNCHANGED <<kind, s, q, head, tail, front, rear, d, link, phase, next, value, live, out>>
  BY DEF vars, queueVars, ringVars, dequeVars, heapVars
<1>2. Typed'
  BY <1>1 DEF Typed
<1>3. Line(n, p)'
  BY <1>1 DEF Line, StackLine, QueueLine, RingLine, DequeLine, Around, At, Listed, Linked
<1>4. ValuesOf(n, p)' = ValuesOf(n, p)
  BY <1>1 DEF ValuesOf
<1> QED  BY <1>1, <1>2, <1>3, <1>4 DEF Reaches, Changes

\* The nodes of a line are nodes of the heap.
LEMMA LineNodes ==
  ASSUME Typed, NEW n, NEW p, Line(n, p)
  PROVE  n \in Nat /\ p \in [1 .. n -> Nodes]
<1>1. n \in Nat /\ p \in [1 .. n -> live]
  BY DEF Line, StackLine, QueueLine, RingLine, DequeLine, Around, Listed, Typed, Kinds
<1> QED  BY <1>1 DEF Typed

\* So are those of the line after a step.
LEMMA LineNodesThen ==
  ASSUME NEW n, NEW p
  PROVE  Typed' /\ Line(n, p)' => n \in Nat /\ p \in [1 .. n -> Nodes]
<1> DEFINE A == Typed /\ Line(n, p)
           B == n \in Nat /\ p \in [1 .. n -> Nodes]
<1>1. A => B
  BY LineNodes
<1> HIDE DEF A, B
<1>2. A' => B'
  BY <1>1, PTL
<1> QED  BY <1>2 DEF A, B

\* From line to line the invariant goes on.
LEMMA ReachesHolds ==
  ASSUME NEW n, NEW p, Reaches(n, p)
  PROVE  IInv'
<1>1. PICK m, r : Typed' /\ Line(m, r)'
  BY DEF Reaches
<1>2. m \in Nat /\ r \in [1 .. m -> Nodes]
  BY <1>1, LineNodesThen
<1> QED  BY <1>1, <1>2 DEF IInv

\* After a step, too, the contents are the values of the line.
LEMMA ContentsThen ==
  ASSUME NEW n, NEW p
  PROVE  Typed' /\ Line(n, p)' => Contents' = ValuesOf(n, p)'
<1> DEFINE A == Typed /\ Line(n, p)
           B == Contents = ValuesOf(n, p)
<1>1. A => B
  BY LineContents
<1> HIDE DEF A, B
<1>2. A' => B'
  BY <1>1, PTL
<1> QED  BY <1>2 DEF A, B

\* The nodes on the heap are always one line of the container.
THEOREM LineInvariant == Spec => []IInv
<1>1. Init => IInv
  <2> SUFFICES ASSUME Init PROVE IInv
    OBVIOUS
  <2>1. Typed /\ Line(0, <<>>)
    BY Starts
  <2>2. 0 \in Nat /\ <<>> \in [1 .. 0 -> Nodes]
    OBVIOUS
  <2> QED  BY <2>1, <2>2, Zenon DEF IInv
<1>2. IInv /\ [Next]_vars => IInv'
  BY Steps, Stutters, ReachesHolds DEF IInv
<1> QED  BY <1>1, <1>2, PTL DEF Spec

\* The pointers of every container point to nodes or are null, and what was
\* taken out is a value.
THEOREM ContainersTyped == Spec => []TypeOK
<1>1. IInv => TypeOK
  BY TypedIs DEF IInv
<1> QED  BY <1>1, LineInvariant, PTL

\* No container loses a node, reaches a freed one or is left open, in any
\* order of pushes and pops and however often it runs empty.
THEOREM ContainersIntact == Spec => []NodesIntact
<1>1. IInv => NodesIntact
  BY LineIntact DEF IInv
<1> QED  BY <1>1, LineInvariant, PTL

\* A step along the lines is one of the abstract sequence.
LEMMA ReachesRefines ==
  ASSUME Typed, NEW n, NEW p, Line(n, p), Reaches(n, p)
  PROVE  [Abstract!Next]_(Abstract!seqVars)
<1>1. PICK m, r : Typed' /\ Line(m, r)' /\ Changes(ValuesOf(n, p), ValuesOf(m, r)')
  BY DEF Reaches
<1>2. Contents = ValuesOf(n, p) /\ Contents' = ValuesOf(m, r)'
  BY <1>1, LineContents, ContentsThen
<1>3. EndsOf' = EndsOf
  BY DEF Reaches, EndsOf
<1>4. Changes(Contents, Contents')
  BY <1>1, <1>2
<1>5. CASE Contents' = Contents /\ out' = out
  BY <1>3, <1>5 DEF Abstract!seqVars
<1>6. CASE Contents = <<>> /\ Contents' = Contents /\ out' = Nothing
  BY <1>3, <1>6 DEF Abstract!Next, Abstract!PopEmpty
<1>7. ASSUME NEW end \in EndsOf.push, NEW v \in Values, Pushed(Contents, Contents', v, end)
      PROVE  Abstract!Next
  <2>1. end \in Abstract!Ends
    BY EndsAre DEF Typed, Kinds, Abstract!Ends
  <2>2. Abstract!Push(end, v)
    BY <1>3, <1>7 DEF Pushed, InFront, InBack, Abstract!Push
  <2> QED  BY <2>1, <2>2 DEF Abstract!Next
<1>8. ASSUME NEW end \in EndsOf.pop, Popped(Contents, Contents', end)
      PROVE  Abstract!Next
  <2>1. end \in Abstract!Ends /\ (end # "front" => end = "back")
    BY EndsAre DEF Typed, Kinds, Abstract!Ends
  <2>2. Abstract!Pop(end)
    BY <1>3, <1>8, <2>1 DEF Popped, LessFirst, LessLast, Abstract!Pop
  <2> QED  BY <2>1, <2>2 DEF Abstract!Next
<1> QED  BY <1>4, <1>5, <1>6, <1>7, <1>8 DEF Changes

\* Each container is the sequence it is named for: the stack gives back last
\* what was pushed first, the queues first, and the deque what is at the end
\* asked for, and a pop that finds nothing changes nothing.
THEOREM ContainersImplement == Spec => ImplementsSequence
<1>1. Init => Abstract!Init
  <2> SUFFICES ASSUME Init PROVE Abstract!Init
    OBVIOUS
  <2>1. Typed /\ Line(0, <<>>) /\ out = Nothing
    BY Starts
  <2>2. Contents = <<>>
    BY <2>1, LineContents, NoValues
  <2>3. EndsOf \in [push : SUBSET Abstract!Ends, pop : SUBSET Abstract!Ends]
    BY <2>1, EndsAre DEF Typed, Kinds, Abstract!Ends
  <2> QED  BY <2>1, <2>2, <2>3 DEF Abstract!Init
<1>2. IInv /\ [Next]_vars => [Abstract!Next]_(Abstract!seqVars)
  BY Steps, Stutters, ReachesRefines DEF IInv
<1> QED  BY <1>1, <1>2, LineInvariant, PTL DEF Spec, ImplementsSequence, Abstract!Spec
=============================================================================

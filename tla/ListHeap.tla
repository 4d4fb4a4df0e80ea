------------------------------ MODULE ListHeap ------------------------------
(***************************************************************************)
(* What the linked containers of src/other/dsa share: nodes (struct elt)   *)
(* with a value and a next pointer, taken from malloc and given back with  *)
(* free.  A freed node keeps its contents until malloc hands it out again. *)
(***************************************************************************)
EXTENDS Naturals, FiniteSets

CONSTANTS
  Nodes,     \* addresses malloc may return for a struct elt
  Values,    \* values that are stored
  Null,      \* the null pointer
  Garbage    \* contents of memory that was never written

HeapAssumption ==
  /\ IsFiniteSet(Nodes)
  /\ Null \notin Nodes
  /\ Garbage \notin Nodes \cup Values \cup {Null}

ASSUME HeapAssumption

VARIABLES
  next, value,   \* the members of each node
  live,          \* nodes malloc returned and free has not taken back
  out            \* history: the last value that was taken out

heapVars == <<next, value, live, out>>

Nothing == "nothing"    \* no value was taken out

HeapTypeOK ==
  /\ next \in [Nodes -> Nodes \cup {Null, Garbage}]
  /\ value \in [Nodes -> Values \cup {Garbage}]
  /\ live \subseteq Nodes
  /\ out \in Values \cup {Nothing}

HeapInit ==
  /\ next = [n \in Nodes |-> Garbage]
  /\ value = [n \in Nodes |-> Garbage]
  /\ live = {}
  /\ out = Nothing

\* Variant: the value is not stored.
NewBlankNode(e, v) ==
  /\ e \notin live
  /\ live' = live \cup {e}
  /\ value' = value

\* e is a new node with the value v.
NewNode(e, v) ==
  /\ e \notin live
  /\ live' = live \cup {e}
  /\ value' = [value EXCEPT ![e] = v]

\* The value of e is taken out, and e is freed.
TakeOut(e) ==
  /\ out' = value[e]
  /\ live' = live \ {e}
  /\ UNCHANGED value

\* The nodes met on the way from a pointer: the k-th one, or Null.
Walk(first) ==
  LET at[k \in 0 .. Cardinality(Nodes)] ==
        IF k = 0 THEN first
        ELSE IF at[k - 1] \in Nodes THEN next[at[k - 1]] ELSE Null
  IN  at

Met(first) == {Walk(first)[k] : k \in 0 .. Cardinality(Nodes)} \ {Null}

\* The values on the way from a pointer, one for each allocated node.
ValuesFrom(first) ==
  [k \in 1 .. Cardinality(live) |-> value[Walk(first)[k - 1]]]
=============================================================================

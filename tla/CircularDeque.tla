--------------------------- MODULE CircularDeque ---------------------------
(***************************************************************************)
(* The deque of src/other/dsa/cir_dqueu_ll.c: a ring of nodes linked in    *)
(* both directions, with the head, which has no value, between the front   *)
(* and the back.  Pushing and popping at one end is the mirror image of    *)
(* the other: the code indexes the two pointers of a node by a direction.  *)
(***************************************************************************)
EXTENDS ListHeap

VARIABLES
  d,        \* the head
  link,     \* the array next of each node, by direction
  phase     \* not created yet, in use, in destroyDqueu, or gone

Directions  == {"front", "back"}      \* DQUEU_FRONT, DQUEU_BACK
DQUEU_EMPTY == Nothing

Opposite(dir) == IF dir = "front" THEN "back" ELSE "front"

Init ==
  /\ HeapInit
  /\ d = Null
  /\ link = [dir \in Directions |-> [n \in Nodes |-> Garbage]]
  /\ phase = "none"

\* The head is linked to itself.
createDqueu ==
  /\ phase = "none"
  /\ phase' = "use"
  /\ \E head \in Nodes :
       /\ d' = head
       /\ live' = {head}
       /\ link' = [dir \in Directions |-> [link[dir] EXCEPT ![head] = head]]
  /\ UNCHANGED <<next, value, out>>

\* Variant: the old end is not linked back to the new node.
dqueuPushOneWay(dir, v) ==
  \E e \in Nodes :
    /\ NewNode(e, v)
    /\ link' = [link EXCEPT ![dir][e] = link[dir][d],
                            ![Opposite(dir)][e] = d,
                            ![dir][d] = e]
    /\ UNCHANGED <<d, next, out>>

\* The new node takes its place between the head and the old end.
dqueuPush(dir, v) ==
  \E e \in Nodes :
    LET old == link[dir][d]
    IN  /\ NewNode(e, v)
        /\ link' = [link EXCEPT ![dir][e] = old,
                                ![Opposite(dir)][e] = d,
                                ![dir][d] = e,
                                ![Opposite(dir)][old] = e]
        /\ UNCHANGED <<d, next, out>>

dqueuPop(dir) ==
  LET e == link[dir][d]
  IN  /\ \/ /\ e = d
            /\ out' = DQUEU_EMPTY
            /\ UNCHANGED <<link, value, live>>
         \/ /\ e # d
            /\ link' = [link EXCEPT ![dir][d] = link[dir][e],
                                    ![Opposite(dir)][link[dir][e]] = d]
            /\ TakeOut(e)
      /\ UNCHANGED <<d, next>>

\* Variant: a deque of one value counts as empty.
dqueuEndsMeet == link["front"][d] = link["back"][d]

dqueuIsEmpty == link["front"][d] = d

\* destroyDqueu pops from the front until the deque is empty, and then frees
\* the head.
destroyDqueu ==
  /\ phase = "destroy"
  /\ \/ ~ dqueuIsEmpty /\ dqueuPop("front") /\ UNCHANGED phase
     \/ /\ dqueuIsEmpty
        /\ live' = live \ {d}
        /\ phase' = "gone"
        /\ UNCHANGED <<d, link, next, value, out>>

Use ==
  /\ phase = "use"
  /\ \E dir \in Directions : dqueuPop(dir) \/ \E v \in Values : dqueuPush(dir, v)
  /\ UNCHANGED phase

DestroyCall ==
  /\ phase = "use"
  /\ phase' = "destroy"
  /\ UNCHANGED <<d, link, heapVars>>

Next == createDqueu \/ Use \/ DestroyCall \/ destroyDqueu

-----------------------------------------------------------------------------
TypeOK ==
  /\ HeapTypeOK
  /\ d \in Nodes \cup {Null}
  /\ link \in [Directions -> [Nodes -> Nodes \cup {Garbage}]]
  /\ phase \in {"none", "use", "destroy", "gone"}

\* The k-th node from the front; the walk stops where it is back at the head.
FromFront ==
  LET at[k \in 0 .. Cardinality(Nodes)] ==
        IF k = 0 THEN link["front"][d]
        ELSE IF at[k - 1] = d THEN d ELSE link["front"][at[k - 1]]
  IN  at

\* The ring holds the head and every allocated node, no freed one, and reads
\* the same in both directions, whichever ends were pushed and popped and
\* however often the deque ran empty (cir_dqueu_ll.c:31-65).
RingIntact ==
  phase \in {"use", "destroy"} =>
    /\ {FromFront[k] : k \in DOMAIN FromFront} = live
    /\ \A dir \in Directions, n \in live :
         link[dir][n] \in live /\ link[Opposite(dir)][link[dir][n]] = n

\* The values from the front to the back.
Contents == [k \in 1 .. Cardinality(live) - 1 |-> value[FromFront[k - 1]]]

\* Destroying a deque ends, whatever is in it, and gives back every node
\* (cir_dqueu_ll.c:73-82).
DestroyFreesAll == (phase = "destroy") ~> (phase = "gone" /\ live = {})
=============================================================================

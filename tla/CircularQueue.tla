--------------------------- MODULE CircularQueue ---------------------------
(***************************************************************************)
(* The queue of src/other/dsa/cir_q_ll.c: a ring of nodes, with the struct *)
(* queue pointing to the front and to the rear, whose next is the front.   *)
(* The file has no constructor: its user starts from two null pointers.    *)
(***************************************************************************)
EXTENDS ListHeap

VARIABLES front, rear   \* the struct queue

Init == HeapInit /\ front = Null /\ rear = Null

\* The ring is closed last, also when the node is alone in it.
enq(v) ==
  \E e \in Nodes :
    /\ NewNode(e, v)
    /\ front' = IF front = Null THEN e ELSE front
    /\ rear' = e
    /\ LET linked == IF front = Null THEN next ELSE [next EXCEPT ![rear] = e]
       IN  next' = [linked EXCEPT ![e] = front']
    /\ UNCHANGED out

deq ==
  \/ /\ front = Null
     /\ out' = Nothing
     /\ UNCHANGED <<front, rear, next, value, live>>
  \/ /\ front # Null /\ front = rear
     /\ TakeOut(front)
     /\ front' = Null
     /\ rear' = Null
     /\ UNCHANGED next
  \/ /\ front # Null /\ front # rear
     /\ TakeOut(front)
     /\ front' = next[front]
     /\ next' = [next EXCEPT ![rear] = front']
     /\ UNCHANGED rear

Next == deq \/ \E v \in Values : enq(v)

-----------------------------------------------------------------------------
TypeOK == HeapTypeOK /\ {front, rear} \subseteq Nodes \cup {Null}

\* Going round from the front meets every allocated node, no freed one and
\* no uninitialised pointer, and reaches the rear last; both ends are null
\* together (cir_q_ll.c:18-61).
RingIntact ==
  /\ Met(front) = live
  /\ front = Null <=> rear = Null
  /\ front # Null => /\ next[rear] = front
                     /\ Walk(front)[Cardinality(live) - 1] = rear
=============================================================================

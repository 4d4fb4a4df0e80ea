---------------------------- MODULE LinkedQueue ----------------------------
(***************************************************************************)
(* The queue of src/other/dsa/queue_ll.c: nodes linked from head to tail.  *)
(* deq leaves tail alone, so that after the last node was freed tail still *)
(* points to it.  deq must not be called on an empty queue; the callers in *)
(* the file ask queueEmpty first, and so does the one modelled here.       *)
(***************************************************************************)
EXTENDS ListHeap

VARIABLES
  q,            \* the struct queue is in use, in queueDestroy, or gone
  head, tail    \* its members

createQueue == q = "use" /\ head = Null /\ tail = Null

Init == HeapInit /\ createQueue

queueEmpty == head = Null

enq(v) ==
  \E e \in Nodes :
    /\ NewNode(e, v)
    /\ LET ended == [next EXCEPT ![e] = Null]
       IN  \/ head = Null /\ head' = e /\ next' = ended
           \/ head # Null /\ head' = head /\ next' = [ended EXCEPT ![tail] = e]
    /\ tail' = e
    /\ UNCHANGED out

deq ==
  /\ TakeOut(head)
  /\ head' = next[head]
  /\ UNCHANGED <<tail, next>>

Use ==
  /\ q = "use"
  /\ \/ \E v \in Values : enq(v)
     \/ ~ queueEmpty /\ deq
  /\ UNCHANGED q

DestroyCall ==
  /\ q = "use"
  /\ q' = "destroy"
  /\ UNCHANGED <<head, tail, heapVars>>

\* The loop of queueDestroy, and free of the struct queue.
queueDestroy ==
  /\ q = "destroy"
  /\ \/ ~ queueEmpty /\ deq /\ UNCHANGED q
     \/ queueEmpty /\ q' = "gone" /\ UNCHANGED <<head, tail, heapVars>>

Next == Use \/ DestroyCall \/ queueDestroy

-----------------------------------------------------------------------------
TypeOK ==
  /\ HeapTypeOK
  /\ q \in {"use", "destroy", "gone"}
  /\ {head, tail} \subseteq Nodes \cup {Null}

\* The chain from the head is exactly the allocated nodes; tail is its last
\* node whenever enq would follow it, although it dangles while the queue is
\* empty (queue_ll.c:23-59).
ChainIntact ==
  /\ Met(head) = live
  /\ head # Null => tail \in live /\ next[tail] = Null

\* Destroying a queue ends and gives back every node (queue_ll.c:72-79).
DestroyFreesAll == (q = "destroy") ~> (q = "gone" /\ live = {})
=============================================================================

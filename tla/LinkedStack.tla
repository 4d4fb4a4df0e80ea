---------------------------- MODULE LinkedStack ----------------------------
(***************************************************************************)
(* The stack of src/other/dsa/stack_ll.c: nodes linked from the top down.  *)
(* stackPop must not be called on an empty stack; main asks stackEmpty     *)
(* first, and so does the caller modelled here.                            *)
(***************************************************************************)
EXTENDS ListHeap

VARIABLE s   \* the top

Init == HeapInit /\ s = Null

stackPush(v) ==
  \E e \in Nodes :
    /\ NewNode(e, v)
    /\ next' = [next EXCEPT ![e] = s]
    /\ s' = e
    /\ UNCHANGED out

stackEmpty == s = Null

\* Variant: the top stays where it was.
stackPopInPlace == TakeOut(s) /\ UNCHANGED <<s, next>>

stackPop ==
  /\ TakeOut(s)
  /\ s' = next[s]
  /\ UNCHANGED next

Next ==
  \/ \E v \in Values : stackPush(v)
  \/ ~ stackEmpty /\ stackPop

-----------------------------------------------------------------------------
TypeOK == HeapTypeOK /\ s \in Nodes \cup {Null}

\* The chain from the top is exactly the allocated nodes and ends in null:
\* nothing is lost and nothing freed is reached (stack_ll.c:13-46).
ChainIntact == Met(s) = live
=============================================================================

----------------------------- MODULE Containers -----------------------------
(***************************************************************************)
(* The linked containers of src/other/dsa, each in a program of its own: a *)
(* behaviour is one of the stack, the queue, the circular queue or the     *)
(* deque on a heap of its own, and all of them implement ValueSequence.    *)
(***************************************************************************)
EXTENDS ListHeap

VARIABLES
  kind,            \* the container of this program
  s,               \* of stack_ll.c
  q, head, tail,   \* of queue_ll.c
  front, rear,     \* of cir_q_ll.c
  d, link, phase   \* of cir_dqueu_ll.c

queueVars == <<q, head, tail>>
ringVars  == <<front, rear>>
dequeVars == <<d, link, phase>>
vars == <<kind, s, queueVars, ringVars, dequeVars, heapVars>>

Kinds == {"stack", "queue", "ring", "deque"}

Stack == INSTANCE LinkedStack
Queue == INSTANCE LinkedQueue
Ring  == INSTANCE CircularQueue
Deque == INSTANCE CircularDeque

Init == kind \in Kinds /\ Stack!Init /\ Queue!Init /\ Ring!Init /\ Deque!Init

StackStep ==
  kind = "stack" /\ Stack!Next /\ UNCHANGED <<kind, queueVars, ringVars, dequeVars>>

QueueStep ==
  kind = "queue" /\ Queue!Next /\ UNCHANGED <<kind, s, ringVars, dequeVars>>

RingStep ==
  kind = "ring" /\ Ring!Next /\ UNCHANGED <<kind, s, queueVars, dequeVars>>

DequeStep ==
  kind = "deque" /\ Deque!Next /\ UNCHANGED <<kind, s, queueVars, ringVars>>

Next == StackStep \/ QueueStep \/ RingStep \/ DequeStep

\* queueDestroy and destroyDqueu run to their ends once they are called.
Spec ==
  /\ Init /\ [][Next]_vars
  /\ WF_vars(QueueStep /\ Queue!queueDestroy)
  /\ WF_vars(DequeStep /\ Deque!destroyDqueu)

-----------------------------------------------------------------------------
TypeOK == /\ kind \in Kinds
          /\ Stack!TypeOK
          /\ Queue!TypeOK
          /\ Ring!TypeOK
          /\ Deque!TypeOK

\* No container loses a node, reaches a freed one or is left open, in any
\* order of pushes and pops and however often it runs empty (stack_ll.c:12-42,
\* queue_ll.c:23-59, cir_q_ll.c:17-60, cir_dqueu_ll.c:31-65).
NodesIntact ==
  /\ kind = "stack" => Stack!ChainIntact
  /\ kind = "queue" => Queue!ChainIntact
  /\ kind = "ring"  => Ring!RingIntact
  /\ kind = "deque" => Deque!RingIntact

Contents ==
  CASE kind = "stack" -> ValuesFrom(s)
    [] kind = "queue" -> ValuesFrom(head)
    [] kind = "ring"  -> ValuesFrom(front)
    [] kind = "deque" -> Deque!Contents

\* The stack is last-in first-out, the queues are first-in first-out, and the
\* deque can be both at either end.
EndsOf ==
  [push |-> CASE kind = "stack" -> {"front"}
              [] kind = "deque" -> {"front", "back"}
              [] OTHER          -> {"back"},
   pop  |-> IF kind = "deque" THEN {"front", "back"} ELSE {"front"}]

Abstract == INSTANCE ValueSequence
              WITH items <- Contents, Empty <- Nothing, ends <- EndsOf

\* Every container gives its values back in the order it is named for.
ImplementsSequence == Abstract!Spec

\* Destroying a queue or a deque ends and gives back every node
\* (queue_ll.c:72-79, cir_dqueu_ll.c:73-82).
DestroyFreesAll == Queue!DestroyFreesAll /\ Deque!DestroyFreesAll
=============================================================================

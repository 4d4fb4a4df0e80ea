--------------------------- MODULE ValueSequence ---------------------------
(***************************************************************************)
(* What the containers of src/other/dsa promise: a sequence of values that *)
(* grows and shrinks at its ends, and a pop that returns what it removed.  *)
(***************************************************************************)
EXTENDS Naturals, Sequences

CONSTANTS
  Values,      \* values that are stored
  Empty        \* what a pop of an empty container returns

VARIABLES
  items,       \* the values in the container, front first
  out,         \* the last result of a pop
  ends         \* the ends it is pushed at and popped from, which never change

seqVars == <<items, out, ends>>

Ends == {"front", "back"}

Init ==
  /\ items = <<>>
  /\ out = Empty
  /\ ends \in [push : SUBSET Ends, pop : SUBSET Ends]

Push(end, v) ==
  /\ end \in ends.push
  /\ items' = IF end = "front" THEN <<v>> \o items ELSE Append(items, v)
  /\ UNCHANGED <<out, ends>>

Pop(end) ==
  /\ end \in ends.pop
  /\ items # <<>>
  /\ \/ /\ end = "front"
        /\ items' = Tail(items)
        /\ out' = Head(items)
     \/ /\ end = "back"
        /\ items' = SubSeq(items, 1, Len(items) - 1)
        /\ out' = items[Len(items)]
  /\ UNCHANGED ends

PopEmpty ==
  /\ items = <<>>
  /\ out' = Empty
  /\ UNCHANGED <<items, ends>>

Next ==
  \/ \E end \in Ends : Pop(end) \/ \E v \in Values : Push(end, v)
  \/ PopEmpty

Spec == Init /\ [][Next]_seqVars
=============================================================================

------------------------------ MODULE ForkPipe ------------------------------
(***************************************************************************)
(* src/other/unix/fork_pipe.c: a process and its child each add up half of *)
(* an array into a variable that was never set, the child sends its sum    *)
(* through a pipe, and the parent adds the two.                            *)
(***************************************************************************)
EXTENDS Naturals, Sequences

CONSTANTS
  Width,    \* number of bits of an int
  NoSum     \* nothing printed yet

Halves == {"parent", "child"}

VARIABLES
  unset,    \* what the variable sum of each process held before
  sum,      \* and what it holds
  at,       \* the call each process is at
  pipe,     \* sums written and not read
  ends,     \* the ends of the pipe that each process has open
  full      \* the full sum, as printed

vars == <<unset, sum, at, pipe, ends, full>>

Words == 0..(2^Width - 1)
Wrap(n) == n % 2^Width

array == <<1, 2, 6, 7, 1, 2, 3, 6, 7, 1>>

Init ==
  /\ unset \in [Halves -> Words]
  /\ sum = unset
  /\ at = [parent |-> "fork", child |-> "none"]
  /\ pipe = <<>>
  /\ ends = [parent |-> {"read", "write"}, child |-> {}]
  /\ full = NoSum

Goto(p, call) == at' = [at EXCEPT ![p] = call]

Fork ==
  /\ at["parent"] = "fork"
  /\ \/ /\ at' = [parent |-> "sum", child |-> "sum"]
        /\ ends' = [ends EXCEPT !["child"] = ends["parent"]]
     \/ /\ Goto("parent", "gone")      \* fork failed
        /\ ends' = [ends EXCEPT !["parent"] = {}]
  /\ UNCHANGED <<unset, sum, pipe, full>>

\* Variant: the child stops one short of the middle.
SliceShort(p) ==
  LET arraySize == Len(array)
  IN  IF p = "child" THEN [start |-> 0, end |-> (arraySize \div 2) - 1]
      ELSE [start |-> arraySize \div 2, end |-> arraySize]

\* The half of the array from start up to end.
Slice(p) ==
  LET arraySize == Len(array)
  IN  IF p = "child" THEN [start |-> 0, end |-> arraySize \div 2]
      ELSE [start |-> arraySize \div 2, end |-> arraySize]

\* What the loop adds up.
Total(slice) ==
  LET total[i \in slice.start .. slice.end] ==
        IF i = slice.start THEN 0 ELSE total[i - 1] + array[i]
  IN  total[slice.end]

AddUp(p) ==
  /\ at[p] = "sum"
  /\ sum' = [sum EXCEPT ![p] = Wrap(@ + Total(Slice(p)))]
  /\ Goto(p, "close")
  /\ UNCHANGED <<unset, pipe, ends, full>>

\* Each closes the end it does not use.
CloseOther(p) ==
  /\ at[p] = "close"
  /\ ends' = [ends EXCEPT ![p] = @ \ {IF p = "child" THEN "read" ELSE "write"}]
  /\ Goto(p, IF p = "child" THEN "write" ELSE "read")
  /\ UNCHANGED <<unset, sum, pipe, full>>

\* write, close and the end, or the end by SIGPIPE.
WriteSum ==
  /\ at["child"] = "write"
  /\ pipe' = IF "read" \in ends["parent"] THEN Append(pipe, sum["child"]) ELSE pipe
  /\ ends' = [ends EXCEPT !["child"] = {}]
  /\ Goto("child", "gone")
  /\ UNCHANGED <<unset, sum, full>>

\* read, which waits as long as the child has the write end open: at the end
\* of the pipe it leaves recv as it was, which is never set.
ReadSum ==
  /\ at["parent"] = "read"
  /\ \E recv \in IF pipe # <<>> THEN {Head(pipe)}
                 ELSE IF "write" \notin ends["child"] THEN Words ELSE {} :
       full' = Wrap(recv + sum["parent"])
  /\ pipe' = <<>>
  /\ ends' = [ends EXCEPT !["parent"] = {}]
  /\ Goto("parent", "wait")
  /\ UNCHANGED <<unset, sum>>

Wait ==
  /\ at["parent"] = "wait" /\ at["child"] \in {"gone", "killed"}
  /\ Goto("parent", "gone")
  /\ UNCHANGED <<unset, sum, pipe, ends, full>>

Killed(p) ==
  /\ at[p] \notin {"none", "gone", "killed"}
  /\ Goto(p, "killed")
  /\ ends' = [ends EXCEPT ![p] = {}]
  /\ UNCHANGED <<unset, sum, pipe, full>>

Next == \/ Fork \/ WriteSum \/ ReadSum \/ Wait
        \/ \E p \in Halves : AddUp(p) \/ CloseOther(p) \/ Killed(p)

-----------------------------------------------------------------------------
TypeOK ==
  /\ {unset, sum} \subseteq [Halves -> Words]
  /\ at \in [Halves -> {"none", "fork", "sum", "close", "write", "read", "wait",
                        "killed", "gone"}]
  /\ pipe = <<>> \/ pipe \in [{1} -> Words]
  /\ ends \in [Halves -> SUBSET {"read", "write"}]
  /\ full \in Words \cup {NoSum}

\* What is printed is the sum of the whole array and of what the two variables
\* held before, in the machine's arithmetic, unless the child was killed
\* (fork_pipe.c:31-70).
FullSum ==
  full # NoSum /\ at["child"] # "killed"
    => full = Wrap(Total([start |-> 0, end |-> Len(array)]) + unset["parent"] + unset["child"])
=============================================================================

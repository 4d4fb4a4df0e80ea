---------------------------- MODULE SessionStore ----------------------------
(***************************************************************************)
(* What server.c of src/assignment expects of its session list: a map with *)
(* the descriptors as keys, that can be asked, added to and removed from.  *)
(***************************************************************************)
CONSTANTS
  Fds        \* the descriptors clients are connected on

VARIABLES
  store,     \* descriptors that have a session
  answer     \* the last search that was answered: [fd, found]

storeVars == <<store, answer>>

NoAnswer == [fd |-> 0, found |-> FALSE]

Init ==
  /\ store = {}
  /\ answer = NoAnswer

Find(i) ==
  /\ answer' = [fd |-> i, found |-> i \in store]
  /\ UNCHANGED store

\* Only a descriptor that was searched for, and not found, is added.
Add(i) ==
  /\ answer = [fd |-> i, found |-> FALSE]
  /\ store' = store \cup {i}
  /\ UNCHANGED answer

Remove(i) ==
  /\ store' = store \ {i}
  /\ UNCHANGED answer

Next == \E i \in Fds : Find(i) \/ Add(i) \/ Remove(i)

Spec == Init /\ [][Next]_storeVars
=============================================================================

--------------------------- MODULE ServerStoreLL ---------------------------
(***************************************************************************)
(* The session list of src/assignment as it lies on the heap               *)
(* (server_store_ll.c with ss_init of server.c): nodes linked by next, the *)
(* last one a sentinel whose data is never set.  ss_search and ss_delete   *)
(* walk it with the cursors temp and prev, one node per step.  The caller  *)
(* is the loop of server.c: it searches the descriptor a request came      *)
(* from, pushes a session when there is none and the id is a student's,    *)
(* and deletes the session of a descriptor that hung up.                   *)
(*                                                                         *)
(* A node's data is the fd of the session it points to: ss_search and      *)
(* ss_delete compare nothing else.  A freed node keeps its contents until  *)
(* malloc hands it out again.                                              *)
(***************************************************************************)
EXTENDS Naturals, FiniteSets

CONSTANTS
  Fds,       \* the descriptors clients are connected on
  Nodes,     \* addresses malloc may return for a struct SS_Node
  Null,      \* NULL
  Garbage    \* contents of memory that was never written

ServerStoreAssumption ==
  /\ Null \notin Nodes
  /\ Garbage \notin Fds
  /\ 0 \notin Fds
  /\ IsFiniteSet(Nodes)
  /\ Cardinality(Nodes) > Cardinality(Fds)

ASSUME ServerStoreAssumption

VARIABLES
  head,      \* serverStore of main
  data,      \* fd of the session each node points to
  next,      \* the next pointer of each node
  live,      \* nodes malloc returned and free has not taken back
  call,      \* the call in progress: idle, search, push or delete
  fd,        \* its argument
  temp,      \* the cursor of the loops
  prev,      \* the node before temp, in ss_delete
  answer     \* history: the last result of ss_search

listVars == <<head, data, next, live, call, fd, temp, prev, answer>>

\* Variant: ss_init leaves the sentinel's next unset.
InitUnended ==
  \E sentinel \in Nodes :
    /\ head = sentinel
    /\ live = {sentinel}
    /\ data = [n \in Nodes |-> Garbage]
    /\ next = [n \in Nodes |-> Garbage]
    /\ call = "idle"
    /\ fd = 0
    /\ temp = Null
    /\ prev = Null
    /\ answer = [fd |-> 0, found |-> FALSE]

Init ==
  \E sentinel \in Nodes :
    /\ head = sentinel
    /\ live = {sentinel}
    /\ data = [n \in Nodes |-> Garbage]
    /\ next = [n \in Nodes |-> IF n = sentinel THEN Null ELSE Garbage]
    /\ call = "idle"
    /\ fd = 0
    /\ temp = Null
    /\ prev = Null
    /\ answer = [fd |-> 0, found |-> FALSE]

\* The locals of the call are gone.
Return ==
  /\ call' = "idle"
  /\ fd' = 0
  /\ temp' = Null
  /\ prev' = Null

-----------------------------------------------------------------------------
(* ss_search, and what main does with its result *)

CallSearch(i) ==
  /\ call = "idle"
  /\ call' = "search"
  /\ fd' = i
  /\ temp' = head
  /\ UNCHANGED <<head, data, next, live, prev, answer>>

\* Variant: the loop does not move on.
SearchStuck ==
  /\ call = "search"
  /\ next[temp] # Null
  /\ data[temp] # fd
  /\ UNCHANGED listVars

SearchNext ==
  /\ call = "search"
  /\ next[temp] # Null
  /\ data[temp] # fd
  /\ temp' = next[temp]
  /\ UNCHANGED <<head, data, next, live, call, fd, prev, answer>>

SearchFound ==
  /\ call = "search"
  /\ next[temp] # Null
  /\ data[temp] = fd
  /\ answer' = [fd |-> fd, found |-> TRUE]
  /\ Return
  /\ UNCHANGED <<head, data, next, live>>

\* Variant: the walk stops a node too early.
SearchMissedShort ==
  /\ call = "search"
  /\ next[temp] # Null => next[next[temp]] = Null
  /\ answer' = [fd |-> fd, found |-> FALSE]
  /\ \/ /\ call' = "push"
        /\ UNCHANGED <<fd, temp, prev>>
     \/ Return
  /\ UNCHANGED <<head, data, next, live>>

\* The id of the request is a student's, or is not.
SearchMissed ==
  /\ call = "search"
  /\ next[temp] = Null
  /\ answer' = [fd |-> fd, found |-> FALSE]
  /\ \/ /\ call' = "push"
        /\ UNCHANGED <<fd, temp, prev>>
     \/ Return
  /\ UNCHANGED <<head, data, next, live>>

ss_push ==
  /\ call = "push"
  /\ \E e \in Nodes \ live :
       /\ live' = live \cup {e}
       /\ data' = [data EXCEPT ![e] = fd]
       /\ next' = [next EXCEPT ![e] = head]
       /\ head' = e
  /\ Return
  /\ UNCHANGED answer

-----------------------------------------------------------------------------
(* ss_delete *)

CallDelete(i) ==
  /\ call = "idle"
  /\ call' = "delete"
  /\ fd' = i
  /\ temp' = head
  /\ prev' = Null
  /\ UNCHANGED <<head, data, next, live, answer>>

\* Variant: prev is not brought along.
DeleteNextAlone ==
  /\ call = "delete"
  /\ next[temp] # Null
  /\ data[temp] # fd
  /\ temp' = next[temp]
  /\ UNCHANGED <<head, data, next, live, call, fd, prev, answer>>

DeleteNext ==
  /\ call = "delete"
  /\ next[temp] # Null
  /\ data[temp] # fd
  /\ prev' = temp
  /\ temp' = next[temp]
  /\ UNCHANGED <<head, data, next, live, call, fd, answer>>

DeleteHead ==
  /\ call = "delete"
  /\ next[temp] # Null
  /\ data[temp] = fd
  /\ prev = Null
  /\ head' = next[temp]
  /\ live' = live \ {temp}
  /\ Return
  /\ UNCHANGED <<data, next, answer>>

\* Variant: the node is freed but not unlinked.
DeleteLinked ==
  /\ call = "delete"
  /\ next[temp] # Null
  /\ data[temp] = fd
  /\ prev # Null
  /\ live' = live \ {temp}
  /\ Return
  /\ UNCHANGED <<head, data, next, answer>>

DeleteInner ==
  /\ call = "delete"
  /\ next[temp] # Null
  /\ data[temp] = fd
  /\ prev # Null
  /\ next' = [next EXCEPT ![prev] = next[temp]]
  /\ live' = live \ {temp}
  /\ Return
  /\ UNCHANGED <<head, data, answer>>

DeleteMissed ==
  /\ call = "delete"
  /\ next[temp] = Null
  /\ Return
  /\ UNCHANGED <<head, data, next, live, answer>>

-----------------------------------------------------------------------------
Loop ==
  \/ SearchNext
  \/ SearchFound
  \/ SearchMissed
  \/ ss_push
  \/ DeleteNext
  \/ DeleteHead
  \/ DeleteInner
  \/ DeleteMissed

Next ==
  \/ \E i \in Fds : CallSearch(i) \/ CallDelete(i)
  \/ Loop

\* A call that was made goes on; nothing makes the clients send or hang up.
Spec == Init /\ [][Next]_listVars

FairSpec == Spec /\ WF_listVars(Loop)

-----------------------------------------------------------------------------
TypeOK ==
  /\ head \in Nodes
  /\ data \in [Nodes -> Fds \cup {Garbage}]
  /\ next \in [Nodes -> Nodes \cup {Null, Garbage}]
  /\ live \subseteq Nodes
  /\ call \in {"idle", "search", "push", "delete"}
  /\ fd \in Fds \cup {0}
  /\ temp \in Nodes \cup {Null}
  /\ prev \in Nodes \cup {Null}
  /\ answer \in [fd : Fds \cup {0}, found : BOOLEAN]

\* The k-th node from the head, or Null beyond the end of the list.
NodeAt ==
  LET at[k \in 0 .. Cardinality(Nodes)] ==
        IF k = 0 THEN head
        ELSE IF at[k - 1] \in Nodes THEN next[at[k - 1]] ELSE Null
  IN  at

Linked == {NodeAt[k] : k \in DOMAIN NodeAt} \cap Nodes

Sentinel == {n \in Linked : next[n] = Null}

\* The walk from the head meets every allocated node once, no freed one, and
\* ends in the sentinel: nothing dangles, loops or leaks, wherever in the
\* list sessions were unlinked (server_store_ll.c:46-69).
ListIntact ==
  /\ Linked = live
  /\ Cardinality(Sentinel) = 1
  /\ \A n \in live \ Sentinel : next[n] \in live /\ data[n] \in Fds

\* A loop reads no freed node and never the sentinel's data, and what it has
\* behind it does not hold the descriptor it looks for.
CursorsSound ==
  call \in {"search", "delete"} =>
    /\ temp \in live
    /\ call = "delete" /\ prev # Null =>
         prev \in live /\ next[prev] = temp /\ data[prev] # fd
    /\ call = "delete" /\ prev = Null => temp = head

\* The list is the map the server takes it for.
Store == INSTANCE SessionStore
           WITH store <- {data[n] : n \in Linked \ Sentinel}

ImplementsStore == Store!Spec

\* Every walk ends: ss_search and ss_delete return.
CallsReturn == (call # "idle") ~> (call = "idle")
=============================================================================

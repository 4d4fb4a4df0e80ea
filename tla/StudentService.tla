--------------------------- MODULE StudentService ---------------------------
(***************************************************************************)
(* What the server of src/assignment promises its clients, without         *)
(* descriptors, sessions, messages or processes: a client that registers   *)
(* gets its record, and gets it once more for every "again" that follows   *)
(* a "thank_you".  Nobody gets the record of another, and what one client  *)
(* does changes nothing for the others, short of the end of the service.   *)
(***************************************************************************)
EXTENDS Sequences

CONSTANTS
  Clients,   \* the clients; each one registers at most once
  Ids        \* the students

VARIABLES
  phase,     \* where each client is in the protocol
  given      \* the records each client was given, in order

serviceVars == <<phase, given>>

Phases == {"out", "served", "thanked", "left"}

Init ==
  /\ phase = [c \in Clients |-> "out"]
  /\ given = [c \in Clients |-> <<>>]

Move(c, from, to) ==
  /\ phase[c] = from
  /\ phase' = [phase EXCEPT ![c] = to]

\* A client registers and gets its first record.
Register(c) ==
  /\ Move(c, "out", "served")
  /\ \E id \in Ids : given' = [given EXCEPT ![c] = <<id>>]

Thank(c) ==
  /\ Move(c, "served", "thanked")
  /\ UNCHANGED given

\* A thanked client asks again, and gets the record it got first.
Again(c) ==
  /\ Move(c, "thanked", "served")
  /\ given' = [given EXCEPT ![c] = Append(@, Head(@))]

Leave(c) ==
  /\ phase[c] # "left"
  /\ phase' = [phase EXCEPT ![c] = "left"]
  /\ UNCHANGED given

\* The service ends, for everyone at once.
Shutdown ==
  /\ phase' = [c \in Clients |-> "left"]
  /\ UNCHANGED given

Next ==
  \/ \E c \in Clients : Register(c) \/ Thank(c) \/ Again(c) \/ Leave(c)
  \/ Shutdown

Spec == Init /\ [][Next]_serviceVars
=============================================================================

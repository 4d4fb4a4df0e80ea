SPECIFICATION Spec
CONSTANTS
  Programs = {"forking"}
  Clients = {c1, c2}
  MaxOpen = 2
  Students = {"s1"}
  Callers = {c1, c2}
  Talkers = {c1}
  MaxTexts = 2
  Width = 1
  NoClient = NoClient
  NoSum = NoSum
INVARIANT DoneIsClosed
CHECK_DEADLOCK FALSE

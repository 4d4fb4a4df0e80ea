SPECIFICATION Spec
CONSTANTS
  Programs = {"echo", "upper", "line", "daytime", "tcp", "stream", "forking", "pipe"}
  Clients = {c1, c2, c3}
  MaxOpen = 2
  Students = {"s1", "s2"}
  Callers = {c1, c2}
  Talkers = {c1}
  MaxTexts = 4
  Width = 3
  NoClient = NoClient
  NoSum = NoSum
INVARIANTS TypeOK AnswerIsOwn EarlierAreDone NoZombieForgotten RecordsEarned FullSum
PROPERTIES  ConnectionsEnd
CHECK_DEADLOCK FALSE

SPECIFICATION Spec
CONSTANTS
  Clients = {c1, u1, p1}
  Known = {c1, p1}
  Programs = {p1}
  ListenFD = 3
  MaxFD = 5
  MaxSaid = 3
  NoClient = NoClient
  Garbage = Garbage
  NoSession = NoSession
INVARIANTS TypeOK EarnedRecords WatchedAreOpen PromptedOnlyAfterEnd
PROPERTIES FreshClientsServed
CHECK_DEADLOCK FALSE

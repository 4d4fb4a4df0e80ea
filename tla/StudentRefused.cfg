SPECIFICATION Spec
CONSTANTS
  Clients = {c1, c2}
  Ids = {"1", "2", "9"}
  StudentIds = {"1", "2"}
  IdArgs = {"1", "9"}
  LISTENQ = 10
  ShortReads = FALSE
  ListenFD = 3
  MaxFD = 5
  Blocks = {0, 1, 2, 3}
  Block0 = 0
  NoClient = NoClient
  NoId = "0"
  Typed = {"again"}
  MaxTyped = 1
INVARIANTS RefusedGetNothing
CHECK_DEADLOCK FALSE

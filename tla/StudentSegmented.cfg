SPECIFICATION Spec
CONSTANTS
  Clients = {c1, c2}
  Ids = {"1", "2"}
  StudentIds = {"1", "2"}
  IdArgs = {"1", "2"}
  LISTENQ = 10
  ShortReads = TRUE
  ListenFD = 3
  MaxFD = 4
  Blocks = {0, 1, 2, 3}
  Block0 = 0
  NoClient = NoClient
  NoId = "0"
  Typed = {"again"}
  MaxTyped = 1
SYMMETRY ClientSymmetry
INVARIANTS IInv
CHECK_DEADLOCK FALSE

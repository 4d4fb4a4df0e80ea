SPECIFICATION Spec
CONSTANTS
  Clients = {c1, c2}
  Known = {c1, c2}
  Programs = {}
  ListenFD = 3
  MaxFD = 5
  MaxSaid = 3
  NoClient = NoClient
  Garbage = Garbage
  NoSession = NoSession
SYMMETRY ClientSymmetry
INVARIANT OwnRecordsOnly
CHECK_DEADLOCK FALSE

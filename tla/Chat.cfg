SPECIFICATION Spec
CONSTANTS
  Clients = {c1, c2, c3}
  ListenFD = 3
  MaxFD = 6
  MaxSaid = 2
  NoClient = NoClient
INVARIANTS TypeOK NoLineMissed WatchedAreOpen VisitsNeverBlock
PROPERTIES LinesReceived ClosedAreDropped
CHECK_DEADLOCK FALSE

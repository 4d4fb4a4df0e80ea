SPECIFICATION FairSpec
CONSTANTS
  Fds = {4, 5, 6}
  Nodes = {n1, n2, n3, n4}
  Null = Null
  Garbage = Garbage
INVARIANTS TypeOK ListIntact CursorsSound
PROPERTIES ImplementsStore CallsReturn

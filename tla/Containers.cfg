SPECIFICATION Spec
CONSTANTS
  Nodes = {n1, n2, n3, n4}
  Values = {"a", "b"}
  Null = Null
  Garbage = Garbage
INVARIANTS TypeOK NodesIntact
PROPERTIES ImplementsSequence DestroyFreesAll
CHECK_DEADLOCK FALSE

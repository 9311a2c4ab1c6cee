SPECIFICATION FairSpec
CONSTANTS
  Main = "main"
  Groups = {"main", "a", "b"}
  MaxNodes = 3
  MaxEdges = 2
  MaxMessages = 1
  MaxForwards = 1
INVARIANTS Counted ClosesLast EndsClean
PROPERTIES Ends
CHECK_DEADLOCK FALSE
CONSTRAINT Canonical

CONSTANTS
  Nodes = {n1, n2, n3, n4}
  MaxEdges = 5
SPECIFICATION SmallSpec
INVARIANTS AcceptedIsAcyclic RejectedIsCyclic ReportsACycle NothingLeftBehind
PROPERTIES SearchEnds

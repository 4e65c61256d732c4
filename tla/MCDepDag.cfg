CONSTANTS
  N = 4
  MaxEdges = 4
  Node <- MCNode
  Engine = {"load", "valu", "debug"}
  Graphs <- MCGraphs
SPECIFICATION HSpec
INVARIANTS TypeOK CountersExact FrontierExact NeverStarved UndoExact DistancesOverPaths GroupIsDeepestSink
PROPERTY ImplementsIssueOrder

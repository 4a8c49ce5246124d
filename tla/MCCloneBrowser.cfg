SPECIFICATION MCSpec
CONSTANTS
  R = R
  A = A
  B = B
  V = V
  W = W
  C = C
  Nodes = {R, A, B, V, W, C}
  Root = R
  Variables = {V, W}
  Graphs <- MCGraphs
  Parts = {value, type}
  MaxDepth = 3
  MaxNodes = 4
  None = None
  ReadRoot = R
  Shapes <- MCShapes
  ElementIndex <- MCIndex
  Required = {value, type}
  MaxReadDepth = 2
  MaxReadNodes = 5
  f1 = f1
  Paths = {f1}
  NoPath = none
  BaseIds <- MCBaseIds
  NodeSets <- MCNodeSets
  ServerNodes <- MCServerNodes
  UriOf <- MCUri
  EnumNames = {"Color"}
  Types = {"Double"}
  MaxEdits = 2
INVARIANTS ReportedOnce WholeSubtree ValueTreeIsWhole AcceptedServes FilesKeepTheProject
PROPERTIES WalkEnds EditsKeepReferences
CHECK_DEADLOCK FALSE

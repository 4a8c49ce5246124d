SPECIFICATION MCSpec
CONSTANTS
  n1 = n1
  n2 = n2
  s1 = s1
  s2 = s2
  Nodes = {n1, n2}
  Servers = {s1, s2}
  Intervals = {0, 5}
  None = None
  InOrder = TRUE
  MaxWrites = 1
  MaxSignals = 1
  StoredRows <- MCStoredRows
  MaxUserSteps = 4
  GridNodes = {1, 2}
  Values = {9, 51}
  FirstText = 50
  Periods = {0, 5}
  Filters <- MCFilters
  AccessLevels = {"readOnly"}
  Plotted = {1}
  Levels = {2, 4}
  MaximumSamples = 3
  Window = 2
  MaxClock = 4
INVARIANTS RowsWatched ValuesOfThisSession SelectionIsAnswered CurvesAreTrue
PROPERTY RowsMeantAreReached
CHECK_DEADLOCK FALSE

SPECIFICATION MCSpec
CONSTANTS
  Paths <- MCPaths
  KeyOf <- MCKeyOf
  DefaultPath = "default"
  Servers <- MCServers
  Layouts <- MCLayouts
  MaxRecent = 2
  None = "none"
  Beside = TRUE
  Picks <- MCPicks
  Found <- MCFound
  MaxRuns = 2
  UpdateEnabled = TRUE
  Portable = FALSE
  CurrentVersion <- MCVersion
  Releases <- MCReleases
  MaxEdits = 1
PROPERTY DiscardQuits
CHECK_DEADLOCK FALSE

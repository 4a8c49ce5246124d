SPECIFICATION MCSpec
CONSTANTS
  t1 = t1
  t2 = t2
  t3 = t3
  Targets = {t1, t2, t3}
  SameAddress <- MCSameAddress
  Lists <- MCLists
  MaxParallel = 2
  Clients = {1, 2, 3, 4, 5, 6}
  NoOne = none
  MaxScans = 2
  AddressBits = 4
  OctetBits = 2
  MaxAddresses = 5
  LastPort = 4
  MaxPorts = 3
  DefaultPorts <- MCDefaultPorts
  RangeTexts <- MCRangeTexts
  PortTexts <- MCPortTexts
  InterfaceLists <- MCInterfaceLists
  R = R
  A = A
  B = B
  C = C
  Nodes = {R, A, B, C}
  Root = R
  Kids <- MCKids
  Methods = {B}
  Chunks <- MCChunks
  Paths <- MCPaths
  Pinned = {A}
  SearchQueries <- MCQueries
  NoNode = NoNode
  MaxFetches = 3
  MaxSessions = 2
  MaxUser = 2
  MaxTurns = 3
INVARIANTS ClientServesCurrent CountersMatchRows ScanIsWhatWasMeant
  FetchingIsAnswered SearchFlagsLoaded RevealWaits
PROPERTIES ImplementsScan ScanEnds
CHECK_DEADLOCK FALSE

SPECIFICATION FairManagerSpec
CONSTANTS
  pA = pA
  pB = pB
  u1 = u1
  u2 = u2
  b1 = b1
  Urls = {u1, u2}
  BadUrl = bad
  Backends = {b1, b2}
  Supported = {"anonymous", "username"}
  None = none
  AnswersRedundantDisconnect = FALSE
  Projects = {pA}
  Stored <- MCStored
  Local <- MCLocal
  ModeB = "anonymous"
  LocalUrl = none
  FormModes = {"anonymous"}
  UserOutruns = FALSE
  MaxUserSteps = 3
PROPERTIES ReconnectEnds ServiceSettles
CHECK_DEADLOCK FALSE

SPECIFICATION ManagerSpec
CONSTANTS
  pA = pA
  pB = pB
  u1 = u1
  u2 = u2
  b1 = b1
  Urls = {u1, u2}
  BadUrl = bad
  Backends = {b1}
  Supported = {"anonymous", "username"}
  None = none
  AnswersRedundantDisconnect = TRUE
  Projects = {pA, pB}
  Stored <- MCStored
  Local <- MCLocal
  ModeB = "anonymous"
  LocalUrl = none
  FormModes = {"anonymous"}
  UserOutruns = FALSE
  MaxUserSteps = 2
PROPERTY ConnectionBelongsToProject
CHECK_DEADLOCK FALSE

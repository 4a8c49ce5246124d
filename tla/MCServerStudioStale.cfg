SPECIFICATION MCSpec
CONSTANTS
  p1 = p1
  p2 = p2
  Paths = {p1, p2}
  Temp = temp
  NoPath = none
  MaxEdits = 2
  MaxStarts = 2
  MaxSaves = 3
  c1 = c1
  c2 = c2
  BaseIds <- MCBaseIds
  Served0 <- MCServed
  WriteValues = {1, 2}
  Certs = {c1, c2}
  MaxWrites = 3
  MaxRestarts = 1
INVARIANT RestartWhenStale
CHECK_DEADLOCK FALSE

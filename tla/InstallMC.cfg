SPECIFICATION InstallSpec
CONSTANTS
  s1 = s1
  s2 = s2
  p1 = p1
  q1 = q1
  a1 = a1
  a2 = a2
  none = none
  nopath = nopath
  Servers = {s1, s2}
  Paths = {p1}
  NoPath = nopath
  Requests = {q1}
  MaxVersion = 1
  DiskFails = TRUE
  Applies = {a1, a2}
  NoApply = none
INVARIANTS  ScriptInstalls
PROPERTIES  HooksFollow
CONSTRAINTS CrossedAlone InTurn
CHECK_DEADLOCK FALSE

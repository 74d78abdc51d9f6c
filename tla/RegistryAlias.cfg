SPECIFICATION Spec
CONSTANTS
  q1 = q1
  q2 = q2
  Requests = {q1}
  MaxServers = 3
  MaxPort = 4
  MaxAsked = 4
  Limits = {1, 2}
  Saved <- MCSaved
SYMMETRY Symmetry
INVARIANTS OwnSettings
CHECK_DEADLOCK FALSE

SPECIFICATION Spec
CONSTANTS
  q1 = q1
  q2 = q2
  Requests = {q1, q2}
  MaxServers = 2
  MaxPort = 3
  MaxAsked = 5
  Limits = {1, 2}
  Saved <- MCSaved
VIEW View
SYMMETRY Symmetry
INVARIANTS ServersAreDistinct FileIsUpToDate FlagsAgree 
CHECK_DEADLOCK FALSE

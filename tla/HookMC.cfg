SPECIFICATION FairSpec
CONSTANTS
  g1 = g1
  g2 = g2
  Groups = {g1, g2}
  Kinds = {"spawnStatic","reroute","clear"}
  CHUNK = 1
  MAX_CMDS_PER_POLL = 1
  MAX_REROUTES_PER_POLL = 1
  MAX_LINES = 2
  MAX_BUFFER = 3
  Failures = TRUE
  MaxSent = 4
INVARIANTS NothingIsLost
PROPERTIES RunsInOrder ClearAndMissionAreBarriers TrackedIsKept QueueDrains
CHECK_DEADLOCK FALSE

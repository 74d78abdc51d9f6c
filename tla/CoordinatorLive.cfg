SPECIFICATION FairSpec
CONSTANTS
  m1 = m1
  m2 = m2
  n1 = n1
  n2 = n2
  p1 = p1
  p2 = p2
  tA = tA
  tB = tB
  none = none
  r1 = r1
  r2 = r2
  MMSI = {m1}
  Names = {n1, n2}
  Fix = {p1, p2}
  Theatres = {tA, none}
  Speeds = {0, 2}
  Caps = {1}
  Requests = {}
  NoTheatre = none
  NoName = none
  NoFix = none
  Box <- MCBox
INVARIANTS GroupsAreKnown
PROPERTIES PendingIsSpawned  StaleIsForgotten
CHECK_DEADLOCK FALSE

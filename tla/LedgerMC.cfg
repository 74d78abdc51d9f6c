SPECIFICATION LedgerSpec
CONSTANTS
  m1 = m1
  m2 = m2
  n1 = n1
  n2 = n2
  p1 = p1
  p2 = p2
  tA = tA
  none = none
  r1 = r1
  MMSI = {m1, m2}
  Names = {n1, n2}
  Fix = {p1, p2}
  Theatres = {tA, none}
  Speeds = {0, 2}
  Caps = {1}
  Requests = {r1}
  Faults = {}
  NoTheatre = none
  NoName = none
  NoFix = none
  Box <- MCBox
VIEW LiveView
SYMMETRY Symmetry
INVARIANTS   DisabledIsClear
CHECK_DEADLOCK FALSE

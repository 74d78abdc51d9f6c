SPECIFICATION Spec
CONSTANTS
  m1 = m1
  m2 = m2
  n1 = n1
  n2 = n2
  p1 = p1
  p2 = p2
  tA = tA
  tB = tB
  none = none
  r1 = r1
  r2 = r2
  MMSI = {m1, m2}
  Names = {n1, n2}
  Fix = {p1}
  Theatres = {tA, none}
  Speeds = {2}
  Caps = {1, 2}
  Requests = {r1}
  NoTheatre = none
  NoName = none
  NoFix = none
  Box <- MCBox
VIEW LiveView
SYMMETRY Symmetry
INVARIANTS TypeOK BatchFitsTable
PROPERTIES CapRespected DroppedForAReason ImplementsFleet
CHECK_DEADLOCK FALSE

SPECIFICATION FairSpec
CONSTANTS
  w1 = w1
  w2 = w2
  c1 = c1
  c2 = c2
  c3 = c3
  Writers = {w1}
  Conns = {c1, c2}
  NoConn = NoConn
INVARIANTS ConnectionIsTracked
PROPERTIES ConnIsKept Reconnects SendReturns
CHECK_DEADLOCK FALSE

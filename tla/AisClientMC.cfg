SPECIFICATION FairSpec
CONSTANTS
  t1 = t1
  t2 = t2
  r1 = r1
  r2 = r2
  s1 = s1
  s2 = s2
  s3 = s3
  Theatres = {t1}
  Sockets = {s1, s2, s3}
  Refreshers = {r1}
  MaxStarts = 2
INVARIANTS RunningHasLoop 
PROPERTIES KeepsTrying StopEnds
CHECK_DEADLOCK FALSE

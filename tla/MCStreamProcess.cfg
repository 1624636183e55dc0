SPECIFICATION FairSpec
CONSTANTS
  p1 = p1  p2 = p2  s1 = s1  s2 = s2  c1 = c1  c2 = c2
  None = None  Hub = Hub
  Procs = {p1}
  Streams = {s1, s2}
  Commands = {c1}
  Op <- RestartAndStop
  IdleTimeout = TRUE
  MaxRuns = 3
INVARIANTS
  OneRunAtATime
PROPERTIES
  IdleEnds
CHECK_DEADLOCK FALSE

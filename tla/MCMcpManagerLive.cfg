SPECIFICATION FairSpec
CONSTANTS
  i1 = i1  i2 = i2  i3 = i3  c1 = c1  c2 = c2
  None = None
  Instances = {i1, i2}
  Calls = {c1}
  Idle = 1
  MaxTime = 1
PROPERTIES
  SessionsAnswered TakenInstancesEnd CloseEndsAll
CHECK_DEADLOCK FALSE

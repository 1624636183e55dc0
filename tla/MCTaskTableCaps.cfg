\* Three NATS runs of one owner share an id and compete for two places.
SPECIFICATION Spec
CONSTANTS
  e1 = e1  e2 = e2  e3 = e3
  q1 = q1  q2 = q2  q3 = q3
  u1 = u1  u2 = u2  s1 = s1  s2 = s2  s3 = s3
  nats = nats  rtc = rtc
  None = None
  Exec = {e1, e2, e3}
  RequestIds = {q1}
  Owners = {u1}
  Sessions = {s1, s2, s3}
  Conns = {nats}
  DirectConns = {}
  RequestID <- OneId
  Owner <- OneOwner
  Session <- Apart
  Conn <- AllNats
  Heeds = {e1, e2, e3}
  MaxGlobal = 3
  MaxPerOwner = 2
  MaxRetained = 1
SYMMETRY Interchange
INVARIANTS
  SlotAccounting AnswersTrue
PROPERTIES
  ServiceSpec
CHECK_DEADLOCK FALSE

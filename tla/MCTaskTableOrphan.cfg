\* A request that registers after its connection was cleaned up.
\* One RTC request and two NATS requests, each of its own session.
SPECIFICATION Spec
CONSTANTS
  e1 = e1  e2 = e2  e3 = e3
  q1 = q1  q2 = q2  q3 = q3
  u1 = u1  u2 = u2  s1 = s1  s2 = s2  s3 = s3
  nats = nats  rtc = rtc
  None = None
  Exec = {e1, e2, e3}
  RequestIds = {q1, q2}
  Owners = {u1}
  Sessions = {s1, s2, s3}
  Conns = {nats, rtc}
  DirectConns = {rtc}
  RequestID <- SharedIds
  Owner <- OneOwner
  Session <- Apart
  Conn <- Mixed
  Heeds = {e1}
  MaxGlobal = 2
  MaxPerOwner = 2
  MaxRetained = 1
INVARIANTS
  DisconnectStopsForeground
CHECK_DEADLOCK FALSE

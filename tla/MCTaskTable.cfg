\* An RTC and a NATS run of one session share an id, and can be killed.
SPECIFICATION FairSpec
CONSTANTS
  e1 = e1  e2 = e2  e3 = e3
  q1 = q1  q2 = q2  q3 = q3
  u1 = u1  u2 = u2  s1 = s1  s2 = s2  s3 = s3
  nats = nats  rtc = rtc
  None = None
  Exec = {e1, e2}
  RequestIds = {q1}
  Owners = {u1}
  Sessions = {s1}
  Conns = {nats, rtc}
  DirectConns = {rtc}
  RequestID <- OneId
  Owner <- OneOwner
  Session <- OneSession
  Conn <- Mixed
  Heeds = {e1}
  MaxGlobal = 2
  MaxPerOwner = 2
  MaxRetained = 1
INVARIANTS
  UnsettledReachable
  DisconnectSparesBackground
PROPERTIES
   KillResolved
CHECK_DEADLOCK FALSE

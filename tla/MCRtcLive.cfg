SPECIFICATION FairSpec
CONSTANTS
  p1 = p1  p2 = p2  i1 = i1  t1 = t1  t2 = t2  r1 = r1
  a1 = a1  a2 = a2  a3 = a3  a4 = a4  q1 = q1
  None = None
  Ids = {i1}
  PeerId <- OneId
  Window = 1
  MaxPeers = 1
  MaxPending = 1
  MaxConsumed = 2
  Peers = {p1, p2}
  Tickets = {t1, t2, r1}
  Renews <- TicketRenews
  Expires <- TicketExpires
  LeaseUntil <- TicketExpires
  Attempts = {a2, a3, a4}
  AttemptPeer <- AttemptPeers
  AttemptTicket <- AttemptTickets
  Requests = {}
  RequestPeer <- OnePeerRequest
  Skew = 0
  MaxTime = 2
INVARIANTS
  NoTicketWasted
PROPERTIES
  OverduePeersGo ShutdownClosesAll
CHECK_DEADLOCK FALSE

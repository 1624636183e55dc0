SPECIFICATION BundleSpec
CONSTANTS
  \* rtc
  p1 = p1  p2 = p2  i1 = i1  t1 = t1  t2 = t2  r1 = r1  r2 = r2
  a1 = a1  a2 = a2  a3 = a3  a4 = a4  a5 = a5  q1 = q1
  None = None
  Ids = {i1}
  PeerId <- OneId
  Window = 1
  MaxPeers = 1
  MaxPending = 1
  MaxConsumed = 1
  Peers = {p1, p2}
  Tickets = {t1, r1}
  Renews <- TicketRenews
  Expires <- TicketExpires
  LeaseUntil <- TicketExpires
  Attempts = {a1, a2, a4}
  AttemptPeer <- AttemptPeers
  AttemptTicket <- AttemptTickets
  Requests = {q1}
  RequestPeer <- OnePeerRequest
  Skew = 0
  MaxTime = 2
  \* mcp
  m1 = m1  m2 = m2  c1 = c1  c2 = c2
  McpNone = McpNone
  Instances = {m1, m2}
  Calls = {c1, c2}
  Idle = 1
  McpMaxTime = 1
  \* life
  Callers = {"k1", "k2", "k3"}
  Closer = "closer"
  Conns = {"c1", "c2", "c3"}
  Nobody = "nobody"
  \* gate
  GateRequests = {"q"}
  Deliveries = {"d1", "d2", "d3"}
  Deadline <- DeadlineOf
  Until <- UntilOf
  Offsets <- OffsetsFound
  Slack = 1
  Horizon = 3
  AuthWindow = 6
  GateMaxTime = 6
  \* perm
  Domains = {"exec", "fs"}
  Targets = {"host", "kept"}
  Protected = {"kept"}
  Sessions = {"s1", "s2"}
  Grants <- GrantCalls
  FirstFile <- AtStart
  Override <- ByOption
  OwnerTables <- ByOwner
  Free = Free
  \* net
  Urls = {"a", "p", "q"}
  Platform = {"p"}
  WithIdentity = {"p"}
  NetRequests = {"r1"}
  First <- FirstRelative
  Method <- AllPost
  Follow <- AllFollow
  MaxRedirects = 2
  MaxBody = 1
  Sizes = {0, 1, 2}
  MaxEdits = 1
SYMMETRY Interchange
INVARIANTS
  OpenPeerKnown  
  NoOrphanInstance ReplacedAfterProcess
  NothingLeftBehind OnceUnlessRecalibrated ConfirmedGrantsHold
  EveryHopGated

  
CHECK_DEADLOCK FALSE

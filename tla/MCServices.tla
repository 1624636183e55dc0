----------------------------- MODULE MCServices -----------------------------
(* One run for the safety of the services around the task table: the RTC    *)
(* service, the MCP manager, the connection of the client, the gate of its  *)
(* requests, the permissions and the network client.  They share no state   *)
(* here: `part` picks the one that takes steps, the variables of the others *)
(* hold nothing.                                                            *)
EXTENDS Integers, Sequences, TLC

CONSTANTS Peers, Ids, PeerId, Tickets, Renews, Expires, LeaseUntil, Attempts,
          AttemptPeer, AttemptTicket, Requests, RequestPeer, Window, MaxPeers,
          MaxPending, MaxConsumed, Skew, MaxTime, None, Instances, Calls,
          Idle, McpMaxTime, McpNone, Callers, Closer, Conns, Nobody,
          GateRequests, Deliveries, Deadline, Until, Offsets, Slack, Horizon,
          AuthWindow, GateMaxTime, Domains, Targets, Protected, Sessions,
          Grants, FirstFile, Override, OwnerTables, Free, Urls, Platform,
          WithIdentity, NetRequests, First, Method, Follow, MaxRedirects,
          MaxBody, Sizes, MaxEdits,
          p1, p2, i1, t1, t2, r1, r2, a1, a2, a3, a4, a5, q1, m1, m2, c1, c2

VARIABLES part, now, up, pcs, state, created, lease, openedBy, consumed, auth,
          patrol, patrolAt, drop, shutting, owed, cleanups, req, mcpNow,
          configured, table, st, err, proc, cancelled, used, inflight, call,
          on, expiring, leaving, left, lastUse, closer, awaited, at,
          lifecycle, ended, nc, fresh, link, beat, service, clock, offset,
          store, gateCall, base, granted, file, update, step, draft, owner,
          pending, denied, phase, url, hop, method, hasBody, response, gated,
          timer, sent, received, edits

Rtc == INSTANCE RtcPeerProofs
Mcp == INSTANCE McpManager WITH
    MaxTime <- McpMaxTime, None <- McpNone, now <- mcpNow
Life == INSTANCE ClientLifecycle
Gate == INSTANCE RequestGate WITH
    Requests <- GateRequests, MaxTime <- GateMaxTime, call <- gateCall
Perm == INSTANCE Permissions
Net == INSTANCE ScriptNet WITH
    Requests <- NetRequests

rtcVars == <<now, up, pcs, state, created, lease, openedBy, consumed, auth,
    patrol, patrolAt, drop, shutting, owed, cleanups, req>>
mcpVars == <<mcpNow, configured, table, st, err, proc, cancelled, used,
    inflight, call, on, expiring, leaving, left, lastUse, closer, awaited>>
lifeVars == <<at, lifecycle, ended, nc, fresh, link, beat, service>>
gateVars == <<clock, offset, store, gateCall>>
permVars == <<base, granted, file, update, step, draft, owner, pending>>
netVars == <<denied, phase, url, hop, method, hasBody, response, gated, timer,
    sent, received, edits>>

RtcParked ==
    /\ now = 0 /\ up = 0 /\ pcs = 0 /\ state = 0 /\ created = 0 /\ lease = 0
    /\ openedBy = 0 /\ consumed = 0 /\ auth = 0 /\ patrol = 0 /\ patrolAt = 0
    /\ drop = 0 /\ shutting = 0 /\ owed = 0 /\ cleanups = 0 /\ req = 0
McpParked ==
    /\ mcpNow = 0 /\ configured = 0 /\ table = 0 /\ st = 0 /\ err = 0
    /\ proc = 0 /\ cancelled = 0 /\ used = 0 /\ inflight = 0 /\ call = 0
    /\ on = 0 /\ expiring = 0 /\ leaving = 0 /\ left = 0 /\ lastUse = 0
    /\ closer = 0 /\ awaited = 0
LifeParked ==
    /\ at = 0 /\ lifecycle = 0 /\ ended = 0 /\ nc = 0 /\ fresh = 0 /\ link = 0
    /\ beat = 0 /\ service = 0
GateParked ==
    /\ clock = 0 /\ offset = 0 /\ store = 0 /\ gateCall = 0
PermParked ==
    /\ base = 0 /\ granted = 0 /\ file = 0 /\ update = 0 /\ step = 0
    /\ draft = 0 /\ owner = 0 /\ pending = 0
NetParked ==
    /\ denied = 0 /\ phase = 0 /\ url = 0 /\ hop = 0 /\ method = 0
    /\ hasBody = 0 /\ response = 0 /\ gated = 0 /\ timer = 0 /\ sent = 0
    /\ received = 0 /\ edits = 0

BundleInit ==
    /\ part \in {"rtc", "mcp", "life", "gate", "perm", "net"}
    /\ IF part = "rtc" THEN Rtc!Init ELSE RtcParked
    /\ IF part = "mcp" THEN Mcp!Init ELSE McpParked
    /\ IF part = "life" THEN Life!Init ELSE LifeParked
    /\ IF part = "gate" THEN Gate!Init ELSE GateParked
    /\ IF part = "perm" THEN Perm!Init ELSE PermParked
    /\ IF part = "net" THEN Net!Init ELSE NetParked

BundleNext ==
    \/ /\ part = "rtc" /\ Rtc!Next
       /\ UNCHANGED <<part, mcpVars, lifeVars, gateVars, permVars, netVars>>
    \/ /\ part = "mcp" /\ Mcp!Next
       /\ UNCHANGED <<part, rtcVars, lifeVars, gateVars, permVars, netVars>>
    \/ /\ part = "life" /\ Life!Next
       /\ UNCHANGED <<part, rtcVars, mcpVars, gateVars, permVars, netVars>>
    \/ /\ part = "gate" /\ Gate!Next
       /\ UNCHANGED <<part, rtcVars, mcpVars, lifeVars, permVars, netVars>>
    \/ /\ part = "perm" /\ Perm!Next
       /\ UNCHANGED <<part, rtcVars, mcpVars, lifeVars, gateVars, netVars>>
    \/ /\ part = "net" /\ Net!Next
       /\ UNCHANGED <<part, rtcVars, mcpVars, lifeVars, gateVars, permVars>>

BundleSpec == BundleInit /\ [][BundleNext]_<<part, rtcVars, mcpVars, lifeVars,
    gateVars, permVars, netVars>>

\* rtc: an open peer is in the service's table, whatever late drops of its
\* predecessor do (Service.drop).
OpenPeerKnown == part = "rtc" => Rtc!OpenPeerKnown
\* rtc: the requests of a peer are cleaned up once, however many events
\* report its end (peer.close).
CleanupOnce == part = "rtc" => Rtc!CleanupOnce
\* rtc: one ticket never opens two peers (Service.authenticate, maintain).
TicketOpensOnce == part = "rtc" => Rtc!TicketOpensOnce
\* mcp: concurrent starts leave no live instance outside the table
\* (Manager.Session).
NoOrphanInstance == part = "mcp" => Mcp!NoOrphanInstance
\* mcp: no server is started beside the process of the one it replaces
\* (Manager.connect).
ReplacedAfterProcess == part = "mcp" => Mcp!ReplacedAfterProcess
\* life: when Close has returned nothing it should have stopped runs or is
\* started later (Client.Close, connect).
NothingLeftBehind == part = "life" => Life!NothingLeftBehind
\* life: a failure of an old connection never stops a newer one (the
\* ClosedHandler of Client.connect).
FailureSparesReplacement == [][part = "life" => Life!SparesReplacement]_lifeVars
\* gate: a request delivered twice is served once, unless the clock was set
\* back in between (replayCache.checkAndMark).
OnceUnlessRecalibrated == part = "gate" => Gate!OnceUnlessRecalibrated
\* perm: a permanent grant that was confirmed holds for scripts and stays in
\* the file (permissionState.persistGrant).
ConfirmedGrantsHold == part = "perm" => Perm!ConfirmedGrantsHold
\* net: every hop of a request was allowed by the rules when it was made
\* (NetClient.Do).
EveryHopGated == part = "net" => Net!EveryHopGated

-----------------------------------------------------------------------------
\* What the modules assume of their constants.
ASSUME ServicesAssumption ==
    Rtc!Parameters /\ Mcp!Parameters /\ Life!Parameters /\ Gate!Parameters
    /\ Perm!Parameters /\ Net!Parameters

-----------------------------------------------------------------------------
(* rtc: two peers of one id; the ticket of the first is presented to the    *)
(* second as well, and the first renews its lease.                          *)

OneId == [p \in Peers |-> i1]
TicketRenews == [t \in Tickets |-> IF t = r1 THEN p1 ELSE None]
TicketExpires == [t \in Tickets |-> IF t = r1 THEN 2 ELSE 1]
AttemptPeers == [x \in Attempts |-> IF x = a2 THEN p2 ELSE p1]
AttemptTickets == [x \in Attempts |-> IF x = a4 THEN r1 ELSE t1]
OnePeerRequest == [q \in Requests |-> p2]

\* mcp: starts are interchangeable before they begin, and so are the callers.
Interchange == Permutations(Instances) \cup Permutations(Calls)

\* gate
DeadlineOf == [q \in GateRequests |-> 2]
UntilOf == [q \in GateRequests |-> 5]
OffsetsFound == -1..1

(* perm: session and permanent grants, an owner that edits the same file,   *)
(* and a domain that is open by a start-up option.                          *)
GrantCalls ==
    LET Ask(s, d, t, p) == [session |-> s, domain |-> d, target |-> t, permanent |-> p]
    IN  {Ask("s1", "fs", "host", FALSE), Ask("s1", "exec", "host", FALSE),
         Ask("s2", "fs", "kept", TRUE), Ask("s2", "fs", "host", TRUE),
         Ask("s1", "exec", "kept", TRUE)}
Deny(t) == [effect |-> "deny", target |-> t]
AuthTable(o, rows, v) == [open |-> o, rows |-> rows, valid |-> v]
AtStart == [d \in Domains |-> AuthTable(FALSE, <<Deny("host")>>, TRUE)]
ByOption == [d \in {"exec"} |-> AuthTable(FALSE, << >>, TRUE)]
ByOwner == {AuthTable(TRUE, << >>, TRUE), AuthTable(FALSE, <<Deny("kept")>>, TRUE),
            AuthTable(FALSE, << >>, FALSE)}

\* net: a script posts to a relative address and follows what it is sent to.
FirstRelative == [r \in NetRequests |-> "relative"]
AllPost == [r \in NetRequests |-> "POST"]
AllFollow == [r \in NetRequests |-> TRUE]
=============================================================================

------------------------------- MODULE RtcPeer -------------------------------
(***************************************************************************)
(* The RTC service of libs/rtc: which peers it knows (pcs), the one-time   *)
(* tickets they authenticate with, the leases the tickets grant, and the   *)
(* ways a peer goes: bye, transport loss, expiry, shutdown.                *)
(*                                                                         *)
(* A member of Peers is a peer object: a client that connects again with   *)
(* the same id is another peer.  Each authentication message runs in a     *)
(* goroutine of its own (auth); dropping a peer is two critical sections   *)
(* and a callback (drop, owed); the maintenance goroutine looks at a       *)
(* snapshot (patrol).  Ticket signatures, fingerprints and host binding    *)
(* are left out: an attempt whose ticket does not verify changes nothing.  *)
(***************************************************************************)
EXTENDS Integers, FiniteSets

CONSTANTS
    Peers, Ids, PeerId,        \* peer objects and the ids they are offered under
    Tickets,
    Renews,                    \* the peer a renewal ticket is for, or None
    Expires,                   \* end of a ticket's admission
    LeaseUntil,                \* end of the lease it grants
    Attempts,                  \* authentication messages
    AttemptPeer, AttemptTicket,
    Requests, RequestPeer,     \* tool requests
    Window,                    \* time a peer has to authenticate
    MaxPeers,                  \* peers known at once
    MaxPending,                \* requests of a peer in progress
    MaxConsumed,               \* used tickets remembered
    Skew,                      \* local clock minus calibrated clock
    MaxTime,                   \* bound on the clock, for model checking
    None                       \* stands for nil

Parameters ==
    /\ IsFiniteSet(Peers) /\ IsFiniteSet(Tickets)
    /\ PeerId \in [Peers -> Ids]
    /\ Renews \in [Tickets -> Peers \cup {None}]
    /\ Expires \in [Tickets -> Nat] /\ LeaseUntil \in [Tickets -> Nat]
    /\ \A t \in Tickets : 0 < Expires[t] /\ Expires[t] <= LeaseUntil[t]
    /\ AttemptPeer \in [Attempts -> Peers] /\ AttemptTicket \in [Attempts -> Tickets]
    /\ RequestPeer \in [Requests -> Peers]
    /\ Window \in Nat /\ MaxPeers \in Nat /\ MaxPending \in Nat /\ MaxConsumed \in Nat
    /\ Skew \in Int /\ MaxTime \in Nat
    /\ None \notin Peers \cup Tickets

ASSUME RtcPeerAssumption == Parameters

VARIABLES
    now,       \* the calibrated clock
    up,        \* Close has not been called
    pcs,       \* the peer known under each id, or None
    state,     \* "new" (not offered yet), "open", "closed"
    created,   \* when each peer was offered
    lease,     \* the end of a peer's lease, 0 for none
    openedBy,  \* the ticket that opened each peer's lease (history)
    consumed,  \* the cache of used tickets
    auth,      \* where each authentication goroutine is
    patrol,    \* peers the maintenance goroutine has still to look at,
    patrolAt,  \*   and the time it took at the start of its round
    drop,      \* the progress of a drop: "none", "unlink", "close"
    shutting,  \* peers Close has still to close
    owed,      \* closed peers whose Disconnect is still to be called
    cleanups,  \* Disconnect calls made for each peer
    req        \* where each tool request is

lifeVars == <<pcs, state, created, drop, shutting, up>>
leaseVars == <<lease, openedBy, consumed, auth>>
patrolVars == <<patrol, patrolAt>>
exitVars == <<owed, cleanups>>
vars == <<now, lifeVars, leaseVars, patrolVars, exitVars, req>>

Known == {pcs[i] : i \in Ids} \ {None}
Active(p) == lease[p] > now            \* currentLease # nil
Pending(p) == {r \in Requests : RequestPeer[r] = p /\ req[r] \in {"queued", "running"}}

Init ==
    /\ now = 0 /\ up = TRUE
    /\ pcs = [i \in Ids |-> None]
    /\ state = [p \in Peers |-> "new"]
    /\ created = [p \in Peers |-> 0]
    /\ lease = [p \in Peers |-> 0]
    /\ openedBy = [p \in Peers |-> None]
    /\ consumed = {}
    /\ auth = [a \in Attempts |-> "idle"]
    /\ patrol = {} /\ patrolAt = 0
    /\ drop = [p \in Peers |-> "none"]
    /\ shutting = {} /\ owed = {}
    /\ cleanups = [p \in Peers |-> 0]
    /\ req = [r \in Requests |-> "idle"]

Tick ==
    /\ now < MaxTime
    /\ now' = now + 1
    /\ UNCHANGED <<lifeVars, leaseVars, patrolVars, exitVars, req>>

-----------------------------------------------------------------------------
(* Peers come and go.                                                      *)

\* An offer under a free id makes a peer; a duplicate or one too many does not.
Offer(p) ==
    /\ up /\ state[p] = "new"
    /\ pcs[PeerId[p]] = None
    /\ Cardinality(Known) < MaxPeers
    /\ pcs' = [pcs EXCEPT ![PeerId[p]] = p]
    /\ state' = [state EXCEPT ![p] = "open"]
    /\ created' = [created EXCEPT ![p] = now]
    /\ UNCHANGED <<now, drop, shutting, up, leaseVars, patrolVars, exitVars, req>>

\* Bye, a lost transport, a closed channel or a malformed message: drop begins.
\* Callbacks may report the end of a peer that is already gone.
StartDrop(p) ==
    /\ state[p] # "new" /\ drop[p] = "none"
    /\ drop' = [drop EXCEPT ![p] = "unlink"]
    /\ UNCHANGED <<now, pcs, state, created, shutting, up, leaseVars, patrolVars, exitVars, req>>

\* drop, under the service lock: forget the peer, unless its id is another's now.
\* (An operator whose name ends in Bug is a faulty variant of the one after it.)
Forget_ByIdBug(p) == pcs' = [pcs EXCEPT ![PeerId[p]] = None]
Forget(p) == pcs' = [i \in Ids |-> IF pcs[i] = p THEN None ELSE pcs[i]]

Unlink(p) ==
    /\ drop[p] = "unlink"
    /\ Forget(p)
    /\ drop' = [drop EXCEPT ![p] = "close"]
    /\ UNCHANGED <<now, state, created, shutting, up, leaseVars, patrolVars, exitVars, req>>

\* close, under the peer lock: once, clear the lease, and remember to clean up.
AlreadyClosed_Bug(p) == FALSE
AlreadyClosed(p) == state[p] = "closed"

Shut(p) ==
    IF AlreadyClosed(p) THEN UNCHANGED <<state, lease, owed>>
    ELSE /\ state' = [state EXCEPT ![p] = "closed"]
         /\ lease' = [lease EXCEPT ![p] = 0]
         /\ owed' = IF openedBy[p] # None THEN owed \cup {p} ELSE owed

ClosePeer(p) ==
    /\ drop[p] = "close"
    /\ Shut(p)
    /\ drop' = [drop EXCEPT ![p] = "none"]
    /\ UNCHANGED <<now, pcs, created, shutting, up, openedBy, consumed, auth, patrolVars,
                   cleanups, req>>

\* ... and outside the lock the callback that cancels what the connection began.
Disconnect(p) ==
    /\ p \in owed
    /\ owed' = owed \ {p}
    /\ cleanups' = [cleanups EXCEPT ![p] = @ + 1]
    /\ UNCHANGED <<now, lifeVars, leaseVars, patrolVars, req>>

\* Service.Close takes all peers, then closes them one by one.
Close ==
    /\ up
    /\ up' = FALSE
    /\ shutting' = Known
    /\ pcs' = [i \in Ids |-> None]
    /\ UNCHANGED <<now, state, created, drop, leaseVars, patrolVars, exitVars, req>>

CloseNext(p) ==
    /\ p \in shutting
    /\ shutting' = shutting \ {p}
    /\ Shut(p)
    /\ UNCHANGED <<now, pcs, created, drop, up, openedBy, consumed, auth, patrolVars,
                   cleanups, req>>

-----------------------------------------------------------------------------
(* Maintenance, once a second.                                             *)

\* Tickets whose admission is over need not be remembered.
Stale_EarlyBug(t) == TRUE
Stale(t) == Expires[t] <= now

Sweep ==
    /\ up /\ patrol = {}
    /\ consumed' = {t \in consumed : ~Stale(t)}
    /\ patrol' = Known
    /\ patrolAt' = now
    /\ UNCHANGED <<now, lifeVars, lease, openedBy, auth, exitVars, req>>

\* expire: no lease in time, or a lease that is over.  The drop follows outside
\* the lock, whatever the peer does meanwhile.
Overdue(p) == IF lease[p] = 0 THEN patrolAt - created[p] > Window ELSE lease[p] <= patrolAt

Expire(p) ==
    /\ p \in patrol
    /\ patrol' = patrol \ {p}
    /\ drop' = IF Overdue(p) /\ drop[p] = "none" THEN [drop EXCEPT ![p] = "unlink"] ELSE drop
    /\ UNCHANGED <<now, pcs, state, created, shutting, up, leaseVars, patrolAt, exitVars, req>>

-----------------------------------------------------------------------------
(* Authentication.                                                         *)

AuthStep(a, next) == auth' = [auth EXCEPT ![a] = next]

\* The ticket is valid at this moment.
Verify(a) ==
    LET t == AttemptTicket[a]
        p == AttemptPeer[a]
    IN  /\ auth[a] = "idle" /\ state[p] # "new"
        /\ AuthStep(a, IF Expires[t] > now THEN "verified" ELSE "refused")
        /\ UNCHANGED <<now, lifeVars, lease, openedBy, consumed, patrolVars, exitVars, req>>

\* consumeTicket.
Usable(t) == t \notin consumed /\ Cardinality(consumed) < MaxConsumed

\* admit, one critical section of the peer: check, consume, open the lease.
Admit_ConsumeFirstBug(a) ==
    LET t == AttemptTicket[a]
        p == AttemptPeer[a]
        opens == state[p] = "open" /\ lease[p] = 0
    IN  /\ auth[a] = "verified" /\ Renews[t] = None
        /\ IF Usable(t)
           THEN /\ consumed' = consumed \cup {t}
                /\ lease' = IF opens THEN [lease EXCEPT ![p] = LeaseUntil[t]] ELSE lease
                /\ openedBy' = IF opens THEN [openedBy EXCEPT ![p] = t] ELSE openedBy
                /\ AuthStep(a, IF opens THEN "done" ELSE "refused")
           ELSE AuthStep(a, "refused") /\ UNCHANGED <<lease, openedBy, consumed>>
        /\ UNCHANGED <<now, lifeVars, patrolVars, exitVars, req>>
Admit(a) ==
    LET t == AttemptTicket[a]
        p == AttemptPeer[a]
    IN  /\ auth[a] = "verified" /\ Renews[t] = None
        /\ IF state[p] = "open" /\ lease[p] = 0 /\ Usable(t)
           THEN /\ consumed' = consumed \cup {t}
                /\ lease' = [lease EXCEPT ![p] = LeaseUntil[t]]
                /\ openedBy' = [openedBy EXCEPT ![p] = t]
                /\ AuthStep(a, "done")
           ELSE AuthStep(a, "refused") /\ UNCHANGED <<lease, openedBy, consumed>>
        /\ UNCHANGED <<now, lifeVars, patrolVars, exitVars, req>>

\* renew, three critical sections: check the lease, consume the ticket, extend.
RenewCheck(a) ==
    LET t == AttemptTicket[a]
        p == AttemptPeer[a]
    IN  /\ auth[a] = "verified" /\ Renews[t] # None
        /\ AuthStep(a, IF state[p] = "open" /\ Active(p) /\ Renews[t] = p
                       THEN "checked" ELSE "refused")
        /\ UNCHANGED <<now, lifeVars, lease, openedBy, consumed, patrolVars, exitVars, req>>

RenewConsume(a) ==
    LET t == AttemptTicket[a]
    IN  /\ auth[a] = "checked"
        /\ AuthStep(a, IF Usable(t) THEN "spent" ELSE "refused")
        /\ consumed' = IF Usable(t) THEN consumed \cup {t} ELSE consumed
        /\ UNCHANGED <<now, lifeVars, lease, openedBy, patrolVars, exitVars, req>>

Extends(p, until) == state[p] = "open" /\ lease[p] # 0 /\ until > lease[p]

RenewExtend(a) ==
    LET t == AttemptTicket[a]
        p == AttemptPeer[a]
    IN  /\ auth[a] = "spent"
        /\ AuthStep(a, "done")
        /\ lease' = IF Extends(p, LeaseUntil[t]) THEN [lease EXCEPT ![p] = LeaseUntil[t]]
                    ELSE lease
        /\ UNCHANGED <<now, lifeVars, openedBy, consumed, patrolVars, exitVars, req>>

-----------------------------------------------------------------------------
(* Tool requests.                                                          *)

\* A request needs a current lease, and one of the peer's slots.
Receive(r) ==
    LET p == RequestPeer[r]
    IN  /\ req[r] = "idle" /\ state[p] = "open"
        /\ req' = [req EXCEPT ![r] =
                     IF ~Active(p) THEN "unauthorized"
                     ELSE IF Cardinality(Pending(p)) >= MaxPending THEN "overloaded"
                     ELSE "queued"]
        /\ UNCHANGED <<now, lifeVars, leaseVars, patrolVars, exitVars>>

\* dispatch validates the caller again: Deadline() is the lease of this moment
\* and is compared with the local clock, Check looks at the lease once more.
Valid(p) == Active(p) /\ lease[p] > now + Skew

Dispatch(r) ==
    LET p == RequestPeer[r]
    IN  /\ req[r] = "queued"
        /\ req' = [req EXCEPT ![r] = IF state[p] = "open" /\ Valid(p)
                                     THEN "running"
                                     ELSE IF Active(p) THEN "denied" ELSE "unauthorized"]
        /\ UNCHANGED <<now, lifeVars, leaseVars, patrolVars, exitVars>>

Answer(r) ==
    /\ req[r] = "running"
    /\ req' = [req EXCEPT ![r] = "answered"]
    /\ UNCHANGED <<now, lifeVars, leaseVars, patrolVars, exitVars>>

-----------------------------------------------------------------------------
Drop(p) == Unlink(p) \/ ClosePeer(p)

Authenticate(a) ==
    Verify(a) \/ Admit(a) \/ RenewCheck(a) \/ RenewConsume(a) \/ RenewExtend(a)

Serve(r) == Receive(r) \/ Dispatch(r) \/ Answer(r)

Next ==
    \/ Tick \/ Sweep \/ Close
    \/ \E p \in Peers : Offer(p) \/ StartDrop(p) \/ Drop(p) \/ Disconnect(p)
                          \/ CloseNext(p) \/ Expire(p)
    \/ \E a \in Attempts : Authenticate(a)
    \/ \E r \in Requests : Serve(r)

Spec == Init /\ [][Next]_vars

\* The maintenance goroutine runs while the service is up, and every goroutine
\* that drops, closes or cleans up a peer goes on.  Nobody has to connect,
\* authenticate, leave or shut down.
Fairness ==
    /\ WF_vars(Sweep)
    /\ \A p \in Peers :
        /\ WF_vars(Expire(p)) /\ WF_vars(Drop(p))
        /\ WF_vars(CloseNext(p)) /\ WF_vars(Disconnect(p))

FairSpec == Spec /\ Fairness

-----------------------------------------------------------------------------
(* Properties.                                                             *)

\* The state has the types the code declares.
TypeOK ==
    /\ now \in 0..MaxTime /\ up \in BOOLEAN
    /\ pcs \in [Ids -> Peers \cup {None}]
    /\ state \in [Peers -> {"new", "open", "closed"}]
    /\ created \in [Peers -> 0..MaxTime]
    /\ lease \in [Peers -> Nat]
    /\ openedBy \in [Peers -> Tickets \cup {None}]
    /\ consumed \subseteq Tickets
    /\ auth \in [Attempts -> {"idle", "verified", "checked", "spent", "done", "refused"}]
    /\ patrol \subseteq Peers /\ patrolAt \in 0..MaxTime
    /\ drop \in [Peers -> {"none", "unlink", "close"}]
    /\ shutting \subseteq Peers /\ owed \subseteq Peers
    /\ cleanups \in [Peers -> Nat]
    /\ req \in [Requests -> {"idle", "queued", "running", "answered", "unauthorized",
                             "overloaded", "denied"}]

\* A peer that is open is known to maintenance and to Close, or is being dropped
\* or closed already: the late drop of an earlier peer never orphans the later
\* one with its id.
OpenPeerKnown ==
    \A p \in Peers : state[p] = "open" =>
        pcs[PeerId[p]] = p \/ drop[p] = "close" \/ p \in shutting

\* The cleanup of a connection is run once at most, after its peer has closed,
\* and only for a connection that was authenticated, however many events report
\* its end.
CleanupOnce ==
    \A p \in Peers :
        /\ cleanups[p] + (IF p \in owed THEN 1 ELSE 0) <= 1
        /\ cleanups[p] > 0 => state[p] = "closed" /\ openedBy[p] # None

\* Of two concurrent hellos of one peer the later one keeps its ticket: a used
\* opening ticket has opened a connection.
NoTicketWasted ==
    \A t \in consumed : Renews[t] = None => \E p \in Peers : openedBy[p] = t

\* A ticket that could still be admitted has opened one connection at most, on
\* whatever peer objects it is presented.
TicketOpensOnce ==
    \A p, q \in Peers :
        (p # q /\ openedBy[p] = openedBy[q] /\ openedBy[p] # None) => Expires[openedBy[p]] <= now

\* A peer whose lease is over, or that does not authenticate, goes: it is
\* dropped by maintenance or the lease is renewed in the last moment.
OverduePeersGo ==
    \A p \in Peers :
        (state[p] = "open" /\ (IF lease[p] = 0 THEN now > created[p] + Window ELSE lease[p] <= now))
            ~> (state[p] = "closed" \/ Active(p))

\* After shutdown no peer stays open.
ShutdownClosesAll == \A p \in Peers : ~up ~> state[p] # "open"

=============================================================================

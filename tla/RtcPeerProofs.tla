---------------------------- MODULE RtcPeerProofs ----------------------------
(***************************************************************************)
(* Theorems about RtcPeer for any number of peers, ids, tickets and        *)
(* concurrent authentication messages.                                     *)
(*                                                                         *)
(* The inductive invariant Inv adds to the properties what they rest on:   *)
(* Close takes the peers once, a lease and its ticket go together, the     *)
(* cleanup is owed by closed peers only, and a ticket that could still be  *)
(* admitted is remembered as long as a connection it opened.               *)
(***************************************************************************)
EXTENDS RtcPeer, FiniteSetTheorems, TLAPS

\* Close has peers left to close only after it was called.
TakenOnce == up => shutting = {}

\* A lease that a ticket opened stays until the peer is closed.
LeaseOfTicket ==
    \A p \in Peers :
        /\ openedBy[p] # None => state[p] # "new"
        /\ state[p] = "open" /\ openedBy[p] # None => lease[p] # 0

\* A cleanup that is owed or done belongs to a closed, authenticated peer.
CleanupOfClosed ==
    \A p \in Peers :
        /\ p \in owed \/ cleanups[p] > 0 => state[p] = "closed" /\ openedBy[p] # None
        /\ p \in owed => cleanups[p] = 0
        /\ cleanups[p] <= 1

\* Only a renewal ticket gets as far as being spent apart from a lease.
RenewalsOnly ==
    \A a \in Attempts : auth[a] \in {"checked", "spent"} => Renews[AttemptTicket[a]] # None

\* An opening ticket that could still be admitted is remembered.
OpenersRemembered ==
    \A p \in Peers : openedBy[p] # None /\ Expires[openedBy[p]] > now => openedBy[p] \in consumed

\* No more peers, and no more used tickets, than the service allows.
BoundsRespected == Cardinality(Known) <= MaxPeers /\ Cardinality(consumed) <= MaxConsumed

Inv ==
    /\ TypeOK /\ TakenOnce /\ OpenPeerKnown
    /\ LeaseOfTicket /\ CleanupOfClosed
    /\ RenewalsOnly /\ NoTicketWasted
    /\ OpenersRemembered /\ TicketOpensOnce

-----------------------------------------------------------------------------
(* The steps, one lemma for each part of the invariant.                    *)

LEMMA InitInv == Init => Inv
<1> SUFFICES ASSUME Init PROVE Inv
  OBVIOUS
<1> USE RtcPeerAssumption DEF Init, Parameters
<1>1. TypeOK
  BY DEF TypeOK
<1>2. TakenOnce /\ OpenPeerKnown
  BY DEF TakenOnce, OpenPeerKnown
<1>3. LeaseOfTicket /\ CleanupOfClosed
  BY DEF LeaseOfTicket, CleanupOfClosed
<1>4. RenewalsOnly /\ NoTicketWasted
  BY DEF RenewalsOnly, NoTicketWasted
<1>5. OpenersRemembered /\ TicketOpensOnce
  BY DEF OpenersRemembered, TicketOpensOnce
<1> QED
  BY <1>1, <1>2, <1>3, <1>4, <1>5 DEF Inv

LEMMA TypeStep == TypeOK /\ [Next]_vars => TypeOK'
<1> SUFFICES ASSUME TypeOK, [Next]_vars PROVE TypeOK'
  OBVIOUS
<1> USE RtcPeerAssumption DEF TypeOK, Parameters, lifeVars, leaseVars, patrolVars, exitVars
<1>1. Known \subseteq Peers
  BY DEF Known
<1>2. CASE Tick
  BY <1>2 DEF Tick
<1>3. CASE Sweep
  BY <1>1, <1>3 DEF Sweep
<1>4. CASE Close
  BY <1>1, <1>4 DEF Close
<1>5. ASSUME NEW p \in Peers, Offer(p) PROVE TypeOK'
  BY <1>5 DEF Offer
<1>6. ASSUME NEW p \in Peers, StartDrop(p) PROVE TypeOK'
  BY <1>6 DEF StartDrop
<1>7. ASSUME NEW p \in Peers, Unlink(p) PROVE TypeOK'
  BY <1>7 DEF Unlink, Forget
<1>8. ASSUME NEW p \in Peers, ClosePeer(p) PROVE TypeOK'
  BY <1>8 DEF ClosePeer, Shut, AlreadyClosed
<1>9. ASSUME NEW p \in Peers, Disconnect(p) PROVE TypeOK'
  BY <1>9 DEF Disconnect
<1>10. ASSUME NEW p \in Peers, CloseNext(p) PROVE TypeOK'
  BY <1>10 DEF CloseNext, Shut, AlreadyClosed
<1>11. ASSUME NEW p \in Peers, Expire(p) PROVE TypeOK'
  BY <1>11 DEF Expire
<1>12. ASSUME NEW a \in Attempts, Authenticate(a) PROVE TypeOK'
  <2>1. AttemptTicket[a] \in Tickets /\ AttemptPeer[a] \in Peers
    OBVIOUS
  <2>2. CASE Verify(a)
    BY <2>2 DEF Verify, AuthStep
  <2>3. CASE Admit(a)
    BY <2>1, <2>3 DEF Admit, AuthStep, Usable
  <2>4. CASE RenewCheck(a)
    BY <2>4 DEF RenewCheck, AuthStep
  <2>5. CASE RenewConsume(a)
    BY <2>1, <2>5 DEF RenewConsume, AuthStep, Usable
  <2>6. CASE RenewExtend(a)
    BY <2>1, <2>6 DEF RenewExtend, AuthStep, Extends
  <2> QED
    BY <1>12, <2>2, <2>3, <2>4, <2>5, <2>6 DEF Authenticate
<1>13. ASSUME NEW r \in Requests, Serve(r) PROVE TypeOK'
  <2>1. CASE Receive(r)
    BY <2>1 DEF Receive
  <2>2. CASE Dispatch(r)
    BY <2>2 DEF Dispatch
  <2>3. CASE Answer(r)
    BY <2>3 DEF Answer
  <2> QED
    BY <1>13, <2>1, <2>2, <2>3 DEF Serve
<1>14. CASE UNCHANGED vars
  BY <1>14 DEF vars
<1> QED
  BY <1>2, <1>3, <1>4, <1>5, <1>6, <1>7, <1>8, <1>9, <1>10, <1>11, <1>12, <1>13, <1>14
  DEF Next, Drop

\* The table, drops and shutdown: who still has an open peer in hand.
LEMMA KnownStep ==
    ASSUME TypeOK, TakenOnce, OpenPeerKnown, [Next]_vars
    PROVE  TakenOnce' /\ OpenPeerKnown'
<1> USE RtcPeerAssumption
    DEF TypeOK, Parameters, TakenOnce, OpenPeerKnown, lifeVars, leaseVars, patrolVars, exitVars
<1>1. CASE UNCHANGED <<pcs, state, drop, shutting, up>>
  BY <1>1
<1>2. CASE Close
  <2>1. \A p \in Peers : pcs[PeerId[p]] = p => p \in Known
    BY DEF Known
  <2> QED
    BY <1>2, <2>1 DEF Close
<1>3. ASSUME NEW p \in Peers, Offer(p) PROVE TakenOnce' /\ OpenPeerKnown'
  BY <1>3 DEF Offer
<1>4. ASSUME NEW p \in Peers, StartDrop(p) \/ Expire(p) PROVE TakenOnce' /\ OpenPeerKnown'
  BY <1>4 DEF StartDrop, Expire
<1>5. ASSUME NEW p \in Peers, Unlink(p) PROVE TakenOnce' /\ OpenPeerKnown'
  BY <1>5 DEF Unlink, Forget
<1>6. ASSUME NEW p \in Peers, ClosePeer(p) \/ CloseNext(p) PROVE TakenOnce' /\ OpenPeerKnown'
  <2>1. state' \in {state, [state EXCEPT ![p] = "closed"]} /\ state'[p] = "closed"
    BY <1>6 DEF ClosePeer, CloseNext, Shut, AlreadyClosed
  <2>2. UNCHANGED pcs /\ UNCHANGED up
    BY <1>6 DEF ClosePeer, CloseNext
  <2>3. CASE ClosePeer(p)
    BY <2>1, <2>2, <2>3 DEF ClosePeer
  <2>4. CASE CloseNext(p)
    BY <2>1, <2>2, <2>4 DEF CloseNext
  <2> QED
    BY <1>6, <2>3, <2>4
<1>7. ASSUME NEW a \in Attempts, Authenticate(a) PROVE UNCHANGED <<pcs, state, drop, shutting, up>>
  BY <1>7 DEF Authenticate, Verify, Admit, RenewCheck, RenewConsume, RenewExtend
<1>8. ASSUME NEW r \in Requests, Serve(r) PROVE UNCHANGED <<pcs, state, drop, shutting, up>>
  BY <1>8 DEF Serve, Receive, Dispatch, Answer
<1> QED
  BY <1>1, <1>2, <1>3, <1>4, <1>5, <1>6, <1>7, <1>8
  DEF Next, Drop, Tick, Sweep, Disconnect, vars

LEMMA CleanupStep ==
    ASSUME TypeOK, LeaseOfTicket, CleanupOfClosed, [Next]_vars
    PROVE  LeaseOfTicket' /\ CleanupOfClosed'
<1> USE RtcPeerAssumption
    DEF TypeOK, Parameters, LeaseOfTicket, CleanupOfClosed, lifeVars, leaseVars, patrolVars, exitVars
<1>1. CASE UNCHANGED <<state, lease, openedBy, owed, cleanups>>
  BY <1>1
<1>2. ASSUME NEW p \in Peers, Offer(p) PROVE LeaseOfTicket' /\ CleanupOfClosed'
  BY <1>2 DEF Offer
<1>3. ASSUME NEW p \in Peers, ClosePeer(p) \/ CloseNext(p) PROVE LeaseOfTicket' /\ CleanupOfClosed'
  <2>1. Shut(p) /\ UNCHANGED <<openedBy, cleanups, consumed, now>>
    BY <1>3 DEF ClosePeer, CloseNext
  <2> QED
    BY <2>1 DEF Shut, AlreadyClosed
<1>4. ASSUME NEW p \in Peers, Disconnect(p) PROVE LeaseOfTicket' /\ CleanupOfClosed'
  BY <1>4 DEF Disconnect
<1>5. ASSUME NEW a \in Attempts, Authenticate(a) PROVE LeaseOfTicket' /\ CleanupOfClosed'
  <2>1. AttemptTicket[a] \in Tickets /\ AttemptPeer[a] \in Peers
    OBVIOUS
  <2>2. CASE Admit(a)
    BY <2>1, <2>2 DEF Admit
  <2>3. CASE RenewExtend(a)
    BY <2>1, <2>3 DEF RenewExtend, Extends
  <2> QED
    BY <1>1, <1>5, <2>2, <2>3 DEF Authenticate, Verify, RenewCheck, RenewConsume
<1>6. ASSUME NEW r \in Requests, Serve(r) PROVE UNCHANGED <<state, lease, openedBy, owed, cleanups>>
  BY <1>6 DEF Serve, Receive, Dispatch, Answer
<1> QED
  BY <1>1, <1>2, <1>3, <1>4, <1>5, <1>6
  DEF Next, Drop, Tick, Sweep, Close, StartDrop, Unlink, Expire, vars

\* Of the tickets, admission spends one together with the lease it opens,
\* renewal spends one that opens nothing, and the sweep forgets the stale ones.
LEMMA TicketStep ==
    ASSUME TypeOK, LeaseOfTicket, RenewalsOnly, NoTicketWasted,
           OpenersRemembered, TicketOpensOnce, [Next]_vars
    PROVE  RenewalsOnly' /\ NoTicketWasted' /\ OpenersRemembered' /\ TicketOpensOnce'
<1> USE RtcPeerAssumption DEF TypeOK, Parameters
<1> DEFINE Kept == RenewalsOnly' /\ NoTicketWasted' /\ OpenersRemembered' /\ TicketOpensOnce'
<1>1. CASE UNCHANGED <<now, openedBy, consumed, auth>>
  BY <1>1 DEF RenewalsOnly, NoTicketWasted, OpenersRemembered, TicketOpensOnce
<1>2. CASE Tick
  BY <1>2 DEF Tick, leaseVars, RenewalsOnly, NoTicketWasted, OpenersRemembered, TicketOpensOnce
<1>3. CASE Sweep
  BY <1>3 DEF Sweep, Stale, RenewalsOnly, NoTicketWasted, OpenersRemembered, TicketOpensOnce
<1>4. ASSUME NEW a \in Attempts, Authenticate(a) PROVE Kept
  <2>1. AttemptTicket[a] \in Tickets /\ AttemptPeer[a] \in Peers
    OBVIOUS
  <2>2. RenewalsOnly'
    BY <1>4, <2>1 DEF Authenticate, Verify, Admit, RenewCheck, RenewConsume, RenewExtend,
      AuthStep, RenewalsOnly
  <2>3. CASE Admit(a) /\ consumed' # consumed
    <3> DEFINE t == AttemptTicket[a]
               p == AttemptPeer[a]
    <3>1. /\ consumed' = consumed \cup {t} /\ t \notin consumed
          /\ openedBy' = [openedBy EXCEPT ![p] = t]
          /\ state[p] = "open" /\ lease[p] = 0 /\ now' = now
      BY <2>3 DEF Admit, Usable
    <3>2. openedBy[p] = None /\ t # None
      BY <2>1, <3>1 DEF LeaseOfTicket
    <3>3. NoTicketWasted'
      BY <2>1, <3>1, <3>2 DEF NoTicketWasted
    <3>4. OpenersRemembered'
      BY <2>1, <3>1 DEF OpenersRemembered
    <3>5. \A q \in Peers : openedBy[q] = t => Expires[t] <= now
      BY <2>1, <3>1, <3>2 DEF OpenersRemembered
    <3>6. TicketOpensOnce'
      BY <2>1, <3>1, <3>5 DEF TicketOpensOnce
    <3> QED
      BY <2>2, <3>3, <3>4, <3>6
  <2>4. CASE RenewConsume(a)
    <3>1. Renews[AttemptTicket[a]] # None
      BY <2>4 DEF RenewConsume, RenewalsOnly
    <3> QED
      BY <2>1, <2>2, <2>4, <3>1
      DEF RenewConsume, NoTicketWasted, OpenersRemembered, TicketOpensOnce
  <2>5. CASE UNCHANGED <<now, openedBy, consumed>>
    BY <2>2, <2>5 DEF NoTicketWasted, OpenersRemembered, TicketOpensOnce
  <2>6. Admit(a) /\ consumed' = consumed => UNCHANGED <<now, openedBy, consumed>>
    BY <2>1 DEF Admit, Usable
  <2> QED
    BY <1>4, <2>3, <2>4, <2>5, <2>6 DEF Authenticate, Verify, RenewCheck, RenewExtend
<1>5. ASSUME NEW r \in Requests, Serve(r) PROVE UNCHANGED <<now, openedBy, consumed, auth>>
  BY <1>5 DEF Serve, Receive, Dispatch, Answer, leaseVars
<1> QED
  BY <1>1, <1>2, <1>3, <1>4, <1>5
  DEF Next, Drop, Close, Offer, StartDrop, Unlink, ClosePeer, Disconnect, CloseNext, Expire,
    leaseVars, vars

\* The table and the cache of used tickets grow by one at a time, after a look
\* at their limits.
LEMMA BoundsStep ==
    ASSUME TypeOK, BoundsRespected, [Next]_vars
    PROVE  BoundsRespected'
<1> USE RtcPeerAssumption DEF TypeOK, Parameters
<1>1. /\ IsFiniteSet(Known) /\ IsFiniteSet(consumed)
      /\ Cardinality(Known) \in Nat /\ Cardinality(consumed) \in Nat
  <2>1. Known \subseteq Peers
    BY DEF Known
  <2> QED
    BY <2>1, FS_Subset, FS_CardinalityType
<1>2. Known' \subseteq Known => Cardinality(Known') <= Cardinality(Known)
  BY <1>1, FS_Subset
<1>3. consumed' \subseteq consumed => Cardinality(consumed') <= Cardinality(consumed)
  BY <1>1, FS_Subset
<1>4. Known' \subseteq Known => Cardinality(Known') <= MaxPeers
  <2>1. SUFFICES ASSUME Known' \subseteq Known PROVE Cardinality(Known') <= MaxPeers
    OBVIOUS
  <2>2. Cardinality(Known') \in Nat
    BY <2>1, <1>1, FS_Subset, FS_CardinalityType
  <2> QED
    BY <2>1, <2>2, <1>1, <1>2 DEF BoundsRespected
<1>5. consumed' \subseteq consumed => Cardinality(consumed') <= MaxConsumed
  <2>1. SUFFICES ASSUME consumed' \subseteq consumed PROVE Cardinality(consumed') <= MaxConsumed
    OBVIOUS
  <2>2. Cardinality(consumed') \in Nat
    BY <2>1, <1>1, FS_Subset, FS_CardinalityType
  <2> QED
    BY <2>1, <2>2, <1>1, <1>3 DEF BoundsRespected
<1>6. ASSUME NEW p \in Peers, Offer(p) PROVE Cardinality(Known') <= MaxPeers
  <2>1. Known' \subseteq Known \cup {p} /\ Cardinality(Known) < MaxPeers
    BY <1>6 DEF Offer, Known
  <2>2. IsFiniteSet(Known \cup {p}) /\ Cardinality(Known \cup {p}) <= Cardinality(Known) + 1
    <3>1. IsFiniteSet(Known) /\ Cardinality(Known) \in Nat
      BY <1>1
    <3>2. /\ IsFiniteSet(Known \cup {p})
          /\ Cardinality(Known \cup {p}) = IF p \in Known THEN Cardinality(Known)
                                             ELSE Cardinality(Known) + 1
      BY <3>1, FS_AddElement, Zenon
    <3> HIDE DEF Parameters, TypeOK
    <3> QED
      BY <3>1, <3>2
  <2>3. Cardinality(Known') <= Cardinality(Known \cup {p}) /\ IsFiniteSet(Known')
    BY <2>1, <2>2, FS_Subset
  <2>4. Cardinality(Known') \in Nat /\ Cardinality(Known \cup {p}) \in Nat
    BY <2>2, <2>3, FS_CardinalityType
  <2> QED
    BY <1>1, <2>1, <2>2, <2>3, <2>4
<1>7. ASSUME NEW t \in Tickets, Usable(t), consumed' = consumed \cup {t}
      PROVE  Cardinality(consumed') <= MaxConsumed
  <2>1. Cardinality(consumed') = Cardinality(consumed) + 1
    BY <1>1, <1>7, FS_AddElement DEF Usable
  <2> QED
    BY <1>1, <1>7, <2>1 DEF Usable
<1>8. Known' \subseteq Known \/ \E p \in Peers : Offer(p)
  BY DEF Next, Drop, Tick, Sweep, Close, StartDrop, Unlink, Forget, ClosePeer, Disconnect,
    CloseNext, Expire, Authenticate, Verify, Admit, RenewCheck, RenewConsume, RenewExtend,
    Serve, Receive, Dispatch, Answer, lifeVars, vars, Known
<1>9. \/ consumed' \subseteq consumed
      \/ \E t \in Tickets : Usable(t) /\ consumed' = consumed \cup {t}
  BY DEF Next, Drop, Tick, Sweep, Close, Offer, StartDrop, Unlink, ClosePeer, Disconnect,
    CloseNext, Expire, Authenticate, Verify, Admit, RenewCheck, RenewConsume, RenewExtend,
    Serve, Receive, Dispatch, Answer, leaseVars, vars
<1> QED
  BY <1>4, <1>5, <1>6, <1>7, <1>8, <1>9 DEF BoundsRespected

\* A closed peer has no lease, and no step of a renewal under way gives it one.
ClosedUnauthorized == \A p \in Peers : state[p] # "open" => lease[p] = 0

LEMMA ClosedStep ==
    ASSUME TypeOK, ClosedUnauthorized, [Next]_vars
    PROVE  /\ ClosedUnauthorized'
           /\ \A p \in Peers : state[p] = "closed" => state'[p] = "closed"
<1> USE RtcPeerAssumption
    DEF TypeOK, Parameters, ClosedUnauthorized, lifeVars, leaseVars, patrolVars, exitVars
<1>1. CASE UNCHANGED <<state, lease>>
  BY <1>1
<1>2. ASSUME NEW p \in Peers, Offer(p)
      PROVE  ClosedUnauthorized' /\ \A q \in Peers : state[q] = "closed" => state'[q] = "closed"
  BY <1>2 DEF Offer
<1>3. ASSUME NEW p \in Peers, ClosePeer(p) \/ CloseNext(p)
      PROVE  ClosedUnauthorized' /\ \A q \in Peers : state[q] = "closed" => state'[q] = "closed"
  BY <1>3 DEF ClosePeer, CloseNext, Shut, AlreadyClosed
<1>4. ASSUME NEW a \in Attempts, Authenticate(a)
      PROVE  ClosedUnauthorized' /\ UNCHANGED state
  <2>1. AttemptTicket[a] \in Tickets /\ AttemptPeer[a] \in Peers
    OBVIOUS
  <2> QED
    BY <1>4, <2>1
    DEF Authenticate, Verify, Admit, RenewCheck, RenewConsume, RenewExtend, Extends
<1>5. ASSUME NEW r \in Requests, Serve(r) PROVE UNCHANGED <<state, lease>>
  BY <1>5 DEF Serve, Receive, Dispatch, Answer
<1> QED
  BY <1>1, <1>2, <1>3, <1>4, <1>5
  DEF Next, Drop, Tick, Sweep, Close, StartDrop, Unlink, Disconnect, Expire, vars

LEMMA StepInv == Inv /\ [Next]_vars => Inv'
BY TypeStep, KnownStep, CleanupStep, TicketStep DEF Inv

LEMMA InvAlways == Spec => []Inv
BY InitInv, StepInv, PTL DEF Spec

-----------------------------------------------------------------------------
(* The theorems.                                                           *)

\* Every reachable state is well typed.
THEOREM TypeCorrect == Spec => []TypeOK
<1>1. Inv => TypeOK
  BY DEF Inv
<1> QED
  BY <1>1, InvAlways, PTL

\* Service.drop and Service.Close leave no open peer behind: it is in the
\* service's table, or whoever took it out is about to close it.
THEOREM OpenPeersReachable == Spec => []OpenPeerKnown
<1>1. Inv => OpenPeerKnown
  BY DEF Inv
<1> QED
  BY <1>1, InvAlways, PTL

\* peer.close hands a connection to the cleanup once, after it has closed, and
\* only when it had been authenticated.
LEMMA CleanedOnce == Inv => CleanupOnce
BY DEF Inv, TypeOK, CleanupOfClosed, CleanupOnce

THEOREM CleanupHappensOnce == Spec => []CleanupOnce
BY CleanedOnce, InvAlways, PTL

\* Service.admit: the hello that loses a race does not use its ticket up.
THEOREM TicketsOpenPeers == Spec => []NoTicketWasted
<1>1. Inv => NoTicketWasted
  BY DEF Inv
<1> QED
  BY <1>1, InvAlways, PTL

\* Service.consumeTicket and the sweep in Service.maintain: as long as a ticket
\* is admissible it opens one peer at most.
THEOREM TicketsOpenOnce == Spec => []TicketOpensOnce
<1>1. Inv => TicketOpensOnce
  BY DEF Inv
<1> QED
  BY <1>1, InvAlways, PTL

\* Service.offer and Service.consumeTicket keep to their limits.
THEOREM LimitsKept == Spec => []BoundsRespected
<1>1. Init => BoundsRespected
  <2> SUFFICES ASSUME Init PROVE BoundsRespected
    OBVIOUS
  <2>1. Known = {} /\ consumed = {}
    BY DEF Init, Known
  <2> QED
    BY <2>1, FS_EmptySet, RtcPeerAssumption DEF BoundsRespected, Parameters
<1>2. TypeOK /\ BoundsRespected /\ [Next]_vars => BoundsRespected'
  BY BoundsStep
<1> QED
  BY <1>1, <1>2, TypeCorrect, PTL DEF Spec

\* peer.close is final: a renewal that was checked before it and extends after
\* it does not authorize the peer again.
THEOREM ClosedForGood ==
    Spec => /\ []ClosedUnauthorized
            /\ [][\A p \in Peers : state[p] = "closed" => state'[p] = "closed"]_vars
<1>1. Init => ClosedUnauthorized
  BY DEF Init, ClosedUnauthorized
<1>2. TypeOK /\ ClosedUnauthorized /\ [Next]_vars
        => /\ ClosedUnauthorized'
           /\ \A p \in Peers : state[p] = "closed" => state'[p] = "closed"
  BY ClosedStep
<1> QED
  BY <1>1, <1>2, TypeCorrect, PTL DEF Spec

=============================================================================

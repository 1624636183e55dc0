------------------------------ MODULE MCRtcPeer ------------------------------
(* Small instances of RtcPeer.  The cfg files choose the functions.         *)
EXTENDS RtcPeer, TLC

CONSTANTS p1, p2, i1, t1, t2, r1, a1, a2, a3, a4, q1

OneId == [p \in Peers |-> i1]

\* Both peers use one id.  Two tickets are presented to the second one, which
\* renews its lease.
TicketRenews == [t \in Tickets |-> IF t = r1 THEN p2 ELSE None]
TicketExpires == [t \in Tickets |-> IF t = r1 THEN 2 ELSE 1]
AttemptPeers == [a \in Attempts |-> IF a = a1 THEN p1 ELSE p2]
AttemptTickets == [a \in Attempts |-> CASE a = a3 -> t2 [] a = a4 -> r1 [] OTHER -> t1]

OnePeerRequest == [q \in Requests |-> IF p2 \in Peers THEN p2 ELSE p1]
=============================================================================

---------------------------- MODULE RequestGate ----------------------------
(* A signed request reaches the device over NATS, perhaps twice.  Its       *)
(* validity is judged by the platform's clock, which the device derives     *)
(* from its own clock and a calibrated offset; its nonce is remembered      *)
(* until the deadline translated to the device's clock has passed           *)
(* (HandleNATS, NatsVerify, replayCache.checkAndMark, Caller.Validate).     *)
EXTENDS Integers

CONSTANTS Requests,    \* the signed requests, each with its nonce
          Deliveries,  \* handler goroutines, one per delivery of a request
          Deadline,    \* Deadline[q]: milliseconds of the platform's clock
          Until,       \* AuthorizationUntil[q], never before the deadline
          Offsets,     \* platform minus device clock, as a calibration may find it
          Slack,       \* clockSlack
          Horizon,     \* deadlineHorizon
          AuthWindow,  \* authorizationWindow
          MaxTime      \* bound: the last instant of the device's clock

Parameters ==
    /\ Deadline \in [Requests -> Int] /\ Until \in [Requests -> Int]
    /\ Offsets \subseteq Int /\ MaxTime \in Nat
    /\ Slack \in Nat /\ Horizon \in Nat /\ AuthWindow \in Nat

VARIABLES clock,    \* time.Now(), in the device's time
          offset,   \* clockOffsetMS
          store,    \* the nonces remembered, each until an instant of the device's clock
          call      \* call[d]: the handler of a delivery

gateVars == <<clock, offset, store, call>>

Handler(s, q, d, u) == [state |-> s, request |-> q, deadline |-> d, until |-> u]
Unsent == Handler("idle", "none", 0, 0)

Init == /\ clock = 0
        /\ offset \in Offsets
        /\ store = << >>
        /\ call = [d \in Deliveries |-> Unsent]

Tick == /\ clock < MaxTime /\ clock' = clock + 1
        /\ UNCHANGED <<offset, store, call>>

\* syncClock: a successful calibration replaces the offset; one that fails
\* keeps it and is no step.
SyncClock == /\ \E o \in Offsets : offset' = o
             /\ UNCHANGED <<clock, store, call>>

clockNow == clock + offset

\* NatsVerify, the time windows; destination and signature are right.
NatsVerify(q) ==
    /\ Until[q] >= Deadline[q] /\ Until[q] <= clockNow + AuthWindow
    /\ Deadline[q] > clockNow - Slack /\ Deadline[q] <= clockNow + Horizon

\* HandleNATS up to the nonce: both clocks are read once, and the deadline and
\* the end of the authorization are translated to the device's clock.
Receive(d, q) ==
    /\ call[d].state = "idle"
    /\ call' = [call EXCEPT ![d] =
                  IF NatsVerify(q)
                  THEN Handler("verified", q, clock + (Deadline[q] - clockNow),
                               clock + (Until[q] - clockNow))
                  ELSE Handler("refused", q, 0, 0)]
    /\ UNCHANGED <<clock, offset, store>>

\* The entries whose time has passed are dropped first.
Purged == [q \in {r \in DOMAIN store : clock <= store[r]} |-> store[q]]

\* checkAndMark, under the cache's lock.
CheckAndMark(d) ==
    /\ call[d].state = "verified"
    /\ LET q == call[d].request
           seen == q \in DOMAIN Purged
       IN  /\ store' = IF seen THEN Purged
                       ELSE [r \in DOMAIN Purged \cup {q} |->
                                IF r = q THEN call[d].deadline ELSE Purged[r]]
           /\ call' = [call EXCEPT ![d].state = IF seen THEN "duplicate" ELSE "marked"]
    /\ UNCHANGED <<clock, offset>>

\* (An operator whose name ends in Bug is a faulty variant of the one after it.)
Valid_SlackBug(c) == c.until > clock
\* Caller.Validate: the context's deadline and the authorization still hold.
Valid(c) == clock < c.deadline /\ c.until > clock

Dispatch(d) ==
    /\ call[d].state = "marked"
    /\ call' = [call EXCEPT ![d].state = IF Valid(call[d]) THEN "ran" ELSE "expired"]
    /\ UNCHANGED <<clock, offset, store>>

Next == \/ Tick \/ SyncClock
        \/ \E d \in Deliveries : \/ \E q \in Requests : Receive(d, q)
                                 \/ CheckAndMark(d)
                                 \/ Dispatch(d)

Spec == Init /\ [][Next]_gateVars

-----------------------------------------------------------------------------
TypeOK ==
    /\ clock \in 0..MaxTime /\ offset \in Offsets
    /\ DOMAIN store \subseteq Requests /\ \A q \in DOMAIN store : store[q] \in Int
    /\ \A d \in Deliveries :
         /\ call[d].state \in {"idle", "refused", "verified", "duplicate", "marked",
                               "ran", "expired"}
         /\ call[d].request \in Requests \cup {"none"}

\* A request runs at most once, whatever the network repeats and however long a
\* handler is held up between its checks - the cache forgets a nonce by the
\* device's clock while the request is judged by the platform's - unless a
\* calibration between the two deliveries moved the device's deadline later.
OnceUnlessRecalibrated ==
    \A d, e \in Deliveries :
        /\ d # e
        /\ call[d].state = "ran" /\ call[e].state = "ran"
        /\ call[d].request = call[e].request
        => call[d].deadline # call[e].deadline

=============================================================================

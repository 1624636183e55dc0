-------------------------- MODULE ClientLifecycle --------------------------
(* The life of the device client (libs/host/client.go): Connect, Close and *)
(* the goroutine that an authentication failure starts take turns under    *)
(* lifecycleMu; each connection has a heartbeat that ends after it; the    *)
(* connection can fail at any moment; the RTC service outlives             *)
(* connections but not the client.                                         *)
EXTENDS Integers, FiniteSets

CONSTANTS Callers,    \* goroutines that call Connect, each once
          Closer,     \* the goroutine that calls Close
          Conns,      \* connection objects, used in any order
          Nobody      \* no connection, no lock holder

Parameters == /\ Callers \cap Conns = {} /\ Closer \notin Callers \cup Conns
              /\ Nobody \notin Callers \cup {Closer} \cup Conns

VARIABLES at,         \* at[p]: where a goroutine is; failure handlers are named by connection
          lifecycle,  \* holder of lifecycleMu
          ended,      \* the field closed
          nc,         \* the installed connection
          fresh,      \* the connection being made by the holder of lifecycleMu
          link,       \* link[c]: "unused", "open", "down" (closed by the library)
          beat,       \* beat[c]: "none", "beating", "told" (cancelled), "over"
          service     \* "none", "running", or "stopped" once svc.Close returned

lifeVars == <<at, lifecycle, ended, nc, fresh, link, beat, service>>

Init == /\ at = [p \in Callers \cup {Closer} \cup Conns |-> "idle"]
        /\ lifecycle = Nobody /\ ended = FALSE /\ nc = Nobody /\ fresh = Nobody
        /\ link = [c \in Conns |-> "unused"]
        /\ beat = [c \in Conns |-> "none"]
        /\ service = "none"

Goto(p, l) == at' = [at EXCEPT ![p] = l]
Leave(p) == /\ lifecycle' = Nobody /\ Goto(p, "returned")

\* closeConnection, first part: the fields are taken under ncMu, the heartbeat
\* is told to end and the connection is closed.
TakeConnection ==
    /\ nc' = Nobody
    /\ beat' = [c \in Conns |-> IF c = nc /\ beat[c] = "beating" THEN "told" ELSE beat[c]]
    /\ link' = [c \in Conns |-> IF c = nc THEN "down" ELSE link[c]]

\* (An operator whose name ends in Bug is a faulty variant of the one after it.)
BeatsOver_NoWaitBug == TRUE
\* closeConnection, second part: it waits for the heartbeat it has told to end.
BeatsOver == \A c \in Conns : beat[c] # "told"

-----------------------------------------------------------------------------
(* Connect                                                                 *)

ConnectBegins(p) ==
    /\ at[p] = "idle" /\ lifecycle = Nobody
    /\ IF ended \/ (nc # Nobody /\ link[nc] = "open")
       THEN /\ Goto(p, "returned")
            /\ UNCHANGED <<lifecycle, nc, link, beat>>
       ELSE /\ lifecycle' = p /\ Goto(p, "clearing") /\ TakeConnection
    /\ UNCHANGED <<ended, fresh, service>>

\* nats.Connect and Subscribe: either may fail, and then the half-made
\* connection is closed.
Dial(p) ==
    /\ at[p] = "clearing" /\ BeatsOver
    /\ \/ /\ \E c \in Conns : /\ link[c] = "unused" /\ fresh' = c
                              /\ link' = [link EXCEPT ![c] = "open"]
          /\ Goto(p, "dialled") /\ UNCHANGED lifecycle
       \/ /\ Leave(p) /\ UNCHANGED <<link, fresh>>
    /\ UNCHANGED <<ended, nc, beat, service>>

SubscribeFails(p) ==
    /\ at[p] = "dialled"
    /\ link' = [link EXCEPT ![fresh] = "down"] /\ fresh' = Nobody
    /\ Leave(p)
    /\ UNCHANGED <<ended, nc, beat, service>>

\* installConnection: the fields and the new heartbeat.
Install(p) ==
    /\ at[p] = "dialled"
    /\ nc' = fresh /\ beat' = [beat EXCEPT ![fresh] = "beating"] /\ fresh' = Nobody
    /\ Goto(p, "installed")
    /\ UNCHANGED <<lifecycle, ended, link, service>>

\* startRTC: idempotent, off by configuration, or failing without consequence.
StartRTC(p) ==
    /\ at[p] = "installed"
    /\ service' \in IF service = "running" THEN {"running"} ELSE {service, "running"}
    /\ Leave(p)
    /\ UNCHANGED <<ended, nc, fresh, link, beat>>

-----------------------------------------------------------------------------
(* Failures of the connection                                              *)

\* The library gives a connection up after an authentication failure and the
\* handler starts a goroutine that waits for its turn.
AuthFails(c) ==
    /\ link[c] = "open" /\ at[c] = "idle"
    /\ link' = [link EXCEPT ![c] = "down"]
    /\ Goto(c, "waiting")
    /\ UNCHANGED <<lifecycle, ended, nc, fresh, beat, service>>

MayStop_AnyBug(c) == TRUE
\* Only the connection that failed is taken down, never its replacement.
MayStop(c) == nc = c

StopAfterFailure(c) ==
    /\ at[c] = "waiting" /\ lifecycle = Nobody
    /\ IF MayStop(c)
       THEN /\ lifecycle' = c /\ Goto(c, "clearing")
            /\ service' = IF service = "running" THEN "stopped" ELSE service
            /\ TakeConnection
       ELSE /\ Goto(c, "returned") /\ UNCHANGED <<lifecycle, service, nc, beat, link>>
    /\ UNCHANGED <<ended, fresh>>

FailureHandled(c) ==
    /\ at[c] = "clearing" /\ BeatsOver /\ Leave(c)
    /\ UNCHANGED <<ended, nc, fresh, link, beat, service>>

\* heartbeatLoop: it returns when told, or at a tick that finds the connection closed.
HeartbeatEnds(c) ==
    /\ beat[c] = "told" \/ (beat[c] = "beating" /\ link[c] = "down")
    /\ beat' = [beat EXCEPT ![c] = "over"]
    /\ UNCHANGED <<at, lifecycle, ended, nc, fresh, link, service>>

-----------------------------------------------------------------------------
(* Close                                                                   *)

CloseBegins ==
    /\ at[Closer] = "idle" /\ lifecycle = Nobody
    /\ lifecycle' = Closer /\ ended' = TRUE /\ Goto(Closer, "clearing")
    /\ TakeConnection
    /\ UNCHANGED <<fresh, service>>

\* After the connection: watcher, processes, files, bytes, index and commands,
\* which have models of their own; peers are served meanwhile.
CloseStores ==
    /\ at[Closer] = "clearing" /\ BeatsOver
    /\ Goto(Closer, "stores")
    /\ UNCHANGED <<lifecycle, ended, nc, fresh, link, beat, service>>

\* stopRTC
StopRTC == IF service = "running" THEN "stopped" ELSE service

CloseReturns ==
    /\ at[Closer] = "stores"
    /\ service' = StopRTC
    /\ Leave(Closer)
    /\ UNCHANGED <<ended, nc, fresh, link, beat>>

Next == \/ \E p \in Callers : ConnectBegins(p) \/ Dial(p) \/ SubscribeFails(p)
                              \/ Install(p) \/ StartRTC(p)
        \/ \E c \in Conns : AuthFails(c) \/ StopAfterFailure(c) \/ FailureHandled(c)
                            \/ HeartbeatEnds(c)
        \/ CloseBegins \/ CloseStores \/ CloseReturns

Spec == Init /\ [][Next]_lifeVars

-----------------------------------------------------------------------------
TypeOK ==
    /\ at \in [Callers \cup {Closer} \cup Conns ->
                 {"idle", "waiting", "clearing", "dialled", "installed", "stores", "returned"}]
    /\ lifecycle \in Callers \cup {Closer} \cup Conns \cup {Nobody}
    /\ ended \in BOOLEAN /\ {nc, fresh} \subseteq Conns \cup {Nobody}
    /\ link \in [Conns -> {"unused", "open", "down"}]
    /\ beat \in [Conns -> {"none", "beating", "told", "over"}]
    /\ service \in {"none", "running", "stopped"}

\* Between two lifecycle calls nothing runs but what the client holds: an open
\* connection is the installed one, a heartbeat belongs to it, and once Close
\* has returned there is no connection, no heartbeat and no RTC service,
\* whichever failures, reconnections and late failure handlers came before.
NothingLeftBehind ==
    lifecycle = Nobody =>
        /\ \A c \in Conns : link[c] = "open" \/ beat[c] \in {"beating", "told"} => c = nc
        /\ ended => nc = Nobody /\ service # "running"

\* A connection in use is taken down by its own failure or by Close, never by
\* the late handler of an earlier connection.
SparesReplacement ==
    \A c \in Conns : nc = c /\ link[c] = "open" /\ link'[c] = "down" =>
        lifecycle' = Closer \/ at'[c] = "waiting"
FailureSparesReplacement == [][SparesReplacement]_lifeVars
=============================================================================

------------------------------ MODULE McpManager ------------------------------
(***************************************************************************)
(* One MCP service under libs/mcpx.Manager: lazy start, a connection shared*)
(* by all callers, idle release, restart, removal and shutdown.            *)
(*                                                                         *)
(* A member of Instances is one start of the service: the goroutine of     *)
(* connect (st), the process that transport starts (proc) and the context  *)
(* that ends both (cancelled).  The table holds one of them.  Callers      *)
(* obtain a session and send requests; the reap goroutine, Remove, Restart *)
(* and Close end instances.  Services of one manager share only the lock,  *)
(* so one is enough.  A service with a URL has no process: it is the case  *)
(* where the process ends at once.                                         *)
(***************************************************************************)
EXTENDS Integers, FiniteSets

CONSTANTS
    Instances,   \* starts of the service
    Calls,       \* callers: Session, then one request
    Idle,        \* idle_timeout, 0 for none
    MaxTime,     \* bound on the clock, for model checking
    None         \* stands for nil

Parameters ==
    /\ Idle \in Nat /\ MaxTime \in Nat
    /\ IsFiniteSet(Calls) /\ None \notin Instances

ASSUME McpManagerAssumption == Parameters

VARIABLES
    now,
    configured,  \* the service is in configs
    table,       \* instances[name]
    st,          \* connect: "free", "starting", "launched", "connecting", "ready",
                 \*   "failed" (ready closed with an error), "ending", "done"
    err,         \* instances whose err is set
    proc,        \* the process: "none", "running", "ended"
    cancelled,   \* instances whose context is cancelled
    used,        \* the time reap goes by
    inflight,    \* requests in flight
    call, on,    \* where each caller is, and with which instance
    expiring,    \* taken from the table by reap, expire not yet called
    leaving,     \* taken by Remove, not yet cancelled
    left,        \* instances reap or Remove has taken (history)
    lastUse,     \* the last time a caller had to do with an instance (history)
    closer,      \* Close: "open", "waiting", "closed"
    awaited      \* instances Close waits for

instVars == <<st, err, proc, cancelled>>
useVars == <<used, inflight, lastUse>>
callVars == <<call, on>>
leaveVars == <<expiring, leaving, left>>
closeVars == <<closer, awaited>>
vars == <<now, configured, table, instVars, useVars, callVars, leaveVars, closeVars>>

Began(i) == st[i] # "free"
Done(i) == st[i] = "done"

\* The channel ready is closed.  (An operator whose name ends in Bug is a faulty
\* variant of the one after it.)
ReadyClosed_OnSuccessBug(i) == st[i] \in {"ready", "ending"} \/ (st[i] = "done" /\ i \notin err)
ReadyClosed(i) == st[i] \in {"ready", "failed", "ending", "done"}

Init ==
    /\ now = 0 /\ configured = TRUE /\ table = None
    /\ st = [i \in Instances |-> "free"]
    /\ err = {} /\ cancelled = {}
    /\ proc = [i \in Instances |-> "none"]
    /\ used = [i \in Instances |-> 0] /\ lastUse = [i \in Instances |-> 0]
    /\ inflight = [i \in Instances |-> 0]
    /\ call = [c \in Calls |-> "idle"] /\ on = [c \in Calls |-> None]
    /\ expiring = {} /\ leaving = {} /\ left = {}
    /\ closer = "open" /\ awaited = {}

Tick ==
    /\ now < MaxTime
    /\ now' = now + 1
    /\ UNCHANGED <<configured, table, instVars, useVars, callVars, leaveVars, closeVars>>

-----------------------------------------------------------------------------
(* Configuration.                                                          *)

Add ==
    /\ closer = "open" /\ ~configured
    /\ configured' = TRUE
    /\ UNCHANGED <<now, table, instVars, useVars, callVars, leaveVars, closeVars>>

\* Remove: out of the table under the lock, cancelled after it.
Remove ==
    /\ configured
    /\ configured' = FALSE
    /\ table' = None
    /\ leaving' = leaving \cup ({table} \ {None})
    /\ left' = left \cup ({table} \ {None})
    /\ UNCHANGED <<now, instVars, useVars, callVars, expiring, closeVars>>

CancelRemoved_NotBug(i) == UNCHANGED cancelled
CancelRemoved(i) == cancelled' = cancelled \cup {i}

FinishRemove(i) ==
    /\ i \in leaving
    /\ leaving' = leaving \ {i}
    /\ CancelRemoved(i)
    /\ UNCHANGED <<now, configured, table, st, err, proc, useVars, callVars, expiring,
                   left, closeVars>>

\* Restart cancels what the table holds; the next Session replaces it once done.
Restart ==
    /\ configured /\ table # None
    /\ cancelled' = cancelled \cup {table}
    /\ UNCHANGED <<now, configured, table, st, err, proc, useVars, callVars, leaveVars,
                   closeVars>>

-----------------------------------------------------------------------------
(* Callers.                                                                *)

\* A caller shares the instance of the table, started or still starting, and
\* starts a new one only when there is none or it is done.
Shareable_ReadyBug(i) == ReadyClosed(i) /\ ~Done(i)
Shareable(i) == ~Done(i)

Admitted == closer = "open" /\ configured

Session(c) ==
    /\ call[c] = "idle"
    /\ IF ~Admitted
       THEN /\ call' = [call EXCEPT ![c] = "refused"]
            /\ UNCHANGED <<on, table, st, useVars>>
       ELSE \E i \in Instances :
              /\ IF table # None /\ Shareable(table)
                 THEN i = table /\ UNCHANGED <<table, st>>
                 ELSE /\ st[i] = "free"
                      /\ table' = i
                      /\ st' = [st EXCEPT ![i] = "starting"]
              /\ used' = [used EXCEPT ![i] = now]
              /\ lastUse' = [lastUse EXCEPT ![i] = now]
              /\ call' = [call EXCEPT ![c] = "waiting"]
              /\ on' = [on EXCEPT ![c] = i]
              /\ UNCHANGED inflight
    /\ UNCHANGED <<now, configured, err, proc, cancelled, leaveVars, closeVars>>

\* Ready: a session, unless the start failed or the connection has ended.
Obtain(c) ==
    /\ call[c] = "waiting" /\ ReadyClosed(on[c])
    /\ call' = [call EXCEPT ![c] = IF on[c] \in err \/ Done(on[c]) THEN "refused" ELSE "holding"]
    /\ UNCHANGED <<now, configured, table, instVars, useVars, on, leaveVars, closeVars>>

GiveUp(c) ==
    /\ call[c] = "waiting"
    /\ call' = [call EXCEPT ![c] = "refused"]
    /\ UNCHANGED <<now, configured, table, instVars, useVars, on, leaveVars, closeVars>>

\* The middleware around every request.
CountUp(i) == [inflight EXCEPT ![i] = @ + 1]

BeginRequest(c) ==
    /\ call[c] = "holding"
    /\ call' = [call EXCEPT ![c] = "requesting"]
    /\ inflight' = CountUp(on[c])
    /\ UNCHANGED <<now, configured, table, instVars, used, lastUse, on, leaveVars, closeVars>>

CountDown(i) == [inflight EXCEPT ![i] = IF @ > 0 THEN @ - 1 ELSE 0]

UsedAtEnd(i) == [used EXCEPT ![i] = now]

EndRequest(c) ==
    /\ call[c] = "requesting"
    /\ call' = [call EXCEPT ![c] = "done"]
    /\ inflight' = CountDown(on[c])
    /\ used' = UsedAtEnd(on[c])
    /\ lastUse' = [lastUse EXCEPT ![on[c]] = now]
    /\ UNCHANGED <<now, configured, table, instVars, on, leaveVars, closeVars>>

\* A live view keeps the service alive.
Touch ==
    /\ table # None /\ ~Done(table)
    /\ used' = [used EXCEPT ![table] = now]
    /\ lastUse' = [lastUse EXCEPT ![table] = now]
    /\ UNCHANGED <<now, configured, table, instVars, inflight, callVars, leaveVars, closeVars>>

-----------------------------------------------------------------------------
(* The goroutine of one instance, and its process.                         *)

Launch(i) ==
    /\ st[i] = "starting"
    /\ st' = [st EXCEPT ![i] = "launched"]
    /\ proc' = [proc EXCEPT ![i] = "running"]
    /\ UNCHANGED <<now, configured, table, err, cancelled, useVars, callVars, leaveVars, closeVars>>

\* The handshake is a request of its own, counted as every other.
Initialize(i) ==
    /\ st[i] = "launched"
    /\ st' = [st EXCEPT ![i] = "connecting"]
    /\ inflight' = CountUp(i)
    /\ UNCHANGED <<now, configured, table, err, proc, cancelled, used, lastUse, callVars, leaveVars,
                   closeVars>>

\* No pipes, a start that takes more than 20 seconds, a process that has died.
Fail(i) ==
    /\ st[i] \in {"starting", "connecting"}
    /\ st' = [st EXCEPT ![i] = "failed"]
    /\ err' = err \cup {i}
    /\ inflight' = IF st[i] = "connecting" THEN CountDown(i) ELSE inflight
    /\ used' = IF st[i] = "connecting" THEN UsedAtEnd(i) ELSE used
    /\ UNCHANGED <<now, configured, table, proc, cancelled, lastUse, callVars, leaveVars, closeVars>>

Connected(i) ==
    /\ st[i] = "connecting" /\ proc[i] = "running"
    /\ st' = [st EXCEPT ![i] = "ready"]
    /\ inflight' = CountDown(i)
    /\ used' = UsedAtEnd(i)
    /\ UNCHANGED <<now, configured, table, err, proc, cancelled, lastUse, callVars, leaveVars,
                   closeVars>>

\* session.Wait returns.
SessionEnds(i) ==
    /\ st[i] = "ready"
    /\ st' = [st EXCEPT ![i] = "ending"]
    /\ UNCHANGED <<now, configured, table, err, proc, cancelled, useVars, callVars, leaveVars,
                   closeVars>>

ProcessEnds(i) ==
    /\ proc[i] = "running"
    /\ proc' = [proc EXCEPT ![i] = "ended"]
    /\ UNCHANGED <<now, configured, table, st, err, cancelled, useVars, callVars, leaveVars,
                   closeVars>>

\* The deferred calls: stop waits for the process, then cancel, then done.
Wait_NotBug(i) == TRUE
Wait(i) == proc[i] # "running"

FinishInstance(i) ==
    /\ st[i] \in {"failed", "ending"} /\ Wait(i)
    /\ st' = [st EXCEPT ![i] = "done"]
    /\ cancelled' = cancelled \cup {i}
    /\ UNCHANGED <<now, configured, table, err, proc, useVars, callVars, leaveVars, closeVars>>

-----------------------------------------------------------------------------
(* Idle release and shutdown.                                              *)

\* One scan of reap, under the lock.  A scan may still follow Close.
Reap ==
    /\ Idle > 0 /\ table # None /\ ~Done(table)
    /\ inflight[table] = 0 /\ now - used[table] >= Idle
    /\ expiring' = expiring \cup {table}
    /\ left' = left \cup {table}
    /\ table' = None
    /\ UNCHANGED <<now, configured, instVars, useVars, callVars, leaving, closeVars>>

\* expire: cancel, then report.
Expire(i) ==
    /\ i \in expiring
    /\ expiring' = expiring \ {i}
    /\ cancelled' = cancelled \cup {i}
    /\ UNCHANGED <<now, configured, table, st, err, proc, useVars, callVars, leaving, left,
                   closeVars>>

\* Close: no more sessions, all contexts cancelled, then wait for what the table
\* held.
Shutdown_NoCancelBug == UNCHANGED cancelled
Shutdown == cancelled' = Instances

Close ==
    /\ closer = "open"
    /\ closer' = "waiting"
    /\ awaited' = {table} \ {None}
    /\ Shutdown
    /\ UNCHANGED <<now, configured, table, st, err, proc, useVars, callVars, leaveVars>>

CloseReturns ==
    /\ closer = "waiting" /\ \A i \in awaited : Done(i)
    /\ closer' = "closed"
    /\ UNCHANGED <<now, configured, table, instVars, useVars, callVars, leaveVars, awaited>>

-----------------------------------------------------------------------------
Use(c) == Session(c) \/ Obtain(c) \/ GiveUp(c) \/ BeginRequest(c) \/ EndRequest(c)

Connect(i) == Launch(i) \/ Initialize(i) \/ Fail(i) \/ Connected(i)

Next ==
    \/ Tick \/ Add \/ Remove \/ Restart \/ Touch \/ Reap \/ Close \/ CloseReturns
    \/ \E c \in Calls : Use(c)
    \/ \E i \in Instances :
          \/ Connect(i) \/ SessionEnds(i) \/ ProcessEnds(i) \/ FinishInstance(i)
          \/ FinishRemove(i) \/ Expire(i)

Spec == Init /\ [][Next]_vars

\* connect comes to an end within its timeout; a session ends when its context
\* or its process does; the process ends when stop or the context cancels it;
\* nothing makes callers call or ends a healthy connection.
Fairness ==
    /\ WF_vars(CloseReturns)
    /\ \A c \in Calls : WF_vars(Obtain(c))
    /\ \A i \in Instances :
        /\ WF_vars(Connect(i))
        /\ WF_vars((i \in cancelled \/ proc[i] = "ended") /\ SessionEnds(i))
        /\ WF_vars((i \in cancelled \/ st[i] \in {"failed", "ending"}) /\ ProcessEnds(i))
        /\ WF_vars(FinishInstance(i))
        /\ WF_vars(FinishRemove(i)) /\ WF_vars(Expire(i))

FairSpec == Spec /\ Fairness

-----------------------------------------------------------------------------
(* Properties.                                                             *)

\* The state has the types the code declares.
TypeOK ==
    /\ now \in 0..MaxTime /\ configured \in BOOLEAN
    /\ table \in Instances \cup {None}
    /\ st \in [Instances -> {"free", "starting", "launched", "connecting", "ready", "failed",
                            "ending", "done"}]
    /\ err \subseteq Instances /\ cancelled \subseteq Instances
    /\ proc \in [Instances -> {"none", "running", "ended"}]
    /\ used \in [Instances -> 0..MaxTime] /\ lastUse \in [Instances -> 0..MaxTime]
    /\ inflight \in [Instances -> 0..Cardinality(Calls) + 1]
    /\ call \in [Calls -> {"idle", "waiting", "holding", "requesting", "done", "refused"}]
    /\ on \in [Calls -> Instances \cup {None}]
    /\ expiring \subseteq left /\ leaving \subseteq left
    /\ left \subseteq Instances
    /\ closer \in {"open", "waiting", "closed"} /\ awaited \subseteq Instances

\* Concurrent first calls start the service once: an instance that goes on is
\* the one in the table, or somebody is about to cancel it, or has.  When Close
\* has returned, only instances that had left the table before may still be on
\* their way to the end, and none starts afterwards.
NoOrphanInstance ==
    \A i \in Instances : Began(i) /\ ~Done(i) =>
        /\ i = table \/ i \in expiring \cup leaving \cup cancelled
        /\ closer = "closed" => i \in left

\* done means that the process has ended: a replaced instance never runs beside
\* its successor.
ReplacedAfterProcess ==
    \A i \in Instances : Began(i) /\ i # table /\ i \notin left => proc[i] # "running"

\* Every caller that waits for the start is let go, by success or failure.
SessionsAnswered == \A c \in Calls : call[c] = "waiting" ~> call[c] # "waiting"

\* What reap or Remove takes from the table comes to its end, process included.
TakenInstancesEnd == \A i \in Instances : i \in left ~> Done(i) /\ proc[i] # "running"

\* Close returns, and no process outlives the manager.
CloseEndsAll == (closer # "open") ~> (closer = "closed" /\ \A i \in Instances : proc[i] # "running")

=============================================================================

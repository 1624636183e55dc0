----------------------------- MODULE StreamProcess -----------------------------
(***************************************************************************)
(* The resident process behind a run + streams command                     *)
(* (libs/host/command_process.go): started by the first stream, shared by  *)
(* all, released when idle, and stopped by commands stop and restart and by *)
(* the command hub when its definition is replaced.                        *)
(*                                                                         *)
(* A member of Procs is a streamProcess object: the hub makes a new one for *)
(* every changed definition.  An object runs its program several times, one *)
(* run after the other; a run is its number.  Three callers use stop: the  *)
(* idle timer (one per object, named by the object), the hub and a command. *)
(* stop looks and cancels in two steps and then waits, 5 seconds at most.  *)
(***************************************************************************)
EXTENDS Integers, FiniteSets

CONSTANTS
    Procs,          \* streamProcess objects
    Streams,        \* stream channels of RTC peers
    Commands,       \* invocations of commands start, stop, restart
    Op,             \* what each of them asks for
    Hub,            \* stands for the hub when it stops a replaced object
    IdleTimeout,    \* idle_timeout is configured
    MaxRuns,        \* bound on the runs of an object, for model checking
    None            \* stands for nil

Stoppers == Procs \cup Commands \cup {Hub}

ASSUME StreamProcessAssumption ==
    /\ Op \in [Commands -> {"start", "stop", "restart"}]
    /\ IdleTimeout \in BOOLEAN /\ MaxRuns \in Nat /\ IsFiniteSet(Streams)
    /\ Hub \notin Procs \cup Commands /\ None \notin Procs
    /\ Procs \cap Commands = {}

VARIABLES
    table,      \* the object the hub holds for the command, or None
    fresh,      \* objects not made yet
    running,    \* the field running of each object
    run,        \* the number of its last run
    alive,      \* runs whose program is alive
    cancelled,  \* runs whose context is cancelled
    active,     \* the field active: streams attached
    timer,      \* the idle timer is armed
    stream,     \* where each stream is,
    bound,      \*   and the object it was bound to
    at,         \* where each call of stop is,
    target,     \*   the object it is about
    seen        \*   and the run it has found

hubVars == <<table, fresh>>
runVars == <<running, run, alive>>
streamVars == <<stream, bound>>
stopVars == <<at, target, seen>>
vars == <<hubVars, runVars, cancelled, active, timer, streamVars, stopVars>>

Init ==
    /\ table \in Procs /\ fresh = Procs \ {table}
    /\ running = [p \in Procs |-> FALSE] /\ run = [p \in Procs |-> 0]
    /\ alive = [p \in Procs |-> {}] /\ cancelled = [p \in Procs |-> {}]
    /\ active = [p \in Procs |-> 0] /\ timer = [p \in Procs |-> FALSE]
    /\ stream = [s \in Streams |-> "idle"] /\ bound = [s \in Streams |-> None]
    /\ at = [x \in Stoppers |-> "idle"]
    /\ target = [x \in Stoppers |-> IF x \in Procs THEN x ELSE None]
    /\ seen = [x \in Stoppers |-> 0]

\* armIdleLocked.
Arm(p) == timer' = [timer EXCEPT ![p] = @ \/ IdleTimeout]

\* start: nothing to do while running, however the run fares.
Start(p) ==
    IF running[p] THEN UNCHANGED <<runVars, timer>>
    ELSE /\ run[p] < MaxRuns
         /\ running' = [running EXCEPT ![p] = TRUE]
         /\ run' = [run EXCEPT ![p] = @ + 1]
         /\ alive' = [alive EXCEPT ![p] = @ \cup {run[p] + 1}]
         /\ Arm(p)

-----------------------------------------------------------------------------
(* The program.                                                            *)

\* The program ends, by itself or because its context is cancelled ...
ProgramEnds(p, n) ==
    /\ n \in alive[p]
    /\ alive' = [alive EXCEPT ![p] = @ \ {n}]
    /\ UNCHANGED <<hubVars, running, run, cancelled, active, timer, streamVars, stopVars>>

\* ... and run notices.
RunReturns(p) ==
    /\ running[p] /\ run[p] \notin alive[p]
    /\ running' = [running EXCEPT ![p] = FALSE]
    /\ timer' = [timer EXCEPT ![p] = FALSE]
    /\ UNCHANGED <<hubVars, run, alive, cancelled, active, streamVars, stopVars>>

-----------------------------------------------------------------------------
(* Streams.                                                                *)

\* streamResolver looks the binding up once.
Resolve(s) ==
    /\ stream[s] = "idle" /\ table # None
    /\ stream' = [stream EXCEPT ![s] = "bound"]
    /\ bound' = [bound EXCEPT ![s] = table]
    /\ UNCHANGED <<hubVars, runVars, cancelled, active, timer, stopVars>>

\* attach, in two critical sections.
AttachStart(s) ==
    /\ stream[s] = "bound"
    /\ Start(bound[s])
    /\ stream' = [stream EXCEPT ![s] = "started"]
    /\ UNCHANGED <<hubVars, cancelled, active, bound, stopVars>>

Attach(s) ==
    /\ stream[s] = "started"
    /\ active' = [active EXCEPT ![bound[s]] = @ + 1]
    /\ Arm(bound[s])
    /\ stream' = [stream EXCEPT ![s] = "attached"]
    /\ UNCHANGED <<hubVars, runVars, cancelled, bound, stopVars>>

\* The program is not there, or the caller may not use it.
AttachFails(s) ==
    /\ stream[s] = "bound"
    /\ stream' = [stream EXCEPT ![s] = "ended"]
    /\ UNCHANGED <<hubVars, runVars, cancelled, active, timer, bound, stopVars>>

\* Traffic, and once a minute.
Touch(s) ==
    /\ stream[s] = "attached" /\ running[bound[s]]
    /\ Arm(bound[s])
    /\ UNCHANGED <<hubVars, runVars, cancelled, active, streamVars, stopVars>>

\* detach.
\* (An operator whose name ends in Bug is a faulty variant of the one after it.)
Detach_NoArmBug(p) ==
    /\ active' = [active EXCEPT ![p] = IF @ > 0 THEN @ - 1 ELSE 0]
    /\ UNCHANGED timer
Detach(p) ==
    /\ active' = [active EXCEPT ![p] = IF @ > 0 THEN @ - 1 ELSE 0]
    /\ Arm(p)

StreamEnds(s) ==
    /\ stream[s] = "attached"
    /\ Detach(bound[s])
    /\ stream' = [stream EXCEPT ![s] = "ended"]
    /\ UNCHANGED <<hubVars, runVars, cancelled, bound, stopVars>>

-----------------------------------------------------------------------------
(* stop, whoever calls it.                                                 *)

Go(x, stage) == at' = [at EXCEPT ![x] = stage]

\* What a caller does when stop returns: restart starts, the others are done.
\* The timer and the hub may call stop again.
Afterwards(x) ==
    IF x \notin Commands THEN "idle" ELSE IF Op[x] = "restart" THEN "start" ELSE "done"

\* Under the lock: nothing to stop, or the context of the current run.
StopLooks(x) ==
    /\ at[x] = "stop"
    /\ IF running[target[x]]
       THEN Go(x, "cancel") /\ seen' = [seen EXCEPT ![x] = run[target[x]]]
       ELSE Go(x, Afterwards(x)) /\ UNCHANGED seen
    /\ UNCHANGED <<hubVars, runVars, cancelled, active, timer, streamVars, target>>

StopCancels(x) ==
    /\ at[x] = "cancel"
    /\ cancelled' = [cancelled EXCEPT ![target[x]] = @ \cup {seen[x]}]
    /\ Go(x, "wait")
    /\ UNCHANGED <<hubVars, runVars, active, timer, streamVars, target, seen>>

\* The run has returned, or 5 seconds have passed; the object keeps its state.
GiveUp_ForgetBug(p) == running' = [running EXCEPT ![p] = FALSE]
GiveUp(p) == UNCHANGED running

StopReturns(x) ==
    /\ at[x] = "wait"
    /\ GiveUp(target[x])
    /\ Go(x, Afterwards(x))
    /\ UNCHANGED <<hubVars, run, alive, cancelled, active, timer, streamVars, target, seen>>

\* The idle timer fires, looks whether the object is idle, and stops it.
TimerFires(p) ==
    /\ timer[p] /\ at[p] = "idle"
    /\ timer' = [timer EXCEPT ![p] = FALSE]
    /\ Go(p, "look")
    /\ UNCHANGED <<hubVars, runVars, cancelled, active, streamVars, target, seen>>

TimerLooks(p) ==
    /\ at[p] = "look"
    /\ Go(p, IF active[p] = 0 THEN "stop" ELSE "idle")
    /\ UNCHANGED <<hubVars, runVars, cancelled, active, timer, streamVars, target, seen>>

\* The hub replaces the object or drops the command, then stops the old one.
Replace ==
    /\ at[Hub] = "idle"
    /\ \/ table' \in fresh
       \/ table # None /\ table' = None
    /\ fresh' = fresh \ {table'}
    /\ IF table # None
       THEN Go(Hub, "stop") /\ target' = [target EXCEPT ![Hub] = table]
       ELSE UNCHANGED <<at, target>>
    /\ UNCHANGED <<runVars, cancelled, active, timer, streamVars, seen>>

\* startStop looks the object up once.
CommandBegins(c) ==
    /\ at[c] = "idle" /\ table # None
    /\ target' = [target EXCEPT ![c] = table]
    /\ Go(c, IF Op[c] = "start" THEN "start" ELSE "stop")
    /\ UNCHANGED <<hubVars, runVars, cancelled, active, timer, streamVars, seen>>

CommandStarts(c) ==
    /\ at[c] = "start"
    /\ Start(target[c])
    /\ Go(c, "done")
    /\ UNCHANGED <<hubVars, cancelled, active, streamVars, target, seen>>

-----------------------------------------------------------------------------
Serve(s) == Resolve(s) \/ AttachStart(s) \/ Attach(s) \/ AttachFails(s) \/ Touch(s) \/ StreamEnds(s)

Stop(x) == StopLooks(x) \/ StopCancels(x) \/ StopReturns(x)

Next ==
    \/ Replace
    \/ \E p \in Procs : RunReturns(p) \/ TimerFires(p) \/ TimerLooks(p)
    \/ \E p \in Procs, n \in 1..MaxRuns : ProgramEnds(p, n)
    \/ \E s \in Streams : Serve(s)
    \/ \E x \in Stoppers : Stop(x)
    \/ \E c \in Commands : CommandBegins(c) \/ CommandStarts(c)

Spec == Init /\ [][Next]_vars

\* The timer and every goroutine that has begun go on; a cancelled program ends.
\* Nothing makes streams come or go, or a healthy program end.
Fairness ==
    /\ \A p \in Procs : WF_vars(TimerFires(p)) /\ WF_vars(TimerLooks(p)) /\ WF_vars(RunReturns(p))
    /\ \A p \in Procs, n \in 1..MaxRuns : WF_vars(n \in cancelled[p] /\ ProgramEnds(p, n))
    /\ \A x \in Stoppers : WF_vars(Stop(x))

FairSpec == Spec /\ Fairness

-----------------------------------------------------------------------------
(* Properties.                                                             *)

Attached(p) == {s \in Streams : stream[s] = "attached" /\ bound[s] = p}

\* The state has the types the code declares, and active counts the streams
\* attached.
TypeOK ==
    /\ table \in Procs \cup {None} /\ fresh \subseteq Procs
    /\ running \in [Procs -> BOOLEAN] /\ run \in [Procs -> 0..MaxRuns]
    /\ alive \in [Procs -> SUBSET (1..MaxRuns)]
    /\ \A p \in Procs : cancelled[p] \subseteq 1..run[p]
    /\ \A p \in Procs : active[p] = Cardinality(Attached(p))
    /\ timer \in [Procs -> BOOLEAN]
    /\ stream \in [Streams -> {"idle", "bound", "started", "attached", "ended"}]
    /\ bound \in [Streams -> Procs \cup {None}]
    /\ at \in [Stoppers -> {"idle", "look", "stop", "cancel", "wait", "start", "done"}]
    /\ target \in [Stoppers -> Procs \cup {None}]
    /\ seen \in [Stoppers -> 0..MaxRuns]

\* Two runs of one object never overlap, though a stop that waited 5 seconds
\* in vain may be followed by a start: they would fight for one address.
OneRunAtATime == \A p \in Procs : alive[p] \subseteq {run[p]} /\ (alive[p] # {} => running[p])

\* With an idle timeout, a process that nobody uses ends, whatever order starts,
\* streams and timers came in: its timer is always armed again.
IdleEnds ==
    \A p \in Procs : (running[p] /\ active[p] = 0) ~> (~running[p] \/ active[p] > 0)

=============================================================================

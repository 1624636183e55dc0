------------------------------ MODULE TaskTable ------------------------------
(***************************************************************************)
(* The execution record table of libs/execution (tasks.go, wait.go) with   *)
(* its two callers in libs/host: execScript, which runs a script and waits *)
(* for it in the foreground, and DisconnectTools, which cancels the runs   *)
(* of a lost RTC connection.                                               *)
(*                                                                         *)
(* One member of Exec is one delivery of an exec request.  Four kinds of   *)
(* goroutine touch its record: the handler that waits (handler), the       *)
(* goroutine that runs the script (script), the goroutines that watch a    *)
(* killed run during the grace period (busy: a script inside "bg kill",    *)
(* asyncWatch: the observer started by a cancel request), and the close of *)
(* a connection (conn, pend).  An action is what one of them does while it *)
(* holds the table lock or the record lock, or one call made outside both. *)
(*                                                                         *)
(* An operator whose name ends in _Bug is a faulty variant of the one      *)
(* after it; nothing uses it but the runs that check that a property       *)
(* notices the fault.                                                      *)
(***************************************************************************)
EXTENDS Integers, FiniteSets

CONSTANTS
    Exec,          \* deliveries of exec requests
    RequestIds,    \* request ids, the primary keys of the table
    Owners,        \* users (caller.Subject)
    Sessions,      \* sessions (caller.Origin)
    Conns,         \* transport connections
    DirectConns,   \* those of Conns that are RTC connections (caller.Direct)
    RequestID,     \* the request id, owner, session and connection
    Owner,         \*   of each delivery
    Session,
    Conn,
    Heeds,         \* scripts that stop within KillGrace of a cancellation
    MaxGlobal,     \* running background runs allowed: in all,
    MaxPerOwner,   \*   and for one owner
    MaxRetained,   \* finished background runs kept
    None           \* stands for nil

ASSUME TaskTableAssumption ==
    /\ IsFiniteSet(Exec)
    /\ DirectConns \subseteq Conns
    /\ RequestID \in [Exec -> RequestIds]
    /\ Owner \in [Exec -> Owners]
    /\ Session \in [Exec -> Sessions]
    /\ Conn \in [Exec -> Conns]
    /\ Heeds \subseteq Exec
    /\ MaxGlobal \in Nat /\ MaxPerOwner \in Nat /\ MaxRetained \in Nat
    /\ None \notin Exec

VARIABLES
    handler,     \* where execScript is for each delivery; its outcome at last
    ctxEnded,    \* deliveries whose request context has ended
    script,      \* the execution goroutine: "none", "running", "ended"
    ctx,         \* the run context: "live", "cancelled", "deadline"
    result,      \* what the script left: "none", "timeout" or "over" (done or error)
    main,        \* runs[requestID]
    shadow,      \* runs kept under a shadow key (key#seq)
    byBG,        \* runs in the background index
    seq,         \* last registration number, and that of each run
    regNo,
    bgSeq,       \* last background number, and that of each run (0: none)
    bgNo,
    bgRunning,   \* the counters behind the capacity limits
    bgByOwner,
    settled,     \* record fields: settled, killed, killWatch, killUnresponsive
    killed,
    killWatch,
    killUnresponsive,
    busy,        \* the run a script is killing with "bg kill", or None
    asyncWatch,  \* observers started by cancel requests
    conn,        \* "open", "closed" (lease cleared), "cancelling"
    pend         \* runs collected by CancelConnection, not yet cancelled

handlerVars == <<handler, ctxEnded>>
scriptVars == <<script, ctx, result>>
tableVars == <<main, shadow, byBG, seq, regNo, bgSeq, bgNo, bgRunning, bgByOwner>>
killVars == <<killed, killWatch, killUnresponsive>>
watchVars == <<busy, asyncWatch>>
connVars == <<conn, pend>>
vars == <<handlerVars, scriptVars, tableVars, settled, killVars, watchVars, connVars>>

Outcomes == {"completed", "background", "waitElapsed", "capacity", "interrupted"}

Background(e) == bgNo[e] > 0
Registered(e) == regNo[e] > 0
Direct(e) == Conn[e] \in DirectConns
SameCaller(e, f) == Owner[e] = Owner[f] /\ Session[e] = Session[f]

\* Background runs that hold a slot: all of them, and those of one owner.
Slots == {e \in Exec : Background(e) /\ e \notin settled}
OwnerSlots(o) == {e \in Slots : Owner[e] = o}

\* What bg list and bg wait report of a run.
Status(e) ==
    CASE e \notin settled /\ e \in killUnresponsive -> "kill-unresponsive"
      [] e \notin settled /\ e \notin killUnresponsive -> "running"
      [] e \in settled /\ e \in killed -> "killed"
      [] OTHER -> result[e]

Init ==
    /\ handler = [e \in Exec |-> "idle"]
    /\ ctxEnded = {}
    /\ script = [e \in Exec |-> "none"]
    /\ ctx = [e \in Exec |-> "live"]
    /\ result = [e \in Exec |-> "none"]
    /\ main = [q \in RequestIds |-> None]
    /\ shadow = {} /\ byBG = {}
    /\ seq = 0 /\ regNo = [e \in Exec |-> 0]
    /\ bgSeq = 0 /\ bgNo = [e \in Exec |-> 0]
    /\ bgRunning = 0 /\ bgByOwner = [o \in Owners |-> 0]
    /\ settled = {} /\ killed = {} /\ killWatch = {} /\ killUnresponsive = {}
    /\ busy = [e \in Exec |-> None]
    /\ asyncWatch = [e \in Exec |-> 0]
    /\ conn = [c \in Conns |-> "open"]
    /\ pend = [c \in Conns |-> {}]

-----------------------------------------------------------------------------
(* The table's helpers.                                                    *)

\* Remove a set of runs from the primary index, whichever key they have.
Unlink(R) ==
    /\ main' = [q \in RequestIds |-> IF main[q] \in R THEN None ELSE main[q]]
    /\ shadow' = shadow \ R

\* The finished runs evictLocked drops from the background index when S are
\* the settled runs: the oldest ones, until MaxRetained are left.
Evicted(S) ==
    {e \in byBG \cap S : Cardinality({f \in byBG \cap S : bgNo[f] > bgNo[e]}) >= MaxRetained}

\* evictLocked, and the runs New enter the index.
Evict(S, New) ==
    /\ byBG' = (byBG \ Evicted(S)) \cup New
    /\ Unlink(Evicted(S))

\* A new record takes the primary key; the run that had it moves to a shadow key.
Publish_OverwriteBug(e) ==
    /\ main' = [main EXCEPT ![RequestID[e]] = e]
    /\ UNCHANGED shadow
Publish(e) ==
    /\ main' = [main EXCEPT ![RequestID[e]] = e]
    /\ shadow' = (shadow \cup {main[RequestID[e]]}) \ {None}

\* A background run that ends gives its place back.
ReleaseSlot_OwnerBug(e) ==
    /\ bgRunning' = bgRunning - 1
    /\ UNCHANGED bgByOwner
ReleaseSlot(e) ==
    /\ bgRunning' = bgRunning - 1
    /\ bgByOwner' = [bgByOwner EXCEPT ![Owner[e]] = @ - 1]

\* The run context is cancelled once; its first cause stays.
CtxCancelled(R) ==
    ctx' = [e \in Exec |-> IF e \in R /\ ctx[e] = "live" THEN "cancelled" ELSE ctx[e]]

-----------------------------------------------------------------------------
(* The handler of a request: dispatch, execScript, Execute.                *)

\* The request passes Caller.Validate: its connection holds a lease and its
\* context has not ended.
Admit(e) ==
    /\ handler[e] = "idle"
    /\ conn[Conn[e]] = "open"
    /\ e \notin ctxEnded
    /\ handler' = [handler EXCEPT ![e] = "admitted"]
    /\ UNCHANGED <<ctxEnded, scriptVars, tableVars, settled, killVars, watchVars, connVars>>

\* The deadline of a NATS request passes.  The context of an RTC request is
\* the peer's and ends with it (ClosePeer).
EndContext(e) ==
    /\ ~Direct(e)
    /\ handler[e] \in {"admitted", "waiting"}
    /\ e \notin ctxEnded
    /\ ctxEnded' = ctxEnded \cup {e}
    /\ UNCHANGED <<handler, scriptVars, tableVars, settled, killVars, watchVars, connVars>>

\* register publishes the record, then Execute starts the script.
Register(e) ==
    /\ handler[e] = "admitted"
    /\ seq' = seq + 1
    /\ regNo' = [regNo EXCEPT ![e] = seq + 1]
    /\ Publish(e)
    /\ handler' = [handler EXCEPT ![e] = "waiting"]
    /\ script' = [script EXCEPT ![e] = "running"]
    /\ UNCHANGED <<ctxEnded, ctx, result, byBG, bgSeq, bgNo, bgRunning, bgByOwner,
                   settled, killVars, watchVars, connVars>>

\* The three ways out of Execute's select; when several are ready Go picks any.
WaitDone(e) ==
    /\ handler[e] = "waiting" /\ e \in settled
    /\ handler' = [handler EXCEPT ![e] = "completed"]
    /\ UNCHANGED <<ctxEnded, scriptVars, tableVars, settled, killVars, watchVars, connVars>>

WaitInterrupted(e) ==
    /\ handler[e] = "waiting" /\ e \in ctxEnded
    /\ handler' = [handler EXCEPT ![e] = "interrupted"]
    /\ UNCHANGED <<ctxEnded, scriptVars, tableVars, settled, killVars, watchVars, connVars>>

MayAdopt_AlwaysBug(e) == TRUE
MayAdopt(e) == ~Direct(e)

WaitTimer(e) ==
    /\ handler[e] = "waiting"
    /\ handler' = [handler EXCEPT ![e] = IF MayAdopt(e) THEN "adopting" ELSE "waitElapsed"]
    /\ UNCHANGED <<ctxEnded, scriptVars, tableVars, settled, killVars, watchVars, connVars>>

\* adoptBackground, one critical section: evict, then decide.  The run may have
\* ended meanwhile (its result is the answer), there may be no place, or the
\* same record becomes a background run.
OverMeanwhile_Bug(e) == FALSE
OverMeanwhile(e) == e \in settled

Full_OffByOneBug(e) == bgRunning >= MaxGlobal \/ bgByOwner[Owner[e]] > MaxPerOwner
Full(e) == bgRunning >= MaxGlobal \/ bgByOwner[Owner[e]] >= MaxPerOwner

AdoptLate(e) ==
    /\ handler[e] = "adopting" /\ OverMeanwhile(e)
    /\ handler' = [handler EXCEPT ![e] = "completed"]
    /\ Evict(settled, {})
    /\ UNCHANGED <<ctxEnded, scriptVars, seq, regNo, bgSeq, bgNo, bgRunning, bgByOwner,
                   settled, killVars, watchVars, connVars>>

AdoptRefused(e) ==
    /\ handler[e] = "adopting" /\ e \notin settled /\ Full(e)
    /\ handler' = [handler EXCEPT ![e] = "refused"]
    /\ Evict(settled, {})
    /\ UNCHANGED <<ctxEnded, scriptVars, seq, regNo, bgSeq, bgNo, bgRunning, bgByOwner,
                   settled, killVars, watchVars, connVars>>

AdoptGranted(e) ==
    /\ handler[e] = "adopting" /\ e \notin settled /\ ~Full(e)
    /\ handler' = [handler EXCEPT ![e] = "background"]
    /\ Evict(settled, {e})
    /\ bgSeq' = bgSeq + 1
    /\ bgNo' = [bgNo EXCEPT ![e] = bgSeq + 1]
    /\ bgRunning' = bgRunning + 1
    /\ bgByOwner' = [bgByOwner EXCEPT ![Owner[e]] = @ + 1]
    /\ UNCHANGED <<ctxEnded, scriptVars, seq, regNo, settled, killVars, watchVars, connVars>>

Adopt(e) == AdoptLate(e) \/ AdoptRefused(e) \/ AdoptGranted(e)

\* No slot: Execute cancels the run before it answers.
CancelRefused_Bug(e) ==
    /\ handler[e] = "refused"
    /\ handler' = [handler EXCEPT ![e] = "capacity"]
    /\ UNCHANGED <<ctxEnded, scriptVars, tableVars, settled, killVars, watchVars, connVars>>
CancelRefused(e) ==
    /\ handler[e] = "refused"
    /\ handler' = [handler EXCEPT ![e] = "capacity"]
    /\ CtxCancelled({e})
    /\ UNCHANGED <<ctxEnded, script, result, tableVars, settled, killVars, watchVars, connVars>>

-----------------------------------------------------------------------------
(* The execution goroutine.                                                *)

\* The wall clock of the run context fires.  A request without a timeout gets
\* the default one.
WallClock(e) ==
    /\ script[e] = "running" /\ ctx[e] = "live"
    /\ ctx' = [ctx EXCEPT ![e] = "deadline"]
    /\ UNCHANGED <<handlerVars, script, result, tableVars, settled, killVars, watchVars, connVars>>

\* eng.Exec returns; past the wall clock the exit code becomes 124.  A script
\* that is inside "bg kill" cannot end before the command returns.
ScriptEnd(e) ==
    /\ script[e] = "running" /\ busy[e] = None
    /\ script' = [script EXCEPT ![e] = "ended"]
    /\ result' = [result EXCEPT ![e] = IF ctx[e] = "deadline" THEN "timeout" ELSE "over"]
    /\ UNCHANGED <<handlerVars, ctx, tableVars, settled, killVars, watchVars, connVars>>

HoldsSlot(e) == Background(e)

\* finish: settle once; a foreground record leaves the table, a background one
\* frees its slot and may push older history out.  The goroutine ends with its
\* deferred cancel.
Finish(e) ==
    /\ script[e] = "ended" /\ e \notin settled
    /\ settled' = settled \cup {e}
    /\ IF HoldsSlot(e)
       THEN ReleaseSlot(e) /\ Evict(settled \cup {e}, {})
       ELSE Unlink({e}) /\ UNCHANGED <<byBG, bgRunning, bgByOwner>>
    /\ CtxCancelled({e})
    /\ UNCHANGED <<handlerVars, script, result, seq, regNo, bgSeq, bgNo,
                   killVars, watchVars, connVars>>

-----------------------------------------------------------------------------
(* Kill and cancel.                                                        *)

\* Both refuse a run that has ended.
Killable(e) == e \notin settled

\* "bg kill" run by a script: Kill marks and cancels, then the script is held
\* in waitKill.  cancel() is called after the unlock; between the two nobody
\* can tell, so both are one step.
Kill(by, e) ==
    /\ script[by] = "running" /\ ctx[by] = "live" /\ busy[by] = None
    /\ e \in byBG /\ SameCaller(by, e) /\ Killable(e)
    /\ killed' = killed \cup {e}
    /\ killWatch' = killWatch \cup {e}
    /\ CtxCancelled({e})
    /\ busy' = [busy EXCEPT ![by] = e]
    /\ UNCHANGED <<handlerVars, script, result, tableVars, settled, killUnresponsive,
                   asyncWatch, connVars>>

\* A cancel request starts an observer unless the run has had one.
NeedsObserver_NeverBug(e) == FALSE
NeedsObserver(e) == e \notin killWatch

\* CancelByRequest finds the run under its primary key.  A background run is
\* marked killed and observed.
CancelByRequest(q) ==
    LET e == main[q]
    IN  /\ e # None /\ Killable(e)
        /\ CtxCancelled({e})
        /\ IF Background(e)
           THEN /\ killed' = killed \cup {e}
                /\ killWatch' = killWatch \cup {e}
                /\ asyncWatch' = IF NeedsObserver(e) THEN [asyncWatch EXCEPT ![e] = @ + 1]
                                 ELSE asyncWatch
           ELSE UNCHANGED <<killed, killWatch, asyncWatch>>
        /\ UNCHANGED <<handlerVars, script, result, tableVars, settled, killUnresponsive,
                       busy, connVars>>

\* waitKill: the run ended in time ...
KillReturns(by) ==
    /\ busy[by] # None /\ busy[by] \in settled
    /\ busy' = [busy EXCEPT ![by] = None]
    /\ UNCHANGED <<handlerVars, scriptVars, tableVars, settled, killVars, asyncWatch, connVars>>

ObserverReturns(e) ==
    /\ asyncWatch[e] > 0 /\ e \in settled
    /\ asyncWatch' = [asyncWatch EXCEPT ![e] = @ - 1]
    /\ UNCHANGED <<handlerVars, scriptVars, tableVars, settled, killVars, busy, connVars>>

\* ... or the grace period is over and the record says that it has not.  A
\* script that heeds cancellation ends within the grace period, unless it is
\* itself the one that waits.
GraceOver(e) == e \notin settled /\ (e \in Heeds => busy[e] = e)

KillGraceOver(by) ==
    /\ busy[by] # None /\ GraceOver(busy[by])
    /\ killUnresponsive' = killUnresponsive \cup {busy[by]}
    /\ busy' = [busy EXCEPT ![by] = None]
    /\ UNCHANGED <<handlerVars, scriptVars, tableVars, settled, killed, killWatch,
                   asyncWatch, connVars>>

ObserverGraceOver(e) ==
    /\ asyncWatch[e] > 0 /\ GraceOver(e)
    /\ killUnresponsive' = killUnresponsive \cup {e}
    /\ asyncWatch' = [asyncWatch EXCEPT ![e] = @ - 1]
    /\ UNCHANGED <<handlerVars, scriptVars, tableVars, settled, killed, killWatch,
                   busy, connVars>>

-----------------------------------------------------------------------------
(* The loss of an RTC connection.                                          *)

\* peer.close: the peer's context ends and its lease is cleared.
ClosePeer(c) ==
    /\ c \in DirectConns /\ conn[c] = "open"
    /\ conn' = [conn EXCEPT ![c] = "closed"]
    /\ ctxEnded' = ctxEnded \cup {e \in Exec : Conn[e] = c}
    /\ UNCHANGED <<handler, scriptVars, tableVars, settled, killVars, watchVars, pend>>

\* CancelConnection under the table lock: collect the foreground runs ...
CancelConnection(c) ==
    /\ conn[c] = "closed"
    /\ conn' = [conn EXCEPT ![c] = "cancelling"]
    /\ pend' = [pend EXCEPT ![c] =
                  {e \in {main[q] : q \in RequestIds} \cup shadow :
                      e # None /\ Conn[e] = c /\ e \notin settled /\ ~Background(e)}]
    /\ UNCHANGED <<handlerVars, scriptVars, tableVars, settled, killVars, watchVars>>

\* ... and cancel them one by one after the unlock.
CancelCollected(c, e) ==
    /\ e \in pend[c]
    /\ pend' = [pend EXCEPT ![c] = @ \ {e}]
    /\ CtxCancelled({e})
    /\ UNCHANGED <<handlerVars, script, result, tableVars, settled, killVars, watchVars, conn>>

-----------------------------------------------------------------------------
Handle(e) ==
    \/ Admit(e) \/ EndContext(e) \/ Register(e)
    \/ WaitDone(e) \/ WaitInterrupted(e) \/ WaitTimer(e)
    \/ Adopt(e) \/ CancelRefused(e)

Run(e) == WallClock(e) \/ ScriptEnd(e) \/ Finish(e)

Watch(e) ==
    \/ KillReturns(e) \/ KillGraceOver(e)
    \/ ObserverReturns(e) \/ ObserverGraceOver(e)

Next ==
    \/ \E e \in Exec : Handle(e) \/ Run(e) \/ Watch(e)
    \/ \E by, e \in Exec : Kill(by, e)
    \/ \E q \in RequestIds : CancelByRequest(q)
    \/ \E c \in Conns : ClosePeer(c) \/ CancelConnection(c)
    \/ \E c \in Conns, e \in Exec : CancelCollected(c, e)

Spec == Init /\ [][Next]_vars

\* A goroutine that can move moves: timers fire, selects and unlocked calls
\* go on, a script whose context is over returns if it heeds contexts.
\* Nothing obliges requests to come, scripts to end by themselves, users to
\* kill or peers to close.
Fairness ==
    /\ \A e \in Exec :
        /\ WF_vars(WaitDone(e) \/ WaitInterrupted(e) \/ WaitTimer(e))
        /\ WF_vars(Adopt(e))
        /\ WF_vars(CancelRefused(e))
        /\ WF_vars(WallClock(e))
        /\ WF_vars(e \in Heeds /\ ctx[e] # "live" /\ ScriptEnd(e))
        /\ WF_vars(Finish(e))
        /\ WF_vars(Watch(e))
    /\ \A c \in Conns :
        /\ WF_vars(CancelConnection(c))
        /\ \A e \in Exec : WF_vars(CancelCollected(c, e))

FairSpec == Spec /\ Fairness

-----------------------------------------------------------------------------
(* Properties.                                                             *)

\* The state has the types the code declares.
TypeOK ==
    /\ handler \in [Exec -> {"idle", "admitted", "waiting", "adopting", "refused"}
                              \cup Outcomes]
    /\ ctxEnded \subseteq Exec
    /\ script \in [Exec -> {"none", "running", "ended"}]
    /\ ctx \in [Exec -> {"live", "cancelled", "deadline"}]
    /\ result \in [Exec -> {"none", "timeout", "over"}]
    /\ main \in [RequestIds -> Exec \cup {None}]
    /\ shadow \subseteq Exec /\ byBG \subseteq Exec
    /\ seq \in Nat /\ regNo \in [Exec -> Nat]
    /\ bgSeq \in Nat /\ bgNo \in [Exec -> Nat]
    /\ bgRunning \in Nat /\ bgByOwner \in [Owners -> Nat]
    /\ settled \subseteq Exec /\ killed \subseteq Exec
    /\ killWatch \subseteq Exec /\ killUnresponsive \subseteq Exec
    /\ busy \in [Exec -> Exec \cup {None}]
    /\ asyncWatch \in [Exec -> Nat]
    /\ conn \in [Conns -> {"open", "closed", "cancelling"}]
    /\ pend \in [Conns -> SUBSET Exec]

\* The two counters adoptBackground decides by, which finish, kill, eviction
\* and key collisions all go round, count exactly the background runs that
\* have not ended, in all and for each owner: no slot leaks, none is freed twice.
SlotAccounting ==
    /\ bgRunning = Cardinality(Slots)
    /\ \A o \in Owners : bgByOwner[o] = Cardinality(OwnerSlots(o))

\* Never more background runs than the two limits of the table.
CapsRespected ==
    /\ Cardinality(Slots) <= MaxGlobal
    /\ \A o \in Owners : Cardinality(OwnerSlots(o)) <= MaxPerOwner

\* A run that has not ended can always be found: under its request id or a
\* shadow key by the cleanup of its connection, and in the background by bg
\* list and bg kill.  Collisions and eviction lose nobody.
UnsettledReachable ==
    \A e \in Exec : Registered(e) /\ e \notin settled =>
        /\ main[RequestID[e]] = e \/ e \in shadow
        /\ Background(e) => e \in byBG

\* A request id names the latest run registered under it: while that run goes
\* on, cancel(request_id) never reaches an older one.
MainIsLatest ==
    \A e \in Exec : Registered(e) /\ e \notin settled /\ main[RequestID[e]] # e =>
        \E f \in Exec : RequestID[f] = RequestID[e] /\ regNo[f] > regNo[e]

\* CancelConnection calls the cancel functions after it has released the lock.
\* None of the runs it has collected is a background run by then: the loss of
\* a connection does not end background work.
DisconnectSparesBackground ==
    \A c \in Conns : \A e \in pend[c] : ~Background(e)

\* When the cleanup of a lost connection looks at the table, no foreground run
\* registered for that connection escapes it, whatever keys the runs have.
CleanupCollectsAll ==
    [][\A c \in Conns : conn[c] # conn'[c] /\ conn'[c] = "cancelling" =>
          {e \in Exec : Conn[e] = c /\ Registered(e) /\ e \notin settled} \subseteq pend'[c]]_vars

\* The answer a caller got is consistent with the record: "completed" only of a
\* run that ended in the foreground, "background" only of one that has a
\* number, and no run goes on unregistered and uncancelled after "capacity".
AnswersTrue ==
    \A e \in Exec :
        /\ handler[e] = "completed" => e \in settled /\ ~Background(e)
        /\ handler[e] = "background" <=> Background(e)
        /\ handler[e] = "capacity" => ctx[e] # "live"

\* What is reported of a finished run is final: a kill or a cancel that comes
\* late does not turn "done" into "killed".
StatusFinal == [][\A e \in settled : Status(e)' = Status(e)]_vars

\* Every foreground wait gets an answer, even for a script that ignores
\* cancellation.
EveryWaitAnswered ==
    \A e \in Exec : handler[e] = "waiting" ~> handler[e] \in Outcomes

\* A killed run is settled as killed or reported as unresponsive.
KillResolved == \A e \in Exec : e \in killed ~> e \in settled \cup killUnresponsive

\* TaskTable implements the abstract service.
Service == INSTANCE ExecService WITH
    phase <- [e \in Exec |-> IF ~Registered(e) THEN "idle"
                             ELSE IF e \in settled THEN "finished"
                             ELSE IF Background(e) THEN "background"
                             ELSE "foreground"],
    answer <- [e \in Exec |-> IF handler[e] \in Outcomes THEN handler[e] ELSE "none"]

ServiceSpec == Service!Spec

-----------------------------------------------------------------------------
(* What the sources say and the code does not do.                          *)

\* tools.go: once the cleanup of a lost connection is over, no foreground run
\* of that connection goes on uncancelled.
DisconnectStopsForeground ==
    \A e \in Exec :
        (conn[Conn[e]] = "cancelling" /\ pend[Conn[e]] = {} /\ Registered(e) /\ e \notin settled)
            => ctx[e] # "live" \/ Background(e)

=============================================================================

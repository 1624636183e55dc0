-------------------------- MODULE StreamProcessProofs --------------------------
(***************************************************************************)
(* Theorems about StreamProcess for any number of objects, streams,        *)
(* commands and runs.                                                      *)
(***************************************************************************)
EXTENDS StreamProcess, FiniteSetTheorems, TLAPS

\* The types of TypeOK.  That active counts the streams is a part of its own.
Types ==
    /\ table \in Procs \cup {None} /\ fresh \subseteq Procs
    /\ running \in [Procs -> BOOLEAN] /\ run \in [Procs -> 0..MaxRuns]
    /\ alive \in [Procs -> SUBSET (1..MaxRuns)]
    /\ cancelled \in [Procs -> SUBSET Nat] /\ active \in [Procs -> Nat]
    /\ timer \in [Procs -> BOOLEAN]
    /\ stream \in [Streams -> {"idle", "bound", "started", "attached", "ended"}]
    /\ bound \in [Streams -> Procs \cup {None}]
    /\ at \in [Stoppers -> {"idle", "look", "stop", "cancel", "wait", "start", "done"}]
    /\ target \in [Stoppers -> Procs \cup {None}]
    /\ seen \in [Stoppers -> 0..MaxRuns]

\* Who is on its way to stop or start an object knows which, and what is to be
\* cancelled is a run there has been.
Aimed ==
    /\ \A x \in Stoppers : at[x] \in {"stop", "cancel", "wait", "start"} => target[x] \in Procs
    /\ \A x \in Procs : target[x] = x
    /\ \A s \in Streams : stream[s] \in {"bound", "started", "attached"} => bound[s] \in Procs
    /\ \A x \in Stoppers : at[x] = "cancel" => seen[x] \in 1..run[target[x]]
    /\ \A p \in Procs : running[p] => run[p] > 0
    /\ \A p \in Procs : cancelled[p] \subseteq 1..run[p]

ActiveExact == \A p \in Procs : active[p] = Cardinality(Attached(p))

\* With an idle timeout, a process that nobody uses is being watched: the timer
\* is armed or at work, or the context of this very run is cancelled.
IdleWatched ==
    \A p \in Procs : IdleTimeout /\ running[p] /\ active[p] = 0 =>
        \/ timer[p]
        \/ at[p] \in {"look", "stop"}
        \/ at[p] = "cancel" /\ seen[p] = run[p]
        \/ run[p] \in cancelled[p]

Inv == Types /\ Aimed /\ OneRunAtATime /\ ActiveExact /\ IdleWatched

-----------------------------------------------------------------------------
(* The streams attached to an object.                                      *)

LEMMA AttachedFinite ==
    \A p : IsFiniteSet(Attached(p)) /\ Cardinality(Attached(p)) \in Nat
<1> TAKE p
<1>1. Attached(p) \subseteq Streams /\ IsFiniteSet(Streams)
  BY StreamProcessAssumption DEF Attached
<1> QED
  BY <1>1, FS_Subset, FS_CardinalityType

LEMMA AttachedKept ==
    ASSUME Types, NEW s \in Streams, stream[s] # "attached",
           \E v : v # "attached" /\ stream' = [stream EXCEPT ![s] = v],
           \A q \in Streams \ {s} : bound'[q] = bound[q]
    PROVE  \A p \in Procs : Attached(p)' = Attached(p)
BY DEF Attached, Types

LEMMA AttachedMore ==
    ASSUME Types, NEW s \in Streams, stream[s] # "attached", bound[s] \in Procs,
           stream' = [stream EXCEPT ![s] = "attached"], bound' = bound
    PROVE  \A p \in Procs : Cardinality(Attached(p)') =
               IF p = bound[s] THEN Cardinality(Attached(p)) + 1 ELSE Cardinality(Attached(p))
<1> TAKE p \in Procs
<1>1. CASE p = bound[s]
  <2>1. Attached(p)' = Attached(p) \cup {s} /\ s \notin Attached(p)
    BY <1>1 DEF Attached, Types
  <2> QED
    BY <1>1, <2>1, AttachedFinite, FS_AddElement
<1>2. CASE p # bound[s]
  <2>1. Attached(p)' = Attached(p)
    BY <1>2 DEF Attached, Types
  <2> QED
    BY <1>2, <2>1
<1> QED
  BY <1>1, <1>2

LEMMA AttachedLess ==
    ASSUME Types, NEW s \in Streams, stream[s] = "attached", bound[s] \in Procs,
           stream' = [stream EXCEPT ![s] = "ended"], bound' = bound
    PROVE  /\ Cardinality(Attached(bound[s])) > 0
           /\ \A p \in Procs : Cardinality(Attached(p)') =
               IF p = bound[s] THEN Cardinality(Attached(p)) - 1 ELSE Cardinality(Attached(p))
<1>1. s \in Attached(bound[s])
  BY DEF Attached
<1>2. /\ Cardinality(Attached(bound[s]) \ {s}) = Cardinality(Attached(bound[s])) - 1
      /\ Cardinality(Attached(bound[s]) \ {s}) \in Nat
  BY <1>1, AttachedFinite, FS_RemoveElement, FS_CardinalityType
<1>3. Attached(bound[s])' = Attached(bound[s]) \ {s}
  BY DEF Attached, Types
<1>4. \A p \in Procs : p # bound[s] => Attached(p)' = Attached(p)
  BY DEF Attached, Types
<1>5. Cardinality(Attached(bound[s])) > 0
  BY <1>2, AttachedFinite
<1>6. ASSUME NEW p \in Procs
      PROVE  Cardinality(Attached(p)') =
               IF p = bound[s] THEN Cardinality(Attached(p)) - 1 ELSE Cardinality(Attached(p))
  <2>1. CASE p = bound[s]
    BY <1>2, <1>3, <2>1
  <2>2. CASE p # bound[s]
    BY <1>4, <2>2
  <2> QED
    BY <2>1, <2>2
<1> QED
  BY <1>5, <1>6

-----------------------------------------------------------------------------
(* The steps.                                                              *)

LEMMA InitInv == Init => Inv
<1> SUFFICES ASSUME Init PROVE Inv
  OBVIOUS
<1> USE StreamProcessAssumption DEF Init
<1>1. Types
  BY DEF Types, Stoppers
<1>2. Aimed /\ OneRunAtATime /\ IdleWatched
  BY DEF Aimed, OneRunAtATime, IdleWatched, Stoppers
<1>3. ActiveExact
  <2>1. \A p \in Procs : Attached(p) = {}
    BY DEF Attached
  <2> QED
    BY <2>1, FS_EmptySet DEF ActiveExact
<1> QED
  BY <1>1, <1>2, <1>3 DEF Inv

\* A start begins the next run and arms the timer, or finds the object running.
LEMMA StartEffect ==
    ASSUME Types, NEW p \in Procs, Start(p)
    PROVE  /\ running' \in [Procs -> BOOLEAN] /\ run' \in [Procs -> 0..MaxRuns]
           /\ alive' \in [Procs -> SUBSET (1..MaxRuns)] /\ timer' \in [Procs -> BOOLEAN]
           /\ \/ UNCHANGED <<running, run, alive, timer>>
              \/ /\ ~running[p] /\ running' = [running EXCEPT ![p] = TRUE]
                 /\ run' = [run EXCEPT ![p] = @ + 1]
                 /\ alive' = [alive EXCEPT ![p] = @ \cup {run[p] + 1}]
                 /\ timer' = [timer EXCEPT ![p] = @ \/ IdleTimeout]
<1> USE StreamProcessAssumption DEF Types, Start, runVars, Arm
<1>1. CASE running[p]
  BY <1>1
<1>2. CASE ~running[p]
  <2>1. /\ run[p] < MaxRuns
        /\ running' = [running EXCEPT ![p] = TRUE]
        /\ run' = [run EXCEPT ![p] = @ + 1]
        /\ alive' = [alive EXCEPT ![p] = @ \cup {run[p] + 1}]
        /\ timer' = [timer EXCEPT ![p] = @ \/ IdleTimeout]
    BY <1>2
  <2>2. run[p] + 1 \in 1..MaxRuns
    BY <2>1
  <2>3. run' \in [Procs -> 0..MaxRuns] /\ alive' \in [Procs -> SUBSET (1..MaxRuns)]
    BY <2>1, <2>2
  <2>4. running' \in [Procs -> BOOLEAN] /\ timer' \in [Procs -> BOOLEAN]
    BY <2>1
  <2> QED
    BY <1>2, <2>1, <2>3, <2>4
<1> QED
  BY <1>1, <1>2

LEMMA TypeStep == Types /\ Aimed /\ [Next]_vars => Types'
<1> SUFFICES ASSUME Types, Aimed, [Next]_vars PROVE Types'
  OBVIOUS
<1> USE StreamProcessAssumption DEF Types, hubVars, runVars, streamVars, stopVars
<1>1. CASE Replace
  BY <1>1 DEF Replace, Go, Stoppers
<1>2. ASSUME NEW p \in Procs, RunReturns(p) \/ TimerFires(p) \/ TimerLooks(p) PROVE Types'
  <2>1. CASE RunReturns(p)
    BY <2>1 DEF RunReturns
  <2>2. CASE TimerFires(p)
    BY <2>2 DEF TimerFires, Go
  <2>3. CASE TimerLooks(p)
    BY <2>3 DEF TimerLooks, Go
  <2> QED
    BY <1>2, <2>1, <2>2, <2>3
<1>3. ASSUME NEW p \in Procs, NEW n \in 1..MaxRuns, ProgramEnds(p, n) PROVE Types'
  BY <1>3 DEF ProgramEnds
<1>4. ASSUME NEW s \in Streams, Serve(s) PROVE Types'
  <2>1. CASE Resolve(s) \/ AttachFails(s)
    BY <2>1 DEF Resolve, AttachFails
  <2>2. CASE AttachStart(s)
    BY <2>2, StartEffect DEF AttachStart, Aimed
  <2>3. CASE Attach(s)
    BY <2>3 DEF Attach, Arm, Aimed
  <2>4. CASE Touch(s)
    BY <2>4 DEF Touch, Arm
  <2>5. CASE StreamEnds(s)
    BY <2>5 DEF StreamEnds, Detach, Arm, Aimed
  <2> QED
    BY <1>4, <2>1, <2>2, <2>3, <2>4, <2>5 DEF Serve
<1>5. ASSUME NEW x \in Stoppers, Stop(x) PROVE Types'
  <2>1. CASE StopLooks(x)
    <3>1. PICK l \in {"cancel", "idle", "start", "done"} :
              at' = [at EXCEPT ![x] = l]
      BY <2>1 DEF StopLooks, Go, Afterwards
    <3>2. seen' \in [Stoppers -> 0..MaxRuns]
      BY <2>1 DEF StopLooks, Aimed
    <3> QED
      BY <2>1, <3>1, <3>2 DEF StopLooks
  <2>2. CASE StopCancels(x)
    BY <2>2 DEF StopCancels, Go, Aimed
  <2>3. CASE StopReturns(x)
    BY <2>3 DEF StopReturns, GiveUp, Go, Afterwards
  <2> QED
    BY <1>5, <2>1, <2>2, <2>3 DEF Stop
<1>6. ASSUME NEW c \in Commands, CommandBegins(c) \/ CommandStarts(c) PROVE Types'
  <2>1. CASE CommandBegins(c)
    BY <2>1 DEF CommandBegins, Go, Stoppers
  <2>2. CASE CommandStarts(c)
    BY <2>2, StartEffect DEF CommandStarts, Go, Aimed, Stoppers
  <2> QED
    BY <1>6, <2>1, <2>2
<1>7. CASE UNCHANGED vars
  BY <1>7 DEF vars
<1> QED
  BY <1>1, <1>2, <1>3, <1>4, <1>5, <1>6, <1>7 DEF Next

LEMMA AimedStep == Types /\ Aimed /\ [Next]_vars => Aimed'
<1> SUFFICES ASSUME Types, Aimed, [Next]_vars PROVE Aimed'
  OBVIOUS
<1> USE StreamProcessAssumption DEF Types, hubVars, runVars, streamVars, stopVars
<1>1. CASE Replace
  BY <1>1 DEF Replace, Go, Aimed, Stoppers
<1>2. ASSUME NEW p \in Procs, RunReturns(p) \/ TimerFires(p) \/ TimerLooks(p) PROVE Aimed'
  <2>1. CASE RunReturns(p)
    BY <2>1 DEF RunReturns, Aimed
  <2>2. CASE TimerFires(p)
    BY <2>2 DEF TimerFires, Go, Aimed, Stoppers
  <2>3. CASE TimerLooks(p)
    BY <2>3 DEF TimerLooks, Go, Aimed, Stoppers
  <2> QED
    BY <1>2, <2>1, <2>2, <2>3
<1>3. ASSUME NEW p \in Procs, NEW n \in 1..MaxRuns, ProgramEnds(p, n) PROVE Aimed'
  BY <1>3 DEF ProgramEnds, Aimed
<1>4. ASSUME NEW s \in Streams, Serve(s) PROVE Aimed'
  <2>1. CASE Resolve(s) \/ AttachFails(s)
    BY <2>1 DEF Resolve, AttachFails, Aimed
  <2>2. CASE AttachStart(s)
    <3>1. Start(bound[s]) /\ bound[s] \in Procs
      BY <2>2 DEF AttachStart, Aimed
    <3>2. \A p \in Procs : run'[p] \in Nat /\ run'[p] >= run[p] /\ (running'[p] => run'[p] > 0)
      BY <3>1, StartEffect DEF Aimed
    <3>3. \A x \in Stoppers : at[x] = "cancel" => seen[x] \in 1..run'[target[x]]
      BY <3>2 DEF Aimed
    <3>4. \A p \in Procs : cancelled[p] \subseteq 1..run'[p]
      BY <3>2 DEF Aimed
    <3> QED
      BY <2>2, <3>2, <3>3, <3>4 DEF AttachStart, Aimed
  <2>3. CASE Attach(s) \/ Touch(s) \/ StreamEnds(s)
    BY <2>3 DEF Attach, Touch, StreamEnds, Aimed
  <2> QED
    BY <1>4, <2>1, <2>2, <2>3 DEF Serve
<1>5. ASSUME NEW x \in Stoppers, Stop(x) PROVE Aimed'
  <2>1. CASE StopLooks(x)
    BY <2>1 DEF StopLooks, Go, Afterwards, Aimed
  <2>2. CASE StopCancels(x)
    BY <2>2 DEF StopCancels, Go, Aimed
  <2>3. CASE StopReturns(x)
    BY <2>3 DEF StopReturns, GiveUp, Go, Afterwards, Aimed
  <2> QED
    BY <1>5, <2>1, <2>2, <2>3 DEF Stop
<1>6. ASSUME NEW c \in Commands, CommandBegins(c) \/ CommandStarts(c) PROVE Aimed'
  <2>1. CASE CommandBegins(c)
    BY <2>1 DEF CommandBegins, Go, Aimed, Stoppers
  <2>2. CASE CommandStarts(c)
    <3>1. Start(target[c]) /\ target[c] \in Procs
      BY <2>2 DEF CommandStarts, Aimed, Stoppers
    <3>2. \A p \in Procs : run'[p] \in Nat /\ run'[p] >= run[p] /\ (running'[p] => run'[p] > 0)
      BY <3>1, StartEffect DEF Aimed
    <3>3. \A x \in Stoppers : at[x] = "cancel" => seen[x] \in 1..run'[target[x]]
      BY <3>2 DEF Aimed
    <3>4. \A p \in Procs : cancelled[p] \subseteq 1..run'[p]
      BY <3>2 DEF Aimed
    <3> QED
      BY <2>2, <3>2, <3>3, <3>4 DEF CommandStarts, Go, Aimed, Stoppers
  <2> QED
    BY <1>6, <2>1, <2>2
<1>7. CASE UNCHANGED vars
  BY <1>7 DEF vars, Aimed
<1> QED
  BY <1>1, <1>2, <1>3, <1>4, <1>5, <1>6, <1>7 DEF Next

\* A start that waits for nobody is harmless: the last run has no program left
\* when running is cleared, and start does nothing before.
LEMMA RunsStep ==
    ASSUME Types, Aimed, OneRunAtATime, [Next]_vars
    PROVE  OneRunAtATime'
<1> USE StreamProcessAssumption
    DEF Types, OneRunAtATime, hubVars, runVars, streamVars, stopVars
<1>1. CASE UNCHANGED runVars
  BY <1>1
<1>2. ASSUME NEW p \in Procs, Start(p) PROVE OneRunAtATime'
  BY <1>2, StartEffect
<1>3. ASSUME NEW p \in Procs, RunReturns(p) PROVE OneRunAtATime'
  BY <1>3 DEF RunReturns
<1>4. ASSUME NEW p \in Procs, NEW n \in 1..MaxRuns, ProgramEnds(p, n) PROVE OneRunAtATime'
  BY <1>4 DEF ProgramEnds
<1>5. ASSUME NEW s \in Streams, Serve(s) PROVE OneRunAtATime'
  BY <1>1, <1>2, <1>5
  DEF Serve, Resolve, AttachStart, Attach, AttachFails, Touch, StreamEnds, Aimed
<1>6. ASSUME NEW x \in Stoppers, Stop(x) PROVE OneRunAtATime'
  BY <1>1, <1>6 DEF Stop, StopLooks, StopCancels, StopReturns, GiveUp
<1>7. ASSUME NEW c \in Commands, CommandBegins(c) \/ CommandStarts(c) PROVE OneRunAtATime'
  BY <1>1, <1>2, <1>7 DEF CommandBegins, CommandStarts, Aimed, Stoppers
<1> QED
  BY <1>1, <1>3, <1>4, <1>5, <1>6, <1>7 DEF Next, Replace, TimerFires, TimerLooks, vars

LEMMA ActiveStep ==
    ASSUME Types, Aimed, ActiveExact, [Next]_vars
    PROVE  ActiveExact'
<1> USE StreamProcessAssumption DEF Types, hubVars, runVars, streamVars, stopVars
<1>1. ASSUME UNCHANGED active, \A p \in Procs : Attached(p)' = Attached(p)
      PROVE  ActiveExact'
  BY <1>1 DEF ActiveExact
<1>2. CASE UNCHANGED <<active, streamVars>>
  BY <1>1, <1>2 DEF Attached
<1>3. ASSUME NEW s \in Streams, Serve(s) PROVE ActiveExact'
  <2>1. CASE Resolve(s) \/ AttachStart(s) \/ AttachFails(s)
    <3>1. /\ stream[s] # "attached" /\ UNCHANGED active
          /\ \E v : v # "attached" /\ stream' = [stream EXCEPT ![s] = v]
          /\ \A q \in Streams \ {s} : bound'[q] = bound[q]
      BY <2>1 DEF Resolve, AttachStart, AttachFails
    <3>2. \A p \in Procs : Attached(p)' = Attached(p)
      BY <3>1, AttachedKept
    <3> QED
      BY <1>1, <3>1, <3>2
  <2>2. CASE Attach(s)
    <3>1. /\ stream[s] # "attached" /\ bound[s] \in Procs /\ bound' = bound
          /\ stream' = [stream EXCEPT ![s] = "attached"]
          /\ active' = [active EXCEPT ![bound[s]] = @ + 1]
      BY <2>2 DEF Attach, Aimed
    <3>2. \A p \in Procs : Cardinality(Attached(p)') =
              IF p = bound[s] THEN Cardinality(Attached(p)) + 1 ELSE Cardinality(Attached(p))
      BY <3>1, AttachedMore
    <3> QED
      BY <3>1, <3>2 DEF ActiveExact
  <2>3. CASE StreamEnds(s)
    <3>1. /\ stream[s] = "attached" /\ bound[s] \in Procs /\ bound' = bound
          /\ stream' = [stream EXCEPT ![s] = "ended"]
          /\ active' = [active EXCEPT ![bound[s]] = IF @ > 0 THEN @ - 1 ELSE 0]
      BY <2>3 DEF StreamEnds, Detach, Aimed
    <3>2. /\ Cardinality(Attached(bound[s])) > 0
          /\ \A p \in Procs : Cardinality(Attached(p)') =
                IF p = bound[s] THEN Cardinality(Attached(p)) - 1 ELSE Cardinality(Attached(p))
      BY <3>1, AttachedLess
    <3> QED
      BY <3>1, <3>2 DEF ActiveExact
  <2> QED
    BY <1>2, <1>3, <2>1, <2>2, <2>3 DEF Serve, Touch
<1>4. ASSUME NEW x \in Stoppers, Stop(x) PROVE UNCHANGED <<active, streamVars>>
  BY <1>4 DEF Stop, StopLooks, StopCancels, StopReturns
<1> QED
  BY <1>2, <1>3, <1>4
  DEF Next, Replace, RunReturns, TimerFires, TimerLooks, ProgramEnds, CommandBegins,
    CommandStarts, vars

LEMMA WatchedStep ==
    ASSUME Types, Aimed, IdleWatched, [Next]_vars
    PROVE  IdleWatched'
<1> USE StreamProcessAssumption
    DEF Types, IdleWatched, hubVars, runVars, streamVars, stopVars
<1>1. CASE Replace
  BY <1>1 DEF Replace, Go, Stoppers
<1>2. ASSUME NEW p \in Procs, RunReturns(p) PROVE IdleWatched'
  BY <1>2 DEF RunReturns
<1>3. ASSUME NEW p \in Procs, TimerFires(p) \/ TimerLooks(p) PROVE IdleWatched'
  BY <1>3 DEF TimerFires, TimerLooks, Go, Stoppers
<1>4. ASSUME NEW p \in Procs, NEW n \in 1..MaxRuns, ProgramEnds(p, n) PROVE IdleWatched'
  BY <1>4 DEF ProgramEnds
<1>5. ASSUME NEW p \in Procs, Start(p), UNCHANGED <<cancelled, active, seen>>,
             \A q \in Procs : at'[q] = at[q]
      PROVE  IdleWatched'
  <2>1. \A q \in Procs : running'[q] /\ running[q] => run'[q] = run[q] /\ (timer[q] => timer'[q])
    BY <1>5, StartEffect
  <2>2. \A q \in Procs : running'[q] /\ ~running[q] /\ IdleTimeout => timer'[q]
    BY <1>5, StartEffect
  <2> QED
    BY <1>5, <2>1, <2>2
<1>6. ASSUME NEW s \in Streams, Serve(s) PROVE IdleWatched'
  <2>1. CASE Resolve(s) \/ AttachFails(s)
    BY <2>1 DEF Resolve, AttachFails
  <2>2. CASE AttachStart(s)
    BY <1>5, <2>2 DEF AttachStart, Aimed
  <2>3. CASE Attach(s) \/ Touch(s)
    BY <2>3 DEF Attach, Touch, Arm, Aimed
  <2>4. CASE StreamEnds(s)
    BY <2>4 DEF StreamEnds, Detach, Arm, Aimed
  <2> QED
    BY <1>6, <2>1, <2>2, <2>3, <2>4 DEF Serve
<1>7. ASSUME NEW x \in Stoppers, Stop(x) PROVE IdleWatched'
  <2>1. CASE StopLooks(x)
    BY <2>1 DEF StopLooks, Go, Afterwards, Aimed, Stoppers
  <2>2. CASE StopCancels(x)
    BY <2>2 DEF StopCancels, Go, Aimed, Stoppers
  <2>3. CASE StopReturns(x)
    BY <2>3 DEF StopReturns, GiveUp, Go, Afterwards, Stoppers
  <2> QED
    BY <1>7, <2>1, <2>2, <2>3 DEF Stop
<1>8. ASSUME NEW c \in Commands, CommandBegins(c) \/ CommandStarts(c) PROVE IdleWatched'
  <2>1. CASE CommandBegins(c)
    BY <2>1 DEF CommandBegins, Go, Stoppers
  <2>2. CASE CommandStarts(c)
    <3>1. \A q \in Procs : at'[q] = at[q]
      BY <2>2 DEF CommandStarts, Go, Stoppers
    <3> QED
      BY <1>5, <2>2, <3>1 DEF CommandStarts, Aimed, Stoppers
  <2> QED
    BY <1>8, <2>1, <2>2
<1>9. CASE UNCHANGED vars
  BY <1>9 DEF vars
<1> QED
  BY <1>1, <1>2, <1>3, <1>4, <1>6, <1>7, <1>8, <1>9 DEF Next

LEMMA StepInv == Inv /\ [Next]_vars => Inv'
BY TypeStep, AimedStep, RunsStep, ActiveStep, WatchedStep DEF Inv

LEMMA InvAlways == Spec => []Inv
BY InitInv, StepInv, PTL DEF Spec

-----------------------------------------------------------------------------
(* The theorems.                                                           *)

\* Every reachable state is well typed, attach and detach count exactly the
\* streams there are, and only runs there have been are cancelled.
LEMMA WellTyped == Inv => TypeOK
BY DEF Inv, Types, Aimed, ActiveExact, TypeOK

THEOREM TypeCorrect == Spec => []TypeOK
BY WellTyped, InvAlways, PTL

\* streamProcess.start and run: two runs of one object never overlap, whoever
\* gave up waiting in stop.
THEOREM RunsApart == Spec => []OneRunAtATime
<1>1. Inv => OneRunAtATime
  BY DEF Inv
<1> QED
  BY <1>1, InvAlways, PTL

\* armIdleLocked in start, attach and detach: in no order of starts, streams and
\* stops does a process nobody uses stay without a timer or a cancellation.
\* This is the safety on which IdleEnds rests.
THEOREM IdleIsWatched == Spec => []IdleWatched
<1>1. Inv => IdleWatched
  BY DEF Inv
<1> QED
  BY <1>1, InvAlways, PTL

=============================================================================

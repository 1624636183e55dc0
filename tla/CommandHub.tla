------------------------------- MODULE CommandHub -------------------------------
(***************************************************************************)
(* The command hub of libs/host: how definitions from the config file and  *)
(* from commands add become registered commands with a manager each, while *)
(* the config watcher, commands add, remove and config, and commands list  *)
(* run concurrently.                                                       *)
(*                                                                         *)
(* Three locks: the file lock cfg.LockUpdate, rebuildMu around a rebuild   *)
(* and the RWMutex mu around the published tables; Go's RWMutex lets no    *)
(* reader in while a writer waits.  A definition is a value of Defs; every *)
(* command is taken to be resident, with a manager (or stream process) that *)
(* a rebuild keeps or replaces; a manager is a number.  Skill packages and *)
(* name clashes between sources are left out.                              *)
(***************************************************************************)
EXTENDS Integers, FiniteSets

CONSTANTS
    Aliases, Defs,
    Configs,         \* contents the owner may give the config file
    Jobs,            \* invocations of commands add, remove, config
    Kind,            \* "add" and "remove": run time only; "persist": in the file
    JobAlias,        \* the command they are about,
    JobDef,          \* and its new definition, or None
    Listers,         \* invocations of commands list
    Watcher,         \* the goroutine of watchCommandConfig
    MaxFails,        \* rebuilds that fail, for model checking
    MaxEdits,        \* edits of the owner, for model checking
    None

Threads == Jobs \cup {Watcher}
NoConfig == [a \in Aliases |-> None]

ASSUME CommandHubAssumption ==
    /\ IsFiniteSet(Aliases)
    /\ None \notin Defs \cup Threads /\ Watcher \notin Jobs
    /\ Configs \subseteq [Aliases -> Defs \cup {None}]
    /\ Kind \in [Jobs -> {"add", "remove", "persist"}]
    /\ JobAlias \in [Jobs -> Aliases] /\ JobDef \in [Jobs -> Defs \cup {None}]
    /\ MaxFails \in Nat /\ MaxEdits \in Nat

VARIABLES
    file,        \* the command section of the config file
    options,     \* the copy of it that the client goes by
    runtime,     \* definitions not written to the file
    reg,         \* commands registered with the shell
    active,      \* the published definitions
    mgr,         \* the published managers, 0 for none
    made,        \* managers made
    closed,      \* managers closed
    pc,          \* where each thread is
    defs,        \* what its rebuild has collected,
    mgrs,        \*   the managers it will publish,
    outgoing,    \*   and those it will close
    previous,    \* options the watcher would go back to
    fp,          \* the fingerprint it goes by,
    last,        \*   and the last one applied; None for none
    fileMu,      \* holder of the file lock, or None
    rebuildMu,   \* holder of rebuildMu, or None
    writing,     \* a writer waits for mu
    lister,      \* where each listing is
    fails, edits \* so far

confVars == <<file, options, runtime, edits>>
tableVars == <<active, mgr>>
mgrVars == <<made, closed>>
buildVars == <<defs, mgrs, outgoing>>
watchVars == <<previous, fp, last>>
vars == <<confVars, reg, tableVars, mgrVars, pc, buildVars, watchVars, fileMu, rebuildMu,
          writing, lister, fails>>

Init ==
    /\ file \in Configs /\ options = file /\ runtime = NoConfig
    /\ reg = file /\ active = file
    /\ made = Cardinality({a \in Aliases : file[a] # None})
    /\ mgr \in {f \in [Aliases -> 0..made] :
                  /\ \A a \in Aliases : (f[a] = 0) <=> (file[a] = None)
                  /\ \A a, b \in Aliases : (f[a] = f[b] /\ f[a] # 0) => a = b}
    /\ closed = {}
    /\ pc = [t \in Threads |-> "idle"]
    /\ defs = [t \in Threads |-> NoConfig]
    /\ mgrs = [t \in Threads |-> [a \in Aliases |-> 0]]
    /\ outgoing = [t \in Threads |-> {}]
    /\ previous = NoConfig /\ fp = None /\ last = None
    /\ fileMu = None /\ rebuildMu = None /\ writing = FALSE
    /\ lister = [l \in Listers |-> "idle"]
    /\ fails = 0 /\ edits = 0

Go(t, stage) == pc' = [pc EXCEPT ![t] = stage]

\* The definition that counts, of the file and of run time.
Effective(o, r) == [a \in Aliases |-> IF r[a] # None THEN r[a] ELSE o[a]]

-----------------------------------------------------------------------------
(* The owner edits the file, without a lock.                               *)

OwnerEdit ==
    /\ edits < MaxEdits
    /\ \E f \in Configs \ {file} : file' = f
    /\ edits' = edits + 1
    /\ UNCHANGED <<options, runtime, reg, tableVars, mgrVars, pc, buildVars, watchVars, fileMu,
                   rebuildMu, writing, lister, fails>>

-----------------------------------------------------------------------------
(* Jobs.                                                                   *)

\* rebuildMu is free.  (An operator whose name ends in Bug is a faulty variant
\* of the one after it.)
MayRebuild_NoLockBug == TRUE
MayRebuild == rebuildMu = None

\* upsertRuntime and removeRuntime: change the map, and rebuild under one lock.
ChangeRuntime(j) ==
    /\ pc[j] = "idle" /\ Kind[j] \in {"add", "remove"}
    /\ Kind[j] = "remove" => runtime[JobAlias[j]] # None
    /\ MayRebuild
    /\ rebuildMu' = j
    /\ runtime' = [runtime EXCEPT ![JobAlias[j]] = IF Kind[j] = "add" THEN JobDef[j] ELSE None]
    /\ Go(j, "collect")
    /\ UNCHANGED <<file, options, edits, reg, tableVars, mgrVars, buildVars, watchVars, fileMu,
                   writing, lister, fails>>

\* mutateConfigFile: a transaction under the file lock, and new options.
Persist(j) ==
    /\ pc[j] = "idle" /\ Kind[j] = "persist" /\ fileMu = None
    /\ file' = [file EXCEPT ![JobAlias[j]] = JobDef[j]]
    /\ options' = file'
    /\ Go(j, "reload")
    /\ UNCHANGED <<runtime, edits, reg, tableVars, mgrVars, buildVars, watchVars, fileMu,
                   rebuildMu, writing, lister, fails>>

-----------------------------------------------------------------------------
(* The watcher.                                                            *)

\* A poll: is this another fingerprint than the one last applied?
WatchLooks ==
    /\ pc[Watcher] = "idle" /\ file # last
    /\ fp' = file
    /\ Go(Watcher, "lock")
    /\ UNCHANGED <<confVars, reg, tableVars, mgrVars, buildVars, previous, last, fileMu,
                   rebuildMu, writing, lister, fails>>

\* reloadCommandConfig: the file lock is held until the rebuild is over.
WatchBegins ==
    /\ pc[Watcher] = "lock" /\ fileMu = None
    /\ fileMu' = Watcher
    /\ previous' = options
    /\ options' = file
    /\ Go(Watcher, "reload")
    /\ UNCHANGED <<file, runtime, edits, reg, tableVars, mgrVars, buildVars, fp, last,
                   rebuildMu, writing, lister, fails>>

\* Applied, or back to the options before.
LastOnError_AppliedBug == fp
LastOnError == last

WatchEnds ==
    /\ \/ /\ pc[Watcher] = "done"
          /\ last' = fp
          /\ UNCHANGED options
       \/ /\ pc[Watcher] = "error"
          /\ options' = previous
          /\ last' = LastOnError
    /\ fileMu' = None
    /\ Go(Watcher, "idle")
    /\ UNCHANGED <<file, runtime, edits, reg, tableVars, mgrVars, buildVars, previous, fp,
                   rebuildMu, writing, lister, fails>>

-----------------------------------------------------------------------------
(* A rebuild.                                                              *)

Reload(t) ==
    /\ pc[t] = "reload" /\ MayRebuild
    /\ rebuildMu' = t
    /\ Go(t, "collect")
    /\ UNCHANGED <<confVars, reg, tableVars, mgrVars, buildVars, watchVars, fileMu, writing,
                   lister, fails>>

\* collectHostCommands, and the managers: kept where the definition is the old
\* one, else new.
Kept(t, a, d) == d # None /\ d = active[a]

Collect(t) ==
    LET next == Effective(options, runtime)
        new == {a \in Aliases : next[a] # None /\ ~Kept(t, a, next[a])}
    IN  /\ pc[t] = "collect"
        /\ defs' = [defs EXCEPT ![t] = next]
        /\ made' = made + Cardinality(new)
        /\ \E f \in [Aliases -> 0..made'] :
              /\ \A a \in Aliases :
                    CASE next[a] = None        -> f[a] = 0
                      [] Kept(t, a, next[a])   -> f[a] = mgr[a]
                      [] OTHER                 -> f[a] > made
              /\ \A a, b \in new : a # b => f[a] # f[b]
              /\ mgrs' = [mgrs EXCEPT ![t] = f]
        /\ Go(t, "unregister")
        /\ UNCHANGED <<confVars, reg, tableVars, closed, outgoing, watchVars, fileMu, rebuildMu,
                       writing, lister, fails>>

\* The package state cannot be read, or a manager cannot be made.
Leave(t, stage) == rebuildMu' = None /\ Go(t, stage)

CollectFails(t) ==
    /\ pc[t] = "collect" /\ fails < MaxFails
    /\ fails' = fails + 1
    /\ Leave(t, "error")
    /\ UNCHANGED <<confVars, reg, tableVars, mgrVars, buildVars, watchVars, fileMu, writing,
                   lister>>

\* Every old command leaves the registry, then the new ones enter it.
Emptied == [a \in Aliases |-> IF active[a] # None THEN None ELSE reg[a]]

Unregister(t) ==
    /\ pc[t] = "unregister"
    /\ reg' = Emptied
    /\ Go(t, "register")
    /\ UNCHANGED <<confVars, tableVars, mgrVars, buildVars, watchVars, fileMu, rebuildMu,
                   writing, lister, fails>>

Numbers(f) == {f[a] : a \in Aliases} \ {0}

\* RegisterGuarded refuses a name that is taken; such a command is rejected,
\* and a manager made for it closed.
Register(t) ==
    LET free == {a \in Aliases : defs[t][a] # None /\ reg[a] = None}
        unused == {mgrs[t][a] : a \in Aliases \ free} \ {0}
    IN  /\ pc[t] = "register"
        /\ reg' = [a \in Aliases |-> IF a \in free THEN defs[t][a] ELSE reg[a]]
        /\ defs' = [defs EXCEPT ![t] = [a \in Aliases |-> IF a \in free THEN @[a] ELSE None]]
        /\ mgrs' = [mgrs EXCEPT ![t] = [a \in Aliases |-> IF a \in free THEN @[a] ELSE 0]]
        /\ closed' = closed \cup (unused \ Numbers(mgr))
        /\ writing' = TRUE
        /\ Go(t, "publish")
        /\ UNCHANGED <<confVars, tableVars, made, outgoing, watchVars, fileMu, rebuildMu,
                       lister, fails>>

\* mu is free when no listing holds it.
Publish(t) ==
    /\ pc[t] = "publish"
    /\ \A l \in Listers : lister[l] # "rows"
    /\ active' = defs[t] /\ mgr' = mgrs[t]
    /\ outgoing' = [outgoing EXCEPT ![t] = Numbers(mgr) \ Numbers(mgrs[t])]
    /\ writing' = FALSE
    /\ Go(t, "close")
    /\ UNCHANGED <<confVars, reg, mgrVars, defs, mgrs, watchVars, fileMu, rebuildMu, lister,
                   fails>>

CloseReplaced(t) == closed' = closed \cup outgoing[t]

FinishRebuild(t) ==
    /\ pc[t] = "close"
    /\ CloseReplaced(t)
    /\ outgoing' = [outgoing EXCEPT ![t] = {}]
    /\ Leave(t, "done")
    /\ UNCHANGED <<confVars, reg, tableVars, made, defs, mgrs, watchVars, fileMu, writing,
                   lister, fails>>

-----------------------------------------------------------------------------
(* commands list: hostCommandRows takes mu for reading and, holding it,    *)
(* takes it for reading once more in brokenPackages.                       *)

ListBegins(l) ==
    /\ lister[l] = "idle" /\ ~writing
    /\ lister' = [lister EXCEPT ![l] = "rows"]
    /\ UNCHANGED <<confVars, reg, tableVars, mgrVars, pc, buildVars, watchVars, fileMu,
                   rebuildMu, writing, fails>>

ListEnds(l) ==
    /\ lister[l] = "rows" /\ ~writing
    /\ lister' = [lister EXCEPT ![l] = "done"]
    /\ UNCHANGED <<confVars, reg, tableVars, mgrVars, pc, buildVars, watchVars, fileMu,
                   rebuildMu, writing, fails>>

-----------------------------------------------------------------------------
Rebuild(t) ==
    Reload(t) \/ Collect(t) \/ CollectFails(t) \/ Unregister(t) \/ Register(t) \/ Publish(t)
        \/ FinishRebuild(t)

Watch == WatchLooks \/ WatchBegins \/ WatchEnds

List(l) == ListBegins(l) \/ ListEnds(l)

Next ==
    \/ OwnerEdit \/ Watch
    \/ \E j \in Jobs : ChangeRuntime(j) \/ Persist(j)
    \/ \E t \in Threads : Rebuild(t)
    \/ \E l \in Listers : List(l)

Spec == Init /\ [][Next]_vars

\* The watcher polls forever, and every goroutine goes on with what it began.
\* Nobody has to edit the file or to call a command.
Fairness ==
    /\ WF_vars(Watch)
    /\ \A t \in Threads : WF_vars(Rebuild(t))
    /\ \A l \in Listers : WF_vars(ListEnds(l))

FairSpec == Spec /\ Fairness

-----------------------------------------------------------------------------
(* Properties.                                                             *)

\* The state has the types the code declares, and a lock is held by who has
\* taken it.
TypeOK ==
    /\ {file, options, runtime, reg, active} \subseteq [Aliases -> Defs \cup {None}]
    /\ mgr \in [Aliases -> 0..made] /\ closed \subseteq 1..made
    /\ pc \in [Threads -> {"idle", "lock", "reload", "collect", "unregister", "register",
                           "publish", "close", "done", "error"}]
    /\ fileMu \in {None, Watcher} /\ rebuildMu \in Threads \cup {None}
    /\ \A t \in Threads :
        (rebuildMu = t) <=> pc[t] \in {"collect", "unregister", "register", "publish", "close"}
    /\ writing \in BOOLEAN /\ writing = (\E t \in Threads : pc[t] = "publish")
    /\ lister \in [Listers -> {"idle", "rows", "done"}]
    /\ fails \in 0..MaxFails /\ edits \in 0..MaxEdits

AtRest == pc[Watcher] = "idle" /\ \A j \in Jobs : pc[j] \in {"idle", "done", "error"}
Failed(kinds) == \E j \in Jobs : Kind[j] \in kinds /\ pc[j] = "error"

\* Between rebuilds, the shell, the published definitions and the managers name
\* the same commands, and the managers that are open are those published: none
\* has been lost, and no published one has been closed.  As long as no rebuild
\* fails, they are the commands of the options and of run time whenever no thread
\* is at work, however rebuilds and edits have met.
Coherent ==
    /\ rebuildMu = None =>
         /\ reg = active /\ \A a \in Aliases : (active[a] = None) <=> (mgr[a] = 0)
         /\ (1..made) \ closed = Numbers(mgr)
    /\ fails = 0 /\ AtRest => active = Effective(options, runtime)

\* What the owner has written into the file is what counts in the end, however
\* edits, failing rebuilds and commands meet, unless a command reports an error
\* or has written the file too, or a listing has blocked the hub (ListAnswers).
EditsLand ==
    <>[](\/ Failed({"add", "remove"})
         \/ \E l \in Listers : lister[l] = "rows" /\ writing
         \/ \E j \in Jobs : Kind[j] = "persist" /\ pc[j] # "idle"
         \/ active = Effective(file, runtime))

-----------------------------------------------------------------------------
(* What the sources say and the code does not do.                          *)

\* host-vtools.md: commands lists what can be found.  Hence a listing that has
\* begun answers.
ListAnswers == \A l \in Listers : lister[l] = "rows" ~> lister[l] = "done"

=============================================================================

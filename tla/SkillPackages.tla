--------------------------- MODULE SkillPackages ---------------------------
(* Skill packages on the device (libs/host/command_packages.go,            *)
(* command_package_fetch.go, command_preinstall.go): one directory per      *)
(* package and one state file, changed by install, uninstall and the        *)
(* preinstallation at each start, any of which may fail or be cut short by  *)
(* a crash; and the resident processes the command hub starts from them.    *)
EXTENDS Integers, FiniteSets

CONSTANTS Ids,        \* skill ids
          Builtin,    \* those the release brings along
          Calls,      \* invocations of commands install and uninstall
          CallKind,   \* "install" or "uninstall"
          CallId,     \* the package it is about
          Boot,       \* the start of the device: preinstallation, then the first reload
          MaxFaults,  \* bound: file operations that fail
          MaxCrashes, \* bound: crashes
          Nothing     \* no package, no record, no holder of a lock

\* The release brings at least one package along (cfg.PreinstalledCommandPackages).
Parameters ==
    /\ Builtin # {} /\ Builtin \subseteq Ids /\ Boot \notin Calls
    /\ CallId \in [Calls -> Ids] /\ CallKind \in [Calls -> {"install", "uninstall"}]
    /\ Nothing \notin Calls \cup {Boot} /\ Nothing \notin [version : Nat, bin : BOOLEAN]
    /\ Nothing \notin [order : Nat, revision : Nat]

VARIABLES dir,       \* dir[i]: the package directory, [version, bin], or Nothing
          backups,   \* the .backup-* directories: [id, package, of]
          state,     \* state.json: [packages, next]
          packageMu, rebuildMu,   \* holders
          at,        \* where each call, and Boot, is
          new,       \* new[t]: the package it is about to put into place
          draft,     \* draft[t]: the state it is going to save
          left,      \* builtin packages Boot has still to do
          seen,      \* what the reload under way has collected
          active,    \* active[i]: record of the registered command
          process,   \* process[i]: the version its resident process was started from
          undone,    \* history: packages that a failing installation had moved away
          faults, crashes, versions   \* counted

memory == <<new, draft, left>>
hub == <<rebuildMu, seen, active, process>>
pkgVars == <<dir, backups, state, packageMu, at, memory, hub, undone, faults, crashes, versions>>

Threads == Calls \cup {Boot}
Id(t) == IF t = Boot THEN CHOOSE i \in left : TRUE ELSE CallId[t]
None == [i \in Ids |-> Nothing]
Goto(t, l) == at' = [at EXCEPT ![t] = l]
Unlock == packageMu' = Nothing
Fault(n) == faults + n <= MaxFaults /\ faults' = faults + n
Mine(t) == {b \in backups : b.of = t}

Init == /\ dir = None /\ backups = {} /\ state = [packages |-> None, next |-> 1]
        /\ packageMu = Nothing /\ rebuildMu = Nothing
        /\ at = [t \in Threads |-> IF t = Boot THEN "next" ELSE "idle"]
        /\ new = [t \in Threads |-> Nothing] /\ draft = [t \in Threads |-> state]
        /\ left = Builtin /\ seen = None /\ active = None /\ process = None
        /\ undone = {} /\ faults = 0 /\ crashes = 0 /\ versions = 0

-----------------------------------------------------------------------------
(* installCommandPackage; preinstallCommandPackages, which does the same for *)
(* one package of the release after the other and saves once at the end.     *)

\* preserveCommandPackageArtifacts: what the device has built goes along; a
\* copy that fails is not noticed.
Preserved(i) == IF dir[i] # Nothing /\ dir[i].bin THEN {TRUE, FALSE} ELSE {FALSE}

\* (An operator whose name ends in Bug is a faulty variant of the one after it.)
Recorded_ReuseBug(s, i) ==
    IF s.packages[i] # Nothing
    THEN [s EXCEPT !.packages[i].revision = @ + 1]
    ELSE [s EXCEPT !.packages[i] = [order |-> Cardinality({j \in Ids : s.packages[j] # Nothing}) + 1,
                                    revision |-> 1]]
Recorded(s, i) ==
    IF s.packages[i] # Nothing
    THEN [s EXCEPT !.packages[i].revision = @ + 1]
    ELSE [packages |-> [s.packages EXCEPT ![i] = [order |-> s.next, revision |-> 1]],
          next |-> s.next + 1]

\* Fetched or unpacked into a temporary directory, and checked, with the lock
\* held.  A package of the release is not installed by a call.
Begin(t) ==
    /\ at[t] = (IF t = Boot THEN "next" ELSE "idle")
    /\ IF t = Boot THEN left # {}
       ELSE CallKind[t] = "install" /\ at[Boot] = "ready" /\ Id(t) \notin Builtin
    /\ packageMu \in {Nothing, t} /\ packageMu' = t
    /\ \E bin \in Preserved(Id(t)) :
         new' = [new EXCEPT ![t] = [version |-> versions + 1, bin |-> bin]]
    /\ versions' = versions + 1
    /\ draft' = [draft EXCEPT ![t] =
                    Recorded(IF t = Boot /\ packageMu = Boot THEN draft[t] ELSE state, Id(t))]
    /\ Goto(t, "staged")
    /\ UNCHANGED <<dir, backups, state, left, hub, undone, crashes, faults>>

\* An error ends a call; the start of the device logs it and goes on.
Failed(t) == Goto(t, IF t = Boot THEN "reload" ELSE "answered") /\ Unlock

\* An error before the swap changes nothing.
BeginFails(t) ==
    /\ at[t] = "staged" /\ Fault(1) /\ Failed(t)
    /\ UNCHANGED <<dir, backups, state, memory, hub, undone, crashes, versions>>

\* The old directory is moved away.
Backup(t) ==
    /\ at[t] = "staged" /\ Goto(t, "cleared")
    /\ backups' = backups \cup {[id |-> i, package |-> dir[i], of |-> t] : i \in {Id(t)} \ {i \in Ids : dir[i] = Nothing}}
    /\ dir' = [dir EXCEPT ![Id(t)] = Nothing]
    /\ UNCHANGED <<state, packageMu, memory, hub, undone, faults, crashes, versions>>

Swap(t) ==
    /\ at[t] = "cleared" /\ Goto(t, IF t = Boot THEN "stored" ELSE "swapped")
    /\ dir' = [dir EXCEPT ![Id(t)] = new[t]]
    /\ UNCHANGED <<backups, state, packageMu, memory, hub, undone, faults, crashes, versions>>

\* The backup is moved back (restored), which may fail too.
Restore(t, restored) ==
    IF restored
    THEN /\ backups' = backups \ Mine(t)
         /\ dir' = [i \in Ids |-> IF \E b \in Mine(t) : b.id = i
                                  THEN (CHOOSE b \in Mine(t) : b.id = i).package ELSE dir[i]]
    ELSE Mine(t) # {} /\ UNCHANGED <<dir, backups>>

SwapFails(t) ==
    /\ at[t] = "cleared"
    /\ \E restored \in BOOLEAN :
         /\ Restore(t, restored) /\ Fault(IF restored THEN 1 ELSE 2)
         /\ undone' = IF restored THEN undone ELSE undone \cup {Id(t)}
    /\ Failed(t)
    /\ UNCHANGED <<state, memory, hub, crashes, versions>>

\* saveCommandPackageState: a temporary file and a rename.
Save(t) ==
    /\ at[t] = "swapped" /\ Goto(t, "stored")
    /\ state' = draft[t]
    /\ UNCHANGED <<dir, backups, packageMu, memory, hub, undone, faults, crashes, versions>>

\* Without the record the new package goes, and the old one comes back.
SaveFails(t) ==
    /\ at[t] = "swapped" /\ Fault(1) /\ Goto(t, "undoing")
    /\ dir' = [dir EXCEPT ![Id(t)] = Nothing] /\ undone' = undone \cup {Id(t)}
    /\ UNCHANGED <<backups, state, packageMu, memory, hub, crashes, versions>>

Undo(t) ==
    /\ at[t] = "undoing" /\ Failed(t)
    /\ \E restored \in BOOLEAN : Restore(t, restored) /\ Fault(IF restored THEN 0 ELSE 1)
    /\ UNCHANGED <<state, memory, hub, undone, crashes, versions>>

\* The backup goes, and Boot takes the next package.
Clean_EarlyBug(t) ==
    /\ at[t] \in {"stored", "cleared"} /\ backups' = backups \ Mine(t)
    /\ IF at[t] = "cleared" THEN UNCHANGED <<at, left, packageMu>>
       ELSE IF t = Boot THEN left' = left \ {Id(t)} /\ Goto(t, "next") /\ UNCHANGED packageMu
       ELSE Goto(t, "reload") /\ Unlock /\ UNCHANGED left
    /\ UNCHANGED <<dir, state, new, draft, hub, undone, faults, crashes, versions>>
Clean(t) ==
    /\ at[t] = "stored" /\ backups' = backups \ Mine(t)
    /\ IF t = Boot
       THEN left' = left \ {Id(t)} /\ Goto(t, "next") /\ UNCHANGED packageMu
       ELSE Goto(t, "reload") /\ Unlock /\ UNCHANGED left
    /\ UNCHANGED <<dir, state, new, draft, hub, undone, faults, crashes, versions>>

BootSaves ==
    /\ at[Boot] = "next" /\ left = {} /\ Goto(Boot, "reload") /\ Unlock
    /\ \E saves \in BOOLEAN : /\ Fault(IF saves THEN 0 ELSE 1)
                              /\ state' = IF saves THEN draft[Boot] ELSE state
    /\ UNCHANGED <<dir, backups, memory, hub, undone, crashes, versions>>

-----------------------------------------------------------------------------
(* uninstallCommandPackage                                                  *)

\* The record goes first; without one, or for a package of the release, the
\* call is refused.
Unrecord(t) ==
    /\ at[t] = "idle" /\ CallKind[t] = "uninstall" /\ at[Boot] = "ready"
    /\ packageMu = Nothing
    /\ IF state.packages[Id(t)] = Nothing \/ Id(t) \in Builtin
       THEN Goto(t, "answered") /\ UNCHANGED <<packageMu, state>>
       ELSE /\ Goto(t, "unrecorded") /\ packageMu' = t
            /\ state' = [state EXCEPT !.packages[Id(t)] = Nothing]
    /\ UNCHANGED <<dir, backups, memory, hub, undone, faults, crashes, versions>>

\* Whether or not the directory could be removed, the registry is rebuilt.
RemoveFiles(t) ==
    /\ at[t] = "unrecorded" /\ Goto(t, "reload") /\ Unlock
    /\ \E removed \in BOOLEAN :
         /\ Fault(IF removed THEN 0 ELSE 1)
         /\ dir' = IF removed THEN [dir EXCEPT ![Id(t)] = Nothing] ELSE dir
    /\ UNCHANGED <<backups, state, memory, hub, undone, crashes, versions>>

-----------------------------------------------------------------------------
(* reload: collectHostCommands and the rebuild, under rebuildMu.  A package  *)
(* whose directory is missing is skipped; a command whose definition, with  *)
(* its order and revision, is what it was keeps its process.                *)

Collect(t) ==
    /\ at[t] = "reload" /\ rebuildMu = Nothing /\ packageMu = Nothing
    /\ rebuildMu' = t /\ Goto(t, "collected")
    /\ seen' = [i \in Ids |-> IF dir[i] = Nothing THEN Nothing ELSE state.packages[i]]
    /\ UNCHANGED <<dir, backups, state, packageMu, memory, active, process, undone, faults,
                   crashes, versions>>

Rebuild(t) ==
    /\ at[t] = "collected" /\ rebuildMu' = Nothing
    /\ Goto(t, IF t = Boot THEN "ready" ELSE "answered")
    /\ active' = seen
    /\ process' = [i \in Ids |-> IF seen[i] = active[i] THEN process[i] ELSE Nothing]
    /\ UNCHANGED <<dir, backups, state, packageMu, memory, seen, undone, faults, crashes, versions>>

\* The state file cannot be read, or a manager cannot be made.
ReloadFails(t) ==
    /\ at[t] = "collected" /\ Fault(1) /\ rebuildMu' = Nothing
    /\ Goto(t, IF t = Boot THEN "ready" ELSE "failed")
    /\ UNCHANGED <<dir, backups, state, packageMu, memory, seen, active, process, undone,
                   crashes, versions>>

\* The first use of a command starts its process from the directory.
Launch(i) ==
    /\ active[i] # Nothing /\ process[i] = Nothing /\ dir[i] # Nothing
    /\ process' = [process EXCEPT ![i] = dir[i].version]
    /\ UNCHANGED <<dir, backups, state, packageMu, at, memory, rebuildMu, seen, active, undone,
                   faults, crashes, versions>>

\* The device builds the program of a package: install is to keep it.
Build(i) ==
    /\ dir[i] # Nothing /\ state.packages[i] # Nothing /\ ~dir[i].bin
    /\ dir' = [dir EXCEPT ![i].bin = TRUE]
    /\ UNCHANGED <<backups, state, packageMu, at, memory, hub, undone, faults, crashes, versions>>

\* A crash leaves the disk as it is, temporary directories included; the next
\* start begins with the preinstallation.
Crash ==
    /\ crashes < MaxCrashes /\ crashes' = crashes + 1
    /\ at' = [t \in Threads |-> IF t = Boot THEN "next" ELSE IF at[t] = "idle" THEN "idle" ELSE "lost"]
    /\ packageMu' = Nothing /\ rebuildMu' = Nothing /\ left' = Builtin
    /\ backups' = {[b EXCEPT !.of = Nothing] : b \in backups}
    /\ active' = None /\ process' = None /\ seen' = None /\ undone' = {}
    /\ UNCHANGED <<dir, state, new, draft, faults, versions>>

Next == \/ \E t \in Threads :
             \/ Begin(t) \/ BeginFails(t) \/ Backup(t) \/ Swap(t) \/ SwapFails(t)
             \/ Save(t) \/ SaveFails(t) \/ Undo(t) \/ Clean(t)
             \/ Collect(t) \/ Rebuild(t) \/ ReloadFails(t)
        \/ BootSaves \/ \E t \in Calls : Unrecord(t) \/ RemoveFiles(t)
        \/ \E i \in Ids : Launch(i) \/ Build(i)
        \/ Crash

Spec == Init /\ [][Next]_pkgVars

-----------------------------------------------------------------------------
TypeOK == /\ DOMAIN dir = Ids /\ DOMAIN state.packages = Ids /\ left \subseteq Builtin
          /\ {packageMu, rebuildMu} \subseteq Threads \cup {Nothing}
          /\ \A b \in backups : b.id \in Ids

\* At every moment, so after a crash or failures at any step too, a package
\* on record is there as a whole: its directory, or a backup of it.
NothingDestroyed ==
    \A i \in Ids :
        state.packages[i] # Nothing => dir[i] # Nothing \/ \E b \in backups : b.id = i

\* A process runs the program of the package that is installed, once the calls
\* that changed the package are through and their reloads did not fail: an
\* update, or an uninstallation overtaken by a new installation, leaves no old
\* program running.  (An installation undone after the swap may have been used.)
RunningIsInstalled ==
    \A i \in Ids \ undone :
        /\ process[i] # Nothing /\ at[Boot] = "ready"
        /\ \A t \in Calls : CallId[t] = i => at[t] \in {"idle", "answered", "lost"}
        => dir[i] # Nothing /\ process[i] = dir[i].version

=============================================================================

------------------------------ MODULE Indexer ------------------------------
(* The resident index of one root (libs/indexer/indexer.go): a build walks   *)
(* the tree beside the watcher's goroutine, which applies the changes of a   *)
(* finished tree and asks for another build when it cannot.  rg takes the    *)
(* candidates of an answered query for complete, so what is wanted is that   *)
(* no file that matches is left out; one too many is read and dropped.       *)
EXTENDS Naturals

CONSTANTS Dirs, Files,  \* the directories, with Root, and the regular files
          Root, Parent, \* Parent[n]: the directory of n, for n other than Root
          Above,        \* Above[n]: n and the directories on its path
          SkipDirs,     \* directories never indexed (indexSkipDirs)
          Texts,        \* contents; a query asks for one of them
          Absent, Unindexed,  \* no such entry; an entry whose content is not known
          MaxChanges,   \* bound: changes to the disk
          MaxFaults     \* bound: lost events, and errors of a walk

\* The names are those of a tree, and a file is no directory of another.
Parameters ==
    /\ Root \in Dirs /\ Dirs \cap Files = {} /\ SkipDirs \subseteq Dirs
    /\ Absent \notin Texts \cup {"dir"}
    /\ Above[Root] = {Root}
    /\ \A n \in (Dirs \cup Files) \ {Root} :
         Parent[n] \in Dirs /\ n \notin Above[Parent[n]] /\ Above[n] = {n} \cup Above[Parent[n]]
    /\ \A n \in Dirs \cup Files :
         /\ Root \in Above[n] /\ Above[n] \ {n} \subseteq Dirs
         /\ \A a \in Above[n] : Above[a] \subseteq Above[n]
         /\ \A a \in Above[n] \ {n} : \E c \in Above[n] \ {Root} : Parent[c] = a

VARIABLES disk,      \* disk[n]: Absent, a text, or "dir"
          watched,   \* directories the watcher reports about
          events,    \* changes it has yet to deliver
          failed,    \* its channel of errors holds one
          ready, building, dirty, closed,   \* of the indexRoot
          files,     \* files[f]: the index, Absent for no entry
          fresh,     \* the index the build is making
          walk,      \* entries the walk under way has yet to visit
          listing,   \* directories it watches by now and has yet to list
          watcher,   \* "select" | "applying" | "refused": the watcher's goroutine
          changes,   \* the changes that wait for the timer, or are being applied
          writes, faults   \* counted

ixVars == <<disk, watched, events, failed, ready, building, dirty, closed, files, fresh, walk,
            listing, watcher, changes, writes, faults>>

Nodes == Dirs \cup Files
flags == <<ready, building, dirty, closed>>
world == <<disk, events, failed, writes>>

Below(n, d) == d \in Above[n]
Skipped(n) == \E d \in SkipDirs : Below(n, d)
Empty == [f \in Files |-> Absent]

\* New watches the root and starts the first build.
Init == /\ disk \in {[n \in Nodes |-> IF n \in Dirs THEN "dir" ELSE t] : t \in Texts}
        /\ watched = {} /\ events = {} /\ failed = FALSE
        /\ ready = FALSE /\ building = TRUE /\ dirty = FALSE /\ closed = FALSE
        /\ files = Empty /\ fresh = Empty /\ walk = {Root} /\ listing = {}
        /\ watcher = "select" /\ changes = {} /\ writes = 0 /\ faults = 0

-----------------------------------------------------------------------------
(* The disk, and the library that watches it.                               *)

Reported(n) == IF n # Root /\ Parent[n] \in watched THEN {n} ELSE {}
Index == UNCHANGED <<flags, files, fresh, walk, listing, watcher, changes, faults>>
Change == writes < MaxChanges /\ writes' = writes + 1

\* A file is created or written, a directory made.
Write(n) ==
    /\ Change /\ n # Root /\ disk[Parent[n]] = "dir" /\ ~Skipped(n)
    /\ \E t \in (IF n \in Dirs THEN {"dir"} ELSE Texts) :
         disk[n] # t /\ disk' = [disk EXCEPT ![n] = t]
    /\ events' = events \cup Reported(n)
    /\ UNCHANGED <<watched, failed>> /\ Index

\* A file or a tree goes, and what watched the tree with it.
Delete(n) ==
    /\ Change /\ n # Root /\ disk[n] # Absent /\ ~Skipped(n)
    /\ LET gone == {m \in Nodes : Below(m, n) /\ disk[m] # Absent}
       IN /\ disk' = [m \in Nodes |-> IF m \in gone THEN Absent ELSE disk[m]]
          /\ events' = events \cup UNION {Reported(m) : m \in gone}
          /\ watched' = watched \ gone
    /\ UNCHANGED failed /\ Index

\* The queue of the system overflows: events are lost, and an error says so.
Overflow ==
    /\ faults < MaxFaults /\ faults' = faults + 1
    /\ events # {} /\ events' = {} /\ failed' = TRUE
    /\ UNCHANGED <<disk, watched, flags, files, fresh, walk, listing, watcher, changes, writes>>

-----------------------------------------------------------------------------
(* The walk of build, and of addTree under apply: a directory is watched     *)
(* before it is listed, and a file is read after that.                       *)

Walking == building \/ watcher = "applying"
\* rebuild, by whoever holds the lock: a build under way is made to repeat.
Rebuild == IF building THEN dirty' = TRUE /\ UNCHANGED <<ready, building, fresh, walk, listing>>
           ELSE /\ building' = TRUE /\ ready' = FALSE /\ fresh' = Empty
                /\ walk' = {Root} /\ listing' = {} /\ UNCHANGED dirty

EnterDir(n) ==
    /\ Walking /\ n \in walk /\ n \in Dirs
    /\ walk' = walk \ {n}
    /\ IF disk[n] = Absent \/ n \in SkipDirs THEN UNCHANGED <<watched, listing>>
       ELSE watched' = watched \cup {n} /\ listing' = listing \cup {n}
    /\ UNCHANGED <<world, flags, files, fresh, watcher, changes, faults>>

ListDir(n) ==
    /\ Walking /\ n \in listing /\ listing' = listing \ {n}
    /\ walk' = walk \cup {m \in Nodes \ {Root} : Parent[m] = n /\ disk[m] # Absent}
    /\ UNCHANGED <<world, watched, flags, files, fresh, watcher, changes, faults>>

\* extract: the text of the file; a file that is gone, too large or cannot be
\* read is entered as not indexed.
Extracted(f) == IF disk[f] = Absent THEN {Unindexed} ELSE {disk[f], Unindexed}

EnterFile(f) ==
    /\ Walking /\ f \in walk /\ f \in Files /\ walk' = walk \ {f}
    /\ \E entry \in Extracted(f) :
         IF building THEN fresh' = [fresh EXCEPT ![f] = entry] /\ UNCHANGED files
         ELSE files' = [files EXCEPT ![f] = entry] /\ UNCHANGED fresh
    /\ UNCHANGED <<world, watched, flags, listing, watcher, changes, faults>>

\* The end of build: what it made is published, unless Close came or the walk
\* failed, and it is done again if there were changes on the way.
Publish(ok) ==
    /\ building /\ (ok => walk = {} /\ listing = {})
    /\ IF ok \/ closed THEN UNCHANGED faults ELSE faults < MaxFaults /\ faults' = faults + 1
    /\ files' = IF ok /\ ~closed THEN fresh ELSE files
    /\ dirty' = FALSE /\ building' = (dirty /\ ~closed)
    /\ ready' = (ok /\ ~closed /\ ~dirty)
    /\ fresh' = Empty /\ walk' = (IF building' THEN {Root} ELSE {}) /\ listing' = {}
    /\ UNCHANGED <<world, watched, closed, watcher, changes>>

-----------------------------------------------------------------------------
(* watch, and apply, which holds the lock while it changes the index.        *)

ReceiveError ==
    /\ watcher = "select" /\ failed /\ failed' = FALSE
    /\ IF closed THEN UNCHANGED <<ready, building, dirty, fresh, walk, listing>> ELSE Rebuild
    /\ UNCHANGED <<disk, watched, events, closed, files, watcher, changes, writes, faults>>

\* A change during a build is left to the next one.
\* (An operator whose name ends in Bug is a faulty variant of the one after it.)
ReceiveEvent_DropBug(n) ==
    /\ watcher = "select" /\ ~closed /\ n \in events /\ events' = events \ {n}
    /\ changes' = IF building THEN changes ELSE changes \cup {n}
    /\ UNCHANGED <<disk, watched, failed, flags, files, fresh, walk, listing, watcher, writes, faults>>
ReceiveEvent(n) ==
    /\ watcher = "select" /\ ~closed /\ n \in events /\ events' = events \ {n}
    /\ IF building THEN dirty' = TRUE /\ UNCHANGED changes
       ELSE changes' = changes \cup {n} /\ UNCHANGED dirty
    /\ UNCHANGED <<disk, watched, failed, ready, building, closed, files, fresh, walk, listing,
                   watcher, writes, faults>>

\* 150 ms after the last change.  Without an index to change, it is forgotten.
Timer ==
    /\ watcher = "select" /\ ~closed /\ changes # {}
    /\ IF ready THEN watcher' = "applying" /\ UNCHANGED changes
       ELSE changes' = {} /\ UNCHANGED watcher
    /\ UNCHANGED <<world, watched, flags, files, fresh, walk, listing, faults>>

\* One change: whatever was there is removed from the index, and what is there
\* now is entered.
ApplyChange(n) ==
    /\ watcher = "applying" /\ walk = {} /\ listing = {} /\ n \in changes
    /\ changes' = changes \ {n}
    /\ files' = [f \in Files |-> IF Below(f, n) THEN Absent ELSE files[f]]
    /\ walk' = IF disk[n] = Absent \/ (n \in Dirs /\ Skipped(n)) THEN {} ELSE {n}
    /\ UNCHANGED <<world, watched, flags, fresh, listing, watcher, faults>>

ApplyEnds ==
    /\ watcher = "applying" /\ walk = {} /\ listing = {} /\ changes = {}
    /\ watcher' = "select"
    /\ UNCHANGED <<world, watched, flags, files, fresh, walk, listing, changes, faults>>

\* An entry that can be neither seen nor skipped: apply gives up, and the
\* goroutine asks for a build once it has left the lock.
ApplyFails ==
    /\ watcher = "applying" /\ faults < MaxFaults /\ faults' = faults + 1
    /\ watcher' = "refused" /\ walk' = {} /\ listing' = {} /\ changes' = {}
    /\ UNCHANGED <<world, watched, flags, files, fresh>>

Refused ==
    /\ watcher = "refused" /\ watcher' = "select"
    /\ IF closed THEN UNCHANGED <<ready, building, dirty, fresh, walk, listing>> ELSE Rebuild
    /\ UNCHANGED <<world, watched, closed, files, changes, faults>>

\* Close waits for the lock, and for both goroutines to end.
Close ==
    /\ ~closed /\ watcher # "applying"
    /\ closed' = TRUE /\ ready' = FALSE /\ events' = {} /\ changes' = {}
    /\ UNCHANGED <<disk, watched, failed, building, dirty, files, fresh, walk, listing, watcher,
                   writes, faults>>

Next == \/ \E n \in Nodes : \/ Write(n) \/ Delete(n) \/ EnterDir(n) \/ ListDir(n)
                            \/ EnterFile(n) \/ ReceiveEvent(n) \/ ApplyChange(n)
        \/ \E ok \in BOOLEAN : Publish(ok)
        \/ Overflow \/ ReceiveError \/ Timer \/ ApplyEnds \/ ApplyFails \/ Refused \/ Close

Spec == Init /\ [][Next]_ixVars

-----------------------------------------------------------------------------
(* Candidates, under the read lock.                                          *)

Answered == ready /\ ~closed /\ watcher # "applying"
Candidates(text) == {f \in Files : files[f] \in {text, Unindexed}}

\* A change that is still on its way to the index.
OnItsWay(f) == failed \/ watcher = "refused" \/ \E n \in events \cup changes : Below(f, n)

\* An answered query leaves out no file that holds the text it asks for, unless
\* a change that concerns the file has yet to be delivered or applied: builds,
\* lost events, changes during a build or while they are applied, directories
\* that come and go, none of them loses a file for good.
NoMatchLost ==
    Answered => \A t \in Texts : \A f \in Files :
        disk[f] = t /\ ~Skipped(f) /\ ~OnItsWay(f) => f \in Candidates(t)
=============================================================================

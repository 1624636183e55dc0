------------------------------ MODULE MCStores ------------------------------
(* One run for the stores of the device: the byte store, the uploads it     *)
(* takes by ranges, the index of a root and the logs of executions.  They   *)
(* share no state here: `part` picks the one that takes steps; meanwhile    *)
(* the byte store is as at first and the variables of the others hold       *)
(* nothing.                                                                 *)
EXTENDS HostBytes, Integers, Sequences, TLC

CONSTANTS Dirs, Files, Root, Parent, Above, SkipDirs, Texts, Absent,
          Unindexed, MaxChanges, MaxFaults, Sent, Other, RangeMax, Checked,
          MaxCalls, Streams, Cap, PreviewMax, FullMax, MaxTotal,
          u1, u2, u3, c1, r1

VARIABLES part, disk, watched, events, failed, ready, building, dirty,
          indexClosed, files, fresh, walk, listing, watcher, changes, writes,
          faults, stored, received, immutable, inFlight, told, wrong, total,
          log, lost, size, run, direct, ask, answer

Index == INSTANCE Indexer WITH
    closed <- indexClosed
Upload == INSTANCE Upload
Output == INSTANCE ExecOutput

bytesVars == <<st, charged, sources, expired, shut, used, pending,
    pendingCreators, closingCreators, closed, gone, todo, hold, doomed, found,
    reading>>
indexVars == <<disk, watched, events, failed, ready, building, dirty,
    indexClosed, files, fresh, walk, listing, watcher, changes, writes, faults>>
uploadVars == <<stored, received, immutable, inFlight, told, wrong>>
outputVars == <<total, log, lost, size, run, direct, ask, answer>>

IndexParked ==
    /\ disk = 0 /\ watched = 0 /\ events = 0 /\ failed = 0 /\ ready = 0
    /\ building = 0 /\ dirty = 0 /\ indexClosed = 0 /\ files = 0 /\ fresh = 0
    /\ walk = 0 /\ listing = 0 /\ watcher = 0 /\ changes = 0 /\ writes = 0
    /\ faults = 0
UploadParked ==
    /\ stored = 0 /\ received = 0 /\ immutable = 0 /\ inFlight = 0 /\ told = 0
    /\ wrong = 0
OutputParked ==
    /\ total = 0 /\ log = 0 /\ lost = 0 /\ size = 0 /\ run = 0 /\ direct = 0
    /\ ask = 0 /\ answer = 0

BundleInit ==
    /\ part \in {"bytes", "index", "upload", "output"}
    /\ Init
    /\ IF part = "index" THEN Index!Init ELSE IndexParked
    /\ IF part = "upload" THEN Upload!Init ELSE UploadParked
    /\ IF part = "output" THEN Output!Init ELSE OutputParked

BundleNext ==
    \/ /\ part = "bytes" /\ Next
       /\ UNCHANGED <<part, indexVars, uploadVars, outputVars>>
    \/ /\ part = "index" /\ Index!Next
       /\ UNCHANGED <<part, bytesVars, uploadVars, outputVars>>
    \/ /\ part = "upload" /\ Upload!Next
       /\ UNCHANGED <<part, bytesVars, indexVars, outputVars>>
    \/ /\ part = "output" /\ Output!Next
       /\ UNCHANGED <<part, bytesVars, indexVars, uploadVars>>

BundleSpec == BundleInit /\ [][BundleNext]_<<part, bytesVars, indexVars,
    uploadVars, outputVars>>

\* index: an index that answers leaves out no file it should know
\* (Index.Candidates).
NoMatchLost == part = "index" => Index!NoMatchLost
\* upload: what is below the received mark is what the client sent
\* (writeUpload, sealUpload).
UploadIsSent == part = "upload" => Upload!UploadIsSent
\* output: of what an execution wrote nothing is lost unless the result says
\* so (spillLocked).
NothingSilentlyLost == part = "output" => Output!NothingSilentlyLost

-----------------------------------------------------------------------------
\* bytes: two uploads, one by ranges, and a file, of one connection.
Kinds == [u \in Creations |-> CASE u = u1 -> "stream" [] u = u2 -> "staged" [] OTHER -> "file"]
Sizes == [u \in Creations |-> IF u = u1 THEN 2 ELSE 1]
OneCreator == [u \in Creations |-> c1]

\* index: a directory with one file, a directory below it, and one not indexed.
ParentOf == [n \in (Dirs \cup Files) \ {Root} |->
                CASE n = "g" -> "sub" [] n = "h" -> "dist" [] OTHER -> "top"]
AboveOf == [n \in Dirs \cup Files |->
                {n, Root} \cup IF n = Root THEN {} ELSE {ParentOf[n]}]

\* upload: the client sends a file in ranges, another version of it differs.
SentBytes == <<1, 2, 3>>
OtherBytes == <<1, 9, 3>>

\* What the modules assume of their constants.
ASSUME StoresAssumption == Index!Parameters /\ Upload!Parameters /\ Output!Parameters
=============================================================================

---------------------------- MODULE FileService ----------------------------
(* The file service (libs/hostfs/fs.go, operations.go, copy.go, view.go):   *)
(* operations on a tree that other programs change at the same time.  A    *)
(* call holds FS.mu for its whole operation, so calls of the service only  *)
(* meet the editor, except while a client reads a file it has opened or    *)
(* fetches the next page of a listing.                                     *)
EXTENDS Integers, FiniteSets, SequencesExt

CONSTANTS Paths,      \* paths below the root << >>: sequences of names
          Calls,      \* [op, src, dst, cond, tree]; dst is the target of every change
          FirstDisk,  \* path -> object, at first
          FirstObj,   \* the objects, at first
          Writable,   \* paths the device's policy lets the service change
          MaxCalls,   \* bound: calls that are made
          MaxEdits,   \* bound: changes by the editor
          MaxEntries, \* MaxDirectoryEntries
          PageSize,   \* entries of a page
          Free        \* nobody holds FS.mu, no object

PathNames == UNION {ToSet(p) : p \in Paths}
Objects == [kind : {"file", "dir"}, data : Nat \X Nat]
FirstText == 10    \* the editor writes texts from this one on, each once

\* What the model takes for granted: the operations of a client (FSOp); that
\* neither a call nor an object is "nobody"; that what there is at first is a
\* tree: what is above a path exists, and no two paths are links to one object;
\* and that the texts at first, and those of a client, are not among the
\* editor's.
Parameters ==
    /\ Free \notin Calls \cup Nat /\ Paths \subseteq Seq(PathNames)
    /\ \A c \in Calls :
         /\ c.op \in {"write", "read", "list", "mkdir", "remove", "copy", "move"}
         /\ c.src \in Seq(PathNames) /\ c.dst \in Seq(PathNames)
         /\ c.op = "write" => c.data \in Nat \X Nat /\ c.data[2] <= c.data[1] /\ c.data[1] < FirstText
    /\ FirstObj \in Seq(Objects)
    /\ \A i \in DOMAIN FirstObj :
         FirstObj[i].data[2] <= FirstObj[i].data[1] /\ FirstObj[i].data[1] < FirstText
    /\ DOMAIN FirstDisk \subseteq Seq(PathNames) /\ \A p \in DOMAIN FirstDisk : FirstDisk[p] \in DOMAIN FirstObj
    /\ \A p, q \in DOMAIN FirstDisk : FirstDisk[p] = FirstDisk[q] => p = q
    /\ \A p \in DOMAIN FirstDisk : \A k \in 0..Len(p) : SubSeq(p, 1, k) \in DOMAIN FirstDisk
    /\ PageSize \in Nat

VARIABLES disk,     \* disk[p]: index into obj, for the root and the paths that exist
          obj,      \* objects ever made: [kind, data]; the data of a file has two halves,
                    \* that of a directory counts the changes of its entries
          edits,    \* changes made by the editor
          writing,  \* the object the editor has half rewritten
          touched,  \* history: paths the editor changed since the service last looked
          busy,     \* the call that holds FS.mu
          job       \* job[c]: where a call that is made is, and what it has learned

fsVars == <<disk, obj, edits, writing, touched, busy, job>>

NoData == <<0, 0>>
Object(kind, data) == [kind |-> kind, data |-> data]
Exists(p) == p \in DOMAIN disk
IsDir(p) == Exists(p) /\ obj[disk[p]].kind = "dir"
IsFile(p) == Exists(p) /\ obj[disk[p]].kind = "file"
Children(p) == {q \in DOMAIN disk : Len(q) = Len(p) + 1 /\ IsPrefix(p, q)}
Subtree(p) == {q \in DOMAIN disk : IsPrefix(p, q)}
Under(q, p, r) == r \o SubSeq(q, Len(p) + 1, Len(q))   \* q moved from p to r

\* fileStamp: the object and its time, which changes with the contents of a file
\* and the entries of a directory.
Stamp(p) == IF Exists(p) THEN <<disk[p], obj[disk[p]].data>> ELSE <<Free, NoData>>

\* FSCondition.Check; a hash stands for the contents it was made from.
Meets(cond, p) == CASE cond.kind = "absent" -> ~Exists(p)
                    [] cond.kind = "hash" -> IsFile(p) /\ obj[disk[p]].data = cond.data
                    [] cond.kind = "any" -> TRUE

NewJob == [at |-> "idle", todo |-> << >>, plan |-> << >>, done |-> 0, open |-> Free,
           stamp |-> << >>, got |-> << >>, shown |-> << >>, effects |-> 0,
           bare |-> FALSE, answer |-> ""]

Init == /\ disk = FirstDisk /\ obj = FirstObj
        /\ edits = 0 /\ writing = Free /\ touched = {} /\ busy = Free
        /\ \E S \in SUBSET Calls :
             /\ Cardinality(S) = MaxCalls
             /\ job = [c \in S |-> NewJob]

\* The objects, when entries of the directories of ps come or go.
Entered(ps) == LET dirs == {disk[Front(p)] : p \in {q \in ps : IsDir(Front(q))}}
               IN  [i \in DOMAIN obj |-> IF i \in dirs THEN [obj[i] EXCEPT !.data[1] = @ + 1] ELSE obj[i]]
Put(p, node) == /\ obj' = Append(Entered({p}), node)
                /\ disk' = [q \in DOMAIN disk \cup {p} |-> IF q = p THEN Len(obj) + 1 ELSE disk[q]]
Drop(p) == /\ disk' = [q \in DOMAIN disk \ {p} |-> disk[q]]
           /\ obj' = Entered({p})

Goto(c, l) == job' = [job EXCEPT ![c].at = l]
Answer(c, a) == /\ job' = [job EXCEPT ![c].at = "answered", ![c].answer = a]
                /\ busy' = IF busy = c THEN Free ELSE busy
Tree == UNCHANGED <<disk, obj>>
Editor == UNCHANGED <<edits, writing, touched>>

\* (An operator whose name ends in Bug is a faulty variant of the one after it.)
Fault_NoneBug(c) == "none"
\* partial: an error that follows committed entries says so.
Fault(c) == IF job[c].done > 0 THEN "partial" ELSE "none"

Fails(c) == Answer(c, Fault(c)) /\ Tree

\* Cancellation, a refusal by the current policy or an error of the disk, at
\* any of the checks and system calls up to a commit, and when a new directory
\* is looked at.
Abort(c) ==
    /\ busy = c \/ job[c].at \in {"verify", "chunk"}
    /\ job[c].at \notin {"committed", "moved"}
    /\ job' = [job EXCEPT ![c].at = "answered", ![c].answer = Fault(c),
                          ![c].bare = (job[c].at = "made")]
    /\ busy' = IF busy = c THEN Free ELSE busy
    /\ Tree /\ Editor

\* Where an operation starts once it has the lock and its arguments are right.
FirstStep(c) ==
    CASE c.op = "write" -> "stage"
      [] c.op = "read" -> "open"
      [] c.op = "list" -> "page"
      [] c.op = "mkdir" -> IF c.tree THEN "probe" ELSE "mkdir"
      [] c.op = "remove" -> IF c.tree THEN "walk" ELSE "remove"
      [] OTHER -> "walk"

\* Refusals that precede everything: a policy that forbids the target, a copy
\* into its own source or of a directory onto something, a source that is not
\* there.
Refused(c) ==
    \/ c.op \in {"write", "move", "copy", "remove"} /\ c.dst \notin Writable
    \/ c.op = "mkdir" /\ ~c.tree /\ c.dst \notin Writable
    \/ c.op = "move" /\ c.src \notin Writable
    \/ c.op = "copy" /\ IsPrefix(c.src, c.dst)
    \/ c.op = "copy" /\ IsDir(c.src) /\ c.cond.kind # "absent"
    \/ c.op \in {"copy", "move"} /\ ~Exists(c.src)

\* MissingOK: what is not there is removed already.
AlreadyGone(c) == c.op = "remove" /\ ~Exists(c.dst)

\* runOp: one operation at a time.
Enter(c) ==
    /\ job[c].at = "idle" /\ busy = Free
    /\ IF Refused(c) THEN Fails(c)
       ELSE IF AlreadyGone(c) THEN Answer(c, "ok") /\ Tree
       ELSE /\ busy' = c
            /\ job' = [job EXCEPT ![c].at = FirstStep(c), ![c].stamp = Stamp(c.src),
                                  ![c].todo = <<IF c.op \in {"remove", "mkdir"} THEN c.dst ELSE c.src>>,
                                  ![c].plan = IF c.tree THEN << >> ELSE <<[path |-> c.dst]>>]
            /\ Tree
    /\ Editor

-----------------------------------------------------------------------------
(* walk, as copy, move and removeTree use it: the plan of an operation.     *)

\* What the visitor refuses: a target the policy forbids, for copy and move.
Admitted(c, p) == c.op = "remove" \/ Under(p, c.src, c.dst) \in Writable

Visit(c) ==
    /\ busy = c /\ job[c].at = "walk"
    /\ LET p == Head(job[c].todo)
       IN  IF ~Exists(p) \/ Len(job[c].plan) = MaxEntries \/ ~Admitted(c, p)
           THEN Fails(c)
           ELSE /\ LET todo == SetToSeq(Children(p)) \o Tail(job[c].todo)
                   IN  job' = [job EXCEPT
                          ![c].plan = Append(@, [path |-> p, stamp |-> Stamp(p), dir |-> IsDir(p)]),
                          ![c].todo = todo,
                          ![c].at = IF todo # << >> THEN "walk"
                                    ELSE CASE c.op = "move" -> "recheck"
                                           [] c.op = "copy" -> "apply"
                                           [] c.op = "remove" -> "look"]
                /\ Tree /\ UNCHANGED busy
    /\ Editor

-----------------------------------------------------------------------------
(* Reading (readOrStat with Bytes.Copy, and View.Open with checkedFile):    *)
(* the file is read in chunks, and before each chunk and after the last one *)
(* it must be the object, with the stamp, that was opened.                  *)

Current(c) == job[c].plan[job[c].done + 1]
Source(c) == IF c.op = "copy" THEN Current(c).path ELSE c.src
Target(c) == CASE c.op = "copy" -> Under(Current(c).path, c.src, c.dst)
               [] c.op = "mkdir" -> Current(c).path
               [] OTHER -> c.dst

Open(c) ==
    /\ busy = c /\ job[c].at = "open"
    /\ IF ~IsFile(Source(c)) THEN Fails(c)
       ELSE /\ job' = [job EXCEPT ![c].at = "verify", ![c].open = disk[Source(c)],
                                  ![c].stamp = Stamp(Source(c)), ![c].got = << >>]
            /\ busy' = IF c.op = "read" THEN Free ELSE c
            /\ Tree
    /\ Editor

Unchanged_NotLastBug(c) == Len(job[c].got) = 2 \/ Stamp(Source(c)) = job[c].stamp
\* The verify function of the source.
Unchanged(c) == Stamp(Source(c)) = job[c].stamp

Verify(c) ==
    /\ job[c].at = "verify"
    /\ IF ~Unchanged(c) THEN Fails(c)
       ELSE IF Len(job[c].got) < 2 THEN Goto(c, "chunk") /\ Tree /\ UNCHANGED busy
       ELSE IF c.op = "copy" THEN Goto(c, "stage") /\ Tree /\ UNCHANGED busy
       ELSE Answer(c, "ok") /\ Tree
    /\ Editor

Chunk(c) ==
    /\ job[c].at = "chunk"
    /\ job' = [job EXCEPT ![c].at = "verify",
                          ![c].got = Append(@, obj[job[c].open].data[Len(@) + 1])]
    /\ Tree /\ Editor /\ UNCHANGED busy

-----------------------------------------------------------------------------
(* write                                                                    *)

Cond(c) == IF c.op = "copy" /\ Len(job[c].plan) > 1 THEN [kind |-> "absent"] ELSE c.cond
Written(c) == IF c.op = "copy" THEN job[c].got ELSE c.data

\* The preflight and, after the bytes are staged and synced, the same again.
Preflight(c) == LET p == Target(c)
                IN  IsDir(Front(p)) /\ (Exists(p) => IsFile(p)) /\ Meets(Cond(c), p)

Stage(c) ==
    /\ busy = c /\ job[c].at = "stage"
    /\ IF Preflight(c) THEN Goto(c, "staged") /\ Tree /\ UNCHANGED busy ELSE Fails(c)
    /\ Editor

Recheck(c) == Preflight(c)

LookAgain(c) ==
    /\ busy = c /\ job[c].at = "staged"
    /\ IF Recheck(c) THEN Goto(c, "ready") /\ Tree /\ UNCHANGED busy ELSE Fails(c)
    /\ touched' = {} /\ UNCHANGED <<edits, writing>>

\* renameNoReplace for an absent destination, else a rename over a file.
CommitWrite(c) ==
    /\ busy = c /\ job[c].at = "ready"
    /\ LET p == Target(c)
       IN  IF ~IsDir(Front(p)) \/ (Exists(p) /\ (IsDir(p) \/ Cond(c).kind = "absent"))
           THEN Fails(c)
           ELSE /\ Put(p, Object("file", Written(c)))
                /\ job' = [job EXCEPT ![c].at = "committed", ![c].effects = @ + 1]
                /\ UNCHANGED busy
    /\ Editor

\* The entry that write returns; copy goes on with the next of its plan.
AfterWrite(c) ==
    /\ busy = c /\ job[c].at = "committed"
    /\ \/ Answer(c, "partial")
       \/ /\ c.op = "write" /\ Answer(c, "ok")
       \/ /\ c.op = "copy" /\ UNCHANGED busy
          /\ job' = [job EXCEPT ![c].at = "apply", ![c].done = @ + 1]
    /\ Tree /\ Editor

-----------------------------------------------------------------------------
(* mkdir and mkdirParents                                                   *)

\* Upwards to the nearest existing directory; then the policy for all the
\* levels to be made, before any is.
Probe(c) ==
    /\ busy = c /\ job[c].at = "probe"
    /\ LET p == job[c].todo[1]
       IN  IF ~Exists(p) /\ p # << >>
           THEN /\ job' = [job EXCEPT ![c].plan = <<[path |-> p]>> \o @, ![c].todo = <<Front(p)>>]
                /\ UNCHANGED busy /\ Tree
           ELSE IF ~IsDir(p) \/ (\E i \in DOMAIN job[c].plan : job[c].plan[i].path \notin Writable)
           THEN Fails(c)
           ELSE IF job[c].plan = << >> THEN Answer(c, "ok") /\ Tree
           ELSE Goto(c, "mkdir") /\ UNCHANGED busy /\ Tree
    /\ Editor

MakeDir(c) ==
    /\ busy = c /\ job[c].at = "mkdir"
    /\ LET p == Target(c)
       IN  IF ~IsDir(Front(p)) \/ Exists(p) THEN Fails(c)
           ELSE /\ Put(p, Object("dir", NoData))
                /\ job' = [job EXCEPT ![c].at = "made", ![c].effects = @ + 1]
                /\ UNCHANGED busy
    /\ Editor

LookAtDir(c) ==
    /\ busy = c /\ job[c].at = "made" /\ IsDir(Target(c))
    /\ IF c.op = "mkdir" /\ job[c].done + 1 = Len(job[c].plan) THEN Answer(c, "ok")
       ELSE /\ job' = [job EXCEPT ![c].at = IF c.op = "copy" THEN "apply" ELSE "mkdir",
                                  ![c].done = @ + 1]
            /\ UNCHANGED busy
    /\ Tree /\ Editor

-----------------------------------------------------------------------------
(* copy: the plan's entries, each unchanged since it was planned            *)

Apply(c) ==
    /\ busy = c /\ job[c].at = "apply"
    /\ IF job[c].done = Len(job[c].plan)
       THEN Answer(c, IF Exists(c.dst) THEN "ok" ELSE "partial") /\ Tree
       ELSE IF Stamp(Current(c).path) # Current(c).stamp THEN Fails(c)
       ELSE Goto(c, IF Current(c).dir THEN "mkdir" ELSE "open") /\ Tree /\ UNCHANGED busy
    /\ Editor

-----------------------------------------------------------------------------
(* remove and removeTree: the plan from its end, each entry still the same  *)

Victim(c) == job[c].plan[Len(job[c].plan) - job[c].done]

StillPlanned_AnyBug(c) == Exists(Victim(c).path)
StillPlanned(c) ==
    LET v == Victim(c) IN
    Exists(v.path) /\ IF v.dir THEN disk[v.path] = v.stamp[1] ELSE Stamp(v.path) = v.stamp

LookAtVictim(c) ==
    /\ busy = c /\ job[c].at = "look"
    /\ IF StillPlanned(c) THEN Goto(c, "remove") /\ Tree /\ UNCHANGED busy ELSE Fails(c)
    /\ touched' = {} /\ UNCHANGED <<edits, writing>>

RemoveOne(c) ==
    /\ busy = c /\ job[c].at = "remove"
    /\ LET p == Victim(c).path
       IN  IF ~Exists(p) \/ Children(p) # {} THEN Fails(c)
           ELSE /\ Drop(p)
                /\ job' = [job EXCEPT ![c].effects = @ + 1, ![c].done = @ + 1,
                                      ![c].at = IF @ = "remove" /\ job[c].done + 1 < Len(job[c].plan)
                                                THEN "look" ELSE "answered",
                                      ![c].answer = "ok"]
                /\ busy' = IF job[c].done + 1 < Len(job[c].plan) THEN c ELSE Free
    /\ Editor

-----------------------------------------------------------------------------
(* move                                                                     *)

RecheckMove(c) ==
    /\ busy = c /\ job[c].at = "recheck"
    /\ IF Stamp(c.src) = job[c].stamp /\ Meets(c.cond, c.dst)
       THEN Goto(c, "rename") /\ Tree /\ UNCHANGED busy
       ELSE Fails(c)
    /\ touched' = {} /\ UNCHANGED <<edits, writing>>

\* renameNoReplace and renameReplace, with the rules of the system call.
Renames(c) ==
    /\ Exists(c.src) /\ IsDir(Front(c.dst)) /\ ~IsPrefix(c.src, c.dst)
    /\ Exists(c.dst) => /\ c.cond.kind # "absent"
                        /\ IsDir(c.src) = IsDir(c.dst) /\ Children(c.dst) = {}

CommitMove(c) ==
    /\ busy = c /\ job[c].at = "rename"
    /\ IF ~Renames(c) THEN Fails(c)
       ELSE /\ LET moved == {Under(q, c.src, c.dst) : q \in Subtree(c.src)}
               IN  disk' = [q \in (DOMAIN disk \ (Subtree(c.src) \cup {c.dst})) \cup moved |->
                              IF q \in moved THEN disk[Under(q, c.dst, c.src)] ELSE disk[q]]
            /\ job' = [job EXCEPT ![c].at = "moved", ![c].effects = @ + 1, ![c].done = 1]
            /\ obj' = Entered({c.src, c.dst}) /\ UNCHANGED busy
    /\ Editor

AfterMove(c) ==
    /\ busy = c /\ job[c].at = "moved"
    /\ Answer(c, IF Exists(c.dst) THEN "ok" ELSE "partial")
    /\ Tree /\ Editor

-----------------------------------------------------------------------------
(* list: a client fetches page after page with the cursor of the last one   *)

Entries(p) == SetToSeq(Children(p))
First(n, s) == SubSeq(s, 1, IF n < Len(s) THEN n ELSE Len(s))
After(n, s) == IF n < Len(s) THEN SubSeq(s, n + 1, Len(s)) ELSE << >>

\* A cursor is good for the revision it was made from.
CursorValid(c) == job[c].shown = << >> \/ Stamp(c.src) = job[c].stamp

\* A later page takes the lock anew.
ListBegins(c) ==
    /\ job[c].at = "page" /\ busy \in {c, Free}
    /\ IF ~IsDir(c.src) \/ ~CursorValid(c) THEN Fails(c)
       ELSE /\ job' = [job EXCEPT ![c].at = "enumerate", ![c].stamp = Stamp(c.src)]
            /\ busy' = c /\ Tree
    /\ Editor

Enumerate(c) ==
    /\ busy = c /\ job[c].at = "enumerate"
    /\ job' = [job EXCEPT ![c].at = "compare",
                 ![c].got = First(PageSize, After(Len(job[c].shown), Entries(c.src))),
                 ![c].todo = After(Len(job[c].shown) + PageSize, Entries(c.src))]
    /\ Tree /\ Editor /\ UNCHANGED busy

ListEnds(c) ==
    /\ busy = c /\ job[c].at = "compare"
    /\ IF Stamp(c.src) # job[c].stamp THEN Fails(c)
       ELSE /\ job' = [job EXCEPT ![c].shown = @ \o job[c].got,
                                  ![c].at = IF job[c].todo # << >> THEN "page" ELSE "answered",
                                  ![c].answer = IF job[c].todo # << >> THEN @ ELSE "ok"]
            /\ busy' = Free /\ Tree
    /\ Editor

-----------------------------------------------------------------------------
(* Other programs                                                           *)

Edited(p) == /\ edits < MaxEdits /\ edits' = edits + 1
             /\ touched' = touched \cup {p}
             /\ UNCHANGED <<busy, job>>

\* A file is rewritten in place, one half after the other.
EditBegins(p) ==
    /\ IsFile(p) /\ writing = Free /\ Edited(p)
    /\ obj' = [obj EXCEPT ![disk[p]].data[1] = edits + FirstText]
    /\ writing' = disk[p] /\ UNCHANGED disk

EditEnds(p) ==
    /\ Exists(p) /\ writing = disk[p] /\ writing' = Free
    /\ obj' = [obj EXCEPT ![disk[p]].data[2] = obj[disk[p]].data[1]]
    /\ touched' = touched \cup {p} /\ UNCHANGED <<disk, edits, busy, job>>

Replace(p) ==
    /\ IsDir(Front(p)) /\ ~IsDir(p) /\ Edited(p)
    /\ Put(p, Object("file", <<edits + FirstText, edits + FirstText>>)) /\ UNCHANGED writing

Delete(p) ==
    /\ Exists(p) /\ Children(p) = {} /\ writing # disk[p] /\ Edited(p)
    /\ Drop(p) /\ UNCHANGED writing

Service(c) ==
    \/ Enter(c) \/ Abort(c) \/ Visit(c)
    \/ Open(c) \/ Verify(c) \/ Chunk(c)
    \/ Stage(c) \/ LookAgain(c) \/ CommitWrite(c) \/ AfterWrite(c)
    \/ Probe(c) \/ MakeDir(c) \/ LookAtDir(c) \/ Apply(c)
    \/ LookAtVictim(c) \/ RemoveOne(c)
    \/ RecheckMove(c) \/ CommitMove(c) \/ AfterMove(c)
    \/ ListBegins(c) \/ Enumerate(c) \/ ListEnds(c)

Next == \/ \E c \in DOMAIN job : Service(c)
        \/ \E p \in Paths : EditBegins(p) \/ EditEnds(p) \/ Replace(p) \/ Delete(p)

Spec == Init /\ [][Next]_fsVars

-----------------------------------------------------------------------------
TypeOK ==
    /\ DOMAIN disk \subseteq Paths \cup {<< >>} /\ \A p \in DOMAIN disk : disk[p] \in DOMAIN obj
    /\ \A p \in DOMAIN disk : IsDir(Front(p))
    /\ busy \in DOMAIN job \cup {Free} /\ writing \in DOMAIN obj \cup {Free}
    /\ touched \subseteq Paths

(* What a client has got is what there is.  When the last chunk of a file   *)
(* that others write has passed the check, to be answered or to be copied,  *)
(* the chunks are together the file as it is then, never two halves of two  *)
(* versions; and with the last page, the pages got with one chain of        *)
(* cursors are together the directory as it is then, with no entry missing  *)
(* or twice.  Otherwise the call fails.                                     *)
Answered(c) == job[c].at = "answered" /\ job[c].answer = "ok"
FilesWhole ==
    \A c \in DOMAIN job :
        job[c].at = "verify" /\ (job'[c].at = "stage" \/ Answered(c)')
          => IsFile(Source(c)) /\ job[c].got = obj[disk[Source(c)]].data
ListingsWhole ==
    \A c \in DOMAIN job :
        job[c].at = "compare" /\ Answered(c)'
          => /\ ToSet(job'[c].shown) = Children(c.src)
             /\ Len(job'[c].shown) = Cardinality(Children(c.src))
SnapshotsTaken == FilesWhole /\ ListingsWhole
ReadsAreSnapshots == [][SnapshotsTaken]_fsVars

\* A failure says how much was done: "none" only if nothing was, except for
\* one new directory that could not be looked at, and "partial" with a count
\* that is at most that one, or one file without metadata, short.
EffectsReported ==
    \A c \in DOMAIN job : job[c].at = "answered" =>
        LET missed == IF job[c].bare THEN 1 ELSE 0
        IN  CASE job[c].answer = "none" -> job[c].effects = missed
              [] job[c].answer = "partial" -> job[c].effects \in 1..(job[c].done + 1)
              [] job[c].answer = "ok" -> c.op \in {"write", "move"} => job[c].effects = 1

\* The tree changes under a condition only as that condition was met at the
\* last look: what the service replaces under a hash has that hash, and what a
\* recursive removal takes is what it planned, unless another program changed
\* that very path since the look; an absent destination is never replaced.
ConditionsMet ==
    \A c \in DOMAIN job :
      /\ job[c].at = "ready" /\ job'[c].at = "committed" =>
           LET p == Target(c) IN
           /\ Cond(c).kind = "absent" => ~Exists(p)
           /\ Cond(c).kind = "hash" /\ p \notin touched => Meets(Cond(c), p)
      /\ job[c].at = "remove" /\ c.tree /\ job'[c].effects > job[c].effects
           /\ Victim(c).path \notin touched =>
           LET v == Victim(c) IN
           Exists(v.path) /\ IF v.dir THEN disk[v.path] = v.stamp[1]
                             ELSE Stamp(v.path) = v.stamp
ConditionsHold == [][ConditionsMet]_fsVars

\* protocol/fs.go:172 says that the failure entries of the file service
\* guarantee that nothing was done (Effect=none).
NoneMeansNothing ==
    \A c \in DOMAIN job : job[c].answer = "none" => job[c].effects = 0
=============================================================================

------------------------------ MODULE ScriptFS ------------------------------
(* The file system that scripts see on a device: the adapter with the rule  *)
(* table (libs/execution/fs_ufs.go, fs_host.go) over the checked operations *)
(* of the system's files (libs/host/osvfs_secure.go).  Names are resolved   *)
(* and judged in steps, and other programs rename directories and put links *)
(* in their place between any two of them.                                  *)
EXTENDS FiniteSets, Integers, SequencesExt

CONSTANTS Root, Dirs, Files, Links,  \* objects; Root is a directory
          Names,
          To,          \* To[l]: the name beside the link l that it leads to
          FirstEntry,  \* FirstEntry[d][n]: the object under n in d, or Absent
          Calls,       \* [op, name, dest, relative]: paths are sequences of names
          Tables,      \* rule tables there may be: [read, write, broken]
          MaxCalls,    \* bound: operations that run
          MaxChanges,  \* bound: what other programs do
          Absent

Objects == Dirs \cup Files \cup Links

\* What the model takes for granted: nothing is not an object, links lead to names
\* beside them, and the operations are those of the adapter.
Parameters ==
    /\ Root \in Dirs /\ Absent \notin Objects
    /\ To \in [Links -> Names]
    /\ FirstEntry \in [Dirs -> [Names -> Objects \cup {Absent}]]
    /\ \A c \in Calls :
         /\ c.op \in {"read", "truncate", "append", "stat", "chdir", "chmod", "mkdir", "remove",
                      "removeall", "rename", "link"}
         /\ c.name \in Seq(Names) /\ c.dest \in Seq(Names) /\ c.relative \in BOOLEAN

VARIABLES entry,       \* the directories
          rules,       \* the rule table: paths that may be read and written
          cwd,         \* the adapter's working directory
          job,         \* job[c]: where an operation is
          changes,
          held         \* history: held[c], the entries there have been since c began

scriptVars == <<entry, rules, cwd, job, changes, held>>

-----------------------------------------------------------------------------
(* Names                                                                    *)

Child(d, n) == IF d \in Dirs THEN entry[d][n] ELSE Absent
Node(path) == FoldLeft(Child, Root, path)

\* vbox.Canonical: every link is followed; what does not exist stays as it is.
Step(path, n) == LET o == Child(Node(path), n)
                 IN  Append(path, IF o \in Links THEN To[o] ELSE n)
Canonical(path) ==
    LET found[k \in 0..Len(path)] == IF k = 0 THEN << >> ELSE Step(found[k - 1], path[k])
    IN  found[Len(path)]
CanonicalNoFollow(path) == IF path = << >> THEN path ELSE Append(Canonical(Front(path)), Last(path))

Writes(op) == op \notin {"read", "stat", "chdir"}
OnName(op) == op \in {"remove", "removeall", "rename"}
Plain(op) == op \in {"stat", "chdir", "chmod", "removeall"}   \* no checked form

\* resolve
Abs(c, path) == IF c.relative THEN cwd \o path ELSE path
Named(c) == IF c.op = "rename" THEN <<c.name, c.dest>> ELSE <<c.name>>

\* gatePath; the table is the one of the moment.
Match(path, write) == path \in (IF write THEN rules.write ELSE rules.read) /\ ~rules.broken
Gate(c, path) == Match(IF OnName(c.op) THEN CanonicalNoFollow(path) ELSE Canonical(path), Writes(c.op))

\* gateMeta: with a broken table the working directory may still be looked at.
Judged(c, path) == \/ Gate(c, path)
                   \/ c.op \in {"stat", "chdir"} /\ rules.broken /\ path = cwd

Idle == [at |-> "idle", abs |-> << >>, todo |-> << >>, canon |-> << >>, open |-> << >>,
         h |-> Root, k |-> 0, seen |-> Absent, allowed |-> {}, acts |-> {}]

Init == /\ entry = FirstEntry /\ rules \in Tables /\ cwd = << >>
        /\ \E S \in SUBSET Calls :
             /\ Cardinality(S) = MaxCalls
             /\ job = [c \in Calls |-> [Idle EXCEPT !.at = IF c \in S THEN "idle" ELSE "never"]]
        /\ changes = 0 /\ held = [c \in Calls |-> {}]

Triples == {<<d, n, entry[d][n]>> : d \in Dirs, n \in Names}
Remember == held' = [c \in Calls |-> IF job'[c].at \in {"idle", "never"} THEN {}
                                     ELSE IF job[c].at = "done" THEN held[c]
                                     ELSE held[c] \cup Triples \cup Triples']

Set(c, j) == job' = [job EXCEPT ![c] = j]
Goto(c, l) == job' = [job EXCEPT ![c].at = l]
Fails(c) == Goto(c, "done") /\ UNCHANGED entry
Others == UNCHANGED <<rules, cwd, changes>> /\ Remember

-----------------------------------------------------------------------------
(* The adapter                                                              *)

\* An existing directory is made already; links and owners are not supported
\* by this file system and refused.
Begin(c) ==
    /\ job[c].at = "idle"
    /\ LET abs == [i \in DOMAIN Named(c) |-> Abs(c, Named(c)[i])]
       IN  IF c.op = "mkdir" /\ Node(Canonical(abs[1])) \in Dirs THEN Fails(c)
           ELSE IF c.op = "link" \/ \E i \in DOMAIN abs : ~Judged(c, abs[i]) THEN Fails(c)
           ELSE /\ Set(c, [Idle EXCEPT !.abs = abs, !.todo = abs,
                             !.at = IF Plain(c.op) THEN "plain"
                                    ELSE IF c.op = "mkdir" THEN "levels" ELSE "pin"])
                /\ UNCHANGED entry
    /\ Others

\* Stat and Chdir follow the name again, chmod too; RemoveAll takes the name.
Plainly(c) ==
    /\ job[c].at = "plain"
    /\ LET abs == job[c].abs[1]
           name == Canonical(Front(abs))
           found == Node(Canonical(abs))
       IN  /\ cwd' = IF c.op = "chdir" /\ found \in Dirs THEN abs ELSE cwd
           /\ entry' = IF c.op = "removeall" /\ abs # << >> /\ Node(name) \in Dirs
                       THEN [entry EXCEPT ![Node(name)][Last(abs)] = Absent]
                       ELSE entry
    /\ Goto(c, "done") /\ UNCHANGED <<rules, changes>> /\ Remember

-----------------------------------------------------------------------------
(* pinOSParent: from the root, one directory after the other                *)

Follows(c) == c.op \in {"read", "truncate", "append"}

\* MkdirAllChecked looks upwards for what exists and makes what does not.
Levels(c) ==
    /\ job[c].at = "levels"
    /\ LET full == Canonical(job[c].abs[1])
           stat(i) == Node(Canonical(SubSeq(full, 1, i)))
       IN  \E up \in 0..Len(full) :
             /\ stat(up) # Absent /\ \A i \in (up + 1)..Len(full) : stat(i) = Absent
             /\ IF up = Len(full) \/ stat(up) \notin Dirs THEN Fails(c)
                ELSE /\ job' = [job EXCEPT ![c].at = "pin",
                                  ![c].todo = [i \in 1..(Len(full) - up) |-> SubSeq(full, 1, up + i)]]
                     /\ UNCHANGED entry
    /\ Others

Pin(c) ==
    /\ job[c].at = "pin"
    /\ LET path == Head(job[c].todo)
           canon == IF Follows(c) THEN Canonical(path) ELSE CanonicalNoFollow(path)
       IN  IF canon = << >> THEN Fails(c)
           ELSE job' = [job EXCEPT ![c].at = "look", ![c].canon = Append(@, canon),
                                   ![c].h = Root, ![c].k = 0] /\ UNCHANGED entry
    /\ Others

Path(c) == Last(job[c].canon)
Part(c) == Path(c)[job[c].k + 1]
Found(c) == Child(job[c].h, Part(c))

\* Lstat of the next part, if it is not the last.
Look(c) ==
    /\ job[c].at = "look"
    /\ IF job[c].k + 1 = Len(Path(c))
       THEN /\ job' = [job EXCEPT
                 ![c].open = Append(@, job[c].h), ![c].todo = Tail(@),
                 ![c].at = IF c.op = "rename" /\ Len(job[c].todo) = 2 THEN "pin" ELSE "check"]
            /\ UNCHANGED entry
       ELSE IF Found(c) \notin Dirs THEN Fails(c)
       ELSE job' = [job EXCEPT ![c].at = "enter", ![c].seen = Found(c)] /\ UNCHANGED entry
    /\ Others

\* What opening a name gives: a link that has come meanwhile is followed.
Opened(c) == IF Found(c) \in Links THEN Child(job[c].h, To[Found(c)]) ELSE Found(c)

\* (An operator whose name ends in Bug is a faulty variant of the one after it.)
SameFile_AnyBug(c) == Opened(c) # Absent
SameFile(c) == Opened(c) = job[c].seen

EnterDir(c) ==
    /\ job[c].at = "enter"
    /\ IF ~SameFile(c) \/ Opened(c) \notin Dirs THEN Fails(c)
       ELSE /\ job' = [job EXCEPT ![c].at = "look", ![c].h = Opened(c), ![c].k = @ + 1]
            /\ UNCHANGED entry
    /\ Others

-----------------------------------------------------------------------------
(* The checked operations on the pinned directories                         *)

Dir(c, i) == job[c].open[i]
Base(c, i) == Last(job[c].canon[i])
Target(c, i) == entry[Dir(c, i)][Base(c, i)]
Act(c, i, o) == [path |-> job[c].canon[i], obj |-> o]

\* check of the path as pinned.
Check(c) ==
    /\ job[c].at = "check"
    /\ LET paths == IF c.op = "rename" THEN ToSet(job[c].canon) ELSE {Path(c)}
       IN  IF \A p \in paths : Match(p, Writes(c.op))
           THEN job' = [job EXCEPT ![c].allowed = @ \cup paths,
                          ![c].at = IF Follows(c) THEN "lstat" ELSE "act"] /\ UNCHANGED entry
           ELSE Fails(c)
    /\ Others

Made(c) == CHOOSE o \in (IF c.op = "mkdir" THEN Dirs \ {Root} ELSE Files) :
              \A d \in Dirs, n \in Names : entry[d][n] # o
CanMake(c) == \E o \in (IF c.op = "mkdir" THEN Dirs \ {Root} ELSE Files) :
                 \A d \in Dirs, n \in Names : entry[d][n] # o

\* OpenChecked: a missing file is made, exclusively, if that was asked for.
LstatBase(c) ==
    /\ job[c].at = "lstat"
    /\ LET o == Target(c, 1)
       IN  IF o = Absent /\ c.op = "truncate" THEN Goto(c, "create")
           ELSE IF o \in Files \/ (o \in Dirs /\ c.op = "read")
           THEN job' = [job EXCEPT ![c].at = "open", ![c].seen = o]
           ELSE Goto(c, "done")
    /\ UNCHANGED entry /\ Others

Create(c) ==
    /\ job[c].at = "create"
    /\ IF Target(c, 1) # Absent \/ ~CanMake(c) THEN Fails(c)
       ELSE /\ entry' = [entry EXCEPT ![Dir(c, 1)][Base(c, 1)] = Made(c)]
            /\ job' = [job EXCEPT ![c].at = "done", ![c].acts = {Act(c, 1, Made(c))}]
    /\ Others

\* The object is compared before anything of it is cut.  Not every system
\* refuses to open a link.
OpenBase(c) ==
    /\ job[c].at = "open"
    /\ IF ~SameFile(c) THEN Fails(c)
       ELSE /\ job' = [job EXCEPT ![c].at = "done",
                         ![c].acts = IF c.op \in {"truncate", "append"}
                                     THEN {Act(c, 1, Opened(c))} ELSE {}]
            /\ UNCHANGED entry
    /\ Others

\* Mkdir may find that another program was faster; then it must be a directory.
MakeDir(c) ==
    /\ job[c].at = "act" /\ c.op = "mkdir"
    /\ LET o == Target(c, Len(job[c].open))
           next == IF job[c].todo = << >> THEN "done" ELSE "pin"
       IN  IF o = Absent /\ CanMake(c)
           THEN /\ entry' = [entry EXCEPT ![Last(job[c].open)][Last(Path(c))] = Made(c)]
                /\ job' = [job EXCEPT ![c].at = next,
                             ![c].acts = @ \cup {Act(c, Len(job[c].open), Made(c))}]
           ELSE Goto(c, IF o \in Dirs THEN next ELSE "done") /\ UNCHANGED entry
    /\ Others

Empty(o) == o \notin Dirs \/ \A n \in Names : entry[o][n] = Absent

RemoveBase(c) ==
    /\ job[c].at = "act" /\ c.op = "remove"
    /\ LET o == Target(c, 1)
       IN  IF o = Absent \/ ~Empty(o) THEN Fails(c)
           ELSE /\ entry' = [entry EXCEPT ![Dir(c, 1)][Base(c, 1)] = Absent]
                /\ job' = [job EXCEPT ![c].at = "done", ![c].acts = {Act(c, 1, o)}]
    /\ Others

\* RenamePinned: renameat on the two directories.
Rename(c) ==
    /\ job[c].at = "act" /\ c.op = "rename"
    /\ LET o == Target(c, 1)  old == Target(c, 2)
       IN  IF \/ o = Absent
              \/ old # Absent /\ ((o \in Dirs) # (old \in Dirs) \/ ~Empty(old))
              \/ o \in Dirs /\ Dir(c, 2) # Root
           THEN Fails(c)
           ELSE /\ entry' = [entry EXCEPT ![Dir(c, 1)][Base(c, 1)] = Absent,
                                          ![Dir(c, 2)][Base(c, 2)] = o]
                /\ job' = [job EXCEPT ![c].at = "done",
                             ![c].acts = {Act(c, 1, o)} \cup
                                         (IF old = Absent THEN {} ELSE {Act(c, 2, old)})]
    /\ Others

-----------------------------------------------------------------------------
(* Other programs, and the owner's rules                                    *)

Swap ==
    /\ changes < MaxChanges /\ changes' = changes + 1
    /\ \E d \in Dirs, n, m \in Names :
         /\ n # m /\ entry[d][n] # Absent
         /\ entry' = [entry EXCEPT ![d][n] = entry[d][m], ![d][m] = entry[d][n]]
    /\ UNCHANGED <<rules, cwd, job>> /\ Remember

Replace ==
    /\ changes < MaxChanges /\ changes' = changes + 1
    /\ \E d \in Dirs, n \in Names, l \in Links :
         /\ To[l] # n /\ entry[d][n] \notin Dirs
         /\ \A e \in Dirs, m \in Names : entry[e][m] # l
         /\ entry' = [entry EXCEPT ![d][n] = l]
    /\ UNCHANGED <<rules, cwd, job>> /\ Remember

NewRules ==
    /\ changes < MaxChanges /\ changes' = changes + 1
    /\ rules' \in Tables
    /\ UNCHANGED <<entry, cwd, job>> /\ Remember

Operation(c) ==
    \/ Begin(c) \/ Plainly(c) \/ Levels(c) \/ Pin(c) \/ Look(c) \/ EnterDir(c) \/ Check(c)
    \/ LstatBase(c) \/ Create(c) \/ OpenBase(c) \/ MakeDir(c) \/ RemoveBase(c) \/ Rename(c)

Next == (\E c \in Calls : Operation(c)) \/ Swap \/ Replace \/ NewRules

Spec == Init /\ [][Next]_scriptVars

-----------------------------------------------------------------------------
TypeOK ==
    /\ entry \in [Dirs -> [Names -> (Dirs \ {Root}) \cup Files \cup Links \cup {Absent}]]
    /\ rules \in Tables /\ changes \in 0..MaxChanges
    /\ \A c \in Calls : job[c].h \in Dirs /\ ToSet(job[c].open) \subseteq Dirs

\* Objects that the names of a path have led to since the call began, each name
\* as an entry of the one before and never through a link.
Led(c, path) ==
    LET led[k \in 0..Len(path)] ==
            IF k = 0 THEN {Root}
            ELSE LET from == led[k - 1]
                 IN  {t[3] : t \in {u \in held[c] : u[1] \in from /\ u[2] = path[k]}} \ {Absent}
    IN  led[Len(path)]

\* What a checked operation makes, cuts, removes or moves is where the path
\* that was judged writable leads to: directories that are renamed and links
\* that are put in their place while it runs never turn it to another object.
ActsWhereJudged ==
    \A c \in Calls : \A a \in job[c].acts : a.path \in job[c].allowed /\ a.obj \in Led(c, a.path)
=============================================================================

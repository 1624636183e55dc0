------------------------------ MODULE MCFiles -------------------------------
(* One run for what works on files: the file service, the file system of    *)
(* scripts, the edit tool, remote transfers and skill packages.  They share *)
(* no state here: `part` picks the one that takes steps, the variables of   *)
(* the others hold nothing.                                                 *)
EXTENDS Integers, Sequences, TLC

CONSTANTS Paths, Calls, FirstDisk, FirstObj, Writable, MaxCalls, MaxEdits,
          MaxEntries, PageSize, Free, Root, Dirs, Files, Links, Names, To,
          FirstEntry, ScriptCalls, Tables, ScriptMaxCalls, MaxChanges, Absent,
          LF, CR, Blank, Fold, MinAnchor, Contents, EditCalls, RemoteFiles,
          Batch, MaxFile, MaxWrites, MaxFaults, Longest, RemoteAbsent, Ids,
          Builtin, SkillsCalls, CallKind, CallId, Boot, SkillsMaxFaults,
          MaxCrashes, Nothing

VARIABLES part, disk, obj, edits, writing, touched, busy, job, entry, rules,
          cwd, scriptJob, changes, held, text, tool, local, remote,
          remotePart, left, remoteOp, todo, phase, copied, ended, whole,
          writes, faults, dir, backups, state, packageMu, rebuildMu, at,
          skillsNew, draft, skillsLeft, seen, active, process, undone,
          skillsFaults, crashes, versions

Service == INSTANCE FileService
Script == INSTANCE ScriptFS WITH
    Calls <- ScriptCalls, MaxCalls <- ScriptMaxCalls, job <- scriptJob
Edit == INSTANCE EditTool
Remote == INSTANCE Transfer WITH
    Files <- RemoteFiles, Absent <- RemoteAbsent, part <- remotePart,
    op <- remoteOp
Skills == INSTANCE SkillPackages WITH
    Calls <- SkillsCalls, MaxFaults <- SkillsMaxFaults, new <- skillsNew,
    left <- skillsLeft, faults <- skillsFaults

serviceVars == <<disk, obj, edits, writing, touched, busy, job>>
scriptVars == <<entry, rules, cwd, scriptJob, changes, held>>
editVars == <<text, tool>>
remoteVars == <<local, remote, remotePart, left, remoteOp, todo, phase,
    copied, ended, whole, writes, faults>>
skillsVars == <<dir, backups, state, packageMu, rebuildMu, at, skillsNew,
    draft, skillsLeft, seen, active, process, undone, skillsFaults, crashes,
    versions>>

ServiceParked ==
    /\ disk = 0 /\ obj = 0 /\ edits = 0 /\ writing = 0 /\ touched = 0
    /\ busy = 0 /\ job = 0
ScriptParked ==
    /\ entry = 0 /\ rules = 0 /\ cwd = 0 /\ scriptJob = 0 /\ changes = 0
    /\ held = 0
EditParked ==
    /\ text = 0 /\ tool = 0
RemoteParked ==
    /\ local = 0 /\ remote = 0 /\ remotePart = 0 /\ left = 0 /\ remoteOp = 0
    /\ todo = 0 /\ phase = 0 /\ copied = 0 /\ ended = 0 /\ whole = 0
    /\ writes = 0 /\ faults = 0
SkillsParked ==
    /\ dir = 0 /\ backups = 0 /\ state = 0 /\ packageMu = 0 /\ rebuildMu = 0
    /\ at = 0 /\ skillsNew = 0 /\ draft = 0 /\ skillsLeft = 0 /\ seen = 0
    /\ active = 0 /\ process = 0 /\ undone = 0 /\ skillsFaults = 0
    /\ crashes = 0 /\ versions = 0

BundleInit ==
    /\ part \in {"service", "script", "edit", "remote", "skills"}
    /\ IF part = "service" THEN Service!Init ELSE ServiceParked
    /\ IF part = "script" THEN Script!Init ELSE ScriptParked
    /\ IF part = "edit" THEN Edit!Init ELSE EditParked
    /\ IF part = "remote" THEN Remote!Init ELSE RemoteParked
    /\ IF part = "skills" THEN Skills!Init ELSE SkillsParked

BundleNext ==
    \/ /\ part = "service" /\ Service!Next
       /\ UNCHANGED <<part, scriptVars, editVars, remoteVars, skillsVars>>
    \/ /\ part = "script" /\ Script!Next
       /\ UNCHANGED <<part, serviceVars, editVars, remoteVars, skillsVars>>
    \/ /\ part = "edit" /\ Edit!Next
       /\ UNCHANGED <<part, serviceVars, scriptVars, remoteVars, skillsVars>>
    \/ /\ part = "remote" /\ Remote!Next
       /\ UNCHANGED <<part, serviceVars, scriptVars, editVars, skillsVars>>
    \/ /\ part = "skills" /\ Skills!Next
       /\ UNCHANGED <<part, serviceVars, scriptVars, editVars, remoteVars>>

BundleSpec == BundleInit /\ [][BundleNext]_<<part, serviceVars, scriptVars,
    editVars, remoteVars, skillsVars>>

\* service: what is read, copied or listed is what there is when the last
\* check passes (hostfs readOrStat, copyFile, list).
ReadsAreSnapshots == [][part = "service" => Service!SnapshotsTaken]_serviceVars
\* service: a failure tells how much was done (hostfs partial,
\* protocol.FSFail).
EffectsReported == part = "service" => Service!EffectsReported
\* service: the tree changes only under the condition last looked at (hostfs
\* write, removeTree).
ConditionsHold == [][part = "service" => Service!ConditionsMet]_serviceVars
\* service: a failure with the effect none has changed nothing, as
\* protocol/fs.go:172 says.
NoneMeansNothing == part = "service" => Service!NoneMeansNothing
\* script: what a script changes is what the rules allowed it to change,
\* while links and directories are swapped (pinOSParent, OpenChecked).
ActsWhereJudged == part = "script" => Script!ActsWhereJudged
\* edit: a failed edit is diagnosed by lines of the text as it was when the
\* edit was tried (newEditDiagnoser).
DiagnosisPoints == part = "edit" => Edit!DiagnosisPoints
\* remote: a file is installed under its name only when it is complete (sshx
\* download).
DownloadsAreWhole == part = "remote" => Remote!DownloadsAreWhole
\* skills: an installed package never vanishes, whatever fails and wherever
\* the device crashes (installCommandPackage).
NothingDestroyed == part = "skills" => Skills!NothingDestroyed
\* skills: the commands offered are those of packages recorded as installed
\* (uninstall, Rebuild).
RunningIsInstalled == part = "skills" => Skills!RunningIsInstalled

-----------------------------------------------------------------------------
(* service: a directory with two files, and operations that meet on them.     *)
a == <<"a">>
ax == <<"a", "x">>
ay == <<"a", "y">>
b == <<"b">>
bx == <<"b", "x">>
TreePaths == {a, ax, ay, b, bx, <<"b", "y">>}
TreeAtFirst == (<< >> :> 1) @@ (a :> 2) @@ (ax :> 3) @@ (ay :> 4)
ObjectsAtFirst ==
    <<[kind |-> "dir", data |-> <<0, 0>>], [kind |-> "dir", data |-> <<0, 0>>],
      [kind |-> "file", data |-> <<1, 1>>], [kind |-> "file", data |-> <<2, 2>>]>>
Whatever == [kind |-> "any", data |-> <<0, 0>>]
Missing == [kind |-> "absent", data |-> <<0, 0>>]
Hash(d) == [kind |-> "hash", data |-> d]
FileCalls ==
    LET Ask(op, s, d, cond, tree, data) ==
            [op |-> op, src |-> s, dst |-> d, cond |-> cond, tree |-> tree, data |-> data]
        none == <<0, 0>>
    IN  {Ask("write", b, ax, Hash(<<1, 1>>), FALSE, <<3, 3>>),
         Ask("write", b, ax, Hash(<<1, 1>>), FALSE, <<4, 4>>),
         Ask("write", b, b, Missing, FALSE, <<5, 5>>),
         Ask("read", ax, ax, Whatever, FALSE, none),
         Ask("copy", a, b, Missing, TRUE, none),
         Ask("copy", ax, ay, Whatever, TRUE, none),
         Ask("remove", a, a, Whatever, TRUE, none),
         Ask("remove", ax, ax, Whatever, FALSE, none),
         Ask("move", a, b, Missing, TRUE, none),
         Ask("move", ax, ay, Whatever, TRUE, none),
         Ask("mkdir", b, bx, Whatever, TRUE, none),
         Ask("mkdir", b, b, Whatever, FALSE, none),
         Ask("list", a, a, Whatever, FALSE, none)}

-----------------------------------------------------------------------------
(* script: below the root, a names a directory d and b a directory e, each  *)
(* with a file x, while another program swaps entries and links.            *)
LinkTo == [l \in Links |-> IF l = "la" THEN "b" ELSE "x"]
EntriesAtFirst ==
    [d \in Dirs |-> [n \in Names |->
        CASE d = "root" /\ n = "a" -> "d"
          [] d = "root" /\ n = "b" -> "e"
          [] d = "d" /\ n = "x" -> "f"
          [] d = "e" /\ n = "x" -> "g"
          [] OTHER -> Absent]]
ScriptSteps ==
    LET Ask(op, n, t) == [op |-> op, name |-> n, dest |-> t, relative |-> op = "append"]
    IN  {Ask("truncate", ax, << >>), Ask("append", <<"x">>, << >>), Ask("mkdir", ay, << >>),
         Ask("remove", ax, << >>), Ask("rename", ax, bx), Ask("chdir", a, << >>),
         Ask("removeall", a, << >>), Ask("link", a, << >>)}
\* Rules that let scripts write below a, everywhere, or that do not load.
RuleTables ==
    LET All == UNION {[1..n -> Names] : n \in 0..2}
        Rules(w, broken) == [read |-> All, write |-> w, broken |-> broken]
    IN  {Rules({p \in All : p = << >> \/ p[1] = "a"}, FALSE), Rules(All, FALSE),
         Rules({}, TRUE)}

-----------------------------------------------------------------------------
(* edit: texts with repeated, overlapping, folded and blank parts.  The line  *)
(* ends are n and r; w is a wide form of a.                                   *)
Folded == [x \in {"a", "b", "w", " "} |-> IF x = "w" THEN "a" ELSE x]
Texts ==
    {<<"a", "b", "w">>, <<"a", "a", "a">>, <<"b", " ", "r", "n", "w", "b">>,
     <<"a", "b", "n", "w", "b", " ", "n", "a", "w">>,
     <<"a", "b", "n", "a", "b", "n", "w", "w", "b", " ">>}
ToolCalls ==
    LET For(old, new) == [old |-> old, new |-> new]
        Edits(es) == [tool |-> "edit", content |-> << >>, edits |-> es]
    IN  {Edits(<<For(<<"a", "a">>, <<"b">>), For(<<"b", "n", "a">>, <<"a">>)>>),
         Edits(<<For(<<"a", "b">>, <<"n", "b">>), For(<<"a", "b">>, << >>),
                 For(<< >>, <<"a">>), For(<<"w">>, <<"n">>),
                 For(<<"n", "a", "b">>, <<"n">>), For(<<"a", "b", "b">>, <<"w">>)>>),
         Edits(<<For(<<"w">>, <<"b", "n">>), For(<<"b", "n", "a">>, <<"b", "n", "a">>)>>),
         [tool |-> "write", content |-> <<"a", "n", "b", "w", "b", " ">>, edits |-> << >>]}

-----------------------------------------------------------------------------
\* remote: each direction once, as a batch of SFTP commands and as scp.
BatchOfAll ==
    <<[kind |-> "get", files |-> <<"f", "g">>], [kind |-> "put", files |-> <<"h">>],
      [kind |-> "pull", files |-> <<"h">>], [kind |-> "push", files |-> <<"h">>]>>

\* skills: two installations and an uninstallation of one package.
CallKinds == [t \in SkillsCalls |-> IF t = "u" THEN "uninstall" ELSE "install"]
CallIds == [t \in SkillsCalls |-> "p"]

\* What the modules assume of their constants.
ASSUME FilesAssumption ==
    Service!Parameters /\ Script!Parameters /\ Edit!Parameters /\ Skills!Parameters /\ Remote!Parameters
=============================================================================

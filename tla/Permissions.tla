----------------------------- MODULE Permissions -----------------------------
(* The device's permissions (libs/host/permissions.go, grant.go): one base  *)
(* table per domain, compiled at start from the configuration with the      *)
(* start-up overrides, session grants in memory, and permanent grants that  *)
(* rewrite the configuration file and publish what they compiled from it.   *)
(* The owner edits the same file from another process, which the device's   *)
(* lock cannot keep out.                                                    *)
EXTENDS Integers, FiniteSets, SequencesExt

CONSTANTS Domains,      \* of "exec", "fs", "net", "ssh"
          Targets,      \* commands, paths or host:port entries
          Protected,    \* paths no rule of level 0 can open
          Sessions,
          Grants,       \* calls of grant: [session, domain, target, permanent]
          FirstFile,    \* the configuration file at start
          Override,     \* domain settings that flags or environment replace at start
          OwnerTables,  \* what the owner may write for a domain
          Free          \* nobody holds it

Tables == [open : BOOLEAN, rows : Seq([effect : {"allow", "deny"}, target : Targets]),
           valid : BOOLEAN]

Parameters ==
    /\ FirstFile \in [Domains -> Tables] /\ OwnerTables \subseteq Tables
    /\ \A d \in DOMAIN Override : Override[d] \in Tables
    /\ \A g \in Grants : /\ g.session \in Sessions /\ g.domain \in Domains
                        /\ g.target \in Targets /\ g.permanent \in BOOLEAN
    /\ Free \notin Grants

VARIABLES base,      \* base[d]: the running table
          granted,   \* granted[s][d]: a session's grants, the latest first
          file,      \* the configuration file
          update,    \* holder of cfg.LockUpdate, or Free
          step,      \* step[g]: where a grant is
          draft,     \* draft[g]: the configuration it has loaded and changed
          owner,     \* the copy the owner's process has loaded, or Free
          pending    \* history: domains edited by the owner since the device started

permVars == <<base, granted, file, update, step, draft, owner, pending>>

Row(effect, t) == [effect |-> effect, target |-> t]
AllowRow(t) == Row("allow", t)

\* All rows but those equal to row, in their order.
Without(rows, row) ==
    LET kept[n \in 0..Len(rows)] ==
            IF n = 0 THEN << >>
            ELSE IF rows[n] = row THEN kept[n - 1] ELSE Append(kept[n - 1], rows[n])
    IN  kept[Len(rows)]

-----------------------------------------------------------------------------
(* Compilation and decisions.  A table is [open, rows, valid].              *)

\* compileAuth: each domain on its own; a bad one is closed, the others work.
CompileAuth(config) ==
    [d \in Domains |-> IF config[d].valid THEN config[d]
                       ELSE [open |-> FALSE, rows |-> << >>, valid |-> FALSE]]
AllValid(config) == \A d \in Domains : config[d].valid

\* AuthFrom over the start-up options: an override replaces the file's table.
AuthFrom(config) == [d \in Domains |-> IF d \in DOMAIN Override THEN Override[d] ELSE config[d]]

FirstRow(rows, t) ==
    LET first == CHOOSE i \in DOMAIN rows :
                     rows[i].target = t /\ \A j \in 1..(i - 1) : rows[j].target # t
    IN  rows[first].effect

Names(rows, t) == \E i \in DOMAIN rows : rows[i].target = t

\* The snapshots: session grants, then the base table; built-in protection is
\* of a higher level than both.
Snapshot(s, d) == [i \in 1..Len(granted[s][d]) |-> AllowRow(granted[s][d][i])] \o base[d].rows

\* CommandAllowed and the matchers of vbox: the first row that names the
\* target, else the domain's policy; an invalid domain refuses everything.
Allowed(s, d, t) ==
    /\ base[d].valid
    /\ ~(d = "fs" /\ t \in Protected)
    /\ LET rows == Snapshot(s, d)
       IN  IF Names(rows, t) THEN FirstRow(rows, t) = "allow" ELSE base[d].open

Init == /\ file = FirstFile
        /\ base = CompileAuth(AuthFrom(FirstFile))
        /\ granted = [s \in Sessions |-> [d \in Domains |-> << >>]]
        /\ update = Free
        /\ step = [g \in Grants |-> "idle"]
        /\ draft = [g \in Grants |-> FirstFile]
        /\ owner = Free
        /\ pending = {}

-----------------------------------------------------------------------------
(* grant                                                                    *)

\* grantFS, grantNet, grantCmd: to the head of the session's list (a command
\* that is there already stays where it is).
GrantSession(g) ==
    /\ step[g] = "idle" /\ ~g.permanent
    /\ LET old == granted[g.session][g.domain]
           new == IF g.domain = "exec" /\ g.target \in Range(old) THEN old
                  ELSE IF g.domain = "exec" THEN Append(old, g.target)
                  ELSE <<g.target>> \o Without(old, g.target)
       IN  granted' = [granted EXCEPT ![g.session][g.domain] = new]
    /\ step' = [step EXCEPT ![g] = "granted"]
    /\ UNCHANGED <<base, file, update, draft, owner, pending>>

\* (An operator whose name ends in Bug is a faulty variant of the one after it.)
MayUpdate_NoLockBug == TRUE
\* cfg.LockUpdate
MayUpdate == update = Free

\* Move an identical grant to the front.
Moved(config, d, row) ==
    [config EXCEPT ![d].rows = <<row>> \o Without(@, row)]

\* persistGrant up to the validated candidate.
LoadFile(g) ==
    /\ step[g] = "idle" /\ g.permanent /\ MayUpdate
    /\ LET candidate == Moved(file, g.domain, AllowRow(g.target))
       IN  IF AllValid(candidate)
           THEN /\ update' = g /\ step' = [step EXCEPT ![g] = "compiled"]
                /\ draft' = [draft EXCEPT ![g] = candidate]
           ELSE /\ step' = [step EXCEPT ![g] = "refused"]
                /\ UNCHANGED <<update, draft>>
    /\ UNCHANGED <<base, granted, file, owner, pending>>

\* cfg.Save: it fails before the file is replaced or after it (chmod).
Save(g) ==
    /\ step[g] = "compiled"
    /\ \/ /\ file' = draft[g] /\ step' = [step EXCEPT ![g] = "saved"] /\ UNCHANGED update
       \/ /\ file' \in {file, draft[g]} /\ step' = [step EXCEPT ![g] = "refused"]
          /\ update' = Free
    /\ UNCHANGED <<base, granted, draft, owner, pending>>

\* publish: the whole base table at once.
Publish(g) ==
    /\ step[g] = "saved"
    /\ base' = CompileAuth(draft[g])
    /\ step' = [step EXCEPT ![g] = "granted"]
    /\ update' = Free
    /\ UNCHANGED <<granted, file, draft, owner, pending>>

-----------------------------------------------------------------------------
(* The owner's settings process (SettingsUpdate.Apply): it has a lock of    *)
(* its own, loads the file and saves it with some domains replaced.  A      *)
(* table that does not compile stands for an edit by hand.                  *)

OwnerLoads ==
    /\ owner = Free /\ pending = {} /\ owner' = file
    /\ UNCHANGED <<base, granted, file, update, step, draft, pending>>

OwnerSaves ==
    /\ owner # Free
    /\ \E d \in Domains, t \in OwnerTables :
         /\ file' = [owner EXCEPT ![d] = t]
         /\ pending' = pending \cup {d}
    /\ owner' = Free
    /\ UNCHANGED <<base, granted, update, step, draft>>

Next == \/ \E g \in Grants : GrantSession(g) \/ LoadFile(g) \/ Save(g) \/ Publish(g)
        \/ OwnerLoads \/ OwnerSaves

Spec == Init /\ [][Next]_permVars

-----------------------------------------------------------------------------
TypeOK ==
    /\ DOMAIN base = Domains /\ DOMAIN file = Domains
    /\ \A s \in Sessions, d \in Domains : Range(granted[s][d]) \subseteq Targets
    /\ update \in Grants \cup {Free}
    /\ step \in [Grants -> {"idle", "compiled", "saved", "refused", "granted"}]
    /\ pending \subseteq Domains

\* A grant that was confirmed holds: a session's in that session for as long
\* as the device runs, a permanent one in every session, and the file keeps
\* it for the next start - whatever other grants are being saved and
\* published at the same time - unless the owner edited the file meanwhile.
\* Protected paths and a domain the owner broke are excepted.
ConfirmedGrantsHold ==
    \A g \in Grants :
        step[g] = "granted" /\ base[g.domain].valid
        /\ ~(g.domain = "fs" /\ g.target \in Protected) =>
            \/ ~g.permanent /\ Allowed(g.session, g.domain, g.target)
            \/ /\ g.permanent
               /\ \A s \in Sessions : Allowed(s, g.domain, g.target)
               /\ AllowRow(g.target) \in Range(file[g.domain].rows)
            \/ g.permanent /\ (pending # {} \/ owner # Free)

=============================================================================

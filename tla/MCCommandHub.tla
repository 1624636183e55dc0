----------------------------- MODULE MCCommandHub -----------------------------
(* Small instances of CommandHub.                                           *)
EXTENDS CommandHub, TLC

CONSTANTS a1, a2, d1, d2, j1, j2, j3, l1

AllConfigs == [Aliases -> Defs \cup {None}]

\* The file may define the first command only.
FirstOnly == {f \in AllConfigs : \A a \in Aliases : a # a1 => f[a] = None}

\* One job adds a command at run time, one removes it, one writes the file.
JobKinds == [j \in Jobs |-> CASE j = j1 -> "add" [] j = j2 -> "remove" [] OTHER -> "persist"]
JobAliases == [j \in Jobs |-> IF j = j3 THEN a1 ELSE a2]
JobDefs == [j \in Jobs |-> IF j = j3 THEN d2 ELSE d1]
=============================================================================

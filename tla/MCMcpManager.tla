----------------------------- MODULE MCMcpManager -----------------------------
(* Small instances of McpManager.                                           *)
EXTENDS McpManager, TLC

CONSTANTS i1, i2, i3, c1, c2

\* Starts are interchangeable before they begin, and so are the callers.
Interchange == Permutations(Instances) \cup Permutations(Calls)
=============================================================================

---------------------------- MODULE MCStreamProcess ----------------------------
(* Small instances of StreamProcess.                                        *)
EXTENDS StreamProcess, TLC

CONSTANTS p1, p2, s1, s2, c1, c2

\* One command restarts the process and one stops it.
RestartAndStop == [c \in Commands |-> IF c = c1 THEN "restart" ELSE "stop"]
=============================================================================

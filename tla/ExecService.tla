----------------------------- MODULE ExecService -----------------------------
(***************************************************************************)
(* What the exec service promises, without a table, keys, counters or      *)
(* goroutines: every delivery runs at most once; a run is in the           *)
(* foreground until it ends or takes one of the bounded background places, *)
(* and it never comes back; and the caller gets one answer that is true    *)
(* when it is given.  TaskTable implements this.                           *)
(***************************************************************************)
EXTENDS Integers, FiniteSets

CONSTANTS Exec, Owner, Direct(_), MaxGlobal, MaxPerOwner

VARIABLES phase,  \* "idle", "foreground", "background" or "finished"
          answer  \* what the caller was told: "none" or an outcome

vars == <<phase, answer>>

InBackground == {e \in Exec : phase[e] = "background"}

Init ==
    /\ phase = [e \in Exec |-> "idle"]
    /\ answer = [e \in Exec |-> "none"]

Start(e) ==
    /\ phase[e] = "idle"
    /\ phase' = [phase EXCEPT ![e] = "foreground"]
    /\ UNCHANGED answer

\* A run leaves the foreground only while its caller is still waiting, only if
\* there is a place, and the caller learns of it in the same step.
Detach(e) ==
    /\ phase[e] = "foreground" /\ answer[e] = "none" /\ ~Direct(e)
    /\ Cardinality(InBackground) < MaxGlobal
    /\ Cardinality({f \in InBackground : Owner[f] = Owner[e]}) < MaxPerOwner
    /\ phase' = [phase EXCEPT ![e] = "background"]
    /\ answer' = [answer EXCEPT ![e] = "background"]

Finish(e) ==
    /\ phase[e] \in {"foreground", "background"}
    /\ phase' = [phase EXCEPT ![e] = "finished"]
    /\ UNCHANGED answer

\* The answers that leave the run where it is.
Reply(e) ==
    /\ answer[e] = "none"
    /\ \/ phase[e] = "finished" /\ answer' = [answer EXCEPT ![e] = "completed"]
       \/ /\ phase[e] \in {"foreground", "finished"}
          /\ \E a \in {"interrupted", IF Direct(e) THEN "waitElapsed" ELSE "capacity"} :
                answer' = [answer EXCEPT ![e] = a]
    /\ UNCHANGED phase

Next == \E e \in Exec : Start(e) \/ Detach(e) \/ Finish(e) \/ Reply(e)

Spec == Init /\ [][Next]_vars
=============================================================================

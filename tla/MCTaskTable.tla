---------------------------- MODULE MCTaskTable ----------------------------
(* Small instances of TaskTable.  The cfg files choose the functions.       *)
EXTENDS TaskTable, TLC

CONSTANTS e1, e2, e3, q1, q2, q3, u1, u2, s1, s2, s3, nats, rtc

\* Three NATS requests of one session; the second reuses the first id.
SharedIds == e1 :> q1 @@ e2 :> q1 @@ e3 :> q2
OneId == [e \in Exec |-> q1]
OneOwner == [e \in Exec |-> u1]
Apart == e1 :> s1 @@ e2 :> s2 @@ e3 :> s3
OneSession == [e \in Exec |-> s1]
AllNats == [e \in Exec |-> nats]
\* One request over the RTC connection and the others over NATS.
Mixed == [e \in Exec |-> IF e = e1 THEN rtc ELSE nats]

\* The three runs are interchangeable, each with its session.
Relabel(p) == p @@ [s \in {s1, s2, s3} |-> Apart[p[CHOOSE e \in Exec : Apart[e] = s]]]
Interchange == {Relabel(p) : p \in Permutations({e1, e2, e3})}
=============================================================================

----------------------------- MODULE FilesProofs -----------------------------
(* What the run of the file components checks of the file service on small  *)
(* instances, proved for all of them.  The parts that work on files without *)
(* the service are proved about in ScriptProofs.                            *)
EXTENDS MCFiles, SequenceTheorems, FiniteSetTheorems, TLAPS

bundleVars == <<part, serviceVars, scriptVars, editVars, remoteVars, skillsVars>>

-----------------------------------------------------------------------------
(* The file service: what a call reports.                                   *)

Fields == {"at", "todo", "plan", "done", "open", "stamp", "got", "shown", "effects", "bare", "answer"}
Reading == {"open", "verify", "chunk"}
Writing == {"stage", "staged", "ready", "committed"}
Making == {"mkdir", "made"}
Places(c) == {"idle", "answered"} \cup
    CASE c.op = "write" -> Writing
      [] c.op = "read" -> Reading
      [] c.op = "list" -> {"page", "enumerate", "compare"}
      [] c.op = "mkdir" -> {"probe"} \cup Making
      [] c.op = "remove" -> {"walk", "look", "remove"}
      [] c.op = "move" -> {"walk", "recheck", "rename", "moved"}
      [] c.op = "copy" -> {"walk", "apply"} \cup Making \cup Reading \cup Writing

\* The places at which what is done and what is counted may differ.
Uncounted == {"committed", "made", "moved", "answered"}

\* What the answer says (FileService.EffectsReported, for one call).
Reported(j, c) ==
    /\ j.answer \in {"none", "partial", "ok"}
    /\ j.answer = "none" => j.effects = IF j.bare THEN 1 ELSE 0
    /\ j.answer = "partial" => j.effects \in 1..(j.done + 1)
    /\ j.answer = "ok" /\ c.op \in {"write", "move"} => j.effects = 1

\* A change is counted as done at the step after it.
Effect(j, c) ==
    /\ DOMAIN j = Fields /\ j.at \in Places(c)
    /\ j.done \in Nat /\ j.effects \in Nat
    /\ j.at \notin Uncounted => j.effects = j.done
    /\ j.at \in {"committed", "made"} => j.effects = j.done + 1
    /\ j.at = "moved" => j.effects = 1
    /\ c.op \in {"write", "move"} /\ j.at \notin {"moved", "answered"} => j.done = 0
    /\ \E S : j.plan \in Seq(S)
    /\ c.op = "copy" /\ j.at \notin {"idle", "walk", "answered"} => j.plan # << >>
    /\ j.at # "answered" => j.bare = FALSE
    /\ j.at = "answered" => Reported(j, c)

ServiceEffects ==
    /\ DOMAIN job \subseteq Calls /\ \A c \in DOMAIN job : Effect(job[c], c)
    /\ busy # Free => busy \in DOMAIN job /\ job[busy].at # "answered"

\* The steps of a call leave the others alone.
LEMMA EffectFrame ==
    ASSUME ServiceEffects, NEW c \in DOMAIN job, DOMAIN job' = DOMAIN job,
           \A d \in DOMAIN job : d # c => job'[d] = job[d],
           Effect(job'[c], c), busy' \in {busy, Free, c}, busy' = c => job'[c].at # "answered"
    PROVE  ServiceEffects'
<1>1. \A d \in DOMAIN job' : Effect(job'[d], d)
    BY DEF ServiceEffects
<1>2. DOMAIN job' \subseteq Calls
    BY DEF ServiceEffects
<1>3. busy' # Free => busy' \in DOMAIN job' /\ job'[busy'].at # "answered"
    BY DEF ServiceEffects
<1> QED
    BY <1>1, <1>2, <1>3 DEF ServiceEffects

\* An answer is given once.
LEMMA AnswerEffect ==
    ASSUME ServiceEffects, NEW c \in DOMAIN job, NEW v \in {"none", "partial", "ok"},
           job[c].at # "answered", Service!Answer(c, v),
           v = "none" => job[c].effects = 0,
           v = "partial" => job[c].effects \in 1..(job[c].done + 1),
           v = "ok" /\ c.op \in {"write", "move"} => job[c].effects = 1,
           Free \notin Calls
    PROVE  ServiceEffects'
<1>1. Effect(job[c], c)
    BY DEF ServiceEffects
<1>2. /\ DOMAIN job' = DOMAIN job /\ \A d \in DOMAIN job : d # c => job'[d] = job[d]
      /\ job'[c] = [job[c] EXCEPT !.at = "answered", !.answer = v]
      /\ busy' \in {busy, Free} /\ busy' # c
    BY DEF Service!Answer, ServiceEffects
<1>3. /\ DOMAIN job'[c] = Fields /\ job'[c].at = "answered" /\ job'[c].answer = v
      /\ job'[c].done = job[c].done /\ job'[c].effects = job[c].effects
      /\ job'[c].plan = job[c].plan /\ job'[c].bare = job[c].bare
    BY <1>1, <1>2 DEF Effect, Fields
<1>4. "answered" \in Places(c)
    BY DEF Places
<1>5. Reported(job'[c], c)
    BY <1>1, <1>3 DEF Reported, Effect
<1>6. Effect(job'[c], c)
    BY <1>1, <1>3, <1>4, <1>5 DEF Effect, Uncounted
<1> QED
    BY <1>2, <1>6, EffectFrame

LEMMA FailsEffect ==
    ASSUME ServiceEffects, NEW c \in DOMAIN job, job[c].at \notin Uncounted, Service!Fails(c),
           Free \notin Calls
    PROVE  ServiceEffects'
<1>1. Effect(job[c], c) /\ job[c].effects = job[c].done /\ job[c].at # "answered"
    BY DEF ServiceEffects, Effect, Uncounted
<1>2. CASE job[c].done > 0
    BY <1>1, <1>2, AnswerEffect DEF Service!Fails, Service!Fault, Effect
<1>3. CASE ~(job[c].done > 0)
    BY <1>1, <1>3, AnswerEffect DEF Service!Fails, Service!Fault, Effect
<1> QED
    BY <1>2, <1>3

\* A step that changes nothing on the disk.
LEMMA MoveOn ==
    ASSUME ServiceEffects, NEW c \in DOMAIN job, job[c].at \notin Uncounted,
           DOMAIN job' = DOMAIN job, \A d \in DOMAIN job : d # c => job'[d] = job[d],
           DOMAIN job'[c] = Fields, job'[c].at \in Places(c) \ Uncounted,
           job'[c].done = job[c].done, job'[c].effects = job[c].effects,
           job'[c].bare = job[c].bare, \E S : job'[c].plan \in Seq(S),
           c.op = "copy" /\ job'[c].at \notin {"idle", "walk"} => job'[c].plan # << >>,
           busy' \in {busy, Free, c}
    PROVE  ServiceEffects'
<1>1. Effect(job[c], c)
    BY DEF ServiceEffects
<1>2. Effect(job'[c], c) /\ job'[c].at # "answered"
    BY <1>1 DEF Effect, Uncounted
<1> QED
    BY <1>2, EffectFrame

LEMMA GotoEffect ==
    ASSUME ServiceEffects, NEW c \in DOMAIN job, job[c].at \notin Uncounted,
           NEW l \in Places(c) \ Uncounted, Service!Goto(c, l), UNCHANGED busy,
           c.op = "copy" => job[c].at # "idle" /\ job[c].at # "walk"
    PROVE  ServiceEffects'
<1>1. Effect(job[c], c)
    BY DEF ServiceEffects
<1>2. /\ DOMAIN job' = DOMAIN job /\ \A d \in DOMAIN job : d # c => job'[d] = job[d]
      /\ job'[c] = [job[c] EXCEPT !.at = l]
    BY DEF Service!Goto
<1>3. /\ DOMAIN job'[c] = Fields /\ job'[c].at = l /\ job'[c].plan = job[c].plan
      /\ job'[c].done = job[c].done /\ job'[c].effects = job[c].effects
      /\ job'[c].bare = job[c].bare
    BY <1>1, <1>2 DEF Effect, Fields
<1>4. c.op = "copy" => job[c].plan # << >>
    BY <1>1 DEF Effect, Uncounted
<1>5. \E S : job'[c].plan \in Seq(S)
    BY <1>1, <1>3 DEF Effect
<1> QED
    BY <1>2, <1>3, <1>4, <1>5, MoveOn

LEMMA OpKnown ==
    ASSUME Service!Parameters, ServiceEffects, NEW c \in DOMAIN job
    PROVE  /\ c.op \in {"write", "read", "list", "mkdir", "remove", "copy", "move"}
           /\ Effect(job[c], c) /\ Free \notin Calls /\ c # Free
BY DEF Service!Parameters, ServiceEffects

LEMMA Joined ==
    ASSUME NEW s, NEW x, \E S : s \in Seq(S)
    PROVE  /\ \E S : Append(s, x) \in Seq(S) /\ <<x>> \o s \in Seq(S)
           /\ Append(s, x) # << >>
<1>1. PICK S : s \in Seq(S)
    OBVIOUS
<1>2. s \in Seq(S \cup {x}) /\ x \in S \cup {x}
    BY <1>1
<1>3. Append(s, x) \in Seq(S \cup {x}) /\ <<x>> \o s \in Seq(S \cup {x}) /\ Append(s, x) # << >>
    BY <1>2
<1> QED
    BY <1>3

LEMMA BeginEffect ==
    ASSUME Service!Parameters, ServiceEffects, NEW c \in DOMAIN job,
           Service!Enter(c) \/ Service!Abort(c) \/ Service!Visit(c)
    PROVE  ServiceEffects'
<1> USE OpKnown
<1>1. CASE Service!Enter(c)
  <2>1. job[c].at \notin Uncounted /\ job[c].at = "idle"
    BY <1>1 DEF Service!Enter, Uncounted, Effect
  <2>2. CASE Service!Fails(c)
    BY <2>1, <2>2, FailsEffect
  <2>3. CASE c.op = "remove" /\ Service!Answer(c, "ok")
    BY <2>1, <2>3, AnswerEffect
  <2>4. CASE ~Service!Fails(c) /\ ~(c.op = "remove" /\ Service!Answer(c, "ok"))
    <3> DEFINE first == <<IF c.op \in {"remove", "mkdir"} THEN c.dst ELSE c.src>>
               plan == IF c.tree THEN << >> ELSE <<[path |-> c.dst]>>
    <3>1. busy' = c /\ job' = [job EXCEPT ![c].at = Service!FirstStep(c),
                  ![c].stamp = Service!Stamp(c.src), ![c].todo = first, ![c].plan = plan]
      BY <1>1, <2>4 DEF Service!Enter, Service!AlreadyGone
    <3> HIDE DEF first, plan
    <3>2. /\ DOMAIN job' = DOMAIN job /\ \A d \in DOMAIN job : d # c => job'[d] = job[d]
          /\ DOMAIN job'[c] = Fields /\ job'[c].at = Service!FirstStep(c) /\ job'[c].plan = plan
          /\ job'[c].done = job[c].done /\ job'[c].effects = job[c].effects
          /\ job'[c].bare = job[c].bare
      BY <3>1 DEF Effect, Fields
    <3>3. Service!FirstStep(c) \in Places(c) \ Uncounted
      BY DEF Service!FirstStep, Places, Uncounted, Making, Writing, Reading
    <3>4. c.op = "copy" => Service!FirstStep(c) = "walk"
      BY DEF Service!FirstStep
    <3>5. \E S : plan \in Seq(S)
      <4>1. << >> \in Seq({[path |-> c.dst]}) /\ <<[path |-> c.dst]>> \in Seq({[path |-> c.dst]})
        OBVIOUS
      <4> QED
        BY <4>1 DEF plan
    <3> QED
      BY <2>1, <3>1, <3>2, <3>3, <3>4, <3>5, MoveOn
  <2> QED
    BY <2>2, <2>3, <2>4
<1>2. CASE Service!Abort(c)
  <2>1. job[c].at # "answered"
    BY <1>2 DEF Service!Abort, ServiceEffects
  <2>2. /\ DOMAIN job' = DOMAIN job /\ \A d \in DOMAIN job : d # c => job'[d] = job[d]
        /\ DOMAIN job'[c] = Fields /\ job'[c].at = "answered"
        /\ job'[c].answer = Service!Fault(c) /\ job'[c].bare = (job[c].at = "made")
        /\ job'[c].done = job[c].done /\ job'[c].effects = job[c].effects
        /\ job'[c].plan = job[c].plan
    BY <1>2 DEF Service!Abort, Effect, Fields
  <2>3. job[c].effects = IF job[c].at = "made" THEN job[c].done + 1 ELSE job[c].done
    BY <1>2, <2>1 DEF Service!Abort, Effect, Uncounted
  <2>4. Reported(job'[c], c)
    <3>1. job[c].done \in Nat
      BY DEF Effect
    <3>2. CASE job[c].done > 0
      BY <2>2, <2>3, <3>1, <3>2 DEF Reported, Service!Fault
    <3>3. CASE ~(job[c].done > 0)
      <4>1. Service!Fault(c) = "none" /\ job'[c].answer = "none" /\ job[c].done = 0
        BY <2>2, <3>1, <3>3 DEF Service!Fault
      <4>2. CASE job[c].at = "made"
        <5>1. job'[c].effects = 1
          BY <2>2, <2>3, <4>1, <4>2
        <5>2. job'[c].bare
          BY <2>2, <4>2, Zenon
        <5> QED
          BY <4>1, <5>1, <5>2 DEF Reported
      <4>3. CASE job[c].at # "made"
        <5>1. job'[c].effects = 0
          BY <2>2, <2>3, <4>1, <4>3
        <5>2. ~job'[c].bare
          BY <2>2, <4>3, Zenon
        <5> QED
          BY <4>1, <5>1, <5>2 DEF Reported
      <4> QED
        BY <4>2, <4>3
    <3> QED
      BY <3>2, <3>3
  <2>5. Effect(job'[c], c)
    BY <2>2, <2>4 DEF Effect, Places, Uncounted
  <2> QED
    BY <1>2, <2>2, <2>5, EffectFrame DEF Service!Abort
<1>3. CASE Service!Visit(c)
  <2>1. job[c].at \notin Uncounted /\ job[c].at = "walk" /\ c.op \in {"copy", "move", "remove"}
    BY <1>3 DEF Service!Visit, Uncounted, Effect, Places, Making, Writing, Reading
  <2>2. CASE Service!Fails(c)
    BY <2>1, <2>2, FailsEffect
  <2>3. CASE ~Service!Fails(c)
    <3> DEFINE p == Head(job[c].todo)
               x == [path |-> p, stamp |-> Service!Stamp(p), dir |-> Service!IsDir(p)]
               todo2 == Service!SetToSeq(Service!Children(p)) \o Tail(job[c].todo)
               k == IF todo2 # << >> THEN "walk"
                    ELSE CASE c.op = "move" -> "recheck" [] c.op = "copy" -> "apply"
                           [] c.op = "remove" -> "look"
    <3>1. /\ UNCHANGED busy
          /\ job' = [job EXCEPT ![c].plan = Append(@, x), ![c].todo = todo2, ![c].at = k]
      BY <1>3, <2>3 DEF Service!Visit
    <3> HIDE DEF x, todo2
    <3>2. /\ DOMAIN job' = DOMAIN job /\ \A d \in DOMAIN job : d # c => job'[d] = job[d]
          /\ DOMAIN job'[c] = Fields /\ job'[c].at = k /\ job'[c].plan = Append(job[c].plan, x)
          /\ job'[c].done = job[c].done /\ job'[c].effects = job[c].effects
          /\ job'[c].bare = job[c].bare
      BY <3>1 DEF Effect, Fields
    <3>3. k \in Places(c) \ Uncounted
      BY <2>1 DEF Places, Uncounted
    <3>4. (\E S : job'[c].plan \in Seq(S)) /\ job'[c].plan # << >>
      <4>1. \E S : job[c].plan \in Seq(S)
        BY DEF Effect
      <4>2. \E S : Append(job[c].plan, x) \in Seq(S) /\ <<x>> \o job[c].plan \in Seq(S)
        BY <4>1, Joined
      <4>3. Append(job[c].plan, x) # << >>
        BY <4>1, Joined
      <4> QED
        BY <3>2, <4>2, <4>3
    <3>5. job'[c].at \in Places(c) \ Uncounted /\ busy' \in {busy, Free, c}
      BY <3>1, <3>2, <3>3
    <3>6. c.op = "copy" /\ job'[c].at \notin {"idle", "walk"} => job'[c].plan # << >>
      BY <3>4
    <3>7. \E S : job'[c].plan \in Seq(S)
      BY <3>4
    <3> HIDE DEF k
    <3> QED
      BY <2>1, <3>2, <3>5, <3>6, <3>7, MoveOn
  <2> QED
    BY <2>2, <2>3
<1> QED
    BY <1>1, <1>2, <1>3

\* Reading a file, and looking before a write, a removal or a move: the disk stays.
LEMMA LookEffect ==
    ASSUME Service!Parameters, ServiceEffects, NEW c \in DOMAIN job,
           \/ Service!Verify(c) \/ Service!Stage(c) \/ Service!LookAgain(c)
           \/ Service!LookAtVictim(c) \/ Service!RecheckMove(c) \/ Service!Apply(c)
    PROVE  ServiceEffects'
<1>0. /\ Effect(job[c], c) /\ Free \notin Calls
      /\ c.op \in {"write", "read", "list", "mkdir", "remove", "copy", "move"}
    BY OpKnown
<1>1. CASE Service!Verify(c)
  <2>1. job[c].at = "verify" /\ c.op \in {"read", "copy"}
    BY <1>0, <1>1 DEF Service!Verify, Effect, Places, Making, Writing, Reading
  <2>2. \/ Service!Fails(c)
        \/ c.op = "read" /\ Service!Answer(c, "ok")
        \/ Service!Goto(c, "chunk") /\ UNCHANGED busy
        \/ c.op = "copy" /\ Service!Goto(c, "stage") /\ UNCHANGED busy
    <3>1. CASE ~Service!Unchanged(c)
      BY <1>1, <3>1 DEF Service!Verify
    <3>2. CASE Service!Unchanged(c) /\ Len(job[c].got) < 2
      BY <1>1, <3>2 DEF Service!Verify
    <3>3. CASE Service!Unchanged(c) /\ ~(Len(job[c].got) < 2)
      BY <1>1, <2>1, <3>3 DEF Service!Verify
    <3> QED
      BY <3>1, <3>2, <3>3
  <2>3. "chunk" \in Places(c) \ Uncounted /\ (c.op = "copy" => "stage" \in Places(c) \ Uncounted)
    BY <2>1 DEF Places, Making, Writing, Reading, Uncounted
  <2>4. job[c].at \notin Uncounted /\ job[c].at \notin {"idle", "walk"}
    BY <2>1 DEF Uncounted
  <2>5. CASE Service!Fails(c)
    BY <1>0, <2>4, <2>5, FailsEffect
  <2>6. CASE c.op = "read" /\ Service!Answer(c, "ok")
    BY <1>0, <2>1, <2>6, AnswerEffect
  <2>7. CASE Service!Goto(c, "chunk") /\ UNCHANGED busy
    BY <2>3, <2>4, <2>7, GotoEffect
  <2>8. CASE c.op = "copy" /\ Service!Goto(c, "stage") /\ UNCHANGED busy
    BY <2>3, <2>4, <2>8, GotoEffect
  <2> QED
    BY <2>2, <2>5, <2>6, <2>7, <2>8
<1>2. ASSUME NEW l \in {"staged", "ready", "remove", "rename"},
             \/ job[c].at = "stage" /\ l = "staged"
             \/ job[c].at = "staged" /\ l = "ready"
             \/ job[c].at = "look" /\ l = "remove"
             \/ job[c].at = "recheck" /\ l = "rename",
             Service!Fails(c) \/ (Service!Goto(c, l) /\ UNCHANGED busy)
      PROVE  ServiceEffects'
  <2>1. job[c].at \notin Uncounted /\ job[c].at \notin {"idle", "walk"}
    BY <1>2 DEF Uncounted
  <2>2. l \in Places(c) \ Uncounted
    BY <1>0, <1>2 DEF Effect, Places, Making, Writing, Reading, Uncounted
  <2>3. CASE Service!Fails(c)
    BY <1>0, <2>1, <2>3, FailsEffect
  <2>4. CASE Service!Goto(c, l) /\ UNCHANGED busy
    BY <2>1, <2>2, <2>4, GotoEffect
  <2> QED
    BY <1>2, <2>3, <2>4
<1>3. CASE Service!Stage(c)
  <2>1. job[c].at = "stage" /\ (Service!Fails(c) \/ (Service!Goto(c, "staged") /\ UNCHANGED busy))
    BY <1>3 DEF Service!Stage
  <2> QED
    BY <1>2, <2>1
<1>4. CASE Service!LookAgain(c)
  <2>1. job[c].at = "staged" /\ (Service!Fails(c) \/ (Service!Goto(c, "ready") /\ UNCHANGED busy))
    BY <1>4 DEF Service!LookAgain
  <2> QED
    BY <1>2, <2>1
<1>5. CASE Service!LookAtVictim(c)
  <2>1. job[c].at = "look" /\ (Service!Fails(c) \/ (Service!Goto(c, "remove") /\ UNCHANGED busy))
    BY <1>5 DEF Service!LookAtVictim
  <2> QED
    BY <1>2, <2>1
<1>6. CASE Service!RecheckMove(c)
  <2>1. job[c].at = "recheck" /\ (Service!Fails(c) \/ (Service!Goto(c, "rename") /\ UNCHANGED busy))
    BY <1>6 DEF Service!RecheckMove
  <2> QED
    BY <1>2, <2>1
<1>7. CASE Service!Apply(c)
  <2>1. job[c].at = "apply" /\ c.op = "copy"
    BY <1>0, <1>7 DEF Service!Apply, Effect, Places, Making, Writing, Reading
  <2>2. \/ Service!Fails(c)
        \/ job[c].done = Len(job[c].plan) /\ \E v \in {"ok", "partial"} : Service!Answer(c, v)
        \/ \E l \in {"mkdir", "open"} : Service!Goto(c, l) /\ UNCHANGED busy
    BY <1>7 DEF Service!Apply
  <2>3. \A l \in {"mkdir", "open"} : l \in Places(c) \ Uncounted
    BY <2>1 DEF Places, Making, Writing, Reading, Uncounted
  <2>4. job[c].at \notin Uncounted /\ job[c].at \notin {"idle", "walk"}
    BY <2>1 DEF Uncounted
  <2>5. Len(job[c].plan) \in Nat \ {0}
    <3>1. PICK S : job[c].plan \in Seq(S)
      BY <1>0 DEF Effect
    <3>2. job[c].plan # << >>
      BY <1>0, <2>1 DEF Effect
    <3> QED
      BY <3>1, <3>2
  <2>6. job[c].effects = job[c].done /\ job[c].done \in Nat
    BY <1>0, <2>4 DEF Effect
  <2>7. CASE Service!Fails(c)
    BY <1>0, <2>4, <2>7, FailsEffect
  <2>8. ASSUME job[c].done = Len(job[c].plan), NEW v \in {"ok", "partial"}, Service!Answer(c, v)
        PROVE  ServiceEffects'
    <3>1. job[c].effects \in 1..(job[c].done + 1) /\ job[c].at # "answered"
      BY <2>1, <2>5, <2>6, <2>8
    <3> QED
      BY <1>0, <2>1, <2>8, <3>1, AnswerEffect
  <2>9. ASSUME NEW l \in {"mkdir", "open"}, Service!Goto(c, l), UNCHANGED busy PROVE ServiceEffects'
    BY <2>3, <2>4, <2>9, GotoEffect
  <2> QED
    BY <2>2, <2>7, <2>8, <2>9
<1> QED
    BY <1>1, <1>3, <1>4, <1>5, <1>6, <1>7

\* Steps of a read, a listing, and the search for the directories to make.
LEMMA ReadEffect ==
    ASSUME Service!Parameters, ServiceEffects, NEW c \in DOMAIN job,
           \/ Service!Open(c) \/ Service!Chunk(c) \/ Service!Probe(c)
           \/ Service!ListBegins(c) \/ Service!Enumerate(c) \/ Service!ListEnds(c)
    PROVE  ServiceEffects'
<1>0. /\ Effect(job[c], c) /\ Free \notin Calls /\ c # Free
      /\ c.op \in {"write", "read", "list", "mkdir", "remove", "copy", "move"}
    BY OpKnown
<1>1. ASSUME job[c].at \notin Uncounted \cup {"idle", "walk"}, DOMAIN job' = DOMAIN job,
             \A d \in DOMAIN job : d # c => job'[d] = job[d],
             DOMAIN job'[c] = Fields, job'[c].at \in Places(c) \ Uncounted,
             \A f \in {"done", "effects", "bare", "plan"} : job'[c][f] = job[c][f],
             busy' \in {busy, Free, c}
      PROVE  ServiceEffects'
  <2>1. /\ job'[c].done = job[c].done /\ job'[c].effects = job[c].effects
        /\ job'[c].bare = job[c].bare /\ job'[c].plan = job[c].plan
    BY <1>1
  <2>2. c.op = "copy" => job'[c].plan # << >>
    BY <1>0, <1>1, <2>1 DEF Effect, Uncounted
  <2>3. \E S : job'[c].plan \in Seq(S)
    BY <1>0, <2>1 DEF Effect
  <2> QED
    BY <1>1, <2>1, <2>2, <2>3, MoveOn
<1>2. CASE Service!Open(c)
  <2>1. job[c].at = "open" /\ c.op \in {"read", "copy"}
    BY <1>0, <1>2 DEF Service!Open, Effect, Places, Making, Writing
  <2>2. job[c].at \notin Uncounted \cup {"idle", "walk"} /\ "verify" \in Places(c) \ Uncounted
    BY <2>1 DEF Uncounted, Places, Reading
  <2>3. CASE Service!Fails(c)
    BY <1>0, <2>2, <2>3, FailsEffect
  <2>4. CASE ~Service!Fails(c)
    <3>1. /\ DOMAIN job' = DOMAIN job /\ \A d \in DOMAIN job : d # c => job'[d] = job[d]
          /\ DOMAIN job'[c] = Fields /\ job'[c].at = "verify"
          /\ \A f \in {"done", "effects", "bare", "plan"} : job'[c][f] = job[c][f]
      BY <1>0, <1>2, <2>4 DEF Service!Open, Effect, Fields
    <3>2. busy' \in {Free, c}
      BY <1>2, <2>4 DEF Service!Open
    <3> QED
      BY <1>1, <2>2, <3>1, <3>2
  <2> QED
    BY <2>3, <2>4
<1>3. CASE Service!Chunk(c)
  <2>1. job[c].at = "chunk" /\ c.op \in {"read", "copy"}
    BY <1>0, <1>3 DEF Service!Chunk, Effect, Places, Making, Writing
  <2>2. job[c].at \notin Uncounted \cup {"idle", "walk"} /\ "verify" \in Places(c) \ Uncounted
    BY <2>1 DEF Uncounted, Places, Reading
  <2>3. /\ DOMAIN job' = DOMAIN job /\ \A d \in DOMAIN job : d # c => job'[d] = job[d]
        /\ DOMAIN job'[c] = Fields /\ job'[c].at = "verify" /\ UNCHANGED busy
        /\ \A f \in {"done", "effects", "bare", "plan"} : job'[c][f] = job[c][f]
    BY <1>0, <1>3 DEF Service!Chunk, Effect, Fields
  <2> QED
    BY <1>1, <2>2, <2>3
<1>4. CASE Service!Probe(c)
  <2>1. job[c].at = "probe" /\ c.op = "mkdir"
    BY <1>0, <1>4 DEF Service!Probe, Effect, Places, Making, Writing, Reading
  <2>2. job[c].at \notin Uncounted \cup {"idle", "walk"} /\ "mkdir" \in Places(c) \ Uncounted
    BY <2>1 DEF Uncounted, Places, Making
  <2>3. CASE Service!Fails(c)
    BY <1>0, <2>2, <2>3, FailsEffect
  <2>4. CASE Service!Answer(c, "ok")
    BY <1>0, <2>1, <2>4, AnswerEffect
  <2>5. CASE Service!Goto(c, "mkdir") /\ UNCHANGED busy
    BY <1>0, <2>1, <2>2, <2>5, GotoEffect
  <2>6. CASE ~Service!Fails(c) /\ ~Service!Answer(c, "ok")
             /\ ~(Service!Goto(c, "mkdir") /\ UNCHANGED busy)
    <3> DEFINE x == [path |-> job[c].todo[1]]
    <3>1. /\ UNCHANGED busy
          /\ job' = [job EXCEPT ![c].plan = <<x>> \o @, ![c].todo = <<Service!Front(job[c].todo[1])>>]
      BY <1>4, <2>6 DEF Service!Probe
    <3> HIDE DEF x
    <3>2. /\ DOMAIN job' = DOMAIN job /\ \A d \in DOMAIN job : d # c => job'[d] = job[d]
          /\ DOMAIN job'[c] = Fields /\ job'[c].at = "probe" /\ job'[c].plan = <<x>> \o job[c].plan
          /\ job'[c].done = job[c].done /\ job'[c].effects = job[c].effects
          /\ job'[c].bare = job[c].bare
      BY <1>0, <2>1, <3>1 DEF Effect, Fields
    <3>3. \E S : job[c].plan \in Seq(S)
      BY <1>0 DEF Effect
    <3>4. \E S : job'[c].plan \in Seq(S)
      BY <3>2, <3>3, Joined
    <3>5. job'[c].at \in Places(c) \ Uncounted
      BY <2>1, <3>2 DEF Places, Uncounted
    <3> QED
      BY <2>1, <2>2, <3>1, <3>2, <3>4, <3>5, MoveOn
  <2> QED
    BY <2>3, <2>4, <2>5, <2>6
<1>5. CASE Service!ListBegins(c)
  <2>1. job[c].at = "page" /\ c.op = "list"
    BY <1>0, <1>5 DEF Service!ListBegins, Effect, Places, Making, Writing, Reading
  <2>2. job[c].at \notin Uncounted \cup {"idle", "walk"} /\ "enumerate" \in Places(c) \ Uncounted
    BY <2>1 DEF Uncounted, Places
  <2>3. CASE Service!Fails(c)
    BY <1>0, <2>2, <2>3, FailsEffect
  <2>4. CASE ~Service!Fails(c)
    <3>1. /\ DOMAIN job' = DOMAIN job /\ \A d \in DOMAIN job : d # c => job'[d] = job[d]
          /\ DOMAIN job'[c] = Fields /\ job'[c].at = "enumerate" /\ busy' = c
          /\ \A f \in {"done", "effects", "bare", "plan"} : job'[c][f] = job[c][f]
      BY <1>0, <1>5, <2>4 DEF Service!ListBegins, Effect, Fields
    <3> QED
      BY <1>1, <2>2, <3>1
  <2> QED
    BY <2>3, <2>4
<1>6. CASE Service!Enumerate(c)
  <2>1. job[c].at = "enumerate" /\ c.op = "list"
    BY <1>0, <1>6 DEF Service!Enumerate, Effect, Places, Making, Writing, Reading
  <2>2. job[c].at \notin Uncounted \cup {"idle", "walk"} /\ "compare" \in Places(c) \ Uncounted
    BY <2>1 DEF Uncounted, Places
  <2>3. /\ DOMAIN job' = DOMAIN job /\ \A d \in DOMAIN job : d # c => job'[d] = job[d]
        /\ DOMAIN job'[c] = Fields /\ job'[c].at = "compare" /\ UNCHANGED busy
        /\ \A f \in {"done", "effects", "bare", "plan"} : job'[c][f] = job[c][f]
    BY <1>0, <1>6 DEF Service!Enumerate, Effect, Fields
  <2> QED
    BY <1>1, <2>2, <2>3
<1>7. CASE Service!ListEnds(c)
  <2>1. job[c].at = "compare" /\ c.op = "list" /\ job[c].at \notin Uncounted
    BY <1>0, <1>7 DEF Service!ListEnds, Effect, Places, Making, Writing, Reading, Uncounted
  <2>2. CASE Service!Fails(c)
    BY <1>0, <2>1, <2>2, FailsEffect
  <2>3. CASE ~Service!Fails(c)
    <3>1. /\ DOMAIN job' = DOMAIN job /\ \A d \in DOMAIN job : d # c => job'[d] = job[d]
          /\ DOMAIN job'[c] = Fields /\ busy' = Free
          /\ job'[c].at \in {"page", "answered"} /\ (job'[c].at = "answered" => job'[c].answer = "ok")
          /\ \A f \in {"done", "effects", "bare", "plan"} : job'[c][f] = job[c][f]
      <4> DEFINE l == IF job[c].todo # << >> THEN "page" ELSE "answered"
                 v == IF job[c].todo # << >> THEN job[c].answer ELSE "ok"
                 s == job[c].shown \o job[c].got
      <4>1. busy' = Free /\ job' = [job EXCEPT ![c].shown = s, ![c].at = l, ![c].answer = v]
        BY <1>7, <2>3 DEF Service!ListEnds
      <4>2. l \in {"page", "answered"} /\ (l = "answered" => v = "ok")
        OBVIOUS
      <4> HIDE DEF l, v, s
      <4>3. /\ DOMAIN job' = DOMAIN job /\ \A d \in DOMAIN job : d # c => job'[d] = job[d]
            /\ DOMAIN job'[c] = Fields /\ job'[c].at = l /\ job'[c].answer = v
            /\ \A f \in {"done", "effects", "bare", "plan"} : job'[c][f] = job[c][f]
        BY <1>0, <4>1 DEF Effect, Fields
      <4> QED
        BY <4>1, <4>2, <4>3
    <3>2. CASE job'[c].at = "page"
      <4>1. job[c].at \notin Uncounted \cup {"idle", "walk"} /\ "page" \in Places(c) \ Uncounted
        BY <2>1 DEF Uncounted, Places
      <4> QED
        BY <1>1, <3>1, <3>2, <4>1
    <3>3. CASE job'[c].at = "answered"
      <4>1. Reported(job'[c], c)
        BY <2>1, <3>1, <3>3 DEF Reported
      <4>2. Effect(job'[c], c)
        BY <1>0, <2>1, <3>1, <3>3, <4>1 DEF Effect, Places, Uncounted
      <4> QED
        BY <1>0, <3>1, <4>2, EffectFrame
    <3> QED
      BY <3>1, <3>2, <3>3
  <2> QED
    BY <2>2, <2>3
<1> QED
    BY <1>2, <1>3, <1>4, <1>5, <1>6, <1>7

\* The steps that change the disk, and the count that follows each.
LEMMA ChangeEffect ==
    ASSUME Service!Parameters, ServiceEffects, NEW c \in DOMAIN job,
           \/ Service!CommitWrite(c) \/ Service!AfterWrite(c) \/ Service!MakeDir(c)
           \/ Service!LookAtDir(c) \/ Service!RemoveOne(c)
           \/ Service!CommitMove(c) \/ Service!AfterMove(c)
    PROVE  ServiceEffects'
<1>0. /\ Effect(job[c], c) /\ Free \notin Calls /\ c # Free
      /\ c.op \in {"write", "read", "list", "mkdir", "remove", "copy", "move"}
    BY OpKnown
<1>1. CASE Service!CommitWrite(c)
  <2>1. /\ job[c].at = "ready" /\ c.op \in {"write", "copy"} /\ job[c].at \notin Uncounted
        /\ "committed" \in Places(c)
    BY <1>0, <1>1 DEF Service!CommitWrite, Effect, Places, Making, Writing, Reading, Uncounted
  <2>2. CASE Service!Fails(c)
    BY <1>0, <2>1, <2>2, FailsEffect
  <2>3. CASE ~Service!Fails(c)
    <3>1. /\ DOMAIN job' = DOMAIN job /\ \A d \in DOMAIN job : d # c => job'[d] = job[d]
          /\ DOMAIN job'[c] = Fields /\ job'[c].at = "committed" /\ UNCHANGED busy
          /\ job'[c].done = job[c].done /\ job'[c].effects = job[c].effects + 1
          /\ job'[c].bare = job[c].bare /\ job'[c].plan = job[c].plan
      <4>1. UNCHANGED busy /\ job' = [job EXCEPT ![c].at = "committed", ![c].effects = @ + 1]
        BY <1>1, <2>3 DEF Service!CommitWrite
      <4> QED
        BY <1>0, <4>1 DEF Effect, Fields
    <3>2. Effect(job'[c], c)
      BY <1>0, <2>1, <3>1 DEF Effect, Uncounted
    <3> QED
      BY <3>1, <3>2, EffectFrame
  <2> QED
    BY <2>2, <2>3
<1>2. CASE Service!AfterWrite(c)
  <2>1. /\ job[c].at = "committed" /\ c.op \in {"write", "copy"} /\ job[c].effects = job[c].done + 1
        /\ job[c].done \in Nat
    BY <1>0, <1>2 DEF Service!AfterWrite, Effect, Places, Making, Writing, Reading, Uncounted
  <2>2. CASE Service!Answer(c, "partial")
    BY <1>0, <2>1, <2>2, AnswerEffect
  <2>3. CASE c.op = "write" /\ Service!Answer(c, "ok")
    <3>1. job[c].effects = 1
      BY <1>0, <2>1, <2>3 DEF Effect
    <3> QED
      BY <1>0, <2>1, <2>3, <3>1, AnswerEffect
  <2>4. CASE c.op = "copy" /\ UNCHANGED busy
             /\ job' = [job EXCEPT ![c].at = "apply", ![c].done = @ + 1]
    <3>1. /\ DOMAIN job' = DOMAIN job /\ \A d \in DOMAIN job : d # c => job'[d] = job[d]
          /\ DOMAIN job'[c] = Fields /\ job'[c].at = "apply"
          /\ job'[c].done = job[c].done + 1 /\ job'[c].effects = job[c].effects
          /\ job'[c].bare = job[c].bare /\ job'[c].plan = job[c].plan
      BY <1>0, <2>4 DEF Effect, Fields
    <3>2. "apply" \in Places(c) /\ "apply" \notin Uncounted
      BY <2>4 DEF Places, Uncounted
    <3>3. Effect(job'[c], c)
      BY <1>0, <2>1, <2>4, <3>1, <3>2 DEF Effect
    <3> QED
      BY <2>4, <3>1, <3>3, EffectFrame
  <2> QED
    BY <1>2, <2>2, <2>3, <2>4 DEF Service!AfterWrite
<1>3. CASE Service!MakeDir(c)
  <2>1. /\ job[c].at = "mkdir" /\ c.op \in {"mkdir", "copy"} /\ job[c].at \notin Uncounted
        /\ "made" \in Places(c)
    BY <1>0, <1>3 DEF Service!MakeDir, Effect, Places, Making, Writing, Reading, Uncounted
  <2>2. CASE Service!Fails(c)
    BY <1>0, <2>1, <2>2, FailsEffect
  <2>3. CASE ~Service!Fails(c)
    <3>1. /\ DOMAIN job' = DOMAIN job /\ \A d \in DOMAIN job : d # c => job'[d] = job[d]
          /\ DOMAIN job'[c] = Fields /\ job'[c].at = "made" /\ UNCHANGED busy
          /\ job'[c].done = job[c].done /\ job'[c].effects = job[c].effects + 1
          /\ job'[c].bare = job[c].bare /\ job'[c].plan = job[c].plan
      <4>1. UNCHANGED busy /\ job' = [job EXCEPT ![c].at = "made", ![c].effects = @ + 1]
        BY <1>3, <2>3 DEF Service!MakeDir
      <4> QED
        BY <1>0, <4>1 DEF Effect, Fields
    <3>2. Effect(job'[c], c)
      BY <1>0, <2>1, <3>1 DEF Effect, Uncounted
    <3> QED
      BY <3>1, <3>2, EffectFrame
  <2> QED
    BY <2>2, <2>3
<1>4. CASE Service!LookAtDir(c)
  <2>1. /\ job[c].at = "made" /\ c.op \in {"mkdir", "copy"} /\ job[c].effects = job[c].done + 1
        /\ job[c].done \in Nat
    BY <1>0, <1>4 DEF Service!LookAtDir, Effect, Places, Making, Writing, Reading, Uncounted
  <2>2. CASE Service!Answer(c, "ok")
    BY <1>0, <2>1, <2>2, AnswerEffect
  <2>3. CASE ~Service!Answer(c, "ok")
    <3>1. /\ DOMAIN job' = DOMAIN job /\ \A d \in DOMAIN job : d # c => job'[d] = job[d]
          /\ DOMAIN job'[c] = Fields /\ UNCHANGED busy
          /\ job'[c].at = IF c.op = "copy" THEN "apply" ELSE "mkdir"
          /\ job'[c].done = job[c].done + 1 /\ job'[c].effects = job[c].effects
          /\ job'[c].bare = job[c].bare /\ job'[c].plan = job[c].plan
      <4> DEFINE l == IF c.op = "copy" THEN "apply" ELSE "mkdir"
      <4>1. UNCHANGED busy /\ job' = [job EXCEPT ![c].at = l, ![c].done = @ + 1]
        BY <1>4, <2>3 DEF Service!LookAtDir
      <4> HIDE DEF l
      <4>2. /\ DOMAIN job' = DOMAIN job /\ \A d \in DOMAIN job : d # c => job'[d] = job[d]
            /\ DOMAIN job'[c] = Fields /\ job'[c].at = l
            /\ job'[c].done = job[c].done + 1 /\ job'[c].effects = job[c].effects
            /\ job'[c].bare = job[c].bare /\ job'[c].plan = job[c].plan
        BY <1>0, <4>1 DEF Effect, Fields
      <4> QED
        BY <4>1, <4>2 DEF l
    <3>2. job'[c].at \in Places(c) /\ job'[c].at \notin Uncounted
      BY <2>1, <3>1 DEF Places, Uncounted, Making
    <3>3. Effect(job'[c], c)
      BY <1>0, <2>1, <3>1, <3>2 DEF Effect
    <3> QED
      BY <3>1, <3>2, <3>3, EffectFrame DEF Uncounted
  <2> QED
    BY <2>2, <2>3
<1>5. CASE Service!RemoveOne(c)
  <2>1. job[c].at = "remove" /\ c.op = "remove" /\ job[c].at \notin Uncounted
    BY <1>0, <1>5 DEF Service!RemoveOne, Effect, Places, Making, Writing, Reading, Uncounted
  <2>2. CASE Service!Fails(c)
    BY <1>0, <2>1, <2>2, FailsEffect
  <2>3. CASE ~Service!Fails(c)
    <3>1. /\ DOMAIN job' = DOMAIN job /\ \A d \in DOMAIN job : d # c => job'[d] = job[d]
          /\ DOMAIN job'[c] = Fields /\ job'[c].at \in {"look", "answered"}
          /\ job'[c].answer = "ok"
          /\ busy' = IF job'[c].at = "look" THEN c ELSE Free
          /\ job'[c].done = job[c].done + 1 /\ job'[c].effects = job[c].effects + 1
          /\ job'[c].bare = job[c].bare /\ job'[c].plan = job[c].plan
      <4>1. CASE job[c].done + 1 < Len(job[c].plan)
        <5>1. /\ busy' = c
              /\ job' = [job EXCEPT ![c].effects = @ + 1, ![c].done = @ + 1, ![c].at = "look",
                                    ![c].answer = "ok"]
          BY <1>5, <2>1, <2>3, <4>1 DEF Service!RemoveOne
        <5> QED
          BY <1>0, <5>1 DEF Effect, Fields
      <4>2. CASE ~(job[c].done + 1 < Len(job[c].plan))
        <5>1. /\ busy' = Free
              /\ job' = [job EXCEPT ![c].effects = @ + 1, ![c].done = @ + 1, ![c].at = "answered",
                                    ![c].answer = "ok"]
          BY <1>5, <2>1, <2>3, <4>2 DEF Service!RemoveOne
        <5> QED
          BY <1>0, <5>1 DEF Effect, Fields
      <4> QED
        BY <4>1, <4>2
    <3>2. job'[c].at \in Places(c)
      BY <2>1, <3>1 DEF Places
    <3>3. job'[c].at = "answered" => Reported(job'[c], c)
      BY <2>1, <3>1 DEF Reported
    <3>4. Effect(job'[c], c)
      BY <1>0, <2>1, <3>1, <3>2, <3>3 DEF Effect, Uncounted
    <3> QED
      BY <1>0, <3>1, <3>4, EffectFrame
  <2> QED
    BY <2>2, <2>3
<1>6. CASE Service!CommitMove(c)
  <2>1. /\ job[c].at = "rename" /\ c.op = "move" /\ job[c].at \notin Uncounted
        /\ job[c].done = 0 /\ job[c].effects = 0
    BY <1>0, <1>6 DEF Service!CommitMove, Effect, Places, Making, Writing, Reading, Uncounted
  <2>2. CASE Service!Fails(c)
    BY <1>0, <2>1, <2>2, FailsEffect
  <2>3. CASE ~Service!Fails(c)
    <3>1. /\ DOMAIN job' = DOMAIN job /\ \A d \in DOMAIN job : d # c => job'[d] = job[d]
          /\ DOMAIN job'[c] = Fields /\ job'[c].at = "moved" /\ UNCHANGED busy
          /\ job'[c].done = 1 /\ job'[c].effects = job[c].effects + 1
          /\ job'[c].bare = job[c].bare /\ job'[c].plan = job[c].plan
      <4>1. /\ UNCHANGED busy
            /\ job' = [job EXCEPT ![c].at = "moved", ![c].effects = @ + 1, ![c].done = 1]
        BY <1>6, <2>3 DEF Service!CommitMove
      <4> QED
        BY <1>0, <4>1 DEF Effect, Fields
    <3>2. "moved" \in Places(c)
      BY <2>1 DEF Places
    <3>3. Effect(job'[c], c)
      BY <1>0, <2>1, <3>1, <3>2 DEF Effect, Uncounted
    <3> QED
      BY <3>1, <3>3, EffectFrame
  <2> QED
    BY <2>2, <2>3
<1>7. CASE Service!AfterMove(c)
  <2>1. job[c].at = "moved" /\ job[c].effects = 1 /\ job[c].done \in Nat
    BY <1>0, <1>7 DEF Service!AfterMove, Effect
  <2>2. \E v \in {"ok", "partial"} : Service!Answer(c, v)
    BY <1>7 DEF Service!AfterMove
  <2>3. job[c].effects \in 1..(job[c].done + 1)
    BY <2>1
  <2> QED
    BY <1>0, <2>1, <2>2, <2>3, AnswerEffect
<1> QED
    BY <1>1, <1>2, <1>3, <1>4, <1>5, <1>6, <1>7

LEMMA EffectStep ==
    ASSUME Service!Parameters, ServiceEffects, Service!Next
    PROVE  ServiceEffects'
<1>1. ASSUME NEW c \in DOMAIN job, Service!Service(c) PROVE ServiceEffects'
    BY <1>1, BeginEffect, LookEffect, ReadEffect, ChangeEffect DEF Service!Service
<1>2. ASSUME NEW p \in Paths, \/ Service!EditBegins(p) \/ Service!EditEnds(p)
                              \/ Service!Replace(p) \/ Service!Delete(p)
      PROVE  ServiceEffects'
  <2>1. UNCHANGED <<busy, job>>
    BY <1>2 DEF Service!EditBegins, Service!EditEnds, Service!Replace, Service!Delete, Service!Edited
  <2> QED
    BY <2>1 DEF ServiceEffects, Effect, Reported
<1> QED
    BY <1>1, <1>2 DEF Service!Next

LEMMA EffectInit ==
    ASSUME Service!Parameters, Service!Init
    PROVE  ServiceEffects
<1>1. PICK S \in SUBSET Calls : job = [c \in S |-> Service!NewJob]
    BY DEF Service!Init
<1>2. ASSUME NEW c \in S PROVE Effect(job[c], c)
  <2>1. job[c] = Service!NewJob
    BY <1>1, <1>2
  <2>2. << >> \in Seq({c})
    OBVIOUS
  <2>3. "idle" \in Places(c)
    BY DEF Places
  <2>4. /\ DOMAIN job[c] = Fields /\ job[c].at = "idle" /\ job[c].plan = << >>
        /\ job[c].done = 0 /\ job[c].effects = 0 /\ job[c].bare = FALSE
    <3>1. DOMAIN Service!NewJob = Fields
      BY DEF Service!NewJob, Fields
    <3>2. /\ Service!NewJob.at = "idle" /\ Service!NewJob.plan = << >>
          /\ Service!NewJob.done = 0 /\ Service!NewJob.effects = 0 /\ Service!NewJob.bare = FALSE
      BY DEF Service!NewJob
    <3> QED
      BY <2>1, <3>1, <3>2
  <2> QED
    BY <2>2, <2>3, <2>4 DEF Effect, Uncounted
<1> QED
    BY <1>1, <1>2 DEF Service!Init, ServiceEffects

\* What the effects say, of the one bundle where the file service moves.
ServiceSafe == part = "service" => ServiceEffects

LEMMA ServiceInvariance == BundleSpec => []ServiceSafe
<1>1. BundleInit => ServiceSafe
    BY FilesAssumption, EffectInit DEF BundleInit, ServiceSafe
<1>2. ServiceSafe /\ [BundleNext]_bundleVars => ServiceSafe'
  <2> SUFFICES ASSUME ServiceSafe, [BundleNext]_bundleVars, part' = "service" PROVE ServiceEffects'
    BY DEF ServiceSafe
  <2>1. ServiceEffects /\ (Service!Next \/ UNCHANGED serviceVars)
    BY DEF ServiceSafe, BundleNext, bundleVars
  <2>2. CASE UNCHANGED serviceVars
    BY <2>1, <2>2 DEF serviceVars, ServiceEffects, Effect, Reported
  <2> QED
    BY <2>1, <2>2, FilesAssumption, EffectStep
<1> QED
    BY <1>1, <1>2, PTL DEF BundleSpec, bundleVars

\* hostfs partial, protocol.FSFail: a failed call of the file service tells how much
\* it did, whatever error, cancellation or other program meets it between two steps.
THEOREM EffectsTold == BundleSpec => []EffectsReported
<1>1. ServiceSafe => EffectsReported
  <2> SUFFICES ASSUME ServiceEffects PROVE Service!EffectsReported
    BY DEF ServiceSafe, EffectsReported
  <2> SUFFICES ASSUME NEW c \in DOMAIN job, job[c].at = "answered"
               PROVE  LET missed == IF job[c].bare THEN 1 ELSE 0
                      IN  CASE job[c].answer = "none" -> job[c].effects = missed
                            [] job[c].answer = "partial" -> job[c].effects \in 1..(job[c].done + 1)
                            [] job[c].answer = "ok" -> c.op \in {"write", "move"} => job[c].effects = 1
    BY DEF Service!EffectsReported
  <2>1. Reported(job[c], c)
    BY DEF ServiceEffects, Effect
  <2> QED
    BY <2>1 DEF Reported
<1> QED
    BY <1>1, ServiceInvariance, PTL

-----------------------------------------------------------------------------
(* The file service: what it changes, and under which condition.            *)

\* Where a call is without the lock.
Outside(c) == \/ job[c].at \in {"idle", "answered", "page"}
              \/ c.op = "read" /\ job[c].at \in {"verify", "chunk"}

\* The steps that lead a call to the places where it reads or writes.
Reaching(c) == \/ Service!Enter(c) \/ Service!Open(c) \/ Service!Verify(c) \/ Service!Chunk(c)
               \/ Service!Stage(c) \/ Service!LookAgain(c)

Locked == \A c \in DOMAIN job : Outside(c) \/ busy = c

\* Of a step of a call: the others stay where they are, only who has the lock
\* changes the disk, and a place is reached by the step that leads to it.
LEMMA CallStep ==
    ASSUME Service!Parameters, ServiceEffects, Locked, NEW c \in DOMAIN job, Service!Service(c)
    PROVE  /\ DOMAIN job' = DOMAIN job /\ \A d \in DOMAIN job : d # c => job'[d] = job[d]
           /\ busy \notin {c, Free} => UNCHANGED busy
           /\ busy # c => UNCHANGED <<disk, obj, touched>>
           /\ Outside(c)' \/ busy' = c
           /\ job'[c].at = "ready" => Service!LookAgain(c)
           /\ job'[c].at = "committed" => Service!CommitWrite(c)
           /\ job'[c].at = "remove" => Service!LookAtVictim(c) \/ Service!Enter(c)
           /\ job'[c].at \in {"verify", "chunk", "stage", "staged", "ready"} => Reaching(c)
<1> USE DEF Service!Editor, Service!Tree, Reaching
<1>0. Effect(job[c], c) /\ (Outside(c) \/ busy = c)
    BY DEF ServiceEffects, Locked
<1>1. ASSUME NEW v, Service!Answer(c, v)
      PROVE /\ DOMAIN job' = DOMAIN job /\ \A d \in DOMAIN job : d # c => job'[d] = job[d]
            /\ busy \notin {c, Free} => UNCHANGED busy
            /\ job'[c].at = "answered" /\ Outside(c)'
  <2>1. job' = [job EXCEPT ![c].at = "answered", ![c].answer = v]
        /\ busy' = IF busy = c THEN Free ELSE busy
    BY <1>1 DEF Service!Answer
  <2> QED
    BY <1>0, <2>1 DEF Effect, Fields, Outside
<1>2. ASSUME NEW l, Service!Goto(c, l)
      PROVE /\ DOMAIN job' = DOMAIN job /\ \A d \in DOMAIN job : d # c => job'[d] = job[d]
            /\ job'[c].at = l
    BY <1>0, <1>2 DEF Service!Goto, Effect, Fields
<1>3. CASE Service!Stage(c)
    BY <1>0, <1>1, <1>2, <1>3 DEF Service!Stage, Service!Fails
<1>4. CASE Service!Enter(c)
  <2>0. UNCHANGED <<disk, obj, touched>>
    BY <1>4 DEF Service!Enter, Service!Fails
  <2>1. CASE Service!Fails(c) \/ Service!Answer(c, "ok")
    BY <1>0, <1>1, <2>0, <2>1 DEF Service!Fails
  <2>2. CASE ~(Service!Fails(c) \/ Service!Answer(c, "ok"))
    <3> DEFINE l == Service!FirstStep(c)
               t == <<IF c.op \in {"remove", "mkdir"} THEN c.dst ELSE c.src>>
               p == IF c.tree THEN << >> ELSE <<[path |-> c.dst]>>
    <3>1. /\ busy = Free /\ busy' = c /\ UNCHANGED <<disk, obj, touched>>
          /\ job' = [job EXCEPT ![c].at = l, ![c].stamp = Service!Stamp(c.src), ![c].todo = t,
                                ![c].plan = p]
      BY <1>4, <2>2 DEF Service!Enter
    <3>2. l \notin {"ready", "committed"}
      BY DEF Service!FirstStep
    <3> HIDE DEF l, t, p
    <3> QED
      BY <1>0, <1>4, <3>1, <3>2 DEF Effect, Fields
  <2> QED
    BY <2>1, <2>2
<1>5. CASE Service!Abort(c)
    BY <1>0, <1>1, <1>2, <1>5 DEF Service!Abort, Service!Fails, Effect, Fields, Outside, Places
<1>6. CASE Service!Visit(c)
    BY <1>0, <1>1, <1>2, <1>6 DEF Service!Visit, Service!Fails, Effect, Fields, Outside, Places
<1>7. CASE Service!Open(c)
    BY <1>0, <1>1, <1>2, <1>7 DEF Service!Open, Service!Fails, Effect, Fields, Outside, Places
<1>8. CASE Service!Verify(c)
    BY <1>0, <1>1, <1>2, <1>8 DEF Service!Verify, Service!Fails, Effect, Fields, Outside, Places
<1>9. CASE Service!Chunk(c)
    BY <1>0, <1>1, <1>2, <1>9 DEF Service!Chunk, Service!Fails, Effect, Fields, Outside, Places
<1>10. CASE Service!LookAgain(c)
    BY <1>0, <1>1, <1>2, <1>10 DEF Service!LookAgain, Service!Fails, Effect, Fields, Outside, Places
<1>11. CASE Service!CommitWrite(c)
    BY <1>0, <1>1, <1>2, <1>11 DEF Service!CommitWrite, Service!Fails, Effect, Fields, Outside, Places
<1>12. CASE Service!AfterWrite(c)
    BY <1>0, <1>1, <1>2, <1>12 DEF Service!AfterWrite, Service!Fails, Effect, Fields, Outside, Places
<1>13. CASE Service!Probe(c)
    BY <1>0, <1>1, <1>2, <1>13 DEF Service!Probe, Service!Fails, Effect, Fields, Outside, Places
<1>14. CASE Service!MakeDir(c)
    BY <1>0, <1>1, <1>2, <1>14 DEF Service!MakeDir, Service!Fails, Effect, Fields, Outside, Places
<1>15. CASE Service!LookAtDir(c)
    BY <1>0, <1>1, <1>2, <1>15 DEF Service!LookAtDir, Service!Fails, Effect, Fields, Outside, Places
<1>16. CASE Service!Apply(c)
    BY <1>0, <1>1, <1>2, <1>16 DEF Service!Apply, Service!Fails, Effect, Fields, Outside, Places
<1>17. CASE Service!LookAtVictim(c)
    BY <1>0, <1>1, <1>2, <1>17 DEF Service!LookAtVictim, Service!Fails, Effect, Fields, Outside, Places
<1>18. CASE Service!RemoveOne(c)
  <2>1. CASE Service!Fails(c)
    BY <1>0, <1>1, <1>18, <2>1 DEF Service!RemoveOne, Service!Fails, Outside
  <2>2. CASE ~Service!Fails(c)
    <3> DEFINE more == job[c].done + 1 < Len(job[c].plan)
               l == IF more THEN "look" ELSE "answered"
    <3>1. /\ busy = c /\ busy' = (IF more THEN c ELSE Free) /\ UNCHANGED touched
          /\ job' = [job EXCEPT ![c].effects = @ + 1, ![c].done = @ + 1, ![c].at = l,
                                ![c].answer = "ok"]
      BY <1>18, <2>2 DEF Service!RemoveOne
    <3>2. /\ DOMAIN job' = DOMAIN job /\ \A d \in DOMAIN job : d # c => job'[d] = job[d]
          /\ job'[c].at = l
      <4> HIDE DEF l, more
      <4> QED
        BY <1>0, <3>1 DEF Effect, Fields
    <3> QED
      BY <3>1, <3>2 DEF Outside
  <2> QED
    BY <2>1, <2>2
<1>19. CASE Service!RecheckMove(c)
    BY <1>0, <1>1, <1>2, <1>19 DEF Service!RecheckMove, Service!Fails, Effect, Fields, Outside, Places
<1>20. CASE Service!CommitMove(c)
    BY <1>0, <1>1, <1>2, <1>20 DEF Service!CommitMove, Service!Fails, Effect, Fields, Outside, Places
<1>21. CASE Service!AfterMove(c)
    BY <1>0, <1>1, <1>2, <1>21 DEF Service!AfterMove, Service!Fails, Effect, Fields, Outside, Places
<1>22. CASE Service!ListBegins(c)
    BY <1>0, <1>1, <1>2, <1>22 DEF Service!ListBegins, Service!Fails, Effect, Fields, Outside, Places
<1>23. CASE Service!Enumerate(c)
    BY <1>0, <1>1, <1>2, <1>23 DEF Service!Enumerate, Service!Fails, Effect, Fields, Outside, Places
<1>24. CASE Service!ListEnds(c)
  <2>1. CASE Service!Fails(c)
    BY <1>0, <1>1, <1>24, <2>1 DEF Service!ListEnds, Service!Fails, Outside
  <2>2. CASE ~Service!Fails(c)
    <3> DEFINE l == IF job[c].todo # << >> THEN "page" ELSE "answered"
               v == IF job[c].todo # << >> THEN job[c].answer ELSE "ok"
               s == job[c].shown \o job[c].got
    <3>1. /\ busy = c /\ busy' = Free /\ job' = [job EXCEPT ![c].shown = s, ![c].at = l, ![c].answer = v]
      BY <1>24, <2>2 DEF Service!ListEnds
    <3>2. /\ DOMAIN job' = DOMAIN job /\ \A d \in DOMAIN job : d # c => job'[d] = job[d]
          /\ job'[c].at = l
      <4> HIDE DEF l, v, s
      <4> QED
        BY <1>0, <3>1 DEF Effect, Fields
    <3>3. UNCHANGED <<disk, obj, touched>>
      BY <1>24, <2>2 DEF Service!ListEnds
    <3> QED
      BY <3>1, <3>2, <3>3 DEF Outside
  <2> QED
    BY <2>1, <2>2
<1> QED
    BY <1>3, <1>4, <1>5, <1>6, <1>7, <1>8, <1>9, <1>10, <1>11, <1>12, <1>13, <1>14, <1>15, <1>16, <1>17, <1>18, <1>19, <1>20, <1>21, <1>22, <1>23, <1>24 DEF Service!Service

-----------------------------------------------------------------------------
(* The objects: they are never forgotten, a file stays a file, and what the *)
(* editor writes into it is new, so that an earlier version never returns.  *)

\* What a file may hold after n changes by the editor.
Content(d, n) == d \in Nat \X Nat /\ d[2] <= d[1] /\ d[1] < n + Service!FirstText

Sound ==
    /\ edits \in Nat /\ obj \in Seq(Service!Objects)
    /\ \A i \in 1..Len(obj) : obj[i].kind = "file" => Content(obj[i].data, edits)
    /\ DOMAIN disk \subseteq Seq(Service!PathNames)
    /\ \A p \in DOMAIN disk : disk[p] \in 1..Len(obj)
    /\ \A p, q \in DOMAIN disk : disk[p] = disk[q] => p = q

\* No step of anybody brings an earlier version back.
Grows ==
    /\ edits' \in Nat /\ edits <= edits' /\ Len(obj) <= Len(obj')
    /\ \A i \in 1..Len(obj) :
         /\ obj'[i].kind = obj[i].kind
         /\ obj[i].kind = "file" => /\ obj[i].data[1] <= obj'[i].data[1]
                                    /\ obj[i].data[2] <= obj'[i].data[2]

LEMMA ObjectAt ==
    ASSUME Sound, NEW i \in 1..Len(obj)
    PROVE  /\ obj[i] = [kind |-> obj[i].kind, data |-> obj[i].data]
           /\ obj[i].kind \in {"file", "dir"} /\ obj[i].data \in Nat \X Nat
           /\ obj[i].data[1] \in Nat /\ obj[i].data[2] \in Nat
           /\ Len(obj) \in Nat /\ DOMAIN obj = 1..Len(obj)
<1>1. obj[i] \in Service!Objects
    BY ElementOfSeq DEF Sound
<1>2. Len(obj) \in Nat /\ DOMAIN obj = 1..Len(obj)
    BY LenProperties DEF Sound
<1>3. obj[i].data \in Nat \X Nat
    BY <1>1 DEF Service!Objects
<1> QED
    BY <1>1, <1>2, <1>3 DEF Service!Objects

\* Entries that come or go change the directories they are in, and no file.
LEMMA EnteredKeeps ==
    ASSUME Sound, NEW ps
    PROVE  LET e == Service!Entered(ps)
           IN  /\ e \in Seq(Service!Objects) /\ Len(e) = Len(obj)
               /\ \A i \in 1..Len(obj) : /\ e[i].kind = obj[i].kind
                                         /\ obj[i].kind = "file" => e[i] = obj[i]
<1> DEFINE dirs == {disk[Service!Front(p)] : p \in {q \in ps : Service!IsDir(Service!Front(q))}}
           e == Service!Entered(ps)
<1>1. e = [i \in DOMAIN obj |-> IF i \in dirs THEN [obj[i] EXCEPT !.data[1] = @ + 1] ELSE obj[i]]
    BY DEF Service!Entered
<1>2. \A i \in dirs : obj[i].kind = "dir"
    BY DEF Service!IsDir
<1>3. Len(obj) \in Nat /\ DOMAIN obj = 1..Len(obj)
    BY LenProperties DEF Sound
<1> HIDE DEF dirs, e
<1>4. ASSUME NEW i \in 1..Len(obj)
      PROVE  e[i] \in Service!Objects /\ e[i].kind = obj[i].kind /\ (obj[i].kind = "file" => e[i] = obj[i])
  <2>1. CASE i \in dirs
    <3> DEFINE d == obj[i].data
    <3>1. d \in Nat \X Nat /\ obj[i] = [kind |-> obj[i].kind, data |-> d] /\ obj[i].kind = "dir"
      BY <1>2, <2>1, ObjectAt
    <3>2. e[i] = [obj[i] EXCEPT !.data[1] = @ + 1]
      BY <1>1, <1>3, <2>1
    <3>3. [d EXCEPT ![1] = @ + 1] \in Nat \X Nat
      BY <3>1
    <3>4. e[i].kind = "dir" /\ e[i] = [kind |-> "dir", data |-> [d EXCEPT ![1] = @ + 1]]
      BY <3>1, <3>2
    <3> QED
      BY <3>1, <3>3, <3>4 DEF Service!Objects
  <2>2. CASE i \notin dirs
    <3>1. e[i] = obj[i]
      BY <1>1, <1>3, <2>2
    <3> QED
      BY <3>1, ElementOfSeq DEF Sound
  <2> QED
    BY <2>1, <2>2
<1>5. e \in [1..Len(obj) -> Service!Objects]
    BY <1>1, <1>3, <1>4
<1>6. e \in Seq(Service!Objects)
    BY <1>3, <1>5, SeqDef
<1>7. Len(e) = Len(obj)
    BY <1>3, <1>5, <1>6
<1> QED
    BY <1>4, <1>6, <1>7 DEF e

FilesKept == \A i \in 1..Len(obj) : obj[i].kind = "file" => obj'[i] = obj[i]

\* What a step that keeps the files has to show of the objects.
LEMMA StaySound ==
    ASSUME Sound, edits' \in {edits, edits + 1}, obj' \in Seq(Service!Objects), Len(obj) <= Len(obj'),
           \A i \in 1..Len(obj) : obj'[i].kind = obj[i].kind, FilesKept,
           \A i \in (Len(obj) + 1)..Len(obj') : obj'[i].kind = "file" => Content(obj'[i].data, edits'),
           DOMAIN disk' \subseteq Seq(Service!PathNames),
           \A p \in DOMAIN disk' : disk'[p] \in 1..Len(obj'),
           \A p, q \in DOMAIN disk' : disk'[p] = disk'[q] => p = q
    PROVE  Sound' /\ Grows
<1>1. edits' \in Nat /\ edits <= edits' /\ Service!FirstText \in Nat
    BY DEF Sound, Service!FirstText
<1>2. Len(obj) \in Nat /\ Len(obj') \in Nat
    BY LenProperties DEF Sound
<1>3. \A i \in 1..Len(obj) : obj[i].data[1] \in Nat /\ obj[i].data[2] \in Nat
    BY ObjectAt
<1>4. Grows
    BY <1>1, <1>3 DEF Grows, FilesKept
<1>5. ASSUME NEW i \in 1..Len(obj'), obj'[i].kind = "file" PROVE Content(obj'[i].data, edits')
  <2>1. CASE i \in 1..Len(obj)
    <3>1. obj[i].kind = "file" /\ obj'[i] = obj[i]
      BY <1>5, <2>1 DEF FilesKept
    <3>2. Content(obj[i].data, edits) /\ obj[i].data[1] \in Nat
      BY <1>3, <2>1, <3>1 DEF Sound
    <3>3. edits \in Nat
      BY DEF Sound
    <3> QED
      BY <1>1, <3>1, <3>2, <3>3 DEF Content
  <2>2. CASE i \notin 1..Len(obj)
    BY <1>2, <1>5, <2>2
  <2> QED
    BY <2>1, <2>2
<1> QED
    BY <1>1, <1>4, <1>5, Zenon DEF Sound

LEMMA PutKeeps ==
    ASSUME Sound, edits' \in {edits, edits + 1}, NEW p \in Seq(Service!PathNames),
           NEW k \in {"file", "dir"}, NEW d \in Nat \X Nat,
           k = "file" => d[2] <= d[1] /\ d[1] < edits' + Service!FirstText,
           Service!Put(p, Service!Object(k, d))
    PROVE  /\ Sound' /\ Grows /\ FilesKept
           /\ DOMAIN disk' = DOMAIN disk \cup {p} /\ \A q \in DOMAIN disk \ {p} : disk'[q] = disk[q]
<1> DEFINE e == Service!Entered({p})
           n == Service!Object(k, d)
<1>1. obj' = Append(e, n)
    BY DEF Service!Put
<1>2. /\ DOMAIN disk' = DOMAIN disk \cup {p} /\ disk'[p] = Len(obj) + 1
      /\ \A q \in DOMAIN disk \ {p} : disk'[q] = disk[q]
    BY DEF Service!Put
<1>3. /\ e \in Seq(Service!Objects) /\ Len(e) = Len(obj) /\ Len(obj) \in Nat
      /\ \A i \in 1..Len(obj) : /\ e[i].kind = obj[i].kind
                                /\ obj[i].kind = "file" => e[i] = obj[i]
    BY EnteredKeeps, LenProperties DEF Sound
<1>4. n \in Service!Objects /\ n.kind = k /\ n.data = d
    BY DEF Service!Object, Service!Objects
<1> HIDE DEF e, n
<1>5. /\ obj' \in Seq(Service!Objects) /\ Len(obj') = Len(obj) + 1 /\ obj'[Len(obj) + 1] = n
      /\ \A i \in 1..Len(obj) : obj'[i] = e[i]
    BY <1>1, <1>3, <1>4, AppendProperties
<1>6. FilesKept
    BY <1>3, <1>5 DEF FilesKept
<1>7. \A i \in (Len(obj) + 1)..Len(obj') : obj'[i].kind = "file" => Content(obj'[i].data, edits')
    BY <1>3, <1>4, <1>5 DEF Content
<1>8. \A q \in DOMAIN disk : disk[q] \in 1..Len(obj)
    BY DEF Sound
<1>9. \A q \in DOMAIN disk' : disk'[q] \in 1..Len(obj')
    BY <1>2, <1>3, <1>5, <1>8
<1>10. \A x, y \in DOMAIN disk' : disk'[x] = disk'[y] => x = y
  <2>1. \A x, y \in DOMAIN disk : disk[x] = disk[y] => x = y
    BY DEF Sound
  <2> QED
    BY <1>2, <1>3, <1>8, <2>1
<1>11. DOMAIN disk' \subseteq Seq(Service!PathNames)
    BY <1>2 DEF Sound
<1>12. \A i \in 1..Len(obj) : obj'[i].kind = obj[i].kind
    BY <1>3, <1>5
<1>13. Len(obj) <= Len(obj')
    BY <1>3, <1>5
<1> QED
    BY <1>2, <1>5, <1>6, <1>7, <1>9, <1>10, <1>11, <1>12, <1>13, StaySound

LEMMA DropKeeps ==
    ASSUME Sound, edits' \in {edits, edits + 1}, NEW p, Service!Drop(p)
    PROVE  /\ Sound' /\ Grows /\ FilesKept
           /\ DOMAIN disk' = DOMAIN disk \ {p} /\ \A q \in DOMAIN disk \ {p} : disk'[q] = disk[q]
<1>1. DOMAIN disk' = DOMAIN disk \ {p} /\ \A q \in DOMAIN disk \ {p} : disk'[q] = disk[q]
    BY DEF Service!Drop
<1>2. /\ obj' \in Seq(Service!Objects) /\ Len(obj') = Len(obj) /\ Len(obj) \in Nat
      /\ \A i \in 1..Len(obj) : /\ obj'[i].kind = obj[i].kind
                                /\ obj[i].kind = "file" => obj'[i] = obj[i]
    BY EnteredKeeps, LenProperties DEF Sound, Service!Drop
<1>3. FilesKept
    BY <1>2 DEF FilesKept
<1>4. (Len(obj) + 1)..Len(obj') = {}
    BY <1>2
<1>5. /\ DOMAIN disk' \subseteq Seq(Service!PathNames) /\ \A q \in DOMAIN disk' : disk'[q] \in 1..Len(obj')
      /\ \A x, y \in DOMAIN disk' : disk'[x] = disk'[y] => x = y
    BY <1>1, <1>2 DEF Sound
<1> QED
    BY <1>1, <1>2, <1>3, <1>4, <1>5, StaySound

\* A path below p, put below r and back, is the path it was.
LEMMA UnderBack ==
    ASSUME NEW N, NEW p \in Seq(N), NEW q \in Seq(N), NEW r \in Seq(N), Service!IsPrefix(p, q)
    PROVE  /\ Service!Under(q, p, r) \in Seq(N)
           /\ Service!Under(Service!Under(q, p, r), r, p) = q
<1> DEFINE t == SubSeq(q, Len(p) + 1, Len(q))
           u == r \o t
           v == SubSeq(u, Len(r) + 1, Len(u))
<1>1. /\ Len(p) \in Nat /\ Len(q) \in Nat /\ Len(r) \in Nat /\ Len(p) <= Len(q)
      /\ SubSeq(p, 1, Len(p)) = SubSeq(q, 1, Len(p))
    BY LenProperties DEF Service!IsPrefix
<1>2. \A i \in (Len(p) + 1)..Len(q) : q[i] \in N
    BY <1>1, ElementOfSeq
<1>3. /\ t \in Seq(N) /\ Len(t) = Len(q) - Len(p)
      /\ \A i \in 1..(Len(q) - Len(p)) : t[i] = q[Len(p) + i]
  <2> DEFINE m == Len(p) + 1
             n == Len(q)
  <2>1. m \in Int /\ n \in Int /\ \A i \in m..n : q[i] \in N
    BY <1>1, <1>2
  <2> HIDE DEF m, n
  <2>2. /\ SubSeq(q, m, n) \in Seq(N) /\ Len(SubSeq(q, m, n)) = IF m <= n THEN n - m + 1 ELSE 0
        /\ \A i \in 1..(n - m + 1) : SubSeq(q, m, n)[i] = q[m + i - 1]
    BY <2>1, SubSeqProperties
  <2> USE DEF m, n
  <2>3. t \in Seq(N) /\ Len(t) = IF m <= n THEN n - m + 1 ELSE 0
    BY <2>2
  <2>4. n - m + 1 = Len(q) - Len(p) /\ \A i \in 1..(n - m + 1) : m + i - 1 = Len(p) + i
    BY <1>1
  <2>5. \A i \in 1..(n - m + 1) : t[i] = q[m + i - 1]
    BY <2>2
  <2> QED
    BY <1>1, <2>3, <2>4, <2>5
<1> HIDE DEF t
<1>4. /\ u \in Seq(N) /\ Len(u) = Len(r) + Len(t)
      /\ \A i \in 1..(Len(r) + Len(t)) : u[i] = IF i <= Len(r) THEN r[i] ELSE t[i - Len(r)]
    BY <1>3, ConcatProperties
<1> HIDE DEF u
<1>5. /\ v \in Seq(N) /\ Len(v) = Len(t) /\ \A i \in 1..Len(t) : v[i] = t[i]
  <2> DEFINE m == Len(r) + 1
             n == Len(u)
  <2>1. m \in Int /\ n \in Int /\ \A i \in m..n : u[i] \in N
    BY <1>1, <1>3, <1>4, ElementOfSeq
  <2> HIDE DEF m, n
  <2>2. /\ SubSeq(u, m, n) \in Seq(N) /\ Len(SubSeq(u, m, n)) = IF m <= n THEN n - m + 1 ELSE 0
        /\ \A i \in 1..(n - m + 1) : SubSeq(u, m, n)[i] = u[m + i - 1]
    BY <2>1, SubSeqProperties
  <2> USE DEF m, n
  <2>3. n - m + 1 = Len(t) /\ Len(t) \in Nat
    BY <1>1, <1>3, <1>4
  <2>4. \A i \in 1..Len(t) : m + i - 1 = Len(r) + i
    BY <1>1, <2>3
  <2>5. \A i \in 1..Len(t) : v[i] = u[Len(r) + i]
    BY <2>2, <2>3, <2>4
  <2>6. ASSUME NEW i \in 1..Len(t) PROVE u[Len(r) + i] = t[i]
    <3>1. /\ Len(r) + i \in 1..(Len(r) + Len(t)) /\ ~(Len(r) + i <= Len(r))
          /\ Len(r) + i - Len(r) = i
      BY <1>1, <2>3
    <3>2. \A j \in 1..(Len(r) + Len(t)) : ~(j <= Len(r)) => u[j] = t[j - Len(r)]
      BY <1>4
    <3> QED
      BY <3>1, <3>2
  <2> QED
    BY <2>2, <2>3, <2>5, <2>6
<1>6. v = t
    BY <1>3, <1>5, SeqEqual
<1> HIDE DEF v
<1>7. p \o t = q
  <2> DEFINE w == p \o t
  <2>1. /\ w \in Seq(N) /\ Len(w) = Len(p) + Len(t)
        /\ \A i \in 1..(Len(p) + Len(t)) : w[i] = IF i <= Len(p) THEN p[i] ELSE t[i - Len(p)]
    BY <1>3, ConcatProperties
  <2>2. \A i \in 1..Len(p) : p[i] = q[i]
    <3> DEFINE a1 == SubSeq(p, 1, Len(p))
               b1 == SubSeq(q, 1, Len(p))
               k == Len(p)
    <3>1. \A i \in 1..k : p[i] \in N /\ q[i] \in N
      BY <1>1, ElementOfSeq
    <3> HIDE DEF k
    <3>2. k \in Int /\ 1 \in Int
      BY <1>1 DEF k
    <3>3. \A i \in 1..(k - 1 + 1) : SubSeq(p, 1, k)[i] = p[1 + i - 1]
      BY <3>1, <3>2, SubSeqProperties
    <3>4. \A i \in 1..(k - 1 + 1) : SubSeq(q, 1, k)[i] = q[1 + i - 1]
      BY <3>1, <3>2, SubSeqProperties
    <3>5. SubSeq(p, 1, k) = SubSeq(q, 1, k)
      BY <1>1 DEF k
    <3>6. k - 1 + 1 = k /\ \A i \in 1..k : 1 + i - 1 = i
      BY <3>2
    <3>7. \A i \in 1..k : SubSeq(p, 1, k)[i] = p[i] /\ SubSeq(q, 1, k)[i] = q[i]
      BY <3>3, <3>4, <3>6
    <3> QED
      BY <3>5, <3>7 DEF k
  <2> HIDE DEF w
  <2>3. Len(w) = Len(q)
    BY <1>1, <1>3, <2>1
  <2>4. \A i \in 1..Len(w) : w[i] = q[i]
    BY <1>1, <1>3, <2>1, <2>2
  <2>5. w = q
    BY <2>1, <2>3, <2>4, SeqEqual
  <2> QED
    BY <2>5 DEF w
<1>8. Service!Under(q, p, r) = u /\ Service!Under(u, r, p) = p \o v
    BY DEF Service!Under, u, t, v
<1> QED
    BY <1>4, <1>6, <1>7, <1>8

\* A rename moves a tree, and no two paths come to one object.
LEMMA MoveKeeps ==
    ASSUME Sound, Service!Parameters, NEW c \in Calls, edits' = edits,
           obj' = Service!Entered({c.src, c.dst}),
           LET moved == {Service!Under(q, c.src, c.dst) : q \in Service!Subtree(c.src)}
           IN  disk' = [q \in (DOMAIN disk \ (Service!Subtree(c.src) \cup {c.dst})) \cup moved |->
                          IF q \in moved THEN disk[Service!Under(q, c.dst, c.src)] ELSE disk[q]]
    PROVE  Sound' /\ Grows
<1> DEFINE sub == Service!Subtree(c.src)
           moved == {Service!Under(q, c.src, c.dst) : q \in sub}
           from(x) == Service!Under(x, c.dst, c.src)
<1>1. /\ DOMAIN disk' = (DOMAIN disk \ (sub \cup {c.dst})) \cup moved
      /\ \A x \in DOMAIN disk' : disk'[x] = IF x \in moved THEN disk[from(x)] ELSE disk[x]
    OBVIOUS
<1>2. c.src \in Seq(Service!PathNames) /\ c.dst \in Seq(Service!PathNames)
    BY DEF Service!Parameters
<1>3. ASSUME NEW q \in sub
      PROVE  /\ q \in DOMAIN disk /\ Service!Under(q, c.src, c.dst) \in Seq(Service!PathNames)
             /\ from(Service!Under(q, c.src, c.dst)) = q
  <2>1. q \in DOMAIN disk /\ q \in Seq(Service!PathNames) /\ Service!IsPrefix(c.src, q)
    BY DEF Service!Subtree, Sound
  <2> QED
    BY <1>2, <2>1, UnderBack
<1> HIDE DEF sub, from
<1>4. \A x \in moved : /\ x \in Seq(Service!PathNames) /\ from(x) \in sub
                       /\ x = Service!Under(from(x), c.src, c.dst)
    BY <1>3
<1> HIDE DEF moved
<1>5. sub \subseteq DOMAIN disk
    BY <1>3
<1>6. \A x \in DOMAIN disk' : x \notin moved => x \in DOMAIN disk \ sub /\ disk'[x] = disk[x]
    BY <1>1
<1>7. \A x \in DOMAIN disk' : x \in moved => from(x) \in sub /\ disk'[x] = disk[from(x)]
    BY <1>1, <1>4
<1>8. /\ obj' \in Seq(Service!Objects) /\ Len(obj') = Len(obj) /\ Len(obj) \in Nat
      /\ \A i \in 1..Len(obj) : /\ obj'[i].kind = obj[i].kind
                                /\ obj[i].kind = "file" => obj'[i] = obj[i]
    BY EnteredKeeps, LenProperties DEF Sound
<1>9. FilesKept
    BY <1>8 DEF FilesKept
<1>10. (Len(obj) + 1)..Len(obj') = {}
    BY <1>8
<1>11. \A p \in DOMAIN disk : disk[p] \in 1..Len(obj')
    BY <1>8 DEF Sound
<1>12. \A p \in DOMAIN disk' : disk'[p] \in 1..Len(obj')
    BY <1>5, <1>6, <1>7, <1>11
<1>13. DOMAIN disk' \subseteq Seq(Service!PathNames)
    BY <1>4, <1>6 DEF Sound
<1>14. \A x, y \in DOMAIN disk' : disk'[x] = disk'[y] => x = y
  <2>1. \A p, q \in DOMAIN disk : disk[p] = disk[q] => p = q
    BY DEF Sound
  <2> TAKE x, y \in DOMAIN disk'
  <2> HAVE disk'[x] = disk'[y]
  <2>2. CASE x \in moved /\ y \in moved
    <3>1. from(x) \in DOMAIN disk /\ from(y) \in DOMAIN disk /\ disk[from(x)] = disk[from(y)]
      BY <1>5, <1>7, <2>2
    <3>2. from(x) = from(y)
      BY <2>1, <3>1
    <3> QED
      BY <1>4, <2>2, <3>2
  <2>3. CASE x \in moved /\ y \notin moved
    <3>1. from(x) \in sub /\ y \in DOMAIN disk \ sub /\ disk[from(x)] = disk[y]
      BY <1>6, <1>7, <2>3
    <3> QED
      BY <1>5, <2>1, <3>1
  <2>4. CASE x \notin moved /\ y \in moved
    <3>1. from(y) \in sub /\ x \in DOMAIN disk \ sub /\ disk[from(y)] = disk[x]
      BY <1>6, <1>7, <2>4
    <3> QED
      BY <1>5, <2>1, <3>1
  <2>5. CASE x \notin moved /\ y \notin moved
    BY <1>6, <2>1, <2>5
  <2> QED
    BY <2>2, <2>3, <2>4, <2>5
<1>15. edits' \in {edits, edits + 1}
    OBVIOUS
<1>16. \A i \in 1..Len(obj) : obj'[i].kind = obj[i].kind
    BY <1>8
<1>17. Len(obj) <= Len(obj')
    BY <1>8
<1>18. obj' \in Seq(Service!Objects)
    BY <1>8
<1> QED
    BY <1>9, <1>10, <1>12, <1>13, <1>14, <1>15, <1>16, <1>17, <1>18, StaySound

-----------------------------------------------------------------------------
(* What a call knows of what it has read, planned and looked at.            *)

\* A read in progress, and what a copy has read; o are the objects, n the
\* changes by the editor.
ReadSoFar(j, c, o, n) ==
    /\ j.at \in {"verify", "chunk"} =>
         /\ j.open \in 1..Len(o) /\ o[j.open].kind = "file"
         /\ j.stamp[1] = j.open /\ j.stamp[2] \in Nat \X Nat
         /\ j.got \in Seq(Nat) /\ Len(j.got) <= 2 /\ (j.at = "chunk" => Len(j.got) < 2)
         /\ \A k \in {1, 2} : j.stamp[2][k] <= o[j.open].data[k]
         /\ \A k \in 1..Len(j.got) : \/ j.got[k] = j.stamp[2][k]
                                     \/ j.stamp[2][k] < o[j.open].data[k]
    /\ c.op = "copy" /\ j.at \in {"stage", "staged", "ready"} => Content(j.got, n)

\* A plan: its paths are paths, what is done of it is at most all of it, and
\* that of a removal names the files by the objects they were.
Working == {"look", "remove"} \cup Making \cup Reading \cup Writing
PlannedSoFar(j, c, o) ==
    /\ c.op \in {"copy", "mkdir"} => \A i \in 1..Len(j.plan) : j.plan[i].path \in Seq(Service!PathNames)
    /\ j.at = "probe" => j.todo[1] \in Seq(Service!PathNames)
    /\ j.at \in {"idle", "walk", "probe"} => j.done = 0
    /\ j.at = "apply" => j.done <= Len(j.plan)
    /\ c.op \in {"copy", "mkdir", "remove"} /\ j.at \in Working => j.done < Len(j.plan)
    /\ c.op = "remove" /\ c.tree /\ j.at \in {"walk", "look", "remove"} =>
         \A i \in 1..Len(j.plan) : ~j.plan[i].dir =>
            j.plan[i].stamp[1] \in 1..Len(o) /\ o[j.plan[i].stamp[1]].kind = "file"

Knows(j, c, o, n) == ReadSoFar(j, c, o, n) /\ PlannedSoFar(j, c, o)

\* What the last look saw is still so, unless another program changed the path.
SeenLast(c) ==
    /\ job[c].at = "ready" /\ Service!Cond(c).kind = "hash" /\ Service!Target(c) \notin touched
         => Service!Meets(Service!Cond(c), Service!Target(c))
    /\ job[c].at = "remove" /\ c.tree /\ Service!Victim(c).path \notin touched
         => Service!StillPlanned(c)

TreeSafe ==
    /\ Locked /\ Sound
    /\ \A c \in DOMAIN job : Knows(job[c], c, obj, edits) /\ SeenLast(c)

LEMMA Moved ==
    ASSUME ServiceEffects, NEW c \in DOMAIN job, NEW l, Service!Goto(c, l)
    PROVE  /\ job'[c].at = l /\ job'[c].plan = job[c].plan /\ job'[c].done = job[c].done
           /\ job'[c].todo = job[c].todo /\ job'[c].open = job[c].open
           /\ job'[c].stamp = job[c].stamp /\ job'[c].got = job[c].got
    BY DEF ServiceEffects, Effect, Fields, Service!Goto

LEMMA Ended ==
    ASSUME ServiceEffects, NEW c \in DOMAIN job, NEW v, Service!Answer(c, v)
    PROVE  job'[c].at = "answered" /\ job'[c].plan = job[c].plan /\ job'[c].done = job[c].done
<1>1. job' = [job EXCEPT ![c].at = "answered", ![c].answer = v]
    BY DEF Service!Answer
<1> QED
    BY <1>1 DEF ServiceEffects, Effect, Fields

LEMMA UnderPath ==
    ASSUME NEW N, NEW p \in Seq(N), NEW q \in Seq(N), NEW r \in Seq(N)
    PROVE  Service!Under(q, p, r) \in Seq(N)
<1> DEFINE m == Len(p) + 1
           n == Len(q)
<1>1. m \in Int /\ n \in Int /\ m >= 1
    BY LenProperties
<1>2. \A i \in m..n : q[i] \in N
    BY <1>1, ElementOfSeq
<1> HIDE DEF m, n
<1>3. SubSeq(q, m, n) \in Seq(N)
    BY <1>1, <1>2, SubSeqProperties
<1>4. r \o SubSeq(q, m, n) \in Seq(N)
    BY <1>3, ConcatProperties
<1> QED
    BY <1>4 DEF Service!Under, m, n

LEMMA FrontPath ==
    ASSUME NEW N, NEW p \in Seq(N), p # << >>
    PROVE  Service!Front(p) \in Seq(N)
<1> DEFINE n == Len(p) - 1
<1>1. n \in Int /\ \A i \in 1..n : p[i] \in N
    BY LenProperties, ElementOfSeq
<1> HIDE DEF n
<1>2. SubSeq(p, 1, n) \in Seq(N)
    BY <1>1, SubSeqProperties
<1> QED
    BY <1>2 DEF Service!Front, n

\* The last check of a read: the chunks are the file.
LEMMA ReadWhole ==
    ASSUME Service!Parameters, Sound, NEW c \in DOMAIN job, ReadSoFar(job[c], c, obj, edits),
           job[c].at = "verify", ~(Len(job[c].got) < 2), Service!Unchanged(c)
    PROVE  /\ Service!IsFile(Service!Source(c)) /\ Content(job[c].got, edits)
           /\ job[c].got = obj[disk[Service!Source(c)]].data
<1> DEFINE j == job[c]
           s == Service!Source(c)
           d == j.stamp[2]
           n == Len(j.got)
<1>1. /\ j.open \in 1..Len(obj) /\ obj[j.open].kind = "file" /\ j.stamp[1] = j.open
      /\ d \in Nat \X Nat /\ j.got \in Seq(Nat) /\ n <= 2
      /\ \A i \in 1..n : j.got[i] = d[i] \/ d[i] < obj[j.open].data[i]
    BY DEF ReadSoFar
<1>2. n = 2
  <2>1. n \in Nat /\ n <= 2 /\ ~(n < 2)
    BY <1>1, LenProperties
  <2> HIDE DEF n
  <2> QED
    BY <2>1
<1>3. Service!Stamp(s) = j.stamp /\ j.open # Free
    BY <1>1 DEF Service!Unchanged, Service!Parameters
<1>4. s \in DOMAIN disk /\ disk[s] = j.open /\ obj[j.open].data = d
    BY <1>1, <1>3 DEF Service!Stamp, Service!Exists
<1>5. d[1] \in Nat /\ d[2] \in Nat /\ d = <<d[1], d[2]>>
    BY <1>1
<1>6. j.got[1] = d[1] /\ j.got[2] = d[2]
    BY <1>1, <1>2, <1>4, <1>5
<1>7. j.got = <<d[1], d[2]>>
    BY <1>1, <1>2, <1>6
<1>8. Content(d, edits)
    BY <1>1, <1>4 DEF Sound
<1>9. j.got = d
    BY <1>5, <1>7
<1> HIDE DEF d, s, n
<1>10. Service!IsFile(s) /\ Content(j.got, edits) /\ j.got = obj[disk[s]].data
    BY <1>1, <1>4, <1>8, <1>9 DEF Service!IsFile, Service!Exists
<1> QED
    BY <1>10 DEF s

\* What a call reads is one object from the opening on, and what a chunk brings is
\* what was there when the file was opened, or newer.
LEMMA ReadStep ==
    ASSUME Service!Parameters, ServiceEffects, Sound, NEW c \in DOMAIN job, Locked, Service!Service(c),
           ReadSoFar(job[c], c, obj, edits)
    PROVE  ReadSoFar(job'[c], c, obj, edits)
<1> DEFINE j == job[c]
           k == job'[c]
           told == {"verify", "chunk", "stage", "staged", "ready"}
<1>0. Effect(j, c) /\ c \in Calls
    BY DEF ServiceEffects
<1>1. CASE k.at \notin told
    BY <1>1 DEF ReadSoFar
<1>2. CASE Service!Open(c) /\ ~Service!Fails(c)
  <2> DEFINE s == Service!Source(c)
  <2>1. /\ Service!IsFile(s)
        /\ job' = [job EXCEPT ![c].at = "verify", ![c].open = disk[s],
                              ![c].stamp = Service!Stamp(s), ![c].got = << >>]
    BY <1>2 DEF Service!Open
  <2>2. disk[s] \in 1..Len(obj) /\ obj[disk[s]].kind = "file" /\ Service!Stamp(s) = <<disk[s], obj[disk[s]].data>>
    BY <2>1 DEF Service!IsFile, Service!Exists, Service!Stamp, Sound
  <2> HIDE DEF s
  <2>3. k.at = "verify" /\ k.open = disk[s] /\ k.stamp = Service!Stamp(s) /\ k.got = << >>
    BY <1>0, <2>1 DEF Effect, Fields
  <2>4. << >> \in Seq(Nat) /\ Len(<< >>) = 0
    BY EmptySeq
  <2>5. /\ obj[disk[s]].data \in Nat \X Nat
        /\ obj[disk[s]].data[1] \in Nat /\ obj[disk[s]].data[2] \in Nat
    BY <2>2, ObjectAt
  <2> QED
    BY <2>2, <2>3, <2>4, <2>5 DEF ReadSoFar
<1>3. CASE Service!Verify(c) /\ k.at \in told
  <2>1. j.at = "verify" /\ k.at \in {"chunk", "stage"}
    BY <1>3, Ended, Moved DEF Service!Verify, Service!Fails
  <2>2. CASE k.at = "chunk"
    <3>1. Service!Goto(c, "chunk") /\ Len(j.got) < 2
      BY <1>3, <2>2, Ended, Moved DEF Service!Verify, Service!Fails
    <3> QED
      BY <2>1, <3>1, Moved DEF ReadSoFar
  <2>3. CASE k.at = "stage"
    <3>1. Service!Goto(c, "stage") /\ ~(Len(j.got) < 2) /\ Service!Unchanged(c)
      BY <1>3, <2>3, Ended, Moved DEF Service!Verify, Service!Fails
    <3>2. Content(j.got, edits)
      BY <2>1, <3>1, ReadWhole
    <3> QED
      BY <2>3, <3>1, <3>2, Moved DEF ReadSoFar
  <2> QED
    BY <2>1, <2>2, <2>3
<1>4. CASE Service!Chunk(c)
  <2> DEFINE v == obj[j.open].data[Len(j.got) + 1]
  <2>1. j.at = "chunk" /\ job' = [job EXCEPT ![c].at = "verify", ![c].got = Append(@, v)]
    BY <1>4 DEF Service!Chunk
  <2>2. /\ j.open \in 1..Len(obj) /\ obj[j.open].kind = "file" /\ j.stamp[1] = j.open
        /\ j.stamp[2] \in Nat \X Nat /\ j.got \in Seq(Nat) /\ Len(j.got) < 2
        /\ \A i \in {1, 2} : j.stamp[2][i] <= obj[j.open].data[i]
        /\ \A i \in 1..Len(j.got) : j.got[i] = j.stamp[2][i] \/ j.stamp[2][i] < obj[j.open].data[i]
    BY <2>1 DEF ReadSoFar
  <2>3. Len(j.got) + 1 \in {1, 2} /\ Len(j.got) \in Nat
    BY <2>2, LenProperties
  <2>4. /\ obj[j.open].data[1] \in Nat /\ obj[j.open].data[2] \in Nat
        /\ j.stamp[2][1] \in Nat /\ j.stamp[2][2] \in Nat
    BY <2>2, ObjectAt
  <2>5. v \in Nat
    BY <2>3, <2>4
  <2> HIDE DEF v
  <2>6. /\ k.at = "verify" /\ k.got = Append(j.got, v)
        /\ k.open = j.open /\ k.stamp = j.stamp
    BY <1>0, <2>1 DEF Effect, Fields
  <2>7. /\ k.got \in Seq(Nat) /\ Len(k.got) = Len(j.got) + 1
        /\ k.got[Len(j.got) + 1] = v /\ \A i \in 1..Len(j.got) : k.got[i] = j.got[i]
    BY <2>2, <2>5, <2>6, AppendProperties
  <2>8. v = j.stamp[2][Len(j.got) + 1] \/ j.stamp[2][Len(j.got) + 1] < obj[j.open].data[Len(j.got) + 1]
    <3> DEFINE s == j.stamp[2]
               now == obj[j.open].data
               n == Len(j.got) + 1
    <3>1. s[1] <= now[1] /\ s[2] <= now[2]
      BY <2>2
    <3>2. v = now[n] /\ n \in {1, 2}
      BY <2>3 DEF v
    <3>3. now[1] \in Nat /\ now[2] \in Nat /\ s[1] \in Nat /\ s[2] \in Nat
      BY <2>4
    <3> HIDE DEF s, now, n
    <3>4. v = s[n] \/ s[n] < now[n]
      BY <3>1, <3>2, <3>3
    <3> QED
      BY <3>4 DEF s, now, n
  <2>9. ASSUME NEW i \in 1..Len(k.got)
        PROVE  k.got[i] = j.stamp[2][i] \/ j.stamp[2][i] < obj[j.open].data[i]
    <3>1. CASE i \in 1..Len(j.got)
      <4>1. k.got[i] = j.got[i]
        BY <2>7, <3>1
      <4> QED
        BY <2>2, <3>1, <4>1
    <3>2. CASE i = Len(j.got) + 1
      BY <2>7, <2>8, <3>2
    <3> QED
      BY <2>3, <2>7, <2>9, <3>1, <3>2
  <2>10. /\ k.open \in 1..Len(obj) /\ obj[k.open].kind = "file" /\ k.stamp[1] = k.open
         /\ k.stamp[2] \in Nat \X Nat /\ k.got \in Seq(Nat) /\ Len(k.got) <= 2
    BY <2>2, <2>3, <2>6, <2>7
  <2>11. /\ \A i \in {1, 2} : k.stamp[2][i] <= obj[k.open].data[i]
         /\ \A i \in 1..Len(k.got) : k.got[i] = k.stamp[2][i] \/ k.stamp[2][i] < obj[k.open].data[i]
    BY <2>2, <2>6, <2>9
  <2> QED
    BY <2>6, <2>10, <2>11 DEF ReadSoFar
<1>5. CASE Service!Enter(c) /\ k.at \in told
  <2>1. k.at = Service!FirstStep(c)
    <3>1. ~Service!Fails(c) /\ ~Service!Answer(c, "ok")
      BY <1>5, Ended DEF Service!Fails
    <3> DEFINE l == Service!FirstStep(c)
               t == <<IF c.op \in {"remove", "mkdir"} THEN c.dst ELSE c.src>>
               p == IF c.tree THEN << >> ELSE <<[path |-> c.dst]>>
    <3>2. job' = [job EXCEPT ![c].at = l, ![c].stamp = Service!Stamp(c.src), ![c].todo = t, ![c].plan = p]
      BY <1>5, <3>1 DEF Service!Enter
    <3> HIDE DEF l, t, p
    <3>3. k.at = l
      BY <1>0, <3>2 DEF Effect, Fields
    <3> QED
      BY <3>3 DEF l
  <2> QED
    BY <1>5, <2>1 DEF Service!FirstStep, ReadSoFar
<1>6. CASE Service!Stage(c) /\ k.at \in told
  <2>1. Service!Goto(c, "staged") /\ j.at = "stage"
    BY <1>6, Ended DEF Service!Stage, Service!Fails
  <2> QED
    BY <2>1, Moved DEF ReadSoFar
<1>7. CASE Service!LookAgain(c) /\ k.at \in told
  <2>1. Service!Goto(c, "ready") /\ j.at = "staged"
    BY <1>7, Ended DEF Service!LookAgain, Service!Fails
  <2> QED
    BY <2>1, Moved DEF ReadSoFar
<1>8. k.at \in told => Reaching(c)
    BY CallStep
<1> QED
    BY <1>1, <1>2, <1>3, <1>4, <1>5, <1>6, <1>7, <1>8, Ended DEF Reaching, Service!Open, Service!Fails

\* A plan holds what is there when it is made, and no more of it is done than there is.
LEMMA PlannedStep ==
    ASSUME Service!Parameters, ServiceEffects, Sound, NEW c \in DOMAIN job, Service!Service(c),
           PlannedSoFar(job[c], c, obj)
    PROVE  PlannedSoFar(job'[c], c, obj)
<1> DEFINE j == job[c]
           k == job'[c]
<1>0. /\ Effect(j, c) /\ c \in Calls /\ c.src \in Seq(Service!PathNames) /\ c.dst \in Seq(Service!PathNames)
      /\ c.op \in {"write", "read", "list", "mkdir", "remove", "copy", "move"}
    BY DEF ServiceEffects, Service!Parameters
<1>1. ASSUME k.at = "answered", k.plan = j.plan PROVE PlannedSoFar(k, c, obj)
    BY <1>1 DEF PlannedSoFar, Working, Making, Reading, Writing
<1>2. ASSUME Service!Fails(c) PROVE PlannedSoFar(k, c, obj)
    BY <1>1, <1>2, Ended DEF Service!Fails
<1>3. ASSUME k.plan = j.plan, k.done = j.done, j.at \in Working, k.at \in Working \ {"look", "remove"}
      PROVE  PlannedSoFar(k, c, obj)
    BY <1>3 DEF PlannedSoFar, Working, Making, Reading, Writing
<1>4. ASSUME k.plan = j.plan, k.at \in {"page", "enumerate", "compare", "recheck", "rename", "moved"}
      PROVE  PlannedSoFar(k, c, obj)
    BY <1>4 DEF PlannedSoFar, Working, Making, Reading, Writing
<1>5. j.done \in Nat /\ Len(j.plan) \in Nat
    BY <1>0, LenProperties DEF Effect
<1>6. CASE Service!Enter(c)
  <2>1. CASE Service!Fails(c) \/ Service!Answer(c, "ok")
    BY <1>1, <1>2, <2>1, Ended
  <2>2. CASE ~(Service!Fails(c) \/ Service!Answer(c, "ok"))
    <3> DEFINE l == Service!FirstStep(c)
               r == IF c.op \in {"remove", "mkdir"} THEN c.dst ELSE c.src
               p == IF c.tree THEN << >> ELSE <<[path |-> c.dst]>>
    <3>1. /\ j.at = "idle"
          /\ job' = [job EXCEPT ![c].at = l, ![c].stamp = Service!Stamp(c.src), ![c].todo = <<r>>,
                                ![c].plan = p]
      BY <1>6, <2>2 DEF Service!Enter
    <3>2. r \in Seq(Service!PathNames) /\ <<r>>[1] = r
      BY <1>0
    <3>3. \A i \in 1..Len(p) : p[i].path \in Seq(Service!PathNames)
      BY <1>0
    <3>4. ~c.tree => Len(p) = 1
      OBVIOUS
    <3>5. c.tree => Len(p) = 0
      OBVIOUS
    <3>6. j.done = 0
      BY <3>1 DEF PlannedSoFar
    <3>7. /\ l \notin {"apply", "look"}
          /\ l = "walk" /\ c.op = "remove" => c.tree
          /\ l \in Working /\ c.op \in {"copy", "mkdir", "remove"} => ~c.tree
      BY <1>0 DEF Service!FirstStep, Working, Making, Reading, Writing
    <3> HIDE DEF l, r, p
    <3>8. k.at = l /\ k.plan = p /\ k.done = 0 /\ k.todo = <<r>>
      BY <1>0, <3>1, <3>6 DEF Effect, Fields
    <3>9. c.op \in {"copy", "mkdir"} => \A i \in 1..Len(k.plan) : k.plan[i].path \in Seq(Service!PathNames)
      BY <3>3, <3>8
    <3>10. c.op \in {"copy", "mkdir", "remove"} /\ k.at \in Working => k.done < Len(k.plan)
      <4> SUFFICES ASSUME c.op \in {"copy", "mkdir", "remove"}, l \in Working PROVE 0 < Len(p)
        BY <3>8
      <4>1. ~c.tree
        BY <3>7
      <4>2. Len(p) = 1
        BY <3>4, <4>1
      <4> QED
        BY <4>2
    <3>11. c.op = "remove" /\ c.tree /\ k.at \in {"walk", "look", "remove"} => Len(k.plan) = 0
      BY <3>5, <3>8
    <3> QED
      BY <3>2, <3>7, <3>8, <3>9, <3>10, <3>11 DEF PlannedSoFar
  <2> QED
    BY <2>1, <2>2
<1>7. CASE Service!Abort(c)
  <2>1. job' = [job EXCEPT ![c].at = "answered", ![c].answer = Service!Fault(c), ![c].bare = (j.at = "made")]
    BY <1>7 DEF Service!Abort
  <2>2. k.at = "answered" /\ k.plan = j.plan
    BY <1>0, <2>1 DEF Effect, Fields
  <2> QED
    BY <1>1, <2>2
<1>8. CASE Service!Visit(c) /\ ~Service!Fails(c)
  <2> DEFINE p == Head(j.todo)
             e == [path |-> p, stamp |-> Service!Stamp(p), dir |-> Service!IsDir(p)]
             t == Service!SetToSeq(Service!Children(p)) \o Tail(j.todo)
             l == IF t # << >> THEN "walk"
                  ELSE CASE c.op = "move" -> "recheck"
                         [] c.op = "copy" -> "apply"
                         [] c.op = "remove" -> "look"
  <2>1. /\ j.at = "walk" /\ Service!Exists(p)
        /\ job' = [job EXCEPT ![c].plan = Append(@, e), ![c].todo = t, ![c].at = l]
    BY <1>8 DEF Service!Visit
  <2>2. c.op \in {"move", "copy", "remove"}
    BY <1>0, <2>1 DEF Effect, Places, Writing, Making, Reading
  <2>3. l \in {"walk", "recheck", "apply", "look"} /\ (l = "apply" => c.op = "copy") /\ (l = "look" => c.op = "remove")
    BY <2>2
  <2>4. /\ p \in Seq(Service!PathNames)
        /\ ~e.dir => e.stamp[1] \in 1..Len(obj) /\ obj[e.stamp[1]].kind = "file"
    <3>1. p \in DOMAIN disk /\ disk[p] \in 1..Len(obj) /\ p \in Seq(Service!PathNames)
      BY <2>1 DEF Service!Exists, Sound
    <3>2. obj[disk[p]].kind \in {"file", "dir"}
      BY <3>1, ObjectAt
    <3>3. Service!IsDir(p) <=> obj[disk[p]].kind = "dir"
      BY <3>1 DEF Service!IsDir, Service!Exists
    <3>4. Service!Stamp(p)[1] = disk[p]
      BY <3>1 DEF Service!Stamp, Service!Exists
    <3> QED
      BY <3>1, <3>2, <3>3, <3>4
  <2>5. e.path = p
    OBVIOUS
  <2> HIDE DEF e, t, l, p
  <2>6. k.plan = Append(j.plan, e) /\ k.at = l /\ k.done = j.done
    BY <1>0, <2>1 DEF Effect, Fields
  <2>7. /\ Len(k.plan) = Len(j.plan) + 1 /\ k.plan[Len(j.plan) + 1] = e
        /\ \A i \in 1..Len(j.plan) : k.plan[i] = j.plan[i]
    <3>1. PICK S : j.plan \in Seq(S)
      BY <1>0 DEF Effect
    <3>2. j.plan \in Seq(S \cup {e}) /\ e \in S \cup {e}
      BY <3>1
    <3> QED
      BY <2>6, <3>2, AppendProperties
  <2>8. j.done = 0
    BY <2>1 DEF PlannedSoFar
  <2>9. \A i \in 1..Len(k.plan) : i \in 1..Len(j.plan) \/ i = Len(j.plan) + 1
    BY <1>5, <2>7
  <2>10. c.op = "copy" => \A i \in 1..Len(k.plan) : k.plan[i].path \in Seq(Service!PathNames)
    BY <2>4, <2>5, <2>7, <2>9 DEF PlannedSoFar
  <2>11. c.op = "remove" /\ c.tree => \A i \in 1..Len(k.plan) : ~k.plan[i].dir =>
            k.plan[i].stamp[1] \in 1..Len(obj) /\ obj[k.plan[i].stamp[1]].kind = "file"
    <3> SUFFICES ASSUME c.op = "remove", c.tree, NEW i \in 1..Len(k.plan), ~k.plan[i].dir
                 PROVE  k.plan[i].stamp[1] \in 1..Len(obj) /\ obj[k.plan[i].stamp[1]].kind = "file"
      OBVIOUS
    <3>1. CASE i \in 1..Len(j.plan)
      BY <2>1, <2>7, <3>1 DEF PlannedSoFar
    <3>2. CASE i = Len(j.plan) + 1
      BY <2>4, <2>7, <3>2
    <3> QED
      BY <2>9, <3>1, <3>2
  <2> QED
    BY <1>5, <2>2, <2>3, <2>6, <2>7, <2>8, <2>10, <2>11 DEF PlannedSoFar, Working, Making, Reading, Writing
<1>9. CASE Service!Probe(c) /\ ~Service!Fails(c)
  <2> DEFINE p == j.todo[1]
             e == [path |-> p]
             q == <<e>> \o j.plan
  <2>1. j.at = "probe" /\ c.op = "mkdir" /\ p \in Seq(Service!PathNames) /\ j.done = 0
    <3>1. j.at = "probe"
      BY <1>9 DEF Service!Probe
    <3> QED
      BY <1>0, <3>1 DEF Effect, Places, Writing, Making, Reading, PlannedSoFar
  <2>2. CASE ~Service!Exists(p) /\ p # << >>
    <3>1. job' = [job EXCEPT ![c].plan = q, ![c].todo = <<Service!Front(p)>>]
      BY <1>9, <2>2 DEF Service!Probe
    <3>2. Service!Front(p) \in Seq(Service!PathNames)
      BY <2>1, <2>2, FrontPath
    <3>3. e.path = p
      OBVIOUS
    <3>4. \A i \in 1..Len(q) : q[i] = e \/ \E n \in 1..Len(j.plan) : q[i] = j.plan[n]
      <4>1. PICK S : j.plan \in Seq(S)
        BY <1>0 DEF Effect
      <4>2. j.plan \in Seq(S \cup {e}) /\ <<e>> \in Seq(S \cup {e}) /\ Len(<<e>>) = 1 /\ <<e>>[1] = e
        BY <4>1
      <4> DEFINE u == <<e>>
      <4> HIDE DEF u, e
      <4>3. /\ Len(u \o j.plan) = Len(u) + Len(j.plan)
            /\ \A i \in 1..(Len(u) + Len(j.plan)) :
                  (u \o j.plan)[i] = IF i <= Len(u) THEN u[i] ELSE j.plan[i - Len(u)]
        BY <4>2, ConcatProperties DEF u
      <4>4. Len(u) = 1 /\ u[1] = e /\ q = u \o j.plan
        BY <4>2 DEF u
      <4> QED
        BY <1>5, <4>3, <4>4
    <3> HIDE DEF q
    <3>5. k.plan = q /\ k.at = "probe" /\ k.done = 0 /\ k.todo[1] = Service!Front(p)
      BY <1>0, <2>1, <3>1 DEF Effect, Fields
    <3>6. \A i \in 1..Len(j.plan) : j.plan[i].path \in Seq(Service!PathNames)
      BY <2>1 DEF PlannedSoFar
    <3>7. \A i \in 1..Len(q) : q[i].path \in Seq(Service!PathNames)
      BY <2>1, <3>3, <3>4, <3>6
    <3> QED
      BY <2>1, <3>2, <3>5, <3>7 DEF PlannedSoFar, Working, Making, Reading, Writing
  <2>3. CASE Service!Answer(c, "ok")
    BY <1>1, <2>3, Ended
  <2>4. CASE Service!Goto(c, "mkdir") /\ j.plan # << >>
    <3>1. Len(j.plan) > 0
      <4>1. PICK S : j.plan \in Seq(S)
        BY <1>0 DEF Effect
      <4> QED
        BY <1>5, <2>4, <4>1, EmptySeq
    <3> QED
      BY <2>1, <2>4, <3>1, Moved DEF PlannedSoFar, Working, Making, Reading, Writing
  <2> QED
    BY <1>9, <2>2, <2>3, <2>4 DEF Service!Probe

<1>10. CASE Service!Open(c) \/ Service!Verify(c) \/ Service!Stage(c) \/ Service!LookAgain(c)
  <2>1. CASE \E l \in {"verify", "chunk", "stage", "staged", "ready"} : Service!Goto(c, l)
    <3>1. j.at \in Working
      BY <1>10 DEF Service!Open, Service!Verify, Service!Stage, Service!LookAgain, Working, Reading, Writing
    <3> QED
      BY <1>3, <2>1, <3>1, Moved DEF Working, Reading, Writing
  <2>2. CASE Service!Fails(c) \/ Service!Answer(c, "ok")
    BY <1>1, <1>2, <2>2, Ended
  <2>3. CASE Service!Open(c) /\ ~Service!Fails(c)
    <3> DEFINE s == Service!Source(c)
    <3>1. /\ j.at = "open"
          /\ job' = [job EXCEPT ![c].at = "verify", ![c].open = disk[s],
                                ![c].stamp = Service!Stamp(s), ![c].got = << >>]
      BY <2>3 DEF Service!Open
    <3> HIDE DEF s
    <3>2. k.at = "verify" /\ k.plan = j.plan /\ k.done = j.done
      BY <1>0, <3>1 DEF Effect, Fields
    <3> QED
      BY <1>3, <3>1, <3>2 DEF Working, Reading, Writing
  <2> QED
    BY <1>10, <2>1, <2>2, <2>3 DEF Service!Verify, Service!Stage, Service!LookAgain, Service!Fails
<1>11. CASE Service!Chunk(c)
  <2> DEFINE v == obj[j.open].data[Len(j.got) + 1]
  <2>1. j.at = "chunk" /\ job' = [job EXCEPT ![c].at = "verify", ![c].got = Append(@, v)]
    BY <1>11 DEF Service!Chunk
  <2> HIDE DEF v
  <2>2. k.at = "verify" /\ k.plan = j.plan /\ k.done = j.done
    BY <1>0, <2>1 DEF Effect, Fields
  <2> QED
    BY <1>3, <2>1, <2>2 DEF Working, Reading, Writing
<1>12. CASE (Service!CommitWrite(c) \/ Service!MakeDir(c)) /\ ~Service!Fails(c)
  <2>1. \E l \in {"committed", "made"} : job' = [job EXCEPT ![c].at = l, ![c].effects = @ + 1]
    BY <1>12 DEF Service!CommitWrite, Service!MakeDir
  <2>2. j.at \in Working
    BY <1>12 DEF Service!CommitWrite, Service!MakeDir, Working, Making, Writing
  <2>3. k.at \in {"committed", "made"} /\ k.plan = j.plan /\ k.done = j.done
    BY <1>0, <2>1 DEF Effect, Fields
  <2> QED
    BY <1>3, <2>2, <2>3 DEF Working, Making, Writing
<1>13. CASE Service!AfterWrite(c) \/ Service!LookAtDir(c)
  <2>1. CASE \E v \in {"partial", "ok"} : Service!Answer(c, v)
    BY <1>1, <2>1, Ended
  <2>2. CASE \E l \in {"apply", "mkdir"} : /\ job' = [job EXCEPT ![c].at = l, ![c].done = @ + 1]
                                           /\ l = "apply" => c.op = "copy"
                                           /\ l = "mkdir" => c.op # "copy" /\ (c.op = "mkdir" => j.done + 1 # Len(j.plan))
    <3>1. j.at \in {"committed", "made"}
      BY <1>13 DEF Service!AfterWrite, Service!LookAtDir
    <3>2. j.at \in Working /\ c.op # "remove"
      BY <1>0, <3>1 DEF Effect, Places, Working, Making, Reading, Writing
    <3>3. c.op \in {"copy", "mkdir"} => j.done < Len(j.plan)
      BY <3>2 DEF PlannedSoFar
    <3>4. /\ k.plan = j.plan /\ k.done = j.done + 1 /\ k.at \in {"apply", "mkdir"}
          /\ k.at = "apply" => c.op = "copy"
          /\ k.at = "mkdir" => c.op # "copy" /\ (c.op = "mkdir" => j.done + 1 # Len(j.plan))
      <4>1. PICK l \in {"apply", "mkdir"} :
               /\ job' = [job EXCEPT ![c].at = l, ![c].done = @ + 1]
               /\ l = "apply" => c.op = "copy"
               /\ l = "mkdir" => c.op # "copy" /\ (c.op = "mkdir" => j.done + 1 # Len(j.plan))
        BY <2>2
      <4>2. k.plan = j.plan /\ k.done = j.done + 1 /\ k.at = l
        BY <1>0, <4>1 DEF Effect, Fields
      <4> QED
        BY <4>1, <4>2
    <3>5. c.op \in {"copy", "mkdir"} => \A i \in 1..Len(k.plan) : k.plan[i].path \in Seq(Service!PathNames)
      BY <3>4 DEF PlannedSoFar
    <3> QED
      BY <1>5, <3>2, <3>3, <3>4, <3>5 DEF PlannedSoFar, Working, Making, Reading, Writing
  <2> QED
    BY <1>13, <2>1, <2>2 DEF Service!AfterWrite, Service!LookAtDir
<1>14. CASE Service!Apply(c) /\ ~Service!Fails(c)
  <2>1. CASE \E v : Service!Answer(c, v)
    BY <1>1, <2>1, Ended
  <2>2. CASE \E l \in {"mkdir", "open"} : Service!Goto(c, l) /\ j.done # Len(j.plan)
    <3>1. j.at = "apply"
      BY <1>14 DEF Service!Apply
    <3>2. c.op = "copy" /\ j.done < Len(j.plan)
      BY <1>0, <1>5, <2>2, <3>1 DEF Effect, Places, Making, Reading, Writing, PlannedSoFar
    <3> QED
      BY <2>2, <3>1, <3>2, Moved DEF PlannedSoFar, Working, Making, Reading, Writing
  <2> QED
    BY <1>14, <2>1, <2>2 DEF Service!Apply
<1>15. CASE Service!LookAtVictim(c) /\ ~Service!Fails(c)
  <2>1. Service!Goto(c, "remove") /\ j.at = "look"
    BY <1>15 DEF Service!LookAtVictim
  <2> QED
    BY <2>1, Moved DEF PlannedSoFar, Working, Making, Reading, Writing
<1>16. CASE Service!RemoveOne(c) /\ ~Service!Fails(c)
  <2> DEFINE more == j.done + 1 < Len(j.plan)
             l == IF more THEN "look" ELSE "answered"
  <2>1. /\ j.at = "remove"
        /\ job' = [job EXCEPT ![c].effects = @ + 1, ![c].done = @ + 1, ![c].at = l, ![c].answer = "ok"]
    BY <1>16 DEF Service!RemoveOne
  <2>2. k.plan = j.plan /\ k.at = l /\ k.done = j.done + 1
    <3> HIDE DEF l, more
    <3> QED
      BY <1>0, <2>1 DEF Effect, Fields
  <2>3. CASE more
    <3>1. k.at = "look" /\ k.done < Len(k.plan) /\ k.at \in Working /\ "remove" \in Working
      BY <2>2, <2>3 DEF Working
    <3> HIDE DEF more, l
    <3>2. /\ c.op \in {"copy", "mkdir"} => \A i \in 1..Len(j.plan) : j.plan[i].path \in Seq(Service!PathNames)
          /\ c.op = "remove" /\ c.tree =>
               \A i \in 1..Len(j.plan) : ~j.plan[i].dir =>
                  j.plan[i].stamp[1] \in 1..Len(obj) /\ obj[j.plan[i].stamp[1]].kind = "file"
      <4>1. j.at = "remove" /\ PlannedSoFar(j, c, obj)
        BY <2>1
      <4> HIDE DEF j
      <4> QED
        BY <4>1, Zenon DEF PlannedSoFar
    <3> QED
      BY <2>2, <3>1, <3>2 DEF PlannedSoFar
  <2>4. CASE ~more
    BY <1>1, <2>2, <2>4
  <2> QED
    BY <2>3, <2>4
<1>17. CASE Service!RecheckMove(c) \/ Service!AfterMove(c)
  <2>1. CASE \E v : Service!Answer(c, v)
    BY <1>1, <2>1, Ended
  <2>2. CASE Service!Goto(c, "rename")
    BY <1>4, <2>2, Moved
  <2> QED
    BY <1>17, <2>1, <2>2 DEF Service!RecheckMove, Service!AfterMove, Service!Fails
<1>18. CASE Service!CommitMove(c) /\ ~Service!Fails(c)
  <2>1. job' = [job EXCEPT ![c].at = "moved", ![c].effects = @ + 1, ![c].done = 1]
    BY <1>18 DEF Service!CommitMove
  <2>2. k.at = "moved" /\ k.plan = j.plan
    BY <1>0, <2>1 DEF Effect, Fields
  <2> QED
    BY <1>4, <2>2
<1>19. CASE (Service!ListBegins(c) \/ Service!Enumerate(c)) /\ ~Service!Fails(c)
  <2> DEFINE x == Service!Stamp(c.src)
             y == Service!First(PageSize, Service!After(Len(j.shown), Service!Entries(c.src)))
             z == Service!After(Len(j.shown) + PageSize, Service!Entries(c.src))
  <2>1. \/ job' = [job EXCEPT ![c].at = "enumerate", ![c].stamp = x]
        \/ job' = [job EXCEPT ![c].at = "compare", ![c].got = y, ![c].todo = z]
    BY <1>19 DEF Service!ListBegins, Service!Enumerate
  <2> HIDE DEF x, y, z
  <2>2. k.at \in {"enumerate", "compare"} /\ k.plan = j.plan
    BY <1>0, <2>1 DEF Effect, Fields
  <2> QED
    BY <1>4, <2>2
<1>20. CASE Service!ListEnds(c) /\ ~Service!Fails(c)
  <2> DEFINE l == IF j.todo # << >> THEN "page" ELSE "answered"
             v == IF j.todo # << >> THEN j.answer ELSE "ok"
             s == j.shown \o j.got
  <2>1. job' = [job EXCEPT ![c].shown = s, ![c].at = l, ![c].answer = v]
    BY <1>20 DEF Service!ListEnds
  <2>2. k.at = l /\ k.plan = j.plan
    <3> HIDE DEF l, v, s
    <3> QED
      BY <1>0, <2>1 DEF Effect, Fields
  <2> QED
    BY <1>1, <1>4, <2>2
<1> QED
    BY <1>2, <1>6, <1>7, <1>8, <1>9, <1>10, <1>11, <1>12, <1>13, <1>14, <1>15, <1>16, <1>17, <1>18, <1>19, <1>20 DEF Service!Service

\* Another program leaves the paths it does not touch as they are.
Untouched ==
    \A q : q \notin touched' =>
        /\ q \in DOMAIN disk' <=> q \in DOMAIN disk
        /\ q \in DOMAIN disk => /\ disk'[q] = disk[q] /\ obj'[disk[q]].kind = obj[disk[q]].kind
                                /\ obj[disk[q]].kind = "file" => obj'[disk[q]] = obj[disk[q]]

LEMMA EditKeeps ==
    ASSUME Sound, edits' \in {edits, edits + 1}, NEW p \in DOMAIN disk, NEW d \in Nat \X Nat,
           obj' = [obj EXCEPT ![disk[p]] = [kind |-> obj[disk[p]].kind, data |-> d]],
           obj[disk[p]].kind = "file" => /\ Content(d, edits')
                                         /\ obj[disk[p]].data[1] <= d[1] /\ obj[disk[p]].data[2] <= d[2],
           disk' = disk, p \in touched'
    PROVE  Sound' /\ Grows /\ Untouched
<1> DEFINE i == disk[p]
           o == [kind |-> obj[disk[p]].kind, data |-> d]
<1>1. i \in 1..Len(obj) /\ Len(obj) \in Nat /\ DOMAIN obj = 1..Len(obj)
    BY ObjectAt DEF Sound
<1>2. o \in Service!Objects /\ o.kind = obj[i].kind /\ o.data = d
    BY <1>1, ObjectAt DEF Service!Objects
<1>3. obj' = [obj EXCEPT ![i] = o]
    OBVIOUS
<1> HIDE DEF i, o
<1>4. /\ obj' \in Seq(Service!Objects) /\ Len(obj') = Len(obj)
      /\ obj'[i] = o /\ \A n \in 1..Len(obj) : n # i => obj'[n] = obj[n]
    BY <1>1, <1>2, <1>3, ExceptSeq DEF Sound
<1>5. /\ \A n \in 1..Len(obj) : obj[n].data[1] \in Nat /\ obj[n].data[2] \in Nat
      /\ edits \in Nat /\ edits' \in Nat /\ edits <= edits' /\ Service!FirstText \in Nat
  <2>1. edits \in Nat /\ Service!FirstText \in Nat
    BY DEF Sound, Service!FirstText
  <2>2. \A n \in 1..Len(obj) : obj[n].data[1] \in Nat /\ obj[n].data[2] \in Nat
    BY ObjectAt
  <2>3. edits' \in Nat /\ edits <= edits'
    BY <2>1
  <2> QED
    BY <2>1, <2>2, <2>3
<1>6. Grows
    BY <1>1, <1>2, <1>4, <1>5 DEF Grows, i
<1>7. ASSUME NEW n \in 1..Len(obj'), obj'[n].kind = "file" PROVE Content(obj'[n].data, edits')
  <2>1. CASE n = i
    <3>1. obj'[n].data = d /\ obj[i].kind = "file"
      BY <1>2, <1>4, <1>7, <2>1
    <3> QED
      BY <3>1 DEF i
  <2>2. CASE n # i
    <3>1. obj'[n] = obj[n] /\ Content(obj[n].data, edits) /\ n \in 1..Len(obj)
      BY <1>4, <1>7, <2>2 DEF Sound
    <3> DEFINE x == obj[n].data
    <3>2. x \in Nat \X Nat /\ x[1] \in Nat /\ x[2] <= x[1] /\ x[1] < edits + Service!FirstText
      BY <1>5, <3>1 DEF Content
    <3> HIDE DEF x
    <3>3. x[1] < edits' + Service!FirstText
      BY <1>5, <3>2
    <3>4. Content(x, edits')
      BY <3>2, <3>3 DEF Content
    <3> QED
      BY <3>1, <3>4 DEF x
  <2> QED
    BY <2>1, <2>2
<1>8. /\ DOMAIN disk' \subseteq Seq(Service!PathNames) /\ \A q \in DOMAIN disk' : disk'[q] \in 1..Len(obj')
      /\ \A x, y \in DOMAIN disk' : disk'[x] = disk'[y] => x = y
    BY <1>4 DEF Sound
<1>9. Sound'
    BY <1>4, <1>5, <1>7, <1>8, Zenon DEF Sound
<1>10. Untouched
  <2> SUFFICES ASSUME NEW q, q \notin touched', q \in DOMAIN disk PROVE obj'[disk[q]] = obj[disk[q]]
    BY DEF Untouched
  <2>1. disk[q] # i /\ disk[q] \in 1..Len(obj)
    BY DEF Sound, i
  <2> QED
    BY <1>4, <2>1
<1> QED
    BY <1>6, <1>9, <1>10

LEMMA Halves ==
    ASSUME NEW k, NEW first, NEW second, NEW v
    PROVE  LET o == [kind |-> k, data |-> <<first, second>>]
           IN  /\ [o EXCEPT !.data[1] = v] = [kind |-> k, data |-> <<v, second>>]
               /\ [o EXCEPT !.data[2] = v] = [kind |-> k, data |-> <<first, v>>]
<1> DEFINE o == [kind |-> k, data |-> <<first, second>>]
<1>1. o.data = <<first, second>> /\ o.kind = k
    OBVIOUS
<1>2. [<<first, second>> EXCEPT ![1] = v] = <<v, second>> /\ [<<first, second>> EXCEPT ![2] = v] = <<first, v>>
    OBVIOUS
<1>3. \A d : [o EXCEPT !.data = d] = [kind |-> k, data |-> d]
    OBVIOUS
<1> QED
    BY <1>1, <1>2, <1>3

\* What another program does to the tree.
LEMMA EditorStep ==
    ASSUME Service!Parameters, Sound, NEW p \in Paths,
           \/ Service!EditBegins(p) \/ Service!EditEnds(p) \/ Service!Replace(p) \/ Service!Delete(p)
    PROVE  Sound' /\ Grows /\ Untouched /\ UNCHANGED <<busy, job>> /\ touched \subseteq touched'
<1>0. /\ UNCHANGED <<busy, job>> /\ touched' = touched \cup {p} /\ edits' \in {edits, edits + 1}
      /\ p \in Seq(Service!PathNames) /\ edits \in Nat /\ Service!FirstText \in Nat
    BY DEF Service!EditBegins, Service!EditEnds, Service!Replace, Service!Delete, Service!Edited,
           Service!Parameters, Sound, Service!FirstText
<1> DEFINE i == disk[p]
           first == obj[disk[p]].data[1]
           second == obj[disk[p]].data[2]
<1>1. ASSUME p \in DOMAIN disk
      PROVE  /\ i \in 1..Len(obj) /\ DOMAIN obj = 1..Len(obj) /\ first \in Nat /\ second \in Nat
             /\ obj[i] = [kind |-> obj[i].kind, data |-> <<first, second>>]
             /\ obj[i].kind = "file" => Content(<<first, second>>, edits)
  <2>1. i \in 1..Len(obj)
    BY <1>1 DEF Sound
  <2>2. /\ obj[i] = [kind |-> obj[i].kind, data |-> obj[i].data] /\ obj[i].data \in Nat \X Nat
        /\ first \in Nat /\ second \in Nat /\ DOMAIN obj = 1..Len(obj)
    BY <2>1, ObjectAt
  <2>3. obj[i].data = <<first, second>>
    BY <2>2
  <2> HIDE DEF first, second
  <2>4. obj[i].kind = "file" => Content(obj[i].data, edits)
    BY <2>1 DEF Sound
  <2> QED
    BY <2>1, <2>2, <2>3, <2>4
<1>2. CASE Service!EditBegins(p)
  <2> DEFINE v == edits + Service!FirstText
             d == <<v, second>>
  <2>1. p \in DOMAIN disk /\ obj[i].kind = "file" /\ disk' = disk /\ edits' = edits + 1
    BY <1>2 DEF Service!EditBegins, Service!IsFile, Service!Exists, Service!Edited
  <2>2. obj' = [obj EXCEPT ![i].data[1] = v]
    BY <1>2 DEF Service!EditBegins
  <2>3. obj' = [obj EXCEPT ![disk[p]] = [kind |-> obj[disk[p]].kind, data |-> d]]
    <3>1. obj' = [obj EXCEPT ![i] = [obj[i] EXCEPT !.data[1] = v]]
      BY <2>2
    <3>2. [obj[i] EXCEPT !.data[1] = v] = [kind |-> obj[i].kind, data |-> d]
      <4> HIDE DEF first, second
      <4> QED
        BY <1>1, <2>1, Halves
    <3> QED
      BY <3>1, <3>2
  <2>4. d \in Nat \X Nat /\ d[1] = v /\ d[2] = second
    BY <1>0, <1>1, <2>1
  <2>5. second <= first /\ first < v
    BY <1>1, <2>1 DEF Content
  <2>6. Content(d, edits') /\ first <= d[1] /\ second <= d[2]
    BY <1>0, <1>1, <2>1, <2>4, <2>5 DEF Content
  <2> HIDE DEF d
  <2> QED
    BY <1>0, <2>1, <2>3, <2>4, <2>6, EditKeeps
<1>3. CASE Service!EditEnds(p)
  <2> DEFINE d == <<first, first>>
  <2>1. p \in DOMAIN disk /\ disk' = disk /\ edits' = edits
    BY <1>3 DEF Service!EditEnds, Service!Exists
  <2>2. obj' = [obj EXCEPT ![i].data[2] = first]
    BY <1>3 DEF Service!EditEnds
  <2>3. obj' = [obj EXCEPT ![disk[p]] = [kind |-> obj[disk[p]].kind, data |-> d]]
    <3>1. obj' = [obj EXCEPT ![i] = [obj[i] EXCEPT !.data[2] = first]]
      BY <2>2
    <3>2. [obj[i] EXCEPT !.data[2] = first] = [kind |-> obj[i].kind, data |-> d]
      <4> HIDE DEF first, second
      <4> QED
        BY <1>1, <2>1, Halves
    <3> QED
      BY <3>1, <3>2
  <2>4. d \in Nat \X Nat /\ d[1] = first /\ d[2] = first
    BY <1>1, <2>1
  <2>5. obj[i].kind = "file" => Content(d, edits') /\ first <= d[1] /\ second <= d[2]
    BY <1>0, <1>1, <2>1, <2>4 DEF Content
  <2> HIDE DEF d
  <2> QED
    BY <1>0, <2>1, <2>3, <2>4, <2>5, EditKeeps
<1>4. ASSUME Sound', Grows, FilesKept, DOMAIN disk' \subseteq DOMAIN disk \cup {p},
             DOMAIN disk \ {p} \subseteq DOMAIN disk', \A q \in DOMAIN disk \ {p} : disk'[q] = disk[q]
      PROVE  Untouched
  <2> SUFFICES ASSUME NEW q, q \notin touched', q \in DOMAIN disk
               PROVE  /\ obj'[disk[q]].kind = obj[disk[q]].kind
                      /\ obj[disk[q]].kind = "file" => obj'[disk[q]] = obj[disk[q]]
    BY <1>0, <1>4 DEF Untouched
  <2>1. disk[q] \in 1..Len(obj)
    BY DEF Sound
  <2> QED
    BY <1>4, <2>1 DEF Grows, FilesKept
<1>5. CASE Service!Replace(p)
  <2> DEFINE v == edits + Service!FirstText
             d == <<v, v>>
  <2>1. Service!Put(p, Service!Object("file", d)) /\ edits' = edits + 1
    BY <1>5 DEF Service!Replace, Service!Edited
  <2>2. d \in Nat \X Nat /\ d[1] = v /\ d[2] <= d[1] /\ d[1] < edits' + Service!FirstText
    BY <1>0, <2>1
  <2>3. /\ Sound' /\ Grows /\ FilesKept /\ DOMAIN disk' = DOMAIN disk \cup {p}
        /\ \A q \in DOMAIN disk \ {p} : disk'[q] = disk[q]
    <3> HIDE DEF d, v
    <3> QED
      BY <1>0, <2>1, <2>2, PutKeeps
  <2> QED
    BY <1>0, <1>4, <2>3
<1>6. CASE Service!Delete(p)
  <2>1. Service!Drop(p)
    BY <1>6 DEF Service!Delete
  <2>2. /\ Sound' /\ Grows /\ FilesKept /\ DOMAIN disk' = DOMAIN disk \ {p}
        /\ \A q \in DOMAIN disk \ {p} : disk'[q] = disk[q]
    BY <1>0, <2>1, DropKeeps
  <2> QED
    BY <1>0, <1>4, <2>2
<1> QED
    BY <1>2, <1>3, <1>5, <1>6

-----------------------------------------------------------------------------
(* The service, the editor and what a call knows, together.                 *)

\* Where a copy, a write or a mkdir works is a path.
LEMMA TargetPath ==
    ASSUME Service!Parameters, ServiceEffects, NEW c \in DOMAIN job, PlannedSoFar(job[c], c, obj),
           job[c].at \in {"ready", "mkdir"}
    PROVE  Service!Target(c) \in Seq(Service!PathNames)
<1> DEFINE j == job[c]
<1>0. Effect(j, c) /\ c \in Calls /\ c.src \in Seq(Service!PathNames) /\ c.dst \in Seq(Service!PathNames)
    BY DEF ServiceEffects, Service!Parameters
<1>1. CASE c.op \in {"copy", "mkdir"}
  <2>1. j.done \in Nat /\ Len(j.plan) \in Nat
    BY <1>0, LenProperties DEF Effect
  <2>2. j.done < Len(j.plan)
    BY <1>1 DEF PlannedSoFar, Working, Making, Reading, Writing
  <2>3. j.done + 1 \in 1..Len(j.plan)
    BY <2>1, <2>2
  <2>4. Service!Current(c).path \in Seq(Service!PathNames)
    BY <1>1, <2>3 DEF PlannedSoFar, Service!Current
  <2> QED
    BY <1>0, <1>1, <2>4, UnderPath DEF Service!Target
<1>2. CASE c.op \notin {"copy", "mkdir"}
    BY <1>0, <1>2 DEF Service!Target
<1> QED
    BY <1>1, <1>2

\* What the service puts into the tree is sound, and it overwrites no object.
LEMMA TreeStep ==
    ASSUME Service!Parameters, ServiceEffects, Sound, NEW c \in DOMAIN job, Service!Service(c),
           Knows(job[c], c, obj, edits)
    PROVE  Sound' /\ Grows
<1> DEFINE j == job[c]
<1>0. /\ Effect(j, c) /\ c \in Calls /\ edits' = edits /\ edits \in Nat
      /\ c.src \in Seq(Service!PathNames) /\ c.dst \in Seq(Service!PathNames)
    BY DEF ServiceEffects, Service!Parameters, Sound, Service!Service, Service!Enter, Service!Abort,
           Service!Visit, Service!Open, Service!Verify, Service!Chunk, Service!Stage, Service!LookAgain,
           Service!CommitWrite, Service!AfterWrite, Service!Probe, Service!MakeDir, Service!LookAtDir,
           Service!Apply, Service!LookAtVictim, Service!RemoveOne, Service!RecheckMove, Service!CommitMove,
           Service!AfterMove, Service!ListBegins, Service!Enumerate, Service!ListEnds, Service!Editor
<1>1. ASSUME UNCHANGED <<disk, obj>> PROVE Sound' /\ Grows
  <2>1. Grows
    <3>1. \A i \in 1..Len(obj) : obj[i].data[1] \in Nat /\ obj[i].data[2] \in Nat
      BY ObjectAt
    <3>2. Len(obj) \in Nat
      BY LenProperties DEF Sound
    <3> QED
      BY <1>0, <1>1, <3>1, <3>2 DEF Grows
  <2> QED
    BY <1>0, <1>1, <2>1 DEF Sound
<1>2. j.at \in {"ready", "mkdir"} => Service!Target(c) \in Seq(Service!PathNames)
    BY TargetPath DEF Knows
<1>3. CASE Service!CommitWrite(c) /\ ~Service!Fails(c)
  <2> DEFINE d == Service!Written(c)
             p == Service!Target(c)
  <2>1. j.at = "ready" /\ Service!Put(p, Service!Object("file", d))
    BY <1>3 DEF Service!CommitWrite
  <2>2. c.op \in {"write", "copy"}
    BY <1>0, <2>1, OpKnown DEF Effect, Places, Reading, Making
  <2>3. Content(d, edits)
    <3>1. CASE c.op = "copy"
      BY <2>1, <3>1 DEF Knows, ReadSoFar, Service!Written
    <3>2. CASE c.op = "write"
      <4> DEFINE w == c.data
      <4>1. w \in Nat \X Nat /\ w[2] <= w[1] /\ w[1] < Service!FirstText /\ d = w
        BY <1>0, <3>2 DEF Service!Parameters, Service!Written
      <4>2. w[1] \in Nat /\ Service!FirstText \in Nat
        BY <4>1 DEF Service!FirstText
      <4> HIDE DEF w, d
      <4> QED
        BY <1>0, <4>1, <4>2 DEF Content
    <3> QED
      BY <2>2, <3>1, <3>2
  <2>4. p \in Seq(Service!PathNames)
    BY <1>2, <2>1
  <2> HIDE DEF d, p
  <2> QED
    BY <1>0, <2>1, <2>3, <2>4, PutKeeps DEF Content
<1>4. CASE Service!MakeDir(c) /\ ~Service!Fails(c)
  <2>1. j.at = "mkdir" /\ Service!Put(Service!Target(c), Service!Object("dir", Service!NoData))
    BY <1>4 DEF Service!MakeDir
  <2>2. Service!NoData \in Nat \X Nat
    BY DEF Service!NoData
  <2> QED
    BY <1>0, <1>2, <2>1, <2>2, PutKeeps
<1>5. CASE Service!RemoveOne(c) /\ ~Service!Fails(c)
  <2>1. Service!Drop(Service!Victim(c).path)
    BY <1>5 DEF Service!RemoveOne
  <2> QED
    BY <1>0, <2>1, DropKeeps
<1>6. CASE Service!CommitMove(c) /\ ~Service!Fails(c)
    BY <1>0, <1>6, MoveKeeps DEF Service!CommitMove
<1>7. CASE Service!Fails(c)
    BY <1>1, <1>7 DEF Service!Fails, Service!Tree
<1>8. ASSUME ~Service!Fails(c), ~Service!CommitWrite(c), ~Service!MakeDir(c), ~Service!RemoveOne(c),
             ~Service!CommitMove(c)
      PROVE  UNCHANGED <<disk, obj>>
    BY <1>8 DEF Service!Service, Service!Enter, Service!Abort,
           Service!Visit, Service!Open, Service!Verify, Service!Chunk, Service!Stage, Service!LookAgain,
           Service!AfterWrite, Service!Probe, Service!LookAtDir, Service!Apply, Service!LookAtVictim,
           Service!RecheckMove, Service!AfterMove, Service!ListBegins, Service!Enumerate,
           Service!ListEnds, Service!Tree
<1> QED
    BY <1>1, <1>3, <1>4, <1>5, <1>6, <1>7, <1>8

\* What a call knows stays true of objects that only grow.
LEMMA KnowsGrow ==
    ASSUME Sound, Sound', Grows, NEW c, NEW j, Knows(j, c, obj, edits)
    PROVE  Knows(j, c, obj', edits')
<1>1. \A i \in 1..Len(obj) : i \in 1..Len(obj') /\ obj'[i].kind = obj[i].kind
  <2>1. Len(obj) \in Nat /\ Len(obj') \in Nat
    BY LenProperties DEF Sound
  <2> QED
    BY <2>1 DEF Grows
<1>2. ASSUME NEW d, Content(d, edits) PROVE Content(d, edits')
  <2>1. d[1] \in Nat /\ edits \in Nat /\ edits' \in Nat /\ edits <= edits' /\ Service!FirstText \in Nat
    BY <1>2 DEF Content, Grows, Sound, Service!FirstText
  <2> QED
    BY <1>2, <2>1 DEF Content
<1>3. ASSUME j.at \in {"verify", "chunk"}
      PROVE  ReadSoFar(j, c, obj', edits')
  <2> DEFINE i == j.open
             s == j.stamp[2]
             old == obj[j.open].data
             new == obj'[j.open].data
  <2>1. /\ i \in 1..Len(obj) /\ obj[i].kind = "file" /\ j.stamp[1] = i /\ s \in Nat \X Nat
        /\ j.got \in Seq(Nat) /\ Len(j.got) <= 2 /\ (j.at = "chunk" => Len(j.got) < 2)
        /\ \A k \in {1, 2} : s[k] <= old[k]
        /\ \A k \in 1..Len(j.got) : j.got[k] = s[k] \/ s[k] < old[k]
    BY <1>3 DEF Knows, ReadSoFar
  <2>2. i \in 1..Len(obj') /\ obj'[i].kind = "file" /\ old[1] <= new[1] /\ old[2] <= new[2]
    BY <1>1, <2>1 DEF Grows
  <2>3. /\ old[1] \in Nat /\ old[2] \in Nat /\ s[1] \in Nat /\ s[2] \in Nat
    BY <2>1, ObjectAt
  <2>4. new[1] \in Nat /\ new[2] \in Nat
    <3>1. obj'[i] \in Service!Objects
      BY <2>2, ElementOfSeq DEF Sound
    <3> QED
      BY <3>1 DEF Service!Objects
  <2> HIDE DEF s, old, new
  <2>5. \A k \in {1, 2} : s[k] <= new[k]
    BY <2>1, <2>2, <2>3, <2>4
  <2>6. ASSUME NEW k \in 1..Len(j.got) PROVE j.got[k] = s[k] \/ s[k] < new[k]
    <3>1. k \in {1, 2}
      <4>1. Len(j.got) \in Nat
        BY <2>1, LenProperties
      <4> QED
        BY <2>1, <4>1
    <3>2. j.got[k] = s[k] \/ s[k] < old[k]
      BY <2>1
    <3>3. CASE k = 1
      BY <2>2, <2>3, <2>4, <3>2, <3>3
    <3>4. CASE k = 2
      BY <2>2, <2>3, <2>4, <3>2, <3>4
    <3> QED
      BY <3>1, <3>3, <3>4
  <2> QED
    BY <1>3, <2>1, <2>2, <2>5, <2>6 DEF ReadSoFar, s, new
<1>4. ReadSoFar(j, c, obj', edits')
    BY <1>2, <1>3 DEF Knows, ReadSoFar
<1>5. PlannedSoFar(j, c, obj')
    BY <1>1 DEF Knows, PlannedSoFar
<1> QED
    BY <1>4, <1>5 DEF Knows

\* A look at the path under the lock tells what is there.
LEMMA SeenStep ==
    ASSUME Service!Parameters, ServiceEffects, Sound, Locked, NEW c \in DOMAIN job, Service!Service(c)
    PROVE  SeenLast(c)'
<1> DEFINE j == job[c]
           k == job'[c]
<1>0. Effect(j, c)
    BY DEF ServiceEffects
<1>1. ASSUME k.at = "ready" PROVE SeenLast(c)'
  <2>1. Service!LookAgain(c)
    BY <1>1, CallStep
  <2>2. /\ Service!Goto(c, "ready") /\ UNCHANGED <<disk, obj>>
        /\ Service!Meets(Service!Cond(c), Service!Target(c))
    BY <1>1, <2>1, Ended
       DEF Service!LookAgain, Service!Recheck, Service!Preflight, Service!Fails, Service!Tree
  <2>3. k.plan = j.plan /\ k.done = j.done
    BY <2>2, Moved
  <2>4. Service!Cond(c)' = Service!Cond(c) /\ Service!Target(c)' = Service!Target(c)
    BY <2>3 DEF Service!Cond, Service!Target, Service!Current
  <2>5. Service!Meets(Service!Cond(c), Service!Target(c))'
    BY <2>2, <2>4 DEF Service!Meets, Service!IsFile, Service!Exists
  <2> QED
    BY <1>1, <2>5 DEF SeenLast
<1>2. ASSUME k.at = "remove", c.tree PROVE SeenLast(c)'
  <2>1. CASE Service!LookAtVictim(c)
    <3>1. Service!Goto(c, "remove") /\ UNCHANGED <<disk, obj>> /\ Service!StillPlanned(c)
      BY <1>2, <2>1, Ended DEF Service!LookAtVictim, Service!Fails, Service!Tree
    <3>2. k.plan = j.plan /\ k.done = j.done
      BY <3>1, Moved
    <3>3. Service!StillPlanned(c)'
      BY <3>1, <3>2 DEF Service!StillPlanned, Service!Victim, Service!Stamp, Service!Exists
    <3> QED
      BY <1>2, <3>3 DEF SeenLast
  <2>2. CASE Service!Enter(c)
    <3> DEFINE l == Service!FirstStep(c)
               t == <<IF c.op \in {"remove", "mkdir"} THEN c.dst ELSE c.src>>
               p == IF c.tree THEN << >> ELSE <<[path |-> c.dst]>>
    <3>1. job' = [job EXCEPT ![c].at = l, ![c].stamp = Service!Stamp(c.src), ![c].todo = t, ![c].plan = p]
      BY <1>2, <2>2, Ended DEF Service!Enter, Service!Fails
    <3>2. l # "remove"
      BY <1>2 DEF Service!FirstStep
    <3> HIDE DEF l, t, p
    <3>3. k.at = l
      BY <1>0, <3>1 DEF Effect, Fields
    <3> QED
      BY <1>2, <3>2, <3>3
  <2> QED
    BY <1>2, <2>1, <2>2, CallStep
<1> QED
    BY <1>1, <1>2 DEF SeenLast

\* What the last look saw stays, but for what another program touches.
LEMMA SeenKept ==
    ASSUME Service!Parameters, ServiceEffects, Sound, NEW c \in DOMAIN job, job'[c] = job[c],
           Knows(job[c], c, obj, edits), SeenLast(c), Untouched, touched \subseteq touched'
    PROVE  SeenLast(c)'
<1> DEFINE j == job[c]
<1>0. Effect(j, c)
    BY DEF ServiceEffects
<1>1. ASSUME j.at = "ready", Service!Cond(c).kind = "hash", Service!Target(c) \notin touched'
      PROVE  Service!Meets(Service!Cond(c), Service!Target(c))'
  <2> DEFINE p == Service!Target(c)
  <2>1. Service!Cond(c)' = Service!Cond(c) /\ Service!Target(c)' = Service!Target(c)
    BY DEF Service!Cond, Service!Target, Service!Current
  <2>2. Service!Meets(Service!Cond(c), p)
    BY <1>1 DEF SeenLast
  <2>3. p \in DOMAIN disk /\ obj[disk[p]].kind = "file" /\ obj[disk[p]].data = Service!Cond(c).data
    BY <1>1, <2>2 DEF Service!Meets, Service!IsFile, Service!Exists
  <2>4. p \in DOMAIN disk' /\ disk'[p] = disk[p] /\ obj'[disk[p]] = obj[disk[p]]
    BY <1>1, <2>3 DEF Untouched
  <2> QED
    BY <1>1, <2>1, <2>3, <2>4 DEF Service!Meets, Service!IsFile, Service!Exists
<1>2. ASSUME j.at = "remove", c.tree, Service!Victim(c).path \notin touched'
      PROVE  Service!StillPlanned(c)'
  <2> DEFINE v == Service!Victim(c)
             i == v.stamp[1]
  <2>1. v' = v
    BY DEF Service!Victim
  <2>2. Service!StillPlanned(c)
    BY <1>2 DEF SeenLast
  <2>3. CASE v.dir
    <3>1. v.path \in DOMAIN disk /\ disk[v.path] = i
      BY <2>2, <2>3 DEF Service!StillPlanned, Service!Exists
    <3>2. v.path \in DOMAIN disk' /\ disk'[v.path] = i
      BY <1>2, <3>1 DEF Untouched
    <3> QED
      BY <2>1, <2>3, <3>2 DEF Service!StillPlanned, Service!Exists
  <2>4. CASE ~v.dir
    <3>1. i \in 1..Len(obj) /\ obj[i].kind = "file"
      <4>1. c.op = "remove"
        BY <1>0, <1>2, OpKnown DEF Effect, Places, Making, Reading, Writing, ServiceEffects
      <4>2. j.done < Len(j.plan) /\ j.done \in Nat /\ Len(j.plan) \in Nat
        BY <1>0, <1>2, <4>1, LenProperties DEF Knows, PlannedSoFar, Working, Effect
      <4>3. Len(j.plan) - j.done \in 1..Len(j.plan)
        BY <4>2
      <4> QED
        BY <1>2, <2>4, <4>1, <4>3 DEF Knows, PlannedSoFar, Service!Victim
    <3>2. v.path \in DOMAIN disk /\ v.stamp = <<disk[v.path], obj[disk[v.path]].data>>
      BY <2>2, <2>4 DEF Service!StillPlanned, Service!Stamp, Service!Exists
    <3>3. disk[v.path] = i
      BY <3>2
    <3>4. v.path \in DOMAIN disk' /\ disk'[v.path] = i /\ obj'[i] = obj[i]
      BY <1>2, <3>1, <3>2, <3>3 DEF Untouched
    <3> QED
      BY <2>1, <2>4, <3>2, <3>3, <3>4 DEF Service!StillPlanned, Service!Stamp, Service!Exists
  <2> QED
    BY <2>3, <2>4
<1>3. Service!Cond(c)' = Service!Cond(c) /\ Service!Target(c)' = Service!Target(c) /\ Service!Victim(c)' = Service!Victim(c)
    BY DEF Service!Cond, Service!Target, Service!Current, Service!Victim
<1> QED
    BY <1>1, <1>2, <1>3 DEF SeenLast

LEMMA TreeSafeStep ==
    ASSUME Service!Parameters, ServiceEffects, TreeSafe, Service!Next
    PROVE  TreeSafe'
<1>0. /\ Locked /\ Sound /\ DOMAIN job \subseteq Calls /\ Free \notin Calls
      /\ \A c \in DOMAIN job : Knows(job[c], c, obj, edits) /\ SeenLast(c)
    BY DEF TreeSafe, ServiceEffects, Service!Parameters
<1>1. ASSUME NEW c \in DOMAIN job, Service!Service(c) PROVE TreeSafe'
  <2>1. Sound' /\ Grows
    BY <1>0, <1>1, TreeStep
  <2>2. /\ DOMAIN job' = DOMAIN job /\ \A d \in DOMAIN job : d # c => job'[d] = job[d]
        /\ busy \notin {c, Free} => UNCHANGED busy
        /\ busy # c => UNCHANGED <<disk, obj, touched>>
        /\ Outside(c)' \/ busy' = c
    BY <1>0, <1>1, CallStep
  <2>3. Locked'
    <3> SUFFICES ASSUME NEW d \in DOMAIN job, d # c PROVE Outside(d)' \/ busy' = d
      BY <2>2 DEF Locked
    <3>1. Outside(d) \/ busy = d
      BY <1>0 DEF Locked
    <3>2. Outside(d)' <=> Outside(d)
      BY <2>2 DEF Outside
    <3> QED
      BY <1>0, <2>2, <3>1, <3>2
  <2>4. Knows(job'[c], c, obj, edits) /\ SeenLast(c)'
    BY <1>0, <1>1, ReadStep, PlannedStep, SeenStep DEF Knows
  <2>5. Knows(job'[c], c, obj', edits')
    BY <1>0, <2>1, <2>4, KnowsGrow
  <2>6. ASSUME NEW d \in DOMAIN job, d # c PROVE Knows(job'[d], d, obj', edits') /\ SeenLast(d)'
    <3>1. job'[d] = job[d] /\ Knows(job[d], d, obj, edits) /\ SeenLast(d)
      BY <1>0, <2>2, <2>6
    <3>2. Knows(job'[d], d, obj', edits')
      BY <1>0, <2>1, <3>1, KnowsGrow
    <3>3. CASE job[d].at \in {"ready", "remove"}
      <4>1. busy # c
        BY <1>0, <2>6, <3>3 DEF Locked, Outside
      <4>2. Untouched /\ touched \subseteq touched'
        BY <2>2, <4>1 DEF Untouched
      <4> QED
        BY <1>0, <3>1, <3>2, <4>2, SeenKept
    <3>4. CASE job[d].at \notin {"ready", "remove"}
      BY <3>1, <3>2, <3>4 DEF SeenLast
    <3> QED
      BY <3>3, <3>4
  <2> QED
    BY <2>1, <2>2, <2>3, <2>4, <2>5, <2>6 DEF TreeSafe
<1>2. ASSUME NEW p \in Paths, \/ Service!EditBegins(p) \/ Service!EditEnds(p)
                              \/ Service!Replace(p) \/ Service!Delete(p)
      PROVE  TreeSafe'
  <2>1. Sound' /\ Grows /\ Untouched /\ UNCHANGED <<busy, job>> /\ touched \subseteq touched'
    BY <1>0, <1>2, EditorStep
  <2>2. Locked'
    BY <1>0, <2>1 DEF Locked, Outside
  <2>3. ASSUME NEW c \in DOMAIN job PROVE Knows(job'[c], c, obj', edits') /\ SeenLast(c)'
    BY <1>0, <2>1, KnowsGrow, SeenKept
  <2> QED
    BY <2>1, <2>2, <2>3 DEF TreeSafe
<1> QED
    BY <1>1, <1>2 DEF Service!Next

LEMMA TreeSafeInit ==
    ASSUME Service!Parameters, Service!Init
    PROVE  TreeSafe
<1>1. PICK S \in SUBSET Calls : job = [c \in S |-> Service!NewJob]
    BY DEF Service!Init
<1>2. DOMAIN job = S /\ \A c \in DOMAIN job : job[c] = Service!NewJob
    BY <1>1
<1>3. \A c \in DOMAIN job : job[c].at = "idle" /\ job[c].plan = << >> /\ job[c].done = 0
  <2>1. Service!NewJob.at = "idle" /\ Service!NewJob.plan = << >> /\ Service!NewJob.done = 0
    BY DEF Service!NewJob
  <2> QED
    BY <1>2, <2>1
<1>4. Locked
    BY <1>3 DEF Locked, Outside
<1>5. disk = FirstDisk /\ obj = FirstObj /\ edits = 0
    BY DEF Service!Init
<1>6. DOMAIN FirstObj = 1..Len(FirstObj) /\ \A i \in 1..Len(FirstObj) : FirstObj[i].data \in Nat \X Nat
  <2>1. FirstObj \in Seq(Service!Objects) /\ DOMAIN FirstObj = 1..Len(FirstObj)
    BY LenProperties DEF Service!Parameters
  <2>2. \A i \in 1..Len(FirstObj) : FirstObj[i] \in Service!Objects
    BY <2>1, ElementOfSeq
  <2> QED
    BY <2>1, <2>2 DEF Service!Objects
<1>7. Sound
  <2>1. \A i \in 1..Len(obj) : obj[i].kind = "file" => Content(obj[i].data, edits)
    BY <1>5, <1>6 DEF Content, Service!Parameters, Service!FirstText
  <2> QED
    BY <1>5, <1>6, <2>1 DEF Sound, Service!Parameters
<1>8. ASSUME NEW c \in DOMAIN job PROVE Knows(job[c], c, obj, edits) /\ SeenLast(c)
  <2>1. Len(job[c].plan) = 0
    BY <1>3, <1>8
  <2> QED
    BY <1>3, <1>8, <2>1 DEF Knows, ReadSoFar, PlannedSoFar, SeenLast, Working, Making, Reading, Writing
<1> QED
    BY <1>4, <1>7, <1>8 DEF TreeSafe

TreeKept == part = "service" => TreeSafe

LEMMA TreeInvariance == BundleSpec => []TreeKept
<1>1. BundleInit => TreeKept
    BY FilesAssumption, TreeSafeInit DEF BundleInit, TreeKept
<1>2. ServiceSafe /\ TreeKept /\ [BundleNext]_bundleVars => TreeKept'
  <2> SUFFICES ASSUME ServiceSafe, TreeKept, [BundleNext]_bundleVars, part' = "service" PROVE TreeSafe'
    BY DEF TreeKept
  <2>1. ServiceEffects /\ TreeSafe /\ (Service!Next \/ UNCHANGED serviceVars)
    BY DEF ServiceSafe, TreeKept, BundleNext, bundleVars
  <2>2. CASE UNCHANGED serviceVars
    <3>1. UNCHANGED <<disk, obj, edits, touched, busy, job>>
      BY <2>2 DEF serviceVars
    <3>2. Locked' /\ Sound'
      BY <2>1, <3>1 DEF TreeSafe, Locked, Outside, Sound
    <3>3. Untouched
      BY <3>1 DEF Untouched
    <3>4. ASSUME NEW c \in DOMAIN job PROVE Knows(job'[c], c, obj', edits') /\ SeenLast(c)'
      BY <2>1, <3>1, <3>3, SeenKept, FilesAssumption DEF TreeSafe
    <3> QED
      BY <3>1, <3>2, <3>4 DEF TreeSafe
  <2> QED
    BY <2>1, <2>2, FilesAssumption, TreeSafeStep
<1> QED
    BY <1>1, <1>2, ServiceInvariance, PTL DEF BundleSpec, bundleVars

\* hostfs write, removeTree: an absent destination is never replaced, and what is
\* replaced under a hash, or removed with a tree, is what the last look saw there
\* unless another program changed that very path since.
THEOREM ConditionsKept == BundleSpec => ConditionsHold
<1>1. ServiceSafe /\ TreeKept /\ [BundleNext]_bundleVars => [part = "service" => Service!ConditionsMet]_serviceVars
  <2> SUFFICES ASSUME ServiceSafe, TreeKept, [BundleNext]_bundleVars, part = "service", ~UNCHANGED serviceVars
               PROVE  Service!ConditionsMet
    OBVIOUS
  <2>1. /\ ServiceEffects /\ TreeSafe /\ Service!Next /\ Locked
        /\ \A c \in DOMAIN job : SeenLast(c)
    BY DEF ServiceSafe, TreeKept, BundleNext, bundleVars, serviceVars, TreeSafe
  <2>2. ASSUME NEW c \in DOMAIN job, job[c].at = "ready", job'[c].at = "committed"
        PROVE  Service!CommitWrite(c) /\ ~Service!Fails(c)
    <3>1. CASE \E d \in DOMAIN job : Service!Service(d)
      <4>1. PICK d \in DOMAIN job : Service!Service(d)
        BY <3>1
      <4>2. d = c
        BY <2>1, <2>2, <4>1, CallStep, FilesAssumption
      <4> QED
        BY <2>1, <2>2, <4>1, <4>2, CallStep, Ended, FilesAssumption DEF Service!Fails
    <3>2. CASE \E p \in Paths : \/ Service!EditBegins(p) \/ Service!EditEnds(p)
                                \/ Service!Replace(p) \/ Service!Delete(p)
      BY <2>2, <3>2 DEF Service!EditBegins, Service!EditEnds, Service!Replace, Service!Delete, Service!Edited
    <3> QED
      BY <2>1, <3>1, <3>2 DEF Service!Next
  <2>3. ASSUME NEW c \in DOMAIN job, job[c].at = "ready", job'[c].at = "committed",
               Service!Cond(c).kind = "absent"
        PROVE  ~Service!Exists(Service!Target(c))
    BY <2>2, <2>3 DEF Service!CommitWrite
  <2> QED
    BY <2>1, <2>3 DEF Service!ConditionsMet, SeenLast, Service!StillPlanned
<1> QED
    BY <1>1, ServiceInvariance, TreeInvariance, PTL DEF BundleSpec, bundleVars, ConditionsHold

\* A call that fails or is stopped says so.
LEMMA Faulted ==
    ASSUME ServiceEffects, NEW c \in DOMAIN job, Service!Fails(c) \/ Service!Abort(c)
    PROVE  job'[c].at = "answered" /\ job'[c].answer \in {"partial", "none"}
<1> DEFINE f == Service!Fault(c)
           made == (job[c].at = "made")
<1>1. f \in {"partial", "none"}
    BY DEF Service!Fault
<1>2. \/ job' = [job EXCEPT ![c].at = "answered", ![c].answer = f]
      \/ job' = [job EXCEPT ![c].at = "answered", ![c].answer = f, ![c].bare = made]
    BY DEF Service!Fails, Service!Answer, Service!Abort
<1> HIDE DEF f, made
<1>3. DOMAIN job[c] = Fields
    BY DEF ServiceEffects, Effect
<1>4. job'[c].at = "answered" /\ job'[c].answer = f
  <2>1. CASE job' = [job EXCEPT ![c].at = "answered", ![c].answer = f]
    BY <1>3, <2>1 DEF Fields
  <2>2. CASE job' = [job EXCEPT ![c].at = "answered", ![c].answer = f, ![c].bare = made]
    BY <1>3, <2>2 DEF Fields
  <2> QED
    BY <1>2, <2>1, <2>2
<1> QED
    BY <1>1, <1>4

\* Who changes a call is the call.
LEMMA OwnStep ==
    ASSUME Service!Parameters, ServiceEffects, Locked, Sound, Service!Next,
           NEW c \in DOMAIN job, job'[c] # job[c]
    PROVE  Service!Service(c)
<1>1. \A p \in Paths : ~Service!EditBegins(p) /\ ~Service!EditEnds(p) /\ ~Service!Replace(p) /\ ~Service!Delete(p)
    BY DEF Service!EditBegins, Service!EditEnds, Service!Replace, Service!Delete, Service!Edited
<1>2. ASSUME NEW d \in DOMAIN job, d # c, Service!Service(d) PROVE FALSE
  <2>1. job'[c] = job[c]
    BY <1>2, CallStep
  <2> QED
    BY <2>1
<1> QED
    BY <1>1, <1>2 DEF Service!Next

\* hostfs readOrStat, copyFile: a file that is read to its end, to be answered or
\* copied, is the file as it is then, whatever others wrote into it meanwhile.
THEOREM ReadsWhole == BundleSpec => [][part = "service" => Service!FilesWhole]_serviceVars
<1>1. ServiceSafe /\ TreeKept /\ [BundleNext]_bundleVars => [part = "service" => Service!FilesWhole]_serviceVars
  <2> SUFFICES ASSUME ServiceSafe, TreeKept, [BundleNext]_bundleVars, part = "service", ~UNCHANGED serviceVars,
                      NEW c \in DOMAIN job, job[c].at = "verify",
                      job'[c].at = "stage" \/ Service!Answered(c)'
               PROVE  /\ Service!IsFile(Service!Source(c))
                      /\ job[c].got = obj[disk[Service!Source(c)]].data
    BY DEF Service!FilesWhole
  <2>1. /\ ServiceEffects /\ Sound /\ Service!Next /\ Locked
        /\ ReadSoFar(job[c], c, obj, edits) /\ Service!Parameters
    BY FilesAssumption DEF ServiceSafe, TreeKept, BundleNext, bundleVars, serviceVars, TreeSafe, Knows
  <2>2. job'[c] # job[c]
    BY DEF Service!Answered
  <2>3. Service!Service(c)
    BY <2>1, <2>2, OwnStep
  <2>4. ASSUME Service!Fails(c) \/ Service!Abort(c) PROVE FALSE
    BY <2>1, <2>4, Faulted DEF Service!Answered
  <2>6. Service!Verify(c)
    BY <2>3, <2>4 DEF Service!Service, Service!Enter, Service!Visit, Service!Open, Service!Chunk, Service!Stage,
       Service!LookAgain, Service!CommitWrite, Service!AfterWrite, Service!Probe, Service!MakeDir,
       Service!LookAtDir, Service!Apply, Service!LookAtVictim, Service!RemoveOne, Service!RecheckMove,
       Service!CommitMove, Service!AfterMove, Service!ListBegins, Service!Enumerate, Service!ListEnds
  <2>7. Service!Unchanged(c) /\ ~(Len(job[c].got) < 2)
    BY <2>1, <2>4, <2>6, Moved DEF Service!Verify, Service!Answered
  <2> QED
    BY <2>1, <2>7, ReadWhole
<1> QED
    BY <1>1, ServiceInvariance, TreeInvariance, PTL DEF BundleSpec, bundleVars


-----------------------------------------------------------------------------
(* Paths: prefixes, entries and moved paths, name by name.                  *)

LEMMA PrefixPoint ==
    ASSUME NEW N, NEW p \in Seq(N), NEW q \in Seq(N)
    PROVE  Service!IsPrefix(p, q) <=> Len(p) <= Len(q) /\ \A i \in 1..Len(p) : p[i] = q[i]
<1> DEFINE k == Len(p)
<1>1. Len(p) \in Nat /\ Len(q) \in Nat
    BY LenProperties
<1>2. ASSUME Len(p) <= Len(q)
      PROVE  SubSeq(p, 1, Len(p)) = SubSeq(q, 1, Len(p)) <=> \A i \in 1..Len(p) : p[i] = q[i]
  <2>1. \A i \in 1..k : p[i] \in N /\ q[i] \in N
    BY <1>1, <1>2, ElementOfSeq
  <2>2. k \in Nat /\ 1 \in Int
    BY <1>1
  <2> HIDE DEF k
  <2>3. /\ SubSeq(p, 1, k) \in Seq(N) /\ Len(SubSeq(p, 1, k)) = (IF 1 <= k THEN k - 1 + 1 ELSE 0)
        /\ \A i \in 1..(k - 1 + 1) : SubSeq(p, 1, k)[i] = p[1 + i - 1]
    BY <2>1, <2>2, SubSeqProperties
  <2>4. /\ SubSeq(q, 1, k) \in Seq(N) /\ Len(SubSeq(q, 1, k)) = (IF 1 <= k THEN k - 1 + 1 ELSE 0)
        /\ \A i \in 1..(k - 1 + 1) : SubSeq(q, 1, k)[i] = q[1 + i - 1]
    BY <2>1, <2>2, SubSeqProperties
  <2>5. k - 1 + 1 = k /\ (\A i \in 1..k : 1 + i - 1 = i) /\ (IF 1 <= k THEN k - 1 + 1 ELSE 0) = k
    BY <2>2
  <2>6. /\ Len(SubSeq(p, 1, k)) = k /\ Len(SubSeq(q, 1, k)) = k
        /\ \A i \in 1..k : SubSeq(p, 1, k)[i] = p[i] /\ SubSeq(q, 1, k)[i] = q[i]
    BY <2>3, <2>4, <2>5
  <2>7. (\A i \in 1..k : p[i] = q[i]) => SubSeq(p, 1, k) = SubSeq(q, 1, k)
    BY <2>3, <2>4, <2>6, SeqEqual
  <2>8. SubSeq(p, 1, k) = SubSeq(q, 1, k) => \A i \in 1..k : p[i] = q[i]
    BY <2>6
  <2> QED
    BY <2>7, <2>8 DEF k
<1> QED
    BY <1>2 DEF Service!IsPrefix

LEMMA PrefixTrans ==
    ASSUME NEW N, NEW p \in Seq(N), NEW q \in Seq(N), NEW r \in Seq(N),
           Service!IsPrefix(p, q), Service!IsPrefix(q, r)
    PROVE  Service!IsPrefix(p, r)
<1>1. Len(p) \in Nat /\ Len(q) \in Nat /\ Len(r) \in Nat
    BY LenProperties
<1>2. /\ Len(p) <= Len(q) /\ \A i \in 1..Len(p) : p[i] = q[i]
      /\ Len(q) <= Len(r) /\ \A i \in 1..Len(q) : q[i] = r[i]
    BY PrefixPoint
<1>3. Len(p) <= Len(r) /\ \A i \in 1..Len(p) : p[i] = r[i]
    BY <1>1, <1>2
<1> QED
    BY <1>3, PrefixPoint

\* An entry of q: q is what is in front of it, and what is above it is above q.
LEMMA EntryPath ==
    ASSUME NEW N, NEW q \in Seq(N), NEW n \in N
    PROVE  /\ Append(q, n) \in Seq(N) /\ Len(Append(q, n)) = Len(q) + 1 /\ Append(q, n)[Len(q) + 1] = n
           /\ \A i \in 1..Len(q) : Append(q, n)[i] = q[i]
           /\ Service!Front(Append(q, n)) = q /\ Service!IsPrefix(q, Append(q, n))
           /\ \A p \in Seq(N) : Service!IsPrefix(p, Append(q, n)) <=> Service!IsPrefix(p, q) \/ p = Append(q, n)
<1> DEFINE e == Append(q, n)
           k == Len(q)
<1>1. k \in Nat /\ \A i \in 1..k : q[i] \in N
    BY LenProperties, ElementOfSeq
<1>2. e \in Seq(N) /\ Len(e) = k + 1 /\ e[k + 1] = n /\ \A i \in 1..k : e[i] = q[i]
    BY AppendProperties
<1> HIDE DEF e, k
<1>3. Service!Front(e) = q
  <2>1. Len(e) - 1 = k
    BY <1>1, <1>2
  <2>2. \A i \in 1..k : e[i] \in N
    BY <1>1, <1>2
  <2>3. /\ SubSeq(e, 1, k) \in Seq(N) /\ Len(SubSeq(e, 1, k)) = (IF 1 <= k THEN k - 1 + 1 ELSE 0)
        /\ \A i \in 1..(k - 1 + 1) : SubSeq(e, 1, k)[i] = e[1 + i - 1]
    BY <1>1, <2>2, SubSeqProperties
  <2>4. Len(SubSeq(e, 1, k)) = k /\ \A i \in 1..k : SubSeq(e, 1, k)[i] = q[i]
    BY <1>1, <1>2, <2>3
  <2>5. SubSeq(e, 1, k) = q
    BY <2>3, <2>4, SeqEqual DEF k
  <2> QED
    BY <2>1, <2>5 DEF Service!Front
<1>4. Service!IsPrefix(q, e)
  <2>1. Len(q) <= Len(e) /\ \A i \in 1..Len(q) : q[i] = e[i]
    BY <1>1, <1>2 DEF k
  <2> QED
    BY <1>2, <2>1, PrefixPoint
<1>5. ASSUME NEW p \in Seq(N), Service!IsPrefix(p, e) PROVE Service!IsPrefix(p, q) \/ p = e
  <2>1. Len(p) \in Nat /\ Len(p) <= Len(e) /\ \A i \in 1..Len(p) : p[i] = e[i]
    BY <1>2, <1>5, PrefixPoint, LenProperties
  <2>2. CASE Len(p) = Len(e)
    BY <1>2, <2>1, <2>2, SeqEqual
  <2>3. CASE Len(p) # Len(e)
    <3>1. Len(p) <= Len(q) /\ \A i \in 1..Len(p) : p[i] = q[i]
      BY <1>1, <1>2, <2>1, <2>3 DEF k
    <3> QED
      BY <3>1, PrefixPoint
  <2> QED
    BY <2>2, <2>3
<1>6. ASSUME NEW p \in Seq(N), Service!IsPrefix(p, q) \/ p = e PROVE Service!IsPrefix(p, e)
  <2>1. CASE Service!IsPrefix(p, q)
    BY <1>2, <1>4, <2>1, PrefixTrans
  <2>2. CASE p = e
    <3>1. Len(p) \in Nat
      BY <1>2, <2>2, LenProperties
    <3>2. Len(p) <= Len(e) /\ \A i \in 1..Len(p) : p[i] = e[i]
      BY <2>2, <3>1
    <3> QED
      BY <1>2, <3>2, PrefixPoint
  <2> QED
    BY <1>6, <2>1, <2>2
<1> QED
    BY <1>2, <1>3, <1>4, <1>5, <1>6 DEF e, k

\* What is strictly below p is at or below an entry of p.
LEMMA StepBelow ==
    ASSUME NEW N, NEW p \in Seq(N), NEW q \in Seq(N), Service!IsPrefix(p, q), p # q
    PROVE  \E n \in N : Service!IsPrefix(Append(p, n), q)
<1> DEFINE n == q[Len(p) + 1]
<1>1. /\ Len(p) \in Nat /\ Len(q) \in Nat /\ Len(p) <= Len(q)
      /\ \A i \in 1..Len(p) : p[i] = q[i]
    BY PrefixPoint, LenProperties
<1>2. Len(p) # Len(q)
    BY <1>1, SeqEqual
<1>3. n \in N
    BY <1>1, <1>2, ElementOfSeq
<1> HIDE DEF n
<1>4. /\ Append(p, n) \in Seq(N) /\ Len(Append(p, n)) = Len(p) + 1 /\ Append(p, n)[Len(p) + 1] = n
      /\ \A i \in 1..Len(p) : Append(p, n)[i] = p[i]
    BY <1>3, AppendProperties
<1>5. Len(Append(p, n)) <= Len(q) /\ \A i \in 1..Len(Append(p, n)) : Append(p, n)[i] = q[i]
    BY <1>1, <1>2, <1>4 DEF n
<1> QED
    BY <1>3, <1>4, <1>5, PrefixPoint

LEMMA UnderPoint ==
    ASSUME NEW N, NEW p \in Seq(N), NEW q \in Seq(N), NEW r \in Seq(N), Service!IsPrefix(p, q)
    PROVE  LET u == Service!Under(q, p, r)
           IN  /\ u \in Seq(N) /\ Len(u) = Len(r) + (Len(q) - Len(p))
               /\ \A i \in 1..Len(u) : u[i] = IF i <= Len(r) THEN r[i] ELSE q[Len(p) + (i - Len(r))]
               /\ Service!IsPrefix(r, u)
<1> DEFINE t == SubSeq(q, Len(p) + 1, Len(q))
           m == Len(p) + 1
           n == Len(q)
           u == r \o t
<1>1. Len(p) \in Nat /\ Len(q) \in Nat /\ Len(r) \in Nat /\ Len(p) <= Len(q)
    BY PrefixPoint, LenProperties
<1>2. m \in Int /\ n \in Int /\ \A i \in m..n : q[i] \in N
    BY <1>1, ElementOfSeq
<1>3. /\ t \in Seq(N) /\ Len(t) = (IF m <= n THEN n - m + 1 ELSE 0)
      /\ \A i \in 1..(n - m + 1) : t[i] = q[m + i - 1]
  <2> HIDE DEF m, n
  <2>1. /\ SubSeq(q, m, n) \in Seq(N) /\ Len(SubSeq(q, m, n)) = (IF m <= n THEN n - m + 1 ELSE 0)
        /\ \A i \in 1..(n - m + 1) : SubSeq(q, m, n)[i] = q[m + i - 1]
    BY <1>2, SubSeqProperties
  <2> QED
    BY <2>1 DEF m, n
<1> HIDE DEF t
<1>4. /\ u \in Seq(N) /\ Len(u) = Len(r) + Len(t)
      /\ \A i \in 1..(Len(r) + Len(t)) : u[i] = IF i <= Len(r) THEN r[i] ELSE t[i - Len(r)]
    BY <1>3, ConcatProperties
<1> HIDE DEF u
<1>5. Len(t) = Len(q) - Len(p)
    BY <1>1, <1>3
<1>6. ASSUME NEW i \in 1..Len(u), ~(i <= Len(r)) PROVE u[i] = q[Len(p) + (i - Len(r))]
  <2>1. i \in 1..(Len(r) + Len(t)) /\ u[i] = t[i - Len(r)]
    BY <1>4, <1>6
  <2>2. i - Len(r) \in 1..(n - m + 1) /\ m + (i - Len(r)) - 1 = Len(p) + (i - Len(r))
    BY <1>1, <1>5, <1>6, <2>1
  <2> QED
    BY <1>3, <2>1, <2>2
<1>7. Service!IsPrefix(r, u)
  <2>1. Len(t) \in Nat /\ Len(r) <= Len(r) + Len(t)
    BY <1>1, <1>5
  <2>2. ASSUME NEW i \in 1..Len(r) PROVE r[i] = u[i]
    <3>1. i \in 1..(Len(r) + Len(t)) /\ i <= Len(r)
      BY <1>1, <2>1
    <3> QED
      BY <1>4, <3>1
  <2>3. Len(r) <= Len(u)
    BY <1>4, <2>1
  <2> QED
    BY <1>4, <2>2, <2>3, PrefixPoint
<1>8. Service!Under(q, p, r) = u
    BY DEF Service!Under, u, t
<1> QED
    BY <1>4, <1>5, <1>6, <1>7, <1>8

\* An entry moves with what it is in.
LEMMA UnderEntry ==
    ASSUME NEW N, NEW p \in Seq(N), NEW q \in Seq(N), NEW r \in Seq(N), Service!IsPrefix(p, q), NEW n \in N
    PROVE  Service!Under(Append(q, n), p, r) = Append(Service!Under(q, p, r), n)
<1> DEFINE e == Append(q, n)
           u == Service!Under(q, p, r)
           v == Service!Under(e, p, r)
           w == Append(u, n)
<1>1. /\ e \in Seq(N) /\ Len(e) = Len(q) + 1 /\ e[Len(q) + 1] = n
      /\ (\A i \in 1..Len(q) : e[i] = q[i]) /\ Service!IsPrefix(p, e)
    BY EntryPath
<1> HIDE DEF e
<1>2. /\ u \in Seq(N) /\ Len(u) = Len(r) + (Len(q) - Len(p))
      /\ \A i \in 1..Len(u) : u[i] = IF i <= Len(r) THEN r[i] ELSE q[Len(p) + (i - Len(r))]
    BY UnderPoint
<1> HIDE DEF u
<1>9. u \in Seq(N) /\ e \in Seq(N) /\ Service!IsPrefix(p, e)
    BY <1>1, <1>2
<1>3. /\ v \in Seq(N) /\ Len(v) = Len(r) + (Len(e) - Len(p))
      /\ \A i \in 1..Len(v) : v[i] = IF i <= Len(r) THEN r[i] ELSE e[Len(p) + (i - Len(r))]
    BY <1>9, UnderPoint
<1> HIDE DEF v
<1>4. w \in Seq(N) /\ Len(w) = Len(u) + 1 /\ w[Len(u) + 1] = n /\ \A i \in 1..Len(u) : w[i] = u[i]
    BY <1>9, AppendProperties
<1> HIDE DEF w
<1>5. Len(p) \in Nat /\ Len(q) \in Nat /\ Len(r) \in Nat /\ Len(p) <= Len(q)
    BY PrefixPoint, LenProperties
<1>6. Len(v) = Len(w) /\ Len(u) \in Nat /\ Len(r) <= Len(u)
    BY <1>1, <1>2, <1>3, <1>4, <1>5
<1>7. ASSUME NEW i \in 1..Len(v) PROVE v[i] = w[i]
  <2>1. CASE i <= Len(r)
    <3>1. i \in 1..Len(u)
      BY <1>5, <1>6, <2>1
    <3> QED
      BY <1>2, <1>3, <1>4, <2>1, <3>1
  <2>2. CASE ~(i <= Len(r)) /\ i <= Len(u)
    <3>1. i \in 1..Len(u) /\ Len(p) + (i - Len(r)) \in 1..Len(q)
      BY <1>2, <1>5, <1>6, <2>2
    <3>2. v[i] = e[Len(p) + (i - Len(r))] /\ w[i] = q[Len(p) + (i - Len(r))]
      BY <1>2, <1>3, <1>4, <2>2, <3>1
    <3> QED
      BY <1>1, <3>1, <3>2
  <2>3. CASE ~(i <= Len(u))
    <3>1. i = Len(u) + 1 /\ Len(p) + (i - Len(r)) = Len(q) + 1 /\ ~(i <= Len(r))
      BY <1>2, <1>4, <1>5, <1>6, <2>3
    <3>2. v[i] = e[Len(q) + 1] /\ w[i] = n
      BY <1>3, <1>4, <3>1
    <3> QED
      BY <1>1, <3>2
  <2> QED
    BY <2>1, <2>2, <2>3
<1>8. v = w
    BY <1>3, <1>4, <1>6, <1>7, SeqEqual
<1> QED
    BY <1>8 DEF e, u, v, w

\* What is above a moved path was above the path, or is above where it went.
LEMMA AboveMoved ==
    ASSUME NEW N, NEW p \in Seq(N), NEW y \in Seq(N), NEW r \in Seq(N), Service!IsPrefix(p, y),
           NEW z \in Seq(N), Service!IsPrefix(z, Service!Under(y, p, r))
    PROVE  \/ z # r /\ Service!IsPrefix(z, r) /\ r # << >> /\ Service!IsPrefix(z, Service!Front(r))
           \/ \E w \in Seq(N) : Service!IsPrefix(p, w) /\ Service!IsPrefix(w, y) /\ z = Service!Under(w, p, r)
<1> DEFINE u == Service!Under(y, p, r)
           w == Service!Under(z, r, p)
<1>1. /\ u \in Seq(N) /\ Len(u) = Len(r) + (Len(y) - Len(p))
      /\ \A i \in 1..Len(u) : u[i] = IF i <= Len(r) THEN r[i] ELSE y[Len(p) + (i - Len(r))]
    BY UnderPoint
<1>2. /\ Len(p) \in Nat /\ Len(y) \in Nat /\ Len(r) \in Nat /\ Len(p) <= Len(y) /\ Len(z) \in Nat
      /\ \A i \in 1..Len(p) : p[i] = y[i]
  <2>1. Len(p) \in Nat /\ Len(y) \in Nat /\ Len(r) \in Nat /\ Len(z) \in Nat
    BY LenProperties
  <2>2. Len(p) <= Len(y) /\ \A i \in 1..Len(p) : p[i] = y[i]
    BY PrefixPoint
  <2> QED
    BY <2>1, <2>2
<1>3. Len(z) <= Len(u) /\ \A i \in 1..Len(z) : z[i] = u[i]
    BY <1>1, PrefixPoint
<1> HIDE DEF u
<1>4. CASE Len(z) < Len(r)
  <2>1. /\ Len(z) <= Len(r) /\ \A i \in 1..Len(z) : z[i] = r[i]
    <3>1. \A i \in 1..Len(z) : i \in 1..Len(u) /\ i <= Len(r)
      BY <1>1, <1>2, <1>3, <1>4
    <3> QED
      BY <1>1, <1>2, <1>3, <1>4, <3>1
  <2>2. Service!IsPrefix(z, r) /\ z # r
    BY <1>2, <1>4, <2>1, PrefixPoint
  <2>3. r # << >>
    BY <1>2, <1>4
  <2> DEFINE f == Service!Front(r)
             k == Len(r) - 1
  <2>4. k \in Nat /\ \A i \in 1..k : r[i] \in N
    BY <1>2, <1>4, ElementOfSeq
  <2>5. f = SubSeq(r, 1, k)
    BY DEF Service!Front
  <2> HIDE DEF f, k
  <2>6. /\ f \in Seq(N) /\ Len(f) = (IF 1 <= k THEN k - 1 + 1 ELSE 0)
        /\ \A i \in 1..(k - 1 + 1) : f[i] = r[1 + i - 1]
    BY <2>4, <2>5, SubSeqProperties
  <2>7. Len(f) = k /\ \A i \in 1..k : f[i] = r[i]
    BY <2>4, <2>6
  <2>8. Len(z) <= Len(f) /\ \A i \in 1..Len(z) : z[i] = f[i]
    BY <1>2, <1>4, <2>1, <2>7 DEF k
  <2>9. Service!IsPrefix(z, f)
    BY <2>6, <2>8, PrefixPoint
  <2> QED
    BY <2>2, <2>3, <2>9 DEF f
<1>5. CASE ~(Len(z) < Len(r))
  <2>1. Service!IsPrefix(r, z)
    <3>1. Len(r) <= Len(z) /\ \A i \in 1..Len(r) : r[i] = z[i]
      BY <1>1, <1>2, <1>3, <1>5
    <3> QED
      BY <3>1, PrefixPoint
  <2>2. /\ w \in Seq(N) /\ Len(w) = Len(p) + (Len(z) - Len(r))
        /\ \A i \in 1..Len(w) : w[i] = IF i <= Len(p) THEN p[i] ELSE z[Len(r) + (i - Len(p))]
        /\ Service!IsPrefix(p, w)
    BY <2>1, UnderPoint
  <2>3. Service!Under(w, p, r) = z
    BY <2>1, UnderBack
  <2> HIDE DEF w
  <2>4. Len(w) <= Len(y)
    BY <1>1, <1>2, <1>3, <1>5, <2>2
  <2>5. ASSUME NEW i \in 1..Len(w) PROVE w[i] = y[i]
    <3>1. CASE i <= Len(p)
      BY <1>2, <2>2, <3>1
    <3>2. CASE ~(i <= Len(p))
      <4> DEFINE k == Len(r) + (i - Len(p))
      <4>1. k \in 1..Len(z) /\ k \in 1..Len(u) /\ ~(k <= Len(r)) /\ Len(p) + (k - Len(r)) = i
        BY <1>1, <1>2, <1>3, <1>5, <2>2, <3>2
      <4>2. w[i] = z[k]
        BY <2>2, <3>2
      <4> HIDE DEF k
      <4>3. z[k] = u[k] /\ u[k] = y[Len(p) + (k - Len(r))]
        BY <1>1, <1>3, <4>1
      <4> QED
        BY <4>1, <4>2, <4>3
    <3> QED
      BY <3>1, <3>2
  <2>6. Service!IsPrefix(w, y)
    BY <2>2, <2>4, <2>5, PrefixPoint
  <2> QED
    BY <2>2, <2>3, <2>6
<1> QED
    BY <1>4, <1>5

-----------------------------------------------------------------------------
(* The versions of a directory: who adds or takes an entry makes a new one. *)

\* What is above an existing path exists.
Rooted == \A q \in DOMAIN disk, p \in Seq(Service!PathNames) : Service!IsPrefix(p, q) => p \in DOMAIN disk

\* Of a step: the version of a directory is not brought back, and one that
\* stays has the entries it had, wherever the directory is.
Versioned ==
    /\ \A i \in 1..Len(obj) : obj[i].kind = "dir" =>
         obj'[i] = obj[i] \/ obj'[i].data[1] = obj[i].data[1] + 1
    /\ \A p \in DOMAIN disk' :
         LET i == disk'[p]
         IN  i \in 1..Len(obj) /\ obj[i].kind = "dir" /\ obj'[i] = obj[i] =>
               \E q \in DOMAIN disk :
                 /\ disk[q] = i
                 /\ \A n \in Service!PathNames : Append(p, n) \in DOMAIN disk' <=> Append(q, n) \in DOMAIN disk

\* Of a step: what was there is where it was, if it still is.
Unmoved == \A p \in DOMAIN disk' : disk'[p] \in 1..Len(obj) => p \in DOMAIN disk /\ disk[p] = disk'[p]

LEMMA Rooting ==
    ASSUME Sound, Rooted, NEW q \in DOMAIN disk
    PROVE  /\ q \in Seq(Service!PathNames)
           /\ q # << >> => Service!Front(q) \in DOMAIN disk
<1>1. q \in Seq(Service!PathNames)
    BY DEF Sound
<1>2. ASSUME q # << >> PROVE Service!Front(q) \in DOMAIN disk
  <2> DEFINE k == Len(q) - 1
             f == Service!Front(q)
  <2>1. Len(q) \in Nat \ {0}
    BY <1>1, <1>2, EmptySeq
  <2>2. k \in Nat /\ k <= Len(q) /\ \A i \in 1..k : q[i] \in Service!PathNames
    BY <1>1, <2>1, ElementOfSeq
  <2>3. f = SubSeq(q, 1, k)
    BY DEF Service!Front
  <2> HIDE DEF f, k
  <2>4. /\ f \in Seq(Service!PathNames) /\ Len(f) = (IF 1 <= k THEN k - 1 + 1 ELSE 0)
        /\ \A i \in 1..(k - 1 + 1) : f[i] = q[1 + i - 1]
    BY <2>2, <2>3, SubSeqProperties
  <2>5. Len(f) <= Len(q) /\ \A i \in 1..Len(f) : f[i] = q[i]
    BY <2>1, <2>2, <2>4
  <2>6. Service!IsPrefix(f, q)
    BY <1>1, <2>4, <2>5, PrefixPoint
  <2> QED
    BY <2>4, <2>6 DEF Rooted, f
<1> QED
    BY <1>1, <1>2

\* Entries that come or go give their directory a new version.
LEMMA EnteredVersions ==
    ASSUME Sound, NEW ps
    PROVE  LET e == Service!Entered(ps)
           IN  /\ \A i \in 1..Len(obj) : e[i] = obj[i] \/ e[i].data[1] = obj[i].data[1] + 1
               /\ \A q \in ps : Service!IsDir(Service!Front(q)) =>
                    LET i == disk[Service!Front(q)] IN e[i].data[1] = obj[i].data[1] + 1 /\ e[i] # obj[i]
<1> DEFINE dirs == {disk[Service!Front(p)] : p \in {q \in ps : Service!IsDir(Service!Front(q))}}
           e == Service!Entered(ps)
<1>1. e = [i \in DOMAIN obj |-> IF i \in dirs THEN [obj[i] EXCEPT !.data[1] = @ + 1] ELSE obj[i]]
    BY DEF Service!Entered
<1>2. \A q \in ps : Service!IsDir(Service!Front(q)) => disk[Service!Front(q)] \in dirs
    OBVIOUS
<1>3. DOMAIN obj = 1..Len(obj)
    BY LenProperties DEF Sound
<1>4. \A i \in dirs : i \in 1..Len(obj)
    BY DEF Service!IsDir, Service!Exists, Sound
<1> HIDE DEF dirs, e
<1>5. ASSUME NEW i \in 1..Len(obj), i \in dirs
      PROVE  e[i].data[1] = obj[i].data[1] + 1 /\ e[i] # obj[i]
  <2> DEFINE d == obj[i].data
  <2>1. d \in Nat \X Nat /\ d[1] \in Nat /\ obj[i] = [kind |-> obj[i].kind, data |-> d]
    BY ObjectAt
  <2>2. e[i] = [obj[i] EXCEPT !.data[1] = @ + 1]
    BY <1>1, <1>3, <1>5
  <2>3. [d EXCEPT ![1] = @ + 1][1] = d[1] + 1
    BY <2>1
  <2>4. e[i] = [kind |-> obj[i].kind, data |-> [d EXCEPT ![1] = @ + 1]]
    BY <2>1, <2>2
  <2>5. e[i].data[1] = d[1] + 1
    BY <2>3, <2>4
  <2> HIDE DEF d
  <2>6. d[1] + 1 # d[1]
    BY <2>1
  <2> QED
    BY <2>5, <2>6 DEF d
<1>6. ASSUME NEW i \in 1..Len(obj), i \notin dirs PROVE e[i] = obj[i]
    BY <1>1, <1>3, <1>6
<1> QED
    BY <1>2, <1>4, <1>5, <1>6 DEF e

LEMMA StayVersions ==
    ASSUME Sound, Rooted, UNCHANGED disk, \A i \in 1..Len(obj) : obj[i].kind = "dir" => obj'[i] = obj[i]
    PROVE  Rooted' /\ Versioned /\ Unmoved
BY DEF Rooted, Versioned, Unmoved

LEMMA PutVersions ==
    ASSUME Sound, Rooted, NEW p \in Seq(Service!PathNames), NEW o, Service!Put(p, o), Service!IsDir(Service!Front(p))
    PROVE  Rooted' /\ Versioned /\ Unmoved
<1> DEFINE e == Service!Entered({p})
           f == Service!Front(p)
<1>1. /\ e \in Seq(Service!Objects) /\ Len(e) = Len(obj) /\ Len(obj) \in Nat
    BY EnteredKeeps, LenProperties DEF Sound
<1>2. /\ \A i \in 1..Len(obj) : e[i] = obj[i] \/ e[i].data[1] = obj[i].data[1] + 1
      /\ e[disk[f]] # obj[disk[f]] /\ disk[f] \in 1..Len(obj) /\ f \in DOMAIN disk
    BY EnteredVersions DEF Service!IsDir, Service!Exists, Sound
<1>3. /\ DOMAIN disk' = DOMAIN disk \cup {p} /\ disk'[p] = Len(obj) + 1
      /\ \A q \in DOMAIN disk \ {p} : disk'[q] = disk[q]
      /\ obj' = Append(e, o)
    BY DEF Service!Put
<1> HIDE DEF e
<1>4. \A i \in 1..Len(obj) : obj'[i] = e[i]
  <2> DEFINE T == Service!Objects \cup {o}
  <2>1. e \in Seq(T) /\ o \in T
    BY <1>1
  <2> HIDE DEF T
  <2> QED
    BY <1>1, <1>3, <2>1, AppendProperties
<1>5. Unmoved
    BY <1>1, <1>3 DEF Unmoved
<1>6. Rooted'
  <2> SUFFICES ASSUME NEW q \in DOMAIN disk', NEW r \in Seq(Service!PathNames), Service!IsPrefix(r, q)
               PROVE  r \in DOMAIN disk'
    BY DEF Rooted
  <2>1. CASE q \in DOMAIN disk
    BY <1>3, <2>1 DEF Rooted
  <2>2. CASE q = p /\ p = << >>
    <3>1. Len(r) \in Nat /\ Len(r) <= 0 /\ << >> \in Seq(Service!PathNames) /\ Len(<< >>) = 0
      BY <2>2, PrefixPoint, LenProperties, EmptySeq
    <3>2. r = << >>
      BY <3>1, SeqEqual
    <3> QED
      BY <1>3, <2>2, <3>2
  <2>3. CASE q = p /\ p # << >>
    <3>1. PICK n \in Service!PathNames : p = Append(f, n) /\ f \in Seq(Service!PathNames)
      <4> DEFINE k == Len(p) - 1
      <4>1. Len(p) \in Nat \ {0} /\ k \in Nat /\ k + 1 = Len(p)
        BY <2>3, EmptySeq
      <4>2. f = SubSeq(p, 1, k)
        BY DEF Service!Front
      <4>3. p[Len(p)] \in Service!PathNames /\ \A i \in 1..k : p[i] \in Service!PathNames
        BY <4>1, ElementOfSeq
      <4> HIDE DEF k, f
      <4>4. /\ f \in Seq(Service!PathNames) /\ Len(f) = (IF 1 <= k THEN k - 1 + 1 ELSE 0)
            /\ \A i \in 1..(k - 1 + 1) : f[i] = p[1 + i - 1]
        BY <4>1, <4>2, <4>3, SubSeqProperties
      <4> DEFINE a1 == Append(f, p[Len(p)])
      <4>5. /\ a1 \in Seq(Service!PathNames) /\ Len(a1) = Len(f) + 1 /\ a1[Len(f) + 1] = p[Len(p)]
            /\ \A i \in 1..Len(f) : a1[i] = f[i]
        BY <4>3, <4>4, AppendProperties
      <4> HIDE DEF a1
      <4>6. Len(f) = k /\ \A i \in 1..k : f[i] = p[i]
        BY <4>1, <4>4
      <4>7. Len(a1) = Len(p) /\ \A i \in 1..Len(a1) : a1[i] = p[i]
        BY <4>1, <4>5, <4>6
      <4>8. a1 = p
        BY <4>5, <4>7, SeqEqual
      <4> QED
        BY <4>3, <4>4, <4>8 DEF a1
    <3>2. Service!IsPrefix(r, f) \/ r = p
      <4>1. Service!IsPrefix(r, Append(f, n))
        BY <2>3, <3>1
      <4> HIDE DEF f
      <4>2. Service!IsPrefix(r, f) \/ r = Append(f, n)
        BY <3>1, <4>1, EntryPath
      <4> QED
        BY <3>1, <4>2
    <3> QED
      BY <1>2, <1>3, <3>2 DEF Rooted
  <2> QED
    BY <1>3, <2>1, <2>2, <2>3
<1>7. ASSUME NEW q \in DOMAIN disk', disk'[q] \in 1..Len(obj), obj'[disk'[q]] = obj[disk'[q]]
      PROVE  /\ q \in DOMAIN disk /\ disk[q] = disk'[q]
             /\ \A n \in Service!PathNames : Append(q, n) \in DOMAIN disk' <=> Append(q, n) \in DOMAIN disk
  <2>1. q \in DOMAIN disk /\ disk[q] = disk'[q] /\ q \in Seq(Service!PathNames)
    BY <1>5, <1>7 DEF Unmoved, Sound
  <2>2. q # f
    BY <1>2, <1>4, <1>7, <2>1
  <2>3. \A n \in Service!PathNames : Append(q, n) # p
    BY <2>1, <2>2, EntryPath
  <2> QED
    BY <1>3, <2>1, <2>3
<1> QED
    BY <1>2, <1>4, <1>5, <1>6, <1>7 DEF Versioned

LEMMA DropVersions ==
    ASSUME Sound, Rooted, NEW p \in DOMAIN disk, Service!Drop(p), Service!Children(p) = {}
    PROVE  Rooted' /\ Versioned /\ Unmoved
<1> DEFINE f == Service!Front(p)
<1>1. p \in Seq(Service!PathNames) /\ (p # << >> => f \in DOMAIN disk)
    BY Rooting
<1>2. \A i \in 1..Len(obj) : obj'[i] = obj[i] \/ obj'[i].data[1] = obj[i].data[1] + 1
    BY EnteredVersions DEF Service!Drop
<1>3. f \in DOMAIN disk /\ obj[disk[f]].kind = "dir" => obj'[disk[f]] # obj[disk[f]]
    BY EnteredVersions DEF Service!Drop, Service!IsDir, Service!Exists
<1>4. DOMAIN disk' = DOMAIN disk \ {p} /\ \A q \in DOMAIN disk \ {p} : disk'[q] = disk[q]
    BY DEF Service!Drop
<1> HIDE DEF f
<1>5. Unmoved
    BY <1>4 DEF Unmoved
<1>6. Rooted'
  <2> SUFFICES ASSUME NEW q \in DOMAIN disk', NEW r \in Seq(Service!PathNames), Service!IsPrefix(r, q)
               PROVE  r \in DOMAIN disk'
    BY DEF Rooted
  <2>1. q \in DOMAIN disk /\ q # p /\ r \in DOMAIN disk /\ q \in Seq(Service!PathNames)
    BY <1>4 DEF Rooted, Sound
  <2>2. ASSUME r = p PROVE FALSE
    <3>1. PICK n \in Service!PathNames : Service!IsPrefix(Append(p, n), q)
      BY <1>1, <2>1, <2>2, StepBelow
    <3>2. /\ Append(p, n) \in Seq(Service!PathNames) /\ Len(Append(p, n)) = Len(p) + 1
          /\ Service!IsPrefix(p, Append(p, n))
      BY <1>1, EntryPath
    <3>3. Append(p, n) \in Service!Children(p)
      BY <2>1, <3>1, <3>2 DEF Rooted, Service!Children
    <3> QED
      BY <3>3
  <2> QED
    BY <1>4, <2>1, <2>2
<1>7. ASSUME NEW q \in DOMAIN disk', obj[disk'[q]].kind = "dir", obj'[disk'[q]] = obj[disk'[q]]
      PROVE  /\ q \in DOMAIN disk /\ disk[q] = disk'[q]
             /\ \A n \in Service!PathNames : Append(q, n) \in DOMAIN disk' <=> Append(q, n) \in DOMAIN disk
  <2>1. q \in DOMAIN disk /\ disk[q] = disk'[q] /\ q \in Seq(Service!PathNames)
    BY <1>4 DEF Sound
  <2>2. q # f
    BY <1>3, <1>7, <2>1
  <2>3. \A n \in Service!PathNames : Append(q, n) # p
    BY <2>1, <2>2, EntryPath DEF f
  <2> QED
    BY <1>4, <2>1, <2>3
<1> QED
    BY <1>2, <1>5, <1>6, <1>7 DEF Versioned

LEMMA MoveVersions ==
    ASSUME Sound, Rooted, Service!Parameters, NEW c \in Calls, Service!Renames(c),
           obj' = Service!Entered({c.src, c.dst}),
           LET moved == {Service!Under(q, c.src, c.dst) : q \in Service!Subtree(c.src)}
           IN  disk' = [q \in (DOMAIN disk \ (Service!Subtree(c.src) \cup {c.dst})) \cup moved |->
                          IF q \in moved THEN disk[Service!Under(q, c.dst, c.src)] ELSE disk[q]]
    PROVE  Rooted' /\ Versioned
<1> DEFINE N == Service!PathNames
           src == c.src
           dst == c.dst
           sub == Service!Subtree(c.src)
           moved == {Service!Under(q, c.src, c.dst) : q \in sub}
           to(x) == Service!Under(x, src, dst)
           from(x) == Service!Under(x, dst, src)
<1>1. /\ DOMAIN disk' = (DOMAIN disk \ (sub \cup {dst})) \cup moved
      /\ \A x \in DOMAIN disk' : disk'[x] = IF x \in moved THEN disk[from(x)] ELSE disk[x]
    OBVIOUS
<1>2. src \in Seq(N) /\ dst \in Seq(N)
    BY DEF Service!Parameters
<1>3. \A q \in DOMAIN disk : q \in Seq(N) /\ disk[q] \in 1..Len(obj)
    BY DEF Sound
<1>4. \A q : q \in sub <=> q \in DOMAIN disk /\ Service!IsPrefix(src, q)
    BY DEF Service!Subtree
<1>5. ASSUME NEW q \in sub
      PROVE  to(q) \in Seq(N) /\ to(q) \in moved /\ Service!IsPrefix(dst, to(q)) /\ from(to(q)) = q
    BY <1>2, <1>3, <1>4, UnderBack, UnderPoint
<1>6. \A x \in moved : x \in Seq(N) /\ Service!IsPrefix(dst, x) /\ from(x) \in sub /\ x = to(from(x))
    BY <1>5
<1>7. /\ Service!Front(dst) \in DOMAIN disk /\ obj[disk[Service!Front(dst)]].kind = "dir"
      /\ ~Service!IsPrefix(src, dst)
      /\ dst \in DOMAIN disk => Service!Children(dst) = {}
    BY DEF Service!Renames, Service!IsDir, Service!Exists
<1>8. \A i \in 1..Len(obj) : obj'[i] = obj[i] \/ obj'[i].data[1] = obj[i].data[1] + 1
    BY EnteredVersions
<1>9. \A q \in {src, dst} : Service!Front(q) \in DOMAIN disk /\ obj[disk[Service!Front(q)]].kind = "dir" =>
         obj'[disk[Service!Front(q)]] # obj[disk[Service!Front(q)]]
    BY EnteredVersions DEF Service!IsDir, Service!Exists
<1> HIDE DEF N, src, dst, sub, moved, to, from
\* Where a tree goes, nothing is.
<1>10. ASSUME NEW q \in DOMAIN disk, Service!IsPrefix(dst, q) PROVE q = dst
  <2> SUFFICES ASSUME q # dst PROVE FALSE
    OBVIOUS
  <2>1. PICK n \in N : Service!IsPrefix(Append(dst, n), q)
    BY <1>2, <1>3, <1>10, StepBelow
  <2>2. /\ Append(dst, n) \in Seq(N) /\ Len(Append(dst, n)) = Len(dst) + 1
        /\ Service!IsPrefix(dst, Append(dst, n))
    BY <1>2, EntryPath
  <2>3. dst \in DOMAIN disk /\ Append(dst, n) \in DOMAIN disk
    BY <1>2, <1>10, <2>1, <2>2 DEF Rooted, N
  <2>4. Append(dst, n) \in Service!Children(dst)
    BY <2>2, <2>3 DEF Service!Children
  <2> QED
    BY <1>7, <2>3, <2>4
<1>11. ASSUME NEW x \in DOMAIN disk', x \notin moved
       PROVE  x \in DOMAIN disk /\ x \notin sub /\ x # dst /\ disk'[x] = disk[x] /\ ~Service!IsPrefix(dst, x)
    BY <1>1, <1>10, <1>11
<1>12. Rooted'
  <2> SUFFICES ASSUME NEW q \in DOMAIN disk', NEW r \in Seq(N), Service!IsPrefix(r, q) PROVE r \in DOMAIN disk'
    BY DEF Rooted, N
  <2>1. CASE q \notin moved
    <3>1. q \in DOMAIN disk /\ q \in Seq(N) /\ q \notin sub /\ ~Service!IsPrefix(dst, q)
      BY <1>3, <1>11, <2>1
    <3>2. r \in DOMAIN disk
      BY <3>1 DEF Rooted, N
    <3>3. r \notin sub /\ r # dst
      BY <1>2, <1>4, <3>1, PrefixTrans
    <3> QED
      BY <1>1, <3>2, <3>3
  <2>2. CASE q \in moved
    <3> DEFINE y == from(q)
    <3>1. y \in sub /\ y \in DOMAIN disk /\ y \in Seq(N) /\ Service!IsPrefix(src, y) /\ q = Service!Under(y, src, dst)
      BY <1>3, <1>4, <1>6, <2>2 DEF to
    <3> HIDE DEF y
    <3>2. \/ r # dst /\ Service!IsPrefix(r, dst) /\ dst # << >> /\ Service!IsPrefix(r, Service!Front(dst))
          \/ \E w \in Seq(N) : Service!IsPrefix(src, w) /\ Service!IsPrefix(w, y) /\ r = Service!Under(w, src, dst)
      BY <1>2, <3>1, AboveMoved
    <3>3. CASE r # dst /\ Service!IsPrefix(r, dst) /\ Service!IsPrefix(r, Service!Front(dst))
      <4>1. r \in DOMAIN disk
        BY <1>7, <3>3 DEF Rooted, N
      <4>2. r \notin sub
        BY <1>2, <1>4, <1>7, <3>3, PrefixTrans
      <4> QED
        BY <1>1, <3>3, <4>1, <4>2
    <3>4. CASE \E w \in Seq(N) : Service!IsPrefix(src, w) /\ Service!IsPrefix(w, y) /\ r = Service!Under(w, src, dst)
      <4>1. PICK w \in Seq(N) : Service!IsPrefix(src, w) /\ Service!IsPrefix(w, y) /\ r = Service!Under(w, src, dst)
        BY <3>4
      <4>2. w \in sub
        BY <1>4, <3>1, <4>1 DEF Rooted, N
      <4>3. r \in moved
        BY <1>5, <4>1, <4>2 DEF to
      <4> QED
        BY <1>1, <4>3
    <3> QED
      BY <3>2, <3>3, <3>4
  <2> QED
    BY <2>1, <2>2
<1>13. ASSUME NEW x \in DOMAIN disk', x \notin moved, obj[disk'[x]].kind = "dir", obj'[disk'[x]] = obj[disk'[x]],
              NEW n \in N
       PROVE  Append(x, n) \in DOMAIN disk' <=> Append(x, n) \in DOMAIN disk
  <2> DEFINE e == Append(x, n)
  <2>1. x \in DOMAIN disk /\ x \notin sub /\ disk'[x] = disk[x] /\ ~Service!IsPrefix(dst, x) /\ x \in Seq(N)
    BY <1>3, <1>11, <1>13
  <2>2. x # Service!Front(src) /\ x # Service!Front(dst)
    BY <1>9, <1>13, <2>1
  <2>3. /\ e \in Seq(N) /\ Service!Front(e) = x
        /\ \A p \in Seq(N) : Service!IsPrefix(p, e) <=> Service!IsPrefix(p, x) \/ p = e
    BY <2>1, EntryPath
  <2> HIDE DEF e
  <2>4. e # src /\ e # dst
    BY <2>2, <2>3
  <2>5. ~Service!IsPrefix(dst, e) /\ ~Service!IsPrefix(src, e)
    BY <1>2, <1>4, <2>1, <2>3, <2>4
  <2>6. e \notin moved /\ e \notin sub
    BY <1>4, <1>6, <2>5
  <2> QED
    BY <1>1, <2>4, <2>6 DEF e
<1>14. ASSUME NEW x \in moved, NEW n \in N
       PROVE  Append(x, n) \in DOMAIN disk' <=> Append(from(x), n) \in DOMAIN disk
  <2> DEFINE y == from(x)
             e == Append(x, n)
             g == Append(y, n)
  <2>1. /\ x \in Seq(N) /\ Service!IsPrefix(dst, x) /\ x = Service!Under(y, src, dst) /\ y = Service!Under(x, dst, src)
        /\ y \in Seq(N) /\ Service!IsPrefix(src, y)
    BY <1>3, <1>4, <1>6 DEF to, from
  <2>2. /\ e \in Seq(N) /\ Service!IsPrefix(dst, e) /\ Len(e) = Len(x) + 1
        /\ g \in Seq(N) /\ Service!IsPrefix(src, g)
    BY <1>2, <2>1, EntryPath
  <2>3. g = from(e)
    BY <1>2, <2>1, UnderEntry DEF from
  <2>4. e = to(g)
    BY <1>2, <2>1, UnderEntry DEF to
  <2> HIDE DEF e, g, y
  <2>5. g \in DOMAIN disk => e \in DOMAIN disk'
    BY <1>1, <1>4, <1>5, <2>2, <2>4
  <2>6. e \in DOMAIN disk' => e \in moved
    BY <1>11, <2>2
  <2>7. e \in moved => g \in DOMAIN disk
    BY <1>4, <1>6, <2>3
  <2> QED
    BY <2>5, <2>6, <2>7 DEF e, g, y
<1>15. ASSUME NEW x \in DOMAIN disk', obj[disk'[x]].kind = "dir", obj'[disk'[x]] = obj[disk'[x]]
       PROVE  \E q \in DOMAIN disk :
                 /\ disk[q] = disk'[x]
                 /\ \A n \in N : Append(x, n) \in DOMAIN disk' <=> Append(q, n) \in DOMAIN disk
  <2>1. CASE x \in moved
    <3>1. from(x) \in DOMAIN disk /\ disk'[x] = disk[from(x)]
      BY <1>1, <1>4, <1>6, <2>1
    <3> QED
      BY <1>14, <2>1, <3>1
  <2>2. CASE x \notin moved
    BY <1>11, <1>13, <1>15, <2>2
  <2> QED
    BY <2>1, <2>2
<1> QED
    BY <1>8, <1>12, <1>15 DEF Versioned, N

\* What the editor has half rewritten is a file.
WritesFile == writing # Free => writing \in 1..Len(obj) /\ obj[writing].kind = "file"

LEMMA ServiceVersions ==
    ASSUME Service!Parameters, ServiceEffects, Sound, Rooted, NEW c \in DOMAIN job, Service!Service(c),
           Knows(job[c], c, obj, edits)
    PROVE  Rooted' /\ Versioned /\ UNCHANGED writing
<1>0. c \in Calls /\ PlannedSoFar(job[c], c, obj)
    BY DEF ServiceEffects, Knows
<1>8. UNCHANGED writing
    BY DEF Service!Service, Service!Enter, Service!Abort,
           Service!Visit, Service!Open, Service!Verify, Service!Chunk, Service!Stage, Service!LookAgain,
           Service!CommitWrite, Service!AfterWrite, Service!Probe, Service!MakeDir, Service!LookAtDir,
           Service!Apply, Service!LookAtVictim, Service!RemoveOne, Service!RecheckMove, Service!CommitMove,
           Service!AfterMove, Service!ListBegins, Service!Enumerate, Service!ListEnds, Service!Editor
<1>1. ASSUME UNCHANGED <<disk, obj>> PROVE Rooted' /\ Versioned
    BY <1>1, StayVersions
<1>2. CASE Service!CommitWrite(c) /\ ~Service!Fails(c)
  <2>1. /\ job[c].at = "ready" /\ Service!IsDir(Service!Front(Service!Target(c)))
        /\ Service!Put(Service!Target(c), Service!Object("file", Service!Written(c)))
    BY <1>2 DEF Service!CommitWrite
  <2> QED
    BY <1>0, <1>8, <2>1, TargetPath, PutVersions
<1>3. CASE Service!MakeDir(c) /\ ~Service!Fails(c)
  <2>1. /\ job[c].at = "mkdir" /\ Service!IsDir(Service!Front(Service!Target(c)))
        /\ Service!Put(Service!Target(c), Service!Object("dir", Service!NoData))
    BY <1>3 DEF Service!MakeDir
  <2> QED
    BY <1>0, <1>8, <2>1, TargetPath, PutVersions
<1>4. CASE Service!RemoveOne(c) /\ ~Service!Fails(c)
  <2>1. LET p == Service!Victim(c).path IN p \in DOMAIN disk /\ Service!Children(p) = {} /\ Service!Drop(p)
    BY <1>4 DEF Service!RemoveOne, Service!Exists
  <2> QED
    BY <1>8, <2>1, DropVersions
<1>5. CASE Service!CommitMove(c) /\ ~Service!Fails(c)
    BY <1>0, <1>5, <1>8, MoveVersions DEF Service!CommitMove
<1>6. CASE Service!Fails(c)
    BY <1>1, <1>6, <1>8 DEF Service!Fails, Service!Tree
<1>7. ASSUME ~Service!Fails(c), ~Service!CommitWrite(c), ~Service!MakeDir(c), ~Service!RemoveOne(c),
             ~Service!CommitMove(c)
      PROVE  UNCHANGED <<disk, obj>>
    BY <1>7 DEF Service!Service, Service!Enter, Service!Abort,
           Service!Visit, Service!Open, Service!Verify, Service!Chunk, Service!Stage, Service!LookAgain,
           Service!AfterWrite, Service!Probe, Service!LookAtDir, Service!Apply, Service!LookAtVictim,
           Service!RecheckMove, Service!AfterMove, Service!ListBegins, Service!Enumerate,
           Service!ListEnds, Service!Tree
<1> QED
    BY <1>1, <1>2, <1>3, <1>4, <1>5, <1>6, <1>7, <1>8

LEMMA EditorVersions ==
    ASSUME Service!Parameters, Sound, Rooted, WritesFile, NEW p \in Paths,
           \/ Service!EditBegins(p) \/ Service!EditEnds(p) \/ Service!Replace(p) \/ Service!Delete(p)
    PROVE  Rooted' /\ Versioned /\ Unmoved /\ (writing' \in {writing, Free} \/ Service!EditBegins(p))
<1>0. p \in Seq(Service!PathNames) /\ DOMAIN obj = 1..Len(obj) /\ Free \notin Nat
    BY LenProperties DEF Service!Parameters, Sound
<1>1. ASSUME NEW i \in 1..Len(obj), obj[i].kind = "file", NEW o, obj' = [obj EXCEPT ![i] = o], disk' = disk
      PROVE  Rooted' /\ Versioned /\ Unmoved
  <2>1. \A n \in 1..Len(obj) : obj[n].kind = "dir" => obj'[n] = obj[n]
    BY <1>0, <1>1
  <2> QED
    BY <1>1, <2>1, StayVersions
<1>2. CASE Service!EditBegins(p)
  <2>1. /\ disk[p] \in 1..Len(obj) /\ obj[disk[p]].kind = "file" /\ disk' = disk
        /\ obj' = [obj EXCEPT ![disk[p]].data[1] = edits + Service!FirstText]
    BY <1>2 DEF Service!EditBegins, Service!IsFile, Service!Exists, Sound
  <2>2. obj' = [obj EXCEPT ![disk[p]] = [obj[disk[p]] EXCEPT !.data[1] = edits + Service!FirstText]]
    BY <2>1
  <2> QED
    BY <1>1, <1>2, <2>1, <2>2
<1>3. CASE Service!EditEnds(p)
  <2>1. /\ disk[p] \in 1..Len(obj) /\ disk[p] = writing /\ disk' = disk /\ writing' = Free
        /\ obj' = [obj EXCEPT ![disk[p]].data[2] = obj[disk[p]].data[1]]
    BY <1>3 DEF Service!EditEnds, Service!Exists, Sound
  <2>2. obj' = [obj EXCEPT ![disk[p]] = [obj[disk[p]] EXCEPT !.data[2] = obj[disk[p]].data[1]]]
    BY <2>1
  <2>3. obj[disk[p]].kind = "file"
    BY <1>0, <2>1 DEF WritesFile
  <2> QED
    BY <1>1, <2>1, <2>2, <2>3
<1>4. CASE Service!Replace(p)
  <2>1. /\ Service!IsDir(Service!Front(p)) /\ writing' = writing
        /\ \E d : Service!Put(p, Service!Object("file", d))
    BY <1>4 DEF Service!Replace
  <2> QED
    BY <1>0, <2>1, PutVersions
<1>5. CASE Service!Delete(p)
  <2>1. p \in DOMAIN disk /\ Service!Children(p) = {} /\ Service!Drop(p) /\ writing' = writing
    BY <1>5 DEF Service!Delete, Service!Exists
  <2> QED
    BY <2>1, DropVersions
<1> QED
    BY <1>2, <1>3, <1>4, <1>5

LEMMA WritesKept ==
    ASSUME Sound, Sound', Grows, WritesFile,
           \/ writing' \in {writing, Free}
           \/ writing' \in 1..Len(obj) /\ obj[writing'].kind = "file"
    PROVE  WritesFile'
<1>1. Len(obj) \in Nat /\ Len(obj') \in Nat
    BY LenProperties DEF Sound
<1> QED
    BY <1>1 DEF WritesFile, Grows

-----------------------------------------------------------------------------
(* Listings: what is shown and what is left is, together, what there is.    *)

\* The entries of p in a tree, as they are called when p is at x.
Below(D, p, x) == {Append(x, n) : n \in {m \in Service!PathNames : Append(p, m) \in DOMAIN D}}

\* All that a listing has shown and has still to show.
Listed(j) == IF j.at = "compare" THEN (j.shown \o j.got) \o j.todo ELSE j.shown \o j.todo

Listing == {"page", "enumerate", "compare"}

\* A listing in progress, in a tree D of objects o.  It knows a version of a
\* directory that was there; with the lock, the directory is where it is asked
\* for, if anywhere; and once it is enumerated, wherever that version of it is,
\* its entries are the ones listed.
ListedSoFar(j, c, D, o) ==
    c.op = "list" =>
      /\ j.at = "idle" => j.shown = << >>
      /\ j.at \in Listing => /\ j.shown \in Seq(Seq(Service!PathNames))
                             /\ j.todo \in Seq(Seq(Service!PathNames))
      /\ j.at = "compare" => j.got \in Seq(Seq(Service!PathNames))
      /\ j.at \in {"enumerate", "compare"} \/ (j.at = "page" /\ j.shown # << >>) =>
           /\ j.stamp[1] \in 1..Len(o) /\ o[j.stamp[1]].kind = "dir"
           /\ j.stamp[2][1] \in Nat /\ j.stamp[2][1] <= o[j.stamp[1]].data[1]
      /\ j.at \in {"enumerate", "compare"} => \A p \in DOMAIN D : D[p] = j.stamp[1] => p = c.src
      /\ j.at = "compare" \/ (j.at \in Listing /\ j.shown # << >>) =>
           \A p \in DOMAIN D : j.stamp = <<D[p], o[D[p]].data>> =>
              Listed(j) = Service!SetToSeq(Below(D, p, c.src))

\* What a listing knows stays true of a tree that changes.
LEMMA ListingKept ==
    ASSUME Sound, Sound', Grows, Versioned, NEW c, NEW j, ListedSoFar(j, c, disk, obj),
           Unmoved \/ j.at \notin {"enumerate", "compare"}
    PROVE  ListedSoFar(j, c, disk', obj')
<1> SUFFICES ASSUME c.op = "list" PROVE ListedSoFar(j, c, disk', obj')
    BY DEF ListedSoFar
<1> DEFINE chained == j.at \in {"enumerate", "compare"} \/ (j.at = "page" /\ j.shown # << >>)
           i == j.stamp[1]
           v == j.stamp[2][1]
<1>1. ASSUME chained
      PROVE  /\ i \in 1..Len(obj) /\ obj[i].kind = "dir" /\ v \in Nat /\ v <= obj[i].data[1]
             /\ obj[i].data[1] \in Nat
             /\ i \in 1..Len(obj') /\ obj'[i].kind = "dir" /\ v <= obj'[i].data[1]
             /\ obj'[i] = obj[i] \/ obj'[i].data[1] = obj[i].data[1] + 1
  <2>1. i \in 1..Len(obj) /\ obj[i].kind = "dir" /\ v \in Nat /\ v <= obj[i].data[1]
    BY <1>1 DEF ListedSoFar
  <2>2. obj[i].data[1] \in Nat /\ Len(obj) \in Nat /\ Len(obj') \in Nat
    BY <2>1, ObjectAt, LenProperties DEF Sound
  <2>3. obj'[i].kind = "dir" /\ i \in 1..Len(obj')
    BY <2>1, <2>2 DEF Grows
  <2>4. obj'[i] = obj[i] \/ obj'[i].data[1] = obj[i].data[1] + 1
    BY <2>1 DEF Versioned
  <2> HIDE DEF i, v
  <2>5. v <= obj'[i].data[1]
    BY <2>1, <2>2, <2>4
  <2> QED
    BY <2>1, <2>2, <2>3, <2>4, <2>5
<1>2. ASSUME j.at \in {"enumerate", "compare"}, NEW p \in DOMAIN disk', disk'[p] = i PROVE p = c.src
  <2>1. p \in DOMAIN disk /\ disk[p] = i
    BY <1>1, <1>2 DEF Unmoved
  <2> QED
    BY <1>2, <2>1 DEF ListedSoFar
<1>3. ASSUME j.at = "compare" \/ (j.at \in Listing /\ j.shown # << >>),
             NEW p \in DOMAIN disk', j.stamp = <<disk'[p], obj'[disk'[p]].data>>
      PROVE  Listed(j) = Service!SetToSeq(Below(disk', p, c.src))
  <2>1. chained
    BY <1>3 DEF Listing
  <2>2. disk'[p] = i /\ v = obj'[i].data[1] /\ j.stamp = <<i, obj'[i].data>>
    BY <1>3
  <2>3. obj'[i] = obj[i]
    <3> HIDE DEF chained, i, v
    <3> QED
      BY <1>1, <2>1, <2>2
  <2>4. PICK q \in DOMAIN disk :
           /\ disk[q] = i
           /\ \A n \in Service!PathNames : Append(p, n) \in DOMAIN disk' <=> Append(q, n) \in DOMAIN disk
    BY <1>1, <2>1, <2>2, <2>3 DEF Versioned
  <2>5. j.stamp = <<disk[q], obj[disk[q]].data>>
    BY <2>2, <2>3, <2>4
  <2>6. Listed(j) = Service!SetToSeq(Below(disk, q, c.src))
    BY <1>3, <2>5 DEF ListedSoFar
  <2>7. Below(disk, q, c.src) = Below(disk', p, c.src)
    BY <2>4 DEF Below
  <2> QED
    BY <2>6, <2>7
<1> QED
    BY <1>1, <1>2, <1>3 DEF ListedSoFar

\* The file service counts as FiniteSets does.
LEMMA SameCount ==
    ASSUME NEW S
    PROVE  Service!Cardinality(S) = Cardinality(S)
BY DEF Cardinality, Service!Cardinality

\* A finite set in some order: each of its elements once.
LEMMA SetInOrder ==
    ASSUME NEW S, IsFiniteSet(S)
    PROVE  LET e == Service!SetToSeq(S)
           IN  e \in Seq(S) /\ Len(e) = Service!Cardinality(S) /\ Service!ToSet(e) = S
<1> DEFINE n == Cardinality(S)
           e == Service!SetToSeq(S)
<1>1. n \in Nat /\ ExistsBijection(1..n, S)
    BY FS_CardinalityType
<1>2. \E f \in [1..n -> S] : Service!IsInjective(f)
    BY <1>1 DEF ExistsBijection, Bijection, Injection, IsInjective, Service!IsInjective
<1>3. e \in [1..n -> S] /\ Service!IsInjective(e)
  <2>1. e = CHOOSE f \in [1..n -> S] : Service!IsInjective(f)
    BY SameCount DEF Service!SetToSeq
  <2> HIDE DEF e, n
  <2> QED
    BY <1>2, <2>1, Zenon
<1> HIDE DEF e
<1>4. IsFiniteSet(1..n) /\ Cardinality(1..n) = n
    BY <1>1, FS_Interval
<1>5. e \in Injection(1..n, S)
    BY <1>3 DEF Injection, IsInjective, Service!IsInjective
<1>6. e \in Surjection(1..n, S)
    BY <1>4, <1>5, FS_Injection
<1>7. e \in Seq(S) /\ Len(e) = n /\ DOMAIN e = 1..n
  <2> HIDE DEF n
  <2>1. e \in Seq(S)
    BY <1>1, <1>3, SeqDef
  <2> QED
    BY <1>1, <1>3, <2>1, LenProperties
<1>8. Service!ToSet(e) = S
    BY <1>3, <1>6 DEF Surjection, Service!ToSet
<1> QED
    BY <1>7, <1>8, SameCount DEF e

\* Every object has one path at most, so there are no more paths than objects.
LEMMA FiniteTree ==
    ASSUME Sound
    PROVE  IsFiniteSet(DOMAIN disk)
<1> DEFINE f == [p \in DOMAIN disk |-> disk[p]]
<1>1. Len(obj) \in Nat
    BY LenProperties DEF Sound
<1>2. f \in [DOMAIN disk -> 1..Len(obj)] /\ \A p, q \in DOMAIN disk : f[p] = f[q] => p = q
    BY DEF Sound
<1>3. f \in Injection(DOMAIN disk, 1..Len(obj))
    BY <1>2 DEF Injection, IsInjective
<1>4. IsFiniteSet(1..Len(obj))
    BY <1>1, FS_Interval
<1> QED
    BY <1>3, <1>4, FS_Injection

LEMMA EntriesOf ==
    ASSUME Sound, NEW p \in Seq(Service!PathNames)
    PROVE  /\ Service!Children(p) = Below(disk, p, p) /\ IsFiniteSet(Service!Children(p))
           /\ Service!Entries(p) = Service!SetToSeq(Below(disk, p, p))
           /\ Service!Entries(p) \in Seq(Seq(Service!PathNames))
<1>1. Service!Children(p) \subseteq DOMAIN disk /\ DOMAIN disk \subseteq Seq(Service!PathNames)
    BY DEF Service!Children, Sound
<1>2. IsFiniteSet(Service!Children(p))
    BY <1>1, FiniteTree, FS_Subset
<1>3. Service!Children(p) \subseteq Below(disk, p, p)
  <2> SUFFICES ASSUME NEW q \in Service!Children(p) PROVE q \in Below(disk, p, p)
    OBVIOUS
  <2>1. q \in DOMAIN disk /\ q \in Seq(Service!PathNames) /\ Len(q) = Len(p) + 1 /\ Service!IsPrefix(p, q)
    BY <1>1 DEF Service!Children
  <2>2. Len(p) \in Nat /\ Len(q) \in Nat
    BY <2>1, LenProperties
  <2>3. p # q
    BY <2>1, <2>2
  <2>4. PICK n \in Service!PathNames : Service!IsPrefix(Append(p, n), q)
    BY <2>1, <2>3, StepBelow
  <2> DEFINE e == Append(p, n)
  <2>5. e \in Seq(Service!PathNames) /\ Len(e) = Len(q) /\ Service!IsPrefix(e, q)
    BY <2>1, <2>4, EntryPath
  <2> HIDE DEF e
  <2>6. \A i \in 1..Len(e) : e[i] = q[i]
    BY <2>1, <2>5, PrefixPoint
  <2>7. e = q
    BY <2>1, <2>5, <2>6, SeqEqual
  <2> QED
    BY <2>1, <2>7 DEF Below, e
<1>4. Below(disk, p, p) \subseteq Service!Children(p)
  <2> SUFFICES ASSUME NEW n \in Service!PathNames, Append(p, n) \in DOMAIN disk
               PROVE  Append(p, n) \in Service!Children(p)
    BY DEF Below
  <2> QED
    BY EntryPath DEF Service!Children
<1>5. Service!Children(p) = Below(disk, p, p)
    BY <1>3, <1>4
<1>6. Service!Entries(p) \in Seq(Service!Children(p))
    BY <1>2, SetInOrder DEF Service!Entries
<1>7. Service!Entries(p) \in Seq(Seq(Service!PathNames))
    BY <1>1, <1>6, SeqMonotonic
<1> QED
    BY <1>2, <1>5, <1>7 DEF Service!Entries

\* A page and what is after it are what there was.
LEMMA PageAndRest ==
    ASSUME NEW T, NEW v \in Seq(T), NEW n \in Nat
    PROVE  /\ Service!First(n, v) \in Seq(T) /\ Service!After(n, v) \in Seq(T)
           /\ Service!First(n, v) \o Service!After(n, v) = v
<1> DEFINE f == Service!First(n, v)
           r == Service!After(n, v)
           l == Len(v)
<1>1. l \in Nat /\ \A i \in 1..l : v[i] \in T
    BY LenProperties, ElementOfSeq
<1>2. CASE n < l
  <2>1. f = SubSeq(v, 1, n) /\ r = SubSeq(v, n + 1, l)
    BY <1>2 DEF Service!First, Service!After
  <2> HIDE DEF f, r, l
  <2>2. (\A i \in 1..n : v[i] \in T) /\ (\A i \in (n + 1)..l : v[i] \in T) /\ n + 1 \in Int
    BY <1>1, <1>2
  <2>3. /\ f \in Seq(T) /\ Len(f) = (IF 1 <= n THEN n - 1 + 1 ELSE 0)
        /\ \A i \in 1..(n - 1 + 1) : f[i] = v[1 + i - 1]
    BY <1>1, <2>1, <2>2, SubSeqProperties
  <2>4. /\ r \in Seq(T) /\ Len(r) = (IF n + 1 <= l THEN l - (n + 1) + 1 ELSE 0)
        /\ \A i \in 1..(l - (n + 1) + 1) : r[i] = v[(n + 1) + i - 1]
    BY <1>1, <2>1, <2>2, SubSeqProperties
  <2>5. Len(f) = n /\ (\A i \in 1..n : f[i] = v[i]) /\ Len(r) = l - n /\ l - (n + 1) + 1 = l - n
    BY <1>1, <1>2, <2>3, <2>4
  <2> DEFINE w == f \o r
  <2>6. /\ w \in Seq(T) /\ Len(w) = Len(f) + Len(r)
        /\ \A i \in 1..(Len(f) + Len(r)) : w[i] = IF i <= Len(f) THEN f[i] ELSE r[i - Len(f)]
    BY <2>3, <2>4, ConcatProperties
  <2> HIDE DEF w
  <2>7. Len(w) = Len(v)
    BY <1>1, <2>5, <2>6 DEF l
  <2>8. ASSUME NEW i \in 1..Len(w) PROVE w[i] = v[i]
    <3>1. CASE i <= n
      BY <2>5, <2>6, <3>1
    <3>2. CASE ~(i <= n)
      <4>1. i - n \in 1..(l - (n + 1) + 1) /\ (n + 1) + (i - n) - 1 = i
        BY <1>1, <2>5, <2>6, <3>2
      <4>2. w[i] = r[i - n] /\ r[i - n] = v[(n + 1) + (i - n) - 1]
        BY <2>4, <2>5, <2>6, <3>2, <4>1
      <4> QED
        BY <4>1, <4>2
    <3> QED
      BY <3>1, <3>2
  <2>9. w = v
    BY <2>6, <2>7, <2>8, SeqEqual
  <2> QED
    BY <2>3, <2>4, <2>9 DEF f, r, w
<1>3. CASE ~(n < l)
  <2>1. f = SubSeq(v, 1, l) /\ r = << >>
    BY <1>3 DEF Service!First, Service!After
  <2> HIDE DEF f, r, l
  <2>2. /\ f \in Seq(T) /\ Len(f) = (IF 1 <= l THEN l - 1 + 1 ELSE 0)
        /\ \A i \in 1..(l - 1 + 1) : f[i] = v[1 + i - 1]
    BY <1>1, <2>1, SubSeqProperties
  <2>3. Len(f) = l /\ \A i \in 1..l : f[i] = v[i]
    BY <1>1, <2>2
  <2>4. f = v
    BY <2>2, <2>3, SeqEqual DEF l
  <2>5. r \in Seq(T) /\ f \o r = v
    BY <2>1, <2>4, EmptySeq, ConcatEmptySeq
  <2> QED
    BY <2>2, <2>5 DEF f, r
<1> QED
    BY <1>2, <1>3

\* What is after the part u and n more is what is after n of the rest.
LEMMA RestOfRest ==
    ASSUME NEW T, NEW u \in Seq(T), NEW v \in Seq(T), NEW n \in Nat
    PROVE  Service!After(Len(u) + n, u \o v) = Service!After(n, v)
<1> DEFINE w == u \o v
           k == Len(u) + n
           l == Len(v)
<1>1. /\ w \in Seq(T) /\ Len(w) = Len(u) + Len(v)
      /\ \A i \in 1..(Len(u) + Len(v)) : w[i] = IF i <= Len(u) THEN u[i] ELSE v[i - Len(u)]
    BY ConcatProperties
<1>2. Len(u) \in Nat /\ l \in Nat /\ k \in Nat /\ \A i \in 1..l : v[i] \in T
    BY LenProperties, ElementOfSeq
<1> HIDE DEF w
<1>3. \A i \in 1..Len(w) : w[i] \in T
    BY <1>1, ElementOfSeq
<1>4. k < Len(w) <=> n < l
    BY <1>1, <1>2
<1>5. CASE n < l
  <2> DEFINE m == Len(w)
             x == SubSeq(w, k + 1, m)
             y == SubSeq(v, n + 1, l)
  <2>1. Service!After(k, w) = x /\ Service!After(n, v) = y
    BY <1>4, <1>5 DEF Service!After
  <2>2. m \in Nat /\ m = Len(u) + l
    BY <1>1, <1>2
  <2> HIDE DEF k, l, m
  <2>3. /\ \A i \in (k + 1)..m : w[i] \in T
        /\ \A i \in (n + 1)..l : v[i] \in T
        /\ k + 1 \in Int /\ n + 1 \in Int
    BY <1>2, <1>3, <2>2 DEF m
  <2>4. /\ x \in Seq(T) /\ Len(x) = (IF k + 1 <= m THEN m - (k + 1) + 1 ELSE 0)
        /\ \A i \in 1..(m - (k + 1) + 1) : x[i] = w[(k + 1) + i - 1]
    BY <2>2, <2>3, SubSeqProperties
  <2>5. /\ y \in Seq(T) /\ Len(y) = (IF n + 1 <= l THEN l - (n + 1) + 1 ELSE 0)
        /\ \A i \in 1..(l - (n + 1) + 1) : y[i] = v[(n + 1) + i - 1]
    BY <1>2, <2>3, SubSeqProperties
  <2> HIDE DEF x, y
  <2>6. Len(x) = Len(y) /\ Len(x) = m - (k + 1) + 1 /\ Len(y) = l - (n + 1) + 1
    BY <1>2, <1>5, <2>2, <2>4, <2>5 DEF k
  <2>7. ASSUME NEW i \in 1..Len(x) PROVE x[i] = y[i]
    <3>1. /\ (k + 1) + i - 1 \in 1..(Len(u) + Len(v)) /\ ~((k + 1) + i - 1 <= Len(u))
          /\ (k + 1) + i - 1 - Len(u) = (n + 1) + i - 1
      BY <1>2, <1>5, <2>2, <2>6 DEF k, l
    <3>2. x[i] = w[(k + 1) + i - 1] /\ y[i] = v[(n + 1) + i - 1]
      BY <2>4, <2>5, <2>6
    <3> DEFINE j == (k + 1) + i - 1
    <3>3. j \in 1..(Len(u) + Len(v)) /\ ~(j <= Len(u)) /\ j - Len(u) = (n + 1) + i - 1
      BY <1>2, <1>5, <2>2, <2>6 DEF k, l
    <3>4. x[i] = w[j]
      BY <3>2
    <3> HIDE DEF j
    <3>5. w[j] = v[j - Len(u)]
      BY <1>1, <3>3
    <3> QED
      BY <3>2, <3>3, <3>4, <3>5
  <2>8. x = y
    BY <2>4, <2>5, <2>6, <2>7, SeqEqual
  <2> QED
    BY <2>1, <2>8 DEF k, w
<1>6. CASE ~(n < l)
    BY <1>4, <1>6 DEF Service!After, w
<1> QED
    BY <1>5, <1>6

\* What the last look at a listing's directory says of it.
LEMMA SameVersion ==
    ASSUME Service!Parameters, Sound, NEW s, s[1] \in 1..Len(obj), NEW p, Service!Stamp(p) = s
    PROVE  p \in DOMAIN disk /\ s = <<disk[p], obj[disk[p]].data>>
<1>1. Len(obj) \in Nat /\ Free \notin Nat
    BY LenProperties DEF Sound, Service!Parameters
<1>2. p \in DOMAIN disk
    BY <1>1 DEF Service!Stamp, Service!Exists
<1> QED
    BY <1>2 DEF Service!Stamp, Service!Exists

\* The steps of a listing.
LEMMA ListStep ==
    ASSUME Service!Parameters, ServiceEffects, Sound, NEW c \in DOMAIN job, Service!Service(c),
           ListedSoFar(job[c], c, disk, obj)
    PROVE  ListedSoFar(job'[c], c, disk, obj)
<1> DEFINE j == job[c]
           k == job'[c]
           P == Seq(Service!PathNames)
<1> SUFFICES ASSUME c.op = "list" PROVE ListedSoFar(k, c, disk, obj)
    BY DEF ListedSoFar
<1>0. Effect(j, c) /\ c \in Calls /\ c.src \in P /\ c.dst \in P
    BY DEF ServiceEffects, Service!Parameters
<1>1. j.at \in {"idle", "answered", "page", "enumerate", "compare"}
    BY <1>0 DEF Effect, Places
<1>2. ASSUME k.at = "answered" PROVE ListedSoFar(k, c, disk, obj)
    BY <1>2 DEF ListedSoFar, Listing
<1>3. CASE Service!Fails(c) \/ Service!Answer(c, "ok")
    BY <1>2, <1>3, Ended DEF Service!Fails
<1>4. CASE Service!Enter(c) /\ ~Service!Fails(c) /\ ~Service!Answer(c, "ok")
  <2> DEFINE t == <<IF c.op \in {"remove", "mkdir"} THEN c.dst ELSE c.src>>
             p == IF c.tree THEN << >> ELSE <<[path |-> c.dst]>>
  <2>1. /\ j.at = "idle"
        /\ job' = [job EXCEPT ![c].at = Service!FirstStep(c), ![c].stamp = Service!Stamp(c.src), ![c].todo = t,
                              ![c].plan = p]
    BY <1>4 DEF Service!Enter
  <2>2. Service!FirstStep(c) = "page"
    BY DEF Service!FirstStep
  <2>3. t \in Seq(P)
    BY <1>0
  <2> HIDE DEF t, p
  <2>4. k.at = "page" /\ k.todo = t /\ k.shown = j.shown
    BY <1>0, <2>1, <2>2 DEF Effect, Fields
  <2>5. k.shown = << >> /\ << >> \in Seq(P)
    BY <2>1, <2>4, EmptySeq DEF ListedSoFar
  <2> QED
    BY <2>3, <2>4, <2>5 DEF ListedSoFar, Listing
<1>5. CASE Service!Abort(c)
  <2>1. job' = [job EXCEPT ![c].at = "answered", ![c].answer = Service!Fault(c), ![c].bare = (j.at = "made")]
    BY <1>5 DEF Service!Abort
  <2>2. k.at = "answered"
    BY <1>0, <2>1 DEF Effect, Fields
  <2> QED
    BY <1>2, <2>2
<1>6. CASE Service!ListBegins(c) /\ ~Service!Fails(c)
  <2> DEFINE s == Service!Stamp(c.src)
  <2>1. /\ j.at = "page" /\ Service!IsDir(c.src) /\ (j.shown # << >> => s = j.stamp)
        /\ job' = [job EXCEPT ![c].at = "enumerate", ![c].stamp = s]
    BY <1>6 DEF Service!ListBegins, Service!CursorValid
  <2>2. /\ c.src \in DOMAIN disk /\ disk[c.src] \in 1..Len(obj) /\ obj[disk[c.src]].kind = "dir"
        /\ s = <<disk[c.src], obj[disk[c.src]].data>>
    BY <2>1 DEF Service!IsDir, Service!Exists, Service!Stamp, Sound
  <2> HIDE DEF s
  <2>3. k.at = "enumerate" /\ k.stamp = s /\ k.shown = j.shown /\ k.todo = j.todo
    BY <1>0, <2>1 DEF Effect, Fields
  <2>4. /\ s[1] = disk[c.src] /\ s[2][1] = obj[s[1]].data[1] /\ s[2][1] \in Nat
    BY <2>2, ObjectAt
  <2>5. s[2][1] <= obj[s[1]].data[1]
    <3> DEFINE x == s[2][1]
    <3>1. x \in Nat /\ x = obj[s[1]].data[1]
      BY <2>4
    <3> HIDE DEF x
    <3>2. x <= obj[s[1]].data[1]
      BY <3>1
    <3> QED
      BY <3>2 DEF x
  <2>6. \A p \in DOMAIN disk : disk[p] = s[1] => p = c.src
    BY <2>2, <2>4 DEF Sound
  <2>7. Listed(k) = Listed(j)
    <3>1. Listed(k) = k.shown \o k.todo
      BY <2>3 DEF Listed
    <3>2. Listed(j) = j.shown \o j.todo
      BY <2>1 DEF Listed
    <3> QED
      BY <2>3, <3>1, <3>2
  <2>8. ASSUME k.shown # << >>, NEW p \in DOMAIN disk, k.stamp = <<disk[p], obj[disk[p]].data>>
        PROVE  Listed(k) = Service!SetToSeq(Below(disk, p, c.src))
    BY <2>1, <2>3, <2>7, <2>8 DEF ListedSoFar, Listing
  <2>9. k.shown \in Seq(P) /\ k.todo \in Seq(P)
    BY <2>1, <2>3 DEF ListedSoFar, Listing
  <2> QED
    BY <2>2, <2>3, <2>4, <2>5, <2>6, <2>8, <2>9 DEF ListedSoFar, Listing
<1>7. CASE Service!Enumerate(c)
  <2> DEFINE e == Service!Entries(c.src)
             g == Service!First(PageSize, Service!After(Len(j.shown), e))
             t == Service!After(Len(j.shown) + PageSize, e)
  <2>1. /\ j.at = "enumerate"
        /\ job' = [job EXCEPT ![c].at = "compare", ![c].got = g, ![c].todo = t]
    BY <1>7 DEF Service!Enumerate
  <2>2. /\ e \in Seq(P) /\ e = Service!SetToSeq(Below(disk, c.src, c.src)) /\ PageSize \in Nat
    BY <1>0, EntriesOf DEF Service!Parameters
  <2>3. j.shown \in Seq(P) /\ j.todo \in Seq(P)
    BY <2>1 DEF ListedSoFar, Listing
  <2>4. Len(j.shown) \in Nat /\ Len(j.shown) + PageSize \in Nat
    BY <2>2, <2>3, LenProperties
  <2> HIDE DEF e
  <2>5. g \in Seq(P) /\ t \in Seq(P)
    BY <2>2, <2>4, PageAndRest
  <2>6. ASSUME NEW v \in Seq(P), e = j.shown \o v
        PROVE  (j.shown \o g) \o t = e
    <3>1. t = Service!After(PageSize, v)
      <4>1. Service!After(Len(j.shown) + PageSize, j.shown \o v) = Service!After(PageSize, v)
        BY <2>2, <2>3, <2>6, RestOfRest
      <4> QED
        BY <2>6, <4>1
    <3>2. Service!After(Len(j.shown), e) = Service!After(0, v)
      <4>1. Service!After(Len(j.shown) + 0, j.shown \o v) = Service!After(0, v)
        BY <2>3, <2>6, RestOfRest
      <4>2. Len(j.shown) + 0 = Len(j.shown)
        BY <2>4
      <4> QED
        BY <2>6, <4>1, <4>2
    <3>3. Service!After(0, v) = v
      <4>1. Service!After(Len(<< >>) + 0, << >> \o v) = Service!After(0, v)
        BY <2>6, RestOfRest, EmptySeq
      <4>2. Service!First(0, v) = << >>
        <5>1. Len(v) \in Nat
          BY <2>6, LenProperties
        <5>2. Service!First(0, v) = SubSeq(v, 1, 0)
          BY <5>1 DEF Service!First
        <5> QED
          BY <5>2, SubSeqEmpty
      <4>3. Service!First(0, v) \o Service!After(0, v) = v /\ Service!After(0, v) \in Seq(P)
        BY <2>6, PageAndRest
      <4> QED
        BY <4>2, <4>3, ConcatEmptySeq
    <3>4. g = Service!First(PageSize, v)
      BY <3>2, <3>3
    <3> HIDE DEF g, t
    <3>5. g \o t = v
      BY <2>2, <2>6, <3>1, <3>4, PageAndRest
    <3>6. (j.shown \o g) \o t = j.shown \o (g \o t)
      <4> DEFINE pages == j.shown
      <4>1. pages \in Seq(P)
        BY <2>3
      <4> HIDE DEF pages
      <4>2. (pages \o g) \o t = pages \o (g \o t)
        <5> HIDE DEF P, j, k
        <5> QED
          BY <2>5, <4>1, ConcatAssociative
      <4> QED
        BY <4>2 DEF pages
    <3> QED
      BY <2>6, <3>5, <3>6
  <2> HIDE DEF g, t
  <2>7. /\ k.at = "compare" /\ k.got = g /\ k.todo = t /\ k.shown = j.shown /\ k.stamp = j.stamp
    BY <1>0, <2>1 DEF Effect, Fields
  <2>8. ASSUME NEW p \in DOMAIN disk, k.stamp = <<disk[p], obj[disk[p]].data>>
        PROVE  Listed(k) = Service!SetToSeq(Below(disk, p, c.src))
    <3>1. p = c.src
      BY <2>1, <2>7, <2>8 DEF ListedSoFar
    <3>2. CASE j.shown = << >>
      <4>1. e = j.shown \o e
        BY <2>2, <3>2, ConcatEmptySeq
      <4> QED
        BY <2>2, <2>6, <2>7, <3>1, <4>1 DEF Listed
    <3>3. CASE j.shown # << >>
      <4>1. Listed(j) = e
        BY <2>1, <2>2, <2>7, <2>8, <3>1, <3>3 DEF ListedSoFar, Listing
      <4>2. Listed(j) = j.shown \o j.todo
        BY <2>1 DEF Listed
      <4> QED
        BY <2>2, <2>3, <2>6, <2>7, <3>1, <4>1, <4>2 DEF Listed
    <3> QED
      BY <3>2, <3>3
  <2> QED
    BY <2>1, <2>3, <2>5, <2>7, <2>8 DEF ListedSoFar, Listing
<1>8. CASE Service!ListEnds(c) /\ ~Service!Fails(c)
  <2> DEFINE l == IF j.todo # << >> THEN "page" ELSE "answered"
             v == IF j.todo # << >> THEN j.answer ELSE "ok"
             s == j.shown \o j.got
  <2>1. /\ j.at = "compare" /\ Service!Stamp(c.src) = j.stamp
        /\ job' = [job EXCEPT ![c].shown = s, ![c].at = l, ![c].answer = v]
    BY <1>8 DEF Service!ListEnds
  <2>2. CASE j.todo = << >>
    <3>1. k.at = "answered"
      <4>1. l = "answered"
        BY <2>2
      <4> HIDE DEF l, v, s
      <4> QED
        BY <1>0, <2>1, <4>1 DEF Effect, Fields
    <3> QED
      BY <1>2, <3>1
  <2>3. CASE j.todo # << >>
    <3>1. l = "page" /\ s \in Seq(P)
      <4>1. j.shown \in Seq(P) /\ j.got \in Seq(P)
        BY <2>1 DEF ListedSoFar, Listing
      <4> QED
        BY <2>3, <4>1, ConcatProperties
    <3> HIDE DEF l, v, s
    <3>2. k.at = "page" /\ k.shown = s /\ k.todo = j.todo /\ k.stamp = j.stamp
      BY <1>0, <2>1, <3>1 DEF Effect, Fields
    <3>3. Listed(k) = Listed(j)
      <4>1. Listed(k) = k.shown \o k.todo
        BY <3>2 DEF Listed
      <4>2. Listed(j) = (j.shown \o j.got) \o j.todo
        BY <2>1 DEF Listed
      <4> QED
        BY <3>2, <4>1, <4>2 DEF s
    <3> QED
      BY <2>1, <3>1, <3>2, <3>3 DEF ListedSoFar, Listing
  <2> QED
    BY <2>2, <2>3
<1>9. Service!Enter(c) \/ Service!Abort(c) \/ Service!ListBegins(c) \/ Service!Enumerate(c) \/ Service!ListEnds(c)
    BY <1>1 DEF Service!Service, Service!Visit, Service!Open, Service!Verify, Service!Chunk, Service!Stage,
       Service!LookAgain, Service!CommitWrite, Service!AfterWrite, Service!Probe, Service!MakeDir,
       Service!LookAtDir, Service!Apply, Service!LookAtVictim, Service!RemoveOne, Service!RecheckMove,
       Service!CommitMove, Service!AfterMove
<1> QED
    BY <1>3, <1>4, <1>5, <1>6, <1>7, <1>8, <1>9

\* A listing changes nothing.
LEMMA ListingReads ==
    ASSUME Service!Parameters, ServiceEffects, NEW c \in DOMAIN job, Service!Service(c), c.op = "list"
    PROVE  UNCHANGED <<disk, obj>>
<1>1. job[c].at \in {"idle", "answered", "page", "enumerate", "compare"}
    BY DEF ServiceEffects, Effect, Places
<1> QED
    BY <1>1 DEF Service!Service, Service!Enter, Service!Abort, Service!Visit, Service!Open, Service!Verify,
       Service!Chunk, Service!Stage, Service!LookAgain, Service!CommitWrite, Service!AfterWrite, Service!Probe,
       Service!MakeDir, Service!LookAtDir, Service!Apply, Service!LookAtVictim, Service!RemoveOne,
       Service!RecheckMove, Service!CommitMove, Service!AfterMove, Service!ListBegins, Service!Enumerate,
       Service!ListEnds, Service!Fails, Service!Tree

ListSafe ==
    /\ Rooted /\ WritesFile
    /\ \A c \in DOMAIN job : ListedSoFar(job[c], c, disk, obj)

LEMMA ListSafeStep ==
    ASSUME Service!Parameters, ServiceEffects, TreeSafe, ListSafe, Service!Next
    PROVE  ListSafe'
<1>0. /\ Locked /\ Sound /\ Rooted /\ WritesFile /\ DOMAIN job \subseteq Calls /\ Free \notin Calls
      /\ \A c \in DOMAIN job : Knows(job[c], c, obj, edits) /\ ListedSoFar(job[c], c, disk, obj)
    BY DEF TreeSafe, ListSafe, ServiceEffects, Service!Parameters
<1>1. ASSUME NEW c \in DOMAIN job, Service!Service(c) PROVE ListSafe'
  <2>1. Sound' /\ Grows
    BY <1>0, <1>1, TreeStep
  <2>2. Rooted' /\ Versioned /\ writing' = writing
    BY <1>0, <1>1, ServiceVersions
  <2>3. WritesFile'
    BY <1>0, <2>1, <2>2, WritesKept
  <2>4. /\ DOMAIN job' = DOMAIN job /\ \A d \in DOMAIN job : d # c => job'[d] = job[d]
        /\ busy # c => UNCHANGED <<disk, obj, touched>>
    BY <1>0, <1>1, CallStep
  <2>5. ASSUME NEW d \in DOMAIN job, d # c PROVE ListedSoFar(job'[d], d, disk', obj')
    <3>1. job'[d] = job[d] /\ ListedSoFar(job[d], d, disk, obj)
      BY <1>0, <2>4, <2>5
    <3>2. CASE job[d].at \in {"enumerate", "compare"}
      <4>1. busy # c
        BY <1>0, <2>5, <3>2 DEF Locked, Outside
      <4>2. disk' = disk /\ obj' = obj
        BY <2>4, <4>1
      <4> QED
        BY <3>1, <4>2
    <3>3. CASE job[d].at \notin {"enumerate", "compare"}
      BY <1>0, <2>1, <2>2, <3>1, <3>3, ListingKept
    <3> QED
      BY <3>2, <3>3
  <2>6. ListedSoFar(job'[c], c, disk', obj')
    <3>1. ListedSoFar(job'[c], c, disk, obj)
      BY <1>0, <1>1, ListStep
    <3>2. CASE job'[c].at \in {"enumerate", "compare"}
      <4>1. c.op = "list" => UNCHANGED <<disk, obj>>
        BY <1>0, <1>1, ListingReads
      <4> QED
        BY <3>1, <4>1 DEF ListedSoFar
    <3>3. CASE job'[c].at \notin {"enumerate", "compare"}
      BY <1>0, <2>1, <2>2, <3>1, <3>3, ListingKept
    <3> QED
      BY <3>2, <3>3
  <2>7. \A d \in DOMAIN job' : ListedSoFar(job'[d], d, disk', obj')
    BY <2>4, <2>5, <2>6
  <2> QED
    BY <2>2, <2>3, <2>7 DEF ListSafe
<1>2. ASSUME NEW p \in Paths, \/ Service!EditBegins(p) \/ Service!EditEnds(p)
                              \/ Service!Replace(p) \/ Service!Delete(p)
      PROVE  ListSafe'
  <2>1. Sound' /\ Grows /\ UNCHANGED <<busy, job>>
    BY <1>0, <1>2, EditorStep
  <2>2. Rooted' /\ Versioned /\ Unmoved /\ (writing' \in {writing, Free} \/ Service!EditBegins(p))
    BY <1>0, <1>2, EditorVersions
  <2>3. WritesFile'
    <3>1. CASE Service!EditBegins(p)
      <4>1. writing' \in 1..Len(obj) /\ obj[writing'].kind = "file"
        BY <1>0, <3>1 DEF Service!EditBegins, Service!IsFile, Service!Exists, Sound
      <4> QED
        BY <1>0, <2>1, <4>1, WritesKept
    <3>2. CASE writing' \in {writing, Free}
      BY <1>0, <2>1, <3>2, WritesKept
    <3> QED
      BY <2>2, <3>1, <3>2
  <2>4. ASSUME NEW c \in DOMAIN job PROVE ListedSoFar(job'[c], c, disk', obj')
    BY <1>0, <2>1, <2>2, ListingKept
  <2> QED
    BY <2>1, <2>2, <2>3, <2>4 DEF ListSafe
<1> QED
    BY <1>1, <1>2 DEF Service!Next

LEMMA ListSafeInit ==
    ASSUME Service!Parameters, Service!Init
    PROVE  ListSafe
<1>1. PICK S \in SUBSET Calls : job = [c \in S |-> Service!NewJob]
    BY DEF Service!Init
<1>2. \A c \in DOMAIN job : job[c].at = "idle" /\ job[c].shown = << >>
  <2>1. Service!NewJob.at = "idle" /\ Service!NewJob.shown = << >>
    BY DEF Service!NewJob
  <2> QED
    BY <1>1, <2>1
<1>3. WritesFile
    BY DEF WritesFile, Service!Init
<1>4. Rooted
  <2> SUFFICES ASSUME NEW q \in DOMAIN FirstDisk, NEW p \in Seq(Service!PathNames), Service!IsPrefix(p, q)
               PROVE  p \in DOMAIN FirstDisk
    BY DEF Rooted, Service!Init
  <2> DEFINE k == Len(p)
             s == SubSeq(q, 1, k)
  <2>1. /\ k \in Nat /\ Len(q) \in Nat /\ k <= Len(q) /\ q \in Seq(Service!PathNames)
        /\ \A i \in 1..k : p[i] = q[i]
    <3>1. q \in Seq(Service!PathNames)
      BY DEF Service!Parameters
    <3> QED
      BY <3>1, PrefixPoint, LenProperties
  <2>2. s \in DOMAIN FirstDisk
    BY <2>1 DEF Service!Parameters
  <2>3. \A i \in 1..k : q[i] \in Service!PathNames
    BY <2>1, ElementOfSeq
  <2> HIDE DEF k
  <2>4. /\ s \in Seq(Service!PathNames) /\ Len(s) = (IF 1 <= k THEN k - 1 + 1 ELSE 0)
        /\ \A i \in 1..(k - 1 + 1) : s[i] = q[1 + i - 1]
    BY <2>1, <2>3, SubSeqProperties
  <2> HIDE DEF s
  <2>5. Len(s) = k /\ \A i \in 1..k : s[i] = p[i]
    BY <2>1, <2>4
  <2>6. s = p
    BY <2>4, <2>5, SeqEqual DEF k
  <2> QED
    BY <2>2, <2>6
<1> QED
    BY <1>2, <1>3, <1>4 DEF ListSafe, ListedSoFar, Listing

ListKept == part = "service" => ListSafe

LEMMA ListInvariance == BundleSpec => []ListKept
<1>1. BundleInit => ListKept
    BY FilesAssumption, ListSafeInit DEF BundleInit, ListKept
<1>2. ServiceSafe /\ TreeKept /\ ListKept /\ [BundleNext]_bundleVars => ListKept'
  <2> SUFFICES ASSUME ServiceSafe, TreeKept, ListKept, [BundleNext]_bundleVars, part' = "service" PROVE ListSafe'
    BY DEF ListKept
  <2>1. ServiceEffects /\ TreeSafe /\ ListSafe /\ (Service!Next \/ UNCHANGED serviceVars)
    BY DEF ServiceSafe, TreeKept, ListKept, BundleNext, bundleVars
  <2>2. CASE UNCHANGED serviceVars
    BY <2>1, <2>2 DEF serviceVars, ListSafe, Rooted, WritesFile
  <2> QED
    BY <2>1, <2>2, FilesAssumption, ListSafeStep
<1> QED
    BY <1>1, <1>2, ServiceInvariance, TreeInvariance, PTL DEF BundleSpec, bundleVars

\* hostfs list: the pages that a client gets with one chain of cursors are together
\* the directory as it is when the last is answered, each entry once, although other
\* calls and programs change the tree between the pages, and within one but at the
\* version of that directory.
THEOREM ListsWhole == BundleSpec => [][part = "service" => Service!ListingsWhole]_serviceVars
<1>1. ServiceSafe /\ TreeKept /\ ListKept /\ [BundleNext]_bundleVars
        => [part = "service" => Service!ListingsWhole]_serviceVars
  <2> SUFFICES ASSUME ServiceSafe, TreeKept, ListKept, [BundleNext]_bundleVars, part = "service",
                      ~UNCHANGED serviceVars,
                      NEW c \in DOMAIN job, job[c].at = "compare", Service!Answered(c)'
               PROVE  /\ Service!ToSet(job'[c].shown) = Service!Children(c.src)
                      /\ Len(job'[c].shown) = Service!Cardinality(Service!Children(c.src))
    BY DEF Service!ListingsWhole
  <2> DEFINE j == job[c]
             k == job'[c]
  <2>1. /\ ServiceEffects /\ Sound /\ Service!Next /\ Locked /\ Service!Parameters
        /\ ListedSoFar(j, c, disk, obj) /\ Effect(j, c)
    BY FilesAssumption DEF ServiceSafe, TreeKept, ListKept, BundleNext, bundleVars, serviceVars, TreeSafe,
       ListSafe, ServiceEffects
  <2>2. k.at = "answered" /\ k.answer = "ok" /\ k # j
    BY DEF Service!Answered
  <2>3. Service!Service(c)
    BY <2>1, <2>2, OwnStep
  <2>4. c.op = "list"
    BY <2>1, OpKnown DEF Effect, Places, Making, Reading, Writing
  <2>5. ASSUME Service!Fails(c) \/ Service!Abort(c) PROVE FALSE
    BY <2>1, <2>2, <2>5, Faulted
  <2>7. Service!ListEnds(c)
    BY <2>3, <2>5 DEF Service!Service, Service!Enter, Service!Visit, Service!Open, Service!Verify, Service!Chunk,
       Service!Stage, Service!LookAgain, Service!CommitWrite, Service!AfterWrite, Service!Probe, Service!MakeDir,
       Service!LookAtDir, Service!Apply, Service!LookAtVictim, Service!RemoveOne, Service!RecheckMove,
       Service!CommitMove, Service!AfterMove, Service!ListBegins, Service!Enumerate
  <2>8. Service!Stamp(c.src) = j.stamp /\ j.todo = << >> /\ k.shown = j.shown \o j.got
    <3> DEFINE l == IF j.todo # << >> THEN "page" ELSE "answered"
               v == IF j.todo # << >> THEN j.answer ELSE "ok"
               s == j.shown \o j.got
    <3>1. /\ Service!Stamp(c.src) = j.stamp
          /\ job' = [job EXCEPT ![c].shown = s, ![c].at = l, ![c].answer = v]
      BY <2>5, <2>7 DEF Service!ListEnds
    <3>2. k.at = l /\ k.shown = s
      <4> HIDE DEF l, v, s
      <4> QED
        BY <2>1, <3>1 DEF Effect, Fields
    <3>3. j.todo = << >>
      <4>1. l = "answered"
        BY <2>2, <3>2
      <4> QED
        BY <4>1
    <3> QED
      BY <3>1, <3>2, <3>3
  <2>9. c.src \in DOMAIN disk /\ j.stamp = <<disk[c.src], obj[disk[c.src]].data>>
    BY <2>1, <2>4, <2>8, SameVersion DEF ListedSoFar
  <2>10. Listed(j) = Service!SetToSeq(Below(disk, c.src, c.src))
    BY <2>1, <2>4, <2>9 DEF ListedSoFar
  <2>11. Listed(j) = k.shown
    <3>1. j.shown \o j.got \in Seq(Seq(Service!PathNames))
      BY <2>1, <2>4, ConcatProperties DEF ListedSoFar, Listing
    <3> QED
      BY <2>8, <3>1, ConcatEmptySeq DEF Listed
  <2>12. c.src \in Seq(Service!PathNames)
    BY <2>1, <2>9 DEF Sound
  <2>13. /\ Service!Children(c.src) = Below(disk, c.src, c.src) /\ IsFiniteSet(Service!Children(c.src))
    BY <2>1, <2>12, EntriesOf
  <2> QED
    BY <2>10, <2>11, <2>13, SetInOrder
<1> QED
    BY <1>1, ServiceInvariance, TreeInvariance, ListInvariance, PTL DEF BundleSpec, bundleVars

\* hostfs readOrStat, copyFile, list: what a client gets of a file or a directory is
\* what there was at one moment.
THEOREM SnapshotsRead == BundleSpec => ReadsAreSnapshots
<1>1. ASSUME [part = "service" => Service!FilesWhole]_serviceVars,
             [part = "service" => Service!ListingsWhole]_serviceVars
      PROVE  [part = "service" => Service!SnapshotsTaken]_serviceVars
    BY <1>1 DEF Service!SnapshotsTaken
<1> QED
    BY <1>1, ReadsWhole, ListsWhole, PTL DEF ReadsAreSnapshots

=============================================================================

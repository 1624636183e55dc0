---------------------------- MODULE CommandHubProofs ----------------------------
(***************************************************************************)
(* What holds of the command hub for every set of aliases, definitions and *)
(* jobs: however rebuilds, edits and listings interleave, the registry,    *)
(* the published definitions and the managers agree between rebuilds, and  *)
(* no manager is lost.                                                     *)
(*                                                                         *)
(* The argument follows the one thread that holds rebuildMu.  The managers *)
(* that are open are at every moment those published, together with those  *)
(* the holder has collected and not yet published, or has replaced and not *)
(* yet closed.                                                             *)
(***************************************************************************)
EXTENDS CommandHub, FunctionTheorems, FiniteSetTheorems, TLAPS

Working == {"collect", "unregister", "register", "publish", "close"}
Open == (1..made) \ closed
Matched(d, m) == \A a \in Aliases : (d[a] = None) <=> (m[a] = 0)

\* What TypeOK leaves open: the tables of a rebuild.
Typed ==
    /\ TypeOK /\ made \in Nat
    /\ previous \in [Aliases -> Defs \cup {None}]
    /\ defs \in [Threads -> [Aliases -> Defs \cup {None}]]
    /\ mgrs \in [Threads -> [Aliases -> Nat]]
    /\ outgoing \in [Threads -> SUBSET Nat]

Settled == reg = active /\ Matched(active, mgr)

\* What t has collected is open beside what is published.
Collected(t) == Matched(defs[t], mgrs[t]) /\ Open = Numbers(mgr) \cup Numbers(mgrs[t])

\* The books of a rebuild, stage by stage.
Books ==
    /\ (\A t \in Threads : pc[t] \notin Working \ {"collect"}) => Settled /\ Open = Numbers(mgr)
    /\ \A t \in Threads :
        /\ pc[t] = "unregister" => Settled /\ Collected(t)
        /\ pc[t] = "register" => reg = NoConfig /\ Collected(t)
        /\ pc[t] = "publish" => reg = defs[t] /\ Collected(t)
        /\ pc[t] = "close" =>
            /\ Settled
            /\ outgoing[t] \cap Numbers(mgr) = {} /\ Open = Numbers(mgr) \cup outgoing[t]

\* As long as no rebuild fails, what is published, or about to be, is what the
\* options and run time say, or a rebuild is due that has not collected yet.
Due == \E t \in Threads : pc[t] \in {"reload", "collect"}
Building(t) == pc[t] \in {"unregister", "register", "publish"}

Fresh ==
    /\ \A t \in Threads : pc[t] = "error" => fails > 0
    /\ fails = 0 =>
        \/ Due
        \/ \E t \in Threads : Building(t) /\ defs[t] = Effective(options, runtime)
        \/ /\ \A t \in Threads : ~Building(t)
           /\ active = Effective(options, runtime)

Inv == Typed /\ Books /\ Fresh


-----------------------------------------------------------------------------
(* Numbering.                                                              *)

\* As many different numbers as an interval has are the whole interval.
LEMMA Numbering ==
    ASSUME NEW S, IsFiniteSet(S), NEW m \in Nat, NEW f,
           \A a \in S : f[a] \in (m + 1)..(m + Cardinality(S)),
           \A a, b \in S : a # b => f[a] # f[b]
    PROVE  {f[a] : a \in S} = (m + 1)..(m + Cardinality(S))
<1> DEFINE T == (m + 1)..(m + Cardinality(S))
           g == [a \in S |-> f[a]]
<1>1. Cardinality(S) \in Nat
    BY FS_CardinalityType
<1>2. IsFiniteSet(T) /\ Cardinality(T) = Cardinality(S)
  <2> DEFINE from == m + 1  to == m + Cardinality(S)
  <2>1. from \in Int /\ to \in Int /\ to = from + Cardinality(S) - 1
    BY <1>1
  <2> HIDE DEF from, to
  <2>2. IsFiniteSet(from..to) /\ Cardinality(from..to) = IF from > to THEN 0 ELSE to - from + 1
    BY ONLY <2>1, FS_Interval
  <2>3. IsFiniteSet(from..to) /\ Cardinality(from..to) = Cardinality(S)
    BY <1>1, <2>1, <2>2
  <2> QED
    BY <2>3 DEF from, to
<1>3. g \in [S -> T]
    OBVIOUS
<1>4. \A a, b \in S : g[a] = g[b] => a = b
    OBVIOUS
<1>5. g \in Injection(S, T)
    BY ONLY <1>3, <1>4, Fun_IsInj
<1>6. g \in Surjection(S, T)
    BY ONLY <1>2, <1>5, FS_Injection
<1>7. \A t \in T : \E s \in S : g[s] = t
    BY <1>6 DEF Surjection
<1> QED
    BY <1>7

-----------------------------------------------------------------------------
(* The initial states.                                                     *)

LEMMA InitInv == Init => Inv
<1> USE CommandHubAssumption DEF Threads
<1> SUFFICES ASSUME Init PROVE Inv
    OBVIOUS
<1> DEFINE S == {a \in Aliases : file[a] # None}
<1>1. file \in [Aliases -> Defs \cup {None}]
    BY DEF Init
<1>2. IsFiniteSet(S) /\ made = Cardinality(S) /\ made \in Nat
  <2>1. IsFiniteSet(S)
    BY FS_Subset
  <2> QED
    BY <2>1, FS_CardinalityType DEF Init
<1>3. /\ mgr \in [Aliases -> 0..made] /\ closed = {}
      /\ \A a \in Aliases : (mgr[a] = 0) <=> (file[a] = None)
      /\ \A a, b \in Aliases : (mgr[a] = mgr[b] /\ mgr[a] # 0) => a = b
    BY DEF Init
<1>4. {mgr[a] : a \in S} = 1..made
  <2>1. \A a \in S : mgr[a] \in (0 + 1)..(0 + Cardinality(S))
    BY <1>2, <1>3
  <2>2. \A a, b \in S : a # b => mgr[a] # mgr[b]
    BY <1>3
  <2>3. {mgr[a] : a \in S} = (0 + 1)..(0 + Cardinality(S))
    BY ONLY <1>2, <2>1, <2>2, Numbering, 0 \in Nat
  <2>4. (0 + 1)..(0 + Cardinality(S)) = 1..made
    BY <1>2
  <2> QED
    BY <2>3, <2>4
<1>5. Numbers(mgr) = 1..made
  <2>1. \A a \in Aliases : mgr[a] # 0 <=> a \in S
    BY <1>3
  <2>2. Numbers(mgr) \subseteq {mgr[a] : a \in S}
    BY ONLY <2>1 DEF Numbers
  <2>3. {mgr[a] : a \in S} \subseteq Numbers(mgr)
    BY ONLY <2>1 DEF Numbers
  <2> QED
    BY ONLY <1>4, <2>2, <2>3
<1>6. Typed
  <2>1. NoConfig \in [Aliases -> Defs \cup {None}]
    BY DEF NoConfig
  <2>2. pc = [t \in Threads |-> "idle"]
    BY DEF Init
  <2>3. /\ {file, options, runtime, reg, active} \subseteq [Aliases -> Defs \cup {None}]
        /\ fileMu = None /\ rebuildMu = None /\ writing = FALSE
        /\ fails = 0 /\ edits = 0 /\ lister = [l \in Listers |-> "idle"]
        /\ previous = NoConfig
        /\ defs = [t \in Threads |-> NoConfig]
        /\ mgrs = [t \in Threads |-> [a \in Aliases |-> 0]]
        /\ outgoing = [t \in Threads |-> {}]
    BY <1>1, <2>1 DEF Init
  <2>4. \A t \in Threads :
            (rebuildMu = t) <=> pc[t] \in {"collect", "unregister", "register", "publish", "close"}
    BY <2>2, <2>3
  <2>5. writing \in BOOLEAN /\ writing = (\E t \in Threads : pc[t] = "publish")
    <3>1. (\E t \in Threads : pc[t] = "publish") = FALSE
      BY <2>2
    <3> QED
      BY <2>3, <3>1
  <2>6. fails \in 0..MaxFails /\ edits \in 0..MaxEdits
    BY <2>3
  <2>7. TypeOK
    BY <1>2, <1>3, <2>2, <2>3, <2>4, <2>5, <2>6 DEF TypeOK
  <2> QED
    BY <1>2, <2>1, <2>3, <2>7 DEF Typed
<1>7. Books
  <2>1. Settled /\ Open = Numbers(mgr)
    BY <1>3, <1>5 DEF Init, Settled, Matched, Open
  <2> QED
    BY <2>1 DEF Init, Books
<1>8. Fresh
  <2>1. active = Effective(options, runtime)
    BY <1>1 DEF Init, Effective, NoConfig
  <2> QED
    BY <2>1 DEF Init, Fresh, Building
<1> QED
    BY <1>6, <1>7, <1>8 DEF Inv

-----------------------------------------------------------------------------
(* Types.                                                                  *)

\* The numbers a rebuild gives to its managers: kept, or new.
LEMMA CollectNumbers ==
    ASSUME Typed, Books, NEW t \in Threads, Collect(t)
    PROVE  /\ made' \in Nat /\ made <= made' /\ mgrs'[t] \in [Aliases -> 0..made']
           /\ mgrs' = [mgrs EXCEPT ![t] = mgrs'[t]]
           /\ Matched(defs[t], mgrs[t])'
           /\ (1..made') \ closed = Numbers(mgr) \cup Numbers(mgrs'[t])
<1> USE CommandHubAssumption
<1> DEFINE next == Effective(options, runtime)
           new == {a \in Aliases : next[a] # None /\ ~Kept(t, a, next[a])}
<1>1. IsFiniteSet(new) /\ Cardinality(new) \in Nat
  <2>1. IsFiniteSet(new)
    BY FS_Subset
  <2> QED
    BY <2>1, FS_CardinalityType
<1>2. made' = made + Cardinality(new) /\ defs'[t] = next
    BY DEF Collect, Typed
<1>3. made \in Nat /\ made' \in Nat /\ made <= made'
    BY <1>1, <1>2 DEF Typed
<1>4. PICK f \in [Aliases -> 0..made'] :
        /\ \A a \in Aliases :
            CASE next[a] = None      -> f[a] = 0
              [] Kept(t, a, next[a]) -> f[a] = mgr[a]
              [] OTHER               -> f[a] > made
        /\ \A a, b \in new : a # b => f[a] # f[b]
        /\ mgrs' = [mgrs EXCEPT ![t] = f]
    BY DEF Collect
<1>5. mgrs'[t] = f
    BY <1>4 DEF Typed
<1>6. pc[t] = "collect" /\ (\A u \in Threads : pc[u] \notin Working \ {"collect"})
    BY DEF Collect, Typed, TypeOK, Working
<1>7. Settled /\ Open = Numbers(mgr)
    BY <1>6 DEF Books
<1>8. \A a \in Aliases :
        /\ next[a] = None => f[a] = 0
        /\ Kept(t, a, next[a]) => f[a] = mgr[a] /\ f[a] # 0
        /\ a \in new => f[a] \in (made + 1)..made'
        /\ next[a] # None => Kept(t, a, next[a]) \/ a \in new
  <2> TAKE a \in Aliases
  <2>1. Kept(t, a, next[a]) => next[a] # None /\ mgr[a] # 0
    BY <1>7 DEF Kept, Settled, Matched
  <2>2. next[a] = None => f[a] = 0
    BY <1>4 DEF Kept
  <2>3. Kept(t, a, next[a]) => f[a] = mgr[a]
    BY <1>4, <2>1
  <2>4. a \in new => f[a] > made /\ f[a] \in 0..made'
    BY <1>4
  <2>5. a \in new => f[a] \in (made + 1)..made'
    BY <1>3, <2>4
  <2> QED
    BY <2>1, <2>2, <2>3, <2>5
<1>9. Matched(defs'[t], f)
  <2>1. \A a \in new : f[a] # 0
    BY <1>3, <1>8
  <2>2. \A a \in Aliases : (next[a] = None) <=> (f[a] = 0)
    BY <1>8, <2>1
  <2> QED
    BY <1>2, <2>2 DEF Matched
<1>10. {f[a] : a \in new} = (made + 1)..made'
  <2>1. \A a \in new : f[a] \in (made + 1)..(made + Cardinality(new))
    BY <1>2, <1>8
  <2>2. {f[a] : a \in new} = (made + 1)..(made + Cardinality(new))
    BY ONLY <1>1, <1>3, <1>4, <2>1, Numbering
  <2> QED
    BY <1>2, <2>2
<1>11. Numbers(f) \subseteq Numbers(mgr) \cup (made + 1)..made'
    BY <1>8 DEF Numbers
<1>12. (made + 1)..made' \subseteq Numbers(f)
  <2> SUFFICES ASSUME NEW n \in (made + 1)..made' PROVE n \in Numbers(f)
    OBVIOUS
  <2>1. PICK a \in new : n = f[a]
    BY <1>10
  <2>2. n # 0
    BY <1>3
  <2> QED
    BY <2>1, <2>2 DEF Numbers
<1>13. (1..made') \ closed = Open \cup (made + 1)..made'
    BY <1>3 DEF Open, Typed, TypeOK
<1>14. Numbers(mgr) \cup Numbers(f) = Numbers(mgr) \cup (made + 1)..made'
    BY <1>11, <1>12
<1> QED
    BY <1>3, <1>4, <1>5, <1>7, <1>9, <1>13, <1>14 DEF Matched

\* A thread that goes from a stage without the lock to another one.
LEMMA Moved ==
    ASSUME Typed, NEW t \in Threads,
           NEW stage \in {"idle", "lock", "reload", "collect", "unregister", "register",
                          "publish", "close", "done", "error"},
           Go(t, stage)
    PROVE  /\ pc' \in [Threads -> {"idle", "lock", "reload", "collect", "unregister", "register",
                                   "publish", "close", "done", "error"}]
           /\ pc'[t] = stage /\ \A u \in Threads : u # t => pc'[u] = pc[u]
           /\ pc[t] # "publish" /\ stage # "publish" /\ UNCHANGED writing
                => (writing' \in BOOLEAN /\ writing' = (\E u \in Threads : pc'[u] = "publish"))
           /\ pc[t] \notin Working /\ stage \notin Working /\ UNCHANGED rebuildMu
                => \A u \in Threads : (rebuildMu' = u) <=> pc'[u] \in Working
           /\ pc[t] \in Working /\ stage \in Working /\ UNCHANGED rebuildMu
                => \A u \in Threads : (rebuildMu' = u) <=> pc'[u] \in Working
           /\ rebuildMu = None /\ rebuildMu' = t /\ stage \in Working
                => \A u \in Threads : (rebuildMu' = u) <=> pc'[u] \in Working
           /\ pc[t] \in Working /\ rebuildMu' = None /\ stage \notin Working
                => \A u \in Threads : (rebuildMu' = u) <=> pc'[u] \in Working
<1> USE CommandHubAssumption
<1>1. /\ pc' \in [Threads -> {"idle", "lock", "reload", "collect", "unregister", "register",
                              "publish", "close", "done", "error"}]
      /\ pc'[t] = stage /\ \A u \in Threads : u # t => pc'[u] = pc[u]
    BY DEF Go, Typed, TypeOK
<1>2. ASSUME pc[t] # "publish", stage # "publish", UNCHANGED writing
      PROVE  writing' \in BOOLEAN /\ writing' = (\E u \in Threads : pc'[u] = "publish")
  <2>1. (\E u \in Threads : pc'[u] = "publish") <=> (\E u \in Threads : pc[u] = "publish")
    BY <1>1, <1>2
  <2>2. writing \in BOOLEAN /\ writing = (\E u \in Threads : pc[u] = "publish")
    BY DEF Typed, TypeOK
  <2> QED
    BY <1>2, <2>1, <2>2
<1>3. /\ \A u \in Threads : (rebuildMu = u) <=> pc[u] \in Working
      /\ None \notin Threads
    BY DEF Typed, TypeOK, Working
<1> QED
    BY <1>1, <1>2, <1>3

\* The parts of Typed, for the step that disturbs some of them only.
ConfTyped ==
    {file, options, runtime, reg, active, previous} \subseteq [Aliases -> Defs \cup {None}]
NumbersTyped ==
    /\ made \in Nat /\ mgr \in [Aliases -> 0..made] /\ closed \subseteq 1..made
    /\ defs \in [Threads -> [Aliases -> Defs \cup {None}]]
    /\ mgrs \in [Threads -> [Aliases -> Nat]] /\ outgoing \in [Threads -> SUBSET Nat]
LocksTyped ==
    /\ pc \in [Threads -> {"idle", "lock", "reload", "collect", "unregister", "register",
                           "publish", "close", "done", "error"}]
    /\ rebuildMu \in Threads \cup {None}
    /\ \A t \in Threads : (rebuildMu = t) <=> pc[t] \in Working
    /\ writing \in BOOLEAN /\ writing = (\E t \in Threads : pc[t] = "publish")
RestTyped ==
    /\ fileMu \in {None, Watcher} /\ lister \in [Listers -> {"idle", "rows", "done"}]
    /\ fails \in 0..MaxFails /\ edits \in 0..MaxEdits

LEMMA TypedParts == Typed <=> ConfTyped /\ NumbersTyped /\ LocksTyped /\ RestTyped
    BY DEF Typed, TypeOK, Working, ConfTyped, NumbersTyped, LocksTyped, RestTyped

LEMMA TypedPartsNext ==
    ASSUME ConfTyped', NumbersTyped', LocksTyped', RestTyped' PROVE Typed'
    BY DEF Typed, TypeOK, Working, ConfTyped, NumbersTyped, LocksTyped, RestTyped

\* Every step keeps the types.
LEMMA TypedStep == Typed /\ Books /\ [Next]_vars => Typed'
<1> USE CommandHubAssumption
<1> SUFFICES ASSUME Typed, Books, [Next]_vars PROVE Typed'
    OBVIOUS
<1> USE TypedParts
<1>1. CASE UNCHANGED vars
    BY <1>1 DEF vars, confVars, tableVars, mgrVars, buildVars, watchVars, Typed, TypeOK
<1>2. CASE OwnerEdit
    BY <1>2, TypedPartsNext DEF OwnerEdit, tableVars, mgrVars, buildVars, watchVars,
       ConfTyped, NumbersTyped, LocksTyped, RestTyped
<1>3. ASSUME NEW j \in Jobs, ChangeRuntime(j) PROVE Typed'
  <2>1. j \in Threads
    BY DEF Threads
  <2>2. LocksTyped'
    BY <1>3, <2>1, Moved DEF ChangeRuntime, MayRebuild, LocksTyped, Working
  <2>3. ConfTyped'
    BY <1>3 DEF ChangeRuntime, ConfTyped, tableVars, watchVars
  <2> QED
    BY <1>3, <2>2, <2>3, TypedPartsNext
       DEF ChangeRuntime, NumbersTyped, RestTyped, tableVars, mgrVars, buildVars
<1>4. ASSUME NEW j \in Jobs, Persist(j) PROVE Typed'
  <2>1. j \in Threads
    BY DEF Threads
  <2>2. LocksTyped'
    BY <1>4, <2>1, Moved DEF Persist, LocksTyped, Working
  <2>3. ConfTyped'
    BY <1>4 DEF Persist, ConfTyped, tableVars, watchVars
  <2> QED
    BY <1>4, <2>2, <2>3, TypedPartsNext
       DEF Persist, NumbersTyped, RestTyped, tableVars, mgrVars, buildVars
<1>5. CASE Watch
  <2> Watcher \in Threads
    BY DEF Threads
  <2>1. LocksTyped'
    <3>1. CASE WatchLooks
      BY <3>1, Moved DEF WatchLooks, LocksTyped, Working
    <3>2. CASE WatchBegins
      BY <3>2, Moved DEF WatchBegins, LocksTyped, Working
    <3>3. CASE WatchEnds
      BY <3>3, Moved DEF WatchEnds, LocksTyped, Working
    <3> QED
      BY <1>5, <3>1, <3>2, <3>3 DEF Watch
  <2>2. ConfTyped'
    BY <1>5 DEF Watch, WatchLooks, WatchBegins, WatchEnds, ConfTyped, confVars, tableVars
  <2>3. NumbersTyped'
    BY <1>5 DEF Watch, WatchLooks, WatchBegins, WatchEnds, NumbersTyped, tableVars, mgrVars,
       buildVars
  <2>4. RestTyped'
    BY <1>5 DEF Watch, WatchLooks, WatchBegins, WatchEnds, RestTyped, confVars
  <2> QED
    BY <2>1, <2>2, <2>3, <2>4, TypedPartsNext
<1>6. ASSUME NEW t \in Threads, Rebuild(t) PROVE Typed'
  <2>1. LocksTyped'
    <3>1. CASE Reload(t)
      BY <3>1, Moved DEF Reload, MayRebuild, LocksTyped, Working
    <3>2. CASE Collect(t)
      BY <3>2, Moved DEF Collect, LocksTyped, Working
    <3>3. CASE CollectFails(t)
      BY <3>3, Moved DEF CollectFails, Leave, LocksTyped, Working
    <3>4. CASE Unregister(t)
      BY <3>4, Moved DEF Unregister, LocksTyped, Working
    <3>5. CASE Register(t)
      <4>1. pc'[t] = "publish" /\ writing' = TRUE
        BY <3>5, Moved DEF Register
      <4>2. writing' \in BOOLEAN /\ writing' = (\E u \in Threads : pc'[u] = "publish")
        BY <4>1
      <4> QED
        BY <3>5, <4>2, Moved DEF Register, LocksTyped, Working
    <3>6. CASE Publish(t)
      <4>1. /\ pc'[t] = "close" /\ writing' = FALSE
            /\ \A u \in Threads : u # t => pc'[u] = pc[u]
        BY <3>6, Moved DEF Publish
      <4>2. \A u \in Threads : u # t => pc[u] \notin Working
        BY <3>6 DEF Publish, LocksTyped, Working
      <4>3. \A u \in Threads : pc'[u] # "publish"
        BY <4>1, <4>2 DEF Working
      <4>4. writing' \in BOOLEAN /\ writing' = (\E u \in Threads : pc'[u] = "publish")
        BY <4>1, <4>3
      <4> QED
        BY <3>6, <4>4, Moved DEF Publish, LocksTyped, Working
    <3>7. CASE FinishRebuild(t)
      BY <3>7, Moved DEF FinishRebuild, Leave, LocksTyped, Working
    <3> QED
      BY <1>6, <3>1, <3>2, <3>3, <3>4, <3>5, <3>6, <3>7 DEF Rebuild
  <2>2. ConfTyped'
    <3>1. Effective(options, runtime) \in [Aliases -> Defs \cup {None}]
      BY DEF Effective, ConfTyped
    <3>2. CASE Unregister(t)
      BY <3>2 DEF Unregister, Emptied, ConfTyped, confVars, tableVars, watchVars
    <3>3. CASE Register(t)
      BY <3>3 DEF Register, ConfTyped, NumbersTyped, confVars, tableVars, watchVars
    <3>4. CASE Publish(t)
      BY <3>4 DEF Publish, ConfTyped, NumbersTyped, confVars, watchVars
    <3> QED
      BY <1>6, <3>2, <3>3, <3>4 DEF Rebuild, Reload, Collect, CollectFails, FinishRebuild,
         ConfTyped, confVars, tableVars, watchVars
  <2>3. NumbersTyped'
    <3>1. CASE Collect(t)
      <4>1. Effective(options, runtime) \in [Aliases -> Defs \cup {None}]
        BY DEF Effective, ConfTyped
      <4>2. defs' \in [Threads -> [Aliases -> Defs \cup {None}]]
        BY <3>1, <4>1 DEF Collect, NumbersTyped
      <4>3. /\ made' \in Nat /\ made <= made' /\ mgrs'[t] \in [Aliases -> Nat]
            /\ mgrs' = [mgrs EXCEPT ![t] = mgrs'[t]]
        BY <3>1, CollectNumbers
      <4>4. mgrs' \in [Threads -> [Aliases -> Nat]]
        BY <4>3 DEF NumbersTyped
      <4>5. mgr' \in [Aliases -> 0..made'] /\ closed' \subseteq 1..made'
        <5>1. UNCHANGED <<mgr, closed>>
          BY <3>1 DEF Collect, tableVars
        <5>2. made \in Nat /\ mgr \in [Aliases -> 0..made] /\ closed \subseteq 1..made
          BY DEF NumbersTyped
        <5>3. 0..made \subseteq 0..made' /\ 1..made \subseteq 1..made'
          BY <4>3, <5>2
        <5>4. mgr \in [Aliases -> 0..made']
          BY <5>2, <5>3
        <5> QED
          BY <5>1, <5>2, <5>3, <5>4
      <4> QED
        BY <3>1, <4>2, <4>3, <4>4, <4>5 DEF Collect, NumbersTyped
    <3>2. CASE Register(t)
      <4>1. reg = NoConfig /\ Collected(t)
        BY <3>2 DEF Register, Books
      <4>2. Numbers(mgrs[t]) \subseteq 1..made
        BY <4>1 DEF Collected, Open
      <4>3. closed' \subseteq 1..made
        BY <3>2, <4>2 DEF Register, NumbersTyped, Numbers
      <4>4. defs' \in [Threads -> [Aliases -> Defs \cup {None}]]
        BY <3>2 DEF Register, NumbersTyped
      <4>5. mgrs' \in [Threads -> [Aliases -> Nat]]
        BY <3>2 DEF Register, NumbersTyped
      <4> QED
        BY <3>2, <4>3, <4>4, <4>5 DEF Register, NumbersTyped, tableVars
    <3>3. CASE Publish(t)
      <4>1. Numbers(mgrs[t]) \subseteq 1..made
        BY <3>3 DEF Publish, Books, Collected, Open
      <4>2. mgr' \in [Aliases -> 0..made]
        BY <3>3, <4>1 DEF Publish, NumbersTyped, Numbers
      <4>3. outgoing' \in [Threads -> SUBSET Nat]
        BY <3>3 DEF Publish, NumbersTyped, Numbers
      <4> QED
        BY <3>3, <4>2, <4>3 DEF Publish, NumbersTyped, mgrVars
    <3>4. CASE FinishRebuild(t)
      <4>1. outgoing[t] \subseteq 1..made
        BY <3>4 DEF FinishRebuild, Books, Open
      <4> QED
        BY <3>4, <4>1 DEF FinishRebuild, CloseReplaced, NumbersTyped, tableVars
    <3> QED
      BY <1>6, <3>1, <3>2, <3>3, <3>4 DEF Rebuild, Reload, CollectFails, Unregister,
         NumbersTyped, tableVars, mgrVars, buildVars
  <2>4. RestTyped'
    BY <1>6 DEF Rebuild, Reload, Collect, CollectFails, Unregister, Register, Publish,
       FinishRebuild, RestTyped, confVars
  <2> QED
    BY <2>1, <2>2, <2>3, <2>4, TypedPartsNext
<1>7. ASSUME NEW l \in Listers, List(l) PROVE Typed'
  <2>1. /\ UNCHANGED <<confVars, reg, tableVars, mgrVars, pc, buildVars, watchVars, fileMu,
                      rebuildMu, writing, fails>>
        /\ lister' \in [Listers -> {"idle", "rows", "done"}]
    BY <1>7 DEF List, ListBegins, ListEnds, RestTyped
  <2>2. ConfTyped' /\ RestTyped'
    BY <2>1 DEF confVars, tableVars, watchVars, ConfTyped, RestTyped
  <2>3. NumbersTyped'
    BY <2>1 DEF tableVars, mgrVars, buildVars, NumbersTyped
  <2>4. LocksTyped'
    BY <2>1 DEF LocksTyped
  <2> QED
    BY <2>2, <2>3, <2>4, TypedPartsNext
<1> QED
    BY <1>1, <1>2, <1>3, <1>4, <1>5, <1>6, <1>7 DEF Next

-----------------------------------------------------------------------------
(* The books.                                                              *)

LEMMA Alone ==
    ASSUME Typed, NEW t \in Threads, pc[t] \in Working, NEW u \in Threads, u # t
    PROVE  pc[u] \notin Working
    BY DEF Typed, TypeOK, Working

\* A step that leaves the tables alone, and no thread inside a rebuild but where
\* it begins.
LEMMA BooksKept ==
    ASSUME Typed, Books,
           UNCHANGED <<reg, tableVars, mgrVars, buildVars>>,
           \A t \in Threads :
              pc'[t] = pc[t] \/ {pc[t], pc'[t]} \cap (Working \ {"collect"}) = {}
    PROVE  Books'
<1>1. \A t \in Threads : /\ pc'[t] \in Working \ {"collect"} => pc'[t] = pc[t]
                         /\ pc[t] \in Working \ {"collect"} => pc'[t] = pc[t]
    OBVIOUS
<1>2. Settled' <=> Settled
    BY DEF Settled, Matched, tableVars
<1>3. Open' = Open /\ Numbers(mgr)' = Numbers(mgr)
    BY DEF Open, Numbers, tableVars, mgrVars
<1>4. \A t \in Threads : Collected(t)' <=> Collected(t)
    BY <1>3 DEF Collected, Matched, Numbers, buildVars
<1>5. ASSUME NEW t \in Threads
      PROVE  /\ (pc[t] = "unregister" => Settled /\ Collected(t))'
             /\ (pc[t] = "register" => reg = NoConfig /\ Collected(t))'
             /\ (pc[t] = "publish" => reg = defs[t] /\ Collected(t))'
             /\ (pc[t] = "close" =>
                    /\ Settled
                    /\ outgoing[t] \cap Numbers(mgr) = {}
                    /\ Open = Numbers(mgr) \cup outgoing[t])'
  <2>1. UNCHANGED <<reg, NoConfig, defs[t], outgoing[t]>>
    BY DEF buildVars, NoConfig
  <2> QED
    BY <1>1, <1>2, <1>3, <1>4, <2>1 DEF Books, Working
<1>6. ((\A t \in Threads : pc[t] \notin Working \ {"collect"}) => Settled /\ Open = Numbers(mgr))'
    BY <1>1, <1>2, <1>3 DEF Books
<1> QED
    BY <1>5, <1>6 DEF Books

\* What the books say when t holds rebuildMu.
BooksOf(t) ==
    /\ pc[t] = "collect" => Settled /\ Open = Numbers(mgr)
    /\ pc[t] = "unregister" => Settled /\ Collected(t)
    /\ pc[t] = "register" => reg = NoConfig /\ Collected(t)
    /\ pc[t] = "publish" => reg = defs[t] /\ Collected(t)
    /\ pc[t] = "close" =>
        /\ Settled /\ outgoing[t] \cap Numbers(mgr) = {} /\ Open = Numbers(mgr) \cup outgoing[t]

LEMMA HoldersBooks ==
    ASSUME Typed, Books, NEW t \in Threads, pc[t] \in Working PROVE BooksOf(t)
<1>1. pc[t] = "collect" => \A u \in Threads : pc[u] \notin Working \ {"collect"}
    BY Alone
<1> QED
    BY <1>1 DEF Books, BooksOf

LEMMA HoldersBooksNext ==
    ASSUME Typed', NEW t \in Threads, pc'[t] \in Working, BooksOf(t)' PROVE Books'
<1>1. \A u \in Threads : u # t => pc'[u] \notin Working
    BY DEF Typed, TypeOK, Working
<1>2. (\A u \in Threads : pc'[u] \notin Working \ {"collect"}) => pc'[t] = "collect"
    OBVIOUS
<1> QED
    BY <1>1, <1>2 DEF Books, BooksOf, Working

LEMMA BooksStep == Typed /\ Typed' /\ Books /\ [Next]_vars => Books'
<1> USE CommandHubAssumption
<1> SUFFICES ASSUME Typed, Typed', Books, [Next]_vars PROVE Books'
    OBVIOUS
<1>1. CASE UNCHANGED vars
    BY <1>1, BooksKept DEF vars
<1>2. CASE OwnerEdit
    BY <1>2, BooksKept DEF OwnerEdit
<1>3. ASSUME NEW j \in Jobs, ChangeRuntime(j) \/ Persist(j) PROVE Books'
  <2>1. j \in Threads
    BY DEF Threads
  <2>2. \A t \in Threads :
            pc'[t] = pc[t] \/ {pc[t], pc'[t]} \cap (Working \ {"collect"}) = {}
    BY <1>3, <2>1, Moved DEF ChangeRuntime, Persist, Working
  <2> QED
    BY <1>3, <2>2, BooksKept DEF ChangeRuntime, Persist
<1>4. CASE Watch
  <2>1. Watcher \in Threads
    BY DEF Threads
  <2>2. \A t \in Threads :
            pc'[t] = pc[t] \/ {pc[t], pc'[t]} \cap (Working \ {"collect"}) = {}
    <3>1. CASE WatchLooks
      BY <2>1, <3>1, Moved DEF WatchLooks, Working
    <3>2. CASE WatchBegins
      <4>1. pc[Watcher] = "lock" /\ Go(Watcher, "reload")
        BY <3>2 DEF WatchBegins
      <4>2. pc'[Watcher] = "reload" /\ \A u \in Threads : u # Watcher => pc'[u] = pc[u]
        BY <2>1, <4>1, Moved
      <4>3. "reload" \notin Working /\ "lock" \notin Working
        BY DEF Working
      <4> QED
        BY <4>1, <4>2, <4>3
    <3>3. CASE WatchEnds
      BY <2>1, <3>3, Moved DEF WatchEnds, Working
    <3> QED
      BY <1>4, <3>1, <3>2, <3>3 DEF Watch
  <2>3. UNCHANGED <<reg, tableVars, mgrVars, buildVars>>
    BY <1>4 DEF Watch, WatchLooks, WatchBegins, WatchEnds
  <2> QED
    BY <2>2, <2>3, BooksKept
<1>5. ASSUME NEW t \in Threads, Rebuild(t) PROVE Books'
  <2>1. CASE Reload(t) \/ CollectFails(t)
    <3>1. \A u \in Threads :
              pc'[u] = pc[u] \/ {pc[u], pc'[u]} \cap (Working \ {"collect"}) = {}
      <4>1. CASE Reload(t)
        <5>1. pc[t] = "reload" /\ Go(t, "collect")
          BY <4>1 DEF Reload
        <5>2. pc'[t] = "collect" /\ \A u \in Threads : u # t => pc'[u] = pc[u]
          BY <5>1, Moved
        <5> QED
          BY <5>1, <5>2 DEF Working
      <4>2. CASE CollectFails(t)
        BY <4>2, Moved DEF CollectFails, Leave, Working
      <4> QED
        BY <2>1, <4>1, <4>2
    <3>2. UNCHANGED <<reg, tableVars, mgrVars, buildVars>>
      BY <2>1 DEF Reload, CollectFails
    <3> QED
      BY <3>1, <3>2, BooksKept
  <2>2. CASE Collect(t)
    <3>1. pc[t] = "collect" /\ pc'[t] = "unregister"
      BY <2>2, Moved DEF Collect
    <3>2. Settled /\ UNCHANGED <<reg, active, mgr, closed>>
      BY <2>2, <3>1, HoldersBooks DEF BooksOf, Collect, tableVars, Working
    <3>3. Settled'
      BY <3>2 DEF Settled, Matched
    <3>4. Matched(defs[t], mgrs[t])' /\ (1..made') \ closed = Numbers(mgr) \cup Numbers(mgrs'[t])
      BY <2>2, CollectNumbers
    <3>5. Collected(t)'
      BY <3>2, <3>4 DEF Collected, Open, Numbers
    <3> QED
      BY <3>1, <3>3, <3>5, HoldersBooksNext DEF BooksOf, Working
  <2>3. CASE Unregister(t)
    <3>1. pc[t] = "unregister" /\ pc'[t] = "register"
      BY <2>3, Moved DEF Unregister
    <3>2. Settled /\ Collected(t)
      BY <3>1, HoldersBooks DEF BooksOf, Working
    <3>3. reg' = NoConfig
      BY <2>3, <3>2 DEF Unregister, Emptied, Settled, NoConfig, Typed, TypeOK
    <3>4. Collected(t)'
      BY <2>3, <3>2 DEF Unregister, Collected, Matched, Open, Numbers, tableVars, mgrVars,
         buildVars
    <3> QED
      BY <3>1, <3>3, <3>4, HoldersBooksNext DEF BooksOf, Working, NoConfig
  <2>4. CASE Register(t)
    <3>1. pc[t] = "register" /\ pc'[t] = "publish"
      BY <2>4, Moved DEF Register
    <3>2. reg = NoConfig /\ Collected(t)
      BY <3>1, HoldersBooks DEF BooksOf, Working
    <3> DEFINE free == {a \in Aliases : defs[t][a] # None /\ reg[a] = None}
               unused == {mgrs[t][a] : a \in Aliases \ free} \ {0}
    <3>3. free = {a \in Aliases : defs[t][a] # None}
      BY <3>2 DEF NoConfig
    <3>4. unused = {}
      BY <3>2, <3>3 DEF Collected, Matched
    <3>5. closed' = closed /\ UNCHANGED <<made, active, mgr, outgoing>>
      BY <2>4, <3>4 DEF Register, tableVars
    <3>6. defs[t] \in [Aliases -> Defs \cup {None}] /\ mgrs[t] \in [Aliases -> Nat]
      BY DEF Typed
    <3>7. defs'[t] = defs[t]
      BY <2>4, <3>3, <3>6 DEF Register, Typed
    <3>8. mgrs'[t] = mgrs[t]
      <4>1. mgrs'[t] = [a \in Aliases |-> IF a \in free THEN mgrs[t][a] ELSE 0]
        BY <2>4 DEF Register, Typed
      <4>2. \A a \in Aliases \ free : mgrs[t][a] = 0
        BY <3>2, <3>3 DEF Collected, Matched
      <4> QED
        BY <3>6, <4>1, <4>2
    <3>9. reg' = defs[t]
      <4>1. reg' = [a \in Aliases |-> IF a \in free THEN defs[t][a] ELSE reg[a]]
        BY <2>4 DEF Register
      <4>2. \A a \in Aliases \ free : defs[t][a] = None /\ reg[a] = None
        BY <3>2, <3>3 DEF NoConfig
      <4> QED
        BY <3>6, <4>1, <4>2
    <3>10. Collected(t)'
      BY <3>2, <3>5, <3>7, <3>8 DEF Collected, Matched, Open, Numbers
    <3> QED
      BY <3>1, <3>7, <3>9, <3>10, HoldersBooksNext DEF BooksOf, Working
  <2>5. CASE Publish(t)
    <3>1. pc[t] = "publish" /\ pc'[t] = "close"
      BY <2>5, Moved DEF Publish
    <3>2. reg = defs[t] /\ Collected(t)
      BY <3>1, HoldersBooks DEF BooksOf, Working
    <3>3. /\ active' = defs[t] /\ mgr' = mgrs[t] /\ UNCHANGED <<reg, made, closed>>
          /\ outgoing'[t] = Numbers(mgr) \ Numbers(mgrs[t])
      BY <2>5 DEF Publish, Typed, mgrVars
    <3>4. Settled'
      BY <3>2, <3>3 DEF Settled, Collected, Matched
    <3>5. Numbers(mgr)' = Numbers(mgrs[t]) /\ Open' = Open
      BY <3>3 DEF Open, Numbers
    <3>6. outgoing'[t] \cap Numbers(mgr)' = {} /\ Open' = Numbers(mgr)' \cup outgoing'[t]
      BY <3>2, <3>3, <3>5 DEF Collected
    <3> QED
      BY <3>1, <3>4, <3>6, HoldersBooksNext DEF BooksOf, Working
  <2>6. CASE FinishRebuild(t)
    <3>1. pc[t] = "close" /\ pc'[t] = "done"
      BY <2>6, Moved DEF FinishRebuild, Leave
    <3>2. /\ Settled /\ outgoing[t] \cap Numbers(mgr) = {}
          /\ Open = Numbers(mgr) \cup outgoing[t]
      BY <3>1, HoldersBooks DEF BooksOf, Working
    <3>3. UNCHANGED <<reg, active, mgr, made>> /\ closed' = closed \cup outgoing[t]
      BY <2>6 DEF FinishRebuild, CloseReplaced, tableVars
    <3>4. Settled' /\ Open' = Numbers(mgr)'
      BY <3>2, <3>3 DEF Settled, Matched, Open, Numbers
    <3>5. \A u \in Threads : pc'[u] \notin Working
      BY <2>6, <3>1, Moved, Alone DEF FinishRebuild, Leave, Working
    <3> QED
      BY <3>4, <3>5 DEF Books, Working
  <2> QED
    BY <1>5, <2>1, <2>2, <2>3, <2>4, <2>5, <2>6 DEF Rebuild
<1>6. ASSUME NEW l \in Listers, List(l) PROVE Books'
    BY <1>6, BooksKept DEF List, ListBegins, ListEnds
<1> QED
    BY <1>1, <1>2, <1>3, <1>4, <1>5, <1>6 DEF Next

-----------------------------------------------------------------------------
(* Nothing is forgotten.                                                   *)

LEMMA FreshStep == Typed /\ Books /\ Fresh /\ [Next]_vars => Fresh'
<1> USE CommandHubAssumption
<1> SUFFICES ASSUME Typed, Books, Fresh, [Next]_vars PROVE Fresh'
    OBVIOUS
<1> fails \in Nat /\ pc \in [Threads -> {"idle", "lock", "reload", "collect", "unregister",
                                 "register", "publish", "close", "done", "error"}]
    BY DEF Typed, TypeOK
<1> USE DEF Due, Building, Effective
<1>1. ASSUME UNCHANGED <<options, runtime, active, pc, defs, fails>> PROVE Fresh'
    BY <1>1 DEF Fresh
<1>2. ASSUME NEW j \in Jobs, ChangeRuntime(j) \/ Persist(j) PROVE Fresh'
  <2>1. j \in Threads
    BY DEF Threads
  <2>2. pc'[j] \in {"collect", "reload"} /\ \A u \in Threads : u # j => pc'[u] = pc[u]
    BY <1>2, <2>1, Moved DEF ChangeRuntime, Persist
  <2>3. UNCHANGED fails
    BY <1>2 DEF ChangeRuntime, Persist
  <2> QED
    BY <2>1, <2>2, <2>3 DEF Fresh
<1>3. CASE Watch
  <2> DEFINE w == Watcher
  <2>1. w \in Threads
    BY DEF Threads
  <2>2. UNCHANGED <<runtime, active, defs, fails>>
    BY <1>3 DEF Watch, WatchLooks, WatchBegins, WatchEnds, confVars, tableVars, buildVars
  <2>3. \A u \in Threads : u # w => pc'[u] = pc[u]
    BY <1>3, <2>1, Moved DEF Watch, WatchLooks, WatchBegins, WatchEnds
  <2>4. CASE WatchBegins
    <3>1. pc'[w] = "reload"
      BY <2>1, <2>4, Moved DEF WatchBegins
    <3> QED
      BY <2>1, <2>2, <2>3, <3>1 DEF Fresh
  <2>5. CASE WatchLooks \/ WatchEnds
    <3>1. pc[w] \in {"idle", "done", "error"} /\ pc'[w] \in {"lock", "idle"}
      BY <2>1, <2>5, Moved DEF WatchLooks, WatchEnds
    <3>2. UNCHANGED options \/ fails > 0
      BY <2>1, <2>5 DEF WatchLooks, WatchEnds, confVars, Fresh
    <3> QED
      <4>1. \A u \in Threads : pc'[u] = "error" => fails' > 0
        BY <2>2, <2>3, <3>1 DEF Fresh
      <4>2. Due' <=> Due
        BY <2>1, <2>3, <3>1
      <4>3. \A u \in Threads : Building(u)' <=> Building(u)
        BY <2>1, <2>3, <3>1
      <4>4. fails = 0 => UNCHANGED Effective(options, runtime)
        BY <2>2, <3>2
      <4> QED
        BY <2>2, <4>1, <4>2, <4>3, <4>4 DEF Fresh
  <2> QED
    BY <1>3, <2>4, <2>5 DEF Watch
<1>4. ASSUME NEW t \in Threads, Rebuild(t) PROVE Fresh'
  <2>1. CASE Reload(t)
    <3>1. pc'[t] = "collect" /\ (\A u \in Threads : u # t => pc'[u] = pc[u]) /\ UNCHANGED fails
      BY <2>1, Moved DEF Reload
    <3> QED
      BY <3>1 DEF Fresh
  <2>2. CASE CollectFails(t)
    <3>1. fails' > 0
      BY <2>2 DEF CollectFails
    <3> QED
      BY <3>1 DEF Fresh
  <2>3. CASE Collect(t)
    <3>1. /\ pc'[t] = "unregister" /\ \A u \in Threads : u # t => pc'[u] = pc[u]
          /\ UNCHANGED <<options, runtime, fails>>
      BY <2>3, Moved DEF Collect, confVars
    <3>2. defs'[t] = Effective(options, runtime)
      BY <2>3 DEF Collect, Typed
    <3>3. defs'[t] = Effective(options, runtime)'
      BY <3>1, <3>2
    <3> QED
      BY <3>1, <3>3 DEF Fresh
  <2>4. CASE Unregister(t) \/ Register(t)
    <3>1. /\ pc[t] \in {"unregister", "register"} /\ pc'[t] \in {"register", "publish"}
          /\ \A u \in Threads : u # t => pc'[u] = pc[u]
          /\ UNCHANGED <<options, runtime, active, fails>>
      BY <2>4, Moved DEF Unregister, Register, confVars, tableVars
    <3>2. \A u \in Threads : u # t => ~Building(u)
      BY <3>1, Alone DEF Working
    <3>3. defs'[t] = defs[t]
      <4>1. CASE Unregister(t)
        BY <4>1 DEF Unregister, buildVars
      <4>2. CASE Register(t)
        <5>1. reg = NoConfig
          BY <4>2 DEF Register, Books
        <5>2. /\ defs[t] \in [Aliases -> Defs \cup {None}]
              /\ defs'[t] = [a \in Aliases |-> IF defs[t][a] # None /\ reg[a] = None
                                               THEN defs[t][a] ELSE None]
          BY <4>2 DEF Register, Typed
        <5> QED
          BY <5>1, <5>2 DEF NoConfig
      <4> QED
        BY <2>4, <4>1, <4>2
    <3>4. Due' <=> Due
      BY <3>1
    <3>5. fails = 0 => Due \/ defs[t] = Effective(options, runtime)
      BY <3>1, <3>2 DEF Fresh
    <3> QED
      BY <3>1, <3>3, <3>4, <3>5 DEF Fresh
  <2>5. CASE Publish(t)
    <3>1. /\ pc[t] = "publish" /\ pc'[t] = "close" /\ active' = defs[t]
          /\ \A u \in Threads : u # t => pc'[u] = pc[u]
          /\ UNCHANGED <<options, runtime, fails>>
      BY <2>5, Moved DEF Publish, confVars
    <3>2. \A u \in Threads : ~Building(u)'
      BY <3>1, Alone DEF Working
    <3>3. fails = 0 => Due \/ defs[t] = Effective(options, runtime)
      BY <3>1, Alone DEF Fresh, Working
    <3>4. Due' <=> Due
      BY <3>1
    <3> QED
      BY <3>1, <3>2, <3>3, <3>4 DEF Fresh
  <2>6. CASE FinishRebuild(t)
    <3>1. /\ pc[t] = "close" /\ pc'[t] = "done" /\ \A u \in Threads : u # t => pc'[u] = pc[u]
          /\ UNCHANGED <<options, runtime, active, defs, fails>>
      BY <2>6, Moved DEF FinishRebuild, Leave, confVars, tableVars
    <3> QED
      BY <3>1 DEF Fresh
  <2> QED
    BY <1>4, <2>1, <2>2, <2>3, <2>4, <2>5, <2>6 DEF Rebuild
<1> QED
    BY <1>1, <1>2, <1>3, <1>4 DEF Next, vars, OwnerEdit, List, ListBegins, ListEnds, confVars,
       tableVars, buildVars

-----------------------------------------------------------------------------
(* The theorems.                                                           *)

LEMMA StepInv == Inv /\ [Next]_vars => Inv'
    BY TypedStep, BooksStep, FreshStep DEF Inv

LEMMA Invariance == Spec => []Inv
    BY InitInv, StepInv, PTL DEF Spec

\* Every reachable state is well typed; in particular rebuildMu is held exactly
\* by the thread that is inside a rebuild, however commands and the watcher meet.
THEOREM TypeCorrect == Spec => []TypeOK
<1>1. Inv => TypeOK
    BY DEF Inv, Typed
<1> QED
    BY <1>1, Invariance, PTL

\* Between rebuilds the shell, the published definitions and the managers name
\* the same commands, no manager has been lost and none closed that is published;
\* and as long as no rebuild fails, whenever nobody is at work they are the
\* commands of the options and of run time: commandHub.reload and
\* upsertRuntime leave nothing behind, whatever writes come between.
THEOREM HubCoherent == Spec => []Coherent
<1>1. Inv => Coherent
  <2> USE CommandHubAssumption
  <2> SUFFICES ASSUME Inv PROVE Coherent
    OBVIOUS
  <2>1. ASSUME rebuildMu = None
        PROVE  /\ reg = active /\ \A a \in Aliases : (active[a] = None) <=> (mgr[a] = 0)
               /\ (1..made) \ closed = Numbers(mgr)
    <3>1. \A t \in Threads : pc[t] \notin Working
      BY <2>1 DEF Inv, Typed, TypeOK, Working
    <3> QED
      BY <3>1 DEF Inv, Books, Settled, Matched, Open
  <2>2. ASSUME fails = 0, AtRest PROVE active = Effective(options, runtime)
    <3>1. \A t \in Threads : pc[t] \in {"idle", "done", "error"}
      BY <2>2 DEF AtRest, Threads
    <3> QED
      BY <2>2, <3>1 DEF Inv, Fresh, Due, Building
  <2> QED
    BY <2>1, <2>2 DEF Coherent
<1> QED
    BY <1>1, Invariance, PTL

\* At no moment, not in the middle of a rebuild either, is a manager published
\* that has been closed: what commandHub routes a call to is alive.
THEOREM PublishedAreOpen == Spec => [](Numbers(mgr) \cap closed = {})
<1>1. Inv => Numbers(mgr) \cap closed = {}
  <2> SUFFICES ASSUME Inv PROVE Numbers(mgr) \subseteq Open
    BY DEF Open
  <2>1. CASE \E t \in Threads : pc[t] \in Working
    BY <2>1, HoldersBooks DEF Inv, BooksOf, Collected, Working
  <2>2. CASE \A t \in Threads : pc[t] \notin Working
    BY <2>2 DEF Inv, Books
  <2> QED
    BY <2>1, <2>2
<1> QED
    BY <1>1, Invariance, PTL

================================================================================

---------------------------- MODULE ScriptProofs ----------------------------
(* What holds, for every value of the constants, of the parts that work on  *)
(* files without the file service: the virtual file system of scripts, the  *)
(* edit tool, skill packages and remote transfers.                          *)
EXTENDS MCFiles, SequenceTheorems, WellFoundedInduction, TLAPS

bundleVars == <<part, serviceVars, scriptVars, editVars, remoteVars, skillsVars>>

-----------------------------------------------------------------------------
(* The file system of scripts.  Whatever other programs rename, the          *)
(* directory that a call is in was reached from the root, each name an entry *)
(* that was there since the call began.                                      *)

\* The first k names of p lead, by entries of H, from the root to d.
Chain(H, p, k, d) ==
    \E w \in [0..k -> Script!Objects] :
        /\ w[0] = Root /\ w[k] = d
        /\ \A i \in 1..k : <<w[i - 1], p[i], w[i]>> \in H

ScriptPlaces == {"never", "idle", "plain", "levels", "pin", "look", "enter", "check", "lstat", "create",
                 "open", "act", "done"}
Judged == {"check", "lstat", "create", "open", "act"}
UnderWay == {"pin", "look", "enter"} \cup Judged
ScriptJobs ==
    [at : ScriptPlaces, abs : Seq(Seq(Names)), todo : Seq(Seq(Names)), canon : Seq(Seq(Names)),
     open : Seq(Dirs), h : Dirs, k : Nat, seen : Script!Objects \cup {Absent},
     allowed : SUBSET Seq(Names), acts : SUBSET [path : Seq(Names), obj : Script!Objects]]

\* Of a call with the place j, when H holds the entries there have been: what it
\* has done was allowed and met what the path led to,
Done(j, H) == \A x \in j.acts : x.path \in j.allowed /\ Chain(H, x.path, Len(x.path), x.obj)
\* the directories it has pinned hold the last names of their paths,
Pinned(j, H) ==
    \A i \in 1..Len(j.open) :
        j.canon[i] # << >> /\ Chain(H, j.canon[i], Len(j.canon[i]) - 1, j.open[i])
\* so does the one it is in hold the next name,
Current(j) == j.canon[Len(j.canon)]
Within(j, H) ==
    /\ j.at \in {"look", "enter"} => /\ Len(j.canon) = Len(j.open) + 1
                                     /\ j.k + 1 <= Len(Current(j)) /\ Chain(H, Current(j), j.k, j.h)
    /\ j.at \in Judged => /\ Len(j.canon) = Len(j.open) /\ Len(j.open) > 0
                          /\ j.k + 1 = Len(Current(j)) /\ j.h = j.open[Len(j.open)]
    /\ j.at = "enter" => j.k + 1 < Len(Current(j))
    /\ j.at \in {"enter", "open"} =>
         j.seen \in Script!Objects /\ <<j.h, Current(j)[j.k + 1], j.seen>> \in H
    /\ j.at \in Judged \ {"check"} => Current(j) \in j.allowed
\* and it has as many paths as its operation has.
InTurn(c, j) ==
    /\ j.at \in {"idle", "never", "plain", "levels"} => j.open = << >> /\ j.canon = << >> /\ j.acts = {}
    /\ j.at \in {"plain", "levels"} => Len(j.abs) > 0
    /\ j.at = "levels" => c.op = "mkdir"
    /\ j.at \in {"pin", "look", "enter"} => Len(j.todo) > 0
    /\ j.at = "pin" => Len(j.canon) = Len(j.open)
    /\ j.at \in UnderWay /\ c.op # "mkdir" =>
         /\ Len(j.todo) + Len(j.open) = IF c.op = "rename" THEN 2 ELSE 1
         /\ j.at \in Judged => Len(j.todo) = 0
    /\ j.at = "act" /\ c.op = "rename" => \A i \in 1..Len(j.canon) : j.canon[i] \in j.allowed
    /\ j.at \in {"lstat", "create", "open"} => c.op \notin {"mkdir", "rename"}

ScriptOk(c, j, H) == Done(j, H) /\ Pinned(j, H) /\ Within(j, H) /\ InTurn(c, j)

ScriptTypes ==
    /\ entry \in [Dirs -> [Names -> Script!Objects \cup {Absent}]]
    /\ cwd \in Seq(Names)
    /\ scriptJob \in [ScriptCalls -> ScriptJobs]
ScriptInv == ScriptTypes /\ \A c \in ScriptCalls : ScriptOk(c, scriptJob[c], held[c])
ScriptSafe == part = "script" => ScriptInv

-----------------------------------------------------------------------------
(* Steps along a sequence, as recursive functions take them.                *)

\* Every set of natural numbers has a least element, which stands for induction.
Smaller == {p \in Nat \X Nat : p[1] < p[2]}

LEMMA Least ==
    ASSUME NEW T \in SUBSET Nat, T # {}
    PROVE  \E n \in T : \A m \in T : n <= m
<1>1. IsWellFoundedOn(Smaller, Nat)
    BY NatLessThanWellFounded DEF OpToRel, Smaller
<1>2. PICK n \in T : \A m \in T : ~(<<m, n>> \in Smaller)
    BY <1>1, WFMin
<1>3. ASSUME NEW m \in T PROVE n <= m
    <2>1. m \in Nat /\ n \in Nat /\ (<<m, n>> \in Smaller <=> m < n)
        BY DEF Smaller
    <2> QED
        BY <1>2, <2>1
<1> QED
    BY <1>3

\* What is right at first and stays right from one place to the next is right.
LEMMA Throughout ==
    ASSUME NEW n \in Nat, NEW Q, 0 \in Q, \A i \in 1..n : i - 1 \in Q => i \in Q
    PROVE  \A i \in 0..n : i \in Q
<1> DEFINE T == {i \in 0..n : i \notin Q}
<1> SUFFICES ASSUME T # {} PROVE FALSE
    OBVIOUS
<1>1. T \in SUBSET Nat
    OBVIOUS
<1>2. PICK m \in T : \A i \in T : m <= i
    BY <1>1, Least
<1>3. m \in 1..n /\ m - 1 \in 0..n /\ ~(m <= m - 1)
    BY <1>1, <1>2
<1>4. m - 1 \in Q
    BY <1>2, <1>3
<1> QED
    BY <1>2, <1>3, <1>4

\* F[<<i, x>>] is what the step to the place i makes of x.
Closed(A, F, n) == \A i \in 1..n, x \in A : F[<<i, x>>] \in A
Reached(A, F, first, n) ==
    \E f \in [0..n -> A] : f[0] = first /\ \A i \in 1..n : f[i] = F[<<i, f[i - 1]>>]

LEMMA Iterates ==
    ASSUME NEW A, NEW first \in A, NEW n \in Nat, NEW F, Closed(A, F, n)
    PROVE  Reached(A, F, first, n)
<1> DEFINE Q == {m \in 0..n : Reached(A, F, first, m)}
<1>1. 0 \in Q
    <2>1. [i \in 0..0 |-> first] \in [0..0 -> A]
        OBVIOUS
    <2>2. [i \in 0..0 |-> first][0] = first /\ \A i \in 1..0 : FALSE
        OBVIOUS
    <2>3. Reached(A, F, first, 0)
        BY <2>1, <2>2 DEF Reached
    <2> QED
        BY <2>3
<1>2. ASSUME NEW m \in 1..n, m - 1 \in Q PROVE m \in Q
    <2>1. PICK f \in [0..(m - 1) -> A] : f[0] = first /\ \A i \in 1..(m - 1) : f[i] = F[<<i, f[i - 1]>>]
        BY <1>2 DEF Reached
    <2> DEFINE g == [i \in 0..m |-> IF i < m THEN f[i] ELSE F[<<m, f[m - 1]>>]]
    <2>2. m - 1 \in 0..(m - 1) /\ m \in Nat
        OBVIOUS
    <2>3. F[<<m, f[m - 1]>>] \in A
        BY <2>1, <2>2 DEF Closed
    <2>4. g \in [0..m -> A] /\ g[0] = first
        BY <2>1, <2>3
    <2>5. ASSUME NEW i \in 1..m PROVE g[i] = F[<<i, g[i - 1]>>]
        <3>1. CASE i = m
            <4>1. g[i] = F[<<m, f[m - 1]>>] /\ g[i - 1] = f[m - 1]
                BY <2>2, <3>1
            <4> QED
                BY <3>1, <4>1
        <3>2. CASE i \in 1..(m - 1)
            <4>1. g[i] = f[i] /\ g[i - 1] = f[i - 1]
                BY <3>2
            <4> QED
                BY <2>1, <3>2, <4>1
        <3> QED
            BY <3>1, <3>2
    <2> HIDE DEF g
    <2>6. Reached(A, F, first, m)
        BY <2>4, <2>5 DEF Reached
    <2> QED
        BY <2>6
<1> HIDE DEF Q
<1>3. \A i \in 0..n : i \in Q
    BY <1>1, <1>2, Throughout
<1>4. n \in Q
    BY <1>3
<1> QED
    BY <1>4 DEF Q

-----------------------------------------------------------------------------
(* Names that are resolved, and names that lead somewhere.                  *)

\* The places a recursive function gives along p, when f is one of its values.
Resolving(p, f) == f = [k \in 0..Len(p) |-> IF k = 0 THEN << >> ELSE Script!Step(f[k - 1], p[k])]

LEMMA StepNames ==
    ASSUME ScriptTypes, Script!Parameters, NEW q \in Seq(Names), NEW n \in Names
    PROVE  Script!Step(q, n) \in Seq(Names)
    BY DEF Script!Step, Script!Parameters

LEMMA CanonicalNames ==
    ASSUME ScriptTypes, Script!Parameters, NEW p \in Seq(Names)
    PROVE  Script!Canonical(p) \in Seq(Names)
<1> DEFINE S == Seq(Names)
           F == [x \in (1..Len(p)) \X S |-> Script!Step(x[2], p[x[1]])]
<1>1. Len(p) \in Nat /\ << >> \in S /\ \A i \in 1..Len(p) : p[i] \in Names
    BY EmptySeq, LenProperties, ElementOfSeq
<1>2. \A i \in 1..Len(p), x \in S : F[<<i, x>>] = Script!Step(x, p[i]) /\ F[<<i, x>>] \in S
    BY <1>1, StepNames
<1> HIDE DEF F, S

<1>3. PICK f \in [0..Len(p) -> S] : f[0] = << >> /\ \A i \in 1..Len(p) : f[i] = F[<<i, f[i - 1]>>]
    <2>1. Closed(S, F, Len(p))
        BY <1>2 DEF Closed
    <2>2. Reached(S, F, << >>, Len(p))
        BY <1>1, <2>1, Iterates
    <2> QED
        BY <2>2 DEF Reached
<1>4. Resolving(p, f)
    <2>1. \A k \in 1..Len(p) : k - 1 \in 0..Len(p) /\ f[k] = Script!Step(f[k - 1], p[k])
        BY <1>1, <1>2, <1>3
    <2>2. \A k \in 0..Len(p) : f[k] = IF k = 0 THEN << >> ELSE Script!Step(f[k - 1], p[k])
        BY <1>1, <1>3, <2>1
    <2> QED
        BY <1>3, <2>2 DEF Resolving
<1> DEFINE g == CHOOSE g : Resolving(p, g)
<1>5. Resolving(p, g)
    BY <1>4
<1>6. Script!Canonical(p) = g[Len(p)]
    BY DEF Script!Canonical, Resolving
<1> HIDE DEF g
<1> DEFINE Q == {k \in 0..Len(p) : g[k] \in S}
<1>7. 0 \in Q
    BY <1>1, <1>5 DEF Resolving
<1>8. ASSUME NEW k \in 1..Len(p), k - 1 \in Q PROVE k \in Q
    <2>1. g[k] = Script!Step(g[k - 1], p[k])
        BY <1>1, <1>5 DEF Resolving
    <2>2. g[k - 1] \in Seq(Names) /\ p[k] \in Names
        BY <1>1, <1>8 DEF S
    <2>3. g[k] \in S
        BY <2>1, <2>2, StepNames DEF S
    <2> QED
        BY <2>3
<1>9. \A k \in 0..Len(p) : k \in Q
    <2> HIDE DEF Q
    <2> QED
        BY <1>1, <1>7, <1>8, Throughout
<1> QED
    BY <1>1, <1>6, <1>9 DEF S

\* The objects that the names of p lead to by entries of H, name by name.
Leading(p, H, f) ==
    f = [k \in 0..Len(p) |->
            IF k = 0 THEN {Root}
            ELSE LET from == f[k - 1]
                 IN  {t[3] : t \in {u \in H : u[1] \in from /\ u[2] = p[k]}} \ {Absent}]

LEMMA ChainLed ==
    ASSUME Script!Parameters, NEW c, NEW p \in Seq(Names), NEW d, Chain(held[c], p, Len(p), d)
    PROVE  d \in Script!Led(c, p)
<1> DEFINE H == held[c]
           V == {Root} \cup {u[3] : u \in H}
           A == SUBSET V
           F == [x \in (1..Len(p)) \X A |->
                    {t[3] : t \in {u \in H : u[1] \in x[2] /\ u[2] = p[x[1]]}} \ {Absent}]
<1>1. Len(p) \in Nat /\ {Root} \in A
    BY LenProperties
<1>2. \A i \in 1..Len(p), x \in A :
        /\ F[<<i, x>>] = {t[3] : t \in {u \in H : u[1] \in x /\ u[2] = p[i]}} \ {Absent}
        /\ F[<<i, x>>] \in A
    OBVIOUS
<1> HIDE DEF F, A
<1>3. PICK f \in [0..Len(p) -> A] : f[0] = {Root} /\ \A i \in 1..Len(p) : f[i] = F[<<i, f[i - 1]>>]
    <2>1. Closed(A, F, Len(p))
        BY <1>2 DEF Closed
    <2>2. Reached(A, F, {Root}, Len(p))
        BY <1>1, <2>1, Iterates
    <2> QED
        BY <2>2 DEF Reached
<1>4. Leading(p, H, f)
    <2>1. ASSUME NEW k \in 1..Len(p)
          PROVE  f[k] = {t[3] : t \in {u \in H : u[1] \in f[k - 1] /\ u[2] = p[k]}} \ {Absent}
        <3>1. k - 1 \in 0..Len(p) /\ f[k - 1] \in A
            BY <1>1, <1>3
        <3>2. f[k] = F[<<k, f[k - 1]>>]
            BY <1>3
        <3> HIDE DEF H
        <3> QED
            BY <1>2, <3>1, <3>2
    <2>2. \A k \in 0..Len(p) :
            f[k] = IF k = 0 THEN {Root}
                   ELSE LET from == f[k - 1]
                        IN  {t[3] : t \in {u \in H : u[1] \in from /\ u[2] = p[k]}} \ {Absent}
        BY <1>1, <1>3, <2>1
    <2> QED
        BY <1>3, <2>2 DEF Leading
<1> DEFINE g == CHOOSE g : Leading(p, H, g)
<1>5. Leading(p, H, g)
    BY <1>4
<1>6. Script!Led(c, p) = g[Len(p)]
    BY DEF Script!Led, Leading
<1> HIDE DEF g
<1>7. PICK w \in [0..Len(p) -> Script!Objects] :
        /\ w[0] = Root /\ w[Len(p)] = d
        /\ \A i \in 1..Len(p) : <<w[i - 1], p[i], w[i]>> \in H
    BY DEF Chain
<1> DEFINE Q == {k \in 0..Len(p) : w[k] \in g[k]}
<1>8. 0 \in Q
    BY <1>1, <1>5, <1>7 DEF Leading
<1>9. ASSUME NEW k \in 1..Len(p), k - 1 \in Q PROVE k \in Q
    <2>1. g[k] = {t[3] : t \in {u \in H : u[1] \in g[k - 1] /\ u[2] = p[k]}} \ {Absent}
        <3> HIDE DEF H
        <3>1. k \in 0..Len(p) /\ k # 0
            BY <1>1
        <3> DEFINE G(n) == IF n = 0 THEN {Root}
                           ELSE {t[3] : t \in {u \in H : u[1] \in g[n - 1] /\ u[2] = p[n]}} \ {Absent}
        <3>2. g = [n \in 0..Len(p) |-> G(n)]
            BY <1>5 DEF Leading
        <3>3. G(k) = {t[3] : t \in {u \in H : u[1] \in g[k - 1] /\ u[2] = p[k]}} \ {Absent}
            BY <3>1
        <3> HIDE DEF G
        <3>4. g[k] = G(k)
            BY <3>1, <3>2
        <3> QED
            BY <3>3, <3>4
    <2>2. w[k] # Absent /\ k \in 0..Len(p)
        BY <1>1, <1>7 DEF Script!Parameters
    <2>3. w[k - 1] \in g[k - 1]
        BY <1>9
    <2> DEFINE t == <<w[k - 1], p[k], w[k]>>
    <2>4. t \in H /\ t[1] = w[k - 1] /\ t[2] = p[k] /\ t[3] = w[k]
        BY <1>7
    <2> HIDE DEF t, H
    <2>5. w[k] \in g[k]
        BY <2>1, <2>2, <2>3, <2>4
    <2> QED
        BY <2>2, <2>5
<1>10. \A k \in 0..Len(p) : k \in Q
    <2> HIDE DEF Q
    <2> QED
        BY <1>1, <1>8, <1>9, Throughout
<1> QED
    BY <1>1, <1>6, <1>7, <1>10

LEMMA ChainStart ==
    ASSUME Script!Parameters, NEW H, NEW p
    PROVE  Chain(H, p, 0, Root)
<1>1. Root \in Script!Objects
    BY DEF Script!Parameters, Script!Objects
<1>2. [i \in 0..0 |-> Root] \in [0..0 -> Script!Objects] /\ [i \in 0..0 |-> Root][0] = Root
      /\ \A i \in 1..0 : FALSE
    BY <1>1
<1> QED
    BY <1>2 DEF Chain

LEMMA ChainOn ==
    ASSUME NEW H, NEW p, NEW k \in Nat, NEW d, Chain(H, p, k, d),
           NEW o \in Script!Objects, <<d, p[k + 1], o>> \in H
    PROVE  Chain(H, p, k + 1, o)
<1>1. PICK w \in [0..k -> Script!Objects] :
        w[0] = Root /\ w[k] = d /\ \A i \in 1..k : <<w[i - 1], p[i], w[i]>> \in H
    BY DEF Chain
<1> DEFINE v == [i \in 0..(k + 1) |-> IF i <= k THEN w[i] ELSE o]
<1>2. v \in [0..(k + 1) -> Script!Objects] /\ v[0] = Root /\ v[k + 1] = o
    BY <1>1
<1>3. ASSUME NEW i \in 1..(k + 1) PROVE <<v[i - 1], p[i], v[i]>> \in H
    <2>1. CASE i = k + 1
        <3>1. v[i - 1] = d /\ v[i] = o
            BY <1>1, <2>1
        <3> QED
            BY <2>1, <3>1
    <2>2. CASE i \in 1..k
        <3>1. v[i - 1] = w[i - 1] /\ v[i] = w[i]
            BY <2>2
        <3> QED
            BY <1>1, <2>2, <3>1
    <2> QED
        BY <2>1, <2>2
<1> HIDE DEF v
<1> QED
    BY <1>2, <1>3 DEF Chain

LEMMA ChainGrows ==
    ASSUME NEW H, NEW G, H \subseteq G, NEW p, NEW k, NEW d, Chain(H, p, k, d)
    PROVE  Chain(G, p, k, d)
    BY DEF Chain

LEMMA OkGrows ==
    ASSUME NEW c, NEW j, NEW H, NEW G, ScriptOk(c, j, H), H \subseteq G
    PROVE  ScriptOk(c, j, G)
<1>1. Done(j, G)
    BY ChainGrows DEF ScriptOk, Done
<1>2. Pinned(j, G)
    BY ChainGrows DEF ScriptOk, Pinned
<1>3. Within(j, G)
    BY ChainGrows DEF ScriptOk, Within
<1> QED
    BY <1>1, <1>2, <1>3 DEF ScriptOk

LEMMA OkAtRest ==
    ASSUME NEW c, NEW j, NEW H, NEW G, ScriptOk(c, j, H), j.at \in {"idle", "never"}
    PROVE  ScriptOk(c, j, G)
<1>1. j.open = << >> /\ j.acts = {}
    BY DEF ScriptOk, InTurn
<1>2. Done(j, G) /\ Pinned(j, G)
    BY <1>1, EmptySeq DEF Done, Pinned
<1> QED
    BY <1>2 DEF ScriptOk, Within, Judged

LEMMA Remembered ==
    ASSUME Script!Remember, NEW c \in ScriptCalls, scriptJob'[c].at \notin {"idle", "never"}
    PROVE  /\ held[c] \subseteq held'[c]
           /\ scriptJob[c].at # "done" =>
                \A d \in Dirs, n \in Names :
                    <<d, n, entry[d][n]>> \in held'[c] /\ <<d, n, entry'[d][n]>> \in held'[c]
<1>1. held'[c] = IF scriptJob[c].at = "done" THEN held[c]
                 ELSE held[c] \cup Script!Triples \cup Script!Triples'
    BY DEF Script!Remember
<1>2. \A d \in Dirs, n \in Names :
        <<d, n, entry[d][n]>> \in Script!Triples /\ <<d, n, entry'[d][n]>> \in Script!Triples'
    BY DEF Script!Triples
<1> QED
    BY <1>1, <1>2

\* A step of one call leaves the others where they are.
LEMMA OneCall ==
    ASSUME ScriptInv, NEW c \in ScriptCalls, NEW j \in ScriptJobs, j.at \notin {"idle", "never"},
           scriptJob' = [scriptJob EXCEPT ![c] = j], Script!Remember,
           entry' \in [Dirs -> [Names -> Script!Objects \cup {Absent}]], cwd' \in Seq(Names),
           ScriptOk(c, j, held'[c])
    PROVE  ScriptInv'
<1>1. ScriptTypes'
    BY DEF ScriptInv, ScriptTypes
<1>2. scriptJob'[c] = j /\ \A x \in ScriptCalls : x # c => scriptJob'[x] = scriptJob[x]
    BY DEF ScriptInv, ScriptTypes
<1>3. ASSUME NEW x \in ScriptCalls PROVE ScriptOk(x, scriptJob'[x], held'[x])
    <2>1. CASE x = c
        BY <1>2, <2>1
    <2>2. CASE x # c
        <3>1. ScriptOk(x, scriptJob[x], held[x]) /\ scriptJob'[x] = scriptJob[x]
            BY <1>2, <2>2 DEF ScriptInv
        <3>2. CASE scriptJob[x].at \in {"idle", "never"}
            BY <3>1, <3>2, OkAtRest
        <3>3. CASE scriptJob[x].at \notin {"idle", "never"}
            <4>1. held[x] \subseteq held'[x]
                BY <3>1, <3>3, Remembered
            <4> QED
                BY <3>1, <4>1, OkGrows
        <3> QED
            BY <3>2, <3>3
    <2> QED
        BY <2>1, <2>2
<1> QED
    BY <1>1, <1>3 DEF ScriptInv

-----------------------------------------------------------------------------
(* The steps of a call.                                                     *)

LEMMA NoneLong == Len(<< >>) = 0
    BY EmptySeq

LEMMA ScriptJobType ==
    ASSUME ScriptInv, NEW c \in ScriptCalls
    PROVE  scriptJob[c] \in ScriptJobs /\ ScriptOk(c, scriptJob[c], held[c])
    BY DEF ScriptInv, ScriptTypes

LEMMA ScriptFails ==
    ASSUME ScriptInv, NEW c \in ScriptCalls, Script!Fails(c), Script!Others
    PROVE  ScriptInv'
<1> DEFINE j == [scriptJob[c] EXCEPT !.at = "done"]
<1>1. j \in ScriptJobs /\ j.at = "done"
    BY ScriptJobType DEF ScriptJobs, ScriptPlaces
<1>2. scriptJob' = [scriptJob EXCEPT ![c] = j] /\ entry' = entry /\ cwd' = cwd /\ Script!Remember
    BY DEF Script!Fails, Script!Goto, Script!Others
<1>3. scriptJob'[c] = j
    BY <1>2 DEF ScriptInv, ScriptTypes
<1>4. ScriptOk(c, scriptJob[c], held'[c])
    BY <1>1, <1>2, <1>3, Remembered, ScriptJobType, OkGrows
<1>5. j.acts = scriptJob[c].acts /\ j.allowed = scriptJob[c].allowed /\ j.open = scriptJob[c].open
      /\ j.canon = scriptJob[c].canon
    BY ScriptJobType DEF ScriptJobs
<1>6. ScriptOk(c, j, held'[c])
    BY <1>1, <1>4, <1>5 DEF ScriptOk, Done, Pinned, Within, InTurn, Judged, UnderWay
<1> HIDE DEF j
<1> QED
    BY <1>1, <1>2, <1>6, OneCall DEF ScriptInv, ScriptTypes

LEMMA AskedPaths ==
    ASSUME ScriptInv, Script!Parameters, NEW c \in ScriptCalls
    PROVE  LET abs == [i \in DOMAIN Script!Named(c) |-> Script!Abs(c, Script!Named(c)[i])]
           IN  abs \in Seq(Seq(Names)) /\ Len(abs) = IF c.op = "rename" THEN 2 ELSE 1
<1>1. \A p \in Seq(Names) : Script!Abs(c, p) \in Seq(Names)
    BY ConcatProperties DEF Script!Abs, ScriptInv, ScriptTypes
<1>2. c.name \in Seq(Names) /\ c.dest \in Seq(Names)
    BY DEF Script!Parameters
<1>3. CASE c.op = "rename"
    BY <1>1, <1>2, <1>3 DEF Script!Named
<1>4. CASE c.op # "rename"
    BY <1>1, <1>2, <1>4 DEF Script!Named
<1> QED
    BY <1>3, <1>4

LEMMA ScriptBegin ==
    ASSUME ScriptInv, Script!Parameters, NEW c \in ScriptCalls, Script!Begin(c)
    PROVE  ScriptInv'
<1> DEFINE abs == [i \in DOMAIN Script!Named(c) |-> Script!Abs(c, Script!Named(c)[i])]
           place == IF Script!Plain(c.op) THEN "plain" ELSE IF c.op = "mkdir" THEN "levels" ELSE "pin"
           j == [Script!Idle EXCEPT !.abs = abs, !.todo = abs, !.at = place]
<1>1. CASE Script!Fails(c)
    BY <1>1, ScriptFails DEF Script!Begin
<1>2. CASE Script!Set(c, j) /\ UNCHANGED entry
    <2>1. abs \in Seq(Seq(Names)) /\ Len(abs) = IF c.op = "rename" THEN 2 ELSE 1
        BY AskedPaths
    <2>a. place \in {"plain", "levels", "pin"} /\ (place = "levels" => c.op = "mkdir")
        OBVIOUS
    <2> HIDE DEF abs, place
    <2>b. /\ Script!Idle \in ScriptJobs
          /\ Script!Idle.canon = << >> /\ Script!Idle.open = << >> /\ Script!Idle.acts = {}
        BY EmptySeq DEF Script!Idle, ScriptJobs, ScriptPlaces, Script!Parameters
    <2>2. /\ j.at = place /\ j.abs = abs /\ j.todo = abs /\ j.canon = << >> /\ j.open = << >>
          /\ j.acts = {}
        BY <2>b DEF ScriptJobs
    <2>4. j \in ScriptJobs
        BY <2>1, <2>a, <2>b DEF ScriptJobs, ScriptPlaces
    <2> HIDE DEF j
    <2>c. Len(j.todo) + Len(j.open) = IF c.op = "rename" THEN 2 ELSE 1
        BY <2>1, <2>2, NoneLong
    <2>d. Len(abs) > 0
        BY <2>1
    <2>3. InTurn(c, j)
        <3>1. j.at \notin Judged
            BY <2>2, <2>a DEF Judged
        <3> HIDE DEF j
        <3> QED
            BY <2>2, <2>a, <2>c, <2>d, <3>1 DEF InTurn, Judged
    <2>5. ScriptOk(c, j, held'[c])
        BY <2>2, <2>3, <2>a, NoneLong DEF ScriptOk, Done, Pinned, Within, Judged
    <2>6. scriptJob' = [scriptJob EXCEPT ![c] = j] /\ cwd' = cwd /\ Script!Remember
        BY <1>2 DEF Script!Set, Script!Begin, Script!Others
    <2> QED
        BY <1>2, <2>2, <2>a, <2>4, <2>5, <2>6, OneCall DEF ScriptInv, ScriptTypes
<1> QED
    BY <1>1, <1>2 DEF Script!Begin

LEMMA FrontLast ==
    ASSUME NEW S, NEW p \in Seq(S), p # << >>
    PROVE  /\ Script!Front(p) \in Seq(S) /\ Script!Last(p) = p[Len(p)] /\ Script!Last(p) \in S
           /\ Len(p) \in Nat /\ Len(p) > 0
<1>1. Len(p) \in Nat /\ Len(p) > 0
    BY EmptySeq, LenProperties
<1>2. p[Len(p)] \in S
    BY <1>1, ElementOfSeq
<1>3. SubSeq(p, 1, Len(p) - 1) \in Seq(S)
    BY <1>1
<1> QED
    BY <1>1, <1>2, <1>3 DEF Script!Front, Script!Last

LEMMA ScriptPlainly ==
    ASSUME ScriptInv, Script!Parameters, NEW c \in ScriptCalls, Script!Plainly(c)
    PROVE  ScriptInv'
<1> DEFINE j == [scriptJob[c] EXCEPT !.at = "done"]
           abs == scriptJob[c].abs[1]
           d == Script!Node(Script!Canonical(Script!Front(abs)))
<1>1. j \in ScriptJobs /\ j.at = "done"
    BY ScriptJobType DEF ScriptJobs, ScriptPlaces
<1>2. /\ scriptJob[c].at = "plain" /\ scriptJob' = [scriptJob EXCEPT ![c] = j] /\ Script!Remember
      /\ cwd' \in {abs, cwd}
      /\ \/ entry' = entry
         \/ /\ abs # << >> /\ d \in Dirs
            /\ entry' = [entry EXCEPT ![d][Script!Last(abs)] = Absent]
    BY DEF Script!Plainly, Script!Goto
<1>3. scriptJob'[c] = j
    BY <1>2 DEF ScriptInv, ScriptTypes
<1>4. ScriptOk(c, scriptJob[c], held'[c])
    BY <1>1, <1>2, <1>3, Remembered, ScriptJobType, OkGrows
<1>5. j.acts = scriptJob[c].acts /\ j.allowed = scriptJob[c].allowed /\ j.open = scriptJob[c].open
      /\ j.canon = scriptJob[c].canon
    BY ScriptJobType DEF ScriptJobs
<1>6. ScriptOk(c, j, held'[c])
    BY <1>1, <1>4, <1>5 DEF ScriptOk, Done, Pinned, Within, InTurn, Judged, UnderWay
<1>7. abs \in Seq(Names)
    <2>1. scriptJob[c].abs \in Seq(Seq(Names)) /\ Len(scriptJob[c].abs) > 0
        BY <1>2, ScriptJobType DEF ScriptJobs, ScriptOk, InTurn
    <2>2. 1 \in 1..Len(scriptJob[c].abs)
        BY <2>1, LenProperties
    <2> QED
        BY <2>1, <2>2, ElementOfSeq
<1> HIDE DEF j, abs, d
<1>8. entry' \in [Dirs -> [Names -> Script!Objects \cup {Absent}]]
    <2>1. abs # << >> => Script!Last(abs) \in Names
        BY <1>7, FrontLast
    <2> QED
        BY <1>2, <2>1 DEF ScriptInv, ScriptTypes
<1>9. cwd' \in Seq(Names)
    BY <1>2, <1>7 DEF ScriptInv, ScriptTypes
<1> QED
    BY <1>1, <1>2, <1>6, <1>8, <1>9, OneCall

LEMMA ScriptLevels ==
    ASSUME ScriptInv, Script!Parameters, NEW c \in ScriptCalls, Script!Levels(c)
    PROVE  ScriptInv'
<1> DEFINE full == Script!Canonical(scriptJob[c].abs[1])
<1>1. scriptJob[c].at = "levels" /\ Script!Others /\ c.op = "mkdir"
    BY ScriptJobType DEF Script!Levels, ScriptOk, InTurn
<1>2. full \in Seq(Names) /\ Len(full) \in Nat
    <2>1. scriptJob[c].abs \in Seq(Seq(Names)) /\ Len(scriptJob[c].abs) > 0
        BY <1>1, ScriptJobType DEF ScriptJobs, ScriptOk, InTurn
    <2>2. 1 \in 1..Len(scriptJob[c].abs)
        BY <2>1, LenProperties
    <2>3. scriptJob[c].abs[1] \in Seq(Names)
        BY <2>1, <2>2, ElementOfSeq
    <2> QED
        BY <2>3, CanonicalNames, LenProperties DEF ScriptInv
<1>3. PICK up \in 0..Len(full) :
        \/ Script!Fails(c)
        \/ /\ up # Len(full) /\ UNCHANGED entry
           /\ scriptJob' = [scriptJob EXCEPT ![c].at = "pin",
                              ![c].todo = [i \in 1..(Len(full) - up) |-> SubSeq(full, 1, up + i)]]
    BY DEF Script!Levels
<1>4. CASE Script!Fails(c)
    BY <1>1, <1>4, ScriptFails
<1>5. CASE ~Script!Fails(c)
    <2> DEFINE todos == [i \in 1..(Len(full) - up) |-> SubSeq(full, 1, up + i)]
               j == [scriptJob[c] EXCEPT !.at = "pin", !.todo = todos]
    <2>1. todos \in Seq(Seq(Names)) /\ Len(todos) > 0
        <3> DEFINE n == Len(full) - up
                   level(i) == SubSeq(full, 1, up + i)
        <3>1. n \in Nat /\ n > 0
            BY <1>2, <1>3, <1>5
        <3>2. \A i \in 1..n : level(i) \in Seq(Names)
            BY <1>2, <1>3
        <3> HIDE DEF full, n, level
        <3>3. [i \in 1..n |-> level(i)] \in Seq(Seq(Names)) /\ Len([i \in 1..n |-> level(i)]) = n
            BY <3>1, <3>2
        <3> QED
            BY <3>1, <3>3 DEF n, level
    <2>2. scriptJob' = [scriptJob EXCEPT ![c] = j]
        BY <1>3, <1>5
    <2> HIDE DEF todos, full
    <2>3. /\ j \in ScriptJobs /\ j.at = "pin" /\ j.todo = todos
          /\ j.acts = scriptJob[c].acts /\ j.open = scriptJob[c].open /\ j.canon = scriptJob[c].canon
        BY <2>1, ScriptJobType DEF ScriptJobs, ScriptPlaces
    <2>4. j.acts = {} /\ j.open = << >> /\ j.canon = << >>
        BY <1>1, <2>3, ScriptJobType DEF ScriptOk, InTurn
    <2> HIDE DEF j
    <2>5. InTurn(c, j)
        BY <1>1, <2>1, <2>3, <2>4, NoneLong DEF InTurn, Judged, UnderWay
    <2>6. ScriptOk(c, j, held'[c])
        BY <2>3, <2>4, <2>5, NoneLong DEF ScriptOk, Done, Pinned, Within, Judged
    <2> QED
        BY <1>1, <1>3, <1>5, <2>2, <2>3, <2>6, OneCall DEF Script!Others, ScriptInv, ScriptTypes
<1> QED
    BY <1>4, <1>5

\* Where a call that is among directories stands.
LEMMA Standing ==
    ASSUME ScriptInv, NEW c \in ScriptCalls, scriptJob[c].at \in {"look", "enter"} \cup Judged
    PROVE  LET j == scriptJob[c]
           IN  /\ Len(j.canon) \in Nat /\ Len(j.canon) > 0 /\ Current(j) \in Seq(Names)
               /\ Script!Path(c) = Current(j) /\ Len(Current(j)) \in Nat
               /\ j.k \in Nat /\ j.k + 1 \in 1..Len(Current(j))
               /\ Script!Part(c) = Current(j)[j.k + 1] /\ Current(j)[j.k + 1] \in Names
               /\ j.h \in Dirs
<1> DEFINE j == scriptJob[c]
<1>1. j \in ScriptJobs /\ Within(j, held[c])
    BY ScriptJobType DEF ScriptOk
<1>2. /\ j.canon \in Seq(Seq(Names)) /\ j.open \in Seq(Dirs) /\ j.k \in Nat /\ j.h \in Dirs
    BY <1>1 DEF ScriptJobs
<1>3. Len(j.canon) \in Nat /\ Len(j.open) \in Nat
    BY <1>2, LenProperties
<1>4. Len(j.canon) > 0
    BY <1>1, <1>3 DEF Within
<1>5. Current(j) \in Seq(Names) /\ Script!Last(j.canon) = Current(j)
    <2>1. Len(j.canon) \in 1..Len(j.canon)
        BY <1>3, <1>4
    <2> QED
        BY <1>2, <2>1, ElementOfSeq DEF Current, Script!Last
<1>6. Len(Current(j)) \in Nat
    BY <1>5, LenProperties
<1>7. j.k + 1 \in 1..Len(Current(j))
    BY <1>1, <1>2, <1>6 DEF Within
<1>8. Current(j)[j.k + 1] \in Names
    BY <1>5, <1>7, ElementOfSeq
<1> QED
    BY <1>2, <1>3, <1>4, <1>5, <1>6, <1>7, <1>8 DEF Script!Path, Script!Part

LEMMA ScriptPin ==
    ASSUME ScriptInv, Script!Parameters, NEW c \in ScriptCalls, Script!Pin(c)
    PROVE  ScriptInv'
<1> DEFINE old == scriptJob[c]
           p == Head(old.todo)
           canon == IF Script!Follows(c) THEN Script!Canonical(p) ELSE Script!CanonicalNoFollow(p)
           j == [old EXCEPT !.at = "look", !.canon = Append(old.canon, canon), !.h = Root, !.k = 0]
<1>1. old.at = "pin" /\ Script!Others /\ old \in ScriptJobs /\ ScriptOk(c, old, held[c])
    BY ScriptJobType DEF Script!Pin
<1>2. CASE Script!Fails(c)
    BY <1>1, <1>2, ScriptFails
<1>3. CASE /\ canon # << >> /\ UNCHANGED entry /\ scriptJob' = [scriptJob EXCEPT ![c] = j]
    <2>1. old.todo \in Seq(Seq(Names)) /\ Len(old.todo) > 0 /\ Len(old.canon) = Len(old.open)
        BY <1>1 DEF ScriptJobs, ScriptOk, InTurn
    <2>2. p \in Seq(Names)
        <3>1. old.todo # << >>
            BY <2>1, NoneLong
        <3> QED
            BY <2>1, <3>1, HeadTailProperties
    <2>3. canon \in Seq(Names)
        <3>1. Script!Canonical(p) \in Seq(Names)
            BY <2>2, CanonicalNames DEF ScriptInv
        <3>2. Script!CanonicalNoFollow(p) \in Seq(Names)
            <4>1. CASE p = << >>
                BY <2>2, <4>1 DEF Script!CanonicalNoFollow
            <4>2. CASE p # << >>
                <5>1. Script!Front(p) \in Seq(Names) /\ Script!Last(p) \in Names
                    BY <2>2, <4>2, FrontLast
                <5>2. Script!Canonical(Script!Front(p)) \in Seq(Names)
                    BY <5>1, CanonicalNames DEF ScriptInv
                <5> QED
                    BY <4>2, <5>1, <5>2, AppendProperties DEF Script!CanonicalNoFollow
            <4> QED
                BY <4>1, <4>2
        <3> QED
            BY <3>1, <3>2
    <2> HIDE DEF canon, p
    <2> DEFINE more == Append(old.canon, canon)
               n == Len(old.canon)
    <2>4. old.canon \in Seq(Seq(Names)) /\ n \in Nat
        BY <1>1, LenProperties DEF ScriptJobs
    <2>5. /\ more \in Seq(Seq(Names)) /\ Len(more) = n + 1 /\ more[n + 1] = canon
          /\ \A i \in 1..n : more[i] = old.canon[i]
        BY <2>3, <2>4, AppendProperties
    <2> HIDE DEF more, n
    <2>6. /\ j \in ScriptJobs /\ j.at = "look" /\ j.canon = more /\ j.h = Root /\ j.k = 0
          /\ j.open = old.open /\ j.todo = old.todo /\ j.acts = old.acts /\ j.allowed = old.allowed
        BY <1>1, <2>5 DEF ScriptJobs, ScriptPlaces, Script!Parameters, more
    <2>7. scriptJob'[c] = j /\ Script!Remember
        BY <1>1, <1>3 DEF ScriptInv, ScriptTypes, Script!Others
    <2> HIDE DEF j
    <2>8. ScriptOk(c, old, held'[c])
        BY <1>1, <2>6, <2>7, Remembered, OkGrows
    <2>9. Done(j, held'[c])
        BY <2>6, <2>8 DEF ScriptOk, Done
    <2>10. Pinned(j, held'[c])
        BY <2>1, <2>5, <2>6, <2>8 DEF ScriptOk, Pinned, n
    <2>11. Current(j) = canon /\ Len(canon) \in Nat /\ Len(canon) > 0
        <3>1. Len(canon) \in Nat /\ Len(canon) # 0
            BY <1>3, <2>3, EmptySeq, LenProperties
        <3> QED
            BY <2>5, <2>6, <3>1 DEF Current
    <2>12. Within(j, held'[c])
        <3>1. Chain(held'[c], canon, 0, Root)
            BY ChainStart
        <3> QED
            BY <2>1, <2>5, <2>6, <2>11, <3>1 DEF Within, Judged, n
    <2>13. InTurn(c, j)
        BY <1>1, <2>1, <2>6 DEF ScriptOk, InTurn, Judged, UnderWay
    <2> QED
        BY <1>1, <1>3, <2>6, <2>7, <2>9, <2>10, <2>12, <2>13, OneCall
        DEF ScriptOk, Script!Others, ScriptInv, ScriptTypes
<1> QED
    BY <1>2, <1>3 DEF Script!Pin

LEMMA ScriptLook ==
    ASSUME ScriptInv, Script!Parameters, NEW c \in ScriptCalls, Script!Look(c)
    PROVE  ScriptInv'
<1> DEFINE old == scriptJob[c]
           next == IF c.op = "rename" /\ Len(old.todo) = 2 THEN "pin" ELSE "check"
           j == [old EXCEPT !.open = Append(old.open, old.h), !.todo = Tail(old.todo), !.at = next]
           o == Script!Found(c)
           e == [old EXCEPT !.at = "enter", !.seen = o]
<1>1. old.at = "look" /\ Script!Others /\ Script!Remember /\ old \in ScriptJobs /\ ScriptOk(c, old, held[c])
    BY ScriptJobType DEF Script!Look, Script!Others
<1>2. /\ Len(old.canon) \in Nat /\ Len(old.canon) > 0 /\ Current(old) \in Seq(Names)
      /\ Script!Path(c) = Current(old) /\ Len(Current(old)) \in Nat
      /\ old.k \in Nat /\ old.k + 1 \in 1..Len(Current(old))
      /\ Script!Part(c) = Current(old)[old.k + 1] /\ Current(old)[old.k + 1] \in Names
      /\ old.h \in Dirs
    BY <1>1, Standing
<1>3. Len(old.canon) = Len(old.open) + 1 /\ Chain(held[c], Current(old), old.k, old.h)
      /\ Len(old.todo) > 0
    BY <1>1 DEF ScriptOk, Within, InTurn
<1>4. CASE Script!Fails(c)
    BY <1>1, <1>4, ScriptFails
<1>5. CASE /\ old.k + 1 = Len(Current(old)) /\ UNCHANGED entry
           /\ scriptJob' = [scriptJob EXCEPT ![c] = j]
    <2> DEFINE more == Append(old.open, old.h)
               rest == Tail(old.todo)
               n == Len(old.open)
    <2>1. old.open \in Seq(Dirs) /\ n \in Nat /\ old.todo \in Seq(Seq(Names)) /\ Len(old.todo) \in Nat
        BY <1>1, LenProperties DEF ScriptJobs
    <2>2. /\ more \in Seq(Dirs) /\ Len(more) = n + 1 /\ more[n + 1] = old.h
          /\ \A i \in 1..n : more[i] = old.open[i]
        BY <1>2, <2>1, AppendProperties
    <2>3. rest \in Seq(Seq(Names)) /\ Len(rest) = Len(old.todo) - 1
        <3>1. old.todo # << >>
            BY <1>3, NoneLong
        <3> QED
            BY <2>1, <3>1, HeadTailProperties
    <2>4. next \in {"pin", "check"} /\ (next = "pin" => c.op = "rename" /\ Len(old.todo) = 2)
          /\ (next = "check" => c.op # "rename" \/ Len(old.todo) # 2)
        OBVIOUS
    <2> HIDE DEF more, rest, n, next
    <2>5. /\ j \in ScriptJobs /\ j.at = next /\ j.open = more /\ j.todo = rest
          /\ j.canon = old.canon /\ j.h = old.h /\ j.k = old.k /\ j.acts = old.acts
          /\ j.allowed = old.allowed
        BY <1>1, <2>2, <2>3, <2>4 DEF ScriptJobs, ScriptPlaces, more, rest
    <2>6. scriptJob'[c] = j
        BY <1>1, <1>5 DEF ScriptInv, ScriptTypes
    <2> HIDE DEF j
    <2>7. ScriptOk(c, old, held'[c])
        BY <1>1, <2>4, <2>5, <2>6, Remembered, OkGrows
    <2>8. Done(j, held'[c])
        BY <2>5, <2>7 DEF ScriptOk, Done
    <2>9. Current(j) = Current(old) /\ Current(old) = old.canon[n + 1] /\ Len(old.canon) = n + 1
        BY <1>3, <2>5 DEF Current, n
    <2>10. Pinned(j, held'[c])
        <3> SUFFICES ASSUME NEW i \in 1..(n + 1)
                     PROVE  /\ j.canon[i] # << >>
                            /\ Chain(held'[c], j.canon[i], Len(j.canon[i]) - 1, j.open[i])
            BY <2>2, <2>5 DEF Pinned
        <3>1. CASE i \in 1..n
            BY <2>2, <2>5, <2>7, <3>1 DEF ScriptOk, Pinned, n
        <3>2. CASE i = n + 1
            <4>1. j.canon[i] = Current(old) /\ j.open[i] = old.h
                BY <2>2, <2>5, <2>9, <3>2
            <4>4. Len(Current(old)) - 1 = old.k
                BY <1>2, <1>5
            <4>2. Chain(held'[c], Current(old), old.k, old.h)
                BY <1>1, <2>7 DEF ScriptOk, Within
            <4>3. Current(old) # << >>
                BY <1>2, <1>5, NoneLong
            <4> QED
                BY <4>1, <4>2, <4>3, <4>4
        <3> QED
            BY <2>1, <3>1, <3>2
    <2>11. Within(j, held'[c])
        BY <1>5, <2>1, <2>2, <2>4, <2>5, <2>9 DEF Within, Judged
    <2>12. InTurn(c, j)
        <3>1. c.op # "mkdir" => Len(old.todo) + n = IF c.op = "rename" THEN 2 ELSE 1
            BY <1>1 DEF ScriptOk, InTurn, UnderWay, n
        <3> DEFINE m == Len(old.todo)
        <3>5. /\ m \in Nat /\ m > 0 /\ n \in Nat /\ Len(rest) = m - 1 /\ Len(more) = n + 1
              /\ (c.op = "rename" => m + n = 2)
              /\ (c.op # "mkdir" /\ c.op # "rename" => m + n = 1)
            BY <1>3, <2>1, <2>2, <2>3, <3>1
        <3>6. (next = "pin" => c.op = "rename" /\ m = 2) /\ (next = "check" => c.op # "rename" \/ m # 2)
            BY <2>4
        <3> HIDE DEF m
        <3>2. c.op # "mkdir" => Len(rest) + Len(more) = IF c.op = "rename" THEN 2 ELSE 1
            BY <3>5
        <3>3. next = "check" /\ c.op # "mkdir" => Len(rest) = 0
            BY <3>5, <3>6
        <3>7. next = "pin" => Len(rest) > 0
            BY <3>5, <3>6
        <3>4. next = "pin" => Len(rest) > 0 /\ Len(old.canon) = Len(more)
            BY <2>2, <2>9, <3>7
        <3> QED
            BY <2>4, <2>5, <3>2, <3>3, <3>4 DEF InTurn, Judged, UnderWay
    <2> QED
        BY <1>1, <1>5, <2>4, <2>5, <2>8, <2>10, <2>11, <2>12, OneCall
        DEF ScriptOk, Script!Others, ScriptInv, ScriptTypes
<1>6. CASE /\ o \in Dirs /\ old.k + 1 # Len(Current(old)) /\ UNCHANGED entry
           /\ scriptJob' = [scriptJob EXCEPT ![c] = e]
    <2>1. o = entry[old.h][Current(old)[old.k + 1]]
        BY <1>2, <1>6 DEF Script!Found, Script!Child
    <2> HIDE DEF o
    <2>2. o \in Script!Objects
        BY <1>6 DEF Script!Objects
    <2>3. /\ e \in ScriptJobs /\ e.at = "enter" /\ e.seen = o /\ e.open = old.open /\ e.todo = old.todo
          /\ e.canon = old.canon /\ e.h = old.h /\ e.k = old.k /\ e.acts = old.acts
          /\ e.allowed = old.allowed
        BY <1>1, <2>2 DEF ScriptJobs, ScriptPlaces
    <2>4. scriptJob'[c] = e
        BY <1>1, <1>6 DEF ScriptInv, ScriptTypes
    <2> HIDE DEF e
    <2>5. ScriptOk(c, old, held'[c]) /\ <<old.h, Current(old)[old.k + 1], o>> \in held'[c]
        BY <1>1, <1>2, <2>1, <2>3, <2>4, Remembered, OkGrows
    <2>6. Done(e, held'[c]) /\ Pinned(e, held'[c])
        BY <2>3, <2>5 DEF ScriptOk, Done, Pinned
    <2>7. Current(e) = Current(old)
        BY <2>3 DEF Current
    <2>8. Within(e, held'[c])
        <3>1. old.k + 1 < Len(Current(old))
            BY <1>2, <1>6
        <3>2. Chain(held'[c], Current(old), old.k, old.h)
            BY <1>1, <2>5 DEF ScriptOk, Within
        <3> QED
            BY <1>2, <1>3, <2>2, <2>3, <2>5, <2>7, <3>1, <3>2 DEF Within, Judged
    <2>9. InTurn(c, e)
        BY <1>1, <2>3, <2>5 DEF ScriptOk, InTurn, Judged, UnderWay
    <2> QED
        BY <1>1, <1>6, <2>3, <2>6, <2>8, <2>9, OneCall
        DEF ScriptOk, Script!Others, ScriptInv, ScriptTypes
<1> QED
    BY <1>2, <1>4, <1>5, <1>6 DEF Script!Look

LEMMA ScriptEnter ==
    ASSUME ScriptInv, Script!Parameters, NEW c \in ScriptCalls, Script!EnterDir(c)
    PROVE  ScriptInv'
<1> DEFINE old == scriptJob[c]
           o == Script!Opened(c)
           m == old.k + 1
           j == [old EXCEPT !.at = "look", !.h = o, !.k = m]
<1>1. old.at = "enter" /\ Script!Others /\ Script!Remember /\ old \in ScriptJobs /\ ScriptOk(c, old, held[c])
    BY ScriptJobType DEF Script!EnterDir, Script!Others
<1>2. old.k \in Nat /\ Len(Current(old)) \in Nat
    BY <1>1, Standing
<1>3. CASE Script!Fails(c)
    BY <1>1, <1>3, ScriptFails
<1>4. CASE /\ Script!Opened(c) = old.seen /\ Script!Opened(c) \in Dirs /\ UNCHANGED entry
           /\ scriptJob' = [scriptJob EXCEPT ![c] = j]
    <2>a. o \in Dirs /\ o = old.seen /\ m \in Nat /\ m = old.k + 1
        BY <1>2, <1>4
    <2> HIDE DEF o, m
    <2>1. /\ j \in ScriptJobs /\ j.at = "look" /\ j.h = o /\ j.k = m
          /\ j.canon = old.canon /\ j.open = old.open /\ j.todo = old.todo /\ j.acts = old.acts
          /\ j.allowed = old.allowed
        BY <1>1, <2>a DEF ScriptJobs, ScriptPlaces
    <2>2. scriptJob'[c] = j
        BY <1>1, <1>4 DEF ScriptInv, ScriptTypes
    <2> HIDE DEF j
    <2>3. ScriptOk(c, old, held'[c])
        BY <1>1, <2>1, <2>2, Remembered, OkGrows
    <2>4. Done(j, held'[c]) /\ Pinned(j, held'[c])
        BY <2>1, <2>3 DEF ScriptOk, Done, Pinned
    <2>5. Current(j) = Current(old)
        BY <2>1 DEF Current
    <2>6. /\ Chain(held'[c], Current(old), old.k, old.h) /\ Len(old.canon) = Len(old.open) + 1
          /\ <<old.h, Current(old)[old.k + 1], old.seen>> \in held'[c] /\ old.seen \in Script!Objects
          /\ old.k + 1 < Len(Current(old))
        BY <1>1, <2>3 DEF ScriptOk, Within
    <2>7. Chain(held'[c], Current(old), old.k + 1, old.seen)
        BY <1>2, <2>6, ChainOn
    <2>8. Within(j, held'[c])
        BY <1>2, <2>a, <2>1, <2>5, <2>6, <2>7 DEF Within, Judged
    <2>9. InTurn(c, j)
        BY <1>1, <2>1, <2>3 DEF ScriptOk, InTurn, Judged, UnderWay
    <2> QED
        BY <1>1, <1>4, <2>1, <2>4, <2>8, <2>9, OneCall
        DEF ScriptOk, Script!Others, ScriptInv, ScriptTypes
<1> QED
    BY <1>3, <1>4 DEF Script!EnterDir, Script!SameFile

\* The names that a checked operation acts on, and what it finds there.
LEMMA ActedOn ==
    ASSUME ScriptInv, Script!Remember, NEW c \in ScriptCalls, scriptJob[c].at \in Judged,
           scriptJob'[c].at \notin {"idle", "never"}, NEW i \in 1..Len(scriptJob[c].open)
    PROVE  /\ Len(scriptJob[c].canon) = Len(scriptJob[c].open) /\ Len(scriptJob[c].open) \in Nat
           /\ scriptJob[c].canon[i] \in Seq(Names) /\ Script!Base(c, i) \in Names /\ Script!Dir(c, i) \in Dirs
           /\ \A o \in Script!Objects :
                <<Script!Dir(c, i), Script!Base(c, i), o>> \in held'[c] =>
                  Chain(held'[c], scriptJob[c].canon[i], Len(scriptJob[c].canon[i]), o)
           /\ \A o \in Script!Objects :
                o = Script!Target(c, i) \/ o = entry'[Script!Dir(c, i)][Script!Base(c, i)] =>
                  Chain(held'[c], scriptJob[c].canon[i], Len(scriptJob[c].canon[i]), o)
<1> DEFINE old == scriptJob[c]
           p == old.canon[i]
           d == old.open[i]
           n == Script!Base(c, i)
<1>1. old \in ScriptJobs /\ old.at # "done" /\ ScriptOk(c, old, held'[c])
    BY ScriptJobType, Remembered, OkGrows DEF Judged
<1>2. Len(old.canon) = Len(old.open)
    BY <1>1 DEF ScriptOk, Within
<1>3. old.canon \in Seq(Seq(Names)) /\ old.open \in Seq(Dirs) /\ Len(old.open) \in Nat
    BY <1>1, LenProperties DEF ScriptJobs
<1>4. p \in Seq(Names) /\ d \in Dirs
    BY <1>2, <1>3, ElementOfSeq
<1>5. p # << >> /\ Chain(held'[c], p, Len(p) - 1, d)
    BY <1>1 DEF ScriptOk, Pinned
<1>6. Script!Last(p) = p[Len(p)] /\ Script!Last(p) \in Names /\ Len(p) \in Nat /\ Len(p) > 0
    BY <1>4, <1>5, FrontLast
<1>7. n = p[Len(p)] /\ n \in Names /\ Script!Dir(c, i) = d
    BY <1>6 DEF Script!Base, Script!Dir
<1>8. ASSUME NEW o \in Script!Objects, <<d, n, o>> \in held'[c] PROVE Chain(held'[c], p, Len(p), o)
    <2> DEFINE k == Len(p) - 1
    <2>1. k \in Nat /\ k + 1 = Len(p)
        BY <1>6
    <2>2. Chain(held'[c], p, k, d) /\ <<d, p[k + 1], o>> \in held'[c]
        BY <1>5, <1>7, <1>8, <2>1
    <2> HIDE DEF k
    <2>3. Chain(held'[c], p, k + 1, o)
        BY <2>1, <2>2, ChainOn
    <2> QED
        BY <2>1, <2>3
<1>9. Script!Target(c, i) = entry[d][n]
    BY <1>7 DEF Script!Target
<1>10. <<d, n, entry[d][n]>> \in held'[c] /\ <<d, n, entry'[d][n]>> \in held'[c]
    BY <1>1, <1>4, <1>7, Remembered
<1> HIDE DEF p, d, n
<1>11. \A o \in Script!Objects : o = entry[d][n] \/ o = entry'[d][n] => Chain(held'[c], p, Len(p), o)
    BY <1>8, <1>10
<1> QED
    BY <1>2, <1>3, <1>4, <1>7, <1>8, <1>9, <1>11 DEF p, n

\* The end of a checked operation: what it has done was allowed, on what its
\* paths led to.
LEMMA ScriptActs ==
    ASSUME ScriptInv, NEW c \in ScriptCalls, NEW A \in SUBSET [path : Seq(Names), obj : Script!Objects],
           scriptJob' = [scriptJob EXCEPT ![c].at = "done", ![c].acts = A], Script!Others,
           entry' \in [Dirs -> [Names -> Script!Objects \cup {Absent}]],
           \A x \in A : x.path \in scriptJob[c].allowed /\ Chain(held'[c], x.path, Len(x.path), x.obj)
    PROVE  ScriptInv'
<1> DEFINE old == scriptJob[c]
           j == [old EXCEPT !.at = "done", !.acts = A]
<1>1. old \in ScriptJobs /\ ScriptOk(c, old, held[c]) /\ Script!Remember
    BY ScriptJobType DEF Script!Others
<1>2. scriptJob' = [scriptJob EXCEPT ![c] = j]
    OBVIOUS
<1>3. /\ j \in ScriptJobs /\ j.at = "done" /\ j.acts = A /\ j.open = old.open /\ j.canon = old.canon
      /\ j.allowed = old.allowed
    BY <1>1 DEF ScriptJobs, ScriptPlaces
<1>4. scriptJob'[c] = j
    BY <1>2 DEF ScriptInv, ScriptTypes
<1> HIDE DEF j
<1>5. ScriptOk(c, old, held'[c])
    BY <1>1, <1>3, <1>4, Remembered, OkGrows
<1>6. ScriptOk(c, j, held'[c])
    BY <1>3, <1>5 DEF ScriptOk, Done, Pinned, Within, InTurn, Judged, UnderWay
<1> QED
    BY <1>1, <1>2, <1>3, <1>6, OneCall DEF Script!Others, ScriptInv, ScriptTypes

LEMMA ScriptCheck ==
    ASSUME ScriptInv, Script!Parameters, NEW c \in ScriptCalls, Script!Check(c)
    PROVE  ScriptInv'
<1> DEFINE old == scriptJob[c]
           paths == IF c.op = "rename" THEN Script!ToSet(old.canon) ELSE {Current(old)}
           next == IF Script!Follows(c) THEN "lstat" ELSE "act"
           allowed == old.allowed \cup paths
           j == [old EXCEPT !.allowed = allowed, !.at = next]
<1>1. old.at = "check" /\ Script!Others /\ Script!Remember /\ old \in ScriptJobs /\ ScriptOk(c, old, held[c])
    BY ScriptJobType DEF Script!Check, Script!Others
<1>2. /\ Len(old.canon) \in Nat /\ Len(old.canon) > 0 /\ Current(old) \in Seq(Names)
      /\ Script!Path(c) = Current(old)
    BY <1>1, Standing DEF Judged
<1>3. CASE Script!Fails(c)
    BY <1>1, <1>3, ScriptFails
<1>4. CASE UNCHANGED entry /\ scriptJob' = [scriptJob EXCEPT ![c] = j]
    <2>1. /\ allowed \in SUBSET Seq(Names) /\ old.allowed \subseteq allowed /\ Current(old) \in allowed
          /\ c.op = "rename" => \A i \in 1..Len(old.canon) : old.canon[i] \in allowed
        <3>1. old.canon \in Seq(Seq(Names)) /\ old.allowed \in SUBSET Seq(Names)
            BY <1>1 DEF ScriptJobs
        <3>2. DOMAIN old.canon = 1..Len(old.canon)
            BY <3>1, LenProperties
        <3>3. \A i \in 1..Len(old.canon) : old.canon[i] \in Seq(Names) /\ old.canon[i] \in Script!ToSet(old.canon)
            BY <3>1, <3>2, ElementOfSeq DEF Script!ToSet
        <3>4. Script!ToSet(old.canon) \subseteq Seq(Names)
            BY <3>2, <3>3 DEF Script!ToSet
        <3>5. Current(old) \in Script!ToSet(old.canon)
            BY <1>2, <3>3 DEF Current
        <3> QED
            BY <1>2, <3>1, <3>3, <3>4, <3>5
    <2>2. next \in {"lstat", "act"} /\ (next = "lstat" => c.op \notin {"mkdir", "rename"})
        BY DEF Script!Follows
    <2> HIDE DEF allowed, next
    <2>3. /\ j \in ScriptJobs /\ j.at = next /\ j.allowed = allowed /\ j.open = old.open
          /\ j.todo = old.todo /\ j.canon = old.canon /\ j.h = old.h /\ j.k = old.k /\ j.acts = old.acts
        BY <1>1, <2>1, <2>2 DEF ScriptJobs, ScriptPlaces
    <2>4. scriptJob'[c] = j
        BY <1>1, <1>4 DEF ScriptInv, ScriptTypes
    <2> HIDE DEF j
    <2>5. ScriptOk(c, old, held'[c])
        BY <1>1, <2>2, <2>3, <2>4, Remembered, OkGrows
    <2>6. Done(j, held'[c]) /\ Pinned(j, held'[c])
        BY <2>1, <2>3, <2>5 DEF ScriptOk, Done, Pinned
    <2>7. Current(j) = Current(old)
        BY <2>3 DEF Current
    <2>8. Within(j, held'[c])
        BY <1>1, <2>1, <2>2, <2>3, <2>5, <2>7 DEF ScriptOk, Within, Judged
    <2>9. InTurn(c, j)
        BY <1>1, <2>1, <2>2, <2>3, <2>5 DEF ScriptOk, InTurn, Judged, UnderWay
    <2> QED
        BY <1>1, <1>4, <2>2, <2>3, <2>6, <2>8, <2>9, OneCall
        DEF ScriptOk, Script!Others, ScriptInv, ScriptTypes
<1> QED
    BY <1>2, <1>3, <1>4 DEF Script!Check

\* An operation on one path has one pinned directory, the one it is in.
LEMMA OnePath ==
    ASSUME ScriptInv, NEW c \in ScriptCalls, scriptJob[c].at \in Judged, c.op \notin {"mkdir", "rename"}
    PROVE  LET j == scriptJob[c]
           IN  /\ 1 \in 1..Len(j.open) /\ Current(j) = j.canon[1] /\ j.h = j.open[1]
               /\ Script!Base(c, 1) = Current(j)[j.k + 1] /\ Script!Dir(c, 1) = j.h
               /\ Script!Part(c) = Script!Base(c, 1)
<1> DEFINE j == scriptJob[c]
<1>1. j \in ScriptJobs /\ ScriptOk(c, j, held[c])
    BY ScriptJobType
<1>2. Len(j.open) = 1 /\ Len(j.canon) = 1
    <2>1. Len(j.todo) = 0 /\ Len(j.todo) + Len(j.open) = 1
        BY <1>1 DEF ScriptOk, InTurn, UnderWay
    <2>2. Len(j.open) \in Nat
        BY <1>1, LenProperties DEF ScriptJobs
    <2> QED
        BY <1>1, <2>1, <2>2 DEF ScriptOk, Within
<1>3. Current(j) = j.canon[1] /\ j.h = j.open[1] /\ j.k + 1 = Len(Current(j))
    BY <1>1, <1>2 DEF ScriptOk, Within, Current
<1>4. Script!Base(c, 1) = Current(j)[j.k + 1] /\ Script!Dir(c, 1) = j.h
    BY <1>3 DEF Script!Base, Script!Dir, Script!Last
<1>5. Script!Part(c) = Current(j)[j.k + 1]
    BY Standing
<1> QED
    BY <1>2, <1>3, <1>4, <1>5

LEMMA ScriptLstat ==
    ASSUME ScriptInv, Script!Parameters, NEW c \in ScriptCalls, Script!LstatBase(c)
    PROVE  ScriptInv'
<1> DEFINE old == scriptJob[c]
           o == Script!Target(c, 1)
           j == [old EXCEPT !.at = "open", !.seen = o]
           m == [old EXCEPT !.at = "create"]
<1>1. /\ old.at = "lstat" /\ Script!Others /\ Script!Remember /\ entry' = entry
      /\ old \in ScriptJobs /\ ScriptOk(c, old, held[c])
    BY ScriptJobType DEF Script!LstatBase, Script!Others
<1>2. c.op \notin {"mkdir", "rename"}
    BY <1>1 DEF ScriptOk, InTurn
<1>3. /\ 1 \in 1..Len(old.open) /\ old.h = old.open[1]
      /\ Script!Base(c, 1) = Current(old)[old.k + 1] /\ Script!Dir(c, 1) = old.h
    BY <1>1, <1>2, OnePath DEF Judged
<1>4. CASE Script!Goto(c, "done")
    BY <1>1, <1>4, ScriptFails DEF Script!Fails
<1>5. CASE Script!Goto(c, "create")
    <2>1. /\ m \in ScriptJobs /\ m.at = "create" /\ m.allowed = old.allowed /\ m.open = old.open
          /\ m.todo = old.todo /\ m.canon = old.canon /\ m.h = old.h /\ m.k = old.k /\ m.acts = old.acts
        BY <1>1 DEF ScriptJobs, ScriptPlaces
    <2>2. scriptJob' = [scriptJob EXCEPT ![c] = m]
        BY <1>5 DEF Script!Goto
    <2>3. scriptJob'[c] = m
        BY <2>2 DEF ScriptInv, ScriptTypes
    <2> HIDE DEF m
    <2>4. ScriptOk(c, old, held'[c])
        BY <1>1, <2>1, <2>3, Remembered, OkGrows
    <2>5. Current(m) = Current(old)
        BY <2>1 DEF Current
    <2>6. Done(m, held'[c]) /\ Pinned(m, held'[c]) /\ Within(m, held'[c])
        BY <1>1, <2>1, <2>4, <2>5 DEF ScriptOk, Done, Pinned, Within, Judged
    <2>7. InTurn(c, m)
        BY <1>1, <2>1, <2>4 DEF ScriptOk, InTurn, Judged, UnderWay
    <2> QED
        BY <1>1, <2>1, <2>2, <2>6, <2>7, OneCall DEF ScriptOk, Script!Others, ScriptInv, ScriptTypes
<1>6. CASE (o \in Files \/ o \in Dirs) /\ scriptJob' = [scriptJob EXCEPT ![c] = j]
    <2>1. o = entry[old.h][Current(old)[old.k + 1]]
        BY <1>3 DEF Script!Target
    <2>2. old.h \in Dirs /\ Current(old)[old.k + 1] \in Names
        BY <1>1, Standing DEF Judged
    <2> HIDE DEF o
    <2>3. o \in Script!Objects
        BY <1>6 DEF Script!Objects
    <2>4. /\ j \in ScriptJobs /\ j.at = "open" /\ j.seen = o /\ j.allowed = old.allowed
          /\ j.open = old.open /\ j.todo = old.todo /\ j.canon = old.canon /\ j.h = old.h
          /\ j.k = old.k /\ j.acts = old.acts
        BY <1>1, <2>3 DEF ScriptJobs, ScriptPlaces
    <2>5. scriptJob'[c] = j
        BY <1>1, <1>6 DEF ScriptInv, ScriptTypes
    <2> HIDE DEF j
    <2>6. ScriptOk(c, old, held'[c]) /\ <<old.h, Current(old)[old.k + 1], o>> \in held'[c]
        BY <1>1, <2>1, <2>2, <2>4, <2>5, Remembered, OkGrows
    <2>7. Current(j) = Current(old)
        BY <2>4 DEF Current
    <2>8. Done(j, held'[c]) /\ Pinned(j, held'[c])
        BY <2>4, <2>6 DEF ScriptOk, Done, Pinned
    <2>9. Within(j, held'[c])
        BY <1>1, <2>3, <2>4, <2>6, <2>7 DEF ScriptOk, Within, Judged
    <2>10. InTurn(c, j)
        BY <1>1, <1>2, <2>4, <2>6 DEF ScriptOk, InTurn, Judged, UnderWay
    <2> QED
        BY <1>1, <1>6, <2>4, <2>8, <2>9, <2>10, OneCall
        DEF ScriptOk, Script!Others, ScriptInv, ScriptTypes
<1> QED
    BY <1>4, <1>5, <1>6 DEF Script!LstatBase

LEMMA MadeObject ==
    ASSUME NEW c, Script!CanMake(c)
    PROVE  Script!Made(c) \in Script!Objects
    BY DEF Script!CanMake, Script!Made, Script!Objects

LEMMA EntryTypes ==
    ASSUME ScriptTypes, NEW d \in Dirs, NEW n \in Names, NEW o \in Script!Objects \cup {Absent}
    PROVE  [entry EXCEPT ![d][n] = o] \in [Dirs -> [Names -> Script!Objects \cup {Absent}]]
           /\ [entry EXCEPT ![d][n] = o][d][n] = o
<1>1. entry[d] \in [Names -> Script!Objects \cup {Absent}]
    BY DEF ScriptTypes
<1>2. [entry[d] EXCEPT ![n] = o] \in [Names -> Script!Objects \cup {Absent}] /\ [entry[d] EXCEPT ![n] = o][n] = o
    BY <1>1
<1> QED
    BY <1>2 DEF ScriptTypes

LEMMA ScriptCreate ==
    ASSUME ScriptInv, Script!Parameters, NEW c \in ScriptCalls, Script!Create(c)
    PROVE  ScriptInv'
<1> DEFINE old == scriptJob[c]
           d == Script!Dir(c, 1)
           n == Script!Base(c, 1)
           o == Script!Made(c)
           x == Script!Act(c, 1, o)
<1>1. /\ old.at = "create" /\ Script!Others /\ Script!Remember /\ old \in ScriptJobs
      /\ ScriptOk(c, old, held[c])
    BY ScriptJobType DEF Script!Create, Script!Others
<1>2. CASE Script!Fails(c)
    BY <1>1, <1>2, ScriptFails
<1>3. CASE /\ Script!CanMake(c) /\ entry' = [entry EXCEPT ![d][n] = o]
           /\ scriptJob' = [scriptJob EXCEPT ![c].at = "done", ![c].acts = {x}]
    <2>1. c.op \notin {"mkdir", "rename"} /\ old.at \in Judged
        BY <1>1 DEF ScriptOk, InTurn, Judged
    <2>2. 1 \in 1..Len(old.open) /\ Current(old) = old.canon[1]
        BY <2>1, OnePath
    <2>3. scriptJob'[c].at = "done"
        BY <1>1, <1>3 DEF ScriptInv, ScriptTypes, ScriptJobs
    <2>4. o \in Script!Objects
        BY <1>3, MadeObject
    <2>5. d \in Dirs /\ n \in Names /\ old.canon[1] \in Seq(Names)
        BY <1>1, <2>1, <2>2, <2>3, ActedOn
    <2>6. entry' \in [Dirs -> [Names -> Script!Objects \cup {Absent}]] /\ entry'[d][n] = o
        BY <1>3, <2>4, <2>5, EntryTypes DEF ScriptInv
    <2>7. Chain(held'[c], old.canon[1], Len(old.canon[1]), o)
        BY <1>1, <2>1, <2>2, <2>3, <2>4, <2>6, ActedOn
    <2>8. old.canon[1] \in old.allowed
        BY <1>1, <2>2 DEF ScriptOk, Within, Judged
    <2>9. x.path = old.canon[1] /\ x.obj = o /\ x \in [path : Seq(Names), obj : Script!Objects]
        BY <2>4, <2>5 DEF Script!Act
    <2> HIDE DEF x, o, d, n
    <2> DEFINE A == {x}
    <2>10. /\ A \in SUBSET [path : Seq(Names), obj : Script!Objects]
           /\ \A t \in A : t.path \in old.allowed /\ Chain(held'[c], t.path, Len(t.path), t.obj)
           /\ scriptJob' = [scriptJob EXCEPT ![c].at = "done", ![c].acts = A]
        BY <1>3, <2>7, <2>8, <2>9
    <2> HIDE DEF A
    <2> QED
        BY <1>1, <2>6, <2>10, ScriptActs
<1> QED
    BY <1>2, <1>3 DEF Script!Create

LEMMA ScriptOpen ==
    ASSUME ScriptInv, Script!Parameters, NEW c \in ScriptCalls, Script!OpenBase(c)
    PROVE  ScriptInv'
<1> DEFINE old == scriptJob[c]
           o == Script!Opened(c)
           x == Script!Act(c, 1, o)
           A == IF c.op \in {"truncate", "append"} THEN {x} ELSE {}
<1>1. /\ old.at = "open" /\ Script!Others /\ Script!Remember /\ old \in ScriptJobs
      /\ ScriptOk(c, old, held[c])
    BY ScriptJobType DEF Script!OpenBase, Script!Others
<1>2. CASE Script!Fails(c)
    BY <1>1, <1>2, ScriptFails
<1>3. CASE /\ o = old.seen /\ UNCHANGED entry
           /\ scriptJob' = [scriptJob EXCEPT ![c].at = "done", ![c].acts = A]
    <2>1. c.op \notin {"mkdir", "rename"} /\ old.at \in Judged
        BY <1>1 DEF ScriptOk, InTurn, Judged
    <2>2. /\ 1 \in 1..Len(old.open) /\ Current(old) = old.canon[1]
          /\ Script!Base(c, 1) = Current(old)[old.k + 1] /\ Script!Dir(c, 1) = old.h
        BY <2>1, OnePath
    <2>3. scriptJob'[c].at = "done"
        BY <1>1, <1>3 DEF ScriptInv, ScriptTypes, ScriptJobs
    <2>4. held[c] \subseteq held'[c]
        BY <1>1, <2>3, Remembered
    <2>5. o \in Script!Objects /\ <<Script!Dir(c, 1), Script!Base(c, 1), o>> \in held'[c]
        BY <1>1, <1>3, <2>2, <2>4 DEF ScriptOk, Within
    <2>6. old.canon[1] \in Seq(Names) /\ Chain(held'[c], old.canon[1], Len(old.canon[1]), o)
        BY <1>1, <2>1, <2>2, <2>3, <2>5, ActedOn
    <2>7. old.canon[1] \in old.allowed
        BY <1>1, <2>2 DEF ScriptOk, Within, Judged
    <2>8. x.path = old.canon[1] /\ x.obj = o /\ x \in [path : Seq(Names), obj : Script!Objects]
        BY <2>5, <2>6 DEF Script!Act
    <2> HIDE DEF x, o
    <2>9. /\ A \in SUBSET [path : Seq(Names), obj : Script!Objects]
          /\ \A t \in A : t.path \in old.allowed /\ Chain(held'[c], t.path, Len(t.path), t.obj)
        BY <2>6, <2>7, <2>8
    <2>10. entry' \in [Dirs -> [Names -> Script!Objects \cup {Absent}]]
        BY <1>3 DEF ScriptInv, ScriptTypes
    <2>11. scriptJob' = [scriptJob EXCEPT ![c].at = "done", ![c].acts = A]
        BY <1>3
    <2> HIDE DEF A
    <2> QED
        BY <1>1, <2>9, <2>10, <2>11, ScriptActs
<1> QED
    BY <1>2, <1>3 DEF Script!OpenBase, Script!SameFile

LEMMA ScriptMakeDir ==
    ASSUME ScriptInv, Script!Parameters, NEW c \in ScriptCalls, Script!MakeDir(c)
    PROVE  ScriptInv'
<1> DEFINE old == scriptJob[c]
           k == Len(old.open)
           o == Script!Made(c)
           x == Script!Act(c, k, o)
           next == IF old.todo = << >> THEN "done" ELSE "pin"
<1>1. /\ old.at = "act" /\ c.op = "mkdir" /\ Script!Others /\ Script!Remember /\ old \in ScriptJobs
      /\ ScriptOk(c, old, held[c])
    BY ScriptJobType DEF Script!MakeDir, Script!Others
<1>2. /\ k \in Nat /\ k > 0 /\ Len(old.canon) = k /\ old.h = old.open[k]
      /\ Current(old) = old.canon[k] /\ Current(old) \in old.allowed
      /\ old.canon \in Seq(Seq(Names)) /\ old.open \in Seq(Dirs) /\ old.todo \in Seq(Seq(Names))
    BY <1>1, LenProperties DEF ScriptOk, Within, Judged, ScriptJobs, Current
<1> HIDE DEF k
<1>3. k \in 1..Len(old.open)
    BY <1>2 DEF k
<1>4. next \in {"done", "pin"} /\ (next = "pin" => Len(old.todo) > 0)
    <2>1. old.todo # << >> => Len(old.todo) > 0
        BY <1>2, EmptySeq, LenProperties
    <2> QED
        BY <2>1
\* What the call has done so far, and more of it, is kept on the way to the next level.
<1>5. ASSUME NEW place \in {"done", "pin"}, place = "pin" => Len(old.todo) > 0,
             NEW A \in SUBSET [path : Seq(Names), obj : Script!Objects],
             scriptJob' = [scriptJob EXCEPT ![c].at = place, ![c].acts = A],
             entry' \in [Dirs -> [Names -> Script!Objects \cup {Absent}]],
             \A y \in A : y \in old.acts \/ (y.path \in old.allowed /\ Chain(held'[c], y.path, Len(y.path), y.obj))
      PROVE  ScriptInv'
    <2> DEFINE j == [old EXCEPT !.at = place, !.acts = A]
    <2>1. scriptJob' = [scriptJob EXCEPT ![c] = j]
        BY <1>5
    <2>2. /\ j \in ScriptJobs /\ j.at = place /\ j.acts = A /\ j.open = old.open /\ j.canon = old.canon
          /\ j.allowed = old.allowed /\ j.todo = old.todo
        BY <1>1, <1>5 DEF ScriptJobs, ScriptPlaces
    <2>3. scriptJob'[c] = j
        BY <2>1 DEF ScriptInv, ScriptTypes
    <2> HIDE DEF j
    <2>4. ScriptOk(c, old, held'[c])
        BY <1>1, <2>2, <2>3, Remembered, OkGrows
    <2>5. Done(j, held'[c]) /\ Pinned(j, held'[c]) /\ Within(j, held'[c])
        BY <1>5, <2>2, <2>4 DEF ScriptOk, Done, Pinned, Within, Judged
    <2>6. InTurn(c, j)
        BY <1>1, <1>2, <1>5, <2>2 DEF InTurn, Judged, UnderWay, k
    <2> QED
        BY <1>1, <1>5, <2>1, <2>2, <2>5, <2>6, OneCall DEF ScriptOk, Script!Others, ScriptInv, ScriptTypes
<1>6. CASE /\ Script!CanMake(c) /\ entry' = [entry EXCEPT ![Script!Last(old.open)][Script!Last(Script!Path(c))] = o]
           /\ scriptJob' = [scriptJob EXCEPT ![c].at = next, ![c].acts = old.acts \cup {x}]
    <2> HIDE DEF next
    <2>1. scriptJob'[c].at = next
        BY <1>1, <1>6 DEF ScriptInv, ScriptTypes, ScriptJobs
    <2>2. Script!Last(old.open) = Script!Dir(c, k) /\ Script!Last(Script!Path(c)) = Script!Base(c, k)
        BY <1>2 DEF Script!Last, Script!Dir, Script!Base, Script!Path, k
    <2>3. /\ old.canon[k] \in Seq(Names) /\ Script!Base(c, k) \in Names /\ Script!Dir(c, k) \in Dirs
          /\ \A y \in Script!Objects : y = entry'[Script!Dir(c, k)][Script!Base(c, k)] =>
                Chain(held'[c], old.canon[k], Len(old.canon[k]), y)
        BY <1>1, <1>3, <1>4, <2>1, ActedOn DEF Judged
    <2>4. o \in Script!Objects
        BY <1>6, MadeObject
    <2>5. /\ entry' \in [Dirs -> [Names -> Script!Objects \cup {Absent}]]
          /\ entry'[Script!Dir(c, k)][Script!Base(c, k)] = o
        BY <1>6, <2>2, <2>3, <2>4, EntryTypes DEF ScriptInv
    <2>6. x.path = old.canon[k] /\ x.obj = o /\ x \in [path : Seq(Names), obj : Script!Objects]
        BY <2>3, <2>4 DEF Script!Act
    <2>7. x.path \in old.allowed /\ Chain(held'[c], x.path, Len(x.path), x.obj)
        BY <1>2, <2>3, <2>4, <2>5, <2>6
    <2> DEFINE A == old.acts \cup {x}
    <2>8. A \in SUBSET [path : Seq(Names), obj : Script!Objects]
        BY <1>1, <2>6 DEF ScriptJobs
    <2>9. \A y \in A : y \in old.acts \/ (y.path \in old.allowed /\ Chain(held'[c], y.path, Len(y.path), y.obj))
        <3> HIDE DEF x
        <3> TAKE y \in A
        <3>1. y \in old.acts \/ y = x
            OBVIOUS
        <3>2. CASE y = x
            BY <2>7, <3>2
        <3> QED
            BY <3>1, <3>2
    <2>10. scriptJob' = [scriptJob EXCEPT ![c].at = next, ![c].acts = A]
        BY <1>6
    <2> HIDE DEF A
    <2> QED
        BY <1>4, <1>5, <2>5, <2>8, <2>9, <2>10
<1>7. CASE (Script!Goto(c, next) \/ Script!Goto(c, "done")) /\ UNCHANGED entry
    <2> HIDE DEF next
    <2>1. PICK place \in {next, "done"} : scriptJob' = [scriptJob EXCEPT ![c].at = place]
        BY <1>7 DEF Script!Goto
    <2>2. scriptJob' = [scriptJob EXCEPT ![c].at = place, ![c].acts = old.acts]
        <3>1. [old EXCEPT !.at = place, !.acts = old.acts] = [old EXCEPT !.at = place]
            BY <1>1 DEF ScriptJobs
        <3> QED
            BY <2>1, <3>1
    <2>3. old.acts \in SUBSET [path : Seq(Names), obj : Script!Objects]
        BY <1>1 DEF ScriptJobs
    <2>4. place \in {"done", "pin"} /\ (place = "pin" => Len(old.todo) > 0)
        BY <1>4, <2>1
    <2>5. entry' \in [Dirs -> [Names -> Script!Objects \cup {Absent}]]
        BY <1>7 DEF ScriptInv, ScriptTypes
    <2> DEFINE A == old.acts
    <2>6. \A y \in A : y \in old.acts
        OBVIOUS
    <2>7. scriptJob' = [scriptJob EXCEPT ![c].at = place, ![c].acts = A]
        BY <2>2
    <2> HIDE DEF A
    <2>8. A \in SUBSET [path : Seq(Names), obj : Script!Objects]
        BY <2>3 DEF A
    <2> QED
        BY <1>5, <2>4, <2>5, <2>6, <2>7, <2>8
<1> QED
    BY <1>1, <1>6, <1>7 DEF Script!MakeDir, k

LEMMA ScriptRemove ==
    ASSUME ScriptInv, Script!Parameters, NEW c \in ScriptCalls, Script!RemoveBase(c)
    PROVE  ScriptInv'
<1> DEFINE old == scriptJob[c]
           d == Script!Dir(c, 1)
           n == Script!Base(c, 1)
           o == Script!Target(c, 1)
           x == Script!Act(c, 1, o)
<1>1. /\ old.at = "act" /\ c.op = "remove" /\ Script!Others /\ Script!Remember /\ old \in ScriptJobs
      /\ ScriptOk(c, old, held[c])
    BY ScriptJobType DEF Script!RemoveBase, Script!Others
<1>2. CASE Script!Fails(c)
    BY <1>1, <1>2, ScriptFails
<1>3. CASE /\ o # Absent /\ entry' = [entry EXCEPT ![d][n] = Absent]
           /\ scriptJob' = [scriptJob EXCEPT ![c].at = "done", ![c].acts = {x}]
    <2>1. c.op \notin {"mkdir", "rename"} /\ old.at \in Judged
        BY <1>1 DEF Judged
    <2>2. 1 \in 1..Len(old.open) /\ Current(old) = old.canon[1]
        BY <2>1, OnePath
    <2>3. scriptJob'[c].at = "done"
        BY <1>1, <1>3 DEF ScriptInv, ScriptTypes, ScriptJobs
    <2>4. d \in Dirs /\ n \in Names /\ old.canon[1] \in Seq(Names)
        BY <1>1, <2>1, <2>2, <2>3, ActedOn
    <2>5. o \in Script!Objects
        BY <1>3, <2>4 DEF Script!Target, ScriptInv, ScriptTypes
    <2>6. entry' \in [Dirs -> [Names -> Script!Objects \cup {Absent}]]
        BY <1>3, <2>4, EntryTypes DEF ScriptInv
    <2>7. Chain(held'[c], old.canon[1], Len(old.canon[1]), o)
        BY <1>1, <2>1, <2>2, <2>3, <2>5, ActedOn
    <2>8. old.canon[1] \in old.allowed
        BY <1>1, <2>2 DEF ScriptOk, Within, Judged
    <2>9. x.path = old.canon[1] /\ x.obj = o /\ x \in [path : Seq(Names), obj : Script!Objects]
        BY <2>4, <2>5 DEF Script!Act
    <2> HIDE DEF x, o, d, n
    <2> DEFINE A == {x}
    <2>10. /\ A \in SUBSET [path : Seq(Names), obj : Script!Objects]
           /\ \A t \in A : t.path \in old.allowed /\ Chain(held'[c], t.path, Len(t.path), t.obj)
           /\ scriptJob' = [scriptJob EXCEPT ![c].at = "done", ![c].acts = A]
        BY <1>3, <2>7, <2>8, <2>9
    <2> HIDE DEF A
    <2> QED
        BY <1>1, <2>6, <2>10, ScriptActs
<1> QED
    BY <1>2, <1>3 DEF Script!RemoveBase

LEMMA ScriptRename ==
    ASSUME ScriptInv, Script!Parameters, NEW c \in ScriptCalls, Script!Rename(c)
    PROVE  ScriptInv'
<1> DEFINE old == scriptJob[c]
           o == Script!Target(c, 1)
           u == Script!Target(c, 2)
           x == Script!Act(c, 1, o)
           y == Script!Act(c, 2, u)
           A == {x} \cup (IF u = Absent THEN {} ELSE {y})
           mid == [entry EXCEPT ![Script!Dir(c, 1)][Script!Base(c, 1)] = Absent]
<1>1. /\ old.at = "act" /\ c.op = "rename" /\ Script!Others /\ Script!Remember /\ old \in ScriptJobs
      /\ ScriptOk(c, old, held[c])
    BY ScriptJobType DEF Script!Rename, Script!Others
<1>2. CASE Script!Fails(c)
    BY <1>1, <1>2, ScriptFails
<1>3. CASE /\ o # Absent
           /\ entry' = [mid EXCEPT ![Script!Dir(c, 2)][Script!Base(c, 2)] = o]
           /\ scriptJob' = [scriptJob EXCEPT ![c].at = "done", ![c].acts = A]
    <2>1. scriptJob'[c].at = "done"
        BY <1>1, <1>3 DEF ScriptInv, ScriptTypes, ScriptJobs
    <2>2. 1 \in 1..Len(old.open) /\ 2 \in 1..Len(old.open) /\ Len(old.canon) = Len(old.open)
        <3>1. Len(old.todo) = 0 /\ Len(old.todo) + Len(old.open) = 2 /\ Len(old.canon) = Len(old.open)
            BY <1>1 DEF ScriptOk, InTurn, Within, Judged, UnderWay
        <3> DEFINE m == Len(old.open)
        <3>2. m \in Nat
            BY <1>1, LenProperties DEF ScriptJobs
        <3>3. Len(old.todo) = 0 /\ Len(old.todo) + m = 2
            BY <3>1
        <3> HIDE DEF m
        <3>4. m = 2
            BY <3>2, <3>3
        <3>5. 1 \in 1..m /\ 2 \in 1..m
            BY <3>4
        <3> QED
            BY <3>1, <3>5 DEF m
    <2>3. \A i \in {1, 2} :
            /\ Script!Dir(c, i) \in Dirs /\ Script!Base(c, i) \in Names /\ old.canon[i] \in Seq(Names)
            /\ old.canon[i] \in old.allowed
            /\ \A t \in Script!Objects :
                 t = Script!Target(c, i) => Chain(held'[c], old.canon[i], Len(old.canon[i]), t)
        <3> TAKE i \in {1, 2}
        <3>1. i \in 1..Len(old.open) /\ old.at \in Judged
            BY <1>1, <2>2 DEF Judged
        <3>2. old.canon[i] \in old.allowed
            BY <1>1, <2>2, <3>1 DEF ScriptOk, InTurn
        <3> QED
            BY <1>1, <2>1, <3>1, <3>2, ActedOn
    <2>4. o \in Script!Objects /\ u \in Script!Objects \cup {Absent}
        BY <1>3, <2>3 DEF Script!Target, ScriptInv, ScriptTypes
    <2>5. entry' \in [Dirs -> [Names -> Script!Objects \cup {Absent}]]
        <3>1. mid \in [Dirs -> [Names -> Script!Objects \cup {Absent}]]
            BY <2>3, EntryTypes DEF ScriptInv
        <3> HIDE DEF mid, o
        <3> QED
            BY <1>3, <2>3, <2>4, <3>1
    <2>6. /\ x.path = old.canon[1] /\ x.obj = o /\ x \in [path : Seq(Names), obj : Script!Objects]
          /\ y.path = old.canon[2] /\ y.obj = u
          /\ u # Absent => y \in [path : Seq(Names), obj : Script!Objects]
        BY <2>3, <2>4 DEF Script!Act
    <2>7. Chain(held'[c], x.path, Len(x.path), x.obj) /\ x.path \in old.allowed
        BY <2>3, <2>4, <2>6
    <2>8. u # Absent => Chain(held'[c], y.path, Len(y.path), y.obj) /\ y.path \in old.allowed
        BY <2>3, <2>4, <2>6
    <2> HIDE DEF x, y, o, u
    <2>9. A \in SUBSET [path : Seq(Names), obj : Script!Objects]
          /\ \A t \in A : t.path \in old.allowed /\ Chain(held'[c], t.path, Len(t.path), t.obj)
        BY <2>6, <2>7, <2>8
    <2> HIDE DEF A, mid
    <2> QED
        BY <1>1, <1>3, <2>5, <2>9, ScriptActs
<1> QED
    BY <1>2, <1>3 DEF Script!Rename

\* Other programs and the owner leave the calls where they are.
LEMMA NoCall ==
    ASSUME ScriptInv, UNCHANGED <<cwd, scriptJob>>, Script!Remember \/ UNCHANGED held,
           entry' \in [Dirs -> [Names -> Script!Objects \cup {Absent}]]
    PROVE  ScriptInv'
<1>1. ASSUME NEW c \in ScriptCalls PROVE ScriptOk(c, scriptJob'[c], held'[c])
    <2>1. ScriptOk(c, scriptJob[c], held[c]) /\ scriptJob'[c] = scriptJob[c]
        BY DEF ScriptInv
    <2>2. CASE scriptJob[c].at \in {"idle", "never"}
        BY <2>1, <2>2, OkAtRest
    <2>3. CASE scriptJob[c].at \notin {"idle", "never"}
        <3>1. held[c] \subseteq held'[c]
            BY <2>1, <2>3, Remembered
        <3> QED
            BY <2>1, <3>1, OkGrows
    <2> QED
        BY <2>2, <2>3
<1> QED
    BY <1>1 DEF ScriptInv, ScriptTypes

LEMMA ScriptOthers ==
    ASSUME ScriptInv, Script!Parameters, Script!Swap \/ Script!Replace \/ Script!NewRules
    PROVE  ScriptInv'
<1>1. UNCHANGED <<cwd, scriptJob>> /\ Script!Remember
    BY DEF Script!Swap, Script!Replace, Script!NewRules
<1>2. entry' \in [Dirs -> [Names -> Script!Objects \cup {Absent}]]
    <2>1. CASE Script!Swap
        <3>1. PICK d \in Dirs, n \in Names, m \in Names :
                entry' = [entry EXCEPT ![d][n] = entry[d][m], ![d][m] = entry[d][n]]
            BY <2>1 DEF Script!Swap
        <3>2. entry[d][m] \in Script!Objects \cup {Absent} /\ entry[d][n] \in Script!Objects \cup {Absent}
            BY DEF ScriptInv, ScriptTypes
        <3> DEFINE first == [entry EXCEPT ![d][n] = entry[d][m]]
                   p == entry[d][n]
        <3>3. first \in [Dirs -> [Names -> Script!Objects \cup {Absent}]]
            BY <3>2, EntryTypes DEF ScriptInv
        <3>4. entry' = [first EXCEPT ![d][m] = p]
            BY <3>1
        <3> HIDE DEF first, p
        <3> QED
            BY <3>2, <3>3, <3>4 DEF p
    <2>2. CASE Script!Replace
        <3>1. PICK d \in Dirs, n \in Names, l \in Links : entry' = [entry EXCEPT ![d][n] = l]
            BY <2>2 DEF Script!Replace
        <3>2. l \in Script!Objects \cup {Absent}
            BY DEF Script!Objects
        <3> QED
            BY <3>1, <3>2, EntryTypes DEF ScriptInv
    <2>3. CASE Script!NewRules
        BY <2>3 DEF Script!NewRules, ScriptInv, ScriptTypes
    <2> QED
        BY <2>1, <2>2, <2>3
<1> QED
    BY <1>1, <1>2, NoCall

LEMMA ScriptInit == Script!Parameters /\ Script!Init => ScriptInv
<1> SUFFICES ASSUME Script!Parameters, Script!Init PROVE ScriptInv
    OBVIOUS
<1>1. PICK S \in SUBSET ScriptCalls :
        scriptJob = [c \in ScriptCalls |-> [Script!Idle EXCEPT !.at = IF c \in S THEN "idle" ELSE "never"]]
    BY DEF Script!Init
<1>2. ASSUME NEW c \in ScriptCalls
      PROVE  /\ scriptJob[c] \in ScriptJobs /\ scriptJob[c].at \in {"idle", "never"}
             /\ scriptJob[c].acts = {} /\ scriptJob[c].open = << >> /\ scriptJob[c].canon = << >>
    <2> DEFINE place == IF c \in S THEN "idle" ELSE "never"
    <2>1. place \in {"idle", "never"} /\ scriptJob[c] = [Script!Idle EXCEPT !.at = place]
        BY <1>1
    <2>2. /\ Script!Idle \in ScriptJobs
          /\ Script!Idle.canon = << >> /\ Script!Idle.open = << >> /\ Script!Idle.acts = {}
        BY EmptySeq DEF Script!Idle, ScriptJobs, ScriptPlaces, Script!Parameters
    <2> HIDE DEF place
    <2> QED
        BY <2>1, <2>2 DEF ScriptJobs, ScriptPlaces
<1>3. scriptJob \in [ScriptCalls -> ScriptJobs]
    BY <1>1, <1>2
<1>4. entry \in [Dirs -> [Names -> Script!Objects \cup {Absent}]] /\ cwd \in Seq(Names)
    BY EmptySeq DEF Script!Init, Script!Parameters
<1>5. ASSUME NEW c \in ScriptCalls PROVE ScriptOk(c, scriptJob[c], held[c])
    <2>1. scriptJob[c].at \in {"idle", "never"} /\ scriptJob[c].acts = {}
          /\ scriptJob[c].open = << >> /\ scriptJob[c].canon = << >>
        BY <1>2, <1>5
    <2> DEFINE j == scriptJob[c]
    <2>2. j.at \notin Judged /\ j.at \notin UnderWay
        BY <2>1 DEF Judged, UnderWay
    <2>3. InTurn(c, j)
        BY <2>1, <2>2 DEF InTurn, Judged
    <2>4. Within(j, held[c])
        BY <2>1, <2>2 DEF Within, Judged
    <2> QED
        BY <2>1, <2>3, <2>4, NoneLong DEF ScriptOk, Done, Pinned
<1> QED
    BY <1>3, <1>4, <1>5 DEF ScriptInv, ScriptTypes

LEMMA ScriptStep == Script!Parameters /\ ScriptInv /\ Script!Next => ScriptInv'
<1> SUFFICES ASSUME Script!Parameters, ScriptInv, Script!Next PROVE ScriptInv'
    OBVIOUS
<1>1. ASSUME NEW c \in ScriptCalls, Script!Operation(c) PROVE ScriptInv'
    BY <1>1, ScriptBegin, ScriptPlainly, ScriptLevels, ScriptPin, ScriptLook, ScriptEnter, ScriptCheck,
       ScriptLstat, ScriptCreate, ScriptOpen, ScriptMakeDir, ScriptRemove, ScriptRename DEF Script!Operation
<1> QED
    BY <1>1, ScriptOthers DEF Script!Next

LEMMA ScriptInvariance == BundleSpec => []ScriptSafe
<1>1. BundleInit => ScriptSafe
    BY FilesAssumption, ScriptInit DEF BundleInit, ScriptSafe
<1>2. ScriptSafe /\ [BundleNext]_bundleVars => ScriptSafe'
  <2> SUFFICES ASSUME ScriptSafe, [BundleNext]_bundleVars, part' = "script" PROVE ScriptInv'
    BY DEF ScriptSafe
  <2>1. ScriptInv /\ (Script!Next \/ UNCHANGED scriptVars)
    BY DEF ScriptSafe, BundleNext, bundleVars
  <2>2. CASE UNCHANGED scriptVars
    BY <2>1, <2>2, NoCall DEF scriptVars, ScriptInv, ScriptTypes
  <2> QED
    BY <2>1, <2>2, FilesAssumption, ScriptStep
<1> QED
    BY <1>1, <1>2, PTL DEF BundleSpec, bundleVars

\* pinOSParent, OpenChecked and the checked operations: whatever other programs
\* rename or put links in place of, what an operation of a script makes, cuts,
\* removes or moves was reached by the path that was judged, name by name.
THEOREM ActsJudged == BundleSpec => []ActsWhereJudged
<1>1. ScriptSafe => ActsWhereJudged
  <2> SUFFICES ASSUME ScriptInv, NEW c \in ScriptCalls, NEW x \in scriptJob[c].acts
               PROVE  x.path \in scriptJob[c].allowed /\ x.obj \in Script!Led(c, x.path)
    BY DEF ScriptSafe, ActsWhereJudged, Script!ActsWhereJudged
  <2>1. scriptJob[c] \in ScriptJobs /\ Done(scriptJob[c], held[c])
    BY ScriptJobType DEF ScriptOk
  <2>2. x.path \in Seq(Names)
    BY <2>1 DEF ScriptJobs
  <2>3. x.path \in scriptJob[c].allowed /\ Chain(held[c], x.path, Len(x.path), x.obj)
    BY <2>1 DEF Done
  <2> QED
    BY <2>2, <2>3, FilesAssumption, ChainLed
<1> QED
    BY <1>1, ScriptInvariance, PTL

-----------------------------------------------------------------------------
(* The edit tool.  Diagnoses point into the text that the edit was tried on. *)

\* q lists S from the least to the greatest.
InOrder(q, S) ==
    /\ \A k \in 1..Len(q) : q[k] \in S
    /\ \A x \in S : \E k \in 1..Len(q) : q[k] = x
    /\ \A k, l \in 1..Len(q) : k < l => q[k] < q[l]

LEMMA OrderAgrees ==
    ASSUME NEW S \in SUBSET Nat, NEW p \in Seq(Nat), NEW q \in Seq(Nat), InOrder(p, S), InOrder(q, S)
    PROVE  \A k \in 1..Len(p) : k \in 1..Len(q) /\ q[k] = p[k]
<1> DEFINE T == {k \in 1..Len(p) : ~(k \in 1..Len(q) /\ q[k] = p[k])}
           n == Len(p)
           m == Len(q)
<1> SUFFICES ASSUME T # {} PROVE FALSE
    OBVIOUS
<1>1. /\ n \in Nat /\ m \in Nat /\ T \in SUBSET Nat
      /\ \A k \in 1..n : p[k] \in Nat /\ p[k] \in S
      /\ \A k \in 1..m : q[k] \in Nat /\ q[k] \in S
      /\ \A x \in S : (\E k \in 1..n : p[k] = x) /\ (\E k \in 1..m : q[k] = x)
      /\ \A k, l \in 1..n : k < l => p[k] < p[l]
      /\ \A k, l \in 1..m : k < l => q[k] < q[l]
    <2>1. n \in Nat /\ m \in Nat
        BY LenProperties
    <2>2. T \in SUBSET Nat
        BY <2>1
    <2>3. \A k \in 1..n : p[k] \in S /\ p[k] \in Nat
        BY DEF InOrder
    <2>4. \A k \in 1..m : q[k] \in S /\ q[k] \in Nat
        BY DEF InOrder
    <2>5. \A x \in S : (\E k \in 1..n : p[k] = x) /\ (\E k \in 1..m : q[k] = x)
        BY DEF InOrder
    <2>6. \A k, l \in 1..n : k < l => p[k] < p[l]
        BY DEF InOrder
    <2>7. \A k, l \in 1..m : k < l => q[k] < q[l]
        BY DEF InOrder
    <2> HIDE DEF n, m, T
    <2> QED
        BY <2>1, <2>2, <2>3, <2>4, <2>5, <2>6, <2>7
<1>2. PICK k \in T : \A l \in T : k <= l
    BY <1>1, Least
<1>3. k \in 1..n /\ ~(k \in 1..m /\ q[k] = p[k]) /\ \A l \in 1..n : l < k => l \in 1..m /\ q[l] = p[l]
    BY <1>1, <1>2
<1> HIDE DEF T, n, m
<1>4. PICK j \in 1..m : q[j] = p[k]
    BY <1>1, <1>3
<1>5. ~(j < k)
    <2> SUFFICES ASSUME j < k PROVE FALSE
        OBVIOUS
    <2>1. j \in 1..n /\ q[j] = p[j] /\ p[j] < p[k]
        BY <1>1, <1>3
    <2> QED
        BY <1>1, <1>3, <1>4, <2>1
<1>6. k < j /\ k \in 1..m
    BY <1>1, <1>3, <1>4, <1>5
<1>7. q[k] < p[k] /\ q[k] \in S
    BY <1>1, <1>4, <1>6
<1>8. PICK i \in 1..n : p[i] = q[k]
    BY <1>1, <1>7
<1>9. i < k
    <2>1. i \in Nat /\ k \in Nat /\ p[k] \in Nat /\ p[i] < p[k]
        BY <1>1, <1>3, <1>7, <1>8
    <2>2. ~(k < i)
        BY <1>1, <1>3, <1>8, <2>1
    <2>3. i # k
        BY <2>1
    <2> QED
        BY <2>1, <2>2, <2>3
<1>10. i \in 1..m /\ q[i] = q[k] /\ q[i] < q[k]
    BY <1>1, <1>3, <1>6, <1>8, <1>9
<1> QED
    BY <1>1, <1>6, <1>10

\* There is one such list.
LEMMA OneOrder ==
    ASSUME NEW S \in SUBSET Nat, NEW p \in Seq(Nat), NEW q \in Seq(Nat), InOrder(p, S), InOrder(q, S)
    PROVE  p = q
<1>1. \A k \in 1..Len(p) : k \in 1..Len(q) /\ q[k] = p[k]
    BY OrderAgrees
<1>2. \A k \in 1..Len(q) : k \in 1..Len(p) /\ p[k] = q[k]
    BY OrderAgrees
<1> DEFINE n == Len(p)
           m == Len(q)
<1>3. n \in Nat /\ m \in Nat
    BY LenProperties
<1>4. (\A k \in 1..n : k \in 1..m) /\ (\A k \in 1..m : k \in 1..n)
    BY <1>1, <1>2
<1>5. n = m
    <2> HIDE DEF n, m
    <2>1. n > 0 => n <= m
        BY <1>3, <1>4
    <2>2. m > 0 => m <= n
        BY <1>3, <1>4
    <2> QED
        BY <1>3, <2>1, <2>2
<1> QED
    BY <1>1, <1>5, SeqEqual

LEMMA OrderGrows ==
    ASSUME NEW S \in SUBSET Nat, NEW q \in Seq(Nat), InOrder(q, S), NEW x \in Nat, \A y \in S : y < x
    PROVE  InOrder(Append(q, x), S \cup {x})
<1> DEFINE r == Append(q, x)
           n == Len(q)
<1>1. n \in Nat /\ Len(r) = n + 1 /\ r[n + 1] = x /\ \A k \in 1..n : r[k] = q[k]
    BY LenProperties, AppendProperties
<1>2. \A k \in 1..n : q[k] \in S /\ r[k] < x
    BY <1>1 DEF InOrder
<1>3. \A y \in S : \E k \in 1..n : r[k] = y
    BY <1>1 DEF InOrder
<1>4. \A k, l \in 1..n : k < l => r[k] < r[l]
    BY <1>1 DEF InOrder
<1> HIDE DEF r, n
<1>5. \A k \in 1..(n + 1) : k \in 1..n \/ k = n + 1
    BY <1>1
<1>6. n + 1 \in 1..(n + 1) /\ 1..n \subseteq 1..(n + 1) /\ ~(n + 1 < n + 1) /\ \A k \in 1..n : ~(n + 1 < k)
    BY <1>1
<1>7. \A k \in 1..(n + 1) : r[k] \in S \cup {x}
    BY <1>1, <1>2, <1>5
<1>8. \A y \in S \cup {x} : \E k \in 1..(n + 1) : r[k] = y
    BY <1>1, <1>3, <1>6
<1>9. ASSUME NEW k \in 1..(n + 1), NEW l \in 1..(n + 1), k < l PROVE r[k] < r[l]
    <2>1. k \in 1..n
        BY <1>5, <1>6, <1>9
    <2> QED
        BY <1>1, <1>2, <1>4, <1>5, <1>9, <2>1
<1> QED
    BY <1>1, <1>7, <1>8, <1>9 DEF InOrder, r

\* The places where segments of the normalised text start.
Starts(t) == {i \in 1..Len(t) : ~Edit!SecondHalf(t, i) /\ ~Edit!Trailing(t, i)}
Segmenting(t, f) ==
    f = [i \in 0..Len(t) |-> IF i = 0 THEN << >>
                             ELSE IF Edit!SecondHalf(t, i) \/ Edit!Trailing(t, i) THEN f[i - 1]
                             ELSE Append(f[i - 1], i)]

LEMMA SegmentsInOrder ==
    ASSUME NEW t, Len(t) \in Nat
    PROVE  Edit!Segments(t) \in Seq(Nat) /\ InOrder(Edit!Segments(t), Starts(t))
<1> DEFINE S == Seq(Nat)
           n == Len(t)
           dropped(i) == Edit!SecondHalf(t, i) \/ Edit!Trailing(t, i)
           F == [x \in (1..n) \X S |-> IF dropped(x[1]) THEN x[2] ELSE Append(x[2], x[1])]
<1> HIDE DEF dropped, n
<1>0. n \in Nat /\ \A i \in 1..n : i - 1 \in 0..n /\ i \in 0..n /\ i \in Nat /\ i # 0
    BY DEF n
<1>1. << >> \in S /\ Len(<< >>) = 0
    BY EmptySeq
<1>2. \A i \in 1..n, x \in S :
        F[<<i, x>>] = (IF dropped(i) THEN x ELSE Append(x, i)) /\ F[<<i, x>>] \in S
    BY <1>0, AppendProperties
<1> HIDE DEF F, S
<1>3. PICK f \in [0..n -> S] : f[0] = << >> /\ \A i \in 1..n : f[i] = F[<<i, f[i - 1]>>]
    <2>1. Closed(S, F, n)
        BY <1>2 DEF Closed
    <2>2. Reached(S, F, << >>, n)
        BY <1>0, <1>1, <2>1, Iterates
    <2> QED
        BY <2>2 DEF Reached
<1>4. Segmenting(t, f)
    <2>1. ASSUME NEW i \in 1..n PROVE f[i] = IF dropped(i) THEN f[i - 1] ELSE Append(f[i - 1], i)
        <3>1. f[i - 1] \in S /\ f[i] = F[<<i, f[i - 1]>>]
            BY <1>0, <1>3
        <3> QED
            BY <1>2, <3>1
    <2>2. ASSUME NEW i \in 0..n
          PROVE  f[i] = IF i = 0 THEN << >> ELSE IF dropped(i) THEN f[i - 1] ELSE Append(f[i - 1], i)
        <3>1. i = 0 \/ i \in 1..n
            BY <1>0
        <3> QED
            BY <1>0, <1>3, <2>1, <3>1
    <2> DEFINE e == [i \in 0..n |-> IF i = 0 THEN << >>
                                    ELSE IF dropped(i) THEN f[i - 1] ELSE Append(f[i - 1], i)]
    <2>3. f = e
        BY <1>3, <2>2
    <2> QED
        BY <2>3 DEF Segmenting, dropped, n
<1> DEFINE g == CHOOSE g : Segmenting(t, g)
<1>5. Segmenting(t, g)
    BY <1>4
<1>6. Edit!Segments(t) = g[n]
    BY DEF Edit!Segments, Segmenting, n
<1>7. \A i \in 0..n : g[i] = IF i = 0 THEN << >> ELSE IF dropped(i) THEN g[i - 1] ELSE Append(g[i - 1], i)
    BY <1>5 DEF Segmenting, n, dropped
<1> HIDE DEF g
<1> DEFINE upTo(i) == Starts(t) \cap 1..i
           Q == {i \in 0..n : g[i] \in Seq(Nat) /\ InOrder(g[i], upTo(i))}
<1>8. 0 \in Q
    <2>1. 0 \in 0..n /\ upTo(0) = {}
        BY <1>0
    <2>2. g[0] = << >>
        BY <1>7, <2>1
    <2>3. g[0] \in Seq(Nat) /\ InOrder(g[0], upTo(0))
        BY <1>1, <2>1, <2>2 DEF InOrder, S
    <2> QED
        BY <2>1, <2>3
<1>9. ASSUME NEW i \in 1..n, i - 1 \in Q PROVE i \in Q
    <2>1. g[i] = IF dropped(i) THEN g[i - 1] ELSE Append(g[i - 1], i)
        BY <1>0, <1>7
    <2>2. g[i - 1] \in Seq(Nat) /\ InOrder(g[i - 1], upTo(i - 1)) /\ i \in 0..n
        BY <1>0, <1>9
    <2>3. i \in Starts(t) <=> ~dropped(i)
        BY DEF Starts, dropped, n
    <2>4. upTo(i) = upTo(i - 1) \cup (IF dropped(i) THEN {} ELSE {i})
        <3>1. 1..i = 1..(i - 1) \cup {i}
            BY <1>0
        <3> QED
            BY <2>3, <3>1
    <2>5. upTo(i - 1) \in SUBSET Nat /\ (\A y \in upTo(i - 1) : y < i) /\ i \in Nat
        BY <1>0
    <2> HIDE DEF upTo
    <2>6. CASE dropped(i)
        BY <2>1, <2>2, <2>4, <2>6
    <2>7. CASE ~dropped(i)
        <3>1. InOrder(Append(g[i - 1], i), upTo(i - 1) \cup {i})
            BY <2>2, <2>5, OrderGrows
        <3>2. Append(g[i - 1], i) \in Seq(Nat)
            BY <2>2, <2>5, AppendProperties
        <3> QED
            BY <2>1, <2>2, <2>4, <2>7, <3>1, <3>2
    <2> QED
        BY <2>6, <2>7
<1>10. \A i \in 0..n : i \in Q
    <2> HIDE DEF Q
    <2> QED
        BY <1>0, <1>8, <1>9, Throughout
<1>11. upTo(n) = Starts(t) /\ n \in 0..n
    BY <1>0 DEF Starts, n
<1> QED
    <2>1. n \in Q
        BY <1>10, <1>11
    <2> QED
        BY <1>6, <1>11, <2>1

\* What is left of a text from the start of a segment has the same starts.
LEMMA RestOf ==
    ASSUME NEW t \in Seq(Edit!Characters), NEW i \in 1..Len(t)
    PROVE  LET r == SubSeq(t, i, Len(t))
           IN  /\ r \in Seq(Edit!Characters) /\ Len(t) \in Nat /\ Len(r) = Len(t) - i + 1
               /\ \A j \in 1..Len(r) : r[j] = t[i + j - 1]
<1>1. Len(t) \in Nat
    BY LenProperties
<1> QED
    BY <1>1, SubSeqProperties

LEMMA RestTrailing ==
    ASSUME NEW t \in Seq(Edit!Characters), NEW i \in 1..Len(t), NEW r, r = SubSeq(t, i, Len(t)), NEW j \in 1..Len(r)
    PROVE  Edit!Trailing(r, j) <=> Edit!Trailing(t, i + j - 1)
<1> DEFINE n == Len(t)
           m == Len(r)
           end(x) == x \in {LF, CR}
           blank(x) == Edit!Folded(x) = Blank
<1>1. n \in Nat /\ m = n - i + 1 /\ \A k \in 1..m : r[k] = t[i + k - 1]
    BY RestOf
<1>2. Edit!Trailing(r, j) <=> /\ ~end(r[j]) /\ blank(r[j])
                             /\ \A k \in j..m : (\A l \in j..k : ~end(r[l])) => blank(r[k])
    BY DEF Edit!Trailing, Edit!LineEnd
<1>3. Edit!Trailing(t, i + j - 1) <=>
        /\ ~end(t[i + j - 1]) /\ blank(t[i + j - 1])
        /\ \A k \in (i + j - 1)..n : (\A l \in (i + j - 1)..k : ~end(t[l])) => blank(t[k])
    BY DEF Edit!Trailing, Edit!LineEnd
<1> HIDE DEF n, m, end, blank
<1>4. r[j] = t[i + j - 1] /\ j \in 1..m /\ i \in 1..n
    BY <1>1 DEF m, n
<1>5. ASSUME \A k \in j..m : (\A l \in j..k : ~end(r[l])) => blank(r[k]),
             NEW k \in (i + j - 1)..n, \A l \in (i + j - 1)..k : ~end(t[l])
      PROVE  blank(t[k])
    <2> DEFINE h == k - i + 1
    <2>1. h \in j..m /\ i + h - 1 = k /\ h \in 1..m
        BY <1>1, <1>4
    <2> HIDE DEF h
    <2>2. ASSUME NEW l \in j..h PROVE ~end(r[l])
        <3>1. i + l - 1 \in (i + j - 1)..k /\ l \in 1..m
            BY <1>1, <1>4, <2>1
        <3> QED
            BY <1>1, <1>5, <3>1
    <2> QED
        BY <1>1, <1>5, <2>1, <2>2
<1>6. ASSUME \A k \in (i + j - 1)..n : (\A l \in (i + j - 1)..k : ~end(t[l])) => blank(t[k]),
             NEW k \in j..m, \A l \in j..k : ~end(r[l])
      PROVE  blank(r[k])
    <2> DEFINE h == i + k - 1
    <2>1. k \in 1..m
        BY <1>1, <1>4, <1>6
    <2>2. h \in (i + j - 1)..n /\ r[k] = t[h]
        <3>1. k \in Nat /\ j \in Nat /\ i \in Nat /\ j <= k /\ k <= n - i + 1 /\ 1 <= i
            BY <1>1, <1>4, <1>6, <2>1
        <3>2. h \in (i + j - 1)..n
            BY <1>1, <3>1
        <3>3. r[k] = t[h]
            BY <1>1, <2>1
        <3> QED
            BY <3>2, <3>3
    <2> HIDE DEF h
    <2>3. ASSUME NEW l \in (i + j - 1)..h PROVE ~end(t[l])
        <3> DEFINE g == l - i + 1
        <3>1. g \in j..k /\ g \in 1..m /\ i + g - 1 = l
            BY <1>1, <1>4, <2>1, <2>2, <2>3 DEF h
        <3> HIDE DEF g
        <3> QED
            BY <1>1, <1>6, <3>1
    <2> QED
        BY <1>6, <2>1, <2>2, <2>3
<1> QED
    BY <1>2, <1>3, <1>4, <1>5, <1>6

LEMMA RestStarts ==
    ASSUME NEW t \in Seq(Edit!Characters), NEW i \in Starts(t), NEW r, r = SubSeq(t, i, Len(t)), NEW j \in 1..Len(r)
    PROVE  j \in Starts(r) <=> i + j - 1 \in Starts(t)
<1> DEFINE n == Len(t)
           m == Len(r)
<1>1. i \in 1..n /\ ~Edit!SecondHalf(t, i)
    BY DEF Starts
<1>2. n \in Nat /\ m = n - i + 1 /\ \A k \in 1..m : r[k] = t[i + k - 1]
    BY <1>1, RestOf
<1>3. Edit!Trailing(r, j) <=> Edit!Trailing(t, i + j - 1)
    BY <1>1, RestTrailing
<1>4. i + j - 1 \in 1..n
    BY <1>1, <1>2
<1>5. Edit!SecondHalf(r, j) <=> Edit!SecondHalf(t, i + j - 1)
    <2>1. CASE j = 1
        <3>1. i + j - 1 = i
            BY <1>1, <2>1
        <3> QED
            BY <1>1, <2>1, <3>1 DEF Edit!SecondHalf
    <2>2. CASE j > 1
        <3>1. /\ j - 1 \in 1..m /\ i + (j - 1) - 1 = (i + j - 1) - 1 /\ i + j - 1 > 1
            BY <1>1, <1>2, <2>2
        <3>2. r[j] = t[i + j - 1] /\ r[j - 1] = t[(i + j - 1) - 1]
            BY <1>2, <3>1
        <3> QED
            BY <2>2, <3>1, <3>2 DEF Edit!SecondHalf
    <2> QED
        BY <2>1, <2>2
<1> QED
    BY <1>3, <1>4, <1>5 DEF Starts

LEMMA NormalType ==
    ASSUME NEW t \in Seq(Edit!Characters)
    PROVE  LET n == Edit!Normal(t)
               segs == Edit!Segments(t)
           IN  /\ segs \in Seq(Nat) /\ Len(segs) \in Nat /\ InOrder(segs, Starts(t))
               /\ \A k \in 1..Len(segs) : segs[k] \in Starts(t) /\ segs[k] \in 1..Len(t)
               /\ n \in Seq({Edit!Folded(x) : x \in Edit!Characters}) /\ Len(n) = Len(segs)
               /\ \A k \in 1..Len(segs) : n[k] = Edit!Folded(t[segs[k]])
<1> DEFINE segs == Edit!Segments(t)
           S == {Edit!Folded(x) : x \in Edit!Characters}
<1>1. Len(t) \in Nat /\ \A i \in 1..Len(t) : t[i] \in Edit!Characters
    BY LenProperties, ElementOfSeq
<1>2. segs \in Seq(Nat) /\ InOrder(segs, Starts(t))
    BY <1>1, SegmentsInOrder
<1>3. Len(segs) \in Nat /\ DOMAIN segs = 1..Len(segs)
    BY <1>2, LenProperties
<1>4. \A k \in 1..Len(segs) : segs[k] \in Starts(t) /\ segs[k] \in 1..Len(t)
    BY <1>2 DEF InOrder, Starts
<1> DEFINE n == [k \in 1..Len(segs) |-> Edit!Folded(t[segs[k]])]
<1>5. Edit!Normal(t) = n
    BY <1>3 DEF Edit!Normal
<1>6. \A k \in 1..Len(segs) : Edit!Folded(t[segs[k]]) \in S
    BY <1>1, <1>4
<1> HIDE DEF segs, S
<1>7. n \in Seq(S) /\ Len(n) = Len(segs) /\ \A k \in 1..Len(segs) : n[k] = Edit!Folded(t[segs[k]])
    BY <1>3, <1>6
<1> QED
    BY <1>2, <1>3, <1>4, <1>5, <1>7 DEF segs, S

\* Normalised, the rest of a text from the start of its segment p on is the rest of
\* the normalised text from p on.
LEMMA NormalRest ==
    ASSUME NEW t \in Seq(Edit!Characters), NEW p \in 1..Len(Edit!Segments(t))
    PROVE  LET i == Edit!Segments(t)[p]
               n == Edit!Normal(t)
           IN  i \in 1..Len(t) /\ Edit!Normal(SubSeq(t, i, Len(t))) = SubSeq(n, p, Len(n))
<1> DEFINE segs == Edit!Segments(t)
           i == segs[p]
           r == SubSeq(t, i, Len(t))
           s == Len(segs)
           h == s - p + 1
           g == [k \in 1..h |-> segs[p + k - 1] - i + 1]
           n == Edit!Normal(t)
           q == Edit!Normal(r)
           S == {Edit!Folded(x) : x \in Edit!Characters}
<1>1. /\ segs \in Seq(Nat) /\ s \in Nat /\ InOrder(segs, Starts(t)) /\ n \in Seq(S) /\ Len(n) = s
      /\ \A k \in 1..s : segs[k] \in Starts(t) /\ segs[k] \in 1..Len(t) /\ n[k] = Edit!Folded(t[segs[k]])
    BY NormalType
<1>2. i \in Starts(t) /\ i \in 1..Len(t)
    BY <1>1
<1>3. r \in Seq(Edit!Characters) /\ Len(t) \in Nat /\ Len(r) = Len(t) - i + 1
      /\ \A j \in 1..Len(r) : r[j] = t[i + j - 1]
    BY <1>2, RestOf
<1>4. \A j \in 1..Len(r) : j \in Starts(r) <=> i + j - 1 \in Starts(t)
    BY <1>2, RestStarts
<1>5. \A k, l \in 1..s : k < l => segs[k] < segs[l]
    BY <1>1 DEF InOrder
<1>6. \A x \in Starts(t) : \E k \in 1..s : segs[k] = x
    BY <1>1 DEF InOrder
<1>7. Starts(r) \in SUBSET Nat /\ Starts(r) \subseteq 1..Len(r)
    BY <1>3 DEF Starts
<1>8. h \in Nat /\ p \in 1..s /\ segs[p] = i /\ h = s - p + 1
    BY <1>1
<1> HIDE DEF segs, i, r, s, n, q, S, h
<1>9. \A k \in 1..h : p + k - 1 \in 1..s /\ i <= segs[p + k - 1]
    <2>1. \A k \in 1..h : p + k - 1 \in 1..s /\ (k = 1 \/ p < p + k - 1) /\ (k = 1 => p + k - 1 = p)
        BY <1>1, <1>8
    <2>2. i <= i
        BY <1>2, <1>3
    <2>3. ASSUME NEW k \in 1..h PROVE i <= segs[p + k - 1]
        <3>1. CASE k = 1
            BY <1>8, <2>1, <2>2, <3>1
        <3>2. CASE p < p + k - 1
            <4>1. i < segs[p + k - 1] /\ segs[p + k - 1] \in 1..Len(t)
                BY <1>1, <1>5, <1>8, <2>1, <3>2
            <4> QED
                BY <1>2, <1>3, <4>1
        <3> QED
            BY <2>1, <3>1, <3>2
    <2> QED
        BY <2>1, <2>3
<1> DEFINE rank(k) == segs[p + k - 1] - i + 1
<1>10. ASSUME NEW k \in 1..h PROVE rank(k) \in 1..Len(r) /\ i + rank(k) - 1 = segs[p + k - 1]
    <2> DEFINE x == segs[p + k - 1]
    <2>1. x \in 1..Len(t) /\ i <= x
        BY <1>1, <1>9
    <2> HIDE DEF x
    <2>2. x - i + 1 \in 1..Len(r) /\ i + (x - i + 1) - 1 = x
        BY <1>2, <1>3, <2>1
    <2> QED
        BY <2>2 DEF x
<1>11. g \in Seq(Nat) /\ Len(g) = h /\ \A k \in 1..h : g[k] = rank(k)
    <2>1. \A k \in 1..h : rank(k) \in Nat
        BY <1>3, <1>10
    <2> HIDE DEF rank
    <2>2. [k \in 1..h |-> rank(k)] \in Seq(Nat) /\ Len([k \in 1..h |-> rank(k)]) = h
        BY <1>8, <2>1
    <2> QED
        BY <2>2 DEF rank
<1> HIDE DEF g
<1>12. InOrder(g, Starts(r))
    <2>1. \A k \in 1..h : rank(k) \in Starts(r)
        BY <1>1, <1>4, <1>9, <1>10
    <2>2. ASSUME NEW x \in Starts(r) PROVE \E k \in 1..h : rank(k) = x
        <3>1. x \in 1..Len(r) /\ i + x - 1 \in Starts(t)
            BY <1>4, <1>7
        <3>2. PICK l \in 1..s : segs[l] = i + x - 1
            BY <1>6, <3>1
        <3>3. i \in Nat /\ x \in Nat /\ i <= i + x - 1
            BY <1>2, <1>3, <3>1
        <3>4. p <= l
            <4>1. ~(l < p)
                BY <1>5, <1>8, <3>2, <3>3
            <4> QED
                BY <1>1, <1>8, <3>2, <4>1
        <3> DEFINE k == l - p + 1
        <3>5. k \in 1..h /\ p + k - 1 = l
            BY <1>1, <1>8, <3>2, <3>4
        <3>6. rank(k) = x
            BY <3>2, <3>3, <3>5
        <3> QED
            BY <3>5, <3>6
    <2>3. ASSUME NEW k \in 1..h, NEW l \in 1..h, k < l PROVE rank(k) < rank(l)
        <3>1. p + k - 1 < p + l - 1
            BY <1>8, <2>3
        <3>2. segs[p + k - 1] < segs[p + l - 1]
            BY <1>5, <1>9, <3>1
        <3>3. segs[p + k - 1] \in 1..Len(t) /\ segs[p + l - 1] \in 1..Len(t)
            BY <1>1, <1>9
        <3> DEFINE x == segs[p + k - 1]
                   y == segs[p + l - 1]
        <3> HIDE DEF x, y
        <3>4. x \in Nat /\ y \in Nat /\ i \in Nat /\ x < y
            BY <1>2, <1>3, <3>2, <3>3 DEF x, y
        <3>5. x - i + 1 < y - i + 1
            BY <3>4
        <3> QED
            BY <3>5 DEF x, y
    <2> HIDE DEF rank
    <2> QED
        BY <1>11, <2>1, <2>2, <2>3 DEF InOrder
<1>13. /\ Edit!Segments(r) \in Seq(Nat) /\ InOrder(Edit!Segments(r), Starts(r))
       /\ q \in Seq(S) /\ Len(q) = Len(Edit!Segments(r))
       /\ \A k \in 1..Len(Edit!Segments(r)) : q[k] = Edit!Folded(r[Edit!Segments(r)[k]])
    BY <1>3, NormalType DEF q, S
<1>14. Edit!Segments(r) = g
    BY <1>7, <1>11, <1>12, <1>13, OneOrder
<1>15. Len(q) = h /\ \A k \in 1..h : q[k] = n[p + k - 1]
    <2>1. Len(q) = h /\ \A k \in 1..h : q[k] = Edit!Folded(r[rank(k)])
        BY <1>11, <1>13, <1>14
    <2>2. \A k \in 1..h : r[rank(k)] = t[segs[p + k - 1]]
        BY <1>3, <1>10
    <2> HIDE DEF rank
    <2> QED
        BY <1>1, <1>9, <2>1, <2>2
<1>16. /\ SubSeq(n, p, Len(n)) \in Seq(S) /\ Len(SubSeq(n, p, Len(n))) = h
       /\ \A k \in 1..h : SubSeq(n, p, Len(n))[k] = n[p + k - 1]
    <2>1. s \in Int /\ (\A k \in p..s : n[k] \in S) /\ p <= s
        <3>1. \A k \in p..s : k \in 1..s
            BY <1>1, <1>8
        <3> QED
            BY <1>1, <1>8, <3>1, ElementOfSeq
    <2>2. /\ SubSeq(n, p, s) \in Seq(S) /\ Len(SubSeq(n, p, s)) = s - p + 1
          /\ \A k \in 1..(s - p + 1) : SubSeq(n, p, s)[k] = n[p + k - 1]
        BY <1>8, <2>1, SubSeqProperties
    <2> QED
        BY <1>1, <1>8, <2>2
<1>17. q = SubSeq(n, p, Len(n))
    BY <1>13, <1>15, <1>16, SeqEqual
<1> QED
    BY <1>2, <1>17 DEF i, q, r, n, segs

\* A copy of old is at the place i when the rest from i on starts with old.
LEMMA PlacePrefix ==
    ASSUME NEW S, NEW t \in Seq(S), NEW old \in Seq(S), old # << >>, NEW i \in 1..Len(t)
    PROVE  i \in Edit!Places(t, old) <=> Edit!IsPrefix(old, SubSeq(t, i, Len(t)))
<1> DEFINE n == Len(t)
           m == Len(old)
           r == SubSeq(t, i, n)
           here == SubSeq(t, i, i + m - 1)
           front == SubSeq(r, 1, m)
<1>1. n \in Nat /\ m \in Nat /\ m > 0
    BY LenProperties, EmptySeq
<1>2. \A k \in 1..n : t[k] \in S
    BY ElementOfSeq
<1>3. r \in Seq(S) /\ Len(r) = n - i + 1 /\ \A k \in 1..(n - i + 1) : r[k] = t[i + k - 1]
    BY <1>1, <1>2, SubSeqProperties
<1>4. SubSeq(old, 1, m) = old
    <2>1. \A k \in 1..m : old[k] \in S
        BY ElementOfSeq
    <2>2. SubSeq(old, 1, m) \in Seq(S) /\ Len(SubSeq(old, 1, m)) = m
          /\ \A k \in 1..m : SubSeq(old, 1, m)[k] = old[k]
        BY <1>1, <2>1, SubSeqProperties
    <2> QED
        BY <2>2, SeqEqual
<1>5. Edit!IsPrefix(old, r) <=> m <= n - i + 1 /\ old = front
    BY <1>3, <1>4 DEF Edit!IsPrefix
<1>6. i \in Edit!Places(t, old) <=> m <= n - i + 1 /\ here = old
    BY <1>1 DEF Edit!Places
<1>7. ASSUME m <= n - i + 1 PROVE here = front
    <2>1. i + m - 1 \in Int /\ \A k \in i..(i + m - 1) : t[k] \in S
        BY <1>1, <1>2, <1>7
    <2>2. here \in Seq(S) /\ Len(here) = m /\ \A k \in 1..m : here[k] = t[i + k - 1]
        BY <1>1, <2>1, SubSeqProperties
    <2>3. \A k \in 1..m : r[k] \in S /\ r[k] = t[i + k - 1]
        BY <1>1, <1>2, <1>3, <1>7
    <2> HIDE DEF r, here
    <2>4. front \in Seq(S) /\ Len(front) = m /\ \A k \in 1..m : front[k] = r[k]
        BY <1>1, <2>3, SubSeqProperties
    <2> QED
        BY <2>2, <2>3, <2>4, SeqEqual
<1> QED
    BY <1>5, <1>6, <1>7

LEMMA PlacesWithin ==
    ASSUME NEW S, NEW t \in Seq(S), NEW old \in Seq(S), old # << >>, NEW i \in Edit!Places(t, old)
    PROVE  i \in 1..Len(t)
<1>1. Len(t) \in Nat /\ Len(old) \in Nat /\ Len(old) > 0
    BY LenProperties, EmptySeq
<1> QED
    BY <1>1 DEF Edit!Places

LEMMA FirstPlace ==
    ASSUME NEW S, NEW t \in Seq(S), NEW old \in Seq(S), old # << >>, Edit!Places(t, old) # {}
    PROVE  LET p == Edit!Min(Edit!Places(t, old)) IN p \in Edit!Places(t, old) /\ p \in 1..Len(t)
<1> DEFINE P == Edit!Places(t, old)
<1>1. P \in SUBSET Nat
    BY DEF Edit!Places
<1>2. \E x \in P : \A y \in P : x <= y
    BY <1>1, Least
<1> HIDE DEF P
<1>3. Edit!Min(P) \in P
    BY <1>2 DEF Edit!Min
<1> QED
    BY <1>3, PlacesWithin DEF P

\* matchLines: the lines where a copy of the old text begins.
LEMMA AmbiguousLines ==
    ASSUME NEW S, NEW t \in Seq(S), NEW old \in Seq(S), old # << >>, NEW l
    PROVE  l \in Edit!MatchLines(t, old) <=>
             \E i \in {k \in DOMAIN t : Edit!LineOf(t, k) = l} : Edit!IsPrefix(old, SubSeq(t, i, Len(t)))
<1>1. DOMAIN t = 1..Len(t)
    BY LenProperties
<1>2. \A i \in 1..Len(t) : i \in Edit!Places(t, old) <=> Edit!IsPrefix(old, SubSeq(t, i, Len(t)))
    BY PlacePrefix
<1>3. \A i \in Edit!Places(t, old) : i \in 1..Len(t)
    BY PlacesWithin
<1>4. l \in Edit!MatchLines(t, old) <=> \E i \in Edit!Places(t, old) : Edit!LineOf(t, i) = l
    BY DEF Edit!MatchLines
<1> QED
    BY <1>1, <1>2, <1>3, <1>4

\* nearest: the line of a normalised copy is where the text, normalised from there
\* on, starts with the old text.
LEMMA NearestLine ==
    ASSUME Edit!Parameters, NEW t \in Seq(Edit!Characters), NEW old \in Seq(Edit!Characters),
           Edit!Nearest(t, old).kind = "normalized"
    PROVE  \E i \in {k \in DOMAIN t : Edit!LineOf(t, k) = Edit!Nearest(t, old).line} :
             Edit!IsPrefix(Edit!Normal(old), Edit!Normal(SubSeq(t, i, Len(t))))
<1> DEFINE n == Edit!Normal(t)
           m == Edit!Normal(old)
           p == Edit!Min(Edit!Places(n, m))
           segs == Edit!Segments(t)
           S == {Edit!Folded(x) : x \in Edit!Characters}
<1>1. /\ ~(Edit!Trimmed(m) < MinAnchor) /\ Edit!Places(n, m) # {}
      /\ Edit!Nearest(t, old).line = Edit!LineOf(t, segs[p])
    BY DEF Edit!Nearest, Edit!NoNear, Edit!Mapped
<1>2. m # << >>
    <2> SUFFICES ASSUME m = << >> PROVE FALSE
        OBVIOUS
    <2>1. Edit!Trimmed(<< >>) = 0
        <3>1. {k \in DOMAIN << >> : << >>[k] \notin {Blank, LF}} = {}
            OBVIOUS
        <3> QED
            BY <3>1 DEF Edit!Trimmed
    <2>2. MinAnchor \in Nat /\ 0 < MinAnchor
        BY DEF Edit!Parameters
    <2> HIDE DEF m
    <2> QED
        BY <1>1, <2>1, <2>2
<1>3. /\ n \in Seq(S) /\ m \in Seq(S) /\ Len(n) = Len(segs) /\ Len(n) \in Nat
    BY NormalType
<1> HIDE DEF n, m, S
<1>4. p \in Edit!Places(n, m) /\ p \in 1..Len(n) /\ p \in 1..Len(segs)
    BY <1>1, <1>2, <1>3, FirstPlace
<1> HIDE DEF p
<1>6. Edit!IsPrefix(m, SubSeq(n, p, Len(n)))
    BY <1>2, <1>3, <1>4, PlacePrefix
<1>7. segs[p] \in 1..Len(t) /\ Edit!Normal(SubSeq(t, segs[p], Len(t))) = SubSeq(n, p, Len(n))
    BY <1>4, NormalRest DEF n
<1>8. DOMAIN t = 1..Len(t)
    BY LenProperties
<1> HIDE DEF segs
<1> QED
    BY <1>1, <1>6, <1>7, <1>8 DEF m

ToolFields == {"at", "read", "now", "next", "applied", "failures"}
Points(c, f) ==
    LET old == c.edits[f.i].old
        starts(l) == {i \in DOMAIN f.in : Edit!LineOf(f.in, i) = l}
        rest(i) == SubSeq(f.in, i, Len(f.in))
    IN  /\ f.reason = "ambiguous" =>
             \A l \in 1..(Len(f.in) + 1) :
                 l \in f.lines <=> \E i \in starts(l) : Edit!IsPrefix(old, rest(i))
        /\ f.nearest.kind = "normalized" =>
             \E i \in starts(f.nearest.line) : Edit!IsPrefix(Edit!Normal(old), Edit!Normal(rest(i)))
ToolOk(c, j) ==
    /\ DOMAIN j = ToolFields /\ j.now \in Seq(Edit!Characters) /\ j.next \in Nat \ {0}
    /\ \A f \in j.failures : Points(c, f)
EditInv ==
    /\ text \in Seq(Edit!Characters)
    /\ DOMAIN tool = EditCalls /\ \A c \in EditCalls : ToolOk(c, tool[c])
EditSafe == part = "edit" => EditInv

\* One call takes a step, the file stays text.
LEMMA OneTool ==
    ASSUME EditInv, NEW c \in EditCalls, NEW j, ToolOk(c, j), tool' = [tool EXCEPT ![c] = j],
           text' \in Seq(Edit!Characters)
    PROVE  EditInv'
<1>1. DOMAIN tool' = EditCalls /\ \A d \in EditCalls : tool'[d] = IF d = c THEN j ELSE tool[d]
    BY DEF EditInv
<1> QED
    BY <1>1 DEF EditInv

\* A failed edit and its diagnosis.
LEMMA EditFails ==
    ASSUME EditInv, Edit!Parameters, NEW c \in EditCalls, tool[c].next \in 1..Len(c.edits),
           NEW reason, NEW lines, NEW near,
           LET old == c.edits[tool[c].next].old
           IN  /\ old \in Seq(Edit!Characters)
               /\ reason = "ambiguous" => old # << >> /\ lines = Edit!MatchLines(tool[c].now, old)
               /\ near = Edit!NoNear \/ near = Edit!Nearest(tool[c].now, old),
           tool' = [tool EXCEPT ![c].next = @ + 1, ![c].failures = @ \cup {Edit!Failure(c, reason, lines, near)}],
           UNCHANGED text
    PROVE  EditInv'
<1> DEFINE old == c.edits[tool[c].next].old
           t == tool[c].now
           f == Edit!Failure(c, reason, lines, near)
           j == [tool[c] EXCEPT !.next = tool[c].next + 1, !.failures = tool[c].failures \cup {f}]
<1>1. t \in Seq(Edit!Characters) /\ ToolOk(c, tool[c])
    BY DEF EditInv, ToolOk
<1>2. /\ f.i = tool[c].next /\ f.reason = reason /\ f.lines = lines /\ f.nearest = near /\ f.in = t
    BY DEF Edit!Failure
<1> HIDE DEF f
<1>3. reason = "ambiguous" =>
        \A l : l \in lines <=>
          \E i \in {k \in DOMAIN t : Edit!LineOf(t, k) = l} : Edit!IsPrefix(old, SubSeq(t, i, Len(t)))
    BY <1>1, AmbiguousLines
<1>4. near.kind = "normalized" =>
        \E i \in {k \in DOMAIN t : Edit!LineOf(t, k) = near.line} :
          Edit!IsPrefix(Edit!Normal(old), Edit!Normal(SubSeq(t, i, Len(t))))
    BY <1>1, NearestLine DEF Edit!NoNear
<1>5. Points(c, f)
    BY <1>2, <1>3, <1>4 DEF Points
<1>6. /\ DOMAIN j = ToolFields /\ j.now = t /\ j.next = tool[c].next + 1
      /\ j.failures = tool[c].failures \cup {f}
    BY <1>1 DEF ToolOk, ToolFields
<1>7. tool' = [tool EXCEPT ![c] = j]
    BY <1>1 DEF f, EditInv, ToolOk, ToolFields
<1> HIDE DEF j, t
<1>8. ToolOk(c, j)
    BY <1>1, <1>5, <1>6 DEF ToolOk
<1> QED
    BY <1>7, <1>8, OneTool DEF EditInv

LEMMA EditApply ==
    ASSUME EditInv, Edit!Parameters, NEW c \in EditCalls, Edit!Apply(c)
    PROVE  EditInv'
<1> DEFINE k == tool[c].next
           e == c.edits[k]
           t == tool[c].now
           first == Edit!Min(Edit!Places(t, e.old))
           more == SubSeq(t, 1, first - 1) \o e.new \o SubSeq(t, first + Len(e.old), Len(t))
           failed(reason, lines, near) ==
               tool' = [tool EXCEPT ![c].next = @ + 1,
                          ![c].failures = @ \cup {Edit!Failure(c, reason, lines, near)}]
<1>1. ToolOk(c, tool[c]) /\ t \in Seq(Edit!Characters) /\ k \in Nat \ {0}
    BY DEF EditInv, ToolOk
<1>2. k \in 1..Len(c.edits) /\ e.old \in Seq(Edit!Characters) /\ e.new \in Seq(Edit!Characters)
    <2>1. c.edits \in Seq([old : Seq(Edit!Characters), new : Seq(Edit!Characters)])
        BY DEF Edit!Parameters
    <2>2. Len(c.edits) \in Nat
        BY <2>1, LenProperties
    <2>3. k \in 1..Len(c.edits)
        <3>1. k <= Len(c.edits)
            BY DEF Edit!Apply
        <3> HIDE DEF k
        <3> QED
            BY <1>1, <2>2, <3>1
    <2>4. e \in [old : Seq(Edit!Characters), new : Seq(Edit!Characters)]
        BY <2>1, <2>3, ElementOfSeq
    <2> QED
        BY <2>3, <2>4
<1>3. UNCHANGED text
    BY DEF Edit!Apply
<1>4. CASE \/ failed("empty-oldText", {}, Edit!NoNear)
           \/ failed("identical-old-new", {}, Edit!NoNear)
           \/ failed("not-found", {}, Edit!Nearest(t, e.old))
           \/ e.old # << >> /\ failed("ambiguous", Edit!MatchLines(t, e.old), Edit!NoNear)
    <2>1. ASSUME NEW reason, NEW lines, NEW near, failed(reason, lines, near),
                 reason = "ambiguous" => e.old # << >> /\ lines = Edit!MatchLines(t, e.old),
                 near = Edit!NoNear \/ near = Edit!Nearest(t, e.old)
          PROVE  EditInv'
        BY <1>2, <1>3, <2>1, EditFails
    <2> HIDE DEF failed
    <2>2. CASE failed("empty-oldText", {}, Edit!NoNear)
        BY <2>1, <2>2
    <2>3. CASE failed("identical-old-new", {}, Edit!NoNear)
        BY <2>1, <2>3
    <2>4. CASE failed("not-found", {}, Edit!Nearest(t, e.old))
        BY <2>1, <2>4
    <2>5. CASE e.old # << >> /\ failed("ambiguous", Edit!MatchLines(t, e.old), Edit!NoNear)
        BY <2>1, <2>5
    <2> QED
        BY <1>4, <2>2, <2>3, <2>4, <2>5
<1>5. CASE /\ e.old # << >> /\ Edit!Places(t, e.old) # {}
           /\ tool' = [tool EXCEPT ![c].next = @ + 1, ![c].now = more, ![c].applied = @ \cup {k}]
    <2>1. more \in Seq(Edit!Characters)
        <3>1. first \in 1..Len(t)
            BY <1>1, <1>2, <1>5, FirstPlace
        <3>2. Len(t) \in Nat /\ Len(e.old) \in Nat
            BY <1>1, <1>2, LenProperties
        <3> HIDE DEF first, t, e
        <3>3. \A i \in 1..Len(t) : t[i] \in Edit!Characters
            BY <1>1, ElementOfSeq
        <3>4. SubSeq(t, 1, first - 1) \in Seq(Edit!Characters)
            BY <3>1, <3>2, <3>3, SubSeqProperties
        <3>5. SubSeq(t, first + Len(e.old), Len(t)) \in Seq(Edit!Characters)
            BY <3>1, <3>2, <3>3, SubSeqProperties
        <3>6. SubSeq(t, 1, first - 1) \o e.new \in Seq(Edit!Characters)
            BY <1>2, <3>4, ConcatProperties
        <3> QED
            BY <3>5, <3>6, ConcatProperties
    <2> HIDE DEF more
    <2> DEFINE j == [tool[c] EXCEPT !.next = k + 1, !.now = more, !.applied = tool[c].applied \cup {k}]
    <2>2. DOMAIN j = ToolFields /\ j.now = more /\ j.next = k + 1 /\ j.failures = tool[c].failures
        BY <1>1 DEF ToolOk, ToolFields
    <2>3. tool' = [tool EXCEPT ![c] = j]
        BY <1>1, <1>5 DEF EditInv, ToolOk, ToolFields
    <2> HIDE DEF j
    <2>4. ToolOk(c, j)
        BY <1>1, <2>1, <2>2 DEF ToolOk
    <2> QED
        BY <1>3, <2>3, <2>4, OneTool DEF EditInv
<1> QED
    BY <1>4, <1>5 DEF Edit!Apply, Edit!Diagnosed

\* Steps that leave what was diagnosed.
LEMMA OnlyPlace ==
    ASSUME EditInv, NEW c \in EditCalls, NEW l, tool' = [tool EXCEPT ![c].at = l],
           text' \in Seq(Edit!Characters)
    PROVE  EditInv'
<1> DEFINE j == [tool[c] EXCEPT !.at = l]
<1>1. ToolOk(c, tool[c])
    BY DEF EditInv
<1>2. DOMAIN j = ToolFields /\ j.now = tool[c].now /\ j.next = tool[c].next /\ j.failures = tool[c].failures
    BY <1>1 DEF ToolOk, ToolFields
<1>3. tool' = [tool EXCEPT ![c] = j]
    OBVIOUS
<1> HIDE DEF j
<1>4. ToolOk(c, j)
    BY <1>1, <1>2 DEF ToolOk
<1> QED
    BY <1>3, <1>4, OneTool

LEMMA EditOthers ==
    ASSUME EditInv, Edit!Parameters, NEW c \in EditCalls,
           Edit!Refuse(c) \/ Edit!Read(c) \/ Edit!Store(c) \/ Edit!Write(c)
    PROVE  EditInv'
<1>1. CASE Edit!Refuse(c)
    BY <1>1, OnlyPlace DEF Edit!Refuse, EditInv
<1>2. CASE Edit!Read(c)
    <2> DEFINE j == [tool[c] EXCEPT !.at = "apply", !.read = text, !.now = text]
    <2>1. ToolOk(c, tool[c]) /\ text \in Seq(Edit!Characters)
        BY DEF EditInv
    <2>2. DOMAIN j = ToolFields /\ j.now = text /\ j.next = tool[c].next /\ j.failures = tool[c].failures
        BY <2>1 DEF ToolOk, ToolFields
    <2>3. tool' = [tool EXCEPT ![c] = j] /\ UNCHANGED text
        BY <1>2 DEF Edit!Read
    <2> HIDE DEF j
    <2>4. ToolOk(c, j)
        BY <2>1, <2>2 DEF ToolOk
    <2> QED
        BY <2>1, <2>3, <2>4, OneTool
<1>3. CASE Edit!Store(c)
    <2>1. text' \in Seq(Edit!Characters)
        BY <1>3 DEF Edit!Store, EditInv, ToolOk
    <2> QED
        BY <1>3, <2>1, OnlyPlace DEF Edit!Store
<1>4. CASE Edit!Write(c)
    <2>1. text' \in Seq(Edit!Characters)
        BY <1>4 DEF Edit!Write, Edit!Parameters
    <2> QED
        BY <1>4, <2>1, OnlyPlace DEF Edit!Write
<1> QED
    BY <1>1, <1>2, <1>3, <1>4

LEMMA EditInvariance == BundleSpec => []EditSafe
<1>1. BundleInit => EditSafe
    <2> SUFFICES ASSUME Edit!Init PROVE EditInv
        BY DEF BundleInit, EditSafe
    <2>1. text \in Seq(Edit!Characters)
        BY FilesAssumption DEF Edit!Init, Edit!Parameters
    <2>2. DOMAIN tool = EditCalls
        BY DEF Edit!Init
    <2>3. ASSUME NEW c \in EditCalls PROVE ToolOk(c, tool[c])
        <3>1. tool[c] = [at |-> "idle", read |-> << >>, now |-> << >>, next |-> 1,
                         applied |-> {}, failures |-> {}]
            BY DEF Edit!Init
        <3>2. << >> \in Seq(Edit!Characters)
            BY EmptySeq
        <3> QED
            BY <3>1, <3>2 DEF ToolOk, ToolFields
    <2> QED
        BY <2>1, <2>2, <2>3 DEF EditInv
<1>2. EditSafe /\ [BundleNext]_bundleVars => EditSafe'
    <2> SUFFICES ASSUME EditSafe, [BundleNext]_bundleVars, part' = "edit" PROVE EditInv'
        BY DEF EditSafe
    <2>1. EditInv /\ (Edit!Next \/ UNCHANGED editVars)
        BY DEF EditSafe, BundleNext, bundleVars
    <2>2. CASE UNCHANGED editVars
        BY <2>1, <2>2 DEF editVars, EditInv, ToolOk
    <2>3. CASE Edit!Next
        <3>1. PICK c \in EditCalls : \/ Edit!Apply(c)
                                     \/ Edit!Refuse(c) \/ Edit!Read(c) \/ Edit!Store(c) \/ Edit!Write(c)
            BY <2>3 DEF Edit!Next
        <3> QED
            BY <2>1, <3>1, FilesAssumption, EditApply, EditOthers
    <2> QED
        BY <2>1, <2>2, <2>3
<1> QED
    BY <1>1, <1>2, PTL DEF BundleSpec, bundleVars

\* newEditDiagnoser, matchLines, nearest: for any characters and folding, any text
\* and any edits of any number of calls, an ambiguous edit is diagnosed with exactly
\* the lines where its old text begins, and a near place "normalized" with the line
\* from which on the text, normalised, goes on with the old one.
THEOREM DiagnosesPoint == BundleSpec => []DiagnosisPoints
<1>1. EditSafe => DiagnosisPoints
    BY DEF EditSafe, EditInv, ToolOk, Points, DiagnosisPoints, Edit!DiagnosisPoints
<1> QED
    BY <1>1, EditInvariance, PTL

-----------------------------------------------------------------------------
(* Skill packages.  Whoever holds packageMu is between its first look and   *)
(* its last change of the disk; whoever holds rebuildMu has collected.      *)

Threads == SkillsCalls \cup {Boot}
Package == [version : Nat, bin : BOOLEAN]
Record == [order : Nat, revision : Nat]
SkillState == [packages : [Ids -> Record \cup {Nothing}], next : Nat]
Changing == {"staged", "cleared", "swapped", "stored", "undoing", "unrecorded"}
CallPlaces == Changing \cup {"idle", "reload", "collected", "answered", "failed", "lost"}
BootPlaces == {"next", "staged", "cleared", "stored", "reload", "collected", "ready"}

\* What is on disk and in memory, and where the calls and the start are.
SkillTypes ==
    /\ dir \in [Ids -> Package \cup {Nothing}]
    /\ backups \subseteq [id : Ids, package : Package, of : Threads \cup {Nothing}]
    /\ state \in SkillState /\ draft \in [Threads -> SkillState]
    /\ skillsNew \in [Threads -> Package \cup {Nothing}]
    /\ packageMu \in Threads \cup {Nothing} /\ rebuildMu \in Threads \cup {Nothing}
    /\ DOMAIN at = Threads /\ (\A t \in SkillsCalls : at[t] \in CallPlaces) /\ at[Boot] \in BootPlaces
    /\ skillsLeft \subseteq Builtin /\ versions \in Nat
    /\ seen \in [Ids -> Record \cup {Nothing}] /\ active \in [Ids -> Record \cup {Nothing}]
    /\ DOMAIN process = Ids

\* The two locks; calls wait for the start of the device.
SkillTurns ==
    /\ \A t \in SkillsCalls : packageMu = t <=> at[t] \in Changing
    /\ at[Boot] \in Changing => packageMu = Boot
    /\ packageMu = Boot => at[Boot] \in Changing \cup {"next"}
    /\ \A t \in Threads : rebuildMu = t <=> at[t] = "collected"
    /\ at[Boot] # "ready" => /\ \A t \in SkillsCalls : at[t] \in {"idle", "lost"}
                             /\ active = Skills!None /\ process = Skills!None
    /\ at[Boot] \notin {"ready", "collected"} => seen = Skills!None
    /\ at[Boot] \in {"staged", "cleared", "stored"} => skillsLeft # {}
    /\ at[Boot] = "next" /\ packageMu # Boot => skillsLeft = Builtin
    /\ \A t \in Threads : at[t] \in {"staged", "cleared"} => skillsNew[t] # Nothing

BackedUp(i) == \E k \in backups : k.id = i

\* What a call that holds the lock has moved away.
SkillMoved == \A t \in Threads :
    /\ at[t] \in {"idle", "next", "staged"} => Skills!Mine(t) = {}
    /\ at[t] \in {"cleared", "swapped", "stored", "undoing"} =>
         \A k \in Skills!Mine(t) : k.id = Skills!Id(t)
    /\ at[t] = "cleared" => dir[Skills!Id(t)] = Nothing
    /\ at[t] \in {"swapped", "stored"} => dir[Skills!Id(t)] # Nothing
    /\ at[t] \in {"cleared", "swapped"} /\ state.packages[Skills!Id(t)] # Nothing =>
         BackedUp(Skills!Id(t))

\* What it will save: its package on record, the others as they are; the
\* start keeps the records of several packages in memory before it saves.
SkillDrafts ==
    /\ \A t \in SkillsCalls : at[t] \in {"staged", "cleared", "swapped"} =>
         draft[t] = Skills!Recorded(state, Skills!Id(t))
    /\ packageMu = Boot => \A i \in Ids : draft[Boot].packages[i] # Nothing =>
         \/ dir[i] # Nothing \/ BackedUp(i)
         \/ at[Boot] \in {"staged", "cleared"} /\ i = Skills!Id(Boot)
    /\ \A t \in SkillsCalls : at[t] = "unrecorded" => state.packages[CallId[t]] = Nothing

\* Records are numbered upwards, so that one that was replaced never comes back.
Ordered(s) == \A i \in Ids : s.packages[i] # Nothing => s.packages[i].order < s.next
Older(r, i) ==
    r # Nothing =>
        /\ r.order < state.next
        /\ state.packages[i] # Nothing /\ r.order = state.packages[i].order =>
             r.revision <= state.packages[i].revision
SkillOrder ==
    /\ Ordered(state) /\ \A t \in Threads : Ordered(draft[t])
    /\ \A i \in Ids : Older(active[i], i) /\ Older(seen[i], i)

On(i, places) == \E t \in SkillsCalls : CallId[t] = i /\ at[t] \in places
Recent == {"stored", "unrecorded", "reload", "failed"}

\* As long as no call that changed a package has its reload before it, the
\* hub knows the package as it is recorded.
SkillKnown == \A i \in Ids :
    /\ ~On(i, Recent \cup {"collected"}) => active[i] \in {Nothing, state.packages[i]}
    /\ rebuildMu # Nothing /\ ~On(i, Recent) => seen[i] \in {Nothing, state.packages[i]}
    /\ process[i] # Nothing => active[i] # Nothing

\* The process of a package that the hub knows as recorded runs what is
\* installed, or what is moved away while the installation may still fail.
SkillRuns ==
    /\ \A i \in Ids \ undone :
        active[i] = state.packages[i] /\ process[i] # Nothing /\ ~On(i, {"cleared", "swapped", "undoing"}) =>
            dir[i] # Nothing /\ process[i] = dir[i].version
    /\ \A t \in SkillsCalls :
        /\ at[t] = "undoing" => CallId[t] \in undone
        /\ LET i == CallId[t] IN
           at[t] = "cleared" /\ i \notin undone /\ process[i] # Nothing /\ active[i] = state.packages[i] =>
             /\ Skills!Mine(t) # {}
             /\ \A k \in Skills!Mine(t) : k.package.version = process[i]

SkillInv ==
    /\ SkillTypes /\ SkillTurns /\ SkillMoved /\ SkillDrafts /\ Skills!NothingDestroyed
    /\ SkillOrder /\ SkillKnown /\ SkillRuns
SkillSafe == part = "skills" => SkillInv

LEMMA SkillIds ==
    ASSUME Skills!Parameters, SkillTypes, NEW t \in Threads, t = Boot => skillsLeft # {}
    PROVE  Skills!Id(t) \in Ids
<1>1. CASE t = Boot
    BY <1>1 DEF Skills!Id, Skills!Parameters, SkillTypes
<1>2. CASE t # Boot
    BY <1>2 DEF Skills!Id, Skills!Parameters, Threads
<1> QED
    BY <1>1, <1>2

\* What a restored backup puts back is a package.
LEMMA SkillRestored ==
    ASSUME SkillTypes, NEW t, NEW i, \E k \in Skills!Mine(t) : k.id = i
    PROVE  /\ (CHOOSE k \in Skills!Mine(t) : k.id = i) \in Skills!Mine(t)
           /\ (CHOOSE k \in Skills!Mine(t) : k.id = i).package \in Package
BY DEF SkillTypes, Skills!Mine

LEMMA SkillRecorded ==
    ASSUME NEW s \in SkillState, NEW i \in Ids
    PROVE  Skills!Recorded(s, i) \in SkillState
<1>1. CASE s.packages[i] # Nothing
  <2>1. s.packages[i] \in Record
    BY <1>1 DEF SkillState
  <2> QED
    BY <1>1, <2>1 DEF Skills!Recorded, SkillState, Record
<1>2. CASE s.packages[i] = Nothing
    BY <1>2 DEF Skills!Recorded, SkillState, Record
<1> QED
    BY <1>1, <1>2

LEMMA SkillTypesStep ==
    ASSUME Skills!Parameters, SkillTypes, SkillTurns, Skills!Next
    PROVE  SkillTypes'
<1> USE DEF SkillTypes, Skills!Goto, Skills!Unlock, Skills!memory, Skills!hub, Skills!Failed,
        Skills!Threads, Threads, CallPlaces, BootPlaces, Changing
<1>1. ASSUME NEW t \in Threads, Skills!Begin(t) PROVE SkillTypes'
  <2>1. Skills!Id(t) \in Ids
    BY <1>1, SkillIds DEF Skills!Begin
  <2>2. PICK bin \in BOOLEAN :
          skillsNew' = [skillsNew EXCEPT ![t] = [version |-> versions + 1, bin |-> bin]]
    BY <1>1 DEF Skills!Begin, Skills!Preserved
  <2>3. draft' \in [Threads -> SkillState]
    <3> DEFINE s == IF t = Boot /\ packageMu = Boot THEN draft[t] ELSE state
    <3>1. s \in SkillState
      OBVIOUS
    <3>2. Skills!Recorded(s, Skills!Id(t)) \in SkillState
      BY <2>1, <3>1, SkillRecorded
    <3> QED
      BY <1>1, <3>2 DEF Skills!Begin
  <2>4. skillsNew' \in [Threads -> Package \cup {Nothing}]
    BY <2>2 DEF Package
  <2> QED
    BY <1>1, <2>3, <2>4 DEF Skills!Begin, Skills!Parameters
<1>2. ASSUME NEW t \in Threads, Skills!BeginFails(t) \/ Skills!Undo(t) \/ Skills!SwapFails(t)
      PROVE  SkillTypes'
  <2>1. dir' \in [Ids -> Package \cup {Nothing}] /\ backups' \subseteq backups
    <3>1. ASSUME NEW r \in BOOLEAN, Skills!Restore(t, r)
          PROVE  dir' \in [Ids -> Package \cup {Nothing}] /\ backups' \subseteq backups
      <4>1. CASE ~r
        BY <3>1, <4>1 DEF Skills!Restore
      <4>2. CASE r
        <5>1. dir' = [i \in Ids |-> IF \E k \in Skills!Mine(t) : k.id = i
                        THEN (CHOOSE k \in Skills!Mine(t) : k.id = i).package ELSE dir[i]]
          BY <3>1, <4>2 DEF Skills!Restore
        <5>2. backups' \subseteq backups
          BY <3>1, <4>2 DEF Skills!Restore
        <5>3. ASSUME NEW i \in Ids PROVE dir'[i] \in Package \cup {Nothing}
          <6>1. CASE \E k \in Skills!Mine(t) : k.id = i
            BY <5>1, <6>1, SkillRestored
          <6>2. CASE ~\E k \in Skills!Mine(t) : k.id = i
            BY <5>1, <6>2
          <6> QED
            BY <6>1, <6>2
        <5> QED
          BY <5>1, <5>2, <5>3
      <4> QED
        BY <4>1, <4>2
    <3>2. CASE Skills!BeginFails(t)
      BY <3>2 DEF Skills!BeginFails
    <3>3. CASE Skills!Undo(t)
      BY <3>1, <3>3 DEF Skills!Undo
    <3>4. CASE Skills!SwapFails(t)
      BY <3>1, <3>4 DEF Skills!SwapFails
    <3> QED
      BY <1>2, <3>2, <3>3, <3>4
  <2>2. UNCHANGED <<state, draft, skillsNew, skillsLeft, versions, seen, active, process, rebuildMu>>
    BY <1>2 DEF Skills!BeginFails, Skills!Undo, Skills!SwapFails
  <2>3. /\ packageMu' = Nothing
        /\ at' = [at EXCEPT ![t] = IF t = Boot THEN "reload" ELSE "answered"]
    BY <1>2 DEF Skills!BeginFails, Skills!Undo, Skills!SwapFails
  <2> QED
    BY <2>1, <2>2, <2>3 DEF Skills!Parameters
<1>3. ASSUME NEW t \in Threads, Skills!Backup(t) PROVE SkillTypes'
  <2>1. Skills!Id(t) \in Ids
    BY <1>3, SkillIds DEF Skills!Backup, SkillTurns
  <2>2. backups' \subseteq [id : Ids, package : Package, of : Threads \cup {Nothing}]
    BY <1>3, <2>1 DEF Skills!Backup
  <2> QED
    BY <1>3, <2>1, <2>2 DEF Skills!Backup, Skills!Parameters
<1>4. ASSUME NEW t \in Threads, Skills!Swap(t) \/ Skills!Save(t) \/ Skills!SaveFails(t)
      PROVE  SkillTypes'
    BY <1>4, SkillIds DEF Skills!Swap, Skills!Save, Skills!SaveFails, SkillTurns, Skills!Parameters
<1>5. ASSUME NEW t \in Threads, Skills!Clean(t) PROVE SkillTypes'
    BY <1>5 DEF Skills!Clean, Skills!Parameters
<1>6. ASSUME NEW t \in Threads, Skills!Collect(t) PROVE SkillTypes'
    BY <1>6 DEF Skills!Collect, SkillState, Skills!Parameters
<1>7. ASSUME NEW t \in Threads, Skills!Rebuild(t) \/ Skills!ReloadFails(t) PROVE SkillTypes'
    BY <1>7 DEF Skills!Rebuild, Skills!ReloadFails, Skills!Parameters
<1>8. CASE Skills!BootSaves
    BY <1>8 DEF Skills!BootSaves, Skills!Parameters
<1>9. ASSUME NEW t \in SkillsCalls, Skills!Unrecord(t) PROVE SkillTypes'
  <2>1. Skills!Id(t) \in Ids /\ t # Boot
    BY DEF Skills!Id, Skills!Parameters
  <2>2. state' \in SkillState
    <3>1. [state EXCEPT !.packages[Skills!Id(t)] = Nothing] \in SkillState
      BY <2>1 DEF SkillState
    <3> QED
      BY <1>9, <3>1 DEF Skills!Unrecord
  <2>3. /\ at' \in {[at EXCEPT ![t] = "answered"], [at EXCEPT ![t] = "unrecorded"]}
        /\ packageMu' \in {packageMu, t}
        /\ UNCHANGED <<dir, backups, skillsNew, draft, skillsLeft, rebuildMu, seen, active, process, versions>>
    BY <1>9 DEF Skills!Unrecord
  <2> QED
    BY <2>1, <2>2, <2>3
<1>10. ASSUME NEW t \in SkillsCalls, Skills!RemoveFiles(t) PROVE SkillTypes'
  <2>1. dir' \in [Ids -> Package \cup {Nothing}]
    <3>1. dir' = dir \/ dir' = [dir EXCEPT ![Skills!Id(t)] = Nothing]
      BY <1>10 DEF Skills!RemoveFiles
    <3> QED
      BY <3>1
  <2>2. /\ at' = [at EXCEPT ![t] = "reload"] /\ packageMu' = Nothing
        /\ UNCHANGED <<backups, state, draft, skillsNew, skillsLeft, rebuildMu, seen, active,
                      process, versions>>
    BY <1>10 DEF Skills!RemoveFiles
  <2> QED
    BY <2>1, <2>2
<1>11. ASSUME NEW i \in Ids, Skills!Launch(i) PROVE SkillTypes'
    BY <1>11 DEF Skills!Launch
<1>12. ASSUME NEW i \in Ids, Skills!Build(i) PROVE SkillTypes'
    BY <1>12 DEF Skills!Build, Package
<1>13. CASE Skills!Crash
    BY <1>13 DEF Skills!Crash, Skills!None, Skills!Parameters
<1> QED
    BY <1>1, <1>2, <1>3, <1>4, <1>5, <1>6, <1>7, <1>8, <1>9, <1>10, <1>11, <1>12, <1>13
    DEF Skills!Next

LEMMA SkillTurnsStep ==
    ASSUME Skills!Parameters, SkillTypes, SkillTypes', SkillTurns, Skills!Next
    PROVE  SkillTurns'
<1> USE DEF SkillTurns, SkillTypes, Skills!Goto, Skills!Unlock, Skills!memory, Skills!hub,
        Skills!Failed, Skills!Threads, Threads, CallPlaces, BootPlaces, Changing, Skills!Parameters
<1>1. ASSUME NEW t \in Threads, Skills!Begin(t) PROVE SkillTurns'
  <2>1. /\ at[t] = IF t = Boot THEN "next" ELSE "idle"
        /\ packageMu \in {Nothing, t} /\ packageMu' = t /\ at' = [at EXCEPT ![t] = "staged"]
        /\ t = Boot => skillsLeft # {}
        /\ t # Boot => at[Boot] = "ready"
        /\ UNCHANGED <<skillsLeft, rebuildMu, seen, active, process>>
    BY <1>1 DEF Skills!Begin
  <2>2. \A u \in Threads : at'[u] \in {"staged", "cleared"} => skillsNew'[u] # Nothing
    <3>1. PICK p \in Package : skillsNew' = [skillsNew EXCEPT ![t] = p]
      <4>1. PICK bin \in BOOLEAN :
              skillsNew' = [skillsNew EXCEPT ![t] = [version |-> versions + 1, bin |-> bin]]
        BY <1>1 DEF Skills!Begin, Skills!Preserved
      <4>2. [version |-> versions + 1, bin |-> bin] \in Package
        BY DEF Package
      <4> QED
        BY <4>1, <4>2
    <3>2. p # Nothing
      BY DEF Package
    <3> QED
      BY <2>1, <3>1, <3>2
  <2>3. CASE t = Boot
    BY <2>1, <2>2, <2>3
  <2>4. CASE t # Boot
    BY <2>1, <2>2, <2>4
  <2> QED
    BY <2>3, <2>4
<1>2. ASSUME NEW t \in Threads, Skills!BeginFails(t) \/ Skills!Undo(t) \/ Skills!SwapFails(t)
      PROVE  SkillTurns'
    BY <1>2 DEF Skills!BeginFails, Skills!Undo, Skills!SwapFails
<1>3. ASSUME NEW t \in Threads, Skills!Backup(t) PROVE SkillTurns'
    BY <1>3 DEF Skills!Backup
<1>4. ASSUME NEW t \in Threads, Skills!Swap(t) \/ Skills!Save(t) \/ Skills!SaveFails(t)
      PROVE  SkillTurns'
    BY <1>4 DEF Skills!Swap, Skills!Save, Skills!SaveFails
<1>5. ASSUME NEW t \in Threads, Skills!Clean(t) PROVE SkillTurns'
    BY <1>5 DEF Skills!Clean
<1>6. ASSUME NEW t \in Threads, Skills!Collect(t) PROVE SkillTurns'
    BY <1>6 DEF Skills!Collect
<1>7. ASSUME NEW t \in Threads, Skills!Rebuild(t) \/ Skills!ReloadFails(t) PROVE SkillTurns'
    BY <1>7 DEF Skills!Rebuild, Skills!ReloadFails
<1>8. CASE Skills!BootSaves
    BY <1>8 DEF Skills!BootSaves
<1>9. ASSUME NEW t \in SkillsCalls, Skills!Unrecord(t) \/ Skills!RemoveFiles(t) PROVE SkillTurns'
    BY <1>9 DEF Skills!Unrecord, Skills!RemoveFiles
<1>10. ASSUME NEW i \in Ids, Skills!Launch(i) \/ Skills!Build(i) PROVE SkillTurns'
    BY <1>10 DEF Skills!Launch, Skills!Build, Skills!None
<1>11. CASE Skills!Crash
    BY <1>11 DEF Skills!Crash
<1> QED
    BY <1>1, <1>2, <1>3, <1>4, <1>5, <1>6, <1>7, <1>8, <1>9, <1>10, <1>11 DEF Skills!Next

\* Whoever is changing the disk is alone with it.
LEMMA SkillAlone ==
    ASSUME Skills!Parameters, SkillTypes, SkillTurns, NEW t \in Threads, NEW u \in Threads,
           at[t] \in Changing, at[u] \in Changing \cup {"next"}
    PROVE  t = u
<1>1. CASE t = Boot /\ u # Boot
  <2>1. packageMu = Boot /\ at[u] \in Changing
    BY <1>1 DEF SkillTurns, SkillTypes, Threads, CallPlaces, Changing
  <2> QED
    BY <1>1, <2>1 DEF SkillTurns, Threads
<1>2. CASE t # Boot /\ u = Boot
  <2>1. packageMu = t /\ at[Boot] \in Changing
    BY <1>2 DEF SkillTurns, Threads, Changing
  <2> QED
    BY <1>2, <2>1 DEF SkillTurns, Threads
<1>3. CASE t # Boot /\ u # Boot
  <2>1. at[u] \in Changing
    BY <1>3 DEF SkillTypes, Threads, CallPlaces, Changing
  <2> QED
    BY <1>3, <2>1 DEF SkillTurns, Threads
<1> QED
    BY <1>1, <1>2, <1>3

\* Whichever way a failed swap ends, what was moved away is in its place again
\* or still moved away.
LEMMA SkillBack ==
    ASSUME SkillTypes, NEW t \in Threads, NEW r \in BOOLEAN, Skills!Restore(t, r),
           Nothing \notin Package
    PROVE  /\ \A i \in Ids : dir[i] # Nothing \/ BackedUp(i) => dir'[i] # Nothing \/ BackedUp(i)'
           /\ \A u \in Threads : u # t => Skills!Mine(u)' = Skills!Mine(u)
           /\ r => Skills!Mine(t)' = {}
           /\ ~r => UNCHANGED <<dir, backups>>
<1>1. CASE ~r
    BY <1>1 DEF Skills!Restore, BackedUp, Skills!Mine
<1>2. CASE r
  <2>1. backups' = backups \ Skills!Mine(t)
    BY <1>2 DEF Skills!Restore
  <2>2. dir' = [i \in Ids |-> IF \E k \in Skills!Mine(t) : k.id = i
                  THEN (CHOOSE k \in Skills!Mine(t) : k.id = i).package ELSE dir[i]]
    BY <1>2 DEF Skills!Restore
  <2>3. ASSUME NEW i \in Ids, dir[i] # Nothing \/ BackedUp(i)
        PROVE  dir'[i] # Nothing \/ BackedUp(i)'
    <3>1. CASE \E k \in Skills!Mine(t) : k.id = i
      BY <2>2, <3>1, SkillRestored
    <3>2. CASE ~\E k \in Skills!Mine(t) : k.id = i
      BY <2>1, <2>2, <2>3, <3>2 DEF BackedUp, Skills!Mine
    <3> QED
      BY <3>1, <3>2
  <2>4. \A u : Skills!Mine(u)' = {k \in backups' : k.of = u}
    BY DEF Skills!Mine
  <2> QED
    BY <1>2, <2>1, <2>3, <2>4 DEF Skills!Mine
<1> QED
    BY <1>1, <1>2

LEMMA SkillIdKept ==
    ASSUME skillsLeft' = skillsLeft
    PROVE  \A t : Skills!Id(t)' = Skills!Id(t)
BY DEF Skills!Id

LEMMA SkillMovedStep ==
    ASSUME Skills!Parameters, SkillTypes, SkillTypes', SkillTurns, SkillTurns', SkillMoved,
           SkillDrafts, Skills!NothingDestroyed, Skills!Next
    PROVE  SkillMoved'
<1>0. Nothing \notin Package /\ \A t \in Threads : t # Nothing
    BY DEF Skills!Parameters, Package, Threads
\* An action of one thread that leaves directories and records alone.
<1>a. ASSUME NEW t \in Threads, NEW l, at' = [at EXCEPT ![t] = l],
             l \notin {"idle", "next", "staged", "cleared", "swapped", "stored", "undoing"},
             UNCHANGED <<dir, backups, state, skillsLeft>>
      PROVE  SkillMoved'
    BY <1>a, SkillIdKept DEF SkillMoved, Skills!Mine, BackedUp, SkillTypes
<1>1. ASSUME NEW t \in Threads, Skills!Begin(t) PROVE SkillMoved'
  <2>1. /\ at[t] \in {"next", "idle"} /\ at' = [at EXCEPT ![t] = "staged"]
        /\ UNCHANGED <<dir, backups, state, skillsLeft>>
    BY <1>1 DEF Skills!Begin, Skills!Goto
  <2> QED
    BY <2>1, SkillIdKept DEF SkillMoved, Skills!Mine, BackedUp, SkillTypes
<1>2. ASSUME NEW t \in Threads, Skills!BeginFails(t) PROVE SkillMoved'
  <2> DEFINE l == IF t = Boot THEN "reload" ELSE "answered"
  <2>1. at' = [at EXCEPT ![t] = l] /\ UNCHANGED <<dir, backups, state, skillsLeft>>
    BY <1>2 DEF Skills!BeginFails, Skills!Failed, Skills!Goto, Skills!memory
  <2>2. l \notin {"idle", "next", "staged", "cleared", "swapped", "stored", "undoing"}
    OBVIOUS
  <2> HIDE DEF l
  <2> QED
    BY <2>1, <2>2, <1>a
<1>3. ASSUME NEW t \in Threads, Skills!Undo(t) \/ Skills!SwapFails(t) PROVE SkillMoved'
  <2>1. PICK r \in BOOLEAN : Skills!Restore(t, r)
    BY <1>3 DEF Skills!Undo, Skills!SwapFails
  <2>2. /\ at[t] \in Changing /\ at' = [at EXCEPT ![t] = IF t = Boot THEN "reload" ELSE "answered"]
        /\ UNCHANGED <<state, skillsLeft>>
    BY <1>3 DEF Skills!Undo, Skills!SwapFails, Skills!Failed, Skills!Goto, Skills!memory, Changing
  <2>3. \A u \in Threads : u # t => at[u] \notin Changing /\ at'[u] = at[u]
    BY <2>2, SkillAlone DEF SkillTypes
  <2>4. \A u \in Threads : u # t => Skills!Mine(u)' = Skills!Mine(u)
    BY <1>0, <2>1, SkillBack
  <2>5. at'[t] \in {"reload", "answered"}
    BY <2>2 DEF SkillTypes
  <2> QED
    BY <2>3, <2>4, <2>5 DEF SkillMoved, Changing
<1>4. ASSUME NEW t \in Threads, Skills!Backup(t) PROVE SkillMoved'
  <2> DEFINE i == Skills!Id(t)
  <2>1. /\ at[t] = "staged" /\ at' = [at EXCEPT ![t] = "cleared"]
        /\ dir' = [dir EXCEPT ![i] = Nothing]
        /\ backups' = backups \cup {[id |-> j, package |-> dir[j], of |-> t] : j \in {i} \ {j \in Ids : dir[j] = Nothing}}
        /\ UNCHANGED <<state, skillsLeft>>
    BY <1>4 DEF Skills!Backup, Skills!Goto, Skills!memory
  <2>2. i \in Ids
    BY <2>1, SkillIds DEF SkillTurns
  <2> HIDE DEF i
  <2>3. \A u \in Threads : u # t => at[u] \notin Changing \cup {"next"} /\ at'[u] = at[u]
    BY <2>1, SkillAlone DEF SkillTypes, Changing
  <2>4. \A u \in Threads : Skills!Mine(u)' = {k \in backups' : k.of = u}
    BY DEF Skills!Mine
  <2>5. \A u \in Threads : u # t => Skills!Mine(u)' = Skills!Mine(u)
    BY <2>1, <2>4 DEF Skills!Mine
  <2>6. Skills!Id(t)' = i
    BY <2>1, SkillIdKept DEF i
  <2>7. \A k \in Skills!Mine(t)' : k.id = i
    BY <2>1, <2>4 DEF SkillMoved, Skills!Mine
  <2>8. at'[t] = "cleared" /\ dir'[i] = Nothing
    BY <2>1, <2>2 DEF SkillTypes
  <2>9. state'.packages[i] # Nothing => \E k \in backups' : k.id = i
    <3>1. CASE dir[i] = Nothing
      BY <2>1, <2>2, <3>1 DEF Skills!NothingDestroyed
    <3>2. CASE dir[i] # Nothing
      <4>1. [id |-> i, package |-> dir[i], of |-> t] \in backups'
        BY <2>1, <2>2, <3>2
      <4> QED
        BY <4>1
    <3> QED
      BY <3>1, <3>2
  <2>10. \A u \in Threads : u # t => (at'[u] \in {"idle", "next", "staged"} => Skills!Mine(u)' = {})
    BY <2>3, <2>5 DEF SkillMoved
  <2> QED
    BY <2>3, <2>6, <2>7, <2>8, <2>9, <2>10 DEF SkillMoved, Changing, BackedUp
<1>5. ASSUME NEW t \in Threads, Skills!Swap(t) \/ Skills!SaveFails(t) PROVE SkillMoved'
  <2> DEFINE i == Skills!Id(t)
  <2>1. /\ at[t] \in {"cleared", "swapped"} /\ UNCHANGED <<state, skillsLeft, backups>>
        /\ \/ /\ at' = [at EXCEPT ![t] = IF t = Boot THEN "stored" ELSE "swapped"]
              /\ dir' = [dir EXCEPT ![i] = skillsNew[t]] /\ at[t] = "cleared"
           \/ at' = [at EXCEPT ![t] = "undoing"]
    BY <1>5 DEF Skills!Swap, Skills!SaveFails, Skills!Goto, Skills!memory
  <2>2. i \in Ids
    BY <2>1, SkillIds DEF SkillTurns, SkillTypes, BootPlaces
  <2>3. \A u : Skills!Id(u)' = Skills!Id(u) /\ Skills!Mine(u)' = Skills!Mine(u)
    BY <2>1, SkillIdKept DEF Skills!Mine
  <2> HIDE DEF i
  <2>4. \A u \in Threads : u # t => at[u] \notin Changing \cup {"next"} /\ at'[u] = at[u]
    BY <2>1, SkillAlone DEF SkillTypes, Changing
  <2>5. at'[t] \in {"stored", "swapped"} => dir'[i] # Nothing
    BY <2>1, <2>2 DEF SkillTypes, SkillTurns
  <2>6. at'[t] \in {"stored", "swapped", "undoing"}
    BY <2>1 DEF SkillTypes
  <2>7. at'[t] = "swapped" => at[t] = "cleared"
    BY <2>1 DEF SkillTypes
  <2>8. state'.packages = state.packages /\ (BackedUp(i) => \E k \in backups' : k.id = i)
    BY <2>1 DEF BackedUp
  <2> QED
    BY <2>1, <2>3, <2>4, <2>5, <2>6, <2>7, <2>8 DEF SkillMoved, Changing, BackedUp, i
<1>6. ASSUME NEW t \in Threads, Skills!Save(t) PROVE SkillMoved'
  <2>1. at[t] = "swapped" /\ at' = [at EXCEPT ![t] = "stored"] /\ UNCHANGED <<dir, skillsLeft, backups>>
    BY <1>6 DEF Skills!Save, Skills!Goto, Skills!memory
  <2>2. \A u : Skills!Id(u)' = Skills!Id(u) /\ Skills!Mine(u)' = Skills!Mine(u)
    BY <2>1, SkillIdKept DEF Skills!Mine
  <2>3. \A u \in Threads : u # t => at[u] \notin Changing \cup {"next"} /\ at'[u] = at[u]
    BY <2>1, SkillAlone DEF SkillTypes, Changing
  <2>4. at'[t] = "stored"
    BY <2>1 DEF SkillTypes
  <2> QED
    BY <2>1, <2>2, <2>3, <2>4 DEF SkillMoved, Changing
<1>7. ASSUME NEW t \in Threads, Skills!Clean(t) PROVE SkillMoved'
  <2>1. /\ at[t] = "stored" /\ at' = [at EXCEPT ![t] = IF t = Boot THEN "next" ELSE "reload"]
        /\ backups' = backups \ Skills!Mine(t)
    BY <1>7 DEF Skills!Clean, Skills!Goto
  <2>2. \A u \in Threads : u # t => at[u] \notin Changing \cup {"next"} /\ at'[u] = at[u]
    BY <2>1, SkillAlone DEF SkillTypes, Changing
  <2>3. at'[t] \in {"next", "reload"}
    BY <2>1 DEF SkillTypes
  <2>4. \A u \in Threads : Skills!Mine(u)' = {k \in backups' : k.of = u}
    BY DEF Skills!Mine
  <2>5. Skills!Mine(t)' = {} /\ \A u \in Threads : u # t => Skills!Mine(u)' = Skills!Mine(u)
    BY <2>1, <2>4 DEF Skills!Mine
  <2> QED
    BY <2>2, <2>3, <2>5 DEF SkillMoved, Changing
<1>8. ASSUME NEW t \in Threads, Skills!Collect(t) \/ Skills!Rebuild(t) \/ Skills!ReloadFails(t)
      PROVE  SkillMoved'
    BY <1>8, <1>a DEF Skills!Collect, Skills!Rebuild, Skills!ReloadFails, Skills!Goto, Skills!memory
<1>9. CASE Skills!BootSaves
  <2>1. at' = [at EXCEPT ![Boot] = "reload"] /\ at[Boot] = "next" /\ UNCHANGED backups
    BY <1>9 DEF Skills!BootSaves, Skills!Goto
  <2>2. \A t \in SkillsCalls : at'[t] \in {"idle", "lost"} /\ at'[t] = at[t]
    BY <2>1 DEF SkillTurns, SkillTypes, Skills!Parameters
  <2>3. at'[Boot] = "reload"
    BY <2>1 DEF SkillTypes, Threads
  <2>4. \A t : Skills!Mine(t)' = Skills!Mine(t)
    BY <2>1 DEF Skills!Mine
  <2> QED
    BY <2>2, <2>3, <2>4 DEF SkillMoved, Threads
<1>10. ASSUME NEW t \in SkillsCalls, Skills!Unrecord(t) \/ Skills!RemoveFiles(t) PROVE SkillMoved'
  <2>1. /\ \/ at' = [at EXCEPT ![t] = "answered"]
           \/ at' = [at EXCEPT ![t] = "unrecorded"]
           \/ at' = [at EXCEPT ![t] = "reload"]
        /\ at[t] = "unrecorded" \/ (packageMu = Nothing /\ at[Boot] = "ready")
        /\ UNCHANGED backups
    <3>1. CASE Skills!Unrecord(t)
      BY <3>1 DEF Skills!Unrecord, Skills!Goto
    <3>2. CASE Skills!RemoveFiles(t)
      BY <3>2 DEF Skills!RemoveFiles, Skills!Goto
    <3> QED
      BY <1>10, <3>1, <3>2
  <2>2. \A u \in Threads : u # t => at[u] \notin Changing \cup {"next"} /\ at'[u] = at[u]
    <3>1. CASE at[t] = "unrecorded"
      BY <2>1, <3>1, SkillAlone DEF SkillTypes, Changing, Threads
    <3>2. CASE packageMu = Nothing /\ at[Boot] = "ready"
      BY <1>0, <2>1, <3>2 DEF SkillTypes, SkillTurns, Threads, CallPlaces, Changing
    <3> QED
      BY <2>1, <3>1, <3>2
  <2>3. at'[t] \in {"answered", "unrecorded", "reload"}
    BY <2>1 DEF SkillTypes, Threads
  <2>4. \A u : Skills!Mine(u)' = Skills!Mine(u)
    BY <2>1 DEF Skills!Mine
  <2> QED
    BY <2>2, <2>3, <2>4 DEF SkillMoved, Changing
<1>11. ASSUME NEW i \in Ids, Skills!Launch(i) \/ Skills!Build(i) PROVE SkillMoved'
  <2>1. UNCHANGED <<at, backups, state, skillsLeft>>
    BY <1>11 DEF Skills!Launch, Skills!Build, Skills!memory
  <2>2. \A j \in Ids : dir'[j] = Nothing <=> dir[j] = Nothing
    <3>1. CASE Skills!Launch(i)
      BY <3>1 DEF Skills!Launch
    <3>2. CASE Skills!Build(i)
      <4>1. dir[i] \in Package /\ dir' = [dir EXCEPT ![i].bin = TRUE]
        BY <3>2 DEF Skills!Build, SkillTypes
      <4>2. [dir[i] EXCEPT !.bin = TRUE] \in Package
        BY <4>1 DEF Package
      <4> QED
        BY <1>0, <4>1, <4>2 DEF SkillTypes
    <3> QED
      BY <1>11, <3>1, <3>2
  <2>3. \A t \in Threads : at[t] \in {"cleared", "swapped", "stored"} => Skills!Id(t) \in Ids
    BY SkillIds DEF SkillTurns, SkillTypes, BootPlaces
  <2> QED
    BY <2>1, <2>2, <2>3, SkillIdKept DEF SkillMoved, Skills!Mine, BackedUp
<1>12. CASE Skills!Crash
  <2>1. \A t \in Threads : at'[t] \in {"next", "idle", "lost"}
    BY <1>12 DEF Skills!Crash, Skills!Threads, Threads
  <2>2. \A k \in backups' : k.of = Nothing
    BY <1>12 DEF Skills!Crash, SkillTypes
  <2>3. \A t \in Threads : Skills!Mine(t)' = {}
    BY <1>0, <2>2 DEF Skills!Mine
  <2> QED
    BY <2>1, <2>3 DEF SkillMoved
<1> QED
    BY <1>1, <1>2, <1>3, <1>4, <1>5, <1>6, <1>7, <1>8, <1>9, <1>10, <1>11, <1>12
    DEF Skills!Next, Skills!Threads, Threads

\* The step of NothingDestroyed.
LEMMA SkillKeptStep ==
    ASSUME Skills!Parameters, SkillTypes, SkillTypes', SkillTurns, SkillMoved, SkillDrafts,
           Skills!NothingDestroyed, Skills!Next
    PROVE  Skills!NothingDestroyed'
<1> DEFINE Kept(i) == dir[i] # Nothing \/ BackedUp(i)
<1>0. /\ Nothing \notin Package
      /\ Skills!NothingDestroyed <=> \A i \in Ids : state.packages[i] # Nothing => Kept(i)
      /\ Skills!NothingDestroyed' <=> \A i \in Ids : state'.packages[i] # Nothing => Kept(i)'
    BY DEF Skills!Parameters, Package, Skills!NothingDestroyed, BackedUp
<1>a. ASSUME UNCHANGED <<dir, backups, state>> PROVE Skills!NothingDestroyed'
    BY <1>a DEF Skills!NothingDestroyed
<1>b. ASSUME UNCHANGED state, \A i \in Ids : Kept(i) => Kept(i)' PROVE Skills!NothingDestroyed'
    BY <1>0, <1>b
<1>1. ASSUME NEW t \in Threads,
             Skills!Begin(t) \/ Skills!BeginFails(t) \/ Skills!Collect(t) \/ Skills!Rebuild(t)
             \/ Skills!ReloadFails(t)
      PROVE  Skills!NothingDestroyed'
    BY <1>1, <1>a DEF Skills!Begin, Skills!BeginFails, Skills!Collect, Skills!Rebuild, Skills!ReloadFails
<1>2. ASSUME NEW t \in Threads, Skills!Undo(t) \/ Skills!SwapFails(t)
      PROVE  Skills!NothingDestroyed'
  <2>1. PICK r \in BOOLEAN : Skills!Restore(t, r)
    BY <1>2 DEF Skills!Undo, Skills!SwapFails
  <2>2. UNCHANGED state
    BY <1>2 DEF Skills!Undo, Skills!SwapFails
  <2> QED
    BY <1>0, <1>b, <2>1, <2>2, SkillBack
<1>3. ASSUME NEW t \in Threads, Skills!Backup(t) PROVE Skills!NothingDestroyed'
  <2> DEFINE i == Skills!Id(t)
  <2>1. /\ at[t] = "staged" /\ dir' = [dir EXCEPT ![i] = Nothing] /\ UNCHANGED state
        /\ backups' = backups \cup {[id |-> j, package |-> dir[j], of |-> t] : j \in {i} \ {j \in Ids : dir[j] = Nothing}}
    BY <1>3 DEF Skills!Backup
  <2>2. i \in Ids
    BY <2>1, SkillIds DEF SkillTurns
  <2> HIDE DEF i
  <2>3. ASSUME NEW j \in Ids, Kept(j) PROVE Kept(j)'
    <3>1. CASE BackedUp(j) \/ j # i
      BY <2>1, <2>3, <3>1 DEF BackedUp, SkillTypes
    <3>2. CASE j = i /\ dir[i] # Nothing
      <4>1. [id |-> i, package |-> dir[i], of |-> t] \in backups'
        BY <2>1, <2>2, <3>2
      <4> QED
        BY <3>2, <4>1 DEF BackedUp
    <3> QED
      BY <2>3, <3>1, <3>2
  <2> QED
    BY <1>b, <2>1, <2>3
<1>4. ASSUME NEW t \in Threads, Skills!Swap(t) PROVE Skills!NothingDestroyed'
  <2>1. Skills!Id(t) \in Ids /\ skillsNew[t] # Nothing
    BY <1>4, SkillIds DEF Skills!Swap, SkillTurns
  <2> QED
    BY <1>4, <1>b, <2>1 DEF Skills!Swap, BackedUp, SkillTypes
<1>5. ASSUME NEW t \in Threads, Skills!SaveFails(t) PROVE Skills!NothingDestroyed'
  <2> DEFINE i == Skills!Id(t)
  <2>1. /\ dir' = [dir EXCEPT ![i] = Nothing] /\ UNCHANGED <<state, backups>>
        /\ state.packages[i] # Nothing => BackedUp(i)
    BY <1>5 DEF Skills!SaveFails, SkillMoved
  <2> HIDE DEF i
  <2> QED
    BY <1>0, <2>1 DEF BackedUp, SkillTypes
<1>6. ASSUME NEW t \in Threads, Skills!Save(t) PROVE Skills!NothingDestroyed'
  <2> DEFINE i == Skills!Id(t)
  <2>1. t \in SkillsCalls /\ at[t] = "swapped"
    BY <1>6 DEF Skills!Save, Threads, SkillTypes, BootPlaces
  <2>2. i \in Ids /\ state' = Skills!Recorded(state, i) /\ UNCHANGED <<dir, backups>> /\ dir[i] # Nothing
    BY <1>6, <2>1, SkillIds DEF Skills!Save, SkillDrafts, SkillMoved, SkillTypes, Skills!Parameters
  <2> HIDE DEF i
  <2>3. \A j \in Ids : j # i => state'.packages[j] = state.packages[j]
    BY <2>2 DEF Skills!Recorded, SkillTypes, SkillState
  <2> QED
    BY <1>0, <2>2, <2>3 DEF BackedUp
<1>7. ASSUME NEW t \in Threads, Skills!Clean(t) PROVE Skills!NothingDestroyed'
  <2>1. /\ UNCHANGED <<dir, state>> /\ backups' = backups \ Skills!Mine(t)
        /\ dir[Skills!Id(t)] # Nothing /\ \A k \in Skills!Mine(t) : k.id = Skills!Id(t)
    BY <1>7 DEF Skills!Clean, SkillMoved
  <2> QED
    BY <1>b, <2>1 DEF BackedUp
<1>8. CASE Skills!BootSaves
  <2>1. at[Boot] = "next" /\ packageMu = Boot
    BY <1>8 DEF Skills!BootSaves, SkillTurns, Skills!Parameters
  <2>2. state' \in {state, draft[Boot]} /\ UNCHANGED <<dir, backups>>
    BY <1>8 DEF Skills!BootSaves
  <2>3. \A i \in Ids : draft[Boot].packages[i] # Nothing => Kept(i)
    BY <2>1 DEF SkillDrafts
  <2> QED
    BY <1>0, <2>2, <2>3 DEF BackedUp
<1>9. ASSUME NEW t \in SkillsCalls, Skills!Unrecord(t) PROVE Skills!NothingDestroyed'
  <2>1. UNCHANGED <<dir, backups>> /\ \A i \in Ids : state'.packages[i] # Nothing => state.packages[i] # Nothing
    BY <1>9 DEF Skills!Unrecord, SkillTypes, SkillState
  <2> QED
    BY <1>0, <2>1 DEF BackedUp
<1>10. ASSUME NEW t \in SkillsCalls, Skills!RemoveFiles(t) PROVE Skills!NothingDestroyed'
  <2>1. /\ Skills!Id(t) = CallId[t] /\ state.packages[CallId[t]] = Nothing /\ UNCHANGED <<state, backups>>
        /\ dir' \in {dir, [dir EXCEPT ![CallId[t]] = Nothing]}
    BY <1>10 DEF Skills!RemoveFiles, SkillDrafts, Skills!Id, Skills!Parameters
  <2> QED
    BY <1>0, <2>1 DEF BackedUp, SkillTypes
<1>11. ASSUME NEW i \in Ids, Skills!Launch(i) PROVE Skills!NothingDestroyed'
    BY <1>11, <1>a DEF Skills!Launch
<1>12. ASSUME NEW i \in Ids, Skills!Build(i) PROVE Skills!NothingDestroyed'
  <2>1. /\ dir[i] \in Package /\ dir' = [dir EXCEPT ![i] = [dir[i] EXCEPT !.bin = TRUE]]
        /\ UNCHANGED <<state, backups>>
    BY <1>12 DEF Skills!Build, SkillTypes
  <2>2. [dir[i] EXCEPT !.bin = TRUE] \in Package
    BY <2>1 DEF Package
  <2> QED
    BY <1>0, <1>b, <2>1, <2>2 DEF SkillTypes, BackedUp
<1>13. CASE Skills!Crash
  <2>1. UNCHANGED <<dir, state>> /\ backups' = {[k EXCEPT !.of = Nothing] : k \in backups}
    BY <1>13 DEF Skills!Crash
  <2>2. \A k \in backups : [k EXCEPT !.of = Nothing].id = k.id
    BY DEF SkillTypes
  <2> QED
    BY <1>b, <2>1, <2>2 DEF BackedUp
<1> QED
    BY <1>1, <1>2, <1>3, <1>4, <1>5, <1>6, <1>7, <1>8, <1>9, <1>10, <1>11, <1>12, <1>13
    DEF Skills!Next, Skills!Threads, Threads

LEMMA SkillRecordedOrdered ==
    ASSUME NEW s \in SkillState, NEW i \in Ids, Ordered(s), Nothing \notin Record
    PROVE  Ordered(Skills!Recorded(s, i))
<1>1. CASE s.packages[i] # Nothing
  <2>1. s.packages[i] \in Record
    BY <1>1 DEF SkillState
  <2> QED
    BY <1>1, <2>1 DEF Skills!Recorded, SkillState, Record, Ordered
<1>2. CASE s.packages[i] = Nothing
  <2>1. Skills!Recorded(s, i) = [packages |-> [s.packages EXCEPT ![i] = [order |-> s.next, revision |-> 1]],
                                 next |-> s.next + 1]
    BY <1>2 DEF Skills!Recorded
  <2>2. \A j \in Ids : s.packages[j] # Nothing => s.packages[j].order \in Nat
    BY DEF SkillState, Record
  <2> QED
    BY <2>1, <2>2 DEF SkillState, Ordered
<1> QED
    BY <1>1, <1>2

\* Whoever saves numbers its record so that no earlier one of the package is
\* like it.
LEMMA SkillNewer ==
    ASSUME SkillTypes, NEW i \in Ids, Ordered(state), Nothing \notin Record,
           state' = Skills!Recorded(state, i)
    PROVE  /\ state'.packages[i] # Nothing
           /\ \A j \in Ids : j # i => state'.packages[j] = state.packages[j]
           /\ \A j \in Ids, r \in Record \cup {Nothing} :
                r # Nothing /\ Older(r, j) =>
                  /\ r.order < state'.next
                  /\ state'.packages[j] # Nothing /\ r.order = state'.packages[j].order =>
                       /\ r.revision <= state'.packages[j].revision
                       /\ j = i => r.revision < state'.packages[j].revision
<1>1. CASE state.packages[i] # Nothing
  <2> DEFINE p == state.packages[i]
  <2>1. p \in Record
    BY <1>1 DEF SkillTypes, SkillState
  <2>2. /\ state'.next = state.next
        /\ state'.packages = [state.packages EXCEPT ![i] = [p EXCEPT !.revision = @ + 1]]
    BY <1>1 DEF Skills!Recorded, SkillTypes, SkillState
  <2>3. state'.packages[i] = [p EXCEPT !.revision = @ + 1]
    BY <2>2 DEF SkillTypes, SkillState
  <2>4. state'.packages[i].order = p.order /\ state'.packages[i].revision = p.revision + 1
    BY <2>1, <2>3 DEF Record
  <2>5. [p EXCEPT !.revision = @ + 1] \in Record
    BY <2>1 DEF Record
  <2>6. \A j \in Ids : j # i => state'.packages[j] = state.packages[j]
    BY <2>2 DEF SkillTypes, SkillState
  <2> HIDE DEF p
  <2>7. ASSUME NEW j \in Ids, NEW r \in Record, Older(r, j)
        PROVE  /\ r.order < state'.next
               /\ state'.packages[j] # Nothing /\ r.order = state'.packages[j].order =>
                    /\ r.revision <= state'.packages[j].revision
                    /\ j = i => r.revision < state'.packages[j].revision
    <3>1. CASE j = i
      BY <1>1, <2>1, <2>2, <2>4, <2>7, <3>1 DEF Older, Record, p
    <3>2. CASE j # i
      BY <2>2, <2>6, <2>7, <3>2 DEF Older
    <3> QED
      BY <3>1, <3>2
  <2> QED
    BY <2>3, <2>5, <2>6, <2>7
<1>2. CASE state.packages[i] = Nothing
  <2>1. /\ state'.next = state.next + 1
        /\ state'.packages = [state.packages EXCEPT ![i] = [order |-> state.next, revision |-> 1]]
    BY <1>2 DEF Skills!Recorded
  <2>2. state'.packages[i] = [order |-> state.next, revision |-> 1] /\ state.next \in Nat
    BY <2>1 DEF SkillTypes, SkillState
  <2>3. [order |-> state.next, revision |-> 1] \in Record
    BY <2>2 DEF Record
  <2>4. \A j \in Ids : j # i => state'.packages[j] = state.packages[j]
    BY <2>1 DEF SkillTypes, SkillState
  <2>5. ASSUME NEW j \in Ids, NEW r \in Record, Older(r, j)
        PROVE  /\ r.order < state'.next
               /\ state'.packages[j] # Nothing /\ r.order = state'.packages[j].order =>
                    /\ r.revision <= state'.packages[j].revision
                    /\ j = i => r.revision < state'.packages[j].revision
    <3>1. r.order \in Nat /\ r.order < state.next
      BY <2>5 DEF Older, Record
    <3>2. r.order < state'.next
      BY <2>1, <2>2, <3>1
    <3>3. CASE j = i
      BY <2>2, <3>1, <3>2, <3>3
    <3>4. CASE j # i
      BY <2>4, <2>5, <3>2, <3>4 DEF Older
    <3> QED
      BY <3>3, <3>4
  <2> QED
    BY <2>2, <2>3, <2>4, <2>5
<1> QED
    BY <1>1, <1>2

LEMMA SkillOrderStep ==
    ASSUME Skills!Parameters, SkillTypes, SkillTypes', SkillTurns, SkillDrafts, SkillOrder,
           Skills!Next
    PROVE  SkillOrder'
<1>0. /\ Nothing \notin Record /\ Boot \in Threads /\ SkillsCalls \subseteq Threads
      /\ SkillOrder' <=> /\ Ordered(state') /\ \A t \in Threads : Ordered(draft'[t])
                         /\ \A i \in Ids : Older(active[i], i)' /\ Older(seen[i], i)'
    BY DEF Skills!Parameters, Record, Threads, SkillOrder, Ordered
\* Records and what the hub knows stay as they are.
<1>a. ASSUME UNCHANGED <<state, active, seen>>, \A t \in Threads : Ordered(draft'[t])
      PROVE  SkillOrder'
    BY <1>0, <1>a DEF SkillOrder, Older
<1>b. ASSUME UNCHANGED <<state, active, seen, draft>> PROVE SkillOrder'
    BY <1>a, <1>b DEF SkillOrder
<1>1. ASSUME NEW t \in Threads, Skills!Begin(t) PROVE SkillOrder'
  <2> DEFINE s == IF t = Boot /\ packageMu = Boot THEN draft[t] ELSE state
             d == Skills!Recorded(s, Skills!Id(t))
  <2>1. draft' = [draft EXCEPT ![t] = d] /\ UNCHANGED <<state, active, seen>> /\ (t = Boot => skillsLeft # {})
    BY <1>1 DEF Skills!Begin, Skills!hub
  <2>2. s \in SkillState /\ Ordered(s) /\ Skills!Id(t) \in Ids
    BY <2>1, SkillIds DEF SkillTypes, SkillOrder
  <2> HIDE DEF s
  <2>3. Ordered(d)
    BY <1>0, <2>2, SkillRecordedOrdered
  <2> HIDE DEF d
  <2>4. \A u \in Threads : Ordered(draft'[u])
    BY <2>1, <2>3 DEF SkillOrder, SkillTypes
  <2> QED
    BY <1>a, <2>1, <2>4
<1>2. ASSUME NEW t \in Threads,
             \/ Skills!BeginFails(t) \/ Skills!Undo(t) \/ Skills!SwapFails(t) \/ Skills!Backup(t)
             \/ Skills!Swap(t) \/ Skills!SaveFails(t) \/ Skills!Clean(t) \/ Skills!ReloadFails(t)
      PROVE  SkillOrder'
    BY <1>2, <1>b DEF Skills!BeginFails, Skills!Undo, Skills!SwapFails, Skills!Backup, Skills!Swap,
        Skills!SaveFails, Skills!Clean, Skills!ReloadFails, Skills!memory, Skills!hub
<1>3. ASSUME NEW t \in Threads, Skills!Save(t) PROVE SkillOrder'
  <2>1. t \in SkillsCalls /\ at[t] = "swapped"
    BY <1>3 DEF Skills!Save, Threads, SkillTypes, BootPlaces
  <2>2. /\ Skills!Id(t) \in Ids /\ state' = Skills!Recorded(state, Skills!Id(t))
        /\ UNCHANGED <<draft, active, seen>>
    BY <1>3, <2>1, SkillIds
    DEF Skills!Save, SkillDrafts, Skills!Parameters, Skills!memory, Skills!hub, Threads
  <2>3. Ordered(state) /\ Ordered(state')
    BY <1>0, <2>2, SkillRecordedOrdered DEF SkillOrder, SkillTypes
  <2>4. \A i \in Ids : Older(active[i], i)' /\ Older(seen[i], i)'
    BY <1>0, <2>2, <2>3, SkillNewer DEF SkillOrder, Older, SkillTypes
  <2> QED
    BY <1>0, <2>2, <2>3, <2>4 DEF SkillOrder
<1>4. ASSUME NEW t \in Threads, Skills!Collect(t) PROVE SkillOrder'
  <2>1. /\ seen' = [i \in Ids |-> IF dir[i] = Nothing THEN Nothing ELSE state.packages[i]]
        /\ UNCHANGED <<state, draft, active>>
    BY <1>4 DEF Skills!Collect, Skills!memory
  <2>2. \A i \in Ids : Older(seen[i], i)'
    BY <2>1 DEF Older, SkillOrder, Ordered, SkillTypes, SkillState, Record
  <2> QED
    BY <1>0, <2>1, <2>2 DEF SkillOrder, Older
<1>5. ASSUME NEW t \in Threads, Skills!Rebuild(t) PROVE SkillOrder'
    BY <1>0, <1>5 DEF Skills!Rebuild, Skills!memory, SkillOrder, Older
<1>6. CASE Skills!BootSaves
  <2>1. at[Boot] = "next" /\ state' \in {state, draft[Boot]} /\ UNCHANGED <<draft, active, seen>>
    BY <1>6 DEF Skills!BootSaves, Skills!memory, Skills!hub
  <2>2. \A i \in Ids : active[i] = Nothing /\ seen[i] = Nothing
    BY <2>1 DEF SkillTurns, Skills!None
  <2>3. Ordered(state')
    BY <1>0, <2>1 DEF SkillOrder
  <2> QED
    BY <1>0, <2>1, <2>2, <2>3 DEF SkillOrder, Older
<1>7. ASSUME NEW t \in SkillsCalls, Skills!Unrecord(t) PROVE SkillOrder'
  <2>1. /\ state'.next = state.next /\ UNCHANGED <<draft, active, seen>>
        /\ \A i \in Ids : state'.packages[i] \in {Nothing, state.packages[i]}
    BY <1>7 DEF Skills!Unrecord, SkillTypes, SkillState, Skills!memory, Skills!hub
  <2>2. Ordered(state')
    BY <2>1 DEF SkillOrder, Ordered
  <2> QED
    BY <1>0, <2>1, <2>2 DEF SkillOrder, Older
<1>8. ASSUME NEW t \in SkillsCalls, Skills!RemoveFiles(t) PROVE SkillOrder'
    BY <1>8, <1>b DEF Skills!RemoveFiles, Skills!memory, Skills!hub
<1>9. ASSUME NEW i \in Ids, Skills!Launch(i) \/ Skills!Build(i) PROVE SkillOrder'
    BY <1>9, <1>b DEF Skills!Launch, Skills!Build, Skills!memory, Skills!hub
<1>10. CASE Skills!Crash
  <2>1. UNCHANGED <<state, draft>> /\ \A i \in Ids : active'[i] = Nothing /\ seen'[i] = Nothing
    BY <1>10 DEF Skills!Crash, Skills!None
  <2> QED
    BY <1>0, <2>1 DEF SkillOrder, Older
<1> QED
    BY <1>1, <1>2, <1>3, <1>4, <1>5, <1>6, <1>7, <1>8, <1>9, <1>10
    DEF Skills!Next, Skills!Threads, Threads

LEMMA SkillKnownStep ==
    ASSUME Skills!Parameters, SkillTypes, SkillTypes', SkillTurns, SkillDrafts, SkillKnown,
           Skills!Next
    PROVE  SkillKnown'
<1> DEFINE Pending == Recent \cup {"collected"}
<1>0. /\ Boot \notin SkillsCalls /\ SkillsCalls \subseteq Threads
      /\ Nothing \notin Threads /\ Nothing \notin Record
    BY DEF Skills!Parameters, Threads, Record
\* No call leaves a place from which its reload is before it.
<1>a. ASSUME UNCHANGED <<state, active, seen>>, rebuildMu' \in {rebuildMu, Nothing},
             \A i \in Ids : process'[i] # Nothing => active[i] # Nothing,
             \A t \in SkillsCalls : /\ at[t] \in Recent => at'[t] \in Recent
                                    /\ at[t] \in Pending => at'[t] \in Pending
      PROVE  SkillKnown'
  <2>1. \A i \in Ids : (On(i, Recent) => On(i, Recent)') /\ (On(i, Pending) => On(i, Pending)')
    BY <1>a DEF On, Recent
  <2> QED
    BY <1>a, <2>1 DEF SkillKnown, Recent
<1>1. ASSUME NEW t \in Threads,
             \/ Skills!Begin(t) \/ Skills!BeginFails(t) \/ Skills!Undo(t) \/ Skills!SwapFails(t)
             \/ Skills!Backup(t) \/ Skills!Swap(t) \/ Skills!SaveFails(t)
      PROVE  SkillKnown'
  <2>1. /\ UNCHANGED <<state, active, seen, process, rebuildMu>>
        /\ at[t] \in {"idle", "next", "staged", "cleared", "swapped", "undoing"}
        /\ \A u \in SkillsCalls : u # t => at'[u] = at[u]
    <3>1. CASE Skills!Begin(t) \/ Skills!BeginFails(t) \/ Skills!Backup(t)
      BY <1>0, <3>1 DEF Skills!Begin, Skills!BeginFails, Skills!Backup, Skills!memory, Skills!hub,
          Skills!Failed, Skills!Goto, SkillTypes
    <3>2. CASE Skills!Undo(t) \/ Skills!SwapFails(t)
      BY <1>0, <3>2 DEF Skills!Undo, Skills!SwapFails, Skills!memory, Skills!hub, Skills!Failed,
          Skills!Goto, SkillTypes
    <3>3. CASE Skills!Swap(t) \/ Skills!SaveFails(t)
      BY <1>0, <3>3 DEF Skills!Swap, Skills!SaveFails, Skills!memory, Skills!hub, Skills!Goto, SkillTypes
    <3> QED
      BY <1>1, <3>1, <3>2, <3>3
  <2> QED
    BY <1>a, <2>1 DEF Recent, SkillKnown
<1>2. ASSUME NEW t \in Threads, Skills!Clean(t) PROVE SkillKnown'
  <2>1. /\ UNCHANGED <<state, active, seen, process, rebuildMu>>
        /\ at' = [at EXCEPT ![t] = IF t = Boot THEN "next" ELSE "reload"]
    BY <1>2 DEF Skills!Clean, Skills!hub, Skills!Goto
  <2> QED
    BY <1>0, <1>a, <2>1 DEF Recent, SkillKnown, SkillTypes
<1>3. ASSUME NEW t \in Threads, Skills!ReloadFails(t) PROVE SkillKnown'
  <2>1. /\ UNCHANGED <<state, active, seen, process>> /\ rebuildMu' = Nothing /\ at[t] = "collected"
        /\ at' = [at EXCEPT ![t] = IF t = Boot THEN "ready" ELSE "failed"]
    BY <1>3 DEF Skills!ReloadFails, Skills!memory, Skills!Goto
  <2> QED
    BY <1>0, <1>a, <2>1 DEF Recent, SkillKnown, SkillTypes
<1>4. ASSUME NEW t \in SkillsCalls, Skills!RemoveFiles(t) PROVE SkillKnown'
  <2>1. /\ UNCHANGED <<state, active, seen, process, rebuildMu>>
        /\ at' = [at EXCEPT ![t] = "reload"]
    BY <1>4 DEF Skills!RemoveFiles, Skills!memory, Skills!hub, Skills!Goto
  <2> QED
    BY <1>0, <1>a, <2>1 DEF Recent, SkillKnown, SkillTypes
<1>5. ASSUME NEW i \in Ids, Skills!Launch(i) PROVE SkillKnown'
  <2>1. UNCHANGED <<state, active, seen, rebuildMu, at>> /\ active[i] # Nothing
        /\ process' = [process EXCEPT ![i] = dir[i].version]
    BY <1>5 DEF Skills!Launch
  <2>2. \A j \in Ids : process'[j] # Nothing => active[j] # Nothing
    BY <2>1 DEF SkillKnown, SkillTypes
  <2> QED
    BY <1>a, <2>1, <2>2
<1>6. ASSUME NEW i \in Ids, Skills!Build(i) PROVE SkillKnown'
    BY <1>6, <1>a DEF Skills!Build, Skills!hub, SkillKnown
\* The package that is saved, or taken off the record, is one whose reload is
\* now to come.
<1>7. ASSUME NEW t \in SkillsCalls, UNCHANGED <<active, seen, process, rebuildMu>>,
             at[t] \notin Pending, NEW l \in Recent, at' = [at EXCEPT ![t] = l],
             \A i \in Ids : i # CallId[t] => state'.packages[i] = state.packages[i]
      PROVE  SkillKnown'
  <2>1. at'[t] = l /\ \A u \in SkillsCalls : u # t => at'[u] = at[u]
    BY <1>0, <1>7 DEF SkillTypes
  <2>2. On(CallId[t], Recent)' /\ On(CallId[t], Pending)'
    BY <2>1 DEF On
  <2>3. \A i \in Ids : (On(i, Recent) => On(i, Recent)') /\ (On(i, Pending) => On(i, Pending)')
    BY <1>7, <2>1 DEF On
  <2> QED
    BY <1>7, <2>2, <2>3 DEF SkillKnown
<1>8. ASSUME NEW t \in Threads, Skills!Save(t) PROVE SkillKnown'
  <2>1. t \in SkillsCalls /\ at[t] = "swapped" /\ at' = [at EXCEPT ![t] = "stored"]
    BY <1>8 DEF Skills!Save, Threads, SkillTypes, BootPlaces, Skills!Goto
  <2>2. /\ Skills!Id(t) = CallId[t] /\ CallId[t] \in Ids
        /\ state' = Skills!Recorded(state, CallId[t])
        /\ UNCHANGED <<active, seen, process, rebuildMu>>
    BY <1>8, <2>1 DEF Skills!Save, SkillDrafts, Skills!Parameters, Skills!hub, Skills!Id
  <2>3. \A i \in Ids : i # CallId[t] => state'.packages[i] = state.packages[i]
    BY <2>2 DEF Skills!Recorded, SkillTypes, SkillState
  <2> QED
    BY <1>7, <2>1, <2>2, <2>3 DEF Recent
<1>9. ASSUME NEW t \in SkillsCalls, Skills!Unrecord(t) PROVE SkillKnown'
  <2>1. Skills!Id(t) = CallId[t] /\ CallId[t] \in Ids
    BY <1>0 DEF Skills!Id, Skills!Parameters
  <2>2. CASE at' = [at EXCEPT ![t] = "answered"] /\ UNCHANGED state
    <3>1. UNCHANGED <<active, seen, process, rebuildMu>> /\ at[t] = "idle"
      BY <1>9 DEF Skills!Unrecord, Skills!hub
    <3> QED
      BY <1>a, <2>2, <3>1 DEF Recent, SkillKnown
  <2>3. CASE at' = [at EXCEPT ![t] = "unrecorded"] /\ state' = [state EXCEPT !.packages[Skills!Id(t)] = Nothing]
    <3>1. UNCHANGED <<active, seen, process, rebuildMu>> /\ at[t] = "idle"
      BY <1>9 DEF Skills!Unrecord, Skills!hub
    <3>2. \A i \in Ids : i # CallId[t] => state'.packages[i] = state.packages[i]
      BY <2>1, <2>3 DEF SkillTypes, SkillState
    <3> QED
      BY <1>7, <2>3, <3>1, <3>2 DEF Recent
  <2> QED
    BY <1>9, <2>2, <2>3 DEF Skills!Unrecord, Skills!Goto
<1>10. ASSUME NEW t \in Threads, Skills!Collect(t) PROVE SkillKnown'
  <2>1. /\ UNCHANGED <<state, active, process>> /\ at[t] = "reload"
        /\ at' = [at EXCEPT ![t] = "collected"]
        /\ \A i \in Ids : seen'[i] \in {Nothing, state.packages[i]}
    BY <1>10 DEF Skills!Collect, Skills!memory, Skills!Goto
  <2>2. \A u \in SkillsCalls : at[u] \in Pending => at'[u] \in Pending
    BY <1>0, <2>1 DEF Recent, SkillTypes
  <2>3. \A i \in Ids : On(i, Pending) => On(i, Pending)'
    BY <2>2 DEF On, Recent
  <2> QED
    BY <2>1, <2>3 DEF SkillKnown
<1>11. ASSUME NEW t \in Threads, Skills!Rebuild(t) PROVE SkillKnown'
  <2>1. /\ UNCHANGED <<state, seen>> /\ at[t] = "collected" /\ rebuildMu' = Nothing /\ active' = seen
        /\ at' = [at EXCEPT ![t] = IF t = Boot THEN "ready" ELSE "answered"]
        /\ process' = [i \in Ids |-> IF seen[i] = active[i] THEN process[i] ELSE Nothing]
    BY <1>11 DEF Skills!Rebuild, Skills!memory, Skills!Goto
  <2>2. rebuildMu # Nothing
    BY <1>0, <2>1 DEF SkillTurns
  <2>3. \A u \in SkillsCalls : at[u] \in Recent => at'[u] \in Pending
    BY <1>0, <2>1 DEF Recent, SkillTypes
  <2>4. \A i \in Ids : On(i, Recent) => On(i, Pending)'
    BY <2>3 DEF On, Recent
  <2>5. \A i \in Ids : process'[i] # Nothing => active'[i] # Nothing
    BY <2>1 DEF SkillKnown
  <2> QED
    BY <2>1, <2>2, <2>4, <2>5 DEF SkillKnown
<1>12. CASE Skills!BootSaves
  <2>1. at[Boot] = "next" /\ UNCHANGED <<active, process, rebuildMu>>
    BY <1>12 DEF Skills!BootSaves, Skills!hub
  <2>2. \A i \in Ids : active'[i] = Nothing /\ process'[i] = Nothing
    BY <2>1 DEF SkillTurns, Skills!None
  <2>3. rebuildMu' = Nothing
    BY <2>1 DEF SkillTurns, SkillTypes, Threads
  <2> QED
    BY <2>2, <2>3 DEF SkillKnown
<1>13. CASE Skills!Crash
  <2>1. rebuildMu' = Nothing /\ \A i \in Ids : active'[i] = Nothing /\ process'[i] = Nothing
    BY <1>13 DEF Skills!Crash, Skills!None
  <2> QED
    BY <2>1 DEF SkillKnown
<1> QED
    BY <1>1, <1>2, <1>3, <1>4, <1>5, <1>6, <1>8, <1>9, <1>10, <1>11, <1>12, <1>13
    DEF Skills!Next, Skills!Threads, Threads

LEMMA SkillRunsStep ==
    ASSUME Skills!Parameters, SkillTypes, SkillTypes', SkillTurns, SkillTurns', SkillMoved,
           SkillDrafts, SkillOrder, SkillKnown, SkillRuns, Skills!Next
    PROVE  SkillRuns'
<1> DEFINE Swapping == {"cleared", "swapped", "undoing"}
<1>0. /\ Boot \notin SkillsCalls /\ SkillsCalls \subseteq Threads
      /\ Nothing \notin Threads /\ Nothing \notin Record /\ Nothing \notin Package
      /\ \A t \in SkillsCalls : CallId[t] \in Ids /\ Skills!Id(t) = CallId[t] /\ Skills!Id(t)' = CallId[t]
    BY DEF Skills!Parameters, Threads, Record, Package, Skills!Id
\* While the device starts, nothing runs and no call is under way.
<1>a. ASSUME at[Boot] # "ready", UNCHANGED process, \A t \in SkillsCalls : at'[t] = at[t]
      PROVE  SkillRuns'
  <2>1. \A i \in Ids : process'[i] = Nothing
    BY <1>a DEF SkillTurns, Skills!None
  <2>2. \A t \in SkillsCalls : at'[t] \in {"idle", "lost"}
    BY <1>a DEF SkillTurns
  <2> QED
    BY <2>1, <2>2 DEF SkillRuns
\* The packages and their processes stay, and no call enters or leaves a swap.
<1>b. ASSUME UNCHANGED <<state, dir, undone, backups>>,
             \A i \in Ids : process'[i] # Nothing => process'[i] = process[i] /\ active'[i] = active[i],
             \A t \in SkillsCalls :
                at'[t] = at[t] \/ (at[t] \notin Swapping /\ at'[t] \notin Swapping)
      PROVE  SkillRuns'
  <2>1. \A i \in Ids : On(i, Swapping) <=> On(i, Swapping)'
    BY <1>b DEF On
  <2>2. \A t : Skills!Mine(t)' = Skills!Mine(t)
    BY <1>b DEF Skills!Mine
  <2> QED
    BY <1>b, <1>0, <2>1, <2>2 DEF SkillRuns
\* A call does something to its package while no other is changing one.
<1>c. ASSUME NEW t \in SkillsCalls, \A u \in SkillsCalls : u # t => at[u] \notin Changing,
             NEW l, at' = [at EXCEPT ![t] = l], UNCHANGED <<process, active>>, undone \subseteq undone',
             \A j \in Ids : j # CallId[t] => state'.packages[j] = state.packages[j] /\ dir'[j] = dir[j],
             l = "undoing" => CallId[t] \in undone',
             CallId[t] \notin undone' /\ process[CallId[t]] # Nothing
               /\ active[CallId[t]] = state'.packages[CallId[t]]
             => /\ l \notin Swapping => /\ dir'[CallId[t]] # Nothing
                                       /\ process[CallId[t]] = dir'[CallId[t]].version
                /\ l = "cleared" => /\ Skills!Mine(t)' # {}
                                   /\ \A k \in Skills!Mine(t)' : k.package.version = process[CallId[t]]
      PROVE  SkillRuns'
  <2> DEFINE i == CallId[t]
  <2>1. i \in Ids /\ at'[t] = l /\ \A u \in SkillsCalls : u # t => at'[u] = at[u] /\ at[u] \notin Swapping
    BY <1>0, <1>c DEF SkillTypes, Changing
  <2>2. \A j \in Ids : j # i => (On(j, Swapping)' <=> On(j, Swapping))
    BY <2>1 DEF On
  <2>3. l \in Swapping => On(i, Swapping)'
    BY <2>1 DEF On
  <2>4. ASSUME NEW j \in Ids \ undone', active'[j] = state'.packages[j], process'[j] # Nothing, ~On(j, Swapping)'
        PROVE  dir'[j] # Nothing /\ process'[j] = dir'[j].version
    <3>1. CASE j = i
      BY <1>c, <2>3, <2>4, <3>1
    <3>2. CASE j # i
      BY <1>c, <2>2, <2>4, <3>2 DEF SkillRuns
    <3> QED
      BY <3>1, <3>2
  <2>5. ASSUME NEW u \in SkillsCalls
        PROVE  /\ at'[u] = "undoing" => CallId[u] \in undone'
               /\ /\ at'[u] = "cleared" /\ CallId[u] \notin undone'
                  /\ process'[CallId[u]] # Nothing /\ active'[CallId[u]] = state'.packages[CallId[u]]
                  => /\ Skills!Mine(u)' # {}
                     /\ \A k \in Skills!Mine(u)' : k.package.version = process'[CallId[u]]
    <3>1. CASE u = t
      BY <1>c, <2>1, <3>1
    <3>2. CASE u # t
      BY <2>1, <3>2
    <3> QED
      BY <3>1, <3>2
  <2> QED
    BY <2>4, <2>5 DEF SkillRuns
\* The call that holds the lock is alone.
<1>d. ASSUME NEW t \in SkillsCalls, at[t] \in Changing
      PROVE  \A u \in SkillsCalls : u # t => at[u] \notin Changing
    BY <1>0, <1>d, SkillAlone
<1>e. ASSUME NEW t \in SkillsCalls, at[t] \in Changing, at[t] \notin Swapping
      PROVE  ~On(CallId[t], Swapping)
    BY <1>d, <1>e DEF On, Changing
<1>1. ASSUME NEW t \in Threads, Skills!Begin(t) \/ Skills!BeginFails(t) PROVE SkillRuns'
  <2>1. /\ at[t] \in {"idle", "next", "staged"}
        /\ \E l \in {"staged", "reload", "answered"} : at' = [at EXCEPT ![t] = l]
        /\ UNCHANGED <<state, dir, undone, backups, process, active>>
    BY <1>1 DEF Skills!Begin, Skills!BeginFails, Skills!hub, Skills!Goto, Skills!Failed
  <2> QED
    BY <1>0, <1>b, <2>1 DEF SkillTypes
<1>2. ASSUME NEW t \in Threads,
             Skills!Collect(t) \/ Skills!Rebuild(t) \/ Skills!ReloadFails(t)
      PROVE  SkillRuns'
  <2>1. /\ at[t] \in {"reload", "collected"}
        /\ \E l \in {"collected", "ready", "answered", "failed"} : at' = [at EXCEPT ![t] = l]
        /\ UNCHANGED <<state, dir, undone, backups>>
    BY <1>2 DEF Skills!Collect, Skills!Rebuild, Skills!ReloadFails, Skills!Goto
  <2>2. \A i \in Ids : process'[i] # Nothing => process'[i] = process[i] /\ active'[i] = active[i]
    BY <1>2 DEF Skills!Collect, Skills!Rebuild, Skills!ReloadFails
  <2> QED
    BY <1>0, <1>b, <2>1, <2>2 DEF SkillTypes
<1>3. CASE \/ Skills!Backup(Boot) \/ Skills!Swap(Boot) \/ Skills!SwapFails(Boot) \/ Skills!Save(Boot)
           \/ Skills!SaveFails(Boot) \/ Skills!Undo(Boot) \/ Skills!Clean(Boot) \/ Skills!BootSaves
  <2>1. /\ at[Boot] # "ready" /\ UNCHANGED process
        /\ \A t \in SkillsCalls : at'[t] = at[t]
    <3>1. CASE Skills!Backup(Boot) \/ Skills!Swap(Boot) \/ Skills!SwapFails(Boot) \/ Skills!Save(Boot)
      BY <1>0, <3>1 DEF Skills!Backup, Skills!Swap, Skills!SwapFails, Skills!Save, Skills!hub, Skills!Goto,
          Skills!Failed, SkillTypes
    <3>2. CASE Skills!SaveFails(Boot) \/ Skills!Undo(Boot) \/ Skills!Clean(Boot) \/ Skills!BootSaves
      BY <1>0, <3>2 DEF Skills!SaveFails, Skills!Undo, Skills!Clean, Skills!BootSaves, Skills!hub,
          Skills!Goto, Skills!Failed, SkillTypes
    <3> QED
      BY <1>3, <3>1, <3>2
  <2> QED
    BY <1>a, <2>1
<1>4. ASSUME NEW t \in SkillsCalls, Skills!Backup(t) PROVE SkillRuns'
  <2> DEFINE i == CallId[t]
  <2>1. /\ at[t] = "staged" /\ at' = [at EXCEPT ![t] = "cleared"]
        /\ dir' = [dir EXCEPT ![i] = Nothing] /\ UNCHANGED <<state, process, active, undone>>
        /\ backups' = backups \cup {[id |-> j, package |-> dir[j], of |-> t] : j \in {i} \ {j \in Ids : dir[j] = Nothing}}
    BY <1>0, <1>4 DEF Skills!Backup, Skills!Goto, Skills!hub
  <2>2. i \in Ids /\ t # Nothing
    BY <1>0
  <2>3. ASSUME i \notin undone, process[i] # Nothing, active[i] = state.packages[i]
        PROVE  /\ Skills!Mine(t)' # {}
               /\ \A k \in Skills!Mine(t)' : k.package.version = process[i]
    <3>1. dir[i] # Nothing /\ process[i] = dir[i].version
      BY <1>e, <2>1, <2>2, <2>3 DEF SkillRuns, Changing
    <3>2. Skills!Mine(t) = {}
      BY <1>0, <2>1 DEF SkillMoved
    <3>3. Skills!Mine(t)' = {k \in backups' : k.of = t}
      BY DEF Skills!Mine
    <3>4. Skills!Mine(t)' = {[id |-> i, package |-> dir[i], of |-> t]}
      BY <2>1, <2>2, <3>1, <3>2, <3>3 DEF Skills!Mine
    <3> QED
      BY <3>1, <3>4
  <2>4. \A u \in SkillsCalls : u # t => at[u] \notin Changing
    BY <1>d, <2>1 DEF Changing
  <2>5. \A j \in Ids : j # i => state'.packages[j] = state.packages[j] /\ dir'[j] = dir[j]
    BY <2>1, <2>2 DEF SkillTypes
  <2> QED
    BY <1>c, <2>1, <2>3, <2>4, <2>5
<1>5. ASSUME NEW t \in SkillsCalls, Skills!Swap(t) \/ Skills!SaveFails(t) PROVE SkillRuns'
  <2> DEFINE i == CallId[t]
  <2>1. /\ at[t] \in {"cleared", "swapped"} /\ UNCHANGED <<state, process, active>>
        /\ \/ at' = [at EXCEPT ![t] = "swapped"] /\ undone' = undone
           \/ at' = [at EXCEPT ![t] = "undoing"] /\ undone' = undone \cup {i}
        /\ \E p \in {Nothing, skillsNew[t]} : dir' = [dir EXCEPT ![i] = p]
    BY <1>0, <1>5 DEF Skills!Swap, Skills!SaveFails, Skills!Goto, Skills!hub
  <2>2. \A u \in SkillsCalls : u # t => at[u] \notin Changing
    BY <1>d, <2>1 DEF Changing
  <2>3. \A j \in Ids : j # i => state'.packages[j] = state.packages[j] /\ dir'[j] = dir[j]
    BY <1>0, <2>1 DEF SkillTypes
  <2> QED
    BY <1>c, <2>1, <2>2, <2>3
<1>6. ASSUME NEW t \in SkillsCalls, Skills!SwapFails(t) \/ Skills!Undo(t) PROVE SkillRuns'
  <2> DEFINE i == CallId[t]
  <2>1. PICK r \in BOOLEAN :
          /\ Skills!Restore(t, r)
          /\ \/ at[t] = "cleared" /\ undone' = IF r THEN undone ELSE undone \cup {i}
             \/ at[t] = "undoing" /\ undone' = undone
    BY <1>0, <1>6 DEF Skills!SwapFails, Skills!Undo
  <2>2. at' = [at EXCEPT ![t] = "answered"] /\ UNCHANGED <<state, process, active>>
    BY <1>0, <1>6 DEF Skills!SwapFails, Skills!Undo, Skills!Failed, Skills!Goto, Skills!hub
  <2>3. \A u \in SkillsCalls : u # t => at[u] \notin Changing
    BY <1>d, <2>1 DEF Changing
  <2>4. \A k \in Skills!Mine(t) : k.id = i
    BY <1>0, <2>1 DEF SkillMoved
  <2>5. \A j \in Ids : j # i => dir'[j] = dir[j]
    BY <2>1, <2>4 DEF Skills!Restore
  <2>6. ASSUME i \notin undone', process[i] # Nothing, active[i] = state.packages[i]
        PROVE  dir'[i] # Nothing /\ process[i] = dir'[i].version
    <3>1. at[t] = "cleared" /\ r /\ i \notin undone
      BY <1>0, <2>1, <2>6 DEF SkillRuns
    <3>2. Skills!Mine(t) # {} /\ \A k \in Skills!Mine(t) : k.package.version = process[i]
      BY <2>6, <3>1 DEF SkillRuns
    <3>3. \E k \in Skills!Mine(t) : k.id = i
      BY <2>4, <3>2
    <3>4. dir'[i] = (CHOOSE k \in Skills!Mine(t) : k.id = i).package
      BY <1>0, <2>1, <3>1, <3>3 DEF Skills!Restore
    <3> QED
      BY <1>0, <3>2, <3>3, <3>4, SkillRestored
  <2> QED
    BY <1>c, <2>1, <2>2, <2>3, <2>5, <2>6
<1>7. ASSUME NEW t \in SkillsCalls, Skills!Save(t) PROVE SkillRuns'
  <2> DEFINE i == CallId[t]
  <2>1. /\ at[t] = "swapped" /\ at' = [at EXCEPT ![t] = "stored"]
        /\ state' = Skills!Recorded(state, i) /\ UNCHANGED <<dir, process, active, undone>>
    BY <1>0, <1>7 DEF Skills!Save, Skills!Goto, Skills!hub, SkillDrafts
  <2>2. /\ \A j \in Ids : j # i => state'.packages[j] = state.packages[j]
        /\ process[i] # Nothing => active[i] # state'.packages[i]
    <3>1. i \in Ids /\ active[i] \in Record \cup {Nothing} /\ Older(active[i], i) /\ Ordered(state)
      BY <1>0 DEF SkillTypes, SkillOrder
    <3>2. active[i] # Nothing => active[i].revision \in Nat
      BY <3>1 DEF Record
    <3>3. process[i] # Nothing => active[i] # Nothing
      BY <3>1 DEF SkillKnown
    <3> HIDE DEF i
    <3> QED
      BY <1>0, <2>1, <3>1, <3>2, <3>3, SkillNewer
  <2>3. \A u \in SkillsCalls : u # t => at[u] \notin Changing
    BY <1>d, <2>1 DEF Changing
  <2> QED
    BY <1>c, <2>1, <2>2, <2>3
<1>8. ASSUME NEW t \in SkillsCalls, Skills!Clean(t) PROVE SkillRuns'
  <2> DEFINE i == CallId[t]
  <2>1. /\ at[t] = "stored" /\ at' = [at EXCEPT ![t] = "reload"]
        /\ UNCHANGED <<state, dir, process, active, undone>>
    BY <1>0, <1>8 DEF Skills!Clean, Skills!Goto, Skills!hub
  <2>2. \A u \in SkillsCalls : u # t => at[u] \notin Changing
    BY <1>d, <2>1 DEF Changing
  <2>3. ~On(i, Swapping) /\ i \in Ids
    BY <1>0, <1>e, <2>1 DEF Changing
  <2>4. i \notin undone /\ process[i] # Nothing /\ active[i] = state.packages[i] =>
            dir[i] # Nothing /\ process[i] = dir[i].version
    BY <2>3 DEF SkillRuns
  <2> QED
    BY <1>c, <2>1, <2>2, <2>4
<1>9. ASSUME NEW t \in SkillsCalls, Skills!Unrecord(t) PROVE SkillRuns'
  <2> DEFINE i == CallId[t]
  <2>1. at[t] = "idle" /\ packageMu = Nothing /\ UNCHANGED <<dir, backups, process, active, undone>>
    BY <1>9 DEF Skills!Unrecord, Skills!hub
  <2>2. CASE at' = [at EXCEPT ![t] = "answered"] /\ UNCHANGED state
    BY <1>0, <1>b, <2>1, <2>2 DEF SkillTypes
  <2>3. CASE at' = [at EXCEPT ![t] = "unrecorded"] /\ state' = [state EXCEPT !.packages[i] = Nothing]
    <3>1. /\ state'.packages[i] = Nothing
          /\ \A j \in Ids : j # i => state'.packages[j] = state.packages[j]
      BY <1>0, <2>3 DEF SkillTypes, SkillState
    <3>2. \A u \in SkillsCalls : u # t => at[u] \notin Changing
      BY <1>0, <2>1 DEF SkillTurns
    <3>3. process[i] # Nothing => active[i] # Nothing
      BY <1>0 DEF SkillKnown
    <3> QED
      BY <1>c, <2>1, <2>3, <3>1, <3>2, <3>3
  <2> QED
    BY <1>0, <1>9, <2>2, <2>3 DEF Skills!Unrecord, Skills!Goto
<1>10. ASSUME NEW t \in SkillsCalls, Skills!RemoveFiles(t) PROVE SkillRuns'
  <2> DEFINE i == CallId[t]
  <2>1. /\ at[t] = "unrecorded" /\ at' = [at EXCEPT ![t] = "reload"]
        /\ dir' \in {dir, [dir EXCEPT ![i] = Nothing]} /\ UNCHANGED <<state, process, active, undone>>
    BY <1>0, <1>10 DEF Skills!RemoveFiles, Skills!Goto, Skills!hub
  <2>2. \A u \in SkillsCalls : u # t => at[u] \notin Changing
    BY <1>d, <2>1 DEF Changing
  <2>3. state.packages[i] = Nothing /\ (process[i] # Nothing => active[i] # Nothing)
    BY <1>0, <2>1 DEF SkillDrafts, SkillKnown
  <2>4. \A j \in Ids : j # i => dir'[j] = dir[j]
    BY <1>0, <2>1 DEF SkillTypes
  <2> QED
    BY <1>c, <2>1, <2>2, <2>3, <2>4
<1>11. ASSUME NEW i \in Ids, Skills!Launch(i) PROVE SkillRuns'
  <2>1. /\ dir[i] # Nothing /\ process' = [process EXCEPT ![i] = dir[i].version]
        /\ UNCHANGED <<state, dir, undone, backups, at, active>>
    BY <1>11 DEF Skills!Launch
  <2>2. /\ \A j : On(j, Swapping)' <=> On(j, Swapping)
        /\ \A t : Skills!Mine(t)' = Skills!Mine(t)
    BY <2>1 DEF On, Skills!Mine
  <2>3. \A t \in SkillsCalls : at[t] = "cleared" => CallId[t] # i
    BY <1>0, <2>1 DEF SkillMoved
  <2>4. process'[i] = dir[i].version /\ \A j \in Ids : j # i => process'[j] = process[j]
    BY <2>1 DEF SkillTypes
  <2> QED
    BY <1>0, <2>1, <2>2, <2>3, <2>4 DEF SkillRuns
<1>12. ASSUME NEW i \in Ids, Skills!Build(i) PROVE SkillRuns'
  <2>1. /\ dir[i] \in Package /\ dir' = [dir EXCEPT ![i] = [dir[i] EXCEPT !.bin = TRUE]]
        /\ UNCHANGED <<state, process, undone, backups, at, active>>
    BY <1>12 DEF Skills!Build, Skills!hub, SkillTypes
  <2>2. [dir[i] EXCEPT !.bin = TRUE] \in Package /\ [dir[i] EXCEPT !.bin = TRUE].version = dir[i].version
    BY <2>1 DEF Package
  <2>3. \A j \in Ids : dir[j] # Nothing => dir'[j] # Nothing /\ dir'[j].version = dir[j].version
    BY <1>0, <2>1, <2>2 DEF SkillTypes
  <2>4. /\ \A j : On(j, Swapping)' <=> On(j, Swapping)
        /\ \A t : Skills!Mine(t)' = Skills!Mine(t)
    BY <2>1 DEF On, Skills!Mine
  <2> QED
    BY <2>1, <2>3, <2>4 DEF SkillRuns
<1>13. CASE Skills!Crash
  <2>1. /\ \A i \in Ids : process'[i] = Nothing
        /\ \A t \in SkillsCalls : at'[t] \in {"idle", "lost"}
    BY <1>0, <1>13 DEF Skills!Crash, Skills!None, Skills!Threads, Threads
  <2> QED
    BY <2>1, <1>0 DEF SkillRuns
<1> QED
    BY <1>1, <1>2, <1>3, <1>4, <1>5, <1>6, <1>7, <1>8, <1>9, <1>10, <1>11, <1>12, <1>13
    DEF Skills!Next, Skills!Threads, Threads

LEMMA SkillDraftsStep ==
    ASSUME Skills!Parameters, SkillTypes, SkillTypes', SkillTurns, SkillTurns', SkillMoved,
           SkillDrafts, Skills!NothingDestroyed, Skills!Next
    PROVE  SkillDrafts'
<1> DEFINE Drafted(t) == at[t] \in {"staged", "cleared", "swapped"} => draft[t] = Skills!Recorded(state, CallId[t])
           Gone(t) == at[t] = "unrecorded" => state.packages[CallId[t]] = Nothing
           Kept(i) == dir[i] # Nothing \/ BackedUp(i)
           Called == \A t \in SkillsCalls : Drafted(t) /\ Gone(t)
           Booted == packageMu = Boot => \A i \in Ids : draft[Boot].packages[i] # Nothing =>
                       Kept(i) \/ (at[Boot] \in {"staged", "cleared"} /\ i = Skills!Id(Boot))
<1>0. /\ Boot \notin SkillsCalls /\ SkillsCalls \subseteq Threads /\ Boot \in Threads
      /\ Nothing \notin Threads /\ Nothing \notin Package
      /\ \A t \in SkillsCalls : CallId[t] \in Ids /\ Skills!Id(t) = CallId[t] /\ Skills!Id(t)' = CallId[t]
    BY DEF Skills!Parameters, Threads, Package, Skills!Id
<1>i. /\ SkillDrafts <=> Called /\ Booted
      /\ SkillDrafts' <=> Called' /\ Booted'
    BY <1>0 DEF SkillDrafts, BackedUp
\* No call comes to have something to save.
<1>a. ASSUME UNCHANGED state,
             \A t \in SkillsCalls :
                /\ at'[t] \in {"staged", "cleared", "swapped"} =>
                     at[t] \in {"staged", "cleared", "swapped"} /\ draft'[t] = draft[t]
                /\ at'[t] = "unrecorded" => at[t] = "unrecorded"
      PROVE  Called'
    BY <1>a, <1>i
\* A call acts, or the start of the device is over or gives up.
<1>b. ASSUME at'[Boot] = "ready" \/ packageMu' # Boot PROVE Booted'
    BY <1>b DEF SkillTurns, Changing
<1>c. ASSUME NEW t \in SkillsCalls, at[t] \notin {"idle", "lost"} \/ at[Boot] = "ready",
             NEW l, at' = [at EXCEPT ![t] = l]
      PROVE  Booted'
    BY <1>0, <1>b, <1>c DEF SkillTurns, SkillTypes
\* The start puts away one package after the other.
<1>1. CASE Skills!Begin(Boot)
  <2> DEFINE i == Skills!Id(Boot)
             s == IF packageMu = Boot THEN draft[Boot] ELSE state
  <2>1. /\ at[Boot] = "next" /\ at' = [at EXCEPT ![Boot] = "staged"] /\ skillsLeft # {}
        /\ UNCHANGED <<dir, backups, state, skillsLeft>>
        /\ draft' = [draft EXCEPT ![Boot] = Skills!Recorded(s, i)]
    BY <1>1 DEF Skills!Begin, Skills!Goto
  <2>2. i \in Ids /\ s \in SkillState
    BY <1>0, <2>1, SkillIds DEF SkillTypes
  <2>3. Called'
    BY <1>0, <1>a, <2>1 DEF SkillTypes
  <2>4. \A j \in Ids : s.packages[j] # Nothing => Kept(j)
    BY <1>i, <2>1 DEF Skills!NothingDestroyed, BackedUp
  <2>5. Skills!Id(Boot)' = i
    BY <2>1, SkillIdKept
  <2> HIDE DEF i, s
  <2>6. \A j \in Ids : j # i => Skills!Recorded(s, i).packages[j] = s.packages[j]
    BY <2>2 DEF Skills!Recorded, SkillState
  <2>7. at'[Boot] = "staged" /\ draft'[Boot] = Skills!Recorded(s, i)
    BY <1>0, <2>1 DEF SkillTypes
  <2>8. \A j \in Ids : Kept(j) => Kept(j)'
    BY <2>1 DEF BackedUp
  <2>9. Booted'
    BY <2>4, <2>5, <2>6, <2>7, <2>8
  <2> QED
    BY <1>i, <2>3, <2>9
<1>2. CASE Skills!Backup(Boot) \/ Skills!Swap(Boot)
  <2> DEFINE i == Skills!Id(Boot)
  <2>1. /\ UNCHANGED <<state, skillsLeft, draft, packageMu>> /\ backups \subseteq backups'
        /\ \/ /\ at' = [at EXCEPT ![Boot] = "cleared"] /\ dir' = [dir EXCEPT ![i] = Nothing] /\ at[Boot] = "staged"
           \/ /\ at' = [at EXCEPT ![Boot] = "stored"] /\ dir' = [dir EXCEPT ![i] = skillsNew[Boot]]
              /\ at[Boot] = "cleared"
    BY <1>2 DEF Skills!Backup, Skills!Swap, Skills!Goto, Skills!memory
  <2>2. i \in Ids /\ (at[Boot] = "cleared" => skillsNew[Boot] # Nothing)
    BY <1>0, <2>1, SkillIds DEF SkillTurns
  <2>3. Called'
    BY <1>0, <1>a, <2>1 DEF SkillTypes
  <2>4. Skills!Id(Boot)' = i
    BY <2>1, SkillIdKept
  <2> HIDE DEF i
  <2>5. \A j \in Ids : j # i /\ Kept(j) => Kept(j)'
    BY <2>1 DEF BackedUp, SkillTypes
  <2>6. at'[Boot] = "cleared" \/ dir'[i] # Nothing
    BY <1>0, <2>1, <2>2 DEF SkillTypes
  <2>7. packageMu = Boot => \A j \in Ids : j # i /\ draft[Boot].packages[j] # Nothing => Kept(j)
    BY <1>i DEF i
  <2>8. Booted'
    BY <2>1, <2>4, <2>5, <2>6, <2>7
  <2> QED
    BY <1>i, <2>3, <2>8
<1>3. CASE Skills!Clean(Boot)
  <2>1. /\ UNCHANGED <<dir, state, draft, packageMu>> /\ backups' = backups \ Skills!Mine(Boot)
        /\ at[Boot] = "stored" /\ at' = [at EXCEPT ![Boot] = "next"]
    BY <1>3 DEF Skills!Clean, Skills!Goto
  <2>2. dir[Skills!Id(Boot)] # Nothing /\ \A k \in Skills!Mine(Boot) : k.id = Skills!Id(Boot)
    BY <1>0, <2>1 DEF SkillMoved
  <2>3. \A j \in Ids : Kept(j) => Kept(j)'
    BY <2>1, <2>2 DEF BackedUp
  <2>4. Called'
    BY <1>0, <1>a, <2>1 DEF SkillTypes
  <2>5. Booted'
    BY <1>i, <2>1, <2>3
  <2> QED
    BY <1>i, <2>4, <2>5
<1>4. CASE Skills!BeginFails(Boot) \/ Skills!SwapFails(Boot) \/ Skills!Undo(Boot)
  <2>1. /\ UNCHANGED <<state, draft>> /\ packageMu' = Nothing /\ at' = [at EXCEPT ![Boot] = "reload"]
    BY <1>4 DEF Skills!BeginFails, Skills!SwapFails, Skills!Undo, Skills!Failed, Skills!Unlock,
        Skills!Goto, Skills!memory
  <2>2. Called'
    BY <1>0, <1>a, <2>1 DEF SkillTypes
  <2> QED
    BY <1>0, <1>b, <1>i, <2>1, <2>2
<1>5. CASE Skills!Save(Boot) \/ Skills!SaveFails(Boot)
    BY <1>5 DEF Skills!Save, Skills!SaveFails, SkillTypes, BootPlaces
<1>6. CASE Skills!BootSaves
  <2>1. packageMu' = Nothing /\ at[Boot] = "next" /\ at' = [at EXCEPT ![Boot] = "reload"]
    BY <1>6 DEF Skills!BootSaves, Skills!Unlock, Skills!Goto
  <2>2. \A t \in SkillsCalls : at'[t] \in {"idle", "lost"}
    BY <1>0, <2>1 DEF SkillTurns, SkillTypes
  <2> QED
    BY <1>0, <1>b, <1>i, <2>1, <2>2
\* The reloads, of the start and of the calls.
<1>7. ASSUME NEW t \in Threads, Skills!Collect(t) \/ Skills!Rebuild(t) \/ Skills!ReloadFails(t)
      PROVE  SkillDrafts'
  <2>1. /\ UNCHANGED <<state, draft, packageMu>> /\ at[t] \in {"reload", "collected"}
        /\ \/ at' = [at EXCEPT ![t] = "collected"]
           \/ at' = [at EXCEPT ![t] = IF t = Boot THEN "ready" ELSE "answered"]
           \/ at' = [at EXCEPT ![t] = IF t = Boot THEN "ready" ELSE "failed"]
    BY <1>7 DEF Skills!Collect, Skills!Rebuild, Skills!ReloadFails, Skills!Goto, Skills!memory
  <2>2. Called'
    BY <1>0, <1>a, <2>1 DEF SkillTypes
  <2>3. Booted'
    <3>1. CASE t = Boot
      BY <1>b, <2>1, <3>1 DEF SkillTurns, Changing
    <3>2. CASE t # Boot
      BY <1>0, <1>b, <2>1, <3>2 DEF SkillTurns, SkillTypes, Threads
    <3> QED
      BY <3>1, <3>2
  <2> QED
    BY <1>i, <2>2, <2>3
\* The calls.
<1>8. ASSUME NEW t \in SkillsCalls, Skills!Begin(t) PROVE SkillDrafts'
  <2>1. /\ at[t] = "idle" /\ at[Boot] = "ready" /\ at' = [at EXCEPT ![t] = "staged"]
        /\ draft' = [draft EXCEPT ![t] = Skills!Recorded(state, CallId[t])] /\ UNCHANGED state
    BY <1>0, <1>8 DEF Skills!Begin, Skills!Goto
  <2>2. at'[t] = "staged" /\ draft'[t] = Skills!Recorded(state, CallId[t])
    BY <1>0, <2>1 DEF SkillTypes
  <2>3. \A u \in SkillsCalls : u # t => at'[u] = at[u] /\ draft'[u] = draft[u]
    BY <1>0, <2>1 DEF SkillTypes
  <2>4. Called'
    BY <1>i, <2>1, <2>2, <2>3
  <2> QED
    BY <1>c, <1>i, <2>1, <2>4
<1>9. ASSUME NEW t \in SkillsCalls,
             \/ Skills!BeginFails(t) \/ Skills!Backup(t) \/ Skills!Swap(t) \/ Skills!SwapFails(t)
             \/ Skills!SaveFails(t) \/ Skills!Undo(t) \/ Skills!Clean(t) \/ Skills!RemoveFiles(t)
      PROVE  SkillDrafts'
  <2>1. /\ UNCHANGED <<state, draft>> /\ at[t] \notin {"idle", "lost"}
        /\ \E l : at' = [at EXCEPT ![t] = l]
        /\ at'[t] \in {"staged", "cleared", "swapped"} => at[t] \in {"staged", "cleared", "swapped"}
        /\ at'[t] # "unrecorded"
    <3>1. CASE Skills!BeginFails(t) \/ Skills!Backup(t) \/ Skills!Swap(t) \/ Skills!SwapFails(t)
      BY <1>0, <3>1 DEF Skills!BeginFails, Skills!Backup, Skills!Swap, Skills!SwapFails, Skills!Goto,
          Skills!Failed, Skills!memory, SkillTypes
    <3>2. CASE Skills!SaveFails(t) \/ Skills!Undo(t) \/ Skills!Clean(t) \/ Skills!RemoveFiles(t)
      BY <1>0, <3>2 DEF Skills!SaveFails, Skills!Undo, Skills!Clean, Skills!RemoveFiles, Skills!Goto,
          Skills!Failed, Skills!memory, SkillTypes
    <3> QED
      BY <1>9, <3>1, <3>2
  <2>2. Called'
    BY <1>0, <1>a, <2>1 DEF SkillTypes
  <2> QED
    BY <1>c, <1>i, <2>1, <2>2
<1>10. ASSUME NEW t \in SkillsCalls, Skills!Save(t) PROVE SkillDrafts'
  <2>1. at[t] = "swapped" /\ at' = [at EXCEPT ![t] = "stored"]
    BY <1>10 DEF Skills!Save, Skills!Goto
  <2>2. \A u \in SkillsCalls : u # t => at'[u] \notin Changing
    BY <1>0, <2>1, SkillAlone DEF SkillTypes, Changing
  <2>3. at'[t] = "stored"
    BY <1>0, <2>1 DEF SkillTypes
  <2> QED
    BY <1>c, <1>i, <2>1, <2>2, <2>3 DEF Changing
<1>11. ASSUME NEW t \in SkillsCalls, Skills!Unrecord(t) PROVE SkillDrafts'
  <2>1. /\ at[t] = "idle" /\ packageMu = Nothing /\ at[Boot] = "ready"
        /\ \/ at' = [at EXCEPT ![t] = "answered"]
           \/ /\ at' = [at EXCEPT ![t] = "unrecorded"]
              /\ state' = [state EXCEPT !.packages[CallId[t]] = Nothing]
    BY <1>0, <1>11 DEF Skills!Unrecord, Skills!Goto
  <2>2. \A u \in SkillsCalls : u # t => at'[u] \notin Changing
    BY <1>0, <2>1 DEF SkillTypes, SkillTurns
  <2>3. at'[t] \notin {"staged", "cleared", "swapped"} /\ Gone(t)'
    BY <1>0, <2>1 DEF SkillTypes, SkillState
  <2> QED
    BY <1>c, <1>i, <2>1, <2>2, <2>3 DEF Changing
<1>12. ASSUME NEW i \in Ids, Skills!Launch(i) PROVE SkillDrafts'
    BY <1>12, SkillIdKept DEF Skills!Launch, Skills!memory, SkillDrafts, BackedUp
<1>13. ASSUME NEW i \in Ids, Skills!Build(i) PROVE SkillDrafts'
  <2>1. /\ dir[i] \in Package /\ dir' = [dir EXCEPT ![i] = [dir[i] EXCEPT !.bin = TRUE]]
        /\ UNCHANGED <<state, backups, at, draft, packageMu, skillsLeft>>
    BY <1>13 DEF Skills!Build, Skills!memory, SkillTypes
  <2>2. [dir[i] EXCEPT !.bin = TRUE] \in Package
    BY <2>1 DEF Package
  <2>3. \A j \in Ids : Kept(j) => Kept(j)'
    BY <1>0, <2>1, <2>2 DEF SkillTypes, BackedUp
  <2>4. Skills!Id(Boot)' = Skills!Id(Boot)
    BY <2>1, SkillIdKept
  <2>5. Booted'
    BY <1>i, <2>1, <2>3, <2>4
  <2> QED
    BY <1>a, <1>i, <2>1, <2>5
<1>14. CASE Skills!Crash
  <2>1. /\ packageMu' = Nothing /\ UNCHANGED state
        /\ \A t \in SkillsCalls : at'[t] \in {"idle", "lost"}
    BY <1>0, <1>14 DEF Skills!Crash, Skills!Threads, Threads
  <2> QED
    BY <1>0, <1>b, <1>i, <2>1
<1> QED
    BY <1>1, <1>2, <1>3, <1>4, <1>5, <1>6, <1>7, <1>8, <1>9, <1>10, <1>11, <1>12, <1>13, <1>14
    DEF Skills!Next, Skills!Threads, Threads

LEMMA SkillInit == Skills!Parameters /\ Skills!Init => SkillInv
<1> SUFFICES ASSUME Skills!Parameters, Skills!Init PROVE SkillInv
    OBVIOUS
<1>0. /\ Boot \notin SkillsCalls /\ Boot \in Threads /\ SkillsCalls \subseteq Threads
      /\ Nothing \notin Threads /\ Builtin # {} /\ Builtin \subseteq Ids
      /\ \A t \in Threads : t # Boot => Skills!Id(t) = CallId[t]
    BY DEF Skills!Parameters, Threads, Skills!Id
<1>1. /\ dir = Skills!None /\ active = Skills!None /\ seen = Skills!None /\ process = Skills!None
      /\ backups = {} /\ packageMu = Nothing /\ rebuildMu = Nothing /\ skillsLeft = Builtin
      /\ state = [packages |-> Skills!None, next |-> 1] /\ draft = [t \in Threads |-> state]
      /\ skillsNew = [t \in Threads |-> Nothing] /\ versions = 0
      /\ at = [t \in Threads |-> IF t = Boot THEN "next" ELSE "idle"]
    BY DEF Skills!Init, Skills!Threads, Threads
<1>2. SkillTypes
    BY <1>0, <1>1 DEF SkillTypes, SkillState, Skills!None, CallPlaces, BootPlaces
<1>3. SkillTurns
    BY <1>0, <1>1 DEF SkillTurns, Changing
<1>4. SkillMoved /\ SkillDrafts /\ Skills!NothingDestroyed
    BY <1>0, <1>1 DEF SkillMoved, SkillDrafts, Skills!NothingDestroyed, Skills!None, Skills!Mine
<1>5. SkillOrder /\ SkillKnown /\ SkillRuns
    BY <1>0, <1>1 DEF SkillOrder, Ordered, Older, SkillKnown, SkillRuns, Skills!None
<1> QED
    BY <1>2, <1>3, <1>4, <1>5 DEF SkillInv

LEMMA SkillStep == Skills!Parameters /\ SkillInv /\ Skills!Next => SkillInv'
<1> SUFFICES ASSUME Skills!Parameters, SkillInv, Skills!Next PROVE SkillInv'
    OBVIOUS
<1>1. SkillTypes'
    BY SkillTypesStep DEF SkillInv
<1>2. SkillTurns'
    BY <1>1, SkillTurnsStep DEF SkillInv
<1>3. SkillMoved' /\ Skills!NothingDestroyed'
    BY <1>1, <1>2, SkillMovedStep, SkillKeptStep DEF SkillInv
<1>4. SkillDrafts'
    BY <1>1, <1>2, SkillDraftsStep DEF SkillInv
<1>5. SkillOrder' /\ SkillKnown' /\ SkillRuns'
    BY <1>1, <1>2, SkillOrderStep, SkillKnownStep, SkillRunsStep DEF SkillInv
<1> QED
    BY <1>1, <1>2, <1>3, <1>4, <1>5 DEF SkillInv

LEMMA SkillInvariance == BundleSpec => []SkillSafe
<1>1. BundleInit => SkillSafe
    BY FilesAssumption, SkillInit DEF BundleInit, SkillSafe
<1>2. SkillSafe /\ [BundleNext]_bundleVars => SkillSafe'
  <2> SUFFICES ASSUME SkillSafe, [BundleNext]_bundleVars, part' = "skills" PROVE SkillInv'
    BY DEF SkillSafe
  <2>1. SkillInv /\ (Skills!Next \/ UNCHANGED skillsVars)
    BY DEF SkillSafe, BundleNext, bundleVars
  <2>2. CASE UNCHANGED skillsVars
    <3>1. UNCHANGED <<dir, backups, state, packageMu, rebuildMu, at, skillsNew, draft, skillsLeft,
                      seen, active, process, undone, versions>>
      BY <2>2 DEF skillsVars
    <3>2. SkillTypes' /\ SkillTurns' /\ Skills!NothingDestroyed'
      BY <2>1, <3>1 DEF SkillInv, SkillTypes, SkillTurns, Skills!NothingDestroyed
    <3>3. SkillMoved' /\ SkillDrafts'
      BY <2>1, <3>1, SkillIdKept DEF SkillInv, SkillMoved, SkillDrafts, BackedUp, Skills!Mine
    <3>4. SkillOrder' /\ SkillKnown' /\ SkillRuns'
      BY <2>1, <3>1 DEF SkillInv, SkillOrder, Ordered, Older, SkillKnown, SkillRuns, On, Skills!Mine
    <3> QED
      BY <3>2, <3>3, <3>4 DEF SkillInv
  <2> QED
    BY <2>1, <2>2, FilesAssumption, SkillStep
<1> QED
    BY <1>1, <1>2, PTL DEF BundleSpec, bundleVars

\* installCommandPackage, preinstallCommandPackages and uninstallCommandPackage:
\* whatever fails and wherever the device crashes, a package on record is there as
\* a whole.
THEOREM PackagesKept == BundleSpec => []NothingDestroyed
<1>1. SkillSafe => NothingDestroyed
    BY DEF SkillSafe, NothingDestroyed, SkillInv
<1> QED
    BY <1>1, SkillInvariance, PTL

\* Hub.rebuild: the record of a package tells its processes apart, so that once
\* the calls that changed it are through no process of an old version is left.
THEOREM ProcessesCurrent == BundleSpec => []RunningIsInstalled
<1>1. SkillSafe => RunningIsInstalled
  <2> SUFFICES ASSUME SkillInv, NEW i \in Ids \ undone, process[i] # Nothing,
                      \A t \in SkillsCalls : CallId[t] = i => at[t] \in {"idle", "answered", "lost"}
               PROVE  dir[i] # Nothing /\ process[i] = dir[i].version
    BY DEF SkillSafe, RunningIsInstalled, Skills!RunningIsInstalled
  <2>1. ~On(i, Recent \cup {"collected"}) /\ ~On(i, {"cleared", "swapped", "undoing"})
    BY DEF On, Recent
  <2>2. active[i] = state.packages[i]
    BY <2>1 DEF SkillInv, SkillKnown
  <2> QED
    BY <2>1, <2>2 DEF SkillInv, SkillRuns
<1> QED
    BY <1>1, SkillInvariance, PTL

-----------------------------------------------------------------------------
(* Remote transfers.                                                        *)

\* The names still to be copied are those of the operation under way.
RemoteTypes ==
    /\ DOMAIN local = RemoteFiles /\ DOMAIN whole = RemoteFiles
    /\ remoteOp \in 1..Len(Batch) /\ todo \in Seq(RemoteFiles)
    /\ \A k \in 1..Len(todo) : Remote!Contains(Batch[remoteOp].files, todo[k])
    /\ phase \in {"copy", "open", "stream", "close", "over"}
    /\ phase \in {"open", "stream", "close"} => todo # <<>>
    /\ ended = "no" <=> phase # "over"

\* The part file is what get has read so far, and there is none at any other
\* time; what comes to be installed has been read to the end.
RemoteParts ==
    /\ remotePart = IF Remote!Kind = "get" /\ phase \in {"stream", "close"} THEN copied ELSE RemoteAbsent
    /\ phase = "close" /\ Remote!Receiving => copied \in whole[Remote!File]

OnlyGot(f) == \A i \in DOMAIN Batch : Batch[i].kind # "get" => ~Remote!Contains(Batch[i].files, f)
RemoteWhole == \A f \in RemoteFiles : OnlyGot(f) => local[f] \in whole[f]

RemoteInv == RemoteTypes /\ RemoteParts /\ RemoteWhole
RemoteSafe == part = "remote" => RemoteInv

LEMMA RemoteBatch ==
    ASSUME Remote!Parameters
    PROVE  1 \in 1..Len(Batch) /\ \A n \in 1..Len(Batch) : Batch[n].files \in Seq(RemoteFiles)
<1> DEFINE Operations == [kind : {"get", "put", "pull", "push"}, files : Seq(RemoteFiles)]
<1>1. Batch # <<>> /\ Batch \in Seq(Operations)
    BY DEF Remote!Parameters
<1>2. \A o \in Operations : o.files \in Seq(RemoteFiles)
    OBVIOUS
<1> HIDE DEF Operations
<1>3. 1 \in 1..Len(Batch) /\ \A n \in 1..Len(Batch) : Batch[n] \in Operations
    BY <1>1
<1> QED
    BY <1>2, <1>3

LEMMA RemoteInit == Remote!Parameters /\ Remote!Init => RemoteInv
<1> SUFFICES ASSUME Remote!Parameters, Remote!Init PROVE RemoteInv
    OBVIOUS
<1>1. 1 \in 1..Len(Batch) /\ Batch[1].files \in Seq(RemoteFiles)
    BY RemoteBatch
<1>2. RemoteTypes
    BY <1>1 DEF Remote!Init, RemoteTypes, Remote!Contains
<1>3. RemoteParts /\ RemoteWhole
    BY DEF Remote!Init, RemoteParts, RemoteWhole
<1> QED
    BY <1>2, <1>3 DEF RemoteInv

\* What is written into under its own name is not only downloaded by get.
LEMMA RemoteFile ==
    ASSUME Remote!Parameters, RemoteTypes, todo # <<>>
    PROVE  Remote!File \in RemoteFiles /\ (Remote!Kind # "get" => ~OnlyGot(Remote!File))
<1>1. 1 \in 1..Len(todo) /\ todo[1] \in RemoteFiles
    BY DEF RemoteTypes
<1>2. Remote!Contains(Batch[remoteOp].files, todo[1]) /\ remoteOp \in DOMAIN Batch
    BY <1>1 DEF RemoteTypes, Remote!Parameters
<1> QED
    BY <1>1, <1>2 DEF OnlyGot, Remote!File, Remote!Kind

LEMMA RemoteStep == Remote!Parameters /\ RemoteInv /\ Remote!Next => RemoteInv'
<1> SUFFICES ASSUME Remote!Parameters, RemoteTypes, RemoteParts, RemoteWhole, Remote!Next
             PROVE  RemoteTypes' /\ RemoteParts' /\ RemoteWhole'
    BY DEF RemoteInv
<1> USE DEF Remote!fileVars, Remote!Abort
\* A step within one operation that copies the same files.
<1>a. UNCHANGED remoteOp => Remote!Kind' = Remote!Kind /\ Remote!Receiving' = Remote!Receiving
    BY DEF Remote!Kind, Remote!Receiving
<1>b. UNCHANGED todo => Remote!File' = Remote!File
    BY DEF Remote!File
<1>1. ASSUME NEW f \in RemoteFiles, Remote!Write(f) PROVE RemoteTypes' /\ RemoteParts' /\ RemoteWhole'
  <2>1. /\ UNCHANGED <<remotePart, remoteOp, todo, phase, copied, ended>>
        /\ \/ UNCHANGED <<local, whole>>
           \/ \E v : local' = [local EXCEPT ![f] = v] /\ whole' = [whole EXCEPT ![f] = @ \cup {local'[f]}]
    BY <1>1 DEF Remote!Write
  <2>2. DOMAIN local' = DOMAIN local /\ DOMAIN whole' = DOMAIN whole
    BY <2>1
  <2>3. \A g \in RemoteFiles : /\ whole[g] \subseteq whole'[g]
                               /\ local'[g] = local[g] \/ local'[g] \in whole'[g]
    BY <2>1 DEF RemoteTypes
  <2>4. todo # <<>> => Remote!File \in RemoteFiles
    BY RemoteFile
  <2>5. RemoteTypes'
    BY <2>1, <2>2 DEF RemoteTypes
  <2>6. RemoteParts'
    BY <1>a, <1>b, <2>1, <2>3, <2>4 DEF RemoteParts, RemoteTypes
  <2>7. RemoteWhole'
    BY <2>3 DEF RemoteWhole
  <2> QED
    BY <2>5, <2>6, <2>7
<1>2. CASE Remote!Enter
  <2>1. /\ UNCHANGED <<local, remotePart, remoteOp, todo, copied, whole>> /\ phase = "copy" /\ todo # <<>>
        /\ \/ phase' = "open" /\ ended' = "no"
           \/ phase' = "over" /\ ended' = "failed"
    BY <1>2 DEF Remote!Enter
  <2> QED
    BY <1>a, <2>1 DEF RemoteTypes, RemoteParts, RemoteWhole
<1>3. CASE Remote!Open
  <2>1. /\ UNCHANGED <<remoteOp, todo, ended, whole>> /\ phase = "open" /\ phase' = "stream" /\ copied' = <<>>
        /\ remotePart' = IF Remote!Kind = "get" THEN <<>> ELSE remotePart
        /\ local' = IF Remote!Kind = "pull" THEN [local EXCEPT ![Remote!File] = <<>>] ELSE local
    BY <1>3 DEF Remote!Open
  <2>2. Remote!File \in RemoteFiles /\ (Remote!Kind # "get" => ~OnlyGot(Remote!File))
    BY <2>1, RemoteFile DEF RemoteTypes
  <2>3. RemoteTypes'
    BY <2>1 DEF RemoteTypes
  <2>4. RemoteParts'
    BY <1>a, <2>1 DEF RemoteParts
  <2>5. RemoteWhole'
    BY <2>1, <2>2 DEF RemoteWhole, RemoteTypes
  <2> QED
    BY <2>3, <2>4, <2>5
<1>4. CASE Remote!Stream
  <2> DEFINE now == Append(copied, Remote!Source[Len(copied) + 1])
  <2>1. /\ UNCHANGED <<remoteOp, todo, phase, ended, whole>> /\ phase = "stream" /\ copied' = now
        /\ remotePart' = IF Remote!Kind = "get" THEN now ELSE remotePart
        /\ local' = IF Remote!Kind = "pull" THEN [local EXCEPT ![Remote!File] = now] ELSE local
    BY <1>4 DEF Remote!Stream
  <2> HIDE DEF now
  <2>2. Remote!File \in RemoteFiles /\ (Remote!Kind # "get" => ~OnlyGot(Remote!File))
    BY <2>1, RemoteFile DEF RemoteTypes
  <2>3. RemoteTypes'
    BY <2>1 DEF RemoteTypes
  <2>4. RemoteParts'
    BY <1>a, <2>1 DEF RemoteParts
  <2>5. RemoteWhole'
    BY <2>1, <2>2 DEF RemoteWhole, RemoteTypes
  <2> QED
    BY <2>3, <2>4, <2>5
<1>5. CASE Remote!StreamEnds
  <2>1. /\ UNCHANGED <<local, remotePart, remoteOp, todo, copied, ended>>
        /\ phase = "stream" /\ phase' = "close" /\ Len(copied) >= Len(Remote!Source)
        /\ whole' = IF Remote!Receiving THEN [whole EXCEPT ![Remote!File] = @ \cup {copied}] ELSE whole
    BY <1>5 DEF Remote!StreamEnds, Remote!AtEnd
  <2>2. Remote!File \in RemoteFiles
    BY <2>1, RemoteFile DEF RemoteTypes
  <2>3. RemoteTypes'
    BY <2>1 DEF RemoteTypes
  <2>4. /\ \A g \in RemoteFiles : whole[g] \subseteq whole'[g]
        /\ Remote!Receiving => copied \in whole'[Remote!File]
    BY <2>1, <2>2 DEF RemoteTypes
  <2>5. RemoteParts'
    BY <1>a, <1>b, <2>1, <2>4 DEF RemoteParts
  <2>6. RemoteWhole'
    BY <2>1, <2>4 DEF RemoteWhole
  <2> QED
    BY <2>3, <2>5, <2>6
<1>6. CASE Remote!OpenFails \/ Remote!StreamFails \/ Remote!InstallFails
  <2>1. /\ UNCHANGED <<local, remoteOp, todo, copied, whole>> /\ phase' = "over" /\ ended' = "failed"
        /\ remotePart' = RemoteAbsent
    BY <1>6 DEF Remote!OpenFails, Remote!StreamFails, Remote!InstallFails, Remote!RemovePart, RemoteParts
  <2> QED
    BY <2>1 DEF RemoteTypes, RemoteParts, RemoteWhole
<1>7. CASE Remote!Install
  <2>1. /\ UNCHANGED <<remoteOp, ended, whole>> /\ phase = "close" /\ phase' = "copy" /\ todo' = Tail(todo)
        /\ local' = IF Remote!Kind = "get" THEN [local EXCEPT ![Remote!File] = remotePart] ELSE local
        /\ remotePart' = RemoteAbsent
    BY <1>7 DEF Remote!Install
  <2>2. Remote!File \in RemoteFiles /\ todo # <<>>
    BY <2>1, RemoteFile DEF RemoteTypes
  <2>3. todo' \in Seq(RemoteFiles) /\ \A k \in 1..Len(todo') : k + 1 \in 1..Len(todo) /\ todo'[k] = todo[k + 1]
    BY <2>1, <2>2 DEF RemoteTypes
  <2>4. RemoteTypes'
    BY <2>1, <2>3 DEF RemoteTypes
  <2>5. RemoteParts'
    BY <2>1 DEF RemoteParts
  <2>6. Remote!Kind = "get" => remotePart \in whole[Remote!File]
    BY <2>1 DEF RemoteParts, Remote!Receiving
  <2>7. RemoteWhole'
    BY <2>1, <2>2, <2>6 DEF RemoteWhole, RemoteTypes
  <2> QED
    BY <2>4, <2>5, <2>7
<1>8. CASE Remote!NextOperation
  <2>1. UNCHANGED <<local, remotePart, copied, whole>> /\ phase = "copy" /\ todo = <<>>
    BY <1>8 DEF Remote!NextOperation
  <2>2. CASE remoteOp = Len(Batch)
    <3>1. ended' = "ok" /\ phase' = "over" /\ UNCHANGED <<remoteOp, todo>>
      BY <1>8, <2>2 DEF Remote!NextOperation
    <3> QED
      BY <2>1, <3>1 DEF RemoteTypes, RemoteParts, RemoteWhole
  <2>3. CASE remoteOp # Len(Batch)
    <3>1. /\ remoteOp' = remoteOp + 1 /\ todo' = Batch[remoteOp'].files /\ UNCHANGED <<ended, phase>>
      BY <1>8, <2>3 DEF Remote!NextOperation
    <3>2. remoteOp' \in 1..Len(Batch)
      BY <2>3, <3>1 DEF RemoteTypes
    <3>3. Batch[remoteOp'].files \in Seq(RemoteFiles)
      BY <3>2, RemoteBatch
    <3>4. RemoteTypes'
      BY <2>1, <3>1, <3>2, <3>3 DEF RemoteTypes, Remote!Contains
    <3> QED
      BY <2>1, <3>1, <3>4 DEF RemoteParts, RemoteWhole
  <2> QED
    BY <2>2, <2>3
<1> QED
    BY <1>1, <1>2, <1>3, <1>4, <1>5, <1>6, <1>7, <1>8 DEF Remote!Next

LEMMA RemoteInvariance == BundleSpec => []RemoteSafe
<1>1. BundleInit => RemoteSafe
    BY FilesAssumption, RemoteInit DEF BundleInit, RemoteSafe
<1>2. RemoteSafe /\ [BundleNext]_bundleVars => RemoteSafe'
  <2> SUFFICES ASSUME RemoteSafe, [BundleNext]_bundleVars, part' = "remote" PROVE RemoteInv'
    BY DEF RemoteSafe
  <2>1. RemoteInv /\ (Remote!Next \/ UNCHANGED remoteVars)
    BY DEF RemoteSafe, BundleNext, bundleVars
  <2>2. CASE UNCHANGED remoteVars
    BY <2>1, <2>2 DEF remoteVars, RemoteInv, RemoteTypes, RemoteParts, RemoteWhole, Remote!Kind,
        Remote!Receiving, Remote!File
  <2> QED
    BY <2>1, <2>2, FilesAssumption, RemoteStep
<1> QED
    BY <1>1, <1>2, PTL DEF BundleSpec, bundleVars

\* sshTransfer.download: whatever breaks in a batch of transfers, get leaves under a
\* name what was there or a copy of the source to its end, and no part file.
THEOREM DownloadsWhole == BundleSpec => []DownloadsAreWhole
<1>1. RemoteSafe => DownloadsAreWhole
  <2> SUFFICES ASSUME RemoteInv PROVE Remote!DownloadsAreWhole
    BY DEF RemoteSafe, DownloadsAreWhole
  <2>1. ended # "no" => remotePart = RemoteAbsent
    BY DEF RemoteInv, RemoteTypes, RemoteParts
  <2> QED
    BY <2>1 DEF RemoteInv, RemoteWhole, OnlyGot, Remote!DownloadsAreWhole
<1> QED
    BY <1>1, RemoteInvariance, PTL

=============================================================================

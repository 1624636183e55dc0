------------------------------ MODULE EditTool ------------------------------
(* The edit and write tools of scripts (libs/fsx/write.go) with the         *)
(* diagnosis of a failed edit (edit_diagnose.go).  A call reads the file,   *)
(* applies its edits one after the other to what it has read, and writes    *)
(* the result; nothing keeps other calls away meanwhile.                    *)
EXTENDS Integers, FiniteSets, FiniteSetsExt, SequencesExt

CONSTANTS LF, CR,        \* the characters that end a line
          Blank,         \* the blank that normalised text is trimmed of
          Fold,          \* Fold[x]: NFKC and the replacement table, for other characters
          MinAnchor,     \* diagnoseMinAnchor
          Contents,      \* what the file may hold at first
          EditCalls      \* [tool, edits, content]: of "edit" and "write"

Characters == DOMAIN Fold \cup {LF, CR}

\* What the model takes for granted: texts are of these characters, edits replace
\* one by another, and an anchor of nothing is never long enough.
Parameters ==
    /\ MinAnchor \in Nat \ {0} /\ Contents \subseteq Seq(Characters)
    /\ \A c \in EditCalls :
         /\ c.edits \in Seq([old : Seq(Characters), new : Seq(Characters)])
         /\ c.content \in Seq(Characters)

VARIABLES text,          \* the file
          tool           \* tool[c]: a call - where it is, what it has read and found

editVars == <<text, tool>>

-----------------------------------------------------------------------------
(* Searching.  Positions and lines count from 1.                            *)

Places(t, old) == {i \in 1..(Len(t) - Len(old) + 1) : SubSeq(t, i, i + Len(old) - 1) = old}

\* strings.Count: occurrences that do not overlap, from the left.
SeveralTimes(t, old) == \E i \in Places(t, old) : i >= Min(Places(t, old)) + Len(old)

\* The offsets of line starts are searched by bisection.
LineOf(t, i) == 1 + Cardinality({j \in 1..(i - 1) : t[j] = LF})

\* Each occurrence, the overlapping ones too.
MatchLines(t, old) == {LineOf(t, i) : i \in Places(t, old)}

-----------------------------------------------------------------------------
(* Normalising: a character, or a line end of two, is a segment; segments   *)
(* of blanks at the end of a line are dropped.                              *)

LineEnd(t, i) == t[i] \in {LF, CR}
Folded(x) == IF x = CR THEN LF ELSE IF x = LF THEN LF ELSE Fold[x]
SecondHalf(t, i) == i > 1 /\ t[i] = LF /\ t[i - 1] = CR
Trailing(t, i) == /\ ~LineEnd(t, i) /\ Folded(t[i]) = Blank
                  /\ \A j \in i..Len(t) :
                       (\A k \in i..j : ~LineEnd(t, k)) => Folded(t[j]) = Blank

\* The start of each segment in the original.
Segments(t) ==
    LET found[i \in 0..Len(t)] ==
            IF i = 0 THEN << >>
            ELSE IF SecondHalf(t, i) \/ Trailing(t, i) THEN found[i - 1]
            ELSE Append(found[i - 1], i)
    IN  found[Len(t)]
Normal(t) == LET segs == Segments(t) IN [k \in DOMAIN segs |-> Folded(t[segs[k]])]

\* The length once blanks at both ends are taken away (strings.TrimSpace).
Trimmed(t) == LET S == {i \in DOMAIN t : t[i] \notin {Blank, LF}}
              IN  IF S = {} THEN 0 ELSE Max(S) - Min(S) + 1

\* strings.Split at LF.
LinesOf(t) == [n \in 1..LineOf(t, Len(t) + 1) |->
                 LET S == {i \in DOMAIN t : LineOf(t, i) = n /\ t[i] # LF}
                 IN  IF S = {} THEN << >> ELSE SubSeq(t, Min(S), Max(S))]

\* The first line of the anchor that is not blank and the longest one.
Anchors(old) ==
    LET real == SelectSeq(LinesOf(old), LAMBDA l : Trimmed(l) > 0)
    IN  IF real = << >> THEN {}
        ELSE {real[1], real[CHOOSE k \in DOMAIN real :
                              /\ \A j \in DOMAIN real : Len(real[j]) <= Len(real[k])
                              /\ \A j \in 1..(k - 1) : Len(real[j]) < Len(real[k])]}

Bigrams(a) == [g \in {SubSeq(a, k, k + 1) : k \in 1..(Len(a) - 1)} |-> Cardinality(Places(a, g))]
Common(A, B) == FoldSet(LAMBDA g, n : n + Min({A[g], B[g]}), 0, DOMAIN A \cap DOMAIN B)

\* bigramDice in hundredths.
Dice(a, b) == IF a = << >> \/ b = << >> THEN 0
              ELSE IF Len(a) < 2 \/ Len(b) < 2 THEN IF a = b THEN 100 ELSE 0
              ELSE (200 * Common(Bigrams(a), Bigrams(b))) \div (Len(a) + Len(b) - 2)

\* (An operator whose name ends in Bug is a faulty variant of the one after it.)
Mapped_RawBug(segs, k) == k
\* mapFuzzyRangeToOriginal: where a position of the normalised text came from.
Mapped(segs, k) == segs[k]

NoNear == [kind |-> "none", line |-> 0]

\* nearest: a place that is the same when normalised, else the most similar line.
Nearest(t, old) ==
    LET n == Normal(t)  m == Normal(old)
        score(l) == Max({0} \cup {Dice(a, Normal(LinesOf(t)[l])) : a \in Anchors(m)})
        L == DOMAIN LinesOf(t)
        best == Min({l \in L : \A k \in L : score(k) <= score(l)})
    IN  IF Trimmed(m) < MinAnchor THEN NoNear
        ELSE IF Places(n, m) # {}
             THEN [kind |-> "normalized", line |-> LineOf(t, Mapped(Segments(t), Min(Places(n, m))))]
        ELSE IF score(best) >= 60 THEN [kind |-> "similar", line |-> best]
        ELSE NoNear

-----------------------------------------------------------------------------
Init == /\ text \in Contents
        /\ tool = [c \in EditCalls |-> [at |-> "idle", read |-> << >>, now |-> << >>, next |-> 1,
                                        applied |-> {}, failures |-> {}]]

\* A bad request, a path that policy refuses, no file or no text; and a file
\* that could not be read.
Refuse(c) ==
    /\ tool[c].at = "idle" /\ tool' = [tool EXCEPT ![c].at = "error"]
    /\ UNCHANGED text

Read(c) ==
    /\ tool[c].at = "idle" /\ c.tool = "edit"
    /\ tool' = [tool EXCEPT ![c].at = "apply", ![c].read = text, ![c].now = text]
    /\ UNCHANGED text

\* A diagnoser is made from the text after each edit that was applied.
Diagnosed(c) == tool[c].now

Failure(c, reason, lines, nearest) ==
    [i |-> tool[c].next, reason |-> reason, lines |-> lines, nearest |-> nearest,
     in |-> tool[c].now]

Apply(c) ==
    /\ tool[c].at = "apply" /\ tool[c].next <= Len(c.edits)
    /\ LET e == c.edits[tool[c].next]
           t == tool[c].now
           first == Min(Places(t, e.old))
           failed(reason, lines, near) ==
               tool' = [tool EXCEPT ![c].next = @ + 1,
                          ![c].failures = @ \cup {Failure(c, reason, lines, near)}]
       IN  IF e.old = << >> THEN failed("empty-oldText", {}, NoNear)
           ELSE IF e.new = e.old THEN failed("identical-old-new", {}, NoNear)
           ELSE IF Places(t, e.old) = {}
                THEN failed("not-found", {}, Nearest(Diagnosed(c), e.old))
           ELSE IF SeveralTimes(t, e.old)
                THEN failed("ambiguous", MatchLines(Diagnosed(c), e.old), NoNear)
           ELSE tool' = [tool EXCEPT ![c].next = @ + 1,
                  ![c].now = SubSeq(t, 1, first - 1) \o e.new \o SubSeq(t, first + Len(e.old), Len(t)),
                  ![c].applied = @ \cup {tool[c].next}]
    /\ UNCHANGED text

\* All edits have been tried; the file is written only if one was applied.
Store(c) ==
    /\ tool[c].at = "apply" /\ tool[c].next > Len(c.edits)
    /\ IF tool[c].applied = {}
       THEN tool' = [tool EXCEPT ![c].at = "answered"] /\ UNCHANGED text
       ELSE \/ tool' = [tool EXCEPT ![c].at = "answered"] /\ text' = tool[c].now
            \/ tool' = [tool EXCEPT ![c].at = "error"] /\ UNCHANGED text

\* The write tool: directories as needed, then the whole file.
Write(c) ==
    /\ tool[c].at = "idle" /\ c.tool = "write"
    /\ text' = c.content /\ tool' = [tool EXCEPT ![c].at = "answered"]

Next == \E c \in EditCalls : Refuse(c) \/ Read(c) \/ Apply(c) \/ Store(c) \/ Write(c)

Spec == Init /\ [][Next]_editVars

-----------------------------------------------------------------------------
TypeOK ==
    \A c \in EditCalls :
        /\ tool[c].at \in {"idle", "apply", "answered", "error"}
        /\ tool[c].next \in 1..(Len(c.edits) + 1)
        /\ tool[c].at = "answered" /\ c.tool = "edit" =>
             {f.i : f \in tool[c].failures} \cup tool[c].applied = DOMAIN c.edits

\* A diagnosis speaks of the text that the failed edit was tried on, after the
\* edits before it: the lines of an ambiguous one are those where a copy of the
\* old text begins, and from the line of a nearest place "normalized" the file,
\* once normalised, goes on with the old text.
DiagnosisPoints ==
    \A c \in EditCalls : \A f \in tool[c].failures :
        LET old == c.edits[f.i].old
            starts(l) == {i \in DOMAIN f.in : LineOf(f.in, i) = l}
            rest(i) == SubSeq(f.in, i, Len(f.in))
        IN  /\ f.reason = "ambiguous" =>
                 \A l \in 1..(Len(f.in) + 1) :
                     l \in f.lines <=> \E i \in starts(l) : IsPrefix(old, rest(i))
            /\ f.nearest.kind = "normalized" =>
                 \E i \in starts(f.nearest.line) : IsPrefix(Normal(old), Normal(rest(i)))

=============================================================================

---------------------------- MODULE ExecOutput ----------------------------
(* The output of one script run: the two lazily written logs that the      *)
(* engine tees into (LogSpiller, LogPair) and the answers built from them  *)
(* (execScript).  Bytes are counted, never spelled.  The run's goroutine   *)
(* writes and finally closes the logs; the request's goroutine answers,    *)
(* either after the run or, when the wait is over or the caller is gone,   *)
(* while the run still writes.  The disk may fail at any call.             *)
EXTENDS Integers

CONSTANTS Streams,      \* {"stdout", "stderr"}
          Cap,          \* memory kept by a stream, equal to the engine's capture
          PreviewMax,   \* what a preview shows of a stream
          FullMax,      \* RtcToolResponseLimit, over both streams
          MaxTotal      \* bound: bytes one run writes to one stream

\* Sizes are counts of bytes.
Parameters == Cap \in Nat /\ PreviewMax \in Nat /\ FullMax \in Nat /\ MaxTotal \in Nat

VARIABLES total,    \* total[s]: bytes the program has written
          log,      \* log[s]: the LogSpiller
          lost,     \* lost[s]: bytes a file write of an open log refused
          size,     \* size[s]: what CloseResult recorded of a truncated stream
          run,      \* the run's goroutine: "runs", "sized", "closed", "done"
          direct,   \* the caller is an RTC peer: full answers, no background
          ask,      \* the request's goroutine: "waits", "late", "checked", "answered"
          answer    \* what it answered

outVars == <<total, log, lost, size, run, direct, ask, answer>>

NoFile == -1
Least(a, b) == IF a < b THEN a ELSE b

Fresh == [buf |-> 0, file |-> NoFile, open |-> FALSE, spilled |-> FALSE,
          closed |-> FALSE, err |-> FALSE]
NoAnswer == [kind |-> "none", fault |-> FALSE, shown |-> [s \in Streams |-> 0],
             paths |-> {}, cut |-> FALSE]

Captured(s)  == Least(total[s], Cap)     \* the engine's own copy
Truncated(s) == total[s] > Cap

Init == /\ total = [s \in Streams |-> 0]
        /\ log   = [s \in Streams |-> Fresh]
        /\ lost  = [s \in Streams |-> 0]
        /\ size  = [s \in Streams |-> 0]
        /\ run = "runs"
        /\ direct \in BOOLEAN
        /\ ask = "waits"
        /\ answer = NoAnswer

-----------------------------------------------------------------------------
(* LogSpiller.  disk = FALSE: the file operation at hand fails.            *)

\* (An operator whose name ends in Bug is a faulty variant of the one after it.)
\* The buffered head is forgotten.
SpillLocked_LostHeadBug(l, disk) ==
    IF disk THEN [l EXCEPT !.file = 0, !.buf = 0, !.open = TRUE, !.spilled = TRUE]
            ELSE [l EXCEPT !.err = TRUE]
\* spillLocked: the file is created and the buffered head goes into it; a
\* failure keeps the head in memory and the error for good.
SpillLocked(l, disk) ==
    IF disk THEN [l EXCEPT !.file = l.buf, !.buf = 0, !.open = TRUE, !.spilled = TRUE]
            ELSE [l EXCEPT !.err = TRUE]

\* Spill: idempotent, and after Close it closes what it created.
Spilling(l, disk) ==
    IF l.err THEN l
    ELSE LET m == IF l.spilled THEN l ELSE SpillLocked(l, disk)
         IN  IF m.closed THEN [m EXCEPT !.open = FALSE] ELSE m

SpilledOk(l) == l.spilled /\ ~l.err

\* Write of n bytes: k of them reach an open file when the disk fails there.
Write(s) ==
    /\ run = "runs"
    /\ \E n \in 1..(MaxTotal - total[s]), disk \in BOOLEAN :
         /\ total' = [total EXCEPT ![s] = @ + n]
         /\ LET l == log[s]
                over == ~l.spilled /\ l.buf + n > Cap
                m == IF over THEN SpillLocked(l, disk) ELSE l
            IN  \/ /\ l.err
                   /\ UNCHANGED <<log, lost>>
                \/ /\ ~l.err /\ ~l.spilled /\ ~over
                   /\ log' = [log EXCEPT ![s].buf = @ + n]
                   /\ UNCHANGED lost
                \/ /\ ~l.err /\ over /\ m.err
                   /\ log' = [log EXCEPT ![s] = m]
                   /\ UNCHANGED lost
                \/ /\ ~l.err /\ (l.spilled \/ over) /\ ~m.err
                   /\ \E k \in IF disk \/ over THEN {n} ELSE 0..(n - 1) :
                        /\ log' = [log EXCEPT ![s] = [m EXCEPT !.file = @ + k]]
                        /\ lost' = [lost EXCEPT ![s] = @ + n - k]
    /\ UNCHANGED <<size, run, direct, ask, answer>>

\* CloseResult, first loop: the size of each truncated stream.
TakeSizes ==
    /\ run = "runs"
    /\ size' = [s \in Streams |-> IF ~Truncated(s) THEN 0
                                  ELSE IF log[s].spilled THEN log[s].file ELSE log[s].buf]
    /\ run' = "sized"
    /\ UNCHANGED <<total, log, lost, direct, ask, answer>>

\* CloseResult, then both Closes: closing may fail too; unspilled heads stay.
CloseLogs ==
    /\ run = "sized"
    /\ \E bad \in SUBSET {s \in Streams : log[s].open} :
         log' = [s \in Streams |-> [log[s] EXCEPT !.closed = TRUE, !.open = FALSE,
                                                  !.err = @ \/ s \in bad]]
    /\ run' = "closed"
    /\ UNCHANGED <<total, lost, size, direct, ask, answer>>

\* The task table publishes the end of the run: whoever waits is released.
Finish ==
    /\ run = "closed" /\ run' = "done"
    /\ UNCHANGED <<total, log, lost, size, direct, ask, answer>>

-----------------------------------------------------------------------------
(* execScript: the answers.                                                *)

Attached == {s \in Streams : SpilledOk(log[s])}

\* The wait elapsed, the run went to the background or the caller left: the
\* logs are forced to disk one after the other while the run goes on writing.
BecomesLate ==
    /\ ask = "waits" /\ ask' = "late"
    /\ UNCHANGED <<total, log, lost, size, run, direct, answer>>

SpillAll(s) ==
    /\ ask = "late" /\ ~log[s].spilled /\ ~log[s].err
    /\ \E disk \in BOOLEAN : log' = [log EXCEPT ![s] = Spilling(@, disk)]
    /\ UNCHANGED <<total, lost, size, run, direct, ask, answer>>

AnswerLate ==
    /\ ask = "late" /\ \A s \in Streams : log[s].spilled \/ log[s].err
    /\ ask' = "answered"
    /\ answer' = [NoAnswer EXCEPT !.kind = "late", !.paths = Attached]
    /\ UNCHANGED <<total, log, lost, size, run, direct>>

Fault == [NoAnswer EXCEPT !.kind = "done", !.fault = TRUE, !.paths = Attached]

\* The engine failed and left no result: the logs are all there is.
AnswerFailed ==
    /\ ask = "waits" /\ run = "done"
    /\ \E disk \in [Streams -> BOOLEAN] :
         log' = [s \in Streams |-> Spilling(log[s], disk[s])]
    /\ ask' = "answered"
    /\ answer' = [NoAnswer EXCEPT !.kind = "done", !.fault = TRUE, !.paths = Attached']
    /\ UNCHANGED <<total, lost, size, run, direct>>

\* Settle's refusals: a sticky error, or a truncated capture with no log.
CannotSettle == \E s \in Streams : log[s].err \/ (Truncated(s) /\ ~SpilledOk(log[s]))

\* Settle: what a preview will cut is spilled first.
Settle ==
    /\ ask = "waits" /\ run = "done"
    /\ \/ /\ CannotSettle
          /\ ask' = "answered" /\ answer' = [Fault EXCEPT !.paths = {}]
          /\ UNCHANGED log
       \/ /\ ~CannotSettle
          /\ \E disk \in [Streams -> BOOLEAN] :
               LET cut == {s \in Streams : ~direct /\ Captured(s) > PreviewMax}
                   spilt == [s \in Streams |->
                               IF s \in cut THEN Spilling(log[s], disk[s]) ELSE log[s]]
               IN  /\ log' = spilt
                   /\ IF \E s \in Streams : spilt[s].err
                      THEN ask' = "answered" /\ answer' = [Fault EXCEPT !.paths = {}]
                      ELSE ask' = "checked" /\ UNCHANGED answer
    /\ UNCHANGED <<total, lost, size, run, direct>>

\* Completed, not direct: the bounded view.
AnswerPreview ==
    /\ ask = "checked" /\ ~direct
    /\ ask' = "answered"
    /\ answer' = [NoAnswer EXCEPT !.kind = "done", !.paths = Attached,
                    !.shown = [s \in Streams |-> Least(Captured(s), PreviewMax)],
                    !.cut = \E s \in Streams : Truncated(s) \/ Captured(s) > PreviewMax]
    /\ UNCHANGED <<total, log, lost, size, run, direct>>

Bytes(s) == IF Truncated(s) THEN size[s] ELSE Captured(s)
Whole == [s \in Streams |-> Bytes(s)]
Refused == \/ \E s \in Streams : Bytes(s) < Captured(s)
           \/ Whole["stdout"] + Whole["stderr"] > FullMax

\* Completed, direct: truncated streams are read back from their closed logs.
AnswerFull ==
    /\ ask = "checked" /\ direct
    /\ ask' = "answered"
    /\ \E readable \in BOOLEAN :
         answer' = IF Refused \/ (~readable /\ \E s \in Streams : Truncated(s)) THEN Fault
                   ELSE [NoAnswer EXCEPT !.kind = "done", !.paths = Attached, !.shown = Whole]
    /\ UNCHANGED <<total, log, lost, size, run, direct>>

Next == \/ \E s \in Streams : Write(s) \/ SpillAll(s)
        \/ TakeSizes \/ CloseLogs \/ Finish
        \/ BecomesLate \/ AnswerLate \/ AnswerFailed
        \/ Settle \/ AnswerPreview \/ AnswerFull

Spec == Init /\ [][Next]_outVars

-----------------------------------------------------------------------------
TypeOK ==
    /\ total \in [Streams -> 0..MaxTotal]
    /\ log \in [Streams -> [buf : 0..Cap, file : NoFile..MaxTotal, open : BOOLEAN,
                            spilled : BOOLEAN, closed : BOOLEAN, err : BOOLEAN]]
    /\ lost \in [Streams -> 0..MaxTotal]
    /\ size \in [Streams -> NoFile..MaxTotal]
    /\ run \in {"runs", "sized", "closed", "done"} /\ direct \in BOOLEAN
    /\ ask \in {"waits", "late", "checked", "answered"}
    /\ answer \in [kind : {"none", "late", "done"}, fault : BOOLEAN,
                   shown : [Streams -> 0..MaxTotal], paths : SUBSET Streams, cut : BOOLEAN]

\* What the log of s holds is all the program wrote, unless the disk refused
\* part of it.
HoldsAll(s) == log[s].file + lost[s] = total[s]

\* No output goes missing without a word: an answer that is not a fault shows
\* a stream whole, or says it is cut and names a log that has all of it; and a
\* log named by a late answer has everything once the run is over, whatever
\* the spilling, the writing and the closing did in between.
NothingSilentlyLost ==
    ask = "answered" /\ ~answer.fault =>
        \A s \in Streams :
            \/ answer.kind = "done" /\ answer.shown[s] = total[s]
            \/ answer.kind = "done" /\ answer.cut /\ s \in answer.paths /\ HoldsAll(s)
            \/ answer.kind = "done" /\ lost[s] > 0
            \/ answer.kind = "late" /\ s \in answer.paths /\ (log[s].err \/ HoldsAll(s))
            \/ answer.kind = "late" /\ s \notin answer.paths /\ log[s].err

=============================================================================

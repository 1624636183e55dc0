------------------------------- MODULE Upload -------------------------------
(* A staged upload (libs/hostfs/transfer.go): the client sends ranges, its  *)
(* requests are delayed, repeated and overtaken, the disk may take only a   *)
(* part of a range, and sealing makes the bytes immutable.                  *)
EXTENDS Integers, Sequences, FiniteSets

CONSTANTS Sent,      \* the bytes the client means to upload
          Other,     \* what a confused client sends instead for some range
          RangeMax,  \* RangeBytes
          Checked,   \* whether the client gave a SHA-256 when it opened the upload
          MaxCalls   \* bound: requests on their way

Byte == 0..255

\* What a confused client sends has the length of what it means to send.
Parameters == /\ Sent \in Seq(Byte) /\ Other \in Seq(Byte) /\ Len(Other) = Len(Sent)
              /\ RangeMax \in Nat /\ MaxCalls \in Nat /\ Checked \in BOOLEAN

VARIABLES stored,     \* the bytes in the temporary file
          received,   \* the mark up to which ranges were taken
          immutable,  \* sealed
          inFlight,   \* requests that were sent and not served, in any order
          told,       \* the last offset the client was told, with an error or without
          wrong       \* history: the client sent a range that is not of Sent

uploadVars == <<stored, received, immutable, inFlight, told, wrong>>

Init == stored = << >> /\ received = 0 /\ immutable = FALSE
        /\ inFlight = {} /\ told = 0 /\ wrong = FALSE

Part(data, from, n) == SubSeq(data, from + 1, from + n)

-----------------------------------------------------------------------------
(* The client                                                               *)

\* The range at the offset it was told last, or once more one it sent before.
Send ==
    /\ Cardinality(inFlight) < MaxCalls /\ ~immutable
    /\ \E from \in 0..told, n \in 1..RangeMax :
         /\ from + n <= Len(Sent)
         /\ \E data \in {Part(Sent, from, n), Part(Other, from, n)} :
              /\ inFlight' = inFlight \cup {[from |-> from, data |-> data]}
              /\ wrong' = (wrong \/ data # Part(Sent, from, n))
    /\ UNCHANGED <<stored, received, immutable, told>>

-----------------------------------------------------------------------------
(* writeRange                                                               *)

\* A range below the mark: a repetition, if all of it is there and the same.
Repeats(q) == /\ q.from + Len(q.data) <= Len(stored)
              /\ Part(stored, q.from, Len(q.data)) = q.data

\* WriteAt: the disk takes the first n bytes of the range.
Over(n, q) == SubSeq(stored, 1, q.from) \o SubSeq(q.data, 1, n)
              \o SubSeq(stored, q.from + n + 1, Len(stored))

\* (An operator whose name ends in Bug is a faulty variant of the one after it.)
Mark_WholeBug(n, q) == received + Len(q.data)
Mark(n, q) == received + n

\* The answer may be lost; a served request may be delivered again.
WriteRange(q) ==
    /\ \/ /\ immutable \/ q.from > received \/ (q.from < received /\ ~Repeats(q))
          /\ UNCHANGED <<stored, received, told>>
       \/ /\ ~immutable /\ q.from < received /\ Repeats(q)
          /\ told' \in {told, received} /\ UNCHANGED <<stored, received>>
       \/ /\ ~immutable /\ q.from = received
          /\ \E n \in 0..Len(q.data) : stored' = Over(n, q) /\ received' = Mark(n, q)
          /\ told' \in {told, received'}
    /\ inFlight' \in {inFlight, inFlight \ {q}}
    /\ UNCHANGED <<immutable, wrong>>

-----------------------------------------------------------------------------
(* sealUpload: a complete upload, whose hash is the expected one if there is *)
(* one; sealing it again changes nothing.                                   *)

Complete == received = Len(Sent)

Seal == /\ ~immutable /\ Complete /\ (Checked => stored = Sent)
        /\ immutable' = TRUE
        /\ UNCHANGED <<stored, received, inFlight, told, wrong>>

Next == Send \/ Seal \/ \E q \in inFlight : WriteRange(q)

Spec == Init /\ [][Next]_uploadVars

-----------------------------------------------------------------------------
TypeOK == /\ received \in 0..Len(Sent) /\ told \in 0..received
          /\ Len(stored) <= Len(Sent) /\ immutable \in BOOLEAN /\ wrong \in BOOLEAN

\* Whatever was lost, repeated, reordered or written in part, the bytes below
\* the mark are the client's, in their places, and what is sealed is all of
\* them - for a client that never sent two things for one place, or gave a hash.
UploadIsSent ==
    /\ ~wrong => stored = Part(Sent, 0, received)
    /\ immutable /\ (Checked \/ ~wrong) => stored = Sent
=============================================================================

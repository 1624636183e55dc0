------------------------------ MODULE Transfer ------------------------------
(* Files between the device and a server (libs/sshx/transfer.go: scp, sftp)  *)
(* or the platform's cloud (libs/host/pullpush.go): batches of operations,   *)
(* each copying a file or a tree chunk by chunk, over connections that       *)
(* break, from sources that others write, until a caller gives up.           *)
EXTENDS Naturals, Sequences, SequencesExt, FiniteSets

CONSTANTS Files,      \* names; the same ones on both sides
          Batch,      \* the operations: [kind |-> "get" | "put" | "pull" | "push", files |-> names in order]
          MaxFile,    \* the session's size limit in chunks, 0 for none
          MaxWrites,  \* bound: files written by others
          MaxFaults,  \* bound: operations that fail
          Longest,    \* bound: length of a file
          Absent      \* no such file

\* An empty batch copies nothing.
Parameters ==
    /\ Batch # <<>>
    /\ Batch \in Seq([kind : {"get", "put", "pull", "push"}, files : Seq(Files)])

VARIABLES local, remote,  \* the files: sequences of chunks, each named by its writer
          part,      \* the .part file beside the destination, or Absent
          left,      \* parts whose removal failed
          op, todo,  \* index of the operation; its files yet to be copied, in order
          phase,     \* of the file being copied
          copied,    \* what has been read of it
          ended,     \* "no" | "ok" | "failed"
          whole,     \* history: whole[f]: what the destination held before, and complete copies
          writes, faults   \* counted

fileVars == <<local, remote, part, left>>
transferVars == <<fileVars, op, todo, phase, copied, ended, whole, writes, faults>>

Kind == Batch[op].kind
Receiving == Kind \in {"get", "pull"}
File == todo[1]
Source == IF Receiving THEN remote[File] ELSE local[File]
Fault == faults < MaxFaults /\ faults' = faults + 1

Init == /\ local \in [Files -> {Absent, <<"here">>}] /\ remote \in [Files -> {Absent, <<"there", "there">>}]
        /\ part = Absent /\ left = {} /\ op = 1 /\ todo = Batch[1].files /\ phase = "copy"
        /\ copied = <<>> /\ ended = "no" /\ writes = 0 /\ faults = 0
        /\ whole = [f \in Files |-> {local[f]}]

\* Somebody else writes a file in place, on either side.
Write(f) ==
    /\ writes < MaxWrites /\ writes' = writes + 1
    /\ \E n \in 1..Longest :
         \/ remote' = [remote EXCEPT ![f] = [i \in 1..n |-> "new"]] /\ UNCHANGED <<local, whole>>
         \/ /\ local' = [local EXCEPT ![f] = [i \in 1..n |-> "mine"]] /\ UNCHANGED remote
            /\ whole' = [whole EXCEPT ![f] = @ \cup {local'[f]}]
    /\ UNCHANGED <<part, left, op, todo, phase, copied, ended, faults>>

-----------------------------------------------------------------------------
(* copy of one file, and the batch around it.                                *)

\* The first error ends the batch, and so does the caller's giving up.
Abort == ended' = "failed" /\ phase' = "over"

\* Source and destination are looked at.
Enter ==
    /\ ended = "no" /\ phase = "copy" /\ todo # <<>>
    /\ IF Source = Absent \/ (Kind \in {"get", "put"} /\ MaxFile > 0 /\ Len(Source) > MaxFile)
       THEN Abort ELSE phase' = "open" /\ UNCHANGED ended
    /\ UNCHANGED <<fileVars, op, todo, copied, whole, writes, faults>>

\* get reads into a new file of a random name; the others write into the
\* destination itself, which is cut off first; push has the server do it.
Open ==
    /\ phase = "open" /\ phase' = "stream" /\ copied' = <<>>
    /\ part' = IF Kind = "get" THEN <<>> ELSE part
    /\ local' = IF Kind = "pull" THEN [local EXCEPT ![File] = <<>>] ELSE local
    /\ remote' = IF Kind = "put" THEN [remote EXCEPT ![File] = <<>>] ELSE remote
    /\ UNCHANGED <<left, op, todo, ended, whole, writes, faults>>

OpenFails == /\ phase = "open" /\ Fault /\ Abort
             /\ UNCHANGED <<fileVars, op, todo, copied, whole, writes>>

\* One chunk more, to where it goes.
Full == MaxFile > 0 /\ Len(copied) = MaxFile
Stream ==
    /\ phase = "stream" /\ Source # Absent /\ Len(copied) < Len(Source)
    /\ ~(Full /\ Kind \in {"get", "put"})
    /\ LET now == Append(copied, Source[Len(copied) + 1])
       IN /\ copied' = now
          /\ part' = IF Kind = "get" THEN now ELSE part
          /\ local' = IF Kind = "pull" THEN [local EXCEPT ![File] = now] ELSE local
          /\ remote' = IF Kind = "put" THEN [remote EXCEPT ![File] = now] ELSE remote
    /\ UNCHANGED <<left, op, todo, phase, ended, whole, writes, faults>>

\* The end of the source.  At the limit one byte more is asked for, so that a
\* file that has grown since is not taken for complete.
\* (An operator whose name ends in Bug is a faulty variant of the one after it.)
AtEnd_LimitBug == Len(copied) >= Len(Source) \/ Full
AtEnd == Len(copied) >= Len(Source)

StreamEnds ==
    /\ phase = "stream" /\ AtEnd /\ phase' = "close"
    /\ whole' = IF Receiving /\ Len(copied) >= Len(Source)
                THEN [whole EXCEPT ![File] = @ \cup {copied}] ELSE whole
    /\ UNCHANGED <<fileVars, op, todo, copied, ended, writes, faults>>

\* The part is removed, which may fail and is then reported; what else has been
\* written stays.
RemovePart(removed) ==
    /\ part' = Absent
    /\ left' = IF part # Absent /\ ~removed THEN left \cup {File} ELSE left

\* The connection breaks, the disk is full, the caller gives up, the file has
\* grown beyond the limit.
StreamFails ==
    /\ phase = "stream" /\ Abort
    /\ \E removed \in BOOLEAN :
         /\ RemovePart(removed)
         /\ IF Full /\ ~AtEnd /\ removed /\ Kind \in {"get", "put"} THEN UNCHANGED faults
            ELSE IF removed THEN Fault ELSE faults + 2 <= MaxFaults /\ faults' = faults + 2
    /\ UNCHANGED <<local, remote, op, todo, copied, whole, writes>>

\* Synced and closed, a complete part takes the place of the destination; the
\* server has the whole of a pushed file, or refuses it.
Install ==
    /\ phase = "close" /\ phase' = "copy" /\ todo' = Tail(todo)
    /\ local' = IF Kind = "get" THEN [local EXCEPT ![File] = part] ELSE local
    /\ remote' = IF Kind = "push" THEN [remote EXCEPT ![File] = copied] ELSE remote
    /\ part' = Absent
    /\ UNCHANGED <<left, op, copied, ended, whole, writes, faults>>

InstallFails ==
    /\ phase = "close" /\ Fault /\ Abort /\ RemovePart(TRUE)
    /\ UNCHANGED <<local, remote, op, todo, copied, whole, writes>>

NextOperation ==
    /\ ended = "no" /\ phase = "copy" /\ todo = <<>>
    /\ IF op = Len(Batch) THEN ended' = "ok" /\ phase' = "over" /\ UNCHANGED <<op, todo>>
       ELSE op' = op + 1 /\ todo' = Batch[op + 1].files /\ UNCHANGED <<ended, phase>>
    /\ UNCHANGED <<fileVars, copied, whole, writes, faults>>

Next == \/ \E f \in Files : Write(f)
        \/ Enter \/ Open \/ OpenFails \/ Stream \/ StreamEnds \/ StreamFails
        \/ Install \/ InstallFails \/ NextOperation

Spec == Init /\ [][Next]_transferVars

-----------------------------------------------------------------------------
\* What get (and scp from a server) leaves in its destination is what was there
\* before or a copy read to the end of the source: no broken connection, full
\* disk, size limit or caller that gives up ever leaves a file cut short under
\* its name, nor a part file that could have been removed.
DownloadsAreWhole ==
    /\ \A f \in Files : (\A i \in DOMAIN Batch : Batch[i].kind # "get" => ~Contains(Batch[i].files, f))
                        => local[f] \in whole[f]
    /\ ended # "no" => part = Absent
=============================================================================

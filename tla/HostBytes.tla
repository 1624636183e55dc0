------------------------------- MODULE HostBytes -------------------------------
(***************************************************************************)
(* The byte store of libs/hostfs: uploads and files become byte sources,   *)
(* which are read, released, expire, and go with the connection that made  *)
(* them or with the store.                                                 *)
(*                                                                         *)
(* A member of Creations is one call of UploadFor ("stream": bytes are     *)
(* charged as they arrive), beginUpload ("staged": charged at once) or     *)
(* AddFileFor ("file": not charged), and the source it makes.  b.mu is held *)
(* for single steps; the lock of a source is held by its readers, and who  *)
(* releases the source waits for them.  Creations, closing connections, the *)
(* closing store and the client all release, each one source after the     *)
(* other.  There is one owner; ids, ranges and hashes are left out.        *)
(***************************************************************************)
EXTENDS Integers, FiniteSets

CONSTANTS
    Creations,
    Kind,        \* "stream", "staged" or "file"
    Size,        \* bytes of each
    Creator,     \* connection of each
    Creators,
    Readers,     \* calls of Copy
    Store,       \* stands for Close
    Client,      \* stands for source.release
    MaxBytes, MaxSources,
    None

Releasers == Creations \cup Creators \cup {Store, Client}

ASSUME HostBytesAssumption ==
    /\ IsFiniteSet(Creations)
    /\ Kind \in [Creations -> {"stream", "staged", "file"}]
    /\ Size \in [Creations -> Nat] /\ Creator \in [Creations -> Creators]
    /\ MaxBytes \in Nat /\ MaxSources \in Nat
    /\ None \notin Creations
    /\ Creations \cap (Creators \cup {Store, Client}) = {}
    /\ Creators \cap {Store, Client} = {} /\ Store # Client

VARIABLES
    st,          \* where each creation is
    charged,     \* bytes it has charged
    sources,     \* the table
    expired,     \* sources whose time is over
    shut,        \* sources whose file is closed (field closed)
    used, pending, pendingCreators, closingCreators,
    closed,      \* the store is closed
    gone,        \* creators whose connection has closed
    todo,        \* what each releaser has listed and not looked at,
    hold,        \*   and the source it has taken from the table
    doomed,      \* what was made or being made when its creator went (history)
    found,       \* the source each reader has looked up,
    reading      \*   and those that hold its lock

createVars == <<st, charged>>
sourceVars == <<expired, shut>>
countVars == <<pending, pendingCreators, closingCreators>>
closeVars == <<closed, gone, doomed>>
releaseVars == <<todo, hold>>
readVars == <<found, reading>>
vars == <<createVars, sources, sourceVars, used, countVars, closeVars, releaseVars, readVars>>

Init ==
    /\ st = [u \in Creations |-> "idle"] /\ charged = [u \in Creations |-> 0]
    /\ sources = {} /\ expired = {} /\ shut = {}
    /\ used = 0 /\ pending = 0 /\ pendingCreators = [c \in Creators |-> 0]
    /\ closingCreators = {} /\ closed = FALSE /\ gone = {} /\ doomed = {}
    /\ todo = [x \in Releasers |-> {}] /\ hold = [x \in Releasers |-> None]
    /\ found = [r \in Readers |-> None] /\ reading = {}

Free(x) == todo[x] = {} /\ hold[x] = None

\* Refused by the state of the store, when a creation reserves and publishes.
Barred(u) == closed \/ Creator[u] \in closingCreators

-----------------------------------------------------------------------------
(* Creating a source.                                                      *)

\* Every creation reaps first, a staged one twice.
Begin(u) ==
    /\ st[u] = "idle"
    /\ st' = [st EXCEPT ![u] = IF Kind[u] = "staged" THEN "early" ELSE "reap"]
    /\ todo' = [todo EXCEPT ![u] = sources \cap expired]
    /\ UNCHANGED <<charged, sources, sourceVars, used, countVars, closeVars, hold, readVars>>

ReapAgain(u) ==
    /\ st[u] = "early" /\ Free(u)
    /\ st' = [st EXCEPT ![u] = "reap"]
    /\ todo' = [todo EXCEPT ![u] = sources \cap expired]
    /\ UNCHANGED <<charged, sources, sourceVars, used, countVars, closeVars, hold, readVars>>

NoRoom == Cardinality(sources) + pending >= MaxSources

Reserve(u) ==
    /\ st[u] = "reap" /\ Free(u)
    /\ IF Barred(u) \/ NoRoom
       THEN st' = [st EXCEPT ![u] = "refused"] /\ UNCHANGED countVars
       ELSE /\ st' = [st EXCEPT ![u] = "reserved"]
            /\ pending' = pending + 1
            /\ pendingCreators' = [pendingCreators EXCEPT ![Creator[u]] = @ + 1]
            /\ UNCHANGED closingCreators
    /\ UNCHANGED <<charged, sources, sourceVars, used, closeVars, releaseVars, readVars>>

\* What is charged next: a stream goes byte by byte.
Chunk(u) == IF Kind[u] = "stream" THEN 1 ELSE Size[u]

ReserveBytes(u) ==
    /\ st[u] = "reserved" /\ Kind[u] # "file" /\ charged[u] < Size[u]
    /\ IF closed \/ used > MaxBytes - Chunk(u)
       THEN st' = [st EXCEPT ![u] = "failed"] /\ UNCHANGED <<charged, used>>
       ELSE /\ used' = used + Chunk(u)
            /\ charged' = [charged EXCEPT ![u] = @ + Chunk(u)]
            /\ UNCHANGED st
    /\ UNCHANGED <<sources, sourceVars, countVars, closeVars, releaseVars, readVars>>

\* A staged creation that fails gives its bytes back where it fails, a stream
\* when it gives back its reservation.
Fall(u) ==
    IF Kind[u] = "staged"
    THEN st' = [st EXCEPT ![u] = "undone"] /\ used' = used - charged[u]
    ELSE st' = [st EXCEPT ![u] = "failed"] /\ UNCHANGED used

\* The disk fails, the body ends early or is wrong, the caller has gone.
Fails(u) ==
    /\ st[u] = "reserved"
    /\ \/ Kind[u] = "stream"
       \/ Kind[u] = "staged" /\ charged[u] = Size[u]
    /\ Fall(u)
    /\ UNCHANGED <<charged, sources, sourceVars, countVars, closeVars, releaseVars, readVars>>

Publish(u) ==
    /\ st[u] = "reserved" /\ (Kind[u] = "file" \/ charged[u] = Size[u])
    /\ IF Barred(u) THEN Fall(u) /\ UNCHANGED sources
       ELSE /\ st' = [st EXCEPT ![u] = "published"]
            /\ sources' = sources \cup {u}
            /\ UNCHANGED used
    /\ UNCHANGED <<charged, sourceVars, countVars, closeVars, releaseVars, readVars>>

\* The marks of a creator go with its last reservation.
\* (An operator whose name ends in Bug is a faulty variant of the one after it.)
StillClosing_OneBug(c, n) == closingCreators \ {c}
StillClosing(c, n) == IF n = 0 THEN closingCreators \ {c} ELSE closingCreators

Refund_NotBug(u) == 0
Refund(u) == IF st[u] = "failed" THEN charged[u] ELSE 0

FinishReservation(u) ==
    LET c == Creator[u] n == pendingCreators[c] - 1
    IN  /\ st[u] \in {"published", "failed", "undone"}
        /\ pending' = pending - 1
        /\ pendingCreators' = [pendingCreators EXCEPT ![c] = n]
        /\ closingCreators' = StillClosing(c, n)
        /\ used' = used - Refund(u)
        /\ st' = [st EXCEPT ![u] = IF @ = "published" THEN "made" ELSE "refused"]
        /\ UNCHANGED <<charged, sources, sourceVars, closeVars, releaseVars, readVars>>

-----------------------------------------------------------------------------
(* Releasing sources.                                                      *)

Expire(u) ==
    /\ u \in sources \ expired
    /\ expired' = expired \cup {u}
    /\ UNCHANGED <<createVars, sources, shut, used, countVars, closeVars, releaseVars, readVars>>

\* source.release.
ClientReleases(u) ==
    /\ Free(Client) /\ u \in sources
    /\ todo' = [todo EXCEPT ![Client] = {u}]
    /\ UNCHANGED <<createVars, sources, sourceVars, used, countVars, closeVars, hold, readVars>>

\* Release takes the source from the table, unless somebody else has, ...
Taken(u) == IF u \in sources THEN u ELSE None

TakeSource(x) ==
    /\ hold[x] = None
    /\ \E u \in todo[x] :
        /\ todo' = [todo EXCEPT ![x] = @ \ {u}]
        /\ sources' = sources \ {u}
        /\ hold' = [hold EXCEPT ![x] = Taken(u)]
    /\ UNCHANGED <<createVars, sourceVars, used, countVars, closeVars, readVars>>

\* ... and when its last reader has gone, closes it and gives its bytes back.
Locked(u) == \E r \in reading : found[r] = u

CloseSource(x) ==
    LET u == hold[x]
    IN  /\ u # None /\ ~Locked(u)
        /\ shut' = shut \cup {u}
        /\ used' = IF Kind[u] = "file" THEN used ELSE used - charged[u]
        /\ hold' = [hold EXCEPT ![x] = None]
        /\ UNCHANGED <<createVars, sources, expired, countVars, closeVars, todo, readVars>>

\* CloseCreator marks creations in flight and lists the sources there are.
CloseCreator(c) ==
    /\ c \notin gone
    /\ gone' = gone \cup {c}
    /\ closingCreators' = IF pendingCreators[c] > 0 THEN closingCreators \cup {c}
                          ELSE closingCreators
    /\ todo' = [todo EXCEPT ![c] = {u \in sources : Creator[u] = c}]
    /\ doomed' = doomed \cup {u \in Creations : Creator[u] = c
                                /\ st[u] \in {"reserved", "published", "made"}}
    /\ UNCHANGED <<createVars, sources, sourceVars, used, pending, pendingCreators, closed, hold,
                   readVars>>

Close ==
    /\ ~closed
    /\ closed' = TRUE
    /\ todo' = [todo EXCEPT ![Store] = sources]
    /\ UNCHANGED <<createVars, sources, sourceVars, used, countVars, gone, doomed, hold, readVars>>

-----------------------------------------------------------------------------
(* Reading.                                                                *)

\* The source is looked up under the lock of the store ...
Lookup(r) ==
    /\ found[r] = None /\ ~closed
    /\ \E u \in sources \ expired : found' = [found EXCEPT ![r] = u]
    /\ UNCHANGED <<createVars, sources, sourceVars, used, countVars, closeVars, releaseVars, reading>>

\* ... and read under its own, unless it has been closed meanwhile.
Copy(r) ==
    /\ found[r] # None /\ r \notin reading
    /\ IF found[r] \notin shut
       THEN reading' = reading \cup {r} /\ UNCHANGED found
       ELSE found' = [found EXCEPT ![r] = None] /\ UNCHANGED reading
    /\ UNCHANGED <<createVars, sources, sourceVars, used, countVars, closeVars, releaseVars>>

CopyEnds(r) ==
    /\ r \in reading
    /\ reading' = reading \ {r}
    /\ found' = [found EXCEPT ![r] = None]
    /\ UNCHANGED <<createVars, sources, sourceVars, used, countVars, closeVars, releaseVars>>

-----------------------------------------------------------------------------
Create(u) ==
    ReapAgain(u) \/ Reserve(u) \/ ReserveBytes(u) \/ Fails(u) \/ Publish(u)
        \/ FinishReservation(u)

Release(x) == TakeSource(x) \/ CloseSource(x)

Read(r) == Copy(r) \/ CopyEnds(r)

Next ==
    \/ Close
    \/ \E u \in Creations : Begin(u) \/ Create(u) \/ Expire(u) \/ ClientReleases(u)
    \/ \E c \in Creators : CloseCreator(c)
    \/ \E x \in Releasers : Release(x)
    \/ \E r \in Readers : Lookup(r) \/ Read(r)

Spec == Init /\ [][Next]_vars

-----------------------------------------------------------------------------
(* Properties.                                                             *)

\* The state has the types the code declares.
TypeOK ==
    /\ st \in [Creations -> {"idle", "early", "reap", "reserved", "published", "failed",
                             "undone", "made", "refused"}]
    /\ charged \in [Creations -> Nat]
    /\ sources \subseteq Creations /\ expired \subseteq Creations /\ shut \subseteq Creations
    /\ used \in Nat /\ pending \in Nat /\ pendingCreators \in [Creators -> Nat]
    /\ closingCreators \subseteq Creators /\ gone \subseteq Creators
    /\ closed \in BOOLEAN /\ doomed \subseteq Creations
    /\ todo \in [Releasers -> SUBSET Creations]
    /\ hold \in [Releasers -> Creations \cup {None}]
    /\ found \in [Readers -> Creations \cup {None}] /\ reading \subseteq Readers

\* Creations and sources whose bytes are on the disk.
Charging ==
    {u \in Creations : \/ st[u] \in {"reserved", "failed"}
                       \/ st[u] \in {"published", "made"} /\ u \notin shut}

\* The bytes they have been charged for.
Bytes ==
    {b \in Creations \X (1..MaxBytes) : b[1] \in Charging /\ b[2] <= charged[b[1]]}

\* The quota counts the bytes on the disk, each once: nothing is given back
\* twice or never, whether a creation fails, is refused at the end, is released by
\* several callers at once, expires or goes with its connection.  And the sources
\* and those in the making stay within their limit, though a source is published
\* in one step and its reservation given back in another.
QuotaExact ==
    /\ used = Cardinality(Bytes)
    /\ used <= MaxBytes
    /\ Cardinality(sources \cup {u \in Creations : st[u] \in {"reserved", "failed", "undone"}})
         <= MaxSources

\* What a connection had made or was making when it went is not in the table
\* once its cleanup is over, and does not come back.  When the store has closed,
\* and releases and creations have come to their end, no source is left and every
\* byte has been given back.
GoneForGood ==
    /\ \A c \in gone : Free(c) => \A u \in doomed \cap sources : Creator[u] # c
    /\ (/\ closed
        /\ \A x \in Releasers : Free(x)
        /\ \A u \in Creations : st[u] \in {"idle", "made", "refused"})
       => sources = {} /\ used = 0

=============================================================================

------------------------------ MODULE StoresProofs -----------------------------
(***************************************************************************)
(* Theorems about the stores of the device, for every value of their       *)
(* constants: the byte store (HostBytes), the uploads it takes by ranges   *)
(* (Upload), the logs of executions (ExecOutput) and the index (Indexer).  *)
(* The last three are theorems of the bundle of MCStores, whose steps are  *)
(* those of the parts.                                                     *)
(*                                                                         *)
(* The byte store: a source passes from the table to one releaser and from *)
(* there to shut, never back and never twice (Owned); so the bytes charged *)
(* and the reservations in progress can be counted, and each step changes  *)
(* used, pending and pendingCreators by what it changes in the counted set *)
(* (Counted).  What a connection left behind is listed by its cleanup or   *)
(* barred from the table by its mark (Doomed).                             *)
(*                                                                         *)
(* The arguments of the others stand before their invariants.              *)
(***************************************************************************)
EXTENDS MCStores, FiniteSetTheorems, SequenceTheorems, TLAPS

InProgress == {"reserved", "published", "failed", "undone"}
Pend == {u \in Creations : st[u] \in InProgress}
PendOf(c) == {u \in Pend : Creator[u] = c}

\* What TypeOK says, the counters being integers only.
Types ==
    /\ st \in [Creations -> {"idle", "early", "reap", "reserved", "published", "failed",
                             "undone", "made", "refused"}]
    /\ charged \in [Creations -> 0..MaxBytes]
    /\ sources \subseteq Creations /\ expired \subseteq Creations /\ shut \subseteq Creations
    /\ used \in Int /\ pending \in Int /\ pendingCreators \in [Creators -> Int]
    /\ closingCreators \subseteq Creators /\ gone \subseteq Creators
    /\ closed \in BOOLEAN /\ doomed \subseteq Creations
    /\ todo \in [Releasers -> SUBSET Creations]
    /\ hold \in [Releasers -> Creations \cup {None}]
    /\ found \in [Readers -> Creations \cup {None}] /\ reading \subseteq Readers

\* A source is in the table, with one releaser, or shut, and nothing is charged
\* before its creation has reserved, or for a file.
Owned ==
    /\ \A u \in sources : st[u] \in {"published", "made"} /\ u \notin shut
    /\ \A x \in Releasers : hold[x] # None =>
          st[hold[x]] \in {"published", "made"} /\ hold[x] \notin shut \cup sources
    /\ \A x, y \in Releasers : hold[x] # None /\ hold[x] = hold[y] => x = y
    /\ \A u \in shut : st[u] \in {"published", "made"}
    /\ \A u \in Creations : st[u] \in {"published", "made"} =>
          u \in sources \cup shut \/ \E x \in Releasers : hold[x] = u
    /\ \A u \in Creations : st[u] \in {"idle", "early", "reap"} \/ Kind[u] = "file" => charged[u] = 0

Counted ==
    /\ used = Cardinality(Bytes) /\ used <= MaxBytes
    /\ pending = Cardinality(Pend)
    /\ \A c \in Creators : pendingCreators[c] = Cardinality(PendOf(c))
    /\ Cardinality(sources \cup Pend) <= MaxSources

\* What was made when its connection went is on the list of its cleanup; what
\* was being made is barred.  A closed store lists all there is.
Doomed ==
    /\ \A u \in doomed : Creator[u] \in gone
    /\ \A u \in doomed \cap sources : u \in todo[Creator[u]]
    /\ \A u \in doomed : st[u] \notin {"idle", "early", "reap"}
    /\ \A u \in doomed : st[u] = "reserved" => Creator[u] \in closingCreators
    /\ closed => sources \subseteq todo[Store]

\* Who reads a source has it open.
ReadersSafe == \A r \in reading : found[r] # None /\ found[r] \notin shut

Inv == Types /\ Owned /\ Counted /\ Doomed

-----------------------------------------------------------------------------
(* Counting bytes.                                                         *)

Part(u, a, b) == {u} \X (a..b)

LEMMA PartSize ==
    ASSUME NEW u, NEW a \in Nat, NEW b \in Nat, a <= b + 1
    PROVE  IsFiniteSet(Part(u, a, b)) /\ Cardinality(Part(u, a, b)) = b - a + 1
<1>1. IsFiniteSet({u}) /\ Cardinality({u}) = 1
  BY FS_Singleton
<1>2. IsFiniteSet(a..b) /\ Cardinality(a..b) = b - a + 1
  BY FS_Interval
<1>3. /\ IsFiniteSet({u} \X (a..b))
      /\ Cardinality({u} \X (a..b)) = Cardinality({u}) * Cardinality(a..b)
  BY <1>1, <1>2, FS_Product
<1>4. b - a + 1 \in Int /\ 1 * (b - a + 1) = b - a + 1
  OBVIOUS
<1> QED
  BY <1>1, <1>2, <1>3, <1>4 DEF Part

LEMMA BytesFinite == IsFiniteSet(Bytes) /\ Cardinality(Bytes) \in Nat
<1>1. IsFiniteSet(Creations) /\ IsFiniteSet(1..MaxBytes)
  BY HostBytesAssumption, FS_Interval
<1>2. IsFiniteSet(Creations \X (1..MaxBytes))
  BY <1>1, FS_Product
<1>3. Bytes \subseteq Creations \X (1..MaxBytes)
  BY DEF Bytes
<1> QED
  BY <1>2, <1>3, FS_Subset, FS_CardinalityType

\* The bytes of one creation are among the bytes charged.
LEMMA BytesOfOne ==
    ASSUME Types, NEW u \in Charging
    PROVE  Part(u, 1, charged[u]) \subseteq Bytes /\ charged[u] <= Cardinality(Bytes)
<1>1. charged[u] \in 0..MaxBytes /\ MaxBytes \in Nat /\ u \in Creations
  BY HostBytesAssumption DEF Types, Charging
<1>2. Part(u, 1, charged[u]) \subseteq Bytes
  BY <1>1 DEF Part, Bytes
<1>3. Cardinality(Part(u, 1, charged[u])) = charged[u]
  BY <1>1, PartSize
<1>4. Cardinality(Part(u, 1, charged[u])) <= Cardinality(Bytes)
  BY <1>2, BytesFinite, FS_Subset
<1> QED
  BY <1>2, <1>3, <1>4

LEMMA BytesSame ==
    ASSUME Charging' = Charging, \A u \in Charging : charged'[u] = charged[u]
    PROVE  Bytes' = Bytes
BY DEF Bytes

LEMMA BytesMore ==
    ASSUME Types, NEW u \in Charging, Charging' = Charging, NEW k \in Nat,
           charged[u] + k <= MaxBytes, charged' = [charged EXCEPT ![u] = @ + k]
    PROVE  Cardinality(Bytes') = Cardinality(Bytes) + k
<1> DEFINE P == Part(u, charged[u] + 1, charged[u] + k)
<1>1. charged[u] \in Nat /\ MaxBytes \in Nat /\ u \in Creations
  BY HostBytesAssumption DEF Types, Charging
<1>2. Bytes' = Bytes \cup P
  <2>1. Bytes \subseteq Bytes'
    BY <1>1 DEF Bytes, Types
  <2>2. P \subseteq Bytes'
    BY <1>1 DEF Bytes, Types, Part
  <2>3. Bytes' \subseteq Bytes \cup P
    <3> SUFFICES ASSUME NEW b \in Bytes', b \notin Bytes PROVE b \in P
      OBVIOUS
    <3>1. b = <<b[1], b[2]>> /\ b[2] \in 1..MaxBytes /\ b[1] \in Charging /\ b[2] <= charged'[b[1]]
      BY DEF Bytes
    <3>2. b[1] = u
      BY <3>1 DEF Bytes, Types, Charging
    <3>3. b[2] \in charged[u] + 1..charged[u] + k
      BY <1>1, <3>1, <3>2 DEF Bytes, Types, Charging
    <3> QED
      BY <3>1, <3>2, <3>3 DEF Part
  <2> QED
    BY <2>1, <2>2, <2>3
<1>3. Bytes \cap P = {}
  BY <1>1 DEF Bytes, Part
<1>4. IsFiniteSet(P) /\ Cardinality(P) = k
  <2>1. charged[u] + 1 \in Nat /\ charged[u] + k \in Nat /\ charged[u] + 1 <= charged[u] + k + 1
    BY <1>1
  <2>2. /\ IsFiniteSet(P)
        /\ Cardinality(P) = (charged[u] + k) - (charged[u] + 1) + 1
    BY <2>1, PartSize
  <2> QED
    BY <1>1, <2>2
<1>5. Cardinality(Bytes \cup P) = Cardinality(Bytes) + Cardinality(P) - Cardinality(Bytes \cap P)
  BY <1>4, BytesFinite, FS_Union
<1>6. Cardinality(Bytes \cap P) = 0
  BY <1>3, FS_EmptySet
<1>7. Cardinality(Bytes) \in Nat
  BY BytesFinite
<1> QED
  BY <1>2, <1>4, <1>5, <1>6, <1>7

LEMMA BytesLess ==
    ASSUME Types, NEW u \in Charging, Charging' = Charging \ {u}, UNCHANGED charged
    PROVE  Cardinality(Bytes') = Cardinality(Bytes) - charged[u]
<1> DEFINE P == Part(u, 1, charged[u])
<1>1. charged[u] \in Nat /\ MaxBytes \in Nat
  BY HostBytesAssumption DEF Types, Charging
<1>2. Bytes' = Bytes \ P
  <2> SUFFICES ASSUME NEW b \in Creations \X (1..MaxBytes)
               PROVE  b \in Bytes' <=> b \in Bytes /\ b \notin P
    BY DEF Bytes
  <2>1. b = <<b[1], b[2]>> /\ b[2] \in 1..MaxBytes
    OBVIOUS
  <2>2. b[1] = u /\ b[2] <= charged[u] => b \in P
    BY <1>1, <2>1 DEF Part
  <2>3. b \in P => b[1] = u
    BY DEF Part
  <2> QED
    BY <2>1, <2>2, <2>3 DEF Bytes
<1>3. Bytes \cap P = P
  BY BytesOfOne
<1>4. Cardinality(P) = charged[u]
  BY <1>1, PartSize
<1>5. Cardinality(Bytes \ P) = Cardinality(Bytes) - Cardinality(Bytes \cap P)
  BY BytesFinite, FS_Difference
<1> QED
  BY <1>2, <1>3, <1>4, <1>5

LEMMA BytesNone ==
    ASSUME Types, NEW u \in Creations, Charging' = Charging \cup {u}, charged[u] = 0,
           UNCHANGED charged
    PROVE  Bytes' = Bytes
<1> SUFFICES ASSUME NEW b \in Creations \X (1..MaxBytes), b[1] = u PROVE ~(b[2] <= charged[u])
  BY DEF Bytes
<1> QED
  BY HostBytesAssumption

-----------------------------------------------------------------------------
(* Counting reservations.                                                  *)

LEMMA PendFinite ==
    /\ IsFiniteSet(Pend) /\ Cardinality(Pend) \in Nat
    /\ \A c : IsFiniteSet(PendOf(c)) /\ Cardinality(PendOf(c)) \in Nat
    /\ IsFiniteSet(sources \cup Pend) => Cardinality(sources \cup Pend) \in Nat
<1>1. Pend \subseteq Creations /\ \A c : PendOf(c) \subseteq Creations
  BY DEF Pend, PendOf
<1> QED
  BY <1>1, HostBytesAssumption, FS_Subset, FS_CardinalityType

LEMMA PendSame ==
    ASSUME \A u \in Creations : st'[u] \in InProgress <=> st[u] \in InProgress
    PROVE  Pend' = Pend /\ \A c : PendOf(c)' = PendOf(c)
BY DEF Pend, PendOf

LEMMA PendMore ==
    ASSUME Types, NEW u \in Creations, st[u] \notin InProgress,
           st' = [st EXCEPT ![u] = "reserved"]
    PROVE  /\ Pend' = Pend \cup {u} /\ Cardinality(Pend') = Cardinality(Pend) + 1
           /\ \A c \in Creators : Cardinality(PendOf(c)') =
                 IF c = Creator[u] THEN Cardinality(PendOf(c)) + 1 ELSE Cardinality(PendOf(c))
<1>1. Pend' = Pend \cup {u} /\ u \notin Pend
  BY DEF Pend, InProgress, Types
<1>2. Cardinality(Pend \cup {u}) = Cardinality(Pend) + 1
  BY <1>1, PendFinite, FS_AddElement
<1>3. ASSUME NEW c \in Creators
      PROVE  Cardinality(PendOf(c)') =
                 IF c = Creator[u] THEN Cardinality(PendOf(c)) + 1 ELSE Cardinality(PendOf(c))
  <2>1. CASE c = Creator[u]
    <3>1. PendOf(c)' = PendOf(c) \cup {u} /\ u \notin PendOf(c)
      BY <1>1, <2>1 DEF PendOf
    <3> QED
      BY <2>1, <3>1, PendFinite, FS_AddElement
  <2>2. CASE c # Creator[u]
    <3>1. PendOf(c)' = PendOf(c)
      BY <1>1, <2>2 DEF PendOf
    <3> QED
      BY <2>2, <3>1
  <2> QED
    BY <2>1, <2>2
<1> QED
  BY <1>1, <1>2, <1>3

LEMMA PendLess ==
    ASSUME Types, NEW u \in Creations, st[u] \in InProgress,
           NEW v, v \notin InProgress, st' = [st EXCEPT ![u] = v]
    PROVE  /\ Pend' = Pend \ {u} /\ Cardinality(Pend') = Cardinality(Pend) - 1
           /\ \A c \in Creators : Cardinality(PendOf(c)') =
                 IF c = Creator[u] THEN Cardinality(PendOf(c)) - 1 ELSE Cardinality(PendOf(c))
<1>1. Pend' = Pend \ {u} /\ u \in Pend
  BY DEF Pend, InProgress, Types
<1>2. Cardinality(Pend \ {u}) = Cardinality(Pend) - 1
  BY <1>1, PendFinite, FS_RemoveElement
<1>3. ASSUME NEW c \in Creators
      PROVE  Cardinality(PendOf(c)') =
                 IF c = Creator[u] THEN Cardinality(PendOf(c)) - 1 ELSE Cardinality(PendOf(c))
  <2>1. CASE c = Creator[u]
    <3>1. PendOf(c)' = PendOf(c) \ {u} /\ u \in PendOf(c)
      BY <1>1, <2>1 DEF PendOf
    <3>2. Cardinality(PendOf(c) \ {u}) = Cardinality(PendOf(c)) - 1
      BY <3>1, PendFinite, FS_RemoveElement
    <3> QED
      BY <2>1, <3>1, <3>2
  <2>2. CASE c # Creator[u]
    <3>1. PendOf(c)' = PendOf(c)
      BY <1>1, <2>2 DEF PendOf
    <3> QED
      BY <2>2, <3>1
  <2> QED
    BY <2>1, <2>2
<1> QED
  BY <1>1, <1>2, <1>3

-----------------------------------------------------------------------------
(* The steps.                                                              *)

LEMMA InitInv == Init => Inv
<1> SUFFICES ASSUME Init PROVE Inv
  OBVIOUS
<1> USE HostBytesAssumption DEF Init
<1>1. Types
  <2>1. /\ st \in [Creations -> {"idle", "early", "reap", "reserved", "published", "failed",
                               "undone", "made", "refused"}]
        /\ charged \in [Creations -> 0..MaxBytes]
        /\ pendingCreators \in [Creators -> Int]
    OBVIOUS
  <2>2. /\ todo \in [Releasers -> SUBSET Creations]
        /\ hold \in [Releasers -> Creations \cup {None}]
        /\ found \in [Readers -> Creations \cup {None}]
    OBVIOUS
  <2>3. /\ sources \subseteq Creations /\ expired \subseteq Creations /\ shut \subseteq Creations
        /\ used \in Int /\ pending \in Int /\ reading \subseteq Readers
        /\ closingCreators \subseteq Creators /\ gone \subseteq Creators /\ doomed \subseteq Creations
    OBVIOUS
  <2>4. closed \in BOOLEAN
    OBVIOUS
  <2> HIDE DEF Init
  <2> QED
    BY <2>1, <2>2, <2>3, <2>4, Zenon DEF Types
<1>2. Owned /\ Doomed
  BY DEF Owned, Doomed
<1>3. Counted
  <2>1. Bytes = {} /\ Pend = {}
    BY DEF Bytes, Charging, Pend, InProgress
  <2>3. \A c \in Creators : PendOf(c) = {}
    BY <2>1 DEF PendOf
  <2>2. Cardinality({}) = 0
    BY FS_EmptySet
  <2>4. sources \cup Pend = {}
    BY <2>1
  <2>5. used = 0 /\ pending = 0 /\ \A c \in Creators : pendingCreators[c] = 0
    OBVIOUS
  <2>6. MaxBytes \in Nat /\ MaxSources \in Nat
    OBVIOUS
  <2> HIDE DEF Init
  <2> QED
    BY ONLY <2>1, <2>2, <2>3, <2>4, <2>5, <2>6 DEF Counted
<1> QED
  BY <1>1, <1>2, <1>3 DEF Inv

LEMMA TypeStep == Types /\ Counted /\ [Next]_vars => Types'
<1> SUFFICES ASSUME Types, Counted, [Next]_vars PROVE Types'
  OBVIOUS
<1> USE HostBytesAssumption
    DEF Types, createVars, sourceVars, countVars, closeVars, releaseVars, readVars
<1>1. ASSUME NEW u \in Creations, Begin(u) \/ ReapAgain(u) PROVE Types'
  BY <1>1 DEF Begin, ReapAgain, Releasers
<1>2. ASSUME NEW u \in Creations, Reserve(u) PROVE Types'
  BY <1>2 DEF Reserve
<1>3. ASSUME NEW u \in Creations, ReserveBytes(u) PROVE Types'
  <2>1. Chunk(u) \in Nat
    BY DEF Chunk
  <2>2. CASE closed \/ used > MaxBytes - Chunk(u)
    BY <1>3, <2>2 DEF ReserveBytes
  <2>3. CASE ~(closed \/ used > MaxBytes - Chunk(u))
    <3>1. u \in Charging
      BY <1>3 DEF ReserveBytes, Charging
    <3>2. charged[u] <= used
      BY <3>1, BytesOfOne DEF Counted
    <3>3. charged[u] + Chunk(u) \in 0..MaxBytes
      BY <2>1, <2>3, <3>2
    <3> QED
      BY <1>3, <2>1, <2>3, <3>3 DEF ReserveBytes
  <2> QED
    BY <2>2, <2>3
<1>4. ASSUME NEW u \in Creations, Fails(u) \/ Publish(u) PROVE Types'
  BY <1>4 DEF Fails, Publish, Fall
<1>5. ASSUME NEW u \in Creations, FinishReservation(u) PROVE Types'
  BY <1>5 DEF FinishReservation, Refund, StillClosing
<1>6. ASSUME NEW u \in Creations, Expire(u) \/ ClientReleases(u) PROVE Types'
  BY <1>6 DEF Expire, ClientReleases, Releasers
<1>7. ASSUME NEW x \in Releasers, TakeSource(x) PROVE Types'
  BY <1>7 DEF TakeSource, Taken
<1>8. ASSUME NEW x \in Releasers, CloseSource(x) PROVE Types'
  BY <1>8 DEF CloseSource
<1>9. ASSUME NEW c \in Creators, CloseCreator(c) PROVE Types'
  BY <1>9 DEF CloseCreator, Releasers
<1>10. CASE Close
  BY <1>10 DEF Close, Releasers
<1>11. ASSUME NEW r \in Readers, Lookup(r) \/ Read(r) PROVE Types'
  BY <1>11 DEF Lookup, Read, Copy, CopyEnds
<1>12. CASE UNCHANGED vars
  BY <1>12 DEF vars
<1> QED
  BY <1>1, <1>2, <1>3, <1>4, <1>5, <1>6, <1>7, <1>8, <1>9, <1>10, <1>11, <1>12
  DEF Next, Create, Release

LEMMA OwnedStep == Types /\ Owned /\ [Next]_vars => Owned'
<1> SUFFICES ASSUME Types, Owned, [Next]_vars PROVE Owned'
  OBVIOUS
<1> USE HostBytesAssumption
    DEF Types, createVars, sourceVars, countVars, closeVars, releaseVars, readVars
<1>1. CASE UNCHANGED <<st, charged, sources, shut, hold>>
  BY <1>1 DEF Owned
<1>2. ASSUME NEW u \in Creations, Begin(u) \/ ReapAgain(u) \/ Reserve(u) PROVE Owned'
  <2>1. /\ st[u] \in {"idle", "early", "reap"} /\ UNCHANGED <<charged, sources, shut, hold>>
        /\ \E v \in {"early", "reap", "refused", "reserved"} : st' = [st EXCEPT ![u] = v]
    BY <1>2 DEF Begin, ReapAgain, Reserve
  <2> QED
    BY <2>1 DEF Owned
<1>3. ASSUME NEW u \in Creations, ReserveBytes(u) PROVE Owned'
  BY <1>3 DEF ReserveBytes, Owned
<1>4. ASSUME NEW u \in Creations, Fails(u) PROVE Owned'
  BY <1>4 DEF Fails, Fall, Owned
<1>5. ASSUME NEW u \in Creations, Publish(u) PROVE Owned'
  BY <1>5 DEF Publish, Fall, Owned
<1>6. ASSUME NEW u \in Creations, FinishReservation(u) PROVE Owned'
  <2>1. /\ UNCHANGED <<charged, sources, shut, hold>>
        /\ \/ st[u] = "published" /\ st' = [st EXCEPT ![u] = "made"]
           \/ st[u] \in {"failed", "undone"} /\ st' = [st EXCEPT ![u] = "refused"]
    BY <1>6 DEF FinishReservation
  <2> QED
    BY <2>1 DEF Owned
<1>7. ASSUME NEW x \in Releasers, TakeSource(x) PROVE Owned'
  <2>1. PICK u \in todo[x] : /\ hold[x] = None /\ sources' = sources \ {u}
                             /\ hold' = [hold EXCEPT ![x] = Taken(u)]
                             /\ UNCHANGED <<st, charged, shut>>
    BY <1>7 DEF TakeSource
  <2>2. CASE u \in sources
    BY <2>1, <2>2 DEF Owned, Taken
  <2>3. CASE u \notin sources
    <3>1. sources' = sources /\ hold' = hold
      BY <2>1, <2>3 DEF Taken
    <3> QED
      BY <2>1, <3>1, <1>1
  <2> QED
    BY <2>2, <2>3
<1>8. ASSUME NEW x \in Releasers, CloseSource(x) PROVE Owned'
  <2>1. /\ hold[x] \in Creations /\ shut' = shut \cup {hold[x]}
        /\ hold' = [hold EXCEPT ![x] = None] /\ UNCHANGED <<st, charged, sources>>
    BY <1>8 DEF CloseSource
  <2> QED
    BY <2>1 DEF Owned
<1>9. ASSUME NEW r \in Readers, Lookup(r) \/ Read(r) PROVE Owned'
  BY <1>1, <1>9 DEF Lookup, Read, Copy, CopyEnds
<1> QED
  BY <1>1, <1>2, <1>3, <1>4, <1>5, <1>6, <1>7, <1>8, <1>9
  DEF Next, Create, Release, Expire, ClientReleases, CloseCreator, Close, vars

\* The table and the reservations together grow with a reservation only.
LEMMA RoomKept ==
    ASSUME Types, Counted, (sources \cup Pend)' \subseteq sources \cup Pend
    PROVE  Cardinality((sources \cup Pend)') <= MaxSources
<1>1. IsFiniteSet(sources \cup Pend)
  <2>1. sources \cup Pend \subseteq Creations
    BY DEF Types, Pend
  <2> QED
    BY <2>1, HostBytesAssumption, FS_Subset
<1>2. /\ Cardinality((sources \cup Pend)') <= Cardinality(sources \cup Pend)
      /\ IsFiniteSet((sources \cup Pend)')
  BY <1>1, FS_Subset
<1>3. Cardinality((sources \cup Pend)') \in Nat /\ Cardinality(sources \cup Pend) \in Nat
  BY <1>1, <1>2, FS_CardinalityType
<1> QED
  BY <1>2, <1>3, HostBytesAssumption DEF Counted

LEMMA RoomTaken ==
    ASSUME Types, Counted, ~NoRoom, NEW u \in Creations, Pend' = Pend \cup {u}, sources' = sources
    PROVE  Cardinality((sources \cup Pend)') <= MaxSources
<1>1. IsFiniteSet(sources) /\ IsFiniteSet(Pend \cup {u}) /\ IsFiniteSet(Pend)
  BY HostBytesAssumption, PendFinite, FS_Subset, FS_AddElement DEF Types
<1>2. Cardinality(sources) \in Nat /\ Cardinality(Pend) \in Nat
      /\ Cardinality(Pend \cup {u}) <= Cardinality(Pend) + 1 /\ Cardinality(Pend \cup {u}) \in Nat
  BY <1>1, FS_CardinalityType, FS_AddElement
<1>3. Cardinality(sources \cup (Pend \cup {u})) =
          Cardinality(sources) + Cardinality(Pend \cup {u}) - Cardinality(sources \cap (Pend \cup {u}))
  BY <1>1, FS_Union
<1>4. Cardinality(sources \cap (Pend \cup {u})) \in Nat
  BY <1>1, FS_Intersection, FS_CardinalityType
<1>5. Cardinality(sources) + Cardinality(Pend) < MaxSources
  BY <1>2, HostBytesAssumption DEF NoRoom, Counted, Types
<1> QED
  BY <1>2, <1>3, <1>4, <1>5, HostBytesAssumption

\* Each step changes the counters by what it changes in the sets they count.
LEMMA CountedStep == Types /\ Owned /\ Counted /\ [Next]_vars => Counted'
<1> SUFFICES ASSUME Types, Owned, Counted, [Next]_vars PROVE Counted'
  OBVIOUS
<1> USE HostBytesAssumption
    DEF createVars, sourceVars, countVars, closeVars, releaseVars, readVars
<1>1. ASSUME Bytes' = Bytes, Pend' = Pend, \A c : PendOf(c)' = PendOf(c),
             (sources \cup Pend)' \subseteq sources \cup Pend,
             UNCHANGED <<used, pending, pendingCreators>>
      PROVE  Counted'
  BY <1>1, RoomKept DEF Counted
<1>2. ASSUME UNCHANGED <<st, charged, shut, used, pending, pendingCreators>>,
             sources' \subseteq sources
      PROVE  Counted'
  <2>1. Bytes' = Bytes /\ Pend' = Pend /\ \A c : PendOf(c)' = PendOf(c)
    BY <1>2 DEF Bytes, Charging, Pend, PendOf
  <2> QED
    BY <1>1, <1>2, <2>1
<1>3. ASSUME NEW u \in Creations, Begin(u) \/ ReapAgain(u) PROVE Counted'
  <2>1. /\ st[u] \in {"idle", "early"} /\ UNCHANGED <<charged, shut, sources, used, countVars>>
        /\ \E v \in {"early", "reap"} : st' = [st EXCEPT ![u] = v]
    BY <1>3 DEF Begin, ReapAgain
  <2>2. Charging' = Charging
    BY <2>1 DEF Charging, Types
  <2>3. Pend' = Pend /\ \A c : PendOf(c)' = PendOf(c)
    BY <2>1, PendSame DEF InProgress, Types
  <2> QED
    BY <1>1, <2>1, <2>2, <2>3, BytesSame
<1>4. ASSUME NEW u \in Creations, Reserve(u) PROVE Counted'
  <2>1. CASE Barred(u) \/ NoRoom
    <3>1. /\ st[u] = "reap" /\ st' = [st EXCEPT ![u] = "refused"]
          /\ UNCHANGED <<charged, shut, sources, used, countVars>>
      BY <1>4, <2>1 DEF Reserve
    <3>2. Charging' = Charging
      BY <3>1 DEF Charging, Types
    <3>3. Pend' = Pend /\ \A c : PendOf(c)' = PendOf(c)
      BY <3>1, PendSame DEF InProgress, Types
    <3> QED
      BY <1>1, <3>1, <3>2, <3>3, BytesSame
  <2>2. CASE ~(Barred(u) \/ NoRoom)
    <3>1. /\ st[u] = "reap" /\ st' = [st EXCEPT ![u] = "reserved"]
          /\ pending' = pending + 1
          /\ pendingCreators' = [pendingCreators EXCEPT ![Creator[u]] = @ + 1]
          /\ UNCHANGED <<charged, shut, sources, used>>
      BY <1>4, <2>2 DEF Reserve
    <3>2. Charging' = Charging \cup {u} /\ charged[u] = 0
      BY <3>1 DEF Charging, Types, Owned
    <3>3. Bytes' = Bytes
      BY <3>1, <3>2, BytesNone
    <3>4. /\ Pend' = Pend \cup {u} /\ Cardinality(Pend') = Cardinality(Pend) + 1
          /\ \A c \in Creators : Cardinality(PendOf(c)') =
                IF c = Creator[u] THEN Cardinality(PendOf(c)) + 1 ELSE Cardinality(PendOf(c))
      BY <3>1, PendMore DEF InProgress
    <3>5. Cardinality((sources \cup Pend)') <= MaxSources
      BY <2>2, <3>1, <3>4, RoomTaken
    <3>6. \A c \in Creators : pendingCreators'[c] = Cardinality(PendOf(c)')
      BY <3>1, <3>4 DEF Counted, Types
    <3> QED
      BY <3>1, <3>3, <3>4, <3>5, <3>6 DEF Counted
  <2> QED
    BY <2>1, <2>2
<1>5. ASSUME NEW u \in Creations, ReserveBytes(u) PROVE Counted'
  <2>1. u \in Charging /\ UNCHANGED <<shut, sources, countVars>>
    BY <1>5 DEF ReserveBytes, Charging
  <2>2. CASE closed \/ used > MaxBytes - Chunk(u)
    <3>1. st' = [st EXCEPT ![u] = "failed"] /\ UNCHANGED <<charged, used>> /\ st[u] = "reserved"
      BY <1>5, <2>2 DEF ReserveBytes
    <3>2. Charging' = Charging
      BY <2>1, <3>1 DEF Charging, Types
    <3>3. Pend' = Pend /\ \A c : PendOf(c)' = PendOf(c)
      BY <3>1, PendSame DEF InProgress, Types
    <3> QED
      BY <1>1, <2>1, <3>1, <3>2, <3>3, BytesSame
  <2>3. CASE ~(closed \/ used > MaxBytes - Chunk(u))
    <3>1. /\ used' = used + Chunk(u) /\ used + Chunk(u) <= MaxBytes /\ Chunk(u) \in Nat
          /\ charged' = [charged EXCEPT ![u] = @ + Chunk(u)] /\ UNCHANGED st
      BY <1>5, <2>3 DEF ReserveBytes, Chunk, Types
    <3>2. Charging' = Charging /\ Pend' = Pend /\ \A c : PendOf(c)' = PendOf(c)
      BY <2>1, <3>1 DEF Charging, Pend, PendOf
    <3>3. charged[u] + Chunk(u) <= MaxBytes
      BY <2>1, <3>1, BytesOfOne DEF Counted, Types, Charging
    <3>4. Cardinality(Bytes') = Cardinality(Bytes) + Chunk(u)
      BY <2>1, <3>1, <3>2, <3>3, BytesMore
    <3> QED
      BY <2>1, <3>1, <3>2, <3>4, RoomKept DEF Counted
  <2> QED
    BY <2>2, <2>3
<1>6. ASSUME NEW u \in Creations, Fall(u), st[u] = "reserved",
             UNCHANGED <<charged, shut, sources, countVars>>
      PROVE  Counted'
  <2>1. Pend' = Pend /\ \A c : PendOf(c)' = PendOf(c)
    BY <1>6, PendSame DEF Fall, InProgress, Types
  <2>2. CASE Kind[u] = "staged"
    <3>1. st' = [st EXCEPT ![u] = "undone"] /\ used' = used - charged[u] /\ u \in Charging
      BY <1>6, <2>2 DEF Fall, Charging
    <3>2. Charging' = Charging \ {u}
      BY <1>6, <3>1 DEF Charging, Types
    <3>3. Cardinality(Bytes') = Cardinality(Bytes) - charged[u]
      BY <1>6, <3>1, <3>2, BytesLess
    <3>4. charged[u] \in Nat
      BY DEF Types
    <3> QED
      BY <1>6, <2>1, <3>1, <3>3, <3>4, RoomKept, BytesFinite DEF Counted
  <2>3. CASE Kind[u] # "staged"
    <3>1. st' = [st EXCEPT ![u] = "failed"] /\ UNCHANGED used
      BY <1>6, <2>3 DEF Fall
    <3>2. Charging' = Charging
      BY <1>6, <3>1 DEF Charging, Types
    <3> QED
      BY <1>1, <1>6, <2>1, <3>1, <3>2, BytesSame
  <2> QED
    BY <2>2, <2>3
<1>7. ASSUME NEW u \in Creations, Fails(u) PROVE Counted'
  BY <1>6, <1>7 DEF Fails
<1>8. ASSUME NEW u \in Creations, Publish(u) PROVE Counted'
  <2>1. CASE Barred(u)
    BY <1>6, <1>8, <2>1 DEF Publish
  <2>2. CASE ~Barred(u)
    <3>1. /\ st[u] = "reserved" /\ st' = [st EXCEPT ![u] = "published"]
          /\ sources' = sources \cup {u} /\ UNCHANGED <<charged, shut, used, countVars>>
      BY <1>8, <2>2 DEF Publish
    <3>2. u \notin shut
      BY <3>1 DEF Owned
    <3>3. Charging' = Charging
      BY <3>1, <3>2 DEF Charging, Types
    <3>4. Pend' = Pend /\ \A c : PendOf(c)' = PendOf(c)
      BY <3>1, PendSame DEF InProgress, Types
    <3>5. (sources \cup Pend)' \subseteq sources \cup Pend
      BY <3>1, <3>4 DEF Pend, InProgress
    <3> QED
      BY <1>1, <3>1, <3>3, <3>4, <3>5, BytesSame
  <2> QED
    BY <2>1, <2>2
<1>9. ASSUME NEW u \in Creations, FinishReservation(u) PROVE Counted'
  <2>1. /\ st[u] \in {"published", "failed", "undone"}
        /\ st' = [st EXCEPT ![u] = IF st[u] = "published" THEN "made" ELSE "refused"]
        /\ pending' = pending - 1
        /\ pendingCreators' = [pendingCreators EXCEPT ![Creator[u]] = pendingCreators[Creator[u]] - 1]
        /\ used' = used - (IF st[u] = "failed" THEN charged[u] ELSE 0)
        /\ UNCHANGED <<charged, shut, sources>>
    BY <1>9 DEF FinishReservation, Refund
  <2>2. /\ Pend' = Pend \ {u} /\ Cardinality(Pend') = Cardinality(Pend) - 1
        /\ \A c \in Creators : Cardinality(PendOf(c)') =
              IF c = Creator[u] THEN Cardinality(PendOf(c)) - 1 ELSE Cardinality(PendOf(c))
    BY <2>1, PendLess DEF InProgress
  <2>3. \A c \in Creators : pendingCreators'[c] = Cardinality(PendOf(c)')
    BY <2>1, <2>2 DEF Counted, Types
  <2>4. used' = Cardinality(Bytes') /\ used' <= MaxBytes
    <3>1. CASE st[u] = "failed"
      <4>1. u \in Charging /\ Charging' = Charging \ {u}
        BY <2>1, <3>1 DEF Charging, Types
      <4>2. Cardinality(Bytes') = Cardinality(Bytes) - charged[u] /\ charged[u] \in Nat
        BY <2>1, <4>1, BytesLess DEF Types
      <4> QED
        BY <2>1, <3>1, <4>2, BytesFinite DEF Counted
    <3>2. CASE st[u] # "failed"
      <4>1. Charging' = Charging
        BY <2>1, <3>2 DEF Charging, Types
      <4>2. Bytes' = Bytes
        BY <2>1, <4>1, BytesSame
      <4> QED
        BY <2>1, <3>2, <4>2, BytesFinite DEF Counted
    <3> QED
      BY <3>1, <3>2
  <2> QED
    BY <2>1, <2>2, <2>3, <2>4, RoomKept DEF Counted
<1>10. ASSUME NEW x \in Releasers, CloseSource(x) PROVE Counted'
  <2> DEFINE u == hold[x]
  <2>1. /\ u # None /\ shut' = shut \cup {u} /\ UNCHANGED <<st, charged, sources, countVars>>
        /\ used' = IF Kind[u] = "file" THEN used ELSE used - charged[u]
    BY <1>10 DEF CloseSource
  <2>2. u \in Charging /\ charged[u] \in Nat /\ (Kind[u] = "file" => charged[u] = 0)
    BY <2>1 DEF Owned, Charging, Types
  <2>3. Charging' = Charging \ {u}
    BY <2>1, <2>2 DEF Charging, Owned, Types
  <2>4. Cardinality(Bytes') = Cardinality(Bytes) - charged[u]
    BY <2>1, <2>2, <2>3, BytesLess
  <2>5. Pend' = Pend /\ \A c : PendOf(c)' = PendOf(c)
    BY <2>1 DEF Pend, PendOf
  <2>6. used' = used - charged[u]
    BY <2>1, <2>2 DEF Types
  <2> QED
    BY <2>1, <2>2, <2>4, <2>5, <2>6, RoomKept, BytesFinite DEF Counted
<1>11. ASSUME NEW x \in Releasers, TakeSource(x) PROVE Counted'
  BY <1>2, <1>11 DEF TakeSource
<1>12. ASSUME NEW r \in Readers, Lookup(r) \/ Read(r) PROVE Counted'
  BY <1>2, <1>12 DEF Lookup, Read, Copy, CopyEnds
<1> QED
  BY <1>2, <1>3, <1>4, <1>5, <1>7, <1>8, <1>9, <1>10, <1>11, <1>12
  DEF Next, Create, Release, Expire, ClientReleases, CloseCreator, Close, vars

\* A connection with a reservation in progress has a mark to lose.
LEMMA ReservedCounts ==
    ASSUME Types, Counted, NEW u \in Creations, st[u] \in InProgress
    PROVE  pendingCreators[Creator[u]] > 0
<1>1. u \in PendOf(Creator[u]) /\ Creator[u] \in Creators
  BY HostBytesAssumption DEF PendOf, Pend
<1>2. Cardinality(PendOf(Creator[u])) # 0
  BY <1>1, PendFinite, FS_EmptySet
<1> QED
  BY <1>1, <1>2, PendFinite DEF Counted

LEMMA DoomedStep == Types /\ Owned /\ Counted /\ Doomed /\ [Next]_vars => Doomed'
<1> SUFFICES ASSUME Types, Owned, Counted, Doomed, [Next]_vars PROVE Doomed'
  OBVIOUS
<1> USE HostBytesAssumption
    DEF Types, createVars, sourceVars, countVars, closeVars, releaseVars, readVars
<1>1. CASE UNCHANGED <<st, sources, closingCreators, closed, gone, todo, doomed>>
  BY <1>1 DEF Doomed
<1>2. ASSUME NEW u \in Creations, Begin(u) \/ ReapAgain(u) PROVE Doomed'
  <2>1. /\ st[u] \in {"idle", "early"} /\ UNCHANGED <<sources, closingCreators, closed, gone, doomed>>
        /\ \E v \in {"early", "reap"} : st' = [st EXCEPT ![u] = v]
        /\ \A x \in Creators \cup {Store} : todo'[x] = todo[x]
    BY <1>2 DEF Begin, ReapAgain, Releasers
  <2> QED
    BY <2>1 DEF Doomed
<1>3. ASSUME NEW u \in Creations, Reserve(u) PROVE Doomed'
  <2>1. /\ st[u] = "reap" /\ UNCHANGED <<sources, closingCreators, closed, gone, doomed, todo>>
        /\ \E v \in {"refused", "reserved"} : st' = [st EXCEPT ![u] = v]
    BY <1>3 DEF Reserve
  <2> QED
    BY <2>1 DEF Doomed
<1>4. ASSUME NEW u \in Creations, ReserveBytes(u) \/ Fails(u) PROVE Doomed'
  <2>1. /\ UNCHANGED <<sources, closingCreators, closed, gone, doomed, todo>>
        /\ st' = st \/ \E v \in {"failed", "undone"} : st' = [st EXCEPT ![u] = v]
    BY <1>4 DEF ReserveBytes, Fails, Fall
  <2> QED
    BY <2>1 DEF Doomed
<1>5. ASSUME NEW u \in Creations, Publish(u) PROVE Doomed'
  <2>1. CASE Barred(u)
    <3>1. /\ UNCHANGED <<sources, closingCreators, closed, gone, doomed, todo>>
          /\ \E v \in {"failed", "undone"} : st' = [st EXCEPT ![u] = v]
      BY <1>5, <2>1 DEF Publish, Fall
    <3> QED
      BY <3>1 DEF Doomed
  <2>2. CASE ~Barred(u)
    <3>1. /\ st[u] = "reserved" /\ st' = [st EXCEPT ![u] = "published"]
          /\ sources' = sources \cup {u} /\ ~closed /\ Creator[u] \notin closingCreators
          /\ UNCHANGED <<closingCreators, closed, gone, doomed, todo>>
      BY <1>5, <2>2 DEF Publish, Barred
    <3>2. u \notin doomed
      BY <3>1 DEF Doomed
    <3> QED
      BY <3>1, <3>2 DEF Doomed
  <2> QED
    BY <2>1, <2>2
<1>6. ASSUME NEW u \in Creations, FinishReservation(u) PROVE Doomed'
  <2> DEFINE c == Creator[u]
             n == pendingCreators[c] - 1
  <2>1. /\ st[u] \in {"published", "failed", "undone"}
        /\ \E v \in {"made", "refused"} : st' = [st EXCEPT ![u] = v]
        /\ closingCreators' = IF n = 0 THEN closingCreators \ {c} ELSE closingCreators
        /\ UNCHANGED <<sources, closed, gone, doomed, todo>>
    BY <1>6 DEF FinishReservation, StillClosing
  <2>2. ASSUME NEW w \in doomed, st'[w] = "reserved" PROVE Creator[w] \in closingCreators'
    <3>1. w # u /\ st[w] = "reserved" /\ Creator[w] \in closingCreators
      BY <2>1, <2>2 DEF Doomed
    <3>2. CASE Creator[w] = c
      <4>1. {u, w} \subseteq PendOf(c)
        BY <2>1, <3>1, <3>2 DEF PendOf, Pend, InProgress
      <4>2. Cardinality(PendOf(c)) # 1
        <5>1. SUFFICES ASSUME Cardinality(PendOf(c)) = 1 PROVE FALSE
          OBVIOUS
        <5>2. \E x : PendOf(c) = {x}
          BY <5>1, PendFinite, FS_Singleton
        <5> QED
          BY <3>1, <4>1, <5>2
      <4>3. n # 0
        BY <4>2, PendFinite DEF Counted
      <4> QED
        BY <2>1, <3>1, <4>3
    <3>3. CASE Creator[w] # c
      BY <2>1, <3>1, <3>3
    <3> QED
      BY <3>2, <3>3
  <2> QED
    BY <2>1, <2>2 DEF Doomed
<1>7. ASSUME NEW u \in Creations, ClientReleases(u) PROVE Doomed'
  <2>1. /\ UNCHANGED <<st, sources, closingCreators, closed, gone, doomed>>
        /\ \A x \in Creators \cup {Store} : todo'[x] = todo[x]
    BY <1>7 DEF ClientReleases, Releasers
  <2> QED
    BY <2>1 DEF Doomed
<1>8. ASSUME NEW x \in Releasers, TakeSource(x) PROVE Doomed'
  <2>1. PICK u \in todo[x] : /\ sources' = sources \ {u}
                             /\ todo' = [todo EXCEPT ![x] = @ \ {u}]
                             /\ UNCHANGED <<st, closingCreators, closed, gone, doomed>>
    BY <1>8 DEF TakeSource
  <2>2. \A y \in Releasers, w \in sources' : w \in todo[y] => w \in todo'[y]
    BY <2>1
  <2> QED
    BY <2>1, <2>2 DEF Doomed, Releasers
<1>9. ASSUME NEW c \in Creators, CloseCreator(c) PROVE Doomed'
  <2>1. /\ c \notin gone /\ gone' = gone \cup {c}
        /\ closingCreators' = IF pendingCreators[c] > 0 THEN closingCreators \cup {c}
                              ELSE closingCreators
        /\ todo' = [todo EXCEPT ![c] = {u \in sources : Creator[u] = c}]
        /\ doomed' = doomed \cup {u \in Creations : Creator[u] = c
                                    /\ st[u] \in {"reserved", "published", "made"}}
        /\ UNCHANGED <<st, sources, closed>>
    BY <1>9 DEF CloseCreator
  <2>2. \A u \in Creations : Creator[u] = c /\ st[u] = "reserved" => c \in closingCreators'
    BY <2>1, ReservedCounts DEF InProgress
  <2>3. \A u \in doomed : Creator[u] # c
    BY <2>1 DEF Doomed
  <2>4. \A x \in Releasers : x # c => todo'[x] = todo[x]
    BY <2>1
  <2>5. todo'[c] = {u \in sources : Creator[u] = c}
    BY <2>1 DEF Releasers
  <2>6. \A u \in (doomed \cap sources)' : u \in todo'[Creator[u]]
    BY <2>1, <2>3, <2>4, <2>5 DEF Doomed, Releasers
  <2>7. closed' => sources' \subseteq todo'[Store]
    BY <2>1, <2>4 DEF Doomed, Releasers
  <2> QED
    BY <2>1, <2>2, <2>3, <2>6, <2>7 DEF Doomed
<1>10. CASE Close
  <2>1. /\ \A x \in Creators : todo'[x] = todo[x]
        /\ todo'[Store] = sources
        /\ UNCHANGED <<st, sources, closingCreators, gone, doomed>>
    BY <1>10 DEF Close, Releasers
  <2> QED
    BY <2>1 DEF Doomed
<1>11. ASSUME NEW r \in Readers, Lookup(r) \/ Read(r) PROVE Doomed'
  BY <1>1, <1>11 DEF Lookup, Read, Copy, CopyEnds
<1> QED
  BY <1>1, <1>2, <1>3, <1>4, <1>5, <1>6, <1>7, <1>8, <1>9, <1>10, <1>11
  DEF Next, Create, Release, Expire, CloseSource, vars

LEMMA ReadersStep == Types /\ ReadersSafe /\ [Next]_vars => ReadersSafe'
<1> SUFFICES ASSUME Types, ReadersSafe, [Next]_vars PROVE ReadersSafe'
  OBVIOUS
<1> USE HostBytesAssumption
    DEF Types, ReadersSafe, createVars, sourceVars, countVars, closeVars, releaseVars, readVars
<1>1. CASE UNCHANGED <<shut, found, reading>>
  BY <1>1
<1>2. ASSUME NEW x \in Releasers, CloseSource(x) PROVE ReadersSafe'
  BY <1>2 DEF CloseSource, Locked
<1>3. ASSUME NEW r \in Readers, Lookup(r) PROVE ReadersSafe'
  BY <1>3 DEF Lookup
<1>4. ASSUME NEW r \in Readers, Read(r) PROVE ReadersSafe'
  BY <1>4 DEF Read, Copy, CopyEnds
<1> QED
  BY <1>1, <1>2, <1>3, <1>4
  DEF Next, Begin, Create, ReapAgain, Reserve, ReserveBytes, Fails, Publish, FinishReservation,
    Expire, ClientReleases, CloseCreator, Close, Release, TakeSource, vars

LEMMA StepInv == Inv /\ [Next]_vars => Inv'
BY TypeStep, OwnedStep, CountedStep, DoomedStep DEF Inv

LEMMA InvAlways == Spec => []Inv
BY InitInv, StepInv, PTL DEF Spec

-----------------------------------------------------------------------------
(* The theorems.                                                           *)

LEMMA WellTyped == Inv => TypeOK
<1> SUFFICES ASSUME Inv PROVE TypeOK
  OBVIOUS
<1>1. used \in Nat /\ pending \in Nat
  BY BytesFinite, PendFinite DEF Inv, Counted
<1>2. pendingCreators \in [Creators -> Nat]
  BY PendFinite DEF Inv, Types, Counted
<1>3. charged \in [Creations -> Nat]
  BY HostBytesAssumption DEF Inv, Types
<1> QED
  BY <1>1, <1>2, <1>3 DEF Inv, Types, TypeOK

\* Every reachable state is well typed; in particular no counter of the store
\* becomes negative.
THEOREM TypeCorrect == Spec => []TypeOK
BY WellTyped, InvAlways, PTL

LEMMA Exact == Inv => QuotaExact
<1> SUFFICES ASSUME Inv PROVE QuotaExact
  OBVIOUS
<1> DEFINE M == {u \in Creations : st[u] \in {"reserved", "failed", "undone"}}
<1>1. sources \cup M \subseteq sources \cup Pend
  BY DEF Pend, InProgress
<1>2. IsFiniteSet(sources \cup Pend)
  <2>1. sources \cup Pend \subseteq Creations
    BY DEF Inv, Types, Pend
  <2> QED
    BY <2>1, HostBytesAssumption, FS_Subset
<1>3. Cardinality(sources \cup M) <= Cardinality(sources \cup Pend) /\ IsFiniteSet(sources \cup M)
  BY <1>1, <1>2, FS_Subset
<1>4. Cardinality(sources \cup M) \in Nat /\ Cardinality(sources \cup Pend) \in Nat
  BY <1>2, <1>3, FS_CardinalityType
<1>5. Cardinality(sources \cup M) <= MaxSources
  BY <1>3, <1>4, HostBytesAssumption DEF Inv, Counted
<1> QED
  BY <1>5 DEF Inv, Counted, QuotaExact

\* hostfs.Store: the quota counts every byte on the disk once and every source
\* within its limit, for all interleavings of creations and releases.
THEOREM QuotaKept == Spec => []QuotaExact
BY Exact, InvAlways, PTL

LEMMA Gone == Inv => GoneForGood
<1> SUFFICES ASSUME Inv PROVE GoneForGood
  OBVIOUS
<1>1. \A c \in gone : Free(c) => \A u \in doomed \cap sources : Creator[u] # c
  BY DEF Inv, Doomed, Free
<1>2. ASSUME closed, \A x \in Releasers : Free(x),
             \A u \in Creations : st[u] \in {"idle", "made", "refused"}
      PROVE  sources = {} /\ used = 0
  <2>1. sources = {}
    BY <1>2 DEF Inv, Doomed, Free, Releasers
  <2>2. Charging = {}
    BY <1>2, <2>1, HostBytesAssumption DEF Inv, Types, Owned, Charging, Free
  <2>3. Bytes = {}
    BY <2>2 DEF Bytes
  <2> QED
    BY <2>1, <2>3, FS_EmptySet DEF Inv, Counted
<1> QED
  BY <1>1, <1>2 DEF GoneForGood

\* CloseCreator and Close: what a connection made or was making is not in the
\* table once its cleanup is over, and a closed store keeps nothing and owes
\* nothing.
THEOREM NothingComesBack == Spec => []GoneForGood
BY Gone, InvAlways, PTL

\* source.release waits for the readers: nobody reads a file that is closed.
THEOREM ReadersKept == Spec => []ReadersSafe
<1>1. Init => ReadersSafe
  BY DEF Init, ReadersSafe
<1>2. Inv /\ ReadersSafe /\ [Next]_vars => ReadersSafe'
  BY ReadersStep DEF Inv
<1> QED
  BY <1>1, <1>2, InvAlways, PTL DEF Spec


-----------------------------------------------------------------------------
(* The bundle: a step is one of the part that runs.                         *)

bundleVars == <<part, bytesVars, indexVars, uploadVars, outputVars>>

\* The bundle does with the byte store what HostBytes says, so the theorems above
\* hold of the bundle too.
THEOREM BytesInBundle == BundleSpec => Spec
<1>1. BundleInit => Init
    BY DEF BundleInit
<1>2. [BundleNext]_bundleVars => [Next]_vars
  <2>1. UNCHANGED bytesVars => UNCHANGED vars
      BY DEF bytesVars, vars, createVars, sourceVars, countVars, closeVars, releaseVars, readVars
  <2> QED
      BY <2>1 DEF BundleNext, bundleVars
<1> QED
    BY <1>1, <1>2, PTL DEF BundleSpec, bundleVars, Spec

-----------------------------------------------------------------------------
(* The output of an execution.  An unspilled log without an error has all   *)
(* the bytes in memory, a spilled one has them in its file.                 *)

Log == [buf : Nat, file : Int, open : BOOLEAN, spilled : BOOLEAN, closed : BOOLEAN, err : BOOLEAN]
Answer == [kind : {"none", "late", "done"}, fault : BOOLEAN, shown : [Streams -> Int],
           paths : SUBSET Streams, cut : BOOLEAN]

\* A log l of a stream to which t bytes were written, of which n were refused, in a
\* run that is at r.
Kept(l, t, n, r) ==
    /\ l \in Log
    /\ l.spilled => l.file + n = t
    /\ ~l.spilled => n = 0
    /\ ~l.spilled /\ ~l.err => l.buf = t /\ t <= Cap
    /\ l.spilled /\ l.err => r \in {"closed", "done"}

OutputTypes ==
    /\ total \in [Streams -> Nat] /\ lost \in [Streams -> Nat] /\ size \in [Streams -> Int]
    /\ DOMAIN log = Streams /\ answer \in Answer /\ direct \in BOOLEAN
    /\ run \in {"runs", "sized", "closed", "done"}
    /\ ask \in {"waits", "late", "checked", "answered"}

\* What was recorded of a truncated stream is all but what the disk refused.
Sized == run # "runs" =>
    \A s \in Streams : total[s] > Cap => log[s].err \/ size[s] + lost[s] = total[s]

\* What Settle has made sure of.
Settled == ask = "checked" =>
    /\ run = "done"
    /\ \A s \in Streams :
         /\ ~log[s].err
         /\ total[s] > Cap => log[s].spilled
         /\ ~direct /\ Output!Captured(s) > PreviewMax => log[s].spilled

Answered ==
    /\ ask = "answered" => answer.kind # "none"
    /\ ask = "answered" /\ answer.kind = "done" => run = "done"
    /\ ask = "answered" /\ answer.kind = "late" =>
         \A s \in Streams : IF s \in answer.paths THEN log[s].spilled ELSE log[s].err
    /\ ask = "answered" /\ answer.kind = "done" /\ ~answer.fault =>
         \A s \in Streams : \/ answer.shown[s] = total[s]
                            \/ answer.cut /\ s \in answer.paths /\ log[s].spilled
                            \/ lost[s] > 0

AllKept == \A s \in Streams : Kept(log[s], total[s], lost[s], run)
OutputInv == OutputTypes /\ AllKept /\ Sized /\ Settled /\ Answered

LEMMA SpillingKeeps ==
    ASSUME NEW l, NEW t \in Nat, NEW n \in Nat, NEW r, NEW d \in BOOLEAN, Kept(l, t, n, r)
    PROVE  /\ Kept(Output!Spilling(l, d), t, n, r)
           /\ l.spilled => Output!Spilling(l, d).spilled
           /\ l.err => Output!Spilling(l, d).err
           /\ Output!Spilling(l, d).spilled \/ Output!Spilling(l, d).err
<1> DEFINE m == Output!Spilling(l, d)
<1>1. l \in Log
    BY DEF Kept
<1>2. CASE l.err
  <2>1. m = l
    BY <1>2 DEF Output!Spilling
  <2> QED
    BY <1>2, <2>1
<1>3. CASE ~l.err /\ l.spilled
  <2>1. m = l \/ m = [l EXCEPT !.open = FALSE]
    BY <1>3 DEF Output!Spilling
  <2>2. /\ m \in Log /\ m.spilled = l.spilled /\ m.err = l.err /\ m.file = l.file
        /\ m.buf = l.buf
    BY <1>1, <2>1 DEF Log
  <2> HIDE DEF m
  <2>3. Kept(m, t, n, r) /\ m.spilled
    BY <1>3, <2>2 DEF Kept
  <2> QED
    BY <1>3, <2>3 DEF m
<1>4. CASE ~l.err /\ ~l.spilled /\ d
  <2> DEFINE k == Output!SpillLocked(l, d)
  <2>1. k = [l EXCEPT !.file = l.buf, !.buf = 0, !.open = TRUE, !.spilled = TRUE]
    BY <1>4 DEF Output!SpillLocked
  <2>2. k \in Log /\ k.spilled /\ ~k.err /\ k.file = l.buf
    <3>1. l.buf \in Nat /\ l.buf \in Int
      BY <1>1 DEF Log
    <3> HIDE DEF k
    <3>2. k \in Log
      BY <1>1, <2>1, <3>1 DEF Log
    <3>3. k.spilled /\ k.err = l.err /\ k.file = l.buf
      BY <1>1, <2>1 DEF Log
    <3> QED
      BY <1>4, <3>2, <3>3
  <2>3. m = k \/ m = [k EXCEPT !.open = FALSE]
    BY <1>4 DEF Output!Spilling
  <2> HIDE DEF k, m
  <2>4. m \in Log /\ m.spilled /\ ~m.err /\ m.file = l.buf
    BY <2>2, <2>3 DEF Log
  <2>5. l.buf = t /\ n = 0
    BY <1>4 DEF Kept
  <2>6. Kept(m, t, n, r)
    BY <2>4, <2>5 DEF Kept
  <2> QED
    BY <1>4, <2>4, <2>6 DEF m
<1>5. CASE ~l.err /\ ~l.spilled /\ ~d
  <2> DEFINE k == Output!SpillLocked(l, d)
  <2>1. k = [l EXCEPT !.err = TRUE]
    BY <1>5 DEF Output!SpillLocked
  <2>2. k \in Log /\ ~k.spilled /\ k.err
    BY <1>1, <1>5, <2>1 DEF Log
  <2>3. m = k \/ m = [k EXCEPT !.open = FALSE]
    BY <1>5 DEF Output!Spilling
  <2> HIDE DEF k, m
  <2>4. m \in Log /\ ~m.spilled /\ m.err
    BY <2>2, <2>3 DEF Log
  <2>5. Kept(m, t, n, r)
    BY <1>5, <2>4 DEF Kept
  <2> QED
    BY <1>5, <2>4, <2>5 DEF m
<1> QED
    BY <1>2, <1>3, <1>4, <1>5

\* A write: the stream goes on, in memory, in its file, or not at all.
LEMMA WriteKeeps ==
    ASSUME Output!Parameters, OutputInv, NEW s \in Streams, Output!Write(s)
    PROVE  OutputInv'
<1>1. PICK n \in 1..(MaxTotal - total[s]), d \in BOOLEAN :
        /\ total' = [total EXCEPT ![s] = @ + n]
        /\ LET l == log[s]
               over == ~l.spilled /\ l.buf + n > Cap
               m == IF over THEN Output!SpillLocked(l, d) ELSE l
           IN  \/ l.err /\ UNCHANGED <<log, lost>>
               \/ ~l.err /\ ~l.spilled /\ ~over /\ log' = [log EXCEPT ![s].buf = @ + n] /\ UNCHANGED lost
               \/ ~l.err /\ over /\ m.err /\ log' = [log EXCEPT ![s] = m] /\ UNCHANGED lost
               \/ /\ ~l.err /\ (l.spilled \/ over) /\ ~m.err
                  /\ \E k \in IF d \/ over THEN {n} ELSE 0..(n - 1) :
                       /\ log' = [log EXCEPT ![s] = [m EXCEPT !.file = @ + k]]
                       /\ lost' = [lost EXCEPT ![s] = @ + n - k]
    BY ZenonT(60) DEF Output!Write
<1>2. run = "runs" /\ UNCHANGED <<size, run, direct, ask, answer>>
    BY DEF Output!Write
<1>3. total[s] \in Nat /\ lost[s] \in Nat /\ n \in Nat \ {0} /\ MaxTotal \in Nat /\ Cap \in Nat
    BY <1>1 DEF OutputInv, OutputTypes, Output!Parameters
<1>4. Kept(log[s], total[s], lost[s], run) /\ log[s] \in Log
    BY DEF OutputInv, AllKept, Kept
<1>5. /\ total' \in [Streams -> Nat] /\ total'[s] = total[s] + n
      /\ \A u \in Streams : u # s => total'[u] = total[u]
    BY <1>1, <1>3 DEF OutputInv, OutputTypes
<1> DEFINE Frame == /\ DOMAIN log' = Streams /\ lost' \in [Streams -> Nat]
                    /\ \A u \in Streams : u # s => log'[u] = log[u] /\ lost'[u] = lost[u]
                    /\ Kept(log'[s], total'[s], lost'[s], run)
                    /\ log[s].spilled => log'[s].spilled
                    /\ log[s].err => log'[s].err
<1>6. ASSUME log[s].err PROVE Frame
  <2>1. UNCHANGED <<log, lost>>
    BY <1>1, <1>6
  <2>2. ~log[s].spilled
    BY <1>2, <1>4, <1>6 DEF Kept
  <2>3. Kept(log'[s], total'[s], lost'[s], run)
    BY <1>2, <1>4, <1>6, <2>1, <2>2 DEF Kept
  <2>4. DOMAIN log' = Streams /\ lost' \in [Streams -> Nat]
    BY <2>1 DEF OutputInv, OutputTypes
  <2> QED
    BY <2>1, <2>3, <2>4
<1>7. ASSUME ~log[s].err /\ ~log[s].spilled /\ ~(log[s].buf + n > Cap) PROVE Frame
  <2>1. log' = [log EXCEPT ![s].buf = @ + n] /\ UNCHANGED lost
    BY <1>1, <1>7
  <2>2. log[s].buf = total[s] /\ lost[s] = 0
    BY <1>4, <1>7 DEF Kept
  <2>3. log'[s] = [log[s] EXCEPT !.buf = @ + n] /\ \A u \in Streams : u # s => log'[u] = log[u]
    BY <2>1 DEF OutputInv, OutputTypes
  <2>4. /\ log'[s] \in Log /\ log'[s].buf = log[s].buf + n /\ log'[s].spilled = log[s].spilled
        /\ log'[s].err = log[s].err
    BY <1>3, <1>4, <2>3 DEF Log
  <2>5. Kept(log'[s], total'[s], lost'[s], run)
    BY <1>3, <1>5, <1>7, <2>1, <2>2, <2>4 DEF Kept
  <2>6. DOMAIN log' = Streams /\ lost' \in [Streams -> Nat]
    BY <2>1 DEF OutputInv, OutputTypes
  <2> QED
    BY <1>7, <2>1, <2>3, <2>5, <2>6
<1>8. ASSUME ~log[s].err /\ ~log[s].spilled /\ log[s].buf + n > Cap /\ ~d PROVE Frame
  <2> DEFINE m == Output!SpillLocked(log[s], d)
  <2>1. m = [log[s] EXCEPT !.err = TRUE]
    BY <1>8 DEF Output!SpillLocked
  <2>2. m \in Log /\ m.err /\ ~m.spilled
    BY <1>4, <1>8, <2>1 DEF Log
  <2>3. log' = [log EXCEPT ![s] = m] /\ UNCHANGED lost
    BY <1>1, <1>8, <2>2
  <2> HIDE DEF m
  <2>4. log'[s] = m /\ \A u \in Streams : u # s => log'[u] = log[u]
    BY <2>3 DEF OutputInv, OutputTypes
  <2>5. lost[s] = 0
    BY <1>4, <1>8 DEF Kept
  <2>6. Kept(log'[s], total'[s], lost'[s], run)
    BY <2>2, <2>3, <2>4, <2>5 DEF Kept
  <2>7. DOMAIN log' = Streams /\ lost' \in [Streams -> Nat]
    BY <2>3 DEF OutputInv, OutputTypes
  <2> QED
    BY <1>8, <2>2, <2>3, <2>4, <2>6, <2>7
<1>9. ASSUME ~log[s].err /\ (log[s].spilled \/ (log[s].buf + n > Cap /\ d)) PROVE Frame
  <2> DEFINE m == IF ~log[s].spilled /\ log[s].buf + n > Cap THEN Output!SpillLocked(log[s], d)
                  ELSE log[s]
  <2>1. /\ m \in Log /\ m.spilled /\ ~m.err /\ m.file + lost[s] = total[s]
        /\ ~log[s].spilled => lost[s] = 0
    <3>1. CASE log[s].spilled
      BY <1>4, <1>9, <3>1 DEF Kept
    <3>2. CASE ~log[s].spilled
      <4>1. m = [log[s] EXCEPT !.file = log[s].buf, !.buf = 0, !.open = TRUE, !.spilled = TRUE]
        BY <1>9, <3>2 DEF Output!SpillLocked
      <4> HIDE DEF m
      <4>2. m \in Log
        <5>1. log[s].buf \in Int
          BY <1>4 DEF Log
        <5> QED
          BY <1>4, <4>1, <5>1 DEF Log
      <4>3. m.spilled /\ m.err = log[s].err /\ m.file = log[s].buf
        BY <1>4, <4>1 DEF Log
      <4>4. log[s].buf = total[s] /\ lost[s] = 0
        BY <1>4, <1>9, <3>2 DEF Kept
      <4> QED
        BY <1>3, <1>9, <4>2, <4>3, <4>4
    <3> QED
      BY <3>1, <3>2
  <2>2. PICK k \in 0..n : /\ log' = [log EXCEPT ![s] = [m EXCEPT !.file = @ + k]]
                          /\ lost' = [lost EXCEPT ![s] = @ + n - k]
    BY <1>1, <1>3, <1>9, <2>1
  <2> HIDE DEF m
  <2>3. /\ log'[s] = [m EXCEPT !.file = @ + k] /\ \A u \in Streams : u # s => log'[u] = log[u]
        /\ lost'[s] = lost[s] + n - k /\ \A u \in Streams : u # s => lost'[u] = lost[u]
        /\ DOMAIN log' = Streams
    BY <2>2 DEF OutputInv, OutputTypes
  <2>4. lost[s] + n - k \in Nat
    BY <1>3, <2>2
  <2>5. lost' \in [Streams -> Nat]
    BY <2>2, <2>4 DEF OutputInv, OutputTypes
  <2>6. /\ log'[s] \in Log /\ log'[s].file = m.file + k /\ log'[s].spilled = m.spilled
        /\ log'[s].err = m.err
    <3>1. m.file + k \in Int
      BY <2>1, <2>2 DEF Log
    <3>2. log'[s] \in Log
      BY <2>1, <2>3, <3>1 DEF Log
    <3>3. log'[s].file = m.file + k /\ log'[s].spilled = m.spilled /\ log'[s].err = m.err
      BY <2>1, <2>3 DEF Log
    <3> QED
      BY <3>2, <3>3
  <2>7. m.file \in Int /\ total'[s] = total[s] + n
    BY <1>5, <2>1 DEF Log
  <2>8. log'[s].spilled /\ ~log'[s].err
    BY <2>1, <2>6
  <2>9. Kept(log'[s], total'[s], lost'[s], run)
    <3>2. log'[s].file + lost'[s] = total'[s]
      BY <1>3, <2>1, <2>2, <2>3, <2>6, <2>7
    <3> QED
      BY <2>6, <2>8, <3>2 DEF Kept
  <2> QED
    BY <1>9, <2>3, <2>5, <2>8, <2>9
<1>10. Frame
    BY <1>3, <1>6, <1>7, <1>8, <1>9
<1> HIDE DEF Frame
<1>11. AllKept'
    BY <1>2, <1>5, <1>10 DEF Frame, AllKept, OutputInv
<1>12. OutputTypes'
    BY <1>2, <1>5, <1>10 DEF Frame, OutputTypes, OutputInv
<1>13. Sized' /\ Settled'
    BY <1>2 DEF OutputInv, Sized, Settled
<1>14. Answered'
  <2>1. ask = "answered" /\ answer.kind # "none" => answer.kind = "late"
    BY <1>2 DEF OutputInv, OutputTypes, Answered, Answer
  <2>2. \A u \in Streams : /\ log[u].spilled => log'[u].spilled
                           /\ log[u].err => log'[u].err
    BY <1>10 DEF Frame
  <2> QED
    BY <1>2, <2>1, <2>2 DEF OutputInv, Answered
<1> QED
    BY <1>11, <1>12, <1>13, <1>14 DEF OutputInv

\* The run ends: sizes are taken, the logs closed, the end published.
LEMMA RunEndKeeps ==
    ASSUME Output!Parameters, OutputInv,
           Output!TakeSizes \/ Output!CloseLogs \/ Output!Finish
    PROVE  OutputInv'
<1> USE DEF OutputInv
<1>1. CASE Output!TakeSizes
  <2>1. /\ run = "runs" /\ run' = "sized" /\ UNCHANGED <<total, log, lost, direct, ask, answer>>
        /\ size' = [s \in Streams |-> IF ~(total[s] > Cap) THEN 0
                                      ELSE IF log[s].spilled THEN log[s].file ELSE log[s].buf]
    BY <1>1 DEF Output!TakeSizes, Output!Truncated
  <2>2. ASSUME NEW s \in Streams
        PROVE  /\ log[s] \in Log /\ Kept(log[s], total[s], lost[s], run')
               /\ size'[s] \in Int
               /\ total[s] > Cap => log[s].err \/ size'[s] + lost[s] = total[s]
    <3>1. Kept(log[s], total[s], lost[s], run) /\ total[s] \in Nat /\ Cap \in Nat
      BY DEF AllKept, OutputTypes, Output!Parameters
    <3>2. log[s] \in Log /\ log[s].file \in Int /\ log[s].buf \in Int
      BY <3>1 DEF Kept, Log
    <3>3. Kept(log[s], total[s], lost[s], run')
      BY <2>1, <3>1 DEF Kept
    <3>4. size'[s] \in Int
      BY <2>1, <3>2
    <3>5. CASE total[s] > Cap /\ log[s].spilled
      BY <2>1, <3>1, <3>2, <3>3, <3>4, <3>5 DEF Kept
    <3>6. CASE total[s] > Cap /\ ~log[s].spilled
      BY <3>1, <3>2, <3>3, <3>4, <3>6 DEF Kept
    <3> QED
      BY <3>2, <3>3, <3>4, <3>5, <3>6
  <2>3. AllKept'
    BY <2>1, <2>2 DEF AllKept
  <2>4. size' \in [Streams -> Int]
    BY <2>1, <2>2
  <2>5. Sized'
    BY <2>1, <2>2 DEF Sized
  <2> QED
    BY <2>1, <2>3, <2>4, <2>5 DEF OutputTypes, Settled, Answered
<1>2. CASE Output!CloseLogs
  <2>1. PICK bad \in SUBSET {s \in Streams : log[s].open} :
          log' = [s \in Streams |-> [log[s] EXCEPT !.closed = TRUE, !.open = FALSE,
                                                   !.err = @ \/ s \in bad]]
    BY <1>2 DEF Output!CloseLogs
  <2>2. run = "sized" /\ run' = "closed" /\ UNCHANGED <<total, lost, size, direct, ask, answer>>
    BY <1>2 DEF Output!CloseLogs
  <2>3. ASSUME NEW s \in Streams
        PROVE  /\ Kept(log'[s], total[s], lost[s], run') /\ log'[s].spilled = log[s].spilled
               /\ log[s].err => log'[s].err
    <3>1. Kept(log[s], total[s], lost[s], run) /\ log[s] \in Log
      BY DEF AllKept, Kept
    <3>2. PICK e \in BOOLEAN :
            /\ log'[s] = [log[s] EXCEPT !.closed = TRUE, !.open = FALSE, !.err = e]
            /\ log[s].err => e
      BY <2>1
    <3>3. /\ log'[s] \in Log /\ log'[s].spilled = log[s].spilled /\ log'[s].file = log[s].file
          /\ log'[s].buf = log[s].buf /\ log'[s].err = e
      BY <3>1, <3>2 DEF Log
    <3>4. Kept(log'[s], total[s], lost[s], run')
      BY <2>2, <3>1, <3>2, <3>3 DEF Kept
    <3> QED
      BY <3>2, <3>3, <3>4
  <2>4. AllKept'
    BY <2>2, <2>3 DEF AllKept
  <2>5. OutputTypes'
    BY <2>1, <2>2 DEF OutputTypes
  <2>6. Sized'
    BY <2>2, <2>3 DEF Sized
  <2>7. Settled'
    BY <2>2 DEF Settled
  <2>8. Answered'
    <3>1. ask = "answered" /\ answer.kind # "none" => answer.kind = "late"
      BY <2>2 DEF OutputTypes, Answered, Answer
    <3> QED
      BY <2>2, <2>3, <3>1 DEF Answered
  <2> QED
    BY <2>4, <2>5, <2>6, <2>7, <2>8
<1>3. CASE Output!Finish
  <2>1. /\ run = "closed" /\ run' = "done"
        /\ UNCHANGED <<total, log, lost, size, direct, ask, answer>>
    BY <1>3 DEF Output!Finish
  <2>2. AllKept'
    BY <2>1 DEF AllKept, Kept
  <2> QED
    BY <2>1, <2>2 DEF OutputTypes, Sized, Settled, Answered
<1> QED
    BY <1>1, <1>2, <1>3

\* What a request may do with a log: leave it, or spill it.
LEMMA SpilledKept ==
    ASSUME OutputInv, DOMAIN log' = Streams, UNCHANGED <<total, lost, run>>,
           \A s \in Streams : log'[s] = log[s]
                              \/ \E d \in BOOLEAN : log'[s] = Output!Spilling(log[s], d)
    PROVE  /\ AllKept'
           /\ \A s \in Streams : (log[s].spilled => log'[s].spilled) /\ (log[s].err => log'[s].err)
           /\ size' = size => Sized'
<1>1. ASSUME NEW s \in Streams
      PROVE  /\ Kept(log'[s], total[s], lost[s], run)
             /\ log[s].spilled => log'[s].spilled
             /\ log[s].err => log'[s].err
  <2>1. /\ Kept(log[s], total[s], lost[s], run) /\ total[s] \in Nat /\ lost[s] \in Nat
    BY DEF OutputInv, AllKept, OutputTypes
  <2>2. CASE log'[s] = log[s]
    BY <2>1, <2>2
  <2>3. ASSUME NEW d \in BOOLEAN, log'[s] = Output!Spilling(log[s], d)
        PROVE  /\ Kept(log'[s], total[s], lost[s], run)
               /\ log[s].spilled => log'[s].spilled
               /\ log[s].err => log'[s].err
    BY <2>1, <2>3, SpillingKeeps
  <2> QED
    BY <2>2, <2>3
<1> QED
    BY <1>1 DEF OutputInv, AllKept, Sized

LEMMA AnswersTyped ==
    /\ Output!NoAnswer \in Answer
    /\ Output!Attached \in SUBSET Streams
    /\ Output!Fault \in Answer /\ Output!Fault.kind = "done" /\ Output!Fault.fault
<1>1. Output!NoAnswer \in Answer
    BY DEF Output!NoAnswer, Answer
<1>2. Output!Attached \in SUBSET Streams
    BY DEF Output!Attached
<1> QED
    BY <1>1, <1>2 DEF Output!Fault, Answer

\* A request gives up waiting, spills the logs and answers with their names.
LEMMA LateKeeps ==
    ASSUME OutputInv, \/ Output!BecomesLate \/ Output!AnswerLate \/ Output!AnswerFailed
                      \/ \E s \in Streams : Output!SpillAll(s)
    PROVE  OutputInv'
<1>1. CASE Output!BecomesLate
    BY <1>1 DEF Output!BecomesLate, OutputInv, OutputTypes, AllKept, Sized, Settled, Answered
<1>2. ASSUME NEW s \in Streams, Output!SpillAll(s) PROVE OutputInv'
  <2>1. /\ ask = "late" /\ UNCHANGED <<total, lost, size, run, direct, ask, answer>>
        /\ \E d \in BOOLEAN : log' = [log EXCEPT ![s] = Output!Spilling(@, d)]
    BY <1>2 DEF Output!SpillAll
  <2>2. DOMAIN log' = Streams
    BY <2>1 DEF OutputInv, OutputTypes
  <2>3. \A u \in Streams : log'[u] = log[u] \/ \E d \in BOOLEAN : log'[u] = Output!Spilling(log[u], d)
    BY <2>1 DEF OutputInv, OutputTypes
  <2>4. AllKept' /\ Sized'
    BY <2>1, <2>2, <2>3, SpilledKept
  <2> QED
    BY <2>1, <2>2, <2>4 DEF OutputInv, OutputTypes, Settled, Answered
<1>3. CASE Output!AnswerLate
  <2>1. /\ \A s \in Streams : log[s].spilled \/ log[s].err
        /\ UNCHANGED <<total, log, lost, size, run, direct>>
        /\ ask' = "answered"
        /\ answer' = [Output!NoAnswer EXCEPT !.kind = "late", !.paths = Output!Attached]
    BY <1>3 DEF Output!AnswerLate
  <2>2. answer' \in Answer /\ answer'.kind = "late" /\ answer'.paths = Output!Attached
    BY <2>1, AnswersTyped DEF Answer
  <2>3. \A s \in Streams : IF s \in answer'.paths THEN log[s].spilled ELSE log[s].err
    BY <2>1, <2>2 DEF Output!Attached, Output!SpilledOk
  <2> QED
    BY <2>1, <2>2, <2>3 DEF OutputInv, OutputTypes, AllKept, Sized, Settled, Answered
<1>4. CASE Output!AnswerFailed
  <2>1. /\ run = "done" /\ ask' = "answered" /\ UNCHANGED <<total, lost, size, run, direct>>
        /\ \E d \in [Streams -> BOOLEAN] : log' = [s \in Streams |-> Output!Spilling(log[s], d[s])]
        /\ \E p : p \subseteq Streams
                  /\ answer' = [Output!NoAnswer EXCEPT !.kind = "done", !.fault = TRUE, !.paths = p]
    BY <1>4 DEF Output!AnswerFailed, Output!Attached
  <2>2. answer' \in Answer /\ answer'.kind = "done" /\ answer'.fault
    BY <2>1, AnswersTyped DEF Answer
  <2>3. DOMAIN log' = Streams
    BY <2>1
  <2>4. \A u \in Streams : \E d \in BOOLEAN : log'[u] = Output!Spilling(log[u], d)
    BY <2>1
  <2>5. AllKept' /\ Sized'
    BY <2>1, <2>3, <2>4, SpilledKept
  <2> QED
    BY <2>1, <2>2, <2>3, <2>5 DEF OutputInv, OutputTypes, Settled, Answered
<1> QED
    BY <1>1, <1>2, <1>3, <1>4

\* A request that waited for the end: Settle, and the two answers after it.
LEMMA SettleKeeps ==
    ASSUME Output!Parameters, OutputInv, Output!Settle
    PROVE  OutputInv'
<1>1. run = "done" /\ UNCHANGED <<total, lost, size, run, direct>>
    BY DEF Output!Settle
<1>2. [Output!Fault EXCEPT !.paths = {}] \in Answer
      /\ [Output!Fault EXCEPT !.paths = {}].kind = "done"
      /\ [Output!Fault EXCEPT !.paths = {}].fault
    BY AnswersTyped DEF Answer
<1> DEFINE refusal == [Output!Fault EXCEPT !.paths = {}]
<1>3. CASE Output!CannotSettle
  <2>1. ask' = "answered" /\ answer' = refusal /\ UNCHANGED log
    BY <1>3 DEF Output!Settle
  <2> HIDE DEF refusal
  <2>2. answer' \in Answer /\ answer'.kind = "done" /\ answer'.fault
    BY <1>2, <2>1 DEF refusal
  <2> QED
    BY <1>1, <2>1, <2>2 DEF OutputInv, OutputTypes, AllKept, Sized, Settled, Answered
<1>4. CASE ~Output!CannotSettle
  <2>1. PICK d \in [Streams -> BOOLEAN] :
          LET cut == {s \in Streams : ~direct /\ Output!Captured(s) > PreviewMax}
              spilt == [s \in Streams |-> IF s \in cut THEN Output!Spilling(log[s], d[s]) ELSE log[s]]
          IN  /\ log' = spilt
              /\ IF \E s \in Streams : spilt[s].err THEN ask' = "answered" /\ answer' = refusal
                 ELSE ask' = "checked" /\ UNCHANGED answer
    BY <1>4 DEF Output!Settle
  <2> HIDE DEF refusal
  <2>2. log' = [s \in Streams |-> IF ~direct /\ Output!Captured(s) > PreviewMax
                                  THEN Output!Spilling(log[s], d[s]) ELSE log[s]]
    BY <2>1
  <2>3. IF \E s \in Streams : log'[s].err THEN ask' = "answered" /\ answer' = refusal
        ELSE ask' = "checked" /\ UNCHANGED answer
    BY <2>1
  <2>4. DOMAIN log' = Streams
    BY <2>2
  <2>5. \A u \in Streams : log'[u] = log[u] \/ \E e \in BOOLEAN : log'[u] = Output!Spilling(log[u], e)
    BY <2>2
  <2>6. /\ AllKept' /\ Sized'
        /\ \A s \in Streams : (log[s].spilled => log'[s].spilled) /\ (log[s].err => log'[s].err)
    BY <1>1, <2>4, <2>5, SpilledKept
  <2>7. CASE \E s \in Streams : log'[s].err
    <3>1. ask' = "answered" /\ answer' \in Answer /\ answer'.kind = "done" /\ answer'.fault
      BY <1>2, <2>3, <2>7 DEF refusal
    <3> QED
      BY <1>1, <2>4, <2>6, <3>1 DEF OutputInv, OutputTypes, Settled, Answered
  <2>8. CASE ~\E s \in Streams : log'[s].err
    <3>1. ask' = "checked" /\ UNCHANGED answer
      BY <2>3, <2>8
    <3>2. ASSUME NEW s \in Streams
          PROVE  /\ ~log'[s].err
                 /\ total[s] > Cap => log'[s].spilled
                 /\ ~direct /\ Output!Captured(s) > PreviewMax => log'[s].spilled
      <4>1. ~log'[s].err
        BY <2>8
      <4>2. total[s] > Cap => log'[s].spilled
        BY <1>4, <2>6 DEF Output!CannotSettle, Output!Truncated, Output!SpilledOk
      <4>3. ASSUME ~direct, Output!Captured(s) > PreviewMax PROVE log'[s].spilled
        <5>1. log'[s] = Output!Spilling(log[s], d[s]) /\ d[s] \in BOOLEAN
          BY <2>2, <4>3
        <5>2. Kept(log[s], total[s], lost[s], run) /\ total[s] \in Nat /\ lost[s] \in Nat
          BY DEF OutputInv, OutputTypes, AllKept
        <5>3. log'[s].spilled \/ log'[s].err
          BY <5>1, <5>2, SpillingKeeps
        <5> QED
          BY <4>1, <5>3
      <4> QED
        BY <4>1, <4>2, <4>3
    <3>3. Settled'
      <4>1. \A s \in Streams : Output!Captured(s)' = Output!Captured(s)
        BY <1>1 DEF Output!Captured
      <4> QED
        BY <1>1, <3>1, <3>2, <4>1 DEF Settled
    <3> QED
      BY <1>1, <2>4, <2>6, <3>1, <3>3 DEF OutputInv, OutputTypes, Answered
  <2> QED
    BY <2>7, <2>8
<1> QED
    BY <1>3, <1>4

LEMMA AnswerKeepsOutput ==
    ASSUME Output!Parameters, OutputInv, Output!AnswerPreview \/ Output!AnswerFull
    PROVE  OutputInv'
<1>1. /\ ask = "checked" /\ ask' = "answered" /\ run = "done"
      /\ UNCHANGED <<total, log, lost, size, run, direct>>
    BY DEF Output!AnswerPreview, Output!AnswerFull, OutputInv, Settled
<1>2. ASSUME NEW s \in Streams
      PROVE  /\ ~log[s].err /\ total[s] \in Nat /\ Cap \in Nat /\ PreviewMax \in Nat
             /\ total[s] > Cap => log[s].spilled
             /\ ~direct /\ Output!Captured(s) > PreviewMax => log[s].spilled
             /\ Output!Captured(s) = IF total[s] < Cap THEN total[s] ELSE Cap
             /\ total[s] > Cap => size[s] + lost[s] = total[s]
             /\ lost[s] \in Nat /\ size[s] \in Int
    BY <1>1 DEF OutputInv, OutputTypes, Settled, Sized, Output!Parameters, Output!Captured, Output!Least
<1>3. CASE Output!AnswerPreview
  <2> DEFINE shown == [s \in Streams |-> Output!Least(Output!Captured(s), PreviewMax)]
             cut == \E s \in Streams : Output!Truncated(s) \/ Output!Captured(s) > PreviewMax
  <2>1. /\ ~direct
        /\ answer' = [Output!NoAnswer EXCEPT !.kind = "done", !.paths = Output!Attached,
                        !.shown = shown, !.cut = cut]
    BY <1>3 DEF Output!AnswerPreview
  <2>2. shown \in [Streams -> Int] /\ cut \in BOOLEAN
    BY <1>2 DEF Output!Least
  <2>3. ASSUME NEW s \in Streams
        PROVE  shown[s] = total[s] \/ (cut /\ s \in Output!Attached /\ log[s].spilled)
    <3>1. CASE total[s] > Cap
      BY <1>2, <2>1, <3>1 DEF Output!Truncated, Output!Attached, Output!SpilledOk
    <3>2. CASE ~(total[s] > Cap) /\ Output!Captured(s) > PreviewMax
      BY <1>2, <2>1, <3>2 DEF Output!Attached, Output!SpilledOk
    <3>3. CASE ~(total[s] > Cap) /\ ~(Output!Captured(s) > PreviewMax)
      <4>1. Output!Captured(s) = total[s]
        BY <1>2, <3>3
      <4>2. shown[s] = total[s]
        BY <1>2, <3>3, <4>1 DEF Output!Least
      <4> QED
        BY <4>2
    <3> QED
      BY <3>1, <3>2, <3>3
  <2> HIDE DEF shown, cut
  <2>4. /\ answer' \in Answer /\ answer'.kind = "done" /\ answer'.shown = shown
        /\ answer'.paths = Output!Attached /\ answer'.cut = cut
    BY <2>1, <2>2, AnswersTyped DEF Answer
  <2>5. \A s \in Streams : \/ answer'.shown[s] = total[s]
                           \/ answer'.cut /\ s \in answer'.paths /\ log[s].spilled
    BY <2>3, <2>4
  <2> QED
    BY <1>1, <2>4, <2>5 DEF OutputInv, OutputTypes, AllKept, Sized, Settled, Answered
<1>4. CASE Output!AnswerFull
  <2>1. \/ answer' = Output!Fault
        \/ answer' = [Output!NoAnswer EXCEPT !.kind = "done", !.paths = Output!Attached,
                        !.shown = Output!Whole]
    BY <1>4 DEF Output!AnswerFull
  <2>2. CASE answer' = Output!Fault
    <3>1. answer' \in Answer /\ answer'.kind = "done" /\ answer'.fault
      BY <2>2, AnswersTyped
    <3> QED
      BY <1>1, <3>1 DEF OutputInv, OutputTypes, AllKept, Sized, Settled, Answered
  <2>3. CASE answer' = [Output!NoAnswer EXCEPT !.kind = "done", !.paths = Output!Attached,
                          !.shown = Output!Whole]
    <3>1. ASSUME NEW s \in Streams
          PROVE  /\ Output!Whole[s] \in Int
                 /\ Output!Whole[s] = total[s] \/ lost[s] > 0
      <4>1. Output!Whole[s] = IF total[s] > Cap THEN size[s] ELSE Output!Captured(s)
        BY DEF Output!Whole, Output!Bytes, Output!Truncated
      <4>2. CASE total[s] > Cap
        BY <1>2, <4>1, <4>2
      <4>3. CASE ~(total[s] > Cap)
        BY <1>2, <4>1, <4>3
      <4> QED
        BY <4>2, <4>3
    <3>2. Output!Whole \in [Streams -> Int]
      BY <3>1 DEF Output!Whole
    <3>3. answer' \in Answer /\ answer'.kind = "done" /\ answer'.shown = Output!Whole
      BY <2>3, <3>2, AnswersTyped DEF Answer
    <3>4. \A s \in Streams : answer'.shown[s] = total[s] \/ lost[s] > 0
      BY <3>1, <3>3
    <3> QED
      BY <1>1, <3>3, <3>4 DEF OutputInv, OutputTypes, AllKept, Sized, Settled, Answered
  <2> QED
    BY <2>1, <2>2, <2>3
<1> QED
    BY <1>3, <1>4

LEMMA OutputStep ==
    ASSUME Output!Parameters, OutputInv, Output!Next
    PROVE  OutputInv'
BY WriteKeeps, RunEndKeeps, LateKeeps, SettleKeeps, AnswerKeepsOutput DEF Output!Next

LEMMA OutputInit ==
    ASSUME Output!Parameters, Output!Init
    PROVE  OutputInv
<1> USE DEF Output!Init
<1>1. Output!Fresh \in Log /\ ~Output!Fresh.spilled /\ ~Output!Fresh.err /\ Output!Fresh.buf = 0
    BY DEF Output!Fresh, Output!NoFile, Log
<1>2. AllKept
  <2> SUFFICES ASSUME NEW s \in Streams PROVE Kept(Output!Fresh, 0, 0, run)
    BY DEF AllKept
  <2> QED
    BY <1>1 DEF Kept, Output!Parameters
<1>3. Output!NoAnswer \in Answer
    BY DEF Output!NoAnswer, Answer
<1> QED
    BY <1>2, <1>3 DEF OutputInv, OutputTypes, Sized, Settled, Answered

OutputSafe == part = "output" => OutputInv

LEMMA OutputInvariance == BundleSpec => []OutputSafe
<1>1. BundleInit => OutputSafe
    BY StoresAssumption, OutputInit DEF BundleInit, OutputSafe
<1>2. OutputSafe /\ [BundleNext]_bundleVars => OutputSafe'
  <2> SUFFICES ASSUME OutputSafe, [BundleNext]_bundleVars, part' = "output" PROVE OutputInv'
    BY DEF OutputSafe
  <2>1. OutputInv /\ (Output!Next \/ UNCHANGED outputVars)
    BY DEF OutputSafe, BundleNext, bundleVars
  <2>2. CASE UNCHANGED outputVars
    BY <2>1, <2>2 DEF outputVars, OutputInv, OutputTypes, AllKept, Kept, Sized, Settled, Answered,
        Output!Captured
  <2> QED
    BY <2>1, <2>2, StoresAssumption, OutputStep
<1> QED
    BY <1>1, <1>2, PTL DEF BundleSpec, bundleVars

\* LogSpiller, LogPair and execScript: an answer that is not a fault shows what a
\* stream wrote or says it is cut and names a log that has all the disk took.
THEOREM OutputAccounted == BundleSpec => []NothingSilentlyLost
<1>1. OutputSafe => NothingSilentlyLost
  <2> SUFFICES ASSUME OutputInv, ask = "answered", ~answer.fault, NEW s \in Streams
               PROVE  \/ answer.kind = "done" /\ answer.shown[s] = total[s]
                      \/ answer.kind = "done" /\ answer.cut /\ s \in answer.paths /\ Output!HoldsAll(s)
                      \/ answer.kind = "done" /\ lost[s] > 0
                      \/ answer.kind = "late" /\ s \in answer.paths /\ (log[s].err \/ Output!HoldsAll(s))
                      \/ answer.kind = "late" /\ s \notin answer.paths /\ log[s].err
    BY DEF OutputSafe, NothingSilentlyLost, Output!NothingSilentlyLost
  <2>1. log[s].spilled => Output!HoldsAll(s)
    BY DEF OutputInv, AllKept, Kept, Output!HoldsAll
  <2>2. CASE answer.kind = "done"
    BY <2>1, <2>2 DEF OutputInv, Answered
  <2>3. CASE answer.kind = "late"
    BY <2>1, <2>3 DEF OutputInv, Answered
  <2> QED
    BY <2>2, <2>3 DEF OutputInv, OutputTypes, Answered, Answer
<1> QED
    BY <1>1, OutputInvariance, PTL


-----------------------------------------------------------------------------
(* An upload by ranges: the mark is the length of what is stored, and what  *)
(* is stored and what is on its way is the client's, byte for byte.         *)

Octets == 0..255

UploadTypes ==
    /\ stored \in Seq(Octets) /\ received = Len(stored) /\ received <= Len(Sent)
    /\ told \in Nat /\ wrong \in BOOLEAN /\ immutable \in BOOLEAN

\* What a request carries, at its place.
Truthful(q) == \A i \in 1..Len(q.data) : q.data[i] = Sent[q.from + i]

UploadInv ==
    /\ UploadTypes
    /\ \A q \in inFlight : /\ q.from \in Nat /\ q.data \in Seq(Octets)
                           /\ q.from + Len(q.data) <= Len(Sent)
                           /\ ~wrong => Truthful(q)
    /\ ~wrong => \A i \in 1..received : stored[i] = Sent[i]
    /\ immutable => received = Len(Sent) /\ (Checked => stored = Sent)

LEMMA PartOf ==
    ASSUME NEW s \in Seq(Octets), NEW from \in Nat, NEW n \in Nat, from + n <= Len(s)
    PROVE  /\ Upload!Part(s, from, n) \in Seq(Octets) /\ Len(Upload!Part(s, from, n)) = n
           /\ \A i \in 1..n : Upload!Part(s, from, n)[i] = s[from + i]
<1>1. \A i \in (from + 1)..(from + n) : s[i] \in Octets
    OBVIOUS
<1> DEFINE t == SubSeq(s, from + 1, from + n)
<1>2. /\ t \in Seq(Octets) /\ Len(t) = IF from + 1 <= from + n THEN from + n - (from + 1) + 1 ELSE 0
      /\ \A i \in 1..(from + n - (from + 1) + 1) : t[i] = s[from + 1 + i - 1]
    BY <1>1, SubSeqProperties
<1>3. from + n - (from + 1) + 1 = n /\ \A i \in 1..n : from + 1 + i - 1 = from + i
    OBVIOUS
<1> HIDE DEF t
<1>4. Len(t) = n /\ \A i \in 1..n : t[i] = s[from + i]
    BY <1>2, <1>3
<1> QED
    BY <1>2, <1>4 DEF t, Upload!Part

\* The range at the mark is put behind what is stored.
LEMMA OverAppends ==
    ASSUME UploadInv, NEW q, q.data \in Seq(Octets), q.from = received, NEW n \in 0..Len(q.data)
    PROVE  /\ Upload!Over(n, q) \in Seq(Octets) /\ Len(Upload!Over(n, q)) = received + n
           /\ \A i \in 1..received : Upload!Over(n, q)[i] = stored[i]
           /\ \A i \in 1..n : Upload!Over(n, q)[received + i] = q.data[i]
<1> DEFINE head == SubSeq(stored, 1, q.from)
           body == SubSeq(q.data, 1, n)
           tail == SubSeq(stored, q.from + n + 1, Len(stored))
<1>1. stored \in Seq(Octets) /\ received = Len(stored) /\ received \in Nat
    BY DEF UploadInv, UploadTypes
<1>2. head = stored
  <2>1. head = Upload!Part(stored, 0, received)
    BY <1>1 DEF Upload!Part
  <2>2. /\ head \in Seq(Octets) /\ Len(head) = received /\ \A i \in 1..received : head[i] = stored[0 + i]
    BY <1>1, <2>1, PartOf
  <2> HIDE DEF head
  <2> QED
    BY <1>1, <2>2, SeqEqual
<1>3. tail = << >>
    BY <1>1, SubSeqEmpty
<1>4. body \in Seq(Octets) /\ Len(body) = n /\ \A i \in 1..n : body[i] = q.data[i]
  <2>1. body = Upload!Part(q.data, 0, n)
    BY DEF Upload!Part
  <2>2. body \in Seq(Octets) /\ Len(body) = n /\ \A i \in 1..n : body[i] = q.data[0 + i]
    BY <2>1, PartOf
  <2> HIDE DEF body
  <2> QED
    BY <2>2
<1>5. Upload!Over(n, q) = head \o body \o tail
    BY DEF Upload!Over
<1> HIDE DEF head, body, tail
<1>6. head \o body \in Seq(Octets)
    BY <1>1, <1>2, <1>4, ConcatProperties
<1>7. Upload!Over(n, q) = stored \o body
    BY <1>2, <1>3, <1>5, <1>6, ConcatEmptySeq
<1>8. /\ stored \o body \in Seq(Octets) /\ Len(stored \o body) = received + n
      /\ \A i \in 1..(received + n) :
           (stored \o body)[i] = IF i <= received THEN stored[i] ELSE body[i - received]
  <2> DEFINE all == stored \o body
  <2>1. /\ all \in Seq(Octets) /\ Len(all) = Len(stored) + Len(body)
        /\ \A i \in 1..(Len(stored) + Len(body)) :
             all[i] = IF i <= Len(stored) THEN stored[i] ELSE body[i - Len(stored)]
    <3>1. stored \in Seq(Octets) /\ body \in Seq(Octets)
      BY <1>1, <1>4
    <3> QED
      BY <3>1, ConcatProperties
  <2> HIDE DEF all
  <2>2. /\ all \in Seq(Octets) /\ Len(all) = received + n
        /\ \A i \in 1..(received + n) :
             all[i] = IF i <= received THEN stored[i] ELSE body[i - received]
    BY <1>1, <1>4, <2>1
  <2> QED
    BY <2>2 DEF all
<1> QED
    BY <1>1, <1>4, <1>7, <1>8

LEMMA UploadStep ==
    ASSUME Upload!Parameters, UploadInv, Upload!Next
    PROVE  UploadInv'
<1>0. /\ Sent \in Seq(Octets) /\ Other \in Seq(Octets) /\ Len(Other) = Len(Sent) /\ RangeMax \in Nat
    BY DEF Upload!Parameters, Upload!Byte, Octets
<1>1. CASE Upload!Send
  <2>1. /\ ~immutable /\ UNCHANGED <<stored, received, immutable, told>>
    BY <1>1 DEF Upload!Send
  <2>2. PICK from \in 0..told, n \in 1..RangeMax :
          /\ from + n <= Len(Sent)
          /\ \E data \in {Upload!Part(Sent, from, n), Upload!Part(Other, from, n)} :
               /\ inFlight' = inFlight \cup {[from |-> from, data |-> data]}
               /\ wrong' = (wrong \/ data # Upload!Part(Sent, from, n))
    BY <1>1 DEF Upload!Send
  <2>3. from \in Nat /\ n \in Nat
    BY <1>0, <2>2 DEF UploadInv, UploadTypes
  <2>4. PICK data \in {Upload!Part(Sent, from, n), Upload!Part(Other, from, n)} :
          /\ inFlight' = inFlight \cup {[from |-> from, data |-> data]}
          /\ wrong' = (wrong \/ data # Upload!Part(Sent, from, n))
    BY <2>2
  <2>5. data \in Seq(Octets) /\ Len(data) = n
    <3>1. Upload!Part(Sent, from, n) \in Seq(Octets) /\ Len(Upload!Part(Sent, from, n)) = n
      BY <1>0, <2>2, <2>3, PartOf
    <3>2. Upload!Part(Other, from, n) \in Seq(Octets) /\ Len(Upload!Part(Other, from, n)) = n
      BY <1>0, <2>2, <2>3, PartOf
    <3> QED
      BY <2>4, <3>1, <3>2
  <2>6. ~wrong' => ~wrong /\ data = Upload!Part(Sent, from, n)
    BY <2>4
  <2>7. ~wrong' => \A i \in 1..Len(data) : data[i] = Sent[from + i]
    <3>1. \A i \in 1..n : Upload!Part(Sent, from, n)[i] = Sent[from + i]
      BY <1>0, <2>2, <2>3, PartOf
    <3> QED
      BY <2>5, <2>6, <3>1
  <2>8. \A q \in inFlight' : /\ q.from \in Nat /\ q.data \in Seq(Octets)
                             /\ q.from + Len(q.data) <= Len(Sent)
                             /\ ~wrong' => Truthful(q)
    BY <2>2, <2>3, <2>4, <2>5, <2>6, <2>7 DEF UploadInv, Truthful
  <2>9. wrong' \in BOOLEAN
    BY <2>4
  <2> QED
    BY <2>1, <2>6, <2>8, <2>9 DEF UploadInv, UploadTypes, Truthful
<1>2. CASE Upload!Seal
  <2>1. /\ received = Len(Sent) /\ (Checked => stored = Sent) /\ immutable' = TRUE
        /\ UNCHANGED <<stored, received, inFlight, told, wrong>>
    BY <1>2 DEF Upload!Seal, Upload!Complete
  <2> QED
    BY <2>1 DEF UploadInv, UploadTypes, Truthful
<1>3. ASSUME NEW q \in inFlight, Upload!WriteRange(q) PROVE UploadInv'
  <2>1. inFlight' \subseteq inFlight /\ UNCHANGED <<immutable, wrong>>
    BY <1>3 DEF Upload!WriteRange
  <2>2. q.from \in Nat /\ q.data \in Seq(Octets) /\ q.from + Len(q.data) <= Len(Sent)
        /\ (~wrong => Truthful(q))
    BY DEF UploadInv
  <2>3. received \in Nat /\ told \in Nat /\ received = Len(stored) /\ stored \in Seq(Octets)
    BY DEF UploadInv, UploadTypes
  <2>4. CASE UNCHANGED <<stored, received>> /\ told' \in {told, received}
    <3>1. told' \in Nat
      BY <2>3, <2>4
    <3> QED
      BY <2>1, <2>4, <3>1 DEF UploadInv, UploadTypes, Truthful
  <2>5. ASSUME ~immutable, q.from = received, NEW n \in 0..Len(q.data),
               stored' = Upload!Over(n, q), received' = Upload!Mark(n, q),
               told' \in {told, received'}
        PROVE  UploadInv'
    <3>1. /\ stored' \in Seq(Octets) /\ Len(stored') = received + n
          /\ \A i \in 1..received : stored'[i] = stored[i]
          /\ \A i \in 1..n : stored'[received + i] = q.data[i]
      BY <2>2, <2>5, OverAppends
    <3>2. received' = received + n /\ n \in Nat /\ n <= Len(q.data) /\ Len(q.data) \in Nat
      BY <2>2, <2>5 DEF Upload!Mark
    <3>3. received' \in Nat /\ told' \in Nat /\ received' <= Len(Sent) /\ Len(Sent) \in Nat
      BY <1>0, <2>2, <2>3, <2>5, <3>2
    <3>4. ASSUME ~wrong PROVE \A i \in 1..received' : stored'[i] = Sent[i]
      <4> SUFFICES ASSUME NEW i \in 1..received' PROVE stored'[i] = Sent[i]
        OBVIOUS
      <4>1. CASE i <= received
        BY <2>3, <3>1, <3>4, <4>1 DEF UploadInv
      <4>2. CASE i > received
        <5>1. i - received \in 1..n /\ received + (i - received) = i
          BY <2>3, <3>2, <4>2
        <5>2. stored'[i] = q.data[i - received] /\ i - received \in 1..Len(q.data)
          BY <3>1, <3>2, <5>1
        <5> QED
          BY <2>2, <2>5, <3>4, <5>1, <5>2 DEF Truthful
      <4> QED
        BY <2>3, <4>1, <4>2
    <3> QED
      BY <2>1, <2>5, <3>1, <3>2, <3>3, <3>4 DEF UploadInv, UploadTypes, Truthful
  <2> QED
    BY <1>3, <2>4, <2>5 DEF Upload!WriteRange
<1> QED
    BY <1>1, <1>2, <1>3 DEF Upload!Next

LEMMA UploadInit ==
    ASSUME Upload!Parameters, Upload!Init
    PROVE  UploadInv
<1>1. Sent \in Seq(Octets) /\ Len(Sent) \in Nat
    BY DEF Upload!Parameters, Upload!Byte, Octets
<1>2. << >> \in Seq(Octets) /\ Len(<< >>) = 0
    OBVIOUS
<1> QED
  <2>1. /\ stored = << >> /\ received = 0 /\ immutable = FALSE /\ inFlight = {} /\ told = 0
        /\ wrong = FALSE
    BY DEF Upload!Init
  <2>2. UploadTypes
    <3>1. stored \in Seq(Octets) /\ Len(stored) = 0
      BY <1>2, <2>1
    <3>2. received = Len(stored) /\ received <= Len(Sent)
      BY <1>1, <2>1, <3>1
    <3> QED
      BY <2>1, <3>1, <3>2 DEF UploadTypes
  <2>3. \A i \in 1..received : FALSE
    BY <2>1
  <2> QED
    BY <2>1, <2>2, <2>3 DEF UploadInv

UploadSafe == part = "upload" => UploadInv

LEMMA UploadInvariance == BundleSpec => []UploadSafe
<1>1. BundleInit => UploadSafe
    BY StoresAssumption, UploadInit DEF BundleInit, UploadSafe
<1>2. UploadSafe /\ [BundleNext]_bundleVars => UploadSafe'
  <2> SUFFICES ASSUME UploadSafe, [BundleNext]_bundleVars, part' = "upload" PROVE UploadInv'
    BY DEF UploadSafe
  <2>1. UploadInv /\ (Upload!Next \/ UNCHANGED uploadVars)
    BY DEF UploadSafe, BundleNext, bundleVars
  <2>2. CASE UNCHANGED uploadVars
    BY <2>1, <2>2 DEF uploadVars, UploadInv, UploadTypes, Truthful
  <2> QED
    BY <2>1, <2>2, StoresAssumption, UploadStep
<1> QED
    BY <1>1, <1>2, PTL DEF BundleSpec, bundleVars

\* writeUpload and sealUpload: for all contents and ranges, what is below the mark is
\* what the client sent, and a sealed upload is all of it.
THEOREM UploadsWhole == BundleSpec => []UploadIsSent
<1>1. UploadSafe => UploadIsSent
  <2> SUFFICES ASSUME UploadInv PROVE Upload!UploadIsSent
    BY DEF UploadSafe, UploadIsSent
  <2>1. Sent \in Seq(Octets) /\ received \in Nat /\ received = Len(stored) /\ stored \in Seq(Octets)
        /\ received <= Len(Sent)
    BY StoresAssumption DEF Upload!Parameters, Upload!Byte, Octets, UploadInv, UploadTypes
  <2>2. ASSUME ~wrong PROVE stored = Upload!Part(Sent, 0, received)
    <3>1. \A i \in 1..received : stored[i] = Sent[0 + i]
      BY <2>1, <2>2 DEF UploadInv
    <3> DEFINE p == Upload!Part(Sent, 0, received)
    <3>2. p \in Seq(Octets) /\ Len(p) = received /\ \A i \in 1..received : p[i] = Sent[0 + i]
      <4>1. 0 \in Nat /\ 0 + received <= Len(Sent)
        BY <2>1
      <4> QED
        BY <2>1, <4>1, PartOf
    <3> HIDE DEF p
    <3>3. stored = p
      BY <2>1, <3>1, <3>2, SeqEqual
    <3> QED
      BY <3>3 DEF p
  <2>3. ASSUME ~wrong, immutable PROVE stored = Sent
    <3>1. \A i \in 1..received : stored[i] = Sent[i]
      BY <2>1, <2>3 DEF UploadInv
    <3>2. received = Len(Sent)
      BY <2>3 DEF UploadInv
    <3> QED
      BY <2>1, <3>1, <3>2, SeqEqual
  <2> QED
    BY <2>2, <2>3 DEF UploadInv, Upload!UploadIsSent
<1> QED
    BY <1>1, UploadInvariance, PTL


-----------------------------------------------------------------------------
(* The index of a root.  What is on the disk is indexed as it is now,       *)
(* or something that is still to be done will index it.                     *)

IndexTypes ==
    /\ DOMAIN disk = Index!Nodes /\ (\A d \in Dirs : disk[d] \in {"dir", Absent}) /\ disk[Root] = "dir"
    /\ DOMAIN files = Files /\ DOMAIN fresh = Files
    /\ walk \subseteq Index!Nodes /\ listing \subseteq Dirs
    /\ failed \in BOOLEAN /\ ready \in BOOLEAN /\ building \in BOOLEAN /\ dirty \in BOOLEAN
    /\ indexClosed \in BOOLEAN /\ watcher \in {"select", "applying", "refused"}

\* What exists lies in directories that exist.
Tree == \A n \in Index!Nodes : disk[n] # Absent => \A d \in Above[n] \ {n} : disk[d] = "dir"

\* Who walks, and when.
Turns ==
    /\ ready => ~building /\ ~indexClosed
    /\ watcher = "applying" => ready
    /\ ~building /\ watcher # "applying" => walk = {} /\ listing = {}

\* The table that a walk fills.
Right(f) == (IF building THEN fresh ELSE files)[f] \in {disk[f], Unindexed}

\* Something is still to be done that concerns n: a build to be made, a change to be
\* delivered or applied, a directory on the path of n to be entered or listed.
Coming(n) ==
    \/ failed \/ watcher = "refused" \/ (building /\ dirty)
    \/ Above[n] \cap events # {}
    \/ ready /\ Above[n] \cap changes # {}
    \/ Above[n] \cap walk # {}
    \/ (Above[n] \ {n}) \cap listing # {}

\* A file is indexed as it is; of a directory, changes are reported.
Known(n) == IF n \in Dirs THEN n \in watched ELSE Right(n)

NothingMissed ==
    ~indexClosed /\ (building \/ ready) =>
        \A n \in Index!Nodes : disk[n] # Absent /\ ~Index!Skipped(n) => Coming(n) \/ Known(n)

IndexInv == IndexTypes /\ Tree /\ Turns /\ NothingMissed
IndexSafe == part = "index" => IndexInv

LEMMA Names ==
    /\ Root \in Dirs /\ Dirs \subseteq Index!Nodes /\ Files \subseteq Index!Nodes
    /\ \A n \in Index!Nodes : n \in Dirs \/ n \in Files
    /\ Dirs \cap Files = {} /\ Absent # "dir" /\ Above[Root] = {Root}
    /\ \A n \in Index!Nodes \ {Root} :
         Parent[n] \in Dirs /\ n \notin Above[Parent[n]] /\ Above[n] = {n} \cup Above[Parent[n]]
    /\ \A n \in Index!Nodes :
         /\ Root \in Above[n] /\ n \in Above[n] /\ Above[n] \ {n} \subseteq Dirs
         /\ \A a \in Above[n] : Above[a] \subseteq Above[n]
         /\ \A a \in Above[n] \ {n} : \E c \in Above[n] \ {Root} : Parent[c] = a
<1>1. \A n \in Index!Nodes \ {Root} : n \in Above[n]
    BY StoresAssumption DEF StoresAssumption, Index!Parameters, Index!Nodes
<1>2. Root \in Above[Root]
    BY StoresAssumption DEF StoresAssumption, Index!Parameters
<1> QED
    BY StoresAssumption, <1>1, <1>2 DEF StoresAssumption, Index!Parameters, Index!Nodes

LEMMA WriteStep == ASSUME IndexInv, NEW n \in Index!Nodes, Index!Write(n) PROVE IndexInv'
<1> USE Names DEF IndexInv
<1> PICK t \in (IF n \in Dirs THEN {"dir"} ELSE Texts) : disk[n] # t /\ disk' = [disk EXCEPT ![n] = t]
    BY DEF Index!Write
<1>1. /\ n # Root /\ disk[Parent[n]] = "dir" /\ ~Index!Skipped(n)
      /\ events' = events \cup Index!Reported(n)
      /\ UNCHANGED <<watched, failed, ready, building, dirty, indexClosed, files, fresh, walk, listing,
                     watcher, changes>>
    BY DEF Index!Write, Index!Index, Index!flags
<1>2. t # Absent
    BY StoresAssumption DEF StoresAssumption, Index!Parameters
<1>3. IndexTypes'
    BY <1>1 DEF IndexTypes
<1>4. Tree'
  <2> SUFFICES ASSUME NEW m \in Index!Nodes, disk'[m] # Absent, NEW d \in Above[m] \ {m}
               PROVE disk'[d] = "dir"
      BY DEF Tree
  <2>1. CASE m = n
      BY <1>1, <2>1 DEF Tree, IndexTypes
  <2>2. CASE m # n
      BY <1>1, <2>2 DEF Tree, IndexTypes
  <2> QED
      BY <2>1, <2>2
<1>5. Turns'
    BY <1>1 DEF Turns
<1>6. NothingMissed'
  <2> SUFFICES ASSUME ~indexClosed, building \/ ready, NEW m \in Index!Nodes, disk'[m] # Absent,
                      ~Index!Skipped(m)
               PROVE Coming(m)' \/ Known(m)'
      BY <1>1 DEF NothingMissed, Index!Skipped, Index!Below
  <2>1. Coming(m) => Coming(m)'
      BY <1>1 DEF Coming
  <2>2. CASE m # n
    <3>1. disk[m] # Absent
        BY <2>2 DEF IndexTypes
    <3>2. Coming(m) \/ Known(m)
        BY <3>1 DEF NothingMissed
    <3>3. Known(m) => Known(m)'
        BY <1>1, <2>2 DEF Known, Right, IndexTypes
    <3> QED
        BY <2>1, <3>2, <3>3
  <2>3. CASE m = n
    <3>1. CASE Parent[n] \in watched
        BY <1>1, <2>3, <3>1 DEF Index!Reported, Coming
    <3>2. CASE Parent[n] \notin watched
      <4>1. disk[Parent[n]] # Absent /\ Parent[n] \in Index!Nodes
          BY <1>1
      <4>2. ~Index!Skipped(Parent[n])
          BY <1>1 DEF Index!Skipped, Index!Below
      <4>3. Coming(Parent[n])
          BY <3>2, <4>1, <4>2, <1>1 DEF NothingMissed, Known
      <4>4. Coming(n)
          BY <4>3, <1>1 DEF Coming
      <4> QED
          BY <2>1, <2>3, <4>4
    <3> QED
        BY <3>1, <3>2
  <2> QED
      BY <2>2, <2>3
<1> QED
    BY <1>3, <1>4, <1>5, <1>6

LEMMA DeleteStep == ASSUME IndexInv, NEW n \in Index!Nodes, Index!Delete(n) PROVE IndexInv'
<1> USE Names DEF IndexInv
<1> DEFINE removed == {m \in Index!Nodes : Index!Below(m, n) /\ disk[m] # Absent}
<1>1. /\ n # Root /\ disk' = [m \in Index!Nodes |-> IF m \in removed THEN Absent ELSE disk[m]]
      /\ events \subseteq events' /\ watched' = watched \ removed
      /\ UNCHANGED <<failed, ready, building, dirty, indexClosed, files, fresh, walk, listing, watcher,
                     changes>>
    BY DEF Index!Delete, Index!Index, Index!flags
<1>2. \A m \in Index!Nodes : disk'[m] # Absent => /\ disk[m] # Absent /\ disk'[m] = disk[m]
                                                  /\ n \notin Above[m]
    BY <1>1 DEF Index!Below
<1>3. \A m \in Index!Nodes : n \notin Above[m] => m \notin removed
    BY DEF Index!Below
<1> HIDE DEF removed
<1>4. IndexTypes'
  <2>1. disk'[Root] = "dir"
      BY <1>1, <1>3 DEF IndexTypes
  <2>2. \A d \in Dirs : disk'[d] \in {"dir", Absent}
      BY <1>2 DEF IndexTypes
  <2> QED
      BY <1>1, <2>1, <2>2 DEF IndexTypes
<1>5. Tree'
  <2> SUFFICES ASSUME NEW m \in Index!Nodes, disk'[m] # Absent, NEW d \in Above[m] \ {m}
               PROVE disk'[d] = "dir"
      BY DEF Tree
  <2>1. disk[d] = "dir" /\ n \notin Above[d] /\ d \in Index!Nodes
      BY <1>2 DEF Tree
  <2> QED
      BY <1>1, <1>3, <2>1
<1>6. Turns'
    BY <1>1 DEF Turns
<1>7. NothingMissed'
  <2> SUFFICES ASSUME ~indexClosed, building \/ ready, NEW m \in Index!Nodes, disk'[m] # Absent,
                      ~Index!Skipped(m)
               PROVE Coming(m)' \/ Known(m)'
      BY <1>1 DEF NothingMissed, Index!Skipped, Index!Below
  <2>1. Coming(m) => Coming(m)'
      BY <1>1 DEF Coming
  <2>2. disk[m] # Absent /\ disk'[m] = disk[m] /\ m \notin removed
      BY <1>2, <1>3
  <2>3. Coming(m) \/ Known(m)
      BY <2>2 DEF NothingMissed
  <2>4. Known(m) => Known(m)'
      BY <1>1, <2>2 DEF Known, Right
  <2> QED
      BY <2>1, <2>3, <2>4
<1> QED
    BY <1>4, <1>5, <1>6, <1>7

\* The other steps leave the disk, and what was known of it unless they say so.
LEMMA Undisturbed ==
    ASSUME IndexInv, IndexTypes', disk' = disk
    PROVE  /\ Tree'
           /\ (\A m \in Index!Nodes :
                 ~indexClosed' /\ (building' \/ ready') /\ disk[m] # Absent /\ ~Index!Skipped(m)
                    => (Coming(m) \/ Known(m) => Coming(m)' \/ Known(m)'))
              /\ (~indexClosed' /\ (building' \/ ready') => ~indexClosed /\ (building \/ ready))
              => NothingMissed'
<1>1. Tree'
    BY DEF IndexInv, Tree
<1> QED
    BY <1>1 DEF IndexInv, NothingMissed, Index!Skipped, Index!Below

LEMMA EnterDirStep == ASSUME IndexInv, NEW n \in Index!Nodes, Index!EnterDir(n) PROVE IndexInv'
<1> USE Names
<1>1. /\ Index!Walking /\ n \in walk /\ n \in Dirs /\ walk' = walk \ {n}
      /\ UNCHANGED <<disk, events, failed, ready, building, dirty, indexClosed, files, fresh, watcher,
                     changes>>
      /\ (disk[n] = Absent \/ n \in SkipDirs) => watched' = watched /\ listing' = listing
      /\ ~(disk[n] = Absent \/ n \in SkipDirs) =>
            watched' = watched \cup {n} /\ listing' = listing \cup {n}
    BY DEF Index!EnterDir, Index!world, Index!flags
<1>2. IndexTypes'
    BY <1>1 DEF IndexInv, IndexTypes
<1>3. Turns'
    BY <1>1 DEF IndexInv, Turns, Index!Walking
<1>4. ASSUME NEW m \in Index!Nodes, disk[m] # Absent, ~Index!Skipped(m), Coming(m) \/ Known(m)
      PROVE  Coming(m)' \/ Known(m)'
  <2>1. Known(m) => Known(m)'
      BY <1>1 DEF Known, Right
  <2>2. CASE n \in Above[m]
    <3>1. disk[n] # Absent /\ n \notin SkipDirs
        BY <1>4, <2>2 DEF IndexInv, Tree, Index!Skipped, Index!Below
    <3>2. watched' = watched \cup {n} /\ listing' = listing \cup {n}
        BY <1>1, <3>1
    <3>3. CASE m = n
        BY <1>1, <3>2, <3>3 DEF Known
    <3>4. CASE m # n
        BY <2>2, <3>2, <3>4 DEF Coming
    <3> QED
        BY <3>3, <3>4
  <2>3. CASE n \notin Above[m]
      BY <1>1, <1>4, <2>1, <2>3 DEF Coming
  <2> QED
      BY <2>2, <2>3
<1> QED
    BY <1>1, <1>2, <1>3, <1>4, Undisturbed DEF IndexInv

LEMMA ListDirStep == ASSUME IndexInv, NEW n \in Index!Nodes, Index!ListDir(n) PROVE IndexInv'
<1> USE Names
<1>1. /\ Index!Walking /\ n \in listing /\ listing' = listing \ {n}
      /\ walk' = walk \cup {c \in Index!Nodes \ {Root} : Parent[c] = n /\ disk[c] # Absent}
      /\ UNCHANGED <<disk, watched, events, failed, ready, building, dirty, indexClosed, files, fresh,
                     watcher, changes>>
    BY DEF Index!ListDir, Index!world, Index!flags
<1>2. IndexTypes'
    BY <1>1 DEF IndexInv, IndexTypes
<1>3. Turns'
    BY <1>1 DEF IndexInv, Turns, Index!Walking
<1>4. ASSUME NEW m \in Index!Nodes, disk[m] # Absent, ~Index!Skipped(m), Coming(m) \/ Known(m)
      PROVE  Coming(m)' \/ Known(m)'
  <2>1. Known(m) => Known(m)'
      BY <1>1 DEF Known, Right
  <2>2. CASE n \in Above[m] \ {m}
    <3>1. PICK c \in Above[m] \ {Root} : Parent[c] = n
        BY <2>2
    <3>2. disk[c] # Absent /\ c \in Index!Nodes
        BY <1>4, <3>1 DEF IndexInv, Tree
    <3> QED
        BY <1>1, <3>1, <3>2 DEF Coming
  <2>3. CASE n \notin Above[m] \ {m}
      BY <1>1, <1>4, <2>1, <2>3 DEF Coming
  <2> QED
      BY <2>2, <2>3
<1> QED
    BY <1>1, <1>2, <1>3, <1>4, Undisturbed DEF IndexInv

LEMMA EnterFileStep == ASSUME IndexInv, NEW f \in Index!Nodes, Index!EnterFile(f) PROVE IndexInv'
<1> USE Names
<1> PICK entry \in Index!Extracted(f) :
        IF building THEN fresh' = [fresh EXCEPT ![f] = entry] /\ UNCHANGED files
        ELSE files' = [files EXCEPT ![f] = entry] /\ UNCHANGED fresh
    BY DEF Index!EnterFile
<1>1. /\ Index!Walking /\ f \in walk /\ f \in Files /\ walk' = walk \ {f}
      /\ UNCHANGED <<disk, watched, events, failed, ready, building, dirty, indexClosed, listing,
                     watcher, changes>>
    BY DEF Index!EnterFile, Index!world, Index!flags
<1>2. IndexTypes'
    BY <1>1 DEF IndexInv, IndexTypes
<1>3. Turns'
    BY <1>1 DEF IndexInv, Turns, Index!Walking
<1>4. ASSUME NEW m \in Index!Nodes, disk[m] # Absent, ~Index!Skipped(m), Coming(m) \/ Known(m)
      PROVE  Coming(m)' \/ Known(m)'
  <2>1. CASE m = f
      BY <1>1, <1>4, <2>1 DEF Known, Right, Index!Extracted, IndexInv, IndexTypes
  <2>2. CASE m # f
    <3>1. f \notin Above[m]
        BY <1>1, <2>2
    <3>2. Known(m) => Known(m)'
        BY <1>1, <2>2 DEF Known, Right, IndexInv, IndexTypes
    <3> QED
        BY <1>1, <1>4, <3>1, <3>2 DEF Coming
  <2> QED
      BY <2>1, <2>2
<1> QED
    BY <1>1, <1>2, <1>3, <1>4, Undisturbed DEF IndexInv

LEMMA ReceiveEventStep == ASSUME IndexInv, NEW n \in Index!Nodes, Index!ReceiveEvent(n) PROVE IndexInv'
<1> USE Names
<1>1. /\ watcher = "select" /\ ~indexClosed /\ n \in events /\ events' = events \ {n}
      /\ IF building THEN dirty' = TRUE /\ UNCHANGED changes
         ELSE changes' = changes \cup {n} /\ UNCHANGED dirty
      /\ UNCHANGED <<disk, watched, failed, ready, building, indexClosed, files, fresh, walk, listing,
                     watcher>>
    BY DEF Index!ReceiveEvent
<1>2. IndexTypes'
    BY <1>1 DEF IndexInv, IndexTypes
<1>3. Turns'
    BY <1>1 DEF IndexInv, Turns
<1>4. ASSUME NEW m \in Index!Nodes, building \/ ready, Coming(m) \/ Known(m)
      PROVE  Coming(m)' \/ Known(m)'
  <2>1. Known(m) => Known(m)'
      BY <1>1 DEF Known, Right
  <2>2. CASE building
      BY <1>1, <2>2 DEF Coming
  <2>3. CASE ~building
      BY <1>1, <1>4, <2>1, <2>3 DEF Coming
  <2> QED
      BY <2>2, <2>3
<1> QED
    BY <1>1, <1>2, <1>3, <1>4, Undisturbed DEF IndexInv

LEMMA ApplyChangeStep == ASSUME IndexInv, NEW n \in Index!Nodes, Index!ApplyChange(n) PROVE IndexInv'
<1> USE Names
<1>1. /\ watcher = "applying" /\ walk = {} /\ listing = {} /\ n \in changes /\ changes' = changes \ {n}
      /\ files' = [f \in Files |-> IF Index!Below(f, n) THEN Absent ELSE files[f]]
      /\ walk' = IF disk[n] = Absent \/ (n \in Dirs /\ Index!Skipped(n)) THEN {} ELSE {n}
      /\ UNCHANGED <<disk, watched, events, failed, ready, building, dirty, indexClosed, fresh, listing,
                     watcher>>
    BY DEF Index!ApplyChange, Index!world, Index!flags
<1>2. ready /\ ~building
    BY <1>1 DEF IndexInv, Turns
<1>3. IndexTypes'
    BY <1>1 DEF IndexInv, IndexTypes
<1>4. Turns'
    BY <1>1, <1>2 DEF IndexInv, Turns
<1>5. ASSUME NEW m \in Index!Nodes, disk[m] # Absent, ~Index!Skipped(m), Coming(m) \/ Known(m)
      PROVE  Coming(m)' \/ Known(m)'
  <2>1. CASE n \in Above[m]
    <3>1. disk[n] # Absent
        BY <1>5, <2>1 DEF IndexInv, Tree
    <3>2. ~Index!Skipped(n)
        BY <1>5, <2>1 DEF Index!Skipped, Index!Below
    <3>3. walk' = {n}
        BY <1>1, <3>1, <3>2
    <3> QED
        BY <2>1, <3>3 DEF Coming
  <2>2. CASE n \notin Above[m]
    <3>1. Known(m) => Known(m)'
        BY <1>1, <1>2, <2>2 DEF Known, Right, Index!Below
    <3> QED
        BY <1>1, <1>2, <1>5, <2>2, <3>1 DEF Coming
  <2> QED
      BY <2>1, <2>2
<1> QED
    BY <1>1, <1>3, <1>4, <1>5, Undisturbed DEF IndexInv

LEMMA PublishStep == ASSUME IndexInv, NEW ok \in BOOLEAN, Index!Publish(ok) PROVE IndexInv'
<1> USE Names
<1>1. /\ building /\ (ok => walk = {} /\ listing = {})
      /\ files' = IF ok /\ ~indexClosed THEN fresh ELSE files
      /\ dirty' = FALSE /\ building' = (dirty /\ ~indexClosed)
      /\ ready' = (ok /\ ~indexClosed /\ ~dirty)
      /\ fresh' = Index!Empty /\ walk' = (IF building' THEN {Root} ELSE {}) /\ listing' = {}
      /\ UNCHANGED <<disk, watched, events, failed, indexClosed, watcher, changes>>
    BY DEF Index!Publish, Index!world
<1>2. IndexTypes'
  <2>1. ready' \in BOOLEAN /\ building' \in BOOLEAN /\ dirty' \in BOOLEAN
      BY <1>1 DEF IndexInv, IndexTypes
  <2>2. DOMAIN files' = Files /\ DOMAIN fresh' = Files
      BY <1>1 DEF IndexInv, IndexTypes, Index!Empty
  <2>3. walk' \subseteq Index!Nodes /\ listing' \subseteq Dirs
      BY <1>1
  <2> QED
      BY <1>1, <2>1, <2>2, <2>3 DEF IndexInv, IndexTypes
<1>3. Turns'
    BY <1>1 DEF IndexInv, Turns
<1>4. ASSUME NEW m \in Index!Nodes, building' \/ ready', Coming(m) \/ Known(m)
      PROVE  Coming(m)' \/ Known(m)'
  <2>1. CASE building'
      BY <1>1, <2>1 DEF Coming
  <2>2. CASE ~building'
    <3>1. ok /\ ~dirty /\ files' = fresh /\ walk = {} /\ listing = {} /\ ~ready
        BY <1>1, <1>4, <2>2 DEF IndexInv, Turns
    <3>2. Known(m) => Known(m)'
        BY <1>1, <2>2, <3>1 DEF Known, Right
    <3>3. Coming(m) => Coming(m)'
        BY <1>1, <3>1 DEF Coming
    <3> QED
        BY <1>4, <3>2, <3>3
  <2> QED
      BY <2>1, <2>2
<1> QED
    BY <1>1, <1>2, <1>3, <1>4, Undisturbed DEF IndexInv

\* Whoever asks for a build gets one, now or after the one under way.
LEMMA RebuildStep ==
    ASSUME IndexInv, ~indexClosed, watcher # "applying", Index!Rebuild,
           UNCHANGED <<disk, watched, events, indexClosed, files, changes>>,
           failed' \in BOOLEAN, watcher' = "select"
    PROVE  IndexInv'
<1> USE Names
<1>1. CASE building
  <2>1. dirty' = TRUE /\ UNCHANGED <<ready, building, fresh, walk, listing>>
      BY <1>1 DEF Index!Rebuild
  <2>2. IndexTypes' /\ Turns'
      BY <1>1, <2>1 DEF IndexInv, IndexTypes, Turns
  <2>3. ASSUME NEW m \in Index!Nodes PROVE Coming(m)'
      BY <1>1, <2>1 DEF Coming
  <2> QED
      BY <1>1, <2>1, <2>2, <2>3, Undisturbed DEF IndexInv
<1>2. CASE ~building
  <2>1. /\ building' = TRUE /\ ready' = FALSE /\ fresh' = Index!Empty
        /\ walk' = {Root} /\ listing' = {} /\ UNCHANGED dirty
      BY <1>2 DEF Index!Rebuild
  <2>2. IndexTypes' /\ Turns'
    <3>1. DOMAIN fresh' = Files
        BY <2>1 DEF Index!Empty
    <3>2. walk' \subseteq Index!Nodes /\ listing' \subseteq Dirs
        BY <2>1
    <3>3. IndexTypes'
        BY <2>1, <3>1, <3>2 DEF IndexInv, IndexTypes
    <3> QED
        BY <2>1, <3>3 DEF Turns
  <2>3. Tree'
      BY DEF IndexInv, Tree
  <2>4. ASSUME NEW m \in Index!Nodes PROVE Coming(m)'
      BY <2>1 DEF Coming
  <2> QED
      BY <2>2, <2>3, <2>4 DEF IndexInv, NothingMissed
<1> QED
    BY <1>1, <1>2

LEMMA ErrorStep == ASSUME IndexInv, Index!ReceiveError \/ Index!Refused PROVE IndexInv'
<1>1. /\ watcher \in {"select", "refused"} /\ watcher' = "select" /\ failed' \in BOOLEAN
      /\ UNCHANGED <<disk, watched, events, indexClosed, files, changes>>
      /\ IF indexClosed THEN UNCHANGED <<ready, building, dirty, fresh, walk, listing>> ELSE Index!Rebuild
    BY DEF IndexInv, IndexTypes, Index!ReceiveError, Index!Refused, Index!world
<1>2. CASE indexClosed
    BY <1>1, <1>2 DEF IndexInv, IndexTypes, Tree, Turns, NothingMissed
<1>3. CASE ~indexClosed
    BY <1>1, <1>3, RebuildStep
<1> QED
    BY <1>2, <1>3

LEMMA WatcherStep ==
    ASSUME IndexInv,
           Index!Overflow \/ Index!Timer \/ Index!ApplyEnds \/ Index!ApplyFails \/ Index!Close
    PROVE  IndexInv'
<1> USE Names
<1>1. CASE Index!Overflow
  <2>1. /\ failed' = TRUE
        /\ UNCHANGED <<disk, watched, ready, building, dirty, indexClosed, files, fresh, walk, listing,
                       watcher, changes>>
      BY <1>1 DEF Index!Overflow, Index!flags
  <2> QED
      BY <2>1 DEF IndexInv, IndexTypes, Tree, Turns, NothingMissed, Coming
<1>2. CASE Index!Timer
  <2>1. /\ watcher = "select" /\ IF ready THEN watcher' = "applying" /\ UNCHANGED changes
                                 ELSE changes' = {} /\ UNCHANGED watcher
        /\ UNCHANGED <<disk, watched, events, failed, ready, building, dirty, indexClosed, files, fresh,
                       walk, listing>>
      BY <1>2 DEF Index!Timer, Index!world, Index!flags
  <2>2. IndexTypes' /\ Turns'
      BY <2>1 DEF IndexInv, IndexTypes, Turns
  <2>3. ASSUME NEW m \in Index!Nodes, Coming(m) \/ Known(m) PROVE Coming(m)' \/ Known(m)'
      BY <2>1, <2>3 DEF Coming, Known, Right
  <2> QED
      BY <2>1, <2>2, <2>3, Undisturbed DEF IndexInv
<1>3. CASE Index!ApplyEnds
  <2>1. /\ watcher = "applying" /\ walk = {} /\ listing = {} /\ watcher' = "select"
        /\ UNCHANGED <<disk, watched, events, failed, ready, building, dirty, indexClosed, files, fresh,
                       walk, listing, changes>>
      BY <1>3 DEF Index!ApplyEnds, Index!world, Index!flags
  <2>2. IndexTypes' /\ Turns'
      BY <2>1 DEF IndexInv, IndexTypes, Turns
  <2>3. ASSUME NEW m \in Index!Nodes, Coming(m) \/ Known(m) PROVE Coming(m)' \/ Known(m)'
      BY <2>1, <2>3 DEF Coming, Known, Right
  <2> QED
      BY <2>1, <2>2, <2>3, Undisturbed DEF IndexInv
<1>4. CASE Index!ApplyFails
  <2>1. /\ watcher = "applying" /\ watcher' = "refused" /\ walk' = {} /\ listing' = {}
        /\ UNCHANGED <<disk, watched, events, failed, ready, building, dirty, indexClosed, files, fresh>>
      BY <1>4 DEF Index!ApplyFails, Index!world, Index!flags
  <2>2. IndexTypes' /\ Turns'
      BY <2>1 DEF IndexInv, IndexTypes, Turns
  <2>3. ASSUME NEW m \in Index!Nodes PROVE Coming(m)'
      BY <2>1 DEF Coming
  <2> QED
      BY <2>1, <2>2, <2>3, Undisturbed DEF IndexInv
<1>5. CASE Index!Close
  <2>1. /\ watcher # "applying" /\ indexClosed' = TRUE /\ ready' = FALSE
        /\ UNCHANGED <<disk, watched, failed, building, dirty, files, fresh, walk, listing, watcher>>
      BY <1>5 DEF Index!Close
  <2> QED
      BY <2>1 DEF IndexInv, IndexTypes, Tree, Turns, NothingMissed
<1> QED
    BY <1>1, <1>2, <1>3, <1>4, <1>5

LEMMA IndexStep == ASSUME IndexInv, Index!Next PROVE IndexInv'
<1>1. ASSUME NEW n \in Index!Nodes,
             \/ Index!Write(n) \/ Index!Delete(n) \/ Index!EnterDir(n) \/ Index!ListDir(n)
             \/ Index!EnterFile(n) \/ Index!ReceiveEvent(n) \/ Index!ApplyChange(n)
      PROVE  IndexInv'
    BY <1>1, WriteStep, DeleteStep, EnterDirStep, ListDirStep, EnterFileStep, ReceiveEventStep,
       ApplyChangeStep
<1> QED
    BY <1>1, PublishStep, ErrorStep, WatcherStep DEF Index!Next

LEMMA IndexKept == BundleSpec => []IndexSafe
<1>1. BundleInit => IndexSafe
  <2> SUFFICES ASSUME Index!Init PROVE IndexInv
      BY DEF BundleInit, IndexSafe
  <2>1. IndexTypes
    <3>1. PICK t \in Texts : disk = [n \in Index!Nodes |-> IF n \in Dirs THEN "dir" ELSE t]
        BY DEF Index!Init
    <3>2. DOMAIN disk = Index!Nodes /\ (\A d \in Dirs : disk[d] = "dir")
        BY <3>1, Names
    <3>3. DOMAIN files = Files /\ DOMAIN fresh = Files
        BY DEF Index!Init, Index!Empty
    <3>4. /\ disk[Root] = "dir" /\ walk \subseteq Index!Nodes /\ listing \subseteq Dirs
        BY <3>2, Names DEF Index!Init
    <3>5. \A d \in Dirs : disk[d] \in {"dir", Absent}
        BY <3>2
    <3> QED
        BY <3>2, <3>3, <3>4, <3>5, Zenon DEF IndexTypes, Index!Init
  <2>2. Tree /\ Turns
      BY Names DEF Tree, Turns, Index!Init, Index!Nodes
  <2>3. \A n \in Index!Nodes : Coming(n)
      BY Names DEF Coming, Index!Init
  <2> QED
      BY <2>1, <2>2, <2>3 DEF IndexInv, NothingMissed
<1>2. IndexSafe /\ [BundleNext]_bundleVars => IndexSafe'
  <2> SUFFICES ASSUME IndexSafe, [BundleNext]_bundleVars, part' = "index" PROVE IndexInv'
      BY DEF IndexSafe
  <2>1. CASE Index!Next
      BY <2>1, IndexStep DEF IndexSafe, BundleNext, bundleVars
  <2>2. CASE UNCHANGED <<part, indexVars>>
      BY <2>2 DEF IndexSafe, IndexInv, IndexTypes, Tree, Turns, NothingMissed, Coming, Known, Right,
         Index!Skipped, Index!Below, indexVars
  <2> QED
      BY <2>1, <2>2 DEF BundleNext, bundleVars
<1> QED
    BY <1>1, <1>2, PTL DEF BundleSpec, bundleVars

\* Index.Candidates: an answered query leaves out no file that holds the text it
\* asks for, unless a change that concerns the file is on its way, for all trees,
\* contents and numbers of changes.
THEOREM IndexComplete == BundleSpec => []NoMatchLost
<1>1. IndexSafe => NoMatchLost
  <2> SUFFICES ASSUME part = "index", IndexInv, Index!Answered, NEW t \in Texts, NEW f \in Files,
                      disk[f] = t, ~Index!Skipped(f), ~Index!OnItsWay(f)
               PROVE  f \in Index!Candidates(t)
      BY DEF IndexSafe, NoMatchLost, Index!NoMatchLost
  <2>1. f \in Index!Nodes /\ f \notin Dirs /\ disk[f] # Absent
      BY Names, StoresAssumption DEF StoresAssumption, Index!Parameters
  <2>2. Coming(f) \/ Known(f)
      BY <2>1 DEF IndexInv, NothingMissed, Index!Answered
  <2>3. ready /\ ~building /\ walk = {} /\ listing = {}
      BY DEF IndexInv, Turns, Index!Answered
  <2>4. ~Coming(f)
      BY <2>3 DEF Coming, Index!OnItsWay, Index!Below
  <2> QED
      BY <2>1, <2>2, <2>3, <2>4 DEF Known, Right, Index!Candidates
<1> QED
    BY <1>1, IndexKept, PTL

================================================================================

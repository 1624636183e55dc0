--------------------------- MODULE TaskTableProofs ---------------------------
(***************************************************************************)
(* Theorems about TaskTable for every set of requests, every assignment of *)
(* ids, owners and connections and every limit.                            *)
(*                                                                         *)
(* The inductive invariant Inv adds to the properties the facts they rest  *)
(* on: where each goroutine is determines the record (Phases), and the     *)
(* table's indexes hold registered runs under their own keys (Indexed).    *)
(***************************************************************************)
EXTENDS TaskTable, FiniteSetTheorems, TLAPS

Running == {"waiting", "adopting", "refused"} \cup Outcomes

\* The record of a run follows its handler and its script.
Phases ==
    /\ \A e \in Exec : Registered(e) <=> handler[e] \in Running
    /\ \A e \in Exec : Background(e) <=> handler[e] = "background"
    /\ \A e \in Exec : script[e] = "none" <=> ~Registered(e)
    /\ \A e \in settled : script[e] = "ended"
    /\ \A e \in Exec : handler[e] \in {"adopting", "refused", "background"} => ~Direct(e)

Inv == TypeOK /\ Phases /\ SlotAccounting /\ CapsRespected

-----------------------------------------------------------------------------
(* Slots.                                                                  *)

LEMMA SlotsFinite ==
    /\ IsFiniteSet(Slots) /\ Cardinality(Slots) \in Nat
    /\ \A o \in Owners : IsFiniteSet(OwnerSlots(o)) /\ Cardinality(OwnerSlots(o)) \in Nat
<1>1. IsFiniteSet(Exec)
  BY TaskTableAssumption
<1>2. Slots \subseteq Exec /\ \A o \in Owners : OwnerSlots(o) \subseteq Slots
  BY DEF Slots, OwnerSlots
<1>3. IsFiniteSet(Slots)
  BY <1>1, <1>2, FS_Subset
<1>4. \A o \in Owners : IsFiniteSet(OwnerSlots(o))
  BY <1>2, <1>3, FS_Subset
<1> QED
  BY <1>3, <1>4, FS_CardinalityType

LEMMA SlotsSame ==
    ASSUME UNCHANGED <<bgNo, settled>>
    PROVE  Slots' = Slots /\ \A o \in Owners : OwnerSlots(o)' = OwnerSlots(o)
BY DEF Slots, OwnerSlots, Background

\* A run that is settled in the foreground holds no slot.
LEMMA SlotsKept ==
    ASSUME NEW e \in Exec, ~Background(e), UNCHANGED bgNo, settled' = settled \cup {e}
    PROVE  Slots' = Slots /\ \A o \in Owners : OwnerSlots(o)' = OwnerSlots(o)
<1>1. Slots' = Slots
  BY DEF Slots, Background
<1> QED
  BY <1>1 DEF OwnerSlots

LEMMA SlotTaken ==
    ASSUME TypeOK, NEW e \in Exec, e \notin settled, ~Background(e), UNCHANGED settled,
           bgNo' = [bgNo EXCEPT ![e] = bgSeq + 1]
    PROVE  /\ Cardinality(Slots') = Cardinality(Slots) + 1
           /\ \A o \in Owners : Cardinality(OwnerSlots(o)') =
                 IF o = Owner[e] THEN Cardinality(OwnerSlots(o)) + 1
                 ELSE Cardinality(OwnerSlots(o))
<1>1. e \notin Slots
  BY DEF Slots
<1>2. Slots' = Slots \cup {e}
  BY DEF Slots, Background, TypeOK
<1>3. \A o \in Owners : OwnerSlots(o)' = IF o = Owner[e] THEN OwnerSlots(o) \cup {e}
                                          ELSE OwnerSlots(o)
  BY <1>2 DEF OwnerSlots
<1>4. Cardinality(Slots \cup {e}) = Cardinality(Slots) + 1
  BY <1>1, SlotsFinite, FS_AddElement
<1>5. \A o \in Owners : Cardinality(OwnerSlots(o) \cup {e}) = Cardinality(OwnerSlots(o)) + 1
  <2> TAKE o \in Owners
  <2>1. e \notin OwnerSlots(o)
    BY <1>1 DEF OwnerSlots
  <2> QED
    BY <2>1, SlotsFinite, FS_AddElement
<1> QED
  BY <1>2, <1>3, <1>4, <1>5

LEMMA SlotFreed ==
    ASSUME TypeOK, NEW e \in Exec, e \notin settled, Background(e), UNCHANGED bgNo,
           settled' = settled \cup {e}
    PROVE  /\ Cardinality(Slots') = Cardinality(Slots) - 1
           /\ Cardinality(Slots') \in Nat
           /\ \A o \in Owners : Cardinality(OwnerSlots(o)') =
                 IF o = Owner[e] THEN Cardinality(OwnerSlots(o)) - 1
                 ELSE Cardinality(OwnerSlots(o))
           /\ \A o \in Owners : Cardinality(OwnerSlots(o)') \in Nat
<1>1. e \in Slots
  BY DEF Slots
<1>2. Slots' = Slots \ {e}
  BY DEF Slots, Background
<1>3. \A o \in Owners : OwnerSlots(o)' = IF o = Owner[e] THEN OwnerSlots(o) \ {e}
                                          ELSE OwnerSlots(o)
  BY <1>2 DEF OwnerSlots
<1>4. /\ IsFiniteSet(Slots \ {e})
      /\ Cardinality(Slots \ {e}) = Cardinality(Slots) - 1
  BY <1>1, SlotsFinite, FS_RemoveElement
<1>5. \A o \in Owners : o = Owner[e] =>
          /\ IsFiniteSet(OwnerSlots(o) \ {e})
          /\ Cardinality(OwnerSlots(o) \ {e}) = Cardinality(OwnerSlots(o)) - 1
  <2> TAKE o \in Owners
  <2> HAVE o = Owner[e]
  <2>1. e \in OwnerSlots(o)
    BY <1>1 DEF OwnerSlots
  <2> QED
    BY <2>1, SlotsFinite, FS_RemoveElement
<1>6. Cardinality(Slots \ {e}) \in Nat
  BY <1>4, FS_CardinalityType
<1>7. \A o \in Owners : o = Owner[e] => Cardinality(OwnerSlots(o) \ {e}) \in Nat
  BY <1>5, FS_CardinalityType
<1> QED
  BY <1>2, <1>3, <1>4, <1>5, <1>6, <1>7, SlotsFinite

-----------------------------------------------------------------------------
(* The steps.                                                              *)

LEMMA InitInv == Init => Inv
<1> SUFFICES ASSUME Init PROVE Inv
  OBVIOUS
<1> USE TaskTableAssumption DEF Init
<1>1. TypeOK
  BY DEF TypeOK, Outcomes
<1>2. Phases
  BY DEF Phases, Registered, Background, Running, Outcomes
<1>3. Slots = {} /\ \A o \in Owners : OwnerSlots(o) = {}
  BY DEF Slots, OwnerSlots, Background
<1>4. Cardinality({}) = 0
  BY FS_EmptySet
<1>5. Cardinality(Slots) = 0 /\ \A o \in Owners : Cardinality(OwnerSlots(o)) = 0
  BY <1>3, <1>4, Zenon
<1>6. SlotAccounting
  BY <1>5 DEF SlotAccounting
<1>7. CapsRespected
  BY <1>5 DEF CapsRespected
<1> QED
  BY <1>1, <1>2, <1>6, <1>7 DEF Inv

\* The steps that neither give nor free a background number.
LEMMA CountersKept ==
    ASSUME Inv, UNCHANGED <<bgNo, settled, bgRunning, bgByOwner>>
    PROVE  (SlotAccounting /\ CapsRespected)'
BY SlotsSame DEF Inv, SlotAccounting, CapsRespected

LEMMA HandleInv == ASSUME Inv, NEW e \in Exec, Handle(e) PROVE Inv'
<1> USE TaskTableAssumption DEF Inv
<1> USE DEF TypeOK, Phases, Registered, Background, Direct, Running, Outcomes, vars,
        handlerVars, scriptVars, tableVars, killVars, watchVars, connVars
<1>1. CASE Admit(e)
  <2>1. (TypeOK /\ Phases)'
    BY <1>1 DEF Admit
  <2> QED
    BY <1>1, <2>1, CountersKept DEF Admit
<1>2. CASE EndContext(e)
  <2>1. (TypeOK /\ Phases)'
    BY <1>2 DEF EndContext
  <2> QED
    BY <1>2, <2>1, CountersKept DEF EndContext
<1>3. CASE Register(e)
  <2>1. TypeOK'
    BY <1>3 DEF Register, Publish
  <2>2. Phases'
    BY <1>3 DEF Register
  <2> QED
    BY <1>3, <2>1, <2>2, CountersKept DEF Register
<1>4. CASE WaitDone(e)
  <2>1. (TypeOK /\ Phases)'
    BY <1>4 DEF WaitDone
  <2> QED
    BY <1>4, <2>1, CountersKept DEF WaitDone
<1>5. CASE WaitInterrupted(e)
  <2>1. (TypeOK /\ Phases)'
    BY <1>5 DEF WaitInterrupted
  <2> QED
    BY <1>5, <2>1, CountersKept DEF WaitInterrupted
<1>6. CASE WaitTimer(e)
  <2>1. (TypeOK /\ Phases)'
    BY <1>6 DEF WaitTimer, MayAdopt
  <2> QED
    BY <1>6, <2>1, CountersKept DEF WaitTimer
<1>7. CASE AdoptLate(e) \/ AdoptRefused(e)
  <2>1. TypeOK'
    BY <1>7 DEF AdoptLate, AdoptRefused, Evict, Unlink
  <2>2. Phases'
    BY <1>7 DEF AdoptLate, AdoptRefused
  <2> QED
    BY <1>7, <2>1, <2>2, CountersKept DEF AdoptLate, AdoptRefused
<1>8. CASE AdoptGranted(e)
  <2>1. TypeOK'
    BY <1>8 DEF AdoptGranted, Evict, Unlink
  <2>2. Phases'
    BY <1>8 DEF AdoptGranted
  <2>3. /\ Cardinality(Slots') = Cardinality(Slots) + 1
        /\ \A o \in Owners : Cardinality(OwnerSlots(o)') =
              IF o = Owner[e] THEN Cardinality(OwnerSlots(o)) + 1
              ELSE Cardinality(OwnerSlots(o))
    BY <1>8, SlotTaken DEF AdoptGranted
  <2>4. SlotAccounting'
    BY <1>8, <2>3 DEF SlotAccounting, AdoptGranted
  <2>5. CapsRespected'
    BY <1>8, <2>3, SlotsFinite DEF SlotAccounting, CapsRespected, AdoptGranted, Full
  <2> QED
    BY <2>1, <2>2, <2>4, <2>5
<1>9. CASE CancelRefused(e)
  <2>1. (TypeOK /\ Phases)'
    BY <1>9 DEF CancelRefused, CtxCancelled
  <2> QED
    BY <1>9, <2>1, CountersKept DEF CancelRefused
<1> QED
  BY <1>1, <1>2, <1>3, <1>4, <1>5, <1>6, <1>7, <1>8, <1>9 DEF Handle, Adopt

LEMMA RunInv == ASSUME Inv, NEW e \in Exec, Run(e) PROVE Inv'
<1> USE TaskTableAssumption DEF Inv
<1> USE DEF TypeOK, Phases, Registered, Background, Direct, Running, Outcomes, vars,
        handlerVars, scriptVars, tableVars, killVars, watchVars, connVars
<1>1. CASE WallClock(e)
  <2>1. (TypeOK /\ Phases)'
    BY <1>1 DEF WallClock
  <2> QED
    BY <1>1, <2>1, CountersKept DEF WallClock
<1>2. CASE ScriptEnd(e)
  <2>1. (TypeOK /\ Phases)'
    BY <1>2 DEF ScriptEnd
  <2> QED
    BY <1>2, <2>1, CountersKept DEF ScriptEnd
<1>3. CASE Finish(e) /\ Background(e)
  <2>1. /\ e \notin settled /\ settled' = settled \cup {e} /\ UNCHANGED bgNo
        /\ ReleaseSlot(e) /\ Evict(settled \cup {e}, {})
    BY <1>3 DEF Finish, HoldsSlot
  <2>2. /\ Cardinality(Slots') = Cardinality(Slots) - 1
        /\ Cardinality(Slots') \in Nat
        /\ \A o \in Owners : Cardinality(OwnerSlots(o)') =
              IF o = Owner[e] THEN Cardinality(OwnerSlots(o)) - 1
              ELSE Cardinality(OwnerSlots(o))
        /\ \A o \in Owners : Cardinality(OwnerSlots(o)') \in Nat
    BY <1>3, <2>1, SlotFreed
  <2>3. SlotAccounting'
    BY <2>1, <2>2 DEF SlotAccounting, ReleaseSlot
  <2>4. CapsRespected'
    BY <2>2, SlotsFinite DEF CapsRespected
  <2>5. bgRunning' \in Nat /\ bgByOwner' \in [Owners -> Nat]
    BY <2>1, <2>2 DEF SlotAccounting, ReleaseSlot
  <2>6. TypeOK'
    BY <1>3, <2>1, <2>5 DEF Finish, HoldsSlot, Evict, Unlink, CtxCancelled
  <2>7. Phases'
    BY <1>3, <2>1 DEF Finish
  <2> QED
    BY <2>3, <2>4, <2>6, <2>7
<1>4. CASE Finish(e) /\ ~Background(e)
  <2>1. TypeOK'
    BY <1>4 DEF Finish, HoldsSlot, Unlink, CtxCancelled
  <2>2. Phases'
    BY <1>4 DEF Finish
  <2>3. UNCHANGED <<bgNo, bgRunning, bgByOwner>> /\ settled' = settled \cup {e}
    BY <1>4 DEF Finish, HoldsSlot
  <2>4. (SlotAccounting /\ CapsRespected)'
    BY <1>4, <2>3, SlotsKept DEF SlotAccounting, CapsRespected
  <2> QED
    BY <2>1, <2>2, <2>4
<1> QED
  BY <1>1, <1>2, <1>3, <1>4 DEF Run

\* Killing, watching and disconnecting leave the table alone.
LEMMA OtherInv ==
    ASSUME Inv,
           \/ \E e \in Exec : Watch(e)
           \/ \E by, e \in Exec : Kill(by, e)
           \/ \E q \in RequestIds : CancelByRequest(q)
           \/ \E c \in Conns : ClosePeer(c) \/ CancelConnection(c)
           \/ \E c \in Conns, e \in Exec : CancelCollected(c, e)
    PROVE  Inv'
<1> USE TaskTableAssumption DEF Inv
<1> USE DEF TypeOK, Phases, Registered, Background, Direct, Running, Outcomes, vars,
        handlerVars, scriptVars, tableVars, killVars, watchVars, connVars
<1>1. ASSUME NEW e \in Exec, Watch(e) PROVE Inv'
  <2>1. (TypeOK /\ Phases)'
    BY <1>1 DEF Watch, KillReturns, KillGraceOver, ObserverReturns, ObserverGraceOver
  <2> QED
    BY <1>1, <2>1, CountersKept
       DEF Watch, KillReturns, KillGraceOver, ObserverReturns, ObserverGraceOver
<1>2. ASSUME NEW by \in Exec, NEW e \in Exec, Kill(by, e) PROVE Inv'
  <2>1. (TypeOK /\ Phases)'
    BY <1>2 DEF Kill, CtxCancelled
  <2> QED
    BY <1>2, <2>1, CountersKept DEF Kill
<1>3. ASSUME NEW q \in RequestIds, CancelByRequest(q) PROVE Inv'
  <2>1. (TypeOK /\ Phases)'
    BY <1>3 DEF CancelByRequest, CtxCancelled
  <2> QED
    BY <1>3, <2>1, CountersKept DEF CancelByRequest
<1>4. ASSUME NEW c \in Conns, ClosePeer(c) \/ CancelConnection(c) PROVE Inv'
  <2>1. UNCHANGED <<handler, scriptVars, tableVars, settled, killVars, watchVars>>
    BY <1>4 DEF ClosePeer, CancelConnection
  <2>2. /\ conn' \in [Conns -> {"open", "closed", "cancelling"}]
        /\ pend' \in [Conns -> SUBSET Exec] /\ ctxEnded' \in SUBSET Exec
    BY <1>4 DEF ClosePeer, CancelConnection
  <2>3. (TypeOK /\ Phases)'
    BY <2>1, <2>2
  <2> QED
    BY <2>1, <2>3, CountersKept
<1>5. ASSUME NEW c \in Conns, NEW e \in Exec, CancelCollected(c, e) PROVE Inv'
  <2>1. (TypeOK /\ Phases)'
    BY <1>5 DEF CancelCollected, CtxCancelled
  <2> QED
    BY <1>5, <2>1, CountersKept DEF CancelCollected
<1> QED
  BY <1>1, <1>2, <1>3, <1>4, <1>5

LEMMA NextInv == Inv /\ [Next]_vars => Inv'
<1> SUFFICES ASSUME Inv, [Next]_vars PROVE Inv'
  OBVIOUS
<1>1. CASE Next
  BY <1>1, HandleInv, RunInv, OtherInv DEF Next
<1>2. CASE UNCHANGED vars
  <2>1. (TypeOK /\ Phases)'
    BY <1>2 DEF Inv, TypeOK, Phases, Registered, Background, Direct, vars,
                handlerVars, scriptVars, tableVars, killVars, watchVars, connVars
  <2> QED
    BY <1>2, <2>1, CountersKept DEF Inv, vars, tableVars
<1> QED
  BY <1>1, <1>2

LEMMA InvAlways == Spec => []Inv
BY InitInv, NextInv, PTL DEF Spec

-----------------------------------------------------------------------------
(* Theorems.                                                               *)

\* Every state of the table is well typed; in particular no counter ever goes
\* below zero.
THEOREM TypeCorrect == Spec => []TypeOK
BY InvAlways, PTL DEF Inv

\* The counters of adoptBackground and finish always equal the number of
\* background runs that have not ended, in all and for each owner.
THEOREM CountersExact == Spec => []SlotAccounting
BY InvAlways, PTL DEF Inv

\* The capacity limits hold, whatever they are and however many requests come.
THEOREM CapacityRespected == Spec => []CapsRespected
BY InvAlways, PTL DEF Inv

-----------------------------------------------------------------------------
(* Nobody is lost: keys, shadow keys and eviction.                         *)

\* The indexes hold registered runs, each under its own request id, the
\* background index only background ones; numbers are given in order.
Indexed ==
    /\ \A q \in RequestIds : main[q] # None =>
          Registered(main[q]) /\ RequestID[main[q]] = q
    /\ \A e \in byBG : Background(e)
    /\ \A e \in Exec : regNo[e] <= seq

FindInv == Indexed /\ UnsettledReachable /\ MainIsLatest

LEMMA FindInit == Init => FindInv
BY TaskTableAssumption
   DEF Init, FindInv, Indexed, UnsettledReachable, MainIsLatest, Registered, Background

LEMMA FindKept ==
    ASSUME FindInv, UNCHANGED <<main, shadow, byBG, seq, regNo, bgNo, settled>>
    PROVE  FindInv'
BY DEF FindInv, Indexed, UnsettledReachable, MainIsLatest, Registered, Background

LEMMA FindRegister ==
    ASSUME Inv, FindInv, NEW e \in Exec, Register(e) PROVE FindInv'
<1> USE TaskTableAssumption DEF Registered, Background
<1>1. /\ ~Registered(e) /\ ~Background(e)
      /\ regNo' = [regNo EXCEPT ![e] = seq + 1] /\ seq' = seq + 1
      /\ main' = [main EXCEPT ![RequestID[e]] = e]
      /\ shadow' = (shadow \cup {main[RequestID[e]]}) \ {None}
      /\ UNCHANGED <<byBG, bgNo, settled>>
  BY DEF Register, Publish, Inv, Phases, Running, Outcomes, handlerVars
<1>2. /\ regNo \in [Exec -> Nat] /\ seq \in Nat /\ RequestID[e] \in RequestIds
      /\ main \in [RequestIds -> Exec \cup {None}]
  BY DEF Inv, TypeOK
<1>3. Indexed'
  BY <1>1, <1>2 DEF FindInv, Indexed
<1>4. UnsettledReachable'
  BY <1>1, <1>2 DEF FindInv, Indexed, UnsettledReachable
<1>5. MainIsLatest'
  <2> SUFFICES ASSUME NEW f \in Exec, Registered(f)', f \notin settled',
                      main'[RequestID[f]] # f
               PROVE  \E g \in Exec : RequestID[g] = RequestID[f] /\ regNo'[g] > regNo'[f]
    BY DEF MainIsLatest
  <2>1. f # e
    BY <1>1, <1>2
  <2>2. CASE main[RequestID[f]] = f
    <3>1. RequestID[e] = RequestID[f]
      BY <1>1, <1>2, <2>2
    <3>2. regNo'[e] > regNo'[f]
      BY <1>1, <1>2, <2>1 DEF FindInv, Indexed
    <3> QED
      BY <3>1, <3>2
  <2>3. CASE main[RequestID[f]] # f
    <3>1. Registered(f) /\ f \notin settled
      BY <1>1, <1>2, <2>1
    <3>2. PICK g \in Exec : RequestID[g] = RequestID[f] /\ regNo[g] > regNo[f]
      BY <2>3, <3>1 DEF FindInv, MainIsLatest
    <3>3. regNo'[g] > regNo'[f]
      BY <1>1, <1>2, <2>1, <3>2 DEF FindInv, Indexed
    <3> QED
      BY <3>2, <3>3
  <2> QED
    BY <2>2, <2>3
<1> QED
  BY <1>3, <1>4, <1>5 DEF FindInv

\* Removing settled runs from the indexes loses nobody.
LEMMA FindUnlink ==
    ASSUME Inv, FindInv, NEW R \in SUBSET Exec, Unlink(R), R \subseteq settled',
           settled \subseteq settled', byBG \ R \subseteq byBG',
           \A e \in byBG' : Background(e)', \A e \in Exec : Background(e)' =>
               Background(e) \/ e \in byBG',
           UNCHANGED <<seq, regNo>>
    PROVE  FindInv'
<1> USE TaskTableAssumption DEF Registered
<1>1. main' = [q \in RequestIds |-> IF main[q] \in R THEN None ELSE main[q]]
  BY DEF Unlink
<1>2. shadow' = shadow \ R
  BY DEF Unlink
<1>3. main \in [RequestIds -> Exec \cup {None}] /\ RequestID \in [Exec -> RequestIds]
  BY DEF Inv, TypeOK
<1>4. Indexed'
  BY <1>1, <1>3 DEF FindInv, Indexed
<1>5. UnsettledReachable'
  BY <1>1, <1>2, <1>3 DEF FindInv, UnsettledReachable
<1>6. MainIsLatest'
  BY <1>1, <1>3 DEF FindInv, MainIsLatest
<1> QED
  BY <1>4, <1>5, <1>6 DEF FindInv

LEMMA FindNext == Inv /\ FindInv /\ [Next]_vars => FindInv'
<1> SUFFICES ASSUME Inv, FindInv, [Next]_vars PROVE FindInv'
  OBVIOUS
<1> USE DEF vars, handlerVars, scriptVars, tableVars, killVars, watchVars, connVars
<1>1. ASSUME NEW e \in Exec, Handle(e) PROVE FindInv'
  <2>1. CASE Register(e)
    BY <2>1, FindRegister
  <2>2. CASE AdoptLate(e) \/ AdoptRefused(e)
    <3>1. /\ Unlink(Evicted(settled)) /\ byBG' = byBG \ Evicted(settled)
          /\ UNCHANGED <<seq, regNo, bgNo, settled>>
      BY <2>2 DEF AdoptLate, AdoptRefused, Evict
    <3>2. Evicted(settled) \subseteq settled /\ settled \subseteq Exec
      BY DEF Evicted, Inv, TypeOK
    <3> QED
      BY <3>1, <3>2, FindUnlink DEF FindInv, Indexed, Background
  <2>3. CASE AdoptGranted(e)
    <3>1. /\ Unlink(Evicted(settled)) /\ byBG' = (byBG \ Evicted(settled)) \cup {e}
          /\ bgNo' = [bgNo EXCEPT ![e] = bgSeq + 1]
          /\ UNCHANGED <<seq, regNo, settled>>
      BY <2>3 DEF AdoptGranted, Evict
    <3>2. Evicted(settled) \subseteq settled /\ settled \subseteq Exec
      BY DEF Evicted, Inv, TypeOK
    <3>3. bgNo \in [Exec -> Nat] /\ bgSeq \in Nat /\ byBG \subseteq Exec
      BY DEF Inv, TypeOK
    <3>4. \A f \in byBG' : Background(f)'
      BY <3>1, <3>3 DEF FindInv, Indexed, Background
    <3>5. \A f \in Exec : Background(f)' => Background(f) \/ f \in byBG'
      BY <3>1, <3>3 DEF Background
    <3>6. byBG \ Evicted(settled) \subseteq byBG'
      BY <3>1
    <3> QED
      BY <3>1, <3>2, <3>4, <3>5, <3>6, FindUnlink
  <2>4. CASE \/ Admit(e) \/ EndContext(e) \/ WaitDone(e) \/ WaitInterrupted(e)
             \/ WaitTimer(e) \/ CancelRefused(e)
    BY <2>4, FindKept
       DEF Admit, EndContext, WaitDone, WaitInterrupted, WaitTimer, CancelRefused
  <2> QED
    BY <1>1, <2>1, <2>2, <2>3, <2>4 DEF Handle, Adopt
<1>2. ASSUME NEW e \in Exec, Run(e) PROVE FindInv'
  <2>1. CASE WallClock(e) \/ ScriptEnd(e)
    BY <2>1, FindKept DEF WallClock, ScriptEnd
  <2>2. CASE Finish(e) /\ Background(e)
    <3> DEFINE R == Evicted(settled \cup {e})
    <3>1. /\ Unlink(R) /\ byBG' = byBG \ R /\ settled' = settled \cup {e}
          /\ UNCHANGED <<seq, regNo, bgNo>>
      BY <2>2 DEF Finish, HoldsSlot, Evict
    <3>2. R \subseteq settled' /\ R \in SUBSET Exec
      BY <3>1 DEF Evicted, Inv, TypeOK
    <3> HIDE DEF R
    <3> QED
      BY <3>1, <3>2, FindUnlink DEF FindInv, Indexed, Background
  <2>3. CASE Finish(e) /\ ~Background(e)
    <3>1. /\ Unlink({e}) /\ settled' = settled \cup {e}
          /\ UNCHANGED <<byBG, seq, regNo, bgNo>>
      BY <2>3 DEF Finish, HoldsSlot
    <3> QED
      BY <3>1, FindUnlink DEF FindInv, Indexed, Background
  <2> QED
    BY <1>2, <2>1, <2>2, <2>3 DEF Run
<1>3. CASE \/ \E e \in Exec : Watch(e)
           \/ \E by, e \in Exec : Kill(by, e)
           \/ \E q \in RequestIds : CancelByRequest(q)
           \/ \E c \in Conns : ClosePeer(c) \/ CancelConnection(c)
           \/ \E c \in Conns, e \in Exec : CancelCollected(c, e)
           \/ UNCHANGED vars
  BY <1>3, FindKept DEF Watch, KillReturns, KillGraceOver, ObserverReturns,
     ObserverGraceOver, Kill, CancelByRequest, ClosePeer, CancelConnection, CancelCollected
<1> QED
  BY <1>1, <1>2, <1>3 DEF Next

LEMMA FindAlways == Spec => []FindInv
BY InitInv, FindInit, NextInv, FindNext, PTL DEF Spec

\* Key collisions, eviction and settling never hide a run that goes on from
\* the cleanup of its connection, from bg list or from bg kill.
THEOREM NobodyLost == Spec => []UnsettledReachable
BY FindAlways, PTL DEF FindInv

\* cancel(request_id) never reaches an older run while the latest one goes on.
THEOREM LatestOwnsKey == Spec => []MainIsLatest
BY FindAlways, PTL DEF FindInv

-----------------------------------------------------------------------------
(* Disconnection.                                                          *)

\* Only RTC connections are closed, and a closing connection has collected
\* runs of its own only.
Closing ==
    /\ \A c \in Conns : conn[c] # "open" => c \in DirectConns
    /\ \A c \in Conns : pend[c] # {} => conn[c] # "open"
    /\ \A c \in Conns : \A e \in pend[c] : e \in Exec /\ Conn[e] = c

LEMMA ClosingAlways == Spec => []Closing
<1> USE TaskTableAssumption DEF Closing, vars, handlerVars, scriptVars, tableVars, killVars,
        watchVars, connVars
<1>1. Init => Closing
  BY DEF Init
<1>2. Inv /\ Closing /\ [Next]_vars => Closing'
  <2> SUFFICES ASSUME Inv, Closing, [Next]_vars PROVE Closing'
    OBVIOUS
  <2> USE DEF Inv, TypeOK
  <2>1. ASSUME NEW c \in Conns, ClosePeer(c) PROVE Closing'
    BY <2>1 DEF ClosePeer
  <2>2. ASSUME NEW c \in Conns, CancelConnection(c) PROVE Closing'
    BY <2>2 DEF CancelConnection
  <2>3. ASSUME NEW c \in Conns, NEW e \in Exec, CancelCollected(c, e) PROVE Closing'
    BY <2>3 DEF CancelCollected
  <2>4. CASE UNCHANGED <<conn, pend>>
    BY <2>4
  <2>5. CASE \/ \E e \in Exec : Handle(e) \/ Run(e) \/ Watch(e)
             \/ \E by, e \in Exec : Kill(by, e)
             \/ \E q \in RequestIds : CancelByRequest(q)
             \/ UNCHANGED vars
    <3>1. CASE \E e \in Exec : Handle(e)
      BY <2>4, <3>1 DEF Handle, Admit, EndContext, Register, WaitDone, WaitInterrupted,
         WaitTimer, Adopt, AdoptLate, AdoptRefused, AdoptGranted, CancelRefused
    <3>2. CASE \E e \in Exec : Run(e) \/ Watch(e)
      BY <2>4, <3>2 DEF Run, WallClock, ScriptEnd, Finish, Watch, KillReturns, KillGraceOver,
         ObserverReturns, ObserverGraceOver
    <3> QED
      BY <2>4, <2>5, <3>1, <3>2 DEF Kill, CancelByRequest
  <2> QED
    BY <2>1, <2>2, <2>3, <2>5 DEF Next
<1> QED
  BY <1>1, <1>2, InvAlways, PTL DEF Spec

\* CancelConnection calls the cancel functions without the lock, yet it never
\* cancels a background run: the runs it collects belong to RTC connections,
\* and those never become background runs.
THEOREM BackgroundSpared == Spec => []DisconnectSparesBackground
<1>1. Inv /\ Closing => DisconnectSparesBackground
  BY DEF Inv, Phases, Closing, DisconnectSparesBackground, Direct
<1> QED
  BY <1>1, InvAlways, ClosingAlways, PTL

\* The cleanup of a connection sees every foreground run registered for it,
\* including those that lost their request id to a later request.
THEOREM CleanupComplete == Spec => CleanupCollectsAll
<1>1. Inv /\ FindInv /\ Closing /\ [Next]_vars =>
        [\A c \in Conns : conn[c] # conn'[c] /\ conn'[c] = "cancelling" =>
            {e \in Exec : Conn[e] = c /\ Registered(e) /\ e \notin settled}
               \subseteq pend'[c]]_vars
  <2> SUFFICES ASSUME Inv, FindInv, Closing, Next, NEW c \in Conns, conn[c] # conn'[c],
                      conn'[c] = "cancelling",
                      NEW e \in Exec, Conn[e] = c, Registered(e), e \notin settled
               PROVE  e \in pend'[c]
    OBVIOUS
  <2>1. conn \in [Conns -> {"open", "closed", "cancelling"}] /\ pend \in [Conns -> SUBSET Exec]
    BY DEF Inv, TypeOK
  <2>2. CancelConnection(c)
    <3>1. ASSUME NEW d \in Conns, ClosePeer(d) PROVE FALSE
      BY <2>1, <3>1 DEF ClosePeer
    <3>2. ASSUME NEW d \in Conns, CancelConnection(d) PROVE d = c
      BY <2>1, <3>2 DEF CancelConnection
    <3>3. ASSUME NEW d \in Conns, NEW f \in Exec, CancelCollected(d, f) PROVE FALSE
      BY <3>3 DEF CancelCollected
    <3>4. CASE \/ \E f \in Exec : Handle(f) \/ Run(f) \/ Watch(f)
               \/ \E by, f \in Exec : Kill(by, f)
               \/ \E q \in RequestIds : CancelByRequest(q)
      BY <3>4 DEF Handle, Admit, EndContext, Register, WaitDone, WaitInterrupted,
         WaitTimer, Adopt, AdoptLate, AdoptRefused, AdoptGranted, CancelRefused, Run,
         WallClock, ScriptEnd, Finish, Watch, KillReturns, KillGraceOver, ObserverReturns,
         ObserverGraceOver, Kill, CancelByRequest, connVars
    <3> QED
      BY <3>1, <3>2, <3>3, <3>4 DEF Next
  <2>3. e \in {main[q] : q \in RequestIds} \cup shadow /\ e # None
    BY TaskTableAssumption DEF FindInv, UnsettledReachable
  <2>4. ~Background(e)
    BY <2>2 DEF Closing, CancelConnection, Inv, Phases, Direct
  <2> QED
    BY <2>1, <2>2, <2>3, <2>4 DEF CancelConnection
<1> QED
  BY <1>1, InvAlways, FindAlways, ClosingAlways, PTL DEF Spec, CleanupCollectsAll

-----------------------------------------------------------------------------
(* What the callers are told.                                              *)

\* The run of an answer "completed" has ended, that of "capacity" is cancelled.
Told ==
    \A e \in Exec : /\ handler[e] = "completed" => e \in settled
                    /\ handler[e] = "capacity" => ctx[e] # "live"

LEMMA CancelFinal ==
    ASSUME ctx \in [Exec -> {"live", "cancelled", "deadline"}], NEW R, CtxCancelled(R)
    PROVE  /\ \A e \in Exec : ctx[e] # "live" => ctx'[e] # "live"
           /\ \A e \in Exec \cap R : ctx'[e] # "live"
  BY DEF CtxCancelled

LEMMA ToldAlways == Spec => []Told
<1>1. Init => Told
  BY DEF Init, Told
<1>2. Inv /\ Told /\ [Next]_vars => Told'
  <2> SUFFICES ASSUME Inv, Told, [Next]_vars PROVE Told'
    OBVIOUS
  <2> USE DEF vars, handlerVars, scriptVars, tableVars, killVars, watchVars, connVars
  <2>1. /\ handler \in [Exec -> {"idle", "admitted", "waiting", "adopting", "refused"} \cup Outcomes]
        /\ ctx \in [Exec -> {"live", "cancelled", "deadline"}]
    BY DEF Inv, TypeOK
  <2>2. settled \subseteq settled'
    BY DEF Next, CancelConnection, ClosePeer, CancelCollected, Kill, CancelByRequest,
       Handle, Admit, EndContext, Register, WaitDone, WaitInterrupted, WaitTimer,
       Adopt, AdoptLate, AdoptRefused, AdoptGranted, CancelRefused, Run, WallClock,
       ScriptEnd, Finish, Watch, KillReturns, KillGraceOver, ObserverReturns, ObserverGraceOver
  <2>3. ASSUME NEW e \in Exec, Run(e) PROVE Told'
    <3>1. UNCHANGED handler
      BY <2>3 DEF Run, WallClock, ScriptEnd, Finish
    <3>2. \A f \in Exec : ctx[f] # "live" => ctx'[f] # "live"
      BY <2>1, <2>3, CancelFinal DEF Run, WallClock, ScriptEnd, Finish
    <3> QED
      BY <2>2, <3>1, <3>2 DEF Told
  <2>4. ASSUME \/ \E by, e \in Exec : Kill(by, e)
               \/ \E q \in RequestIds : CancelByRequest(q)
               \/ \E c \in Conns, e \in Exec : CancelCollected(c, e)
        PROVE  Told'
    <3>1. UNCHANGED handler
      BY <2>4 DEF Kill, CancelByRequest, CancelCollected
    <3>2. \A f \in Exec : ctx[f] # "live" => ctx'[f] # "live"
      BY <2>1, <2>4, CancelFinal DEF Kill, CancelByRequest, CancelCollected
    <3> QED
      BY <2>2, <3>1, <3>2 DEF Told
  <2>5. ASSUME \/ \E e \in Exec : Watch(e)
               \/ \E c \in Conns : ClosePeer(c) \/ CancelConnection(c)
               \/ UNCHANGED vars
        PROVE  Told'
    <3>1. UNCHANGED <<handler, ctx>>
      BY <2>5 DEF Watch, KillReturns, KillGraceOver, ObserverReturns, ObserverGraceOver, ClosePeer,
         CancelConnection
    <3> QED
      BY <2>2, <3>1 DEF Told
  <2>6. ASSUME NEW e \in Exec, Handle(e) PROVE Told'
    <3>1. CASE CancelRefused(e)
      <4>1. handler' = [handler EXCEPT ![e] = "capacity"] /\ CtxCancelled({e})
        BY <3>1 DEF CancelRefused
      <4>2. /\ \A f \in Exec : ctx[f] # "live" => ctx'[f] # "live"
            /\ ctx'[e] # "live"
        BY <2>1, <4>1, CancelFinal
      <4> QED
        BY <2>1, <2>2, <4>1, <4>2 DEF Told
    <3>2. CASE ~CancelRefused(e)
      <4>1. UNCHANGED ctx
        BY <2>6, <3>2 DEF Handle, Admit, EndContext, Register, WaitDone, WaitInterrupted, WaitTimer,
           Adopt, AdoptLate, AdoptRefused, AdoptGranted
      <4>2. \A f \in Exec : f # e => handler'[f] = handler[f]
        BY <2>1, <2>6, <3>2 DEF Handle, Admit, EndContext, Register, WaitDone, WaitInterrupted,
           WaitTimer, Adopt, AdoptLate, AdoptRefused, AdoptGranted
      <4>3. handler'[e] # handler[e] => handler'[e] # "capacity" /\ (handler'[e] = "completed" => e \in settled)
        BY <2>1, <2>6, <3>2 DEF Handle, Admit, EndContext, Register, WaitDone, WaitInterrupted,
           WaitTimer, Adopt, AdoptLate, AdoptRefused, AdoptGranted, OverMeanwhile
      <4> QED
        BY <2>2, <4>1, <4>2, <4>3 DEF Told
    <3> QED
      BY <3>1, <3>2
  <2> QED
    BY <2>3, <2>4, <2>5, <2>6 DEF Next
<1> QED
  BY <1>1, <1>2, InvAlways, PTL DEF Spec

\* What the caller was told holds of the record from then on: "completed" of a run
\* that ended in the foreground, "background" of one that has a number, and after
\* "capacity" the run does not go on unregistered (execScript, adoptBackground).
THEOREM AnswersHold == Spec => []AnswersTrue
<1>1. Inv /\ Told => AnswersTrue
  BY DEF Inv, Phases, Told, AnswersTrue
<1> QED
  BY <1>1, InvAlways, ToldAlways, PTL

-----------------------------------------------------------------------------
(* The final status, and the abstract service.                             *)

\* A finished run keeps the status it was given: a late kill or cancel changes
\* nothing.
THEOREM FinalStatus == Spec => StatusFinal
<1>1. Inv /\ [Next]_vars => [\A e \in settled : Status(e)' = Status(e)]_vars
  <2> SUFFICES ASSUME Inv, Next, NEW e \in settled PROVE Status(e)' = Status(e)
    OBVIOUS
  <2>1. script[e] = "ended" /\ e \in Exec /\ result \in [Exec -> {"none", "timeout", "over"}]
    BY DEF Inv, TypeOK, Phases
  <2>2. result'[e] = result[e] /\ e \in settled'
    BY <2>1 DEF Next, CancelConnection, ClosePeer, CancelCollected, Kill, CancelByRequest,
       Killable, Handle, Admit, EndContext, Register, WaitDone, WaitInterrupted, WaitTimer,
       Adopt, AdoptLate, AdoptRefused, AdoptGranted, CancelRefused, Run, WallClock,
       ScriptEnd, Finish, Watch, KillReturns, KillGraceOver, ObserverReturns,
       ObserverGraceOver, scriptVars, killVars
  <2>3. ASSUME NEW by \in Exec, NEW f \in Exec, Kill(by, f) PROVE e \in killed' <=> e \in killed
    BY <2>3 DEF Kill, Killable
  <2>4. ASSUME NEW q \in RequestIds, CancelByRequest(q) PROVE e \in killed' <=> e \in killed
    BY <2>4 DEF CancelByRequest, Killable
  <2>5. e \in killed' <=> e \in killed
    BY <2>3, <2>4 DEF Next, CancelConnection, ClosePeer, CancelCollected,
       Handle, Admit, EndContext, Register, WaitDone, WaitInterrupted, WaitTimer,
       Adopt, AdoptLate, AdoptRefused, AdoptGranted, CancelRefused, Run, WallClock,
       ScriptEnd, Finish, Watch, KillReturns, KillGraceOver, ObserverReturns,
       ObserverGraceOver, killVars
  <2> QED
    BY <2>2, <2>5 DEF Status
<1> QED
  BY <1>1, InvAlways, PTL DEF Spec, StatusFinal

\* The abstract view.
Phase == [e \in Exec |-> IF ~Registered(e) THEN "idle"
                         ELSE IF e \in settled THEN "finished"
                         ELSE IF Background(e) THEN "background"
                         ELSE "foreground"]
Answer == [e \in Exec |-> IF handler[e] \in Outcomes THEN handler[e] ELSE "none"]

\* What an answer, and what no answer, does to the abstract view.
LEMMA AnswerGiven ==
  ASSUME TypeOK, NEW e \in Exec, NEW a \in Outcomes, handler' = [handler EXCEPT ![e] = a]
  PROVE  Answer' = [Answer EXCEPT ![e] = a]
BY DEF TypeOK, Answer, Outcomes

LEMMA AnswerOpen ==
  ASSUME TypeOK, NEW e \in Exec, NEW h, h \notin Outcomes, handler[e] \notin Outcomes,
         handler' = [handler EXCEPT ![e] = h]
  PROVE  Answer' = Answer
BY DEF TypeOK, Answer

LEMMA AnswerSame == ASSUME UNCHANGED handler PROVE Answer' = Answer
BY DEF Answer

\* The phase of a run is where its handler is.
LEMMA PhaseFacts ==
  ASSUME Inv, NEW e \in Exec
  PROVE  /\ Registered(e) <=> handler[e] \in {"waiting", "adopting", "refused"} \cup Outcomes
         /\ Background(e) <=> handler[e] = "background"
         /\ e \in settled => Registered(e)
         /\ handler[e] \in {"adopting", "refused", "background"} => ~Direct(e)
<1>1. e \in settled => script[e] = "ended"
  BY DEF Inv, Phases
<1>2. script[e] = "none" <=> ~Registered(e)
  BY DEF Inv, Phases
<1>3. /\ Registered(e) <=> handler[e] \in {"waiting", "adopting", "refused"} \cup Outcomes
      /\ Background(e) <=> handler[e] = "background"
      /\ handler[e] \in {"adopting", "refused", "background"} => ~Direct(e)
  BY DEF Inv, Phases, Running
<1> QED
  BY <1>1, <1>2, <1>3

LEMMA PhaseSame == ASSUME UNCHANGED <<regNo, bgNo, settled>> PROVE Phase' = Phase
BY DEF Phase, Registered, Background

\* One concrete step moves one run in the abstract, or none.
LEMMA StepService == Inv /\ [Next]_vars => [Service!Next]_<<Phase, Answer>>
<1> SUFFICES ASSUME Inv, [Next]_vars PROVE [Service!Next]_<<Phase, Answer>>
  OBVIOUS
<1> TypeOK
  BY DEF Inv
<1>1. ASSUME NEW e \in Exec, Register(e) PROVE Service!Start(e)
  <2>1. /\ handler[e] = "admitted" /\ handler' = [handler EXCEPT ![e] = "waiting"]
        /\ regNo' = [regNo EXCEPT ![e] = seq + 1] /\ UNCHANGED <<bgNo, settled>>
    BY <1>1 DEF Register
  <2>2. ~Registered(e) /\ ~Background(e) /\ e \notin settled
    BY <2>1, PhaseFacts DEF Outcomes
  <2>3. seq \in Nat /\ regNo \in [Exec -> Nat]
    BY DEF TypeOK
  <2>4. Phase[e] = "idle"
    BY <2>2 DEF Phase
  <2>5. Phase' = [Phase EXCEPT ![e] = "foreground"]
    <3>1. Registered(e)' /\ Background(e)' = Background(e)
      BY <2>1, <2>3 DEF Registered, Background
    <3>2. \A f \in Exec \ {e} : Registered(f)' = Registered(f) /\ Background(f)' = Background(f)
      BY <2>1, <2>3 DEF Registered, Background
    <3>3. Phase'[e] = "foreground"
      BY <2>1, <2>2, <3>1 DEF Phase
    <3>4. \A f \in Exec \ {e} : Phase'[f] = Phase[f]
      BY <2>1, <3>2 DEF Phase
    <3> QED
      BY <3>3, <3>4 DEF Phase
  <2>6. Answer' = Answer
    BY <2>1, AnswerOpen DEF Outcomes
  <2> QED
    BY <2>4, <2>5, <2>6 DEF Service!Start, Phase, Answer
<1>2. ASSUME NEW e \in Exec, Finish(e) PROVE Service!Finish(e)
  <2>1. Registered(e) /\ e \notin settled
    BY <1>2 DEF Finish, Inv, Phases, Registered, TypeOK
  <2>2. UNCHANGED <<regNo, bgNo, handler>> /\ settled' = settled \cup {e}
    BY <1>2 DEF Finish, handlerVars
  <2>3. Phase' = [Phase EXCEPT ![e] = "finished"]
    BY <2>1, <2>2 DEF Phase, Registered, Background
  <2>4. Phase[e] \in {"foreground", "background"} /\ Answer' = Answer
    BY <2>1, <2>2, AnswerSame DEF Phase
  <2> QED
    BY <2>3, <2>4 DEF Service!Finish, Phase, Answer
<1>3. ASSUME NEW e \in Exec, AdoptGranted(e) PROVE Service!Detach(e)
  <2>1. /\ handler[e] = "adopting" /\ e \notin settled /\ ~Full(e)
        /\ handler' = [handler EXCEPT ![e] = "background"]
        /\ bgNo' = [bgNo EXCEPT ![e] = bgSeq + 1] /\ UNCHANGED <<regNo, settled>>
    BY <1>3 DEF AdoptGranted
  <2>2. Registered(e) /\ ~Background(e) /\ ~Direct(e)
    BY <2>1, PhaseFacts
  <2>3. bgSeq \in Nat /\ bgNo \in [Exec -> Nat]
    BY DEF TypeOK
  <2>4. Phase[e] = "foreground" /\ Answer[e] = "none"
    BY <2>1, <2>2 DEF Phase, Answer, Outcomes
  <2>5. Phase' = [Phase EXCEPT ![e] = "background"]
    <3>1. Registered(e)' /\ Background(e)'
      BY <2>1, <2>2, <2>3 DEF Registered, Background
    <3>2. \A f \in Exec \ {e} : Registered(f)' = Registered(f) /\ Background(f)' = Background(f)
      BY <2>1, <2>3 DEF Registered, Background
    <3>3. Phase'[e] = "background"
      BY <2>1, <3>1 DEF Phase
    <3>4. \A f \in Exec \ {e} : Phase'[f] = Phase[f]
      BY <2>1, <3>2 DEF Phase
    <3> QED
      BY <3>3, <3>4 DEF Phase
  <2>6. Answer' = [Answer EXCEPT ![e] = "background"]
    BY <2>1, AnswerGiven DEF Outcomes
  <2>7. Slots = {f \in Exec : Phase[f] = "background"}
    <3>1. \A f \in Exec : Background(f) => Registered(f)
      BY PhaseFacts DEF Outcomes
    <3> QED
      BY <3>1 DEF Phase, Slots
  <2>9. /\ bgRunning < MaxGlobal /\ bgByOwner[Owner[e]] < MaxPerOwner
    <3>1. Owner[e] \in Owners /\ MaxGlobal \in Nat /\ MaxPerOwner \in Nat
      BY TaskTableAssumption
    <3>2. bgRunning \in Nat /\ bgByOwner[Owner[e]] \in Nat
      BY <3>1 DEF TypeOK
    <3> QED
      BY <2>1, <3>1, <3>2 DEF Full
  <2>10. /\ Cardinality(Slots) < MaxGlobal
         /\ Cardinality(OwnerSlots(Owner[e])) < MaxPerOwner
    BY <2>9, TaskTableAssumption DEF Inv, SlotAccounting
  <2> QED
    <3>1. Service!InBackground = Slots
      BY <2>7 DEF Service!InBackground, Phase
    <3>2. {f \in Service!InBackground : Owner[f] = Owner[e]} = OwnerSlots(Owner[e])
      BY <3>1 DEF OwnerSlots
    <3>3. \A S : Service!Cardinality(S) = Cardinality(S)
      BY DEF Service!Cardinality, Cardinality
    <3>4. /\ Service!Cardinality(Service!InBackground) < MaxGlobal
          /\ Service!Cardinality({f \in Service!InBackground : Owner[f] = Owner[e]})
               < MaxPerOwner
      BY <2>10, <3>1, <3>2, <3>3
    <3> QED
      BY <2>2, <2>4, <2>5, <2>6, <3>4 DEF Service!Detach, Phase, Answer
<1>4. ASSUME NEW e \in Exec, WaitDone(e) \/ WaitInterrupted(e) \/ WaitTimer(e)
                              \/ AdoptLate(e) \/ AdoptRefused(e) \/ CancelRefused(e)
      PROVE  Service!Reply(e) \/ UNCHANGED <<Phase, Answer>>
  <2>1. UNCHANGED Phase
    BY <1>4, PhaseSame DEF WaitDone, WaitInterrupted, WaitTimer, AdoptLate, AdoptRefused,
       CancelRefused, tableVars
  <2>2. handler[e] \notin Outcomes /\ Registered(e) /\ ~Background(e)
    <3>1. handler[e] \in {"waiting", "adopting", "refused"}
      BY <1>4 DEF WaitDone, WaitInterrupted, WaitTimer, AdoptLate, AdoptRefused, CancelRefused
    <3> QED
      BY <3>1, PhaseFacts DEF Outcomes
  <2>3. Answer[e] = "none"
    BY <2>2 DEF Answer
  <2>4. CASE WaitDone(e) \/ AdoptLate(e)
    <3>1. e \in settled /\ handler' = [handler EXCEPT ![e] = "completed"]
      BY <2>4 DEF WaitDone, AdoptLate, OverMeanwhile
    <3>2. Phase[e] = "finished"
      BY <2>2, <3>1 DEF Phase
    <3>3. Answer' = [Answer EXCEPT ![e] = "completed"]
      BY <3>1, AnswerGiven DEF Outcomes
    <3> QED
      BY <2>1, <2>3, <3>2, <3>3 DEF Service!Reply, Phase, Answer
  <2>5. ASSUME NEW a \in {"interrupted", IF Direct(e) THEN "waitElapsed" ELSE "capacity"},
               handler' = [handler EXCEPT ![e] = a]
        PROVE  Service!Reply(e)
    <3>1. Phase[e] \in {"foreground", "finished"}
      BY <2>2 DEF Phase
    <3>2. a \in Outcomes
      BY DEF Outcomes
    <3>3. Answer' = [Answer EXCEPT ![e] = a]
      BY <2>5, <3>2, AnswerGiven
    <3> QED
      BY <2>1, <2>3, <3>1, <3>3 DEF Service!Reply, Phase, Answer
  <2>6. CASE WaitInterrupted(e)
    BY <2>5, <2>6 DEF WaitInterrupted
  <2>7. CASE CancelRefused(e)
    <3>1. ~Direct(e)
      BY <2>7 DEF CancelRefused, Inv, Phases
    <3> QED
      BY <2>5, <2>7, <3>1 DEF CancelRefused
  <2>8. CASE WaitTimer(e) /\ Direct(e)
    BY <2>5, <2>8 DEF WaitTimer, MayAdopt
  <2>9. CASE AdoptRefused(e) \/ (WaitTimer(e) /\ ~Direct(e))
    <3>1. PICK h \in {"refused", "adopting"} : handler' = [handler EXCEPT ![e] = h]
      BY <2>9 DEF AdoptRefused, WaitTimer, MayAdopt
    <3>2. Answer' = Answer
      BY <2>2, <3>1, AnswerOpen DEF Outcomes
    <3> QED
      BY <2>1, <3>2
  <2> QED
    BY <1>4, <2>4, <2>6, <2>7, <2>8, <2>9
<1>5. CASE \/ \E e \in Exec : \/ EndContext(e) \/ WallClock(e) \/ ScriptEnd(e) \/ Watch(e)
           \/ \E by, e \in Exec : Kill(by, e)
           \/ \E q \in RequestIds : CancelByRequest(q)
           \/ \E c \in Conns : ClosePeer(c) \/ CancelConnection(c)
           \/ \E c \in Conns, e \in Exec : CancelCollected(c, e)
           \/ UNCHANGED vars
  <2>1. UNCHANGED <<regNo, bgNo, settled>>
    BY <1>5 DEF EndContext, WallClock, ScriptEnd, Watch, KillReturns, KillGraceOver,
       ObserverReturns, ObserverGraceOver, Kill, CancelByRequest, ClosePeer,
       CancelConnection, CancelCollected, tableVars, vars
  <2>2. UNCHANGED handler
    BY <1>5 DEF EndContext, WallClock, ScriptEnd, Watch, KillReturns, KillGraceOver,
       ObserverReturns, ObserverGraceOver, Kill, CancelByRequest, ClosePeer,
       CancelConnection, CancelCollected, handlerVars, vars
  <2> QED
    BY <2>1, <2>2, PhaseSame, AnswerSame
<1>6. ASSUME NEW e \in Exec, Admit(e) PROVE UNCHANGED <<Phase, Answer>>
  <2>1. handler[e] \notin Outcomes /\ handler' = [handler EXCEPT ![e] = "admitted"]
    BY <1>6 DEF Admit, Outcomes
  <2>2. UNCHANGED <<regNo, bgNo, settled>>
    BY <1>6 DEF Admit, tableVars
  <2>3. Answer' = Answer
    BY <2>1, AnswerOpen DEF Outcomes
  <2> QED
    BY <2>2, <2>3, PhaseSame
<1> QED
  BY <1>1, <1>2, <1>3, <1>4, <1>5, <1>6 DEF Next, Handle, Run, Adopt, Service!Next

\* The table, its counters, keys and goroutines implement the exec service: at
\* most one run per request, bounded background places, one true answer.
THEOREM ImplementsService == Spec => ServiceSpec
<1>1. Init => Service!Init
  BY DEF Init, Service!Init, Registered, Outcomes
<1>2. Inv /\ [Next]_vars => [Service!Next]_Service!vars
  BY StepService DEF Service!vars, Phase, Answer
<1> QED
  BY <1>1, <1>2, InvAlways, PTL DEF Spec, ServiceSpec, Service!Spec
=============================================================================

----------------------------- MODULE ServicesProofs -----------------------------
(***************************************************************************)
(* What holds of the services around the task table for every value of     *)
(* their constants.  The RTC service is proved about in a module of its    *)
(* own, and what is found there is carried over to the run that checks the *)
(* services together; the MCP manager, the connection of the client, the   *)
(* gate of its requests, the network client of scripts and the permissions *)
(* of the device are proved about here.                                    *)
(***************************************************************************)
EXTENDS MCServices, FiniteSetTheorems, SequenceTheorems, WellFoundedInduction, TLAPS

bundleVars == <<part, rtcVars, mcpVars, lifeVars, gateVars, permVars, netVars>>

-----------------------------------------------------------------------------
(* The RTC service.                                                        *)

RtcSafe == part = "rtc" => Rtc!Inv

LEMMA RtcMoves ==
    ASSUME part = "rtc", [BundleNext]_bundleVars PROVE [Rtc!Next]_(Rtc!vars)
<1>1. CASE UNCHANGED bundleVars
    BY <1>1 DEF bundleVars, rtcVars, Rtc!vars, Rtc!lifeVars, Rtc!leaseVars, Rtc!patrolVars,
       Rtc!exitVars
<1> QED
    BY <1>1 DEF BundleNext

LEMMA RtcInvariance == BundleSpec => []RtcSafe
<1>1. BundleInit => RtcSafe
    BY ServicesAssumption, Rtc!InitInv DEF BundleInit, RtcSafe
<1>2. RtcSafe /\ [BundleNext]_bundleVars => RtcSafe'
  <2> SUFFICES ASSUME RtcSafe, [BundleNext]_bundleVars, part' = "rtc" PROVE Rtc!Inv'
    BY DEF RtcSafe
  <2>1. part = "rtc"
    BY DEF BundleNext, bundleVars
  <2>2. Rtc!Inv /\ [Rtc!Next]_(Rtc!vars)
    BY <2>1, RtcMoves DEF RtcSafe
  <2> QED
    BY <2>2, ServicesAssumption, Rtc!StepInv
<1> QED
    BY <1>1, <1>2, PTL DEF BundleSpec, bundleVars

\* Service.drop removes a peer from the table only if it is still the one that is
\* there: an open peer is known, whatever late drops of its predecessors do.
THEOREM OpenPeersKnown == BundleSpec => []OpenPeerKnown
<1>1. RtcSafe => OpenPeerKnown
    BY DEF RtcSafe, OpenPeerKnown, Rtc!Inv
<1> QED
    BY <1>1, RtcInvariance, PTL

\* peer.close: the requests of a peer are cleaned up once, however many events
\* report its end.
THEOREM PeersCleanedOnce == BundleSpec => []CleanupOnce
<1>1. RtcSafe => CleanupOnce
    BY ServicesAssumption, Rtc!CleanedOnce DEF RtcSafe, CleanupOnce
<1> QED
    BY <1>1, RtcInvariance, PTL

\* Service.authenticate and maintain: a ticket never opens two peers, and none is
\* forgotten while it could still be presented.
THEOREM TicketsOpenOnePeer == BundleSpec => []TicketOpensOnce
<1>1. RtcSafe => TicketOpensOnce
    BY DEF RtcSafe, TicketOpensOnce, Rtc!Inv
<1> QED
    BY <1>1, RtcInvariance, PTL

-----------------------------------------------------------------------------
(* The MCP manager.                                                        *)

Requesting(i) == {c \in Calls : call[c] = "requesting" /\ on[c] = i}

\* What TypeOK of McpManager says, but for the bound of the counter.
McpTypes ==
    /\ mcpNow \in 0..McpMaxTime /\ configured \in BOOLEAN
    /\ table \in Instances \cup {McpNone}
    /\ st \in [Instances -> {"free", "starting", "launched", "connecting", "ready", "failed",
                            "ending", "done"}]
    /\ err \subseteq Instances /\ cancelled \subseteq Instances
    /\ proc \in [Instances -> {"none", "running", "ended"}]
    /\ used \in [Instances -> 0..McpMaxTime] /\ lastUse \in [Instances -> 0..McpMaxTime]
    /\ inflight \in [Instances -> Nat]
    /\ call \in [Calls -> {"idle", "waiting", "holding", "requesting", "done", "refused"}]
    /\ on \in [Calls -> Instances \cup {McpNone}]
    /\ expiring \subseteq left /\ leaving \subseteq left
    /\ left \subseteq Instances
    /\ closer \in {"open", "waiting", "closed"} /\ awaited \subseteq Instances

\* A process starts with its goroutine and has ended before it is done; a caller
\* waits for a start, and holds the session of one that is ready.
StartsLive ==
    /\ \A i \in Instances : st[i] \in {"free", "starting"} => proc[i] = "none"
    /\ \A i \in Instances : Mcp!Done(i) => proc[i] # "running"
    /\ \A c \in Calls : call[c] \in {"waiting", "holding", "requesting"} => on[c] \in Instances
    /\ \A c \in Calls : call[c] \in {"holding", "requesting"} => Mcp!ReadyClosed(on[c])

\* Whatever goes on is in the table or was taken; what was taken is cancelled by
\* whoever took it.
StartsAccounted ==
    /\ \A i \in Instances : Mcp!Began(i) /\ ~Mcp!Done(i) => i = table \/ i \in left
    /\ \A i \in left : ~Mcp!Done(i) => i \in expiring \cup leaving \cup cancelled

\* From Close on, whatever goes on is waited for or was taken.
StartsAwaited ==
    /\ closer # "open" => \A i \in Instances : Mcp!Began(i) /\ ~Mcp!Done(i) => i \in awaited \cup left
    /\ closer = "closed" => \A i \in awaited : Mcp!Done(i)

InflightExact ==
    \A i \in Instances :
        inflight[i] = Cardinality(Requesting(i)) + (IF st[i] = "connecting" THEN 1 ELSE 0)

McpInv == McpTypes /\ StartsLive /\ StartsAccounted /\ StartsAwaited /\ InflightExact

-----------------------------------------------------------------------------
(* The requests of an instance.                                            *)

LEMMA CallsFinite == IsFiniteSet(Calls)
<1>1. Mcp!Parameters
  BY ServicesAssumption
<1> QED
  BY <1>1 DEF Mcp!Parameters, Mcp!IsFiniteSet, IsFiniteSet

LEMMA RequestingFinite ==
    \A i : IsFiniteSet(Requesting(i)) /\ Cardinality(Requesting(i)) \in Nat
             /\ Cardinality(Requesting(i)) <= Cardinality(Calls)
<1> TAKE i
<1>1. Requesting(i) \subseteq Calls /\ IsFiniteSet(Calls)
  BY CallsFinite DEF Requesting
<1> QED
  BY <1>1, FS_Subset, FS_CardinalityType

\* A caller that leaves "requesting", or enters it, is one request more or less
\* for its own instance.
LEMMA RequestBegins ==
    ASSUME McpTypes, NEW c \in Calls, call[c] # "requesting", on[c] \in Instances,
           call' = [call EXCEPT ![c] = "requesting"], on' = on
    PROVE  \A i \in Instances : Cardinality(Requesting(i)') =
               IF i = on[c] THEN Cardinality(Requesting(i)) + 1 ELSE Cardinality(Requesting(i))
<1> TAKE i \in Instances
<1>1. CASE i = on[c]
  <2>1. Requesting(i)' = Requesting(i) \cup {c} /\ c \notin Requesting(i)
    BY <1>1 DEF Requesting, McpTypes
  <2> QED
    BY <1>1, <2>1, RequestingFinite, FS_AddElement
<1>2. CASE i # on[c]
  <2>1. Requesting(i)' = Requesting(i)
    BY <1>2 DEF Requesting, McpTypes
  <2> QED
    BY <1>2, <2>1
<1> QED
  BY <1>1, <1>2

LEMMA RequestEnds ==
    ASSUME McpTypes, NEW c \in Calls, call[c] = "requesting", on[c] \in Instances,
           call' = [call EXCEPT ![c] = "done"], on' = on
    PROVE  /\ Cardinality(Requesting(on[c])) > 0
           /\ \A i \in Instances : Cardinality(Requesting(i)') =
               IF i = on[c] THEN Cardinality(Requesting(i)) - 1 ELSE Cardinality(Requesting(i))
<1>1. c \in Requesting(on[c])
  BY DEF Requesting
<1>2. /\ Cardinality(Requesting(on[c]) \ {c}) = Cardinality(Requesting(on[c])) - 1
      /\ Cardinality(Requesting(on[c]) \ {c}) \in Nat
  BY <1>1, RequestingFinite, FS_RemoveElement, FS_CardinalityType
<1>3. \A i \in Instances : i # on[c] => Requesting(i)' = Requesting(i)
  BY DEF Requesting, McpTypes
<1> DEFINE n == Cardinality(Requesting(on[c]))
<1>4. n \in Nat /\ n - 1 \in Nat
  BY <1>2, RequestingFinite
<1>5. n > 0
  <2> HIDE DEF n
  <2> QED
    BY <1>4
<1>6. ASSUME NEW i \in Instances
      PROVE  Cardinality(Requesting(i)') =
               IF i = on[c] THEN Cardinality(Requesting(i)) - 1 ELSE Cardinality(Requesting(i))
  <2>1. CASE i = on[c]
    <3>1. Requesting(i)' = Requesting(i) \ {c}
      BY <2>1 DEF Requesting, McpTypes
    <3> QED
      BY <1>2, <2>1, <3>1
  <2>2. CASE i # on[c]
    <3>1. Requesting(i)' = Requesting(i)
      BY <1>3, <2>2
    <3> QED
      BY <2>2, <3>1
  <2> QED
    BY <2>1, <2>2
<1> QED
  BY <1>5, <1>6

\* A caller that is not requesting before and after a step does not count.
LEMMA RequestsKept ==
    ASSUME McpTypes, NEW c \in Calls, call[c] # "requesting",
           \E s : s # "requesting" /\ call' = [call EXCEPT ![c] = s],
           \A d \in Calls \ {c} : on'[d] = on[d]
    PROVE  \A i \in Instances : Requesting(i)' = Requesting(i)
BY DEF Requesting, McpTypes

-----------------------------------------------------------------------------
(* The steps.                                                              *)

LEMMA McpInitInv == Mcp!Init => McpInv
<1> SUFFICES ASSUME Mcp!Init PROVE McpInv
  OBVIOUS
<1> USE ServicesAssumption DEF Mcp!Init, Mcp!Parameters
<1>1. McpTypes
  BY DEF McpTypes
<1>2. StartsLive /\ StartsAccounted /\ StartsAwaited
  BY DEF StartsLive, StartsAccounted, StartsAwaited, Mcp!Began, Mcp!Done
<1>3. InflightExact
  <2>1. \A i \in Instances : Requesting(i) = {}
    BY DEF Requesting
  <2> QED
    BY <2>1, FS_EmptySet DEF InflightExact
<1> QED
  BY <1>1, <1>2, <1>3 DEF McpInv

LEMMA McpTypeStep == McpTypes /\ StartsLive /\ [Mcp!Next]_(Mcp!vars) => McpTypes'
<1> SUFFICES ASSUME McpTypes, StartsLive, [Mcp!Next]_(Mcp!vars) PROVE McpTypes'
  OBVIOUS
<1> USE ServicesAssumption
    DEF Mcp!Parameters, McpTypes, Mcp!instVars, Mcp!useVars, Mcp!callVars, Mcp!leaveVars, Mcp!closeVars
<1>1. CASE Mcp!Tick \/ Mcp!Add \/ Mcp!Remove \/ Mcp!Restart \/ Mcp!Touch \/ Mcp!Reap \/ Mcp!Close \/ Mcp!CloseReturns
  <2>1. CASE Mcp!Tick
    BY <2>1 DEF Mcp!Tick
  <2>2. CASE Mcp!Add
    BY <2>2 DEF Mcp!Add
  <2>3. CASE Mcp!Restart \/ Mcp!Touch
    BY <2>3 DEF Mcp!Restart, Mcp!Touch
  <2>4. CASE Mcp!Remove \/ Mcp!Reap
    BY <2>4 DEF Mcp!Remove, Mcp!Reap
  <2>5. CASE Mcp!Close \/ Mcp!CloseReturns
    BY <2>5 DEF Mcp!Close, Mcp!Shutdown, Mcp!CloseReturns
  <2> QED
    BY <1>1, <2>1, <2>2, <2>3, <2>4, <2>5
<1>2. ASSUME NEW c \in Calls, Mcp!Use(c) PROVE McpTypes'
  <2>1. CASE Mcp!Session(c)
    BY <2>1 DEF Mcp!Session
  <2>2. CASE Mcp!Obtain(c) \/ Mcp!GiveUp(c)
    BY <2>2 DEF Mcp!Obtain, Mcp!GiveUp
  <2>3. CASE Mcp!BeginRequest(c)
    BY <2>3 DEF Mcp!BeginRequest, Mcp!CountUp, StartsLive
  <2>4. CASE Mcp!EndRequest(c)
    BY <2>4 DEF Mcp!EndRequest, Mcp!CountDown, Mcp!UsedAtEnd, StartsLive
  <2> QED
    BY <1>2, <2>1, <2>2, <2>3, <2>4 DEF Mcp!Use
<1>3. ASSUME NEW i \in Instances, Mcp!Connect(i) PROVE McpTypes'
  BY <1>3 DEF Mcp!Connect, Mcp!Launch, Mcp!Initialize, Mcp!Fail, Mcp!Connected, Mcp!CountUp, Mcp!CountDown, Mcp!UsedAtEnd
<1>4. ASSUME NEW i \in Instances, Mcp!SessionEnds(i) \/ Mcp!ProcessEnds(i) \/ Mcp!FinishInstance(i)
      PROVE  McpTypes'
  BY <1>4 DEF Mcp!SessionEnds, Mcp!ProcessEnds, Mcp!FinishInstance
<1>5. ASSUME NEW i \in Instances, Mcp!FinishRemove(i) \/ Mcp!Expire(i) PROVE McpTypes'
  BY <1>5 DEF Mcp!FinishRemove, Mcp!CancelRemoved, Mcp!Expire
<1>6. CASE UNCHANGED Mcp!vars
  BY <1>6 DEF Mcp!vars
<1> QED
  BY <1>1, <1>2, <1>3, <1>4, <1>5, <1>6 DEF Mcp!Next

LEMMA StartsLiveStep == McpTypes /\ StartsLive /\ [Mcp!Next]_(Mcp!vars) => StartsLive'
<1> SUFFICES ASSUME McpTypes, StartsLive, [Mcp!Next]_(Mcp!vars) PROVE StartsLive'
  OBVIOUS
<1> USE ServicesAssumption
    DEF Mcp!Parameters, McpTypes, StartsLive, Mcp!Done, Mcp!ReadyClosed, Mcp!instVars, Mcp!useVars, Mcp!callVars, Mcp!leaveVars, Mcp!closeVars
<1>1. CASE UNCHANGED <<st, proc, call, on>>
  BY <1>1
<1>2. ASSUME NEW c \in Calls, Mcp!Use(c) PROVE StartsLive'
  <2>1. CASE Mcp!Session(c)
    BY <2>1 DEF Mcp!Session, Mcp!Shareable
  <2>2. CASE Mcp!Obtain(c) \/ Mcp!GiveUp(c)
    BY <2>2 DEF Mcp!Obtain, Mcp!GiveUp
  <2>3. CASE Mcp!BeginRequest(c) \/ Mcp!EndRequest(c)
    BY <2>3 DEF Mcp!BeginRequest, Mcp!EndRequest
  <2> QED
    BY <1>2, <2>1, <2>2, <2>3 DEF Mcp!Use
<1>3. ASSUME NEW i \in Instances, Mcp!Connect(i) PROVE StartsLive'
  BY <1>3 DEF Mcp!Connect, Mcp!Launch, Mcp!Initialize, Mcp!Fail, Mcp!Connected
<1>4. ASSUME NEW i \in Instances, Mcp!SessionEnds(i) \/ Mcp!ProcessEnds(i) \/ Mcp!FinishInstance(i)
      PROVE  StartsLive'
  BY <1>4 DEF Mcp!SessionEnds, Mcp!ProcessEnds, Mcp!FinishInstance, Mcp!Wait
<1> QED
  BY <1>1, <1>2, <1>3, <1>4
  DEF Mcp!Next, Mcp!Tick, Mcp!Add, Mcp!Remove, Mcp!Restart, Mcp!Touch, Mcp!Reap, Mcp!Close, Mcp!CloseReturns, Mcp!FinishRemove, Mcp!Expire, Mcp!vars

LEMMA StartsAccountedStep ==
    ASSUME McpTypes, StartsLive, StartsAccounted, StartsAwaited, [Mcp!Next]_(Mcp!vars)
    PROVE  StartsAccounted' /\ StartsAwaited'
<1> USE ServicesAssumption
    DEF Mcp!Parameters, McpTypes, StartsAccounted, StartsAwaited, Mcp!Began, Mcp!Done, Mcp!instVars, Mcp!useVars, Mcp!callVars, Mcp!leaveVars,
        Mcp!closeVars
<1>1. CASE UNCHANGED <<table, st, cancelled, expiring, leaving, left, closer, awaited>>
  BY <1>1
<1>2. CASE Mcp!Remove \/ Mcp!Reap
  BY <1>2 DEF Mcp!Remove, Mcp!Reap
<1>3. CASE Mcp!Restart \/ Mcp!Close \/ Mcp!CloseReturns
  BY <1>3 DEF Mcp!Restart, Mcp!Close, Mcp!Shutdown, Mcp!CloseReturns
<1>4. ASSUME NEW c \in Calls, Mcp!Session(c) PROVE StartsAccounted' /\ StartsAwaited'
  <2>1. CASE closer = "open"
    BY <1>4, <2>1 DEF Mcp!Session, Mcp!Shareable, Mcp!Admitted
  <2>2. CASE closer # "open"
    BY <1>1, <1>4, <2>2 DEF Mcp!Session, Mcp!Admitted
  <2> QED
    BY <2>1, <2>2
<1>5. ASSUME NEW i \in Instances, Mcp!Connect(i) \/ Mcp!SessionEnds(i) PROVE StartsAccounted' /\ StartsAwaited'
  BY <1>5 DEF Mcp!Connect, Mcp!Launch, Mcp!Initialize, Mcp!Fail, Mcp!Connected, Mcp!SessionEnds
<1>6. ASSUME NEW i \in Instances, Mcp!FinishInstance(i) PROVE StartsAccounted' /\ StartsAwaited'
  BY <1>6 DEF Mcp!FinishInstance
<1>7. ASSUME NEW i \in Instances, Mcp!FinishRemove(i) \/ Mcp!Expire(i) PROVE StartsAccounted' /\ StartsAwaited'
  BY <1>7 DEF Mcp!FinishRemove, Mcp!CancelRemoved, Mcp!Expire
<1> QED
  BY <1>1, <1>2, <1>3, <1>4, <1>5, <1>6, <1>7
  DEF Mcp!Next, Mcp!Use, Mcp!Obtain, Mcp!GiveUp, Mcp!BeginRequest, Mcp!EndRequest, Mcp!Tick, Mcp!Add, Mcp!Touch, Mcp!ProcessEnds, Mcp!vars

LEMMA InflightStep ==
    ASSUME McpTypes, StartsLive, InflightExact, [Mcp!Next]_(Mcp!vars)
    PROVE  InflightExact'
<1> USE ServicesAssumption
    DEF Mcp!Parameters, McpTypes, Mcp!instVars, Mcp!useVars, Mcp!callVars, Mcp!leaveVars, Mcp!closeVars
<1>1. ASSUME UNCHANGED inflight, \A i \in Instances : Requesting(i)' = Requesting(i),
             \A i \in Instances : st'[i] = "connecting" <=> st[i] = "connecting"
      PROVE  InflightExact'
  BY <1>1 DEF InflightExact
<1>2. UNCHANGED Mcp!callVars => \A i \in Instances : Requesting(i)' = Requesting(i)
  BY DEF Requesting
<1>3. ASSUME NEW c \in Calls, Mcp!Use(c) PROVE InflightExact'
  <2>1. CASE Mcp!Session(c)
    <3>1. /\ \E s : s # "requesting" /\ call' = [call EXCEPT ![c] = s]
          /\ \A d \in Calls \ {c} : on'[d] = on[d]
      BY <2>1 DEF Mcp!Session
    <3>2. \A i \in Instances : Requesting(i)' = Requesting(i)
      BY <2>1, <3>1, RequestsKept DEF Mcp!Session
    <3>3. \A i \in Instances : st'[i] = "connecting" <=> st[i] = "connecting"
      BY <2>1 DEF Mcp!Session
    <3> QED
      BY <1>1, <2>1, <3>2, <3>3 DEF Mcp!Session
  <2>2. CASE Mcp!Obtain(c) \/ Mcp!GiveUp(c)
    <3>1. /\ call[c] # "requesting" /\ UNCHANGED <<on, inflight, st>>
          /\ \E s : s # "requesting" /\ call' = [call EXCEPT ![c] = s]
      BY <2>2 DEF Mcp!Obtain, Mcp!GiveUp
    <3>2. \A i \in Instances : Requesting(i)' = Requesting(i)
      BY <3>1, RequestsKept
    <3> QED
      BY <1>1, <3>1, <3>2
  <2>3. CASE Mcp!BeginRequest(c)
    <3>1. /\ call[c] # "requesting" /\ on[c] \in Instances /\ UNCHANGED <<on, st>>
          /\ call' = [call EXCEPT ![c] = "requesting"]
          /\ inflight' = [inflight EXCEPT ![on[c]] = @ + 1]
      BY <2>3 DEF Mcp!BeginRequest, Mcp!CountUp, StartsLive
    <3>2. \A i \in Instances : Cardinality(Requesting(i)') =
              IF i = on[c] THEN Cardinality(Requesting(i)) + 1 ELSE Cardinality(Requesting(i))
      BY <3>1, RequestBegins
    <3> QED
      BY <3>1, <3>2, RequestingFinite DEF InflightExact
  <2>4. CASE Mcp!EndRequest(c)
    <3>1. /\ call[c] = "requesting" /\ on[c] \in Instances /\ UNCHANGED <<on, st>>
          /\ call' = [call EXCEPT ![c] = "done"]
          /\ inflight' = Mcp!CountDown(on[c])
      BY <2>4 DEF Mcp!EndRequest, StartsLive
    <3>2. /\ Cardinality(Requesting(on[c])) > 0
          /\ \A i \in Instances : Cardinality(Requesting(i)') =
                IF i = on[c] THEN Cardinality(Requesting(i)) - 1 ELSE Cardinality(Requesting(i))
      BY <3>1, RequestEnds
    <3>3. inflight[on[c]] > 0
      BY <3>1, <3>2, RequestingFinite DEF InflightExact
    <3> QED
      BY <3>1, <3>2, <3>3, RequestingFinite DEF InflightExact, Mcp!CountDown
  <2> QED
    BY <1>3, <2>1, <2>2, <2>3, <2>4 DEF Mcp!Use
<1>4. ASSUME NEW i \in Instances, Mcp!Connect(i) PROVE InflightExact'
  <2>1. \A j \in Instances : Requesting(j)' = Requesting(j)
    BY <1>2, <1>4 DEF Mcp!Connect, Mcp!Launch, Mcp!Initialize, Mcp!Fail, Mcp!Connected
  <2>2. CASE Mcp!Launch(i)
    BY <2>1, <2>2 DEF Mcp!Launch, InflightExact
  <2>3. CASE Mcp!Initialize(i)
    BY <2>1, <2>3, RequestingFinite DEF Mcp!Initialize, Mcp!CountUp, InflightExact
  <2>4. CASE Mcp!Fail(i) \/ Mcp!Connected(i)
    BY <2>1, <2>4, RequestingFinite DEF Mcp!Fail, Mcp!Connected, Mcp!CountDown, InflightExact
  <2> QED
    BY <1>4, <2>2, <2>3, <2>4 DEF Mcp!Connect
<1>5. ASSUME NEW i \in Instances, Mcp!SessionEnds(i) \/ Mcp!FinishInstance(i) PROVE InflightExact'
  BY <1>1, <1>2, <1>5 DEF Mcp!SessionEnds, Mcp!FinishInstance
<1>6. CASE UNCHANGED <<inflight, st, Mcp!callVars>>
  BY <1>1, <1>2, <1>6
<1> QED
  BY <1>3, <1>4, <1>5, <1>6
  DEF Mcp!Next, Mcp!Tick, Mcp!Add, Mcp!Remove, Mcp!Restart, Mcp!Touch, Mcp!Reap, Mcp!Close, Mcp!CloseReturns, Mcp!ProcessEnds, Mcp!FinishRemove,
    Mcp!Expire, Mcp!vars

LEMMA McpStepInv == McpInv /\ [Mcp!Next]_(Mcp!vars) => McpInv'
BY McpTypeStep, StartsLiveStep, StartsAccountedStep, InflightStep DEF McpInv

McpSafe == part = "mcp" => McpInv

LEMMA McpMoves ==
    ASSUME part = "mcp", [BundleNext]_bundleVars PROVE [Mcp!Next]_(Mcp!vars)
<1>1. CASE UNCHANGED bundleVars
    BY <1>1 DEF bundleVars, mcpVars, Mcp!vars, Mcp!instVars, Mcp!useVars, Mcp!callVars,
       Mcp!leaveVars, Mcp!closeVars
<1> QED
    BY <1>1 DEF BundleNext

LEMMA McpInvariance == BundleSpec => []McpSafe
<1>1. BundleInit => McpSafe
    BY ServicesAssumption, McpInitInv DEF BundleInit, McpSafe
<1>2. McpSafe /\ [BundleNext]_bundleVars => McpSafe'
  <2> SUFFICES ASSUME McpSafe, [BundleNext]_bundleVars, part' = "mcp" PROVE McpInv'
    BY DEF McpSafe
  <2>1. part = "mcp"
    BY DEF BundleNext, bundleVars
  <2>2. McpInv /\ [Mcp!Next]_(Mcp!vars)
    BY <2>1, McpMoves DEF McpSafe
  <2> QED
    BY <2>2, ServicesAssumption, McpStepInv
<1> QED
    BY <1>1, <1>2, PTL DEF BundleSpec, bundleVars

LEMMA CounterBounded == McpInv => Mcp!TypeOK
<1> SUFFICES ASSUME McpInv PROVE Mcp!TypeOK
  OBVIOUS
<1>1. Cardinality(Calls) \in Nat
  BY CallsFinite, FS_CardinalityType
<1>2. \A i \in Instances : inflight[i] \in 0..Cardinality(Calls) + 1
  BY <1>1, RequestingFinite DEF McpInv, McpTypes, InflightExact
<1>3. Mcp!Cardinality(Calls) = Cardinality(Calls)
  BY DEF Mcp!Cardinality, Cardinality
<1> QED
  BY <1>2, <1>3 DEF McpInv, McpTypes, Mcp!TypeOK

\* Every reachable state is well typed; in particular the middleware never counts
\* more requests than there are callers, and one for the handshake.
THEOREM RequestsCounted == BundleSpec => [](part = "mcp" => Mcp!TypeOK)
<1>1. McpSafe => (part = "mcp" => Mcp!TypeOK)
    BY CounterBounded DEF McpSafe
<1> QED
    BY <1>1, McpInvariance, PTL

\* Manager.Session, reap, Remove and Close between them lose no start: what goes
\* on is in the table or on its way to be cancelled.
LEMMA NoneOrphaned == McpInv => Mcp!NoOrphanInstance
BY DEF McpInv, McpTypes, StartsAccounted, StartsAwaited, Mcp!NoOrphanInstance, Mcp!Began, Mcp!Done

THEOREM InstancesKnown == BundleSpec => []NoOrphanInstance
<1>1. McpSafe => NoOrphanInstance
    BY NoneOrphaned DEF McpSafe, NoOrphanInstance
<1> QED
    BY <1>1, McpInvariance, PTL

\* Manager.connect closes done after the process has ended, and Session replaces
\* a start that is done: the two processes never run side by side.
LEMMA NeverBeside == McpInv => Mcp!ReplacedAfterProcess
BY DEF McpInv, McpTypes, StartsLive, StartsAccounted, Mcp!ReplacedAfterProcess, Mcp!Began, Mcp!Done

THEOREM NeverTwoProcesses == BundleSpec => []ReplacedAfterProcess
<1>1. McpSafe => ReplacedAfterProcess
    BY NeverBeside DEF McpSafe, ReplacedAfterProcess
<1> QED
    BY <1>1, McpInvariance, PTL

\* Manager.reap goes by the counter, and the counter is exact: it never takes an
\* instance that serves a request or is in its handshake.
IdleOnly ==
    \A i \in expiring' \ expiring : Requesting(i) = {} /\ st[i] # "connecting"

LEMMA ReapedIdle == McpInv /\ [Mcp!Next]_(Mcp!vars) => IdleOnly
<1> SUFFICES ASSUME McpInv, [Mcp!Next]_(Mcp!vars), NEW i \in expiring' \ expiring
             PROVE  Requesting(i) = {} /\ st[i] # "connecting"
  BY DEF IdleOnly
<1>1. Mcp!Reap /\ i = table /\ i \in Instances
  BY ServicesAssumption
  DEF McpInv, McpTypes, Mcp!Next, Mcp!Use, Mcp!Session, Mcp!Obtain, Mcp!GiveUp, Mcp!BeginRequest, Mcp!EndRequest, Mcp!Tick, Mcp!Add, Mcp!Remove,
    Mcp!Restart, Mcp!Touch, Mcp!Reap, Mcp!Close, Mcp!CloseReturns, Mcp!Connect, Mcp!Launch, Mcp!Initialize, Mcp!Fail, Mcp!Connected,
    Mcp!SessionEnds, Mcp!ProcessEnds, Mcp!FinishInstance, Mcp!FinishRemove, Mcp!Expire, Mcp!vars, Mcp!leaveVars, Mcp!Parameters
<1>2. Cardinality(Requesting(i)) = 0 /\ st[i] # "connecting"
  BY <1>1, RequestingFinite DEF McpInv, InflightExact, Mcp!Reap
<1> QED
  BY <1>2, RequestingFinite, FS_EmptySet

THEOREM ReapSparesUse == BundleSpec => [][part = "mcp" => IdleOnly]_bundleVars
<1>1. McpSafe /\ [BundleNext]_bundleVars => [part = "mcp" => IdleOnly]_bundleVars
    BY McpMoves, ReapedIdle DEF McpSafe
<1> QED
    BY <1>1, McpInvariance, PTL DEF BundleSpec, bundleVars

-----------------------------------------------------------------------------
(* The connection of the client.  Whoever holds lifecycleMu is at one of    *)
(* the busy places, and the connection being made is in its hands alone.    *)

Busy == {"clearing", "dialled", "installed", "stores"}
Actors == Callers \cup {Closer} \cup Conns

\* The holder of lifecycleMu, and where the three kinds of goroutines can be.
Turns ==
    /\ Life!TypeOK
    /\ \A p \in Actors : (lifecycle = p) <=> at[p] \in Busy
    /\ \A p \in Callers : at[p] \notin {"waiting", "stores"}
    /\ \A c \in Conns : at[c] \notin {"dialled", "installed", "stores"}
    /\ at[Closer] \notin {"dialled", "installed", "waiting"}

\* What is open or beating is the installed connection or the one being made;
\* while one is being replaced none is installed.
Held ==
    /\ \A c \in Conns :
        /\ link[c] = "open" => c \in {nc, fresh}
        /\ at[c] # "idle" => link[c] = "down"
        /\ beat[c] = "beating" => c = nc
        /\ beat[c] = "told" => lifecycle # Nobody /\ at[lifecycle] = "clearing"
    /\ \A p \in Actors :
        /\ at[p] \in {"clearing", "dialled", "stores"} => nc = Nobody
        /\ at[p] \in Busy \ {"dialled"} => fresh = Nobody
        /\ at[p] = "dialled" => fresh # Nobody
    /\ lifecycle = Nobody => fresh = Nobody

\* Once Close has begun nobody else takes a turn, and when it is over nothing runs.
Stopped ==
    /\ ended <=> at[Closer] # "idle"
    /\ ended =>
        /\ nc = Nobody /\ lifecycle \in {Closer, Nobody}
        /\ lifecycle = Nobody => service # "running"

LifeInv == Turns /\ Held /\ Stopped
LifeSafe == part = "life" => LifeInv

\* A step of the client, as cases.
LifeStep ==
    \/ \E p \in Callers : Life!ConnectBegins(p) \/ Life!Dial(p) \/ Life!SubscribeFails(p)
                          \/ Life!Install(p) \/ Life!StartRTC(p)
    \/ \E c \in Conns : Life!AuthFails(c) \/ Life!StopAfterFailure(c) \/ Life!FailureHandled(c)
                        \/ Life!HeartbeatEnds(c)
    \/ Life!CloseBegins \/ Life!CloseStores \/ Life!CloseReturns

Places == {"idle", "waiting", "clearing", "dialled", "installed", "stores", "returned"}

\* A goroutine goes to a place, and the lock is taken, kept or left with it.
Turn(p, l) ==
    /\ at' = [at EXCEPT ![p] = l]
    /\ \/ at[p] \notin Busy /\ l \notin Busy /\ UNCHANGED lifecycle
       \/ at[p] \notin Busy /\ l \in Busy /\ lifecycle = Nobody /\ lifecycle' = p
       \/ at[p] \in Busy /\ l \in Busy /\ UNCHANGED lifecycle
       \/ at[p] \in Busy /\ l \notin Busy /\ lifecycle' = Nobody

CallerTurn(p) == \E l \in {"clearing", "dialled", "installed", "returned"} : Turn(p, l)
ConnTurn(c) == \E l \in {"waiting", "clearing", "returned"} : Turn(c, l)
CloserTurn == \E l \in {"clearing", "stores", "returned"} : Turn(Closer, l)

LEMMA StepTurns ==
    ASSUME LifeStep
    PROVE  \/ \E p \in Callers : CallerTurn(p)
           \/ \E c \in Conns : ConnTurn(c)
           \/ CloserTurn
           \/ UNCHANGED <<at, lifecycle>>
<1> USE DEF Turn, Busy, Life!Goto, Life!Leave
<1>1. ASSUME NEW p \in Callers, Life!ConnectBegins(p) PROVE CallerTurn(p)
    BY <1>1 DEF CallerTurn, Life!ConnectBegins
<1>2. ASSUME NEW p \in Callers, Life!Dial(p) PROVE CallerTurn(p)
    BY <1>2 DEF CallerTurn, Life!Dial
<1>3. ASSUME NEW p \in Callers, Life!SubscribeFails(p) \/ Life!Install(p) \/ Life!StartRTC(p)
      PROVE  CallerTurn(p)
    BY <1>3 DEF CallerTurn, Life!SubscribeFails, Life!Install, Life!StartRTC
<1>4. ASSUME NEW c \in Conns, Life!AuthFails(c) \/ Life!FailureHandled(c) PROVE ConnTurn(c)
    BY <1>4 DEF ConnTurn, Life!AuthFails, Life!FailureHandled
<1>5. ASSUME NEW c \in Conns, Life!StopAfterFailure(c) PROVE ConnTurn(c)
    BY <1>5 DEF ConnTurn, Life!StopAfterFailure
<1>6. ASSUME NEW c \in Conns, Life!HeartbeatEnds(c) PROVE UNCHANGED <<at, lifecycle>>
    BY <1>6 DEF Life!HeartbeatEnds
<1>7. ASSUME Life!CloseBegins \/ Life!CloseStores \/ Life!CloseReturns PROVE CloserTurn
    BY <1>7 DEF CloserTurn, Life!CloseBegins, Life!CloseStores, Life!CloseReturns
<1> QED
    BY <1>1, <1>2, <1>3, <1>4, <1>5, <1>6, <1>7 DEF LifeStep

\* Every turn keeps the lock in one hand.
LEMMA Turned ==
    ASSUME Turns, NEW p \in Actors, NEW l \in Places, Turn(p, l)
    PROVE  /\ at' \in [Actors -> Places] /\ lifecycle' \in Actors \cup {Nobody}
           /\ \A q \in Actors : (lifecycle' = q) <=> at'[q] \in Busy
           /\ at'[p] = l /\ \A q \in Actors : q # p => at'[q] = at[q]
<1> Nobody \notin Actors
    BY ServicesAssumption DEF Life!Parameters, Actors
<1> at \in [Actors -> Places]
    BY DEF Turns, Life!TypeOK, Actors, Places
<1> lifecycle \in Actors \cup {Nobody} /\ \A q \in Actors : (lifecycle = q) <=> at[q] \in Busy
    BY DEF Turns, Life!TypeOK, Actors
<1> QED
    BY DEF Turn

\* The fields of the client and of its connections.
Fields ==
    /\ ended \in BOOLEAN /\ {nc, fresh} \subseteq Conns \cup {Nobody}
    /\ link \in [Conns -> {"unused", "open", "down"}]
    /\ beat \in [Conns -> {"none", "beating", "told", "over"}]
    /\ service \in {"none", "running", "stopped"}

LEMMA FieldsStep == Turns /\ Held /\ LifeStep => Fields'
<1> SUFFICES ASSUME Turns, Held, LifeStep PROVE Fields'
    OBVIOUS
<1> Fields
    BY DEF Turns, Life!TypeOK, Fields
<1> USE DEF Fields
<1>1. ASSUME NEW p \in Callers,
             Life!ConnectBegins(p) \/ Life!Dial(p) \/ Life!SubscribeFails(p)
      PROVE  Fields'
    BY <1>1 DEF Life!ConnectBegins, Life!TakeConnection, Life!Dial, Life!SubscribeFails
<1>2. ASSUME NEW p \in Callers, Life!Install(p) \/ Life!StartRTC(p) PROVE Fields'
    BY <1>2 DEF Life!Install, Life!StartRTC
<1>3. ASSUME NEW c \in Conns, Life!AuthFails(c) \/ Life!StopAfterFailure(c)
                              \/ Life!FailureHandled(c) \/ Life!HeartbeatEnds(c)
      PROVE  Fields'
    BY <1>3 DEF Life!AuthFails, Life!StopAfterFailure, Life!TakeConnection, Life!FailureHandled,
       Life!HeartbeatEnds
<1>4. ASSUME Life!CloseBegins \/ Life!CloseStores \/ Life!CloseReturns PROVE Fields'
    BY <1>4 DEF Life!CloseBegins, Life!TakeConnection, Life!CloseStores, Life!CloseReturns,
       Life!StopRTC
<1> QED
    BY <1>1, <1>2, <1>3, <1>4 DEF LifeStep

LEMMA TurnsStep == Turns /\ Held /\ LifeStep => Turns'
<1> SUFFICES ASSUME Turns, Held, LifeStep PROVE Turns'
    OBVIOUS
<1> USE ServicesAssumption DEF Life!Parameters, Actors
<1>1. /\ at' \in [Actors -> Places] /\ lifecycle' \in Actors \cup {Nobody}
      /\ \A p \in Actors : (lifecycle' = p) <=> at'[p] \in Busy
      /\ \A p \in Callers : at'[p] \notin {"waiting", "stores"}
      /\ \A c \in Conns : at'[c] \notin {"dialled", "installed", "stores"}
      /\ at'[Closer] \notin {"dialled", "installed", "waiting"}
  <2>1. CASE \E p \in Callers : CallerTurn(p)
    <3>1. PICK p \in Callers, l \in {"clearing", "dialled", "installed", "returned"} : Turn(p, l)
      BY <2>1 DEF CallerTurn
    <3>2. /\ at' \in [Actors -> Places] /\ lifecycle' \in Actors \cup {Nobody}
          /\ \A q \in Actors : (lifecycle' = q) <=> at'[q] \in Busy
          /\ at'[p] = l /\ \A q \in Actors : q # p => at'[q] = at[q]
      BY <3>1, Turned DEF Places
    <3> QED
      BY <3>2 DEF Turns
  <2>2. CASE \E c \in Conns : ConnTurn(c)
    <3>1. PICK c \in Conns, l \in {"waiting", "clearing", "returned"} : Turn(c, l)
      BY <2>2 DEF ConnTurn
    <3>2. /\ at' \in [Actors -> Places] /\ lifecycle' \in Actors \cup {Nobody}
          /\ \A q \in Actors : (lifecycle' = q) <=> at'[q] \in Busy
          /\ at'[c] = l /\ \A q \in Actors : q # c => at'[q] = at[q]
      BY <3>1, Turned DEF Places
    <3> QED
      BY <3>2 DEF Turns
  <2>3. CASE CloserTurn
    <3>1. PICK l \in {"clearing", "stores", "returned"} : Turn(Closer, l)
      BY <2>3 DEF CloserTurn
    <3>2. /\ at' \in [Actors -> Places] /\ lifecycle' \in Actors \cup {Nobody}
          /\ \A q \in Actors : (lifecycle' = q) <=> at'[q] \in Busy
          /\ at'[Closer] = l /\ \A q \in Actors : q # Closer => at'[q] = at[q]
      BY <3>1, Turned DEF Places
    <3> QED
      BY <3>2 DEF Turns
  <2>4. CASE UNCHANGED <<at, lifecycle>>
    BY <2>4 DEF Turns, Life!TypeOK, Places
  <2> QED
    BY <2>1, <2>2, <2>3, <2>4, StepTurns
<1> QED
    BY <1>1, FieldsStep DEF Turns, Life!TypeOK, Fields, Places

LEMMA HeldStep == Turns /\ Turns' /\ Held /\ Stopped /\ LifeStep => Held' /\ Stopped'
<1> SUFFICES ASSUME Turns, Turns', Held, Stopped, LifeStep PROVE Held' /\ Stopped'
    OBVIOUS
<1> USE ServicesAssumption
    DEF Life!Parameters, Actors, Busy, Held, Stopped, Turns, Life!TypeOK, Life!Goto, Life!Leave
<1>1. ASSUME NEW p \in Callers, Life!ConnectBegins(p) PROVE Held' /\ Stopped'
    BY <1>1 DEF Life!ConnectBegins, Life!TakeConnection
<1>2. ASSUME NEW p \in Callers, Life!Dial(p) PROVE Held' /\ Stopped'
    BY <1>2 DEF Life!Dial, Life!BeatsOver
<1>3. ASSUME NEW p \in Callers, Life!SubscribeFails(p) PROVE Held' /\ Stopped'
    BY <1>3 DEF Life!SubscribeFails
<1>4. ASSUME NEW p \in Callers, Life!Install(p) PROVE Held' /\ Stopped'
    BY <1>4 DEF Life!Install
<1>5. ASSUME NEW p \in Callers, Life!StartRTC(p) PROVE Held' /\ Stopped'
    BY <1>5 DEF Life!StartRTC
<1>6. ASSUME NEW c \in Conns, Life!AuthFails(c) PROVE Held' /\ Stopped'
    BY <1>6 DEF Life!AuthFails
<1>7. ASSUME NEW c \in Conns, Life!StopAfterFailure(c) PROVE Held' /\ Stopped'
    BY <1>7 DEF Life!StopAfterFailure, Life!MayStop, Life!TakeConnection
<1>8. ASSUME NEW c \in Conns, Life!FailureHandled(c) PROVE Held' /\ Stopped'
    BY <1>8 DEF Life!FailureHandled, Life!BeatsOver
<1>9. ASSUME NEW c \in Conns, Life!HeartbeatEnds(c) PROVE Held' /\ Stopped'
    BY <1>9 DEF Life!HeartbeatEnds
<1>10. CASE Life!CloseBegins
    BY <1>10 DEF Life!CloseBegins, Life!TakeConnection
<1>11. CASE Life!CloseStores
    BY <1>11 DEF Life!CloseStores, Life!BeatsOver
<1>12. CASE Life!CloseReturns
    BY <1>12 DEF Life!CloseReturns, Life!StopRTC
<1> QED
    BY <1>1, <1>2, <1>3, <1>4, <1>5, <1>6, <1>7, <1>8, <1>9, <1>10, <1>11, <1>12 DEF LifeStep

LEMMA LifeInit == Life!Init => LifeInv
<1> SUFFICES ASSUME Life!Init PROVE LifeInv
    OBVIOUS
<1> USE ServicesAssumption DEF Life!Parameters, Actors, Busy, Life!Init
<1>1. Turns
    BY DEF Turns, Life!TypeOK
<1>2. Held /\ Stopped
    BY DEF Held, Stopped
<1> QED
    BY <1>1, <1>2 DEF LifeInv

LEMMA LifeMoves ==
    ASSUME part = "life", [BundleNext]_bundleVars PROVE LifeStep \/ UNCHANGED lifeVars
<1>1. CASE UNCHANGED bundleVars
    BY <1>1 DEF bundleVars
<1>2. CASE Life!Next
    BY <1>2 DEF Life!Next, LifeStep
<1> QED
    BY <1>1, <1>2 DEF BundleNext

LEMMA LifeInvariance == BundleSpec => []LifeSafe
<1>1. BundleInit => LifeSafe
    BY LifeInit DEF BundleInit, LifeSafe
<1>2. LifeSafe /\ [BundleNext]_bundleVars => LifeSafe'
  <2> SUFFICES ASSUME LifeSafe, [BundleNext]_bundleVars, part' = "life" PROVE LifeInv'
    BY DEF LifeSafe
  <2>1. part = "life"
    BY DEF BundleNext, bundleVars
  <2>2. LifeInv
    BY <2>1 DEF LifeSafe
  <2>3. CASE LifeStep
    BY <2>2, <2>3, TurnsStep, HeldStep DEF LifeInv
  <2>4. CASE UNCHANGED lifeVars
    BY <2>2, <2>4 DEF LifeInv, Turns, Held, Stopped, Life!TypeOK, lifeVars
  <2> QED
    BY <2>1, <2>3, <2>4, LifeMoves
<1> QED
    BY <1>1, <1>2, PTL DEF BundleSpec, bundleVars

\* Client.Close, connect and the goroutine of a failed connection: between two of
\* their turns nothing is open or beating but the installed connection, and after
\* Close nothing at all, for any number of callers and connections.
THEOREM CloseIsComplete == BundleSpec => []NothingLeftBehind
<1>1. LifeSafe => NothingLeftBehind
  <2> SUFFICES ASSUME LifeInv PROVE Life!NothingLeftBehind
    BY DEF LifeSafe, NothingLeftBehind
  <2> QED
    BY ServicesAssumption DEF Life!Parameters, LifeInv, Turns, Held, Stopped, Life!TypeOK,
       Life!NothingLeftBehind
<1> QED
    BY <1>1, LifeInvariance, PTL

\* The ClosedHandler of Client.connect takes down the connection that failed,
\* never the one that has replaced it.
THEOREM ReplacementSpared == BundleSpec => FailureSparesReplacement
<1>1. LifeSafe /\ [BundleNext]_bundleVars => [part = "life" => Life!SparesReplacement]_lifeVars
  <2> SUFFICES ASSUME LifeSafe, part = "life", [BundleNext]_bundleVars, lifeVars' # lifeVars
               PROVE  Life!SparesReplacement
    OBVIOUS
  <2>1. LifeInv /\ LifeStep
    BY LifeMoves DEF LifeSafe
  <2> SUFFICES ASSUME NEW c \in Conns, nc = c, link[c] = "open", link'[c] = "down"
               PROVE  lifecycle' = Closer \/ at'[c] = "waiting"
    BY DEF Life!SparesReplacement
  <2> USE ServicesAssumption
      DEF Life!Parameters, Actors, Busy, LifeInv, Turns, Life!TypeOK, Held, Life!Goto, Life!Leave
  <2>2. ASSUME NEW p \in Callers, Life!ConnectBegins(p) PROVE FALSE
    BY <2>1, <2>2 DEF Life!ConnectBegins, Life!TakeConnection
  <2>3. ASSUME NEW p \in Callers, Life!Dial(p) \/ Life!SubscribeFails(p) PROVE FALSE
    BY <2>1, <2>3 DEF Life!Dial, Life!SubscribeFails
  <2>4. ASSUME NEW d \in Conns, Life!AuthFails(d) PROVE at'[c] = "waiting"
    BY <2>1, <2>4 DEF Life!AuthFails
  <2>5. ASSUME NEW d \in Conns, Life!StopAfterFailure(d) PROVE FALSE
    BY <2>1, <2>5 DEF Life!StopAfterFailure, Life!MayStop, Life!TakeConnection
  <2>6. CASE Life!CloseBegins
    BY <2>6 DEF Life!CloseBegins
  <2>7. CASE UNCHANGED link
    BY <2>7
  <2> QED
    BY <2>1, <2>2, <2>3, <2>4, <2>5, <2>6, <2>7 DEF LifeStep, Life!Install, Life!StartRTC,
       Life!FailureHandled, Life!HeartbeatEnds, Life!CloseStores, Life!CloseReturns
<1> QED
    BY <1>1, LifeInvariance, PTL DEF BundleSpec, bundleVars, FailureSparesReplacement

-----------------------------------------------------------------------------
(* The network client of scripts.                                          *)

Exchanges ==
    [url : Urls \cup {"relative"}, method : {"GET", "POST"}, body : BOOLEAN,
     identity : BOOLEAN, gate : Urls \cup {"relative", "none"}]

Phases == {"new", "hop", "passed", "answered", "done", "failed"}
Responses == [status : {0, 200, 302, 303, 307}, size : Nat, location : Urls \cup {"none"}]

NetTypes ==
    /\ url \in [NetRequests -> Urls \cup {"relative"}]
    /\ method \in [NetRequests -> {"GET", "POST"}] /\ hasBody \in [NetRequests -> BOOLEAN]
    /\ gated \in [NetRequests -> Urls \cup {"relative", "none"}]
    /\ phase \in [NetRequests -> Phases] /\ response \in [NetRequests -> Responses]
    /\ sent \in [NetRequests -> Seq(Exchanges)]
    /\ edits \in Nat

\* Between the gate and the exchange, the address stays the one that was let through.
Passed ==
    \A r \in NetRequests :
        phase[r] = "passed" => gated[r] = url[r] /\ (edits = 0 => url[r] \notin denied)

NetInv == NetTypes /\ Passed /\ Net!EveryHopGated
NetSafe == part = "net" => NetInv

LEMMA NetInit == Net!Init => NetInv
<1> SUFFICES ASSUME Net!Init PROVE NetInv
    OBVIOUS
<1> USE ServicesAssumption DEF Net!Parameters, Net!Init, Net!NoResponse
<1>1. NetTypes
  <2>1. \A r \in NetRequests : response[r] \in Responses
    BY DEF Responses
  <2>2. sent \in [NetRequests -> Seq(Exchanges)]
    OBVIOUS
  <2> QED
    BY <2>1, <2>2 DEF NetTypes, Phases
<1>2. Passed /\ Net!EveryHopGated
    BY DEF Passed, Net!EveryHopGated
<1> QED
    BY <1>1, <1>2 DEF NetInv

LEMMA NetStep == NetInv /\ Net!Next => NetInv'
<1> SUFFICES ASSUME NetInv, Net!Next PROVE NetInv'
    OBVIOUS
<1> USE ServicesAssumption DEF Net!Parameters, NetInv, Net!Phase, Net!hopVars
<1>1. ASSUME NEW r \in NetRequests, Net!Begin(r) PROVE NetInv'
  <2>1. UNCHANGED <<denied, method, hasBody, response, gated, sent, edits>>
    BY <1>1 DEF Net!Begin
  <2>2. url' \in [NetRequests -> Urls \cup {"relative"}]
    <3>1. UNCHANGED url \/ \E u \in Urls : url' = [url EXCEPT ![r] = u]
      BY <1>1 DEF Net!Begin
    <3> QED
      BY <3>1 DEF NetTypes
  <2>3. PICK p \in {"hop", "failed"} : phase' = [phase EXCEPT ![r] = p]
    BY <1>1 DEF Net!Begin
  <2>4. \A q \in NetRequests : q # r => url'[q] = url[q]
    BY <1>1 DEF NetTypes, Net!Begin
  <2>5. NetTypes'
    BY <2>1, <2>2, <2>3 DEF NetTypes, Phases
  <2>6. Passed'
    BY <2>1, <2>3, <2>4 DEF NetTypes, Passed
  <2>7. Net!EveryHopGated'
    BY <2>1 DEF Net!EveryHopGated
  <2> QED
    BY <2>5, <2>6, <2>7
<1>2. ASSUME NEW r \in NetRequests, Net!Gate(r) PROVE NetInv'
  <2>1. UNCHANGED <<denied, url, method, hasBody, response, sent, edits>>
    BY <1>2 DEF Net!Gate
  <2>2. \/ url[r] \in denied /\ phase' = [phase EXCEPT ![r] = "failed"] /\ UNCHANGED gated
        \/ /\ url[r] \notin denied /\ phase' = [phase EXCEPT ![r] = "passed"]
           /\ gated' = [gated EXCEPT ![r] = url[r]]
    BY <1>2 DEF Net!Gate
  <2>3. NetTypes'
    <3>1. phase' \in [NetRequests -> Phases]
      BY <2>2 DEF NetTypes, Phases
    <3>2. gated' \in [NetRequests -> Urls \cup {"relative", "none"}]
      <4>1. url[r] \in Urls \cup {"relative", "none"}
        BY DEF NetTypes
      <4>2. UNCHANGED gated \/ gated' = [gated EXCEPT ![r] = url[r]]
        BY <2>2
      <4> QED
        BY <4>1, <4>2 DEF NetTypes
    <3> QED
      BY <2>1, <3>1, <3>2 DEF NetTypes
  <2>4. Passed'
    BY <2>1, <2>2 DEF NetTypes, Passed
  <2>5. Net!EveryHopGated'
    BY <2>1 DEF Net!EveryHopGated
  <2> QED
    BY <2>3, <2>4, <2>5
<1>3. ASSUME NEW r \in NetRequests, Net!Round(r) PROVE NetInv'
  <2> DEFINE x == Net!Exchange(r)
  <2>1. x \in Exchanges /\ x.url = url[r] /\ x.gate = gated[r]
    BY DEF NetTypes, Exchanges, Net!Exchange
  <2>2. sent' = [sent EXCEPT ![r] = Append(sent[r], x)] /\ sent[r] \in Seq(Exchanges)
    BY <1>3 DEF Net!Round, NetTypes
  <2>3. sent' \in [NetRequests -> Seq(Exchanges)]
    BY <2>1, <2>2 DEF NetTypes
  <2>4. UNCHANGED <<denied, url, method, hasBody, gated, edits>>
    BY <1>3 DEF Net!Round
  <2>5. /\ phase' \in [NetRequests -> Phases]
        /\ phase'[r] # "passed" /\ \A q \in NetRequests : q # r => phase'[q] = phase[q]
    <3>1. PICK p \in {"answered", "failed"} : phase' = [phase EXCEPT ![r] = p]
      BY <1>3 DEF Net!Round
    <3> QED
      BY <3>1 DEF NetTypes, Phases
  <2>6. response' \in [NetRequests -> Responses]
    <3> DEFINE Full(size) == [status |-> 200, size |-> size, location |-> "none"]
               Back(s, u) == [status |-> s, size |-> 0, location |-> u]
    <3>1. \/ \E size \in Sizes : response' = [response EXCEPT ![r] = Full(size)]
          \/ \E s \in {302, 303, 307}, u \in Urls \cup {"none"} :
                response' = [response EXCEPT ![r] = Back(s, u)]
          \/ UNCHANGED response
      BY <1>3 DEF Net!Round
    <3>2. /\ \A size \in Sizes : Full(size) \in Responses
          /\ \A s \in {302, 303, 307}, u \in Urls \cup {"none"} : Back(s, u) \in Responses
      BY DEF Responses
    <3> HIDE DEF Full, Back
    <3>3. response \in [NetRequests -> Responses]
      BY DEF NetTypes
    <3>4. ASSUME NEW size \in Sizes, response' = [response EXCEPT ![r] = Full(size)]
          PROVE  response' \in [NetRequests -> Responses]
      BY ONLY <3>2, <3>3, <3>4
    <3>5. ASSUME NEW s \in {302, 303, 307}, NEW u \in Urls \cup {"none"},
                 response' = [response EXCEPT ![r] = Back(s, u)]
          PROVE  response' \in [NetRequests -> Responses]
      BY ONLY <3>2, <3>3, <3>5
    <3> QED
      BY ONLY <3>1, <3>3, <3>4, <3>5
  <2>7. NetTypes'
    BY <2>3, <2>4, <2>5, <2>6 DEF NetTypes
  <2>8. Passed'
    BY <2>4, <2>5 DEF Passed
  <2>9. x.gate = x.url /\ (edits = 0 => x.url \notin denied)
    BY <1>3, <2>1 DEF Net!Round, Passed
  <2>10. ASSUME NEW q \in NetRequests, NEW i \in DOMAIN sent'[q]
         PROVE  /\ sent'[q][i].gate = sent'[q][i].url
                /\ edits = 0 => sent'[q][i].url \notin denied
    <3>1. CASE q # r
      BY <2>2, <2>10, <3>1 DEF NetTypes, Net!EveryHopGated
    <3>2. CASE q = r /\ i \in DOMAIN sent[r]
      <4>1. sent'[q][i] = sent[r][i]
        BY <2>1, <2>2, <2>10, <3>2 DEF NetTypes
      <4> QED
        BY <3>2, <4>1 DEF Net!EveryHopGated
    <3>3. CASE q = r /\ i \notin DOMAIN sent[r]
      <4>1. sent'[q] = Append(sent[r], x)
        BY <2>2, <3>3 DEF NetTypes
      <4>2. i = Len(sent[r]) + 1
        BY <2>1, <2>2, <2>10, <3>3, <4>1
      <4>3. sent'[q][i] = x
        BY <2>1, <2>2, <4>1, <4>2
      <4> QED
        BY <2>9, <4>3
    <3> QED
      BY <3>1, <3>2, <3>3
  <2>11. Net!EveryHopGated'
    BY <2>4, <2>10 DEF Net!EveryHopGated
  <2> QED
    BY <2>7, <2>8, <2>11
<1>4. ASSUME NEW r \in NetRequests, Net!Redirect(r) PROVE NetInv'
  <2>1. UNCHANGED <<denied, response, gated, sent, edits>>
    BY <1>4 DEF Net!Redirect
  <2>2. PICK p \in {"hop", "failed"} : phase' = [phase EXCEPT ![r] = p]
    BY <1>4 DEF Net!Redirect
  <2>3. /\ method' \in [NetRequests -> {"GET", "POST"}] /\ hasBody' \in [NetRequests -> BOOLEAN]
        /\ UNCHANGED url \/ \E u \in Urls : url' = [url EXCEPT ![r] = u]
    <3>1. CASE UNCHANGED <<url, method, hasBody>>
      BY <3>1 DEF NetTypes
    <3>2. CASE ~UNCHANGED <<url, method, hasBody>>
      <4>1. /\ response[r].location # "none"
            /\ url' = [url EXCEPT ![r] = response[r].location]
            /\ method' = IF Net!BecomesGet(r) THEN [method EXCEPT ![r] = "GET"] ELSE method
            /\ hasBody' = IF Net!BecomesGet(r) THEN [hasBody EXCEPT ![r] = FALSE] ELSE hasBody
        BY <1>4, <3>2 DEF Net!Redirect
      <4>2. response[r].location \in Urls
        BY <4>1 DEF NetTypes, Responses
      <4> QED
        <5>1. method' \in [NetRequests -> {"GET", "POST"}]
          <6>1. method' = method \/ method' = [method EXCEPT ![r] = "GET"]
            BY <4>1
          <6> QED
            BY <6>1 DEF NetTypes
        <5>2. hasBody' \in [NetRequests -> BOOLEAN]
          <6>1. hasBody' = hasBody \/ hasBody' = [hasBody EXCEPT ![r] = FALSE]
            BY <4>1
          <6> QED
            BY <6>1 DEF NetTypes
        <5>3. \E u \in Urls : url' = [url EXCEPT ![r] = u]
          BY <4>1, <4>2
        <5> QED
          BY <5>1, <5>2, <5>3
    <3> QED
      BY <3>1, <3>2
  <2>4. NetTypes'
    <3>1. url' \in [NetRequests -> Urls \cup {"relative"}]
      BY <2>3 DEF NetTypes
    <3>2. phase' \in [NetRequests -> Phases]
      BY <2>2 DEF NetTypes, Phases
    <3> QED
      BY <2>1, <2>3, <3>1, <3>2 DEF NetTypes
  <2>5. Passed'
    BY <2>1, <2>2, <2>3 DEF NetTypes, Passed
  <2>6. Net!EveryHopGated'
    BY <2>1 DEF Net!EveryHopGated
  <2> QED
    BY <2>4, <2>5, <2>6
<1>5. ASSUME NEW r \in NetRequests, Net!Deliver(r) \/ Net!Expire(r) PROVE NetInv'
  <2>1. UNCHANGED <<denied, url, method, hasBody, response, gated, sent, edits>>
    BY <1>5 DEF Net!Deliver, Net!Expire
  <2>2. UNCHANGED phase \/ \E p \in {"done", "failed"} : phase' = [phase EXCEPT ![r] = p]
    BY <1>5 DEF Net!Deliver, Net!Expire
  <2>3. NetTypes'
    <3>1. phase' \in [NetRequests -> Phases]
      BY <2>2 DEF NetTypes, Phases
    <3> QED
      BY <2>1, <3>1 DEF NetTypes
  <2>4. Passed' /\ Net!EveryHopGated'
    BY <2>1, <2>2 DEF NetTypes, Passed, Net!EveryHopGated
  <2> QED
    BY <2>3, <2>4
<1>6. ASSUME NEW u \in Urls, Net!EditRules(u) PROVE NetInv'
  <2>1. edits' \in Nat /\ edits' # 0
    BY <1>6 DEF NetTypes, Net!EditRules
  <2> QED
    BY <1>6, <2>1 DEF NetTypes, Net!EditRules, Passed, Net!EveryHopGated
<1> QED
    BY <1>1, <1>2, <1>3, <1>4, <1>5, <1>6 DEF Net!Next

LEMMA NetInvariance == BundleSpec => []NetSafe
<1>1. BundleInit => NetSafe
    BY NetInit DEF BundleInit, NetSafe
<1>2. NetSafe /\ [BundleNext]_bundleVars => NetSafe'
  <2> SUFFICES ASSUME NetSafe, [BundleNext]_bundleVars, part' = "net" PROVE NetInv'
    BY DEF NetSafe
  <2>1. NetInv /\ (Net!Next \/ UNCHANGED netVars)
    BY DEF NetSafe, BundleNext, bundleVars
  <2>2. CASE UNCHANGED netVars
    BY <2>1, <2>2 DEF netVars, NetInv, NetTypes, Passed, Net!EveryHopGated
  <2> QED
    BY <2>1, <2>2, NetStep
<1> QED
    BY <1>1, <1>2, PTL DEF BundleSpec, bundleVars

\* NetClient.Do follows redirects by hand: each exchange of a request is with the
\* address the gate was asked about, and as long as the rules do not change none is
\* with an address they deny, however long the chain of redirects is.
THEOREM HopsGated == BundleSpec => []EveryHopGated
<1>1. NetSafe => EveryHopGated
    BY DEF NetSafe, NetInv, EveryHopGated
<1> QED
    BY <1>1, NetInvariance, PTL

-----------------------------------------------------------------------------
(* The gate of signed requests.                                            *)

Verdicts == {"idle", "refused", "verified", "duplicate", "marked", "ran", "expired"}
Handlers == [state : Verdicts, request : GateRequests \cup {"none"}, deadline : Int, until : Int]

\* A handler that has got past the cache.
Marked(d) == gateCall[d].state \in {"marked", "ran", "expired"}

GateTypes ==
    /\ clock \in Int /\ offset \in Int
    /\ gateCall \in [Deliveries -> Handlers]
    /\ \A d \in Deliveries : Marked(d) \/ gateCall[d].state = "verified"
                                => gateCall[d].request \in GateRequests
    /\ \A q \in DOMAIN store : store[q] \in Int

\* The cache knows the nonce of every handler that has got past it, until the
\* deadline of that handler is over.
Remembered ==
    \A d \in Deliveries : Marked(d) =>
        \/ /\ gateCall[d].request \in DOMAIN store
           /\ store[gateCall[d].request] = gateCall[d].deadline
        \/ clock > gateCall[d].deadline

\* Of two handlers of one request with one deadline the second has got past the
\* cache after the deadline, too late to run.
SecondTooLate ==
    \A d, e \in Deliveries :
        /\ d # e /\ Marked(d) /\ Marked(e)
        /\ gateCall[d].request = gateCall[e].request
        /\ gateCall[d].deadline = gateCall[e].deadline
        => /\ clock > gateCall[d].deadline
           /\ ~(gateCall[d].state = "ran" /\ gateCall[e].state = "ran")

GateInv == GateTypes /\ Remembered /\ SecondTooLate
GateSafe == part = "gate" => GateInv

LEMMA GateInit == Gate!Init => GateInv
<1> SUFFICES ASSUME Gate!Init PROVE GateInv
    OBVIOUS
<1>1. Gate!Unsent \in Handlers /\ Gate!Unsent.state = "idle"
    BY DEF Gate!Unsent, Gate!Handler, Handlers, Verdicts
<1>2. gateCall = [d \in Deliveries |-> Gate!Unsent]
    BY DEF Gate!Init
<1>3. \A d \in Deliveries : gateCall[d].state = "idle"
    BY <1>1, <1>2
<1>4. clock \in Int /\ offset \in Int /\ store = << >>
    BY ServicesAssumption DEF Gate!Init, Gate!Parameters
<1> QED
    BY <1>1, <1>2, <1>3, <1>4 DEF GateInv, GateTypes, Remembered, SecondTooLate, Marked

LEMMA GateReceive ==
    ASSUME GateInv, NEW d \in Deliveries, NEW q \in GateRequests, Gate!Receive(d, q)
    PROVE  GateInv'
<1> USE DEF GateInv
<1>1. UNCHANGED <<clock, offset, store>> /\ clock \in Int /\ offset \in Int
    BY DEF Gate!Receive, GateTypes
<1>2. PICK h \in Handlers : /\ gateCall' = [gateCall EXCEPT ![d] = h]
                            /\ h.state \in {"verified", "refused"} /\ h.request = q
  <2> DEFINE good == Gate!Handler("verified", q, clock + (Deadline[q] - Gate!clockNow),
                                  clock + (Until[q] - Gate!clockNow))
             bad == Gate!Handler("refused", q, 0, 0)
  <2>1. gateCall' = [gateCall EXCEPT ![d] = IF Gate!NatsVerify(q) THEN good ELSE bad]
    BY DEF Gate!Receive
  <2>2. good \in Handlers /\ good.state = "verified" /\ good.request = q
    <3>1. /\ clock + (Deadline[q] - Gate!clockNow) \in Int
          /\ clock + (Until[q] - Gate!clockNow) \in Int
      BY <1>1, ServicesAssumption DEF Gate!Parameters, Gate!clockNow
    <3> QED
      BY <3>1 DEF Gate!Handler, Handlers, Verdicts
  <2>3. bad \in Handlers /\ bad.state = "refused" /\ bad.request = q
    BY DEF Gate!Handler, Handlers, Verdicts
  <2> HIDE DEF good, bad
  <2> QED
    BY <2>1, <2>2, <2>3
<1>3. /\ gateCall' \in [Deliveries -> Handlers] /\ gateCall'[d] = h
      /\ \A e \in Deliveries : e # d => gateCall'[e] = gateCall[e]
    BY <1>2 DEF GateTypes
<1>4. ~Marked(d)' /\ \A e \in Deliveries : e # d => (Marked(e)' <=> Marked(e))
    BY <1>2, <1>3 DEF Marked
<1>5. GateTypes'
    BY <1>1, <1>2, <1>3, <1>4 DEF GateTypes
<1>6. Remembered' /\ SecondTooLate'
    BY <1>1, <1>3, <1>4 DEF Remembered, SecondTooLate
<1> QED
    BY <1>5, <1>6

LEMMA GateMark ==
    ASSUME GateInv, NEW d \in Deliveries, Gate!CheckAndMark(d) PROVE GateInv'
<1> USE DEF GateInv
<1> DEFINE q == gateCall[d].request
           seen == q \in DOMAIN Gate!Purged
<1>1. UNCHANGED <<clock, offset>> /\ gateCall[d].state = "verified" /\ clock \in Int
    BY DEF Gate!CheckAndMark, GateTypes
<1>2. gateCall[d] \in Handlers /\ q \in GateRequests
    BY <1>1 DEF GateTypes
<1>3. DOMAIN Gate!Purged = {r \in DOMAIN store : clock <= store[r]}
      /\ \A r \in DOMAIN Gate!Purged : Gate!Purged[r] = store[r]
    BY DEF Gate!Purged
<1>4. store' = IF seen THEN Gate!Purged
               ELSE [r \in DOMAIN Gate!Purged \cup {q} |->
                        IF r = q THEN gateCall[d].deadline ELSE Gate!Purged[r]]
    BY DEF Gate!CheckAndMark
<1>5. /\ gateCall' = [gateCall EXCEPT ![d].state = IF seen THEN "duplicate" ELSE "marked"]
    BY DEF Gate!CheckAndMark
<1>6. /\ gateCall' \in [Deliveries -> Handlers]
      /\ gateCall'[d].state = IF seen THEN "duplicate" ELSE "marked"
      /\ gateCall'[d].request = q /\ gateCall'[d].deadline = gateCall[d].deadline
      /\ \A e \in Deliveries : e # d => gateCall'[e] = gateCall[e]
    BY <1>2, <1>5 DEF GateTypes, Handlers, Verdicts
<1>7. \A e \in Deliveries : e # d => (Marked(e)' <=> Marked(e))
    BY <1>6 DEF Marked
<1>8. Marked(d)' <=> ~seen
    BY <1>6 DEF Marked
<1>9. \A r \in DOMAIN store :
        \/ r \in DOMAIN store' /\ store'[r] = store[r]
        \/ clock > store[r]
  <2> TAKE r \in DOMAIN store
  <2>1. r \in DOMAIN Gate!Purged \/ clock > store[r]
    BY <1>1, <1>3 DEF GateTypes
  <2>2. DOMAIN Gate!Purged \subseteq DOMAIN store'
    BY <1>4
  <2>3. r \in DOMAIN Gate!Purged => store'[r] = Gate!Purged[r]
    BY <1>4
  <2> QED
    BY <1>3, <2>1, <2>2, <2>3
<1>10. \A r \in DOMAIN store' : store'[r] \in Int
  <2>1. gateCall[d].deadline \in Int
    BY <1>2 DEF Handlers
  <2> QED
    BY <1>3, <1>4, <2>1 DEF GateTypes
<1>11. GateTypes'
    BY <1>1, <1>2, <1>6, <1>7, <1>10 DEF GateTypes, Marked
<1>12. Remembered'
  <2> SUFFICES ASSUME NEW e \in Deliveries, Marked(e)'
               PROVE  \/ /\ gateCall'[e].request \in DOMAIN store'
                         /\ store'[gateCall'[e].request] = gateCall'[e].deadline
                      \/ clock' > gateCall'[e].deadline
    BY DEF Remembered
  <2>1. CASE e = d
    BY <1>4, <1>6, <1>8, <2>1
  <2>2. CASE e # d
    <3>1. Marked(e) /\ gateCall'[e] = gateCall[e]
      BY <1>6, <1>7, <2>2
    <3> QED
      BY <1>1, <1>9, <3>1 DEF Remembered
  <2> QED
    BY <2>1, <2>2
<1>13. ASSUME NEW e \in Deliveries, e # d, Marked(e), ~seen, gateCall[e].request = q,
              gateCall[e].deadline = gateCall[d].deadline
       PROVE  clock > gateCall[d].deadline
  <2>1. CASE q \in DOMAIN store /\ store[q] = gateCall[e].deadline
    BY <1>1, <1>3, <1>13, <2>1 DEF GateTypes
  <2>2. CASE clock > gateCall[e].deadline
    BY <1>13, <2>2
  <2> QED
    BY <1>13, <2>1, <2>2 DEF Remembered
<1>14. SecondTooLate'
  <2> SUFFICES ASSUME NEW e \in Deliveries, NEW f \in Deliveries, e # f,
                      Marked(e)', Marked(f)', gateCall'[e].request = gateCall'[f].request,
                      gateCall'[e].deadline = gateCall'[f].deadline
               PROVE  /\ clock' > gateCall'[e].deadline
                      /\ ~(gateCall'[e].state = "ran" /\ gateCall'[f].state = "ran")
    BY DEF SecondTooLate
  <2>1. CASE e # d /\ f # d
    <3>1. Marked(e) /\ Marked(f) /\ gateCall'[e] = gateCall[e] /\ gateCall'[f] = gateCall[f]
      BY <1>6, <1>7, <2>1
    <3> QED
      BY <1>1, <3>1 DEF SecondTooLate
  <2>2. CASE e = d
    BY <1>1, <1>6, <1>7, <1>8, <1>13, <2>2
  <2>3. CASE f = d
    BY <1>1, <1>6, <1>7, <1>8, <1>13, <2>3
  <2> QED
    BY <2>1, <2>2, <2>3
<1> QED
    BY <1>11, <1>12, <1>14

LEMMA GateDispatch ==
    ASSUME GateInv, NEW d \in Deliveries, Gate!Dispatch(d) PROVE GateInv'
<1> USE DEF GateInv
<1>1. UNCHANGED <<clock, offset, store>> /\ gateCall[d].state = "marked"
    BY DEF Gate!Dispatch
<1>2. gateCall' = [gateCall EXCEPT ![d].state =
                      IF Gate!Valid(gateCall[d]) THEN "ran" ELSE "expired"]
    BY DEF Gate!Dispatch
<1>3. /\ gateCall' \in [Deliveries -> Handlers]
      /\ gateCall'[d].state \in {"ran", "expired"}
      /\ gateCall'[d].state = "ran" => clock < gateCall[d].deadline
      /\ gateCall'[d].request = gateCall[d].request
      /\ gateCall'[d].deadline = gateCall[d].deadline
      /\ \A e \in Deliveries : e # d => gateCall'[e] = gateCall[e]
  <2>1. gateCall[d] \in Handlers
    BY DEF GateTypes
  <2> QED
    BY <1>2, <2>1 DEF GateTypes, Handlers, Verdicts, Gate!Valid
<1>4. \A e \in Deliveries :
        /\ Marked(e)' <=> Marked(e)
        /\ gateCall'[e].request = gateCall[e].request
        /\ gateCall'[e].deadline = gateCall[e].deadline
        /\ gateCall'[e].state = "verified" => gateCall[e].state = "verified"
        /\ gateCall'[e].state = "ran" => gateCall[e].state = "ran" \/ clock < gateCall[e].deadline
    BY <1>1, <1>3 DEF Marked
<1>5. GateTypes'
    BY <1>1, <1>3, <1>4 DEF GateTypes
<1>6. Remembered'
    BY <1>1, <1>4 DEF Remembered
<1>7. \A e \in Deliveries : gateCall[e].deadline \in Int /\ clock \in Int
    BY DEF GateTypes, Handlers
<1>8. SecondTooLate'
  <2> SUFFICES ASSUME NEW e \in Deliveries, NEW f \in Deliveries, e # f,
                      Marked(e), Marked(f), gateCall[e].request = gateCall[f].request,
                      gateCall[e].deadline = gateCall[f].deadline
               PROVE  /\ clock > gateCall[e].deadline
                      /\ ~(gateCall'[e].state = "ran" /\ gateCall'[f].state = "ran")
    BY <1>1, <1>4 DEF SecondTooLate
  <2>1. clock > gateCall[e].deadline /\ ~(gateCall[e].state = "ran" /\ gateCall[f].state = "ran")
    BY DEF SecondTooLate
  <2> QED
    BY <1>4, <1>7, <2>1
<1> QED
    BY <1>5, <1>6, <1>8

LEMMA GateStep == GateInv /\ Gate!Next => GateInv'
<1> SUFFICES ASSUME GateInv, Gate!Next PROVE GateInv'
    OBVIOUS
<1>1. CASE Gate!Tick \/ Gate!SyncClock
  <2>1. UNCHANGED <<store, gateCall>> /\ clock' \in Int /\ clock' >= clock /\ offset' \in Int
    BY <1>1, ServicesAssumption
       DEF Gate!Parameters, Gate!Tick, Gate!SyncClock, GateInv, GateTypes
  <2>2. \A d \in Deliveries : gateCall[d].deadline \in Int /\ clock \in Int
    BY DEF GateInv, GateTypes, Handlers
  <2>3. \A d \in Deliveries : Marked(d)' <=> Marked(d)
    BY <2>1 DEF Marked
  <2> QED
    BY <2>1, <2>2, <2>3 DEF GateInv, GateTypes, Remembered, SecondTooLate
<1> QED
    BY <1>1, GateReceive, GateMark, GateDispatch DEF Gate!Next

LEMMA GateInvariance == BundleSpec => []GateSafe
<1>1. BundleInit => GateSafe
    BY GateInit DEF BundleInit, GateSafe
<1>2. GateSafe /\ [BundleNext]_bundleVars => GateSafe'
  <2> SUFFICES ASSUME GateSafe, [BundleNext]_bundleVars, part' = "gate" PROVE GateInv'
    BY DEF GateSafe
  <2>1. GateInv /\ (Gate!Next \/ UNCHANGED gateVars)
    BY DEF GateSafe, BundleNext, bundleVars
  <2>2. CASE UNCHANGED gateVars
    BY <2>1, <2>2 DEF gateVars, GateInv, GateTypes, Remembered, SecondTooLate, Marked
  <2> QED
    BY <2>1, <2>2, GateStep
<1> QED
    BY <1>1, <1>2, PTL DEF BundleSpec, bundleVars

\* replayCache.checkAndMark forgets a nonce only when the deadline that the nonce
\* was kept for is over: a request that is delivered twice, or many times, runs
\* once, unless a calibration has moved its deadline between two deliveries.
THEOREM RequestsRunOnce == BundleSpec => []OnceUnlessRecalibrated
<1>1. GateSafe => OnceUnlessRecalibrated
  <2> SUFFICES ASSUME GateInv PROVE Gate!OnceUnlessRecalibrated
    BY DEF GateSafe, OnceUnlessRecalibrated
  <2> QED
    BY DEF GateInv, SecondTooLate, Marked, Gate!OnceUnlessRecalibrated
<1> QED
    BY <1>1, GateInvariance, PTL

-----------------------------------------------------------------------------
(* The permissions of the device.                                          *)
(*                                                                         *)
(* Sequences without one element.  Every set of natural numbers has a least *)
(* element, which stands for induction on the length.                       *)

Smaller == {p \in Nat \X Nat : p[1] < p[2]}

LEMMA Least ==
    ASSUME NEW T \in SUBSET Nat, T # {}
    PROVE  \E n \in T : \A m \in T : n <= m
<1>1. IsWellFoundedOn(Smaller, Nat)
    BY NatLessThanWellFounded DEF OpToRel, Smaller
<1>2. PICK n \in T : \A m \in T : ~(<<m, n>> \in Smaller)
    BY <1>1, WFMin
<1>3. ASSUME NEW m \in T PROVE n <= m
    <2>1. m \in Nat /\ n \in Nat /\ (<<m, n>> \in Smaller <=> m < n)
        BY DEF Smaller
    <2> QED
        BY <1>2, <2>1
<1> QED
    BY <1>3

\* The steps of Without on s, up to the one numbered n.
Steps(s, x, n, f) ==
    f = [i \in 0..n |-> IF i = 0 THEN << >>
                        ELSE IF s[i] = x THEN f[i - 1] ELSE Append(f[i - 1], s[i])]

LEMMA StepsExist ==
    ASSUME NEW s, NEW x, NEW n \in Nat
    PROVE  \E f : Steps(s, x, n, f)
<1> DEFINE T == {m \in Nat : ~\E f : Steps(s, x, m, f)}
<1> SUFFICES ASSUME T # {} PROVE FALSE
    OBVIOUS
<1>1. PICK m \in T : \A k \in T : m <= k
    BY Least
<1>2. CASE m = 0
    <2>1. Steps(s, x, 0, [i \in 0..0 |-> << >>])
        BY DEF Steps
    <2> QED
        BY <1>1, <1>2, <2>1
<1>3. CASE m # 0
    <2>1. m \in Nat /\ m - 1 \in Nat /\ m - 1 \notin T
        BY <1>1, <1>3
    <2>2. PICK f : Steps(s, x, m - 1, f)
        BY <2>1
    <2> DEFINE g == [i \in 0..m |-> IF i < m THEN f[i]
                                    ELSE IF s[m] = x THEN f[m - 1] ELSE Append(f[m - 1], s[m])]
    <2>3. ASSUME NEW i \in 0..m
          PROVE  g[i] = IF i = 0 THEN << >> ELSE IF s[i] = x THEN g[i - 1] ELSE Append(g[i - 1], s[i])
        <3>1. CASE i = m
            BY <2>1, <3>1, <1>3
        <3>2. CASE i < m
            <4>1. i \in 0..(m - 1)
                BY <2>1, <3>2
            <4>2. f[i] = IF i = 0 THEN << >> ELSE IF s[i] = x THEN f[i - 1] ELSE Append(f[i - 1], s[i])
                BY <2>2, <4>1 DEF Steps
            <4>3. g[i] = f[i] /\ (i # 0 => g[i - 1] = f[i - 1])
                BY <2>1, <3>2, <4>1
            <4> QED
                BY <4>2, <4>3
        <3> QED
            BY <2>1, <3>1, <3>2
    <2>4. Steps(s, x, m, g)
        BY <2>3 DEF Steps
    <2> QED
        BY <1>1, <2>4
<1> QED
    BY <1>2, <1>3

\* The first row of a table that names t allows it.
Leads(rows, t) ==
    \E i \in 1..Len(rows) : rows[i] = Perm!AllowRow(t) /\ \A j \in 1..(i - 1) : rows[j].target # t

LEMMA WithoutSteps ==
    ASSUME NEW S, NEW s \in Seq(S), NEW x
    PROVE  \E f : Steps(s, x, Len(s), f) /\ Perm!Without(s, x) = f[Len(s)]
<1>1. \E f : Steps(s, x, Len(s), f)
    BY StepsExist, LenProperties
<1> DEFINE f == CHOOSE f : Steps(s, x, Len(s), f)
<1>2. Steps(s, x, Len(s), f)
    BY <1>1
<1>3. Perm!Without(s, x) = f[Len(s)]
    BY DEF Perm!Without, Steps
<1> QED
    BY <1>2, <1>3
\* What is left of the first m rows: their order is kept, so a row that leads
\* still leads.
Left(s, x, m, w) ==
    /\ \A i \in 1..m : s[i] # x => \E j \in 1..Len(w) : w[j] = s[i]
    /\ \A j \in 1..Len(w) : \E i \in 1..m : w[j] = s[i]
    /\ \A t : \A i \in 1..m :
         s[i] = Perm!AllowRow(t) /\ s[i] # x /\ (\A j \in 1..(i - 1) : s[j].target # t) => Leads(w, t)

LEMMA LeftMore ==
    ASSUME NEW S, NEW s \in Seq(S), NEW x, NEW m \in 1..Len(s), NEW w \in Seq(S), Left(s, x, m - 1, w)
    PROVE  \/ s[m] = x /\ Left(s, x, m, w)
           \/ s[m] # x /\ Append(w, s[m]) \in Seq(S) /\ Left(s, x, m, Append(w, s[m]))
<1>1. /\ m \in Nat /\ m - 1 \in Nat /\ s[m] \in S
      /\ \A i \in 1..m : i = m \/ i \in 1..(m - 1)
      /\ 1..(m - 1) \subseteq 1..m
    BY LenProperties, ElementOfSeq
<1>2. CASE s[m] = x
    BY <1>1, <1>2 DEF Left
<1>3. CASE s[m] # x
    <2> DEFINE v == Append(w, s[m])
    <2>1. /\ v \in Seq(S) /\ Len(v) = Len(w) + 1 /\ Len(w) \in Nat
          /\ \A j \in 1..Len(w) : v[j] = w[j]
          /\ v[Len(w) + 1] = s[m]
        BY <1>1, AppendProperties, LenProperties
    <2>2. \A j \in 1..Len(v) : j = Len(w) + 1 \/ j \in 1..Len(w)
        BY <2>1
    <2>3. 1..Len(w) \subseteq 1..Len(v) /\ Len(w) + 1 \in 1..Len(v)
        BY <2>1
    <2> HIDE DEF v
    <2>4. ASSUME NEW i \in 1..m, s[i] # x PROVE \E j \in 1..Len(v) : v[j] = s[i]
        <3>1. CASE i = m
            BY <2>1, <2>3, <3>1
        <3>2. CASE i \in 1..(m - 1)
            <4>1. PICK j \in 1..Len(w) : w[j] = s[i]
                BY <2>4, <3>2 DEF Left
            <4> QED
                BY <2>1, <2>3, <4>1
        <3> QED
            BY <1>1, <3>1, <3>2
    <2>5. ASSUME NEW j \in 1..Len(v) PROVE \E i \in 1..m : v[j] = s[i]
        <3>1. CASE j = Len(w) + 1
            <4>1. m \in 1..m /\ v[j] = s[m]
                BY <1>1, <2>1, <3>1
            <4> QED
                BY <4>1
        <3>2. CASE j \in 1..Len(w)
            <4>1. PICK i \in 1..(m - 1) : w[j] = s[i]
                BY <3>2 DEF Left
            <4>2. i \in 1..m /\ v[j] = w[j]
                BY <1>1, <2>1, <3>2
            <4> QED
                BY <4>1, <4>2
        <3> QED
            BY <2>2, <3>1, <3>2
    <2>6. ASSUME NEW t, NEW i \in 1..m, s[i] = Perm!AllowRow(t), s[i] # x,
                 \A j \in 1..(i - 1) : s[j].target # t
          PROVE  Leads(v, t)
        <3>1. CASE i = m
            <4>1. \A j \in 1..Len(w) : v[j].target # t
                BY <2>1, <2>6, <3>1 DEF Left
            <4>2. Len(w) + 1 \in 1..Len(v) /\ (Len(w) + 1) - 1 = Len(w)
                BY <2>1
            <4> QED
                BY <2>1, <2>6, <3>1, <4>1, <4>2 DEF Leads
        <3>2. CASE i \in 1..(m - 1)
            <4>1. Leads(w, t)
                BY <2>6, <3>2 DEF Left
            <4>2. PICK k \in 1..Len(w) : w[k] = Perm!AllowRow(t) /\ \A j \in 1..(k - 1) : w[j].target # t
                BY <4>1 DEF Leads
            <4>3. k \in 1..Len(v) /\ 1..(k - 1) \subseteq 1..Len(w)
                BY <2>1
            <4> QED
                BY <2>1, <4>2, <4>3 DEF Leads
        <3> QED
            BY <1>1, <3>1, <3>2
    <2>7. Left(s, x, m, v)
        BY <2>4, <2>5, <2>6 DEF Left
    <2> QED
        BY <1>3, <2>1, <2>7 DEF v
<1> QED
    BY <1>2, <1>3

LEMMA WithoutKeeps ==
    ASSUME NEW S, NEW s \in Seq(S), NEW x
    PROVE  Perm!Without(s, x) \in Seq(S) /\ Left(s, x, Len(s), Perm!Without(s, x))
<1>1. PICK f : Steps(s, x, Len(s), f) /\ Perm!Without(s, x) = f[Len(s)]
    BY WithoutSteps
<1>2. Len(s) \in Nat
    BY LenProperties
<1> DEFINE T == {m \in 0..Len(s) : ~(f[m] \in Seq(S) /\ Left(s, x, m, f[m]))}
<1> SUFFICES ASSUME T # {} PROVE FALSE
    BY <1>1, <1>2
<1>3. T \in SUBSET Nat
    BY <1>2
<1>4. PICK m \in T : \A k \in T : m <= k
    BY <1>3, Least
<1>5. m \in 0..Len(s)
    OBVIOUS
<1>6. CASE m = 0
    <2>1. f[0] = << >>
        BY <1>1, <1>2, <1>5 DEF Steps
    <2>2. << >> \in Seq(S) /\ Len(<< >>) = 0
        BY EmptySeq
    <2>3. Left(s, x, 0, << >>)
        BY <2>2 DEF Left
    <2> QED
        BY <1>4, <1>6, <2>1, <2>2, <2>3
<1>7. CASE m # 0
    <2>1. m \in 1..Len(s) /\ m - 1 \in 0..Len(s) /\ m - 1 \in Nat /\ m \in Nat /\ ~(m <= m - 1)
        BY <1>2, <1>5, <1>7
    <2>2. f[m - 1] \in Seq(S) /\ Left(s, x, m - 1, f[m - 1])
        BY <1>4, <2>1
    <2>3. f[m] = IF s[m] = x THEN f[m - 1] ELSE Append(f[m - 1], s[m])
        BY <1>1, <1>5, <1>7 DEF Steps
    <2>4. f[m] \in Seq(S) /\ Left(s, x, m, f[m])
        BY <2>1, <2>2, <2>3, LeftMore
    <2> QED
        BY <1>4, <2>4
<1> QED
    BY <1>6, <1>7

LEMMA MovedFront ==
    ASSUME NEW config \in [Domains -> Perm!Tables], NEW d \in Domains, NEW r \in Targets
    PROVE  LET next == Perm!Moved(config, d, Perm!AllowRow(r))
           IN  /\ next \in [Domains -> Perm!Tables]
               /\ \A e \in Domains : next[e].valid = config[e].valid
               /\ Leads(next[d].rows, r)
               /\ \A e \in Domains, t \in Targets : Leads(config[e].rows, t) => Leads(next[e].rows, t)
<1> DEFINE S == [effect : {"allow", "deny"}, target : Targets]
           a == Perm!AllowRow(r)
           rest == Perm!Without(config[d].rows, a)
           rows == <<a>> \o rest
           next == Perm!Moved(config, d, a)
<1>1. a \in S /\ a.target = r /\ \A t : Perm!AllowRow(t).target = t
    BY DEF Perm!AllowRow, Perm!Row
<1>2. config[d].rows \in Seq(S)
    BY DEF Perm!Tables
<1>3. rest \in Seq(S) /\ Left(config[d].rows, a, Len(config[d].rows), rest)
    BY <1>2, WithoutKeeps
<1>4. /\ rows \in Seq(S) /\ Len(rows) = 1 + Len(rest) /\ Len(rest) \in Nat
      /\ rows[1] = a /\ \A i \in 1..Len(rest) : rows[i + 1] = rest[i]
    BY <1>1, <1>3
<1>5. next = [config EXCEPT ![d].rows = rows]
    BY DEF Perm!Moved
<1>6. /\ next \in [Domains -> Perm!Tables] /\ next[d].rows = rows
      /\ \A e \in Domains : next[e].valid = config[e].valid
      /\ \A e \in Domains \ {d} : next[e] = config[e]
    <2>1. rows \in Seq(S) /\ next = [config EXCEPT ![d].rows = rows]
        BY <1>4, <1>5
    <2> HIDE DEF rows, next, rest, a
    <2>2. config[d] \in Perm!Tables
        OBVIOUS
    <2>3. /\ [config[d] EXCEPT !.rows = rows] \in Perm!Tables
          /\ [config[d] EXCEPT !.rows = rows].rows = rows
          /\ [config[d] EXCEPT !.rows = rows].valid = config[d].valid
        BY <2>1, <2>2 DEF Perm!Tables
    <2>4. next[d] = [config[d] EXCEPT !.rows = rows] /\ \A e \in Domains \ {d} : next[e] = config[e]
        BY <2>1
    <2>5. DOMAIN next = Domains /\ next = [e \in Domains |-> next[e]]
        BY <2>1
    <2> HIDE DEF S
    <2> QED
        BY <2>3, <2>4, <2>5
<1>7. Leads(rows, r)
    BY <1>1, <1>4 DEF Leads
<1>8. ASSUME NEW t \in Targets, Leads(config[d].rows, t), t # r PROVE Leads(rows, t)
    <2>1. PICK i \in 1..Len(config[d].rows) : /\ config[d].rows[i] = Perm!AllowRow(t)
                                              /\ \A j \in 1..(i - 1) : config[d].rows[j].target # t
        BY <1>8 DEF Leads
    <2>2. Perm!AllowRow(t) # a
        BY <1>1, <1>8
    <2>3. Leads(rest, t)
        BY <1>3, <2>1, <2>2 DEF Left
    <2>4. PICK k \in 1..Len(rest) : /\ rest[k] = Perm!AllowRow(t)
                                    /\ \A j \in 1..(k - 1) : rest[j].target # t
        BY <2>3 DEF Leads
    <2>5. k + 1 \in 1..Len(rows) /\ rows[k + 1] = Perm!AllowRow(t)
        BY <1>4, <2>4
    <2>6. ASSUME NEW j \in 1..((k + 1) - 1) PROVE rows[j].target # t
        <3>1. CASE j = 1
            BY <1>1, <1>4, <1>8, <3>1
        <3>2. CASE j # 1
            <4>1. j - 1 \in 1..(k - 1) /\ j - 1 \in 1..Len(rest) /\ (j - 1) + 1 = j
                BY <1>4, <3>2
            <4> QED
                BY <1>4, <2>4, <4>1
        <3> QED
            BY <3>1, <3>2
    <2> QED
        BY <2>5, <2>6 DEF Leads
<1> HIDE DEF next, rows, rest
<1> QED
    BY <1>6, <1>7, <1>8 DEF next

-----------------------------------------------------------------------------
(* The permissions.  One permanent grant at a time is between the file and  *)
(* its publication, and what was granted leads the rows that name it.       *)

PermTypes ==
    /\ base \in [Domains -> Perm!Tables] /\ file \in [Domains -> Perm!Tables]
    /\ granted \in [Sessions -> [Domains -> Seq(Targets)]]
    /\ step \in [Grants -> {"idle", "compiled", "saved", "refused", "granted"}]
    /\ draft \in [Grants -> [Domains -> Perm!Tables]]
    /\ owner \in [Domains -> Perm!Tables] \cup {Free}

\* The holder of the lock, and the grants of the sessions.
PermTurns ==
    \A g \in Grants :
        /\ step[g] \in {"compiled", "saved"} => update = g /\ g.permanent
        /\ step[g] = "granted" /\ ~g.permanent =>
             \E i \in 1..Len(granted[g.session][g.domain]) : granted[g.session][g.domain][i] = g.target

\* As long as the owner leaves the file alone, every permanent grant leads in the
\* file, in the running table, and in what is about to become either.
Undisturbed == pending = {} /\ owner = Free
Kept(g) ==
    /\ step[g] = "granted" => /\ Leads(file[g.domain].rows, g.target)
                              /\ base[g.domain].valid => Leads(base[g.domain].rows, g.target)
    /\ step[g] = "saved" => file = draft[g]
    /\ \A h \in Grants : step[h] \in {"compiled", "saved"} /\ (step[g] = "granted" \/ g = h) =>
         Leads(draft[h][g.domain].rows, g.target)
PermKept == Undisturbed => \A g \in Grants : g.permanent => Kept(g)

PermInv == PermTypes /\ PermTurns /\ PermKept
PermSafe == part = "perm" => PermInv

LEMMA CompiledTables ==
    ASSUME NEW config \in [Domains -> Perm!Tables]
    PROVE  /\ Perm!CompileAuth(config) \in [Domains -> Perm!Tables]
           /\ \A d \in Domains : Perm!CompileAuth(config)[d].valid =>
                Perm!CompileAuth(config)[d].rows = config[d].rows
<1>1. ASSUME NEW d \in Domains PROVE Perm!CompileAuth(config)[d] \in Perm!Tables
    <2>1. << >> \in Seq([effect : {"allow", "deny"}, target : Targets])
        BY EmptySeq
    <2> QED
        BY <2>1 DEF Perm!CompileAuth, Perm!Tables
<1> QED
    BY <1>1 DEF Perm!CompileAuth

LEMMA PermInit == Perm!Init => PermInv
<1> SUFFICES ASSUME Perm!Init PROVE PermInv
    OBVIOUS
<1> USE ServicesAssumption DEF Perm!Parameters
<1>1. Perm!AuthFrom(FirstFile) \in [Domains -> Perm!Tables]
    BY DEF Perm!AuthFrom
<1>2. base \in [Domains -> Perm!Tables]
    BY <1>1, CompiledTables DEF Perm!Init
<1>3. PermTypes
    BY <1>2, EmptySeq DEF PermTypes, Perm!Init
<1>4. PermTurns /\ PermKept
    BY DEF Perm!Init, PermTurns, PermKept, Kept
<1> QED
    BY <1>3, <1>4 DEF PermInv

LEMMA PermGrantSession ==
    ASSUME PermInv, NEW g \in Grants, Perm!GrantSession(g) PROVE PermInv'
<1> USE ServicesAssumption DEF Perm!Parameters
<1> DEFINE s == g.session
           d == g.domain
           old == granted[s][d]
           new == IF d = "exec" /\ g.target \in Perm!Range(old) THEN old
                  ELSE IF d = "exec" THEN Append(old, g.target)
                  ELSE <<g.target>> \o Perm!Without(old, g.target)
<1>1. /\ granted' = [granted EXCEPT ![s][d] = new]
      /\ step' = [step EXCEPT ![g] = "granted"]
      /\ ~g.permanent /\ step[g] = "idle"
      /\ UNCHANGED <<base, file, update, draft, owner, pending>>
    BY DEF Perm!GrantSession
<1>2. old \in Seq(Targets) /\ g.target \in Targets /\ s \in Sessions /\ d \in Domains
    BY DEF PermInv, PermTypes
<1>3. /\ new \in Seq(Targets)
      /\ \E i \in 1..Len(new) : new[i] = g.target
      /\ \A i \in 1..Len(old) : \E j \in 1..Len(new) : new[j] = old[i]
    <2>1. CASE d = "exec" /\ g.target \in Perm!Range(old)
        BY <1>2, <2>1, LenProperties DEF Perm!Range
    <2>2. CASE d = "exec" /\ g.target \notin Perm!Range(old)
        <3>1. /\ new = Append(old, g.target) /\ new \in Seq(Targets)
              /\ Len(new) = Len(old) + 1 /\ Len(old) \in Nat
              /\ \A i \in 1..Len(old) : new[i] = old[i]
              /\ new[Len(old) + 1] = g.target
            BY <1>2, <2>2, AppendProperties, LenProperties
        <3> HIDE DEF new, old
        <3> QED
            BY <3>1
    <2>3. CASE d # "exec"
        <3> DEFINE w == Perm!Without(old, g.target)
        <3>1. w \in Seq(Targets) /\ Left(old, g.target, Len(old), w)
            BY <1>2, WithoutKeeps
        <3>2. /\ new = <<g.target>> \o w /\ new \in Seq(Targets)
              /\ Len(new) = Len(w) + 1 /\ Len(w) \in Nat
              /\ new[1] = g.target /\ \A i \in 1..Len(w) : new[i + 1] = w[i]
            <4>1. new = <<g.target>> \o w
                BY <1>2, <2>3
            <4>2. g.target \in Targets
                BY <1>2
            <4> HIDE DEF new, w
            <4> QED
                BY <3>1, <4>1, <4>2
        <3> HIDE DEF new, old, w
        <3>3. ASSUME NEW i \in 1..Len(old) PROVE \E j \in 1..Len(new) : new[j] = old[i]
            <4>1. CASE old[i] = g.target
                BY <3>2, <4>1
            <4>2. CASE old[i] # g.target
                <5>1. PICK j \in 1..Len(w) : w[j] = old[i]
                    BY <3>1, <4>2 DEF Left
                <5>2. j + 1 \in 1..Len(new) /\ new[j + 1] = old[i]
                    BY <3>2, <5>1
                <5> QED
                    BY <5>2
            <4> QED
                BY <4>1, <4>2
        <3> QED
            BY <3>2, <3>3
    <2> QED
        BY <2>1, <2>2, <2>3
<1> HIDE DEF new
<1>4. PermTypes'
    BY <1>1, <1>2, <1>3 DEF PermInv, PermTypes
<1>5. PermTurns'
    <2> SUFFICES ASSUME NEW h \in Grants
                 PROVE  /\ step'[h] \in {"compiled", "saved"} => update' = h /\ h.permanent
                        /\ step'[h] = "granted" /\ ~h.permanent =>
                             \E i \in 1..Len(granted'[h.session][h.domain]) : granted'[h.session][h.domain][i] = h.target
        BY DEF PermTurns
    <2>1. h # g => step'[h] = step[h]
        BY <1>1 DEF PermInv, PermTypes
    <2>2. step'[g] = "granted"
        BY <1>1 DEF PermInv, PermTypes
    <2>3. step'[h] \in {"compiled", "saved"} => update' = h /\ h.permanent
        BY <1>1, <2>1, <2>2 DEF PermInv, PermTurns
    <2>4. /\ granted'[s][d] = new
          /\ h.session # s \/ h.domain # d => granted'[h.session][h.domain] = granted[h.session][h.domain]
        BY <1>1, <1>2 DEF PermInv, PermTypes
    <2>5. h # g /\ step[h] = "granted" /\ ~h.permanent =>
             \E i \in 1..Len(granted[h.session][h.domain]) : granted[h.session][h.domain][i] = h.target
        BY DEF PermInv, PermTurns
    <2>6. step'[h] = "granted" /\ ~h.permanent =>
             \E i \in 1..Len(granted'[h.session][h.domain]) : granted'[h.session][h.domain][i] = h.target
        <3>1. CASE h = g
            BY <1>3, <2>4, <3>1
        <3>2. CASE h # g /\ (h.session # s \/ h.domain # d)
            BY <2>1, <2>4, <2>5, <3>2
        <3>3. CASE h # g /\ h.session = s /\ h.domain = d
            BY <1>3, <2>1, <2>4, <2>5, <3>3
        <3> QED
            BY <3>1, <3>2, <3>3
    <2> QED
        BY <2>3, <2>6
<1>6. PermKept'
    <2>1. \A h \in Grants : h.permanent => step'[h] = step[h]
        BY <1>1 DEF PermInv, PermTypes
    <2>2. \A h \in Grants : step'[h] \in {"compiled", "saved"} => step[h] = step'[h]
        BY <1>1 DEF PermInv, PermTypes
    <2> QED
        BY <1>1, <2>1, <2>2 DEF PermInv, PermKept, Kept, Undisturbed
<1> QED
    BY <1>4, <1>5, <1>6 DEF PermInv

LEMMA PermLoadFile ==
    ASSUME PermInv, NEW g \in Grants, Perm!LoadFile(g) PROVE PermInv'
<1> USE ServicesAssumption DEF Perm!Parameters
<1> DEFINE next == Perm!Moved(file, g.domain, Perm!AllowRow(g.target))
<1>1. /\ next \in [Domains -> Perm!Tables] /\ Leads(next[g.domain].rows, g.target)
      /\ \A e \in Domains, t \in Targets : Leads(file[e].rows, t) => Leads(next[e].rows, t)
    BY MovedFront DEF PermInv, PermTypes
<1>2. /\ step[g] = "idle" /\ g.permanent /\ update = Free
      /\ UNCHANGED <<base, granted, file, owner, pending>>
      /\ \/ update' = g /\ step' = [step EXCEPT ![g] = "compiled"] /\ draft' = [draft EXCEPT ![g] = next]
         \/ update' = update /\ step' = [step EXCEPT ![g] = "refused"] /\ draft' = draft
    BY DEF Perm!LoadFile, Perm!MayUpdate
<1> HIDE DEF next
<1>3. PermTypes'
    <2>1. step' \in [Grants -> {"idle", "compiled", "saved", "refused", "granted"}]
        BY <1>2 DEF PermInv, PermTypes
    <2>2. draft' \in [Grants -> [Domains -> Perm!Tables]]
        BY <1>1, <1>2 DEF PermInv, PermTypes
    <2> QED
        BY <1>2, <2>1, <2>2 DEF PermInv, PermTypes
<1>4. \A h \in Grants : step[h] \notin {"compiled", "saved"}
    BY <1>2 DEF PermInv, PermTurns
<1>5. PermTurns'
    BY <1>2, <1>4 DEF PermInv, PermTypes, PermTurns
<1>6. PermKept'
    <2>1. CASE draft' = draft /\ step' = [step EXCEPT ![g] = "refused"]
        BY <1>2, <1>4, <2>1 DEF PermInv, PermTypes, PermKept, Kept, Undisturbed
    <2>2. CASE step' = [step EXCEPT ![g] = "compiled"] /\ draft' = [draft EXCEPT ![g] = next]
        <3> SUFFICES ASSUME Undisturbed, NEW h \in Grants, h.permanent PROVE Kept(h)'
            BY <1>2 DEF PermKept, Undisturbed
        <3>1. Kept(h)
            BY DEF PermInv, PermKept
        <3>2. /\ step'[g] = "compiled" /\ draft'[g] = next
              /\ \A k \in Grants : k # g => step'[k] = step[k]
            BY <2>2 DEF PermInv, PermTypes
        <3>3. step'[h] = "granted" => step[h] = "granted" /\ Leads(file[h.domain].rows, h.target)
            BY <3>1, <3>2 DEF Kept
        <3>4. ASSUME NEW k \in Grants, step'[k] \in {"compiled", "saved"}, step'[h] = "granted" \/ h = k
              PROVE  Leads(draft'[k][h.domain].rows, h.target)
            <4>1. k = g
                BY <1>4, <3>2, <3>4
            <4> QED
                BY <1>1, <3>2, <3>3, <3>4, <4>1
        <3>5. step'[h] # "saved"
            BY <1>4, <3>2
        <3> QED
            BY <1>2, <3>1, <3>3, <3>4, <3>5 DEF Kept
    <2> QED
        BY <1>2, <2>1, <2>2
<1> QED
    BY <1>3, <1>5, <1>6 DEF PermInv

LEMMA PermSave ==
    ASSUME PermInv, NEW g \in Grants, Perm!Save(g) PROVE PermInv'
<1>1. /\ step[g] = "compiled" /\ file' \in {file, draft[g]}
      /\ UNCHANGED <<base, granted, draft, owner, pending>>
      /\ \/ file' = draft[g] /\ step' = [step EXCEPT ![g] = "saved"] /\ update' = update
         \/ step' = [step EXCEPT ![g] = "refused"]
    BY DEF Perm!Save
<1>2. /\ update = g /\ g.permanent
      /\ \A h \in Grants : h # g => step[h] \notin {"compiled", "saved"}
    BY <1>1 DEF PermInv, PermTurns
<1>3. /\ step'[g] \in {"saved", "refused"} /\ \A h \in Grants : h # g => step'[h] = step[h]
      /\ step'[g] = "saved" => file' = draft[g] /\ update' = update
    BY <1>1 DEF PermInv, PermTypes
<1>4. PermTypes'
    <2>1. draft[g] \in [Domains -> Perm!Tables]
        BY DEF PermInv, PermTypes
    <2> QED
        BY <1>1, <2>1 DEF PermInv, PermTypes
<1>5. PermTurns'
    BY <1>1, <1>2, <1>3 DEF PermInv, PermTurns
<1>6. PermKept'
    <2> SUFFICES ASSUME Undisturbed, NEW h \in Grants, h.permanent PROVE Kept(h)'
        BY <1>1 DEF PermKept, Undisturbed
    <2>1. Kept(h)
        BY DEF PermInv, PermKept
    <2>2. step'[h] = "granted" => step[h] = "granted"
        BY <1>3
    <2>3. step[h] = "granted" => Leads(draft[g][h.domain].rows, h.target)
        BY <1>1, <2>1 DEF Kept
    <2>4. step'[h] = "granted" => Leads(file'[h.domain].rows, h.target)
        BY <1>1, <2>1, <2>2, <2>3 DEF Kept
    <2>5. step'[h] = "saved" => file' = draft'[h]
        BY <1>1, <1>2, <1>3
    <2>6. ASSUME NEW k \in Grants, step'[k] \in {"compiled", "saved"}, step'[h] = "granted" \/ h = k
          PROVE  Leads(draft'[k][h.domain].rows, h.target)
        <3>1. k = g
            BY <1>2, <1>3, <2>6
        <3> QED
            BY <1>1, <2>1, <2>2, <2>6, <3>1 DEF Kept
    <2> QED
        BY <1>1, <2>1, <2>2, <2>4, <2>5, <2>6 DEF Kept
<1> QED
    BY <1>4, <1>5, <1>6 DEF PermInv

LEMMA PermPublish ==
    ASSUME PermInv, NEW g \in Grants, Perm!Publish(g) PROVE PermInv'
<1> USE ServicesAssumption DEF Perm!Parameters
<1>1. /\ step[g] = "saved" /\ base' = Perm!CompileAuth(draft[g])
      /\ step' = [step EXCEPT ![g] = "granted"]
      /\ UNCHANGED <<granted, file, draft, owner, pending>>
    BY DEF Perm!Publish
<1>2. /\ update = g /\ g.permanent
      /\ \A h \in Grants : h # g => step[h] \notin {"compiled", "saved"}
    BY <1>1 DEF PermInv, PermTurns
<1>3. step'[g] = "granted" /\ \A h \in Grants : h # g => step'[h] = step[h]
    BY <1>1 DEF PermInv, PermTypes
<1>4. /\ base' \in [Domains -> Perm!Tables]
      /\ \A d \in Domains : base'[d].valid => base'[d].rows = draft[g][d].rows
    BY <1>1, CompiledTables DEF PermInv, PermTypes
<1>5. PermTypes'
    BY <1>1, <1>4 DEF PermInv, PermTypes
<1>6. PermTurns'
    BY <1>1, <1>2, <1>3 DEF PermInv, PermTurns
<1>7. PermKept'
    <2> SUFFICES ASSUME Undisturbed, NEW h \in Grants, h.permanent PROVE Kept(h)'
        BY <1>1 DEF PermKept, Undisturbed
    <2>1. Kept(h) /\ Kept(g)
        BY <1>2 DEF PermInv, PermKept
    <2>2. step'[h] = "granted" => Leads(draft[g][h.domain].rows, h.target)
        BY <1>1, <1>3, <2>1 DEF Kept
    <2>3. step'[h] = "granted" => Leads(file[h.domain].rows, h.target)
        BY <1>1, <1>3, <2>1, <2>2 DEF Kept
    <2>4. base'[h.domain].valid /\ step'[h] = "granted" => Leads(base'[h.domain].rows, h.target)
        BY <1>4, <2>2
    <2>5. \A k \in Grants : step'[k] \notin {"compiled", "saved"}
        BY <1>2, <1>3
    <2> QED
        BY <1>1, <2>3, <2>4, <2>5 DEF Kept
<1> QED
    BY <1>5, <1>6, <1>7 DEF PermInv

LEMMA PermOwner ==
    ASSUME PermInv, Perm!OwnerLoads \/ Perm!OwnerSaves PROVE PermInv'
<1> USE ServicesAssumption DEF Perm!Parameters
<1>1. /\ UNCHANGED <<base, granted, update, step, draft>>
      /\ Undisturbed' => Undisturbed /\ file' = file
    BY DEF Undisturbed, Perm!OwnerLoads, Perm!OwnerSaves
<1>2. file' \in [Domains -> Perm!Tables] /\ owner' \in [Domains -> Perm!Tables] \cup {Free}
    <2>1. CASE Perm!OwnerLoads
        BY <2>1 DEF PermInv, PermTypes, Perm!OwnerLoads
    <2>2. CASE Perm!OwnerSaves
        <3>1. owner \in [Domains -> Perm!Tables] /\ owner' = Free
            BY <2>2 DEF PermInv, PermTypes, Perm!OwnerSaves
        <3>2. PICK d \in Domains, t \in OwnerTables : file' = [owner EXCEPT ![d] = t]
            BY <2>2 DEF Perm!OwnerSaves
        <3>3. t \in Perm!Tables
            OBVIOUS
        <3> QED
            BY <3>1, <3>2, <3>3
    <2> QED
        BY <2>1, <2>2
<1>3. PermTypes' /\ PermTurns'
    BY <1>1, <1>2 DEF PermInv, PermTypes, PermTurns
<1>4. PermKept'
    BY <1>1 DEF PermInv, PermKept, Kept
<1> QED
    BY <1>3, <1>4 DEF PermInv

LEMMA PermInvariance == BundleSpec => []PermSafe
<1>1. BundleInit => PermSafe
    BY PermInit DEF BundleInit, PermSafe
<1>2. PermSafe /\ [BundleNext]_bundleVars => PermSafe'
  <2> SUFFICES ASSUME PermSafe, [BundleNext]_bundleVars, part' = "perm" PROVE PermInv'
    BY DEF PermSafe
  <2>1. PermInv /\ (Perm!Next \/ UNCHANGED permVars)
    BY DEF PermSafe, BundleNext, bundleVars
  <2>2. CASE UNCHANGED permVars
    BY <2>1, <2>2 DEF permVars, PermInv, PermTypes, PermTurns, PermKept, Kept, Undisturbed
  <2> QED
    BY <2>1, <2>2, PermGrantSession, PermLoadFile, PermSave, PermPublish, PermOwner DEF Perm!Next
<1> QED
    BY <1>1, <1>2, PTL DEF BundleSpec, bundleVars

LEMMA LeadsAllows ==
    ASSUME NEW S, NEW rows \in Seq(S), NEW t, Leads(rows, t)
    PROVE  Perm!Names(rows, t) /\ Perm!FirstRow(rows, t) = "allow"
<1>1. PICK i \in 1..Len(rows) : rows[i] = Perm!AllowRow(t) /\ \A j \in 1..(i - 1) : rows[j].target # t
    BY DEF Leads
<1>2. i \in DOMAIN rows /\ DOMAIN rows = 1..Len(rows) /\ rows[i].target = t /\ rows[i].effect = "allow"
    BY <1>1, LenProperties DEF Perm!AllowRow, Perm!Row
<1> DEFINE Firsts == {k \in DOMAIN rows : rows[k].target = t /\ \A j \in 1..(k - 1) : rows[j].target # t}
<1>3. ASSUME NEW k \in DOMAIN rows, rows[k].target = t, \A j \in 1..(k - 1) : rows[j].target # t
      PROVE  k = i
    <2>1. k \in 1..Len(rows) /\ (k < i => k \in 1..(i - 1)) /\ (i < k => i \in 1..(k - 1))
        BY <1>2
    <2> QED
        BY <1>1, <1>2, <1>3, <2>1
<1>4. (CHOOSE k \in DOMAIN rows : rows[k].target = t /\ \A j \in 1..(k - 1) : rows[j].target # t) = i
    BY <1>1, <1>2, <1>3
<1> QED
    BY <1>2, <1>4 DEF Perm!Names, Perm!FirstRow

LEMMA SnapshotLeads ==
    ASSUME PermTypes, NEW s \in Sessions, NEW d \in Domains, NEW t \in Targets,
           (\E i \in 1..Len(granted[s][d]) : granted[s][d][i] = t) \/ Leads(base[d].rows, t)
    PROVE  /\ Leads(Perm!Snapshot(s, d), t)
           /\ Perm!Snapshot(s, d) \in Seq([effect : {"allow", "deny"}, target : Targets])
<1> DEFINE S == [effect : {"allow", "deny"}, target : Targets]
           own == granted[s][d]
           head == [i \in 1..Len(own) |-> Perm!AllowRow(own[i])]
           tail == base[d].rows
           rows == Perm!Snapshot(s, d)
           n == Len(own)
<1>1. own \in Seq(Targets) /\ n \in Nat /\ \A i \in 1..n : own[i] \in Targets
    BY LenProperties, ElementOfSeq DEF PermTypes
<1>2. head \in Seq(S) /\ Len(head) = n
    BY <1>1 DEF Perm!AllowRow, Perm!Row
<1>3. tail \in Seq(S) /\ Len(tail) \in Nat
    BY LenProperties DEF PermTypes, Perm!Tables
<1>4. /\ rows \in Seq(S) /\ Len(rows) = n + Len(tail)
      /\ \A i \in 1..n : rows[i] = Perm!AllowRow(own[i])
      /\ \A i \in 1..Len(tail) : rows[n + i] = tail[i]
    <2>1. rows = head \o tail
        BY DEF Perm!Snapshot
    <2>2. \A i \in 1..n : head[i] = Perm!AllowRow(own[i])
        OBVIOUS
    <2> HIDE DEF rows, head, tail, own, S, n
    <2>3. /\ rows \in Seq(S) /\ Len(rows) = n + Len(tail)
          /\ \A i \in 1..(n + Len(tail)) : rows[i] = IF i <= n THEN head[i] ELSE tail[i - n]
        <3>1. /\ head \o tail \in Seq(S) /\ Len(head \o tail) = Len(head) + Len(tail)
              /\ \A i \in 1..(Len(head) + Len(tail)) :
                    (head \o tail)[i] = IF i <= Len(head) THEN head[i] ELSE tail[i - Len(head)]
            BY <1>2, <1>3, ConcatProperties
        <3>2. Len(head) = n
            BY <1>2
        <3> QED
            BY <2>1, <3>1, <3>2
    <2>4. ASSUME NEW i \in 1..Len(tail) PROVE rows[n + i] = tail[i]
        <3>1. n + i \in 1..(n + Len(tail)) /\ ~(n + i <= n) /\ (n + i) - n = i
            BY <1>1, <1>3
        <3> QED
            BY <2>3, <3>1
    <2>5. ASSUME NEW i \in 1..n PROVE rows[i] = Perm!AllowRow(own[i])
        <3>1. i \in 1..(n + Len(tail)) /\ i <= n
            BY <1>1, <1>3
        <3> QED
            BY <2>2, <2>3, <3>1
    <2> QED
        BY <2>3, <2>4, <2>5
<1> HIDE DEF rows, head, tail, own, S, n
<1>5. \A u : Perm!AllowRow(u).target = u
    BY DEF Perm!AllowRow, Perm!Row
<1>6. CASE \E i \in 1..n : own[i] = t
    <2> DEFINE T == {i \in 1..n : own[i] = t}
    <2>1. PICK i \in T : \A k \in T : i <= k
        <3>1. T # {} /\ T \in SUBSET Nat
            BY <1>1, <1>6
        <3> QED
            BY <3>1, Least
    <2>2. i \in 1..Len(rows) /\ rows[i] = Perm!AllowRow(t)
        BY <1>1, <1>3, <1>4, <2>1
    <2>3. ASSUME NEW j \in 1..(i - 1) PROVE rows[j].target # t
        <3>1. j \in 1..n /\ ~(i <= j)
            BY <1>1, <2>1
        <3> QED
            BY <1>4, <1>5, <2>1, <3>1
    <2> QED
        BY <1>4, <2>2, <2>3 DEF Leads, rows, S
<1>7. CASE (\A i \in 1..n : own[i] # t) /\ Leads(tail, t)
    <2>1. PICK k \in 1..Len(tail) : tail[k] = Perm!AllowRow(t) /\ \A j \in 1..(k - 1) : tail[j].target # t
        BY <1>7 DEF Leads
    <2>2. n + k \in 1..Len(rows) /\ rows[n + k] = Perm!AllowRow(t)
        BY <1>1, <1>3, <1>4, <2>1
    <2>3. ASSUME NEW j \in 1..((n + k) - 1) PROVE rows[j].target # t
        <3>1. CASE j <= n
            <4>1. j \in 1..n
                BY <1>1, <3>1
            <4> QED
                BY <1>4, <1>5, <1>7, <4>1
        <3>2. CASE ~(j <= n)
            <4>1. j - n \in 1..(k - 1) /\ j - n \in 1..Len(tail) /\ n + (j - n) = j
                BY <1>1, <1>3, <3>2
            <4> QED
                BY <1>4, <2>1, <4>1
        <3> QED
            BY <3>1, <3>2
    <2> QED
        BY <1>4, <2>2, <2>3 DEF Leads, rows, S
<1> QED
    BY <1>6, <1>7 DEF own, tail, n

\* permissionState.grantFS and persistGrant: what was confirmed is allowed, in the
\* session or in all, and a permanent grant is in the file, whatever other grants
\* are saved and published meanwhile, unless the owner edits the file.
THEOREM GrantsHold == BundleSpec => []ConfirmedGrantsHold
<1> USE ServicesAssumption DEF Perm!Parameters
<1>1. PermSafe => ConfirmedGrantsHold
  <2> SUFFICES ASSUME PermInv, NEW g \in Grants, step[g] = "granted", base[g.domain].valid,
                      ~(g.domain = "fs" /\ g.target \in Protected)
               PROVE  \/ ~g.permanent /\ Perm!Allowed(g.session, g.domain, g.target)
                      \/ /\ g.permanent
                         /\ \A s \in Sessions : Perm!Allowed(s, g.domain, g.target)
                         /\ Perm!AllowRow(g.target) \in Perm!Range(file[g.domain].rows)
                      \/ g.permanent /\ (pending # {} \/ owner # Free)
    BY DEF PermSafe, ConfirmedGrantsHold, Perm!ConfirmedGrantsHold
  <2>1. ASSUME NEW s \in Sessions, (\E i \in 1..Len(granted[s][g.domain]) : granted[s][g.domain][i] = g.target)
                                   \/ Leads(base[g.domain].rows, g.target)
        PROVE  Perm!Allowed(s, g.domain, g.target)
    <3>1. Leads(Perm!Snapshot(s, g.domain), g.target)
          /\ Perm!Snapshot(s, g.domain) \in Seq([effect : {"allow", "deny"}, target : Targets])
      BY <2>1, SnapshotLeads DEF PermInv
    <3> QED
      BY <3>1, LeadsAllows DEF Perm!Allowed
  <2>2. CASE ~g.permanent
    BY <2>1, <2>2 DEF PermInv, PermTurns
  <2>3. CASE g.permanent /\ Undisturbed
    <3>1. Leads(file[g.domain].rows, g.target) /\ Leads(base[g.domain].rows, g.target)
      BY <2>3 DEF PermInv, PermKept, Kept
    <3>2. file[g.domain].rows \in Seq([effect : {"allow", "deny"}, target : Targets])
      BY DEF PermInv, PermTypes, Perm!Tables
    <3>3. Perm!AllowRow(g.target) \in Perm!Range(file[g.domain].rows)
      BY <3>1, <3>2, LenProperties DEF Leads, Perm!Range
    <3> QED
      BY <2>1, <2>3, <3>1, <3>3
  <2> QED
    BY <2>2, <2>3 DEF Undisturbed
<1> QED
  BY <1>1, PermInvariance, PTL

================================================================================

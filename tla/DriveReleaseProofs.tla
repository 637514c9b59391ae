------------------------- MODULE DriveReleaseProofs -------------------------
(***************************************************************************)
(* Theorems about DriveRelease, for any number of drives and of calls of   *)
(* each kind.                                                              *)
(***************************************************************************)
EXTENDS DriveRelease, FunctionTheorems, FiniteSetTheorems, TLAPS

-----------------------------------------------------------------------------
(* Types.  A call that is under way is about a volume.                     *)

GateSet(e) ==
    [Volumes -> [epoch : 0..e, ticket : Tickets \cup {None}, batch : Batches \cup {None},
                 pending : BOOLEAN, late : SUBSET Releases]]
Answers == Outcomes \cup {"WaitingForTicket", "Stopping", None}
ReleaseSet(e) ==
    [at : {"idle", "waiting", "over"}, ids : SUBSET Volumes, epoch : [Volumes -> 0..e],
     answer : [Volumes -> Answers]]
StopSet ==
    [slot : Slots \cup {None}, at : {"reading", "stopping", "answering", "over"},
     was : BOOLEAN, out : Outcomes]
LateStopSet ==
    [for : SUBSET Releases, at : {"handed", "stopping", "answering", "recorded", "over"},
     was : BOOLEAN, out : Outcomes]
StartSet ==
    [at : {"idle", "waiting", "checking", "calling", "returned", "over"},
     vol : Volumes \cup {None}, person : BOOLEAN, waited : BOOLEAN]
DisableSet ==
    [at : {"idle", "waiting", "ready", "called", "returned", "over"},
     vol : Volumes \cup {None}, held : BOOLEAN]
BatchSet(e) ==
    [at : {"idle", "settling", "settled", "checking", "owned", "calling", "returned", "over"},
     vol : Volumes \cup {None}, epoch : 0..e, own : BOOLEAN, intent : BOOLEAN]
LateSet == Outcomes \cup {None, "owed", "lost"}

CallInv ==
    /\ \A s \in Starts :
          start[s].at \in {"waiting", "checking", "calling", "returned"} => start[s].vol \in Volumes
    /\ \A d \in Disables :
          /\ disable[d].at \in {"waiting", "ready", "called", "returned"}
             => disable[d].vol \in Volumes
          /\ disable[d].held => disable[d].at \in {"ready", "called", "returned"}
    /\ \A b \in Batches : batch[b].at \notin {"idle", "over"} => batch[b].vol \in Volumes

CallsType ==
    /\ start \in [Starts -> StartSet]
    /\ disable \in [Disables -> DisableSet]
    /\ batch \in [Batches -> BatchSet(lastEpoch)]
    /\ release \in [Releases -> ReleaseSet(lastEpoch)]
    /\ asleep \subseteq Starts \cup Disables \cup Releases
GateType == lastEpoch \in Nat /\ gate \in GateSet(lastEpoch)
StopsType ==
    /\ stop \in [Releases -> [Volumes -> StopSet]]
    /\ lateStop \in [Volumes -> LateStopSet]
    /\ late \in [Releases -> [Volumes -> LateSet]]
HostType ==
    /\ ejecting \in [Volumes -> BOOLEAN] /\ wakeOwed \in BOOLEAN
    /\ index \in [Volumes -> BOOLEAN] /\ intent \in [Volumes -> BOOLEAN]
HistoryType ==
    /\ under \in [Releases -> [Volumes -> SUBSET Causes]]
    /\ lastWord \in [Volumes -> BOOLEAN]

TypeInv == GateType /\ CallsType /\ StopsType /\ HostType /\ HistoryType /\ CallInv

LEMMA TypeParts == TypeInv => TypeOK
BY DEF TypeInv, TypeOK, GateType, CallsType, StopsType, HostType, HistoryType, GateSet, Answers,
       ReleaseSet, StopSet, LateStopSet, StartSet, DisableSet, BatchSet, LateSet

LEMMA InitTypeInv == Init => TypeInv
<1> SUFFICES ASSUME Init PROVE TypeInv
  OBVIOUS
<1> USE DEF Init, NoStart, NoDisable, NoBatch, NoStop, NoLateStop, Outcomes
<1>1. GateType
  BY DEF GateType, GateSet
<1>2. CallsType
  <2>1. \A r \in Releases : release[r] \in ReleaseSet(lastEpoch)
    BY DEF ReleaseSet, Answers
  <2>2. release \in [Releases -> ReleaseSet(lastEpoch)]
    BY <2>1
  <2>3. start \in [Starts -> StartSet] /\ disable \in [Disables -> DisableSet]
    BY DEF StartSet, DisableSet
  <2>4. batch \in [Batches -> BatchSet(lastEpoch)]
    BY DEF BatchSet
  <2> QED BY <2>2, <2>3, <2>4 DEF CallsType
<1>3. StopsType
  BY DEF StopsType, StopSet, LateStopSet, LateSet
<1>4. HostType /\ HistoryType
  BY DEF HostType, HistoryType
<1>5. CallInv
  BY DEF CallInv
<1> QED BY <1>1, <1>2, <1>3, <1>4, <1>5 DEF TypeInv

\* A finite set can be numbered: the order a call's volumes were asked in.
LEMMA NumberingIsOne ==
    ASSUME NEW ids \in SUBSET Volumes
    PROVE  Cardinality(ids) \in Nat /\ Numbering(ids) \in [ids -> 1..Cardinality(ids)]
<1>1. IsFiniteSet(ids)
  BY VolumesAssumption, FS_Subset
<1>2. Cardinality(ids) \in Nat /\ ExistsBijection(1..Cardinality(ids), ids)
  BY <1>1, FS_CardinalityType
<1>3. ExistsBijection(ids, 1..Cardinality(ids))
  BY <1>2, Fun_ExistsBijSymmetric
<1>4. PICK f \in Bijection(ids, 1..Cardinality(ids)) : TRUE
  BY <1>3, Fun_ExistsBij
<1>5. f \in [ids -> 1..Cardinality(ids)] /\ \A v, w \in ids : f[v] = f[w] => v = w
  BY <1>4 DEF Bijection, Injection, IsInjective
<1> QED BY <1>2, <1>5 DEF Numbering

\* What moving the epochs leaves alone, and what it cancels.
LEMMA BumpedGate ==
    ASSUME GateType, NEW ids \in SUBSET Volumes
    PROVE  /\ Cardinality(ids) \in Nat
           /\ Bumped(ids) \in GateSet(lastEpoch + Cardinality(ids))
           /\ \A v \in Volumes :
                 /\ Bumped(ids)[v].ticket = gate[v].ticket
                 /\ Bumped(ids)[v].late = gate[v].late
                 /\ Bumped(ids)[v].pending = gate[v].pending
                 /\ v \in ids => Bumped(ids)[v].batch = None
                 /\ v \notin ids => Bumped(ids)[v] = gate[v]
<1>1. Cardinality(ids) \in Nat /\ Numbering(ids) \in [ids -> 1..Cardinality(ids)]
  BY NumberingIsOne
<1> DEFINE e == lastEpoch + Cardinality(ids)
<1>2. e \in Nat /\ \A v \in ids : lastEpoch + Numbering(ids)[v] \in 0..e
  BY <1>1 DEF GateType
<1>3. \A v \in Volumes : gate[v].epoch \in 0..e
  BY <1>1 DEF GateType, GateSet
<1>4. \A v \in Volumes :
         Bumped(ids)[v] \in [epoch : 0..e, ticket : Tickets \cup {None},
                             batch : Batches \cup {None}, pending : BOOLEAN,
                             late : SUBSET Releases]
  BY <1>2, <1>3 DEF Bumped, GateType, GateSet
<1>5. Bumped(ids) \in GateSet(e)
  BY <1>4 DEF Bumped, GateSet
<1> QED BY <1>1, <1>5 DEF Bumped, GateType, GateSet

LEMMA DropGate ==
    ASSUME GateType, StopsType, NEW v \in Volumes, DropTicket(v)
    PROVE  /\ gate' \in GateSet(lastEpoch)
           /\ lateStop' \in [Volumes -> LateStopSet]
           /\ asleep' = {}
<1>1. HandedTo(gate[v].late) \in LateStopSet
  BY DEF HandedTo, NoLateStop, LateStopSet, Outcomes, GateType, GateSet
<1>2. PICK t \in Tickets \cup {None} :
         gate' = [gate EXCEPT ![v].ticket = t, ![v].late = {}]
  BY DEF DropTicket, Tickets
<1>3. gate' \in GateSet(lastEpoch)
  BY <1>2 DEF GateType, GateSet
<1> QED BY <1>1, <1>3 DEF DropTicket, StopsType

\* Writing one thing about one volume at its gate.
LEMMA GateWritten ==
    ASSUME GateType, NEW v
    PROVE  /\ \A b \in Batches \cup {None} : [gate EXCEPT ![v].batch = b] \in GateSet(lastEpoch)
           /\ \A t \in Tickets \cup {None} : [gate EXCEPT ![v].ticket = t] \in GateSet(lastEpoch)
BY DEF GateType, GateSet

LEMMA PendingWritten ==
    ASSUME GateType, NEW p \in [Volumes -> BOOLEAN]
    PROVE  [v \in Volumes |-> [gate[v] EXCEPT !.pending = p[v]]] \in GateSet(lastEpoch)
<1>1. \A v \in Volumes :
         gate[v] \in [epoch : 0..lastEpoch, ticket : Tickets \cup {None},
                     batch : Batches \cup {None}, pending : BOOLEAN, late : SUBSET Releases]
  BY DEF GateType, GateSet
<1>2. \A v \in Volumes :
         [gate[v] EXCEPT !.pending = p[v]] \in
                    [epoch : 0..lastEpoch, ticket : Tickets \cup {None},
                     batch : Batches \cup {None}, pending : BOOLEAN, late : SUBSET Releases]
  BY <1>1
<1> QED BY <1>2 DEF GateSet

LEMMA StartTypes == ASSUME TypeInv, NEW s \in Starts, StartSteps(s) PROVE TypeInv'
<1> USE DEF TypeInv, callVars, hostVars, historyVars
<1>1. ASSUME NEW v \in Volumes, NEW person \in BOOLEAN, NEW waited \in BOOLEAN,
             StartTurn(s, v, person, waited),
             UNCHANGED <<lastEpoch, disable, release, batch, stop, lateStop, hostVars, late, under>>
      PROVE  TypeInv'
  <2>0. /\ Over(NoStart) \in StartSet
        /\ \A at \in {"checking", "calling", "waiting"}, w \in BOOLEAN :
              [at |-> at, vol |-> v, person |-> person, waited |-> w] \in StartSet
    BY DEF Over, NoStart, StartSet
  <2>1. start' \in [Starts -> StartSet]
    <3>1. (waited \/ Leaving(v)) \in BOOLEAN
      OBVIOUS
    <3> QED BY <1>1, <2>0, <3>1 DEF StartTurn, CallsType
  <2>2. gate' \in GateSet(lastEpoch)
    BY <1>1 DEF StartTurn, GateType, GateSet, Tickets
  <2>3. asleep' \subseteq Starts \cup Disables \cup Releases
    BY <1>1 DEF StartTurn, CallsType
  <2>4. lastWord' \in [Volumes -> BOOLEAN]
    BY <1>1 DEF StartTurn, HistoryType
  <2>5. CallInv'
    BY <1>1, <2>1 DEF StartTurn, CallInv, CallsType, StartSet, Over, NoStart
  <2> QED BY <1>1, <2>1, <2>2, <2>3, <2>4, <2>5
          DEF GateType, CallsType, StopsType, HostType, HistoryType
<1>2. CASE StartAsked(s)
  BY <1>1, <1>2 DEF StartAsked
<1>3. CASE StartWoken(s)
  BY <1>1, <1>3 DEF StartWoken, CallInv, CallsType, StartSet
<1>4. CASE StartGivesUp(s)
  <2>1. start' \in [Starts -> StartSet] /\ CallInv'
    BY <1>4 DEF StartGivesUp, CallsType, StartSet, CallInv, Over, NoStart
  <2> QED BY <1>4, <2>1
          DEF StartGivesUp, GateType, CallsType, StopsType, HostType, HistoryType
<1>5. CASE StartListed(s)
  <2>0. Over(NoStart) \in StartSet /\ [start[s] EXCEPT !.at = "calling"] \in StartSet
    BY DEF Over, NoStart, CallsType, StartSet
  <2>1. start' \in [Starts -> StartSet]
    <3>1. \/ start' = [start EXCEPT ![s] = Over(NoStart)]
          \/ start' = [start EXCEPT ![s] = [start[s] EXCEPT !.at = "calling"]]
      BY <1>5 DEF StartListed
    <3> QED BY <2>0, <3>1 DEF CallsType
  <2>3. CallInv'
    BY <1>5 DEF StartListed, CallsType, StartSet, CallInv, Over, NoStart
  <2>2. /\ gate' \in GateSet(lastEpoch) /\ lateStop' \in [Volumes -> LateStopSet]
        /\ asleep' \subseteq Starts \cup Disables \cup Releases
    BY <1>5, DropGate DEF StartListed, CallInv, GateType, StopsType, CallsType
  <2> QED BY <1>5, <2>1, <2>2, <2>3
          DEF StartListed, GateType, CallsType, StopsType, HostType, HistoryType
<1>6. CASE StartReturns(s)
  <2>1. start' \in [Starts -> StartSet] /\ CallInv'
    BY <1>6 DEF StartReturns, CallsType, StartSet, CallInv
  <2>2. start[s].vol \in Volumes /\ start[s].person \in BOOLEAN
    BY <1>6 DEF StartReturns, CallInv, CallsType, StartSet
  <2>3. index' \in [Volumes -> BOOLEAN] /\ intent' \in [Volumes -> BOOLEAN]
    BY <1>6, <2>2 DEF StartReturns, IndexStarts, HostType
  <2> QED BY <1>6, <2>1, <2>3
          DEF StartReturns, GateType, CallsType, StopsType, HostType, HistoryType
<1>7. CASE StartDrops(s)
  <2>1. start' \in [Starts -> StartSet] /\ CallInv'
    BY <1>7 DEF StartDrops, CallsType, StartSet, CallInv, Over, NoStart
  <2>2. gate' \in GateSet(lastEpoch) /\ lateStop' \in [Volumes -> LateStopSet] /\ asleep' = {}
    BY <1>7, DropGate DEF StartDrops, CallInv
  <2> QED BY <1>7, <2>1, <2>2
          DEF StartDrops, GateType, CallsType, StopsType, HostType, HistoryType
<1> QED BY <1>2, <1>3, <1>4, <1>5, <1>6, <1>7 DEF StartSteps, StartGoesOn

LEMMA DisableTypes == ASSUME TypeInv, NEW d \in Disables, DisableSteps(d) PROVE TypeInv'
<1> USE DEF TypeInv, callVars, hostVars, historyVars
<1>1. ASSUME NEW v \in Volumes, NEW g, g \in GateSet(lastEpoch'), DisableTurn(d, v, g),
             lastEpoch' \in Nat, lastEpoch' >= lastEpoch,
             UNCHANGED <<start, release, batch, stop, lateStop, hostVars, late, historyVars>>
      PROVE  TypeInv'
  <2>0. \A at \in {"ready", "waiting"}, held \in BOOLEAN :
           [at |-> at, vol |-> v, held |-> held] \in DisableSet
    BY DEF DisableSet
  <2>1. disable' \in [Disables -> DisableSet]
    BY <1>1, <2>0 DEF DisableTurn, CallsType
  <2>7. CallInv'
    BY <1>1, <2>1 DEF DisableTurn, CallInv, CallsType, DisableSet
  <2>2. gate' \in GateSet(lastEpoch')
    BY <1>1 DEF DisableTurn, GateSet, Tickets
  <2>3. asleep' \subseteq Starts \cup Disables \cup Releases
    BY <1>1 DEF DisableTurn, CallsType
  <2>4. \A e \in 0..lastEpoch : e \in 0..lastEpoch'
    BY <1>1 DEF GateType
  <2>5. batch' \in [Batches -> BatchSet(lastEpoch')]
    BY <1>1, <2>4 DEF CallsType, BatchSet
  <2>6. release' \in [Releases -> ReleaseSet(lastEpoch')]
    BY <1>1, <2>4 DEF CallsType, ReleaseSet
  <2> QED BY <1>1, <2>1, <2>2, <2>3, <2>5, <2>6, <2>7
          DEF GateType, CallsType, StopsType, HostType, HistoryType
<1>2. CASE DisableAsked(d)
  <2>1. PICK v \in Volumes : DisableTurn(d, v, Bumped({v}))
    BY <1>2 DEF DisableAsked
  <2>2. lastEpoch' = lastEpoch + 1 /\ Cardinality({v}) = 1 /\ {v} \in SUBSET Volumes
    BY <1>2, FS_Singleton DEF DisableAsked
  <2>3. Bumped({v}) \in GateSet(lastEpoch')
    BY <2>2, BumpedGate
  <2> PICK g : g = Bumped({v})
    OBVIOUS
  <2>4. g \in GateSet(lastEpoch') /\ DisableTurn(d, v, g)
    BY <2>1, <2>3
  <2> QED BY <1>1, <1>2, <2>2, <2>4 DEF DisableAsked, GateType
<1>3. CASE DisableWoken(d)
  <2> PICK g : g = gate
    OBVIOUS
  <2>1. disable[d].vol \in Volumes
    BY <1>3 DEF DisableWoken, CallInv
  <2>2. DisableTurn(d, disable[d].vol, g) /\ g \in GateSet(lastEpoch')
    BY <1>3 DEF DisableWoken, GateType
  <2> QED BY <1>1, <1>3, <2>1, <2>2 DEF DisableWoken, GateType
<1>4. CASE DisableGivesUp(d)
  <2>1. disable' \in [Disables -> DisableSet] /\ CallInv'
    BY <1>4 DEF DisableGivesUp, CallsType, DisableSet, CallInv
  <2> QED BY <1>4, <2>1
          DEF DisableGivesUp, GateType, CallsType, StopsType, HostType, HistoryType
<1>5. CASE DisableCalls(d)
  <2>1. disable' \in [Disables -> DisableSet]
    BY <1>5 DEF DisableCalls, CallsType, DisableSet
  <2>2. start' \in [Starts -> StartSet]
    BY <1>5 DEF DisableCalls, CallsType, StartSet
  <2>3. batch' \in [Batches -> BatchSet(lastEpoch)]
    BY <1>5 DEF DisableCalls, CallsType, BatchSet
  <2>4. CallInv'
    BY <1>5, <2>1, <2>2, <2>3 DEF DisableCalls, CallInv, CallsType, DisableSet, StartSet, BatchSet
  <2>5. /\ disable[d].vol \in Volumes /\ disable[d].held \in BOOLEAN
        /\ index' \in [Volumes -> BOOLEAN] /\ intent' \in [Volumes -> BOOLEAN]
    BY <1>5 DEF DisableCalls, HostType, CallInv, CallsType, DisableSet
  <2>6. lastWord' \in [Volumes -> BOOLEAN]
    BY <1>5, <2>5 DEF DisableCalls, HistoryType
  <2> QED BY <1>5, <2>1, <2>2, <2>3, <2>4, <2>5, <2>6
          DEF DisableCalls, GateType, CallsType, StopsType, HostType, HistoryType
<1>6. CASE DisableMovesEpoch(d)
  <2> PICK v : v = disable[d].vol
    OBVIOUS
  <2>1. v \in Volumes
    BY <1>6 DEF DisableMovesEpoch, CallInv
  <2>2. /\ lastEpoch' = lastEpoch + 1 /\ Cardinality({v}) = 1 /\ {v} \in SUBSET Volumes
        /\ gate' = Bumped({v})
    BY <1>6, <2>1, FS_Singleton DEF DisableMovesEpoch
  <2>3. gate' \in GateSet(lastEpoch')
    BY <2>2, BumpedGate
  <2>4. \A e \in 0..lastEpoch : e \in 0..lastEpoch'
    BY <2>2 DEF GateType
  <2>5. batch' \in [Batches -> BatchSet(lastEpoch')]
    BY <1>6, <2>4 DEF CallsType, BatchSet, DisableMovesEpoch
  <2>6. release' \in [Releases -> ReleaseSet(lastEpoch')]
    BY <1>6, <2>4 DEF CallsType, ReleaseSet, DisableMovesEpoch
  <2>7. disable' \in [Disables -> DisableSet] /\ CallInv'
    BY <1>6 DEF DisableMovesEpoch, CallsType, DisableSet, CallInv
  <2> QED BY <1>6, <2>2, <2>3, <2>5, <2>6, <2>7
          DEF DisableMovesEpoch, GateType, CallsType, StopsType, HostType, HistoryType
<1>7. CASE DisableDrops(d)
  <2>1. disable' \in [Disables -> DisableSet] /\ CallInv'
    BY <1>7 DEF DisableDrops, CallsType, DisableSet, CallInv, Over, NoDisable
  <2>2. /\ gate' \in GateSet(lastEpoch) /\ lateStop' \in [Volumes -> LateStopSet]
        /\ asleep' \subseteq Starts \cup Disables \cup Releases
    BY <1>7, DropGate DEF DisableDrops, CallInv, GateType, StopsType, CallsType
  <2> QED BY <1>7, <2>1, <2>2
          DEF DisableDrops, GateType, CallsType, StopsType, HostType, HistoryType
<1> QED BY <1>2, <1>3, <1>4, <1>5, <1>6, <1>7 DEF DisableSteps, DisableGoesOn

\* One turn of a release, at the gates it finds: what it stops at once, what
\* it hears, what it is left with.
Turned(r, rel, g, failed) ==
    [v \in Volumes |-> IF v \in failed THEN "StillReleasing"
                       ELSE IF v \in Free(rel, g) THEN "Stopping"
                       ELSE IF v \in Heard(r, rel) THEN stop[r][v].out
                       ELSE rel.answer[v]]
TurnSlots(r, rel, g, failed) ==
    [v \in Volumes |-> IF v \in Free(rel, g) \ failed THEN NewStop
                       ELSE IF v \in Heard(r, rel) THEN NoStop ELSE stop[r][v]]
Open(rel, turned) == {v \in rel.ids : turned[v] \notin Outcomes}
Queued(rel, turned) == {v \in Open(rel, turned) : turned[v] = "WaitingForTicket"}

GivesUp(r, rel, g, turned, slots) ==
    /\ release' = [release EXCEPT ![r] =
          [rel EXCEPT !.at = "over",
                      !.answer = [v \in Volumes |-> IF v \in Open(rel, turned)
                                                    THEN "StillReleasing" ELSE turned[v]]]]
    /\ gate' = [v \in Volumes |->
                  IF v \in Queued(rel, turned) THEN [g[v] EXCEPT !.late = @ \cup {r}] ELSE g[v]]
    /\ stop' = [stop EXCEPT ![r] = [v \in Volumes |->
                  IF v \in Open(rel, turned) \ Queued(rel, turned)
                  THEN [slots[v] EXCEPT !.slot = "Abandoned"] ELSE slots[v]]]
    /\ late' = [late EXCEPT ![r] = [v \in Volumes |->
                  IF v \in Open(rel, turned) THEN "owed" ELSE late[r][v]]]
    /\ asleep' = asleep \ {r}
GoesRound(r, rel, g, turned, slots) ==
    /\ release' = [release EXCEPT ![r] =
          [rel EXCEPT !.at = IF Open(rel, turned) = {} THEN "over" ELSE "waiting",
                      !.answer = turned]]
    /\ gate' = g
    /\ stop' = [stop EXCEPT ![r] = slots]
    /\ asleep' = IF Open(rel, turned) = {} THEN asleep \ {r} ELSE asleep \cup {r}
    /\ UNCHANGED late

LEMMA Turn ==
    ASSUME NEW r, NEW rel, NEW g, NEW timedOut \in BOOLEAN, ReleaseTurn(r, rel, g, timedOut)
    PROVE  \E failed \in SUBSET Free(rel, g) :
              LET turned == Turned(r, rel, g, failed)
                  slots == TurnSlots(r, rel, g, failed)
              IN  \/ /\ Open(rel, turned) # {} /\ timedOut
                     /\ GivesUp(r, rel, g, turned, slots)
                  \/ /\ Open(rel, turned) = {} \/ ~timedOut
                     /\ GoesRound(r, rel, g, turned, slots)
<1>1. PICK failed \in (IF SpawnFails THEN SUBSET Free(rel, g) ELSE {{}}) :
         LET turned == Turned(r, rel, g, failed)
             slots == TurnSlots(r, rel, g, failed)
         IN  IF Open(rel, turned) # {} /\ timedOut
             THEN GivesUp(r, rel, g, turned, slots)
             ELSE GoesRound(r, rel, g, turned, slots)
  BY DEF ReleaseTurn, Turned, TurnSlots, Open, Queued, GivesUp, GoesRound
<1>2. failed \in SUBSET Free(rel, g)
  BY <1>1
<1> QED BY <1>1, <1>2

LEMMA TurnTypes ==
    ASSUME StopsType, release \in [Releases -> ReleaseSet(lastEpoch')],
           asleep \subseteq Starts \cup Disables \cup Releases,
           NEW r \in Releases, NEW timedOut \in BOOLEAN,
           NEW rel, rel \in ReleaseSet(lastEpoch'), NEW g, g \in GateSet(lastEpoch'),
           ReleaseTurn(r, rel, g, timedOut)
    PROVE  /\ release' \in [Releases -> ReleaseSet(lastEpoch')]
           /\ gate' \in GateSet(lastEpoch')
           /\ stop' \in [Releases -> [Volumes -> StopSet]]
           /\ late' \in [Releases -> [Volumes -> LateSet]]
           /\ asleep' \subseteq Starts \cup Disables \cup Releases
<1>1. PICK failed \in SUBSET Free(rel, g) :
         LET turned == Turned(r, rel, g, failed)
             slots == TurnSlots(r, rel, g, failed)
         IN  \/ /\ Open(rel, turned) # {} /\ timedOut
                /\ GivesUp(r, rel, g, turned, slots)
             \/ /\ Open(rel, turned) = {} \/ ~timedOut
                /\ GoesRound(r, rel, g, turned, slots)
  BY Turn
<1>2. PICK turned, slots : turned = Turned(r, rel, g, failed) /\ slots = TurnSlots(r, rel, g, failed)
  OBVIOUS
<1>3. turned \in [Volumes -> Answers]
  BY <1>2 DEF Turned, Answers, ReleaseSet, StopsType, StopSet, Outcomes
<1>4. slots \in [Volumes -> StopSet]
  <2>1. NewStop \in StopSet /\ NoStop \in StopSet
    BY DEF NewStop, NoStop, StopSet, Slots, Outcomes
  <2> QED BY <1>2, <2>1 DEF TurnSlots, StopsType
<1>5. CASE GivesUp(r, rel, g, turned, slots)
  <2>1. [v \in Volumes |-> IF v \in Open(rel, turned) THEN "StillReleasing" ELSE turned[v]]
           \in [Volumes -> Answers]
    BY <1>3 DEF Answers, Outcomes
  <2> DEFINE a == [v \in Volumes |-> IF v \in Open(rel, turned) THEN "StillReleasing" ELSE turned[v]]
  <2>2. a \in [Volumes -> Answers]
    BY <2>1
  <2>3. release' = [release EXCEPT ![r] = [rel EXCEPT !.at = "over", !.answer = a]]
    BY <1>5 DEF GivesUp
  <2> HIDE DEF a
  <2>4. [rel EXCEPT !.at = "over", !.answer = a] \in ReleaseSet(lastEpoch')
    BY <2>2 DEF ReleaseSet
  <2>5. release' \in [Releases -> ReleaseSet(lastEpoch')]
    BY <2>3, <2>4
  <2>6. gate' \in GateSet(lastEpoch')
    BY <1>5 DEF GivesUp, GateSet
  <2>7. \A v \in Volumes : [slots[v] EXCEPT !.slot = "Abandoned"] \in StopSet
    BY <1>4 DEF StopSet, Slots
  <2>8. stop' \in [Releases -> [Volumes -> StopSet]]
    BY <1>4, <1>5, <2>7 DEF GivesUp, StopsType
  <2>9. late' \in [Releases -> [Volumes -> LateSet]]
    BY <1>5 DEF GivesUp, StopsType, LateSet
  <2> QED BY <1>5, <2>5, <2>6, <2>8, <2>9 DEF GivesUp
<1>6. CASE GoesRound(r, rel, g, turned, slots)
  <2>1. PICK at \in {"over", "waiting"} :
           release' = [release EXCEPT ![r] = [rel EXCEPT !.at = at, !.answer = turned]]
    BY <1>6 DEF GoesRound
  <2>2. [rel EXCEPT !.at = at, !.answer = turned] \in ReleaseSet(lastEpoch')
    BY <1>3 DEF ReleaseSet
  <2>3. release' \in [Releases -> ReleaseSet(lastEpoch')]
    BY <2>1, <2>2
  <2>4. stop' \in [Releases -> [Volumes -> StopSet]]
    BY <1>4, <1>6 DEF GoesRound, StopsType
  <2> QED BY <1>6, <2>3, <2>4 DEF GoesRound, StopsType
<1> QED BY <1>1, <1>2, <1>5, <1>6

\* The record a release begins with.
Asking(r, ids, g) ==
    [release[r] EXCEPT !.ids = ids,
                       !.epoch = [v \in Volumes |-> IF v \in ids THEN g[v].epoch ELSE 0],
                       !.answer = [v \in Volumes |-> IF v \in ids THEN "WaitingForTicket" ELSE None]]

LEMMA AskingType ==
    ASSUME NEW e \in Nat, release \in [Releases -> ReleaseSet(e)], NEW r \in Releases,
           NEW ids \in SUBSET Volumes, NEW g, g \in GateSet(e)
    PROVE  Asking(r, ids, g) \in ReleaseSet(e)
<1> DEFINE ep == [v \in Volumes |-> IF v \in ids THEN g[v].epoch ELSE 0]
           an == [v \in Volumes |-> IF v \in ids THEN "WaitingForTicket" ELSE None]
<1>1. ep \in [Volumes -> 0..e] /\ an \in [Volumes -> Answers]
  BY DEF GateSet, Answers
<1>2. Asking(r, ids, g) = [release[r] EXCEPT !.ids = ids, !.epoch = ep, !.answer = an]
  BY DEF Asking
<1>3. release[r] \in ReleaseSet(e)
  OBVIOUS
<1> HIDE DEF ep, an
<1> QED BY <1>1, <1>2, <1>3 DEF ReleaseSet

LEMMA AskingTurn ==
    ASSUME NEW r \in Releases, ReleaseAsked(r)
    PROVE  \E ids \in SUBSET Volumes, timedOut \in BOOLEAN : \E g, rel :
              /\ g = Bumped(ids) /\ rel = Asking(r, ids, g)
              /\ lastEpoch' = lastEpoch + Cardinality(ids)
              /\ under' = [under EXCEPT ![r] = [v \in Volumes |->
                    {c \in Causes : v \in ids /\ IF c = "pending" THEN gate[v].pending
                                                                  ELSE ejecting[v]}]]
              /\ ReleaseTurn(r, rel, g, timedOut)
<1>1. PICK ids \in SUBSET Volumes, timedOut \in BOOLEAN :
         /\ ReleaseTurn(r, Asking(r, ids, Bumped(ids)), Bumped(ids), timedOut)
         /\ lastEpoch' = lastEpoch + Cardinality(ids)
         /\ under' = [under EXCEPT ![r] = [v \in Volumes |->
                    {c \in Causes : v \in ids /\ IF c = "pending" THEN gate[v].pending
                                                                  ELSE ejecting[v]}]]
  BY DEF ReleaseAsked, Asking
<1>2. PICK g : g = Bumped(ids)
  OBVIOUS
<1>3. PICK rel : rel = Asking(r, ids, g)
  OBVIOUS
<1> QED BY <1>1, <1>2, <1>3

LEMMA ReleaseTypes == ASSUME TypeInv, NEW r \in Releases, ReleaseSteps(r) PROVE TypeInv'
<1> USE DEF TypeInv, callVars, hostVars, historyVars
<1>2. CASE ReleaseAsked(r)
  <2>0. PICK ids \in SUBSET Volumes, timedOut \in BOOLEAN : \E g, rel :
           /\ g = Bumped(ids) /\ rel = Asking(r, ids, g)
           /\ lastEpoch' = lastEpoch + Cardinality(ids)
           /\ ReleaseTurn(r, rel, g, timedOut)
    BY <1>2, AskingTurn
  <2>1. PICK g, rel :
           /\ g = Bumped(ids) /\ rel = Asking(r, ids, g)
           /\ lastEpoch' = lastEpoch + Cardinality(ids)
           /\ ReleaseTurn(r, rel, g, timedOut)
    BY <2>0
  <2>2. g \in GateSet(lastEpoch') /\ lastEpoch' \in Nat /\ lastEpoch' >= lastEpoch
    BY <2>1, BumpedGate DEF GateType
  <2>3. \A e \in 0..lastEpoch : e \in 0..lastEpoch'
    BY <2>2 DEF GateType
  <2>4. batch' \in [Batches -> BatchSet(lastEpoch')]
    BY <1>2, <2>3 DEF CallsType, BatchSet, ReleaseAsked
  <2>5. release \in [Releases -> ReleaseSet(lastEpoch')]
    BY <2>3 DEF CallsType, ReleaseSet
  <2>8. rel \in ReleaseSet(lastEpoch')
    BY <2>1, <2>2, <2>5, AskingType
  <2>9. /\ release' \in [Releases -> ReleaseSet(lastEpoch')]
        /\ gate' \in GateSet(lastEpoch')
        /\ stop' \in [Releases -> [Volumes -> StopSet]]
        /\ late' \in [Releases -> [Volumes -> LateSet]]
        /\ asleep' \subseteq Starts \cup Disables \cup Releases
    BY <2>1, <2>2, <2>5, <2>8, TurnTypes DEF CallsType
  <2>10. CallInv'
    BY <1>2 DEF ReleaseAsked, CallInv
  <2>11. under' \in [Releases -> [Volumes -> SUBSET Causes]]
    <3>1. PICK us \in [Volumes -> SUBSET Causes] : under' = [under EXCEPT ![r] = us]
      BY <1>2 DEF ReleaseAsked
    <3> QED BY <3>1 DEF HistoryType
  <2> QED BY <1>2, <2>2, <2>4, <2>9, <2>10, <2>11
          DEF ReleaseAsked, GateType, CallsType, StopsType, HostType, HistoryType
<1>3. ASSUME NEW timedOut \in BOOLEAN, ReleaseTurn(r, release[r], gate, timedOut),
             UNCHANGED <<lastEpoch, start, disable, batch, lateStop, hostVars, historyVars>>
      PROVE  TypeInv'
  <2> PICK g, rel : g = gate /\ rel = release[r]
    OBVIOUS
  <2>1. /\ rel \in ReleaseSet(lastEpoch') /\ g \in GateSet(lastEpoch')
        /\ release \in [Releases -> ReleaseSet(lastEpoch')]
        /\ ReleaseTurn(r, rel, g, timedOut)
    BY <1>3 DEF CallsType, GateType
  <2>2. /\ release' \in [Releases -> ReleaseSet(lastEpoch')]
        /\ gate' \in GateSet(lastEpoch')
        /\ stop' \in [Releases -> [Volumes -> StopSet]]
        /\ late' \in [Releases -> [Volumes -> LateSet]]
        /\ asleep' \subseteq Starts \cup Disables \cup Releases
    BY <2>1, TurnTypes DEF CallsType
  <2>3. CallInv'
    BY <1>3 DEF CallInv
  <2> QED BY <1>3, <2>2, <2>3 DEF GateType, CallsType, StopsType, HostType, HistoryType
<1>4. CASE ReleaseWoken(r)
  BY <1>3, <1>4 DEF ReleaseWoken
<1>5. CASE ReleaseTimesOut(r)
  BY <1>3, <1>5 DEF ReleaseTimesOut
<1> QED BY <1>2, <1>4, <1>5 DEF ReleaseSteps

\* A stop thread's step writes its own record and no other.
StopIs(r, v, x) == stop' = [stop EXCEPT ![r] = [stop[r] EXCEPT ![v] = x]]

LEMMA StopWrites ==
    ASSUME StopsType, HostType, NEW r \in Releases, NEW v \in Volumes, StopSteps(r, v)
    PROVE  \E x \in StopSet :
              /\ StopIs(r, v, x)
              /\ \/ /\ StopReads(r, v)
                    /\ x = [slot |-> stop[r][v].slot, at |-> "stopping", was |-> index[v],
                            out |-> stop[r][v].out]
                 \/ /\ StopRuns(r, v)
                    /\ x.slot = stop[r][v].slot /\ x.at = "answering"
                    /\ IndexStops(v, stop[r][v].was, x.out)
                 \/ /\ StopAnswers(r, v) /\ stop[r][v].slot # "Abandoned"
                    /\ x.slot = "Answered" /\ x.at = "over" /\ x.out = stop[r][v].out
                 \/ /\ StopAnswers(r, v) /\ stop[r][v].slot = "Abandoned"
                    /\ x = NoStop
<1>1. stop[r][v] \in StopSet /\ index[v] \in BOOLEAN
  BY DEF StopsType, HostType
<1>2. CASE StopReads(r, v)
  <2>1. PICK x : x = [stop[r][v] EXCEPT !.at = "stopping", !.was = index[v]]
    OBVIOUS
  <2>2. /\ x = [slot |-> stop[r][v].slot, at |-> "stopping", was |-> index[v],
                out |-> stop[r][v].out]
        /\ x \in StopSet
    BY <1>1, <2>1 DEF StopSet
  <2>3. StopIs(r, v, x)
    BY <1>2, <2>1 DEF StopReads, StopIs
  <2> QED BY <1>2, <2>2, <2>3
<1>3. CASE StopRuns(r, v)
  <2>1. PICK out \in Outcomes :
           /\ IndexStops(v, stop[r][v].was, out)
           /\ stop' = [stop EXCEPT ![r][v].at = "answering", ![r][v].was = FALSE,
                                   ![r][v].out = out]
    BY <1>3 DEF StopRuns
  <2>2. PICK x : x = [stop[r][v] EXCEPT !.at = "answering", !.was = FALSE, !.out = out]
    OBVIOUS
  <2>3. x.slot = stop[r][v].slot /\ x.at = "answering" /\ x.out = out /\ x \in StopSet
    BY <1>1, <2>2 DEF StopSet
  <2>4. StopIs(r, v, x)
    BY <2>1, <2>2 DEF StopIs
  <2> QED BY <1>3, <2>1, <2>3, <2>4
<1>4. CASE StopAnswers(r, v) /\ stop[r][v].slot # "Abandoned"
  <2>1. PICK x : x = [stop[r][v] EXCEPT !.slot = "Answered", !.at = "over"]
    OBVIOUS
  <2>2. x.slot = "Answered" /\ x.at = "over" /\ x.out = stop[r][v].out /\ x \in StopSet
    BY <1>1, <2>1 DEF StopSet, Slots
  <2>3. StopIs(r, v, x)
    <3>1. stop' = [stop EXCEPT ![r][v].slot = "Answered", ![r][v].at = "over"]
      BY <1>4 DEF StopAnswers
    <3> QED BY <2>1, <3>1 DEF StopIs
  <2> QED BY <1>4, <2>2, <2>3
<1>5. CASE StopAnswers(r, v) /\ stop[r][v].slot = "Abandoned"
  <2>1. NoStop \in StopSet
    BY DEF NoStop, StopSet, Outcomes
  <2>2. StopIs(r, v, NoStop)
    BY <1>5 DEF StopAnswers, StopIs
  <2> QED BY <1>5, <2>1, <2>2
<1> QED BY <1>2, <1>3, <1>4, <1>5 DEF StopSteps

LEMMA StopTypes ==
    ASSUME TypeInv, NEW r \in Releases, NEW v \in Volumes, StopSteps(r, v)
    PROVE  TypeInv'
<1> USE DEF TypeInv, callVars, hostVars, historyVars
<1>1. PICK x \in StopSet : StopIs(r, v, x)
  BY StopWrites
<1>2. stop' \in [Releases -> [Volumes -> StopSet]]
  BY <1>1 DEF StopIs, StopsType
<1>3. CASE StopReads(r, v)
  BY <1>2, <1>3
     DEF StopReads, GateType, CallsType, StopsType, HostType, HistoryType, CallInv
<1>4. CASE StopRuns(r, v)
  <2>1. index' \in [Volumes -> BOOLEAN]
    BY <1>4 DEF StopRuns, IndexStops, HostType
  <2> QED BY <1>2, <1>4, <2>1
          DEF StopRuns, GateType, CallsType, StopsType, HostType, HistoryType, CallInv
<1>5. CASE StopAnswers(r, v)
  <2>1. stop[r][v].out \in LateSet
    BY DEF StopsType, StopSet, LateSet
  <2>2. late' = late \/ late' = [late EXCEPT ![r][v] = stop[r][v].out]
    BY <1>5 DEF StopAnswers
  <2>3. late' \in [Releases -> [Volumes -> LateSet]]
    <3>1. PICK out \in LateSet : out = stop[r][v].out
      BY <2>1
    <3>2. [late EXCEPT ![r][v] = out] \in [Releases -> [Volumes -> LateSet]]
      BY DEF StopsType
    <3> QED BY <2>2, <3>1, <3>2 DEF StopsType
  <2> QED BY <1>2, <1>5, <2>3
          DEF StopAnswers, GateType, CallsType, StopsType, HostType, HistoryType, CallInv
<1> QED BY <1>3, <1>4, <1>5 DEF StopSteps

LEMMA LateStopTypes == ASSUME TypeInv, NEW v \in Volumes, LateStopSteps(v) PROVE TypeInv'
<1> USE DEF TypeInv, callVars, hostVars, historyVars
<1>1. CASE LateStopReads(v)
  <2>1. lateStop[v] \in LateStopSet /\ index[v] \in BOOLEAN
    BY DEF StopsType, HostType
  <2>2. [lateStop[v] EXCEPT !.at = "stopping", !.was = index[v]] \in LateStopSet
    BY <2>1 DEF LateStopSet
  <2>3. lateStop' \in [Volumes -> LateStopSet]
    BY <1>1, <2>2 DEF LateStopReads, StopsType
  <2> QED BY <1>1, <2>3
          DEF LateStopReads, GateType, CallsType, StopsType, HostType, HistoryType, CallInv
<1>2. CASE LateStopRuns(v)
  <2>1. lateStop[v] \in LateStopSet
    BY DEF StopsType
  <2>2. \A out \in Outcomes :
           [lateStop[v] EXCEPT !.at = "answering", !.was = FALSE, !.out = out] \in LateStopSet
    BY <2>1 DEF LateStopSet
  <2>3. lateStop' \in [Volumes -> LateStopSet]
    BY <1>2, <2>2 DEF LateStopRuns, StopsType
  <2>4. index' \in [Volumes -> BOOLEAN]
    BY <1>2 DEF LateStopRuns, IndexStops, HostType
  <2> QED BY <1>2, <2>3, <2>4
          DEF LateStopRuns, GateType, CallsType, StopsType, HostType, HistoryType, CallInv
<1>3. CASE LateStopAnswers(v)
  <2>1. lateStop' \in [Volumes -> LateStopSet]
    BY <1>3 DEF LateStopAnswers, StopsType, LateStopSet
  <2>2. late' \in [Releases -> [Volumes -> LateSet]]
    BY <1>3 DEF LateStopAnswers, StopsType, LateStopSet, LateSet
  <2> QED BY <1>3, <2>1, <2>2
          DEF LateStopAnswers, GateType, CallsType, StopsType, HostType, HistoryType, CallInv
<1>4. ASSUME DropTicket(v), late' \in [Releases -> [Volumes -> LateSet]],
             UNCHANGED <<lastEpoch, callVars, stop, hostVars, historyVars>>
      PROVE  TypeInv'
  <2>1. gate' \in GateSet(lastEpoch) /\ lateStop' \in [Volumes -> LateStopSet] /\ asleep' = {}
    BY <1>4, DropGate
  <2> QED BY <1>4, <2>1 DEF GateType, CallsType, StopsType, HostType, HistoryType, CallInv
<1>5. CASE LateStopDrops(v)
  BY <1>4, <1>5 DEF LateStopDrops, StopsType
<1>6. CASE LateStopNotSpawned(v)
  <2>1. late' \in [Releases -> [Volumes -> LateSet]]
    BY <1>6 DEF LateStopNotSpawned, StopsType, LateSet
  <2> QED BY <1>4, <1>6, <2>1 DEF LateStopNotSpawned
<1> QED BY <1>1, <1>2, <1>3, <1>5, <1>6 DEF LateStopSteps

\* What a hand-back writes: nothing, or a batch of its own at the gate.
HandedBack(b, v, own, e) ==
    /\ under' = IF own THEN [r \in Releases |-> [under[r] EXCEPT ![v] = @ \ {"ejecting"}]]
                ELSE under
    /\ IF gate[v].batch # None \/ gate[v].ticket = "Start"
       THEN /\ batch' = [batch EXCEPT ![b] = Over(NoBatch)]
            /\ UNCHANGED gate
       ELSE /\ batch' = [batch EXCEPT ![b] = [at |-> "settling", vol |-> v, epoch |-> e,
                                             own |-> own, intent |-> FALSE]]
            /\ gate' = [gate EXCEPT ![v].batch = b]

LEMMA HandBack ==
    ASSUME GateType, CallsType, NEW b \in Batches, ResumeAsked(b)
    PROVE  \E v \in Volumes, own \in BOOLEAN, e \in 0..lastEpoch :
              (own => ejecting[v]) /\ HandedBack(b, v, own, e)
<1>1. PICK v \in Volumes, own \in BOOLEAN : \E r \in Owing(v) :
         \E e \in release[r].epoch[v]..gate[v].epoch : (own => ejecting[v]) /\ HandedBack(b, v, own, e)
  BY DEF ResumeAsked, HandedBack
<1>2. PICK r \in Releases : \E e \in release[r].epoch[v]..gate[v].epoch :
         (own => ejecting[v]) /\ HandedBack(b, v, own, e)
  BY <1>1 DEF Owing
<1>3. release[r].epoch[v] \in 0..lastEpoch /\ gate[v].epoch \in 0..lastEpoch
  BY DEF CallsType, ReleaseSet, GateType, GateSet
<1>4. release[r].epoch[v]..gate[v].epoch \subseteq 0..lastEpoch
  BY <1>3 DEF GateType
<1> QED BY <1>2, <1>4

LEMMA ResumeTypes == ASSUME TypeInv, NEW b \in Batches, ResumeSteps(b) PROVE TypeInv'
<1> USE DEF TypeInv, callVars, hostVars, historyVars
<1>1. Over(NoBatch) \in BatchSet(lastEpoch)
  <2>1. 0 \in 0..lastEpoch
    BY DEF GateType
  <2>2. NoBatch \in BatchSet(lastEpoch)
    BY <2>1 DEF NoBatch, BatchSet
  <2> QED BY <2>2 DEF Over, BatchSet
<1>2. batch[b] \in BatchSet(lastEpoch)
  BY DEF CallsType
<1>3. ASSUME NEW x \in BatchSet(lastEpoch), batch' = [batch EXCEPT ![b] = x],
             x.at \notin {"idle", "over"} => x.vol \in Volumes, UNCHANGED <<start, disable>>
      PROVE  batch' \in [Batches -> BatchSet(lastEpoch)] /\ CallInv'
  BY <1>3 DEF CallsType, CallInv
<1>4. Over(NoBatch).at = "over"
  BY DEF Over, NoBatch
<1>5. CASE ResumeAsked(b)
  <2>1. PICK v \in Volumes, own \in BOOLEAN, e \in 0..lastEpoch :
           (own => ejecting[v]) /\ HandedBack(b, v, own, e)
    BY <1>5, HandBack
  <2>3. PICK x : x = [at |-> "settling", vol |-> v, epoch |-> e, own |-> own, intent |-> FALSE]
    OBVIOUS
  <2>4. x \in BatchSet(lastEpoch) /\ x.vol \in Volumes
    BY <2>3 DEF BatchSet
  <2>5. batch' \in [Batches -> BatchSet(lastEpoch)] /\ CallInv'
    <3>1. CASE batch' = [batch EXCEPT ![b] = x]
      BY <1>3, <1>5, <2>4, <3>1 DEF ResumeAsked
    <3>2. CASE batch' = [batch EXCEPT ![b] = Over(NoBatch)]
      BY <1>1, <1>3, <1>4, <1>5, <3>2 DEF ResumeAsked
    <3> QED BY <2>1, <2>3, <3>1, <3>2 DEF HandedBack
  <2>6. gate' \in GateSet(lastEpoch)
    BY <2>1 DEF HandedBack, GateType, GateSet
  <2>7. under' \in [Releases -> [Volumes -> SUBSET Causes]]
    BY <2>1 DEF HandedBack, HistoryType
  <2> QED BY <1>5, <2>5, <2>6, <2>7
          DEF ResumeAsked, GateType, CallsType, StopsType, HostType, HistoryType
<1>6. CASE ResumeNotSpawned(b)
  <2>1. batch' \in [Batches -> BatchSet(lastEpoch)] /\ CallInv'
    BY <1>1, <1>3, <1>4, <1>6 DEF ResumeNotSpawned
  <2>2. PICK c \in Batches \cup {None} : gate' = [gate EXCEPT ![batch[b].vol].batch = c]
    <3>1. batch[b].vol \in Volumes
      BY <1>6 DEF ResumeNotSpawned, CallInv
    <3>2. gate[batch[b].vol].batch \in Batches \cup {None}
      BY <3>1 DEF GateType, GateSet
    <3> QED BY <1>6, <3>2 DEF ResumeNotSpawned
  <2>3. gate' \in GateSet(lastEpoch)
    BY <2>2, GateWritten
  <2> QED BY <1>6, <2>1, <2>3
          DEF ResumeNotSpawned, GateType, CallsType, StopsType, HostType, HistoryType
<1>7. CASE ResumeSettles(b)
  <2> PICK i : i = (intent[batch[b].vol] /\ ~index[batch[b].vol])
    OBVIOUS
  <2>1. PICK x : x = [batch[b] EXCEPT !.at = "settled", !.intent = i]
    OBVIOUS
  <2>2. batch[b].vol \in Volumes /\ i \in BOOLEAN
    BY <1>7 DEF ResumeSettles, CallInv
  <2>3. x \in BatchSet(lastEpoch) /\ x.vol \in Volumes
    BY <1>2, <2>1, <2>2 DEF BatchSet
  <2>4. batch' = [batch EXCEPT ![b] = x]
    BY <1>7, <2>1 DEF ResumeSettles
  <2>5. batch' \in [Batches -> BatchSet(lastEpoch)] /\ CallInv'
    BY <1>3, <1>7, <2>3, <2>4 DEF ResumeSettles
  <2> QED BY <1>7, <2>5
          DEF ResumeSettles, GateType, CallsType, StopsType, HostType, HistoryType
<1>8. ASSUME NEW at \in {"checking", "owned", "calling", "returned"},
             batch[b].at \notin {"idle", "over"}, UNCHANGED <<start, disable>>,
             batch' \in {[batch EXCEPT ![b].at = at], [batch EXCEPT ![b] = Over(NoBatch)]}
      PROVE  batch' \in [Batches -> BatchSet(lastEpoch)] /\ CallInv'
  <2>1. [batch[b] EXCEPT !.at = at] \in BatchSet(lastEpoch)
    BY <1>2 DEF BatchSet
  <2>2. [batch[b] EXCEPT !.at = at].vol \in Volumes
    BY <1>2, <1>8 DEF BatchSet, CallInv
  <2> QED BY <1>1, <1>3, <1>4, <1>8, <2>1, <2>2
<1>9. CASE ResumeChecks(b)
  <2>1. batch' \in [Batches -> BatchSet(lastEpoch)] /\ CallInv'
    BY <1>8, <1>9 DEF ResumeChecks
  <2> DEFINE left == [gate EXCEPT ![batch[b].vol].batch = IF @ = b THEN None ELSE @]
  <2>5. batch[b].vol \in Volumes
    BY <1>9 DEF ResumeChecks, CallInv
  <2>6. gate[batch[b].vol].batch \in Batches \cup {None}
    BY <2>5 DEF GateType, GateSet
  <2>7. \E c \in Batches \cup {None} : left = [gate EXCEPT ![batch[b].vol].batch = c]
    BY <2>6
  <2>2. left \in GateSet(lastEpoch)
    BY <2>7, GateWritten
  <2>3. gate' = left \/ gate' = [left EXCEPT ![batch[b].vol].ticket = "Start"]
    BY <1>9 DEF ResumeChecks
  <2> HIDE DEF left
  <2>4. gate' \in GateSet(lastEpoch)
    BY <2>2, <2>3 DEF GateSet, Tickets
  <2> QED BY <1>9, <2>1, <2>4
          DEF ResumeChecks, GateType, CallsType, StopsType, HostType, HistoryType
<1>10. ASSUME batch[b].at \in {"checking", "owned", "returned"},
              batch' = [batch EXCEPT ![b] = Over(NoBatch)], DropTicket(batch[b].vol),
              UNCHANGED <<lastEpoch, start, disable, release, stop, hostVars, late, historyVars>>
       PROVE  TypeInv'
  <2>1. batch[b].vol \in Volumes
    BY <1>10 DEF CallInv
  <2>2. gate' \in GateSet(lastEpoch) /\ lateStop' \in [Volumes -> LateStopSet] /\ asleep' = {}
    BY <1>10, <2>1, DropGate
  <2>3. batch' \in [Batches -> BatchSet(lastEpoch)] /\ CallInv'
    BY <1>1, <1>3, <1>4, <1>10
  <2> QED BY <1>10, <2>2, <2>3 DEF GateType, CallsType, StopsType, HostType, HistoryType
<1>11. CASE ResumeGoesOn(b)
  <2>1. CASE batch' = [batch EXCEPT ![b] = Over(NoBatch)] /\ DropTicket(batch[b].vol)
    <3>1. /\ batch[b].at \in {"checking", "owned", "returned"}
          /\ UNCHANGED <<lastEpoch, start, disable, release, stop, hostVars, late, historyVars>>
      BY <1>4, <1>11, <1>2, <2>1
         DEF ResumeGoesOn, ResumeOwned, ResumeGoes, ResumeReturns, ResumeDrops, CallsType, BatchSet
    <3> QED BY <1>10, <2>1, <3>1
  <2>2. ASSUME NEW at \in {"owned", "calling", "returned"}, batch[b].at \notin {"idle", "over"},
               batch' = [batch EXCEPT ![b].at = at], index' \in [Volumes -> BOOLEAN],
               UNCHANGED <<lastEpoch, gate, asleep, start, disable, release, stop, lateStop,
                           ejecting, wakeOwed, intent, late, historyVars>>
        PROVE  TypeInv'
    <3>1. batch' \in [Batches -> BatchSet(lastEpoch)] /\ CallInv'
      BY <1>8, <2>2
    <3> QED BY <2>2, <3>1 DEF GateType, CallsType, StopsType, HostType, HistoryType
  <2>3. CASE ResumeOwned(b)
    BY <2>1, <2>2, <2>3 DEF ResumeOwned, HostType
  <2>4. CASE ResumeGoes(b)
    BY <2>1, <2>2, <2>4 DEF ResumeGoes, HostType
  <2>5. CASE ResumeReturns(b)
    <3>1. index' \in [Volumes -> BOOLEAN]
      BY <2>5 DEF ResumeReturns, IndexStarts, HostType
    <3> QED BY <2>2, <2>5, <3>1 DEF ResumeReturns
  <2>6. CASE ResumeDrops(b)
    BY <2>1, <2>6 DEF ResumeDrops
  <2> QED BY <1>11, <2>3, <2>4, <2>5, <2>6 DEF ResumeGoesOn
<1> QED BY <1>5, <1>6, <1>7, <1>9, <1>11 DEF ResumeSteps

HostSteps ==
    \/ SetUnmountPending \/ ClearUnmountPending
    \/ \E v \in Volumes : EjectBegins(v) \/ EjectLands(v)
    \/ NotifyEjectingChanged

LEMMA HostTypes == ASSUME TypeInv, HostSteps PROVE TypeInv'
<1> USE DEF TypeInv, callVars, hostVars, historyVars
<1>1. CASE SetUnmountPending
  <2>1. PICK ids \in SUBSET Volumes :
           gate' = [v \in Volumes |-> [gate[v] EXCEPT !.pending = @ \/ v \in ids]]
    BY <1>1 DEF SetUnmountPending
  <2> DEFINE p == [v \in Volumes |-> gate[v].pending \/ v \in ids]
  <2>2. p \in [Volumes -> BOOLEAN]
    OBVIOUS
  <2>3. gate' = [v \in Volumes |-> [gate[v] EXCEPT !.pending = p[v]]]
    BY <2>1
  <2>4. gate' \in GateSet(lastEpoch)
    BY <2>2, <2>3, PendingWritten
  <2> QED BY <1>1, <2>4
          DEF SetUnmountPending, GateType, CallsType, StopsType, HostType, HistoryType, CallInv
<1>2. CASE ClearUnmountPending
  <2>3. PICK ids \in SUBSET Volumes :
           gate' = [v \in Volumes |-> [gate[v] EXCEPT !.pending = @ /\ v \notin ids]]
    BY <1>2 DEF ClearUnmountPending
  <2> DEFINE p == [v \in Volumes |-> gate[v].pending /\ v \notin ids]
  <2>4. p \in [Volumes -> BOOLEAN]
    OBVIOUS
  <2>5. gate' = [v \in Volumes |-> [gate[v] EXCEPT !.pending = p[v]]]
    BY <2>3
  <2>1. gate' \in GateSet(lastEpoch)
    BY <2>4, <2>5, PendingWritten
  <2>2. under' \in [Releases -> [Volumes -> SUBSET Causes]]
    BY <1>2 DEF ClearUnmountPending, HistoryType
  <2> QED BY <1>2, <2>1, <2>2
          DEF ClearUnmountPending, GateType, CallsType, StopsType, HostType, HistoryType, CallInv
<1>3. ASSUME NEW v \in Volumes, EjectBegins(v) PROVE TypeInv'
  BY <1>3 DEF EjectBegins, GateType, CallsType, StopsType, HostType, HistoryType, CallInv
<1>4. ASSUME NEW v \in Volumes, EjectLands(v) PROVE TypeInv'
  <2>1. \A b \in Batches : [batch[b] EXCEPT !.own = FALSE] \in BatchSet(lastEpoch)
    <3> TAKE b \in Batches
    <3>1. batch[b] \in BatchSet(lastEpoch)
      BY DEF CallsType
    <3> QED BY <3>1 DEF BatchSet
  <2>2. batch' \in [Batches -> BatchSet(lastEpoch)]
    BY <1>4, <2>1 DEF EjectLands, CallsType
  <2>3. CallInv'
    BY <1>4 DEF EjectLands, CallInv, CallsType, BatchSet
  <2>4. under' \in [Releases -> [Volumes -> SUBSET Causes]]
    BY <1>4 DEF EjectLands, HistoryType
  <2> QED BY <1>4, <2>2, <2>3, <2>4
          DEF EjectLands, GateType, CallsType, StopsType, HostType, HistoryType
<1>5. CASE NotifyEjectingChanged
  BY <1>5 DEF NotifyEjectingChanged, GateType, CallsType, StopsType, HostType, HistoryType, CallInv
<1> QED BY <1>1, <1>2, <1>3, <1>4, <1>5 DEF HostSteps

LEMMA NextIs ==
    Next <=> \/ \E s \in Starts : StartSteps(s)
             \/ \E d \in Disables : DisableSteps(d)
             \/ \E r \in Releases : ReleaseSteps(r)
             \/ \E r \in Releases, v \in Volumes : StopSteps(r, v)
             \/ \E v \in Volumes : LateStopSteps(v)
             \/ \E b \in Batches : ResumeSteps(b)
             \/ HostSteps
BY DEF Next, HostSteps

LEMMA StutterTypes == ASSUME TypeInv, UNCHANGED vars PROVE TypeInv'
BY DEF vars, callVars, hostVars, historyVars, TypeInv, GateType, CallsType, StopsType, HostType,
       HistoryType, CallInv

LEMMA StepTypes == TypeInv /\ [Next]_vars => TypeInv'
BY NextIs, StartTypes, DisableTypes, ReleaseTypes, StopTypes, LateStopTypes, ResumeTypes, HostTypes,
   StutterTypes

LEMMA Typed == Spec => []TypeInv
<1>1. Init => TypeInv
  BY InitTypeInv
<1>2. TypeInv /\ [Next]_vars => TypeInv'
  BY StepTypes
<1> QED BY <1>1, <1>2, PTL DEF Spec

(* Every part of the gate, of a call and of a stop thread has its type, in *)
(* every behaviour of Spec and for any number of drives and calls.         *)
THEOREM TypeCorrect == Spec => []TypeOK
BY Typed, TypeParts, PTL

-----------------------------------------------------------------------------
(* Tickets.  OneHolder does not tell a start from a resume that bears the  *)
(* same name; the invariant does, since each would drop the ticket.        *)

WithTicket == {"checking", "owned", "calling", "returned"}
HeldByStart(v) == {s \in Starts : start[s].vol = v /\ start[s].at \in WithTicket}
HeldByBatch(v) == {b \in Batches : batch[b].vol = v /\ batch[b].at \in WithTicket}
AtMostOne(S) == \A h, k \in S : h = k

TicketOf(v) ==
    /\ AtMostOne(HeldByStart(v)) /\ AtMostOne(HeldByBatch(v)) /\ AtMostOne(DisableHolders(v))
    /\ HeldByStart(v) = {} \/ HeldByBatch(v) = {}
    /\ gate[v].ticket = "Start" <=> HeldByStart(v) \cup HeldByBatch(v) # {}
    /\ gate[v].ticket = "Disable" <=> DisableHolders(v) # {}
    /\ gate[v].ticket = "LateStop" <=> lateStop[v].at # "over"
    /\ gate[v].late # {} => Held(v)
TicketInv == \A v \in Volumes : TicketOf(v)

LEMMA TicketParts == TypeInv /\ TicketInv => OneHolder
<1> SUFFICES ASSUME TypeInv, TicketInv PROVE OneHolder
  OBVIOUS
<1>1. \A s \in Starts : start[s].at # "owned"
  BY DEF TypeInv, CallsType, StartSet
<1>2. \A v \in Volumes : StartHolders(v) = HeldByStart(v) \cup HeldByBatch(v)
  BY <1>1 DEF StartHolders, HeldByStart, HeldByBatch, WithTicket
<1> QED BY <1>2 DEF TicketInv, TicketOf, AtMostOne, OneHolder

LEMMA InitTicketInv == Init => TicketInv
<1> SUFFICES ASSUME Init, NEW v \in Volumes PROVE TicketOf(v)
  BY DEF TicketInv
<1>1. HeldByStart(v) = {} /\ HeldByBatch(v) = {} /\ DisableHolders(v) = {}
  BY DEF Init, NoStart, NoBatch, NoDisable, HeldByStart, HeldByBatch, DisableHolders, WithTicket
<1>2. gate[v].ticket = None /\ gate[v].late = {} /\ lateStop[v].at = "over"
  BY DEF Init, NoLateStop
<1> QED BY <1>1, <1>2, NoneAssumption DEF TicketOf, AtMostOne, Tickets

\* One call moves, and the tickets of its kind with it.
LEMMA StartMoves ==
    ASSUME start \in [Starts -> StartSet], NEW s \in Starts, NEW x \in StartSet,
           start' = [start EXCEPT ![s] = x], NEW w
    PROVE  HeldByStart(w)' = (HeldByStart(w) \ {s})
              \cup (IF x.vol = w /\ x.at \in WithTicket THEN {s} ELSE {})
BY DEF HeldByStart

LEMMA BatchMoves ==
    ASSUME batch \in [Batches -> BatchSet(lastEpoch)], NEW b \in Batches, NEW x,
           batch' = [batch EXCEPT ![b] = x], NEW w
    PROVE  HeldByBatch(w)' = (HeldByBatch(w) \ {b})
              \cup (IF x.vol = w /\ x.at \in WithTicket THEN {b} ELSE {})
BY DEF HeldByBatch

LEMMA DisableMoves ==
    ASSUME disable \in [Disables -> DisableSet], NEW d \in Disables, NEW x,
           disable' = [disable EXCEPT ![d] = x], NEW w
    PROVE  DisableHolders(w)' = (DisableHolders(w) \ {d})
              \cup (IF x.vol = w /\ x.held /\ x.at \in {"ready", "called", "returned"}
                    THEN {d} ELSE {})
BY DEF DisableHolders

SameHolders(w) ==
    /\ HeldByStart(w)' = HeldByStart(w)
    /\ HeldByBatch(w)' = HeldByBatch(w)
    /\ DisableHolders(w)' = DisableHolders(w)

LEMMA TicketKept ==
    ASSUME NEW w, TicketOf(w), SameHolders(w), gate'[w].ticket = gate[w].ticket,
           gate'[w].late \subseteq gate[w].late \/ Held(w),
           lateStop'[w].at = "over" <=> lateStop[w].at = "over"
    PROVE  TicketOf(w)'
BY DEF TicketOf, SameHolders, AtMostOne, Held

LEMMA TicketTaken ==
    ASSUME GateType, NEW v \in Volumes, TicketOf(v), ~Held(v), NEW c,
           \/ /\ gate'[v].ticket = "Start" /\ HeldByStart(v)' = {c}
              /\ HeldByBatch(v)' = HeldByBatch(v) /\ DisableHolders(v)' = DisableHolders(v)
           \/ /\ gate'[v].ticket = "Start" /\ HeldByBatch(v)' = {c}
              /\ HeldByStart(v)' = HeldByStart(v) /\ DisableHolders(v)' = DisableHolders(v)
           \/ /\ gate'[v].ticket = "Disable" /\ DisableHolders(v)' = {c}
              /\ HeldByStart(v)' = HeldByStart(v) /\ HeldByBatch(v)' = HeldByBatch(v),
           gate'[v].late = gate[v].late, lateStop'[v] = lateStop[v]
    PROVE  TicketOf(v)'
<1>1. gate[v].ticket = None
  BY DEF Held
<1>2. None \notin Tickets
  BY NoneAssumption
<1>3. HeldByStart(v) = {} /\ HeldByBatch(v) = {} /\ DisableHolders(v) = {} /\ lateStop[v].at = "over"
  BY <1>1, <1>2 DEF TicketOf, Tickets
<1>4. Held(v)'
  BY <1>2 DEF Held, Tickets
<1>5. gate'[v].ticket # "LateStop"
  OBVIOUS
<1> QED BY <1>3, <1>4, <1>5 DEF TicketOf, AtMostOne

LEMMA TicketDropped ==
    ASSUME GateType, StopsType, NEW v \in Volumes, DropTicket(v), TicketInv,
           HeldByStart(v)' = {}, HeldByBatch(v)' = {}, DisableHolders(v)' = {},
           \A w \in Volumes \ {v} : SameHolders(w)
    PROVE  TicketInv'
<1>1. /\ gate'[v].ticket = IF gate[v].late = {} THEN None ELSE "LateStop"
      /\ gate'[v].late = {} /\ lateStop'[v] = HandedTo(gate[v].late)
      /\ \A w \in Volumes \ {v} : gate'[w] = gate[w] /\ lateStop'[w] = lateStop[w]
  BY DEF DropTicket, GateType, GateSet, StopsType
<1>2. lateStop'[v].at = IF gate[v].late = {} THEN "over" ELSE "handed"
  BY <1>1 DEF HandedTo, NoLateStop
<1>3. TicketOf(v)'
  BY <1>1, <1>2, NoneAssumption DEF TicketOf, AtMostOne, Tickets
<1>4. ASSUME NEW w \in Volumes, w # v PROVE TicketOf(w)'
  BY <1>1, <1>4, TicketKept DEF TicketInv
<1> QED BY <1>3, <1>4 DEF TicketInv

\* A turn queues a release at a gate only where the ticket is out.
LEMMA TurnGate ==
    ASSUME StopsType, NEW r \in Releases, NEW rel, NEW g, NEW e, g \in GateSet(e),
           rel.ids \subseteq Volumes,
           NEW timedOut \in BOOLEAN, ReleaseTurn(r, rel, g, timedOut), NEW w \in Volumes
    PROVE  /\ gate'[w].ticket = g[w].ticket /\ gate'[w].batch = g[w].batch
           /\ gate'[w].pending = g[w].pending /\ gate'[w].epoch = g[w].epoch
           /\ \/ gate'[w].late = g[w].late
              \/ gate'[w].late = g[w].late \cup {r} /\ g[w].ticket # None
<1>1. PICK failed \in SUBSET Free(rel, g) :
         LET turned == Turned(r, rel, g, failed)
             slots == TurnSlots(r, rel, g, failed)
         IN  \/ /\ Open(rel, turned) # {} /\ timedOut
                /\ GivesUp(r, rel, g, turned, slots)
             \/ /\ Open(rel, turned) = {} \/ ~timedOut
                /\ GoesRound(r, rel, g, turned, slots)
  BY Turn
<1>2. PICK turned, slots : turned = Turned(r, rel, g, failed) /\ slots = TurnSlots(r, rel, g, failed)
  OBVIOUS
<1>3. CASE GivesUp(r, rel, g, turned, slots)
  <2>1. ASSUME w \in Queued(rel, turned) PROVE g[w].ticket # None
    <3>1. w \in rel.ids /\ turned[w] = "WaitingForTicket"
      BY <2>1 DEF Queued, Open
    <3>2. stop[r][w].out # "WaitingForTicket"
      BY DEF StopsType, StopSet, Outcomes, LetGo
    <3>3. w \notin Free(rel, g) /\ rel.answer[w] = "WaitingForTicket"
      BY <1>2, <3>1, <3>2 DEF Turned
    <3> QED BY <3>1, <3>3 DEF Free
  <2>2. gate'[w] = IF w \in Queued(rel, turned) THEN [g[w] EXCEPT !.late = @ \cup {r}] ELSE g[w]
    BY <1>3 DEF GivesUp
  <2> QED BY <2>1, <2>2 DEF GateSet
<1>4. CASE GoesRound(r, rel, g, turned, slots)
  BY <1>4 DEF GoesRound
<1> QED BY <1>1, <1>2, <1>3, <1>4

\* What any step of a release leaves of the gates.
LEMMA ReleaseGate ==
    ASSUME TypeInv, NEW r \in Releases, ReleaseSteps(r), NEW w \in Volumes
    PROVE  /\ gate'[w].ticket = gate[w].ticket /\ gate'[w].pending = gate[w].pending
           /\ gate'[w].batch \in {gate[w].batch, None}
           /\ \/ gate'[w].late = gate[w].late
              \/ gate'[w].late = gate[w].late \cup {r} /\ gate[w].ticket # None
<1> USE DEF TypeInv
<1>1. CASE ReleaseAsked(r)
  <2>0. PICK ids \in SUBSET Volumes, timedOut \in BOOLEAN : \E g, rel :
           /\ g = Bumped(ids) /\ rel = Asking(r, ids, g)
           /\ ReleaseTurn(r, rel, g, timedOut)
    BY <1>1, AskingTurn
  <2>1. PICK g, rel :
           /\ g = Bumped(ids) /\ rel = Asking(r, ids, g)
           /\ ReleaseTurn(r, rel, g, timedOut)
    BY <2>0
  <2>2. /\ g \in GateSet(lastEpoch + Cardinality(ids))
        /\ g[w].ticket = gate[w].ticket /\ g[w].late = gate[w].late
        /\ g[w].pending = gate[w].pending /\ g[w].batch \in {gate[w].batch, None}
    BY <2>1, BumpedGate
  <2>3. rel.ids = ids
    BY <2>1 DEF Asking, CallsType, ReleaseSet
  <2> QED BY <2>1, <2>2, <2>3, TurnGate
<1>2. ASSUME NEW timedOut \in BOOLEAN, ReleaseTurn(r, release[r], gate, timedOut) PROVE
           /\ gate'[w].ticket = gate[w].ticket /\ gate'[w].pending = gate[w].pending
           /\ gate'[w].batch \in {gate[w].batch, None}
           /\ \/ gate'[w].late = gate[w].late
              \/ gate'[w].late = gate[w].late \cup {r} /\ gate[w].ticket # None
  <2> PICK g, rel : g = gate /\ rel = release[r]
    OBVIOUS
  <2>1. g \in GateSet(lastEpoch) /\ rel.ids \subseteq Volumes /\ ReleaseTurn(r, rel, g, timedOut)
    BY <1>2 DEF GateType, CallsType, ReleaseSet
  <2> QED BY <2>1, TurnGate
<1>3. CASE ReleaseWoken(r) \/ ReleaseTimesOut(r)
  BY <1>2, <1>3 DEF ReleaseWoken, ReleaseTimesOut
<1> QED BY <1>1, <1>3 DEF ReleaseSteps

LEMMA ReleaseTickets ==
    ASSUME TypeInv, TicketInv, NEW r \in Releases, ReleaseSteps(r) PROVE TicketInv'
<1> SUFFICES ASSUME NEW w \in Volumes PROVE TicketOf(w)'
  BY DEF TicketInv
<1>1. UNCHANGED <<start, disable, batch, lateStop>>
  BY DEF ReleaseSteps, ReleaseAsked, ReleaseWoken, ReleaseTimesOut
<1>2. SameHolders(w)
  BY <1>1 DEF SameHolders, HeldByStart, HeldByBatch, DisableHolders
<1>3. /\ gate'[w].ticket = gate[w].ticket
      /\ gate'[w].late = gate[w].late \/ gate[w].ticket # None
  BY ReleaseGate
<1> QED BY <1>1, <1>2, <1>3, TicketKept DEF TicketInv, Held

LEMMA StartTickets ==
    ASSUME TypeInv, TicketInv, NEW s \in Starts, StartSteps(s) PROVE TicketInv'
<1> USE DEF callVars, hostVars, historyVars
<1>1. start[s] \in StartSet /\ start' \in [Starts -> StartSet] /\ UNCHANGED <<disable, batch>>
  <2>1. TypeInv'
    BY StartTypes
  <2>2. UNCHANGED <<disable, batch>>
    BY DEF StartSteps, StartAsked, StartWoken, StartGivesUp, StartGoesOn, StartListed,
           StartReturns, StartDrops
  <2> QED BY <2>1, <2>2 DEF TypeInv, CallsType
<1>2. \A w \in Volumes :
         HeldByBatch(w)' = HeldByBatch(w) /\ DisableHolders(w)' = DisableHolders(w)
  BY <1>1 DEF HeldByBatch, DisableHolders
<1>3. ASSUME NEW x, start' = [start EXCEPT ![s] = x]
      PROVE  /\ x \in StartSet
             /\ \A w : HeldByStart(w)' = (HeldByStart(w) \ {s})
                   \cup (IF x.vol = w /\ x.at \in WithTicket THEN {s} ELSE {})
  <2>1. start'[s] = x /\ start'[s] \in StartSet
    BY <1>1, <1>3 DEF TypeInv, CallsType
  <2>2. x \in StartSet
    BY <2>1
  <2> QED BY <1>3, <2>2, StartMoves DEF TypeInv, CallsType
<1>4. ASSUME NEW x, start' = [start EXCEPT ![s] = x], UNCHANGED <<gate, lateStop>>,
             x.at \in WithTicket <=> start[s].at \in WithTicket,
             x.at \in WithTicket => x.vol = start[s].vol
      PROVE  TicketInv'
  <2> SUFFICES ASSUME NEW w \in Volumes PROVE TicketOf(w)'
    BY DEF TicketInv
  <2>1. HeldByStart(w)' = HeldByStart(w)
    BY <1>3, <1>4 DEF HeldByStart
  <2> QED BY <1>2, <1>4, <2>1, TicketKept DEF TicketInv, SameHolders
<1>5. ASSUME NEW x, start' = [start EXCEPT ![s] = x], start[s].at \notin WithTicket,
             NEW v \in Volumes, x.vol = v, x.at \in WithTicket, ~Held(v),
             gate' = [gate EXCEPT ![v].ticket = "Start"], UNCHANGED lateStop
      PROVE  TicketInv'
  <2>1. \A w \in Volumes : HeldByStart(w)' = IF w = v THEN HeldByStart(w) \cup {s} ELSE HeldByStart(w)
    BY <1>3, <1>5 DEF HeldByStart
  <2>2. HeldByStart(v) = {}
    BY <1>5, NoneAssumption DEF TicketInv, TicketOf, Held, Tickets
  <2>3. gate'[v].ticket = "Start" /\ gate'[v].late = gate[v].late
    BY <1>5 DEF TypeInv, GateType, GateSet
  <2>4. HeldByStart(v)' = {s}
    BY <2>1, <2>2
  <2>5. TicketOf(v)'
    BY <1>2, <1>5, <2>3, <2>4, TicketTaken DEF TicketInv, TypeInv
  <2>6. ASSUME NEW w \in Volumes, w # v PROVE TicketOf(w)'
    <3>1. gate'[w] = gate[w] /\ SameHolders(w)
      BY <1>2, <1>5, <2>1, <2>6 DEF TypeInv, GateType, GateSet, SameHolders
    <3> QED BY <1>5, <3>1, TicketKept DEF TicketInv
  <2> QED BY <2>5, <2>6 DEF TicketInv
<1>6. ASSUME start' = [start EXCEPT ![s] = Over(NoStart)], start[s].at \in WithTicket,
             DropTicket(start[s].vol)
      PROVE  TicketInv'
  <2> PICK v : v = start[s].vol
    OBVIOUS
  <2>1. v \in Volumes /\ s \in HeldByStart(v)
    BY <1>1, <1>6 DEF TypeInv, CallInv, HeldByStart, WithTicket, StartSet
  <2>2. HeldByStart(v) = {s} /\ HeldByBatch(v) = {} /\ DisableHolders(v) = {}
    BY <2>1 DEF TicketInv, TicketOf, AtMostOne
  <2>3. Over(NoStart).at \notin WithTicket
    BY DEF Over, NoStart, WithTicket
  <2>4. \A w : HeldByStart(w)' = HeldByStart(w) \ {s}
    BY <1>3, <1>6, <2>3
  <2>5. \A w \in Volumes \ {v} : SameHolders(w)
    BY <1>2, <2>4, <2>1 DEF SameHolders, HeldByStart
  <2>6. HeldByStart(v)' = {} /\ HeldByBatch(v)' = {} /\ DisableHolders(v)' = {}
    BY <1>2, <2>1, <2>2, <2>4
  <2> QED BY <1>6, <2>1, <2>5, <2>6, TicketDropped DEF TypeInv
<1>7. ASSUME NEW v \in Volumes, NEW person, NEW waited, StartTurn(s, v, person, waited),
             start[s].at \notin WithTicket, UNCHANGED lateStop
      PROVE  TicketInv'
  <2>1. Over(NoStart).at \notin WithTicket
    BY DEF Over, NoStart, WithTicket
  <2>2. CASE Leaving(v) /\ ~person
    <3>1. start' = [start EXCEPT ![s] = Over(NoStart)] /\ UNCHANGED gate
      BY <1>7, <2>2 DEF StartTurn
    <3> QED BY <1>4, <1>7, <2>1, <3>1
  <2>3. CASE ~Leaving(v) /\ ~Held(v)
    <3>1. PICK x : x = [at |-> IF waited THEN "checking" ELSE "calling",
                        vol |-> v, person |-> person, waited |-> waited]
      OBVIOUS
    <3>2. x.vol = v /\ x.at \in WithTicket
      BY <3>1 DEF WithTicket
    <3> QED BY <1>5, <1>7, <2>3, <3>1, <3>2 DEF StartTurn
  <2>4. CASE IF Leaving(v) THEN person ELSE Held(v)
    <3>1. PICK x : x = [at |-> "waiting", vol |-> v, person |-> person,
                        waited |-> waited \/ Leaving(v)]
      OBVIOUS
    <3>2. x.at \notin WithTicket
      BY <3>1 DEF WithTicket
    <3>3. start' = [start EXCEPT ![s] = x] /\ UNCHANGED gate
      BY <1>7, <2>4, <3>1 DEF StartTurn
    <3> QED BY <1>4, <1>7, <3>2, <3>3
  <2> QED BY <1>7, <2>2, <2>3, <2>4 DEF StartTurn
<1>8. CASE StartAsked(s)
  BY <1>7, <1>8 DEF StartAsked, WithTicket
<1>9. CASE StartWoken(s)
  BY <1>7, <1>9 DEF StartWoken, WithTicket, TypeInv, CallInv
<1>10. CASE StartGivesUp(s)
  BY <1>4, <1>10 DEF StartGivesUp, WithTicket, Over, NoStart
<1>11. CASE StartListed(s)
  <2>1. CASE start' = [start EXCEPT ![s].at = "calling"] /\ UNCHANGED <<gate, lateStop, asleep>>
    <3>1. PICK x : x = [start[s] EXCEPT !.at = "calling"]
      OBVIOUS
    <3>2. x.at = "calling" /\ x.vol = start[s].vol
      BY <1>1, <3>1 DEF StartSet
    <3> QED BY <1>4, <1>11, <2>1, <3>1, <3>2 DEF StartListed, WithTicket
  <2>2. CASE start' = [start EXCEPT ![s] = Over(NoStart)] /\ DropTicket(start[s].vol)
    BY <1>6, <1>11, <2>2 DEF StartListed, WithTicket
  <2> QED BY <1>11, <2>1, <2>2 DEF StartListed
<1>12. CASE StartReturns(s)
  <2>1. PICK x : x = [start[s] EXCEPT !.at = "returned"]
    OBVIOUS
  <2>2. x.at = "returned" /\ x.vol = start[s].vol
    BY <1>1, <2>1 DEF StartSet
  <2> QED BY <1>4, <1>12, <2>1, <2>2 DEF StartReturns, WithTicket
<1>13. CASE StartDrops(s)
  BY <1>6, <1>13 DEF StartDrops, WithTicket
<1> QED BY <1>8, <1>9, <1>10, <1>11, <1>12, <1>13 DEF StartSteps, StartGoesOn

LEMMA DisableTickets ==
    ASSUME TypeInv, TicketInv, NEW d \in Disables, DisableSteps(d) PROVE TicketInv'
<1> USE DEF callVars, hostVars, historyVars
<1>1. disable[d] \in DisableSet /\ disable' \in [Disables -> DisableSet]
  <2>1. TypeInv'
    BY DisableTypes
  <2> QED BY <2>1 DEF TypeInv, CallsType
<1>2. /\ UNCHANGED <<start, batch>> => \A w : /\ HeldByStart(w)' = HeldByStart(w)
                                              /\ HeldByBatch(w)' = HeldByBatch(w)
  BY DEF HeldByStart, HeldByBatch
<1>3. ASSUME NEW x, disable' = [disable EXCEPT ![d] = x]
      PROVE  \A w : DisableHolders(w)' = (DisableHolders(w) \ {d})
                \cup (IF x.vol = w /\ x.held /\ x.at \in {"ready", "called", "returned"}
                      THEN {d} ELSE {})
  BY <1>3, DisableMoves DEF TypeInv, CallsType
<1>4. ASSUME \A w : DisableHolders(w)' = DisableHolders(w),
             \A w : HeldByStart(w)' = HeldByStart(w) /\ HeldByBatch(w)' = HeldByBatch(w),
             \A w \in Volumes : gate'[w].ticket = gate[w].ticket /\ gate'[w].late = gate[w].late,
             UNCHANGED lateStop
      PROVE  TicketInv'
  BY <1>4, TicketKept DEF TicketInv, SameHolders
<1>5. ASSUME NEW v \in Volumes, NEW g, DisableTurn(d, v, g), ~disable[d].held,
             g \in GateSet(lastEpoch'),
             \A w \in Volumes : g[w].ticket = gate[w].ticket /\ g[w].late = gate[w].late,
             UNCHANGED <<start, batch, lateStop>>
      PROVE  TicketInv'
  <2>1. \A w : d \notin DisableHolders(w)
    BY <1>5 DEF DisableHolders
  <2>2. CASE g[v].ticket = None
    <3>1. PICK x : x = [at |-> "ready", vol |-> v, held |-> TRUE]
      OBVIOUS
    <3>2. disable' = [disable EXCEPT ![d] = x]
      BY <1>5, <2>2, <3>1 DEF DisableTurn
    <3>9. x.vol = v /\ x.held /\ x.at = "ready"
      BY <3>1
    <3>3. \A w : DisableHolders(w)' = IF w = v THEN DisableHolders(w) \cup {d} ELSE DisableHolders(w)
      <4>1. \A w : DisableHolders(w)' = (DisableHolders(w) \ {d})
               \cup (IF x.vol = w /\ x.held /\ x.at \in {"ready", "called", "returned"}
                     THEN {d} ELSE {})
        BY <1>3, <3>2
      <4> QED BY <2>1, <3>9, <4>1
    <3>4. ~Held(v) /\ DisableHolders(v) = {}
      BY <1>5, <2>2, NoneAssumption DEF Held, TicketInv, TicketOf, Tickets
    <3>5. /\ gate'[v].ticket = "Disable" /\ gate'[v].late = gate[v].late
          /\ \A w \in Volumes \ {v} : gate'[w].ticket = gate[w].ticket /\ gate'[w].late = gate[w].late
      BY <1>5, <2>2 DEF DisableTurn, GateSet
    <3>6. DisableHolders(v)' = {d}
      BY <3>3, <3>4
    <3>7. TicketOf(v)'
      BY <1>2, <1>5, <3>4, <3>5, <3>6, TicketTaken DEF TicketInv, TypeInv
    <3>8. \A w \in Volumes \ {v} : TicketOf(w)'
      BY <1>2, <1>5, <3>3, <3>5, TicketKept DEF TicketInv, SameHolders
    <3> QED BY <3>7, <3>8 DEF TicketInv
  <2>3. CASE g[v].ticket # None
    <3>1. PICK x : x = [at |-> "waiting", vol |-> v, held |-> FALSE]
      OBVIOUS
    <3>2. disable' = [disable EXCEPT ![d] = x] /\ gate' = g
      BY <1>5, <2>3, <3>1 DEF DisableTurn
    <3>4. ~x.held
      BY <3>1
    <3>3. \A w : DisableHolders(w)' = DisableHolders(w)
      <4>1. \A w : DisableHolders(w)' = (DisableHolders(w) \ {d})
               \cup (IF x.vol = w /\ x.held /\ x.at \in {"ready", "called", "returned"}
                     THEN {d} ELSE {})
        BY <1>3, <3>2
      <4> QED BY <2>1, <3>4, <4>1
    <3> QED BY <1>2, <1>4, <1>5, <3>2, <3>3
  <2> QED BY <2>2, <2>3
<1>6. ASSUME NEW x, disable' = [disable EXCEPT ![d] = x], UNCHANGED <<start, batch, lateStop>>,
             x.vol = disable[d].vol, x.held = disable[d].held,
             x.at \in {"ready", "called", "returned"}, disable[d].at \in {"waiting", "ready", "called"},
             \A w \in Volumes : gate'[w].ticket = gate[w].ticket /\ gate'[w].late = gate[w].late
      PROVE  TicketInv'
  <2>1. disable[d].held => disable[d].at \in {"ready", "called", "returned"}
    BY DEF TypeInv, CallInv
  <2>2. \A w : DisableHolders(w)' = DisableHolders(w)
    BY <1>3, <1>6, <2>1 DEF DisableHolders
  <2> QED BY <1>2, <1>4, <1>6, <2>2
<1>7. CASE DisableAsked(d)
  <2>1. PICK v \in Volumes : DisableTurn(d, v, Bumped({v}))
    BY <1>7 DEF DisableAsked
  <2> PICK g : g = Bumped({v})
    OBVIOUS
  <2>2. lastEpoch' = lastEpoch + 1 /\ Cardinality({v}) = 1 /\ {v} \in SUBSET Volumes
    BY <1>7, FS_Singleton DEF DisableAsked
  <2>3. /\ g \in GateSet(lastEpoch')
        /\ \A w \in Volumes : g[w].ticket = gate[w].ticket /\ g[w].late = gate[w].late
    BY <2>2, BumpedGate DEF TypeInv
  <2>4. ~disable[d].held
    BY <1>7 DEF DisableAsked, TypeInv, CallInv, CallsType, DisableSet
  <2> QED BY <1>5, <1>7, <2>1, <2>3, <2>4 DEF DisableAsked
<1>8. CASE DisableWoken(d)
  <2> PICK g : g = gate
    OBVIOUS
  <2>1. disable[d].vol \in Volumes /\ ~disable[d].held
    BY <1>8 DEF DisableWoken, TypeInv, CallInv, CallsType, DisableSet
  <2>2. DisableTurn(d, disable[d].vol, g) /\ g \in GateSet(lastEpoch')
    BY <1>8 DEF DisableWoken, TypeInv, GateType
  <2> QED BY <1>5, <1>8, <2>1, <2>2 DEF DisableWoken
<1>9. CASE DisableGivesUp(d)
  <2>1. PICK x : x = [disable[d] EXCEPT !.at = "ready"]
    OBVIOUS
  <2>2. x.at = "ready" /\ x.vol = disable[d].vol /\ x.held = disable[d].held
    BY <1>1, <2>1 DEF DisableSet
  <2> QED BY <1>6, <1>9, <2>1, <2>2 DEF DisableGivesUp
<1>10. CASE DisableCalls(d)
  <2> PICK v : v = disable[d].vol
    OBVIOUS
  <2>1. PICK x : x = [disable[d] EXCEPT !.at = "called"]
    OBVIOUS
  <2>2. x.at = "called" /\ x.vol = disable[d].vol /\ x.held = disable[d].held
    BY <1>1, <2>1 DEF DisableSet
  <2>3. disable' = [disable EXCEPT ![d] = x]
    BY <1>10, <2>1 DEF DisableCalls
  <2>4. \A w : DisableHolders(w)' = DisableHolders(w)
    BY <1>3, <1>10, <2>2, <2>3 DEF DisableHolders, DisableCalls
  <2>5. \A s \in Starts : /\ start'[s].vol = start[s].vol
                          /\ start'[s].at \in WithTicket <=> start[s].at \in WithTicket
    BY <1>10 DEF DisableCalls, TypeInv, CallsType, StartSet, WithTicket
  <2>6. \A b \in Batches : /\ batch'[b].vol = batch[b].vol
                           /\ batch'[b].at \in WithTicket <=> batch[b].at \in WithTicket
    BY <1>10 DEF DisableCalls, TypeInv, CallsType, BatchSet, WithTicket
  <2>7. \A w : HeldByStart(w)' = HeldByStart(w) /\ HeldByBatch(w)' = HeldByBatch(w)
    BY <2>5, <2>6 DEF HeldByStart, HeldByBatch
  <2> QED BY <1>4, <1>10, <2>4, <2>7 DEF DisableCalls
<1>11. CASE DisableMovesEpoch(d)
  <2> PICK v : v = disable[d].vol
    OBVIOUS
  <2>1. v \in Volumes
    BY <1>11 DEF DisableMovesEpoch, TypeInv, CallInv
  <2>2. gate' = Bumped({v}) /\ {v} \in SUBSET Volumes
    BY <1>11, <2>1 DEF DisableMovesEpoch
  <2>3. \A w \in Volumes : gate'[w].ticket = gate[w].ticket /\ gate'[w].late = gate[w].late
    BY <2>2, BumpedGate DEF TypeInv
  <2>4. PICK x : x = [disable[d] EXCEPT !.at = "returned"]
    OBVIOUS
  <2>5. x.at = "returned" /\ x.vol = disable[d].vol /\ x.held = disable[d].held
    BY <1>1, <2>4 DEF DisableSet
  <2> QED BY <1>6, <1>11, <2>3, <2>4, <2>5 DEF DisableMovesEpoch
<1>12. CASE DisableDrops(d)
  <2> PICK v : v = disable[d].vol
    OBVIOUS
  <2>1. v \in Volumes /\ UNCHANGED <<start, batch>>
    BY <1>12 DEF DisableDrops, TypeInv, CallInv
  <2>2. ~Over(NoDisable).held
    BY DEF Over, NoDisable
  <2>3. \A w : DisableHolders(w)' = DisableHolders(w) \ {d}
    BY <1>3, <1>12, <2>2 DEF DisableDrops
  <2>4. CASE ~disable[d].held
    <3>1. \A w : d \notin DisableHolders(w)
      BY <2>4 DEF DisableHolders
    <3> QED BY <1>2, <1>4, <1>12, <2>1, <2>3, <2>4, <3>1 DEF DisableDrops
  <2>5. CASE disable[d].held
    <3>1. d \in DisableHolders(v)
      BY <1>12, <2>5 DEF DisableDrops, DisableHolders
    <3>2. DisableHolders(v) = {d} /\ HeldByStart(v) = {} /\ HeldByBatch(v) = {}
      BY <2>1, <3>1 DEF TicketInv, TicketOf, AtMostOne
    <3>3. \A w \in Volumes \ {v} : SameHolders(w)
      BY <1>2, <2>1, <2>3 DEF SameHolders, DisableHolders
    <3>4. DropTicket(v) /\ HeldByStart(v)' = {} /\ HeldByBatch(v)' = {} /\ DisableHolders(v)' = {}
      BY <1>2, <1>12, <2>1, <2>3, <2>5, <3>2 DEF DisableDrops
    <3> QED BY <2>1, <3>3, <3>4, TicketDropped DEF TypeInv
  <2> QED BY <2>4, <2>5
<1> QED BY <1>7, <1>8, <1>9, <1>10, <1>11, <1>12 DEF DisableSteps, DisableGoesOn

LEMMA CallsStay ==
    UNCHANGED <<start, disable, batch>> => \A w : SameHolders(w)
BY DEF SameHolders, HeldByStart, HeldByBatch, DisableHolders

LEMMA LateStopTickets ==
    ASSUME TypeInv, TicketInv, NEW v \in Volumes, LateStopSteps(v) PROVE TicketInv'
<1> USE DEF callVars, hostVars, historyVars
<1>1. \A w : SameHolders(w)
  BY CallsStay DEF LateStopSteps, LateStopReads, LateStopRuns, LateStopAnswers, LateStopDrops,
                   LateStopNotSpawned
<1>2. ASSUME UNCHANGED gate, lateStop[v].at # "over", lateStop'[v].at # "over",
             \A w \in Volumes \ {v} : lateStop'[w] = lateStop[w]
      PROVE  TicketInv'
  BY <1>1, <1>2, TicketKept DEF TicketInv
<1>3. CASE LateStopReads(v) \/ LateStopRuns(v) \/ LateStopAnswers(v)
  BY <1>2, <1>3 DEF LateStopReads, LateStopRuns, LateStopAnswers, TypeInv, StopsType, LateStopSet
<1>4. ASSUME DropTicket(v), lateStop[v].at # "over" PROVE TicketInv'
  <2>1. HeldByStart(v) = {} /\ HeldByBatch(v) = {} /\ DisableHolders(v) = {}
    BY <1>4 DEF TicketInv, TicketOf
  <2> QED BY <1>1, <1>4, <2>1, TicketDropped DEF SameHolders, TypeInv
<1>5. CASE LateStopDrops(v) \/ LateStopNotSpawned(v)
  BY <1>4, <1>5 DEF LateStopDrops, LateStopNotSpawned
<1> QED BY <1>3, <1>5 DEF LateStopSteps

LEMMA ResumeTickets ==
    ASSUME TypeInv, TicketInv, NEW b \in Batches, ResumeSteps(b) PROVE TicketInv'
<1> USE DEF callVars, hostVars, historyVars
<1>1. batch[b] \in BatchSet(lastEpoch) /\ UNCHANGED <<start, disable>>
  BY DEF TypeInv, CallsType, ResumeSteps, ResumeAsked, ResumeNotSpawned, ResumeSettles,
         ResumeChecks, ResumeGoesOn, ResumeOwned, ResumeGoes, ResumeReturns, ResumeDrops
<1>2. \A w : HeldByStart(w)' = HeldByStart(w) /\ DisableHolders(w)' = DisableHolders(w)
  BY <1>1 DEF HeldByStart, DisableHolders
<1>3. ASSUME NEW x, batch' = [batch EXCEPT ![b] = x]
      PROVE  \A w : HeldByBatch(w)' = (HeldByBatch(w) \ {b})
                \cup (IF x.vol = w /\ x.at \in WithTicket THEN {b} ELSE {})
  BY <1>3, BatchMoves DEF TypeInv, CallsType
<1>4. ASSUME NEW x, batch' = [batch EXCEPT ![b] = x], UNCHANGED lateStop,
             \A w \in Volumes : gate'[w].ticket = gate[w].ticket /\ gate'[w].late = gate[w].late,
             x.at \in WithTicket <=> batch[b].at \in WithTicket,
             x.at \in WithTicket => x.vol = batch[b].vol
      PROVE  TicketInv'
  <2>1. \A w : HeldByBatch(w)' = HeldByBatch(w)
    BY <1>3, <1>4 DEF HeldByBatch
  <2> QED BY <1>2, <1>4, <2>1, TicketKept DEF TicketInv, SameHolders
<1>5. ASSUME batch' = [batch EXCEPT ![b] = Over(NoBatch)], batch[b].at \in WithTicket,
             DropTicket(batch[b].vol)
      PROVE  TicketInv'
  <2> PICK v : v = batch[b].vol
    OBVIOUS
  <2>1. v \in Volumes /\ b \in HeldByBatch(v)
    BY <1>5 DEF TypeInv, CallInv, HeldByBatch, WithTicket
  <2>2. HeldByBatch(v) = {b} /\ HeldByStart(v) = {} /\ DisableHolders(v) = {}
    BY <2>1 DEF TicketInv, TicketOf, AtMostOne
  <2>3. Over(NoBatch).at \notin WithTicket
    BY DEF Over, NoBatch, WithTicket
  <2>4. \A w : HeldByBatch(w)' = HeldByBatch(w) \ {b}
    BY <1>3, <1>5, <2>3
  <2>5. \A w \in Volumes \ {v} : SameHolders(w)
    BY <1>2, <2>4, <2>1 DEF SameHolders, HeldByBatch
  <2>6. HeldByStart(v)' = {} /\ HeldByBatch(v)' = {} /\ DisableHolders(v)' = {}
    BY <1>2, <2>1, <2>2, <2>4
  <2> QED BY <1>5, <2>1, <2>5, <2>6, TicketDropped DEF TypeInv
<1>6. Over(NoBatch).at \notin WithTicket
  BY DEF Over, NoBatch, WithTicket
<1>7. CASE ResumeAsked(b)
  <2>1. PICK v \in Volumes, own \in BOOLEAN, e \in 0..lastEpoch : HandedBack(b, v, own, e)
    BY <1>7, HandBack DEF TypeInv
  <2>2. \A w \in Volumes : gate'[w].ticket = gate[w].ticket /\ gate'[w].late = gate[w].late
    BY <2>1 DEF HandedBack, TypeInv, GateType, GateSet
  <2>3. PICK x : x = [at |-> "settling", vol |-> v, epoch |-> e, own |-> own, intent |-> FALSE]
    OBVIOUS
  <2>4. x.at \notin WithTicket /\ batch[b].at \notin WithTicket /\ UNCHANGED lateStop
    BY <1>7, <2>3 DEF WithTicket, ResumeAsked
  <2> QED BY <1>4, <1>6, <2>1, <2>2, <2>3, <2>4 DEF HandedBack
<1>8. CASE ResumeNotSpawned(b)
  <2>1. \A w \in Volumes : gate'[w].ticket = gate[w].ticket /\ gate'[w].late = gate[w].late
    BY <1>8 DEF ResumeNotSpawned, TypeInv, GateType, GateSet
  <2> QED BY <1>4, <1>6, <1>8, <2>1 DEF ResumeNotSpawned, WithTicket
<1>9. CASE ResumeSettles(b)
  <2> PICK i : i = (intent[batch[b].vol] /\ ~index[batch[b].vol])
    OBVIOUS
  <2>1. PICK x : x = [batch[b] EXCEPT !.at = "settled", !.intent = i]
    OBVIOUS
  <2>2. x.at = "settled" /\ batch' = [batch EXCEPT ![b] = x]
    BY <1>1, <1>9, <2>1 DEF BatchSet, ResumeSettles
  <2> QED BY <1>4, <1>9, <2>2 DEF ResumeSettles, WithTicket
<1>10. CASE ResumeChecks(b)
  <2> PICK v : v = batch[b].vol
    OBVIOUS
  <2>1. v \in Volumes /\ batch[b].at = "settled" /\ UNCHANGED lateStop
    BY <1>10 DEF ResumeChecks, TypeInv, CallInv
  <2> DEFINE left == [gate EXCEPT ![v].batch = IF @ = b THEN None ELSE @]
  <2>2. \A w \in Volumes : left[w].ticket = gate[w].ticket /\ left[w].late = gate[w].late
    BY DEF TypeInv, GateType, GateSet
  <2>3. DOMAIN left = Volumes /\ DOMAIN left[v] = {"epoch", "ticket", "batch", "pending", "late"}
    BY <2>1 DEF TypeInv, GateType, GateSet
  <2>4. CASE Vouched(b)
    <3>1. gate' = [left EXCEPT ![v].ticket = "Start"] /\ batch' = [batch EXCEPT ![b].at = "checking"]
      BY <1>10, <2>4 DEF ResumeChecks
    <3>2. PICK x : x = [batch[b] EXCEPT !.at = "checking"]
      OBVIOUS
    <3>3. x.at = "checking" /\ x.vol = v /\ batch' = [batch EXCEPT ![b] = x]
      BY <1>1, <3>1, <3>2 DEF BatchSet
    <3> HIDE DEF left
    <3>4. /\ gate'[v].ticket = "Start" /\ gate'[v].late = gate[v].late
          /\ \A w \in Volumes \ {v} : gate'[w].ticket = gate[w].ticket /\ gate'[w].late = gate[w].late
      BY <2>1, <2>2, <2>3, <3>1
    <3>5. ~Held(v)
      BY <2>4 DEF Vouched, Held
    <3>10. \A w : b \notin HeldByBatch(w)
      BY <2>1 DEF HeldByBatch, WithTicket
    <3>11. x.at \in WithTicket
      BY <3>3 DEF WithTicket
    <3>6. \A w : HeldByBatch(w)' = IF w = v THEN HeldByBatch(w) \cup {b} ELSE HeldByBatch(w)
      <4>1. \A w : HeldByBatch(w)' = (HeldByBatch(w) \ {b})
               \cup (IF x.vol = w /\ x.at \in WithTicket THEN {b} ELSE {})
        BY <1>3, <3>3
      <4> QED BY <3>3, <3>10, <3>11, <4>1
    <3>7. HeldByBatch(v)' = {b}
      BY <2>1, <3>5, <3>6, NoneAssumption DEF TicketInv, TicketOf, Held, Tickets
    <3>8. TicketOf(v)'
      BY <1>2, <2>1, <3>4, <3>5, <3>7, TicketTaken DEF TicketInv, TypeInv
    <3>9. \A w \in Volumes \ {v} : TicketOf(w)'
      BY <1>2, <2>1, <3>4, <3>6, TicketKept DEF TicketInv, SameHolders
    <3> QED BY <3>8, <3>9 DEF TicketInv
  <2>5. CASE ~Vouched(b)
    <3>1. gate' = left /\ batch' = [batch EXCEPT ![b] = Over(NoBatch)]
      BY <1>10, <2>5 DEF ResumeChecks
    <3> HIDE DEF left
    <3> QED BY <1>4, <1>6, <2>1, <2>2, <3>1 DEF WithTicket
  <2> QED BY <2>4, <2>5
<1>11. ASSUME NEW at \in WithTicket, batch[b].at \in WithTicket,
              batch' = [batch EXCEPT ![b].at = at], UNCHANGED <<gate, lateStop>>
       PROVE  TicketInv'
  <2>1. PICK x : x = [batch[b] EXCEPT !.at = at]
    OBVIOUS
  <2>2. x.at = at /\ x.vol = batch[b].vol
    BY <1>1, <2>1 DEF BatchSet
  <2> QED BY <1>4, <1>11, <2>1, <2>2
<1>12. CASE ResumeGoesOn(b)
  BY <1>5, <1>11, <1>12
     DEF ResumeGoesOn, ResumeOwned, ResumeGoes, ResumeReturns, ResumeDrops, WithTicket
<1> QED BY <1>7, <1>8, <1>9, <1>10, <1>12 DEF ResumeSteps

LEMMA HostTickets == ASSUME TypeInv, TicketInv, HostSteps PROVE TicketInv'
<1> USE DEF callVars, hostVars, historyVars
<1>1. ASSUME \A w : SameHolders(w), UNCHANGED lateStop,
             \A w \in Volumes : gate'[w].ticket = gate[w].ticket /\ gate'[w].late = gate[w].late
      PROVE  TicketInv'
  BY <1>1, TicketKept DEF TicketInv
<1>2. CASE SetUnmountPending \/ ClearUnmountPending
  <2>1. \A w \in Volumes : gate'[w].ticket = gate[w].ticket /\ gate'[w].late = gate[w].late
    BY <1>2 DEF SetUnmountPending, ClearUnmountPending, TypeInv, GateType, GateSet
  <2> QED BY <1>1, <1>2, <2>1, CallsStay DEF SetUnmountPending, ClearUnmountPending
<1>3. ASSUME NEW v \in Volumes, EjectBegins(v) PROVE TicketInv'
  BY <1>1, <1>3, CallsStay DEF EjectBegins
<1>4. ASSUME NEW v \in Volumes, EjectLands(v) PROVE TicketInv'
  <2>1. \A b \in Batches : batch'[b].vol = batch[b].vol /\ batch'[b].at = batch[b].at
    BY <1>4 DEF EjectLands, TypeInv, CallsType, BatchSet
  <2>2. \A w : SameHolders(w)
    BY <1>4, <2>1 DEF EjectLands, SameHolders, HeldByStart, HeldByBatch, DisableHolders
  <2> QED BY <1>1, <1>4, <2>2 DEF EjectLands
<1>5. CASE NotifyEjectingChanged
  BY <1>1, <1>5, CallsStay DEF NotifyEjectingChanged
<1> QED BY <1>2, <1>3, <1>4, <1>5 DEF HostSteps

LEMMA StopTickets ==
    ASSUME TypeInv, TicketInv, NEW r \in Releases, NEW v \in Volumes, StopSteps(r, v)
    PROVE  TicketInv'
BY CallsStay, TicketKept DEF StopSteps, StopReads, StopRuns, StopAnswers, callVars, TicketInv

LEMMA StepTickets == TypeInv /\ TicketInv /\ [Next]_vars => TicketInv'
<1>1. TypeInv /\ TicketInv /\ UNCHANGED vars => TicketInv'
  BY CallsStay, TicketKept DEF vars, callVars, TicketInv
<1> QED BY <1>1, NextIs, StartTickets, DisableTickets, ReleaseTickets, StopTickets,
           LateStopTickets, ResumeTickets, HostTickets

LEMMA Ticketed == Spec => [](TypeInv /\ TicketInv)
<1>1. Init => TypeInv /\ TicketInv
  BY InitTypeInv, InitTicketInv
<1>2. TypeInv /\ TicketInv /\ [Next]_vars => (TypeInv /\ TicketInv)'
  BY StepTypes, StepTickets
<1> QED BY <1>1, <1>2, PTL DEF Spec

(* At most one thread holds a volume's ticket and the gate knows it,       *)
(* through every hand-over; a release is queued only where the ticket is   *)
(* out, so that a drop will run its stop.                                  *)
THEOREM TicketHasOneHolder == Spec => []OneHolder
BY Ticketed, TicketParts, PTL

-----------------------------------------------------------------------------
(* The condvar.  Whoever is parked is a call that waits, and waits for     *)
(* something that has not happened yet.                                    *)

SleepsWell(x) ==
    /\ x \in Starts =>
          /\ start[x].at = "waiting"
          /\ wakeOwed \/ Leaving(start[x].vol) \/ Held(start[x].vol)
    /\ x \in Disables => disable[x].at = "waiting" /\ Held(disable[x].vol)
    /\ x \in Releases =>
          /\ release[x].at = "waiting"
          /\ Free(release[x], gate) = {} /\ Heard(x, release[x]) = {}
WakeInv == \A x \in asleep : SleepsWell(x)

LEMMA WakeParts == WakeInv => NoLostWakeup
BY DEF WakeInv, SleepsWell, NoLostWakeup

LEMMA InitWakeInv == Init => WakeInv
BY DEF Init, WakeInv

\* A sleeper whose call did not move sleeps on, as long as no gate was let
\* go of and nobody's stop answered.
LEMMA SleepsOn ==
    ASSUME TypeInv, NEW x \in asleep, SleepsWell(x),
           x \in Starts => start'[x] = start[x],
           x \in Disables => disable'[x] = disable[x],
           x \in Releases => /\ release'[x] = release[x]
                             /\ \A v \in Volumes : stop'[x][v].slot = "Answered" =>
                                                   stop[x][v].slot = "Answered",
           \A v \in Volumes : /\ gate[v].ticket # None => gate'[v].ticket # None
                              /\ Leaving(v) => Leaving(v)' \/ wakeOwed',
           wakeOwed => wakeOwed'
    PROVE  SleepsWell(x)'
<1>1. ASSUME x \in Starts
      PROVE  /\ start'[x].at = "waiting"
             /\ wakeOwed' \/ Leaving(start[x].vol)' \/ Held(start[x].vol)'
  <2>1. start[x].at = "waiting" /\ (wakeOwed \/ Leaving(start[x].vol) \/ Held(start[x].vol))
    BY <1>1 DEF SleepsWell
  <2>2. start[x].vol \in Volumes
    BY <1>1, <2>1 DEF TypeInv, CallInv
  <2> PICK v \in Volumes : v = start[x].vol
    BY <2>2
  <2>3. Leaving(v) => Leaving(v)' \/ wakeOwed'
    OBVIOUS
  <2>4. Held(v) => Held(v)'
    BY DEF Held
  <2>5. start'[x].vol = v
    BY <1>1
  <2> QED BY <1>1, <2>1, <2>3, <2>4, <2>5 DEF Leaving, Held
<1>2. ASSUME x \in Disables PROVE disable'[x].at = "waiting" /\ Held(disable[x].vol)'
  <2>1. disable[x].at = "waiting" /\ Held(disable[x].vol) /\ disable[x].vol \in Volumes
    BY <1>2 DEF SleepsWell, TypeInv, CallInv
  <2> QED BY <1>2, <2>1 DEF Held
<1>3. ASSUME x \in Releases
      PROVE  release'[x].at = "waiting" /\ Free(release[x], gate)' = {} /\ Heard(x, release[x])' = {}
  <2>1. /\ release[x].at = "waiting" /\ release[x].ids \subseteq Volumes
        /\ Free(release[x], gate) = {} /\ Heard(x, release[x]) = {}
    BY <1>3 DEF SleepsWell, TypeInv, CallsType, ReleaseSet
  <2>2. Free(release[x], gate)' = {}
    BY <1>3, <2>1 DEF Free
  <2>3. Heard(x, release[x])' = {}
    BY <1>3, <2>1 DEF Heard
  <2> QED BY <1>3, <2>1, <2>2, <2>3
<1>4. /\ x \in Starts => wakeOwed' \/ Leaving(start[x].vol)' \/ Held(start[x].vol)'
      /\ x \in Disables => Held(disable[x].vol)'
  BY <1>1, <1>2
<1> QED BY <1>1, <1>2, <1>3 DEF SleepsWell

LEMMA NobodySleeps == asleep' = {} => WakeInv'
BY DEF WakeInv

LEMMA DropWakes == ASSUME NEW v, DropTicket(v) PROVE WakeInv'
BY NobodySleeps DEF DropTicket

LEMMA StartWakes == ASSUME TypeInv, WakeInv, NEW s \in Starts, StartSteps(s) PROVE WakeInv'
<1> USE DEF callVars, hostVars, historyVars
<1>0. \A w \in Starts \ {s} : start'[w] = start[w]
  BY DEF StartSteps, StartAsked, StartWoken, StartTurn, StartGivesUp, StartGoesOn, StartListed,
         StartReturns, StartDrops, TypeInv, CallsType
<1>1. ASSUME UNCHANGED <<disable, release, stop, wakeOwed, ejecting>>,
             \A v \in Volumes : /\ gate[v].ticket # None => gate'[v].ticket # None
                                /\ gate'[v].pending = gate[v].pending,
             NEW x \in asleep, x # s
      PROVE  SleepsWell(x)'
  <2>1. \A v \in Volumes : Leaving(v) => Leaving(v)'
    BY <1>1 DEF Leaving
  <2> QED BY <1>0, <1>1, <2>1, SleepsOn DEF WakeInv
<1>2. ASSUME NEW v \in Volumes, NEW person \in BOOLEAN, NEW waited,
             StartTurn(s, v, person, waited), s \notin asleep,
             UNCHANGED <<disable, release, stop, wakeOwed, ejecting>>
      PROVE  WakeInv'
  <2>1. \A w \in Volumes : /\ gate[w].ticket # None => gate'[w].ticket # None
                           /\ gate'[w].pending = gate[w].pending
    BY <1>2, NoneAssumption DEF StartTurn, TypeInv, GateType, GateSet, Tickets
  <2>2. \A x \in asleep : SleepsWell(x)'
    BY <1>1, <1>2, <2>1
  <2>3. CASE asleep' = asleep
    BY <2>2, <2>3 DEF WakeInv
  <2>4. CASE asleep' # asleep
    <3>1. /\ IF Leaving(v) THEN person ELSE Held(v)
          /\ start' = [start EXCEPT ![s] = [at |-> "waiting", vol |-> v, person |-> person,
                                            waited |-> waited \/ Leaving(v)]]
          /\ asleep' = asleep \cup {s} /\ UNCHANGED gate
      BY <1>2, <2>4 DEF StartTurn
    <3>2. start'[s].at = "waiting" /\ start'[s].vol = v
      BY <3>1 DEF TypeInv, CallsType
    <3>3. (Leaving(v) \/ Held(v))'
      BY <1>2, <3>1 DEF Leaving, Held
    <3>4. s \notin Disables /\ s \notin Releases
      BY CallsAssumption
    <3>5. (Leaving(start[s].vol) \/ Held(start[s].vol))'
      BY <3>2, <3>3 DEF Leaving, Held
    <3>6. SleepsWell(s)'
      BY <3>2, <3>4, <3>5 DEF SleepsWell
    <3> QED BY <2>2, <3>1, <3>6 DEF WakeInv
  <2> QED BY <2>3, <2>4
<1>3. CASE StartAsked(s)
  <2>1. s \notin asleep
    BY <1>3 DEF StartAsked, WakeInv, SleepsWell
  <2> QED BY <1>2, <1>3, <2>1 DEF StartAsked
<1>4. CASE StartWoken(s)
  <2>1. start[s].vol \in Volumes /\ start[s].person \in BOOLEAN
    BY <1>4 DEF StartWoken, TypeInv, CallInv, CallsType, StartSet
  <2> QED BY <1>2, <1>4, <2>1 DEF StartWoken
<1>5. ASSUME UNCHANGED <<gate, disable, release, stop, wakeOwed, ejecting>>,
             asleep' \subseteq asleep, s \notin asleep'
      PROVE  WakeInv'
  BY <1>1, <1>5 DEF WakeInv
<1>6. CASE StartGivesUp(s)
  BY <1>5, <1>6 DEF StartGivesUp
<1>7. start[s].at # "waiting" => s \notin asleep
  BY DEF WakeInv, SleepsWell
<1>8. CASE StartListed(s)
  BY <1>5, <1>7, <1>8, DropWakes DEF StartListed
<1>9. CASE StartReturns(s)
  BY <1>5, <1>7, <1>9 DEF StartReturns
<1>10. CASE StartDrops(s)
  BY <1>10, DropWakes DEF StartDrops
<1> QED BY <1>3, <1>4, <1>6, <1>8, <1>9, <1>10 DEF StartSteps, StartGoesOn

LEMMA DisableWakes == ASSUME TypeInv, WakeInv, NEW d \in Disables, DisableSteps(d) PROVE WakeInv'
<1> USE DEF callVars, hostVars, historyVars
<1>1. \A w \in Disables \ {d} : disable'[w] = disable[w]
  BY DEF DisableSteps, DisableAsked, DisableWoken, DisableTurn, DisableGivesUp, DisableGoesOn,
         DisableCalls, DisableMovesEpoch, DisableDrops, TypeInv, CallsType
<1>2. ASSUME UNCHANGED <<release, stop, wakeOwed, ejecting>>,
             \A w \in Starts : start[w].at = "waiting" => start'[w] = start[w],
             \A v \in Volumes : /\ gate[v].ticket # None => gate'[v].ticket # None
                                /\ gate'[v].pending = gate[v].pending,
             NEW x \in asleep, x # d
      PROVE  SleepsWell(x)'
  <2>1. \A v \in Volumes : Leaving(v) => Leaving(v)'
    BY <1>2 DEF Leaving
  <2>2. x \in Starts => start'[x] = start[x]
    BY <1>2 DEF WakeInv, SleepsWell
  <2> QED BY <1>1, <1>2, <2>1, <2>2, SleepsOn DEF WakeInv
<1>3. ASSUME NEW v \in Volumes, NEW g, DisableTurn(d, v, g), d \notin asleep,
             g \in GateSet(lastEpoch'),
             \A w \in Volumes : g[w].ticket = gate[w].ticket /\ g[w].pending = gate[w].pending,
             UNCHANGED <<start, release, stop, wakeOwed, ejecting>>
      PROVE  WakeInv'
  <2>1. \A w \in Volumes : /\ gate[w].ticket # None => gate'[w].ticket # None
                           /\ gate'[w].pending = gate[w].pending
    BY <1>3, NoneAssumption DEF DisableTurn, GateSet, Tickets
  <2>2. \A x \in asleep : SleepsWell(x)'
    BY <1>2, <1>3, <2>1
  <2>3. CASE g[v].ticket = None
    BY <1>3, <2>2, <2>3 DEF DisableTurn, WakeInv
  <2>4. CASE g[v].ticket # None
    <3>1. /\ disable' = [disable EXCEPT ![d] = [at |-> "waiting", vol |-> v, held |-> FALSE]]
          /\ asleep' = asleep \cup {d} /\ gate' = g
      BY <1>3, <2>4 DEF DisableTurn
    <3>2. disable'[d].at = "waiting" /\ disable'[d].vol = v
      BY <3>1 DEF TypeInv, CallsType
    <3>3. Held(disable[d].vol)'
      BY <2>4, <3>1, <3>2 DEF Held
    <3>4. d \notin Starts /\ d \notin Releases
      BY CallsAssumption
    <3>5. SleepsWell(d)'
      BY <3>2, <3>3, <3>4 DEF SleepsWell
    <3> QED BY <2>2, <3>1, <3>5 DEF WakeInv
  <2> QED BY <2>3, <2>4
<1>4. CASE DisableAsked(d)
  <2>1. PICK v \in Volumes : DisableTurn(d, v, Bumped({v}))
    BY <1>4 DEF DisableAsked
  <2> PICK g : g = Bumped({v})
    OBVIOUS
  <2>2. lastEpoch' = lastEpoch + 1 /\ Cardinality({v}) = 1 /\ {v} \in SUBSET Volumes
    BY <1>4, FS_Singleton DEF DisableAsked
  <2>3. /\ g \in GateSet(lastEpoch')
        /\ \A w \in Volumes : g[w].ticket = gate[w].ticket /\ g[w].pending = gate[w].pending
    BY <2>2, BumpedGate DEF TypeInv
  <2>4. d \notin asleep
    BY <1>4 DEF DisableAsked, WakeInv, SleepsWell
  <2> QED BY <1>3, <1>4, <2>1, <2>3, <2>4 DEF DisableAsked
<1>5. CASE DisableWoken(d)
  <2> PICK g : g = gate
    OBVIOUS
  <2>1. disable[d].vol \in Volumes
    BY <1>5 DEF DisableWoken, TypeInv, CallInv
  <2>2. DisableTurn(d, disable[d].vol, g) /\ g \in GateSet(lastEpoch')
    BY <1>5 DEF DisableWoken, TypeInv, GateType
  <2> QED BY <1>3, <1>5, <2>1, <2>2 DEF DisableWoken
<1>6. ASSUME UNCHANGED <<release, stop, wakeOwed, ejecting>>,
             \A w \in Starts : start[w].at = "waiting" => start'[w] = start[w],
             \A v \in Volumes : /\ gate[v].ticket # None => gate'[v].ticket # None
                                /\ gate'[v].pending = gate[v].pending,
             asleep' \subseteq asleep, d \notin asleep'
      PROVE  WakeInv'
  BY <1>2, <1>6 DEF WakeInv
<1>7. CASE DisableGivesUp(d)
  BY <1>6, <1>7 DEF DisableGivesUp
<1>8. disable[d].at # "waiting" => d \notin asleep
  BY DEF WakeInv, SleepsWell
<1>9. CASE DisableCalls(d)
  <2>1. \A w \in Starts : start[w].at = "waiting" => start'[w] = start[w]
    BY <1>9 DEF DisableCalls
  <2> QED BY <1>6, <1>8, <1>9, <2>1 DEF DisableCalls
<1>10. CASE DisableMovesEpoch(d)
  <2> PICK v : v = disable[d].vol
    OBVIOUS
  <2>1. v \in Volumes
    BY <1>10 DEF DisableMovesEpoch, TypeInv, CallInv
  <2>2. gate' = Bumped({v}) /\ {v} \in SUBSET Volumes
    BY <1>10, <2>1 DEF DisableMovesEpoch
  <2>3. \A w \in Volumes : gate'[w].ticket = gate[w].ticket /\ gate'[w].pending = gate[w].pending
    BY <2>2, BumpedGate DEF TypeInv
  <2> QED BY <1>6, <1>8, <1>10, <2>3 DEF DisableMovesEpoch
<1>11. CASE DisableDrops(d)
  <2>1. CASE disable[d].held
    BY <1>11, <2>1, DropWakes DEF DisableDrops
  <2>2. CASE ~disable[d].held
    BY <1>6, <1>8, <1>11, <2>2 DEF DisableDrops
  <2> QED BY <2>1, <2>2
<1> QED BY <1>4, <1>5, <1>7, <1>9, <1>10, <1>11 DEF DisableSteps, DisableGoesOn

\* A release parks only when it has nothing to stop and nothing to hear.
LEMMA TurnParks ==
    ASSUME StopsType, NEW e, release \in [Releases -> ReleaseSet(e)],
           NEW r \in Releases, NEW rel, rel \in ReleaseSet(e), NEW g,
           NEW timedOut \in BOOLEAN, ReleaseTurn(r, rel, g, timedOut)
    PROVE  /\ \A q \in Releases \ {r} : /\ release'[q] = release[q] /\ stop'[q] = stop[q]
                                        /\ late'[q] = late[q]
           /\ asleep' \subseteq asleep \cup {r}
           /\ r \in asleep' => /\ release'[r].at = "waiting"
                               /\ Free(release[r], gate)' = {} /\ Heard(r, release[r])' = {}
<1>1. PICK failed \in SUBSET Free(rel, g) :
         LET turned == Turned(r, rel, g, failed)
             slots == TurnSlots(r, rel, g, failed)
         IN  \/ /\ Open(rel, turned) # {} /\ timedOut
                /\ GivesUp(r, rel, g, turned, slots)
             \/ /\ Open(rel, turned) = {} \/ ~timedOut
                /\ GoesRound(r, rel, g, turned, slots)
  BY Turn
<1>2. PICK turned, slots : turned = Turned(r, rel, g, failed) /\ slots = TurnSlots(r, rel, g, failed)
  OBVIOUS
<1>3. CASE GivesUp(r, rel, g, turned, slots)
  BY <1>3 DEF GivesUp, StopsType
<1>4. CASE GoesRound(r, rel, g, turned, slots)
  <2>1. /\ \A q \in Releases \ {r} : /\ release'[q] = release[q] /\ stop'[q] = stop[q]
                                     /\ late'[q] = late[q]
        /\ asleep' \subseteq asleep \cup {r}
    BY <1>4 DEF GoesRound, StopsType
  <2>2. ASSUME r \in asleep'
        PROVE  /\ release'[r].at = "waiting"
               /\ Free(release[r], gate)' = {} /\ Heard(r, release[r])' = {}
    <3>1. Open(rel, turned) # {}
      BY <1>4, <2>2 DEF GoesRound
    <3>2. release'[r].at = "waiting" /\ release'[r].ids = rel.ids /\ release'[r].answer = turned
      BY <1>4, <3>1 DEF GoesRound, ReleaseSet
    <3>3. gate' = g /\ stop'[r] = slots
      BY <1>4 DEF GoesRound, StopsType
    <3>4. ASSUME NEW v \in rel.ids, turned[v] = "WaitingForTicket" PROVE g[v].ticket # None
      <4>1. v \in Volumes
        BY DEF ReleaseSet
      <4>2. stop[r][v].out # "WaitingForTicket"
        BY <4>1 DEF StopsType, StopSet, Outcomes, LetGo
      <4>3. v \notin Free(rel, g) /\ rel.answer[v] = "WaitingForTicket"
        BY <1>2, <3>4, <4>1, <4>2 DEF Turned
      <4> QED BY <4>3 DEF Free
    <3>5. ASSUME NEW v \in rel.ids, turned[v] = "Stopping" PROVE slots[v].slot # "Answered"
      <4>1. v \in Volumes
        BY DEF ReleaseSet
      <4>2. stop[r][v].out # "Stopping"
        BY <4>1 DEF StopsType, StopSet, Outcomes, LetGo
      <4>3. v \notin failed /\ v \notin Heard(r, rel) \ Free(rel, g)
        BY <1>2, <3>5, <4>1, <4>2 DEF Turned
      <4>4. CASE v \in Free(rel, g)
        <5>1. slots[v] = NewStop
          BY <1>2, <4>1, <4>3, <4>4 DEF TurnSlots
        <5> QED BY <5>1 DEF NewStop, NoStop
      <4>5. CASE v \notin Free(rel, g)
        <5>1. rel.answer[v] = "Stopping" /\ v \notin Heard(r, rel)
          BY <1>2, <3>5, <4>1, <4>2, <4>3, <4>5 DEF Turned
        <5>2. slots[v] = stop[r][v]
          BY <1>2, <4>1, <4>5, <5>1 DEF TurnSlots
        <5> QED BY <5>1, <5>2 DEF Heard
      <4> QED BY <4>4, <4>5
    <3>6. Free(release[r], gate)' = {}
      BY <3>2, <3>3, <3>4 DEF Free
    <3>7. Heard(r, release[r])' = {}
      BY <3>2, <3>3, <3>5 DEF Heard
    <3> QED BY <3>2, <3>6, <3>7
  <2> QED BY <2>1, <2>2
<1> QED BY <1>1, <1>2, <1>3, <1>4

LEMMA ReleaseWakes == ASSUME TypeInv, WakeInv, NEW r \in Releases, ReleaseSteps(r) PROVE WakeInv'
<1> USE DEF callVars, hostVars, historyVars
<1>1. /\ \A q \in Releases \ {r} : release'[q] = release[q] /\ stop'[q] = stop[q]
      /\ asleep' \subseteq asleep \cup {r}
      /\ r \in asleep' => /\ release'[r].at = "waiting"
                          /\ Free(release[r], gate)' = {} /\ Heard(r, release[r])' = {}
  <2>1. CASE ReleaseAsked(r)
    <3>0. PICK ids \in SUBSET Volumes, timedOut \in BOOLEAN : \E g, rel :
             /\ g = Bumped(ids) /\ rel = Asking(r, ids, g)
             /\ lastEpoch' = lastEpoch + Cardinality(ids)
             /\ ReleaseTurn(r, rel, g, timedOut)
      BY <2>1, AskingTurn
    <3>1. PICK g, rel :
             /\ g = Bumped(ids) /\ rel = Asking(r, ids, g)
             /\ lastEpoch' = lastEpoch + Cardinality(ids)
             /\ ReleaseTurn(r, rel, g, timedOut)
      BY <3>0
    <3>2. g \in GateSet(lastEpoch') /\ lastEpoch' \in Nat /\ lastEpoch' >= lastEpoch
      BY <3>1, BumpedGate DEF GateType, TypeInv
    <3>3. release \in [Releases -> ReleaseSet(lastEpoch')]
      <4>1. \A e \in 0..lastEpoch : e \in 0..lastEpoch'
        BY <3>2 DEF GateType, TypeInv
      <4> QED BY <4>1 DEF CallsType, ReleaseSet, TypeInv
    <3>4. rel \in ReleaseSet(lastEpoch')
      BY <3>1, <3>2, <3>3, AskingType
    <3> QED BY <3>1, <3>3, <3>4, TurnParks DEF TypeInv
  <2>2. ASSUME NEW timedOut \in BOOLEAN, ReleaseTurn(r, release[r], gate, timedOut)
        PROVE  /\ \A q \in Releases \ {r} : release'[q] = release[q] /\ stop'[q] = stop[q]
               /\ asleep' \subseteq asleep \cup {r}
               /\ r \in asleep' => /\ release'[r].at = "waiting"
                                   /\ Free(release[r], gate)' = {} /\ Heard(r, release[r])' = {}
    <3> PICK g, rel : g = gate /\ rel = release[r]
      OBVIOUS
    <3>1. rel \in ReleaseSet(lastEpoch) /\ ReleaseTurn(r, rel, g, timedOut)
      BY <2>2 DEF TypeInv, CallsType
    <3> QED BY <3>1, TurnParks DEF TypeInv, CallsType
  <2>3. CASE ReleaseWoken(r) \/ ReleaseTimesOut(r)
    BY <2>2, <2>3 DEF ReleaseWoken, ReleaseTimesOut
  <2> QED BY <2>1, <2>3 DEF ReleaseSteps
<1>2. UNCHANGED <<start, disable, wakeOwed, ejecting>>
  BY DEF ReleaseSteps, ReleaseAsked, ReleaseWoken, ReleaseTimesOut
<1>3. \A v \in Volumes : gate'[v].ticket = gate[v].ticket /\ gate'[v].pending = gate[v].pending
  BY ReleaseGate
<1>4. ASSUME NEW x \in asleep, x # r PROVE SleepsWell(x)'
  <2>1. \A v \in Volumes : Leaving(v) => Leaving(v)'
    BY <1>2, <1>3 DEF Leaving
  <2> QED BY <1>1, <1>2, <1>3, <1>4, <2>1, SleepsOn DEF WakeInv
<1>5. r \in asleep' => SleepsWell(r)'
  <2>1. r \notin Starts /\ r \notin Disables
    BY CallsAssumption
  <2> QED BY <1>1, <2>1 DEF SleepsWell
<1> QED BY <1>1, <1>4, <1>5 DEF WakeInv

LEMMA OtherWakes ==
    ASSUME TypeInv, WakeInv,
           \/ \E r \in Releases, v \in Volumes : StopSteps(r, v)
           \/ \E v \in Volumes : LateStopSteps(v)
           \/ \E b \in Batches : ResumeSteps(b)
           \/ HostSteps \/ UNCHANGED vars
    PROVE  WakeInv'
<1> USE DEF callVars, hostVars, historyVars
<1>1. ASSUME UNCHANGED <<asleep, start, disable, release>>,
             \A r \in Releases, v \in Volumes :
                stop'[r][v].slot = "Answered" => stop[r][v].slot = "Answered",
             \A v \in Volumes : /\ gate[v].ticket # None => gate'[v].ticket # None
                                /\ gate[v].pending => gate'[v].pending
                                /\ ejecting[v] => ejecting'[v] \/ wakeOwed',
             wakeOwed => wakeOwed'
      PROVE  WakeInv'
  <2>1. \A v \in Volumes : Leaving(v) => Leaving(v)' \/ wakeOwed'
    BY <1>1 DEF Leaving
  <2> QED BY <1>1, <2>1, SleepsOn DEF WakeInv
<1>2. ASSUME NEW r \in Releases, NEW v \in Volumes, StopSteps(r, v) PROVE WakeInv'
  <2>1. CASE StopAnswers(r, v)
    BY <2>1, NobodySleeps DEF StopAnswers
  <2>2. CASE StopReads(r, v) \/ StopRuns(r, v)
    <3>1. PICK x \in StopSet : StopIs(r, v, x) /\ x.slot \in {stop[r][v].slot, "Answered", None}
                               /\ (x.slot # stop[r][v].slot => StopAnswers(r, v))
      BY <1>2, StopWrites DEF TypeInv, NoStop
    <3>2. x.slot = stop[r][v].slot
      BY <2>2, <3>1 DEF StopReads, StopRuns, StopAnswers
    <3>3. \A q \in Releases, w \in Volumes : stop'[q][w].slot = stop[q][w].slot
      BY <3>1, <3>2 DEF StopIs, TypeInv, StopsType
    <3> QED BY <1>1, <2>2, <3>3 DEF StopReads, StopRuns
  <2> QED BY <1>2, <2>1, <2>2 DEF StopSteps
<1>3. ASSUME NEW v \in Volumes, LateStopSteps(v) PROVE WakeInv'
  BY <1>1, <1>3, DropWakes DEF LateStopSteps, LateStopReads, LateStopRuns, LateStopAnswers,
     LateStopDrops, LateStopNotSpawned
<1>4. ASSUME NEW b \in Batches, ResumeSteps(b) PROVE WakeInv'
  <2>1. CASE ResumeAsked(b)
    <3>1. PICK v \in Volumes, own \in BOOLEAN, e \in 0..lastEpoch : HandedBack(b, v, own, e)
      BY <2>1, HandBack DEF TypeInv
    <3>2. \A w \in Volumes : gate'[w].ticket = gate[w].ticket /\ gate'[w].pending = gate[w].pending
      BY <3>1 DEF HandedBack, TypeInv, GateType, GateSet
    <3> QED BY <1>1, <2>1, <3>2 DEF ResumeAsked
  <2>2. CASE ResumeNotSpawned(b)
    <3>1. \A w \in Volumes : gate'[w].ticket = gate[w].ticket /\ gate'[w].pending = gate[w].pending
      BY <2>2 DEF ResumeNotSpawned, TypeInv, GateType, GateSet
    <3> QED BY <1>1, <2>2, <3>1 DEF ResumeNotSpawned
  <2>3. CASE ResumeSettles(b)
    BY <1>1, <2>3 DEF ResumeSettles
  <2>4. CASE ResumeChecks(b)
    <3> DEFINE left == [gate EXCEPT ![batch[b].vol].batch = IF @ = b THEN None ELSE @]
    <3>1. \A w \in Volumes : left[w].ticket = gate[w].ticket /\ left[w].pending = gate[w].pending
      BY DEF TypeInv, GateType, GateSet
    <3>2. DOMAIN left = Volumes /\ \A w \in Volumes : DOMAIN left[w] = DOMAIN gate[w]
      BY DEF TypeInv, GateType, GateSet
    <3>3. gate' = left \/ gate' = [left EXCEPT ![batch[b].vol].ticket = "Start"]
      BY <2>4 DEF ResumeChecks
    <3> HIDE DEF left
    <3>4. \A w \in Volumes : /\ gate'[w].pending = gate[w].pending
                             /\ gate'[w].ticket = gate[w].ticket \/ gate'[w].ticket = "Start"
      BY <3>1, <3>2, <3>3 DEF TypeInv, GateType, GateSet
    <3>5. \A w \in Volumes : gate[w].ticket # None => gate'[w].ticket # None
      BY <3>4, NoneAssumption DEF Tickets
    <3> QED BY <1>1, <2>4, <3>4, <3>5 DEF ResumeChecks
  <2>5. CASE ResumeGoesOn(b)
    BY <1>1, <2>5, DropWakes DEF ResumeGoesOn, ResumeOwned, ResumeGoes, ResumeReturns, ResumeDrops
  <2> QED BY <1>4, <2>1, <2>2, <2>3, <2>4, <2>5 DEF ResumeSteps
<1>5. CASE HostSteps
  <2>1. CASE SetUnmountPending
    <3>1. \A w \in Volumes : /\ gate'[w].ticket = gate[w].ticket
                             /\ gate[w].pending => gate'[w].pending
      BY <2>1 DEF SetUnmountPending, TypeInv, GateType, GateSet
    <3> QED BY <1>1, <2>1, <3>1 DEF SetUnmountPending
  <2>2. CASE ClearUnmountPending
    BY <2>2, NobodySleeps DEF ClearUnmountPending
  <2>3. ASSUME NEW v \in Volumes, EjectBegins(v) PROVE WakeInv'
    BY <1>1, <2>3 DEF EjectBegins, TypeInv, HostType
  <2>4. ASSUME NEW v \in Volumes, EjectLands(v) PROVE WakeInv'
    BY <1>1, <2>4 DEF EjectLands, TypeInv, HostType
  <2>5. CASE NotifyEjectingChanged
    BY <2>5, NobodySleeps DEF NotifyEjectingChanged
  <2> QED BY <1>5, <2>1, <2>2, <2>3, <2>4, <2>5 DEF HostSteps
<1>6. CASE UNCHANGED vars
  BY <1>1, <1>6 DEF vars
<1> QED BY <1>2, <1>3, <1>4, <1>5, <1>6

LEMMA StepWakes == TypeInv /\ WakeInv /\ [Next]_vars => WakeInv'
BY NextIs, StartWakes, DisableWakes, ReleaseWakes, OtherWakes

(* Nobody sleeps on the gate's condvar through what it waits for: whatever *)
(* makes a wait pointless wakes it, or a landed eject is about to.         *)
THEOREM WakeupsArrive == Spec => []NoLostWakeup
<1>1. Init => TypeInv /\ WakeInv
  BY InitTypeInv, InitWakeInv
<1>2. TypeInv /\ WakeInv /\ [Next]_vars => (TypeInv /\ WakeInv)'
  BY StepTypes, StepWakes
<1>3. TypeInv /\ WakeInv => NoLostWakeup
  BY WakeParts
<1> QED BY <1>1, <1>2, <1>3, PTL DEF Spec

=============================================================================

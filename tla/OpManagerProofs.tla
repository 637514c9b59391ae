-------------------------- MODULE OpManagerProofs ---------------------------
(***************************************************************************)
(* Theorems about OpManager, for any number of operations and lanes.       *)
(***************************************************************************)
EXTENDS OpManager, SequenceTheorems, FiniteSetTheorems, TLAPS

\* Removing an id from a list leaves a list of the same elements, no longer
\* than it was.
LEMMA WithoutType ==
    ASSUME NEW S, NEW s \in Seq(S), NEW o
    PROVE  Without(s, o) \in Seq(S) /\ Len(Without(s, o)) <= Len(s)
<1>1. CASE \E i \in 1..Len(s) : s[i] = o
  <2>1. PICK i \in 1..Len(s) :
            Without(s, o) = SubSeq(s, 1, i - 1) \o SubSeq(s, i + 1, Len(s))
    BY <1>1 DEF Without
  <2>2. SubSeq(s, 1, i - 1) \in Seq(S) /\ Len(SubSeq(s, 1, i - 1)) = i - 1
    BY SubSeqProperties
  <2>3. SubSeq(s, i + 1, Len(s)) \in Seq(S) /\ Len(SubSeq(s, i + 1, Len(s))) = Len(s) - i
    BY SubSeqProperties
  <2>4. Len(s) \in Nat
    OBVIOUS
  <2> DEFINE before == SubSeq(s, 1, i - 1)
             after == SubSeq(s, i + 1, Len(s))
  <2> HIDE DEF before, after
  <2>5. before \o after \in Seq(S) /\ Len(before \o after) = Len(before) + Len(after)
    BY <2>2, <2>3, ConcatProperties DEF before, after
  <2>6. Len(before) = i - 1 /\ Len(after) = Len(s) - i /\ Without(s, o) = before \o after
    BY <2>1, <2>2, <2>3 DEF before, after
  <2> QED BY <2>4, <2>5, <2>6
<1>2. CASE ~\E i \in 1..Len(s) : s[i] = o
  BY <1>2 DEF Without
<1> QED BY <1>1, <1>2

LEMMA InitTypeOK == Init => TypeOK
<1> SUFFICES ASSUME Init PROVE TypeOK
  OBVIOUS
<1>1. order \in Seq(Ops) /\ failures \in Seq(Managed) /\ Len(failures) = 0
  BY EmptySeq DEF Init
<1>2. 0 \in 0..LaneBudget /\ Len(failures) <= FailureCapacity
  BY <1>1, CapacityAssumption DEF LaneBudget
<1>3. laneUse \in [Lanes -> 0..LaneBudget] /\ reserved \in [Ops -> SUBSET Lanes]
  BY <1>2 DEF Init
<1>4. status \in [Ops -> Statuses] /\ reg \in [Managed -> RegStates] /\ task \in [Ops -> TaskStates]
  BY DEF Init, Statuses, RegStates, TaskStates
<1>5. \A o \in Instant : status[o] # "queued"
  BY DEF Init, Ops
<1>6. carry \in [Passers -> Ops \cup {NoOp}]
  BY DEF Init
<1> QED BY <1>1, <1>2, <1>3, <1>4, <1>5, <1>6 DEF Init, TypeOK

\* What a record's removal does to the manager's own state.
LEMMA FreeRecordType ==
    ASSUME TypeOK, NEW o \in Ops, FreeRecord(o)
    PROVE  /\ status' \in [Ops -> Statuses]
           /\ \A i \in Instant : status'[i] # "queued"
           /\ order' \in Seq(Ops)
           /\ laneUse' \in [Lanes -> 0..LaneBudget]
           /\ reserved' \in [Ops -> SUBSET Lanes]
<1>1. order' \in Seq(Ops)
  BY WithoutType DEF TypeOK, FreeRecord
<1> QED BY <1>1 DEF TypeOK, FreeRecord, Release, LaneBudget, Statuses, Ops

LEMMA AdmitType ==
    ASSUME TypeOK, NEW p \in Passers, Admit(p)
    PROVE  TypeOK'
<1>1. PICK i \in 1..Len(order) : AdmitAt(p, i)
  BY DEF Admit
<1>2. order[i] \in Ops
  BY DEF TypeOK
<1>3. laneUse' \in [Lanes -> 0..LaneBudget]
  BY <1>1 DEF TypeOK, AdmitAt, Admissible, LaneFree, Reserve, LaneBudget
<1>4. UNCHANGED <<order, failures, stateMap, statusCache, claims, reg, task, panicFreed>>
  BY <1>1 DEF AdmitAt, mapVars
<1>5. order[i] \in Managed
  BY <1>1, <1>2 DEF AdmitAt, Admissible, TypeOK, Ops
<1>6. reserved' \in [Ops -> SUBSET Lanes]
  BY <1>1, <1>2, <1>5, LanesAssumption DEF AdmitAt, TypeOK
<1>7. status' \in [Ops -> Statuses] /\ carry' \in [Passers -> Ops \cup {NoOp}]
  BY <1>1, <1>2 DEF AdmitAt, TypeOK, Statuses
<1>8. \A o \in Instant : status'[o] # "queued"
  BY <1>1 DEF AdmitAt, TypeOK, Ops
<1> QED BY <1>3, <1>4, <1>6, <1>7, <1>8 DEF TypeOK

\* The type invariant is inductive by itself: an admission checks every lane
\* before it takes it, so no lane is ever counted beyond its budget.
LEMMA StepTypeOK == TypeOK /\ [Next]_vars => TypeOK'
<1> SUFFICES ASSUME TypeOK, [Next]_vars PROVE TypeOK'
  OBVIOUS
<1> USE DEF mgrVars, mapVars
<1>1. ASSUME NEW p \in Passers, PassStep(p) PROVE TypeOK'
  <2>1. CASE Admit(p)
    BY <2>1, AdmitType
  <2>2. CASE Launch(p)
    BY <2>2 DEF Launch, TypeOK, TaskStates
  <2>3. CASE PassEnds(p)
    BY <2>3 DEF PassEnds, TypeOK, TaskStates, RegStates, Passers
  <2> QED BY <1>1, <2>1, <2>2, <2>3 DEF PassStep
<1>2. ASSUME NEW o \in Managed, ManagedStep(o) PROVE TypeOK'
  <2>1. CASE Announce(o)
    BY <2>1 DEF Announce, TypeOK, RegStates
  <2>2. CASE InsertRecord(o)
    BY <2>2, OpsAssumption DEF InsertRecord, TypeOK, RegStates, Statuses, Ops
  <2>3. CASE Settle(o) \/ Panic(o)
    <3>1. FreeRecord(o) /\ o \in Ops
      BY <2>3 DEF Settle, Panic, Ops
    <3> QED BY <2>3, <3>1, FreeRecordType DEF Settle, Panic, FreeRecord, TypeOK, TaskStates, Ops
  <2>4. CASE EndScanWait(o)
    BY <2>4 DEF EndScanWait, TypeOK
  <2>5. CASE RecordFailure(o)
    BY <2>5, CapacityAssumption DEF RecordFailure, TypeOK
  <2>6. CASE DismissFailure(o)
    BY <2>6, WithoutType, CapacityAssumption DEF DismissFailure, TypeOK
  <2>7. CASE CancelIfQueued(o)
    BY <2>7, WithoutType DEF CancelIfQueued, TypeOK, Statuses, TaskStates, Ops
  <2>8. CASE DropCleanup(o)
    BY <2>8 DEF DropCleanup, TypeOK, TaskStates
  <2> QED BY <1>2, <2>1, <2>2, <2>3, <2>4, <2>5, <2>6, <2>7, <2>8 DEF ManagedStep
<1>3. ASSUME NEW o \in Instant, InstantStep(o) PROVE TypeOK'
  <2>1. CASE InstantStart(o)
    BY <2>1 DEF InstantStart, TypeOK, Statuses, TaskStates, Ops
  <2>2. CASE InstantRegister(o)
    BY <2>2 DEF InstantRegister, TypeOK, TaskStates, Ops
  <2>3. CASE InstantEnds(o)
    <3>1. FreeRecord(o) /\ o \in Ops
      BY <2>3 DEF InstantEnds, Ops
    <3> QED BY <2>3, <3>1, FreeRecordType DEF InstantEnds, FreeRecord, TypeOK, TaskStates
  <2> QED BY <1>3, <2>1, <2>2, <2>3 DEF InstantStep
<1>4. ASSUME NEW o \in Ops, SharedStep(o) PROVE TypeOK'
  <2>1. CASE Cleanup(o)
    BY <2>1 DEF Cleanup, TypeOK, TaskStates
  <2>2. CASE SetPaused(o)
    BY <2>2 DEF SetPaused, TypeOK, Statuses, Ops
  <2> QED BY <1>4, <2>1, <2>2 DEF SharedStep
<1>5. CASE DismissAllFailures
  BY <1>5, CapacityAssumption DEF DismissAllFailures, TypeOK
<1>6. CASE UNCHANGED vars
  BY <1>6 DEF vars, TypeOK
<1> QED BY <1>1, <1>2, <1>3, <1>4, <1>5, <1>6 DEF Next

\* Every state the manager reaches is well typed: no lane is counted beyond
\* its budget and no more failures are retained than FailureCapacity.
THEOREM TypeCorrect == Spec => []TypeOK
BY InitTypeOK, StepTypeOK, PTL DEF Spec

-----------------------------------------------------------------------------
(* The life of an operation: which of the three threads that can touch it  *)
(* is where, given its record.                                             *)

Carried(o) == \E p \in Passers : carry[p] = o

LifeInv ==
    /\ \A o \in Managed : Held(o) <=> (task[o] = "body" \/ Carried(o))
    /\ \A o \in Managed : Carried(o) => task[o] = "none"
    /\ \A p, q \in Passers : carry[p] = carry[q] /\ carry[p] # NoOp => p = q
    /\ \A p \in Passers : carry[p] # NoOp => carry[p] \in Managed
    /\ \A o \in Managed : status[o] = "queued" => task[o] = "none"
    /\ \A o \in Managed : reg[o] = "announced" => status[o] = "absent" /\ task[o] = "none"
    /\ \A o \in Managed : task[o] # "arming"
    /\ \A o \in Instant : task[o] \in {"arming", "body"} <=> Held(o)

LEMMA InitLifeInv == Init => LifeInv
BY OpsAssumption, NoOpAssumption DEF Init, LifeInv, Held, Carried, Ops

\* Removing a record changes nobody's thread.
LEMMA FreedLife ==
    ASSUME TypeOK, NEW o \in Ops, FreeRecord(o)
    PROVE  /\ UNCHANGED <<carry, reg>>
           /\ \A i \in Ops : status'[i] = IF i = o THEN "absent" ELSE status[i]
BY DEF FreeRecord, TypeOK

LEMMA StepLifeInv == TypeOK /\ LifeInv /\ [Next]_vars => LifeInv'
<1> SUFFICES ASSUME TypeOK, LifeInv, [Next]_vars PROVE LifeInv'
  OBVIOUS
<1> USE OpsAssumption, NoOpAssumption DEF mgrVars, mapVars, Held, Live
<1>1. ASSUME NEW p \in Passers, PassStep(p) PROVE LifeInv'
  <2>1. CASE Admit(p)
    <3>1. PICK i \in 1..Len(order) : AdmitAt(p, i)
      BY <2>1 DEF Admit
    <3>2. order[i] \in Managed /\ order[i] # NoOp
      BY <3>1 DEF AdmitAt, Admissible, TypeOK, Ops
    <3>3. status[order[i]] = "queued" /\ carry[p] = NoOp
      BY <3>1 DEF AdmitAt, Admissible
    <3>4. status' = [status EXCEPT ![order[i]] = "running"]
          /\ carry' = [carry EXCEPT ![p] = order[i]]
          /\ UNCHANGED <<reg, task>>
      BY <3>1 DEF AdmitAt
    <3> HIDE DEF mgrVars, mapVars
    <3>5. ~Carried(order[i])
      BY <3>2, <3>3 DEF LifeInv
    <3>6. \A o \in Managed : Carried(o)' <=> (o = order[i] \/ Carried(o))
      BY <3>2, <3>3, <3>4 DEF Carried, TypeOK, Ops
    <3>7. \A q, r \in Passers : carry'[q] = carry'[r] /\ carry'[q] # NoOp => q = r
      BY <3>2, <3>3, <3>4, <3>5 DEF Carried, LifeInv, TypeOK
    <3>8. \A q \in Passers : carry'[q] # NoOp => carry'[q] \in Managed
      BY <3>2, <3>4 DEF LifeInv, TypeOK
    <3>9. \A o \in Managed : Held(o)' <=> (task'[o] = "body" \/ Carried(o)')
      BY <3>2, <3>3, <3>4, <3>6 DEF LifeInv, TypeOK, Ops
    <3> QED BY <3>2, <3>3, <3>4, <3>6, <3>7, <3>8, <3>9 DEF LifeInv, TypeOK, Ops
  <2>2. CASE Launch(p)
    <3>1. carry[p] \in Managed /\ Carried(carry[p])
      BY <2>2 DEF Launch, LifeInv, Carried
    <3>2. \A o \in Managed : Carried(o)' <=> (o # carry[p] /\ Carried(o))
      BY <2>2, <3>1 DEF Launch, LifeInv, Carried, TypeOK, Ops
    <3> QED BY <2>2, <3>1, <3>2 DEF Launch, LifeInv, TypeOK, Ops
  <2>3. CASE PassEnds(p)
    <3>1. \A o \in Managed : Carried(o)' <=> Carried(o)
      BY <2>3 DEF PassEnds, Carried
    <3>2. \A o \in Ops : task'[o] = task[o] \/ (task[o] = "pass" /\ task'[o] = "none")
      BY <2>3 DEF PassEnds, TypeOK, InPass
    <3>3. \A o \in Managed : reg'[o] = reg[o] \/ reg'[o] = "idle"
      BY <2>3 DEF PassEnds, TypeOK, InPass
    <3>4. UNCHANGED <<status, carry>>
      BY <2>3 DEF PassEnds
    <3>5. \A o \in Ops : /\ task'[o] = "body" <=> task[o] = "body"
                         /\ task'[o] = "arming" <=> task[o] = "arming"
                         /\ task[o] = "none" => task'[o] = "none"
      BY <3>2
    <3>6. \A o \in Managed : reg'[o] = "announced" => reg[o] = "announced"
      BY <3>3
    <3>7. \A o \in Ops : Held(o)' <=> Held(o)
      BY <3>4
    <3> HIDE DEF Held
    <3> QED BY <3>1, <3>4, <3>5, <3>6, <3>7 DEF LifeInv, Ops
  <2> QED BY <1>1, <2>1, <2>2, <2>3 DEF PassStep
<1>2. ASSUME NEW o \in Managed, ManagedStep(o) PROVE LifeInv'
  <2>1. CASE Announce(o)
    BY <2>1 DEF Announce, Unused, LifeInv, TypeOK, Carried
  <2>2. CASE InsertRecord(o)
    BY <2>2 DEF InsertRecord, LifeInv, TypeOK, Carried, Ops
  <2>3. CASE Settle(o) \/ Panic(o)
    <3>1. FreeRecord(o) /\ o \in Ops /\ task[o] = "body"
      BY <2>3 DEF Settle, Panic, Ops
    <3>2. \A i \in Ops : task'[i] = IF i = o THEN task'[o] ELSE task[i]
      BY <2>3, <3>1 DEF Settle, Panic, TypeOK
    <3>3. task'[o] \in {"settling", "unwinding"}
      BY <2>3, <3>1 DEF Settle, Panic, TypeOK
    <3>4. ~Carried(o) /\ \A i \in Managed : Carried(i)' <=> Carried(i)
      BY <3>1, FreedLife DEF LifeInv, Carried
    <3>5. /\ \A i \in Ops : status'[i] = IF i = o THEN "absent" ELSE status[i]
          /\ UNCHANGED <<carry, reg>>
      BY <3>1, FreedLife
    <3>6. \A i \in Ops : Held(i)' <=> i # o /\ Held(i)
      BY <3>5
    <3>7. \A i \in Managed : Held(i)' <=> (task'[i] = "body" \/ Carried(i)')
      BY <3>2, <3>3, <3>4, <3>6 DEF LifeInv, Ops
    <3>8. \A i \in Managed : Carried(i)' => task'[i] = "none"
      BY <3>2, <3>4 DEF LifeInv, Ops
    <3>9. \A i \in Managed : status'[i] = "queued" => task'[i] = "none"
      BY <3>2, <3>5 DEF LifeInv, Ops
    <3>10. \A i \in Managed : reg'[i] = "announced" => status'[i] = "absent" /\ task'[i] = "none"
      BY <3>1, <3>2, <3>5 DEF LifeInv, Ops
    <3>11. \A i \in Managed : task'[i] # "arming"
      BY <3>2, <3>3 DEF LifeInv, Ops
    <3>12. \A i \in Instant : task'[i] \in {"arming", "body"} <=> Held(i)'
      BY <3>2, <3>6, <2>3 DEF LifeInv, Ops, Settle, Panic
    <3> QED BY <3>5, <3>7, <3>8, <3>9, <3>10, <3>11, <3>12 DEF LifeInv
  <2>4. CASE EndScanWait(o)
    BY <2>4 DEF EndScanWait, LifeInv, Carried
  <2>5. CASE RecordFailure(o)
    BY <2>5 DEF RecordFailure, LifeInv, Carried
  <2>6. CASE DismissFailure(o)
    BY <2>6 DEF DismissFailure, LifeInv, Carried
  <2>7. CASE CancelIfQueued(o)
    BY <2>7 DEF CancelIfQueued, LifeInv, TypeOK, Carried, Ops
  <2>8. CASE DropCleanup(o)
    BY <2>8 DEF DropCleanup, LifeInv, TypeOK, Carried, Ops
  <2> QED BY <1>2, <2>1, <2>2, <2>3, <2>4, <2>5, <2>6, <2>7, <2>8 DEF ManagedStep
<1>3. ASSUME NEW o \in Instant, InstantStep(o) PROVE LifeInv'
  <2>1. CASE InstantStart(o)
    BY <2>1 DEF InstantStart, LifeInv, TypeOK, Carried, Ops
  <2>2. CASE InstantRegister(o)
    BY <2>2 DEF InstantRegister, LifeInv, TypeOK, Carried, Ops
  <2>3. CASE InstantEnds(o)
    <3>1. FreeRecord(o) /\ o \in Ops /\ task' = [task EXCEPT ![o] = "unwinding"]
      BY <2>3 DEF InstantEnds, Ops
    <3>2. \A i \in Managed : Carried(i)' <=> Carried(i)
      BY <3>1, FreedLife DEF Carried
    <3> QED BY <3>1, <3>2, FreedLife DEF LifeInv, TypeOK, Ops
  <2> QED BY <1>3, <2>1, <2>2, <2>3 DEF InstantStep
<1>4. ASSUME NEW o \in Ops, SharedStep(o) PROVE LifeInv'
  <2>1. CASE Cleanup(o)
    BY <2>1 DEF Cleanup, LifeInv, TypeOK, Carried, Ops
  <2>2. CASE SetPaused(o)
    BY <2>2 DEF SetPaused, LifeInv, TypeOK, Carried, Ops
  <2> QED BY <1>4, <2>1, <2>2 DEF SharedStep
<1>5. CASE DismissAllFailures
  BY <1>5 DEF DismissAllFailures, LifeInv, Carried
<1>6. CASE UNCHANGED vars
  BY <1>6 DEF vars, LifeInv, Carried
<1> QED BY <1>1, <1>2, <1>3, <1>4, <1>5, <1>6 DEF Next

-----------------------------------------------------------------------------
(* The lanes                                                               *)

LanesInv ==
    /\ \A o \in Ops : reserved[o] = IF o \in Managed /\ Held(o) THEN LanesOf[o] ELSE {}
    /\ LaneExclusive
    /\ \A l \in Lanes : laneUse[l] = 0 <=> \A o \in Ops : l \notin reserved[o]

LEMMA InitLanesInv == Init => LanesInv
BY OpsAssumption DEF Init, LanesInv, LaneExclusive, Held, Ops

\* An admission: the lanes it takes were nobody's.
LEMMA AdmitLanes ==
    ASSUME TypeOK, LanesInv, NEW p \in Passers, Admit(p)
    PROVE  LanesInv'
<1>1. PICK i \in 1..Len(order) : AdmitAt(p, i)
  BY DEF Admit
<1> DEFINE a == order[i]
<1>2. a \in Managed /\ a \in Ops /\ status[a] = "queued"
  BY <1>1 DEF AdmitAt, Admissible, TypeOK, Ops
<1>3. LanesOf[a] \subseteq Lanes /\ \A l \in LanesOf[a] : laneUse[l] = 0
  BY <1>1, <1>2, LanesAssumption DEF AdmitAt, Admissible, LaneFree, LaneBudget, TypeOK
<1>4. /\ status' = [status EXCEPT ![a] = "running"]
      /\ reserved' = [reserved EXCEPT ![a] = LanesOf[a]]
      /\ laneUse' = [l \in Lanes |-> IF l \in LanesOf[a] THEN laneUse[l] + 1 ELSE laneUse[l]]
  BY <1>1 DEF AdmitAt, Reserve
<1> HIDE DEF a
<1>5. \A o \in Ops : o # a => reserved'[o] = reserved[o] /\ LanesOf[a] \cap reserved[o] = {}
  BY <1>2, <1>3, <1>4 DEF LanesInv, TypeOK
<1>6. reserved'[a] = LanesOf[a] /\ reserved[a] = {}
  BY <1>2, <1>4 DEF TypeOK, LanesInv, Held
<1>7. LaneExclusive'
  BY <1>2, <1>5, <1>6 DEF LaneExclusive, LanesInv
<1>8. \A l \in Lanes : laneUse'[l] = 0 <=> \A o \in Ops : l \notin reserved'[o]
  <2> TAKE l \in Lanes
  <2>1. CASE l \in LanesOf[a]
    BY <1>2, <1>3, <1>4, <1>6, <2>1 DEF TypeOK
  <2>2. CASE l \notin LanesOf[a]
    <3>1. laneUse'[l] = laneUse[l]
      BY <1>4, <2>2
    <3>2. \A o \in Ops : l \in reserved'[o] <=> l \in reserved[o]
      BY <1>5, <1>6, <2>2
    <3> QED BY <3>1, <3>2 DEF LanesInv
  <2> QED BY <2>1, <2>2
<1>9. \A o \in Ops : reserved'[o] = IF o \in Managed /\ Held(o)' THEN LanesOf[o] ELSE {}
  BY <1>2, <1>4, <1>5, <1>6 DEF LanesInv, Held, TypeOK
<1> QED BY <1>7, <1>8, <1>9 DEF LanesInv

\* A removal, however the operation ended: the lanes it gives back were its
\* alone, so each count drops from one to nothing.
LEMMA FreeLanes ==
    ASSUME TypeOK, LanesInv, NEW o \in Ops, FreeRecord(o)
    PROVE  LanesInv'
<1>1. /\ status' = [status EXCEPT ![o] = "absent"]
      /\ reserved' = [reserved EXCEPT ![o] = {}]
      /\ laneUse' = [l \in Lanes |->
            IF l \in reserved[o] /\ laneUse[l] > 0 THEN laneUse[l] - 1 ELSE laneUse[l]]
  BY DEF FreeRecord, Release
<1>2. \A i \in Ops : i # o => reserved'[i] = reserved[i]
  BY <1>1 DEF TypeOK
<1>3. reserved'[o] = {}
  BY <1>1 DEF TypeOK
<1>4. LaneExclusive'
  BY <1>2, <1>3 DEF LaneExclusive, LanesInv
<1>5. \A l \in Lanes : laneUse'[l] = 0 <=> \A i \in Ops : l \notin reserved'[i]
  <2> TAKE l \in Lanes
  <2>1. CASE l \in reserved[o]
    <3>1. laneUse[l] = 1
      BY <2>1 DEF LanesInv, TypeOK, LaneBudget
    <3>2. \A i \in Ops : l \notin reserved'[i]
      BY <1>2, <1>3, <2>1 DEF LanesInv, LaneExclusive
    <3> QED BY <1>1, <2>1, <3>1, <3>2
  <2>2. CASE l \notin reserved[o]
    <3>1. laneUse'[l] = laneUse[l]
      BY <1>1, <2>2
    <3>2. \A i \in Ops : l \in reserved'[i] <=> l \in reserved[i]
      BY <1>2, <1>3, <2>2
    <3> QED BY <3>1, <3>2 DEF LanesInv
  <2> QED BY <2>1, <2>2
<1>6. \A i \in Ops : reserved'[i] = IF i \in Managed /\ Held(i)' THEN LanesOf[i] ELSE {}
  BY <1>1, <1>2, <1>3 DEF LanesInv, Held, TypeOK
<1> QED BY <1>4, <1>5, <1>6 DEF LanesInv

\* Every other step leaves the lanes, and who holds them, as they are.
LEMMA SameLanes ==
    ASSUME LanesInv, UNCHANGED <<laneUse, reserved>>,
           \A o \in Managed : Held(o)' <=> Held(o)
    PROVE  LanesInv'
BY DEF LanesInv, LaneExclusive, Ops

LEMMA StepLanesInv == TypeOK /\ LifeInv /\ LanesInv /\ [Next]_vars => LanesInv'
<1> SUFFICES ASSUME TypeOK, LifeInv, LanesInv, [Next]_vars PROVE LanesInv'
  OBVIOUS
<1> USE DEF mgrVars, mapVars, Held
<1>1. ASSUME NEW p \in Passers, PassStep(p) PROVE LanesInv'
  <2>1. CASE Admit(p)
    BY <2>1, AdmitLanes
  <2>2. CASE Launch(p)
    BY <2>2, SameLanes DEF Launch
  <2>3. CASE PassEnds(p)
    BY <2>3, SameLanes DEF PassEnds
  <2> QED BY <1>1, <2>1, <2>2, <2>3 DEF PassStep
<1>2. ASSUME NEW o \in Managed, ManagedStep(o) PROVE LanesInv'
  <2>1. CASE Announce(o)
    BY <2>1, SameLanes DEF Announce
  <2>2. CASE InsertRecord(o)
    BY <2>2, SameLanes DEF InsertRecord, LifeInv, TypeOK, Ops
  <2>3. CASE Settle(o) \/ Panic(o)
    BY <2>3, FreeLanes DEF Settle, Panic, Ops
  <2>4. CASE EndScanWait(o)
    BY <2>4, SameLanes DEF EndScanWait
  <2>5. CASE RecordFailure(o)
    BY <2>5, SameLanes DEF RecordFailure
  <2>6. CASE DismissFailure(o)
    BY <2>6, SameLanes DEF DismissFailure
  <2>7. CASE CancelIfQueued(o)
    BY <2>7, SameLanes DEF CancelIfQueued, TypeOK, Ops
  <2>8. CASE DropCleanup(o)
    BY <2>8, SameLanes DEF DropCleanup
  <2> QED BY <1>2, <2>1, <2>2, <2>3, <2>4, <2>5, <2>6, <2>7, <2>8 DEF ManagedStep
<1>3. ASSUME NEW o \in Instant, InstantStep(o) PROVE LanesInv'
  <2>1. CASE InstantStart(o)
    BY <2>1, SameLanes, OpsAssumption DEF InstantStart, TypeOK, Ops
  <2>2. CASE InstantRegister(o)
    BY <2>2, SameLanes DEF InstantRegister
  <2>3. CASE InstantEnds(o)
    BY <2>3, FreeLanes DEF InstantEnds, Ops
  <2> QED BY <1>3, <2>1, <2>2, <2>3 DEF InstantStep
<1>4. ASSUME NEW o \in Ops, SharedStep(o) PROVE LanesInv'
  <2>1. CASE Cleanup(o)
    BY <2>1, SameLanes DEF Cleanup
  <2>2. CASE SetPaused(o)
    BY <2>2, SameLanes DEF SetPaused, TypeOK, Ops
  <2> QED BY <1>4, <2>1, <2>2 DEF SharedStep
<1>5. CASE DismissAllFailures
  BY <1>5, SameLanes DEF DismissAllFailures
<1>6. CASE UNCHANGED vars
  BY <1>6, SameLanes DEF vars
<1> QED BY <1>1, <1>2, <1>3, <1>4, <1>5, <1>6 DEF Next

-----------------------------------------------------------------------------
(* The maps that outlive a lock: live states, busy marks, claimed previews *)

MapsInv ==
    /\ \A o \in Ops : task[o] = "body" => o \in statusCache
    /\ \A o \in Managed : o \in statusCache => task[o] \in {"body", "settling", "unwinding"}
    /\ \A o \in Managed : Live(o) \/ reg[o] = "announced" => o \in stateMap
    /\ \A o \in Managed : o \in stateMap \cup claims =>
          Live(o) \/ reg[o] = "announced" \/ task[o] \in {"settling", "unwinding", "dropped"}

LEMMA InitMapsInv == Init => MapsInv
BY DEF Init, MapsInv, Live, Ops

LEMMA StepMapsInv == TypeOK /\ LifeInv /\ MapsInv /\ [Next]_vars => MapsInv'
<1> SUFFICES ASSUME TypeOK, LifeInv, MapsInv, [Next]_vars PROVE MapsInv'
  OBVIOUS
<1> USE OpsAssumption DEF mgrVars, mapVars, Live, Ops
<1>1. ASSUME NEW p \in Passers, PassStep(p) PROVE MapsInv'
  <2>1. CASE Admit(p)
    <3>1. PICK i \in 1..Len(order) : AdmitAt(p, i)
      BY <2>1 DEF Admit
    <3>2. order[i] \in Ops /\ status[order[i]] = "queued"
      BY <3>1 DEF AdmitAt, Admissible, TypeOK
    <3> QED BY <3>1, <3>2 DEF AdmitAt, MapsInv, TypeOK
  <2>2. CASE Launch(p)
    <3>1. carry[p] \in Managed
      BY <2>2 DEF Launch, LifeInv
    <3> QED BY <2>2, <3>1 DEF Launch, MapsInv, LifeInv, Carried, Held, TypeOK
  <2>3. CASE PassEnds(p)
    <3>1. \A o \in Ops : task'[o] = task[o] \/ (task[o] = "pass" /\ task'[o] = "none")
      BY <2>3 DEF PassEnds, TypeOK, InPass
    <3>2. \A o \in Managed : reg'[o] = reg[o] \/ (reg[o] = "pass" /\ reg'[o] = "idle")
      BY <2>3 DEF PassEnds, TypeOK, InPass
    <3> QED BY <2>3, <3>1, <3>2 DEF PassEnds, MapsInv
  <2> QED BY <1>1, <2>1, <2>2, <2>3 DEF PassStep
<1>2. ASSUME NEW o \in Managed, ManagedStep(o) PROVE MapsInv'
  <2>1. CASE Announce(o)
    BY <2>1 DEF Announce, Unused, MapsInv, TypeOK
  <2>2. CASE InsertRecord(o)
    BY <2>2 DEF InsertRecord, MapsInv, TypeOK
  <2>3. CASE Settle(o) \/ Panic(o)
    <3>1. FreeRecord(o) /\ task[o] = "body" /\ o \in Ops
      BY <2>3 DEF Settle, Panic
    <3>2. /\ task' = [task EXCEPT ![o] = task'[o]]
          /\ task'[o] \in {"settling", "unwinding"}
      BY <2>3 DEF Settle, Panic, TypeOK
    <3>3. UNCHANGED <<stateMap, statusCache, claims, reg>>
      BY <3>1 DEF FreeRecord
    <3>4. \A i \in Ops : i # o => status'[i] = status[i] /\ task'[i] = task[i]
      BY <3>1, <3>2, FreedLife DEF TypeOK
    <3>5. status'[o] = "absent" /\ reg[o] # "announced"
      BY <3>1, FreedLife DEF LifeInv
    <3> QED BY <3>1, <3>2, <3>3, <3>4, <3>5 DEF MapsInv
  <2>4. CASE EndScanWait(o)
    BY <2>4 DEF EndScanWait, MapsInv
  <2>5. CASE RecordFailure(o)
    BY <2>5 DEF RecordFailure, MapsInv
  <2>6. CASE DismissFailure(o)
    BY <2>6 DEF DismissFailure, MapsInv
  <2>7. CASE CancelIfQueued(o)
    BY <2>7 DEF CancelIfQueued, MapsInv, LifeInv, TypeOK
  <2>8. CASE DropCleanup(o)
    <3>1. status[o] = "absent" /\ reg[o] # "announced"
      BY <2>8 DEF DropCleanup, LifeInv, Held, Statuses, TypeOK
    <3> QED BY <2>8, <3>1 DEF DropCleanup, MapsInv, TypeOK
  <2> QED BY <1>2, <2>1, <2>2, <2>3, <2>4, <2>5, <2>6, <2>7, <2>8 DEF ManagedStep
<1>3. ASSUME NEW o \in Instant, InstantStep(o) PROVE MapsInv'
  <2>1. CASE InstantStart(o)
    BY <2>1 DEF InstantStart, MapsInv, TypeOK
  <2>2. CASE InstantRegister(o)
    BY <2>2 DEF InstantRegister, MapsInv, TypeOK
  <2>3. CASE InstantEnds(o)
    <3>1. FreeRecord(o) /\ task' = [task EXCEPT ![o] = "unwinding"]
      BY <2>3 DEF InstantEnds
    <3> QED BY <3>1, FreedLife DEF FreeRecord, MapsInv, TypeOK
  <2> QED BY <1>3, <2>1, <2>2, <2>3 DEF InstantStep
<1>4. ASSUME NEW o \in Ops, SharedStep(o) PROVE MapsInv'
  <2>1. CASE Cleanup(o)
    <3>1. o \in Managed => status[o] = "absent" /\ reg[o] # "announced"
      BY <2>1 DEF Cleanup, LifeInv, Held, Statuses, TypeOK
    <3>2. \A i \in Ops : i # o => task'[i] = task[i]
      BY <2>1 DEF Cleanup, TypeOK
    <3>3. task'[o] \in {"pass", "none"}
      BY <2>1 DEF Cleanup, TypeOK
    <3> QED BY <2>1, <3>1, <3>2, <3>3 DEF Cleanup, MapsInv
  <2>2. CASE SetPaused(o)
    BY <2>2 DEF SetPaused, MapsInv, Held, TypeOK
  <2> QED BY <1>4, <2>1, <2>2 DEF SharedStep
<1>5. CASE DismissAllFailures
  BY <1>5 DEF DismissAllFailures, MapsInv
<1>6. CASE UNCHANGED vars
  BY <1>6 DEF vars, MapsInv
<1> QED BY <1>1, <1>2, <1>3, <1>4, <1>5, <1>6 DEF Next

-----------------------------------------------------------------------------
(* What the manager guarantees                                             *)

IInv == TypeOK /\ LifeInv /\ LanesInv /\ MapsInv

LEMMA Invariance == Spec => []IInv
<1>1. Init => IInv
  BY InitTypeOK, InitLifeInv, InitLanesInv, InitMapsInv DEF IInv
<1>2. IInv /\ [Next]_vars => IInv'
  BY StepTypeOK, StepLifeInv, StepLanesInv, StepMapsInv DEF IInv
<1> QED BY <1>1, <1>2, PTL DEF Spec

\* Two operations never hold one lane, whatever threads run passes together
\* and however the operations end.
THEOREM LaneExclusion == Spec => []LaneExclusive
<1>1. IInv => LaneExclusive
  BY DEF IInv, LanesInv
<1> QED BY <1>1, Invariance, PTL

\* The lane table counts exactly the holders: no path leaks a lane or gives
\* one back twice.
THEOREM LaneTable == Spec => []LaneTableExact
<1>1. IInv => LaneTableExact
  <2> SUFFICES ASSUME IInv, NEW l \in Lanes
               PROVE  laneUse[l] = Cardinality({o \in Ops : l \in reserved[o]})
    BY DEF LaneTableExact
  <2>1. CASE \A o \in Ops : l \notin reserved[o]
    <3>1. {o \in Ops : l \in reserved[o]} = {}
      BY <2>1
    <3> QED BY <2>1, <3>1, FS_EmptySet DEF IInv, LanesInv
  <2>2. CASE \E o \in Ops : l \in reserved[o]
    <3>1. PICK o \in Ops : l \in reserved[o]
      BY <2>2
    <3>2. {i \in Ops : l \in reserved[i]} = {o}
      BY <3>1 DEF IInv, LanesInv, LaneExclusive
    <3>3. laneUse[l] = 1
      BY <3>1 DEF IInv, LanesInv, TypeOK, LaneBudget
    <3> QED BY <3>2, <3>3, FS_Singleton
  <2> QED BY <2>1, <2>2
<1> QED BY <1>1, Invariance, PTL

\* While an operation's own code runs its record is live, its lanes are its
\* own and the eject guard knows its volumes.
THEOREM Guarded == Spec => []WorkIsGuarded
<1>1. IInv => WorkIsGuarded
  BY DEF IInv, LifeInv, LanesInv, MapsInv, WorkIsGuarded, Live, Held, Ops
<1> QED BY <1>1, Invariance, PTL

\* An operation that is over leaves no live state, no busy mark and no
\* claimed scan behind.
THEOREM NothingLeft == Spec => []NothingOutlivesIt
<1>1. IInv => NothingOutlivesIt
  BY DEF IInv, MapsInv, NothingOutlivesIt
<1> QED BY <1>1, Invariance, PTL

-----------------------------------------------------------------------------
(* The manager implements the abstract lane lock                           *)

LEMMA InitLock == Init => Lock!Init
BY DEF Init, Lock!Init, LockPhase, Held, Live, Ops

\* A step that changes no record's phase is a stutter of the lock.
LEMMA LockStutter ==
    ASSUME \A o \in Managed : (Held(o)' <=> Held(o)) /\ (Live(o)' <=> Live(o))
    PROVE  UNCHANGED LockPhase
BY DEF LockPhase

\* A step that changes one record's status changes that client's phase alone.
LEMMA LockChange ==
    ASSUME NEW o \in Managed, TypeOK, TypeOK',
           \A i \in Ops : i # o => status'[i] = status[i]
    PROVE  LockPhase' = [LockPhase EXCEPT ![o] =
               IF Held(o)' THEN "holding" ELSE IF Live(o)' THEN "waiting" ELSE "idle"]
BY DEF LockPhase, Held, Live, Ops

LEMMA StepLock == IInv /\ TypeOK' /\ [Next]_vars => [Lock!Next]_LockPhase
<1> SUFFICES ASSUME IInv, TypeOK', [Next]_vars PROVE [Lock!Next]_LockPhase
  OBVIOUS
<1> USE DEF mgrVars, mapVars, Held, Live
<1>1. ASSUME NEW p \in Passers, PassStep(p) PROVE [Lock!Next]_LockPhase
  <2>1. CASE Admit(p)
    <3>1. PICK i \in 1..Len(order) : AdmitAt(p, i)
      BY <2>1 DEF Admit
    <3> DEFINE a == order[i]
    <3>2. a \in Managed /\ status[a] = "queued" /\ \A l \in LanesOf[a] : LaneFree(l)
      BY <3>1 DEF AdmitAt, Admissible, IInv, TypeOK, Ops
    <3>3. status' = [status EXCEPT ![a] = "running"]
      BY <3>1 DEF AdmitAt
    <3> HIDE DEF a
    <3>4. LockPhase' = [LockPhase EXCEPT ![a] = "holding"]
      BY <3>2, <3>3, LockChange DEF IInv, TypeOK, Ops
    <3>5. LockPhase[a] = "waiting"
      BY <3>2 DEF LockPhase
    <3>6. \A d \in Managed : LockPhase[d] = "holding" => ~Lock!Conflict(a, d)
      <4> SUFFICES ASSUME NEW d \in Managed, Held(d)
                   PROVE  LanesOf[a] \cap LanesOf[d] = {}
        BY DEF LockPhase, Lock!Conflict
      <4>1. reserved[d] = LanesOf[d] /\ d \in Ops
        BY DEF IInv, LanesInv, Ops
      <4>2. \A l \in LanesOf[a] : l \in Lanes /\ laneUse[l] = 0
        BY <3>2, LanesAssumption DEF LaneFree, LaneBudget, IInv, TypeOK
      <4> QED BY <4>1, <4>2 DEF IInv, LanesInv
    <3> QED BY <3>2, <3>4, <3>5, <3>6 DEF Lock!Next, Lock!Grant
  <2>2. CASE Launch(p)
    BY <2>2, LockStutter DEF Launch
  <2>3. CASE PassEnds(p)
    BY <2>3, LockStutter DEF PassEnds
  <2> QED BY <1>1, <2>1, <2>2, <2>3 DEF PassStep
<1>2. ASSUME NEW o \in Managed, ManagedStep(o) PROVE [Lock!Next]_LockPhase
  <2>1. CASE InsertRecord(o)
    <3>1. LockPhase' = [LockPhase EXCEPT ![o] = "waiting"]
      BY <2>1, LockChange DEF InsertRecord, IInv, TypeOK, Ops
    <3>2. LockPhase[o] = "idle"
      BY <2>1 DEF InsertRecord, LockPhase, IInv, LifeInv
    <3> QED BY <3>1, <3>2 DEF Lock!Next, Lock!Request
  <2>2. CASE Settle(o) \/ Panic(o)
    <3>1. FreeRecord(o) /\ o \in Ops /\ task[o] = "body"
      BY <2>2 DEF Settle, Panic, Ops
    <3>2. LockPhase' = [LockPhase EXCEPT ![o] = "idle"]
      BY <3>1, LockChange, FreedLife DEF IInv
    <3>3. LockPhase[o] = "holding"
      BY <3>1 DEF LockPhase, IInv, LifeInv
    <3> QED BY <3>2, <3>3 DEF Lock!Next, Lock!Release
  <2>3. CASE CancelIfQueued(o)
    <3>1. LockPhase' = [LockPhase EXCEPT ![o] = "idle"]
      BY <2>3, LockChange DEF CancelIfQueued, IInv, TypeOK, Ops
    <3>2. LockPhase[o] = "waiting"
      BY <2>3 DEF CancelIfQueued, LockPhase
    <3> QED BY <3>1, <3>2 DEF Lock!Next, Lock!GiveUp
  <2>4. CASE Announce(o) \/ EndScanWait(o) \/ RecordFailure(o) \/ DismissFailure(o)
             \/ DropCleanup(o)
    BY <2>4, LockStutter
       DEF Announce, EndScanWait, RecordFailure, DismissFailure, DropCleanup
  <2> QED BY <1>2, <2>1, <2>2, <2>3, <2>4 DEF ManagedStep
<1>3. ASSUME NEW o \in Instant, InstantStep(o) PROVE [Lock!Next]_LockPhase
  <2>1. CASE InstantStart(o)
    BY <2>1, LockStutter, OpsAssumption DEF InstantStart, IInv, TypeOK, Ops
  <2>2. CASE InstantRegister(o)
    BY <2>2, LockStutter DEF InstantRegister
  <2>3. CASE InstantEnds(o)
    <3>1. FreeRecord(o) /\ o \in Ops /\ o \notin Managed
      BY <2>3, OpsAssumption DEF InstantEnds, Ops
    <3> QED BY <3>1, FreedLife, LockStutter DEF IInv, Ops
  <2> QED BY <1>3, <2>1, <2>2, <2>3 DEF InstantStep
<1>4. ASSUME NEW o \in Ops, SharedStep(o) PROVE [Lock!Next]_LockPhase
  <2>1. CASE Cleanup(o)
    BY <2>1, LockStutter DEF Cleanup
  <2>2. CASE SetPaused(o)
    BY <2>2, LockStutter DEF SetPaused, IInv, TypeOK, Ops
  <2> QED BY <1>4, <2>1, <2>2 DEF SharedStep
<1>5. CASE DismissAllFailures
  BY <1>5, LockStutter DEF DismissAllFailures
<1>6. CASE UNCHANGED vars
  BY <1>6, LockStutter DEF vars
<1> QED BY <1>1, <1>2, <1>3, <1>4, <1>5, <1>6 DEF Next

\* Whatever the threads do, what a caller sees of the lanes is the abstract
\* lock: all of an operation's lanes or none, never two conflicting holders.
THEOREM Refinement == Spec => ImplementsLaneLock
BY Invariance, TypeCorrect, InitLock, StepLock, PTL DEF Spec, ImplementsLaneLock, Lock!Spec

-----------------------------------------------------------------------------
(* The queue: what the order lists, and that nothing in it is forgotten    *)

Lists(s, x) == \E i \in 1..Len(s) : s[i] = x
Distinct(s) == \A i, j \in 1..Len(s) : i # j => s[i] # s[j]

\* One element stands before another in a list.
InOrder(s, x, y) == \E i, j \in 1..Len(s) : i < j /\ s[i] = x /\ s[j] = y

\* Removing an id from a list without repetition removes that id and no other,
\* and leaves the others in the order they had.
LEMMA WithoutLists ==
    ASSUME NEW S, NEW s \in Seq(S), NEW o, Distinct(s)
    PROVE  /\ \A x : Lists(Without(s, o), x) <=> x # o /\ Lists(s, x)
           /\ Distinct(Without(s, o))
           /\ \A x, y : InOrder(Without(s, o), x, y) => InOrder(s, x, y)
<1>1. CASE Lists(s, o)
  <2>1. PICK i \in 1..Len(s) :
            s[i] = o /\ Without(s, o) = SubSeq(s, 1, i - 1) \o SubSeq(s, i + 1, Len(s))
    BY <1>1 DEF Without, Lists
  <2> DEFINE before == SubSeq(s, 1, i - 1)
             after == SubSeq(s, i + 1, Len(s))
             t == before \o after
  <2>2. /\ before \in Seq(S) /\ Len(before) = i - 1
        /\ \A k \in 1..i - 1 : before[k] = s[k]
    BY SubSeqProperties
  <2>3. /\ after \in Seq(S) /\ Len(after) = Len(s) - i
        /\ \A k \in 1..Len(s) - i : after[k] = s[k + i]
    BY SubSeqProperties
  <2>4. Len(s) \in Nat /\ i \in Nat
    OBVIOUS
  <2> HIDE DEF before, after
  <2>5. /\ Len(t) = Len(before) + Len(after)
        /\ \A k \in 1..Len(before) + Len(after) :
              t[k] = IF k <= Len(before) THEN before[k] ELSE after[k - Len(before)]
    BY <2>2, <2>3, ConcatProperties
  <2> HIDE DEF t
  <2>6. /\ Len(t) = Len(s) - 1
        /\ \A k \in 1..Len(s) - 1 : t[k] = IF k < i THEN s[k] ELSE s[k + 1]
    <3>1. Len(t) = Len(s) - 1
      BY <2>2, <2>3, <2>4, <2>5
    <3>2. ASSUME NEW k \in 1..Len(s) - 1, k < i PROVE t[k] = s[k]
      <4>1. k \in 1..Len(before) + Len(after) /\ k <= Len(before) /\ k \in 1..i - 1
        BY <2>2, <2>3, <2>4, <3>2
      <4> QED BY <2>2, <2>5, <4>1
    <3>3. ASSUME NEW k \in 1..Len(s) - 1, ~(k < i) PROVE t[k] = s[k + 1]
      <4>1. k \in 1..Len(before) + Len(after) /\ ~(k <= Len(before))
        BY <2>2, <2>3, <2>4, <3>3
      <4>2. k - Len(before) \in 1..Len(s) - i /\ (k - Len(before)) + i = k + 1
        BY <2>2, <2>4, <3>3
      <4> QED BY <2>3, <2>5, <4>1, <4>2
    <3> QED BY <3>1, <3>2, <3>3
  <2>7. \A x : Lists(t, x) <=> x # o /\ Lists(s, x)
    <3> SUFFICES ASSUME NEW x PROVE Lists(t, x) <=> x # o /\ Lists(s, x)
      OBVIOUS
    <3>1. ASSUME Lists(t, x) PROVE x # o /\ Lists(s, x)
      BY <2>1, <2>4, <2>6, <3>1 DEF Lists, Distinct
    <3>2. ASSUME x # o, Lists(s, x) PROVE Lists(t, x)
      <4>1. PICK j \in 1..Len(s) : s[j] = x
        BY <3>2 DEF Lists
      <4>2. CASE j < i
        BY <2>4, <2>6, <4>1, <4>2 DEF Lists
      <4>3. CASE j > i
        <5>1. j - 1 \in 1..Len(t) /\ t[j - 1] = s[j]
          BY <2>4, <2>6, <4>3
        <5> QED BY <4>1, <5>1 DEF Lists
      <4> QED BY <2>1, <2>4, <3>2, <4>1, <4>2, <4>3
    <3> QED BY <3>1, <3>2
  <2>8. Distinct(t)
    BY <2>4, <2>6 DEF Distinct
  <2>9. ASSUME NEW x, NEW y, InOrder(t, x, y) PROVE InOrder(s, x, y)
    <3>1. PICK k, m \in 1..Len(s) - 1 : k < m /\ t[k] = x /\ t[m] = y
      BY <2>6, <2>9 DEF InOrder
    <3> DEFINE At(n) == IF n < i THEN n ELSE n + 1
    <3>2. At(k) \in 1..Len(s) /\ At(m) \in 1..Len(s) /\ At(k) < At(m)
      BY <2>4, <3>1
    <3>3. s[At(k)] = x /\ s[At(m)] = y
      BY <2>6, <3>1
    <3> HIDE DEF At
    <3> QED BY <3>2, <3>3 DEF InOrder
  <2> QED BY <2>1, <2>7, <2>8, <2>9 DEF t, before, after
<1>2. CASE ~Lists(s, o)
  BY <1>2 DEF Without, Lists
<1> QED BY <1>1, <1>2

LEMMA AppendLists ==
    ASSUME NEW S, NEW s \in Seq(S), NEW o \in S, Distinct(s), ~Lists(s, o)
    PROVE  /\ \A x : Lists(Append(s, o), x) <=> x = o \/ Lists(s, x)
           /\ Distinct(Append(s, o))
<1>1. /\ Len(Append(s, o)) = Len(s) + 1 /\ Len(s) \in Nat
      /\ \A i \in 1..Len(s) : Append(s, o)[i] = s[i]
      /\ Append(s, o)[Len(s) + 1] = o
  OBVIOUS
<1> QED BY <1>1 DEF Lists, Distinct

\* What a step may do to the queue, told with the record it is about.
LEMMA StepOrder == IInv /\ OrderListsLive /\ [Next]_vars => OrderListsLive'
<1> SUFFICES ASSUME IInv, OrderListsLive, [Next]_vars PROVE OrderListsLive'
  OBVIOUS
<1> USE DEF mgrVars, mapVars
<1>0. Distinct(order) /\ order \in Seq(Ops) /\ \A x \in Ops : Live(x) <=> Lists(order, x)
  BY DEF OrderListsLive, Distinct, Lists, IInv, TypeOK
<1>1. ASSUME NEW o \in Ops, order' = Append(order, o), ~Live(o), Live(o)',
             \A x \in Ops : x # o => (Live(x)' <=> Live(x))
      PROVE  OrderListsLive'
  <2>1. (\A x : Lists(order', x) <=> x = o \/ Lists(order, x)) /\ Distinct(order')
    BY <1>0, <1>1, AppendLists
  <2> QED BY <1>0, <1>1, <2>1 DEF OrderListsLive, Distinct, Lists
<1>2. ASSUME NEW o \in Ops, order' = Without(order, o), ~Live(o)',
             \A x \in Ops : x # o => (Live(x)' <=> Live(x))
      PROVE  OrderListsLive'
  <2>1. (\A x : Lists(order', x) <=> x # o /\ Lists(order, x)) /\ Distinct(order')
    BY <1>0, <1>2, WithoutLists
  <2> QED BY <1>0, <1>2, <2>1 DEF OrderListsLive, Distinct, Lists
<1>3. ASSUME UNCHANGED order, \A x \in Ops : Live(x)' <=> Live(x)
      PROVE  OrderListsLive'
  BY <1>3 DEF OrderListsLive
<1>4. ASSUME NEW o \in Ops, FreeRecord(o) PROVE OrderListsLive'
  BY <1>2, <1>4, FreedLife DEF FreeRecord, Live, IInv
<1>5. ASSUME NEW p \in Passers, PassStep(p) PROVE OrderListsLive'
  <2>1. CASE Admit(p)
    <3>1. PICK i \in 1..Len(order) : AdmitAt(p, i)
      BY <2>1 DEF Admit
    <3> QED BY <1>3, <3>1 DEF AdmitAt, Admissible, Live, IInv, TypeOK
  <2>2. CASE Launch(p) \/ PassEnds(p)
    BY <1>3, <2>2 DEF Launch, PassEnds, Live
  <2> QED BY <1>5, <2>1, <2>2 DEF PassStep
<1>6. ASSUME NEW o \in Managed, ManagedStep(o) PROVE OrderListsLive'
  <2>1. CASE InsertRecord(o)
    BY <1>1, <2>1 DEF InsertRecord, Live, IInv, TypeOK, LifeInv, Ops
  <2>2. CASE Settle(o) \/ Panic(o)
    BY <1>4, <2>2 DEF Settle, Panic, Ops
  <2>3. CASE CancelIfQueued(o)
    BY <1>2, <2>3 DEF CancelIfQueued, Live, IInv, TypeOK, Ops
  <2>4. CASE Announce(o) \/ EndScanWait(o) \/ RecordFailure(o) \/ DismissFailure(o)
             \/ DropCleanup(o)
    BY <1>3, <2>4 DEF Announce, EndScanWait, RecordFailure, DismissFailure, DropCleanup, Live
  <2> QED BY <1>6, <2>1, <2>2, <2>3, <2>4 DEF ManagedStep
<1>7. ASSUME NEW o \in Instant, InstantStep(o) PROVE OrderListsLive'
  <2>1. CASE InstantStart(o)
    BY <1>1, <2>1 DEF InstantStart, Live, IInv, TypeOK, Ops
  <2>2. CASE InstantRegister(o)
    BY <1>3, <2>2 DEF InstantRegister, Live
  <2>3. CASE InstantEnds(o)
    BY <1>4, <2>3 DEF InstantEnds, Ops
  <2> QED BY <1>7, <2>1, <2>2, <2>3 DEF InstantStep
<1>8. ASSUME NEW o \in Ops, SharedStep(o) PROVE OrderListsLive'
  BY <1>3, <1>8 DEF SharedStep, Cleanup, SetPaused, Held, Live, IInv, TypeOK
<1>9. CASE DismissAllFailures \/ UNCHANGED vars
  BY <1>3, <1>9 DEF DismissAllFailures, vars, Live
<1> QED BY <1>5, <1>6, <1>7, <1>8, <1>9 DEF Next

\* The queue lists every live record once and nothing else.
THEOREM OrderCorrect == Spec => []OrderListsLive
<1>1. Init => OrderListsLive
  BY DEF Init, OrderListsLive, Live
<1> QED BY <1>1, StepOrder, Invariance, PTL DEF Spec

\* A step that makes nothing admissible, and takes no pass away, strands
\* nothing.
LEMMA StillHandled ==
    ASSUME NoStrandedOp,
           \A o \in Managed : Admissible(o)' => Admissible(o),
           \A p \in Passers : InPass(p) => InPass(p)',
           \A i \in Managed : task[i] = "settling" => task'[i] \in {"settling", "pass"},
           panicFreed => panicFreed'
    PROVE  NoStrandedOp'
<1>1. ASSUME NEW i \in Managed, task'[i] = "pass"
      PROVE  \E p \in Passers : InPass(p)'
  <2>1. <<"task", i>> \in Passers /\ InPass(<<"task", i>>)'
    BY <1>1 DEF Passers, InPass
  <2> QED BY <2>1
<1> QED BY <1>1 DEF NoStrandedOp

LEMMA StepStranded ==
    IInv /\ OrderListsLive /\ NoStrandedOp /\ [Next]_vars => NoStrandedOp'
<1> SUFFICES ASSUME IInv, OrderListsLive, NoStrandedOp, [Next]_vars
             PROVE  NoStrandedOp'
  OBVIOUS
<1> USE DEF mgrVars, mapVars
<1>1. ASSUME NEW p \in Passers, PassStep(p) PROVE NoStrandedOp'
  <2>1. CASE Admit(p)
    <3>1. InPass(p)'
      BY <2>1 DEF Admit, AdmitAt, InPass
    <3> QED BY <3>1 DEF NoStrandedOp
  <2>2. CASE Launch(p)
    <3>1. carry[p] \in Managed /\ task[carry[p]] = "none"
      BY <2>2 DEF Launch, IInv, LifeInv, Carried
    <3>2. \A i \in Managed : task[i] # "none" => task'[i] = task[i]
      BY <2>2, <3>1 DEF Launch, IInv, TypeOK, Ops
    <3>3. \A q \in Passers : InPass(q) => InPass(q)'
      BY <2>2, <3>2 DEF Launch, InPass, Passers
    <3>4. \A o \in Managed : Admissible(o)' <=> Admissible(o)
      BY <2>2 DEF Launch, Admissible, LaneFree
    <3>5. \A i \in Managed : task[i] = "settling" => task'[i] \in {"settling", "pass"}
      BY <3>2
    <3> QED BY <2>2, <3>3, <3>4, <3>5, StillHandled DEF Launch
  <2>3. CASE PassEnds(p)
    <3>1. \A o \in Managed : ~Admissible(o)
      BY <2>3 DEF PassEnds, OrderListsLive, Admissible, Live, Ops
    <3>2. \A o \in Managed : ~Admissible(o)'
      BY <2>3, <3>1 DEF PassEnds, Admissible, LaneFree
    <3> QED BY <3>2 DEF NoStrandedOp
  <2> QED BY <1>1, <2>1, <2>2, <2>3 DEF PassStep
<1>2. ASSUME NEW o \in Managed, ManagedStep(o) PROVE NoStrandedOp'
  <2>1. CASE InsertRecord(o)
    <3>1. <<"reg", o>> \in Passers /\ InPass(<<"reg", o>>)'
      BY <2>1 DEF InsertRecord, Passers, InPass, IInv, TypeOK
    <3> QED BY <3>1 DEF NoStrandedOp
  <2>2. CASE Settle(o)
    <3>1. task'[o] = "settling"
      BY <2>2 DEF Settle, IInv, TypeOK, Ops
    <3> QED BY <3>1 DEF NoStrandedOp
  <2>3. CASE Panic(o)
    BY <2>3 DEF Panic, NoStrandedOp
  <2>4. CASE CancelIfQueued(o)
    <3>1. \A i \in Managed : Admissible(i)' => Admissible(i)
      BY <2>4 DEF CancelIfQueued, Admissible, LaneFree, IInv, TypeOK, Ops
    <3>2. task[o] = "none" /\ \A i \in Managed : i # o => task'[i] = task[i]
      BY <2>4 DEF CancelIfQueued, IInv, LifeInv, TypeOK, Ops
    <3>3. \A q \in Passers : InPass(q) => InPass(q)'
      BY <2>4, <3>2 DEF CancelIfQueued, InPass, Passers
    <3> QED BY <2>4, <3>1, <3>2, <3>3, StillHandled DEF CancelIfQueued
  <2>5. CASE Announce(o)
    <3>1. \A i \in Managed : Admissible(i)' => Admissible(i)
      BY <2>5 DEF Announce, Admissible, LaneFree
    <3>2. \A q \in Passers : InPass(q) => InPass(q)'
      BY <2>5 DEF Announce, InPass, Passers, IInv, TypeOK
    <3> QED BY <2>5, <3>1, <3>2, StillHandled DEF Announce
  <2>6. CASE DropCleanup(o)
    <3>1. \A i \in Managed : Admissible(i)' => Admissible(i)
      BY <2>6 DEF DropCleanup, Admissible, LaneFree
    <3>2. \A i \in Managed : task[i] # "dropped" => task'[i] = task[i]
      BY <2>6 DEF DropCleanup, IInv, TypeOK, Ops
    <3>3. \A q \in Passers : InPass(q) => InPass(q)'
      BY <2>6, <3>2 DEF DropCleanup, InPass, Passers
    <3> QED BY <2>6, <3>1, <3>2, <3>3, StillHandled DEF DropCleanup
  <2>7. CASE EndScanWait(o) \/ RecordFailure(o) \/ DismissFailure(o)
    <3>1. UNCHANGED <<status, laneUse, reg, task, panicFreed>>
      BY <2>7 DEF EndScanWait, RecordFailure, DismissFailure
    <3> QED BY <3>1, StillHandled DEF Admissible, LaneFree, InPass
  <2> QED BY <1>2, <2>1, <2>2, <2>3, <2>4, <2>5, <2>6, <2>7 DEF ManagedStep
<1>3. ASSUME NEW o \in Instant, InstantStep(o) PROVE NoStrandedOp'
  <2>1. /\ \A i \in Managed : task'[i] = task[i] /\ (status'[i] = "queued" => status[i] = "queued")
        /\ UNCHANGED <<reg, panicFreed>>
    BY <1>3, OpsAssumption
       DEF InstantStep, InstantStart, InstantRegister, InstantEnds, FreeRecord, IInv, TypeOK, Ops
  <2>2. \A l \in Lanes : laneUse'[l] = laneUse[l]
    <3>1. CASE InstantEnds(o)
      <4>1. reserved[o] = {}
        BY OpsAssumption DEF IInv, LanesInv, Ops
      <4> QED BY <3>1, <4>1 DEF InstantEnds, FreeRecord, Release
    <3>2. CASE InstantStart(o) \/ InstantRegister(o)
      BY <3>2 DEF InstantStart, InstantRegister
    <3> QED BY <1>3, <3>1, <3>2 DEF InstantStep
  <2>3. \A i \in Managed : Admissible(i)' => Admissible(i)
    BY <2>1, <2>2, LanesAssumption DEF Admissible, LaneFree
  <2>4. \A q \in Passers : InPass(q) => InPass(q)'
    BY <2>1 DEF InPass, Passers
  <2> QED BY <2>1, <2>3, <2>4, StillHandled
<1>4. ASSUME NEW o \in Ops, SharedStep(o) PROVE NoStrandedOp'
  <2>1. CASE Cleanup(o)
    <3>1. \A i \in Managed : Admissible(i)' => Admissible(i)
      BY <2>1 DEF Cleanup, Admissible, LaneFree
    <3>2. \A i \in Managed : task[i] = "pass" => task'[i] = "pass"
      BY <2>1 DEF Cleanup, IInv, TypeOK, Ops
    <3>3. \A i \in Managed : task[i] = "settling" => task'[i] \in {"settling", "pass"}
      BY <2>1 DEF Cleanup, IInv, TypeOK, Ops
    <3>4. \A q \in Passers : InPass(q) => InPass(q)'
      BY <2>1, <3>2 DEF Cleanup, InPass, Passers
    <3> QED BY <2>1, <3>1, <3>3, <3>4, StillHandled DEF Cleanup
  <2>2. CASE SetPaused(o)
    <3>1. \A i \in Managed : Admissible(i)' => Admissible(i)
      BY <2>2 DEF SetPaused, Held, Admissible, LaneFree, IInv, TypeOK, Ops
    <3> QED BY <2>2, <3>1, StillHandled DEF SetPaused, InPass
  <2> QED BY <1>4, <2>1, <2>2 DEF SharedStep
<1>5. CASE DismissAllFailures \/ UNCHANGED vars
  <2>1. UNCHANGED <<status, laneUse, reg, task, panicFreed>>
    BY <1>5 DEF DismissAllFailures, vars
  <2> QED BY <2>1, StillHandled DEF Admissible, LaneFree, InPass
<1> QED BY <1>1, <1>2, <1>3, <1>4, <1>5 DEF Next

\* A queued operation that could start is never forgotten: unless only an
\* unwinding task freed its lanes, a pass that will start it is on its way.
THEOREM NothingStranded == Spec => []NoStrandedOp
<1>1. Init => NoStrandedOp
  BY DEF Init, NoStrandedOp, Admissible, Ops
<1> QED BY <1>1, StepStranded, OrderCorrect, Invariance, PTL DEF Spec

-----------------------------------------------------------------------------
(* Nobody overtakes                                                        *)

\* A step that puts nobody into the queue, gives nobody a lane and reorders
\* nobody lets nobody overtake.
LEMMA StillInTurn ==
    ASSUME NoOvertaking,
           \A x, y \in Managed : Before(x, y)' => Before(x, y),
           \A x \in Managed : status'[x] = "queued" => status[x] = "queued",
           \A x \in Managed : Held(x)' => Held(x)
    PROVE  NoOvertaking'
  BY DEF NoOvertaking

\* Who starts past an earlier one needs a lane the earlier one does not: the
\* pass has looked at the earlier one first and found one of its lanes taken.
LEMMA AdmitInTurn ==
    ASSUME TypeOK, OrderListsLive, NoOvertaking, NEW p \in Passers, Admit(p)
    PROVE  NoOvertaking'
<1>1. PICK i \in 1..Len(order) : AdmitAt(p, i)
  BY DEF Admit
<1> DEFINE a == order[i]
<1>2. /\ a \in Managed /\ \A l \in LanesOf[a] : LaneFree(l)
      /\ \A j \in 1..(i - 1) : ~Admissible(order[j])
      /\ status' = [status EXCEPT ![a] = "running"] /\ order' = order
  BY <1>1 DEF AdmitAt, Admissible, TypeOK, Ops
<1>3. \A k \in 1..Len(order) : order[k] = a => k = i
  BY DEF OrderListsLive
<1> HIDE DEF a
<1>4. \A x \in Ops : status'[x] = IF x = a THEN "running" ELSE status[x]
  BY <1>2 DEF TypeOK, Ops
<1>5. \A x, y \in Managed : Before(x, y)' <=> Before(x, y)
  BY <1>2 DEF Before
<1>6. ASSUME NEW x \in Managed, NEW y \in Managed,
             Before(x, y)', LanesOf[x] \subseteq LanesOf[y], Held(y)'
      PROVE  status'[x] # "queued"
  <2>1. CASE y = a
    <3>1. PICK j \in 1..(i - 1) : order[j] = x
      <4>1. PICK j, k \in 1..Len(order) : j < k /\ order[j] = x /\ order[k] = a
        BY <1>5, <1>6, <2>1 DEF Before
      <4>2. k = i /\ j \in 1..(i - 1)
        BY <1>3, <4>1
      <4> QED BY <4>1, <4>2
    <3>2. ~Admissible(x) /\ \A l \in LanesOf[x] : LaneFree(l)
      BY <1>2, <1>6, <2>1, <3>1
    <3>3. status[x] # "queued"
      BY <3>2 DEF Admissible
    <3> QED BY <1>4, <3>3 DEF Ops
  <2>2. CASE y # a
    <3>1. Held(y)
      BY <1>4, <1>6, <2>2 DEF Held, Ops
    <3>2. status[x] # "queued"
      BY <1>5, <1>6, <3>1 DEF NoOvertaking
    <3> QED BY <1>4, <3>2 DEF Ops
  <2> QED BY <2>1, <2>2
<1> QED BY <1>6 DEF NoOvertaking

\* A record that joins the list joins it at the end, and does not work yet.
LEMMA JoinInTurn ==
    ASSUME order \in Seq(Ops), NoOvertaking, NEW o \in Ops, order' = Append(order, o),
           ~Lists(order, o), o \in Managed => ~Held(o)',
           \A x \in Ops : x # o => status'[x] = status[x]
    PROVE  NoOvertaking'
<1>1. /\ Len(order') = Len(order) + 1 /\ Len(order) \in Nat
      /\ \A i \in 1..Len(order) : order'[i] = order[i]
      /\ order'[Len(order) + 1] = o
  OBVIOUS
<1>2. ASSUME NEW x \in Managed, NEW y \in Managed, Before(x, y)', y # o
      PROVE  Before(x, y) /\ x # o
  <2>1. PICK i, j \in 1..Len(order') : i < j /\ order'[i] = x /\ order'[j] = y
    BY <1>2 DEF Before
  <2>2. j \in 1..Len(order) /\ i \in 1..Len(order)
    BY <1>1, <1>2, <2>1
  <2>3. order[i] = x /\ order[j] = y
    BY <1>1, <2>1, <2>2
  <2> QED BY <2>1, <2>2, <2>3 DEF Before, Lists
<1> QED BY <1>2 DEF NoOvertaking, Held, Ops

LEMMA StepInTurn ==
    IInv /\ OrderListsLive /\ NoOvertaking /\ [Next]_vars => NoOvertaking'
<1> SUFFICES ASSUME IInv, OrderListsLive, NoOvertaking, [Next]_vars PROVE NoOvertaking'
  OBVIOUS
<1> USE DEF mgrVars, mapVars
<1>0. /\ Distinct(order) /\ order \in Seq(Ops) /\ \A x \in Ops : Live(x) <=> Lists(order, x)
      /\ status \in [Ops -> Statuses]
  BY DEF OrderListsLive, Distinct, Lists, IInv, TypeOK
<1>1. ASSUME NEW o \in Ops, order' = Without(order, o), status' = [status EXCEPT ![o] = "absent"]
      PROVE  NoOvertaking'
  <2>1. \A x, y \in Managed : Before(x, y)' => Before(x, y)
    <3> SUFFICES ASSUME NEW x \in Managed, NEW y \in Managed, Before(x, y)'
                 PROVE  Before(x, y)
      OBVIOUS
    <3>1. InOrder(order', x, y)
      BY DEF Before, InOrder
    <3>2. InOrder(Without(order, o), x, y) => InOrder(order, x, y)
      BY <1>0, WithoutLists
    <3>3. InOrder(order, x, y)
      BY <1>1, <3>1, <3>2
    <3> QED BY <3>3 DEF Before, InOrder
  <2>2. \A x \in Ops : status'[x] = IF x = o THEN "absent" ELSE status[x]
    BY <1>0, <1>1
  <2> QED BY <2>1, <2>2, StillInTurn DEF Held, Ops
<1>2. ASSUME UNCHANGED <<order, status>> PROVE NoOvertaking'
  BY <1>2 DEF NoOvertaking, Before, Held
<1>3. ASSUME NEW p \in Passers, PassStep(p) PROVE NoOvertaking'
  <2>1. CASE Admit(p)
    BY <2>1, AdmitInTurn DEF IInv
  <2>2. CASE Launch(p) \/ PassEnds(p)
    BY <1>2, <2>2 DEF Launch, PassEnds
  <2> QED BY <1>3, <2>1, <2>2 DEF PassStep
<1>4. ASSUME NEW o \in Managed, ManagedStep(o) PROVE NoOvertaking'
  <2>1. CASE InsertRecord(o)
    <3>1. status' = [status EXCEPT ![o] = "queued"] /\ order' = Append(order, o) /\ o \in Ops
      BY <2>1 DEF InsertRecord, Ops
    <3>2. ~Live(o)
      BY <2>1 DEF InsertRecord, IInv, LifeInv, Live
    <3> QED BY <1>0, <3>1, <3>2, JoinInTurn DEF Held
  <2>2. CASE Settle(o) \/ Panic(o)
    BY <1>1, <2>2 DEF Settle, Panic, FreeRecord, Ops
  <2>3. CASE CancelIfQueued(o)
    BY <1>1, <2>3 DEF CancelIfQueued, Ops
  <2>4. CASE Announce(o) \/ EndScanWait(o) \/ RecordFailure(o) \/ DismissFailure(o)
             \/ DropCleanup(o)
    BY <1>2, <2>4 DEF Announce, EndScanWait, RecordFailure, DismissFailure, DropCleanup
  <2> QED BY <1>4, <2>1, <2>2, <2>3, <2>4 DEF ManagedStep
<1>5. ASSUME NEW o \in Instant, InstantStep(o) PROVE NoOvertaking'
  <2>1. CASE InstantStart(o)
    <3>1. status' = [status EXCEPT ![o] = "running"] /\ order' = Append(order, o) /\ o \in Ops
      BY <2>1 DEF InstantStart, Ops
    <3>2. ~Live(o) /\ o \notin Managed
      BY <2>1, OpsAssumption DEF InstantStart, Live
    <3> QED BY <1>0, <3>1, <3>2, JoinInTurn
  <2>2. CASE InstantRegister(o)
    BY <1>2, <2>2 DEF InstantRegister
  <2>3. CASE InstantEnds(o)
    BY <1>1, <2>3 DEF InstantEnds, FreeRecord, Ops
  <2> QED BY <1>5, <2>1, <2>2, <2>3 DEF InstantStep
<1>6. ASSUME NEW o \in Ops, SharedStep(o) PROVE NoOvertaking'
  <2>1. CASE Cleanup(o)
    BY <1>2, <2>1 DEF Cleanup
  <2>2. CASE SetPaused(o)
    <3>1. Held(o) /\ UNCHANGED order
      BY <2>2 DEF SetPaused
    <3>2. \A x \in Ops : status'[x] = IF x = o THEN status'[o] ELSE status[x]
      BY <1>0, <2>2 DEF SetPaused
    <3>3. status'[o] \in {"running", "paused"}
      BY <1>0, <2>2 DEF SetPaused
    <3> QED BY <3>1, <3>2, <3>3, StillInTurn DEF Before, Held, Ops
  <2> QED BY <1>6, <2>1, <2>2 DEF SharedStep
<1>7. CASE DismissAllFailures \/ UNCHANGED vars
  BY <1>2, <1>7 DEF DismissAllFailures, vars
<1> QED BY <1>3, <1>4, <1>5, <1>6, <1>7 DEF Next

\* Whoever waits for no more than a later operation needs is served first,
\* for any set of lanes and however many threads run passes: while the later
\* one works, the earlier one is past the queue or has left it.
THEOREM NobodyOvertakes == Spec => []NoOvertaking
<1>1. Init => NoOvertaking
  BY DEF Init, NoOvertaking, Held, Ops
<1> QED BY <1>1, StepInTurn, OrderCorrect, Invariance, PTL DEF Spec

=============================================================================

----------------------- MODULE DriveReleaseTrustProofs ----------------------
(***************************************************************************)
(* What the answers of DriveRelease are worth: that a disable has the last *)
(* word, and that a drive said to be let go of has been let go of.         *)
(***************************************************************************)
EXTENDS DriveReleaseProofs

-----------------------------------------------------------------------------
(* A disable has the last word.  What could revive the index after it is a *)
(* start that holds the ticket, a resume past its checks that read the     *)
(* intent before the disable, and a resume about to check that did: the    *)
(* last is there only until the disable moves the epoch again.             *)

Rising(s, v) == start[s].vol = v /\ start[s].at \in {"checking", "calling"}
Reviving(b, v) ==
    batch[b].vol = v /\ (batch[b].at \in {"owned", "calling"}
                         \/ (batch[b].at = "checking" /\ batch[b].intent))
AboutTo(b, v) ==
    batch[b].vol = v /\ batch[b].at = "settled" /\ batch[b].intent /\ gate[v].batch = b
Undoing(v) == \E d \in Disables : disable[d].vol = v /\ disable[d].held /\ disable[d].at = "called"

LastOf(v) ==
    lastWord[v] =>
        /\ ~index[v] /\ ~intent[v]
        /\ \A s \in Starts : ~Rising(s, v)
        /\ \A b \in Batches : ~Reviving(b, v)
        /\ \A b \in Batches : AboutTo(b, v) => Undoing(v)
LastInv == \A v \in Volumes : LastOf(v)

LEMMA LastParts == TypeInv /\ LastInv => DisableHasLastWord
BY DEF LastInv, LastOf, DisableHasLastWord, Calling, Rising, Reviving

LEMMA InitLastInv == Init => LastInv
BY DEF Init, LastInv, LastOf

\* Nothing new rises, revives or is about to.
LEMMA LastKept ==
    ASSUME NEW v, LastOf(v), lastWord'[v] => lastWord[v],
           index'[v] => index[v], intent'[v] => intent[v],
           \A s \in Starts : Rising(s, v)' => Rising(s, v),
           \A b \in Batches : Reviving(b, v)' => Reviving(b, v),
           \A b \in Batches : AboutTo(b, v)' => AboutTo(b, v),
           Undoing(v) => Undoing(v)'
    PROVE  LastOf(v)'
BY DEF LastOf

LEMMA StartLast == ASSUME TypeInv, LastInv, NEW s \in Starts, StartSteps(s) PROVE LastInv'
<1> USE DEF callVars, hostVars, historyVars
<1> SUFFICES ASSUME NEW v \in Volumes PROVE LastOf(v)'
  BY DEF LastInv
<1>1. UNCHANGED <<disable, batch>> /\ \A q \in Starts \ {s} : start'[q] = start[q]
  <2>1. UNCHANGED <<disable, batch>>
    BY DEF StartSteps, StartAsked, StartWoken, StartTurn, StartGivesUp, StartGoesOn, StartListed,
           StartReturns, StartDrops
  <2>2. start \in [Starts -> StartSet] => \A q \in Starts \ {s} : start'[q] = start[q]
    BY DEF StartSteps, StartAsked, StartWoken, StartTurn, StartGivesUp, StartGoesOn, StartListed,
           StartReturns, StartDrops
  <2> QED BY <2>1, <2>2 DEF TypeInv, CallsType
<1>2. \A q \in Starts \ {s} : Rising(q, v)' => Rising(q, v)
  BY <1>1 DEF Rising
<1>3. \A b \in Batches : Reviving(b, v)' => Reviving(b, v)
  BY <1>1 DEF Reviving
<1>4. Undoing(v) => Undoing(v)'
  BY <1>1 DEF Undoing
<1>5. gate'[v].batch = gate[v].batch
  BY DEF StartSteps, StartAsked, StartWoken, StartTurn, StartGivesUp, StartGoesOn, StartListed,
         StartReturns, StartDrops, DropTicket, TypeInv, GateType, GateSet
<1>6. \A b \in Batches : AboutTo(b, v)' => AboutTo(b, v)
  BY <1>1, <1>5 DEF AboutTo
<1>7. ASSUME ~Rising(s, v)' \/ Rising(s, v), lastWord'[v] => lastWord[v],
             index'[v] => index[v], intent'[v] => intent[v]
      PROVE  LastOf(v)'
  BY <1>2, <1>3, <1>4, <1>6, <1>7, LastKept DEF LastInv
<1>8. start[s] \in StartSet
  BY DEF TypeInv, CallsType
<1>9. ASSUME NEW w \in Volumes, NEW person, NEW waited, StartTurn(s, w, person, waited),
             UNCHANGED <<index, intent>>
      PROVE  LastOf(v)'
  <2>1. CASE Leaving(w) /\ ~person
    <3>1. start' = [start EXCEPT ![s] = Over(NoStart)] /\ UNCHANGED lastWord
      BY <1>9, <2>1 DEF StartTurn
    <3>2. ~Rising(s, v)'
      BY <3>1 DEF Rising, Over, NoStart, TypeInv, CallsType
    <3> QED BY <1>7, <1>9, <3>1, <3>2
  <2>2. CASE ~Leaving(w) /\ ~Held(w)
    <3>1. /\ start' = [start EXCEPT ![s] = [at |-> IF waited THEN "checking" ELSE "calling",
                                            vol |-> w, person |-> person, waited |-> waited]]
          /\ lastWord' = [lastWord EXCEPT ![w] = FALSE]
      BY <1>9, <2>2 DEF StartTurn
    <3>2. CASE v = w
      BY <3>1, <3>2 DEF LastOf, TypeInv, HistoryType
    <3>3. CASE v # w
      <4>1. ~Rising(s, v)' /\ lastWord'[v] = lastWord[v]
        BY <3>1, <3>3 DEF Rising, TypeInv, CallsType, HistoryType
      <4> QED BY <1>7, <1>9, <4>1
    <3> QED BY <3>2, <3>3
  <2>3. CASE IF Leaving(w) THEN person ELSE Held(w)
    <3>1. /\ start' = [start EXCEPT ![s] = [at |-> "waiting", vol |-> w, person |-> person,
                                            waited |-> waited \/ Leaving(w)]]
          /\ UNCHANGED lastWord
      BY <1>9, <2>3 DEF StartTurn
    <3>2. ~Rising(s, v)'
      BY <3>1 DEF Rising, TypeInv, CallsType
    <3> QED BY <1>7, <1>9, <3>1, <3>2
  <2> QED BY <1>9, <2>1, <2>2, <2>3 DEF StartTurn
<1>10. CASE StartAsked(s)
  BY <1>9, <1>10 DEF StartAsked
<1>11. CASE StartWoken(s)
  BY <1>9, <1>11 DEF StartWoken, TypeInv, CallInv
<1>12. CASE StartGivesUp(s)
  <2>1. ~Rising(s, v)'
    BY <1>12 DEF StartGivesUp, Rising, Over, NoStart, TypeInv, CallsType
  <2> QED BY <1>7, <1>12, <2>1 DEF StartGivesUp
<1>13. CASE StartListed(s)
  <2>1. Rising(s, v)' => Rising(s, v)
    BY <1>13 DEF StartListed, Rising, Over, NoStart, TypeInv, CallsType, StartSet
  <2> QED BY <1>7, <1>13, <2>1 DEF StartListed
<1>14. CASE StartReturns(s)
  <2>1. ~Rising(s, v)'
    BY <1>14 DEF StartReturns, Rising, TypeInv, CallsType, StartSet
  <2>2. CASE start[s].vol = v
    <3>1. ~lastWord[v]
      BY <1>14, <2>2 DEF StartReturns, Rising, LastInv, LastOf
    <3> QED BY <1>14, <3>1 DEF StartReturns, LastOf
  <2>3. CASE start[s].vol # v
    <3>1. index'[v] = index[v] /\ intent'[v] = intent[v]
      BY <1>14, <2>3 DEF StartReturns, IndexStarts, TypeInv, HostType
    <3> QED BY <1>7, <1>14, <2>1, <3>1 DEF StartReturns
  <2> QED BY <2>2, <2>3
<1>15. CASE StartDrops(s)
  <2>1. ~Rising(s, v)'
    BY <1>15 DEF StartDrops, Rising, Over, NoStart, TypeInv, CallsType
  <2> QED BY <1>7, <1>15, <2>1 DEF StartDrops
<1> QED BY <1>10, <1>11, <1>12, <1>13, <1>14, <1>15 DEF StartSteps, StartGoesOn

LEMMA DisableLast ==
    ASSUME TypeInv, TicketInv, LastInv, NEW d \in Disables, DisableSteps(d) PROVE LastInv'
<1> USE DEF callVars, hostVars, historyVars
<1> SUFFICES ASSUME NEW v \in Volumes PROVE LastOf(v)'
  BY DEF LastInv
<1>1. disable[d] \in DisableSet /\ \A q \in Disables \ {d} : disable'[q] = disable[q]
  BY DEF DisableSteps, DisableAsked, DisableWoken, DisableTurn, DisableGivesUp, DisableGoesOn,
         DisableCalls, DisableMovesEpoch, DisableDrops, TypeInv, CallsType
<1>2. ASSUME disable[d].at # "called", UNCHANGED <<start, batch, lastWord, index, intent>>,
             gate'[v].batch \in {gate[v].batch, None}
      PROVE  LastOf(v)'
  <2>1. Undoing(v) => Undoing(v)'
    BY <1>1, <1>2 DEF Undoing
  <2>2. \A b \in Batches : AboutTo(b, v)' => AboutTo(b, v)
    BY <1>2, NoneAssumption DEF AboutTo
  <2>3. /\ \A s \in Starts : Rising(s, v)' => Rising(s, v)
        /\ \A b \in Batches : Reviving(b, v)' => Reviving(b, v)
    BY <1>2 DEF Rising, Reviving
  <2> QED BY <1>2, <2>1, <2>2, <2>3, LastKept DEF LastInv
<1>3. CASE DisableAsked(d)
  <2>1. PICK w \in Volumes : DisableTurn(d, w, Bumped({w}))
    BY <1>3 DEF DisableAsked
  <2> PICK g : g = Bumped({w})
    OBVIOUS
  <2>2. {w} \in SUBSET Volumes
    OBVIOUS
  <2>3. g \in GateSet(lastEpoch + Cardinality({w})) /\ g[v].batch \in {gate[v].batch, None}
    BY <2>2, BumpedGate DEF TypeInv
  <2>4. gate'[v].batch = g[v].batch
    <3>1. gate' = [g EXCEPT ![w].ticket = "Disable"] \/ gate' = g
      BY <2>1 DEF DisableTurn
    <3>2. DOMAIN g = Volumes /\ "batch" \in DOMAIN g[v]
      BY <2>3 DEF GateSet
    <3> QED BY <3>1, <3>2
  <2> QED BY <1>2, <1>3, <2>3, <2>4 DEF DisableAsked
<1>4. CASE DisableWoken(d)
  <2>1. gate'[v].batch = gate[v].batch
    BY <1>4 DEF DisableWoken, DisableTurn, TypeInv, GateType, GateSet
  <2> QED BY <1>2, <1>4, <2>1 DEF DisableWoken
<1>5. CASE DisableGivesUp(d)
  BY <1>2, <1>5 DEF DisableGivesUp
<1>6. CASE DisableCalls(d)
  <2>1. CASE disable[d].vol # v
    <3>1. /\ index'[v] = index[v] /\ intent'[v] = intent[v] /\ lastWord'[v] = lastWord[v]
          /\ UNCHANGED gate
      BY <1>6, <2>1 DEF DisableCalls, TypeInv, HostType, HistoryType
    <3>2. \A s \in Starts : Rising(s, v)' => Rising(s, v)
      BY <1>6 DEF DisableCalls, Rising, TypeInv, CallsType, StartSet
    <3>3. \A b \in Batches : Reviving(b, v)' => Reviving(b, v)
      BY <1>6 DEF DisableCalls, Reviving, TypeInv, CallsType, BatchSet
    <3>4. \A b \in Batches : AboutTo(b, v)' => AboutTo(b, v)
      BY <1>6 DEF DisableCalls, AboutTo, TypeInv, CallsType, BatchSet
    <3>5. Undoing(v) => Undoing(v)'
      BY <1>1, <2>1 DEF Undoing
    <3> QED BY <3>1, <3>2, <3>3, <3>4, <3>5, LastKept DEF LastInv
  <2>2. CASE disable[d].vol = v
    <3>1. ~index'[v] /\ ~intent'[v] /\ UNCHANGED gate
      BY <1>6, <2>2 DEF DisableCalls, TypeInv, HostType
    <3>2. CASE disable[d].held
      <4>1. d \in DisableHolders(v)
        BY <1>6, <2>2, <3>2 DEF DisableCalls, DisableHolders
      <4>2. HeldByStart(v) = {} /\ HeldByBatch(v) = {}
        BY <4>1 DEF TicketInv, TicketOf
      <4>3. \A s \in Starts : ~Rising(s, v)'
        BY <1>6, <2>2, <4>2
           DEF DisableCalls, Rising, HeldByStart, WithTicket, TypeInv, CallsType, StartSet
      <4>4. \A b \in Batches : ~Reviving(b, v)'
        BY <1>6, <2>2, <4>2
           DEF DisableCalls, Reviving, HeldByBatch, WithTicket, TypeInv, CallsType, BatchSet
      <4>5. Undoing(v)'
        <5>1. disable'[d].vol = v /\ disable'[d].held /\ disable'[d].at = "called"
          BY <1>1, <1>6, <2>2, <3>2 DEF DisableCalls, TypeInv, CallsType, DisableSet
        <5> QED BY <5>1 DEF Undoing
      <4> QED BY <3>1, <4>3, <4>4, <4>5 DEF LastOf
    <3>3. CASE ~disable[d].held
      <4>1. lastWord'[v] = lastWord[v]
        BY <1>6, <2>2, <3>3 DEF DisableCalls, TypeInv, HistoryType
      <4>2. \A s \in Starts : Rising(s, v)' => Rising(s, v)
        BY <1>6 DEF DisableCalls, Rising, TypeInv, CallsType, StartSet
      <4>3. \A b \in Batches : Reviving(b, v)' => Reviving(b, v)
        BY <1>6 DEF DisableCalls, Reviving, TypeInv, CallsType, BatchSet
      <4>4. \A b \in Batches : AboutTo(b, v)' => AboutTo(b, v)
        BY <1>6 DEF DisableCalls, AboutTo, TypeInv, CallsType, BatchSet
      <4>5. Undoing(v) => Undoing(v)'
        BY <1>1, <3>3 DEF Undoing
      <4> QED BY <3>1, <4>1, <4>2, <4>3, <4>4, <4>5, LastKept DEF LastInv
    <3> QED BY <3>2, <3>3
  <2> QED BY <2>1, <2>2
<1>7. CASE DisableMovesEpoch(d)
  <2> PICK w : w = disable[d].vol
    OBVIOUS
  <2>1. w \in Volumes
    BY <1>7 DEF DisableMovesEpoch, TypeInv, CallInv
  <2>2. gate' = Bumped({w}) /\ {w} \in SUBSET Volumes
    BY <1>7, <2>1 DEF DisableMovesEpoch
  <2>3. /\ gate'[w].batch = None
        /\ \A u \in Volumes \ {w} : gate'[u] = gate[u]
    BY <2>1, <2>2, BumpedGate DEF TypeInv
  <2>4. UNCHANGED <<start, batch, lastWord, index, intent>>
    BY <1>7 DEF DisableMovesEpoch
  <2>5. /\ \A s \in Starts : Rising(s, v)' => Rising(s, v)
        /\ \A b \in Batches : Reviving(b, v)' => Reviving(b, v)
    BY <2>4 DEF Rising, Reviving
  <2>6. CASE v = w
    <3>1. \A b \in Batches : ~AboutTo(b, v)'
      BY <2>3, <2>6, NoneAssumption DEF AboutTo
    <3> QED BY <2>4, <2>5, <3>1 DEF LastOf, LastInv
  <2>7. CASE v # w
    <3>1. \A b \in Batches : AboutTo(b, v)' => AboutTo(b, v)
      BY <2>3, <2>4, <2>7 DEF AboutTo
    <3>2. Undoing(v) => Undoing(v)'
      BY <1>1, <2>7 DEF Undoing
    <3> QED BY <2>4, <2>5, <3>1, <3>2, LastKept DEF LastInv
  <2> QED BY <2>6, <2>7
<1>8. CASE DisableDrops(d)
  <2>1. gate'[v].batch = gate[v].batch
    BY <1>8 DEF DisableDrops, DropTicket, TypeInv, GateType, GateSet
  <2> QED BY <1>2, <1>8, <2>1 DEF DisableDrops
<1> QED BY <1>3, <1>4, <1>5, <1>6, <1>7, <1>8 DEF DisableSteps, DisableGoesOn

LEMMA ResumeLast ==
    ASSUME TypeInv, TicketInv, LastInv, NEW b \in Batches, ResumeSteps(b) PROVE LastInv'
<1> USE DEF callVars, hostVars, historyVars
<1> SUFFICES ASSUME NEW v \in Volumes PROVE LastOf(v)'
  BY DEF LastInv
<1>1. /\ batch[b] \in BatchSet(lastEpoch) /\ \A q \in Batches \ {b} : batch'[q] = batch[q]
      /\ UNCHANGED <<start, disable, intent, lastWord>>
  BY DEF ResumeSteps, ResumeAsked, ResumeNotSpawned, ResumeSettles, ResumeChecks, ResumeGoesOn,
         ResumeOwned, ResumeGoes, ResumeReturns, ResumeDrops, TypeInv, CallsType
<1>2. /\ \A s \in Starts : Rising(s, v)' => Rising(s, v)
      /\ \A q \in Batches \ {b} : Reviving(q, v)' => Reviving(q, v)
      /\ Undoing(v) => Undoing(v)'
  BY <1>1 DEF Rising, Reviving, Undoing
<1>3. ASSUME gate'[v].batch \in {gate[v].batch, None, b} PROVE
         \A q \in Batches \ {b} : AboutTo(q, v)' => AboutTo(q, v)
  BY <1>1, <1>3, NoneAssumption DEF AboutTo
<1>4. ASSUME index'[v] => index[v], gate'[v].batch \in {gate[v].batch, None, b},
             ~Reviving(b, v)' \/ Reviving(b, v), ~AboutTo(b, v)' \/ AboutTo(b, v)
      PROVE  LastOf(v)'
  BY <1>1, <1>2, <1>3, <1>4, LastKept DEF LastInv
<1>5. ASSUME batch' = [batch EXCEPT ![b] = Over(NoBatch)]
      PROVE  ~Reviving(b, v)' /\ ~AboutTo(b, v)'
  BY <1>5 DEF Reviving, AboutTo, Over, NoBatch, TypeInv, CallsType
<1>6. ASSUME NEW w, DropTicket(w) PROVE gate'[v].batch = gate[v].batch
  BY <1>6 DEF DropTicket, TypeInv, GateType, GateSet
<1>7. CASE ResumeAsked(b)
  <2>1. PICK w \in Volumes, own \in BOOLEAN, e \in 0..lastEpoch : HandedBack(b, w, own, e)
    BY <1>7, HandBack DEF TypeInv
  <2>2. gate'[v].batch \in {gate[v].batch, b}
    BY <2>1 DEF HandedBack, TypeInv, GateType, GateSet
  <2>3. ~Reviving(b, v)' /\ ~AboutTo(b, v)'
    BY <1>5, <2>1 DEF HandedBack, Reviving, AboutTo, TypeInv, CallsType
  <2> QED BY <1>4, <1>7, <2>2, <2>3 DEF ResumeAsked
<1>8. CASE ResumeNotSpawned(b)
  <2>1. gate'[v].batch \in {gate[v].batch, None}
    BY <1>8 DEF ResumeNotSpawned, TypeInv, GateType, GateSet
  <2> QED BY <1>4, <1>5, <1>8, <2>1 DEF ResumeNotSpawned
<1>9. CASE ResumeSettles(b)
  <2>1. batch'[b].at = "settled" /\ batch'[b].vol = batch[b].vol
        /\ (batch'[b].intent => intent[batch[b].vol])
    BY <1>1, <1>9 DEF ResumeSettles, TypeInv, CallsType, BatchSet
  <2>2. ~Reviving(b, v)' /\ UNCHANGED <<gate, index>>
    BY <1>9, <2>1 DEF Reviving, ResumeSettles
  <2>3. CASE lastWord[v]
    <3>1. ~AboutTo(b, v)'
      BY <2>1, <2>3 DEF AboutTo, LastInv, LastOf
    <3> QED BY <1>4, <2>2, <3>1
  <2>4. CASE ~lastWord[v]
    BY <1>1, <2>4 DEF LastOf
  <2> QED BY <2>3, <2>4
<1>10. CASE ResumeChecks(b)
  <2> PICK w : w = batch[b].vol
    OBVIOUS
  <2>1. w \in Volumes /\ batch[b].at = "settled" /\ UNCHANGED index
    BY <1>10 DEF ResumeChecks, TypeInv, CallInv
  <2> DEFINE left == [gate EXCEPT ![w].batch = IF @ = b THEN None ELSE @]
  <2>2. left[v].batch \in {gate[v].batch, None} /\ DOMAIN left = Volumes
        /\ DOMAIN left[v] = DOMAIN gate[v]
    BY DEF TypeInv, GateType, GateSet
  <2>3. gate' = left \/ gate' = [left EXCEPT ![w].ticket = "Start"]
    BY <1>10 DEF ResumeChecks
  <2> HIDE DEF left
  <2>4. gate'[v].batch \in {gate[v].batch, None}
    BY <2>2, <2>3 DEF TypeInv, GateType, GateSet
  <2>5. CASE Vouched(b)
    <3>1. batch'[b].at = "checking" /\ batch'[b].vol = w /\ batch'[b].intent = batch[b].intent
      BY <1>1, <1>10, <2>5 DEF ResumeChecks, TypeInv, CallsType, BatchSet
    <3>2. ~AboutTo(b, v)'
      BY <3>1 DEF AboutTo
    <3>3. CASE w = v /\ lastWord[v] /\ batch[b].intent
      <4>1. AboutTo(b, v)
        BY <2>1, <2>5, <3>3 DEF AboutTo, Vouched
      <4>2. Undoing(v)
        BY <3>3, <4>1 DEF LastInv, LastOf
      <4>3. DisableHolders(v) # {}
        BY <4>2 DEF Undoing, DisableHolders
      <4>4. gate[v].ticket = "Disable"
        BY <4>3 DEF TicketInv, TicketOf
      <4> QED BY <2>5, <3>3, <4>4, NoneAssumption DEF Vouched, Tickets
    <3>4. CASE ~lastWord[v]
      BY <1>1, <3>4 DEF LastOf
    <3>5. CASE w # v \/ ~batch[b].intent
      <4>1. ~Reviving(b, v)'
        BY <3>1, <3>5 DEF Reviving
      <4> QED BY <1>4, <2>1, <2>4, <3>2, <4>1
    <3> QED BY <3>3, <3>4, <3>5
  <2>6. CASE ~Vouched(b)
    BY <1>4, <1>5, <1>10, <2>1, <2>4, <2>6 DEF ResumeChecks
  <2> QED BY <2>5, <2>6
<1>11. CASE ResumeOwned(b)
  <2>1. CASE batch' = [batch EXCEPT ![b] = Over(NoBatch)] /\ DropTicket(batch[b].vol)
    BY <1>4, <1>5, <1>6, <1>11, <2>1 DEF ResumeOwned
  <2>2. CASE batch[b].intent /\ batch' = [batch EXCEPT ![b].at = "owned"] /\ UNCHANGED gate
    <3>1. (Reviving(b, v)' => Reviving(b, v)) /\ ~AboutTo(b, v)'
      BY <1>1, <1>11, <2>2 DEF ResumeOwned, Reviving, AboutTo, TypeInv, CallsType, BatchSet
    <3> QED BY <1>4, <1>11, <2>2, <3>1 DEF ResumeOwned
  <2> QED BY <1>11, <2>1, <2>2 DEF ResumeOwned
<1>12. CASE ResumeGoes(b)
  <2>1. CASE batch' = [batch EXCEPT ![b] = Over(NoBatch)] /\ DropTicket(batch[b].vol)
    BY <1>4, <1>5, <1>6, <1>12, <2>1 DEF ResumeGoes
  <2>2. CASE batch' = [batch EXCEPT ![b].at = "calling"] /\ UNCHANGED gate
    <3>1. (Reviving(b, v)' => Reviving(b, v)) /\ ~AboutTo(b, v)'
      BY <1>1, <1>12, <2>2 DEF ResumeGoes, Reviving, AboutTo, TypeInv, CallsType, BatchSet
    <3> QED BY <1>4, <1>12, <2>2, <3>1 DEF ResumeGoes
  <2> QED BY <1>12, <2>1, <2>2 DEF ResumeGoes
<1>13. CASE ResumeReturns(b)
  <2>1. CASE batch[b].vol = v
    <3>1. ~lastWord[v]
      BY <1>13, <2>1 DEF ResumeReturns, Reviving, LastInv, LastOf
    <3> QED BY <1>1, <3>1 DEF LastOf
  <2>2. CASE batch[b].vol # v
    <3>1. index'[v] = index[v] /\ UNCHANGED gate
      BY <1>13, <2>2 DEF ResumeReturns, IndexStarts, TypeInv, HostType
    <3>2. ~Reviving(b, v)' /\ ~AboutTo(b, v)'
      BY <1>1, <1>13 DEF ResumeReturns, Reviving, AboutTo, TypeInv, CallsType, BatchSet
    <3> QED BY <1>4, <3>1, <3>2
  <2> QED BY <2>1, <2>2
<1>14. CASE ResumeDrops(b)
  BY <1>4, <1>5, <1>6, <1>14 DEF ResumeDrops
<1> QED BY <1>7, <1>8, <1>9, <1>10, <1>11, <1>12, <1>13, <1>14 DEF ResumeSteps, ResumeGoesOn

LEMMA OtherLast ==
    ASSUME TypeInv, LastInv,
           \/ \E r \in Releases : ReleaseSteps(r)
           \/ \E r \in Releases, v \in Volumes : StopSteps(r, v)
           \/ \E v \in Volumes : LateStopSteps(v)
           \/ HostSteps \/ UNCHANGED vars
    PROVE  LastInv'
<1> USE DEF callVars, hostVars, historyVars
<1> SUFFICES ASSUME NEW v \in Volumes PROVE LastOf(v)'
  BY DEF LastInv
<1>1. ASSUME UNCHANGED <<start, disable, intent, lastWord>>, index'[v] => index[v],
             gate'[v].batch \in {gate[v].batch, None},
             \A b \in Batches : /\ batch'[b].vol = batch[b].vol /\ batch'[b].at = batch[b].at
                                /\ batch'[b].intent = batch[b].intent
      PROVE  LastOf(v)'
  <2>1. /\ \A s \in Starts : Rising(s, v)' => Rising(s, v)
        /\ Undoing(v) => Undoing(v)'
    BY <1>1 DEF Rising, Undoing
  <2>2. \A b \in Batches : Reviving(b, v)' => Reviving(b, v)
    BY <1>1 DEF Reviving
  <2>3. \A b \in Batches : AboutTo(b, v)' => AboutTo(b, v)
    BY <1>1, NoneAssumption DEF AboutTo
  <2> QED BY <1>1, <2>1, <2>2, <2>3, LastKept DEF LastInv
<1>2. ASSUME NEW r \in Releases, ReleaseSteps(r) PROVE LastOf(v)'
  <2>1. UNCHANGED <<start, disable, intent, lastWord, index, batch>>
    BY <1>2 DEF ReleaseSteps, ReleaseAsked, ReleaseWoken, ReleaseTimesOut
  <2>2. gate'[v].batch \in {gate[v].batch, None}
    BY <1>2, ReleaseGate
  <2> QED BY <1>1, <2>1, <2>2
<1>3. ASSUME NEW w \in Volumes, NEW was, NEW out, IndexStops(w, was, out) PROVE index'[v] => index[v]
  BY <1>3 DEF IndexStops, TypeInv, HostType
<1>4. ASSUME NEW r \in Releases, NEW w \in Volumes, StopSteps(r, w) PROVE LastOf(v)'
  BY <1>1, <1>3, <1>4 DEF StopSteps, StopReads, StopRuns, StopAnswers
<1>5. ASSUME NEW w \in Volumes, LateStopSteps(w) PROVE LastOf(v)'
  <2>1. ASSUME DropTicket(w), UNCHANGED <<callVars, hostVars, historyVars>> PROVE LastOf(v)'
    <3>1. gate'[v].batch = gate[v].batch
      BY <2>1 DEF DropTicket, TypeInv, GateType, GateSet
    <3> QED BY <1>1, <2>1, <3>1
  <2>2. CASE LateStopReads(w) \/ LateStopRuns(w) \/ LateStopAnswers(w)
    BY <1>1, <1>3, <2>2 DEF LateStopReads, LateStopRuns, LateStopAnswers
  <2>3. CASE LateStopDrops(w) \/ LateStopNotSpawned(w)
    BY <2>1, <2>3 DEF LateStopDrops, LateStopNotSpawned
  <2> QED BY <1>5, <2>2, <2>3 DEF LateStopSteps
<1>6. CASE HostSteps
  <2>1. CASE SetUnmountPending \/ ClearUnmountPending
    <3>1. gate'[v].batch = gate[v].batch
      BY <2>1 DEF SetUnmountPending, ClearUnmountPending, TypeInv, GateType, GateSet
    <3> QED BY <1>1, <2>1, <3>1 DEF SetUnmountPending, ClearUnmountPending
  <2>2. ASSUME NEW w \in Volumes, EjectBegins(w) PROVE LastOf(v)'
    BY <1>1, <2>2 DEF EjectBegins
  <2>3. ASSUME NEW w \in Volumes, EjectLands(w) PROVE LastOf(v)'
    <3>1. \A b \in Batches : /\ batch'[b].vol = batch[b].vol /\ batch'[b].at = batch[b].at
                             /\ batch'[b].intent = batch[b].intent
      BY <2>3 DEF EjectLands, TypeInv, CallsType, BatchSet
    <3> QED BY <1>1, <2>3, <3>1 DEF EjectLands
  <2>4. CASE NotifyEjectingChanged
    BY <1>1, <2>4 DEF NotifyEjectingChanged
  <2> QED BY <1>6, <2>1, <2>2, <2>3, <2>4 DEF HostSteps
<1>7. CASE UNCHANGED vars
  BY <1>1, <1>7 DEF vars
<1> QED BY <1>2, <1>4, <1>5, <1>6, <1>7

LEMMA StepLast == TypeInv /\ TicketInv /\ LastInv /\ [Next]_vars => LastInv'
BY NextIs, StartLast, DisableLast, ResumeLast, OtherLast

(* A disable that held the ticket has the last word over every resume: no  *)
(* index is up on the drive, and no start call runs for it, until somebody *)
(* asks for a start.                                                       *)
THEOREM DisableIsFinal == Spec => []DisableHasLastWord
<1>1. Init => TypeInv /\ TicketInv /\ LastInv
  BY InitTypeInv, InitTicketInv, InitLastInv
<1>2. TypeInv /\ TicketInv /\ LastInv /\ [Next]_vars => (TypeInv /\ TicketInv /\ LastInv)'
  BY StepTypes, StepTickets, StepLast
<1>3. TypeInv /\ TicketInv /\ LastInv => DisableHasLastWord
  BY LastParts
<1> QED BY <1>1, <1>2, <1>3, PTL DEF Spec

-----------------------------------------------------------------------------
(* Let go means let go.  A stop begins only where the ticket is free, so   *)
(* from then on a start of that drive would have to take the ticket anew:  *)
(* a fresh start does not while the drive is leaving, and a resume only    *)
(* where its owner's eject is not the reason, or to be refused at its last *)
(* look.  That holds from before the stop reads the index, not only from   *)
(* its answer on, which is why the invariant follows the stop's slot.      *)

\* r was told, in time or late, that v was let go of.
Told(r, v) == LetGo \cap {release[r].answer[v], late[r][v]} # {}
\* r has stopped v, or is about to.
Stopped(r, v) == stop[r][v].slot # None \/ Told(r, v)
\* A stop has let go of v on r's behalf.
Down(r, v) ==
    \/ stop[r][v].out \in LetGo \/ Told(r, v)
    \/ r \in lateStop[v].for /\ lateStop[v].out \in LetGo
\* A resume that nothing keeps from its call while r has v leaving.
Coming(r, b, v) ==
    /\ batch[b].vol = v
    /\ \/ batch[b].at = "calling"
       \/ batch[b].at \in {"checking", "owned"} /\ (batch[b].own \/ "pending" \in under[r][v])
Clear(r, v) == (\A s \in Starts : ~Rising(s, v)) /\ (\A b \in Batches : ~Coming(r, b, v))
\* An eject flight's own hand-back that the gate still waits for.
Handing(b, v) ==
    /\ batch[b].vol = v /\ batch[b].own /\ batch[b].at \in {"settling", "settled"}
    /\ gate[v].batch = b

SlotOf(r, v) ==
    /\ stop[r][v].slot = None => stop[r][v].at = "over" /\ stop[r][v].out \notin LetGo
    /\ release[r].answer[v] = "Stopping" => stop[r][v].slot \in {"Running", "Answered"}
    /\ v \in release[r].ids => release[r].answer[v] # None
    /\ lateStop[v].at = "over" => r \notin lateStop[v].for
    /\ release[r].at = "idle" =>
          /\ under[r][v] = {} /\ stop[r][v].slot = None
          /\ release[r].answer[v] = None /\ late[r][v] = None
          /\ r \notin gate[v].late /\ r \notin lateStop[v].for
CauseOf(r, v) ==
    /\ "pending" \in under[r][v] => gate[v].pending
    /\ "ejecting" \in under[r][v] => ejecting[v]
HandOf(r, v) == \A b \in Batches : Handing(b, v) => "ejecting" \notin under[r][v]
GoneOf(r, v) ==
    under[r][v] # {} => /\ Stopped(r, v) => Clear(r, v)
                        /\ Down(r, v) => ~index[v]
TrustOf(r, v) == SlotOf(r, v) /\ CauseOf(r, v) /\ HandOf(r, v) /\ GoneOf(r, v)
TrustInv == \A r \in Releases, v \in Volumes : TrustOf(r, v)

LEMMA TrustParts == TypeInv /\ TrustInv => LetGoMeansLetGo
<1> SUFFICES ASSUME TrustInv, NEW r \in Releases, NEW v \in Volumes,
                    under[r][v] # {}, LetGo \cap {release[r].answer[v], late[r][v]} # {}
             PROVE  ~index[v] /\ ~Calling(v)
  BY DEF LetGoMeansLetGo
<1>1. GoneOf(r, v) /\ Told(r, v)
  BY DEF TrustInv, TrustOf, Told
<1>2. ~index[v] /\ Clear(r, v)
  BY <1>1 DEF GoneOf, Stopped, Down
<1> QED BY <1>2 DEF Calling, Clear, Rising, Coming

LEMMA InitTrustInv == Init => TrustInv
<1> SUFFICES ASSUME Init, NEW r \in Releases, NEW v \in Volumes PROVE TrustOf(r, v)
  BY DEF TrustInv
<1>1. /\ stop[r][v] = NoStop /\ lateStop[v] = NoLateStop /\ under[r][v] = {} /\ gate[v].late = {}
      /\ release[r].ids = {} /\ release[r].answer[v] = None /\ late[r][v] = None
  BY DEF Init
<1>2. SlotOf(r, v)
  BY <1>1, NoneAssumption DEF SlotOf, NoStop, NoLateStop, LetGo
<1> QED BY <1>1, <1>2 DEF TrustOf, CauseOf, HandOf, GoneOf

\* What queues a release at v's gate or hands it on leaves r's stop alone.
Quiet(r, v) ==
    /\ release'[r] = release[r] /\ stop'[r][v] = stop[r][v] /\ late'[r][v] = late[r][v]
    /\ \/ lateStop'[v] = lateStop[v] /\ (r \in gate'[v].late => r \in gate[v].late)
       \/ lateStop'[v] = HandedTo(gate[v].late) /\ gate'[v].late = {}

LEMMA QuietSlots ==
    ASSUME NEW r, NEW v, SlotOf(r, v), Quiet(r, v), under'[r][v] \subseteq under[r][v]
    PROVE  SlotOf(r, v)' /\ (Stopped(r, v)' => Stopped(r, v)) /\ (Down(r, v)' => Down(r, v))
<1>1. /\ release'[r] = release[r] /\ stop'[r][v] = stop[r][v] /\ late'[r][v] = late[r][v]
  BY DEF Quiet
<1>2. Told(r, v)' <=> Told(r, v)
  BY <1>1 DEF Told
<1>3. CASE lateStop'[v] = lateStop[v] /\ (r \in gate'[v].late => r \in gate[v].late)
  BY <1>1, <1>2, <1>3 DEF SlotOf, Stopped, Down
<1>4. CASE lateStop'[v] = HandedTo(gate[v].late) /\ gate'[v].late = {}
  <2>1. /\ lateStop'[v].out = "StillReleasing" /\ lateStop'[v].for = gate[v].late
        /\ lateStop'[v].at = "over" => lateStop'[v].for = {}
    BY <1>4 DEF HandedTo, NoLateStop
  <2> QED BY <1>1, <1>2, <1>4, <2>1 DEF SlotOf, Stopped, Down, LetGo
<1> QED BY <1>3, <1>4 DEF Quiet

LEMMA TrustKept ==
    ASSUME NEW r, NEW v, TrustOf(r, v), Quiet(r, v), under'[r][v] \subseteq under[r][v],
           CauseOf(r, v)',
           \A b \in Batches : Handing(b, v)' => Handing(b, v) \/ "ejecting" \notin under'[r][v],
           under'[r][v] # {} /\ Down(r, v) => (index'[v] => index[v]),
           under'[r][v] # {} /\ Stopped(r, v) /\ Clear(r, v) => Clear(r, v)'
    PROVE  TrustOf(r, v)'
<1>1. SlotOf(r, v)' /\ (Stopped(r, v)' => Stopped(r, v)) /\ (Down(r, v)' => Down(r, v))
  BY QuietSlots DEF TrustOf
<1>2. HandOf(r, v)'
  BY DEF TrustOf, HandOf
<1>3. GoneOf(r, v)'
  BY <1>1 DEF TrustOf, GoneOf
<1> QED BY <1>1, <1>2, <1>3 DEF TrustOf

\* Dropping a ticket, as the invariant sees it.
LEMMA DropQuiet ==
    ASSUME TypeInv, NEW w, DropTicket(w), NEW v \in Volumes, NEW r \in Releases,
           release'[r] = release[r], stop'[r][v] = stop[r][v], late'[r][v] = late[r][v]
    PROVE  /\ Quiet(r, v)
           /\ gate'[v].batch = gate[v].batch /\ gate'[v].pending = gate[v].pending
BY DEF DropTicket, Quiet, TypeInv, GateType, GateSet, StopsType

\* A drive that leaves for no reason r knows of is one r says nothing about.
LEMMA NotLeaving ==
    ASSUME TypeInv, NEW r \in Releases, NEW v \in Volumes, CauseOf(r, v), ~Leaving(v)
    PROVE  under[r][v] = {}
BY DEF TypeInv, HistoryType, CauseOf, Leaving, Causes

LEMMA StartTrust ==
    ASSUME TypeInv, TicketInv, TrustInv, NEW s \in Starts, StartSteps(s) PROVE TrustInv'
<1> USE DEF callVars, hostVars, historyVars
<1> SUFFICES ASSUME NEW r \in Releases, NEW v \in Volumes PROVE TrustOf(r, v)'
  BY DEF TrustInv
<1>1. /\ UNCHANGED <<release, batch, stop, late, ejecting, under>>
      /\ start[s] \in StartSet /\ \A q \in Starts \ {s} : start'[q] = start[q]
  BY DEF StartSteps, StartAsked, StartWoken, StartTurn, StartGivesUp, StartGoesOn, StartListed,
         StartReturns, StartDrops, TypeInv, CallsType
<1>2. TrustOf(r, v) /\ SlotOf(r, v) /\ CauseOf(r, v) /\ GoneOf(r, v)
  BY DEF TrustInv, TrustOf
<1>3. ASSUME Quiet(r, v), gate'[v].batch = gate[v].batch, gate'[v].pending = gate[v].pending,
             under[r][v] # {} /\ Down(r, v) => (index'[v] => index[v]),
             under[r][v] # {} /\ Rising(s, v)' => Rising(s, v)
      PROVE  TrustOf(r, v)'
  <2>1. CauseOf(r, v)'
    BY <1>1, <1>2, <1>3 DEF CauseOf
  <2>2. \A b \in Batches : Handing(b, v)' => Handing(b, v)
    BY <1>1, <1>3 DEF Handing
  <2>3. under[r][v] # {} /\ Clear(r, v) => Clear(r, v)'
    <3>1. \A b \in Batches : Coming(r, b, v)' <=> Coming(r, b, v)
      BY <1>1 DEF Coming
    <3>2. \A q \in Starts \ {s} : Rising(q, v)' <=> Rising(q, v)
      BY <1>1 DEF Rising
    <3> QED BY <1>3, <3>1, <3>2 DEF Clear
  <2> QED BY <1>1, <1>2, <1>3, <2>1, <2>2, <2>3, TrustKept
<1>4. ASSUME NEW w \in Volumes, DropTicket(w), UNCHANGED index,
             start' = [start EXCEPT ![s] = Over(NoStart)]
      PROVE  TrustOf(r, v)'
  <2>1. ~Rising(s, v)'
    BY <1>4 DEF Rising, Over, NoStart, TypeInv, CallsType
  <2>2. /\ Quiet(r, v)
        /\ gate'[v].batch = gate[v].batch /\ gate'[v].pending = gate[v].pending
    BY <1>1, <1>4, DropQuiet
  <2> QED BY <1>3, <1>4, <2>1, <2>2
<1>5. ASSUME UNCHANGED <<lateStop, index>>,
             gate'[v].batch = gate[v].batch, gate'[v].pending = gate[v].pending,
             gate'[v].late = gate[v].late,
             under[r][v] # {} /\ Rising(s, v)' => Rising(s, v)
      PROVE  TrustOf(r, v)'
  <2>1. Quiet(r, v)
    BY <1>1, <1>5 DEF Quiet
  <2> QED BY <1>3, <1>5, <2>1
<1>6. ASSUME NEW w \in Volumes, NEW person, NEW waited, StartTurn(s, w, person, waited),
             UNCHANGED <<lateStop, index>>
      PROVE  TrustOf(r, v)'
  <2>1. CASE Leaving(w) /\ ~person
    <3>1. start' = [start EXCEPT ![s] = Over(NoStart)] /\ UNCHANGED gate
      BY <1>6, <2>1 DEF StartTurn
    <3>2. ~Rising(s, v)'
      BY <3>1 DEF Rising, Over, NoStart, TypeInv, CallsType
    <3> QED BY <1>5, <1>6, <3>1, <3>2
  <2>2. CASE ~Leaving(w) /\ ~Held(w)
    <3> DEFINE x == [at |-> IF waited THEN "checking" ELSE "calling",
                     vol |-> w, person |-> person, waited |-> waited]
    <3>1. start' = [start EXCEPT ![s] = x] /\ gate' = [gate EXCEPT ![w].ticket = "Start"]
      BY <1>6, <2>2 DEF StartTurn
    <3>2. /\ gate'[v].batch = gate[v].batch /\ gate'[v].pending = gate[v].pending
          /\ gate'[v].late = gate[v].late
      BY <3>1 DEF TypeInv, GateType, GateSet
    <3>3. under[r][v] # {} => v # w
      BY <1>2, <2>2, NotLeaving
    <3>4. under[r][v] # {} => ~Rising(s, v)'
      BY <3>1, <3>3 DEF Rising, TypeInv, CallsType
    <3> QED BY <1>5, <1>6, <3>2, <3>4
  <2>3. CASE IF Leaving(w) THEN person ELSE Held(w)
    <3>1. /\ start' = [start EXCEPT ![s] = [at |-> "waiting", vol |-> w, person |-> person,
                                            waited |-> waited \/ Leaving(w)]]
          /\ UNCHANGED gate
      BY <1>6, <2>3 DEF StartTurn
    <3>2. ~Rising(s, v)'
      BY <3>1 DEF Rising, TypeInv, CallsType
    <3> QED BY <1>5, <1>6, <3>1, <3>2
  <2> QED BY <1>6, <2>1, <2>2, <2>3 DEF StartTurn
<1>7. CASE StartAsked(s)
  BY <1>6, <1>7 DEF StartAsked
<1>8. CASE StartWoken(s)
  BY <1>6, <1>8 DEF StartWoken, TypeInv, CallInv
<1>9. CASE StartGivesUp(s)
  <2>1. ~Rising(s, v)'
    BY <1>9 DEF StartGivesUp, Rising, Over, NoStart, TypeInv, CallsType
  <2> QED BY <1>5, <1>9, <2>1 DEF StartGivesUp
<1>10. CASE StartListed(s)
  <2>1. start[s].vol \in Volumes
    BY <1>10 DEF StartListed, TypeInv, CallInv
  <2>2. CASE start' = [start EXCEPT ![s].at = "calling"] /\ UNCHANGED <<gate, lateStop>>
    <3>1. Rising(s, v)' => Rising(s, v)
      BY <1>10, <2>2 DEF StartListed, Rising, TypeInv, CallsType, StartSet
    <3> QED BY <1>5, <1>10, <2>2, <3>1 DEF StartListed
  <2>3. CASE start' = [start EXCEPT ![s] = Over(NoStart)] /\ DropTicket(start[s].vol)
    BY <1>4, <1>10, <2>1, <2>3 DEF StartListed
  <2> QED BY <1>10, <2>2, <2>3 DEF StartListed
<1>11. CASE StartReturns(s)
  <2>1. ~Rising(s, v)' /\ UNCHANGED <<gate, lateStop>>
    BY <1>11 DEF StartReturns, Rising, TypeInv, CallsType, StartSet
  <2>2. Quiet(r, v)
    BY <1>1, <2>1 DEF Quiet
  <2>3. CASE start[s].vol = v
    <3>1. Rising(s, v) /\ s \in HeldByStart(v)
      BY <1>11, <2>3 DEF StartReturns, Rising, HeldByStart, WithTicket
    <3>2. ~Stopped(r, v) \/ under[r][v] = {}
      BY <1>2, <3>1 DEF GoneOf, Clear
    <3>3. gate[v].ticket = "Start" /\ lateStop[v].at = "over"
      BY <3>1 DEF TicketInv, TicketOf
    <3>4. ~Down(r, v) \/ under[r][v] = {}
      BY <1>2, <3>2, <3>3 DEF SlotOf, Stopped, Down
    <3> QED BY <1>3, <2>1, <2>2, <3>4
  <2>4. CASE start[s].vol # v
    <3>1. index'[v] = index[v]
      BY <1>11, <2>4 DEF StartReturns, IndexStarts, TypeInv, HostType
    <3> QED BY <1>3, <2>1, <2>2, <3>1
  <2> QED BY <2>3, <2>4
<1>12. CASE StartDrops(s)
  <2>1. start[s].vol \in Volumes
    BY <1>12 DEF StartDrops, TypeInv, CallInv
  <2> QED BY <1>4, <1>12, <2>1 DEF StartDrops
<1> QED BY <1>7, <1>8, <1>9, <1>10, <1>11, <1>12 DEF StartSteps, StartGoesOn

LEMMA DisableTrust ==
    ASSUME TypeInv, TrustInv, NEW d \in Disables, DisableSteps(d) PROVE TrustInv'
<1> USE DEF callVars, hostVars, historyVars
<1> SUFFICES ASSUME NEW r \in Releases, NEW v \in Volumes PROVE TrustOf(r, v)'
  BY DEF TrustInv
<1>1. UNCHANGED <<release, stop, late, ejecting, under>>
  BY DEF DisableSteps, DisableAsked, DisableWoken, DisableTurn, DisableGivesUp, DisableGoesOn,
         DisableCalls, DisableMovesEpoch, DisableDrops
<1>2. TrustOf(r, v) /\ CauseOf(r, v)
  BY DEF TrustInv, TrustOf
<1>3. ASSUME Quiet(r, v), gate'[v].batch \in {gate[v].batch, None},
             gate'[v].pending = gate[v].pending, index'[v] => index[v],
             \A q \in Starts : Rising(q, v)' => Rising(q, v),
             \A b \in Batches : /\ Coming(r, b, v)' => Coming(r, b, v)
                                /\ Handing(b, v)' => batch[b] = batch'[b]
      PROVE  TrustOf(r, v)'
  <2>1. CauseOf(r, v)'
    BY <1>1, <1>2, <1>3 DEF CauseOf
  <2>2. \A b \in Batches : Handing(b, v)' => Handing(b, v)
    BY <1>3, NoneAssumption DEF Handing
  <2>3. Clear(r, v) => Clear(r, v)'
    BY <1>3 DEF Clear
  <2> QED BY <1>1, <1>2, <1>3, <2>1, <2>2, <2>3, TrustKept
<1>4. ASSUME UNCHANGED <<start, batch, index>>, Quiet(r, v),
             gate'[v].batch \in {gate[v].batch, None}, gate'[v].pending = gate[v].pending
      PROVE  TrustOf(r, v)'
  <2>1. /\ \A q \in Starts : Rising(q, v)' => Rising(q, v)
        /\ \A b \in Batches : Coming(r, b, v)' => Coming(r, b, v)
    BY <1>1, <1>4 DEF Rising, Coming
  <2> QED BY <1>3, <1>4, <2>1
<1>5. ASSUME NEW w \in Volumes, NEW g, g \in GateSet(lastEpoch'),
             g[v].batch \in {gate[v].batch, None}, g[v].pending = gate[v].pending,
             g[v].late = gate[v].late, DisableTurn(d, w, g),
             UNCHANGED <<start, batch, index, lateStop>>
      PROVE  TrustOf(r, v)'
  <2>1. gate' = [g EXCEPT ![w].ticket = "Disable"] \/ gate' = g
    BY <1>5 DEF DisableTurn
  <2>2. DOMAIN g = Volumes /\ {"batch", "pending", "late"} \subseteq DOMAIN g[v]
    BY <1>5 DEF GateSet
  <2>3. gate'[v].batch = g[v].batch /\ gate'[v].pending = g[v].pending /\ gate'[v].late = g[v].late
    BY <2>1, <2>2
  <2>4. Quiet(r, v)
    BY <1>1, <1>5, <2>3 DEF Quiet
  <2> QED BY <1>4, <1>5, <2>3, <2>4
<1>6. CASE DisableAsked(d)
  <2>1. PICK w \in Volumes : DisableTurn(d, w, Bumped({w}))
    BY <1>6 DEF DisableAsked
  <2> PICK g : g = Bumped({w})
    OBVIOUS
  <2>2. {w} \in SUBSET Volumes /\ Cardinality({w}) = 1
    BY FS_Singleton
  <2>3. /\ g \in GateSet(lastEpoch + 1) /\ g[v].batch \in {gate[v].batch, None}
        /\ g[v].pending = gate[v].pending /\ g[v].late = gate[v].late
    BY <2>2, BumpedGate DEF TypeInv
  <2>4. lastEpoch' = lastEpoch + 1 /\ UNCHANGED <<start, batch, index, lateStop>>
    BY <1>6 DEF DisableAsked
  <2> QED BY <1>5, <2>1, <2>3, <2>4
<1>7. CASE DisableWoken(d)
  <2>1. /\ disable[d].vol \in Volumes /\ gate \in GateSet(lastEpoch')
        /\ UNCHANGED <<start, batch, index, lateStop>>
    BY <1>7 DEF DisableWoken, TypeInv, CallInv, GateType
  <2> QED BY <1>5, <1>7, <2>1 DEF DisableWoken
<1>8. CASE DisableGivesUp(d)
  <2>1. Quiet(r, v)
    BY <1>1, <1>8 DEF Quiet, DisableGivesUp
  <2> QED BY <1>4, <1>8, <2>1 DEF DisableGivesUp
<1>9. CASE DisableCalls(d)
  <2>1. (index'[v] => index[v]) /\ UNCHANGED <<gate, lateStop>>
    BY <1>9 DEF DisableCalls, TypeInv, HostType
  <2>2. Quiet(r, v)
    BY <1>1, <2>1 DEF Quiet
  <2>3. \A q \in Starts : Rising(q, v)' => Rising(q, v)
    BY <1>9 DEF DisableCalls, Rising, TypeInv, CallsType, StartSet
  <2>4. \A b \in Batches : /\ Coming(r, b, v)' => Coming(r, b, v)
                           /\ Handing(b, v)' => batch[b] = batch'[b]
    BY <1>1, <1>9 DEF DisableCalls, Coming, Handing, TypeInv, CallsType, BatchSet
  <2> QED BY <1>3, <2>1, <2>2, <2>3, <2>4
<1>10. CASE DisableMovesEpoch(d)
  <2> PICK w : w = disable[d].vol
    OBVIOUS
  <2>1. {w} \in SUBSET Volumes /\ gate' = Bumped({w}) /\ UNCHANGED <<start, batch, index, lateStop>>
    BY <1>10 DEF DisableMovesEpoch, TypeInv, CallInv
  <2>2. /\ gate'[v].batch \in {gate[v].batch, None}
        /\ gate'[v].pending = gate[v].pending /\ gate'[v].late = gate[v].late
    BY <2>1, BumpedGate DEF TypeInv
  <2>3. Quiet(r, v)
    BY <1>1, <2>1, <2>2 DEF Quiet
  <2> QED BY <1>4, <2>1, <2>2, <2>3
<1>11. CASE DisableDrops(d)
  <2>1. CASE disable[d].held
    BY <1>1, <1>4, <1>11, <2>1, DropQuiet DEF DisableDrops
  <2>2. CASE ~disable[d].held
    <3>1. Quiet(r, v)
      BY <1>1, <1>11, <2>2 DEF Quiet, DisableDrops
    <3> QED BY <1>4, <1>11, <2>2, <3>1 DEF DisableDrops
  <2> QED BY <2>1, <2>2
<1> QED BY <1>6, <1>7, <1>8, <1>9, <1>10, <1>11 DEF DisableSteps, DisableGoesOn

LEMMA ResumeTrust ==
    ASSUME TypeInv, TicketInv, TrustInv, NEW b \in Batches, ResumeSteps(b) PROVE TrustInv'
<1> USE DEF callVars, hostVars, historyVars
<1> SUFFICES ASSUME NEW r \in Releases, NEW v \in Volumes PROVE TrustOf(r, v)'
  BY DEF TrustInv
<1>1. /\ UNCHANGED <<start, release, stop, late, ejecting>>
      /\ batch[b] \in BatchSet(lastEpoch) /\ \A q \in Batches \ {b} : batch'[q] = batch[q]
  BY DEF ResumeSteps, ResumeAsked, ResumeNotSpawned, ResumeSettles, ResumeChecks, ResumeGoesOn,
         ResumeOwned, ResumeGoes, ResumeReturns, ResumeDrops, TypeInv, CallsType
<1>2. TrustOf(r, v) /\ SlotOf(r, v) /\ CauseOf(r, v) /\ HandOf(r, v) /\ GoneOf(r, v)
  BY DEF TrustInv, TrustOf
<1>3. ASSUME Quiet(r, v), under'[r][v] \subseteq under[r][v],
             gate'[v].batch \in {gate[v].batch, None, b}, gate'[v].pending = gate[v].pending,
             under'[r][v] # {} /\ Down(r, v) => (index'[v] => index[v]),
             Coming(r, b, v)' => Coming(r, b, v) \/ under'[r][v] = {},
             Handing(b, v)' => Handing(b, v) \/ "ejecting" \notin under'[r][v]
      PROVE  TrustOf(r, v)'
  <2>1. CauseOf(r, v)'
    BY <1>1, <1>2, <1>3 DEF CauseOf
  <2>2. \A q \in Batches \ {b} : Handing(q, v)' => Handing(q, v)
    BY <1>1, <1>3, NoneAssumption DEF Handing
  <2>3. under'[r][v] # {} /\ Clear(r, v) => Clear(r, v)'
    <3>1. \A q \in Batches \ {b} : Coming(r, q, v)' => Coming(r, q, v)
      BY <1>1, <1>3 DEF Coming
    <3>2. \A q \in Starts : Rising(q, v)' <=> Rising(q, v)
      BY <1>1 DEF Rising
    <3> QED BY <1>3, <3>1, <3>2 DEF Clear
  <2> QED BY <1>2, <1>3, <2>1, <2>2, <2>3, TrustKept
<1>4. ASSUME batch' = [batch EXCEPT ![b] = Over(NoBatch)]
      PROVE  ~Coming(r, b, v)' /\ ~Handing(b, v)'
  BY <1>4 DEF Coming, Handing, Over, NoBatch, TypeInv, CallsType
<1>5. ASSUME batch' = [batch EXCEPT ![b] = Over(NoBatch)], DropTicket(batch[b].vol),
             UNCHANGED <<under, index>>
      PROVE  TrustOf(r, v)'
  <2>1. Quiet(r, v) /\ gate'[v].batch = gate[v].batch /\ gate'[v].pending = gate[v].pending
    BY <1>1, <1>5, DropQuiet
  <2> QED BY <1>3, <1>4, <1>5, <2>1
<1>6. ASSUME UNCHANGED <<lateStop, under, index>>,
             gate'[v].batch \in {gate[v].batch, None}, gate'[v].pending = gate[v].pending,
             gate'[v].late = gate[v].late,
             Coming(r, b, v)' => Coming(r, b, v) \/ under[r][v] = {},
             Handing(b, v)' => Handing(b, v)
      PROVE  TrustOf(r, v)'
  <2>1. Quiet(r, v)
    BY <1>1, <1>6 DEF Quiet
  <2> QED BY <1>3, <1>6, <2>1
<1>7. CASE ResumeAsked(b)
  <2>1. PICK w \in Volumes, own \in BOOLEAN, e \in 0..lastEpoch : HandedBack(b, w, own, e)
    BY <1>7, HandBack DEF TypeInv
  <2>2. /\ under'[r][v] \subseteq under[r][v]
        /\ own /\ w = v => "ejecting" \notin under'[r][v]
    BY <2>1 DEF HandedBack, TypeInv, HistoryType
  <2>3. /\ gate'[v].batch \in {gate[v].batch, b} /\ gate'[v].pending = gate[v].pending
        /\ gate'[v].late = gate[v].late
    BY <2>1 DEF HandedBack, TypeInv, GateType, GateSet
  <2>4. UNCHANGED <<lateStop, index>>
    BY <1>7 DEF ResumeAsked
  <2>5. Quiet(r, v)
    BY <1>1, <2>3, <2>4 DEF Quiet
  <2>6. CASE batch' = [batch EXCEPT ![b] = Over(NoBatch)]
    BY <1>3, <1>4, <2>2, <2>3, <2>4, <2>5, <2>6
  <2>7. CASE batch' = [batch EXCEPT ![b] = [at |-> "settling", vol |-> w, epoch |-> e,
                                            own |-> own, intent |-> FALSE]]
    <3>1. batch'[b].at = "settling" /\ batch'[b].vol = w /\ batch'[b].own = own
      BY <2>7 DEF TypeInv, CallsType
    <3>2. ~Coming(r, b, v)'
      BY <3>1 DEF Coming
    <3>3. Handing(b, v)' => "ejecting" \notin under'[r][v]
      BY <2>2, <3>1 DEF Handing
    <3> QED BY <1>3, <2>2, <2>3, <2>4, <2>5, <3>2, <3>3
  <2> QED BY <2>1, <2>6, <2>7 DEF HandedBack
<1>8. CASE ResumeNotSpawned(b)
  <2>1. /\ gate'[v].batch \in {gate[v].batch, None} /\ gate'[v].pending = gate[v].pending
        /\ gate'[v].late = gate[v].late
    BY <1>8 DEF ResumeNotSpawned, TypeInv, GateType, GateSet
  <2> QED BY <1>4, <1>6, <1>8, <2>1 DEF ResumeNotSpawned
<1>9. CASE ResumeSettles(b)
  <2>1. /\ batch'[b].at = "settled" /\ batch'[b].vol = batch[b].vol /\ batch'[b].own = batch[b].own
        /\ batch[b].at = "settling" /\ UNCHANGED <<gate, lateStop, under, index>>
    BY <1>1, <1>9 DEF ResumeSettles, TypeInv, CallsType, BatchSet
  <2>2. ~Coming(r, b, v)' /\ (Handing(b, v)' => Handing(b, v))
    BY <2>1 DEF Coming, Handing
  <2> QED BY <1>6, <2>1, <2>2
<1>10. CASE ResumeChecks(b)
  <2> PICK w : w = batch[b].vol
    OBVIOUS
  <2>1. /\ w \in Volumes /\ batch[b].at = "settled" /\ UNCHANGED <<lateStop, under, index>>
    BY <1>10 DEF ResumeChecks, TypeInv, CallInv
  <2> DEFINE left == [gate EXCEPT ![w].batch = IF @ = b THEN None ELSE @]
  <2>2. /\ left[v].batch \in {gate[v].batch, None} /\ left[v].pending = gate[v].pending
        /\ left[v].late = gate[v].late
        /\ DOMAIN left = Volumes /\ {"batch", "pending", "late"} \subseteq DOMAIN left[v]
    BY DEF TypeInv, GateType, GateSet
  <2>3. gate' = left \/ gate' = [left EXCEPT ![w].ticket = "Start"]
    BY <1>10 DEF ResumeChecks
  <2> HIDE DEF left
  <2>4. /\ gate'[v].batch \in {gate[v].batch, None} /\ gate'[v].pending = gate[v].pending
        /\ gate'[v].late = gate[v].late
    BY <2>2, <2>3
  <2>5. CASE Vouched(b)
    <3>1. batch'[b].at = "checking" /\ batch'[b].vol = w /\ batch'[b].own = batch[b].own
      BY <1>1, <1>10, <2>5 DEF ResumeChecks, TypeInv, CallsType, BatchSet
    <3>2. ~Handing(b, v)'
      BY <3>1 DEF Handing
    <3>3. Coming(r, b, v)' => under[r][v] = {}
      <4> HAVE Coming(r, b, v)'
      <4>1. w = v /\ (batch[b].own \/ "pending" \in under[r][v])
        BY <2>1, <3>1 DEF Coming
      <4>2. "pending" \notin under[r][v]
        BY <1>2, <2>5, <4>1 DEF Vouched, CauseOf
      <4>3. Handing(b, v)
        BY <2>1, <2>5, <4>1, <4>2 DEF Handing, Vouched
      <4>4. "ejecting" \notin under[r][v]
        BY <1>2, <4>3 DEF HandOf
      <4> QED BY <4>2, <4>4 DEF TypeInv, HistoryType, Causes
    <3> QED BY <1>6, <2>1, <2>4, <3>2, <3>3
  <2>6. CASE ~Vouched(b)
    BY <1>4, <1>6, <1>10, <2>1, <2>4, <2>6 DEF ResumeChecks
  <2> QED BY <2>5, <2>6
<1>11. CASE ResumeOwned(b)
  <2>1. CASE batch' = [batch EXCEPT ![b] = Over(NoBatch)] /\ DropTicket(batch[b].vol)
    BY <1>5, <1>11, <2>1 DEF ResumeOwned
  <2>2. CASE batch' = [batch EXCEPT ![b].at = "owned"] /\ UNCHANGED <<gate, lateStop>>
    <3>1. UNCHANGED <<under, index>> /\ batch[b].at = "checking"
      BY <1>11 DEF ResumeOwned
    <3>2. batch'[b].at = "owned" /\ batch'[b].vol = batch[b].vol /\ batch'[b].own = batch[b].own
      BY <1>1, <2>2 DEF TypeInv, CallsType, BatchSet
    <3>3. (Coming(r, b, v)' => Coming(r, b, v)) /\ ~Handing(b, v)'
      BY <3>1, <3>2 DEF Coming, Handing
    <3> QED BY <1>6, <2>2, <3>1, <3>3
  <2> QED BY <1>11, <2>1, <2>2 DEF ResumeOwned
<1>12. CASE ResumeGoes(b)
  <2>1. CASE batch' = [batch EXCEPT ![b] = Over(NoBatch)] /\ DropTicket(batch[b].vol)
    BY <1>5, <1>12, <2>1 DEF ResumeGoes
  <2>2. CASE /\ ~ejecting[batch[b].vol] \/ batch[b].own
             /\ batch' = [batch EXCEPT ![b].at = "calling"] /\ UNCHANGED <<gate, lateStop>>
    <3>1. UNCHANGED <<under, index>> /\ batch[b].at = "owned"
      BY <1>12 DEF ResumeGoes
    <3>2. batch'[b].at = "calling" /\ batch'[b].vol = batch[b].vol
      BY <1>1, <2>2 DEF TypeInv, CallsType, BatchSet
    <3>3. Coming(r, b, v)' => Coming(r, b, v) \/ under[r][v] = {}
      <4> SUFFICES ASSUME batch[b].vol = v, under[r][v] # {} PROVE Coming(r, b, v)
        BY <3>2 DEF Coming
      <4>1. "pending" \in under[r][v] \/ "ejecting" \in under[r][v]
        BY DEF TypeInv, HistoryType, Causes
      <4> QED BY <1>2, <2>2, <3>1, <4>1 DEF Coming, CauseOf
    <3>4. ~Handing(b, v)'
      BY <3>2 DEF Handing
    <3> QED BY <1>6, <2>2, <3>1, <3>3, <3>4
  <2> QED BY <1>12, <2>1, <2>2 DEF ResumeGoes
<1>13. CASE ResumeReturns(b)
  <2>1. /\ batch'[b].at = "returned" /\ batch[b].at = "calling"
        /\ UNCHANGED <<gate, lateStop, under>>
    BY <1>1, <1>13 DEF ResumeReturns, TypeInv, CallsType, BatchSet
  <2>2. ~Coming(r, b, v)' /\ ~Handing(b, v)' /\ Quiet(r, v)
    BY <1>1, <2>1 DEF Coming, Handing, Quiet
  <2>3. CASE batch[b].vol = v
    <3>1. Coming(r, b, v) /\ b \in HeldByBatch(v)
      BY <2>1, <2>3 DEF Coming, HeldByBatch, WithTicket
    <3>2. ~Stopped(r, v) \/ under[r][v] = {}
      BY <1>2, <3>1 DEF GoneOf, Clear
    <3>3. gate[v].ticket = "Start" /\ lateStop[v].at = "over"
      BY <3>1 DEF TicketInv, TicketOf
    <3>4. ~Down(r, v) \/ under[r][v] = {}
      BY <1>2, <3>2, <3>3 DEF SlotOf, Stopped, Down
    <3> QED BY <1>3, <2>1, <2>2, <3>4
  <2>4. CASE batch[b].vol # v
    <3>1. index'[v] = index[v]
      BY <1>13, <2>4 DEF ResumeReturns, IndexStarts, TypeInv, HostType
    <3> QED BY <1>3, <2>1, <2>2, <3>1
  <2> QED BY <2>3, <2>4
<1>14. CASE ResumeDrops(b)
  BY <1>5, <1>14 DEF ResumeDrops
<1> QED BY <1>7, <1>8, <1>9, <1>10, <1>11, <1>12, <1>13, <1>14 DEF ResumeSteps, ResumeGoesOn

LEMMA HostTrust == ASSUME TypeInv, TrustInv, HostSteps \/ UNCHANGED vars PROVE TrustInv'
<1> USE DEF callVars, hostVars, historyVars
<1> SUFFICES ASSUME NEW r \in Releases, NEW v \in Volumes PROVE TrustOf(r, v)'
  BY DEF TrustInv
<1>1. TrustOf(r, v) /\ CauseOf(r, v)
  BY DEF TrustInv, TrustOf
<1>2. ASSUME UNCHANGED <<start, release, stop, late, lateStop, index>>,
             gate'[v].batch = gate[v].batch, gate'[v].late = gate[v].late,
             under'[r][v] \subseteq under[r][v], CauseOf(r, v)',
             \A b \in Batches : /\ batch'[b].vol = batch[b].vol /\ batch'[b].at = batch[b].at
                                /\ batch'[b].own => batch[b].own
      PROVE  TrustOf(r, v)'
  <2>1. Quiet(r, v)
    BY <1>2 DEF Quiet
  <2>2. \A b \in Batches : Handing(b, v)' => Handing(b, v)
    BY <1>2 DEF Handing
  <2>3. Clear(r, v) => Clear(r, v)'
    <3>1. \A b \in Batches : Coming(r, b, v)' => Coming(r, b, v)
      BY <1>2 DEF Coming
    <3>2. \A q \in Starts : Rising(q, v)' => Rising(q, v)
      BY <1>2 DEF Rising
    <3> QED BY <3>1, <3>2 DEF Clear
  <2> QED BY <1>1, <1>2, <2>1, <2>2, <2>3, TrustKept
<1>3. CASE SetUnmountPending
  <2>1. /\ gate'[v].batch = gate[v].batch /\ gate'[v].late = gate[v].late
        /\ gate[v].pending => gate'[v].pending
    BY <1>3 DEF SetUnmountPending, TypeInv, GateType, GateSet
  <2>2. CauseOf(r, v)'
    BY <1>1, <1>3, <2>1 DEF CauseOf, SetUnmountPending
  <2> QED BY <1>2, <1>3, <2>1, <2>2 DEF SetUnmountPending
<1>4. CASE ClearUnmountPending
  <2>1. PICK ids \in SUBSET Volumes :
          /\ gate' = [w \in Volumes |-> [gate[w] EXCEPT !.pending = @ /\ w \notin ids]]
          /\ under' = [q \in Releases |-> [w \in Volumes |->
                         IF w \in ids THEN under[q][w] \ {"pending"} ELSE under[q][w]]]
    BY <1>4 DEF ClearUnmountPending
  <2>2. /\ gate'[v].batch = gate[v].batch /\ gate'[v].late = gate[v].late
        /\ v \notin ids => gate'[v].pending = gate[v].pending
    BY <2>1 DEF TypeInv, GateType, GateSet
  <2>3. under'[r][v] = IF v \in ids THEN under[r][v] \ {"pending"} ELSE under[r][v]
    BY <2>1
  <2>4. CauseOf(r, v)'
    BY <1>1, <1>4, <2>2, <2>3 DEF CauseOf, ClearUnmountPending
  <2> QED BY <1>2, <1>4, <2>2, <2>3, <2>4 DEF ClearUnmountPending
<1>5. ASSUME NEW w \in Volumes, EjectBegins(w) PROVE TrustOf(r, v)'
  <2>1. CauseOf(r, v)'
    BY <1>1, <1>5 DEF CauseOf, EjectBegins, TypeInv, HostType
  <2> QED BY <1>2, <1>5, <2>1 DEF EjectBegins
<1>6. ASSUME NEW w \in Volumes, EjectLands(w) PROVE TrustOf(r, v)'
  <2>1. /\ under'[r][v] \subseteq under[r][v] /\ (w = v => "ejecting" \notin under'[r][v])
        /\ w # v => ejecting'[v] = ejecting[v]
    BY <1>6 DEF EjectLands, TypeInv, HistoryType, HostType
  <2>2. CauseOf(r, v)'
    BY <1>1, <1>6, <2>1 DEF CauseOf, EjectLands
  <2>3. \A b \in Batches : /\ batch'[b].vol = batch[b].vol /\ batch'[b].at = batch[b].at
                           /\ batch'[b].own => batch[b].own
    BY <1>6 DEF EjectLands, TypeInv, CallsType, BatchSet
  <2> QED BY <1>2, <1>6, <2>1, <2>2, <2>3 DEF EjectLands
<1>7. CASE NotifyEjectingChanged \/ UNCHANGED vars
  <2>1. UNCHANGED <<gate, start, batch, release, stop, late, lateStop, index, under, ejecting>>
    BY <1>7 DEF NotifyEjectingChanged, vars
  <2>2. CauseOf(r, v)'
    BY <1>1, <2>1 DEF CauseOf
  <2> QED BY <1>2, <2>1, <2>2
<1> QED BY <1>3, <1>4, <1>5, <1>6, <1>7 DEF HostSteps

\* The drives and calls a stop does not touch keep what is known of them.
LEMMA OthersTrust ==
    ASSUME TypeInv, TrustInv, NEW r \in Releases, NEW v \in Volumes, Quiet(r, v),
           UNCHANGED <<start, batch, ejecting>>, under'[r][v] = under[r][v],
           gate'[v].batch \in {gate[v].batch, None}, gate'[v].pending = gate[v].pending,
           index'[v] => index[v]
    PROVE  TrustOf(r, v)'
<1>1. TrustOf(r, v) /\ CauseOf(r, v)
  BY DEF TrustInv, TrustOf
<1>2. CauseOf(r, v)'
  BY <1>1 DEF CauseOf
<1>3. \A b \in Batches : Handing(b, v)' => Handing(b, v)
  BY NoneAssumption DEF Handing
<1>4. Clear(r, v) => Clear(r, v)'
  BY DEF Clear, Coming, Rising
<1> QED BY <1>1, <1>2, <1>3, <1>4, TrustKept

\* What a stop does to the index, with what it may claim afterwards.
LEMMA StoppedIndex ==
    ASSUME TypeInv, NEW w \in Volumes, NEW was, NEW out, IndexStops(w, was, out)
    PROVE  (\A v \in Volumes : index'[v] => index[v]) /\ (out \in LetGo => ~index'[w])
BY DEF IndexStops, TypeInv, HostType, LetGo

LEMMA StopTrust ==
    ASSUME TypeInv, TrustInv, NEW q \in Releases, NEW w \in Volumes, StopSteps(q, w)
    PROVE  TrustInv'
<1> USE DEF callVars, hostVars, historyVars
<1> SUFFICES ASSUME NEW r \in Releases, NEW v \in Volumes PROVE TrustOf(r, v)'
  BY DEF TrustInv
<1>1. PICK x \in StopSet :
              /\ StopIs(q, w, x)
              /\ \/ /\ StopReads(q, w)
                    /\ x = [slot |-> stop[q][w].slot, at |-> "stopping", was |-> index[w],
                            out |-> stop[q][w].out]
                 \/ /\ StopRuns(q, w)
                    /\ x.slot = stop[q][w].slot /\ x.at = "answering"
                    /\ IndexStops(w, stop[q][w].was, x.out)
                 \/ /\ StopAnswers(q, w) /\ stop[q][w].slot # "Abandoned"
                    /\ x.slot = "Answered" /\ x.at = "over" /\ x.out = stop[q][w].out
                 \/ /\ StopAnswers(q, w) /\ stop[q][w].slot = "Abandoned"
                    /\ x = NoStop
  BY StopWrites DEF TypeInv
<1>2. /\ UNCHANGED <<gate, start, batch, release, ejecting, lateStop, under>>
      /\ \/ UNCHANGED index
         \/ StopRuns(q, w) /\ IndexStops(w, stop[q][w].was, x.out)
      /\ UNCHANGED late \/ (StopAnswers(q, w) /\ stop[q][w].slot = "Abandoned"
                            /\ late' = [late EXCEPT ![q][w] = stop[q][w].out])
  BY <1>1 DEF StopSteps, StopReads, StopRuns, StopAnswers
<1>3. stop' = [stop EXCEPT ![q] = [stop[q] EXCEPT ![w] = x]]
  BY <1>1 DEF StopIs
<1>4. index'[v] => index[v]
  BY <1>2, StoppedIndex
<1>5. TrustOf(r, v) /\ SlotOf(r, v) /\ CauseOf(r, v) /\ HandOf(r, v) /\ GoneOf(r, v)
  BY DEF TrustInv, TrustOf
<1>6. CASE r = q /\ v = w
  <2>1. stop'[r][v] = x
    BY <1>3, <1>6 DEF TypeInv, StopsType
  <2>2. stop[r][v].slot # None
    BY <1>5, <1>6 DEF SlotOf, StopSteps, StopReads, StopRuns, StopAnswers
  <2>3. /\ late'[r][v] = late[r][v]
        \/ (x = NoStop /\ late'[r][v] = stop[r][v].out)
    <3>1. CASE UNCHANGED late
      BY <3>1
    <3>2. CASE /\ StopAnswers(q, w) /\ stop[q][w].slot = "Abandoned"
               /\ late' = [late EXCEPT ![q][w] = stop[q][w].out]
      <4>1. x = NoStop
        BY <1>1, <3>2 DEF StopReads, StopRuns, StopAnswers
      <4>2. late'[q][w] = stop[q][w].out
        BY <3>2 DEF TypeInv, StopsType
      <4> QED BY <1>6, <4>1, <4>2
    <3> QED BY <1>2, <3>1, <3>2
  <2>4. x.out \in LetGo => stop[r][v].out \in LetGo \/ ~index'[v]
    BY <1>1, <1>6, StoppedIndex DEF NoStop, LetGo
  <2>5. SlotOf(r, v)'
    <3>1. CASE StopReads(q, w) \/ StopRuns(q, w)
      <4>1. ~StopAnswers(q, w) /\ UNCHANGED late
        BY <3>1 DEF StopReads, StopRuns, StopAnswers
      <4>2. x.slot = stop[r][v].slot
        BY <1>1, <1>6, <4>1
      <4> QED BY <1>2, <1>5, <2>1, <2>2, <4>1, <4>2 DEF SlotOf
    <3>2. CASE StopAnswers(q, w) /\ stop[q][w].slot # "Abandoned"
      <4>1. x.slot = "Answered"
        BY <1>1, <3>2 DEF StopReads, StopRuns, StopAnswers
      <4> QED BY <1>2, <1>5, <2>1, <2>2, <4>1, NoneAssumption DEF SlotOf, Slots
    <3>3. CASE StopAnswers(q, w) /\ stop[q][w].slot = "Abandoned"
      <4>1. x = NoStop
        BY <1>1, <3>3 DEF StopReads, StopRuns, StopAnswers
      <4> QED BY <1>2, <1>5, <1>6, <2>1, <2>2, <3>3, <4>1 DEF SlotOf, NoStop, LetGo
    <3> QED BY <3>1, <3>2, <3>3 DEF StopSteps
  <2>6. CauseOf(r, v)' /\ HandOf(r, v)'
    BY <1>2, <1>5 DEF CauseOf, HandOf, Handing
  <2>7. Clear(r, v) => Clear(r, v)'
    BY <1>2 DEF Clear, Coming, Rising
  <2>8. Stopped(r, v)
    BY <2>2 DEF Stopped
  <2>9. Told(r, v)' => Told(r, v) \/ stop[r][v].out \in LetGo
    BY <1>2, <2>3 DEF Told
  <2>10. Down(r, v)' => Down(r, v) \/ ~index'[v]
    BY <1>2, <2>1, <2>4, <2>9 DEF Down
  <2>11. GoneOf(r, v)'
    BY <1>2, <1>4, <1>5, <2>7, <2>8, <2>10 DEF GoneOf
  <2> QED BY <2>5, <2>6, <2>11 DEF TrustOf
<1>7. CASE r # q \/ v # w
  <2>1. stop'[r][v] = stop[r][v]
    BY <1>3, <1>7 DEF TypeInv, StopsType
  <2>2. late'[r][v] = late[r][v]
    BY <1>2, <1>7 DEF TypeInv, StopsType
  <2>3. Quiet(r, v)
    BY <1>2, <2>1, <2>2 DEF Quiet
  <2> QED BY <1>2, <1>4, <2>3, OthersTrust
<1> QED BY <1>6, <1>7

LEMMA LateStopTrust ==
    ASSUME TypeInv, TicketInv, TrustInv, NEW w \in Volumes, LateStopSteps(w) PROVE TrustInv'
<1> USE DEF callVars, hostVars, historyVars
<1> SUFFICES ASSUME NEW r \in Releases, NEW v \in Volumes PROVE TrustOf(r, v)'
  BY DEF TrustInv
<1>1. UNCHANGED <<start, batch, release, stop, ejecting, under>>
  BY DEF LateStopSteps, LateStopReads, LateStopRuns, LateStopAnswers, LateStopDrops,
         LateStopNotSpawned
<1>2. TrustOf(r, v) /\ SlotOf(r, v) /\ CauseOf(r, v) /\ HandOf(r, v) /\ GoneOf(r, v)
  BY DEF TrustInv, TrustOf
<1>3. ASSUME DropTicket(w), UNCHANGED index, late'[r][v] = late[r][v] PROVE TrustOf(r, v)'
  BY <1>1, <1>3, DropQuiet, OthersTrust
\* The late stop itself: it has v's ticket, so nothing of v is being started.
<1>4. ASSUME NEW x, lateStop' = [lateStop EXCEPT ![w] = x], lateStop[w].at # "over",
             x.at # "over", x.for = lateStop[w].for, UNCHANGED gate, index'[v] => index[v],
             v # w => late'[r][v] = late[r][v],
             v = w => late'[r][v] = late[r][v] \/
                      (r \in lateStop[w].for /\ late'[r][v] = lateStop[w].out),
             v = w => x.out = lateStop[w].out \/ (x.out \in LetGo => ~index'[v])
      PROVE  TrustOf(r, v)'
  <2>1. CASE v # w
    <3>1. lateStop'[v] = lateStop[v]
      BY <1>4, <2>1 DEF TypeInv, StopsType
    <3>2. Quiet(r, v)
      BY <1>1, <1>4, <2>1, <3>1 DEF Quiet
    <3> QED BY <1>1, <1>4, <3>2, OthersTrust
  <2>2. CASE v = w
    <3>1. lateStop'[v] = x
      BY <1>4, <2>2 DEF TypeInv, StopsType
    <3>2. SlotOf(r, v)'
      BY <1>1, <1>2, <1>4, <2>2, <3>1 DEF SlotOf
    <3>3. CauseOf(r, v)' /\ HandOf(r, v)'
      BY <1>1, <1>2, <1>4 DEF CauseOf, HandOf, Handing
    <3>4. Clear(r, v)'
      <4>1. gate[v].ticket = "LateStop" /\ HeldByStart(v) = {} /\ HeldByBatch(v) = {}
        BY <1>4, <2>2 DEF TicketInv, TicketOf
      <4> QED BY <1>1, <4>1 DEF Clear, Rising, Coming, HeldByStart, HeldByBatch, WithTicket
    <3>5. Told(r, v)' => Told(r, v) \/ (r \in lateStop[v].for /\ lateStop[v].out \in LetGo)
      BY <1>1, <1>4, <2>2 DEF Told
    <3>6. Down(r, v)' => Down(r, v) \/ ~index'[v]
      BY <1>1, <1>4, <2>2, <3>1, <3>5 DEF Down
    <3>7. GoneOf(r, v)'
      BY <1>1, <1>2, <1>4, <3>4, <3>6 DEF GoneOf
    <3> QED BY <3>2, <3>3, <3>7 DEF TrustOf
  <2> QED BY <2>1, <2>2
<1>5. lateStop[w] \in LateStopSet
  BY DEF TypeInv, StopsType
<1>6. CASE LateStopReads(w)
  <2> PICK x : x = [lateStop[w] EXCEPT !.at = "stopping", !.was = index[w]]
    OBVIOUS
  <2>1. x.at = "stopping" /\ x.for = lateStop[w].for /\ x.out = lateStop[w].out
    BY <1>5 DEF LateStopSet
  <2>2. lateStop' = [lateStop EXCEPT ![w] = x]
    BY <1>6 DEF LateStopReads
  <2> QED BY <1>4, <1>6, <2>1, <2>2 DEF LateStopReads
<1>7. CASE LateStopRuns(w)
  <2>1. PICK out \in Outcomes :
           /\ IndexStops(w, lateStop[w].was, out)
           /\ lateStop' = [lateStop EXCEPT ![w].at = "answering", ![w].was = FALSE, ![w].out = out]
    BY <1>7 DEF LateStopRuns
  <2> PICK x : x = [lateStop[w] EXCEPT !.at = "answering", !.was = FALSE, !.out = out]
    OBVIOUS
  <2>2. x.at = "answering" /\ x.for = lateStop[w].for /\ x.out = out
    BY <1>5 DEF LateStopSet
  <2>3. lateStop' = [lateStop EXCEPT ![w] = x]
    BY <2>1
  <2>4. (index'[v] => index[v]) /\ (out \in LetGo => ~index'[w])
    BY <2>1, StoppedIndex
  <2> QED BY <1>4, <1>7, <2>2, <2>3, <2>4 DEF LateStopRuns
<1>8. CASE LateStopAnswers(w)
  <2> PICK x : x = [lateStop[w] EXCEPT !.at = "recorded"]
    OBVIOUS
  <2>1. x.at = "recorded" /\ x.for = lateStop[w].for /\ x.out = lateStop[w].out
    BY <1>5 DEF LateStopSet
  <2>2. lateStop' = [lateStop EXCEPT ![w] = x]
    BY <1>8 DEF LateStopAnswers
  <2>3. /\ v # w => late'[r][v] = late[r][v]
        /\ v = w => late'[r][v] = late[r][v] \/
                    (r \in lateStop[w].for /\ late'[r][v] = lateStop[w].out)
    BY <1>8 DEF LateStopAnswers, TypeInv, StopsType
  <2> QED BY <1>4, <1>8, <2>1, <2>2, <2>3 DEF LateStopAnswers
<1>9. CASE LateStopDrops(w)
  BY <1>3, <1>9 DEF LateStopDrops
<1>10. CASE LateStopNotSpawned(w)
  <2>1. DropTicket(w) /\ UNCHANGED index
    BY <1>10 DEF LateStopNotSpawned
  <2>2. CASE r \in lateStop[w].for /\ v = w
    <3>1. late'[r][v] = "lost"
      BY <1>10, <2>2 DEF LateStopNotSpawned, TypeInv, StopsType
    <3>2. gate'[v].late = {} /\ lateStop'[v] = HandedTo(gate[v].late)
          /\ gate'[v].batch = gate[v].batch /\ gate'[v].pending = gate[v].pending
      BY <2>1, <2>2 DEF DropTicket, TypeInv, GateType, GateSet, StopsType
    <3>3. /\ lateStop'[v].out = "StillReleasing" /\ lateStop'[v].for = gate[v].late
          /\ lateStop'[v].at = "over" => lateStop'[v].for = {}
      BY <3>2 DEF HandedTo, NoLateStop
    <3>4. SlotOf(r, v)'
      BY <1>1, <1>2, <2>2, <3>2, <3>3 DEF SlotOf
    <3>5. CauseOf(r, v)' /\ HandOf(r, v)'
      BY <1>1, <1>2, <3>2 DEF CauseOf, HandOf, Handing
    <3>6. Clear(r, v) => Clear(r, v)'
      BY <1>1 DEF Clear, Coming, Rising
    <3>7. /\ Told(r, v)' => Told(r, v)
          /\ Stopped(r, v)' => Stopped(r, v)
          /\ Down(r, v)' => Down(r, v)
      BY <1>1, <3>1, <3>3 DEF Told, Stopped, Down, LetGo
    <3>8. GoneOf(r, v)'
      BY <1>1, <1>2, <2>1, <3>6, <3>7 DEF GoneOf
    <3> QED BY <3>4, <3>5, <3>8 DEF TrustOf
  <2>3. CASE ~(r \in lateStop[w].for /\ v = w)
    <3>1. late'[r][v] = late[r][v]
      BY <1>10, <2>3 DEF LateStopNotSpawned, TypeInv, StopsType
    <3> QED BY <1>3, <2>1, <3>1
  <2> QED BY <2>2, <2>3
<1> QED BY <1>6, <1>7, <1>8, <1>9, <1>10 DEF LateStopSteps

\* One volume of one release, through a turn of its loop: a stop begins only
\* where the ticket is free, and an answer is one its stop has given.
LEMMA TurnOne ==
    ASSUME TypeInv, NEW r \in Releases, NEW v \in Volumes, NEW e, NEW rel, rel \in ReleaseSet(e),
           NEW g, NEW timedOut \in BOOLEAN, ReleaseTurn(r, rel, g, timedOut),
           stop[r][v].slot = None => stop[r][v].at = "over" /\ stop[r][v].out \notin LetGo,
           rel.answer[v] = "Stopping" => stop[r][v].slot \in {"Running", "Answered"},
           v \in rel.ids => rel.answer[v] # None
    PROVE  /\ release'[r].at # "idle"
           /\ stop'[r][v].slot = None => stop'[r][v].at = "over" /\ stop'[r][v].out \notin LetGo
           /\ release'[r].answer[v] = "Stopping" => stop'[r][v].slot \in {"Running", "Answered"}
           /\ v \in release'[r].ids => release'[r].answer[v] # None
           /\ stop'[r][v].slot # None =>
                 stop[r][v].slot # None \/ (v \in rel.ids /\ g[v].ticket = None)
           /\ stop'[r][v].out \in LetGo => stop[r][v].out \in LetGo
           /\ release'[r].answer[v] \in LetGo =>
                 rel.answer[v] \in LetGo \/ (stop[r][v].slot # None /\ stop[r][v].out \in LetGo)
           /\ late'[r][v] \in LetGo => late[r][v] \in LetGo
<1>1. PICK failed \in SUBSET Free(rel, g) :
         LET turned == Turned(r, rel, g, failed)
             slots == TurnSlots(r, rel, g, failed)
         IN  \/ /\ Open(rel, turned) # {} /\ timedOut
                /\ GivesUp(r, rel, g, turned, slots)
             \/ /\ Open(rel, turned) = {} \/ ~timedOut
                /\ GoesRound(r, rel, g, turned, slots)
  BY Turn
<1>2. PICK turned, slots : turned = Turned(r, rel, g, failed) /\ slots = TurnSlots(r, rel, g, failed)
  OBVIOUS
<1>3. stop[r][v] \in StopSet /\ rel.answer[v] \in Answers /\ rel.ids \subseteq Volumes
  BY DEF TypeInv, StopsType, ReleaseSet
<1>4. /\ NewStop.slot = "Running" /\ NewStop.out = "StillReleasing"
      /\ NoStop.slot = None /\ NoStop.at = "over" /\ NoStop.out = "StillReleasing"
      /\ "StillReleasing" \notin LetGo
  BY DEF NewStop, NoStop, LetGo
\* What the turn makes of v before it decides how to end.
<1>5. \/ /\ v \in Free(rel, g) /\ v \in failed /\ turned[v] = "StillReleasing"
         /\ slots[v] = stop[r][v]
      \/ v \in Free(rel, g) /\ turned[v] = "Stopping" /\ slots[v] = NewStop
      \/ v \in Heard(r, rel) /\ turned[v] = stop[r][v].out /\ slots[v] = NoStop
      \/ /\ v \notin Free(rel, g) /\ v \notin Heard(r, rel)
         /\ turned[v] = rel.answer[v] /\ slots[v] = stop[r][v]
  BY <1>2 DEF Turned, TurnSlots, Free, Heard
<1>6. v \in Free(rel, g) => /\ v \in rel.ids /\ g[v].ticket = None
                            /\ rel.answer[v] = "WaitingForTicket"
  BY DEF Free
<1>7. v \in Heard(r, rel) => /\ v \in rel.ids /\ rel.answer[v] = "Stopping"
                             /\ stop[r][v].slot = "Answered"
  BY DEF Heard
<1>8. turned[v] \in Answers
  BY <1>3, <1>5 DEF Answers, StopSet, Outcomes
<1>9. /\ slots[v].slot = None => slots[v].at = "over" /\ slots[v].out \notin LetGo
      /\ turned[v] = "Stopping" => slots[v].slot \in {"Running", "Answered"}
      /\ v \in rel.ids => turned[v] # None
      /\ slots[v].slot # None => stop[r][v].slot # None \/ (v \in rel.ids /\ g[v].ticket = None)
      /\ slots[v].out \in LetGo => stop[r][v].out \in LetGo
      /\ turned[v] \in LetGo =>
            rel.answer[v] \in LetGo \/ (stop[r][v].slot # None /\ stop[r][v].out \in LetGo)
  <2>1. CASE v \in Free(rel, g) /\ turned[v] = "StillReleasing" /\ slots[v] = stop[r][v]
    BY <1>4, <1>6, <2>1, NoneAssumption DEF Outcomes
  <2>2. CASE v \in Free(rel, g) /\ turned[v] = "Stopping" /\ slots[v] = NewStop
    BY <1>4, <1>6, <2>2, NoneAssumption DEF Slots, LetGo
  <2>3. CASE v \in Heard(r, rel) /\ turned[v] = stop[r][v].out /\ slots[v] = NoStop
    BY <1>3, <1>4, <1>7, <2>3, NoneAssumption DEF Slots, Outcomes, LetGo, StopSet
  <2>4. CASE turned[v] = rel.answer[v] /\ slots[v] = stop[r][v]
    BY <2>4
  <2> QED BY <1>5, <2>1, <2>2, <2>3, <2>4
<1>10. CASE GoesRound(r, rel, g, turned, slots)
  <2>1. PICK at \in {"over", "waiting"} :
           release' = [release EXCEPT ![r] = [rel EXCEPT !.at = at, !.answer = turned]]
    BY <1>10 DEF GoesRound
  <2> PICK x : x = [rel EXCEPT !.at = at, !.answer = turned]
    OBVIOUS
  <2>2. x.at = at /\ x.answer = turned /\ x.ids = rel.ids
    BY DEF ReleaseSet
  <2>3. release'[r] = x
    BY <2>1 DEF TypeInv, CallsType
  <2>4. stop'[r][v] = slots[v] /\ UNCHANGED late
    BY <1>10 DEF GoesRound, TypeInv, StopsType
  <2> QED BY <1>9, <2>2, <2>3, <2>4
<1>11. CASE GivesUp(r, rel, g, turned, slots)
  <2> PICK a : a = [u \in Volumes |-> IF u \in Open(rel, turned) THEN "StillReleasing" ELSE turned[u]]
    OBVIOUS
  <2> PICK x : x = [rel EXCEPT !.at = "over", !.answer = a]
    OBVIOUS
  <2>1. x.at = "over" /\ x.answer = a /\ x.ids = rel.ids
    BY DEF ReleaseSet
  <2>2. release'[r] = x
    BY <1>11 DEF GivesUp, TypeInv, CallsType
  <2>3. a[v] = IF v \in Open(rel, turned) THEN "StillReleasing" ELSE turned[v]
    OBVIOUS
  <2>4. stop'[r][v] = IF v \in Open(rel, turned) \ Queued(rel, turned)
                      THEN [slots[v] EXCEPT !.slot = "Abandoned"] ELSE slots[v]
    BY <1>11 DEF GivesUp, TypeInv, StopsType
  <2>5. late'[r][v] = IF v \in Open(rel, turned) THEN "owed" ELSE late[r][v]
    BY <1>11 DEF GivesUp, TypeInv, StopsType
  <2>6. "owed" \notin LetGo
    BY DEF LetGo
  <2>7. CASE v \notin Open(rel, turned)
    BY <1>9, <2>1, <2>2, <2>3, <2>4, <2>5, <2>7
  <2>8. CASE v \in Queued(rel, turned)
    <3>1. v \in Open(rel, turned)
      BY <2>8 DEF Queued
    <3> QED BY <1>4, <1>9, <2>1, <2>2, <2>3, <2>4, <2>5, <2>6, <2>8, <3>1, NoneAssumption DEF Outcomes
  <2>9. CASE v \in Open(rel, turned) \ Queued(rel, turned)
    <3>1. turned[v] = "Stopping" /\ v \in rel.ids
      BY <1>8, <1>9, <2>9 DEF Open, Queued, Answers
    <3> NewStop \in StopSet /\ NoStop \in StopSet
      BY DEF NewStop, NoStop, StopSet, Slots, Outcomes
    <3>2. slots[v].slot # None /\ slots[v] \in StopSet
      BY <1>3, <1>5, <1>9, <3>1, NoneAssumption DEF Slots
    <3>3. stop'[r][v].slot = "Abandoned" /\ stop'[r][v].out = slots[v].out
      BY <2>4, <2>9, <3>2 DEF StopSet
    <3>4. release'[r].answer[v] = "StillReleasing" /\ late'[r][v] = "owed"
      BY <2>1, <2>2, <2>3, <2>5, <2>9
    <3>5. None \notin {"Abandoned", "StillReleasing"} /\ release'[r].at = "over"
      BY <2>1, <2>2, NoneAssumption DEF Slots, Outcomes
    <3> QED BY <1>4, <1>9, <2>6, <3>2, <3>3, <3>4, <3>5
  <2> QED BY <2>7, <2>8, <2>9
<1> QED BY <1>1, <1>2, <1>10, <1>11

LEMMA ReleaseTrust ==
    ASSUME TypeInv, TicketInv, TrustInv, NEW q \in Releases, ReleaseSteps(q) PROVE TrustInv'
<1> USE DEF callVars, hostVars, historyVars
<1> SUFFICES ASSUME NEW r \in Releases, NEW v \in Volumes PROVE TrustOf(r, v)'
  BY DEF TrustInv
<1>1. UNCHANGED <<start, batch, lateStop, ejecting, index>>
  BY DEF ReleaseSteps, ReleaseAsked, ReleaseWoken, ReleaseTimesOut
<1>2. /\ gate'[v].pending = gate[v].pending /\ gate'[v].batch \in {gate[v].batch, None}
      /\ r # q => (r \in gate'[v].late => r \in gate[v].late)
  BY ReleaseGate
<1>3. TrustOf(r, v) /\ SlotOf(r, v) /\ CauseOf(r, v) /\ HandOf(r, v) /\ GoneOf(r, v)
  BY DEF TrustInv, TrustOf
<1>4. gate[v].ticket = None => Clear(r, v)'
  <2> SUFFICES ASSUME gate[v].ticket = None PROVE Clear(r, v)'
    OBVIOUS
  <2>1. HeldByStart(v) = {} /\ HeldByBatch(v) = {}
    BY NoneAssumption DEF TicketInv, TicketOf, Tickets
  <2> QED BY <1>1, <2>1 DEF Clear, Rising, Coming, HeldByStart, HeldByBatch, WithTicket
\* A turn of another release.
<1>5. ASSUME r # q, NEW e, release \in [Releases -> ReleaseSet(e)], NEW rel, rel \in ReleaseSet(e),
             NEW g, NEW timedOut \in BOOLEAN, ReleaseTurn(q, rel, g, timedOut),
             under'[r] = under[r]
      PROVE  TrustOf(r, v)'
  <2>1. release'[r] = release[r] /\ stop'[r] = stop[r] /\ late'[r] = late[r]
    BY <1>5, TurnParks DEF TypeInv
  <2>2. Quiet(r, v)
    BY <1>1, <1>2, <1>5, <2>1 DEF Quiet
  <2> QED BY <1>1, <1>2, <1>5, <2>2, OthersTrust
\* A turn of r itself.
<1>6. ASSUME r = q, release[r].at = "waiting", UNCHANGED under,
             NEW timedOut \in BOOLEAN, ReleaseTurn(r, release[r], gate, timedOut)
      PROVE  TrustOf(r, v)'
  <2> PICK rel : rel = release[r]
    OBVIOUS
  <2>1. rel \in ReleaseSet(lastEpoch)
    BY DEF TypeInv, CallsType
  <2>2. /\ stop[r][v].slot = None => stop[r][v].at = "over" /\ stop[r][v].out \notin LetGo
        /\ rel.answer[v] = "Stopping" => stop[r][v].slot \in {"Running", "Answered"}
        /\ v \in rel.ids => rel.answer[v] # None
    BY <1>3 DEF SlotOf
  <2>3. ReleaseTurn(r, rel, gate, timedOut)
    BY <1>6
  <2>4. /\ release'[r].at # "idle"
        /\ stop'[r][v].slot = None => stop'[r][v].at = "over" /\ stop'[r][v].out \notin LetGo
        /\ release'[r].answer[v] = "Stopping" => stop'[r][v].slot \in {"Running", "Answered"}
        /\ v \in release'[r].ids => release'[r].answer[v] # None
        /\ stop'[r][v].slot # None =>
              stop[r][v].slot # None \/ (v \in rel.ids /\ gate[v].ticket = None)
        /\ stop'[r][v].out \in LetGo => stop[r][v].out \in LetGo
        /\ release'[r].answer[v] \in LetGo =>
              rel.answer[v] \in LetGo \/ (stop[r][v].slot # None /\ stop[r][v].out \in LetGo)
        /\ late'[r][v] \in LetGo => late[r][v] \in LetGo
    BY <2>1, <2>2, <2>3, TurnOne
  <2>5. SlotOf(r, v)'
    BY <1>1, <1>3, <2>4 DEF SlotOf
  <2>6. CauseOf(r, v)'
    BY <1>1, <1>2, <1>3, <1>6 DEF CauseOf
  <2>7. HandOf(r, v)'
    BY <1>1, <1>2, <1>3, <1>6, NoneAssumption DEF HandOf, Handing
  <2>8. Told(r, v)' => Told(r, v) \/ (stop[r][v].slot # None /\ stop[r][v].out \in LetGo)
    BY <2>4 DEF Told
  <2>9. /\ Stopped(r, v)' => Stopped(r, v) \/ gate[v].ticket = None
        /\ Down(r, v)' => Down(r, v)
    BY <1>1, <2>4, <2>8 DEF Stopped, Down
  <2>10. (Clear(r, v) => Clear(r, v)') /\ (gate[v].ticket = None => Clear(r, v)')
    BY <1>1, <1>4, <1>6 DEF Clear, Coming, Rising
  <2>11. GoneOf(r, v)'
    BY <1>1, <1>3, <1>6, <2>9, <2>10 DEF GoneOf
  <2> QED BY <2>5, <2>6, <2>7, <2>11 DEF TrustOf
<1>7. CASE ReleaseWoken(q)
  <2>1. /\ ReleaseTurn(q, release[q], gate, FALSE) /\ release[q].at = "waiting" /\ UNCHANGED under
        /\ release \in [Releases -> ReleaseSet(lastEpoch)] /\ release[q] \in ReleaseSet(lastEpoch)
    BY <1>7 DEF ReleaseWoken, TypeInv, CallsType
  <2> QED BY <1>5, <1>6, <2>1
<1>8. CASE ReleaseTimesOut(q)
  <2>1. /\ ReleaseTurn(q, release[q], gate, TRUE) /\ release[q].at = "waiting" /\ UNCHANGED under
        /\ release \in [Releases -> ReleaseSet(lastEpoch)] /\ release[q] \in ReleaseSet(lastEpoch)
    BY <1>8 DEF ReleaseTimesOut, TypeInv, CallsType
  <2> QED BY <1>5, <1>6, <2>1
<1>9. CASE ReleaseAsked(q)
  <2>1. PICK ids \in SUBSET Volumes, timedOut \in BOOLEAN : \E g, rel :
              /\ g = Bumped(ids) /\ rel = Asking(q, ids, g)
              /\ lastEpoch' = lastEpoch + Cardinality(ids)
              /\ under' = [under EXCEPT ![q] = [w \in Volumes |->
                    {c \in Causes : w \in ids /\ IF c = "pending" THEN gate[w].pending
                                                                  ELSE ejecting[w]}]]
              /\ ReleaseTurn(q, rel, g, timedOut)
    BY <1>9, AskingTurn
  <2>2. PICK g, rel :
              /\ g = Bumped(ids) /\ rel = Asking(q, ids, g)
              /\ under' = [under EXCEPT ![q] = [w \in Volumes |->
                    {c \in Causes : w \in ids /\ IF c = "pending" THEN gate[w].pending
                                                                  ELSE ejecting[w]}]]
              /\ ReleaseTurn(q, rel, g, timedOut)
    BY <2>1
  <2> PICK e : e = lastEpoch + Cardinality(ids)
    OBVIOUS
  <2>3. /\ e \in Nat /\ e >= lastEpoch /\ g \in GateSet(e)
        /\ g[v].ticket = gate[v].ticket
        /\ v \in ids => g[v].batch = None
    BY <2>2, BumpedGate DEF TypeInv, GateType
  <2>4. release \in [Releases -> ReleaseSet(e)]
    BY <2>3 DEF TypeInv, CallsType, ReleaseSet, GateType
  <2>5. rel \in ReleaseSet(e)
    BY <2>2, <2>3, <2>4, AskingType
  <2>6. CASE r # q
    <3>1. under'[r] = under[r]
      BY <2>2, <2>6 DEF TypeInv, HistoryType
    <3> QED BY <1>5, <2>2, <2>4, <2>5, <2>6, <3>1
  <2>7. CASE r = q
    <3>1. release[r].at = "idle" /\ release[r] \in ReleaseSet(e)
      BY <1>9, <2>4, <2>7 DEF ReleaseAsked
    <3>2. /\ stop[r][v].slot = None /\ stop[r][v].out \notin LetGo /\ late[r][v] = None
          /\ stop[r][v].at = "over" /\ r \notin lateStop[v].for
      BY <1>3, <3>1 DEF SlotOf
    <3>3. rel.ids = ids /\ rel.answer[v] = IF v \in ids THEN "WaitingForTicket" ELSE None
      BY <2>2, <2>7, <3>1 DEF Asking, ReleaseSet
    <3>4. /\ None \notin LetGo \cup {"Stopping", "WaitingForTicket"}
          /\ "WaitingForTicket" \notin LetGo
      BY NoneAssumption DEF Outcomes, LetGo
    <3>5. /\ release'[r].at # "idle"
          /\ stop'[r][v].slot = None => stop'[r][v].at = "over" /\ stop'[r][v].out \notin LetGo
          /\ release'[r].answer[v] = "Stopping" => stop'[r][v].slot \in {"Running", "Answered"}
          /\ v \in release'[r].ids => release'[r].answer[v] # None
          /\ stop'[r][v].slot # None =>
                stop[r][v].slot # None \/ (v \in rel.ids /\ g[v].ticket = None)
          /\ stop'[r][v].out \in LetGo => stop[r][v].out \in LetGo
          /\ release'[r].answer[v] \in LetGo =>
                rel.answer[v] \in LetGo \/ (stop[r][v].slot # None /\ stop[r][v].out \in LetGo)
          /\ late'[r][v] \in LetGo => late[r][v] \in LetGo
      <4>1. rel.answer[v] # "Stopping" /\ (v \in rel.ids => rel.answer[v] # None)
        BY <3>3, <3>4
      <4> QED BY <2>2, <2>5, <2>7, <3>2, <4>1, TurnOne
    <3>6. SlotOf(r, v)'
      BY <1>1, <1>3, <3>5 DEF SlotOf
    <3>7. ~Told(r, v)' /\ ~Down(r, v)' /\ (Stopped(r, v)' => gate[v].ticket = None)
      BY <1>1, <2>3, <3>2, <3>3, <3>4, <3>5 DEF Told, Down, Stopped
    <3>8. /\ "pending" \in under'[r][v] => gate[v].pending
          /\ "ejecting" \in under'[r][v] => v \in ids /\ ejecting[v]
      BY <2>2, <2>7 DEF TypeInv, HistoryType, Causes
    <3>9. CauseOf(r, v)'
      BY <1>1, <1>2, <3>8 DEF CauseOf
    <3>10. gate'[v].batch = g[v].batch
      BY <2>2, <2>3, <2>5, <2>7, TurnGate DEF TypeInv, ReleaseSet
    <3>11. HandOf(r, v)'
      BY <2>3, <3>8, <3>10, NoneAssumption DEF HandOf, Handing
    <3>12. GoneOf(r, v)'
      BY <1>1, <1>4, <3>7 DEF GoneOf
    <3> QED BY <3>6, <3>9, <3>11, <3>12 DEF TrustOf
  <2> QED BY <2>6, <2>7
<1> QED BY <1>7, <1>8, <1>9 DEF ReleaseSteps

LEMMA StepTrust == TypeInv /\ TicketInv /\ TrustInv /\ [Next]_vars => TrustInv'
BY NextIs, StartTrust, DisableTrust, ReleaseTrust, StopTrust, LateStopTrust, ResumeTrust, HostTrust

(* A release that answered, in time or late, that it let go of a drive     *)
(* that was leaving when it was asked, is believed for as long as the      *)
(* drive leaves: no index is up on it and no start call runs.              *)
THEOREM ReleasesAreBelieved == Spec => []LetGoMeansLetGo
<1>1. Init => TypeInv /\ TicketInv /\ TrustInv
  BY InitTypeInv, InitTicketInv, InitTrustInv
<1>2. TypeInv /\ TicketInv /\ TrustInv /\ [Next]_vars => (TypeInv /\ TicketInv /\ TrustInv)'
  BY StepTypes, StepTickets, StepTrust
<1>3. TypeInv /\ TrustInv => LetGoMeansLetGo
  BY TrustParts
<1> QED BY <1>1, <1>2, <1>3, PTL DEF Spec

=============================================================================

-------------------------- MODULE ScanPreviewProofs -------------------------
(***************************************************************************)
(* Theorems about ScanPreview, for any number of operations confirmed from *)
(* one dialog, of progress ticks and of teardowns.                         *)
(***************************************************************************)
EXTENDS ScanPreview, TLAPS

-----------------------------------------------------------------------------
(* Types.  A walk that ended knows what it is to publish.                  *)

EndInv == walk \in {"ended", "settle"} => ending # "none"

TypeInv == TypeOK /\ EndInv

LEMMA InitTypeInv == Init => TypeInv
<1> SUFFICES ASSUME Init PROVE TypeInv
  OBVIOUS
<1>1. EntryOK
  BY DEF Init, EntryOK, NoEntry, Outcomes
<1>2. 0 \in 0..MaxTicks /\ 0 \in 0..MaxTeardowns
  BY BoundsAssumption
<1>3. walk \in Walking /\ walk \notin Walking \ {"walking"} /\ walk \notin {"ended", "settle"}
  BY DEF Init, Walking
<1> QED BY <1>1, <1>2, <1>3 DEF Init, TypeInv, TypeOK, EndInv

LEMMA RemoveEntry == Remove => EntryOK'
<1>1. NoEntry \in [phase : {"none", "inFlight", "settled"}, outcome : Outcomes \cup {"none"},
                   result : BOOLEAN, claim : Ops \cup {NoOp}]
  BY DEF NoEntry
<1>2. NoEntry.phase = "none" /\ NoEntry.outcome = "none" /\ ~NoEntry.result
  BY DEF NoEntry
<1> QED BY <1>1, <1>2 DEF Remove, EntryOK

LEMMA SettleEntry ==
    ASSUME EntryOK, NEW outcome \in Outcomes, Settle(outcome)
    PROVE  EntryOK' /\ armed' = {}
<1>1. /\ entry' = [phase |-> "settled", outcome |-> outcome,
                   result |-> (outcome = "complete"), claim |-> entry.claim]
      /\ old' = FALSE /\ entry.claim \in Ops \cup {NoOp} /\ armed' = {}
  BY DEF Settle, EntryOK
<1>2. entry'.result <=> outcome = "complete"
  BY <1>1
<1>3. entry' # NoEntry /\ entry'.phase = "settled" /\ entry'.outcome = outcome /\ outcome # "none"
  BY <1>1 DEF NoEntry, Outcomes
<1>4. entry' \in [phase : {"none", "inFlight", "settled"}, outcome : Outcomes \cup {"none"},
                  result : BOOLEAN, claim : Ops \cup {NoOp}]
  BY <1>1
<1> QED BY <1>1, <1>2, <1>3, <1>4 DEF EntryOK

\* Whatever happens to the entry and to the flag beside it.
LEMMA ClaimEnds ==
    ASSUME TypeOK, FinishClaim \/ AbandonClaim
    PROVE  EntryOK' /\ cancelled' \in BOOLEAN
<1>1. CASE FinishClaim
  BY <1>1 DEF FinishClaim, TypeOK, EntryOK, NoEntry
<1>2. CASE AbandonClaim
  <2>1. CASE entry.claim = NoOp
    BY <1>2, <2>1 DEF AbandonClaim, TypeOK, EntryOK, NoEntry, entryVars
  <2>2. CASE entry.claim # NoOp
    BY <1>2, <2>2, RemoveEntry DEF AbandonClaim, TypeOK
  <2> QED BY <2>1, <2>2
<1> QED BY <1>1, <1>2

LEMMA MapStepsType == ASSUME TypeInv, MapSteps PROVE TypeInv'
<1> USE DEF TypeInv, TypeOK, EndInv, walkVars, clockVars, dialogVars, opVars
<1>1. CASE AnotherSettles
  <2>1. EntryOK'
    BY <1>1, RemoveEntry DEF AnotherSettles, entryVars, EntryOK, NoEntry
  <2> QED BY <1>1, <2>1 DEF AnotherSettles
<1>2. CASE GrowsOld
  BY <1>2 DEF GrowsOld, EntryOK, NoEntry
<1>3. CASE TeardownLooks
  BY <1>3, BoundsAssumption DEF TeardownLooks, entryVars, EntryOK, NoEntry
<1>4. CASE TeardownFlags
  BY <1>4 DEF TeardownFlags, entryVars, EntryOK, NoEntry
<1>5. CASE TeardownReleases
  BY <1>5, RemoveEntry DEF TeardownReleases
<1> QED BY <1>1, <1>2, <1>3, <1>4, <1>5 DEF MapSteps

LEMMA WalkStepsType ==
    ASSUME TypeInv, Ticks \/ StopsWalking \/ RunsOut \/ Parks \/ ParkSteps \/ EndSteps
    PROVE  TypeInv'
<1> USE DEF TypeInv, TypeOK, EndInv, walkVars, clockVars, dialogVars, opVars
<1>1. CASE WalkSettles
  <2>1. EntryOK' /\ armed' = {}
    BY <1>1, SettleEntry DEF WalkSettles
  <2> QED BY <1>1, <2>1 DEF WalkSettles, Walking
<1>2. CASE UNCHANGED entryVars
  <2>1. EntryOK'
    BY <1>2 DEF entryVars, EntryOK, NoEntry
  <2>2. CASE Ticks
    <3>1. owner' \in Ops \cup {NoOp} /\ ticks' \in 0..MaxTicks
      BY <2>2, BoundsAssumption DEF Ticks, EntryOK
    <3> QED BY <2>1, <2>2, <3>1 DEF Ticks, Walking
  <2>3. ASSUME NEW outcomes \in SUBSET Outcomes, walk = "walking", EndsAs(outcomes)
        PROVE  TypeInv'
    <3>1. ending' \in Outcomes /\ ending' # "none"
      BY <2>3 DEF EndsAs, Outcomes
    <3> QED BY <2>1, <2>3, <3>1 DEF EndsAs, Walking
  <2>4. CASE StopsWalking \/ RunsOut
    BY <2>3, <2>4 DEF StopsWalking, RunsOut, Outcomes
  <2>5. CASE Parks
    BY <2>1, <2>5, NoOpAssumption DEF Parks, Walking
  <2>6. CASE AtGate
    BY <2>1, <2>6 DEF AtGate, Walking
  <2>7. CASE RestartClock
    BY <2>1, <2>7 DEF RestartClock, Walking
  <2>8. CASE ClearParked
    BY <2>1, <2>8 DEF ClearParked, Walking
  <2>9. CASE ClaimsOutcome
    BY <2>1, <2>9 DEF ClaimsOutcome, Walking
  <2> QED BY <1>1, <2>2, <2>4, <2>5, <2>6, <2>7, <2>8, <2>9 DEF ParkSteps, EndSteps
<1> QED BY <1>1, <1>2
        DEF Ticks, StopsWalking, RunsOut, EndsAs, Parks, ParkSteps, AtGate, RestartClock,
            ClearParked, EndSteps, ClaimsOutcome

LEMMA WatchStepsType == ASSUME TypeInv, FallsSilent \/ WatchSteps PROVE TypeInv'
<1> USE DEF TypeInv, TypeOK, EndInv, walkVars, clockVars, dialogVars, opVars
<1>1. CASE WatchSettles
  <2>1. EntryOK' /\ armed' = {}
    BY <1>1, SettleEntry DEF WatchSettles, Outcomes
  <2> QED BY <1>1, <2>1 DEF WatchSettles
<1>2. CASE FallsSilent \/ Beats \/ ReadsClock \/ GivesUp
  <2>1. EntryOK'
    BY <1>2 DEF FallsSilent, Beats, ReadsClock, GivesUp, entryVars, EntryOK, NoEntry
  <2>2. CASE FallsSilent
    BY <2>1, <2>2 DEF FallsSilent
  <2>3. CASE Beats
    BY <2>1, <2>3 DEF Beats
  <2>4. CASE ReadsClock
    BY <2>1, <2>4 DEF ReadsClock
  <2>5. CASE GivesUp
    <3>1. claimed' \in BOOLEAN /\ cancelled' \in BOOLEAN
      BY <2>5 DEF GivesUp
    <3> QED BY <2>1, <2>5, <3>1 DEF GivesUp
  <2> QED BY <1>2, <2>2, <2>3, <2>4, <2>5
<1> QED BY <1>1, <1>2 DEF WatchSteps

LEMMA TaskStepsType == ASSUME TypeInv, NEW o \in Ops, TaskSteps(o) PROVE TypeInv'
<1> USE DEF TypeInv, TypeOK, EndInv, Waiting, walkVars, clockVars, dialogVars, opVars
<1>1. CASE WaitEnds(o)
  <2>1. EntryOK' /\ cancelled' \in BOOLEAN
    BY <1>1, ClaimEnds DEF WaitEnds
  <2> QED BY <1>1, <2>1 DEF WaitEnds
<1>2. CASE Arms(o) \/ Polls(o) \/ Wakes(o) \/ SeesCancel(o)
  <2>1. EntryOK'
    BY <1>2 DEF Arms, Polls, Wakes, SeesCancel, entryVars, EntryOK, NoEntry
  <2>2. CASE Arms(o)
    BY <2>1, <2>2 DEF Arms
  <2>3. CASE Polls(o)
    BY <2>1, <2>3 DEF Polls, Poll, Outcomes, EntryOK
  <2>4. CASE Wakes(o)
    BY <2>1, <2>4 DEF Wakes
  <2>5. CASE SeesCancel(o)
    BY <2>1, <2>5 DEF SeesCancel, Outcomes
  <2> QED BY <1>2, <2>2, <2>3, <2>4, <2>5
<1> QED BY <1>1, <1>2 DEF TaskSteps

LEMMA HandStepsType ==
    ASSUME TypeInv, NEW o \in Ops, PersonSteps(o) \/ LaneSteps(o)
    PROVE  TypeInv'
<1> USE DEF TypeInv, TypeOK, EndInv, Waiting, walkVars, clockVars, dialogVars, opVars
<1>1. CASE Confirms(o)
  BY <1>1 DEF Confirms, Claims, EntryOK, NoEntry
<1>2. CASE EndsQueued(o)
  <2>1. EntryOK' /\ cancelled' \in BOOLEAN
    BY <1>2, ClaimEnds DEF EndsQueued, entryVars, EntryOK, NoEntry
  <2> QED BY <1>2, <2>1 DEF EndsQueued
<1>3. ASSUME NEW same \in BOOLEAN, TakesResult(o, same) PROVE TypeInv'
  <2>1. EntryOK'
    BY <1>3, RemoveEntry DEF TakesResult, entryVars, EntryOK, NoEntry
  <2> QED BY <1>3, <2>1 DEF TakesResult
<1>4. CASE CancelsQueued(o) \/ CancelsRunning(o) \/ Pauses(o) \/ Resumes(o) \/ Starts(o)
  <2>1. EntryOK'
    BY <1>4 DEF CancelsQueued, CancelsRunning, Pauses, Resumes, Starts, entryVars, EntryOK, NoEntry
  <2>2. CASE CancelsQueued(o)
    BY <2>1, <2>2 DEF CancelsQueued
  <2>3. CASE CancelsRunning(o)
    BY <2>1, <2>3 DEF CancelsRunning, WakesWalk, Walking
  <2>4. CASE Pauses(o)
    BY <2>1, <2>4 DEF Pauses
  <2>5. CASE Resumes(o)
    BY <2>1, <2>5 DEF Resumes, WakesWalk, Walking
  <2>6. CASE Starts(o)
    BY <2>1, <2>6 DEF Starts
  <2> QED BY <1>4, <2>2, <2>3, <2>4, <2>5, <2>6
<1> QED BY <1>1, <1>2, <1>3, <1>4 DEF PersonSteps, LaneSteps

LEMMA StepTypeInv == TypeInv /\ [Next]_vars => TypeInv'
<1>1. ASSUME TypeInv, UNCHANGED vars PROVE TypeInv'
  BY <1>1 DEF vars, TypeInv, TypeOK, EntryOK, NoEntry, EndInv, entryVars, walkVars, clockVars, dialogVars, opVars
<1> QED BY <1>1, MapStepsType, WalkStepsType, WatchStepsType, TaskStepsType, HandStepsType DEF Next

\* Every state a preview and the operations on it reach is well typed: among
\* other things an entry carries a result exactly when its walk completed, and
\* a walk that is parked knows whose gate it is parked on.
THEOREM TypeCorrect == Spec => []TypeOK
<1>1. TypeInv => TypeOK
  BY DEF TypeInv
<1> QED BY <1>1, InitTypeInv, StepTypeInv, PTL DEF Spec

-----------------------------------------------------------------------------
(* The two publishers.  Whoever is to settle the entry won the one         *)
(* compare-and-swap, and the entry is not settled before it does.          *)

PublishInv ==
    /\ entry.phase = "settled" \/ walk \in {"settle", "gone"} \/ watch = "settle" => claimed
    /\ walk = "settle" => watch # "settle" /\ entry.phase # "settled"
    /\ watch = "settle" => entry.phase # "settled"

\* A dialog that is about to drop the entry came to tell the walk first, or the
\* walk was no longer in flight.
TeardownInv ==
    /\ dialog # "up" => teardowns > 0
    /\ dialog = "release" => cancelled \/ claimed

EntryInv == TypeInv /\ PublishInv /\ TeardownInv /\ NobodyWalksForNobody

LEMMA InitEntryInv == Init => EntryInv
<1> SUFFICES ASSUME Init PROVE PublishInv /\ TeardownInv /\ NobodyWalksForNobody
  BY InitTypeInv DEF EntryInv
<1> QED BY DEF Init, NoEntry, PublishInv, TeardownInv, NobodyWalksForNobody

\* A claim that ends takes the entry only after the walk was told, and never
\* settles anything.
LEMMA ClaimEndsEntry ==
    ASSUME EntryInv, FinishClaim \/ AbandonClaim
    PROVE  /\ entry'.phase \in {entry.phase, "none"}
           /\ cancelled => cancelled'
           /\ entry'.phase = "none" => entry.phase = "none" \/ claimed \/ cancelled'
<1> USE DEF EntryInv, TypeInv, TypeOK, EntryOK, PublishInv
<1>1. CASE FinishClaim
  BY <1>1 DEF FinishClaim, NoEntry
<1>2. CASE AbandonClaim /\ entry.claim = NoOp
  BY <1>2 DEF AbandonClaim, entryVars
<1>3. CASE AbandonClaim /\ entry.claim # NoOp
  <2>1. entry' = NoEntry /\ (cancelled' <=> cancelled \/ entry.phase = "inFlight")
    BY <1>3 DEF AbandonClaim, Remove
  <2>2. entry'.phase = "none" /\ entry.phase \in {"none", "inFlight", "settled"}
    BY <2>1 DEF NoEntry
  <2> QED BY <2>1, <2>2
<1> QED BY <1>1, <1>2, <1>3

\* What one step may do to the entry's phase, the flag and the outcome's claim.
PhaseKept ==
    /\ entry'.phase \in {entry.phase, "none"}
    /\ entry'.phase = "none" => entry.phase = "none" \/ claimed \/ cancelled'
    /\ cancelled => cancelled'
    /\ claimed => claimed'

LEMMA TaskStepsEntry ==
    ASSUME EntryInv, NEW o \in Ops, TaskSteps(o) \/ PersonSteps(o) \/ LaneSteps(o)
    PROVE  /\ PhaseKept /\ UNCHANGED <<claimed, watch, dialog, teardowns>>
           /\ walk' = walk \/ (walk = "asleep" /\ walk' = "gate")
<1> USE DEF walkVars, clockVars, dialogVars, opVars, entryVars, PhaseKept
<1>1. CASE WaitEnds(o)
  BY <1>1, ClaimEndsEntry DEF WaitEnds
<1>2. CASE EndsQueued(o)
  BY <1>2, ClaimEndsEntry DEF EndsQueued
<1>3. ASSUME NEW same \in BOOLEAN, TakesResult(o, same)
      PROVE  PhaseKept /\ UNCHANGED <<claimed, watch, walk, dialog, teardowns>>
  BY <1>3 DEF TakesResult, Remove, NoEntry, EntryInv, PublishInv
<1>4. CASE Confirms(o)
  BY <1>4 DEF Confirms, Claims, EntryInv, TypeInv, TypeOK, EntryOK
<1>5. CASE CancelsRunning(o) \/ Resumes(o)
  BY <1>5 DEF CancelsRunning, Resumes, WakesWalk
<1>6. CASE \/ Arms(o) \/ Polls(o) \/ Wakes(o) \/ SeesCancel(o)
           \/ CancelsQueued(o) \/ Pauses(o) \/ Starts(o)
  BY <1>6 DEF Arms, Polls, Wakes, SeesCancel, CancelsQueued, Pauses, Starts
<1> QED BY <1>1, <1>2, <1>3, <1>4, <1>5, <1>6 DEF TaskSteps, PersonSteps, LaneSteps

\* Every way an entry goes is checked against the walk it leaves behind.
LEMMA StepEntryInv == EntryInv /\ [Next]_vars => EntryInv'
<1> SUFFICES ASSUME EntryInv, [Next]_vars
             PROVE  PublishInv' /\ TeardownInv' /\ NobodyWalksForNobody'
  BY StepTypeInv DEF EntryInv
<1> USE DEF PublishInv, TeardownInv, NobodyWalksForNobody,
            entryVars, walkVars, clockVars, dialogVars, opVars
<1> DEFINE Kept == PublishInv' /\ TeardownInv' /\ NobodyWalksForNobody'
<1>1. CASE MapSteps
  <2>1. CASE AnotherSettles
    BY <2>1 DEF AnotherSettles, Ages, Remove, NoEntry, EntryInv
  <2>2. CASE GrowsOld
    BY <2>2 DEF GrowsOld, EntryInv
  <2>3. CASE TeardownLooks
    BY <2>3 DEF TeardownLooks, EntryInv, TypeInv, TypeOK
  <2>4. CASE TeardownFlags
    <3>1. cancelled' \/ claimed
      BY <2>4 DEF TeardownFlags, EntryInv, TypeInv, TypeOK, EntryOK
    <3> QED BY <2>4, <3>1 DEF TeardownFlags, EntryInv
  <2>5. CASE TeardownReleases
    BY <2>5 DEF TeardownReleases, Remove, NoEntry, EntryInv
  <2> QED BY <1>1, <2>1, <2>2, <2>3, <2>4, <2>5 DEF MapSteps
<1>2. CASE Ticks \/ StopsWalking \/ RunsOut \/ Parks \/ ParkSteps
  BY <1>2 DEF Ticks, StopsWalking, RunsOut, EndsAs, Parks, ParkSteps, AtGate, RestartClock,
              ClearParked, EntryInv
<1>3. CASE ClaimsOutcome
  BY <1>3 DEF ClaimsOutcome, EntryInv
<1>4. CASE WalkSettles
  BY <1>4 DEF WalkSettles, Settle, EntryInv
<1>5. CASE FallsSilent \/ Beats \/ ReadsClock
  BY <1>5 DEF FallsSilent, Beats, ReadsClock, EntryInv
<1>6. CASE GivesUp
  BY <1>6 DEF GivesUp, EntryInv
<1>7. CASE WatchSettles
  BY <1>7 DEF WatchSettles, Settle, EntryInv
<1>8. ASSUME NEW o \in Ops, TaskSteps(o) \/ PersonSteps(o) \/ LaneSteps(o) PROVE Kept
  BY <1>8, TaskStepsEntry DEF PhaseKept, EntryInv, TypeInv, TypeOK, EntryOK
<1>9. CASE UNCHANGED vars
  BY <1>9 DEF vars, EntryInv
<1> QED BY <1>1, <1>2, <1>3, <1>4, <1>5, <1>6, <1>7, <1>8, <1>9 DEF Next, EndSteps, WatchSteps

LEMMA AlwaysEntryInv == Spec => []EntryInv
BY InitEntryInv, StepEntryInv, PTL DEF Spec

\* A walk is never left on a share for a result nobody can read: whichever of
\* the dialog, an operation, the sweep or a consumer took the entry away.
THEOREM NobodyLeftWalking == Spec => []NobodyWalksForNobody
BY AlwaysEntryInv, PTL DEF EntryInv

\* One step: a settled entry is claimed, given up or removed, and settled anew
\* by nobody.
LEMMA StepOutcome ==
    ASSUME EntryInv, [Next]_vars, entry.phase = "settled", entry'.phase # "none"
    PROVE  entry'.phase = "settled" /\ entry'.outcome = entry.outcome
<1> DEFINE Kept == entry'.phase = "settled" /\ entry'.outcome = entry.outcome
<1> USE DEF entryVars, NoEntry, Remove
<1>1. walk # "settle" /\ watch # "settle"
  BY DEF EntryInv, PublishInv
<1>2. CASE MapSteps
  BY <1>2 DEF MapSteps, AnotherSettles, GrowsOld, TeardownLooks, TeardownFlags, TeardownReleases
<1>3. CASE Ticks \/ StopsWalking \/ RunsOut \/ Parks \/ ParkSteps \/ EndSteps
  BY <1>1, <1>3 DEF Ticks, StopsWalking, RunsOut, EndsAs, Parks, ParkSteps, AtGate,
                    RestartClock, ClearParked, EndSteps, ClaimsOutcome, WalkSettles
<1>4. CASE FallsSilent \/ WatchSteps
  BY <1>1, <1>4 DEF FallsSilent, WatchSteps, Beats, ReadsClock, GivesUp, WatchSettles
<1>5. ASSUME NEW o \in Ops, TaskSteps(o) \/ PersonSteps(o) \/ LaneSteps(o) PROVE Kept
  <2>1. CASE WaitEnds(o) \/ EndsQueued(o)
    <3>1. entry' = entry \/ entry' = NoEntry \/ entry' = [entry EXCEPT !.claim = NoOp]
      BY <2>1 DEF WaitEnds, EndsQueued, FinishClaim, AbandonClaim
    <3> QED BY <3>1 DEF EntryInv, TypeInv, TypeOK, EntryOK
  <2>2. CASE Confirms(o)
    BY <2>2 DEF Confirms, Claims, EntryInv, TypeInv, TypeOK, EntryOK
  <2>3. ASSUME NEW same \in BOOLEAN, TakesResult(o, same) PROVE Kept
    BY <2>3 DEF TakesResult
  <2>4. CASE \/ Arms(o) \/ Polls(o) \/ Wakes(o) \/ SeesCancel(o) \/ CancelsQueued(o)
             \/ CancelsRunning(o) \/ Pauses(o) \/ Resumes(o) \/ Starts(o)
    BY <2>4 DEF Arms, Polls, Wakes, SeesCancel, CancelsQueued, CancelsRunning, Pauses, Resumes,
                Starts
  <2> QED BY <1>5, <2>1, <2>2, <2>3, <2>4 DEF TaskSteps, PersonSteps, LaneSteps
<1>6. CASE UNCHANGED vars
  BY <1>6 DEF vars
<1> QED BY <1>2, <1>3, <1>4, <1>5, <1>6 DEF Next

\* Two publishers, one outcome: neither a late walk nor a late timeout ever
\* replaces what the preview was settled with.
THEOREM OneOutcome == Spec => OutcomeIsFinal
<1>1. EntryInv /\ [Next]_vars
          => [entry.phase = "settled" /\ entry'.phase # "none" =>
                entry'.phase = "settled" /\ entry'.outcome = entry.outcome]_vars
  BY StepOutcome
<1> QED BY <1>1, AlwaysEntryInv, PTL DEF Spec, OutcomeIsFinal

-----------------------------------------------------------------------------
(* The clock.  A walk that was parked restarts it before it counts again,  *)
(* so a silence that is read is one of a walk that was walking.            *)

ClockInv ==
    /\ walk = "unpark" => ~idle
    /\ idle /\ (watch = "clock" \/ (~parked /\ ~claimed)) => silent

LEMMA StepClockInv == TypeInv /\ ClockInv /\ [Next]_vars => ClockInv'
<1> SUFFICES ASSUME TypeInv, ClockInv, [Next]_vars PROVE ClockInv'
  OBVIOUS
<1> USE DEF ClockInv, entryVars, walkVars, clockVars, dialogVars, opVars
<1>1. parked <=> walk \in {"gate", "asleep", "restart", "unpark"}
  BY DEF TypeInv, TypeOK, Walking
<1>2. CASE MapSteps
  BY <1>2 DEF MapSteps, AnotherSettles, GrowsOld, TeardownLooks, TeardownFlags, TeardownReleases
<1>3. CASE Ticks \/ StopsWalking \/ RunsOut \/ Parks
  BY <1>3 DEF Ticks, StopsWalking, RunsOut, EndsAs, Parks
<1>4. CASE ParkSteps
  BY <1>4 DEF ParkSteps, AtGate, RestartClock, ClearParked
<1>5. CASE EndSteps
  BY <1>5 DEF EndSteps, ClaimsOutcome, WalkSettles
<1>6. CASE FallsSilent
  BY <1>1, <1>6 DEF FallsSilent
<1>7. CASE WatchSteps
  BY <1>7 DEF WatchSteps, Beats, ReadsClock, GivesUp, WatchSettles
<1>8. ASSUME NEW o \in Ops, TaskSteps(o) \/ PersonSteps(o) \/ LaneSteps(o) PROVE ClockInv'
  <2>1. UNCHANGED <<clockVars, claimed, watch>>
    BY <1>8 DEF TaskSteps, PersonSteps, LaneSteps, Arms, Polls, Wakes, SeesCancel, WaitEnds,
                Confirms, CancelsQueued, CancelsRunning, Pauses, Resumes, EndsQueued, Starts,
                TakesResult
  <2>2. walk' = walk \/ walk' = "gate"
    BY <1>8 DEF TaskSteps, PersonSteps, LaneSteps, Arms, Polls, Wakes, SeesCancel, WaitEnds,
                Confirms, CancelsQueued, CancelsRunning, Pauses, Resumes, EndsQueued, Starts,
                TakesResult, WakesWalk
  <2> QED BY <2>1, <2>2
<1>9. CASE UNCHANGED vars
  BY <1>9 DEF vars
<1> QED BY <1>2, <1>3, <1>4, <1>5, <1>6, <1>7, <1>8, <1>9 DEF Next

\* The clock gives up on a volume that stopped answering, never on a person
\* who holds the operation paused, wherever the pause, the resume and the beat
\* interleave.
THEOREM PausesAreSpared == Spec => PauseIsNotSilence
<1>1. Init => ClockInv
  BY DEF Init, ClockInv
<1>2. ClockInv /\ [Next]_vars => [watch = "clock" /\ watch' = "giveUp" => silent]_vars
  <2> SUFFICES ASSUME ClockInv, Next, watch = "clock", watch' = "giveUp" PROVE silent
    OBVIOUS
  <2> USE DEF entryVars, walkVars, clockVars, dialogVars, opVars
  <2>1. ReadsClock
    <3>1. ASSUME MapSteps \/ Ticks \/ StopsWalking \/ RunsOut \/ Parks PROVE UNCHANGED watch
      BY <3>1 DEF MapSteps, AnotherSettles, GrowsOld, TeardownLooks, TeardownFlags,
                  TeardownReleases, Ticks, StopsWalking, RunsOut, EndsAs, Parks
    <3>2. ASSUME ParkSteps \/ EndSteps \/ FallsSilent PROVE UNCHANGED watch
      BY <3>2 DEF ParkSteps, AtGate, RestartClock, ClearParked, EndSteps, ClaimsOutcome,
                  WalkSettles, FallsSilent
    <3>3. ASSUME NEW o \in Ops, TaskSteps(o) \/ PersonSteps(o) \/ LaneSteps(o)
          PROVE  UNCHANGED watch
      BY <3>3 DEF TaskSteps, PersonSteps, LaneSteps, Arms, Polls, Wakes, SeesCancel, WaitEnds,
                  Confirms, CancelsQueued, CancelsRunning, Pauses, Resumes, EndsQueued, Starts,
                  TakesResult
    <3>4. ASSUME Beats \/ GivesUp \/ WatchSettles PROVE FALSE
      BY <3>4 DEF Beats, GivesUp, WatchSettles
    <3> QED BY <3>1, <3>2, <3>3, <3>4 DEF Next, WatchSteps
  <2> QED BY <2>1 DEF ReadsClock, ClockInv
<1>3. Spec => []TypeInv
  BY InitTypeInv, StepTypeInv, PTL DEF Spec
<1> QED BY <1>1, <1>2, <1>3, StepClockInv, PTL DEF Spec, PauseIsNotSilence

-----------------------------------------------------------------------------
(* Why a wait reads as cancelled.  Until somebody tears the preview down   *)
(* or is answered, the operation that holds it is the one its entry names. *)

Answered(o) == answer[o] # "none"

HoldInv ==
    /\ \A o \in Ops : op[o] \in Waiting \cup {"answered"} => o \in holds
    /\ \A o \in Ops : op[o] \in {"new", "take", "ended"} => o \notin holds
    /\ \A o \in Ops : op[o] \in Waiting \cup {"new", "queued", "removed"} => ~Answered(o)
    /\ \A o \in Ops : op[o] = "answered" => Answered(o)

\* "cancelled" is published of a walk that was told to stop only.
MarkInv == ending = "cancelled" \/ entry.outcome = "cancelled" => cancelled

Undisturbed == ~cancelled /\ teardowns = 0

\* The second conjunct is what makes it inductive: two operations hold the
\* preview at once only after a third one took its answer from it, so a queued
\* holder that is removed, which ends whoever's claim it finds, never ends one
\* without such a reason.
OwnerInv ==
    Undisturbed =>
        /\ \A o \in holds : \/ entry.phase # "none" /\ entry.claim = o
                            \/ \E p \in Ops \ {o} : Answered(p)
        /\ \A o, p \in holds : o # p => \E q \in Ops \ {o, p} : Answered(q)

ReasonInv == EntryInv /\ HoldInv /\ MarkInv /\ OwnerInv /\ CancelledForAReason

LEMMA InitReasonInv == Init => ReasonInv
<1> SUFFICES ASSUME Init PROVE HoldInv /\ MarkInv /\ OwnerInv /\ CancelledForAReason
  BY InitEntryInv DEF ReasonInv
<1> QED BY DEF Init, NoEntry, HoldInv, MarkInv, OwnerInv, CancelledForAReason, Answered, Waiting

\* The steps of the dialog, the walk and the clock leave the operations alone,
\* and take the entry from its holder only in a teardown.
LEMMA PreviewStep ==
    ASSUME EntryInv, MarkInv,
           \/ MapSteps \/ Ticks \/ StopsWalking \/ RunsOut \/ Parks \/ ParkSteps
           \/ EndSteps \/ FallsSilent \/ WatchSteps
    PROVE  /\ UNCHANGED <<op, holds, told, answer>> /\ MarkInv'
           /\ cancelled => cancelled'
           /\ teardowns > 0 => teardowns' > 0
           /\ Undisturbed' =>
                \/ entry'.phase = entry.phase /\ entry'.claim = entry.claim
                \/ entry'.phase # "none" /\ entry'.claim = entry.claim
                \/ entry.claim = NoOp
<1> USE DEF entryVars, walkVars, clockVars, dialogVars, opVars, MarkInv, Undisturbed
<1>1. teardowns \in Nat
  BY BoundsAssumption DEF EntryInv, TypeInv, TypeOK
<1>2. CASE MapSteps
  <2>1. CASE AnotherSettles
    BY <2>1 DEF AnotherSettles, Ages, Remove, NoEntry
  <2>2. CASE GrowsOld \/ TeardownFlags
    BY <2>2 DEF GrowsOld, TeardownFlags
  <2>3. CASE TeardownLooks
    BY <1>1, <2>3 DEF TeardownLooks
  <2>4. CASE TeardownReleases
    BY <1>1, <2>4 DEF TeardownReleases, Remove, NoEntry, EntryInv, TeardownInv
  <2> QED BY <1>2, <2>1, <2>2, <2>3, <2>4 DEF MapSteps
<1>3. CASE Ticks \/ StopsWalking \/ RunsOut \/ Parks \/ ParkSteps
  BY <1>3 DEF Ticks, StopsWalking, RunsOut, EndsAs, Parks, ParkSteps, AtGate, RestartClock,
              ClearParked
<1>4. CASE EndSteps
  BY <1>4 DEF EndSteps, ClaimsOutcome, WalkSettles, Settle
<1>5. CASE FallsSilent \/ Beats \/ ReadsClock
  BY <1>5 DEF FallsSilent, Beats, ReadsClock
<1>6. CASE GivesUp
  BY <1>6 DEF GivesUp
<1>7. CASE WatchSettles
  BY <1>7 DEF WatchSettles, Settle
<1> QED BY <1>2, <1>3, <1>4, <1>5, <1>6, <1>7 DEF WatchSteps

LEMMA StepHoldInv ==
    ASSUME ReasonInv, [Next]_vars
    PROVE  HoldInv' /\ MarkInv' /\ \A o \in Ops : Answered(o) => Answered(o)'
<1> DEFINE Kept == HoldInv' /\ MarkInv' /\ \A o \in Ops : Answered(o) => Answered(o)'
<1>1. op \in [Ops -> {"new", "queued", "removed", "answered", "take", "ended"} \cup Waiting]
      /\ answer \in [Ops -> Outcomes \cup {"none", "cached", "rescan"}] /\ holds \subseteq Ops
  BY DEF ReasonInv, EntryInv, TypeInv, TypeOK
<1>2. CASE \/ MapSteps \/ Ticks \/ StopsWalking \/ RunsOut \/ Parks \/ ParkSteps
           \/ EndSteps \/ FallsSilent \/ WatchSteps
  BY <1>2, PreviewStep DEF ReasonInv, HoldInv, Answered
<1>3. ASSUME NEW o \in Ops, TaskSteps(o) \/ PersonSteps(o) \/ LaneSteps(o) PROVE Kept
  <2>1. MarkInv'
    BY <1>3
    DEF TaskSteps, PersonSteps, LaneSteps, Arms, Polls, Wakes, SeesCancel, WaitEnds, Confirms,
        CancelsQueued, CancelsRunning, Pauses, Resumes, EndsQueued, Starts, TakesResult, Claims,
        FinishClaim, AbandonClaim, Remove, NoEntry, entryVars, walkVars, MarkInv, ReasonInv,
        EntryInv, TypeInv, TypeOK, EntryOK
  <2> USE DEF HoldInv, Answered, Waiting
  <2>2. CASE Arms(o) \/ Wakes(o)
    BY <1>1, <2>1, <2>2 DEF Arms, Wakes, ReasonInv
  <2>3. CASE Polls(o) \/ SeesCancel(o)
    BY <1>1, <2>1, <2>3 DEF Polls, SeesCancel, ReasonInv, Outcomes
  <2>4. CASE WaitEnds(o)
    BY <1>1, <2>1, <2>4 DEF WaitEnds, ReasonInv
  <2>5. CASE Confirms(o)
    BY <1>1, <2>1, <2>5 DEF Confirms, Claims, ReasonInv
  <2>6. CASE CancelsQueued(o) \/ Starts(o)
    BY <1>1, <2>1, <2>6 DEF CancelsQueued, Starts, ReasonInv
  <2>7. CASE CancelsRunning(o) \/ Pauses(o) \/ Resumes(o)
    BY <2>1, <2>7 DEF CancelsRunning, Pauses, Resumes, ReasonInv
  <2>8. CASE EndsQueued(o)
    BY <1>1, <2>1, <2>8 DEF EndsQueued, ReasonInv
  <2>9. ASSUME NEW same \in BOOLEAN, TakesResult(o, same) PROVE Kept
    BY <1>1, <2>1, <2>9 DEF TakesResult, ReasonInv
  <2> QED BY <1>3, <2>2, <2>3, <2>4, <2>5, <2>6, <2>7, <2>8, <2>9
          DEF TaskSteps, PersonSteps, LaneSteps
<1>4. CASE UNCHANGED vars
  BY <1>4 DEF vars, entryVars, walkVars, opVars, HoldInv, MarkInv, Answered, ReasonInv
<1> QED BY <1>2, <1>3, <1>4 DEF Next

LEMMA StepOwnerInv ==
    ASSUME ReasonInv, [Next]_vars
    PROVE  OwnerInv'
<1>1. /\ op \in [Ops -> {"new", "queued", "removed", "answered", "take", "ended"} \cup Waiting]
      /\ answer \in [Ops -> Outcomes \cup {"none", "cached", "rescan"}] /\ holds \subseteq Ops
      /\ teardowns \in Nat
  BY BoundsAssumption DEF ReasonInv, EntryInv, TypeInv, TypeOK
<1>2. \A p \in Ops : Answered(p) => Answered(p)'
  BY StepHoldInv
<1>3. CASE \/ MapSteps \/ Ticks \/ StopsWalking \/ RunsOut \/ Parks \/ ParkSteps
           \/ EndSteps \/ FallsSilent \/ WatchSteps
  <2> SUFFICES ASSUME Undisturbed'
               PROVE  /\ \A o \in holds' : \/ entry'.phase # "none" /\ entry'.claim = o
                                           \/ \E p \in Ops \ {o} : Answered(p)'
                      /\ \A o, p \in holds' : o # p => \E q \in Ops \ {o, p} : Answered(q)'
    BY DEF OwnerInv
  <2>1. Undisturbed /\ UNCHANGED <<op, holds, told, answer>>
    BY <1>1, <1>3, PreviewStep DEF ReasonInv, Undisturbed
  <2>2. \/ entry'.phase = entry.phase /\ entry'.claim = entry.claim
        \/ entry'.phase # "none" /\ entry'.claim = entry.claim
        \/ entry.claim = NoOp
    BY <1>3, PreviewStep DEF ReasonInv
  <2> QED BY <1>1, <1>2, <2>1, <2>2, NoOpAssumption DEF ReasonInv, OwnerInv
<1>4. ASSUME NEW o \in Ops, TaskSteps(o) \/ PersonSteps(o) \/ LaneSteps(o) PROVE OwnerInv'
  <2>1. cancelled => cancelled'
    BY <1>4, TaskStepsEntry DEF ReasonInv, PhaseKept
  <2>2. Undisturbed' => Undisturbed
    BY <1>4, <2>1, TaskStepsEntry DEF Undisturbed, ReasonInv
  <2>3. CASE UNCHANGED <<entry, holds>>
    BY <1>1, <1>2, <2>2, <2>3 DEF ReasonInv, OwnerInv
  <2>4. CASE Answered(o)' /\ o \notin holds' /\ holds' \subseteq holds
    BY <1>1, <2>4 DEF OwnerInv
  <2>5. CASE Confirms(o) /\ ~UNCHANGED <<entry, holds>>
    <3>1. /\ entry.phase # "none" /\ entry.claim \in {NoOp, o} /\ holds' = holds \cup {o}
          /\ entry'.phase = entry.phase /\ entry'.claim = o
          /\ op[o] = "new" /\ ~Answered(o) /\ o \notin holds
      BY <2>5 DEF Confirms, Claims, ReasonInv, EntryInv, TypeInv, TypeOK, EntryOK, HoldInv
    <3>2. Undisturbed' => \A p \in holds : p # o /\ \E q \in Ops \ {o, p} : Answered(q)
      BY <1>1, <2>2, <3>1, NoOpAssumption DEF ReasonInv, OwnerInv
    <3> QED BY <1>1, <1>2, <2>2, <3>1, <3>2 DEF OwnerInv, ReasonInv
  <2>6. CASE EndsQueued(o) /\ ~UNCHANGED <<entry, holds>>
    <3>1. holds' = holds \ {o} /\ (o \notin holds => UNCHANGED entry)
      BY <2>6 DEF EndsQueued, entryVars
    <3>2. o \in holds
      BY <2>6, <3>1
    <3>3. Undisturbed' => \A p \in holds' : \E q \in Ops \ {o, p} : Answered(q)
      BY <1>1, <2>2, <3>1, <3>2 DEF ReasonInv, OwnerInv
    <3>4. Undisturbed' => \A p, r \in holds' : p # r => \E q \in Ops \ {p, r} : Answered(q)
      BY <1>1, <2>2, <3>1 DEF ReasonInv, OwnerInv
    <3> QED BY <1>1, <1>2, <3>1, <3>3, <3>4 DEF OwnerInv
  <2>7. CASE WaitEnds(o)
    <3>1. Answered(o) /\ holds' = holds \ {o}
      BY <2>7 DEF WaitEnds, ReasonInv, HoldInv
    <3> QED BY <1>2, <2>4, <3>1
  <2>8. ASSUME NEW same \in BOOLEAN, TakesResult(o, same) PROVE OwnerInv'
    <3>1. o \notin holds /\ holds' = holds /\ answer'[o] # "none"
      BY <1>1, <2>8 DEF TakesResult, ReasonInv, HoldInv
    <3> QED BY <2>4, <3>1 DEF Answered
  <2>9. CASE \/ Arms(o) \/ Polls(o) \/ Wakes(o) \/ SeesCancel(o) \/ CancelsQueued(o)
             \/ CancelsRunning(o) \/ Pauses(o) \/ Resumes(o) \/ Starts(o)
    BY <2>3, <2>9
    DEF Arms, Polls, Wakes, SeesCancel, CancelsQueued, CancelsRunning, Pauses, Resumes, Starts,
        entryVars
  <2> QED BY <1>4, <2>3, <2>5, <2>6, <2>7, <2>8, <2>9 DEF TaskSteps, PersonSteps, LaneSteps
<1>5. CASE UNCHANGED vars
  BY <1>1, <1>2, <1>5 DEF vars, entryVars, dialogVars, opVars, ReasonInv, OwnerInv, Undisturbed
<1> QED BY <1>3, <1>4, <1>5 DEF Next

LEMMA StepReason ==
    ASSUME ReasonInv, [Next]_vars
    PROVE  CancelledForAReason'
<1> SUFFICES ASSUME NEW o \in Ops, answer'[o] = "cancelled"
             PROVE  \/ o \in told' \/ cancelled' \/ teardowns' > 0
                    \/ \E p \in Ops \ {o} : answer'[p] # "none"
  BY DEF CancelledForAReason
<1>1. answer \in [Ops -> Outcomes \cup {"none", "cached", "rescan"}] /\ teardowns \in Nat
  BY BoundsAssumption DEF ReasonInv, EntryInv, TypeInv, TypeOK
<1>2. \A p \in Ops : answer[p] # "none" => answer'[p] # "none"
  BY StepHoldInv DEF Answered
<1>3. /\ told \subseteq told' /\ (cancelled => cancelled') /\ (teardowns > 0 => teardowns' > 0)
  <2>1. ASSUME NEW i \in Ops, TaskSteps(i) \/ PersonSteps(i) \/ LaneSteps(i)
        PROVE  told \subseteq told'
    BY <2>1 DEF TaskSteps, PersonSteps, LaneSteps, Arms, Polls, Wakes, SeesCancel, WaitEnds,
                Confirms, CancelsQueued, CancelsRunning, Pauses, Resumes, EndsQueued, Starts,
                TakesResult
  <2>2. ASSUME NEW i \in Ops, TaskSteps(i) \/ PersonSteps(i) \/ LaneSteps(i)
        PROVE  (cancelled => cancelled') /\ teardowns' = teardowns
    BY <2>2, TaskStepsEntry DEF ReasonInv, PhaseKept
  <2>3. CASE UNCHANGED vars
    BY <2>3 DEF vars, dialogVars, opVars
  <2> QED BY <2>1, <2>2, <2>3, PreviewStep DEF Next, ReasonInv
<1>4. CASE answer[o] = "cancelled"
  BY <1>2, <1>3, <1>4 DEF ReasonInv, CancelledForAReason
<1>5. CASE answer[o] # "cancelled"
  <2>1. Polls(o) \/ SeesCancel(o)
    <3>1. answer' # answer
      BY <1>5
    <3>2. ASSUME NEW i \in Ops, TaskSteps(i) \/ PersonSteps(i) \/ LaneSteps(i)
          PROVE  Polls(o) \/ SeesCancel(o)
      <4>1. ASSUME NEW same \in BOOLEAN, TakesResult(i, same) PROVE FALSE
        BY <1>1, <1>5, <4>1 DEF TakesResult
      <4>2. CASE Polls(i) \/ SeesCancel(i)
        BY <1>1, <1>5, <4>2 DEF Polls, SeesCancel
      <4>3. CASE \/ Arms(i) \/ Wakes(i) \/ WaitEnds(i) \/ Confirms(i) \/ CancelsQueued(i)
                 \/ CancelsRunning(i) \/ Pauses(i) \/ Resumes(i) \/ EndsQueued(i) \/ Starts(i)
        BY <3>1, <4>3 DEF Arms, Wakes, WaitEnds, Confirms, CancelsQueued, CancelsRunning, Pauses,
                          Resumes, EndsQueued, Starts
      <4> QED BY <3>2, <4>1, <4>2, <4>3 DEF TaskSteps, PersonSteps, LaneSteps
    <3>3. CASE UNCHANGED vars
      BY <3>1, <3>3 DEF vars, opVars
    <3> QED BY <3>1, <3>2, <3>3, PreviewStep DEF Next, ReasonInv
  <2>2. CASE SeesCancel(o)
    BY <1>3, <2>2 DEF SeesCancel
  <2>3. CASE Polls(o)
    <3>1. o \in holds /\ Poll = "cancelled" /\ UNCHANGED <<entry, cancelled, teardowns>>
      BY <1>1, <2>3 DEF Polls, entryVars, dialogVars, ReasonInv, HoldInv, Waiting
    <3>2. CASE entry.phase # "none"
      BY <3>1, <3>2 DEF Poll, ReasonInv, MarkInv
    <3>3. CASE entry.phase = "none"
      BY <1>1, <1>2, <3>1, <3>3 DEF ReasonInv, OwnerInv, Undisturbed, Answered
    <3> QED BY <3>2, <3>3
  <2> QED BY <2>1, <2>2, <2>3
<1> QED BY <1>4, <1>5

\* An operation whose wait reads as cancelled was cancelled, or its preview was
\* torn down or told to stop, or another operation was answered from it: no
\* sweep by age takes the result of a claimed preview from a queued operation,
\* however many operations were confirmed from the dialog.
THEOREM CancelsHaveReasons == Spec => []CancelledForAReason
<1>1. ReasonInv /\ [Next]_vars => ReasonInv'
  BY StepEntryInv, StepHoldInv, StepOwnerInv, StepReason DEF ReasonInv
<1>2. ReasonInv => CancelledForAReason
  BY DEF ReasonInv
<1> QED BY <1>1, <1>2, InitReasonInv, PTL DEF Spec
=============================================================================

----------------------------- MODULE ScanPreview ----------------------------
(***************************************************************************)
(* One scan preview: the walk a confirmation dialog starts, the clock over *)
(* it, the entry both publish their outcome in, and the operations that    *)
(* name it when they are confirmed.                                        *)
(*                                                                         *)
(* The walk is a thread (or, on a volume, a task) of its own.  It learns   *)
(* which operation claimed it at a progress tick and from then on parks on *)
(* that operation's pause gate.  The operation's task waits for the entry  *)
(* to settle before it writes anything, then takes the result out of it.   *)
(* The dialog's teardown, a cancel of the operation, the inactivity clock  *)
(* and the age sweep each end the preview from another thread.             *)
(***************************************************************************)
EXTENDS Integers, FiniteSets

CONSTANTS
    Ops,           \* operations confirmed from this preview's dialog
    NoOp,          \* nobody
    MaxTicks,      \* bound: progress ticks of one walk
    MaxTeardowns   \* bound: how often the dialog is torn down

ASSUME NoOpAssumption == NoOp \notin Ops
ASSUME BoundsAssumption == MaxTicks \in Nat /\ MaxTeardowns \in Nat

VARIABLES
    entry,      \* what PREVIEWS holds under this preview's id
    old,        \* the settled entry is older than SCAN_RESULT_TTL
    cancelled,  \* ScanPreviewState.cancelled
    claimed,    \* ScanWatchdog.outcome_claimed
    walk,       \* where the walk is
    owner,      \* the operation whose gate the walk parks on, once known
    ending,     \* what the ended walk is to publish
    ticks,      \* progress ticks so far
    parked,     \* ScanWatchdog.parked
    idle,       \* the last count lies further back than the limit
    watch,      \* where the watchdog is
    remote,     \* a volume's scan, whose backend asks the owner too
    dialog,     \* where the dialog's teardown is
    teardowns,  \* teardowns so far
    op,         \* where each operation is
    holds,      \* operations whose record names the preview it claimed
    told,       \* operations that were cancelled while they ran
    paused,     \* operations whose pause gate is shut
    armed,      \* operations enabled on PREVIEW_SETTLED and not woken yet
    answer,     \* how each operation's wait, or its scan, came out
    silent      \* history: nothing was counted for the limit by a walk that
                \* was not parked, and nothing since

entryVars == <<entry, old>>
walkVars == <<walk, owner, ending, ticks>>
clockVars == <<parked, idle, silent>>
dialogVars == <<dialog, teardowns>>
opVars == <<op, holds, told, paused, armed, answer>>
vars == <<entryVars, cancelled, claimed, walkVars, clockVars, watch, remote,
          dialogVars, opVars>>

Outcomes == {"complete", "error", "cancelled"}
Walking == {"walking", "gate", "asleep", "restart", "unpark"}
Waiting == {"arm", "poll", "asleep"}

NoEntry == [phase |-> "none", outcome |-> "none", result |-> FALSE, claim |-> NoOp]

EntryOK ==
    /\ entry \in [phase : {"none", "inFlight", "settled"},
                  outcome : Outcomes \cup {"none"}, result : BOOLEAN,
                  claim : Ops \cup {NoOp}]
    /\ entry.phase = "none" => entry = NoEntry
    /\ entry.phase = "settled" <=> entry.outcome # "none"
    /\ entry.result => entry.outcome = "complete"
    /\ old \in BOOLEAN /\ (old => entry.phase = "settled")

TypeOK ==
    /\ EntryOK
    /\ cancelled \in BOOLEAN /\ claimed \in BOOLEAN
    /\ walk \in Walking \cup {"ended", "settle", "gone"}
    /\ owner \in Ops \cup {NoOp}
    /\ walk \in Walking \ {"walking"} => owner # NoOp
    /\ ending \in Outcomes \cup {"none"} /\ ticks \in 0..MaxTicks
    /\ parked \in BOOLEAN /\ (parked <=> walk \in Walking \ {"walking"})
    /\ idle \in BOOLEAN /\ silent \in BOOLEAN
    /\ watch \in {"beat", "clock", "giveUp", "settle", "gone"}
    /\ remote \in BOOLEAN
    /\ dialog \in {"up", "flag", "release"} /\ teardowns \in 0..MaxTeardowns
    /\ op \in [Ops -> {"new", "queued", "removed", "answered", "take", "ended"} \cup Waiting]
    /\ holds \subseteq Ops /\ told \subseteq Ops /\ paused \subseteq Ops
    /\ armed \subseteq Ops
    /\ answer \in [Ops -> Outcomes \cup {"none", "cached", "rescan"}]

-----------------------------------------------------------------------------
(* The entry                                                               *)

Running(o) == op[o] \in {"answered", "take"} \cup Waiting

\* Mutant of Settle: what a stopped walk had found is published with it.
Settle_Partial(outcome) ==
    /\ entry' = [phase |-> "settled", outcome |-> outcome, result |-> TRUE,
                 claim |-> entry.claim]
    /\ old' = FALSE
    /\ armed' = {}

\* Mutant of Settle: nobody is woken.
Settle_Silent(outcome) ==
    /\ entry' = [phase |-> "settled", outcome |-> outcome,
                 result |-> (outcome = "complete"), claim |-> entry.claim]
    /\ old' = FALSE
    /\ UNCHANGED armed

\* settle_preview: the claim outlives the phase, an entry nobody knows any more
\* is made anew, and everybody enabled is woken.
Settle(outcome) ==
    /\ entry' = [phase |-> "settled", outcome |-> outcome,
                 result |-> (outcome = "complete"), claim |-> entry.claim]
    /\ old' = FALSE
    /\ armed' = {}

Remove == entry' = NoEntry /\ old' = FALSE

\* claim_preview of a preview that is there and is not another operation's.
Claims(o) ==
    IF entry.phase # "none" /\ entry.claim \in {NoOp, o}
    THEN entry' = [entry EXCEPT !.claim = o] /\ holds' = holds \cup {o}
    ELSE UNCHANGED <<entry, holds>>

\* poll_claim: an entry that vanished reads as cancelled.
Poll == IF entry.phase = "none" THEN "cancelled" ELSE entry.outcome

\* finish_claim
FinishClaim ==
    /\ entry' = IF entry.phase = "none" THEN NoEntry ELSE [entry EXCEPT !.claim = NoOp]
    /\ UNCHANGED <<old, cancelled>>

\* Mutant of AbandonClaim: the entry goes and the walk is not told.
AbandonClaim_Silent ==
    IF entry.claim = NoOp THEN UNCHANGED <<entryVars, cancelled>>
    ELSE Remove /\ UNCHANGED cancelled

\* abandon_claim: for a preview somebody claimed, whoever that is.
AbandonClaim ==
    IF entry.claim = NoOp THEN UNCHANGED <<entryVars, cancelled>>
    ELSE Remove /\ cancelled' = (cancelled \/ entry.phase = "inFlight")

\* Mutant of Ages: the sweep does not spare a claimed entry.
Ages_Claimed == entry.phase = "settled" /\ old

\* prune_expired
Ages == entry.phase = "settled" /\ entry.claim = NoOp /\ old

\* Another preview settles: its write sweeps the map, its wakeup is everybody's.
AnotherSettles ==
    /\ entry.phase = "settled" \/ armed # {}
    /\ IF Ages THEN Remove ELSE UNCHANGED entryVars
    /\ armed' = {}
    /\ UNCHANGED <<cancelled, claimed, walkVars, clockVars, watch, remote, dialogVars,
                   op, holds, told, paused, answer>>

\* The minutes of the TTL pass.
GrowsOld ==
    /\ entry.phase = "settled" /\ ~old
    /\ old' = TRUE
    /\ UNCHANGED <<entry, cancelled, claimed, walkVars, clockVars, watch, remote,
                   dialogVars, opVars>>

-----------------------------------------------------------------------------
(* cancel_scan_preview, on every teardown of the dialog                    *)

\* A preview an operation owns is left to its operation ...
TeardownLooks ==
    /\ dialog = "up" /\ teardowns < MaxTeardowns
    /\ teardowns' = teardowns + 1
    /\ dialog' = IF entry.claim # NoOp THEN "up" ELSE "flag"
    /\ UNCHANGED <<entryVars, cancelled, claimed, walkVars, clockVars, watch, remote, opVars>>

\* ... any other is told to stop under a second lock ...
TeardownFlags ==
    /\ dialog = "flag"
    /\ cancelled' = (cancelled \/ entry.phase = "inFlight")
    /\ dialog' = "release"
    /\ UNCHANGED <<entryVars, claimed, walkVars, clockVars, watch, remote, teardowns, opVars>>

\* ... and dropped under a third (release_preview), claimed or not.
TeardownReleases ==
    /\ dialog = "release"
    /\ Remove
    /\ dialog' = "up"
    /\ UNCHANGED <<cancelled, claimed, walkVars, clockVars, watch, remote, teardowns, opVars>>

-----------------------------------------------------------------------------
(* The walk                                                                *)

\* A progress tick: the clock is fed and the claim looked up (resolve_owner).
Ticks ==
    /\ walk = "walking" /\ ticks < MaxTicks
    /\ ticks' = ticks + 1
    /\ idle' = FALSE /\ silent' = FALSE
    /\ owner' = IF owner = NoOp THEN entry.claim ELSE owner
    /\ UNCHANGED <<entryVars, cancelled, claimed, walk, ending, parked, watch,
                   remote, dialogVars, opVars>>

\* ScanPause::told_to_stop
ToldToStop == cancelled \/ owner \in told

\* The end of the walk reads the cancel flag, and that, not the walk's own
\* error, decides whether it was a cancel.
EndsAs(outcomes) ==
    /\ walk' = "ended"
    /\ ending' \in IF cancelled THEN {"cancelled"} ELSE outcomes
    /\ UNCHANGED <<entryVars, cancelled, claimed, owner, ticks, clockVars, watch, remote,
                   dialogVars, opVars>>

\* The walk stops where it observes a cancel.  A local walk asks the preview's
\* flag only; a volume's backend asks whatever the park asks.
StopsWalking ==
    /\ walk = "walking"
    /\ cancelled \/ (remote /\ ToldToStop)
    /\ EndsAs({"error"})

\* The tree is walked, or an entry of it failed.
RunsOut == walk = "walking" /\ EndsAs({"complete", "error"})

\* park_while_paused: the owner is paused, so the clock is told first.
Parks ==
    /\ walk = "walking" /\ owner \in paused
    /\ walk' = "gate" /\ parked' = TRUE
    /\ UNCHANGED <<entryVars, cancelled, claimed, owner, ending, ticks, idle,
                   silent, watch, remote, dialogVars, opVars>>

\* PauseGate::wait_while_paused_until: tested before every wait.
AtGate ==
    /\ walk = "gate"
    /\ walk' = IF owner \in paused /\ ~ToldToStop THEN "asleep" ELSE "restart"
    /\ UNCHANGED <<entryVars, cancelled, claimed, owner, ending, ticks,
                   clockVars, watch, remote, dialogVars, opVars>>

\* PauseGate::wake, by whoever resumes or cancels operation o.
WakesWalk(o) == walk' = IF walk = "asleep" /\ owner = o THEN "gate" ELSE walk

\* Mutant of RestartClock and ClearParked: note_resumed in the other order is
\* a clock that is read as unparked while it still shows the pause.
RestartClock_Late ==
    /\ walk = "restart"
    /\ walk' = "walking" /\ parked' = FALSE
    /\ UNCHANGED <<entryVars, cancelled, claimed, owner, ending, ticks, idle,
                   silent, watch, remote, dialogVars, opVars>>

\* note_resumed: the clock starts again from now ...
RestartClock ==
    /\ walk = "restart"
    /\ walk' = "unpark"
    /\ idle' = FALSE /\ silent' = FALSE
    /\ UNCHANGED <<entryVars, cancelled, claimed, owner, ending, ticks, parked,
                   watch, remote, dialogVars, opVars>>

\* ... and only then counts.
ClearParked ==
    /\ walk = "unpark"
    /\ walk' = "walking" /\ parked' = FALSE
    /\ UNCHANGED <<entryVars, cancelled, claimed, owner, ending, ticks, idle,
                   silent, watch, remote, dialogVars, opVars>>

\* ScanWatchdog::claim_outcome: one compare-and-swap, once ever.
ClaimsOutcome ==
    /\ walk = "ended"
    /\ claimed' = TRUE
    /\ walk' = IF claimed THEN "gone" ELSE "settle"
    /\ UNCHANGED <<entryVars, cancelled, owner, ending, ticks, clockVars, watch,
                   remote, dialogVars, opVars>>

WalkSettles ==
    /\ walk = "settle"
    /\ Settle(ending)
    /\ walk' = "gone"
    /\ UNCHANGED <<cancelled, claimed, owner, ending, ticks, clockVars, watch, remote,
                   dialogVars, op, holds, told, paused, answer>>

-----------------------------------------------------------------------------
(* The watchdog                                                            *)

\* The limit passes without a count.  The steps of the walk between two waits,
\* and the two reads of one beat, are far shorter than the limit; once the
\* outcome is claimed nobody reads the clock.
FallsSilent ==
    /\ walk \in {"walking", "asleep"} /\ ~idle /\ watch # "clock" /\ ~claimed
    /\ idle' = TRUE /\ silent' = (walk = "walking")
    /\ UNCHANGED <<entryVars, cancelled, claimed, walkVars, parked, watch, remote,
                   dialogVars, opVars>>

\* A beat ends the watch once somebody has the outcome, lets a parked walk be,
\* and otherwise goes on to read the clock.
Beats ==
    /\ watch = "beat" /\ (claimed \/ ~parked)
    /\ watch' = IF claimed THEN "gone" ELSE "clock"
    /\ UNCHANGED <<entryVars, cancelled, claimed, walkVars, clockVars, remote, dialogVars,
                   opVars>>

ReadsClock ==
    /\ watch = "clock"
    /\ watch' = IF idle THEN "giveUp" ELSE "beat"
    /\ UNCHANGED <<entryVars, cancelled, claimed, walkVars, clockVars, remote, dialogVars,
                   opVars>>

\* Mutant of GivesUp: the watchdog does not ask whether the walk came back.
GivesUp_Unasked ==
    /\ watch = "giveUp"
    /\ claimed' = TRUE /\ cancelled' = TRUE
    /\ watch' = "settle"
    /\ UNCHANGED <<entryVars, walkVars, clockVars, remote, dialogVars, opVars>>

\* give_up: the walk may have come back between the beat and here.  The flag is
\* a courtesy: a wedged walk never reads it, one asleep on the gate is not woken.
GivesUp ==
    /\ watch = "giveUp"
    /\ claimed' = TRUE /\ cancelled' = (cancelled \/ ~claimed)
    /\ watch' = IF claimed THEN "gone" ELSE "settle"
    /\ UNCHANGED <<entryVars, walkVars, clockVars, remote, dialogVars, opVars>>

WatchSettles ==
    /\ watch = "settle"
    /\ Settle("error")
    /\ watch' = "gone"
    /\ UNCHANGED <<cancelled, claimed, walkVars, clockVars, remote, dialogVars, op, holds,
                   told, paused, answer>>

-----------------------------------------------------------------------------
(* The operations                                                          *)

\* spawn_managed publishes the live state, claims the preview, then queues.
Confirms(o) ==
    /\ op[o] = "new"
    /\ Claims(o)
    /\ op' = [op EXCEPT ![o] = "queued"]
    /\ UNCHANGED <<old, cancelled, claimed, walkVars, clockVars, watch, remote, dialogVars,
                   told, paused, armed, answer>>

\* cancel_if_queued removes the record under its lock ...
CancelsQueued(o) ==
    /\ op[o] = "queued"
    /\ op' = [op EXCEPT ![o] = "removed"]
    /\ UNCHANGED <<entryVars, cancelled, claimed, walkVars, clockVars, watch, remote,
                   dialogVars, holds, told, paused, armed, answer>>

\* ... and ends the claim and the live state outside it.
EndsQueued(o) ==
    /\ op[o] = "removed"
    /\ IF o \in holds THEN AbandonClaim ELSE UNCHANGED <<entryVars, cancelled>>
    /\ holds' = holds \ {o}
    /\ op' = [op EXCEPT ![o] = "ended"]
    /\ UNCHANGED <<claimed, walkVars, clockVars, watch, remote, dialogVars, told, paused,
                   armed, answer>>

\* Admitted: the task waits for the preview it claimed, if it claimed one.
Starts(o) ==
    /\ op[o] = "queued"
    /\ op' = [op EXCEPT ![o] = IF o \in holds THEN "arm" ELSE "take"]
    /\ UNCHANGED <<entryVars, cancelled, claimed, walkVars, clockVars, watch, remote,
                   dialogVars, holds, told, paused, armed, answer>>

\* cancel_write_operation (LiveState has its single steps): intent, token, wake.
CancelsRunning(o) ==
    /\ Running(o) /\ o \notin told
    /\ told' = told \cup {o}
    /\ WakesWalk(o)
    /\ UNCHANGED <<entryVars, cancelled, claimed, owner, ending, ticks,
                   clockVars, watch, remote, dialogVars, op, holds, paused, armed, answer>>

Pauses(o) ==
    /\ Running(o) /\ o \notin paused
    /\ paused' = paused \cup {o}
    /\ UNCHANGED <<entryVars, cancelled, claimed, walkVars, clockVars, watch, remote,
                   dialogVars, op, holds, told, armed, answer>>

Resumes(o) ==
    /\ Running(o) /\ o \in paused
    /\ paused' = paused \ {o}
    /\ WakesWalk(o)
    /\ UNCHANGED <<entryVars, cancelled, claimed, owner, ending, ticks,
                   clockVars, watch, remote, dialogVars, op, holds, told, armed, answer>>

\* settled_outcome: the wakeup is enabled before the entry is read.
Arms(o) ==
    /\ op[o] = "arm"
    /\ armed' = armed \cup {o}
    /\ op' = [op EXCEPT ![o] = "poll"]
    /\ UNCHANGED <<entryVars, cancelled, claimed, walkVars, clockVars, watch, remote,
                   dialogVars, holds, told, paused, answer>>

Polls(o) ==
    /\ op[o] = "poll"
    /\ op' = [op EXCEPT ![o] = IF Poll = "none" THEN "asleep" ELSE "answered"]
    /\ answer' = [answer EXCEPT ![o] = Poll]
    /\ UNCHANGED <<entryVars, cancelled, claimed, walkVars, clockVars, watch, remote,
                   dialogVars, holds, told, paused, armed>>

Wakes(o) ==
    /\ op[o] = "asleep" /\ o \notin armed
    /\ op' = [op EXCEPT ![o] = "arm"]
    /\ UNCHANGED <<entryVars, cancelled, claimed, walkVars, clockVars, watch, remote,
                   dialogVars, holds, told, paused, armed, answer>>

\* The other arm of the wait: this operation's own cancel.
SeesCancel(o) ==
    /\ op[o] \in Waiting /\ o \in told
    /\ op' = [op EXCEPT ![o] = "answered"]
    /\ answer' = [answer EXCEPT ![o] = "cancelled"]
    /\ UNCHANGED <<entryVars, cancelled, claimed, walkVars, clockVars, watch, remote,
                   dialogVars, holds, told, paused, armed>>

\* await_claimed_preview after its wait, with end_scan_wait; a stopped
\* operation settles.
WaitEnds(o) ==
    /\ op[o] = "answered"
    /\ IF answer[o] = "complete" THEN FinishClaim ELSE AbandonClaim
    /\ holds' = holds \ {o} /\ armed' = armed \ {o}
    /\ op' = [op EXCEPT ![o] = IF answer[o] = "complete" THEN "take" ELSE "ended"]
    /\ UNCHANGED <<claimed, walkVars, clockVars, watch, remote, dialogVars, told, paused,
                   answer>>

\* take_cached_scan_result: whoever names the preview, claim or no claim.  The
\* entry goes unless it still walks, and serves a scan of the same sources.
TakesResult(o, same) ==
    /\ op[o] = "take"
    /\ IF entry.phase = "settled" THEN Remove ELSE UNCHANGED entryVars
    /\ answer' = [answer EXCEPT ![o] = IF entry.result /\ same THEN "cached" ELSE "rescan"]
    /\ op' = [op EXCEPT ![o] = "ended"]
    /\ UNCHANGED <<cancelled, claimed, walkVars, clockVars, watch, remote, dialogVars,
                   holds, told, paused, armed>>

-----------------------------------------------------------------------------
\* start_scan_preview: registered and on the clock before the walk is spawned.
Init ==
    /\ entry = [NoEntry EXCEPT !.phase = "inFlight"] /\ old = FALSE
    /\ cancelled = FALSE /\ claimed = FALSE
    /\ walk = "walking" /\ owner = NoOp /\ ending = "none"
    /\ ticks = 0 /\ parked = FALSE /\ idle = FALSE /\ silent = FALSE /\ watch = "beat"
    /\ remote \in BOOLEAN
    /\ dialog = "up" /\ teardowns = 0
    /\ op = [o \in Ops |-> "new"] /\ holds = {} /\ told = {} /\ paused = {}
    /\ armed = {} /\ answer = [o \in Ops |-> "none"]

MapSteps == AnotherSettles \/ GrowsOld \/ TeardownLooks \/ TeardownFlags \/ TeardownReleases
ParkSteps == AtGate \/ RestartClock \/ ClearParked
EndSteps == ClaimsOutcome \/ WalkSettles
WatchSteps == Beats \/ ReadsClock \/ GivesUp \/ WatchSettles
TaskSteps(o) == Arms(o) \/ Polls(o) \/ Wakes(o) \/ SeesCancel(o) \/ WaitEnds(o)
PersonSteps(o) ==
    \/ Confirms(o) \/ CancelsQueued(o) \/ CancelsRunning(o) \/ Pauses(o) \/ Resumes(o)
LaneSteps(o) ==
    \/ EndsQueued(o) \/ Starts(o)
    \/ \E same \in BOOLEAN : TakesResult(o, same)

Next ==
    \/ MapSteps
    \/ Ticks \/ StopsWalking \/ RunsOut \/ Parks \/ ParkSteps \/ EndSteps
    \/ FallsSilent \/ WatchSteps
    \/ \E o \in Ops : TaskSteps(o) \/ PersonSteps(o) \/ LaneSteps(o)

Spec == Init /\ [][Next]_vars

\* A walk in a syscall on a dead mount never comes back, so nothing is assumed
\* of one that walks.  Time passes, the watchdog's and the operations' tasks
\* are polled, and a thread that left the tree or its gate goes on.
Fairness ==
    /\ SF_vars(FallsSilent)
    /\ WF_vars(WatchSteps) /\ WF_vars(ParkSteps) /\ WF_vars(EndSteps)
    /\ \A o \in Ops : WF_vars(TaskSteps(o))

FairSpec == Spec /\ Fairness

-----------------------------------------------------------------------------
(* Properties                                                              *)

\* A walk whose entry is gone was told to stop: nobody is left to read what it
\* finds, so it must not go on walking a share for hours (abandon_claim,
\* release_preview, and the in-flight entry take_cached_scan_result puts back).
NobodyWalksForNobody == entry.phase = "none" /\ ~claimed => cancelled

\* An operation whose wait reads as cancelled was cancelled, or its preview was,
\* or the dialog's teardown or another operation that named the preview had the
\* entry: the age sweep never takes a result from under the operation that
\* claimed it and waits for its lane (prune_expired spares claimed entries).
CancelledForAReason ==
    \A o \in Ops : answer[o] = "cancelled" =>
        \/ o \in told \/ cancelled \/ teardowns > 0
        \/ \E p \in Ops \ {o} : answer[p] # "none"

\* Two publishers, one outcome: what the preview was settled with is never
\* replaced, so a timeout the dialog showed is not contradicted by a late walk.
OutcomeIsFinal ==
    [][entry.phase = "settled" /\ entry'.phase # "none" =>
         entry'.phase = "settled" /\ entry'.outcome = entry.outcome]_vars

\* The clock gives up on a volume that stopped answering, never on a person
\* who is thinking: at the beat that gives up, a walk that was not parked has
\* counted nothing for the limit.
PauseIsNotSilence == [][watch = "clock" /\ watch' = "giveUp" => silent]_vars

\* An operation that waits for its scan stops waiting, whatever the volume
\* does, unless a person holds it paused.
WaitsEnd == \A o \in Ops : op[o] \in Waiting ~> op[o] \notin Waiting \/ o \in paused
=============================================================================

---------------------------- MODULE DriveRelease ----------------------------
(***************************************************************************)
(* One door for letting go of a removable drive and one for starting its   *)
(* index.  Every start, disable, release and resume of a volume meets at   *)
(* its gate: one mutex and one condvar guard an epoch, at most one ticket, *)
(* a pending resume, an unmount-pending flag and the late stops.           *)
(*                                                                         *)
(* An action is what one thread does under the gate's lock, or one call it *)
(* makes outside of it.  A thread on the condvar is in `asleep'; a change  *)
(* that notifies empties it, in the step of the change, since the notifier *)
(* does nothing in between that another thread can see.  The one exception *)
(* is an eject's landing, which changes a set the gate's lock does not     *)
(* guard and notifies afterwards.  A deadline may pass at any time.        *)
(*                                                                         *)
(* Each call below is made once.  A batch of several resume candidates is  *)
(* as many batches of one: at the gate they share nothing.                 *)
(***************************************************************************)
EXTENDS Integers, FiniteSets

CONSTANTS
    Volumes,     \* removable volumes
    Starts,      \* calls of start / start_blocking
    Disables,    \* calls of disable
    Releases,    \* calls of release
    Batches,     \* calls of resume
    None,        \* no ticket, no batch, no volume
    SpawnFails   \* whether the OS may refuse a thread

ASSUME SpawnFailsAssumption == SpawnFails \in BOOLEAN
ASSUME VolumesAssumption == IsFiniteSet(Volumes)
\* A call is of one kind: those parked on the condvar are told apart.
ASSUME CallsAssumption ==
    Starts \cap Disables = {} /\ Starts \cap Releases = {} /\ Disables \cap Releases = {}

VARIABLES
    lastEpoch,   \* the one counter every epoch comes from
    gate,        \* Gates.volumes
    asleep,      \* calls parked on the condvar
    start, disable, release, batch,   \* where each call is
    stop,        \* stop[r][v]: release r's stop thread for v and its slot
    lateStop,    \* the continuation that holds v's ticket
    ejecting,    \* Cmdr's own eject of v is in flight
    wakeOwed,    \* an eject landed and has not notified the gate yet
    index,       \* external: v has an index that works on the drive
    intent,      \* external: the persisted choice to index v
    late,        \* late[r][v]: what r's late recorder is owed or was told
    under,       \* history: why v has been leaving since r began
    lastWord     \* history: v was disabled and nobody asked to start it since

callVars == <<start, disable, release, batch>>
hostVars == <<ejecting, wakeOwed, index, intent>>
historyVars == <<under, lastWord>>
vars == <<lastEpoch, gate, asleep, callVars, stop, lateStop, hostVars, late, historyVars>>

LetGo == {"NothingToStop", "Released", "ReleasedIndexing"}
Outcomes == LetGo \cup {"StillReleasing"}
Tickets == {"Start", "Disable", "LateStop"}
Causes == {"pending", "ejecting"}
Slots == {"Running", "Answered", "Abandoned"}

ASSUME NoneAssumption ==
    None \notin Volumes \cup Batches \cup Tickets \cup Outcomes \cup Slots
                 \cup {"WaitingForTicket", "Stopping"}

(* Where a call is before it is made; once over, nothing else of it matters. *)
NoStart == [at |-> "idle", vol |-> None, person |-> FALSE, waited |-> FALSE]
NoDisable == [at |-> "idle", vol |-> None, held |-> FALSE]
NoBatch == [at |-> "idle", vol |-> None, epoch |-> 0, own |-> FALSE, intent |-> FALSE]
Over(call) == [call EXCEPT !.at = "over"]

NoStop == [slot |-> None, at |-> "over", was |-> FALSE, out |-> "StillReleasing"]
NewStop == [NoStop EXCEPT !.slot = "Running", !.at = "reading"]
NoLateStop == [for |-> {}, at |-> "over", was |-> FALSE, out |-> "StillReleasing"]
HandedTo(rs) == IF rs = {} THEN NoLateStop ELSE [NoLateStop EXCEPT !.for = rs, !.at = "handed"]

Init ==
    /\ lastEpoch = 0 /\ asleep = {} /\ wakeOwed = FALSE
    /\ gate = [v \in Volumes |->
                 [epoch |-> 0, ticket |-> None, batch |-> None, pending |-> FALSE, late |-> {}]]
    /\ start = [s \in Starts |-> NoStart]
    /\ disable = [d \in Disables |-> NoDisable]
    /\ release = [r \in Releases |->
                    [at |-> "idle", ids |-> {}, epoch |-> [v \in Volumes |-> 0],
                     answer |-> [v \in Volumes |-> None]]]
    /\ batch = [b \in Batches |-> NoBatch]
    /\ stop = [r \in Releases |-> [v \in Volumes |-> NoStop]]
    /\ lateStop = [v \in Volumes |-> NoLateStop]
    /\ ejecting = [v \in Volumes |-> FALSE]
    /\ index \in [Volumes -> BOOLEAN] /\ intent = index
    /\ late = [r \in Releases |-> [v \in Volumes |-> None]]
    /\ under = [r \in Releases |-> [v \in Volumes |-> {}]]
    /\ lastWord = [v \in Volumes |-> FALSE]

Held(v) == gate[v].ticket # None
Leaving(v) == gate[v].pending \/ ejecting[v]

(* Move the epoch of every volume in ids, which cancels their pending      *)
(* resumes.  The numbering within ids is the order they were asked in.     *)
Numbering(ids) ==
    CHOOSE f \in [ids -> 1..Cardinality(ids)] : \A v, w \in ids : f[v] = f[w] => v = w
\* Mutant: the counter is read again after it moved.
Bumped_Ahead(ids) ==
    [v \in Volumes |-> IF v \in ids
        THEN [gate[v] EXCEPT !.epoch = lastEpoch + 1 + Numbering(ids)[v], !.batch = None]
        ELSE gate[v]]

Bumped(ids) ==
    [v \in Volumes |-> IF v \in ids
        THEN [gate[v] EXCEPT !.epoch = lastEpoch + Numbering(ids)[v], !.batch = None]
        ELSE gate[v]]

\* Mutants of DropTicket: the late stop runs without the ticket; the late
\* stops are taken and not run.
DropTicket_LateStopUnticketed(v) ==
    /\ gate' = [gate EXCEPT ![v].ticket = None, ![v].late = {}]
    /\ lateStop' = [lateStop EXCEPT ![v] = HandedTo(gate[v].late)]
    /\ asleep' = {}

DropTicket_RunsNothing(v) ==
    /\ gate' = [gate EXCEPT ![v].ticket = None, ![v].late = {}]
    /\ lateStop' = [lateStop EXCEPT ![v] = NoLateStop]
    /\ asleep' = {}

(* Ticket::drop.  The slot goes back, or straight on to the continuation   *)
(* of every release that gave up waiting for it.                           *)
DropTicket(v) ==
    /\ gate' = [gate EXCEPT ![v].ticket = IF gate[v].late = {} THEN None ELSE "LateStop",
                            ![v].late = {}]
    /\ lateStop' = [lateStop EXCEPT ![v] = HandedTo(gate[v].late)]
    /\ asleep' = {}

---------------------------------------------------------------------------
(* take_start_ticket, one turn of its loop, and the start call.            *)

(* A turn that finds what it waits for, or a drive it will not wait for.   *)
StartTurn(s, v, person, waited) ==
    \/ /\ Leaving(v) /\ ~person
       /\ start' = [start EXCEPT ![s] = Over(NoStart)]
       /\ UNCHANGED <<gate, asleep, lastWord>>
    \/ /\ ~Leaving(v) /\ ~Held(v)
       /\ gate' = [gate EXCEPT ![v].ticket = "Start"]
       /\ start' = [start EXCEPT ![s] = [at |-> IF waited THEN "checking" ELSE "calling",
                                         vol |-> v, person |-> person, waited |-> waited]]
       /\ lastWord' = [lastWord EXCEPT ![v] = FALSE]
       /\ UNCHANGED asleep
    \/ /\ IF Leaving(v) THEN person ELSE Held(v)
       /\ start' = [start EXCEPT ![s] = [at |-> "waiting", vol |-> v, person |-> person,
                                         waited |-> waited \/ Leaving(v)]]
       /\ asleep' = asleep \cup {s}
       /\ UNCHANGED <<gate, lastWord>>

StartAsked(s) ==
    /\ start[s].at = "idle"
    /\ \E v \in Volumes, person \in BOOLEAN : StartTurn(s, v, person, FALSE)
    /\ UNCHANGED <<lastEpoch, disable, release, batch, stop, lateStop, hostVars, late, under>>

StartWoken(s) ==
    /\ start[s].at = "waiting" /\ s \notin asleep
    /\ StartTurn(s, start[s].vol, start[s].person, start[s].waited)
    /\ UNCHANGED <<lastEpoch, disable, release, batch, stop, lateStop, hostVars, late, under>>

(* UNMOUNT_PENDING_WAIT ran out with the drive leaving or the ticket held. *)
StartGivesUp(s) ==
    /\ start[s].at = "waiting" /\ (Leaving(start[s].vol) \/ Held(start[s].vol))
    /\ start' = [start EXCEPT ![s] = Over(NoStart)]
    /\ asleep' = asleep \ {s}
    /\ UNCHANGED <<lastEpoch, gate, disable, release, batch, stop, lateStop, hostVars, late,
                   historyVars>>

(* Having waited out an unmount, the start asks, with the ticket, whether  *)
(* the drive is still in the mount table; the table may say anything.      *)
StartListed(s) ==
    /\ start[s].at = "checking"
    /\ \/ /\ start' = [start EXCEPT ![s].at = "calling"]
          /\ UNCHANGED <<gate, lateStop, asleep>>
       \/ /\ start' = [start EXCEPT ![s] = Over(NoStart)]
          /\ DropTicket(start[s].vol)
    /\ UNCHANGED <<lastEpoch, disable, release, batch, stop, hostVars, late, historyVars>>

(* The index's start_volume returns: started, refused, or failed.  What it *)
(* does until then (the checks, the database's marker, the first scan) does*)
(* not show here: a stop meanwhile finds nothing to stop.                  *)
IndexStarts(v) == index' \in {index, [index EXCEPT ![v] = TRUE]}

StartReturns(s) ==
    /\ start[s].at = "calling"
    /\ IndexStarts(start[s].vol)
    /\ intent' \in {intent} \cup
         (IF start[s].person THEN {[intent EXCEPT ![start[s].vol] = TRUE]} ELSE {})
    /\ start' = [start EXCEPT ![s].at = "returned"]
    /\ UNCHANGED <<lastEpoch, gate, asleep, disable, release, batch, stop, lateStop, ejecting,
                   wakeOwed, late, historyVars>>

StartDrops(s) ==
    /\ start[s].at = "returned"
    /\ start' = [start EXCEPT ![s] = Over(NoStart)]
    /\ DropTicket(start[s].vol)
    /\ UNCHANGED <<lastEpoch, disable, release, batch, stop, hostVars, late, historyVars>>

---------------------------------------------------------------------------
(* disable_blocking.                                                       *)

(* One turn of its wait, at the gates g: take the ticket or park.          *)
DisableTurn(d, v, g) ==
    IF g[v].ticket = None
    THEN /\ gate' = [g EXCEPT ![v].ticket = "Disable"]
         /\ disable' = [disable EXCEPT ![d] = [at |-> "ready", vol |-> v, held |-> TRUE]]
         /\ UNCHANGED asleep
    ELSE /\ gate' = g
         /\ disable' = [disable EXCEPT ![d] = [at |-> "waiting", vol |-> v, held |-> FALSE]]
         /\ asleep' = asleep \cup {d}

DisableAsked(d) ==
    /\ disable[d].at = "idle"
    /\ \E v \in Volumes : DisableTurn(d, v, Bumped({v}))
    /\ lastEpoch' = lastEpoch + 1
    /\ UNCHANGED <<start, release, batch, stop, lateStop, hostVars, late, historyVars>>

DisableWoken(d) ==
    /\ disable[d].at = "waiting" /\ d \notin asleep
    /\ DisableTurn(d, disable[d].vol, gate)
    /\ UNCHANGED <<lastEpoch, start, release, batch, stop, lateStop, hostVars, late, historyVars>>

(* The wait ran out: the call goes on without the ticket.                  *)
DisableGivesUp(d) ==
    /\ disable[d].at = "waiting" /\ Held(disable[d].vol)
    /\ disable' = [disable EXCEPT ![d].at = "ready"]
    /\ asleep' = asleep \ {d}
    /\ UNCHANGED <<lastEpoch, gate, start, release, batch, stop, lateStop, hostVars, late,
                   historyVars>>

(* Index::disable_volume: the choice is persisted and the index goes down. *)
(* External: a start it did not wait for finds its request and stands      *)
(* nothing up.                                                             *)
DisableCalls(d) ==
    LET v == disable[d].vol
    IN  /\ disable[d].at = "ready"
        /\ disable' = [disable EXCEPT ![d].at = "called"]
        /\ index' = [index EXCEPT ![v] = FALSE]
        /\ intent' = [intent EXCEPT ![v] = FALSE]
        /\ start' = [s \in Starts |-> IF start[s].at = "calling" /\ start[s].vol = v
                       THEN [start[s] EXCEPT !.at = "returned"] ELSE start[s]]
        /\ batch' = [b \in Batches |-> IF batch[b].at = "calling" /\ batch[b].vol = v
                       THEN [batch[b] EXCEPT !.at = "returned"] ELSE batch[b]]
        /\ lastWord' = [lastWord EXCEPT ![v] = @ \/ disable[d].held]
        /\ UNCHANGED <<lastEpoch, gate, asleep, release, stop, lateStop, ejecting, wakeOwed,
                       late, under>>

\* Mutant: the epoch moves before the call only.
DisableMovesEpoch_Once(d) ==
    /\ disable[d].at = "called"
    /\ disable' = [disable EXCEPT ![d].at = "returned"]
    /\ UNCHANGED <<lastEpoch, gate, asleep, start, release, batch, stop, lateStop, hostVars,
                   late, historyVars>>

(* The epoch moves again before the ticket drops.                          *)
DisableMovesEpoch(d) ==
    /\ disable[d].at = "called"
    /\ gate' = Bumped({disable[d].vol}) /\ lastEpoch' = lastEpoch + 1
    /\ disable' = [disable EXCEPT ![d].at = "returned"]
    /\ UNCHANGED <<asleep, start, release, batch, stop, lateStop, hostVars, late, historyVars>>

DisableDrops(d) ==
    /\ disable[d].at = "returned"
    /\ disable' = [disable EXCEPT ![d] = Over(NoDisable)]
    /\ IF disable[d].held
       THEN DropTicket(disable[d].vol)
       ELSE UNCHANGED <<gate, lateStop, asleep>>
    /\ UNCHANGED <<lastEpoch, start, release, batch, stop, hostVars, late, historyVars>>

---------------------------------------------------------------------------
(* release: one turn of its loop over the volumes it was asked about.      *)

\* Mutant: a stop does not wait for a start in flight.
Free_TicketOrNot(rel, g) == {v \in rel.ids : rel.answer[v] = "WaitingForTicket"}

(* The volumes of a release whose stop may start, and whose stop answered. *)
Free(rel, g) == {v \in rel.ids : rel.answer[v] = "WaitingForTicket" /\ g[v].ticket = None}
Heard(r, rel) == {v \in rel.ids : rel.answer[v] = "Stopping" /\ stop[r][v].slot = "Answered"}

(* Stop what is free, collect what answered, then return, give up at the   *)
(* deadline or park.  `rel' is the call's record as the turn finds it.     *)
ReleaseTurn(r, rel, g, timedOut) ==
    LET free == Free(rel, g)
        heard == Heard(r, rel)
    IN \E failed \in (IF SpawnFails THEN SUBSET free ELSE {{}}) :
         LET turned == [v \in Volumes |->
                          IF v \in failed THEN "StillReleasing"
                          ELSE IF v \in free THEN "Stopping"
                          ELSE IF v \in heard THEN stop[r][v].out
                          ELSE rel.answer[v]]
             open == {v \in rel.ids : turned[v] \notin Outcomes}
             queued == {v \in open : turned[v] = "WaitingForTicket"}
             slots == [v \in Volumes |->
                         IF v \in free \ failed THEN NewStop
                         ELSE IF v \in heard THEN NoStop ELSE stop[r][v]]
         IN IF open # {} /\ timedOut
            THEN /\ release' = [release EXCEPT ![r] =
                        [rel EXCEPT !.at = "over",
                                    !.answer = [v \in Volumes |-> IF v \in open THEN "StillReleasing"
                                                                  ELSE turned[v]]]]
                 /\ gate' = [v \in Volumes |->
                               IF v \in queued THEN [g[v] EXCEPT !.late = @ \cup {r}] ELSE g[v]]
                 /\ stop' = [stop EXCEPT ![r] = [v \in Volumes |->
                               IF v \in open \ queued
                               THEN [slots[v] EXCEPT !.slot = "Abandoned"] ELSE slots[v]]]
                 /\ late' = [late EXCEPT ![r] = [v \in Volumes |->
                               IF v \in open THEN "owed" ELSE late[r][v]]]
                 /\ asleep' = asleep \ {r}
            ELSE /\ release' = [release EXCEPT ![r] =
                        [rel EXCEPT !.at = IF open = {} THEN "over" ELSE "waiting",
                                    !.answer = turned]]
                 /\ gate' = g
                 /\ stop' = [stop EXCEPT ![r] = slots]
                 /\ asleep' = IF open = {} THEN asleep \ {r} ELSE asleep \cup {r}
                 /\ UNCHANGED late

(* Every epoch moves before anything waits.                                *)
ReleaseAsked(r) ==
    /\ release[r].at = "idle"
    /\ \E ids \in SUBSET Volumes \ {{}}, timedOut \in BOOLEAN :
         LET g == Bumped(ids)
         IN  /\ ReleaseTurn(r, [release[r] EXCEPT
                    !.ids = ids,
                    !.epoch = [v \in Volumes |-> IF v \in ids THEN g[v].epoch ELSE 0],
                    !.answer = [v \in Volumes |-> IF v \in ids THEN "WaitingForTicket" ELSE None]],
                  g, timedOut)
             /\ lastEpoch' = lastEpoch + Cardinality(ids)
             /\ under' = [under EXCEPT ![r] = [v \in Volumes |->
                    {c \in Causes : v \in ids /\ IF c = "pending" THEN gate[v].pending
                                                                  ELSE ejecting[v]}]]
    /\ UNCHANGED <<start, disable, batch, lateStop, hostVars, lastWord>>

ReleaseWoken(r) ==
    /\ release[r].at = "waiting" /\ r \notin asleep
    /\ ReleaseTurn(r, release[r], gate, FALSE)
    /\ UNCHANGED <<lastEpoch, start, disable, batch, lateStop, hostVars, historyVars>>

ReleaseTimesOut(r) ==
    /\ release[r].at = "waiting"
    /\ ReleaseTurn(r, release[r], gate, TRUE)
    /\ UNCHANGED <<lastEpoch, start, disable, batch, lateStop, hostVars, historyVars>>

---------------------------------------------------------------------------
(* A stop, on a thread of its own (spawn_stop) or holding the ticket       *)
(* (run_late_stops): what was there, then the index's own stop.            *)

(* The index's stop_removable_volume, its signal, its wait and its answer  *)
(* in one step: what it does meanwhile is not visible at the gate.  One    *)
(* that ran out of time, or panicked, may or may not have let go.          *)
IndexStops(v, was, out) ==
    \/ ~index[v] /\ out = "NothingToStop" /\ UNCHANGED index
    \/ /\ index[v] /\ out = IF was THEN "ReleasedIndexing" ELSE "Released"
       /\ index' = [index EXCEPT ![v] = FALSE]
    \/ out = "StillReleasing" /\ index' \in {index, [index EXCEPT ![v] = FALSE]}

StopReads(r, v) ==
    /\ stop[r][v].at = "reading"
    /\ stop' = [stop EXCEPT ![r][v].at = "stopping", ![r][v].was = index[v]]
    /\ UNCHANGED <<lastEpoch, gate, asleep, callVars, lateStop, hostVars, late, historyVars>>

StopRuns(r, v) ==
    /\ stop[r][v].at = "stopping"
    /\ \E out \in Outcomes :
         /\ IndexStops(v, stop[r][v].was, out)
         /\ stop' = [stop EXCEPT ![r][v].at = "answering", ![r][v].was = FALSE,
                              ![r][v].out = out]
    /\ UNCHANGED <<lastEpoch, gate, asleep, callVars, lateStop, ejecting, wakeOwed, intent,
                   late, historyVars>>

(* Into its slot, or to the recorder of a release that stopped waiting.    *)
StopAnswers(r, v) ==
    /\ stop[r][v].at = "answering"
    /\ IF stop[r][v].slot = "Abandoned"
       THEN /\ stop' = [stop EXCEPT ![r][v] = NoStop]
            /\ late' = [late EXCEPT ![r][v] = stop[r][v].out]
       ELSE /\ stop' = [stop EXCEPT ![r][v].slot = "Answered", ![r][v].at = "over"]
            /\ UNCHANGED late
    /\ asleep' = {}
    /\ UNCHANGED <<lastEpoch, gate, callVars, lateStop, hostVars, historyVars>>

LateStopReads(v) ==
    /\ lateStop[v].at = "handed"
    /\ lateStop' = [lateStop EXCEPT ![v].at = "stopping", ![v].was = index[v]]
    /\ UNCHANGED <<lastEpoch, gate, asleep, callVars, stop, hostVars, late, historyVars>>

LateStopRuns(v) ==
    /\ lateStop[v].at = "stopping"
    /\ \E out \in Outcomes :
         /\ IndexStops(v, lateStop[v].was, out)
         /\ lateStop' = [lateStop EXCEPT ![v].at = "answering", ![v].was = FALSE,
                                  ![v].out = out]
    /\ UNCHANGED <<lastEpoch, gate, asleep, callVars, stop, ejecting, wakeOwed, intent, late,
                   historyVars>>

(* One stop serves every release that gave up.                             *)
LateStopAnswers(v) ==
    /\ lateStop[v].at = "answering"
    /\ lateStop' = [lateStop EXCEPT ![v].at = "recorded"]
    /\ late' = [r \in Releases |->
                  IF r \in lateStop[v].for THEN [late[r] EXCEPT ![v] = lateStop[v].out] ELSE late[r]]
    /\ UNCHANGED <<lastEpoch, gate, asleep, callVars, stop, hostVars, historyVars>>

LateStopDrops(v) ==
    /\ lateStop[v].at = "recorded"
    /\ DropTicket(v)
    /\ UNCHANGED <<lastEpoch, callVars, stop, hostVars, late, historyVars>>

(* The thread never started: its closure drops the ticket, nobody stops    *)
(* the index and no recorder hears of it.                                  *)
LateStopNotSpawned(v) ==
    /\ SpawnFails /\ lateStop[v].at = "handed"
    /\ DropTicket(v)
    /\ late' = [r \in Releases |->
                  IF r \in lateStop[v].for THEN [late[r] EXCEPT ![v] = "lost"] ELSE late[r]]
    /\ UNCHANGED <<lastEpoch, callVars, stop, hostVars, historyVars>>

---------------------------------------------------------------------------
(* resume.                                                                 *)

(* The releases that took an index from v, by their own or a late answer.  *)
Owing(v) == {r \in Releases : "ReleasedIndexing" \in {release[r].answer[v], late[r][v]}}

(* An owner hands v back at the epoch of the release that stopped it, or   *)
(* at a newer one: the approver carries a record forward to its next ask,  *)
(* an eject flight reads the gate's epoch once its teardown is over, which *)
(* is why its own hand-back ends the reason for keeping v stopped.         *)
ResumeAsked(b) ==
    /\ batch[b].at = "idle"
    /\ \E v \in Volumes, own \in BOOLEAN :
         /\ own => ejecting[v]
         /\ under' = IF own THEN [r \in Releases |-> [under[r] EXCEPT ![v] = @ \ {"ejecting"}]]
                     ELSE under
         /\ \E r \in Owing(v) : \E e \in release[r].epoch[v]..gate[v].epoch :
              IF gate[v].batch # None \/ gate[v].ticket = "Start"
              THEN /\ batch' = [batch EXCEPT ![b] = Over(NoBatch)]
                   /\ UNCHANGED gate
              ELSE /\ batch' = [batch EXCEPT ![b] = [at |-> "settling", vol |-> v, epoch |-> e,
                                                    own |-> own, intent |-> FALSE]]
                   /\ gate' = [gate EXCEPT ![v].batch = b]
    /\ UNCHANGED <<lastEpoch, asleep, start, disable, release, stop, lateStop, hostVars, late,
                   lastWord>>

ResumeNotSpawned(b) ==
    LET v == batch[b].vol
    IN  /\ SpawnFails /\ batch[b].at = "settling"
        /\ gate' = [gate EXCEPT ![v].batch = IF @ = b THEN None ELSE @]
        /\ batch' = [batch EXCEPT ![b] = Over(NoBatch)]
        /\ UNCHANGED <<lastEpoch, asleep, start, disable, release, stop, lateStop, hostVars, late,
                       historyVars>>

(* RESUME_SETTLE is over and the batch reads intent, once: the volumes     *)
(* that should be indexing and are not (Index::drives_to_resume).          *)
ResumeSettles(b) ==
    /\ batch[b].at = "settling"
    /\ batch' = [batch EXCEPT ![b].at = "settled",
                              ![b].intent = intent[batch[b].vol] /\ ~index[batch[b].vol]]
    /\ UNCHANGED <<lastEpoch, gate, asleep, start, disable, release, stop, lateStop, hostVars,
                   late, historyVars>>

(* check_resume: the gate's own checks and the ticket, under one lock.     *)
Vouched(b) ==
    LET g == gate[batch[b].vol]
    IN  g.batch = b /\ g.ticket = None /\ ~g.pending /\ g.epoch = batch[b].epoch

ResumeChecks(b) ==
    LET v == batch[b].vol
        left == [gate EXCEPT ![v].batch = IF @ = b THEN None ELSE @]
    IN  /\ batch[b].at = "settled"
        /\ IF Vouched(b)
           THEN /\ gate' = [left EXCEPT ![v].ticket = "Start"]
                /\ batch' = [batch EXCEPT ![b].at = "checking"]
           ELSE /\ gate' = left
                /\ batch' = [batch EXCEPT ![b] = Over(NoBatch)]
        /\ UNCHANGED <<lastEpoch, asleep, start, disable, release, stop, lateStop, hostVars, late,
                       historyVars>>

(* With the ticket: whether the owner still stands behind the candidate    *)
(* and sees it mounted, which it may deny at any time, and the intent read *)
(* before.  A refusal drops the ticket.                                    *)
ResumeOwned(b) ==
    /\ batch[b].at = "checking"
    /\ \/ /\ batch[b].intent
          /\ batch' = [batch EXCEPT ![b].at = "owned"]
          /\ UNCHANGED <<gate, lateStop, asleep>>
       \/ /\ batch' = [batch EXCEPT ![b] = Over(NoBatch)]
          /\ DropTicket(batch[b].vol)
    /\ UNCHANGED <<lastEpoch, start, disable, release, stop, hostVars, late, historyVars>>

(* Last, whether an eject the owner does not run is taking v down.         *)
ResumeGoes(b) ==
    LET v == batch[b].vol
    IN  /\ batch[b].at = "owned"
        /\ IF ejecting[v] /\ ~batch[b].own
           THEN /\ batch' = [batch EXCEPT ![b] = Over(NoBatch)]
                /\ DropTicket(v)
           ELSE /\ batch' = [batch EXCEPT ![b].at = "calling"]
                /\ UNCHANGED <<gate, lateStop, asleep>>
        /\ UNCHANGED <<lastEpoch, start, disable, release, stop, hostVars, late, historyVars>>

ResumeReturns(b) ==
    /\ batch[b].at = "calling"
    /\ IndexStarts(batch[b].vol)
    /\ batch' = [batch EXCEPT ![b].at = "returned"]
    /\ UNCHANGED <<lastEpoch, gate, asleep, start, disable, release, stop, lateStop, ejecting,
                   wakeOwed, intent, late, historyVars>>

ResumeDrops(b) ==
    /\ batch[b].at = "returned"
    /\ batch' = [batch EXCEPT ![b] = Over(NoBatch)]
    /\ DropTicket(batch[b].vol)
    /\ UNCHANGED <<lastEpoch, start, disable, release, stop, hostVars, late, historyVars>>

---------------------------------------------------------------------------
(* The unmount-pending flag and Cmdr's own eject.                          *)

SetUnmountPending ==
    /\ \E ids \in SUBSET Volumes \ {{}} :
         gate' = [v \in Volumes |-> [gate[v] EXCEPT !.pending = @ \/ v \in ids]]
    /\ UNCHANGED <<lastEpoch, asleep, callVars, stop, lateStop, hostVars, late, historyVars>>

\* Mutant: the starts waiting the unmount out are not woken.
ClearUnmountPending_Silent ==
    /\ \E ids \in SUBSET Volumes \ {{}} :
         /\ gate' = [v \in Volumes |-> [gate[v] EXCEPT !.pending = @ /\ v \notin ids]]
         /\ under' = [r \in Releases |-> [v \in Volumes |->
                         IF v \in ids THEN under[r][v] \ {"pending"} ELSE under[r][v]]]
    /\ UNCHANGED <<lastEpoch, asleep, callVars, stop, lateStop, hostVars, late, lastWord>>

ClearUnmountPending ==
    /\ \E ids \in SUBSET Volumes \ {{}} :
         /\ gate' = [v \in Volumes |-> [gate[v] EXCEPT !.pending = @ /\ v \notin ids]]
         /\ under' = [r \in Releases |-> [v \in Volumes |->
                         IF v \in ids THEN under[r][v] \ {"pending"} ELSE under[r][v]]]
    /\ asleep' = {}
    /\ UNCHANGED <<lastEpoch, callVars, stop, lateStop, hostVars, late, lastWord>>

EjectBegins(v) ==
    /\ ~ejecting[v]
    /\ ejecting' = [ejecting EXCEPT ![v] = TRUE]
    /\ UNCHANGED <<lastEpoch, gate, asleep, callVars, stop, lateStop, wakeOwed, index, intent,
                   late, historyVars>>

(* The flight leaves the ejecting set; outside of that set's lock it wakes *)
(* the gate next.  What it still owes back is no longer its own eject.     *)
EjectLands(v) ==
    /\ ejecting[v]
    /\ ejecting' = [ejecting EXCEPT ![v] = FALSE] /\ wakeOwed' = TRUE
    /\ batch' = [b \in Batches |-> IF batch[b].vol = v THEN [batch[b] EXCEPT !.own = FALSE]
                                   ELSE batch[b]]
    /\ under' = [r \in Releases |-> [under[r] EXCEPT ![v] = @ \ {"ejecting"}]]
    /\ UNCHANGED <<lastEpoch, gate, asleep, start, disable, release, stop, lateStop, index,
                   intent, late, lastWord>>

NotifyEjectingChanged ==
    /\ wakeOwed
    /\ wakeOwed' = FALSE /\ asleep' = {}
    /\ UNCHANGED <<lastEpoch, gate, callVars, stop, lateStop, ejecting, index, intent, late,
                   historyVars>>

---------------------------------------------------------------------------
StartGoesOn(s) == StartListed(s) \/ StartReturns(s) \/ StartDrops(s)
StartSteps(s) == StartAsked(s) \/ StartWoken(s) \/ StartGivesUp(s) \/ StartGoesOn(s)
DisableGoesOn(d) == DisableCalls(d) \/ DisableMovesEpoch(d) \/ DisableDrops(d)
DisableSteps(d) == DisableAsked(d) \/ DisableWoken(d) \/ DisableGivesUp(d) \/ DisableGoesOn(d)
ReleaseSteps(r) == ReleaseAsked(r) \/ ReleaseWoken(r) \/ ReleaseTimesOut(r)
StopSteps(r, v) == StopReads(r, v) \/ StopRuns(r, v) \/ StopAnswers(r, v)
LateStopSteps(v) ==
    LateStopReads(v) \/ LateStopRuns(v) \/ LateStopAnswers(v) \/ LateStopDrops(v)
    \/ LateStopNotSpawned(v)
ResumeGoesOn(b) == ResumeOwned(b) \/ ResumeGoes(b) \/ ResumeReturns(b) \/ ResumeDrops(b)
ResumeSteps(b) ==
    ResumeAsked(b) \/ ResumeNotSpawned(b) \/ ResumeSettles(b) \/ ResumeChecks(b) \/ ResumeGoesOn(b)

Next ==
    \/ \E s \in Starts : StartSteps(s)
    \/ \E d \in Disables : DisableSteps(d)
    \/ \E r \in Releases : ReleaseSteps(r)
    \/ \E r \in Releases, v \in Volumes : StopSteps(r, v)
    \/ \E v \in Volumes : LateStopSteps(v)
    \/ \E b \in Batches : ResumeSteps(b)
    \/ SetUnmountPending \/ ClearUnmountPending
    \/ \E v \in Volumes : EjectBegins(v) \/ EjectLands(v)
    \/ NotifyEjectingChanged

Spec == Init /\ [][Next]_vars

(* Whoever holds a ticket gets on with it, and a stop thread with its stop. *)
(* That the index's calls return is assumed of the index.  Nothing is      *)
(* assumed of a call that has yet to be made, of a wait or of an eject.    *)
Fairness ==
    /\ \A s \in Starts : WF_vars(StartGoesOn(s))
    /\ \A d \in Disables : WF_vars(DisableGoesOn(d))
    /\ \A b \in Batches : WF_vars(ResumeGoesOn(b))
    /\ \A r \in Releases, v \in Volumes : WF_vars(StopSteps(r, v))
    /\ \A v \in Volumes : WF_vars(LateStopSteps(v))

FairSpec == Spec /\ Fairness

---------------------------------------------------------------------------
(* Every part of the gate, of a call and of a stop thread has its type.    *)
TypeOK ==
    /\ lastEpoch \in Nat
    /\ gate \in [Volumes -> [epoch : 0..lastEpoch, ticket : Tickets \cup {None},
                             batch : Batches \cup {None}, pending : BOOLEAN,
                             late : SUBSET Releases]]
    /\ asleep \subseteq Starts \cup Disables \cup Releases
    /\ start \in [Starts -> [at : {"idle", "waiting", "checking", "calling", "returned", "over"},
                             vol : Volumes \cup {None}, person : BOOLEAN, waited : BOOLEAN]]
    /\ disable \in [Disables -> [at : {"idle", "waiting", "ready", "called", "returned", "over"},
                                 vol : Volumes \cup {None}, held : BOOLEAN]]
    /\ release \in [Releases -> [at : {"idle", "waiting", "over"}, ids : SUBSET Volumes,
                                 epoch : [Volumes -> 0..lastEpoch],
                                 answer : [Volumes -> Outcomes \cup
                                             {"WaitingForTicket", "Stopping", None}]]]
    /\ batch \in [Batches -> [at : {"idle", "settling", "settled", "checking", "owned", "calling",
                                    "returned", "over"},
                              vol : Volumes \cup {None}, epoch : 0..lastEpoch, own : BOOLEAN,
                              intent : BOOLEAN]]
    /\ stop \in [Releases -> [Volumes ->
                   [slot : Slots \cup {None},
                    at : {"reading", "stopping", "answering", "over"},
                    was : BOOLEAN, out : Outcomes]]]
    /\ lateStop \in [Volumes ->
                       [for : SUBSET Releases,
                        at : {"handed", "stopping", "answering", "recorded", "over"},
                        was : BOOLEAN, out : Outcomes]]
    /\ ejecting \in [Volumes -> BOOLEAN] /\ wakeOwed \in BOOLEAN
    /\ index \in [Volumes -> BOOLEAN] /\ intent \in [Volumes -> BOOLEAN]
    /\ late \in [Releases -> [Volumes -> Outcomes \cup {None, "owed", "lost"}]]
    /\ under \in [Releases -> [Volumes -> SUBSET Causes]]
    /\ lastWord \in [Volumes -> BOOLEAN]

Calling(v) ==
    \/ \E s \in Starts : start[s].vol = v /\ start[s].at = "calling"
    \/ \E b \in Batches : batch[b].vol = v /\ batch[b].at = "calling"

(* Who holds a ticket object of v, by what the gate should say it is for.  *)
StartHolders(v) ==
    {s \in Starts : start[s].vol = v /\ start[s].at \in {"checking", "calling", "returned"}}
    \cup {b \in Batches : batch[b].vol = v
                           /\ batch[b].at \in {"checking", "owned", "calling", "returned"}}
DisableHolders(v) ==
    {d \in Disables : disable[d].vol = v /\ disable[d].held
                      /\ disable[d].at \in {"ready", "called", "returned"}}

(* At most one thread holds a volume's ticket, and the gate knows it: the  *)
(* slot reads free exactly when nobody holds it, through every hand-over   *)
(* from a start to a late stop and from one late stop to the next; and a   *)
(* release that gave up waiting is queued only where the ticket is out, so *)
(* that someone's drop will run its stop.                                  *)
OneHolder ==
    \A v \in Volumes :
        /\ \A h, k \in StartHolders(v) \cup DisableHolders(v) : h = k
        /\ gate[v].ticket = "Start" <=> StartHolders(v) # {}
        /\ gate[v].ticket = "Disable" <=> DisableHolders(v) # {}
        /\ gate[v].ticket = "LateStop" <=> lateStop[v].at # "over"
        /\ gate[v].late # {} => Held(v)

(* Nobody sleeps on the condvar through what it waits for, unless a landed *)
(* eject is about to wake it.                                              *)
NoLostWakeup ==
    /\ \A s \in asleep \cap Starts :
          wakeOwed \/ Leaving(start[s].vol) \/ Held(start[s].vol)
    /\ \A d \in asleep \cap Disables : Held(disable[d].vol)
    /\ \A r \in asleep \cap Releases :
          Free(release[r], gate) = {} /\ Heard(r, release[r]) = {}

(* A release that answered, in time or late, that it let go of a drive     *)
(* that had been leaving since before it was asked, is believed: until the *)
(* drive stops leaving, no index is up on it and no start call runs.       *)
LetGoMeansLetGo ==
    \A r \in Releases, v \in Volumes :
        /\ release[r].at = "over" /\ v \in release[r].ids /\ under[r][v] # {}
        /\ LetGo \cap {release[r].answer[v], late[r][v]} # {}
        => ~index[v] /\ ~Calling(v)

(* A disable that held the ticket has the last word over every resume,     *)
(* also one a release recorded while the disable ran: nothing is up, or    *)
(* being started, until somebody asks for a start.                         *)
DisableHasLastWord == \A v \in Volumes : lastWord[v] => ~index[v] /\ ~Calling(v)

(* A release that stopped waiting is still answered, by its stop thread or *)
(* by a late stop, unless the OS refused the late stop its thread.         *)
LateAnswer ==
    \A r \in Releases, v \in Volumes : late[r][v] = "owed" ~> late[r][v] # "owed"

=============================================================================

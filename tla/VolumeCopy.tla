----------------------------- MODULE VolumeCopy -----------------------------
(***************************************************************************)
(* The concurrent volume copy: one driver that prepares sources in order,  *)
(* a window of copy tasks it polls, one conflict prompt at a time, and the *)
(* post-loop that keeps or reverses what landed.                           *)
(*                                                                         *)
(* The window is a FuturesUnordered: a task advances only while the driver *)
(* awaits the window.  A driver that is preparing a source (waiting for    *)
(* the dispatch lock, or for a person) polls nobody.                       *)
(*                                                                         *)
(* A source is a new file, a file that clashes at the top level, or a      *)
(* folder that merges into an existing one and meets one clash inside it.  *)
(* A file is one chunk.  The ledger and the disk are sets of sources.      *)
(***************************************************************************)
EXTENDS LiveState

CONSTANTS
    N,       \* how many sources the person selected
    Shape,   \* Shape[s]: "file", "clash" or "folder"
    Width    \* how many tasks the window holds

Driver == 0
Sources == 1..N
Agents == {Driver} \cup Sources

ASSUME SourcesAssumption == N \in Nat /\ Shape \in [Sources -> {"file", "clash", "folder"}]
ASSUME WidthAssumption == Width \in Nat \ {0}
ASSUME WaitersAssumption == Waiters = Sources

VARIABLES
    drv,       \* where the driver is
    next,      \* the next source to prepare
    draining,  \* the wind-down deadline is armed
    task,      \* phase of each source's task
    ask,       \* where an agent is inside resolve_volume_conflict
    asked,     \* the conflict id an agent raised last
    copy,      \* the agent's stack copy of the latch
    latch,     \* the operation's shared apply-to-all cell
    lockQ,     \* conflict_dispatch_lock: a fair mutex; the head owns it
    landed,    \* sources whose file is at the destination
    ledger     \* copied_paths: what a rollback would remove

driverVars == <<drv, next, draining>>
askVars == <<ask, asked, copy, latch, lockQ>>
diskVars == <<landed, ledger>>
vars == <<stateVars, driverVars, task, askVars, diskVars>>

Latches == Replies \cup {"none"}
DrvPhases == {"fill", "resolve", "await", "post", "keep", "undo", "done"}
TaskPhases == {"selected", "walk", "write", "chunk", "landed", "ready", "failed", "over"}
AskPhases == {"no", "probe", "queued", "cleared", "parked"}

Init ==
    /\ StateInit
    /\ drv = "fill" /\ next = 1 /\ draining = FALSE
    /\ task = [s \in Sources |-> "selected"]
    /\ ask = [a \in Agents |-> "no"] /\ asked = [a \in Agents |-> 0]
    /\ copy = [a \in Agents |-> "none"] /\ latch = "none" /\ lockQ = <<>>
    /\ landed = {} /\ ledger = {}

InFlight == {s \in Sources : task[s] \notin {"selected", "over"}}

Polled(a) == IF a = Driver THEN drv = "resolve" ELSE drv = "await"

\* What a task wrote and told its own ledger about: the driver takes it over
\* even from a task it drops.
HandOver == {s \in InFlight : Shape[s] = "folder" /\ task[s] = "ready"} \cap landed

\* The loop is left: every future still in the window is dropped.
LeaveLoop ==
    /\ drv' = "post"
    /\ ledger' = ledger \cup HandOver
    /\ ask' = [a \in Agents |-> "no"]
    /\ lockQ' = <<>>
    /\ Unpark

-----------------------------------------------------------------------------
(* Resolving a conflict: resolve_volume_conflict and its two callers       *)

NeedsAnswer(a) == IF a = Driver THEN drv = "resolve" ELSE task[a] = "walk"

\* The latch is copied to the stack before the resolver's first await.
ReadLatch(a) ==
    /\ Polled(a) /\ NeedsAnswer(a) /\ ask[a] = "no"
    /\ copy' = [copy EXCEPT ![a] = latch]
    /\ ask' = [ask EXCEPT ![a] = "probe"]
    /\ UNCHANGED <<stateVars, driverVars, task, asked, latch, lockQ, diskVars>>

OwnsLock(a) == lockQ # <<>> /\ Head(lockQ) = a

\* The guard, if the agent holds it, is dropped on the way out.
Leave(a) ==
    /\ ask' = [ask EXCEPT ![a] = "no"]
    /\ lockQ' = IF OwnsLock(a) THEN Tail(lockQ) ELSE lockQ

\* An answer was found: the stack copy goes back to the shared cell, and the
\* file is written or skipped.
Resolve(a, reply, back) ==
    /\ latch' = back /\ copy' = [copy EXCEPT ![a] = back]
    /\ Leave(a)
    /\ IF a = Driver
       THEN /\ task' = [task EXCEPT ![next - 1] = IF reply = "skip" THEN "over" ELSE "write"]
            /\ drv' = "fill"
       ELSE /\ task' = [task EXCEPT ![a] = IF reply = "skip" THEN "ready" ELSE "write"]
            /\ UNCHANGED drv
    /\ UNCHANGED <<stateVars, next, draining, asked, diskVars>>

\* Cancelled: the copy goes back all the same.  A task fails; a refusal on
\* the driver ends its loop.
Refuse(a) ==
    /\ latch' = copy[a]
    /\ IF a = Driver
       THEN LeaveLoop /\ UNCHANGED task
       ELSE /\ Leave(a) /\ task' = [task EXCEPT ![a] = "failed"]
            /\ UNCHANGED <<stateVars, drv, ledger>>
    /\ UNCHANGED <<next, draining, asked, copy, landed>>

Latched(a) ==
    /\ Polled(a) /\ ask[a] = "probe" /\ copy[a] # "none"
    /\ Resolve(a, copy[a], copy[a])

\* Mutant of Queue: prompts without the dispatch lock.
Queue_NoLock(a) ==
    /\ Polled(a) /\ ask[a] = "probe" /\ copy[a] = "none" /\ ~IsCancelled
    /\ ask' = [ask EXCEPT ![a] = "cleared"]
    /\ UNCHANGED <<stateVars, driverVars, task, asked, copy, latch, lockQ, diskVars>>

Queue(a) ==
    /\ Polled(a) /\ ask[a] = "probe" /\ copy[a] = "none"
    /\ ask' = [ask EXCEPT ![a] = "queued"]
    /\ lockQ' = Append(lockQ, a)
    /\ UNCHANGED <<stateVars, driverVars, task, asked, copy, latch, diskVars>>

\* With the lock in hand: bail out if the operation was cancelled.  The latch
\* re-check that follows reads the same stack copy, which is still empty.
Cleared(a) ==
    /\ Polled(a) /\ ask[a] = "queued" /\ OwnsLock(a) /\ ~IsCancelled
    /\ ask' = [ask EXCEPT ![a] = "cleared"]
    /\ UNCHANGED <<stateVars, driverVars, task, asked, copy, latch, lockQ, diskVars>>

Bail(a) ==
    /\ Polled(a) /\ ask[a] = "queued" /\ OwnsLock(a) /\ IsCancelled
    /\ Refuse(a)

\* The metadata for the prompt was awaited in between: no second look at the
\* intent.
Prompt(a) ==
    /\ Polled(a) /\ ask[a] = "cleared"
    /\ Arm /\ asked' = [asked EXCEPT ![a] = raised + 1]
    /\ ask' = [ask EXCEPT ![a] = "parked"]
    /\ UNCHANGED <<driverVars, task, copy, latch, lockQ, diskVars>>

Hear(a) ==
    /\ Polled(a) /\ ask[a] = "parked" /\ asked[a] = raised /\ mail # NoMail
    /\ Resolve(a, mail.reply, IF mail.all THEN mail.reply ELSE copy[a])

\* The sender was dropped.
Lose(a) ==
    /\ Polled(a) /\ ask[a] = "parked"
    /\ \/ asked[a] # raised
       \/ slot # "awaiting" /\ mail = NoMail
    /\ Refuse(a)

AskStep(a) ==
    \/ ReadLatch(a) \/ Latched(a) \/ Queue(a) \/ Cleared(a)
    \/ Bail(a) \/ Prompt(a) \/ Hear(a) \/ Lose(a)

-----------------------------------------------------------------------------
(* One copy task, from its first chunk to its landing                      *)

\* Between chunks: stop, park while paused, or go on.
ChunkBoundary(t) ==
    /\ Polled(t) /\ task[t] = "write" /\ t \notin waiters
    /\ \/ /\ IsCancelled
          /\ task' = [task EXCEPT ![t] = "failed"]
          /\ UNCHANGED stateVars
       \/ /\ Park(t)
          /\ UNCHANGED task
       \/ /\ ~paused /\ ~IsCancelled
          /\ task' = [task EXCEPT ![t] = "chunk"]
          /\ UNCHANGED stateVars
    /\ UNCHANGED <<driverVars, askVars, diskVars>>

\* The backend finishes the file under its final name, whether or not anybody
\* polls the task that asked for it.
Land(t) ==
    /\ task[t] = "chunk" /\ drv \in {"fill", "resolve", "await"}
    /\ task' = [task EXCEPT ![t] = "landed"]
    /\ landed' = landed \cup {t}
    /\ UNCHANGED <<stateVars, driverVars, askVars, ledger>>

Fail(t) ==
    /\ task[t] = "chunk" /\ drv = "await"
    /\ task' = [task EXCEPT ![t] = "failed"]
    /\ UNCHANGED <<stateVars, driverVars, askVars, diskVars>>

\* The task hears of it and writes it down; a file's task returns with it.
Record(t) ==
    /\ Polled(t) /\ task[t] = "landed" /\ Shape[t] = "folder"
    /\ task' = [task EXCEPT ![t] = "ready"]
    /\ UNCHANGED <<stateVars, driverVars, askVars, diskVars>>

-----------------------------------------------------------------------------
(* The driver                                                              *)

Prepare ==
    /\ drv = "fill" /\ next <= N /\ Cardinality(InFlight) < Width /\ ~IsCancelled
    /\ next' = next + 1
    /\ IF Shape[next] = "clash"
       THEN drv' = "resolve" /\ UNCHANGED task
       ELSE /\ task' = [task EXCEPT ![next] = IF Shape[next] = "folder" THEN "walk" ELSE "write"]
            /\ UNCHANGED drv
    /\ UNCHANGED <<stateVars, draining, askVars, diskVars>>

\* Nothing (more) to prepare for now.
Filled ==
    /\ drv = "fill"
    /\ next > N \/ Cardinality(InFlight) >= Width \/ IsCancelled
    /\ IF InFlight = {}
       THEN LeaveLoop
       ELSE drv' = "await" /\ UNCHANGED <<stateVars, ledger, ask, lockQ>>
    /\ UNCHANGED <<next, draining, task, asked, copy, latch, landed>>

\* Mutant of SeeCancel: the intent is looked at between tasks only, the wait
\* that did nothing in the 2026-07-31 incident.
SeeCancel_BetweenTasks ==
    /\ drv = "await" /\ backendCancel /\ ~draining
    /\ \A t \in Sources : task[t] # "chunk"
    /\ draining' = TRUE
    /\ UNCHANGED <<stateVars, drv, next, task, askVars, diskVars>>

\* Cancel wins the race against a task that is ready, and arms the deadline.
SeeCancel ==
    /\ drv = "await" /\ backendCancel /\ ~draining
    /\ draining' = TRUE
    /\ UNCHANGED <<stateVars, drv, next, task, askVars, diskVars>>

Awaits == drv = "await" /\ (draining \/ ~backendCancel)

\* Mutant of Settled: a source whose clash was skipped counts as written.
Settled_Skipped(t) ==
    /\ Awaits
    /\ task[t] = "ready" \/ (task[t] = "landed" /\ Shape[t] # "folder")
    /\ task' = [task EXCEPT ![t] = "over"]
    /\ ledger' = ledger \cup {t}
    /\ drv' = "fill"
    /\ UNCHANGED <<stateVars, next, draining, askVars, landed>>

\* record_success: the source leaves the window and enters the ledger.
Settled(t) ==
    /\ Awaits
    /\ task[t] = "ready" \/ (task[t] = "landed" /\ Shape[t] # "folder")
    /\ task' = [task EXCEPT ![t] = "over"]
    /\ ledger' = ledger \cup ({t} \cap landed)
    /\ drv' = "fill"
    /\ UNCHANGED <<stateVars, next, draining, askVars, landed>>

\* The first failure drops the window.
SettledFailed(t) ==
    /\ Awaits /\ task[t] = "failed"
    /\ LeaveLoop
    /\ UNCHANGED <<next, draining, task, asked, copy, latch, landed>>

\* The wind-down window ran out: whatever is left is abandoned.
Deadline ==
    /\ drv = "await" /\ draining
    /\ LeaveLoop
    /\ UNCHANGED <<next, draining, task, asked, copy, latch, landed>>

\* The intent is loaded once, and the branch is taken on that value after the
\* staged leftovers were swept: a rollback asked in between is a plain stop.
PostLoop ==
    /\ drv = "post"
    /\ drv' = IF intent = "rollingBack" THEN "undo" ELSE "keep"
    /\ UNCHANGED <<stateVars, next, draining, task, askVars, diskVars>>

Keep ==
    /\ drv = "keep"
    /\ drv' = "done" /\ Forget
    /\ UNCHANGED <<next, draining, task, askVars, diskVars>>

\* The intent is read before an entry is taken off the ledger.
UndoOne ==
    /\ drv = "undo" /\ intent # "stopped"
    /\ \E s \in ledger : ledger' = ledger \ {s} /\ landed' = landed \ {s}
    /\ UNCHANGED <<stateVars, driverVars, task, askVars>>

UndoEnds ==
    /\ drv = "undo" /\ (intent = "stopped" \/ ledger = {})
    /\ drv' = "done" /\ Forget
    /\ UNCHANGED <<next, draining, task, askVars, diskVars>>

DriverStep ==
    \/ Prepare \/ Filled \/ SeeCancel \/ Deadline
    \/ PostLoop \/ Keep \/ UndoOne \/ UndoEnds

TaskStep(t) ==
    \/ ChunkBoundary(t) \/ Record(t) \/ Settled(t) \/ SettledFailed(t)

Listening == \E a \in Agents : ask[a] = "parked" /\ asked[a] = raised

Outside ==
    /\ \/ \E c \in Callers : Call(c) \/ CallStep(c)
       \/ \E reply \in Replies, all \in BOOLEAN : Click(reply, all)
       \/ \E k \in clicks : Answer(k, Listening)
    /\ UNCHANGED <<driverVars, task, askVars, diskVars>>

Next ==
    \/ DriverStep
    \/ \E a \in Agents : AskStep(a)
    \/ \E t \in Sources : TaskStep(t) \/ Land(t) \/ Fail(t)
    \/ Outside

Spec == Init /\ [][Next]_vars

\* A driver that waits, or has nothing left to prepare, is polled; its timer
\* fires; and a thread inside a call finishes it.  Nothing makes the
\* destination answer (preparing a source, a chunk, the sweep after the loop
\* and a deletion all wait for it), a person click, or anybody call.
Fairness ==
    /\ WF_vars(Filled \/ SeeCancel \/ Deadline)
    /\ \A c \in Callers : WF_vars(CallStep(c) /\ UNCHANGED <<driverVars, task, askVars, diskVars>>)

\* The best case: the destination answers whatever the driver and the futures
\* it polls ask of it.
DestinationAnswers ==
    /\ WF_vars(DriverStep)
    /\ \A a \in Agents : WF_vars(AskStep(a))
    /\ \A t \in Sources : WF_vars(TaskStep(t))

FairSpec == Spec /\ Fairness
BestCaseSpec == FairSpec /\ DestinationAnswers

-----------------------------------------------------------------------------

\* Type invariant.
TypeOK ==
    /\ StateTypeOK
    /\ drv \in DrvPhases /\ next \in 1..(N + 1) /\ draining \in BOOLEAN
    /\ task \in [Sources -> TaskPhases]
    /\ ask \in [Agents -> AskPhases]
    /\ asked \in [Agents -> 0..MaxPrompts]
    /\ copy \in [Agents -> Latches] /\ latch \in Latches
    /\ lockQ \in Seq(Agents)
    /\ landed \subseteq Sources /\ ledger \subseteq landed

\* One human, one slot: the conflict a parked agent waits on is the last one
\* raised, so nobody's prompt is replaced by another agent's, across the
\* driver's own prompts and the deep merges'.
OneQuestion ==
    \A a \in Agents : ask[a] = "parked" => asked[a] = raised

\* The answer an operation is about to act on was given to the conflict it is
\* parked on, however late a window or an agent delivered it.
AnswerFitsPrompt == mail # NoMail => mail.id = raised

\* A task parked on the pause gate after the gate opened or the operation was
\* cancelled has a notify on its way: neither a resume nor a cancel, racing
\* each other on two threads, strands it.
NoLostWakeup ==
    waiters # {} /\ (~paused \/ IsCancelled) =>
        \E c \in Callers : calls[c] \in {"signal", "abandon", "wake"}

\* Once a cancel has reached a driver that waits on its tasks, the driver
\* stops waiting for them, whatever the backend does with the streams in
\* flight (the 2026-07-31 incident: a rollback that did nothing for twenty
\* minutes).  What follows, the sweep and the reversal, asks the destination
\* again and has no deadline: nothing is claimed of how long that takes.
WindsDown == (backendCancel /\ drv = "await") ~> (drv \notin {"fill", "resolve", "await"})

-----------------------------------------------------------------------------
(* What the repository says and the code does not keep                     *)

\* "Stopped is terminal; no further transitions": a stop, once stored, is
\* never turned into a rollback that deletes what the person chose to keep.
StoppedIsTerminal == [][intent = "stopped" => intent' = "stopped"]_intent

\* "Resolved (this answer is the one the operation carried on with)": an agent
\* whose answer was accepted carries on, at least when nothing else hangs.
AnswersAreHeard ==
    \A a \in Agents :
        (ask[a] = "parked" /\ slot = "answered") ~> (ask[a] # "parked")

\* "a prior ...all answer collapses this queued prompt": an agent that waits
\* in the dispatch queue while another one hears an "all" answer never prompts.
AllCollapsesQueued ==
    [][\A a \in Agents :
          (raised' > raised /\ asked'[a] = raised') =>
              ~(mail # NoMail /\ mail.all)]_vars

\* "at every instant the ledger claims exactly what this operation still has
\* on disk", at the moment the reversal takes the ledger over.
LedgerIsDisk == drv = "undo" => ledger = landed
=============================================================================

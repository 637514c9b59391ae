---------------------------- MODULE OperationLog ----------------------------
(***************************************************************************)
(* The operation log of one copy and its rollback: the capture layer that  *)
(* buffers its rows, the one writer thread behind a channel, the database, *)
(* the calls that dispatch a rollback, the reversal itself, a crash with   *)
(* the reconcile of the next launch.                                       *)
(*                                                                         *)
(* Rows are known by their seq: a copy's files, then the folders it        *)
(* created.  A row is `lost' when the database refused to insert it.       *)
(***************************************************************************)
EXTENDS Integers, Sequences, FiniteSets

CONSTANTS
    Files,         \* rows of files, in the order they land
    Dirs,          \* rows of created folders, recorded after all files
    Inside,        \* Inside[d]: what the copy put directly into folder d
    Inverses,      \* dispatches, each with the id of its inverse; ids are minted in order
    RecordBatch,   \* rows the capture layer buffers before it sends them
    RollbackPage,  \* rows the reversal reads at a time
    MaxTrouble     \* bound: what people, volumes, the disk and crashes do in a behaviour

Rows == Files \cup Dirs

ASSUME SeqAssumption ==
    /\ Files \subseteq Nat /\ Dirs \subseteq Nat /\ IsFiniteSet(Rows)
    /\ \A f \in Files, d \in Dirs : f < d
    /\ Inside \in [Dirs -> SUBSET Rows]
ASSUME BoundAssumption ==
    Inverses \subseteq Nat \ {0} /\ RecordBatch \in Nat \ {0} /\ RollbackPage \in Nat \ {0} /\ MaxTrouble \in Nat

VARIABLES
    disk,      \* what stands where the copy put each row's entry; `alike': changed, and the snapshot
               \* cannot tell; `raced': changed since it was verified
    vol,       \* the destination: here, its root narrowed, or away
    misread,   \* rows counted as gone on an answer that was not about them
    fwd,       \* the copy: where it is, what it made, its buffered rows
    chan,      \* the writer's channel
    op,        \* the copy's header and rows in the database
    items,     \* items[d]: rows inverse d is on record for having reversed, and those lost
    latest,    \* the inverse opened last, 0 for none
    call,      \* call[d]: where dispatch d is
    run,       \* the reversal that holds the lane
    trouble,
    hasty,     \* history: a dispatch or a crash met a lossy journal before it was corrected
    brokeOff,  \* history: a reversal took a page it could not read for the last one
    orphaned,  \* history: a queued inverse was cancelled
    uncorrected \* history: the database refused the correction of a lossy journal

env == <<disk, vol, misread>>
book == <<op, items, latest>>
history == <<hasty, brokeOff, orphaned, uncorrected>>
vars == <<env, fwd, chan, book, call, run, trouble, history>>

Trouble == trouble < MaxTrouble /\ trouble' = trouble + 1

(***************************************************************************)
(* Messages to the writer.  `who' is 0 for the copy.                       *)
(***************************************************************************)
Msg(kind, who, done, left, state) == [kind |-> kind, who |-> who, done |-> done, left |-> left, state |-> state]
OpenInverse(d) == Msg("open", d, {}, {}, "none")
RecordItems(who, done) == Msg("items", who, done, {}, "none")
SetOutcomes(d, done, left) == Msg("outcomes", d, done, left, "none")
FinalizeOp(state) == Msg("finalize", 0, {}, {}, state)
SetState(d, state) == Msg("state", d, {}, {}, state)

Send(msgs) == chan' = chan \o msgs
Some(msg, S) == IF S = {} THEN <<>> ELSE <<msg>>

(***************************************************************************)
(* The copy, and what it records.                                          *)
(***************************************************************************)
CopyFile ==
    /\ fwd.at = "copying" /\ vol = "here"
    /\ \E f \in Files \ fwd.made :
          /\ \A g \in Files \ fwd.made : f <= g
          /\ disk' = [disk EXCEPT ![f] = "there"]
          /\ LET buffer == fwd.buffer \cup {f}
                 full == Cardinality(buffer) >= RecordBatch
             IN /\ fwd' = [fwd EXCEPT !.made = @ \cup {f}, !.buffer = IF full THEN {} ELSE buffer]
                /\ Send(IF full THEN <<RecordItems(0, buffer)>> ELSE <<>>)
    /\ UNCHANGED <<vol, misread, book, call, run, trouble, history>>

(* The folders' rows follow the files' (record_created_dirs), and the tail *)
(* of the buffer goes out before the finalize that counts rows.            *)
Finalize ==
    /\ fwd.at = "copying"
    /\ LET buffer == fwd.buffer \cup Dirs
       IN Send(Some(RecordItems(0, buffer), buffer) \o <<FinalizeOp("rollbackable")>>)
    /\ fwd' = [fwd EXCEPT !.at = "finalizing", !.made = @ \cup Dirs, !.buffer = {}]
    /\ UNCHANGED <<env, book, call, run, trouble, history>>

Short_FilesOnly == Cardinality(fwd.written \cap Files) < Cardinality(fwd.made \cap Files)

Short == Cardinality(fwd.written) < Cardinality(fwd.made)

CheckCompleteness ==
    /\ fwd.at = "counted"
    /\ IF Short
       THEN Send(<<FinalizeOp("notRollbackable")>>) /\ fwd' = [fwd EXCEPT !.at = "correcting"]
       ELSE fwd' = [fwd EXCEPT !.at = "settled"] /\ UNCHANGED chan
    /\ UNCHANGED <<env, book, call, run, trouble, history>>

(***************************************************************************)
(* The writer thread applies one message; who waits for the reply goes on. *)
(***************************************************************************)
Take(kind) == chan # <<>> /\ Head(chan).kind = kind /\ chan' = Tail(chan)

ApplyOpen ==
    /\ Take("open") /\ latest' = Head(chan).who
    /\ UNCHANGED <<env, fwd, op, items, call, run, trouble, history>>

(* A row that cannot be inserted is dropped, a commit that fails drops all.*)
ApplyRecordItems ==
    /\ Take("items")
    /\ \E lost \in SUBSET Head(chan).done :
          /\ IF lost = {} THEN UNCHANGED trouble ELSE Trouble
          /\ LET m == Head(chan)
             IN IF m.who = 0
                THEN /\ op' = [op EXCEPT !.rows = [i \in Rows |-> IF i \in lost THEN "lost"
                                                                 ELSE IF i \in m.done THEN "done" ELSE @[i]]]
                     /\ UNCHANGED items
                ELSE /\ items' = [items EXCEPT ![m.who] = [done |-> @.done \cup (m.done \ lost), lost |-> @.lost \cup lost]]
                     /\ UNCHANGED op
    /\ UNCHANGED <<env, fwd, latest, call, run, history>>

Written == {i \in Rows : op.rows[i] \notin {"none", "lost"}}

(* When the update fails the reply counts no rows; when it was the         *)
(* correction that failed, the capture layer logs it and moves on.         *)
ApplyFinalize ==
    /\ Take("finalize")
    /\ \E failed \in BOOLEAN :
          /\ IF failed THEN Trouble ELSE UNCHANGED trouble
          /\ uncorrected' = (uncorrected \/ (failed /\ fwd.at = "correcting"))
          /\ op' = IF failed THEN op ELSE [op EXCEPT !.state = Head(chan).state]
          /\ fwd' = [fwd EXCEPT !.at = IF @ = "finalizing" THEN "counted" ELSE "settled",
                                !.written = IF failed THEN {} ELSE Written]
    /\ UNCHANGED <<env, items, latest, call, run, hasty, brokeOff, orphaned>>

Resting(d) == [id |-> d, at |-> "idle", before |-> 0, page |-> {}, dirs |-> {}, done |-> {}, left |-> {},
               reversed |-> FALSE, skipped |-> FALSE, canceled |-> FALSE, stop |-> FALSE, paused |-> FALSE]

ApplySetRollbackState ==
    /\ Take("state")
    /\ op' = [op EXCEPT !.state = Head(chan).state]
    /\ LET d == Head(chan).who
       IN IF call[d] = "running"
          THEN call' = [call EXCEPT ![d] = "over"] /\ run' = Resting(0)
          ELSE call' = [call EXCEPT ![d] = IF @ = "setting" THEN "marked" ELSE "over"] /\ UNCHANGED run
    /\ UNCHANGED <<env, fwd, items, latest, trouble, history>>

ApplySetItemOutcomes ==
    /\ Take("outcomes")
    /\ LET m == Head(chan)
       IN op' = [op EXCEPT !.rows = [i \in Rows |-> IF i \in m.done THEN "rolled"
                                                   ELSE IF i \in m.left THEN "skipped" ELSE @[i]]]
    /\ run' = [run EXCEPT !.at = IF @ = "flushing" THEN "page" ELSE "resolve"]
    /\ UNCHANGED <<env, fwd, items, latest, call, trouble, history>>

Writer == ApplyOpen \/ ApplyRecordItems \/ ApplyFinalize \/ ApplySetRollbackState \/ ApplySetItemOutcomes

(***************************************************************************)
(* A rollback is dispatched: the gate reads the database and the mounts,   *)
(* the header is marked, the inverse is handed to the manager.             *)
(***************************************************************************)
Gate(d) ==
    /\ call[d] = "idle" /\ \A e \in Inverses : e < d => call[e] # "idle"
    /\ op.state \in {"rollbackable", "partiallyRolledBack"} /\ vol # "away"
    /\ call' = [call EXCEPT ![d] = "gated"]
    /\ hasty' = (hasty \/ Written # fwd.made)
    /\ UNCHANGED <<env, fwd, chan, book, run, trouble, brokeOff, orphaned, uncorrected>>

MarkRollingBack_NoState(d) ==
    /\ call[d] = "gated" /\ call' = [call EXCEPT ![d] = "setting"]
    /\ Send(<<SetState(d, "none")>>)
    /\ UNCHANGED <<env, fwd, book, run, trouble, history>>

MarkRollingBack(d) ==
    /\ call[d] = "gated" /\ call' = [call EXCEPT ![d] = "setting"]
    /\ Send(<<SetState(d, "rollingBack")>>)
    /\ UNCHANGED <<env, fwd, book, run, trouble, history>>

SpawnInverse_NoReset(d) ==
    /\ call[d] = "marked" /\ call' = [call EXCEPT ![d] = IF vol # "away" THEN "queued" ELSE "over"]
    /\ UNCHANGED <<env, fwd, chan, book, run, trouble, history>>

SpawnInverse(d) ==
    /\ call[d] = "marked"
    /\ IF vol # "away"
       THEN call' = [call EXCEPT ![d] = "queued"] /\ UNCHANGED chan
       ELSE call' = [call EXCEPT ![d] = "resetting"] /\ Send(<<SetState(d, "rollbackable")>>)
    /\ UNCHANGED <<env, fwd, book, run, trouble, history>>

Dispatch == \E d \in Inverses : MarkRollingBack(d) \/ SpawnInverse(d)

(***************************************************************************)
(* The reversal.  It has the copy's lanes, so the copy is over.            *)
(***************************************************************************)
Top == 1 + (CHOOSE i \in Rows \cup {0} : \A j \in Rows : j <= i)

(* A database that cannot be opened ends it with nothing reversed.         *)
StartInverse(d) ==
    /\ call[d] = "queued" /\ run.at = "idle" /\ fwd.at \in {"settled", "dead"}
    /\ call' = [call EXCEPT ![d] = "running"]
    /\ Send(<<OpenInverse(d)>>)
    /\ \/ run' = [Resting(d) EXCEPT !.at = "page", !.before = Top] /\ UNCHANGED trouble
       \/ run' = [Resting(d) EXCEPT !.at = "resolve", !.canceled = TRUE] /\ Trouble
    /\ UNCHANGED <<env, fwd, book, history>>

(* The newest rows before the ones already read, among those still done.   *)
Unread == {i \in Rows : op.rows[i] = "done" /\ i < run.before}
NewestPage == {i \in Unread : Cardinality({j \in Unread : j > i}) < RollbackPage}

ReadPage ==
    /\ run.at = "page"
    /\ \/ /\ NewestPage # {}
          /\ run' = [run EXCEPT !.at = "item", !.page = NewestPage,
                                !.before = CHOOSE i \in NewestPage : \A j \in NewestPage : i <= j]
          /\ UNCHANGED <<trouble, brokeOff>>
       \/ NewestPage = {} /\ run' = [run EXCEPT !.at = "dirs"] /\ UNCHANGED <<trouble, brokeOff>>
       \/ Trouble /\ run' = [run EXCEPT !.at = "dirs"] /\ brokeOff' = TRUE
    /\ UNCHANGED <<env, fwd, chan, book, call, hasty, orphaned, uncorrected>>

Unit == CHOOSE i \in run.page : \A j \in run.page : j <= i
AfterUnit == IF run.page = {Unit} THEN "flush" ELSE "item"
Canceled == [run EXCEPT !.at = "lastFlush", !.page = {}, !.canceled = TRUE]
RunOnly == UNCHANGED <<fwd, chan, book, call, history>>

StopAtBoundary ==
    /\ run.stop /\ (run.at = "item" \/ (run.at = "dirs" /\ run.dirs # {}))
    /\ run' = Canceled
    /\ RunOnly /\ UNCHANGED <<env, trouble>>

DeferDir ==
    /\ run.at = "item" /\ ~run.stop /\ Unit \in Dirs
    /\ run' = [run EXCEPT !.dirs = @ \cup {Unit}, !.page = @ \ {Unit}, !.at = AfterUnit]
    /\ RunOnly /\ UNCHANGED <<env, trouble>>

(* The reversal parks here while paused, before the file is looked at.     *)
PassPauseGate ==
    /\ run.at = "item" /\ ~run.stop /\ ~run.paused /\ Unit \in Files
    /\ run' = [run EXCEPT !.at = "verify"]
    /\ RunOnly /\ UNCHANGED <<env, trouble>>

Tally(i, result) ==
    IF result = "skipped" THEN [run EXCEPT !.left = @ \cup {i}, !.skipped = TRUE]
                          ELSE [run EXCEPT !.done = @ \cup {i}, !.reversed = TRUE]

(* What is already gone counts as reversed, but a stop forgets it like a   *)
(* skip: a retry asks again.                                               *)
Decide(result) ==
    run' = IF result # "reversed" /\ run.stop THEN Canceled
           ELSE [Tally(Unit, result) EXCEPT !.page = @ \ {Unit}, !.at = AfterUnit]

(* A mount that was pulled and is still registered answers `not found' for *)
(* whatever it held, and that is taken for gone.                           *)
SeemsGone(i) == vol = "away" \/ (vol = "here" /\ disk[i] = "gone")
CountAsGone(i) == misread' = IF disk[i] = "gone" THEN misread ELSE misread \cup {i}

Matches_Present(i) == disk[i] # "gone"

(* The snapshot is a size, and for a local file the second it was          *)
(* modified: an edit that keeps both goes unseen.                          *)
Matches(i) == disk[i] \in {"there", "alike"}

(* A narrowed root refuses the path as not found, which is not gone.       *)
Verify ==
    /\ run.at = "verify"
    /\ \/ /\ vol = "here" /\ Matches(Unit) /\ run' = [run EXCEPT !.at = "act"]
          /\ UNCHANGED <<misread, trouble>>
       \/ SeemsGone(Unit) /\ Decide("already") /\ CountAsGone(Unit) /\ UNCHANGED trouble
       \/ /\ Decide("skipped") /\ UNCHANGED misread
          /\ IF vol = "here" /\ disk[Unit] # "changed" THEN Trouble ELSE UNCHANGED trouble
    /\ RunOnly /\ UNCHANGED <<disk, vol>>

Calm(d) == [i \in Rows |-> IF d[i] = "raced" THEN "changed" ELSE d[i]]

RemoveFile ==
    /\ run.at = "act" /\ vol # "away"
    /\ disk' = [disk EXCEPT ![Unit] = "gone"]
    /\ Decide(IF disk[Unit] = "gone" THEN "already" ELSE "reversed")
    /\ RunOnly /\ UNCHANGED <<vol, misread, trouble>>

RemoveFileFails ==
    /\ run.at = "act" /\ disk' = Calm(disk)
    /\ \/ Decide("skipped") /\ UNCHANGED misread /\ (IF vol = "here" THEN Trouble ELSE UNCHANGED trouble)
       \/ vol = "away" /\ Decide("already") /\ CountAsGone(Unit) /\ UNCHANGED trouble
    /\ RunOnly /\ UNCHANGED vol

Empty(d) == disk[d] = "there" /\ \A i \in Inside[d] : disk[i] \in {"absent", "gone"}

(* `exists' is false for a folder that is gone and on any error.           *)
RemoveDirIfEmpty ==
    /\ run.at = "dirs" /\ ~run.stop
    /\ \E d \in run.dirs :
          /\ Inside[d] \cap run.dirs = {}
          /\ \E result \in {"reversed", "already", "skipped"} :
                /\ CASE result = "reversed" -> vol = "here" /\ Empty(d) /\ UNCHANGED trouble
                     [] result = "already"  -> vol # "narrowed" /\ (IF SeemsGone(d) THEN UNCHANGED trouble ELSE Trouble)
                     [] result = "skipped"  -> IF vol = "here" /\ (Empty(d) \/ disk[d] = "gone")
                                               THEN Trouble ELSE UNCHANGED trouble
                /\ disk' = IF result = "reversed" THEN [disk EXCEPT ![d] = "gone"] ELSE disk
                /\ IF result = "already" THEN CountAsGone(d) ELSE UNCHANGED misread
                /\ run' = [Tally(d, result) EXCEPT !.dirs = @ \ {d}]
    /\ RunOnly /\ UNCHANGED vol

DirsDone ==
    /\ run.at = "dirs" /\ run.dirs = {} /\ run' = [run EXCEPT !.at = "lastFlush"]
    /\ RunOnly /\ UNCHANGED <<env, trouble>>

Flush_OutcomesFirst ==
    /\ run.at \in {"flush", "lastFlush"}
    /\ LET last == run.at = "lastFlush"
       IN IF run.done \cup run.left = {}
          THEN run' = [run EXCEPT !.at = IF last THEN "resolve" ELSE "page"] /\ UNCHANGED chan
          ELSE /\ Send(<<SetOutcomes(run.id, run.done, run.left)>> \o Some(RecordItems(run.id, run.done), run.done))
               /\ run' = [run EXCEPT !.at = IF last THEN "lastFlushing" ELSE "flushing", !.done = {}, !.left = {}]
    /\ UNCHANGED <<env, fwd, book, call, trouble, history>>

(* The inverse's rows first, then the outcomes of the copy's rows.         *)
Flush ==
    /\ run.at \in {"flush", "lastFlush"}
    /\ LET last == run.at = "lastFlush"
       IN IF run.done \cup run.left = {}
          THEN run' = [run EXCEPT !.at = IF last THEN "resolve" ELSE "page"] /\ UNCHANGED chan
          ELSE /\ Send(Some(RecordItems(run.id, run.done), run.done) \o <<SetOutcomes(run.id, run.done, run.left)>>)
               /\ run' = [run EXCEPT !.at = IF last THEN "lastFlushing" ELSE "flushing", !.done = {}, !.left = {}]
    /\ UNCHANGED <<env, fwd, book, call, trouble, history>>

FinalState_StopForgotten == IF run.skipped THEN "partiallyRolledBack" ELSE "rolledBack"

FinalState ==
    IF run.canceled THEN IF run.reversed THEN "partiallyRolledBack" ELSE "rollbackable"
    ELSE IF run.skipped THEN "partiallyRolledBack" ELSE "rolledBack"

Resolve ==
    /\ run.at = "resolve"
    /\ Send(<<SetState(run.id, FinalState)>>) /\ run' = [run EXCEPT !.at = "resolving"]
    /\ UNCHANGED <<env, fwd, book, call, trouble, history>>

Reversal ==
    \/ ReadPage \/ StopAtBoundary \/ DeferDir \/ PassPauseGate \/ Verify \/ RemoveFile \/ RemoveFileFails
    \/ RemoveDirIfEmpty \/ DirsDone \/ Flush \/ Resolve

(***************************************************************************)
(* People, volumes, and the death of the process.                          *)
(***************************************************************************)
Alive == run.at # "idle"

(* Somebody saves a file there, or puts something into the folder.         *)
Touch ==
    /\ Trouble
    /\ \E i \in Rows :
          /\ disk[i] \in {"there", "gone", "alike"}
          /\ \/ disk' = [disk EXCEPT ![i] = IF run.at = "act" /\ i = Unit THEN "raced" ELSE "changed"]
             \/ i \in Files /\ disk' = [disk EXCEPT ![i] = "alike"]
    /\ UNCHANGED <<vol, misread, fwd, chan, book, call, run, history>>

Erase ==
    /\ Trouble
    /\ \E f \in Files : disk[f] \in {"there", "changed", "alike", "raced"} /\ disk' = [disk EXCEPT ![f] = "gone"]
    /\ UNCHANGED <<vol, misread, fwd, chan, book, call, run, history>>

VolumeMoves ==
    /\ Trouble /\ vol' \in {"here", "narrowed", "away"} \ {vol}
    /\ UNCHANGED <<disk, misread, fwd, chan, book, call, run, history>>

Pause ==
    /\ Alive /\ ~run.paused /\ Trouble /\ run' = [run EXCEPT !.paused = TRUE]
    /\ RunOnly /\ UNCHANGED env

Resume ==
    /\ run.paused /\ run' = [run EXCEPT !.paused = FALSE]
    /\ RunOnly /\ UNCHANGED <<env, trouble>>

CancelRunning ==
    /\ Alive /\ ~run.stop /\ Trouble /\ run' = [run EXCEPT !.stop = TRUE]
    /\ RunOnly /\ UNCHANGED env

CancelQueued ==
    /\ Trouble /\ orphaned' = TRUE
    /\ \E d \in Inverses : call[d] = "queued" /\ call' = [call EXCEPT ![d] = "over"]
    /\ UNCHANGED <<env, fwd, chan, book, run, hasty, brokeOff, uncorrected>>

(* The next launch resolves what was being rolled back from the rows of    *)
(* the inverse opened last.                                                *)
Reconciled ==
    IF op.state # "rollingBack" THEN op.state
    ELSE IF latest # 0 /\ items[latest].done # {} THEN "partiallyRolledBack" ELSE "rollbackable"

CrashAndRelaunch ==
    /\ Trouble
    /\ chan' = <<>> /\ run' = Resting(0) /\ disk' = Calm(disk)
    /\ fwd' = IF fwd.at = "settled" THEN fwd ELSE [fwd EXCEPT !.at = "dead", !.buffer = {}]
    /\ call' = [d \in Inverses |-> IF call[d] = "idle" THEN "idle" ELSE "over"]
    /\ op' = [op EXCEPT !.state = Reconciled]
    /\ hasty' = (hasty \/ (op.state # "notRollbackable" /\ Written # fwd.made))
    /\ UNCHANGED <<vol, misread, items, latest, brokeOff, orphaned, uncorrected>>

Outside == Touch \/ Erase \/ VolumeMoves \/ Pause \/ Resume \/ CancelRunning \/ CancelQueued \/ CrashAndRelaunch

(***************************************************************************)
(* The copy has been opened and its destination folders made.              *)
(***************************************************************************)
Init ==
    /\ disk = [i \in Rows |-> IF i \in Dirs THEN "there" ELSE "absent"] /\ vol = "here" /\ misread = {}
    /\ fwd = [at |-> "copying", made |-> {}, buffer |-> {}, written |-> {}]
    /\ chan = <<>>
    /\ op = [state |-> "notRollbackable", rows |-> [i \in Rows |-> "none"]]
    /\ items = [d \in Inverses |-> [done |-> {}, lost |-> {}]] /\ latest = 0
    /\ call = [d \in Inverses |-> "idle"] /\ run = Resting(0)
    /\ trouble = 0 /\ hasty = FALSE /\ brokeOff = FALSE /\ orphaned = FALSE /\ uncorrected = FALSE

Next ==
    \/ CopyFile \/ Finalize \/ CheckCompleteness
    \/ Writer
    \/ \E d \in Inverses : Gate(d) \/ StartInverse(d)
    \/ Dispatch
    \/ Reversal
    \/ Outside

Spec == Init /\ [][Next]_vars

(* Where the reversal waits for a call on the destination, which has no    *)
(* deadline: a mount that died may never answer.                           *)
AtDestination == run.at \in {"verify", "act"} \/ (run.at = "dirs" /\ run.dirs # {})

(* The writer thread, the calls once they are past the gate and what the   *)
(* reversal does between two calls on the destination go on.  Nothing      *)
(* makes the copy land its files, a lane come free, the destination answer *)
(* or a person resume.                                                     *)
Fairness ==
    /\ WF_vars(CheckCompleteness) /\ WF_vars(Writer) /\ WF_vars(Dispatch)
    /\ WF_vars(Reversal /\ ~AtDestination)

FairSpec == Spec /\ Fairness

(***************************************************************************)
(* Properties.                                                             *)
(***************************************************************************)
States == {"notRollbackable", "rollbackable", "rollingBack", "rolledBack", "partiallyRolledBack"}
Places == {"idle", "page", "item", "verify", "act", "flush", "flushing", "dirs", "lastFlush", "lastFlushing",
           "resolve", "resolving"}
Messages == [kind : {"open", "items", "outcomes", "finalize", "state"}, who : Inverses \cup {0},
             done : SUBSET Rows, left : SUBSET Rows, state : States \cup {"none"}]

(* Every variable has its type.                                            *)
TypeOK ==
    /\ disk \in [Rows -> {"absent", "there", "changed", "alike", "raced", "gone"}]
    /\ vol \in {"here", "narrowed", "away"} /\ misread \subseteq Rows
    /\ fwd \in [at : {"copying", "finalizing", "counted", "correcting", "settled", "dead"},
                made : SUBSET Rows, buffer : SUBSET Rows, written : SUBSET Rows]
    /\ chan \in Seq(Messages)
    /\ op \in [state : States, rows : [Rows -> {"none", "lost", "done", "skipped", "rolled"}]]
    /\ items \in [Inverses -> [done : SUBSET Rows, lost : SUBSET Rows]] /\ latest \in Inverses \cup {0}
    /\ call \in [Inverses -> {"idle", "gated", "setting", "marked", "resetting", "queued", "running", "over"}]
    /\ run \in [id : Inverses \cup {0}, at : Places, before : Nat, page : SUBSET Rows, dirs : SUBSET Rows,
                done : SUBSET Rows, left : SUBSET Rows, reversed : BOOLEAN, skipped : BOOLEAN,
                canceled : BOOLEAN, stop : BOOLEAN, paused : BOOLEAN]
    /\ trouble \in 0..MaxTrouble /\ hasty \in BOOLEAN /\ brokeOff \in BOOLEAN /\ orphaned \in BOOLEAN
    /\ uncorrected \in BOOLEAN

(* A rollback removes nothing that its snapshot shows was changed after    *)
(* the copy: what somebody saved before the file was verified stays until  *)
(* somebody else removes it, through pauses, retries and crashes.  An edit *)
(* that keeps the size, and locally the second of the modification time,   *)
(* is not protected (`alike'): the code has nothing to tell it by.         *)
ChangedIsSpared ==
    [][\A i \in Rows : disk[i] = "changed" /\ disk'[i] # "changed" => trouble' > trouble /\ run' = run]_vars

(* capture.rs: a lossy journal never claims rollbackability, once its      *)
(* count has been checked, unless somebody acted on it before or the       *)
(* database refused the correction too (which is only logged).             *)
Whole == \A i \in fwd.made : op.rows[i] \notin {"none", "lost"}
OfferedIsWhole ==
    op.state # "notRollbackable" => Whole \/ hasty \/ uncorrected \/ fwd.at \in {"counted", "correcting"}

(* A row counts as reversed only when an inverse is on record for it,      *)
(* whenever the process dies (the reconcile relies on it), and when        *)
(* nothing of the copy is left there on the disk, unless the destination   *)
(* answered `not there' about an entry it could not or would not look at.  *)
ReversedIsTrue ==
    \A i \in Rows : op.rows[i] = "rolled" =>
        /\ \E d \in Inverses : i \in items[d].done \cup items[d].lost
        /\ disk[i] # "there" \/ i \in misread

(* Rolled back is final, so no row may still wait to be tried; and a copy  *)
(* nobody interfered with is undone completely, folders included.          *)
VerdictIsTrue ==
    /\ op.state = "rolledBack" /\ ~brokeOff => \A i \in Rows : op.rows[i] # "done"
    /\ trouble = 0 /\ (\E d \in Inverses : call[d] = "over") /\ run.at = "idle"
          => \A i \in fwd.made : disk[i] = "gone" /\ op.rows[i] = "rolled"

(* The mark that refuses every other rollback goes away again, as long as  *)
(* the destination answers each call, a queued inverse is given its lane,  *)
(* and nobody leaves the reversal paused or cancels it in the queue.       *)
RollingBackEnds ==
    ([]<>~AtDestination /\ []<>(\A d \in Inverses : call[d] # "queued") /\ []<>~run.paused)
        => (op.state = "rollingBack" ~> (op.state # "rollingBack" \/ orphaned))

(* rollback.rs (21-22): a skipped item leaves the operation partially      *)
(* rolled back; a fully reversed one lands rolled back.                    *)
RolledBackIsReversed ==
    op.state = "rolledBack" /\ run.at = "idle" /\ ~hasty => \A i \in Rows : op.rows[i] # "skipped"
=============================================================================

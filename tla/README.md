# A formal model of Cmdr's write operations, their journal and drive release

Cmdr is a two-pane file manager: a Tauri app with a Rust backend
(`apps/desktop/src-tauri/src`), a Svelte frontend (`apps/desktop/src/lib`) and a
set of Rust crates for the drive index and the network protocols (`crates/`).
What it must never get wrong is a write: a copy, move, delete or rename of a
person's files that runs for minutes, next to others, over links that hang, and
that the person may pause, answer, cancel or roll back at any moment from
several windows and from an agent. Next to it stands an unmount: an index that
starts on a drive macOS is taking down keeps the drive busy. And under it a disk
that may be pulled, and a process that may die, between any two calls. Beside every write
stands its journal, from which it can be undone days later. This
directory models that core in TLA+ and checks it with TLC on small instances; every
safety property the passing runs check is also proved with TLAPS, for any number
of operations, lanes, sources, calls, drives, writes and faults.

Paths below are relative to `apps/desktop/src-tauri/src` unless they say
otherwise; `WO` is `file_system/write_operations` and
`DR` is `file_system/volume/drive_release`.

## The system: inventory

| Component | State it keeps | Operations | What is hard | What makes it correct |
|---|---|---|---|---|
| Operation manager, `WO/manager.rs` | records, FIFO order, lane counts, retained failures, under one mutex | `spawn_managed`, admission pass, `on_settled`, guards, `run_instant`, `cancel_if_queued`, pause/resume, failures | passes on several threads; work done outside the lock; unwinding tasks | lanes exclusive and exactly counted; nothing runs unregistered; nothing survives its operation; nobody forgotten in the queue |
| Live state, `WO/state.rs`, `state/controls.rs`, `operation_intent.rs`, `conflict_slot.rs` | intent (an atomic), cancel token, pause gate, conflict slot | `cancel_write_operation`, `pause/resume_operation`, `resolve_write_conflict`, `cancel_all` | calls race each other and the operation; answers arrive late | no lost wake-up; an answer decides the conflict it was given to; a stop stays a stop |
| Concurrent volume copy, `WO/transfer/volume/` | window of polled tasks, dispatch lock, apply-to-all latch, ledger | prepare, poll, resolve a conflict, wind down, keep or roll back | tasks run only while the driver polls; cancel while parked; landed but unheard files | one question at a time; the ledger covers what was written; a cancelled copy stops waiting for its tasks |
| Scan preview, `WO/scan_preview.rs`, `scan_preview/`, `scan_cache.rs`, `scan_bridge.rs`, `scan_watchdog.rs` | one entry per preview with its phase and its claim; the walk's cancel flag; the watchdog's clock | start, tick, park, settle, give up, claim, abandon, take, tear down, sweep by age | five threads end one preview: the walk, the watchdog, the dialog, the operation, another preview's settling | one outcome; a claimed result is not swept; a walk nobody reads is told to stop; who waits stops waiting |
| Staged writes, `WO/overwrite.rs`, `WO/transfer/staged_write.rs`, `transfer/volume/displaced_destination.rs` | the temp and the aside of each write | fill, set aside, land, put back, recover, discard | a crash between any two calls; calls that fail after they were done | the name never holds a partial; no original is lost |
| In-flight ledger and its sweeps, `WO/in_flight_*.rs` | an append-only log, its replay, the records that wait for a volume | record, retire, put off, claim, compact; sweep at launch and at a drive's return | the log is truncated before its records are settled; two sweeps; new writes underneath | an aside is always answered for; one sweep acts on a record |
| Other engines: serial volume copy, local copy and move, delete, trash, archive edits, bulk rename | per-operation walks | same intent, gate and slot as above | sequential | as above |
| Busy volumes, `WO/status_cache.rs` | busy set, last emitted set | register, unregister, emit | compute and emit are not one step | the frontend ends with the current set |
| Operation log, `operation_log/`, `WO/rollback.rs` | SQLite journal behind a writer thread, buffers of rows not yet sent, the run of a reversal | open, record, finalize, dispatch, reverse, resolve, reconcile, prune | a crash between rows and verdict; lost rows; pause, cancel and retry of a reversal over a disk people use | an incomplete journal is not offered; what counts as reversed is; what was changed is spared; the mark comes off again |
| Drive release gate, `DR/` | per volume: epoch, ticket, late stops, pending resume, unmount flag; one condvar | start, disable, release, resume, set and clear the flag | starts, stops and unmounts with deadlines; continuations; several reasons to sleep on one condvar | a drive let go of stays so while it leaves; one ticket holder; a late answer still comes; a disable has the last word |
| Unmount approver and eject flights, `volumes/unmount_approver/`, `file_system/volume/eject/` | owners' records of what they stopped, the ejecting set | ask, idle, appear, vanish; join or start a flight, adopt a disk's siblings | an ask during a resume; a disk with several volumes | what an owner stopped is handed back once, unless somebody else had a say |
| Quit gate, `quit/` | quit phase | ask, tear down | cancel then abort live operations | no quit deletes files |
| Listing cache and watchers, `file_system/listing/` | listings, sequence of diffs | read, mutate, diff | events against a running read | the diff stream rebuilds the listing |
| Agent, `agent/` | proposals, inbox, wake schedule | claim, complete, recover | crash between claim and completion | a proposal is executed at most once |
| Drive index, `crates/cmdr-index` | its own databases and state machines | scan, follow events, enrich | a system of its own | - |
| Protocol backends, `crates/cmdr-*` | connections | read and write streams | wire protocols | environment of the models |
| Viewer, search, downloads, reveal, space poller, updater, licensing, settings, MCP, network, reporters | local | - | mostly I/O | - |
| Frontend, API server, website | - | calls and snapshots | - | environment |

How the parts interact: every mutation is started by a command (from a window
or the MCP executor), which registers the live state, claims the dialog's scan
preview and hands the manager a *deferred start*. The manager admits it when all
its lanes (one per volume) are free and spawns its task. The task is the
transfer engine; it shares one `WriteOperationState` with everybody who acts on
it from outside. When it settles, the manager frees the record, cleans the maps
and runs an admission pass.

## The modules

| Module | Models | EXTENDS / INSTANCE |
|---|---|---|
| `LaneLock` | abstract specification: a client gets all its lanes or none | - |
| `OpManager` | the operation manager | INSTANCE `LaneLock` |
| `OpManagerProofs` | theorems about `OpManager` | EXTENDS `OpManager` |
| `MCOpManager` | small instances of it | EXTENDS `OpManager` |
| `LiveState` | `WriteOperationState` and the calls that change it | - |
| `VolumeCopy` | the concurrent copy composed with the live state | EXTENDS `LiveState` |
| `MCVolumeCopy` | selections of two and three sources | EXTENDS `VolumeCopy` |
| `VolumeCopyProofs` | theorems about `VolumeCopy` | EXTENDS `VolumeCopy` |
| `InFlight` | the disk, the in-flight ledger and its two sweeps, the faults | - |
| `Landings` | the writes that take a name, composed with the ledger | EXTENDS `InFlight` |
| `MCLandings` | two writes of different sizes | EXTENDS `Landings` |
| `LandingsProofs` | theorems about `Landings` and the ledger in it | EXTENDS `Landings` |
| `ScanPreview` | one preview, its walk and its watchdog, the operations that name it | - |
| `MCScanPreview` | two operations, one tick, one teardown | EXTENDS `ScanPreview` |
| `ScanPreviewProofs` | theorems about `ScanPreview` | EXTENDS `ScanPreview` |
| `OperationLog` | a copy's journal, the writer thread, its rollback, a crash and the reconcile | - |
| `MCOperationLog` | two files in two nested folders, two dispatches | EXTENDS `OperationLog` |
| `OperationLogProofs` | theorems about the journal and what a reversal may touch | EXTENDS `OperationLog` |
| `OperationLogVerdictProofs` | the theorem about a reversal's verdict | EXTENDS `OperationLogProofs` |
| `DriveRelease` | the drive release gate, the threads that meet at it and its environment | - |
| `MCDriveRelease` | a handful of calls on one drive | EXTENDS `DriveRelease` |
| `DriveReleaseProofs` | theorems about the ticket and the condvar | EXTENDS `DriveRelease` |
| `DriveReleaseTrustProofs` | theorems about what a disable and a release promise | EXTENDS `DriveReleaseProofs` |

Every specification has two forms: `Spec` without fairness, which the theorems are
about, and `FairSpec`, which adds it. A theorem of `Spec` holds of `FairSpec`.

### OpManager

The manager's own variables (`status`, `order`, `laneUse`, `reserved`,
`failures`) change only in locked sections of `manager.rs`, and each locked
section is one action: `InsertRecord`, `AdmitAt`, `FreeRecord` (in `Settle`,
`Panic` and `InstantEnds`), `CancelIfQueued`, `SetPaused`, `RecordFailure`,
`DismissFailure`. What the code does before or after the lock is an action of
its own, since any other thread can come in between: `Announce` (live state and
preview claim, before the record exists), `Launch` (busy mark and spawn),
`Cleanup` and `DropCleanup` (claim, live state, busy mark). A pass runs on the
thread that called it, so `carry[p]` is the operation the pass on thread `p`
admitted and has not launched yet. Ids are UUIDs in the code; the model reuses
an id when nothing names it any more, so a finite set of ids stands for an
endless stream of operations.

Abstracted: descriptors and snapshot fields other than identity and status, the
content of errors, event emission, and what a task does between its start and
its end.

### LiveState

One variable per cell of `WriteOperationState` that outsiders touch. A call is
split at every atomic access (`CancelRead`, `CancelStore`, `CancelSignal`,
`CancelAbandon`, `Wake`), because no lock spans it; `ConflictSlot` has a mutex,
so `Arm`, `Answer` and abandon are one action each. `Click` is a person or an
agent answering what is on screen, `Answer` the delivery, any time later. The
pause gate's `Park` is one action: the code creates its waiter before it tests
the flag (tokio's `notified()` in the async form, the mutex in the sync form), so
a notify after the test is never missed.

### VolumeCopy

`drv` is the driver's position in `copy_concurrent.rs` (`fill`, `resolve`,
`await`) and in the post-loop of `copy.rs`. The window is a `FuturesUnordered`
that nobody but the driver polls, so a task's own steps need `drv = "await"`
(`Polled`); a backend call already made can still finish (`Land`). Conflict
resolution (`transfer/volume/conflict.rs`) is split at its awaits: copy the
latch to the stack, wait for the dispatch lock, check the cancel, gather
metadata, arm and emit, wait for the answer, write the latch back. `lockQ` is
tokio's fair mutex with its waiters.

Abstracted: a file is one chunk and one leaf; a folder contains one clashing
file, so the leaf window is never contended; all clashes fall into one latch
bucket; `skip` and `overwrite` stand for the resolutions; the configured policy
is Stop; `backend_abort` only shortens a deadline that may fire at any time
anyway; a reversal takes its entries in any order and never meets drift; ETA,
progress and the human-wait clock are left out.

### DriveRelease

`gate[v]` is `Gates.volumes` (`DR/mod.rs`); `asleep` is the set of calls parked
on the one condvar. Everything the code does in one locked section is one
action, and a loop around a park is a *turn* that the first pass and each
wake-up share: `StartTurn`, `DisableTurn` and `ReleaseTurn`. A deadline may have
passed whenever a call looks (`...GivesUp`, `ReleaseTimesOut`), so no clock is
needed. A change and its notify are one action, because nothing the notifier
does in between can be seen; an eject's landing is the exception, since the
ejecting set is under a lock of its own (`EjectLands`, then
`NotifyEjectingChanged`). Dropping a ticket is `DropTicket`, used by every holder:
it frees the slot, or hands it to the late stop of every release that gave up.

A stop runs on a thread of its own with a slot in the gate (`stop[r][v]`), a late
stop holds the ticket (`lateStop[v]`); each reads whether the drive was indexed,
then stops it, then answers. `resume` is split where its thread can be overtaken:
queued, settled and intent read, gate checks, owner's checks, last eject check,
start call.

The index is seen only through its calls (`index`, `intent`): `start_volume` may or
may not stand one up, and `stop_removable_volume`, one step here from its signal to
its answer, says what it found or that it ran out of time. External: the mount table and
the owners of a resume. An owner offers back what a release took, at that
release's epoch or a later one it has read since, and may deny a candidate at any
of its checks. Two history variables serve the properties: `under` (why a drive
has been leaving since before a release was asked) and `lastWord`.

Abstracted: the serials of stops and batches are the calls' own names; a batch
holds one candidate; the kinds of start matter only by whether a person asked;
an eject is one flag per drive. `index` becomes true when a start call returns,
not inside it: the worst case for a stop that looks for something to stop.

### InFlight

One name on one disk. A content (what the person had, what a person saves
meanwhile, what each write brings, the empty file a Rename answer reserves the
name with) is in one `place`: at the name, under a write's temp or aside name,
under a ` (recovered)` name, or nowhere. A rename moves it and destroys what was
at its target. `home` is the disk's path space as `in_flight_records.rs` tells
them apart: the boot disk, a mount that can be pulled, a volume with paths of
its own.

`recorded` and `pending` are the `Store`'s fields; `log` is the set of records a
replay of the file would give, which is all a crash leaves. A torn last line is a
line not appended. `init_and_sweep` is split where a crash would show:
the truncate (`InitAndSweep`), each volume record appended again
(`LaunchDefers`), the spawn of the sweep thread (`LaunchSpawns`); so is
`compact_if_large`, whose lock nobody else gets between its truncate and its last
append (`Unlocked`). `sweep[s]` is a sweep thread: what it was handed, the record
in its hand and the call it makes next. `Ruling` is `locate` and `settle_kind`,
one case per kind of record. A sweep's look and its act are separate actions, so
a disk may change between them; a drive that went away after it was located may
answer that nothing is there, may refuse, or the record may be put off.

External: the file system's calls, the pull and the return of the drive, a person
who saves a file at the name, the death of the process. `Register` and
`Unregister` are `VolumeManager`'s.

Abstracted: a temp on a local path is an `A` line of kind Temp and one on a
volume a `+` line, which one rule settles; every ` (recovered) (N)` name is one
place that is never taken; sizes are numbers that writes share or not.

### Landings

`job` is the one write in hand: its number, its kind, the call it makes next, and
`owes`, the ledger calls that follow the disk call just made and precede the next
one. Each disk call is an action of its own (`CreateTemp`, `FillTemp`, `SetAside`,
`Land`, ...) and each ledger call another (`JobSettles`), in the code's order, so
`Crash` and `Pull` come between any two. A call succeeds, or fails for its own
reason, or because the drive is gone, or because the disk refuses; on a volume a
call that reports a failure may have been performed.

The five kinds are `stage_and_land_file` (`file`), `safe_overwrite_dir` (`swap`; the
closure that lands is one `rename` in `move_op/mod.rs` and one symlink call in
`copy/single_item.rs`, the only callers, so `Land` is one step for it too),
`displace_with_directory` and `displace_destination` (`folder`), with the
operation's end that puts back, keeps or drops what was displaced,
`StagedWrite::commit` (`staged`), and `commit_with_displaced_original`
(`generated`, the archive a compress publishes). `DropTask` and `DropAside` are
the concurrent driver dropping a task at an await; `SweepOwn` is the operation's
own sweep of the temps such tasks leave.

History variables: `displaced` (which write moved what aside), `clobbered` (what a
replacing rename met at the name without knowing), `mislaid` (records retired
although their rename was performed), `cleared` (writes that cleared the name they
had reserved).

### ScanPreview

`entry` is what `PREVIEWS` holds under one id. Each locked section of
`scan_cache.rs` is one action or part of one; `cancel_scan_preview` takes the lock
three times and is three actions (`TeardownLooks`, `TeardownFlags`,
`TeardownReleases`). `walk` is where the walk's thread is: walking, on its way to
the owner's pause gate, asleep there, and on its way back (`note_resumed`'s two
stores are two actions), ended, settling. `watch` is the watchdog: a beat reads
`outcome_claimed` and `parked`, then the clock, and `give_up` claims the outcome
before it settles. Time is two booleans: `idle`, the last count lies further back
than the inactivity limit, and `old`, the settled entry is past its TTL. The wait
of an operation (`await_claimed_preview`) is split at its `Notify`: enable, read
the entry, sleep; its own cancel is the other arm of a select that polls in either
order. `take_cached_scan_result` removes what it reads, whoever asks.

Merged: the flag a walk reads when it ends with that end; a settle with its
notify; an operation's claim with its insertion in the queue; a cancel's intent,
token and wake (`LiveState` has its single steps); the end of a stopped
operation's wait with its settling. Abstracted: the result is whether it is there
and whether it is of the same sources; progress events, totals, the compress
estimate, the panic net's abandon.

### OperationLog

`fwd` is the copy as the capture layer sees it: `made` (what was recorded, the
issued count of `OpAccum`), `buffer`, and `written` (the count the finalize
answered). `chan` is the writer's channel, in order; each `Apply...` is one turn
of `writer_loop`, and the four messages that carry a reply let their sender go
on (`fwd.at`, `call`, `run.at`). `op` is the copy's header and its rows by seq,
`items[d]` what inverse `d` is on record for. Ids of inverses stand for
dispatches: `call[d]` walks through `rollback_operation` (gate, mark, spawn) and
the manager's queue, and `run` is the one inverse that holds the lane. `run.at`
follows `execute_rollback`: a page is read, each file passes the stop, the pause
gate and the stop again, is verified and removed (two actions, the disk may
change between), folders are put aside until the pages are done and go deepest
first, the books are flushed after each page and at the end, the verdict is
resolved. `disk` is what stands where each row points: `raced` is a change
between the check and the removal, which no check can see, and `alike` a change
before the check that keeps what the snapshot recorded. `verify_snapshot` compares
the size, and for a local file also the whole second it was modified, so a file
saved again with as many bytes (and locally within the second) matches and is
removed.

A reversal never undoes what it cannot check: `vol` is the destination here,
here with its root narrowed (a reconnect to a subfolder, whose "not found" says
nothing, `missing_item`), or away. An unplugged mount that is still registered
answers "not found" about everything it held, and `Volume::exists` is false on any
error, so an entry may be counted as gone that is not: `misread` has the rows it
happened to. `CrashAndRelaunch` empties the channel and everything in memory and
runs the reconcile.

History variables exempt what the code accepts: `hasty`, a dispatch or a crash
met a lossy journal before its count was corrected; `brokeOff`, a page could not
be read and was taken for the last; `orphaned`, a queued inverse was cancelled;
`uncorrected`, the database refused the correction of a lossy journal.

Abstracted: one copy, whose rows are removed and never moved back, so no target
is occupied; every row is of use to the reversal; which of a batch is lost is any
subset, which stands for a row refused and for a commit that fails; the folders'
rows reach the buffer together; a copy opens before `Init`, with its folders
made. Not in the model: an inverse's own finalize, `set_rollback_state` or
`set_item_outcomes` failing in the database, an inverse that panics, retention.

## What the runs check

Ids, lanes and sources are few; counters are capped by named constants:
`FailureCapacity`, `MaxPrompts` (conflicts raised), `MaxClicks` (answers on
their way at once), `MaxCrashes`, `MaxPulls`, `MaxRefusals` (calls a disk
refuses), `MaxTicks`, `MaxTeardowns`, `MaxTrouble` (what people, volumes, the
database and crashes do to one journal). Four runs keep their state space small with
an action constraint in the MC module, which says what it leaves out; each holds
back only steps nobody is obliged to take (a person's, a fault's) or one of
several outcomes of a step, so it hides no liveness violation of the behaviours
it admits.

| Run | Instance | Shows |
|---|---|---|
| `OpManager` | three operations: L and R, L, R, and a rename, a preview, panics, one retained failure | `TypeOK`, `LaneExclusive`, `LaneTableExact`, `WorkIsGuarded`, `NothingOutlivesIt`, `OrderListsLive`, `NoStrandedOp`, `NoOvertaking`, `ImplementsLaneLock`, and `SingleLaneServed` under fairness |
| `VolumeCopy` | a folder that asks, a file, a file that asks on the driver; window of two; one caller; two answers in flight | `TypeOK`, `OneQuestion`, `AnswerFitsPrompt` |
| `VolumeCopyWindDown` | two files, window of two, two callers, no conflicts | `NoLostWakeup`, and `WindsDown` under fairness |
| `StopThenRollback` | two callers | **violated**: `StoppedIsTerminal` |
| `AnswerUnheard` | the mixed selection | **violated**: `AnswersAreHeard` |
| `AllThenAsk` | two folders that ask | **violated**: `AllCollapsesQueued` |
| `RollbackLeavesFile` | two files | **violated**: `LedgerIsDisk` |
| `DriveRelease` | one drive; a start, a disable, two releases, a resume | `TypeOK`, `NoLostWakeup`, `DisableHasLastWord`, `OneHolder`, `LetGoMeansLetGo`, and `LateAnswer` under fairness |
| `Landings` | two writes of any kind on any of the three disks; two faults | `TypeOK`, `OriginalSurvives`, `FinalNameWhole`, `SweepSparesLive`, `AsideIsRecorded`, `CommittedUnswept`, and `AsideComesHome` under fairness |
| `ScanPreview` | one preview, local or remote; two operations, one teardown | `TypeOK`, `NobodyWalksForNobody`, `CancelledForAReason`, `OutcomeIsFinal`, `PauseIsNotSilence`, and `WaitsEnd` under fairness |
| `OperationLog` | two files in two nested folders; batches and pages of two; two dispatches; two troubles | `TypeOK`, `OfferedIsWhole`, `ReversedIsTrue`, `VerdictIsTrue`, `ChangedIsSpared`, and `RollingBackEnds` under fairness |
| `RetryForgetsSkips` | the same with one trouble | **violated**: `RolledBackIsReversed` |

Why the bounds are enough. Lane conflicts are pairwise, and three operations
over two lanes give every pair (disjoint, overlapping, containing) and a third
to race with; the rename and the operation on R are not known at the same
time (`ThreeAtATime`). Three sources with a window of two are the smallest selection in
which the driver prepares a source while a task is parked on a person: with two
sources the driver has prepared everything before it first polls. Two prompts
are needed for a late answer to meet another conflict. Deadlock is checked for
the manager; `VolumeCopy` stops when its operation is over and `DriveRelease`
when its calls are made, so there it is not. The runs of the gate have one
drive: gates of different drives share only the lock and the epoch counter, and
what a release of several drives adds is the wait for all of them, which the
module has and no property is about. Two releases are needed for one late stop
to serve two and for a release to give up behind another's late stop; the second
comes while the first waits or is owed an answer, beside a start or a resume.

`Landings` has two writes because the second one meets what a crash of the first
left, and sizes such that the second brings as many bytes as the original and a
file saved meanwhile as many as the first: the sweep's size check can be right and
can be fooled. Two faults are the smallest number with a crash inside the sweep
of an earlier crash, or a pull inside it; a second write comes with one crash and
no other fault. What stands at the name is a folder on the boot disk only. One
arrival sweep runs at a time and a drive is not back before the app has seen it
go. `ScanPreview` has two operations because one dialog's preview can be named
twice; the second one, a teardown and a pause do not all meet (`FewHands`). One
tick is enough for the walk to learn its owner before or after it is paused or
cancelled. Both modules stop when their writes and calls are made, so deadlock
is not checked there.

`OperationLog` has four rows in pages of two: the folders fill the newest page
and the files a second one, so every folder has to be carried past a page
boundary, and the outer folder has the lower number, so the order of the rows is
not the order of depth. Two dispatches give a retry after every verdict and two
calls that pass the gate together. Two troubles put a cancel, a crash or a pause
beside a change of the disk or a lost row; with one folder the properties were
also checked with three. A journal at rest stops, so deadlock is not checked.

### What the code does not keep

* `StoppedIsTerminal`: `cancel_write_operation` loads, validates, then stores.
  A Rollback that loaded `Running` before a Stop stored overwrites it, and what
  the person kept is deleted.
* `AnswersAreHeard`: a folder merge prompts and is answered; a third source
  clashes on the driver, which waits for the dispatch lock inline and polls
  nobody, so the answered task never runs again and never releases the lock.
* `AllCollapsesQueued`: the latch re-check under the dispatch lock reads the
  stack copy taken before the wait, so a queued conflict still prompts after an
  "...all" answer.
* `LedgerIsDisk`: a staged file whose task landed it and was dropped before the
  driver heard of it is in no ledger; a rollback leaves it at the destination.
* `RolledBackIsReversed`: a retry streams only rows that are still `done`, so it
  never looks at what the first rollback skipped, finds nothing it could not
  reverse and resolves to rolled back. That refuses any further rollback with the
  skipped files still there; `rollback.rs` (21-22) says a skipped item leaves the
  operation partially rolled back. The comment of `resolve_final_state` promises
  the same and that a skip will not clear on a retry.

Disagreements met on the way that no property above states. Each can be followed
in the model; the properties exempt exactly these cases, by a history variable or
a disjunct that names them.

* An admission pass reserves nothing for an operation it passes over, so one that
  needs two lanes may wait forever while single-lane operations alternate. The
  manager's test (`manager/tests.rs`:232) and `WO/DETAILS.md` say it does not
  starve; it starts when both lanes happen to be free together. `SingleLaneServed`
  is claimed of operations with one lane.
* A release waits for a start in flight but its stop holds no ticket, so a start
  asked while it runs is not held back unless the drive is marked as leaving.
  `file_system/volume/DETAILS.md` (773) says every start has to be serialized against
  every stop. When the drive is leaving it is (`LetGoMeansLetGo` holds); the hook
  that stands in for a missing approver marks nothing.
* A rollback that waits in the queue and is cancelled there never starts, so
  nothing takes the `rolling_back` mark off: every other rollback is refused until
  the next launch reconciles it (`orphaned`). `rollback_operation` resets the mark
  on a failed spawn so that the operation is not wedged (779-786).
* The gate reads the header and the mark is stored later through the writer, so
  two dispatches pass together and two inverses run, one after the other. The
  rechecks keep the second harmless to files; its verdict overwrites the first's.
  `rollback_operation` (785-786) calls the guard automatic.
* Between the first finalize and its correction, or after a crash there, a lossy
  journal is offered (`hasty`). When the correction itself is refused it stays
  offered: `capture.rs` (438-440) logs the failure, while 184-186 says a lossy
  journal never claims rollbackability (`uncorrected`).
* A folder whose `exists` fails (`rollback.rs` 617; `local_posix.rs` 325-333 answers
  false on any error), or a file on an unplugged mount that is still registered, is
  counted as already gone and reversed, and stands there when the volume answers
  again (`misread`).
* A file changed without changing its size, and locally within the second, passes
  for unchanged and is removed by the rollback (`alike`).
* A page that cannot be read counts as the last one: rows nobody looked at, and
  the verdict is rolled back (`brokeOff`).
* A retry of a partial rollback that is cancelled, or dies, with nothing reversed
  turns the operation back to rollbackable, although some of it was undone.
* `rollback.rs` (22-23) says a rollback that skipped everything returns to
  rollbackable; `resolve_final_state` lands it partially rolled back.
* An inverse's rows have no destination, so the redo of an undone move skips every
  item. Not in the model, which has copies only.
* A crash inside the launch sweep, after the log was truncated, or inside a
  compaction, forgets the boot disk's aside records (`forgotten`), although
  `in_flight_temps.rs` (76-82) gives the records exactly this job.
* `displace_destination` retires its record when the rename reports an error, and
  on a volume the rename may have been made (`mislaid`).
* A sweep of a drive that is pulled after it was located reads "not found",
  which counts as already gone, and retires the record of something that is still
  on the drive (`forgotten`). `discard_temp` has the same window when the drive is
  listed again before it asks.
* A record put off, or kept by a failing write, just after the drive's arrival was
  told waits for another arrival or launch (`unheard`).
* A sweep that gives an old aside its name back under a new overwrite of that
  name, or a person who saves there, is overwritten by the new write's landing
  rename (`clobbered`); `init_and_sweep` says a new copy can start underneath it
  safely. `restore_after_materialize_failure` removes whatever has the name.
* A task dropped inside `displace_destination`'s rename leaves an aside nobody in
  the process holds; the next launch brings it home. `DisplacedLedger` exists so
  that this cannot happen to an aside already made.
* A teardown that found no claim releases the preview after an operation claimed
  it: the operation reads as cancelled, although nobody cancelled it.
* `finish_claim` does not refresh the entry's age, so the age sweep may take a
  result between the end of the wait and the take; the operation scans again.
* An operation that was refused the claim still takes the result, and the owner
  then reads its own scan as cancelled. `scan_cache.rs` (87-91) says the second
  operation falls back to its own walk.
* A remote walk stopped through its owner's intent before the preview's own flag
  is set settles as an error, not as cancelled.
* `give_up` sets the flag without waking a walk that parked meanwhile.

### Fairness

Fairness is given only to steps that wait for nothing but a lock, a timer or the
program's own threads. No step that waits for a person, a volume or a mount that
may be dead is fair; where a liveness property needs such a step, its formula says
so as a premise.

`OpManager`: weak fairness of an admission pass's steps, of the insert that
follows an announcement and of the clean-up after a settle. An operation's work is
not fair: it may be parked on a conflict, paused, waiting for a scan, or hang with
its volume, for good. `SingleLaneServed` therefore supposes that each user of the
one lane keeps ending, and that none of them unwinds (a panicking task's guard
frees its lanes but starts no pass, so the queue waits for the next event). It
supposes nothing of operations on other lanes, which may all hang: that is what it
says beyond `NoStrandedOp`.

`VolumeCopy`: weak fairness of a driver that waits or has nothing left to prepare
(it sees a cancel, or its wind-down timer fires), and of finishing a call a thread
is inside. Nothing is assumed of people nor of the destination: preparing a source,
a chunk, the sweep after the loop, keeping and undoing all await it without a
deadline. So `WindsDown` claims, of a cancel that reaches a driver that waits on its
tasks, that the driver stops waiting for them; how long the sweep and the reversal
after it take is the destination's affair (`cleanup.rs` 286-292 says so), and a driver
that prepares a source is the case `AnswersAreHeard` is about. That run uses
`BestCaseSpec`, in which the destination answers whatever is asked of it: the copy
hangs even so. `DriveRelease`: weak
fairness of whoever holds a ticket and of the stop threads, which are OS threads
or spawned tasks with nothing to wait for but the index; that an index call
returns is assumed of the index. Nothing is assumed of calls not yet made, of
sleepers (a wake-up may come only with the deadline) or of an eject. `Landings`:
weak fairness of the launch's steps, the registry's announcements, a compaction's
appends and the sweep threads; a write may stop at any call and nothing brings a
drive back.
`AsideComesHome` is claimed of a process that lives and a drive that stays in.
`ScanPreview`: strong fairness of time passing in silence (a minute without a count
happens if it can happen again and again), weak fairness of the watchdog's task,
of a thread that left its gate or its tree, and of each operation's task. Nothing
is assumed of a walk that walks, since a syscall on a dead mount never returns;
`WaitsEnd` holds because the watchdog does not need it to.
`OperationLog`: weak fairness of the writer thread, of the count's comparison, of a
dispatch past the gate (one synchronous call) and of the reversal's own steps
between two calls on the destination. Those calls (`AtDestination`: the metadata,
the list, the removals) have no deadline and are not fair, nor is the copy, the
grant of a lane, or anything people, volumes or crashes do. `RollingBackEnds`
supposes that the reversal does not stay in such a call for good, that nobody stays
queued for good, and that nobody leaves it paused.

## What is proved

A theorem here is about `Spec` with every value of the constants its module's
ASSUMEs admit. TLC evaluates those assumptions in every run. They say that
capacities and bounds are natural numbers, that operations, drives and rows are
finitely many, that calls of different kinds are different, that a sentinel is not
one of the values it stands beside, and, of the journal, that a folder's row comes
after every file's, as the copy's ledger writes them. The bounds on faults, clicks and prompts are constants too,
so a theorem covers every number of them.

All proofs have the same layout. A type invariant comes first, strengthened by what
types alone do not say. Each further invariant is proved from the ones before it:
a lemma for `Init`, a lemma for a step with one step per action, and a temporal
step that joins them. A module whose actions are many first states what *kinds* of
step there are (`SharedStep`, `PreviewStep`, `NextIs`), so that each invariant looks
at a kind and not at its actions.

### The operation manager (`OpManagerProofs`)

| Theorem | Property |
|---|---|
| `TypeCorrect` | `TypeOK` |
| `LaneExclusion` | `LaneExclusive` |
| `LaneTable` | `LaneTableExact` |
| `Guarded` | `WorkIsGuarded` |
| `NothingLeft` | `NothingOutlivesIt` |
| `OrderCorrect` | `OrderListsLive` |
| `NothingStranded` | `NoStrandedOp` |
| `NobodyOvertakes` | `NoOvertaking` |
| `Refinement` | `ImplementsLaneLock` |

None of these is inductive alone. The invariant is
`IInv == TypeOK /\ LifeInv /\ LanesInv /\ MapsInv`:

* `LifeInv` ties the record to its threads: a task body exists only for a held
  record, a record admitted and not launched is carried by exactly one pass.
  Without it a second `Launch` or a `Settle` of a removed record cannot be
  excluded.
* `LanesInv` says that only held records reserve lanes, that they reserve
  exactly what they need, and that a lane's count is one exactly when some
  record holds it. `LaneExclusive` and `LaneTableExact` follow; the second needs
  the finite-set theorems for the cardinality.
* `MapsInv` says which of `stateMap`, `statusCache` and `claims` cover an
  operation at each point of its life.

The refinement maps each step to a step of `LaneLock` or to a stutter (`LockPhase`).
`OrderCorrect` rests on lemmas about removing from and appending to a list of
distinct ids, `NothingStranded` on the fact that a step frees lanes only
together with a pass that is due. `NobodyOvertakes` is about pairs: while the later
one works, the earlier one that needs no more lanes is not queued. A pass walks the
whole list from its head, so when it comes to the later one, each earlier one still
queued needs a lane that somebody holds (`AdmitInTurn`); a new record joins behind
all others (`JoinInTurn`) and a record that leaves changes no order (`StillInTurn`).

### The concurrent copy (`VolumeCopyProofs`)

| Theorem | Property |
|---|---|
| `TypeCorrect` | `TypeOK` |
| `FittingAnswers` | `AnswerFitsPrompt` |
| `WakeupsArrive` | `NoLostWakeup` |
| `OneQuestionAtATime` | `OneQuestion` |
| `RollbackReach` | `OnlyUnheardRemain` (stated in the proof module) |

`OneQuestion` needs `QueueInv`: the queue of the dispatch lock lists exactly the
agents that wait for it or own it, each once, and whoever has cleared the cancel
check or is parked on a person is its head. A queue without repetitions is what
makes "the owner leaves" remove one place and no other (`LeaveQueue`).

`RollbackReach` bounds the finding `LedgerIsDisk`. With `WindowInv` and `LedgerInv`
(what landed and is unclaimed belongs to a task that landed it or is ready to tell)
it shows that a settled copy accounts for every file on the disk except those that
landed while nobody polled their task: the flaw the run shows is the whole of it.

### The scan preview (`ScanPreviewProofs`)

| Theorem | Property |
|---|---|
| `TypeCorrect` | `TypeOK` |
| `NobodyLeftWalking` | `NobodyWalksForNobody` |
| `OneOutcome` | `OutcomeIsFinal` |
| `PausesAreSpared` | `PauseIsNotSilence` |
| `CancelsHaveReasons` | `CancelledForAReason` |

`PublishInv`: a publisher on its way to the entry has won the compare-and-swap,
there is one, and the entry is not settled before it comes. `TeardownInv`: a dialog
about to drop the entry has told the walk or met a claimed outcome. `ClockInv`:
the parked flag goes down only after the clock was restarted. For the last theorem
`OwnerInv` says who the entry names while nobody disturbed it; its second half
(two operations hold the preview at once only after a third took its answer) is
what makes it inductive.

### The journal (`OperationLogProofs`, `OperationLogVerdictProofs`)

| Theorem | Property |
|---|---|
| `TypeCorrect` | `TypeOK` |
| `ReversalOnRecord` | `ReversedIsTrue` |
| `ChangesAreSpared` | `ChangedIsSpared` |
| `JournalIsWhole` | `OfferedIsWhole` |
| `VerdictIsRight` | `VerdictIsTrue` |

Everything hangs on what may be in the writer's channel, so the invariants
quantify over its positions. `ProtocolInv`: whoever sent outcomes or a
mark is still waiting for its turn, at most one message carries outcomes and each
inverse has at most one mark in it. `RecordInv`: what a message of outcomes claims is
gone from the disk, or was taken for gone (`misread`), and its inverse's rows are on record or *ahead* of it in the
channel, which is the order `Flush` sends them in and the reason a crash between
the two tells the truth. `SpareInv`: a removal under way is of a thing that was not
changed when it was looked at, or whose change the snapshot does not show (`alike`).
`JournalInv`: nobody acts on a journal whose count has not been compared, unless
`hasty`, and a lossy one that was compared is not offered, unless `uncorrected`.

`VerdictIsRight` needs two more. `SearchInv`: while a reversal runs, every row that
is still `done` is in its hand, on the page, among the folders it carries, or below
where the next page begins; so at the verdict none is left. `CleanInv` holds as long
as there was no trouble at all: everything made is in the journal or on its way,
what is rolled back is gone and what is gone will be rolled back; the second half
of `VerdictIsTrue` follows, and it is not inductive without the disk's side
(`GoneInv`). Pages are chosen by least and greatest elements of finite sets, which
the library's well-founded induction gives (`Least`, `Greatest`).

### The drive release gate (`DriveReleaseProofs`, `DriveReleaseTrustProofs`)

| Theorem | Property |
|---|---|
| `TypeCorrect` | `TypeOK` |
| `TicketHasOneHolder` | `OneHolder` |
| `WakeupsArrive` | `NoLostWakeup` |
| `DisableIsFinal` | `DisableHasLastWord` |
| `ReleasesAreBelieved` | `LetGoMeansLetGo` |

`TicketInv` says of each drive which thread holds its ticket, that the gate names
its kind, and that a release is queued for a late stop only while the ticket is out.
`WakeInv` says of each sleeper that what it waits for still stands, or that an
eject that landed has its notify to come; it is what could fail at each of the five
reasons to sleep on the one condvar. `LastInv` adds, for `DisableIsFinal`, who could
still revive the index after a disable and why each of them is too late: it read an
epoch the disable has moved. `TrustInv` is the long one: for each release and drive
it follows a stop that is asked for, runs, runs late or has answered, and says what
of starts, resumes and the index can stand beside it in each case.

### Writes and the in-flight ledger (`LandingsProofs`)

| Theorem | Property |
|---|---|
| `TypeCorrect` | `TypeOK` |
| `OriginalIsKept` | `OriginalSurvives` |
| `NameIsWhole` | `FinalNameWhole` |
| `LiveIsSpared` | `SweepSparesLive` |
| `AsidesAnswered` | `AsideIsRecorded` |
| `CommittedIsSpared` | `CommittedUnswept` |

The proof first says what a step *is*. A write's step moves it from one call to
another with one thing owed to the ledger (`StepMoves`) and moves contents by one
rename or removal, one lemma per kind of call; a ledger's step changes the store, the
hands of the sweeps and the disk in one of a few ways (`LedgerStore`,
`LedgerDisks`). The invariants are then proved over those kinds of step:

* `TypeInv` has, beside the types, that no place but the ones that stand for many
  holds two things (a rename must not hide a content), which disk a kind of write
  can be on, and that the log together with an unfinished compaction is what the
  store holds.
* `NumberInv`: nothing runs ahead of the number of the write in hand: no record, no
  temp and no aside is of a write to come. Fresh names are why a sweep of old
  records cannot meet a new write.
* `SpareInv`: a record waiting for a drive or in a sweep's hand is not of what the
  live write uses, the two sweeps hold disjoint sets, and a record owed to the
  ledger is in nobody's hand yet.
* `AsideInv`: a record exists before the rename it is about, and is retired only
  when the rename has been undone, answered or is one of the exempted cases.
* `WholeInv`: what stands at the name, or stood there and was moved aside, is whole
  or a folder, and a write about to land its temp has filled it.
* `OwnedInv`: what is shown at the name is the person's or a finished write's,
  except a folder that still fills and the placeholder of a Rename answer.
* `SurvivalInv`, for the original: a sweep that is about to remove an aside has seen
  a replacement stand whole at the name, and while a folder fills, everything it
  displaced stays aside. Without the first, the removal of an aside destroys the
  only copy; without the second, an undone folder cannot give back what it took.
* `CommitInv`: from the moment a staged write may clear the name it reserved, no record of its
  temp is in the log, a hand or a queue, nor will one be written. `CommittedIsSpared`
  is an action property and follows from it.

`hasty`, `brokeOff`, `forgotten`, `mislaid` and `clobbered` are the cases of "What the
code does not keep" that these safety properties exempt. That nothing else needs an
exemption is part of what the theorems say.

### Only model-checked

Liveness: `SingleLaneServed`, `WindsDown`, `LateAnswer`, `AsideComesHome`,
`WaitsEnd` and `RollingBackEnds`. The prover has no rules for fairness and ENABLED, so
these stand on the runs. The five violated properties are refuted by their
counterexamples and need no proof.

## Not modelled, and why

The components table of `PROJECT.json` has every part with its reason. In
short: wire protocols, disk I/O and rendering are environment; the owners of a drive's resume, the quit gate, the listing cache, the agent's
proposals and the drive index have state machines of their own and come next or
are out of scope. Of the modelled parts: staging folders and temps of the older
log format, the volume's safe-replace finalize and atomic replace, and the reap of
other sessions' temps by age are not in `Landings`; the compress estimate and the
preview's totals are not in `ScanPreview`; reversals of moves, renames and trash, undo
of several operations and retention are not in `OperationLog`; the manager's
snapshot and its retained failures are in `OpManager` without a property about the
rows a window lists. Durability is not modelled: a line
appended is a line a crash of the process leaves, as the page cache does; a power
loss is another matter.

## Plan

In order of what a mistake would cost:

1. `OpManager` with `LaneLock` (done): the queue everything runs through.
2. `LiveState` and `VolumeCopy` (done for one concurrent copy); next the outcome
   of a late rollback (`PostLoop`), the row and gate of a paused operation, and
   a prompt armed after a cancel.
3. `DriveRelease` (done for the gate). Next `UnmountApprover`: the owners'
   records and the disk-wide eject flight composed with the gate, where the
   question is liveness: what was stopped is handed back unless somebody else
   had a say.
4. `ScanPreview` (done).
5. `InFlight` and `Landings` (done for one name on one disk); next a folder with
   several names, and the safe-replace finalize.
6. `OperationLog` (done for a copy); next `restore_move` with its occupied target and
   self-collision, and the undo of a batch newest first.
7. Proofs (done for every safety and action property of the passing runs). Next: an
   abstract specification of a landing (the name holds the old or the new, never
   neither) and of the ticket, with the refinement proved step by step; the
   invariants of the modules that come next.
8. The agent's proposals, the quit gate and the busy set's emission.

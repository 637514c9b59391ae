----------------------------- MODULE OpManager ------------------------------
(***************************************************************************)
(* The single coordinator every write operation goes through: a registry   *)
(* of operations, one global FIFO queue, and a table of lanes.             *)
(*                                                                         *)
(* The manager's own state sits under one mutex, so every locked section   *)
(* is one action.  What the code does OUTSIDE the lock is a separate       *)
(* action, because another thread can run in between: the registration     *)
(* that precedes the record, the status-cache registration and spawn that  *)
(* follow an admission, and the clean-up that follows a removal.           *)
(***************************************************************************)
EXTENDS Integers, Sequences, FiniteSets

CONSTANTS
    Managed,          \* queued operations (copy, move, delete, trash, ...)
    Instant,          \* inline operations (rename, mkdir, mkfile)
    Lanes,            \* lane keys
    LanesOf,          \* LanesOf[o]: the lanes a managed operation needs
    Previewed,        \* operations confirmed from a dialog with a scan preview
    Panics,           \* operations whose task may unwind
    FailureCapacity,  \* how many failed rows stay readable
    NoOp              \* no operation

Ops == Managed \cup Instant

ASSUME OpsAssumption == Managed \cap Instant = {} /\ IsFiniteSet(Ops)
ASSUME LanesAssumption == LanesOf \in [Managed -> SUBSET Lanes]
ASSUME InputsAssumption == Previewed \subseteq Managed /\ Panics \subseteq Managed
ASSUME CapacityAssumption == FailureCapacity \in Nat \ {0}
ASSUME NoOpAssumption == NoOp \notin Ops

LaneBudget == 1

VARIABLES
    status,       \* lifecycle of each record; "absent" when there is none
    order,        \* ids of the live records, in registration order
    laneUse,      \* lane -> how many records hold it
    reserved,     \* the lanes a record holds
    failures,     \* retained failures, oldest first
    stateMap,     \* ids in WRITE_OPERATION_STATE
    statusCache,  \* ids in OPERATION_STATUS_CACHE: what the eject guard reads
    claims,       \* operations that still own a claimed scan preview
    reg,          \* the thread that registers the operation
    task,         \* the operation's own task
    carry,        \* what a pass admitted and has not launched yet
    panicFreed    \* lanes were freed by an unwinding task, no pass since

mgrVars == <<status, order, laneUse, reserved, failures>>
mapVars == <<stateMap, statusCache, claims>>
vars == <<status, order, laneUse, reserved, failures, stateMap, statusCache,
          claims, reg, task, carry, panicFreed>>

Statuses == {"absent", "queued", "running", "paused"}
RegStates == {"idle", "announced", "pass"}
TaskStates == {"none", "arming", "body", "settling", "unwinding", "dropped", "pass"}

\* A pass runs on a thread: the one that registers an operation, or the one
\* on which an operation settles.
Passers == {"reg", "task"} \X Managed

InPass(p) == IF p[1] = "reg" THEN reg[p[2]] = "pass" ELSE task[p[2]] = "pass"

Live(o) == status[o] # "absent"
Held(o) == status[o] \in {"running", "paused"}

\* The ids are fresh UUIDs: an id is in use while anything still names it.
Unused(o) ==
    /\ status[o] = "absent" /\ task[o] = "none" /\ reg[o] = "idle"
    /\ \A i \in 1..Len(failures) : failures[i] # o

\* `order.retain(|id| id != o)`; an id occurs once (OrderListsLive).
Without(s, o) ==
    IF \E i \in 1..Len(s) : s[i] = o
    THEN LET i == CHOOSE j \in 1..Len(s) : s[j] = o
         IN  SubSeq(s, 1, i - 1) \o SubSeq(s, i + 1, Len(s))
    ELSE s

\* Mutant of LaneFree: one more holder than the budget.
LaneFree_OffByOne(l) == laneUse[l] <= LaneBudget

LaneFree(l) == laneUse[l] < LaneBudget

Reserve(o) == laneUse' = [l \in Lanes |->
    IF l \in LanesOf[o] THEN laneUse[l] + 1 ELSE laneUse[l]]

\* saturating_sub: a count never goes below zero
Release(o) == laneUse' = [l \in Lanes |->
    IF l \in reserved[o] /\ laneUse[l] > 0 THEN laneUse[l] - 1 ELSE laneUse[l]]

Admissible(o) == status[o] = "queued" /\ \A l \in LanesOf[o] : LaneFree(l)

Init ==
    /\ status = [o \in Ops |-> "absent"]
    /\ order = <<>>
    /\ laneUse = [l \in Lanes |-> 0]
    /\ reserved = [o \in Ops |-> {}]
    /\ failures = <<>>
    /\ stateMap = {} /\ statusCache = {} /\ claims = {}
    /\ reg = [o \in Managed |-> "idle"]
    /\ task = [o \in Ops |-> "none"]
    /\ carry = [p \in Passers |-> NoOp]
    /\ panicFreed = FALSE

-----------------------------------------------------------------------------
(* Registration: spawn_managed                                             *)

\* The live state is published and the preview claimed before the record
\* exists; the claim may miss (unknown id, or another operation owns it).
Announce(o) ==
    /\ reg[o] = "idle" /\ Unused(o)
    /\ reg' = [reg EXCEPT ![o] = "announced"]
    /\ stateMap' = stateMap \cup {o}
    /\ \/ o \in Previewed /\ claims' = claims \cup {o}
       \/ claims' = claims
    /\ UNCHANGED <<mgrVars, statusCache, task, carry, panicFreed>>

InsertRecord(o) ==
    /\ reg[o] = "announced"
    /\ status' = [status EXCEPT ![o] = "queued"]
    /\ order' = Append(order, o)
    /\ reg' = [reg EXCEPT ![o] = "pass"]
    /\ UNCHANGED <<laneUse, reserved, failures, mapVars, task, carry, panicFreed>>

-----------------------------------------------------------------------------
(* One admission pass: run_admission_pass                                  *)

\* Mutant of AdmitAt: any operation that can run, not the oldest.
AdmitAt_AnyOrder(p, i) ==
    LET o == order[i] IN
    /\ InPass(p) /\ carry[p] = NoOp /\ Admissible(o)
    /\ Reserve(o)
    /\ reserved' = [reserved EXCEPT ![o] = LanesOf[o]]
    /\ status' = [status EXCEPT ![o] = "running"]
    /\ carry' = [carry EXCEPT ![p] = o]
    /\ UNCHANGED <<order, failures, mapVars, reg, task, panicFreed>>

\* Under the lock: the oldest queued operation whose every lane is free
\* takes all of them and becomes Running.
AdmitAt(p, i) ==
    LET o == order[i] IN
    /\ InPass(p) /\ carry[p] = NoOp
    /\ Admissible(o)
    /\ \A j \in 1..(i - 1) : ~Admissible(order[j])
    /\ Reserve(o)
    /\ reserved' = [reserved EXCEPT ![o] = LanesOf[o]]
    /\ status' = [status EXCEPT ![o] = "running"]
    /\ carry' = [carry EXCEPT ![p] = o]
    /\ UNCHANGED <<order, failures, mapVars, reg, task, panicFreed>>

Admit(p) == \E i \in 1..Len(order) : AdmitAt(p, i)

\* Mutant of Launch: spawns without telling the eject guard.
Launch_Unregistered(p) ==
    /\ carry[p] # NoOp
    /\ task' = [task EXCEPT ![carry[p]] = "body"]
    /\ carry' = [carry EXCEPT ![p] = NoOp]
    /\ UNCHANGED <<mgrVars, mapVars, reg, panicFreed>>

\* Outside the lock: mark the volumes busy, then spawn the deferred start.
Launch(p) ==
    /\ carry[p] # NoOp
    /\ statusCache' = statusCache \cup {carry[p]}
    /\ task' = [task EXCEPT ![carry[p]] = "body"]
    /\ carry' = [carry EXCEPT ![p] = NoOp]
    /\ UNCHANGED <<mgrVars, stateMap, claims, reg, panicFreed>>

\* A pass ends in the locked section that finds nothing to admit.
PassEnds(p) ==
    /\ InPass(p) /\ carry[p] = NoOp
    /\ \A i \in 1..Len(order) : ~Admissible(order[i])
    /\ IF p[1] = "reg"
       THEN reg' = [reg EXCEPT ![p[2]] = "idle"] /\ UNCHANGED task
       ELSE task' = [task EXCEPT ![p[2]] = "none"] /\ UNCHANGED reg
    /\ panicFreed' = FALSE
    /\ UNCHANGED <<mgrVars, mapVars, carry>>

-----------------------------------------------------------------------------
(* The end of an operation                                                 *)

\* The task's first act is to wait out the preview it claimed; only then
\* does it write, and settle.
EndScanWait(o) ==
    /\ task[o] = "body" /\ o \in claims
    /\ claims' = claims \ {o}
    /\ UNCHANGED <<mgrVars, stateMap, statusCache, reg, task, carry, panicFreed>>

\* Mutant of FreeRecord: forgets the lane table.
FreeRecord_LeaksLanes(o) ==
    /\ status' = [status EXCEPT ![o] = "absent"]
    /\ order' = Without(order, o)
    /\ reserved' = [reserved EXCEPT ![o] = {}]
    /\ UNCHANGED <<laneUse, failures, mapVars, reg, carry>>

\* The locked section of free_and_remove.
FreeRecord(o) ==
    /\ status' = [status EXCEPT ![o] = "absent"]
    /\ order' = Without(order, o)
    /\ Release(o)
    /\ reserved' = [reserved EXCEPT ![o] = {}]
    /\ UNCHANGED <<failures, mapVars, reg, carry>>

Settle(o) ==
    /\ o \in Managed /\ task[o] = "body" /\ o \notin claims
    /\ FreeRecord(o)
    /\ task' = [task EXCEPT ![o] = "settling"]
    /\ UNCHANGED panicFreed

\* ManagedTaskGuard's Drop: frees, and never admits.
Panic(o) ==
    /\ o \in Panics /\ task[o] = "body"
    /\ FreeRecord(o)
    /\ task' = [task EXCEPT ![o] = "unwinding"]
    /\ panicFreed' = TRUE

\* Mutant of Cleanup: a settle that admits nobody.
Cleanup_NoPass(o) ==
    /\ task[o] \in {"settling", "unwinding"}
    /\ claims' = claims \ {o}
    /\ stateMap' = stateMap \ {o}
    /\ statusCache' = statusCache \ {o}
    /\ task' = [task EXCEPT ![o] = "none"]
    /\ UNCHANGED <<mgrVars, reg, carry, panicFreed>>

\* After the lock: abandon the claim, forget the live state, drop the busy
\* mark.  Only a healthy settle goes on to an admission pass.
Cleanup(o) ==
    /\ task[o] \in {"settling", "unwinding"}
    /\ claims' = claims \ {o}
    /\ stateMap' = stateMap \ {o}
    /\ statusCache' = statusCache \ {o}
    /\ task' = [task EXCEPT ![o] = IF @ = "settling" THEN "pass" ELSE "none"]
    /\ UNCHANGED <<mgrVars, reg, carry, panicFreed>>

\* Mutant of CancelIfQueued: leaves the id in the order.
CancelIfQueued_KeepsOrder(o) ==
    /\ status[o] = "queued"
    /\ status' = [status EXCEPT ![o] = "absent"]
    /\ task' = [task EXCEPT ![o] = "dropped"]
    /\ UNCHANGED <<order, laneUse, reserved, failures, mapVars, reg, carry, panicFreed>>

\* cancel_if_queued, locked section: a record still Queued is dropped and
\* its deferred start never runs.
CancelIfQueued(o) ==
    /\ status[o] = "queued"
    /\ status' = [status EXCEPT ![o] = "absent"]
    /\ order' = Without(order, o)
    /\ task' = [task EXCEPT ![o] = "dropped"]
    /\ UNCHANGED <<laneUse, reserved, failures, mapVars, reg, carry, panicFreed>>

\* Mutant of DropCleanup: the scan the operation had claimed walks on.
DropCleanup_KeepsClaim(o) ==
    /\ task[o] = "dropped"
    /\ stateMap' = stateMap \ {o}
    /\ task' = [task EXCEPT ![o] = "none"]
    /\ UNCHANGED <<mgrVars, statusCache, claims, reg, carry, panicFreed>>

DropCleanup(o) ==
    /\ task[o] = "dropped"
    /\ claims' = claims \ {o}
    /\ stateMap' = stateMap \ {o}
    /\ task' = [task EXCEPT ![o] = "none"]
    /\ UNCHANGED <<mgrVars, statusCache, reg, carry, panicFreed>>

-----------------------------------------------------------------------------
(* Instant operations: run_instant                                         *)

InstantStart(o) ==
    /\ o \in Instant /\ status[o] = "absent" /\ task[o] = "none"
    /\ status' = [status EXCEPT ![o] = "running"]
    /\ order' = Append(order, o)
    /\ task' = [task EXCEPT ![o] = "arming"]
    /\ UNCHANGED <<laneUse, reserved, failures, mapVars, reg, carry, panicFreed>>

InstantRegister(o) ==
    /\ task[o] = "arming"
    /\ statusCache' = statusCache \cup {o}
    /\ task' = [task EXCEPT ![o] = "body"]
    /\ UNCHANGED <<mgrVars, stateMap, claims, reg, carry, panicFreed>>

\* The awaited call returned, panicked, or its future was dropped: the happy
\* path and InstantTaskGuard's Drop both free, and neither admits.
InstantEnds(o) ==
    /\ o \in Instant /\ task[o] = "body"
    /\ FreeRecord(o)
    /\ task' = [task EXCEPT ![o] = "unwinding"]
    /\ UNCHANGED panicFreed

-----------------------------------------------------------------------------
(* Pause, and the retained failures                                        *)

SetPaused(o) ==
    /\ Held(o)
    /\ status' = [status EXCEPT ![o] = IF @ = "running" THEN "paused" ELSE "running"]
    /\ UNCHANGED <<order, laneUse, reserved, failures, mapVars, reg, task, carry,
                   panicFreed>>

\* The error event lands from the operation's own task, normally while the
\* record is live; the code also provides for its landing after removal.
RecordFailure(o) ==
    /\ o \in Managed /\ task[o] \in {"body", "settling", "pass"}
    /\ \A i \in 1..Len(failures) : failures[i] # o
    /\ failures' = Append(IF Len(failures) = FailureCapacity THEN Tail(failures) ELSE failures, o)
    /\ UNCHANGED <<status, order, laneUse, reserved, mapVars, reg, task, carry,
                   panicFreed>>

DismissFailure(o) ==
    /\ \E i \in 1..Len(failures) : failures[i] = o
    /\ failures' = Without(failures, o)
    /\ UNCHANGED <<status, order, laneUse, reserved, mapVars, reg, task, carry,
                   panicFreed>>

DismissAllFailures ==
    /\ failures # <<>>
    /\ failures' = <<>>
    /\ UNCHANGED <<status, order, laneUse, reserved, mapVars, reg, task, carry,
                   panicFreed>>

-----------------------------------------------------------------------------
PassStep(p) == Admit(p) \/ Launch(p) \/ PassEnds(p)
ManagedStep(o) ==
    \/ Announce(o) \/ InsertRecord(o) \/ Settle(o) \/ Panic(o)
    \/ EndScanWait(o) \/ RecordFailure(o) \/ DismissFailure(o)
    \/ CancelIfQueued(o) \/ DropCleanup(o)
InstantStep(o) == InstantStart(o) \/ InstantRegister(o) \/ InstantEnds(o)
SharedStep(o) == Cleanup(o) \/ SetPaused(o)

Next ==
    \/ \E p \in Passers : PassStep(p)
    \/ \E o \in Managed : ManagedStep(o)
    \/ \E o \in Instant : InstantStep(o)
    \/ \E o \in Ops : SharedStep(o)
    \/ DismissAllFailures

\* What the manager does by itself gets done: the steps of a pass and of a
\* clean-up wait for nothing but the lock.  An operation's own work is not
\* fair: it may wait for a person's answer, a resume, a scan or a volume that
\* never answers.  Nor is anything a person does.
Fairness ==
    /\ \A p \in Passers : WF_vars(PassStep(p))
    /\ \A o \in Managed : WF_vars(InsertRecord(o)) /\ WF_vars(Cleanup(o) \/ DropCleanup(o))
    /\ \A o \in Instant : WF_vars(InstantRegister(o) \/ Cleanup(o))

Spec == Init /\ [][Next]_vars
FairSpec == Spec /\ Fairness

-----------------------------------------------------------------------------
(* Properties                                                              *)

TypeOK ==
    /\ status \in [Ops -> Statuses] /\ \A o \in Instant : status[o] # "queued"
    /\ order \in Seq(Ops)
    /\ laneUse \in [Lanes -> 0..LaneBudget]
    /\ reserved \in [Ops -> SUBSET Lanes]
    /\ failures \in Seq(Managed) /\ Len(failures) <= FailureCapacity
    /\ stateMap \subseteq Managed /\ statusCache \subseteq Ops /\ claims \subseteq Managed
    /\ reg \in [Managed -> RegStates]
    /\ task \in [Ops -> TaskStates]
    /\ carry \in [Passers -> Ops \cup {NoOp}]
    /\ panicFreed \in BOOLEAN

\* Two operations never hold one lane (manager.rs: "serialize within a
\* lane"), whatever threads run passes at the same time and however an
\* operation ended.
LaneExclusive ==
    \A o, p \in Ops : o # p => reserved[o] \cap reserved[p] = {}

\* The lane table counts exactly the holders: no exit path leaks a lane or
\* frees one twice (free_and_remove is reached from on_settled and a Drop).
LaneTableExact ==
    \A l \in Lanes : laneUse[l] = Cardinality({o \in Ops : l \in reserved[o]})

\* While an operation's own code runs, its record is live, its lanes are its
\* own and the eject guard knows its volumes.
WorkIsGuarded ==
    \A o \in Ops : task[o] = "body" =>
        /\ Held(o) /\ o \in statusCache
        /\ o \in Managed => o \in stateMap /\ reserved[o] = LanesOf[o]

\* Once nothing runs for an id any more, nothing is left behind under it: no
\* live state, no busy mark (the volume could never be ejected again), no
\* claimed scan walking for an operation that no longer exists.
NothingOutlivesIt ==
    \A o \in Managed :
        (~Live(o) /\ task[o] \in {"none", "pass"} /\ reg[o] # "announced")
            => o \notin stateMap \cup statusCache \cup claims

\* A queued operation whose lanes are all free is never forgotten: a pass is
\* running or about to run, unless only an unwinding task freed the lanes.
NoStrandedOp ==
    (\E o \in Managed : Admissible(o))
        => \/ \E p \in Passers : InPass(p)
           \/ \E o \in Managed : task[o] = "settling"
           \/ panicFreed

\* `order` lists exactly the live records, once each.
OrderListsLive ==
    /\ \A o \in Ops : Live(o) <=> \E i \in 1..Len(order) : order[i] = o
    /\ \A i, j \in 1..Len(order) : i # j => order[i] # order[j]

Before(o, p) == \E i, j \in 1..Len(order) : i < j /\ order[i] = o /\ order[j] = p

\* Nobody overtakes who was waiting for less: while an operation works that
\* was registered later and needs every lane an earlier one needs, the
\* earlier one is not waiting, whatever freed those lanes in between, on
\* whichever thread, and whoever left the queue.
NoOvertaking ==
    \A o, p \in Managed :
        (Before(o, p) /\ LanesOf[o] \subseteq LanesOf[p] /\ Held(p)) => status[o] # "queued"

SharesLane(o, p) == LanesOf[o] \cap LanesOf[p] # {}

\* A lane is held up only by its own users: an operation that needs one lane
\* leaves the queue as long as each operation that shares that lane keeps
\* ending and none of them unwinds, even when operations elsewhere are paused,
\* parked on a question or hung for good.
SingleLaneServed ==
    \A o \in Managed : Cardinality(LanesOf[o]) = 1 =>
        ((\A p \in Managed : SharesLane(o, p) =>
            []<>(task[p] # "body") /\ [](task[p] # "unwinding"))
         => (status[o] = "queued" ~> status[o] # "queued"))

\* The manager implements the abstract lane lock: all lanes or none, and
\* never two holders that conflict.
LockPhase == [o \in Managed |->
    IF Held(o) THEN "holding" ELSE IF Live(o) THEN "waiting" ELSE "idle"]

Lock == INSTANCE LaneLock WITH
    Client <- Managed, Lane <- Lanes, Wants <- LanesOf, phase <- LockPhase

ImplementsLaneLock == Lock!Spec
=============================================================================

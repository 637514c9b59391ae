----------------------------- MODULE LiveState ------------------------------
(***************************************************************************)
(* WriteOperationState: what one running write operation shares with       *)
(* everybody who acts on it from outside -- the operation's intent, its    *)
(* pause gate, the conflict it is asking a person about -- and the calls   *)
(* that change it.  Calls come from several threads at once (the windows'  *)
(* commands, the MCP executor, the quit gate), and nothing but the         *)
(* conflict slot has a lock around a whole call: every atomic access of    *)
(* cancel_write_operation is a step of its own.                            *)
(*                                                                         *)
(* The module declares state and actions; a driver module extends it.      *)
(***************************************************************************)
EXTENDS Integers, Sequences, FiniteSets

CONSTANTS
    Callers,      \* threads that can be inside a call at the same time
    Waiters,      \* who may park on the pause gate
    MaxPrompts,   \* bound: how many conflicts the operation raises
    MaxClicks,    \* bound: answers on their way at the same time
    NoMail        \* nothing was sent to the parked operation

ASSUME BoundsAssumption == MaxPrompts \in Nat /\ MaxClicks \in Nat
ASSUME NoMailAssumption == NoMail \notin
    [id : 1..MaxPrompts, reply : {"skip", "overwrite"}, all : BOOLEAN]

VARIABLES
    live,           \* the record exists and the state is registered
    intent,         \* the AtomicU8
    backendCancel,  \* the token every transition out of Running fires
    slot,           \* ConflictSlot; the id it holds is always `raised`
    raised,         \* how many conflicts were raised: the last ConflictId
    mail,           \* what the sender of conflict `raised` sent
    clicks,         \* answers given by a person and not delivered yet
    paused,         \* PauseGate.paused
    waiters,        \* parked on the gate until somebody notifies
    row,            \* the manager record: what the queue window shows
    calls           \* where each caller is inside its call

stateVars == <<live, intent, backendCancel, slot, raised, mail, clicks, paused,
               waiters, row, calls>>
slotVars == <<slot, raised, mail, clicks>>
gateVars == <<paused, waiters, row>>

Intents == {"running", "rollingBack", "stopped"}
Replies == {"skip", "overwrite"}
Clicks == [id : 1..MaxPrompts, reply : Replies, all : BOOLEAN]
CallSteps == {"idle", "storeRollback", "storeStop", "signal", "abandon", "wake",
              "shutGate", "openGate"}

StateInit ==
    /\ live = TRUE
    /\ intent = "running" /\ backendCancel = FALSE
    /\ slot = "idle" /\ raised = 0 /\ mail = NoMail /\ clicks = {}
    /\ paused = FALSE /\ waiters = {} /\ row = "running"
    /\ calls = [c \in Callers |-> "idle"]

StateTypeOK ==
    /\ live \in BOOLEAN /\ intent \in Intents /\ backendCancel \in BOOLEAN
    /\ slot \in {"idle", "awaiting", "answered"}
    /\ raised \in 0..MaxPrompts
    /\ mail \in Clicks \cup {NoMail}
    /\ clicks \subseteq Clicks
    /\ paused \in BOOLEAN /\ waiters \subseteq Waiters
    /\ row \in {"running", "paused"}
    /\ calls \in [Callers -> CallSteps]

IsCancelled == intent # "running"

Goto(c, step) == calls' = [calls EXCEPT ![c] = step]

-----------------------------------------------------------------------------
(* cancel_write_operation, and the quit gate's cancel_all                  *)

\* The transition is validated against a loaded value ...
CancelRead(c, rollback) ==
    /\ live /\ calls[c] = "idle"
    /\ \/ intent = "running"
       \/ intent = "rollingBack" /\ ~rollback
    /\ Goto(c, IF rollback THEN "storeRollback" ELSE "storeStop")
    /\ UNCHANGED <<live, intent, backendCancel, slotVars, gateVars>>

\* ... and stored by a separate plain store.
CancelStore(c) ==
    /\ calls[c] \in {"storeRollback", "storeStop"}
    /\ intent' = IF calls[c] = "storeRollback" THEN "rollingBack" ELSE "stopped"
    /\ Goto(c, "signal")
    /\ UNCHANGED <<live, backendCancel, slotVars, gateVars>>

CancelSignal(c) ==
    /\ calls[c] = "signal"
    /\ backendCancel' = TRUE
    /\ Goto(c, "abandon")
    /\ UNCHANGED <<live, intent, slotVars, gateVars>>

\* ConflictSlot::abandon drops the sender of a pending conflict.
CancelAbandon(c) ==
    /\ calls[c] = "abandon"
    /\ slot' = "idle"
    /\ Goto(c, "wake")
    /\ UNCHANGED <<live, intent, backendCancel, raised, mail, clicks, gateVars>>

\* Mutant of Wake: the cancel forgets whoever is parked on the gate.
Wake_OnlyResume(c) ==
    /\ calls[c] = "wake"
    /\ waiters' = IF paused THEN waiters ELSE {}
    /\ Goto(c, "idle")
    /\ UNCHANGED <<live, intent, backendCancel, slotVars, paused, row>>

\* PauseGate::wake notifies every parked waiter and leaves the flag alone;
\* a cancel and a resume both end with it.
Wake(c) ==
    /\ calls[c] = "wake"
    /\ waiters' = {}
    /\ Goto(c, "idle")
    /\ UNCHANGED <<live, intent, backendCancel, slotVars, paused, row>>

-----------------------------------------------------------------------------
(* pause_operation and resume_operation                                    *)

\* The record flips under the manager's lock; the gate follows outside it.
FlipRow(c) ==
    /\ live /\ calls[c] = "idle"
    /\ row' = IF row = "running" THEN "paused" ELSE "running"
    /\ Goto(c, IF row = "running" THEN "shutGate" ELSE "openGate")
    /\ UNCHANGED <<live, intent, backendCancel, slotVars, paused, waiters>>

ShutGate(c) ==
    /\ calls[c] = "shutGate"
    /\ paused' = TRUE
    /\ Goto(c, "idle")
    /\ UNCHANGED <<live, intent, backendCancel, slotVars, waiters, row>>

OpenGate(c) ==
    /\ calls[c] = "openGate"
    /\ paused' = FALSE
    /\ Goto(c, "wake")
    /\ UNCHANGED <<live, intent, backendCancel, slotVars, waiters, row>>

\* The call found no registered state: a pause or resume reaches nothing.
GateGone(c) ==
    /\ ~live /\ calls[c] \in {"shutGate", "openGate"}
    /\ Goto(c, "idle")
    /\ UNCHANGED <<live, intent, backendCancel, slotVars, gateVars>>

CallStep(c) ==
    \/ CancelStore(c) \/ CancelSignal(c) \/ CancelAbandon(c) \/ Wake(c)
    \/ live /\ ShutGate(c)
    \/ live /\ OpenGate(c)
    \/ GateGone(c)

Call(c) == FlipRow(c) \/ \E rollback \in BOOLEAN : CancelRead(c, rollback)

-----------------------------------------------------------------------------
(* Answering a conflict: resolve_write_conflict                            *)

\* A person answers the prompt that is up, on any of the windows showing it.
Click(reply, all) ==
    /\ live /\ slot = "awaiting" /\ Cardinality(clicks) < MaxClicks
    /\ clicks' = clicks \cup {[id |-> raised, reply |-> reply, all |-> all]}
    /\ UNCHANGED <<live, intent, backendCancel, slot, raised, mail, gateVars, calls>>

\* Mutant of Answer: applied to whatever is on screen.
Answer_AnyPrompt(k, listening) ==
    /\ live /\ k \in clicks
    /\ clicks' = clicks \ {k}
    /\ \/ /\ slot = "awaiting"
          /\ slot' = IF listening THEN "answered" ELSE "idle"
          /\ mail' = IF listening THEN k ELSE mail
       \/ /\ slot # "awaiting"
          /\ UNCHANGED <<slot, mail>>
    /\ UNCHANGED <<live, intent, backendCancel, raised, gateVars, calls>>

\* The answer reaches the operation only if it names the conflict that is
\* pending; a receiver that is gone leaves the slot idle.  Every other answer
\* (stale, second, nothing pending) changes nothing.
Answer(k, listening) ==
    /\ live /\ k \in clicks
    /\ clicks' = clicks \ {k}
    /\ \/ /\ slot = "awaiting" /\ k.id = raised
          /\ slot' = IF listening THEN "answered" ELSE "idle"
          /\ mail' = IF listening THEN k ELSE mail
       \/ /\ slot # "awaiting" \/ k.id # raised
          /\ UNCHANGED <<slot, mail>>
    /\ UNCHANGED <<live, intent, backendCancel, raised, gateVars, calls>>

-----------------------------------------------------------------------------
(* What a driver does with the shared state                                *)

\* ConflictSlot::arm mints the next id and replaces whatever was pending.
Arm ==
    /\ raised < MaxPrompts
    /\ raised' = raised + 1 /\ slot' = "awaiting" /\ mail' = NoMail
    /\ UNCHANGED <<live, intent, backendCancel, clicks, gateVars, calls>>

\* PauseGate: the flag and the stop test are read under the waiter's own
\* registration, so a notify after them is never missed.
Park(w) ==
    /\ paused /\ ~IsCancelled
    /\ waiters' = waiters \cup {w}
    /\ UNCHANGED <<live, intent, backendCancel, slotVars, paused, row, calls>>

\* Futures were dropped: a dropped waiter is no longer registered.
Unpark ==
    /\ waiters' = {}
    /\ UNCHANGED <<live, intent, backendCancel, slotVars, paused, row, calls>>

\* on_settled: the record goes and the state is forgotten.
Forget ==
    /\ live' = FALSE
    /\ UNCHANGED <<intent, backendCancel, slotVars, gateVars, calls>>
=============================================================================

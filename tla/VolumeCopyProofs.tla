-------------------------- MODULE VolumeCopyProofs --------------------------
(***************************************************************************)
(* Theorems about VolumeCopy, for any selection of sources, any window,    *)
(* any number of conflicts and of threads inside a call.                   *)
(***************************************************************************)
EXTENDS VolumeCopy, SequenceTheorems, TLAPS

-----------------------------------------------------------------------------
(* Types.  A driver that resolves a conflict resolves it for the source it *)
(* prepared last, and a prompt that is up was raised.                      *)

RaisedInv == slot # "idle" => raised > 0
ResolveInv == drv = "resolve" => next > 1

TypeInv == TypeOK /\ RaisedInv /\ ResolveInv

LEMMA InitTypeInv == Init => TypeInv
<1> SUFFICES ASSUME Init PROVE TypeInv
  OBVIOUS
<1>1. lockQ \in Seq(Agents)
  BY EmptySeq DEF Init
<1>2. StateTypeOK /\ RaisedInv
  <2>1. raised \in 0..MaxPrompts /\ mail \in Clicks \cup {NoMail} /\ clicks \subseteq Clicks
    BY BoundsAssumption DEF Init, StateInit
  <2>2. calls \in [Callers -> CallSteps]
    BY DEF Init, StateInit, CallSteps
  <2> QED BY <2>1, <2>2 DEF Init, StateInit, StateTypeOK, RaisedInv, Intents
<1>3. next \in 1..(N + 1) /\ ResolveInv
  BY SourcesAssumption DEF Init, ResolveInv
<1>4. /\ drv \in DrvPhases /\ draining \in BOOLEAN
      /\ task \in [Sources -> TaskPhases] /\ ask \in [Agents -> AskPhases]
      /\ copy \in [Agents -> Latches] /\ latch \in Latches
      /\ landed \subseteq Sources /\ ledger \subseteq landed
  BY DEF Init, DrvPhases, TaskPhases, AskPhases, Latches
<1>5. asked \in [Agents -> 0..MaxPrompts]
  BY BoundsAssumption DEF Init
<1> QED BY <1>1, <1>2, <1>3, <1>4, <1>5 DEF TypeInv, TypeOK

\* Whatever a thread outside the copy does, the shared state stays well typed.
LEMMA OutsideType ==
    ASSUME StateTypeOK, RaisedInv, Outside
    PROVE  (StateTypeOK /\ RaisedInv)'
<1> USE DEF StateTypeOK, RaisedInv, slotVars, gateVars
<1>1. ASSUME NEW c \in Callers, NEW rollback \in BOOLEAN, CancelRead(c, rollback)
      PROVE  (StateTypeOK /\ RaisedInv)'
  BY <1>1 DEF CancelRead, Goto, CallSteps
<1>2. ASSUME NEW c \in Callers, FlipRow(c) PROVE (StateTypeOK /\ RaisedInv)'
  BY <1>2 DEF FlipRow, Goto, CallSteps
<1>3. ASSUME NEW c \in Callers, CallStep(c) PROVE (StateTypeOK /\ RaisedInv)'
  <2>1. CASE CancelStore(c)
    BY <2>1 DEF CancelStore, Goto, CallSteps, Intents
  <2>2. CASE CancelSignal(c)
    BY <2>2 DEF CancelSignal, Goto, CallSteps
  <2>3. CASE CancelAbandon(c)
    BY <2>3 DEF CancelAbandon, Goto, CallSteps
  <2>4. CASE Wake(c)
    BY <2>4 DEF Wake, Goto, CallSteps
  <2>5. CASE ShutGate(c)
    BY <2>5 DEF ShutGate, Goto, CallSteps
  <2>6. CASE OpenGate(c)
    BY <2>6 DEF OpenGate, Goto, CallSteps
  <2>7. CASE GateGone(c)
    BY <2>7 DEF GateGone, Goto, CallSteps
  <2> QED BY <1>3, <2>1, <2>2, <2>3, <2>4, <2>5, <2>6, <2>7 DEF CallStep
<1>4. ASSUME NEW reply \in Replies, NEW all \in BOOLEAN, Click(reply, all)
      PROVE  (StateTypeOK /\ RaisedInv)'
  <2>1. raised \in 1..MaxPrompts
    BY <1>4, BoundsAssumption DEF Click
  <2> QED BY <1>4, <2>1 DEF Click, Clicks
<1>5. ASSUME NEW k \in clicks, Answer(k, Listening) PROVE (StateTypeOK /\ RaisedInv)'
  <2>1. mail' \in Clicks \cup {NoMail} /\ slot' \in {"idle", "awaiting", "answered"}
    BY <1>5 DEF Answer
  <2> QED BY <1>5, <2>1 DEF Answer
<1> QED BY <1>1, <1>2, <1>3, <1>4, <1>5 DEF Outside, Call

LEMMA LeaveType ==
    ASSUME TypeOK, NEW a \in Agents, Leave(a)
    PROVE  ask' \in [Agents -> AskPhases] /\ lockQ' \in Seq(Agents)
<1>1. lockQ # <<>> => Tail(lockQ) \in Seq(Agents)
  BY HeadTailProperties DEF TypeOK
<1> QED BY <1>1 DEF Leave, OwnsLock, TypeOK, AskPhases

LEMMA LeaveLoopType ==
    ASSUME TypeOK, RaisedInv, LeaveLoop
    PROVE  /\ StateTypeOK' /\ RaisedInv' /\ drv' = "post"
           /\ ask' \in [Agents -> AskPhases] /\ lockQ' \in Seq(Agents)
           /\ ledger' \subseteq landed
<1>1. lockQ' \in Seq(Agents)
  BY EmptySeq DEF LeaveLoop
<1> QED BY <1>1 DEF LeaveLoop, HandOver, Unpark, slotVars, TypeOK, StateTypeOK, RaisedInv, AskPhases

LEMMA ResolveType ==
    ASSUME TypeInv, NEW a \in Agents, Polled(a), NEW reply \in Replies,
           NEW back \in Latches, Resolve(a, reply, back)
    PROVE  TypeInv'
<1>1. ask' \in [Agents -> AskPhases] /\ lockQ' \in Seq(Agents)
  BY LeaveType DEF Resolve, TypeInv
<1>2. task' \in [Sources -> TaskPhases] /\ (drv' = "fill" \/ drv' = drv)
  <2>1. CASE a = Driver
    <3>1. next - 1 \in Sources
      BY <2>1, SourcesAssumption DEF Polled, TypeInv, TypeOK, ResolveInv, Sources
    <3> QED BY <2>1, <3>1 DEF Resolve, TypeInv, TypeOK, TaskPhases
  <2>2. CASE a # Driver
    BY <2>2 DEF Resolve, TypeInv, TypeOK, TaskPhases
  <2> QED BY <2>1, <2>2
<1>3. StateTypeOK' /\ RaisedInv'
  BY DEF Resolve, stateVars, slotVars, TypeInv, TypeOK, StateTypeOK, RaisedInv
<1>4. drv' \in DrvPhases /\ ResolveInv' /\ UNCHANGED <<next, draining, asked, landed, ledger>>
  BY <1>2 DEF Resolve, diskVars, TypeInv, TypeOK, ResolveInv, DrvPhases
<1>5. copy' \in [Agents -> Latches] /\ latch' \in Latches
  BY DEF Resolve, TypeInv, TypeOK
<1> QED BY <1>1, <1>2, <1>3, <1>4, <1>5 DEF TypeInv, TypeOK

LEMMA RefuseType ==
    ASSUME TypeInv, NEW a \in Agents, Refuse(a)
    PROVE  TypeInv'
<1>1. CASE a = Driver
  <2>1. LeaveLoop /\ UNCHANGED task
    BY <1>1 DEF Refuse
  <2> QED BY <2>1, LeaveLoopType DEF Refuse, TypeInv, TypeOK, ResolveInv, DrvPhases
<1>2. CASE a # Driver
  <2>1. ask' \in [Agents -> AskPhases] /\ lockQ' \in Seq(Agents)
    BY <1>2, LeaveType DEF Refuse, TypeInv
  <2> QED BY <1>2, <2>1
          DEF Refuse, stateVars, slotVars, TypeInv, TypeOK, StateTypeOK, RaisedInv, ResolveInv, TaskPhases
<1> QED BY <1>1, <1>2

LEMMA AskStepType ==
    ASSUME TypeInv, NEW a \in Agents, AskStep(a)
    PROVE  TypeInv'
<1> USE DEF stateVars, slotVars, gateVars, driverVars, diskVars, TypeInv, TypeOK, RaisedInv, ResolveInv
<1>1. CASE ReadLatch(a)
  BY <1>1 DEF ReadLatch, AskPhases, StateTypeOK
<1>2. CASE Latched(a)
  <2>1. copy[a] \in Replies
    BY <1>2 DEF Latched, Latches
  <2> QED BY <1>2, <2>1, ResolveType DEF Latched, Latches
<1>3. CASE Queue(a)
  <2>1. lockQ' \in Seq(Agents)
    BY <1>3, AppendProperties DEF Queue
  <2> QED BY <1>3, <2>1 DEF Queue, AskPhases, StateTypeOK
<1>4. CASE Cleared(a)
  BY <1>4 DEF Cleared, AskPhases, StateTypeOK
<1>5. CASE Bail(a)
  BY <1>5, RefuseType DEF Bail
<1>6. CASE Prompt(a)
  <2>1. raised' \in 0..MaxPrompts /\ raised' = raised + 1 /\ raised' > 0
    BY <1>6, BoundsAssumption DEF Prompt, Arm, StateTypeOK
  <2>2. asked' \in [Agents -> 0..MaxPrompts] /\ ask' \in [Agents -> AskPhases]
    BY <1>6, <2>1 DEF Prompt, AskPhases
  <2>3. StateTypeOK' /\ RaisedInv'
    BY <1>6, <2>1 DEF Prompt, Arm, StateTypeOK
  <2> QED BY <1>6, <2>1, <2>2, <2>3 DEF Prompt
<1>7. CASE Hear(a)
  <2>1. mail.reply \in Replies
    BY <1>7 DEF Hear, StateTypeOK, Clicks
  <2> QED BY <1>7, <2>1, ResolveType DEF Hear, Latches
<1>8. CASE Lose(a)
  BY <1>8, RefuseType DEF Lose
<1> QED BY <1>1, <1>2, <1>3, <1>4, <1>5, <1>6, <1>7, <1>8 DEF AskStep

LEMMA DriverStepType ==
    ASSUME TypeInv, DriverStep
    PROVE  TypeInv'
<1> USE DEF stateVars, slotVars, gateVars, askVars, diskVars, TypeInv, TypeOK, RaisedInv, ResolveInv
<1>1. CASE Prepare
  <2>1. next \in Sources /\ next + 1 \in 1..(N + 1) /\ next + 1 > 1
    BY <1>1, SourcesAssumption DEF Prepare, Sources
  <2> QED BY <1>1, <2>1 DEF Prepare, StateTypeOK, DrvPhases, TaskPhases
<1>2. CASE Filled
  <2>1. CASE LeaveLoop
    BY <1>2, <2>1, LeaveLoopType DEF Filled, DrvPhases
  <2>2. CASE ~LeaveLoop
    BY <1>2, <2>2 DEF Filled, DrvPhases, StateTypeOK
  <2> QED BY <2>1, <2>2
<1>3. CASE SeeCancel
  BY <1>3 DEF SeeCancel, StateTypeOK
<1>4. CASE Deadline
  BY <1>4, LeaveLoopType DEF Deadline, DrvPhases
<1>5. CASE PostLoop
  BY <1>5 DEF PostLoop, DrvPhases, StateTypeOK
<1>6. CASE Keep
  BY <1>6 DEF Keep, Forget, DrvPhases, StateTypeOK
<1>7. CASE UndoOne
  BY <1>7 DEF UndoOne, driverVars, StateTypeOK
<1>8. CASE UndoEnds
  BY <1>8 DEF UndoEnds, Forget, DrvPhases, StateTypeOK
<1> QED BY <1>1, <1>2, <1>3, <1>4, <1>5, <1>6, <1>7, <1>8 DEF DriverStep

LEMMA StepTypeInv == TypeInv /\ [Next]_vars => TypeInv'
<1> SUFFICES ASSUME TypeInv, [Next]_vars PROVE TypeInv'
  OBVIOUS
<1> USE DEF stateVars, slotVars, gateVars, driverVars, askVars, diskVars, TypeInv, TypeOK,
            RaisedInv, ResolveInv
<1>1. CASE DriverStep
  BY <1>1, DriverStepType
<1>2. ASSUME NEW a \in Agents, AskStep(a) PROVE TypeInv'
  BY <1>2, AskStepType
<1>3. ASSUME NEW t \in Sources, TaskStep(t) \/ Land(t) \/ Fail(t) PROVE TypeInv'
  <2>1. CASE ChunkBoundary(t)
    BY <2>1, WaitersAssumption DEF ChunkBoundary, Park, TaskPhases, StateTypeOK
  <2>2. CASE Land(t)
    BY <2>2 DEF Land, TaskPhases, StateTypeOK
  <2>3. CASE Fail(t)
    BY <2>3 DEF Fail, TaskPhases, StateTypeOK
  <2>4. CASE Record(t)
    BY <2>4 DEF Record, TaskPhases, StateTypeOK
  <2>5. CASE Settled(t)
    BY <2>5 DEF Settled, TaskPhases, StateTypeOK, DrvPhases
  <2>6. CASE SettledFailed(t)
    BY <2>6, LeaveLoopType DEF SettledFailed, DrvPhases
  <2> QED BY <1>3, <2>1, <2>2, <2>3, <2>4, <2>5, <2>6 DEF TaskStep
<1>4. CASE Outside
  BY <1>4, OutsideType DEF Outside
<1>5. CASE UNCHANGED vars
  BY <1>5 DEF vars, StateTypeOK
<1> QED BY <1>1, <1>2, <1>3, <1>4, <1>5 DEF Next

LEMMA AlwaysTyped == Spec => []TypeInv
BY InitTypeInv, StepTypeInv, PTL DEF Spec

\* Every state the copy and the calls on it reach is well typed; among other
\* things the ledger never claims a file that is not on the disk, so a rollback
\* never asks for the removal of one the copy did not write.
THEOREM TypeCorrect == Spec => []TypeOK
BY AlwaysTyped, PTL DEF TypeInv

-----------------------------------------------------------------------------
(* What the copy itself does to the state it shares with the calls         *)

\* The loop that is left forgets its parked futures, a task parks on the gate,
\* an agent raises a conflict, the record goes: everything else about the
\* shared state is done from outside.
LEMMA SharedStep ==
    ASSUME [Next]_vars
    PROVE  \/ UNCHANGED stateVars \/ Unpark \/ Arm \/ Forget \/ Outside
           \/ \E t \in Sources : Park(t)
<1> USE DEF vars, stateVars, driverVars
<1>1. CASE DriverStep
  BY <1>1 DEF DriverStep, Prepare, Filled, LeaveLoop, SeeCancel, Deadline, PostLoop, Keep,
              UndoOne, UndoEnds
<1>2. ASSUME NEW a \in Agents, AskStep(a)
      PROVE  UNCHANGED stateVars \/ Unpark \/ Arm
  BY <1>2 DEF AskStep, ReadLatch, Latched, Queue, Cleared, Bail, Prompt, Hear, Lose, Resolve,
              Refuse, LeaveLoop
<1>3. ASSUME NEW t \in Sources, TaskStep(t) \/ Land(t) \/ Fail(t)
      PROVE  UNCHANGED stateVars \/ Unpark \/ Park(t)
  BY <1>3 DEF TaskStep, ChunkBoundary, Land, Fail, Record, Settled, SettledFailed, LeaveLoop
<1> QED BY <1>1, <1>2, <1>3 DEF Next

LEMMA StepAnswerFitsPrompt == TypeInv /\ AnswerFitsPrompt /\ [Next]_vars => AnswerFitsPrompt'
<1> SUFFICES ASSUME TypeInv, AnswerFitsPrompt, [Next]_vars PROVE AnswerFitsPrompt'
  OBVIOUS
<1> USE DEF AnswerFitsPrompt, stateVars, slotVars
<1>1. CASE Outside
  <2>1. ASSUME NEW k \in clicks, Answer(k, Listening) PROVE AnswerFitsPrompt'
    BY <2>1 DEF Answer
  <2>2. ASSUME NEW c \in Callers, Call(c) \/ CallStep(c) PROVE UNCHANGED <<raised, mail>>
    BY <2>2 DEF Call, FlipRow, CancelRead, CallStep, CancelStore, CancelSignal, CancelAbandon,
                Wake, ShutGate, OpenGate, GateGone
  <2>3. ASSUME NEW reply \in Replies, NEW all \in BOOLEAN, Click(reply, all)
        PROVE  UNCHANGED <<raised, mail>>
    BY <2>3 DEF Click
  <2> QED BY <1>1, <2>1, <2>2, <2>3 DEF Outside
<1>2. CASE UNCHANGED stateVars \/ Unpark \/ Arm \/ Forget
  BY <1>2 DEF Unpark, Arm, Forget
<1>3. ASSUME NEW t \in Sources, Park(t) PROVE AnswerFitsPrompt'
  BY <1>3 DEF Park
<1> QED BY <1>1, <1>2, <1>3, SharedStep

\* However late a window or an agent delivers an answer, the copy acts on it
\* only for the conflict it was given to.
THEOREM FittingAnswers == Spec => []AnswerFitsPrompt
<1>1. Init => AnswerFitsPrompt
  BY DEF Init, StateInit, AnswerFitsPrompt
<1> QED BY <1>1, AlwaysTyped, StepAnswerFitsPrompt, PTL DEF Spec

\* A cancel stores its intent before it goes on to wake the gate, and a resume
\* opens the gate before it does, so whoever parked before either store still
\* has the notify coming; whoever comes after it does not park.
LEMMA StepNoLostWakeup == TypeInv /\ NoLostWakeup /\ [Next]_vars => NoLostWakeup'
<1> SUFFICES ASSUME TypeInv, NoLostWakeup, [Next]_vars PROVE NoLostWakeup'
  OBVIOUS
<1>1. calls \in [Callers -> CallSteps]
  BY DEF TypeInv, TypeOK, StateTypeOK
<1> USE DEF NoLostWakeup, IsCancelled, stateVars, slotVars, gateVars
<1>2. CASE Outside
  <2>1. ASSUME NEW c \in Callers, Call(c) PROVE NoLostWakeup'
    BY <1>1, <2>1 DEF Call, FlipRow, CancelRead, Goto
  <2>2. ASSUME NEW c \in Callers, CallStep(c) PROVE NoLostWakeup'
    <3>1. CASE CancelStore(c) \/ CancelSignal(c) \/ CancelAbandon(c)
      BY <1>1, <3>1 DEF CancelStore, CancelSignal, CancelAbandon, Goto
    <3>2. CASE Wake(c)
      BY <3>2 DEF Wake
    <3>3. CASE ShutGate(c) \/ OpenGate(c) \/ GateGone(c)
      BY <1>1, <3>3 DEF ShutGate, OpenGate, GateGone, Goto
    <3> QED BY <2>2, <3>1, <3>2, <3>3 DEF CallStep
  <2>3. ASSUME NEW reply \in Replies, NEW all \in BOOLEAN, Click(reply, all)
        PROVE  NoLostWakeup'
    BY <2>3 DEF Click
  <2>4. ASSUME NEW k \in clicks, Answer(k, Listening) PROVE NoLostWakeup'
    BY <2>4 DEF Answer
  <2> QED BY <1>2, <2>1, <2>2, <2>3, <2>4 DEF Outside
<1>3. CASE UNCHANGED stateVars \/ Unpark \/ Arm \/ Forget
  BY <1>3 DEF Unpark, Arm, Forget
<1>4. ASSUME NEW t \in Sources, Park(t) PROVE NoLostWakeup'
  BY <1>4 DEF Park
<1> QED BY <1>2, <1>3, <1>4, SharedStep

\* Neither a resume nor a cancel, racing one another on any number of threads,
\* strands a task on the pause gate: a notify is still on its way.
THEOREM WakeupsArrive == Spec => []NoLostWakeup
<1>1. Init => NoLostWakeup
  BY DEF Init, StateInit, NoLostWakeup
<1> QED BY <1>1, AlwaysTyped, StepNoLostWakeup, PTL DEF Spec

-----------------------------------------------------------------------------
(* The dispatch lock: who is in its queue, and what its owner alone does   *)

Asking(a) == ask[a] \in {"queued", "cleared", "parked"}

QueueInv ==
    /\ \A i, j \in 1..Len(lockQ) : lockQ[i] = lockQ[j] => i = j
    /\ \A i \in 1..Len(lockQ) : Asking(lockQ[i])
    /\ \A a \in Agents : Asking(a) => \E i \in 1..Len(lockQ) : lockQ[i] = a
    /\ \A a \in Agents : ask[a] \in {"cleared", "parked"} => OwnsLock(a)

PromptInv == TypeInv /\ QueueInv /\ OneQuestion

LEMMA InitPromptInv == Init => PromptInv
<1> SUFFICES ASSUME Init PROVE QueueInv /\ OneQuestion
  BY InitTypeInv DEF PromptInv
<1>1. Len(lockQ) = 0 /\ \A a \in Agents : ask[a] = "no"
  BY EmptySeq DEF Init
<1> QED BY <1>1 DEF QueueInv, OneQuestion, Asking

\* Whoever is out of the queue leaves it as it is; the owner takes its own
\* place, the first, with it.
LEMMA LeaveQueue ==
    ASSUME PromptInv, NEW a \in Agents, ask[a] = "probe" \/ OwnsLock(a), Leave(a)
    PROVE  QueueInv' /\ \A b \in Agents : ask'[b] = IF b = a THEN "no" ELSE ask[b]
<1>1. ask \in [Agents -> AskPhases] /\ lockQ \in Seq(Agents)
  BY DEF PromptInv, TypeInv, TypeOK
<1>2. \A b \in Agents : ask'[b] = IF b = a THEN "no" ELSE ask[b]
  BY <1>1 DEF Leave
<1>3. CASE OwnsLock(a)
  <2>1. lockQ # <<>> /\ lockQ' = Tail(lockQ) /\ Head(lockQ) = a
    BY <1>3 DEF Leave, OwnsLock
  <2>2. /\ Len(lockQ) \in Nat /\ Len(lockQ) > 0 /\ Len(lockQ') = Len(lockQ) - 1
        /\ \A i \in 1..Len(lockQ') : lockQ'[i] = lockQ[i + 1]
        /\ lockQ[1] = a /\ \A i \in 1..Len(lockQ) : lockQ[i] \in Agents
    BY <1>1, <2>1, HeadTailProperties, EmptySeq, ElementOfSeq
  <2>3. \A i \in 1..Len(lockQ') : i + 1 \in 1..Len(lockQ) /\ i + 1 # 1
    BY <2>2
  <2>4. \A i \in 1..Len(lockQ) : i # 1 => i - 1 \in 1..Len(lockQ') /\ lockQ'[i - 1] = lockQ[i]
    BY <2>2
  <2>5. \A i, j \in 1..Len(lockQ') : lockQ'[i] = lockQ'[j] => i = j
    BY <2>2, <2>3 DEF PromptInv, QueueInv
  <2>6. \A i \in 1..Len(lockQ') : ask'[lockQ'[i]] \in {"queued", "cleared", "parked"}
    <3> TAKE i \in 1..Len(lockQ')
    <3>1. lockQ[i + 1] # a /\ Asking(lockQ[i + 1]) /\ lockQ[i + 1] \in Agents
      BY <2>2, <2>3 DEF PromptInv, QueueInv
    <3> QED BY <1>2, <2>2, <3>1 DEF Asking
  <2>7. \A b \in Agents : Asking(b)' => \E i \in 1..Len(lockQ') : lockQ'[i] = b
    <3> SUFFICES ASSUME NEW b \in Agents, Asking(b)'
                 PROVE  \E i \in 1..Len(lockQ') : lockQ'[i] = b
      OBVIOUS
    <3>1. b # a /\ Asking(b)
      BY <1>2 DEF Asking
    <3>2. PICK i \in 1..Len(lockQ) : lockQ[i] = b
      BY <3>1 DEF PromptInv, QueueInv
    <3> QED BY <2>2, <2>4, <3>1, <3>2
  <2>8. \A b \in Agents : ask'[b] \notin {"cleared", "parked"}
    BY <1>2, <1>3 DEF PromptInv, QueueInv, OwnsLock
  <2> QED BY <1>2, <2>5, <2>6, <2>7, <2>8 DEF QueueInv, Asking
<1>4. CASE ~OwnsLock(a)
  <2>1. ask[a] = "probe" /\ lockQ' = lockQ
    BY <1>4 DEF Leave
  <2>2. \A b \in Agents : /\ Asking(b)' <=> Asking(b)
                         /\ ask'[b] \in {"cleared", "parked"} <=> ask[b] \in {"cleared", "parked"}
    BY <1>2, <2>1 DEF Asking
  <2>3. \A i \in 1..Len(lockQ) : lockQ[i] \in Agents
    BY <1>1
  <2> QED BY <1>2, <2>1, <2>2, <2>3 DEF PromptInv, QueueInv, OwnsLock, Asking
<1> QED BY <1>2, <1>3, <1>4

\* Only an agent's own step, or the end of the loop, moves an agent.
LEMMA AskSteps ==
    ASSUME [Next]_vars
    PROVE  \/ UNCHANGED <<ask, asked, lockQ, raised>>
           \/ LeaveLoop
           \/ \E a \in Agents : AskStep(a)
<1> USE DEF vars, stateVars, slotVars, askVars
<1>1. CASE DriverStep
  BY <1>1 DEF DriverStep, Prepare, Filled, SeeCancel, Deadline, PostLoop, Keep, Forget,
              UndoOne, UndoEnds
<1>2. ASSUME NEW t \in Sources, TaskStep(t) \/ Land(t) \/ Fail(t)
      PROVE  UNCHANGED <<ask, asked, lockQ, raised>> \/ LeaveLoop
  BY <1>2 DEF TaskStep, ChunkBoundary, Park, Land, Fail, Record, Settled, SettledFailed
<1>3. ASSUME NEW c \in Callers, Call(c) \/ CallStep(c) PROVE UNCHANGED raised
  BY <1>3 DEF Call, FlipRow, CancelRead, CallStep, CancelStore, CancelSignal, CancelAbandon,
              Wake, ShutGate, OpenGate, GateGone
<1>4. CASE Outside
  BY <1>3, <1>4 DEF Outside, Click, Answer
<1> QED BY <1>1, <1>2, <1>4 DEF Next

LEMMA LeaveLoopQueue ==
    ASSUME LeaveLoop
    PROVE  QueueInv' /\ OneQuestion'
<1>1. Len(lockQ') = 0 /\ \A a \in Agents : ask'[a] = "no"
  BY EmptySeq DEF LeaveLoop
<1> QED BY <1>1 DEF QueueInv, OneQuestion, Asking

LEMMA ResolveQueue ==
    ASSUME PromptInv, NEW a \in Agents, ask[a] = "probe" \/ OwnsLock(a),
           Leave(a), UNCHANGED <<asked, raised>>
    PROVE  QueueInv' /\ OneQuestion'
BY LeaveQueue DEF PromptInv, OneQuestion

LEMMA RefuseQueue ==
    ASSUME PromptInv, NEW a \in Agents, OwnsLock(a), Refuse(a)
    PROVE  QueueInv' /\ OneQuestion'
<1>1. CASE a = Driver
  BY <1>1, LeaveLoopQueue DEF Refuse
<1>2. CASE a # Driver
  BY <1>2, ResolveQueue DEF Refuse, stateVars, slotVars
<1> QED BY <1>1, <1>2

\* An agent raises a conflict only while it owns the lock, and every agent that
\* is parked owns it too: so nobody else is parked when a conflict is raised.
LEMMA StepPromptInv == PromptInv /\ [Next]_vars => PromptInv'
<1> SUFFICES ASSUME PromptInv, [Next]_vars PROVE QueueInv' /\ OneQuestion'
  BY StepTypeInv DEF PromptInv
<1>1. CASE UNCHANGED <<ask, asked, lockQ, raised>>
  BY <1>1 DEF PromptInv, QueueInv, OneQuestion, Asking, OwnsLock
<1>2. CASE LeaveLoop
  BY <1>2, LeaveLoopQueue
<1>3. ASSUME NEW a \in Agents, AskStep(a) PROVE QueueInv' /\ OneQuestion'
  <2> USE DEF stateVars, slotVars
  <2>1. /\ ask \in [Agents -> AskPhases] /\ lockQ \in Seq(Agents)
        /\ asked \in [Agents -> 0..MaxPrompts] /\ raised \in 0..MaxPrompts
    BY DEF PromptInv, TypeInv, TypeOK, StateTypeOK
  <2>2. \A i \in 1..Len(lockQ) : lockQ[i] \in Agents
    BY <2>1
  <2>3. CASE ReadLatch(a)
    BY <2>1, <2>2, <2>3 DEF ReadLatch, PromptInv, QueueInv, OneQuestion, Asking, OwnsLock
  <2>4. CASE Latched(a)
    BY <2>4, ResolveQueue DEF Latched, Resolve
  <2>5. CASE Queue(a)
    <3>1. /\ ask[a] = "probe" /\ lockQ' = Append(lockQ, a) /\ UNCHANGED <<asked, raised>>
          /\ \A b \in Agents : ask'[b] = IF b = a THEN "queued" ELSE ask[b]
      BY <2>1, <2>5 DEF Queue
    <3>2. /\ Len(lockQ) \in Nat /\ Len(lockQ') = Len(lockQ) + 1 /\ lockQ'[Len(lockQ) + 1] = a
          /\ \A i \in 1..Len(lockQ) : lockQ'[i] = lockQ[i]
      BY <2>1, <3>1, AppendProperties, LenProperties
    <3>3. \A i \in 1..Len(lockQ) : lockQ[i] # a
      BY <3>1 DEF PromptInv, QueueInv, Asking
    <3>4. \A i, j \in 1..Len(lockQ') : lockQ'[i] = lockQ'[j] => i = j
      BY <3>2, <3>3 DEF PromptInv, QueueInv
    <3>5. \A i \in 1..Len(lockQ') : ask'[lockQ'[i]] \in {"queued", "cleared", "parked"}
      BY <2>2, <3>1, <3>2, <3>3 DEF PromptInv, QueueInv, Asking
    <3>6. \A b \in Agents : ask'[b] \in {"queued", "cleared", "parked"}
              => \E i \in 1..Len(lockQ') : lockQ'[i] = b
      BY <3>1, <3>2 DEF PromptInv, QueueInv, Asking
    <3>7. \A b \in Agents : OwnsLock(b) => lockQ' # <<>> /\ Head(lockQ') = b
      BY <2>1, <3>1, HeadTailAppend, AppendProperties DEF OwnsLock
    <3>8. \A b \in Agents : ask'[b] \in {"cleared", "parked"} => OwnsLock(b)'
      BY <3>1, <3>7 DEF PromptInv, QueueInv, OwnsLock
    <3> QED BY <3>1, <3>4, <3>5, <3>6, <3>8 DEF PromptInv, QueueInv, OneQuestion, Asking
  <2>6. CASE Cleared(a)
    BY <2>1, <2>2, <2>6 DEF Cleared, PromptInv, QueueInv, OneQuestion, Asking, OwnsLock
  <2>7. CASE Bail(a)
    BY <2>7, RefuseQueue DEF Bail
  <2>8. CASE Prompt(a)
    <3>1. /\ ask[a] = "cleared" /\ lockQ' = lockQ
          /\ raised' = raised + 1 /\ asked' = [asked EXCEPT ![a] = raised + 1]
          /\ ask' = [ask EXCEPT ![a] = "parked"]
      BY <2>8 DEF Prompt, Arm, askVars
    <3>2. QueueInv'
      BY <2>1, <2>2, <3>1 DEF PromptInv, QueueInv, Asking, OwnsLock
    <3>3. \A b \in Agents : b # a => ask[b] # "parked"
      BY <3>1 DEF PromptInv, QueueInv, OwnsLock
    <3> QED BY <2>1, <3>1, <3>2, <3>3 DEF OneQuestion
  <2>9. CASE Hear(a)
    BY <2>9, ResolveQueue DEF Hear, Resolve, PromptInv, QueueInv
  <2>10. CASE Lose(a)
    BY <2>10, RefuseQueue DEF Lose, PromptInv, QueueInv
  <2> QED BY <1>3, <2>3, <2>4, <2>5, <2>6, <2>7, <2>8, <2>9, <2>10 DEF AskStep
<1> QED BY <1>1, <1>2, <1>3, AskSteps

LEMMA AlwaysPromptInv == Spec => []PromptInv
BY InitPromptInv, StepPromptInv, PTL DEF Spec

\* One person is asked one thing at a time: across the driver's prompts and
\* those of every merge in the window, no conflict replaces the one an agent
\* is still parked on.
THEOREM OneQuestionAtATime == Spec => []OneQuestion
BY AlwaysPromptInv, PTL DEF PromptInv

-----------------------------------------------------------------------------
(* What a reversal can miss.  The run RollbackLeavesFile shows that the    *)
(* ledger is not always the disk; these facts say how far it can be off.   *)

Settling == {"post", "keep", "undo", "done"}

\* Once the loop is left, the only file on the disk that the ledger does not
\* claim is one that landed while nobody polled the task that asked for it:
\* a file whose landing any task heard of is reversed.
OnlyUnheardRemain ==
    drv \in Settling => \A s \in landed \ ledger : task[s] = "landed"

\* A source is selected until its turn; a task asks only while it walks, and
\* only a folder's task walks and comes back.
WindowInv ==
    /\ drv = "resolve" => task[next - 1] = "selected"
    /\ \A s \in Sources : s >= next => task[s] = "selected"
    /\ \A s \in Sources : ask[s] # "no" => task[s] = "walk"
    /\ \A s \in Sources : task[s] \in {"walk", "ready"} => Shape[s] = "folder"

LedgerInv ==
    /\ \A s \in landed : task[s] \in {"landed", "ready", "over"}
    /\ \A s \in landed \ ledger : task[s] \in {"landed", "ready"}

CopyInv == TypeInv /\ WindowInv /\ LedgerInv /\ OnlyUnheardRemain

LEMMA InitCopyInv == Init => CopyInv
<1> SUFFICES ASSUME Init PROVE WindowInv /\ LedgerInv /\ OnlyUnheardRemain
  BY InitTypeInv DEF CopyInv
<1> QED BY DEF Init, WindowInv, LedgerInv, OnlyUnheardRemain, Agents

\* The driver takes over what the tasks it drops wrote and told of.
LEMMA LeaveLoopCopy ==
    ASSUME CopyInv, LeaveLoop, UNCHANGED <<next, task, landed>>
    PROVE  WindowInv' /\ LedgerInv' /\ OnlyUnheardRemain'
<1>1. drv' = "post" /\ ledger' = ledger \cup HandOver /\ \A a \in Agents : ask'[a] = "no"
  BY DEF LeaveLoop
<1>2. \A s \in landed \ ledger' : task[s] = "landed"
  <2> SUFFICES ASSUME NEW s \in landed \ ledger' PROVE task[s] = "landed"
    OBVIOUS
  <2>1. s \in Sources /\ s \in landed \ ledger /\ s \notin HandOver
    BY <1>1 DEF CopyInv, TypeInv, TypeOK
  <2>2. task[s] = "ready" => s \in HandOver
    BY <2>1 DEF HandOver, InFlight, CopyInv, WindowInv
  <2> QED BY <2>1, <2>2 DEF CopyInv, LedgerInv
<1> QED BY <1>1, <1>2 DEF CopyInv, WindowInv, LedgerInv, OnlyUnheardRemain, Agents

\* An agent that leaves the resolver moves nobody's file: its own source, or
\* the driver's, was not written yet.
LEMMA ResolveCopy ==
    ASSUME CopyInv, NEW a \in Agents, Polled(a), ask[a] # "no",
           NEW reply \in Replies, NEW back \in Latches, Resolve(a, reply, back)
    PROVE  WindowInv' /\ LedgerInv' /\ OnlyUnheardRemain'
<1>1. /\ task \in [Sources -> TaskPhases] /\ ask \in [Agents -> AskPhases]
      /\ landed \subseteq Sources /\ next \in 1..(N + 1) /\ (drv = "resolve" => next > 1)
  BY DEF CopyInv, TypeInv, TypeOK, ResolveInv
<1>2. /\ ask' = [ask EXCEPT ![a] = "no"] /\ UNCHANGED <<next, landed, ledger>>
  BY DEF Resolve, Leave, diskVars
<1>3. CASE a = Driver
  <2>1. /\ next - 1 \in Sources /\ task[next - 1] = "selected" /\ drv' = "fill"
        /\ task' = [task EXCEPT ![next - 1] = IF reply = "skip" THEN "over" ELSE "write"]
    BY <1>1, <1>3, SourcesAssumption DEF Resolve, Polled, Sources, CopyInv, WindowInv
  <2>2. next - 1 \notin landed /\ (next - 1 \in Agents => ask[next - 1] = "no")
    BY <2>1 DEF CopyInv, LedgerInv, WindowInv
  <2>3. \A s \in Sources : s # next - 1 => task'[s] = task[s]
    BY <1>1, <2>1
  <2>4. WindowInv'
    BY <1>1, <1>2, <1>3, <2>1, <2>2, <2>3, SourcesAssumption
    DEF CopyInv, WindowInv, Agents, Driver, Sources
  <2> QED BY <1>1, <1>2, <2>1, <2>2, <2>3, <2>4 DEF CopyInv, LedgerInv, OnlyUnheardRemain, Settling
<1>4. CASE a # Driver
  <2>1. /\ a \in Sources /\ task[a] = "walk" /\ a \notin landed /\ a < next
        /\ drv' = drv /\ drv = "await" /\ Shape[a] = "folder"
        /\ task' = [task EXCEPT ![a] = IF reply = "skip" THEN "ready" ELSE "write"]
    BY <1>1, <1>4 DEF Resolve, Polled, Agents, Driver, Sources, CopyInv, WindowInv, LedgerInv
  <2> QED BY <1>1, <1>2, <2>1 DEF CopyInv, WindowInv, LedgerInv, OnlyUnheardRemain, Settling, Agents
<1> QED BY <1>3, <1>4

LEMMA RefuseCopy ==
    ASSUME CopyInv, NEW a \in Agents, Polled(a), ask[a] # "no", Refuse(a)
    PROVE  WindowInv' /\ LedgerInv' /\ OnlyUnheardRemain'
<1>1. CASE a = Driver
  BY <1>1, LeaveLoopCopy DEF Refuse
<1>2. CASE a # Driver
  <2>1. /\ a \in Sources /\ task[a] = "walk" /\ a \notin landed /\ a < next
        /\ drv' = drv /\ drv = "await" /\ UNCHANGED <<next, landed, ledger>>
        /\ task' = [task EXCEPT ![a] = "failed"] /\ ask' = [ask EXCEPT ![a] = "no"]
    BY <1>2 DEF Refuse, Leave, Polled, Agents, Driver, Sources, CopyInv, TypeInv, TypeOK,
                WindowInv, LedgerInv
  <2> QED BY <2>1 DEF CopyInv, TypeInv, TypeOK, WindowInv, LedgerInv, OnlyUnheardRemain,
                      Settling, Agents
<1> QED BY <1>1, <1>2

LEMMA StepCopyInv == CopyInv /\ [Next]_vars => CopyInv'
<1> SUFFICES ASSUME CopyInv, [Next]_vars
             PROVE  WindowInv' /\ LedgerInv' /\ OnlyUnheardRemain'
  BY StepTypeInv DEF CopyInv
<1> DEFINE Kept == WindowInv' /\ LedgerInv' /\ OnlyUnheardRemain'
<1>1. /\ task \in [Sources -> TaskPhases] /\ ask \in [Agents -> AskPhases]
      /\ landed \subseteq Sources /\ ledger \subseteq landed
      /\ next \in 1..(N + 1) /\ drv \in DrvPhases /\ (drv = "resolve" => next > 1)
  BY DEF CopyInv, TypeInv, TypeOK, ResolveInv
<1> USE DEF driverVars, askVars, diskVars, Settling
<1>2. CASE DriverStep
  <2>1. CASE Prepare
    <3>1. /\ next \in Sources /\ next' = next + 1 /\ task[next] = "selected" /\ next \notin landed
          /\ next \in Agents /\ ask[next] = "no" /\ drv = "fill"
      BY <1>1, <2>1, SourcesAssumption DEF Prepare, Sources, Agents, CopyInv, WindowInv, LedgerInv
    <3>2. CASE Shape[next] = "clash"
      BY <1>1, <2>1, <3>1, <3>2 DEF Prepare, CopyInv, WindowInv, LedgerInv, OnlyUnheardRemain, Sources
    <3>3. CASE Shape[next] # "clash"
      <4>1. /\ task'[next] \in {"walk", "write"} /\ (task'[next] = "walk" => Shape[next] = "folder")
            /\ \A s \in Sources : s # next => task'[s] = task[s]
            /\ UNCHANGED <<drv, ask, landed, ledger>>
        BY <1>1, <2>1, <3>1, <3>3 DEF Prepare
      <4>2. \A s \in Sources : s >= next' => s # next /\ s >= next
        BY <3>1 DEF Sources
      <4>3. WindowInv'
        BY <3>1, <4>1, <4>2 DEF CopyInv, WindowInv
      <4> QED BY <1>1, <3>1, <4>1, <4>3 DEF CopyInv, LedgerInv, OnlyUnheardRemain
    <3> QED BY <3>2, <3>3
  <2>2. CASE Filled
    <3>1. CASE LeaveLoop
      BY <2>2, <3>1, LeaveLoopCopy DEF Filled
    <3>2. CASE ~LeaveLoop
      BY <2>2, <3>2 DEF Filled, CopyInv, WindowInv, LedgerInv, OnlyUnheardRemain
    <3> QED BY <3>1, <3>2
  <2>3. CASE SeeCancel
    BY <2>3 DEF SeeCancel, CopyInv, WindowInv, LedgerInv, OnlyUnheardRemain
  <2>4. CASE Deadline
    BY <2>4, LeaveLoopCopy DEF Deadline
  <2>5. CASE PostLoop \/ Keep \/ UndoEnds
    BY <2>5 DEF PostLoop, Keep, UndoEnds, CopyInv, WindowInv, LedgerInv, OnlyUnheardRemain
  <2>6. CASE UndoOne
    BY <1>1, <2>6 DEF UndoOne, CopyInv, WindowInv, LedgerInv, OnlyUnheardRemain
  <2> QED BY <1>2, <2>1, <2>2, <2>3, <2>4, <2>5, <2>6 DEF DriverStep
<1>3. ASSUME NEW a \in Agents, AskStep(a) PROVE Kept
  <2>1. CASE ReadLatch(a)
    BY <1>1, <2>1 DEF ReadLatch, NeedsAnswer, Agents, Driver, Sources, CopyInv, WindowInv,
                      LedgerInv, OnlyUnheardRemain
  <2>2. CASE Latched(a)
    BY <2>2, ResolveCopy DEF Latched, Latches, CopyInv, TypeInv, TypeOK
  <2>3. CASE Queue(a) \/ Cleared(a) \/ Prompt(a)
    <3>1. /\ ask[a] # "no" /\ UNCHANGED <<drv, next, task, landed, ledger>>
          /\ \A b \in Agents : b # a => ask'[b] = ask[b]
      BY <1>1, <2>3 DEF Queue, Cleared, Prompt
    <3>2. \A s \in Sources : ask'[s] # "no" => ask[s] # "no"
      BY <3>1 DEF Agents
    <3> QED BY <3>1, <3>2 DEF CopyInv, WindowInv, LedgerInv, OnlyUnheardRemain
  <2>4. CASE Bail(a) \/ Lose(a)
    BY <2>4, RefuseCopy DEF Bail, Lose
  <2>5. CASE Hear(a)
    <3>1. mail.reply \in Replies /\ (IF mail.all THEN mail.reply ELSE copy[a]) \in Latches
      BY <2>5 DEF Hear, CopyInv, TypeInv, TypeOK, StateTypeOK, Clicks, Latches
    <3> QED BY <2>5, <3>1, ResolveCopy DEF Hear
  <2> QED BY <1>3, <2>1, <2>2, <2>3, <2>4, <2>5 DEF AskStep
<1>4. ASSUME NEW t \in Sources, TaskStep(t) \/ Land(t) \/ Fail(t) PROVE Kept
  <2>1. CASE ChunkBoundary(t) \/ Land(t) \/ Fail(t) \/ Record(t) \/ Settled(t)
    <3>1. /\ drv \notin Settling /\ drv' \in {drv, "fill"} /\ UNCHANGED <<next, ask>>
          /\ task[t] \in {"write", "chunk", "landed", "ready"}
          /\ \A s \in Sources : s # t => task'[s] = task[s]
      BY <1>1, <2>1 DEF ChunkBoundary, Land, Fail, Record, Settled, Polled, Awaits, Driver, Sources
    <3>2. /\ task'[t] \in {"write", "failed", "chunk", "landed", "ready", "over"}
          /\ task'[t] = "ready" => Shape[t] = "folder"
      BY <1>1, <2>1, <3>1 DEF ChunkBoundary, Land, Fail, Record, Settled
    <3>3. (drv' = "resolve" => t # next - 1) /\ t < next
      BY <1>1, <3>1 DEF CopyInv, WindowInv, Sources
    <3>4. WindowInv'
      BY <1>1, <3>1, <3>2, <3>3, SourcesAssumption DEF CopyInv, WindowInv, Sources, Agents
    <3>5. LedgerInv' /\ drv' \notin Settling
      BY <1>1, <2>1, <3>1, <3>2
      DEF ChunkBoundary, Land, Fail, Record, Settled, CopyInv, LedgerInv
    <3> QED BY <3>4, <3>5 DEF OnlyUnheardRemain
  <2>2. CASE SettledFailed(t)
    BY <2>2, LeaveLoopCopy DEF SettledFailed
  <2> QED BY <1>4, <2>1, <2>2 DEF TaskStep
<1>5. CASE UNCHANGED <<driverVars, task, askVars, diskVars>>
  BY <1>5 DEF CopyInv, WindowInv, LedgerInv, OnlyUnheardRemain
<1> QED BY <1>2, <1>3, <1>4, <1>5 DEF Next, Outside, vars

\* A rollback of a copy, and the kept copy of a stop, account for every file on
\* the disk except those that landed unheard: the bound on what the run
\* RollbackLeavesFile finds, for every selection, window and interleaving.
THEOREM RollbackReach == Spec => []OnlyUnheardRemain
BY InitCopyInv, StepCopyInv, PTL DEF Spec, CopyInv
=============================================================================

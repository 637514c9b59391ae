--------------------- MODULE OperationLogVerdictProofs ----------------------
(***************************************************************************)
(* The verdict a reversal leaves in the header is true: the theorem that   *)
(* needs everything a reversal holds in its hands.                         *)
(***************************************************************************)
EXTENDS OperationLogProofs

-----------------------------------------------------------------------------
(* What a reversal has yet to decide.                                      *)

Finishing == run.at \in {"dirs", "lastFlush", "lastFlushing", "resolve", "resolving"}
Awaiting == run.at \in {"flushing", "lastFlushing"}

\* What may be in its hands, and when.
HandInv ==
    /\ run.at \notin {"item", "verify", "act"} => run.page = {}
    /\ run.at \in {"lastFlush", "lastFlushing", "resolve", "resolving"} => run.dirs = {} \/ run.canceled
    /\ run.at \notin {"item", "verify", "act", "flush", "dirs", "lastFlush"} => run.done = {} /\ run.left = {}

\* A row it has read, up to the writer's reply that its outcome is written.
InHand(i) ==
    \/ i \in run.page \cup run.dirs \cup run.done \cup run.left
    \/ Awaiting /\ \A n \in 1..Len(chan) : Outcome(n) => i \in chan[n].done \cup chan[n].left

\* A row still to be tried is in hand or has yet to be read.
Searching == run.at # "idle" /\ ~run.canceled /\ ~brokeOff
PageInv ==
    Searching => \A i \in Rows : op.rows[i] = "done" => InHand(i) \/ (~Finishing /\ i < run.before)

\* Rolled back, in the header or on its way there.
Verdict == op.state = "rolledBack" \/ \E n \in 1..Len(chan) : Mark(n) /\ chan[n].state = "rolledBack"
VerdictInv == Verdict /\ ~brokeOff => \A i \in Rows : op.rows[i] # "done"

SearchInv == JournalInv /\ HandInv /\ PageInv /\ VerdictInv

LEMMA InitSearchInv == Init => SearchInv
<1> SUFFICES ASSUME Init PROVE SearchInv
  OBVIOUS
<1>1. run.at = "idle" /\ run.page = {} /\ run.done = {} /\ run.left = {}
  BY DEF Init, Resting
<1>2. \A i \in Rows : op.rows[i] = "none"
  BY DEF Init
<1> QED BY <1>1, <1>2, InitJournalInv DEF SearchInv, HandInv, PageInv, Searching, VerdictInv

\* The page is the newest of what is unread: nothing unread is newer.
LEMMA NewestFirst ==
    ASSUME TypeInv
    PROVE  /\ NewestPage = {} => Unread = {}
           /\ \A i \in Unread \ NewestPage, j \in NewestPage : i < j
<1>1. Unread \in SUBSET Nat /\ IsFiniteSet(Unread)
  BY RowsAreFinite DEF Unread
<1>2. RollbackPage \in Nat \ {0}
  BY BoundAssumption
<1> DEFINE Newer(i) == {j \in Unread : j > i}
<1>3. \A i \in Unread : IsFiniteSet(Newer(i)) /\ Cardinality(Newer(i)) \in Nat
  BY <1>1, FS_Subset, FS_CardinalityType
<1>4. \A i \in Unread : i \in NewestPage <=> Cardinality(Newer(i)) < RollbackPage
  BY DEF NewestPage
<1>5. NewestPage = {} => Unread = {}
  <2> SUFFICES ASSUME Unread # {} PROVE NewestPage # {}
    OBVIOUS
  <2>1. PICK m \in Unread : \A k \in Unread : k <= m
    BY <1>1, Greatest
  <2>2. Newer(m) = {}
    <3>1. ASSUME NEW k \in Unread PROVE ~(k > m)
      <4>1. k \in Nat /\ m \in Nat /\ k <= m
        BY <1>1, <2>1
      <4> QED BY <4>1
    <3> QED BY <3>1
  <2>3. Cardinality(Newer(m)) = 0
    BY <2>2, FS_EmptySet
  <2> QED BY <1>2, <1>4, <2>3
<1>6. ASSUME NEW i \in Unread \ NewestPage, NEW j \in NewestPage PROVE i < j
  <2>1. i \in Nat /\ j \in Nat /\ j \in Unread /\ i # j
    BY <1>1, <1>6 DEF NewestPage
  <2> SUFFICES ASSUME i > j PROVE FALSE
    BY <2>1
  <2>5. Newer(i) \subseteq Newer(j)
    <3>1. ASSUME NEW k \in Unread, k > i PROVE k > j
      <4>1. k \in Nat
        BY <1>1
      <4> QED BY <2>1, <3>1, <4>1
    <3> QED BY <3>1
  <2>2. Cardinality(Newer(i)) <= Cardinality(Newer(j))
    BY <1>3, <2>1, <2>5, FS_Subset
  <2>3. Cardinality(Newer(j)) < RollbackPage
    BY <1>4, <2>1
  <2>4. Cardinality(Newer(i)) < RollbackPage
    BY <1>2, <1>3, <2>1, <2>2, <2>3
  <2> QED BY <1>4, <2>4
<1> QED BY <1>5, <1>6

\* Steps that leave alone what the reversal holds and what the header says.
LEMMA QuietSearch ==
    ASSUME SearchInv, JournalInv', NEW f \in {0, 1}, Moved(f),
           run'.at = run.at, run'.before = run.before, run'.canceled = run.canceled,
           run'.page = run.page, run'.dirs = run.dirs, run'.done = run.done, run'.left = run.left,
           op'.state = op.state, \A i \in Rows : op'.rows[i] = "done" => op.rows[i] = "done",
           brokeOff' = brokeOff
    PROVE  SearchInv'
<1>1. HandInv'
  BY DEF SearchInv, HandInv
<1>2. \A i \in Rows : InHand(i) => InHand(i)'
  BY DEF InHand, Awaiting, Moved, Outcome
<1>3. PageInv'
  BY <1>2 DEF SearchInv, PageInv, Searching, Finishing
<1>4. Verdict' => Verdict
  BY DEF Verdict, Moved, Mark
<1>5. VerdictInv'
  BY <1>4 DEF SearchInv, VerdictInv
<1> QED BY <1>1, <1>3, <1>5 DEF SearchInv

\* While the copy's rows are not counted there is neither reversal nor verdict.
LEMMA CountingSearch ==
    ASSUME SearchInv, JournalInv', Counting', run' = run
    PROVE  SearchInv'
<1>1. run'.at = "idle"
  BY DEF JournalInv, RecordInv, OverInv, Undoing, Counting
<1>2. ~Verdict'
  BY DEF JournalInv, EarlyInv, Acting, Verdict
<1> QED BY <1>1, <1>2 DEF SearchInv, HandInv, PageInv, Searching, VerdictInv

LEMMA CopySearch ==
    ASSUME SearchInv, CopyFile \/ Finalize \/ CheckCompleteness
    PROVE  SearchInv'
<1>1. JournalInv' /\ JournalInv /\ TypeInv
  BY CopyJournal DEF SearchInv, JournalInv, RecordInv, ProtocolInv
<1>2. CASE CopyFile \/ Finalize
  <2>1. Counting' /\ run' = run
    BY <1>1, <1>2 DEF CopyFile, Finalize, Counting, TypeInv, RestType, FwdType
  <2> QED BY <1>1, <2>1, CountingSearch
<1>3. CASE CheckCompleteness
  <2>1. Moved(0)
    <3>1. FinalizeOp("notRollbackable") \in Sent /\ FinalizeOp("notRollbackable").kind = "finalize"
      BY MessagesSent DEF FinalizeOp, Msg, States
    <3> QED BY <1>1, <1>3, <3>1, MovedOne, MovedSame DEF CheckCompleteness
  <2>2. UNCHANGED <<run, op, brokeOff>>
    BY <1>3 DEF CheckCompleteness, book, history
  <2> QED BY <1>1, <2>1, <2>2, QuietSearch
<1> QED BY <1>2, <1>3

LEMMA DispatchSearch ==
    ASSUME SearchInv, NEW d \in Inverses,
           Gate(d) \/ MarkRollingBack(d) \/ SpawnInverse(d) \/ StartInverse(d)
    PROVE  SearchInv'
<1>1. JournalInv' /\ JournalInv /\ TypeInv
  BY DispatchJournal DEF SearchInv, JournalInv, RecordInv, ProtocolInv
<1>2. UNCHANGED <<op, brokeOff>>
  BY DEF Gate, MarkRollingBack, SpawnInverse, StartInverse, book, history
<1>3. CASE Gate(d)
  BY <1>1, <1>2, <1>3, MovedSame, QuietSearch DEF Gate
<1>4. CASE MarkRollingBack(d) \/ SpawnInverse(d)
  <2>1. run' = run
    BY <1>4 DEF MarkRollingBack, SpawnInverse
  <2>2. chan' = chan \/ \E s \in {"rollingBack", "rollbackable"} : Send(<<SetState(d, s)>>)
    BY <1>4 DEF MarkRollingBack, SpawnInverse
  <2>3. CASE chan' = chan
    BY <1>1, <1>2, <2>1, <2>3, MovedSame, QuietSearch
  <2>4. CASE \E s \in {"rollingBack", "rollbackable"} : Send(<<SetState(d, s)>>)
    <3>1. PICK s \in {"rollingBack", "rollbackable"} : Send(<<SetState(d, s)>>)
      BY <2>4
    <3> DEFINE m == SetState(d, s)
    <3>2. m \in Sent /\ m.kind = "state" /\ m.state = s /\ Send(<<m>>)
      BY <3>1, MessagesSent DEF States, SetState, Msg
    <3> HIDE DEF m
    <3>3. /\ Len(chan) \in Nat /\ Len(chan') = Len(chan) + 1
          /\ \A n \in 1..Len(chan) : chan'[n] = chan[n]
          /\ chan'[Len(chan) + 1] = m
      BY <1>1, <3>2, SendingOne DEF TypeInv
    <3>4. \A n \in 1..Len(chan') : Outcome(n)' => n \in 1..Len(chan) /\ Outcome(n) /\ chan'[n] = chan[n]
      BY <3>2, <3>3 DEF Outcome
    <3>5. \A i \in Rows : InHand(i) => InHand(i)'
      BY <2>1, <3>4 DEF InHand, Awaiting
    <3>6. PageInv'
      BY <1>2, <2>1, <3>5 DEF SearchInv, PageInv, Searching, Finishing
    <3>7. Verdict' => Verdict
      BY <1>2, <3>2, <3>3 DEF Verdict, Mark
    <3> QED BY <1>1, <1>2, <2>1, <3>6, <3>7 DEF SearchInv, HandInv, VerdictInv
  <2> QED BY <2>2, <2>3, <2>4
<1>5. CASE StartInverse(d)
  <2>1. Moved(0)
    <3>1. OpenInverse(d) \in Sent /\ OpenInverse(d).kind = "open" /\ Send(<<OpenInverse(d)>>)
      BY <1>5, MessagesSent DEF StartInverse, OpenInverse, Msg
    <3> QED BY <1>1, <3>1, MovedOne
  <2>2. /\ run'.page = {} /\ run'.dirs = {} /\ run'.done = {} /\ run'.left = {}
        /\ run'.canceled \/ (run'.at = "page" /\ run'.before = Top)
    BY <1>5 DEF StartInverse, Resting
  <2>3. HandInv'
    BY <2>2 DEF HandInv
  <2>4. PageInv'
    BY <2>2, TopIsAbove DEF PageInv, Searching, Finishing
  <2>5. Verdict' => Verdict
    BY <1>2, <2>1 DEF Verdict, Moved, Mark
  <2> QED BY <1>1, <1>2, <2>3, <2>4, <2>5 DEF SearchInv, VerdictInv
<1> QED BY <1>3, <1>4, <1>5

\* What a decision about a unit does to the hands.
LEMMA DecideHands ==
    ASSUME run \in RunType, run.page # {}, NEW result, Decide(result)
    PROVE  /\ run'.dirs = run.dirs /\ run'.before = run.before
           /\ \/ run'.canceled /\ run'.at = "lastFlush" /\ run'.page = {}
              \/ /\ run'.canceled = run.canceled
                 /\ run'.page = run.page \ {Unit}
                 /\ run'.done \cup run'.left = run.done \cup run.left \cup {Unit}
                 /\ run'.at = "item" \/ (run'.at = "flush" /\ run'.page = {})
<1>1. CASE run' = Canceled
  BY <1>1 DEF Canceled, RunType
<1>2. CASE run' = [Tally(Unit, result) EXCEPT !.page = @ \ {Unit}, !.at = AfterUnit]
  <2>1. /\ Tally(Unit, result) \in RunType
        /\ Tally(Unit, result).page = run.page /\ Tally(Unit, result).dirs = run.dirs
        /\ Tally(Unit, result).before = run.before /\ Tally(Unit, result).canceled = run.canceled
        /\ Tally(Unit, result).done \cup Tally(Unit, result).left = run.done \cup run.left \cup {Unit}
    <3>1. Unit \in Rows
      BY UnitIsOfPage DEF RunType
    <3> QED BY <3>1 DEF Tally, RunType
  <2>2. /\ run'.dirs = run.dirs /\ run'.before = run.before /\ run'.canceled = run.canceled
        /\ run'.page = run.page \ {Unit} /\ run'.at = AfterUnit
        /\ run'.done \cup run'.left = run.done \cup run.left \cup {Unit}
    BY <1>2, <2>1 DEF RunType
  <2>3. Unit \in run.page
    BY UnitIsOfPage DEF RunType
  <2> QED BY <2>2, <2>3 DEF AfterUnit
<1> QED BY <1>1, <1>2 DEF Decide

\* Steps of the reversal that send nothing.
LEMMA HandsSearch ==
    ASSUME SearchInv, JournalInv', UNCHANGED <<op, chan>>, brokeOff => brokeOff', HandInv', PageInv'
    PROVE  SearchInv'
<1>1. Verdict' = Verdict
  BY DEF Verdict, Mark
<1> QED BY <1>1 DEF SearchInv, VerdictInv

LEMMA ReversalSearch == ASSUME SearchInv, Reversal PROVE SearchInv'
<1>1. JournalInv' /\ JournalInv /\ TypeInv /\ run \in RunType
  BY ReversalJournal DEF SearchInv, JournalInv, RecordInv, ProtocolInv, TypeInv
<1>2. HandInv /\ PageInv /\ run.at # "idle"
  BY DEF SearchInv, Reversal, ReadPage, StopAtBoundary, DeferDir, PassPauseGate, Verify, RemoveFile, RemoveFileFails,
         RemoveDirIfEmpty, DirsDone, Flush, Resolve
<1>3. CASE ReadPage
  <2>1. run.at = "page" /\ UNCHANGED <<op, chan>> /\ run.page = {} /\ run.done = {} /\ run.left = {}
    BY <1>2, <1>3 DEF ReadPage, book, HandInv
  <2>2. CASE brokeOff' = TRUE /\ run' = [run EXCEPT !.at = "dirs"]
    BY <1>1, <1>2, <2>1, <2>2, HandsSearch DEF HandInv, PageInv, Searching, RunType
  <2>3. CASE brokeOff' = brokeOff /\ NewestPage = {} /\ run' = [run EXCEPT !.at = "dirs"]
    <3>1. HandInv'
      BY <1>1, <2>1, <2>3 DEF HandInv, RunType
    <3>2. \A i \in Rows : ~(op.rows[i] = "done" /\ i < run.before)
      BY <1>1, <2>3, NewestFirst DEF Unread
    <3>3. PageInv'
      BY <1>1, <1>2, <2>1, <2>3, <3>2 DEF PageInv, Searching, InHand, Awaiting, RunType
    <3> QED BY <1>1, <2>1, <2>3, <3>1, <3>3, HandsSearch
  <2>4. CASE /\ brokeOff' = brokeOff /\ NewestPage # {}
             /\ run' = [run EXCEPT !.at = "item", !.page = NewestPage,
                                   !.before = CHOOSE i \in NewestPage : \A j \in NewestPage : i <= j]
    <3> DEFINE b == CHOOSE i \in NewestPage : \A j \in NewestPage : i <= j
    <3>1. b \in NewestPage
      BY <2>4, RowsAreFinite, Least DEF NewestPage, Unread
    <3>2. /\ run'.at = "item" /\ run'.page = NewestPage /\ run'.before = b
          /\ run'.dirs = run.dirs /\ run'.canceled = run.canceled
      BY <1>1, <2>4 DEF RunType
    <3> HIDE DEF b
    <3>3. \A i \in Rows : op.rows[i] = "done" /\ i < run.before => i \in NewestPage \/ i < b
      BY <1>1, <3>1, NewestFirst DEF Unread
    <3>4. HandInv'
      BY <3>2 DEF HandInv
    <3>5. PageInv'
      BY <1>2, <2>1, <2>4, <3>2, <3>3 DEF PageInv, Searching, InHand, Awaiting, Finishing
    <3> QED BY <1>1, <2>1, <2>4, <3>4, <3>5, HandsSearch
  <2> QED BY <1>3, <2>2, <2>3, <2>4 DEF ReadPage
<1>4. CASE StopAtBoundary
  <2>1. run'.canceled /\ run'.at = "lastFlush" /\ run'.page = {}
    BY <1>1, <1>4 DEF StopAtBoundary, Canceled, RunType
  <2>2. HandInv' /\ PageInv'
    BY <2>1 DEF HandInv, PageInv, Searching
  <2> QED BY <1>1, <1>4, <2>2, HandsSearch DEF StopAtBoundary, RunOnly, book, history
<1>5. CASE DeferDir
  <2>1. Unit \in run.page
    BY <1>1, <1>5, UnitIsOfPage DEF DeferDir, TypeInv, UnitInv, RunType
  <2>2. /\ run.at = "item" /\ run'.at = AfterUnit /\ run'.dirs = run.dirs \cup {Unit}
        /\ run'.page = run.page \ {Unit} /\ run'.done = run.done /\ run'.left = run.left
        /\ run'.before = run.before /\ run'.canceled = run.canceled
        /\ run'.at = "item" \/ (run'.at = "flush" /\ run'.page = {})
    BY <1>1, <1>5, <2>1 DEF DeferDir, RunType, AfterUnit
  <2>3. UNCHANGED <<op, chan, brokeOff>>
    BY <1>5 DEF DeferDir, RunOnly, book, history
  <2>4. HandInv'
    BY <2>2 DEF HandInv
  <2>5. PageInv'
    BY <1>2, <2>2, <2>3 DEF PageInv, Searching, InHand, Awaiting, Finishing
  <2> QED BY <1>1, <2>3, <2>4, <2>5, HandsSearch
<1>6. CASE PassPauseGate \/ (Verify /\ run' = [run EXCEPT !.at = "act"])
  <2>1. /\ run.at \in {"item", "verify"} /\ run'.at \in {"verify", "act"} /\ run'.dirs = run.dirs
        /\ run'.page = run.page /\ run'.done = run.done /\ run'.left = run.left
        /\ run'.before = run.before /\ run'.canceled = run.canceled
    BY <1>1, <1>6 DEF PassPauseGate, Verify, RunType
  <2>2. UNCHANGED <<op, chan, brokeOff>>
    BY <1>6 DEF PassPauseGate, Verify, RunOnly, book, history
  <2>3. HandInv'
    BY <2>1 DEF HandInv
  <2>4. PageInv'
    BY <1>2, <2>1, <2>2 DEF PageInv, Searching, InHand, Awaiting, Finishing
  <2> QED BY <1>1, <2>2, <2>3, <2>4, HandsSearch
<1>7. CASE (Verify \/ RemoveFile \/ RemoveFileFails) /\ ~(Verify /\ run' = [run EXCEPT !.at = "act"])
  <2>1. run.at \in {"verify", "act"} /\ UNCHANGED <<op, chan, brokeOff>>
    BY <1>7 DEF Verify, RemoveFile, RemoveFileFails, RunOnly, book, history
  <2>2. PICK result \in {"already", "skipped", "reversed"} : Decide(result)
    BY <1>7 DEF Verify, RemoveFile, RemoveFileFails
  <2>3. run.page # {}
    BY <1>1, <2>1 DEF TypeInv, UnitInv
  <2>4. /\ run'.dirs = run.dirs /\ run'.before = run.before
        /\ \/ run'.canceled /\ run'.at = "lastFlush" /\ run'.page = {}
           \/ /\ run'.canceled = run.canceled
              /\ run'.page = run.page \ {Unit}
              /\ run'.done \cup run'.left = run.done \cup run.left \cup {Unit}
              /\ run'.at = "item" \/ (run'.at = "flush" /\ run'.page = {})
    BY <1>1, <2>2, <2>3, DecideHands
  <2>5. HandInv'
    BY <2>4 DEF HandInv
  <2>6. PageInv'
    BY <1>2, <2>1, <2>4 DEF PageInv, Searching, InHand, Awaiting, Finishing
  <2> QED BY <1>1, <2>1, <2>5, <2>6, HandsSearch
<1>8. CASE RemoveDirIfEmpty
  <2>1. PICK d \in run.dirs, result \in {"reversed", "already", "skipped"} :
          run' = [Tally(d, result) EXCEPT !.dirs = @ \ {d}]
    BY <1>8 DEF RemoveDirIfEmpty
  <2>2. /\ run'.at = "dirs" /\ run.at = "dirs" /\ run'.dirs = run.dirs \ {d} /\ run'.page = run.page
        /\ run'.done \cup run'.left = run.done \cup run.left \cup {d}
        /\ run'.before = run.before /\ run'.canceled = run.canceled
    BY <1>1, <1>8, <2>1 DEF RemoveDirIfEmpty, Tally, RunType
  <2>3. UNCHANGED <<op, chan, brokeOff>>
    BY <1>8 DEF RemoveDirIfEmpty, RunOnly, book, history
  <2>4. HandInv'
    BY <1>2, <2>2 DEF HandInv
  <2>5. PageInv'
    BY <1>2, <2>2, <2>3 DEF PageInv, Searching, InHand, Awaiting, Finishing
  <2> QED BY <1>1, <2>3, <2>4, <2>5, HandsSearch
<1>9. CASE DirsDone
  <2>1. /\ run.at = "dirs" /\ run'.at = "lastFlush" /\ run'.dirs = {} /\ run.dirs = {} /\ run'.page = run.page
        /\ run'.done = run.done /\ run'.left = run.left /\ run'.canceled = run.canceled
    BY <1>1, <1>9 DEF DirsDone, RunType
  <2>2. UNCHANGED <<op, chan, brokeOff>>
    BY <1>9 DEF DirsDone, RunOnly, book, history
  <2>3. HandInv'
    BY <1>2, <2>1 DEF HandInv
  <2>4. PageInv'
    BY <1>2, <2>1, <2>2 DEF PageInv, Searching, InHand, Awaiting, Finishing
  <2> QED BY <1>1, <2>2, <2>3, <2>4, HandsSearch
<1>10. CASE Flush
  <2>1. UNCHANGED <<op, brokeOff>> /\ run.at \in {"flush", "lastFlush"} /\ run.page = {}
    BY <1>2, <1>10 DEF Flush, book, history, HandInv
  <2>2. /\ run'.dirs = run.dirs /\ run'.page = run.page /\ run'.canceled = run.canceled /\ run'.before = run.before
        /\ run'.done = {} /\ run'.left = {}
        /\ IF run.done \cup run.left = {}
           THEN /\ run'.at = IF run.at = "lastFlush" THEN "resolve" ELSE "page"
                /\ chan' = chan
           ELSE /\ run'.at = IF run.at = "lastFlush" THEN "lastFlushing" ELSE "flushing"
                /\ Send(Some(RecordItems(run.id, run.done), run.done) \o <<SetOutcomes(run.id, run.done, run.left)>>)
    BY <1>1, <1>10, <2>1 DEF Flush, RunType
  <2>3. HandInv'
    BY <1>2, <2>1, <2>2 DEF HandInv
  <2>4. CASE run.done \cup run.left = {}
    <3>1. PageInv'
      BY <1>2, <2>1, <2>2, <2>4 DEF PageInv, Searching, InHand, Awaiting, Finishing
    <3> QED BY <1>1, <2>1, <2>2, <2>3, <2>4, <3>1, HandsSearch
  <2>5. CASE run.done \cup run.left # {}
    <3> DEFINE r == RecordItems(run.id, run.done)
               m == SetOutcomes(run.id, run.done, run.left)
    <3>1. /\ r \in Sent /\ r.kind = "items"
          /\ m \in Sent /\ m.kind = "outcomes" /\ m.done = run.done /\ m.left = run.left
      BY <1>1, MessagesSent DEF RunType, RecordItems, SetOutcomes, Msg
    <3>2. Send(Some(r, run.done) \o <<m>>)
      BY <2>2, <2>5
    <3> HIDE DEF r, m
    <3>3. /\ Len(chan) \in Nat
          /\ \A n \in 1..Len(chan) : chan'[n] = chan[n]
          /\ run.done = {} => Len(chan') = Len(chan) + 1 /\ chan'[Len(chan) + 1] = m
          /\ run.done # {} => /\ Len(chan') = Len(chan) + 2
                              /\ chan'[Len(chan) + 1] = r /\ chan'[Len(chan) + 2] = m
      BY <1>1, <3>1, <3>2, SendingBehind DEF TypeInv
    <3>4. \A n \in 1..Len(chan) : ~Outcome(n)
      BY <1>1, <2>1 DEF JournalInv, RecordInv, ProtocolInv, ExpectedInv, Expected, Outcome
    <3>5. \A n \in 1..Len(chan') : Outcome(n)' => chan'[n] = m
      BY <3>1, <3>3, <3>4 DEF Outcome
    <3>6. \A i \in Rows : InHand(i) => InHand(i)'
      BY <2>1, <2>2, <2>5, <3>1, <3>5 DEF InHand, Awaiting
    <3>7. PageInv'
      BY <1>2, <2>1, <2>2, <2>5, <3>6 DEF PageInv, Searching, Finishing
    <3>8. Verdict' => Verdict
      BY <2>1, <3>1, <3>3 DEF Verdict, Mark
    <3> QED BY <1>1, <2>1, <2>3, <3>7, <3>8 DEF SearchInv, VerdictInv
  <2> QED BY <2>4, <2>5
<1>11. CASE Resolve
  <2>1. UNCHANGED <<op, brokeOff>> /\ run.at = "resolve"
    BY <1>11 DEF Resolve, book, history
  <2>2. /\ run'.at = "resolving" /\ run'.dirs = run.dirs /\ run'.page = run.page /\ run'.done = run.done
        /\ run'.left = run.left /\ run'.canceled = run.canceled
    BY <1>1, <1>11 DEF Resolve, RunType
  <2>3. HandInv'
    BY <1>2, <2>1, <2>2 DEF HandInv
  <2>4. PageInv'
    BY <1>2, <2>1, <2>2 DEF PageInv, Searching, InHand, Awaiting, Finishing
  <2> DEFINE m == SetState(run.id, FinalState)
  <2>5. m \in Sent /\ m.kind = "state" /\ m.state = FinalState /\ Send(<<m>>)
    BY <1>1, <1>11, MessagesSent DEF Resolve, FinalState, States, RunType, SetState, Msg
  <2> HIDE DEF m
  <2>6. /\ Len(chan) \in Nat /\ Len(chan') = Len(chan) + 1
        /\ \A n \in 1..Len(chan) : chan'[n] = chan[n]
        /\ chan'[Len(chan) + 1] = m
    BY <1>1, <2>5, SendingOne DEF TypeInv
  <2>7. Verdict' => Verdict \/ FinalState = "rolledBack"
    BY <2>1, <2>5, <2>6 DEF Verdict, Mark
  <2>8. FinalState = "rolledBack" /\ ~brokeOff => \A i \in Rows : op.rows[i] # "done"
    <3>1. FinalState = "rolledBack" => ~run.canceled
      BY DEF FinalState
    <3>2. ~run.canceled => \A i \in Rows : ~InHand(i)
      BY <1>2, <2>1 DEF HandInv, InHand, Awaiting
    <3> QED BY <1>2, <2>1, <3>1, <3>2 DEF PageInv, Searching, Finishing
  <2> QED BY <1>1, <2>1, <2>3, <2>4, <2>7, <2>8 DEF SearchInv, VerdictInv
<1> QED BY <1>3, <1>4, <1>5, <1>6, <1>7, <1>8, <1>9, <1>10, <1>11 DEF Reversal

LEMMA WriterSearch == ASSUME SearchInv, Writer PROVE SearchInv'
<1>1. JournalInv' /\ JournalInv /\ TypeInv /\ run \in RunType
  BY WriterJournal DEF SearchInv, JournalInv, RecordInv, ProtocolInv, TypeInv
<1>2. brokeOff' = brokeOff
  BY DEF Writer, ApplyOpen, ApplyRecordItems, ApplyFinalize, ApplySetRollbackState, ApplySetItemOutcomes, history
<1>3. CASE ApplyOpen \/ (ApplyRecordItems /\ ~Counting)
  <2>1. Moved(1) /\ run' = run
    BY <1>1, <1>3, MovedTaken DEF ApplyOpen, ApplyRecordItems
  <2>2. op' = op
    <3>1. CASE ApplyOpen
      BY <3>1 DEF ApplyOpen
    <3>2. CASE ApplyRecordItems /\ ~Counting
      <4>1. 1 \in 1..Len(chan) /\ Head(chan) = chan[1] /\ chan[1].kind = "items"
        BY <1>1, <3>2, MovedTaken DEF ApplyRecordItems
      <4>2. Head(chan).who # 0
        BY <1>1, <3>2, <4>1 DEF JournalInv, CountInv, Recording
      <4> QED BY <3>2, <4>2 DEF ApplyRecordItems
    <3> QED BY <1>3, <3>1, <3>2
  <2> QED BY <1>1, <1>2, <2>1, <2>2, QuietSearch
<1>4. CASE ApplyRecordItems /\ Counting
  <2>1. Counting' /\ run' = run
    BY <1>4 DEF ApplyRecordItems, Counting
  <2> QED BY <1>1, <2>1, CountingSearch
<1>5. CASE ApplyFinalize
  <2>1. Moved(1) /\ 1 \in 1..Len(chan) /\ Head(chan) = chan[1] /\ Closing(1)
    BY <1>1, <1>5, MovedTaken DEF ApplyFinalize, Closing
  <2>2. Head(chan).state # "rolledBack"
    BY <1>1, <2>1 DEF JournalInv, CountInv
  <2>3. /\ run' = run /\ op'.rows = op.rows
        /\ op'.state = "rolledBack" => op.state = "rolledBack"
    BY <1>1, <1>5, <2>2 DEF ApplyFinalize, TypeInv, RestType, OpType
  <2>4. \A i \in Rows : InHand(i) => InHand(i)'
    BY <2>1, <2>3 DEF InHand, Awaiting, Moved, Outcome
  <2>5. PageInv'
    BY <1>2, <2>3, <2>4 DEF SearchInv, PageInv, Searching, Finishing
  <2>6. Verdict' => Verdict
    BY <2>1, <2>3 DEF Verdict, Moved, Mark
  <2> QED BY <1>1, <1>2, <2>3, <2>5, <2>6 DEF SearchInv, HandInv, VerdictInv
<1>6. CASE ApplySetRollbackState
  <2>1. Moved(1) /\ 1 \in 1..Len(chan) /\ Head(chan) = chan[1] /\ Mark(1)
    BY <1>1, <1>6, MovedTaken DEF ApplySetRollbackState, Mark
  <2>2. op'.rows = op.rows /\ op'.state = chan[1].state
    BY <1>1, <1>6, <2>1 DEF ApplySetRollbackState, TypeInv, RestType, OpType
  <2>3. Verdict' => Verdict
    BY <2>1, <2>2 DEF Verdict, Moved, Mark
  <2>4. VerdictInv'
    BY <1>2, <2>2, <2>3 DEF SearchInv, VerdictInv
  <2>5. CASE run' = run
    <3>1. \A i \in Rows : InHand(i) => InHand(i)'
      BY <2>1, <2>5 DEF InHand, Awaiting, Moved, Outcome
    <3>2. PageInv'
      BY <1>2, <2>2, <2>5, <3>1 DEF SearchInv, PageInv, Searching, Finishing
    <3> QED BY <1>1, <2>4, <2>5, <3>2 DEF SearchInv, HandInv
  <2>6. CASE run' = Resting(0)
    BY <1>1, <2>4, <2>6 DEF SearchInv, HandInv, PageInv, Searching, Resting
  <2> QED BY <1>6, <2>5, <2>6 DEF ApplySetRollbackState
<1>7. CASE ApplySetItemOutcomes
  <2>1. Moved(1) /\ 1 \in 1..Len(chan) /\ Head(chan) = chan[1] /\ Outcome(1)
    BY <1>1, <1>7, MovedTaken DEF ApplySetItemOutcomes, Outcome
  <2>2. Awaiting
    BY <1>1, <2>1 DEF JournalInv, RecordInv, ProtocolInv, ExpectedInv, Expected, Awaiting, Outcome
  <2>3. /\ op'.state = op.state
        /\ \A i \in Rows : op'.rows[i] = "done" => op.rows[i] = "done" /\ i \notin chan[1].done \cup chan[1].left
    BY <1>1, <1>7, <2>1 DEF ApplySetItemOutcomes, TypeInv, RestType, OpType
  <2>4. /\ run'.at = IF run.at = "flushing" THEN "page" ELSE "resolve"
        /\ run'.page = run.page /\ run'.dirs = run.dirs /\ run'.done = run.done /\ run'.left = run.left
        /\ run'.canceled = run.canceled /\ run'.before = run.before
    BY <1>1, <1>7 DEF ApplySetItemOutcomes, RunType
  <2>5. HandInv'
    BY <2>2, <2>4 DEF SearchInv, HandInv, Awaiting
  <2>6. PageInv'
    BY <1>2, <2>1, <2>2, <2>3, <2>4 DEF SearchInv, PageInv, Searching, Finishing, InHand, Awaiting
  <2>7. Verdict' => Verdict
    BY <2>1, <2>3 DEF Verdict, Moved, Mark
  <2> QED BY <1>1, <1>2, <2>3, <2>5, <2>6, <2>7 DEF SearchInv, VerdictInv
<1> QED BY <1>3, <1>4, <1>5, <1>6, <1>7 DEF Writer

LEMMA OutsideSearch == ASSUME SearchInv, Outside PROVE SearchInv'
<1>1. JournalInv' /\ JournalInv /\ TypeInv /\ run \in RunType
  BY OutsideJournal DEF SearchInv, JournalInv, RecordInv, ProtocolInv, TypeInv
<1>2. CASE Touch \/ Erase \/ VolumeMoves \/ CancelQueued
  BY <1>1, <1>2, MovedSame, QuietSearch DEF Touch, Erase, VolumeMoves, CancelQueued, book, history
<1>3. CASE Pause \/ Resume \/ CancelRunning
  <2>1. UNCHANGED <<op, chan, brokeOff>>
    BY <1>3 DEF Pause, Resume, CancelRunning, RunOnly, book, history
  <2>2. /\ run'.at = run.at /\ run'.before = run.before /\ run'.canceled = run.canceled
        /\ run'.page = run.page /\ run'.dirs = run.dirs /\ run'.done = run.done /\ run'.left = run.left
    BY <1>1, <1>3 DEF Pause, Resume, CancelRunning, RunType
  <2> QED BY <1>1, <2>1, <2>2, MovedSame, QuietSearch
<1>4. CASE CrashAndRelaunch
  <2>1. /\ run' = Resting(0) /\ brokeOff' = brokeOff /\ op'.rows = op.rows
        /\ op'.state = "rolledBack" => op.state = "rolledBack"
    BY <1>1, <1>4 DEF CrashAndRelaunch, Reconciled, TypeInv, RestType, OpType
  <2>2. \A n \in 1..Len(chan') : FALSE
    BY <1>4 DEF CrashAndRelaunch
  <2>3. Verdict' => Verdict
    BY <2>1, <2>2 DEF Verdict
  <2> QED BY <1>1, <2>1, <2>3 DEF SearchInv, HandInv, PageInv, Searching, VerdictInv, Resting
<1> QED BY <1>2, <1>3, <1>4 DEF Outside

LEMMA NextSearchInv == SearchInv /\ [Next]_vars => SearchInv'
<1> SUFFICES ASSUME SearchInv, [Next]_vars PROVE SearchInv'
  OBVIOUS
<1>1. CASE CopyFile \/ Finalize \/ CheckCompleteness
  BY <1>1, CopySearch
<1>2. CASE Writer
  BY <1>2, WriterSearch
<1>3. CASE Dispatch \/ \E d \in Inverses : Gate(d) \/ StartInverse(d)
  BY <1>3, DispatchSearch DEF Dispatch
<1>4. CASE Reversal
  BY <1>4, ReversalSearch
<1>5. CASE Outside
  BY <1>5, OutsideSearch
<1>6. CASE UNCHANGED vars
  <2>1. JournalInv' /\ TypeInv
    BY NextJournalInv DEF SearchInv, JournalInv, RecordInv, ProtocolInv
  <2> QED BY <1>6, <2>1, MovedSame, QuietSearch DEF vars, book, history
<1> QED BY <1>1, <1>2, <1>3, <1>4, <1>5, <1>6 DEF Next

-----------------------------------------------------------------------------
(* Nobody interferes: nothing is skipped, lost or stopped, so everything   *)
(* the copy made is on record and everything a reversal reads goes.        *)

CalmInv ==
    /\ vol = "here" /\ ~hasty /\ ~brokeOff /\ ~run.stop /\ ~run.canceled /\ ~run.skipped /\ run.left = {}
    /\ fwd.at \notin {"dead", "correcting"}
    /\ \A i \in Rows : disk[i] \in {"absent", "there", "gone"} /\ op.rows[i] \notin {"lost", "skipped"}
    /\ \A d \in Inverses : call[d] # "resetting"
    /\ \A n \in 1..Len(chan) : Outcome(n) => chan[n].left = {}

\* A row of the copy on its way to the database.
UnderWay(i) == \E n \in 1..Len(chan) : Recording(n) /\ i \in chan[n].done
CompleteInv ==
    /\ \A i \in fwd.made : disk[i] # "absent"
    /\ \A i \in Rows \ fwd.made : disk[i] # "gone" /\ op.rows[i] = "none"
    /\ \A f \in Files \ fwd.made : disk[f] = "absent"
    /\ \A d \in Dirs : disk[d] # "absent"
    /\ \A i \in fwd.made : op.rows[i] = "none" => i \in fwd.buffer \/ UnderWay(i)
    /\ fwd.at # "copying" => Dirs \subseteq fwd.made /\ fwd.buffer = {}
    /\ fwd.at = "counted" => fwd.written = fwd.made

\* What is gone went by the reversal's hand; what it holds still stands.
GoneInv ==
    /\ \A i \in Rows : op.rows[i] = "rolled" \/ i \in run.done => disk[i] = "gone"
    /\ \A n \in 1..Len(chan) : Outcome(n) => \A i \in chan[n].done : disk[i] = "gone"
    /\ \A i \in Rows : disk[i] = "gone" =>
          \/ op.rows[i] = "rolled" \/ i \in run.done
          \/ Awaiting /\ \A n \in 1..Len(chan) : Outcome(n) => i \in chan[n].done
    /\ \A i \in run.page \cup run.dirs : disk[i] = "there"
    /\ run.dirs \subseteq Dirs /\ (run.at \in {"verify", "act"} => Unit \in Files)
OverdoneInv == (\E d \in Inverses : call[d] = "over") => ~Counting /\ \A i \in fwd.made : op.rows[i] = "rolled"

Clean == CalmInv /\ CompleteInv /\ GoneInv /\ OverdoneInv
CleanInv == trouble = 0 => Clean

LEMMA InitClean == Init => Clean
<1> SUFFICES ASSUME Init PROVE Clean
  OBVIOUS
<1>1. Files \cap Dirs = {}
  <2>1. ASSUME NEW f \in Files, NEW d \in Dirs PROVE f # d
    BY SeqAssumption
  <2> QED BY <2>1
<1>2. \A n \in 1..Len(chan) : FALSE
  BY DEF Init
<1>3. CalmInv
  BY <1>2 DEF Init, CalmInv, Resting
<1>4. CompleteInv
  BY <1>1 DEF Init, CompleteInv, Rows
<1>5. GoneInv
  BY <1>2 DEF Init, GoneInv, Resting, Rows
<1>6. OverdoneInv
  BY DEF Init, OverdoneInv
<1> QED BY <1>3, <1>4, <1>5, <1>6 DEF Clean

LEMMA NoTrouble == ASSUME TypeInv, trouble' = 0 PROVE ~Trouble
  BY TroubleType DEF TypeInv, RestType

\* Past the count every row of the copy is there.
LEMMA AllOnRecord ==
    ASSUME SearchInv, Clean, ~Counting
    PROVE  \A i \in fwd.made : op.rows[i] \in {"done", "rolled"}
<1>1. JournalInv /\ TypeInv /\ fwd.made \in SUBSET Rows
  BY DEF SearchInv, JournalInv, RecordInv, ProtocolInv, TypeInv, RestType, FwdType
<1>2. \A i \in fwd.made : ~UnderWay(i) /\ i \notin fwd.buffer
  BY <1>1 DEF UnderWay, JournalInv, CountInv, Clean, CompleteInv, Counting
<1> QED BY <1>1, <1>2 DEF Clean, CompleteInv, CalmInv, TypeInv, RestType, OpType

\* Until then nothing is gone.
LEMMA NothingGone ==
    ASSUME SearchInv, Clean, Counting
    PROVE  \A i \in Rows : disk[i] # "gone"
  BY DEF SearchInv, JournalInv, RecordInv, OverInv, Undoing, Counting, Clean, GoneInv, Awaiting

LEMMA CountingGone ==
    ASSUME SearchInv', Counting', \A i \in Rows : disk'[i] # "gone",
           \A i \in run'.page \cup run'.dirs : disk'[i] = "there", run'.dirs \subseteq Dirs
    PROVE  GoneInv'
<1>1. /\ run'.at = "idle" /\ run'.done = {}
      /\ \A n \in 1..Len(chan') : ~Outcome(n)'
      /\ \A i \in Rows : op'.rows[i] # "rolled"
  BY DEF SearchInv, JournalInv, RecordInv, OverInv, Undoing, Counting, Outcome
<1> QED BY <1>1 DEF GoneInv

\* Steps that leave the disk and the database's rows alone.
LEMMA QuietGone ==
    ASSUME GoneInv, NEW f \in {0, 1}, Moved(f), disk' = disk, op'.rows = op.rows, run'.done = run.done,
           Awaiting => Awaiting', run'.page \cup run'.dirs \subseteq run.page \cup run.dirs,
           run'.dirs \subseteq Dirs, run'.at \in {"verify", "act"} => Unit' \in Files
    PROVE  GoneInv'
<1>1. \A n \in 1..Len(chan') : Outcome(n)' => n + f \in 1..Len(chan) /\ Outcome(n + f) /\ chan'[n] = chan[n + f]
  BY DEF Moved, Outcome
<1> QED BY <1>1 DEF GoneInv

LEMMA QuietClean ==
    ASSUME Clean, NEW f \in {0, 1}, Moved(f), UNCHANGED <<disk, vol, fwd, hasty, brokeOff>>, op'.rows = op.rows,
           run'.done = run.done, run'.left = run.left, ~run'.stop, ~run'.canceled, ~run'.skipped,
           Awaiting => Awaiting', run'.page \cup run'.dirs \subseteq run.page \cup run.dirs,
           run'.dirs \subseteq Dirs, run'.at \in {"verify", "act"} => Unit' \in Files,
           \A i \in Rows : UnderWay(i) => UnderWay(i)', fwd.made \subseteq Rows,
           \A d \in Inverses : call'[d] \notin {"resetting", "over"} \/ call'[d] = call[d]
    PROVE  Clean'
<1>1. GoneInv'
  BY QuietGone DEF Clean
<1>2. CalmInv'
  <2>1. \A n \in 1..Len(chan') : Outcome(n)' => chan'[n].left = {}
    BY DEF Moved, Outcome, Clean, CalmInv
  <2> QED BY <2>1 DEF Clean, CalmInv
<1>3. CompleteInv'
  BY DEF Clean, CompleteInv
<1>4. OverdoneInv'
  BY DEF Clean, OverdoneInv, Counting
<1> QED BY <1>1, <1>2, <1>3, <1>4 DEF Clean

LEMMA CopyClean ==
    ASSUME SearchInv, SearchInv', Clean, CopyFile \/ Finalize \/ CheckCompleteness
    PROVE  Clean'
<1>1. JournalInv /\ TypeInv /\ HandInv
  BY DEF SearchInv, JournalInv, RecordInv, ProtocolInv
<1>2. UNCHANGED <<vol, op, call, run, hasty, brokeOff>>
  BY DEF CopyFile, Finalize, CheckCompleteness, env, book, history
<1>3. CalmInv /\ CompleteInv /\ GoneInv /\ OverdoneInv
  BY DEF Clean
<1>4. fwd \in FwdType /\ chan \in Seq(Sent) /\ run \in RunType
  BY <1>1 DEF TypeInv, RestType
<1>5. CASE CopyFile
  <2>1. PICK f \in Files \ fwd.made :
          /\ disk' = [disk EXCEPT ![f] = "there"]
          /\ LET buffer == fwd.buffer \cup {f}
                 full == Cardinality(buffer) >= RecordBatch
             IN /\ fwd' = [fwd EXCEPT !.made = @ \cup {f}, !.buffer = IF full THEN {} ELSE buffer]
                /\ Send(IF full THEN <<RecordItems(0, buffer)>> ELSE <<>>)
    BY <1>5 DEF CopyFile
  <2>2. /\ fwd.at = "copying" /\ fwd'.at = "copying" /\ fwd'.made = fwd.made \cup {f} /\ f \in Rows
        /\ Counting /\ Counting'
    BY <1>4, <1>5, <2>1 DEF CopyFile, FwdType, Counting, Rows
  <2>3. \A i \in Rows : disk'[i] = IF i = f THEN "there" ELSE disk[i]
    BY <1>1, <2>1 DEF TypeInv, RestType
  <2> DEFINE m == RecordItems(0, fwd.buffer \cup {f})
  <2>4. m \in Sent /\ m.kind = "items" /\ m.who = 0 /\ m.done = fwd.buffer \cup {f}
    <3>1. fwd.buffer \cup {f} \in SUBSET Rows
      BY <1>4, <2>2 DEF FwdType
    <3> QED BY <3>1, MessagesSent DEF RecordItems, Msg
  <2>5. \/ fwd'.buffer = fwd.buffer \cup {f} /\ chan' = chan
        \/ fwd'.buffer = {} /\ Send(<<m>>)
    BY <1>4, <2>1, SendingNothing DEF FwdType
  <2> HIDE DEF m
  <2>6. \A i \in Rows : i \in fwd.buffer \cup {f} \/ UnderWay(i) => i \in fwd'.buffer \/ UnderWay(i)'
    <3>1. CASE fwd'.buffer = fwd.buffer \cup {f} /\ chan' = chan
      BY <3>1 DEF UnderWay, Recording
    <3>2. CASE fwd'.buffer = {} /\ Send(<<m>>)
      <4>1. /\ Len(chan) \in Nat /\ Len(chan') = Len(chan) + 1
            /\ \A n \in 1..Len(chan) : chan'[n] = chan[n]
            /\ chan'[Len(chan) + 1] = m
        BY <1>4, <2>4, <3>2, SendingOne
      <4>2. Len(chan) + 1 \in 1..Len(chan') /\ \A n \in 1..Len(chan) : n \in 1..Len(chan')
        BY <4>1
      <4> QED BY <2>4, <4>1, <4>2 DEF UnderWay, Recording
    <3> QED BY <2>5, <3>1, <3>2
  <2>7. CompleteInv'
    BY <1>2, <1>3, <1>4, <2>2, <2>3, <2>6 DEF CompleteInv, FwdType, Rows
  <2>8. GoneInv'
    <3>1. \A i \in Rows : disk'[i] # "gone"
      BY <1>3, <2>2, <2>3, NothingGone
    <3>2. \A i \in run'.page \cup run'.dirs : disk'[i] = "there"
      BY <1>2, <1>3, <1>4, <2>3 DEF GoneInv, RunType
    <3> QED BY <1>2, <1>3, <2>2, <3>1, <3>2, CountingGone DEF GoneInv
  <2>9. CalmInv'
    <3>1. \A n \in 1..Len(chan') : ~Outcome(n)'
      BY <2>2 DEF SearchInv, JournalInv, RecordInv, OverInv, Undoing, Counting, Outcome
    <3> QED BY <1>2, <1>3, <2>2, <2>3, <3>1 DEF CalmInv
  <2>10. OverdoneInv'
    BY <1>2, <1>3, <2>2 DEF OverdoneInv
  <2> QED BY <2>7, <2>8, <2>9, <2>10 DEF Clean
<1>6. CASE Finalize
  <2> DEFINE rows == fwd.buffer \cup Dirs
             r == RecordItems(0, rows)
             m == FinalizeOp("rollbackable")
  <2>1. /\ fwd.at = "copying" /\ fwd'.at = "finalizing" /\ fwd'.made = fwd.made \cup Dirs
        /\ fwd'.buffer = {} /\ disk' = disk /\ Counting /\ Counting'
    BY <1>4, <1>6 DEF Finalize, FwdType, Counting, env
  <2>2. /\ r \in Sent /\ r.kind = "items" /\ r.who = 0 /\ r.done = rows
        /\ m \in Sent /\ m.kind = "finalize" /\ rows = fwd.buffer \cup Dirs
    <3>1. rows \in SUBSET Rows
      BY <1>4 DEF FwdType, Rows
    <3> QED BY <3>1, MessagesSent DEF RecordItems, FinalizeOp, Msg, States
  <2>3. Send(Some(r, rows) \o <<m>>)
    BY <1>6 DEF Finalize
  <2> HIDE DEF rows, r, m
  <2>4. /\ Len(chan) \in Nat
        /\ \A n \in 1..Len(chan) : chan'[n] = chan[n]
        /\ rows = {} => Len(chan') = Len(chan) + 1 /\ chan'[Len(chan) + 1] = m
        /\ rows # {} => /\ Len(chan') = Len(chan) + 2
                        /\ chan'[Len(chan) + 1] = r /\ chan'[Len(chan) + 2] = m
    BY <1>4, <2>2, <2>3, SendingBehind
  <2>5. \A n \in 1..Len(chan) : n \in 1..Len(chan')
    BY <2>4
  <2>6. \A i \in Rows : i \in rows \/ UnderWay(i) => UnderWay(i)'
    <3>1. rows # {} => Len(chan) + 1 \in 1..Len(chan')
      BY <2>4
    <3> QED BY <2>2, <2>4, <2>5, <3>1 DEF UnderWay, Recording
  <2>7. CompleteInv'
    BY <1>2, <1>3, <1>4, <2>1, <2>2, <2>6 DEF CompleteInv, FwdType, Rows
  <2>8. GoneInv'
    BY <1>2, <1>3, <2>1, NothingGone, CountingGone DEF GoneInv
  <2>9. CalmInv'
    <3>1. \A n \in 1..Len(chan') : ~Outcome(n)'
      BY <2>1 DEF SearchInv, JournalInv, RecordInv, OverInv, Undoing, Counting, Outcome
    <3> QED BY <1>2, <1>3, <2>1, <3>1 DEF CalmInv
  <2>10. OverdoneInv'
    BY <1>2, <1>3, <2>1 DEF OverdoneInv
  <2> QED BY <2>7, <2>8, <2>9, <2>10 DEF Clean
<1>7. CASE CheckCompleteness
  <2>1. ~Short
    <3>1. fwd.written = fwd.made /\ IsFiniteSet(fwd.made)
      BY <1>3, <1>4, <1>7, RowsAreFinite DEF CheckCompleteness, CompleteInv, FwdType
    <3>2. Cardinality(fwd.made) \in Nat
      BY <3>1, FS_CardinalityType
    <3> QED BY <3>1, <3>2 DEF Short
  <2>2. /\ fwd.at = "counted" /\ fwd'.at = "settled" /\ fwd'.made = fwd.made /\ fwd'.buffer = fwd.buffer
        /\ UNCHANGED <<chan, disk>>
    BY <1>4, <1>7, <2>1 DEF CheckCompleteness, FwdType, env
  <2>3. GoneInv'
    BY <1>1, <1>2, <1>3, <2>2, MovedSame, QuietGone DEF GoneInv, Awaiting, Unit
  <2>4. CompleteInv'
    BY <1>2, <1>3, <2>2 DEF CompleteInv, UnderWay, Recording
  <2>5. CalmInv' /\ OverdoneInv'
    BY <1>2, <1>3, <2>2 DEF CalmInv, OverdoneInv, Outcome, Counting
  <2> QED BY <2>3, <2>4, <2>5 DEF Clean
<1> QED BY <1>5, <1>6, <1>7

LEMMA WriterClean ==
    ASSUME SearchInv, SearchInv', Clean, Writer, trouble' = 0
    PROVE  Clean'
<1>1. JournalInv /\ TypeInv /\ HandInv /\ ~Trouble /\ ProtocolInv
  BY NoTrouble DEF SearchInv, JournalInv, RecordInv, ProtocolInv
<1>2. CalmInv /\ CompleteInv /\ GoneInv /\ OverdoneInv
  BY DEF Clean
<1>3. /\ fwd \in FwdType /\ chan \in Seq(Sent) /\ run \in RunType /\ op \in OpType
      /\ fwd.made \subseteq Rows
  BY <1>1 DEF TypeInv, RestType, FwdType
<1>4. ASSUME NEW kind, Take(kind)
      PROVE  /\ Moved(1) /\ 1 \in 1..Len(chan) /\ Head(chan) = chan[1] /\ chan[1].kind = kind
             /\ \A n \in 1..Len(chan) : n # 1 => n - 1 \in 1..Len(chan') /\ chan'[n - 1] = chan[n]
             /\ \A n \in 1..Len(chan') : n + 1 \in 2..Len(chan) /\ chan'[n] = chan[n + 1]
  <2>1. /\ Moved(1) /\ 1 \in 1..Len(chan) /\ Head(chan) = chan[1] /\ chan[1].kind = kind
    BY <1>1, <1>4, MovedTaken
  <2>2. /\ Len(chan) \in Nat \ {0} /\ Len(chan') = Len(chan) - 1
        /\ \A n \in 1..Len(chan') : chan'[n] = chan[n + 1]
    BY <1>3, <1>4, Taking
  <2>3. ASSUME NEW n \in 1..Len(chan), n # 1 PROVE n - 1 \in 1..Len(chan') /\ chan'[n - 1] = chan[n]
    <3>1. n - 1 \in 1..Len(chan') /\ (n - 1) + 1 = n
      BY <2>2, <2>3
    <3> QED BY <2>2, <3>1
  <2>4. \A n \in 1..Len(chan') : n + 1 \in 2..Len(chan)
    BY <2>2
  <2> QED BY <2>1, <2>2, <2>3, <2>4
<1>5. CASE ApplyOpen \/ (ApplyRecordItems /\ Head(chan).who # 0)
  <2>1. /\ Moved(1) /\ Head(chan) = chan[1] /\ ~Recording(1)
        /\ \A n \in 1..Len(chan) : n # 1 => n - 1 \in 1..Len(chan') /\ chan'[n - 1] = chan[n]
    BY <1>4, <1>5 DEF ApplyOpen, ApplyRecordItems, Recording
  <2>2. \A i \in Rows : UnderWay(i) => UnderWay(i)'
    BY <2>1 DEF UnderWay, Recording
  <2>3. UNCHANGED <<disk, vol, fwd, hasty, brokeOff, op, run, call>>
    BY <1>5 DEF ApplyOpen, ApplyRecordItems, env, history
  <2> QED BY <1>2, <1>3, <2>1, <2>2, <2>3, QuietClean DEF CalmInv, GoneInv, Awaiting, Unit
<1>6. CASE ApplyRecordItems /\ Head(chan).who = 0
  <2> DEFINE m == Head(chan)
  <2>1. /\ Moved(1) /\ 1 \in 1..Len(chan) /\ m = chan[1] /\ Recording(1)
        /\ \A n \in 1..Len(chan) : n # 1 => n - 1 \in 1..Len(chan') /\ chan'[n - 1] = chan[n]
    BY <1>4, <1>6 DEF ApplyRecordItems, Recording
  <2>2. /\ UNCHANGED <<disk, vol, fwd, hasty, brokeOff, run, call>>
        /\ op' = [op EXCEPT !.rows = [i \in Rows |-> IF i \in {} THEN "lost" ELSE IF i \in m.done THEN "done" ELSE @[i]]]
    BY <1>1, <1>6 DEF ApplyRecordItems, env, history
  <2>3. Counting /\ Counting' /\ m.done \subseteq fwd.made
    BY <1>1, <2>1, <2>2 DEF JournalInv, CountInv, Counting
  <2>4. \A i \in Rows : op'.rows[i] = IF i \in m.done THEN "done" ELSE op.rows[i]
    BY <1>3, <2>2 DEF OpType
  <2> HIDE DEF m
  <2>5. \A i \in Rows \ m.done : UnderWay(i) => UnderWay(i)'
    BY <2>1 DEF UnderWay, Recording
  <2>6. CompleteInv'
    BY <1>2, <1>3, <2>2, <2>3, <2>4, <2>5 DEF CompleteInv
  <2>7. GoneInv'
    BY <1>2, <2>2, <2>3, NothingGone, CountingGone DEF GoneInv
  <2>8. CalmInv' /\ OverdoneInv'
    <3>1. \A n \in 1..Len(chan') : Outcome(n)' => chan'[n].left = {}
      BY <1>2, <2>1 DEF Moved, Outcome, CalmInv
    <3> QED BY <1>2, <2>2, <2>3, <2>4, <3>1 DEF CalmInv, OverdoneInv
  <2> QED BY <2>6, <2>7, <2>8 DEF Clean
<1>7. CASE ApplyFinalize
  <2>1. /\ Moved(1) /\ 1 \in 1..Len(chan) /\ Head(chan) = chan[1] /\ Closing(1)
        /\ \A n \in 1..Len(chan') : n + 1 \in 2..Len(chan) /\ chan'[n] = chan[n + 1]
    BY <1>4, <1>7 DEF ApplyFinalize, Closing
  <2>2. fwd.at = "finalizing" /\ \A k \in 2..Len(chan) : ~Recording(k)
    BY <1>1, <1>2, <2>1 DEF JournalInv, CountInv, CalmInv
  <2>3. \A i \in Rows : ~UnderWay(i) /\ ~UnderWay(i)'
    <3>1. ~Recording(1)
      BY <2>1 DEF Closing, Recording
    <3>2. \A n \in 1..Len(chan) : n = 1 \/ n \in 2..Len(chan)
      OBVIOUS
    <3>3. \A n \in 1..Len(chan') : ~Recording(n)'
      BY <2>1, <2>2 DEF Recording
    <3> QED BY <2>2, <3>1, <3>2, <3>3 DEF UnderWay
  <2>4. /\ fwd'.at = "counted" /\ fwd'.made = fwd.made /\ fwd'.buffer = fwd.buffer /\ fwd'.written = Written
        /\ op'.rows = op.rows
        /\ UNCHANGED <<disk, vol, hasty, brokeOff, run, call>>
    BY <1>1, <1>3, <1>7, <2>2 DEF ApplyFinalize, FwdType, OpType, env, history
  <2>5. Written = fwd.made
    BY <1>2, <1>3, <2>2, <2>3 DEF Written, CompleteInv, CalmInv
  <2>6. CompleteInv'
    BY <1>2, <1>3, <2>2, <2>3, <2>4, <2>5 DEF CompleteInv
  <2>7. GoneInv'
    BY <1>2, <2>1, <2>4, QuietGone DEF GoneInv, Awaiting, Unit
  <2>8. CalmInv' /\ OverdoneInv'
    <3>1. \A n \in 1..Len(chan') : Outcome(n)' => chan'[n].left = {}
      BY <1>2, <2>1 DEF Moved, Outcome, CalmInv
    <3> QED BY <1>2, <2>2, <2>4, <3>1 DEF CalmInv, OverdoneInv, Counting
  <2> QED BY <2>6, <2>7, <2>8 DEF Clean
<1>8. CASE ApplySetRollbackState
  <2> DEFINE d == Head(chan).who
  <2>1. Moved(1) /\ 1 \in 1..Len(chan) /\ Head(chan) = chan[1] /\ Mark(1)
    BY <1>4, <1>8 DEF ApplySetRollbackState, Mark
  <2>2. /\ d \in Inverses
        /\ call[d] = "setting" \/ (call[d] = "running" /\ run.at = "resolving")
    BY <1>1, <1>2, <2>1 DEF ProtocolInv, ExpectedInv, Expected, Mark, CalmInv
  <2>3. ~Counting
    BY <1>1, <2>1 DEF JournalInv, EarlyInv, Acting
  <2>4. \A i \in Rows : ~UnderWay(i)
    BY <1>1, <2>3 DEF UnderWay, JournalInv, CountInv
  <2>5. UNCHANGED <<disk, vol, fwd, hasty, brokeOff>> /\ op'.rows = op.rows
    BY <1>3, <1>8 DEF ApplySetRollbackState, OpType, env, history
  <2>6. CASE call[d] = "setting"
    <3>1. run' = run /\ call' = [call EXCEPT ![d] = "marked"]
      BY <1>8, <2>6 DEF ApplySetRollbackState
    <3>2. \A e \in Inverses : call'[e] \notin {"resetting", "over"} \/ call'[e] = call[e]
      BY <1>1, <3>1 DEF TypeInv, RestType
    <3> HIDE DEF d
    <3> QED BY <1>2, <1>3, <2>1, <2>4, <2>5, <3>1, <3>2, QuietClean DEF CalmInv, GoneInv, Awaiting, Unit
  <2>7. CASE call[d] = "running" /\ run.at = "resolving"
    <3>1. run' = Resting(0) /\ call' = [call EXCEPT ![d] = "over"]
      BY <1>8, <2>7 DEF ApplySetRollbackState
    <3>2. \A e \in Inverses : call'[e] # "resetting"
      BY <1>1, <1>2, <3>1 DEF TypeInv, RestType, CalmInv
    <3> HIDE DEF d
    <3>3. run.done = {} /\ run.left = {} /\ ~Awaiting /\ run.page = {} /\ run.dirs = {}
      BY <1>1, <1>2, <2>7 DEF HandInv, Awaiting, CalmInv
    <3>4. GoneInv'
      BY <1>2, <2>1, <2>5, <3>1, <3>3, QuietGone DEF Resting, GoneInv
    <3>5. \A i \in Rows : op.rows[i] # "done"
      <4>1. PageInv /\ Searching /\ Finishing
        BY <1>2, <2>7 DEF SearchInv, Searching, CalmInv, Finishing
      <4> QED BY <3>3, <4>1 DEF PageInv, InHand
    <3>6. OverdoneInv'
      BY <1>3, <2>3, <2>5, <3>5, AllOnRecord DEF OverdoneInv, Counting
    <3>7. CompleteInv'
      BY <1>2, <1>3, <2>4, <2>5 DEF CompleteInv
    <3>8. CalmInv'
      <4>1. \A n \in 1..Len(chan') : Outcome(n)' => chan'[n].left = {}
        BY <1>2, <2>1 DEF Moved, Outcome, CalmInv
      <4> QED BY <1>2, <2>5, <3>1, <3>2, <4>1 DEF CalmInv, Resting
    <3> QED BY <3>4, <3>6, <3>7, <3>8 DEF Clean
  <2> QED BY <2>2, <2>6, <2>7
<1>9. CASE ApplySetItemOutcomes
  <2> DEFINE m == Head(chan)
  <2>1. Moved(1) /\ 1 \in 1..Len(chan) /\ m = chan[1] /\ Outcome(1)
    BY <1>4, <1>9 DEF ApplySetItemOutcomes, Outcome
  <2>2. UNCHANGED <<disk, vol, fwd, hasty, brokeOff, call>>
    BY <1>9 DEF ApplySetItemOutcomes, env, history
  <2>3. m.left = {} /\ \A i \in m.done : disk[i] = "gone"
    BY <1>2, <2>1 DEF CalmInv, GoneInv
  <2>4. \A i \in Rows : op'.rows[i] = IF i \in m.done THEN "rolled" ELSE op.rows[i]
    BY <1>3, <1>9, <2>3 DEF ApplySetItemOutcomes, OpType
  <2>5. /\ run'.at \in {"page", "resolve"} /\ run'.page = run.page /\ run'.dirs = run.dirs /\ run'.done = run.done
        /\ run'.left = run.left /\ run'.stop = run.stop /\ run'.canceled = run.canceled /\ run'.skipped = run.skipped
    BY <1>3, <1>9 DEF ApplySetItemOutcomes, RunType
  <2> HIDE DEF m
  <2>6. ~Counting
    BY <1>1, <2>1 DEF JournalInv, RecordInv, OverInv, Undoing, Counting, Outcome
  <2>7. \A i \in Rows : ~UnderWay(i)
    BY <1>1, <2>6 DEF UnderWay, JournalInv, CountInv
  <2>8. CompleteInv'
    BY <1>2, <1>3, <2>2, <2>3, <2>4, <2>7 DEF CompleteInv
  <2>9. GoneInv'
    <3>1. \A n \in 1..Len(chan') : Outcome(n)' => n + 1 \in 1..Len(chan) /\ Outcome(n + 1) /\ chan'[n] = chan[n + 1]
      BY <2>1 DEF Moved, Outcome
    <3>2. \A i \in Rows : op'.rows[i] = "rolled" \/ i \in run'.done => disk'[i] = "gone"
      BY <1>2, <2>2, <2>3, <2>4, <2>5 DEF GoneInv
    <3>3. \A n \in 1..Len(chan') : Outcome(n)' => \A i \in chan'[n].done : disk'[i] = "gone"
      BY <1>2, <2>2, <3>1 DEF GoneInv
    <3>4. \A i \in Rows : disk'[i] = "gone" => op'.rows[i] = "rolled" \/ i \in run'.done
      BY <1>2, <2>1, <2>2, <2>4, <2>5 DEF GoneInv
    <3> QED BY <1>2, <2>2, <2>5, <3>2, <3>3, <3>4 DEF GoneInv
  <2>10. CalmInv' /\ OverdoneInv'
    <3>1. \A n \in 1..Len(chan') : Outcome(n)' => chan'[n].left = {}
      BY <1>2, <2>1 DEF Moved, Outcome, CalmInv
    <3> QED BY <1>2, <1>3, <2>2, <2>4, <2>5, <2>6, <3>1 DEF CalmInv, OverdoneInv, Counting
  <2> QED BY <2>8, <2>9, <2>10 DEF Clean
<1> QED BY <1>5, <1>6, <1>7, <1>8, <1>9 DEF Writer

LEMMA DispatchClean ==
    ASSUME SearchInv, SearchInv', Clean, trouble' = 0, NEW d \in Inverses,
           Gate(d) \/ MarkRollingBack(d) \/ SpawnInverse(d) \/ StartInverse(d)
    PROVE  Clean'
<1>1. JournalInv /\ TypeInv /\ HandInv /\ ~Trouble /\ ProtocolInv
  BY NoTrouble DEF SearchInv, JournalInv, RecordInv, ProtocolInv
<1>2. CalmInv /\ CompleteInv /\ GoneInv /\ OverdoneInv
  BY DEF Clean
<1>3. /\ fwd \in FwdType /\ chan \in Seq(Sent) /\ run \in RunType /\ op \in OpType
      /\ fwd.made \subseteq Rows
  BY <1>1 DEF TypeInv, RestType, FwdType
<1>4. ~Counting
  BY <1>1 DEF Gate, MarkRollingBack, SpawnInverse, StartInverse, JournalInv, EarlyInv, Acting
<1>5. \A i \in Rows : ~UnderWay(i)
  BY <1>1, <1>4 DEF UnderWay, JournalInv, CountInv
<1>6. UNCHANGED <<disk, vol, fwd, op, brokeOff>>
  BY DEF Gate, MarkRollingBack, SpawnInverse, StartInverse, env, book, history
<1>7. CASE Gate(d)
  <2>1. Written = fwd.made
    <3>1. \A i \in fwd.made : op.rows[i] \in {"done", "rolled"}
      BY <1>4, AllOnRecord
    <3> QED BY <1>2, <1>3, <3>1 DEF Written, CompleteInv
  <2>2. hasty' = hasty /\ UNCHANGED <<chan, run>> /\ call' = [call EXCEPT ![d] = "gated"]
    BY <1>1, <1>7, <2>1 DEF Gate, TypeInv, RestType
  <2>3. \A e \in Inverses : call'[e] \notin {"resetting", "over"} \/ call'[e] = call[e]
    BY <1>1, <2>2 DEF TypeInv, RestType
  <2> QED BY <1>1, <1>2, <1>3, <1>5, <1>6, <2>2, <2>3, MovedSame, QuietClean DEF CalmInv, GoneInv, Awaiting, Unit
<1>8. CASE MarkRollingBack(d)
  <2> DEFINE m == SetState(d, "rollingBack")
  <2>1. m \in Sent /\ m.kind = "state" /\ Send(<<m>>)
    BY <1>8, MessagesSent DEF MarkRollingBack, States, SetState, Msg
  <2> HIDE DEF m
  <2>2. UNCHANGED <<run, hasty>> /\ call' = [call EXCEPT ![d] = "setting"]
    BY <1>8 DEF MarkRollingBack, history
  <2>3. \A e \in Inverses : call'[e] \notin {"resetting", "over"} \/ call'[e] = call[e]
    BY <1>1, <2>2 DEF TypeInv, RestType
  <2>4. /\ Len(chan) \in Nat /\ Len(chan') = Len(chan) + 1
        /\ \A n \in 1..Len(chan) : chan'[n] = chan[n]
        /\ chan'[Len(chan) + 1] = m
    BY <1>3, <2>1, SendingOne
  <2>5. \A n \in 1..Len(chan') : Outcome(n)' => n \in 1..Len(chan) /\ Outcome(n) /\ chan'[n] = chan[n]
    BY <2>1, <2>4 DEF Outcome
  <2>6. CalmInv'
    BY <1>2, <1>6, <2>2, <2>3, <2>5 DEF CalmInv
  <2>7. CompleteInv'
    BY <1>2, <1>3, <1>5, <1>6 DEF CompleteInv
  <2>8. GoneInv'
    BY <1>2, <1>6, <2>2, <2>5 DEF GoneInv, Awaiting, Unit
  <2>9. OverdoneInv'
    BY <1>2, <1>6, <2>3 DEF OverdoneInv, Counting
  <2> QED BY <2>6, <2>7, <2>8, <2>9 DEF Clean
<1>9. CASE SpawnInverse(d)
  <2>1. UNCHANGED <<run, chan, hasty>> /\ call' = [call EXCEPT ![d] = "queued"]
    BY <1>2, <1>9 DEF SpawnInverse, history, CalmInv
  <2>2. \A e \in Inverses : call'[e] \notin {"resetting", "over"} \/ call'[e] = call[e]
    BY <1>1, <2>1 DEF TypeInv, RestType
  <2> QED BY <1>1, <1>2, <1>3, <1>5, <1>6, <2>1, <2>2, MovedSame, QuietClean DEF CalmInv, GoneInv, Awaiting, Unit
<1>10. CASE StartInverse(d)
  <2>1. Moved(0)
    <3>1. OpenInverse(d) \in Sent /\ OpenInverse(d).kind = "open" /\ Send(<<OpenInverse(d)>>)
      BY <1>10, MessagesSent DEF StartInverse, OpenInverse, Msg
    <3> QED BY <1>1, <3>1, MovedOne
  <2>2. /\ hasty' = hasty /\ call' = [call EXCEPT ![d] = "running"] /\ run.at = "idle"
        /\ run' = [Resting(d) EXCEPT !.at = "page", !.before = Top]
    BY <1>1, <1>10 DEF StartInverse, history
  <2>3. /\ run'.at = "page" /\ run'.page = {} /\ run'.dirs = {} /\ run'.done = {} /\ run'.left = {}
        /\ ~run'.stop /\ ~run'.canceled /\ ~run'.skipped
    BY <2>2 DEF Resting
  <2>4. run.done = {} /\ run.left = {} /\ ~Awaiting
    BY <1>1, <2>2 DEF HandInv, Awaiting
  <2>5. \A e \in Inverses : call'[e] \notin {"resetting", "over"} \/ call'[e] = call[e]
    BY <1>1, <2>2 DEF TypeInv, RestType
  <2> QED BY <1>3, <1>5, <1>6, <2>1, <2>2, <2>3, <2>4, <2>5, QuietClean
<1> QED BY <1>7, <1>8, <1>9, <1>10

LEMMA ReversalClean ==
    ASSUME SearchInv, SearchInv', Clean, Reversal, trouble' = 0
    PROVE  Clean'
<1>1. JournalInv /\ TypeInv /\ HandInv /\ ~Trouble /\ ProtocolInv /\ PageInv
  BY NoTrouble DEF SearchInv, JournalInv, RecordInv, ProtocolInv
<1>2. CalmInv /\ CompleteInv /\ GoneInv /\ OverdoneInv
  BY DEF Clean
<1>3. /\ fwd \in FwdType /\ chan \in Seq(Sent) /\ run \in RunType /\ op \in OpType
      /\ fwd.made \subseteq Rows
  BY <1>1 DEF TypeInv, RestType, FwdType
<1>4. /\ run.at # "idle" /\ UNCHANGED <<vol, fwd, op, call, hasty>>
      /\ fwd.at \in {"settled", "dead"} /\ ~Counting
  <2>1. run.at # "idle" /\ UNCHANGED <<vol, fwd, op, call, hasty>>
    BY DEF Reversal, ReadPage, StopAtBoundary, DeferDir, PassPauseGate, Verify, RemoveFile, RemoveFileFails,
           RemoveDirIfEmpty, DirsDone, Flush, Resolve, RunOnly, env, book, history
  <2> QED BY <1>1, <2>1 DEF JournalInv, RecordInv, OverInv, Undoing, Counting
<1>5. \A i \in Rows : ~UnderWay(i)
  BY <1>1, <1>4 DEF UnderWay, JournalInv, CountInv
<1>6. ~run.stop /\ ~run.canceled /\ ~run.skipped /\ ~brokeOff /\ run.left = {} /\ vol = "here"
  BY <1>2 DEF CalmInv
<1>7. run.at \in {"item", "verify", "act"} => Unit \in run.page /\ Unit \in Rows /\ disk[Unit] = "there"
  BY <1>1, <1>2, <1>3, UnitIsOfPage DEF TypeInv, UnitInv, RunType, GoneInv
<1>8. CASE ReadPage
  <2>1. run.at = "page" /\ UNCHANGED <<disk, chan, brokeOff>> /\ run.page = {} /\ run.done = {}
    BY <1>1, <1>8 DEF ReadPage, HandInv, env
  <2>2. CASE run' = [run EXCEPT !.at = "dirs"]
    <3>1. /\ run'.at = "dirs" /\ run'.done = run.done /\ run'.left = run.left /\ run'.page = run.page
          /\ run'.dirs = run.dirs /\ run'.stop = run.stop /\ run'.canceled = run.canceled
          /\ run'.skipped = run.skipped
      BY <1>3, <2>2 DEF RunType
    <3> QED BY <1>1, <1>2, <1>3, <1>4, <1>5, <1>6, <2>1, <3>1, MovedSame, QuietClean DEF GoneInv, Awaiting
  <2>3. CASE run' = [run EXCEPT !.at = "item", !.page = NewestPage,
                                !.before = CHOOSE i \in NewestPage : \A j \in NewestPage : i <= j]
    <3>1. /\ run'.at = "item" /\ run'.done = run.done /\ run'.left = run.left /\ run'.page = NewestPage
          /\ run'.dirs = run.dirs /\ run'.stop = run.stop /\ run'.canceled = run.canceled
          /\ run'.skipped = run.skipped
      BY <1>3, <2>3 DEF RunType
    <3>2. \A i \in NewestPage : disk[i] = "there"
      <4> SUFFICES ASSUME NEW i \in NewestPage PROVE disk[i] = "there"
        OBVIOUS
      <4>1. i \in Rows /\ op.rows[i] = "done"
        BY DEF NewestPage, Unread
      <4>2. disk[i] # "absent"
        BY <1>2, <4>1 DEF CompleteInv
      <4>3. disk[i] # "gone"
        BY <1>2, <2>1, <4>1 DEF GoneInv, Awaiting
      <4> QED BY <1>2, <4>1, <4>2, <4>3 DEF CalmInv
    <3>3. GoneInv'
      BY <1>2, <1>4, <2>1, <3>1, <3>2 DEF GoneInv, Outcome, Awaiting
    <3>4. CalmInv' /\ CompleteInv' /\ OverdoneInv'
      BY <1>2, <1>4, <2>1, <3>1 DEF CalmInv, CompleteInv, OverdoneInv, UnderWay, Recording, Outcome, Counting
    <3> QED BY <3>3, <3>4 DEF Clean
  <2> QED BY <1>1, <1>8, <2>2, <2>3 DEF ReadPage
<1>9. CASE DeferDir
  <2>1. UNCHANGED <<disk, chan, brokeOff>>
    BY <1>9 DEF DeferDir, RunOnly, env, history
  <2>2. /\ run'.at \in {"item", "flush"} /\ run'.done = run.done /\ run'.left = run.left
        /\ run'.page = run.page \ {Unit} /\ run'.dirs = run.dirs \cup {Unit}
        /\ run'.stop = run.stop /\ run'.canceled = run.canceled /\ run'.skipped = run.skipped
        /\ run.at = "item" /\ Unit \in Dirs /\ Unit \in run.page
    BY <1>3, <1>7, <1>9 DEF DeferDir, AfterUnit, RunType
  <2> QED BY <1>1, <1>2, <1>3, <1>4, <1>5, <1>6, <2>1, <2>2, MovedSame, QuietClean DEF GoneInv, Awaiting
<1>10. CASE PassPauseGate \/ Verify
  <2>1. UNCHANGED <<disk, chan, brokeOff>>
    BY <1>10 DEF PassPauseGate, Verify, RunOnly, env, history
  <2>2. Unit \in Files
    BY <1>2, <1>10 DEF PassPauseGate, Verify, GoneInv
  <2>3. run' = [run EXCEPT !.at = "verify"] \/ run' = [run EXCEPT !.at = "act"]
    BY <1>1, <1>6, <1>7, <1>10 DEF PassPauseGate, Verify, SeemsGone
  <2>4. /\ run'.at \in {"verify", "act"} /\ run'.done = run.done /\ run'.left = run.left
        /\ run'.page = run.page /\ run'.dirs = run.dirs
        /\ run'.stop = run.stop /\ run'.canceled = run.canceled /\ run'.skipped = run.skipped
        /\ run.at \in {"item", "verify"}
    BY <1>3, <1>10, <2>3 DEF PassPauseGate, Verify, RunType
  <2>5. Unit' = Unit
    BY <2>4 DEF Unit
  <2> QED BY <1>1, <1>2, <1>3, <1>4, <1>5, <1>6, <2>1, <2>2, <2>4, <2>5, MovedSame, QuietClean DEF GoneInv, Awaiting
<1>11. CASE RemoveFile
  <2>1. UNCHANGED <<chan, brokeOff>> /\ run.at = "act"
    BY <1>11 DEF RemoveFile, RunOnly, history
  <2>2. \A i \in Rows : disk'[i] = IF i = Unit THEN "gone" ELSE disk[i]
    BY <1>1, <1>11 DEF RemoveFile, TypeInv, RestType
  <2>3. run' = [Tally(Unit, "reversed") EXCEPT !.page = @ \ {Unit}, !.at = AfterUnit]
    BY <1>6, <1>7, <1>11, <2>1 DEF RemoveFile, Decide
  <2>4. /\ run'.at \in {"item", "flush"} /\ run'.done = run.done \cup {Unit} /\ run'.left = run.left
        /\ run'.page = run.page \ {Unit} /\ run'.dirs = run.dirs
        /\ run'.stop = run.stop /\ run'.canceled = run.canceled /\ run'.skipped = run.skipped
    BY <1>3, <2>3 DEF Tally, AfterUnit, RunType
  <2>5. Unit \in Rows /\ Unit \in Files /\ Unit \notin run.dirs /\ disk[Unit] = "there" /\ Unit \in run.page
    <3>1. Unit \in Files /\ run.dirs \subseteq Dirs
      BY <1>2, <2>1 DEF GoneInv
    <3>2. ASSUME NEW f \in Files, NEW e \in Dirs PROVE f # e
      BY SeqAssumption
    <3> QED BY <1>7, <2>1, <3>1, <3>2
  <2>6. Unit \in fwd.made
    <3>1. \A f \in Files \ fwd.made : disk[f] = "absent"
      BY <1>2 DEF CompleteInv
    <3> QED BY <2>5, <3>1
  <2>7. GoneInv'
    <3>1. \A i \in Rows : op'.rows[i] = "rolled" \/ i \in run'.done => disk'[i] = "gone"
      BY <1>2, <1>4, <2>2, <2>4 DEF GoneInv
    <3>2. \A n \in 1..Len(chan') : Outcome(n)' => \A i \in chan'[n].done : disk'[i] = "gone"
      <4> SUFFICES ASSUME NEW n \in 1..Len(chan), Outcome(n), NEW i \in chan[n].done PROVE disk'[i] = "gone"
        BY <2>1 DEF Outcome
      <4>1. i \in Rows
        <5>1. chan[n] \in Sent
          BY <1>3, ElementOfSeq
        <5> QED BY <5>1 DEF Sent, Messages
      <4> QED BY <1>2, <2>2, <4>1 DEF GoneInv
    <3>3. \A i \in Rows : disk'[i] = "gone" => op'.rows[i] = "rolled" \/ i \in run'.done
      BY <1>2, <1>4, <2>1, <2>2, <2>4 DEF GoneInv, Awaiting
    <3>4. \A i \in run'.page \cup run'.dirs : disk'[i] = "there"
      BY <1>2, <1>3, <2>2, <2>4, <2>5 DEF GoneInv, RunType
    <3> QED BY <1>2, <2>4, <3>1, <3>2, <3>3, <3>4 DEF GoneInv
  <2>8. CalmInv'
    BY <1>2, <1>4, <2>1, <2>2, <2>4 DEF CalmInv, Outcome
  <2>9. CompleteInv'
    <3>1. \A i \in Rows : UnderWay(i)' = UnderWay(i)
      BY <2>1 DEF UnderWay, Recording
    <3> QED BY <1>2, <1>3, <1>4, <2>2, <2>6, <3>1 DEF CompleteInv, Rows
  <2>10. OverdoneInv'
    BY <1>2, <1>4 DEF OverdoneInv, Counting
  <2> QED BY <2>7, <2>8, <2>9, <2>10 DEF Clean
<1>12. CASE RemoveDirIfEmpty
  <2>1. PICK d \in run.dirs, result \in {"reversed", "already", "skipped"} :
          /\ Inside[d] \cap run.dirs = {}
          /\ CASE result = "reversed" -> vol = "here" /\ Empty(d) /\ UNCHANGED trouble
               [] result = "already"  -> vol # "narrowed" /\ (IF SeemsGone(d) THEN UNCHANGED trouble ELSE Trouble)
               [] result = "skipped"  -> IF vol = "here" /\ (Empty(d) \/ disk[d] = "gone")
                                         THEN Trouble ELSE UNCHANGED trouble
          /\ disk' = IF result = "reversed" THEN [disk EXCEPT ![d] = "gone"] ELSE disk
          /\ run' = [Tally(d, result) EXCEPT !.dirs = @ \ {d}]
    BY <1>12 DEF RemoveDirIfEmpty
  <2>2. run.at = "dirs" /\ UNCHANGED <<chan, brokeOff>> /\ run.page = {}
    BY <1>1, <1>12 DEF RemoveDirIfEmpty, RunOnly, history, HandInv
  <2>3. d \in Dirs /\ d \in Rows /\ disk[d] = "there" /\ d \in fwd.made
    <3>1. d \in Dirs /\ disk[d] = "there"
      BY <1>2 DEF GoneInv
    <3>2. fwd.at # "copying"
      BY <1>4
    <3> QED BY <1>2, <3>1, <3>2 DEF CompleteInv, Rows
  \* What is inside it is a file or a folder that has gone already.
  <2>4. Empty(d)
    <3> SUFFICES ASSUME NEW i \in Inside[d] PROVE disk[i] \in {"absent", "gone"}
      BY <2>3 DEF Empty
    <3>1. i \in Rows /\ i \notin run.dirs
      BY <2>1, <2>3, SeqAssumption
    <3>2. CASE i \in fwd.made
      <4>1. op.rows[i] # "done" \/ InHand(i)
        BY <1>1, <1>4, <1>6, <2>2, <3>1 DEF PageInv, Searching, Finishing
      <4>2. InHand(i) => i \in run.done
        BY <1>6, <2>2, <3>1 DEF InHand, Awaiting
      <4>3. op.rows[i] \in {"done", "rolled"}
        BY <1>4, <3>2, AllOnRecord
      <4> QED BY <1>2, <3>1, <4>1, <4>2, <4>3 DEF GoneInv
    <3>3. CASE i \notin fwd.made
      <4>1. fwd.at # "copying"
        BY <1>4
      <4> QED BY <1>2, <3>1, <3>3, <4>1 DEF CompleteInv, Rows
    <3> QED BY <3>2, <3>3
  <2>5. result = "reversed"
    BY <1>1, <1>6, <2>1, <2>3, <2>4 DEF SeemsGone
  <2>6. /\ run'.at = "dirs" /\ run'.done = run.done \cup {d} /\ run'.left = run.left
        /\ run'.page = run.page /\ run'.dirs = run.dirs \ {d}
        /\ run'.stop = run.stop /\ run'.canceled = run.canceled /\ run'.skipped = run.skipped
    BY <1>3, <2>1, <2>2, <2>5 DEF Tally, RunType
  <2>7. \A i \in Rows : disk'[i] = IF i = d THEN "gone" ELSE disk[i]
    BY <1>1, <2>1, <2>5 DEF TypeInv, RestType
  <2>8. GoneInv'
    <3>1. \A i \in Rows : op'.rows[i] = "rolled" \/ i \in run'.done => disk'[i] = "gone"
      BY <1>2, <1>4, <2>6, <2>7 DEF GoneInv
    <3>2. \A n \in 1..Len(chan') : Outcome(n)' => \A i \in chan'[n].done : disk'[i] = "gone"
      <4> SUFFICES ASSUME NEW n \in 1..Len(chan), Outcome(n), NEW i \in chan[n].done PROVE disk'[i] = "gone"
        BY <2>2 DEF Outcome
      <4>1. i \in Rows
        <5>1. chan[n] \in Sent
          BY <1>3, ElementOfSeq
        <5> QED BY <5>1 DEF Sent, Messages
      <4> QED BY <1>2, <2>7, <4>1 DEF GoneInv
    <3>3. \A i \in Rows : disk'[i] = "gone" => op'.rows[i] = "rolled" \/ i \in run'.done
      BY <1>2, <1>4, <2>2, <2>6, <2>7 DEF GoneInv, Awaiting
    <3>4. \A i \in run'.page \cup run'.dirs : disk'[i] = "there"
      BY <1>2, <1>3, <2>2, <2>6, <2>7 DEF GoneInv, RunType
    <3> QED BY <1>2, <2>6, <3>1, <3>2, <3>3, <3>4 DEF GoneInv
  <2>9. CalmInv'
    BY <1>2, <1>4, <2>2, <2>6, <2>7 DEF CalmInv, Outcome
  <2>10. CompleteInv'
    <3>1. \A i \in Rows : UnderWay(i)' = UnderWay(i)
      BY <2>2 DEF UnderWay, Recording
    <3>2. ASSUME NEW f \in Files PROVE f # d
      BY <2>3, SeqAssumption
    <3> QED BY <1>2, <1>3, <1>4, <2>3, <2>7, <3>1, <3>2 DEF CompleteInv, Rows
  <2>11. OverdoneInv'
    BY <1>2, <1>4 DEF OverdoneInv, Counting
  <2> QED BY <2>8, <2>9, <2>10, <2>11 DEF Clean
<1>13. CASE DirsDone
  <2>1. UNCHANGED <<disk, chan, brokeOff>>
    BY <1>13 DEF DirsDone, RunOnly, env, history
  <2>2. /\ run.at = "dirs" /\ run'.at = "lastFlush" /\ run'.done = run.done /\ run'.left = run.left
        /\ run'.page = run.page /\ run'.dirs = run.dirs
        /\ run'.stop = run.stop /\ run'.canceled = run.canceled /\ run'.skipped = run.skipped
    BY <1>3, <1>13 DEF DirsDone, RunType
  <2> QED BY <1>1, <1>2, <1>3, <1>4, <1>5, <1>6, <2>1, <2>2, MovedSame, QuietClean DEF GoneInv, Awaiting
<1>14. CASE Flush
  <2>1. UNCHANGED <<disk, brokeOff>> /\ run.at \in {"flush", "lastFlush"}
    BY <1>14 DEF Flush, env, history
  <2>2. /\ run'.dirs = run.dirs /\ run'.page = run.page /\ run'.left = run.left
        /\ run'.stop = run.stop /\ run'.canceled = run.canceled /\ run'.skipped = run.skipped
        /\ run'.done = {} /\ run'.at \notin {"verify", "act"}
        /\ \/ run.done = {} /\ chan' = chan
           \/ /\ run'.at \in {"lastFlushing", "flushing"}
              /\ Send(Some(RecordItems(run.id, run.done), run.done) \o <<SetOutcomes(run.id, run.done, run.left)>>)
    <3>1. \/ /\ run.done = {} /\ chan' = chan
             /\ \E to \in {"resolve", "page"} : run' = [run EXCEPT !.at = to]
          \/ /\ \E to \in {"lastFlushing", "flushing"} : run' = [run EXCEPT !.at = to, !.done = {}, !.left = {}]
             /\ Send(Some(RecordItems(run.id, run.done), run.done) \o <<SetOutcomes(run.id, run.done, run.left)>>)
      BY <1>6, <1>14 DEF Flush
    <3> QED BY <1>3, <1>6, <3>1 DEF RunType
  <2>3. CASE run.done = {} /\ chan' = chan
    BY <1>1, <1>2, <1>3, <1>4, <1>5, <1>6, <2>1, <2>2, <2>3, MovedSame, QuietClean DEF GoneInv, Awaiting
  <2>4. CASE /\ run'.at \in {"lastFlushing", "flushing"}
             /\ Send(Some(RecordItems(run.id, run.done), run.done) \o <<SetOutcomes(run.id, run.done, run.left)>>)
    <3> DEFINE r == RecordItems(run.id, run.done)
               m == SetOutcomes(run.id, run.done, run.left)
    <3>1. /\ r \in Sent /\ r.kind = "items"
          /\ m \in Sent /\ m.kind = "outcomes" /\ m.done = run.done /\ m.left = {}
      BY <1>3, <1>6, MessagesSent DEF RunType, RecordItems, SetOutcomes, Msg
    <3>2. Send(Some(r, run.done) \o <<m>>)
      BY <2>4
    <3> HIDE DEF r, m
    <3>3. /\ Len(chan) \in Nat
          /\ \A n \in 1..Len(chan) : chan'[n] = chan[n]
          /\ run.done = {} => Len(chan') = Len(chan) + 1 /\ chan'[Len(chan) + 1] = m
          /\ run.done # {} => /\ Len(chan') = Len(chan) + 2
                              /\ chan'[Len(chan) + 1] = r /\ chan'[Len(chan) + 2] = m
      BY <1>3, <3>1, <3>2, SendingBehind
    <3>4. \A n \in 1..Len(chan) : ~Outcome(n)
      BY <1>1, <2>1 DEF ProtocolInv, ExpectedInv, Expected, Outcome
    <3>5. \A n \in 1..Len(chan') : Outcome(n)' => chan'[n] = m
      BY <3>1, <3>3, <3>4 DEF Outcome
    <3>6. GoneInv'
      BY <1>2, <1>3, <1>4, <2>1, <2>2, <2>4, <3>1, <3>5 DEF GoneInv, Awaiting, RunType
    <3>7. CalmInv'
      BY <1>2, <1>4, <2>1, <2>2, <3>1, <3>5 DEF CalmInv
    <3>8. CompleteInv' /\ OverdoneInv'
      BY <1>2, <1>3, <1>4, <1>5, <2>1 DEF CompleteInv, OverdoneInv, Counting
    <3> QED BY <3>6, <3>7, <3>8 DEF Clean
  <2> QED BY <2>2, <2>3, <2>4
<1>15. CASE Resolve
  <2> DEFINE m == SetState(run.id, FinalState)
  <2>1. m \in Sent /\ m.kind = "state" /\ Send(<<m>>)
    BY <1>3, <1>15, MessagesSent DEF Resolve, FinalState, States, RunType, SetState, Msg
  <2> HIDE DEF m
  <2>2. /\ run.at = "resolve" /\ run'.at = "resolving" /\ run'.done = run.done /\ run'.left = run.left
        /\ run'.page = run.page /\ run'.dirs = run.dirs
        /\ run'.stop = run.stop /\ run'.canceled = run.canceled /\ run'.skipped = run.skipped
        /\ UNCHANGED <<disk, brokeOff>>
    BY <1>3, <1>15 DEF Resolve, RunType, env, history
  <2>3. /\ Len(chan) \in Nat /\ Len(chan') = Len(chan) + 1
        /\ \A n \in 1..Len(chan) : chan'[n] = chan[n]
        /\ chan'[Len(chan) + 1] = m
    BY <1>3, <2>1, SendingOne
  <2>4. \A n \in 1..Len(chan') : Outcome(n)' => n \in 1..Len(chan) /\ Outcome(n) /\ chan'[n] = chan[n]
    BY <2>1, <2>3 DEF Outcome
  <2>5. CalmInv' /\ CompleteInv' /\ OverdoneInv'
    BY <1>2, <1>3, <1>4, <1>5, <2>2, <2>4 DEF CalmInv, CompleteInv, OverdoneInv, Counting
  <2>6. GoneInv'
    BY <1>2, <1>4, <2>2, <2>4 DEF GoneInv, Awaiting
  <2> QED BY <2>5, <2>6 DEF Clean
<1>16. ~StopAtBoundary /\ ~RemoveFileFails
  BY <1>1, <1>6 DEF StopAtBoundary, RemoveFileFails
<1> QED BY <1>8, <1>9, <1>10, <1>11, <1>12, <1>13, <1>14, <1>15, <1>16 DEF Reversal

LEMMA NextClean ==
    ASSUME SearchInv, SearchInv', CleanInv, [Next]_vars
    PROVE  CleanInv'
<1> SUFFICES ASSUME trouble' = 0 PROVE Clean'
  BY DEF CleanInv
<1>1. TypeInv /\ ~Trouble
  BY NoTrouble DEF SearchInv, JournalInv, RecordInv, ProtocolInv
<1>2. trouble = 0 /\ Clean
  <2>1. trouble' # trouble => trouble' > trouble
    BY <1>1, TroubleType
       DEF Next, Writer, ApplyOpen, ApplyRecordItems, ApplyFinalize, ApplySetRollbackState, ApplySetItemOutcomes,
           CopyFile, Finalize, CheckCompleteness, Gate, StartInverse, Dispatch, MarkRollingBack, SpawnInverse,
           Reversal, ReadPage, StopAtBoundary, DeferDir, PassPauseGate, Verify, RemoveFile, RemoveFileFails,
           RemoveDirIfEmpty, DirsDone, Flush, Resolve, Outside, Touch, Erase, VolumeMoves, Pause, Resume,
           CancelRunning, CancelQueued, CrashAndRelaunch, vars
  <2>2. trouble \in Nat
    BY <1>1, BoundAssumption DEF TypeInv, RestType
  <2> QED BY <2>1, <2>2 DEF CleanInv
<1>3. CASE CopyFile \/ Finalize \/ CheckCompleteness
  BY <1>2, <1>3, CopyClean
<1>4. CASE Writer
  BY <1>2, <1>4, WriterClean
<1>5. CASE Dispatch \/ \E d \in Inverses : Gate(d) \/ StartInverse(d)
  BY <1>2, <1>5, DispatchClean DEF Dispatch
<1>6. CASE Reversal
  BY <1>2, <1>6, ReversalClean
<1>7. CASE Outside \/ UNCHANGED vars
  <2>1. CASE Resume
    <3>1. UNCHANGED <<fwd, chan, op, call, hasty, brokeOff, disk, vol>>
      BY <2>1 DEF Resume, RunOnly, env, book, history
    <3>2. /\ run'.at = run.at /\ run'.done = run.done /\ run'.left = run.left
          /\ run'.page = run.page /\ run'.dirs = run.dirs
          /\ run'.stop = run.stop /\ run'.canceled = run.canceled /\ run'.skipped = run.skipped
      BY <1>1, <2>1 DEF Resume, TypeInv, RunType
    <3>3. \A i \in Rows : UnderWay(i) => UnderWay(i)'
      BY <3>1 DEF UnderWay, Recording
    <3>4. fwd.made \subseteq Rows
      BY <1>1 DEF TypeInv, RestType, FwdType
    <3> QED BY <1>1, <1>2, <3>1, <3>2, <3>3, <3>4, MovedSame, QuietClean DEF Clean, CalmInv, GoneInv, Awaiting, Unit
  <2>2. CASE UNCHANGED vars
    <3>1. UNCHANGED <<fwd, chan, op, call, hasty, brokeOff, disk, vol, run>>
      BY <2>2 DEF vars, env, book, history
    <3>2. \A i \in Rows : UnderWay(i) => UnderWay(i)'
      BY <3>1 DEF UnderWay, Recording
    <3>3. fwd.made \subseteq Rows
      BY <1>1 DEF TypeInv, RestType, FwdType
    <3> QED BY <1>1, <1>2, <3>1, <3>2, <3>3, MovedSame, QuietClean DEF Clean, CalmInv, GoneInv, Awaiting, Unit
  <2> QED BY <1>1, <1>7, <2>1, <2>2
          DEF Outside, Touch, Erase, VolumeMoves, Pause, CancelRunning, CancelQueued, CrashAndRelaunch
<1> QED BY <1>3, <1>4, <1>5, <1>6, <1>7 DEF Next

(* Rolled back is final: no row may still be tried, unless the database    *)
(* failed a read that the reversal took for the end; and a copy nobody     *)
(* interfered with is undone completely, its folders included, by the time *)
(* a reversal of it is over.                                               *)
THEOREM VerdictIsRight == Spec => []VerdictIsTrue
<1>1. Init => SearchInv /\ CleanInv
  BY InitSearchInv, InitClean DEF CleanInv
<1>2. SearchInv /\ CleanInv /\ [Next]_vars => (SearchInv /\ CleanInv)'
  BY NextSearchInv, NextClean
<1>3. SearchInv /\ CleanInv => VerdictIsTrue
  <2> SUFFICES ASSUME SearchInv, CleanInv PROVE VerdictIsTrue
    OBVIOUS
  <2>1. op.state = "rolledBack" /\ ~brokeOff => \A i \in Rows : op.rows[i] # "done"
    BY DEF SearchInv, VerdictInv, Verdict
  <2>2. trouble = 0 /\ (\E d \in Inverses : call[d] = "over") => \A i \in fwd.made : op.rows[i] = "rolled" /\ i \in Rows
    BY DEF SearchInv, JournalInv, RecordInv, ProtocolInv, TypeInv, RestType, FwdType, CleanInv, Clean, OverdoneInv
  <2>3. trouble = 0 => \A i \in Rows : op.rows[i] = "rolled" => disk[i] = "gone"
    BY DEF CleanInv, Clean, GoneInv
  <2> QED BY <2>1, <2>2, <2>3 DEF VerdictIsTrue
<1> QED BY <1>1, <1>2, <1>3, PTL DEF Spec

=============================================================================

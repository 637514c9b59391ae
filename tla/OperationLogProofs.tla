------------------------ MODULE OperationLogProofs -------------------------
(***************************************************************************)
(* Theorems about OperationLog, for any rows and folders, any number of    *)
(* dispatches, any batch and page size and any amount of trouble.          *)
(***************************************************************************)
EXTENDS OperationLog, FiniteSetTheorems, SequenceTheorems, WellFoundedInduction, TLAPS

-----------------------------------------------------------------------------
(* Sets of seqs have ends: the page, its next unit and where it begins are *)
(* chosen by them.                                                         *)

LEMMA Least ==
    ASSUME NEW S \in SUBSET Nat, S # {}
    PROVE  \E m \in S : \A k \in S : m <= k
<1> DEFINE R == {ss \in Nat \X Nat : ss[1] < ss[2]}
<1>1. IsWellFoundedOn(R, Nat)
  BY NatLessThanWellFounded DEF OpToRel
<1>2. ASSUME NEW y \in Nat, NEW x \in Nat, y < x PROVE <<y, x>> \in R
  BY <1>2
<1> HIDE DEF R
<1>3. PICK x \in S : \A y \in S : ~(<<y, x>> \in R)
  BY <1>1, WFMin
<1>4. ASSUME NEW k \in S PROVE x <= k
  <2>1. ~(k < x)
    BY <1>2, <1>3
  <2> QED BY <2>1
<1> QED BY <1>4

LEMMA FiniteIsBounded ==
    ASSUME NEW S \in SUBSET Nat, IsFiniteSet(S)
    PROVE  \E b \in Nat : \A i \in S : i <= b
<1>0. PICK n \in Nat : \E f : f \in Bijection(1..n, S)
  BY FS_NatBijection DEF ExistsBijection
<1>1. PICK f : f \in Bijection(1..n, S)
  BY <1>0
<1>2. /\ f \in [1..n -> S]
      /\ \A i \in S : \E k \in 1..n : f[k] = i
  BY <1>1 DEF Bijection, Surjection
<1>3. \A k \in 1..n : f[k] \in Nat
  BY <1>2
<1> DEFINE Bounded(k) == \E b \in Nat : \A j \in 1..k : f[j] <= b
           T == {k \in 0..n : ~Bounded(k)}
<1>4. Bounded(0)
  OBVIOUS
<1>5. ASSUME NEW k \in 0..(n - 1), Bounded(k) PROVE Bounded(k + 1)
  <2>1. PICK b \in Nat : \A j \in 1..k : f[j] <= b
    BY <1>5
  <2>2. f[k + 1] \in Nat
    BY <1>3
  <2>3. ASSUME NEW j \in 1..(k + 1) PROVE f[j] <= b + f[k + 1]
    <3>1. j = k + 1 \/ j \in 1..k
      OBVIOUS
    <3>2. f[j] \in Nat
      BY <1>3
    <3> QED BY <2>1, <2>2, <3>1, <3>2
  <2>4. b + f[k + 1] \in Nat
    BY <2>2
  <2> QED BY <2>3, <2>4
<1>6. T \in SUBSET Nat /\ n \in 0..n /\ (Bounded(n) => \E b \in Nat : \A j \in 1..n : f[j] <= b)
  OBVIOUS
<1>7. \A k \in 0..n : k \in T <=> ~Bounded(k)
  OBVIOUS
<1>8. T \subseteq 0..n
  OBVIOUS
<1> HIDE DEF Bounded, T
<1>9. T = {}
  <2> SUFFICES ASSUME T # {} PROVE FALSE
    OBVIOUS
  <2>1. PICK m \in T : \A k \in T : m <= k
    BY <1>6, Least
  <2>2. m # 0 /\ m \in 0..n
    BY <1>4, <1>7, <1>8
  <2>3. m - 1 \in 0..(n - 1) /\ m - 1 \in 0..n /\ m - 1 \notin T /\ (m - 1) + 1 = m
    BY <2>1, <2>2
  <2>4. Bounded(m - 1)
    BY <1>7, <2>3
  <2>5. Bounded(m)
    BY <1>5, <2>3, <2>4
  <2> QED BY <1>7, <2>2, <2>5
<1>10. PICK b \in Nat : \A j \in 1..n : f[j] <= b
  BY <1>6, <1>7, <1>9
<1> QED BY <1>2, <1>10

LEMMA Greatest ==
    ASSUME NEW S \in SUBSET Nat, IsFiniteSet(S), S # {}
    PROVE  \E m \in S : \A k \in S : k <= m
<1> DEFINE B == {b \in Nat : \A i \in S : i <= b}
<1>1. PICK b \in B : \A c \in B : b <= c
  <2>1. B # {} /\ B \in SUBSET Nat
    BY FiniteIsBounded
  <2> HIDE DEF B
  <2> QED BY <2>1, Least
<1>2. b \in S
  <2> SUFFICES ASSUME b \notin S PROVE FALSE
    OBVIOUS
  <2>1. \A i \in S : i <= b - 1
    BY <1>1
  <2>2. b - 1 \in Nat
    <3>1. PICK i \in S : TRUE
      OBVIOUS
    <3> QED BY <1>1, <2>1, <3>1
  <2> QED BY <1>1, <2>1, <2>2
<1> QED BY <1>1, <1>2

LEMMA RowsAreFinite ==
    ASSUME NEW S \in SUBSET Rows
    PROVE  S \in SUBSET Nat /\ IsFiniteSet(S)
  BY SeqAssumption, FS_Subset DEF Rows

LEMMA UnitIsOfPage ==
    ASSUME run.page \in SUBSET Rows, run.page # {}
    PROVE  Unit \in run.page /\ \A j \in run.page : j <= Unit
  BY RowsAreFinite, Greatest DEF Unit

LEMMA TopIsAbove == Top \in Nat /\ \A i \in Rows : i < Top
<1>1. Rows \cup {0} \in SUBSET Nat /\ IsFiniteSet(Rows \cup {0})
  BY SeqAssumption, FS_AddElement DEF Rows
<1> DEFINE m == CHOOSE i \in Rows \cup {0} : \A j \in Rows : j <= i
<1>2. m \in Nat /\ \A j \in Rows : j <= m
  BY <1>1, Greatest
<1>3. \A i \in Rows : i \in Nat
  BY <1>1
<1> QED BY <1>2, <1>3 DEF Top

-----------------------------------------------------------------------------
(* The channel: what is sent arrives behind what waits, and what the       *)
(* writer takes is the message in front.                                   *)

\* Messages as they are sent: a state in it is a rollback state.
Sent == {m \in Messages : m.kind \in {"finalize", "state"} => m.state \in States}

LEMMA Sending ==
    ASSUME chan \in Seq(Sent), NEW msgs \in Seq(Sent), Send(msgs)
    PROVE  /\ chan' \in Seq(Sent)
           /\ Len(chan) \in Nat /\ Len(msgs) \in Nat /\ Len(chan') = Len(chan) + Len(msgs)
           /\ \A n \in 1..Len(chan') :
                 chan'[n] = IF n <= Len(chan) THEN chan[n] ELSE msgs[n - Len(chan)]
<1>1. Len(chan) \in Nat /\ Len(msgs) \in Nat
  BY LenProperties
<1> QED BY <1>1, ConcatProperties DEF Send

\* One message more.
LEMMA SendingOne ==
    ASSUME chan \in Seq(Sent), NEW m \in Sent, Send(<<m>>)
    PROVE  /\ chan' \in Seq(Sent)
           /\ Len(chan) \in Nat /\ Len(chan') = Len(chan) + 1
           /\ \A n \in 1..Len(chan) : chan'[n] = chan[n]
           /\ chan'[Len(chan) + 1] = m
<1> DEFINE msgs == <<m>>
<1>1. msgs \in Seq(Sent) /\ Len(msgs) = 1 /\ msgs[1] = m
  OBVIOUS
<1>2. Send(msgs)
  OBVIOUS
<1> HIDE DEF msgs
<1>3. /\ chan' \in Seq(Sent) /\ Len(chan) \in Nat /\ Len(chan') = Len(chan) + 1
      /\ \A n \in 1..Len(chan') :
            chan'[n] = IF n <= Len(chan) THEN chan[n] ELSE msgs[n - Len(chan)]
  BY <1>1, <1>2, Sending
<1> QED BY <1>1, <1>3

\* Nothing, or one message that is only sent when there is something to say.
LEMMA SendingNothing ==
    ASSUME chan \in Seq(Sent), Send(<<>>)
    PROVE  chan' = chan
  BY ConcatEmptySeq DEF Send

\* A message behind another one that is sent only when S is not empty.
LEMMA SendingBehind ==
    ASSUME chan \in Seq(Sent), NEW r \in Sent, NEW S, NEW m \in Sent, Send(Some(r, S) \o <<m>>)
    PROVE  /\ chan' \in Seq(Sent) /\ Len(chan) \in Nat
           /\ \A n \in 1..Len(chan) : chan'[n] = chan[n]
           /\ S = {} => Len(chan') = Len(chan) + 1 /\ chan'[Len(chan) + 1] = m
           /\ S # {} => /\ Len(chan') = Len(chan) + 2
                       /\ chan'[Len(chan) + 1] = r /\ chan'[Len(chan) + 2] = m
<1> DEFINE one == <<m>>
           two == <<r, m>>
<1>1. /\ one \in Seq(Sent) /\ Len(one) = 1 /\ one[1] = m
      /\ two \in Seq(Sent) /\ Len(two) = 2 /\ two[1] = r /\ two[2] = m
  OBVIOUS
<1>2. S = {} => Send(one)
  <2>1. S = {} => Some(r, S) \o <<m>> = one
    BY <1>1, ConcatEmptySeq DEF Some
  <2> QED BY <2>1
<1>3. S # {} => Send(two)
  <2>1. <<r>> \o <<m>> = two
    <3> DEFINE front == <<r>>
    <3>1. front \in Seq(Sent) /\ Len(front) = 1 /\ front[1] = r
      OBVIOUS
    <3> HIDE DEF front, one, two
    <3>2. /\ front \o one \in Seq(Sent) /\ Len(front \o one) = 2
          /\ (front \o one)[1] = r /\ (front \o one)[2] = m
      <4>1. /\ front \o one \in Seq(Sent) /\ Len(front \o one) = Len(front) + Len(one)
            /\ \A i \in 1..(Len(front) + Len(one)) : (front \o one)[i] =
                  IF i <= Len(front) THEN front[i] ELSE one[i - Len(front)]
        BY <1>1, <3>1, ConcatProperties
      <4> DEFINE s == front \o one
      <4> HIDE DEF s
      <4>2. /\ s \in Seq(Sent) /\ Len(s) = 2
            /\ \A i \in 1..2 : s[i] = IF i <= 1 THEN front[i] ELSE one[i - 1]
        BY <1>1, <3>1, <4>1 DEF s
      <4>3. s[1] = front[1] /\ s[2] = one[1]
        BY <4>2
      <4> QED BY <1>1, <3>1, <4>2, <4>3 DEF s
    <3>3. \A i \in 1..2 : (front \o one)[i] = two[i]
      BY <1>1, <3>2
    <3>4. front \o one = two
      BY <1>1, <3>2, <3>3, SeqEqual
    <3> QED BY <3>4 DEF front, one
  <2>2. S # {} => Some(r, S) \o <<m>> = two
    BY <2>1 DEF Some
  <2> QED BY <2>2
<1> HIDE DEF one, two
<1>4. CASE S = {}
  <2>1. /\ chan' \in Seq(Sent) /\ Len(chan) \in Nat /\ Len(chan') = Len(chan) + 1
        /\ \A n \in 1..Len(chan') :
              chan'[n] = IF n <= Len(chan) THEN chan[n] ELSE one[n - Len(chan)]
    BY <1>1, <1>2, <1>4, Sending
  <2>2. \A n \in 1..Len(chan) : chan'[n] = chan[n]
    BY <2>1
  <2>3. chan'[Len(chan) + 1] = one[1]
    BY <2>1
  <2> QED BY <1>1, <1>4, <2>1, <2>2, <2>3
<1>5. CASE S # {}
  <2>1. Send(two)
    BY <1>3, <1>5
  <2>2. /\ chan' \in Seq(Sent) /\ Len(chan) \in Nat /\ Len(chan') = Len(chan) + 2
        /\ \A n \in 1..Len(chan') :
              chan'[n] = IF n <= Len(chan) THEN chan[n] ELSE two[n - Len(chan)]
    BY <1>1, <2>1, Sending
  <2>3. \A n \in 1..Len(chan) : chan'[n] = chan[n]
    BY <2>2
  <2>4. chan'[Len(chan) + 1] = two[1] /\ chan'[Len(chan) + 2] = two[2]
    BY <2>2
  <2> QED BY <1>1, <1>5, <2>2, <2>3, <2>4
<1> QED BY <1>4, <1>5

LEMMA Taking ==
    ASSUME chan \in Seq(Sent), NEW kind, Take(kind)
    PROVE  /\ chan' \in Seq(Sent)
           /\ Len(chan) \in Nat \ {0} /\ Len(chan') = Len(chan) - 1
           /\ Head(chan) \in Sent /\ Head(chan).kind = kind /\ Head(chan) = chan[1]
           /\ \A n \in 1..Len(chan') : chan'[n] = chan[n + 1]
<1>1. Len(chan) \in Nat \ {0}
  BY EmptySeq DEF Take
<1> QED BY <1>1, HeadTailProperties DEF Take

LEMMA MessagesSent ==
    /\ \A d \in Inverses : OpenInverse(d) \in Sent
    /\ \A who \in Inverses \cup {0}, done \in SUBSET Rows : RecordItems(who, done) \in Sent
    /\ \A d \in Inverses \cup {0}, done \in SUBSET Rows, left \in SUBSET Rows : SetOutcomes(d, done, left) \in Sent
    /\ \A state \in States : FinalizeOp(state) \in Sent
    /\ \A d \in Inverses \cup {0}, state \in States : SetState(d, state) \in Sent
<1>1. ASSUME NEW kind \in {"open", "items", "outcomes", "finalize", "state"}, NEW who \in Inverses \cup {0},
             NEW done \in SUBSET Rows, NEW left \in SUBSET Rows, NEW state \in States \cup {"none"},
             kind \in {"finalize", "state"} => state \in States
      PROVE  Msg(kind, who, done, left, state) \in Sent
  BY <1>1 DEF Msg, Sent, Messages
<1> QED BY <1>1 DEF OpenInverse, RecordItems, SetOutcomes, FinalizeOp, SetState

LEMMA SentAreMessages ==
    ASSUME NEW s \in Seq(Sent)
    PROVE  s \in Seq(Messages)
  BY SeqMonotonic DEF Sent

-----------------------------------------------------------------------------
(* Types.                                                                  *)

FwdType == [at : {"copying", "finalizing", "counted", "correcting", "settled", "dead"},
            made : SUBSET Rows, buffer : SUBSET Rows, written : SUBSET Rows]
OpType == [state : States, rows : [Rows -> {"none", "lost", "done", "skipped", "rolled"}]]
RunType == [id : Inverses \cup {0}, at : Places, before : Nat, page : SUBSET Rows, dirs : SUBSET Rows,
            done : SUBSET Rows, left : SUBSET Rows, reversed : BOOLEAN, skipped : BOOLEAN,
            canceled : BOOLEAN, stop : BOOLEAN, paused : BOOLEAN]

\* The types apart from the channel's and the reversal's.
RestType ==
    /\ disk \in [Rows -> {"absent", "there", "changed", "alike", "raced", "gone"}]
    /\ vol \in {"here", "narrowed", "away"} /\ misread \subseteq Rows
    /\ fwd \in FwdType /\ op \in OpType
    /\ items \in [Inverses -> [done : SUBSET Rows, lost : SUBSET Rows]] /\ latest \in Inverses \cup {0}
    /\ call \in [Inverses -> {"idle", "gated", "setting", "marked", "resetting", "queued", "running", "over"}]
    /\ trouble \in 0..MaxTrouble /\ hasty \in BOOLEAN /\ brokeOff \in BOOLEAN /\ orphaned \in BOOLEAN
    /\ uncorrected \in BOOLEAN

\* There is a unit whenever one is worked on.
UnitInv == run.at \in {"item", "verify", "act"} => run.page # {}

TypeInv == RestType /\ chan \in Seq(Sent) /\ run \in RunType /\ UnitInv

LEMMA TypeParts == TypeInv => TypeOK
  BY SentAreMessages DEF TypeInv, TypeOK, RestType, FwdType, OpType, RunType

LEMMA RestingType == ASSUME NEW d \in Inverses \cup {0} PROVE Resting(d) \in RunType
  BY DEF Resting, RunType, Places

LEMMA InitTypeInv == Init => TypeInv
<1> SUFFICES ASSUME Init PROVE TypeInv
  OBVIOUS
<1>1. chan \in Seq(Sent)
  BY EmptySeq DEF Init
<1>2. run \in RunType /\ UnitInv
  BY RestingType DEF Init, Resting, UnitInv
<1>3. trouble \in 0..MaxTrouble
  BY BoundAssumption DEF Init
<1>4. fwd \in FwdType /\ op \in OpType
  BY DEF Init, FwdType, OpType, States
<1> QED BY <1>1, <1>2, <1>3, <1>4, <1>4 DEF Init, TypeInv, RestType

LEMMA TroubleType ==
    ASSUME trouble \in 0..MaxTrouble, Trouble
    PROVE  trouble' \in 0..MaxTrouble /\ trouble' > trouble
  BY BoundAssumption DEF Trouble

\* The copy's own steps.
LEMMA CopyType ==
    ASSUME TypeInv, CopyFile \/ Finalize \/ CheckCompleteness
    PROVE  TypeInv'
<1> USE DEF TypeInv, RestType
<1>1. CASE CopyFile
  <2>1. PICK f \in Files \ fwd.made :
          /\ disk' = [disk EXCEPT ![f] = "there"]
          /\ LET buffer == fwd.buffer \cup {f}
                 full == Cardinality(buffer) >= RecordBatch
             IN /\ fwd' = [fwd EXCEPT !.made = @ \cup {f}, !.buffer = IF full THEN {} ELSE buffer]
                /\ Send(IF full THEN <<RecordItems(0, buffer)>> ELSE <<>>)
    BY <1>1 DEF CopyFile
  <2>2. f \in Rows /\ fwd.buffer \cup {f} \in SUBSET Rows
    BY DEF Rows, FwdType
  <2>3. chan' \in Seq(Sent)
    BY <2>1, <2>2, SendingOne, SendingNothing, MessagesSent
  <2>4. fwd' \in FwdType
    BY <2>1, <2>2 DEF FwdType
  <2> QED BY <1>1, <2>1, <2>3, <2>4 DEF CopyFile, book, history, UnitInv
<1>2. CASE Finalize
  <2>1. fwd.buffer \cup Dirs \in SUBSET Rows
    BY DEF Rows, FwdType
  <2>2. fwd' \in FwdType
    BY <1>2 DEF Finalize, FwdType, Rows
  <2> DEFINE rows == fwd.buffer \cup Dirs
  <2>3. RecordItems(0, rows) \in Sent /\ FinalizeOp("rollbackable") \in Sent
    BY <2>1, MessagesSent DEF States
  <2>4. Send(Some(RecordItems(0, rows), rows) \o <<FinalizeOp("rollbackable")>>)
    BY <1>2 DEF Finalize
  <2> HIDE DEF rows
  <2>5. chan' \in Seq(Sent)
    BY <2>3, <2>4, SendingBehind
  <2> QED BY <1>2, <2>2, <2>5 DEF Finalize, env, book, history, UnitInv
<1>3. CASE CheckCompleteness
  <2>1. chan' \in Seq(Sent)
    BY <1>3, SendingOne, MessagesSent DEF CheckCompleteness, States
  <2>2. fwd' \in FwdType
    BY <1>3 DEF CheckCompleteness, FwdType
  <2> QED BY <1>3, <2>1, <2>2 DEF CheckCompleteness, env, book, history, UnitInv
<1> QED BY <1>1, <1>2, <1>3

\* The writer thread.
LEMMA WriterType == ASSUME TypeInv, Writer PROVE TypeInv'
<1> USE DEF TypeInv, RestType
<1>1. CASE ApplyOpen
  <2>1. chan' \in Seq(Sent) /\ Head(chan) \in Sent
    BY <1>1, Taking DEF ApplyOpen
  <2> QED BY <1>1, <2>1 DEF ApplyOpen, env, history, Sent, Messages, UnitInv
<1>2. CASE ApplyRecordItems
  <2>1. chan' \in Seq(Sent) /\ Head(chan) \in Sent
    BY <1>2, Taking DEF ApplyRecordItems
  <2> DEFINE m == Head(chan)
  <2>2. m.done \in SUBSET Rows /\ m.who \in Inverses \cup {0}
    BY <2>1 DEF Sent, Messages
  <2>3. PICK lost \in SUBSET m.done :
          /\ IF lost = {} THEN UNCHANGED trouble ELSE Trouble
          /\ IF m.who = 0
             THEN /\ op' = [op EXCEPT !.rows = [i \in Rows |-> IF i \in lost THEN "lost"
                                                              ELSE IF i \in m.done THEN "done" ELSE @[i]]]
                  /\ UNCHANGED items
             ELSE /\ items' = [items EXCEPT ![m.who] = [done |-> @.done \cup (m.done \ lost), lost |-> @.lost \cup lost]]
                  /\ UNCHANGED op
    BY <1>2 DEF ApplyRecordItems
  <2> HIDE DEF m
  <2>4. op' \in OpType
    BY <2>3 DEF OpType
  <2>5. items' \in [Inverses -> [done : SUBSET Rows, lost : SUBSET Rows]]
    BY <2>2, <2>3
  <2>6. trouble' \in 0..MaxTrouble
    BY <2>3, TroubleType
  <2> QED BY <1>2, <2>1, <2>4, <2>5, <2>6 DEF ApplyRecordItems, env, history, UnitInv
<1>3. CASE ApplyFinalize
  <2>1. chan' \in Seq(Sent) /\ Head(chan) \in Sent /\ Head(chan).kind = "finalize"
    BY <1>3, Taking DEF ApplyFinalize
  <2>2. Head(chan).state \in States
    BY <2>1 DEF Sent
  <2>3. trouble' \in 0..MaxTrouble
    BY <1>3, TroubleType DEF ApplyFinalize
  <2>4. op' \in OpType
    BY <1>3, <2>2 DEF ApplyFinalize, OpType
  <2>5. Written \in SUBSET Rows
    BY DEF Written
  <2>6. fwd' \in FwdType
    BY <1>3, <2>5 DEF ApplyFinalize, FwdType
  <2> QED BY <1>3, <2>1, <2>3, <2>4, <2>6 DEF ApplyFinalize, env, history, UnitInv
<1>4. CASE ApplySetRollbackState
  <2>1. chan' \in Seq(Sent) /\ Head(chan) \in Sent /\ Head(chan).kind = "state"
    BY <1>4, Taking DEF ApplySetRollbackState
  <2>2. Head(chan).state \in States
    BY <2>1 DEF Sent
  <2>3. op' \in OpType
    BY <1>4, <2>2 DEF ApplySetRollbackState, OpType
  <2>4. run' \in RunType /\ UnitInv'
    <3>1. run' = run \/ run' = Resting(0)
      BY <1>4 DEF ApplySetRollbackState
    <3>2. Resting(0).at = "idle"
      BY DEF Resting
    <3> QED BY <3>1, <3>2, RestingType DEF UnitInv
  <2>5. call' \in [Inverses -> {"idle", "gated", "setting", "marked", "resetting", "queued", "running", "over"}]
    BY <1>4 DEF ApplySetRollbackState
  <2> QED BY <1>4, <2>1, <2>3, <2>4, <2>5 DEF ApplySetRollbackState, env, history
<1>5. CASE ApplySetItemOutcomes
  <2>1. chan' \in Seq(Sent)
    BY <1>5, Taking DEF ApplySetItemOutcomes
  <2>2. op' \in OpType
    BY <1>5 DEF ApplySetItemOutcomes, OpType
  <2>3. run' \in RunType /\ UnitInv'
    BY <1>5 DEF ApplySetItemOutcomes, RunType, Places, UnitInv
  <2> QED BY <1>5, <2>1, <2>2, <2>3 DEF ApplySetItemOutcomes, env, history
<1> QED BY <1>1, <1>2, <1>3, <1>4, <1>5 DEF Writer

\* The calls that dispatch a rollback, up to the start of the reversal.
LEMMA DispatchType ==
    ASSUME TypeInv, NEW d \in Inverses,
           Gate(d) \/ MarkRollingBack(d) \/ SpawnInverse(d) \/ StartInverse(d)
    PROVE  TypeInv'
<1> USE DEF TypeInv, RestType
<1>1. CASE Gate(d)
  BY <1>1 DEF Gate, env, book, UnitInv
<1>2. CASE MarkRollingBack(d)
  <2>1. chan' \in Seq(Sent)
    BY <1>2, MessagesSent, SendingOne DEF MarkRollingBack, States
  <2> QED BY <1>2, <2>1 DEF MarkRollingBack, env, book, history, UnitInv
<1>3. CASE SpawnInverse(d)
  <2>1. chan' \in Seq(Sent)
    BY <1>3, MessagesSent, SendingOne DEF SpawnInverse, States
  <2> QED BY <1>3, <2>1 DEF SpawnInverse, env, book, history, UnitInv
<1>4. CASE StartInverse(d)
  <2>1. chan' \in Seq(Sent)
    BY <1>4, MessagesSent, SendingOne DEF StartInverse
  <2>2. trouble' \in 0..MaxTrouble
    BY <1>4, TroubleType DEF StartInverse
  <2>3. run' \in RunType /\ UnitInv'
    <3>1. Resting(d) \in RunType /\ Top \in Nat
      BY RestingType, TopIsAbove
    <3>2. CASE run' = [Resting(d) EXCEPT !.at = "page", !.before = Top]
      BY <3>1, <3>2 DEF RunType, Places, UnitInv
    <3>3. CASE run' = [Resting(d) EXCEPT !.at = "resolve", !.canceled = TRUE]
      BY <3>1, <3>3 DEF RunType, Places, UnitInv
    <3> QED BY <1>4, <3>2, <3>3 DEF StartInverse
  <2> QED BY <1>4, <2>1, <2>2, <2>3 DEF StartInverse, env, book, history
<1> QED BY <1>1, <1>2, <1>3, <1>4

LEMMA DecideType ==
    ASSUME run \in RunType, run.page # {}, NEW result, Decide(result)
    PROVE  run' \in RunType /\ UnitInv'
<1>1. Unit \in run.page /\ Unit \in Rows
  BY UnitIsOfPage DEF RunType
<1>2. CASE run' = Canceled
  BY <1>2 DEF Canceled, RunType, Places, UnitInv
<1>3. CASE run' = [Tally(Unit, result) EXCEPT !.page = @ \ {Unit}, !.at = AfterUnit]
  <2>1. Tally(Unit, result) \in RunType /\ Tally(Unit, result).page = run.page
    BY <1>1 DEF Tally, RunType
  <2>2. AfterUnit \in {"flush", "item"} /\ (AfterUnit = "item" => run.page \ {Unit} # {})
    BY <1>1 DEF AfterUnit
  <2>3. run' \in RunType
    BY <1>3, <2>1, <2>2 DEF RunType, Places
  <2>4. run'.page = run.page \ {Unit} /\ run'.at = AfterUnit
    BY <1>3, <2>1 DEF RunType
  <2> QED BY <2>2, <2>3, <2>4 DEF UnitInv
<1> QED BY <1>2, <1>3 DEF Decide

\* The reversal.
LEMMA ReversalType == ASSUME TypeInv, Reversal PROVE TypeInv'
<1> USE DEF TypeInv, RestType
<1>1. CASE ReadPage
  <2>1. trouble' \in 0..MaxTrouble
    BY <1>1, TroubleType DEF ReadPage
  <2>2. NewestPage \in SUBSET Rows
    BY DEF NewestPage, Unread
  <2>3. NewestPage # {} => (CHOOSE i \in NewestPage : \A j \in NewestPage : i <= j) \in Nat
    BY <2>2, RowsAreFinite, Least
  <2>4. run' \in RunType /\ UnitInv'
    BY <1>1, <2>2, <2>3 DEF ReadPage, RunType, Places, UnitInv
  <2> QED BY <1>1, <2>1, <2>4 DEF ReadPage, env, book
<1>2. CASE StopAtBoundary
  BY <1>2 DEF StopAtBoundary, Canceled, RunOnly, env, book, history, RunType, Places, UnitInv
<1>3. CASE DeferDir
  <2>1. Unit \in run.page /\ Unit \in Rows
    BY <1>3, UnitIsOfPage DEF DeferDir, UnitInv, RunType
  <2>2. run' \in RunType /\ UnitInv'
    <3>1. AfterUnit \in {"flush", "item"} /\ (AfterUnit = "item" => run.page \ {Unit} # {})
      BY <2>1 DEF AfterUnit
    <3>2. run' \in RunType /\ run'.page = run.page \ {Unit} /\ run'.at = AfterUnit
      BY <1>3, <2>1, <3>1 DEF DeferDir, RunType, Places
    <3> QED BY <3>1, <3>2 DEF UnitInv
  <2> QED BY <1>3, <2>2 DEF DeferDir, RunOnly, env, book, history
<1>4. CASE PassPauseGate
  BY <1>4 DEF PassPauseGate, RunOnly, env, book, history, RunType, Places, UnitInv
<1>5. CASE Verify
  <2>1. run' \in RunType /\ UnitInv'
    BY <1>5, DecideType DEF Verify, RunType, Places, UnitInv
  <2>2. Unit \in Rows
    BY <1>5, UnitIsOfPage DEF Verify, UnitInv, RunType
  <2>3. trouble' \in 0..MaxTrouble
    BY <1>5, TroubleType DEF Verify
  <2>4. misread' \subseteq Rows
    BY <1>5, <2>2 DEF Verify, CountAsGone
  <2> QED BY <1>5, <2>1, <2>3, <2>4 DEF Verify, RunOnly, book, history
<1>6. CASE RemoveFile
  <2>1. run' \in RunType /\ UnitInv'
    BY <1>6, DecideType DEF RemoveFile, UnitInv
  <2> QED BY <1>6, <2>1 DEF RemoveFile, RunOnly, env, book, history
<1>7. CASE RemoveFileFails
  <2>1. run' \in RunType /\ UnitInv'
    BY <1>7, DecideType DEF RemoveFileFails, UnitInv
  <2>2. trouble' \in 0..MaxTrouble
    BY <1>7, TroubleType DEF RemoveFileFails
  <2>3. Unit \in Rows
    BY <1>7, UnitIsOfPage DEF RemoveFileFails, UnitInv, RunType
  <2>4. misread' \subseteq Rows
    BY <1>7, <2>3 DEF RemoveFileFails, CountAsGone
  <2> QED BY <1>7, <2>1, <2>2, <2>4 DEF RemoveFileFails, RunOnly, Calm, book, history
<1>8. CASE RemoveDirIfEmpty
  <2>1. PICK d \in run.dirs, result \in {"reversed", "already", "skipped"} :
          /\ disk' = IF result = "reversed" THEN [disk EXCEPT ![d] = "gone"] ELSE disk
          /\ run' = [Tally(d, result) EXCEPT !.dirs = @ \ {d}]
          /\ CountAsGone(d) \/ UNCHANGED misread
          /\ UNCHANGED trouble \/ Trouble
    BY <1>8 DEF RemoveDirIfEmpty
  <2>2. run' \in RunType /\ UnitInv'
    <3>1. d \in Rows
      BY DEF RunType
    <3>2. Tally(d, result) \in RunType /\ Tally(d, result).at = "dirs"
      BY <1>8, <3>1 DEF RemoveDirIfEmpty, Tally, RunType
    <3> QED BY <2>1, <3>2 DEF RunType, UnitInv
  <2>3. trouble' \in 0..MaxTrouble
    BY <2>1, TroubleType
  <2>4. misread' \subseteq Rows
    BY <2>1 DEF RunType, CountAsGone
  <2> QED BY <1>8, <2>1, <2>2, <2>3, <2>4 DEF RemoveDirIfEmpty, RunOnly, book, history
<1>9. CASE DirsDone
  BY <1>9 DEF DirsDone, RunOnly, env, book, history, RunType, Places, UnitInv
<1>10. CASE Flush
  <2>1. run' \in RunType /\ UnitInv'
    <3>1. \E at \in {"resolve", "page"} : run' = [run EXCEPT !.at = at]
              \/ \E to \in {"lastFlushing", "flushing"} :
                    run' = [run EXCEPT !.at = to, !.done = {}, !.left = {}]
      BY <1>10 DEF Flush
    <3> QED BY <3>1 DEF RunType, Places, UnitInv
  <2>2. chan' \in Seq(Sent)
    <3>1. /\ RecordItems(run.id, run.done) \in Sent
          /\ SetOutcomes(run.id, run.done, run.left) \in Sent
      BY MessagesSent DEF RunType
    <3>2. chan' = chan \/ Send(Some(RecordItems(run.id, run.done), run.done)
                               \o <<SetOutcomes(run.id, run.done, run.left)>>)
      BY <1>10 DEF Flush
    <3> QED BY <3>1, <3>2, SendingBehind
  <2> QED BY <1>10, <2>1, <2>2 DEF Flush, env, book, history
<1>11. CASE Resolve
  <2>1. SetState(run.id, FinalState) \in Sent
    BY MessagesSent DEF FinalState, States, RunType
  <2>2. chan' \in Seq(Sent)
    BY <1>11, <2>1, SendingOne DEF Resolve
  <2>3. run' \in RunType /\ UnitInv'
    BY <1>11 DEF Resolve, RunType, Places, UnitInv
  <2> QED BY <1>11, <2>2, <2>3 DEF Resolve, env, book, history
<1> QED BY <1>1, <1>2, <1>3, <1>4, <1>5, <1>6, <1>7, <1>8, <1>9, <1>10, <1>11 DEF Reversal

\* What happens outside, and the death of the process.
LEMMA OutsideType == ASSUME TypeInv, Outside PROVE TypeInv'
<1> USE DEF TypeInv, RestType
<1>1. CASE Touch
  BY <1>1, TroubleType DEF Touch, book, history, UnitInv
<1>2. CASE Erase
  BY <1>2, TroubleType DEF Erase, book, history, UnitInv
<1>3. CASE VolumeMoves
  BY <1>3, TroubleType DEF VolumeMoves, book, history, UnitInv
<1>4. CASE Pause
  BY <1>4, TroubleType DEF Pause, RunOnly, env, book, history, RunType, UnitInv
<1>5. CASE Resume
  BY <1>5 DEF Resume, RunOnly, env, book, history, RunType, UnitInv
<1>6. CASE CancelRunning
  BY <1>6, TroubleType DEF CancelRunning, RunOnly, env, book, history, RunType, UnitInv
<1>7. CASE CancelQueued
  BY <1>7, TroubleType DEF CancelQueued, env, book, UnitInv
<1>8. CASE CrashAndRelaunch
  <2>1. trouble' \in 0..MaxTrouble
    BY <1>8, TroubleType DEF CrashAndRelaunch
  <2>2. chan' \in Seq(Sent)
    BY <1>8, EmptySeq DEF CrashAndRelaunch
  <2>3. run' \in RunType /\ UnitInv'
    BY <1>8, RestingType DEF CrashAndRelaunch, Resting, UnitInv
  <2>4. Reconciled \in States
    BY DEF Reconciled, OpType, States
  <2>5. op' \in OpType
    BY <1>8, <2>4 DEF CrashAndRelaunch, OpType
  <2>6. fwd' \in FwdType
    BY <1>8 DEF CrashAndRelaunch, FwdType
  <2>7. disk' \in [Rows -> {"absent", "there", "changed", "alike", "raced", "gone"}]
    BY <1>8 DEF CrashAndRelaunch, Calm
  <2>8. hasty' \in BOOLEAN
    BY <1>8 DEF CrashAndRelaunch
  <2>9. call' \in [Inverses -> {"idle", "gated", "setting", "marked", "resetting", "queued", "running", "over"}]
    BY <1>8 DEF CrashAndRelaunch
  <2> QED BY <1>8, <2>1, <2>2, <2>3, <2>5, <2>6, <2>7, <2>8, <2>9 DEF CrashAndRelaunch
<1> QED BY <1>1, <1>2, <1>3, <1>4, <1>5, <1>6, <1>7, <1>8 DEF Outside

LEMMA NextTypeInv == TypeInv /\ [Next]_vars => TypeInv'
<1> SUFFICES ASSUME TypeInv, [Next]_vars PROVE TypeInv'
  OBVIOUS
<1>1. CASE CopyFile \/ Finalize \/ CheckCompleteness
  BY <1>1, CopyType
<1>2. CASE Writer
  BY <1>2, WriterType
<1>3. CASE Dispatch \/ \E d \in Inverses : Gate(d) \/ StartInverse(d)
  BY <1>3, DispatchType DEF Dispatch
<1>4. CASE Reversal
  BY <1>4, ReversalType
<1>5. CASE Outside
  BY <1>5, OutsideType
<1>6. CASE UNCHANGED vars
  BY <1>6 DEF vars, env, book, history, TypeInv, RestType, UnitInv
<1> QED BY <1>1, <1>2, <1>3, <1>4, <1>5, <1>6 DEF Next

(* The copy, its journal, the database and the reversal are well typed in  *)
(* every behaviour: in particular the database only ever stores a rollback *)
(* state, and the reversal always has a unit where it works on one.        *)
THEOREM TypeCorrect == Spec => []TypeOK
<1>1. TypeInv => TypeOK
  BY TypeParts
<1> QED BY <1>1, InitTypeInv, NextTypeInv, PTL DEF Spec

-----------------------------------------------------------------------------
(* Who waits for the writer.  The reversal that holds the lane is the one  *)
(* dispatch that runs; it waits while its outcomes are under way, as a     *)
(* dispatch does while its mark is; nobody has two of a kind under way.    *)

Outcome(n) == chan[n].kind = "outcomes"
Mark(n) == chan[n].kind = "state"

RunnerInv ==
    /\ run.at # "idle" => run.id \in Inverses
    /\ \A d \in Inverses : call[d] = "running" <=> run.at # "idle" /\ run.id = d

Expected(m) ==
    /\ m.kind = "outcomes" => run.at \in {"flushing", "lastFlushing"}
    /\ m.kind = "state" =>
          /\ m.who \in Inverses
          /\ \/ call[m.who] \in {"setting", "resetting"}
             \/ call[m.who] = "running" /\ run.at = "resolving"

ExpectedInv == \A n \in 1..Len(chan) : Expected(chan[n])
OnceInv ==
    \A n, k \in 1..Len(chan) : n # k =>
        /\ ~(Outcome(n) /\ Outcome(k))
        /\ Mark(n) /\ Mark(k) => chan[n].who # chan[k].who

ProtocolInv == TypeInv /\ RunnerInv /\ ExpectedInv /\ OnceInv

LEMMA InitProtocolInv == Init => ProtocolInv
<1> SUFFICES ASSUME Init PROVE ProtocolInv
  OBVIOUS
<1>1. Len(chan) = 0 /\ run.at = "idle" /\ \A d \in Inverses : call[d] = "idle"
  BY DEF Init, Resting
<1> QED BY <1>1, InitTypeInv DEF ProtocolInv, RunnerInv, ExpectedInv, OnceInv

\* The messages somebody waits for are, one place on or not, old ones.
Moved(f) ==
    \A n \in 1..Len(chan') : Outcome(n)' \/ Mark(n)' =>
        n + f \in 1..Len(chan) /\ chan'[n] = chan[n + f]

LEMMA OnceMoved ==
    ASSUME TypeInv, TypeInv', OnceInv, NEW f \in {0, 1}, Moved(f)
    PROVE  OnceInv'
<1> SUFFICES ASSUME NEW n \in 1..Len(chan'), NEW k \in 1..Len(chan'), n # k
             PROVE  /\ ~(Outcome(n)' /\ Outcome(k)')
                    /\ Mark(n)' /\ Mark(k)' => chan'[n].who # chan'[k].who
  BY DEF OnceInv
<1>1. n \in Nat /\ k \in Nat
  BY LenProperties DEF TypeInv
<1>2. CASE (Outcome(n)' \/ Mark(n)') /\ (Outcome(k)' \/ Mark(k)')
  <2>1. n + f \in 1..Len(chan) /\ chan'[n] = chan[n + f]
    BY <1>2 DEF Moved
  <2>2. k + f \in 1..Len(chan) /\ chan'[k] = chan[k + f]
    BY <1>2 DEF Moved
  <2>3. n + f # k + f
    BY <1>1
  <2> QED BY <2>1, <2>2, <2>3 DEF OnceInv, Outcome, Mark
<1> QED BY <1>2

LEMMA ExpectedMoved ==
    ASSUME TypeInv, NEW f \in {0, 1}, Moved(f), ExpectedInv,
           \A m \in Sent : Expected(m) => Expected(m)'
    PROVE  ExpectedInv'
<1> SUFFICES ASSUME NEW n \in 1..Len(chan') PROVE Expected(chan[n])'
  BY DEF ExpectedInv
<1>1. CASE Outcome(n)' \/ Mark(n)'
  <2>1. n + f \in 1..Len(chan) /\ chan'[n] = chan[n + f] /\ chan[n + f] \in Sent
    BY <1>1, ElementOfSeq DEF Moved, TypeInv
  <2>2. Expected(chan[n + f])
    BY <2>1 DEF ExpectedInv
  <2> QED BY <2>1, <2>2 DEF Expected
<1>2. CASE ~(Outcome(n)' \/ Mark(n)')
  BY <1>2 DEF Expected, Outcome, Mark
<1> QED BY <1>1, <1>2

LEMMA MovedSame == ASSUME TypeInv, chan' = chan PROVE Moved(0)
<1>1. Len(chan) \in Nat
  BY LenProperties DEF TypeInv
<1> QED BY <1>1 DEF Moved

LEMMA MovedOne ==
    ASSUME TypeInv, NEW m \in Sent, m.kind \notin {"outcomes", "state"}, Send(<<m>>)
    PROVE  Moved(0)
<1>1. /\ Len(chan) \in Nat /\ Len(chan') = Len(chan) + 1
      /\ \A n \in 1..Len(chan) : chan'[n] = chan[n]
      /\ chan'[Len(chan) + 1] = m
  BY SendingOne DEF TypeInv
<1> SUFFICES ASSUME NEW n \in 1..Len(chan'), Outcome(n)' \/ Mark(n)'
             PROVE  n + 0 \in 1..Len(chan) /\ chan'[n] = chan[n + 0]
  BY DEF Moved
<1>2. n # Len(chan) + 1
  BY <1>1 DEF Outcome, Mark
<1> QED BY <1>1, <1>2

LEMMA MovedTaken ==
    ASSUME TypeInv, NEW kind, Take(kind)
    PROVE  /\ Moved(1) /\ 1 \in 1..Len(chan) /\ Head(chan) = chan[1]
           /\ chan[1].kind = kind /\ chan[1] \in Sent
           /\ \A n \in 1..Len(chan') : n + 1 \in 1..Len(chan) /\ n + 1 # 1 /\ chan'[n] = chan[n + 1]
<1>1. /\ Len(chan) \in Nat \ {0} /\ Len(chan') = Len(chan) - 1
      /\ Head(chan) \in Sent /\ Head(chan).kind = kind /\ Head(chan) = chan[1]
      /\ \A n \in 1..Len(chan') : chan'[n] = chan[n + 1]
  BY Taking DEF TypeInv
<1> QED BY <1>1 DEF Moved

\* Steps nobody waits for.
LEMMA SteadyProtocol ==
    ASSUME ProtocolInv, TypeInv', NEW f \in {0, 1}, Moved(f), call' = call,
           run'.at = "idle" <=> run.at = "idle", run'.id = run.id,
           run.at \in {"flushing", "lastFlushing", "resolving"} => run'.at = run.at
    PROVE  ProtocolInv'
<1>1. RunnerInv'
  BY DEF ProtocolInv, RunnerInv
<1>2. \A m \in Sent : Expected(m) => Expected(m)'
  BY DEF Expected
<1> QED BY <1>1, <1>2, OnceMoved, ExpectedMoved DEF ProtocolInv

LEMMA CopyProtocol ==
    ASSUME ProtocolInv, CopyFile \/ Finalize \/ CheckCompleteness
    PROVE  ProtocolInv'
<1>1. TypeInv'
  BY CopyType DEF ProtocolInv
<1>2. call' = call /\ run' = run /\ TypeInv
  BY DEF CopyFile, Finalize, CheckCompleteness, ProtocolInv
<1>3. CASE CopyFile
  <2>1. PICK f \in Files \ fwd.made :
          Send(IF Cardinality(fwd.buffer \cup {f}) >= RecordBatch
               THEN <<RecordItems(0, fwd.buffer \cup {f})>> ELSE <<>>)
    BY <1>3 DEF CopyFile
  <2> DEFINE m == RecordItems(0, fwd.buffer \cup {f})
  <2>2. m \in Sent /\ m.kind = "items"
    <3>1. fwd.buffer \cup {f} \in SUBSET Rows
      BY DEF ProtocolInv, TypeInv, RestType, FwdType, Rows
    <3> QED BY <3>1, MessagesSent DEF RecordItems, Msg
  <2>3. Send(<<m>>) \/ Send(<<>>)
    BY <2>1
  <2> HIDE DEF m
  <2>4. Moved(0)
    BY <1>2, <2>2, <2>3, MovedOne, MovedSame, SendingNothing DEF TypeInv
  <2> QED BY <1>1, <1>2, <2>4, SteadyProtocol
<1>4. CASE Finalize
  <2> DEFINE rows == fwd.buffer \cup Dirs
             r == RecordItems(0, rows)
             m == FinalizeOp("rollbackable")
  <2>1. r \in Sent /\ r.kind = "items" /\ m \in Sent /\ m.kind = "finalize"
    <3>1. rows \in SUBSET Rows
      BY DEF ProtocolInv, TypeInv, RestType, FwdType, Rows
    <3> QED BY <3>1, MessagesSent DEF RecordItems, FinalizeOp, Msg, States
  <2>2. Send(Some(r, rows) \o <<m>>)
    BY <1>4 DEF Finalize
  <2> HIDE DEF rows, r, m
  <2>3. Moved(0)
    <3>1. /\ Len(chan) \in Nat
          /\ \A n \in 1..Len(chan) : chan'[n] = chan[n]
          /\ rows = {} => Len(chan') = Len(chan) + 1 /\ chan'[Len(chan) + 1] = m
          /\ rows # {} => /\ Len(chan') = Len(chan) + 2
                          /\ chan'[Len(chan) + 1] = r /\ chan'[Len(chan) + 2] = m
      BY <1>2, <2>1, <2>2, SendingBehind DEF TypeInv
    <3> SUFFICES ASSUME NEW n \in 1..Len(chan'), Outcome(n)' \/ Mark(n)'
                 PROVE  n + 0 \in 1..Len(chan) /\ chan'[n] = chan[n + 0]
      BY DEF Moved
    <3>2. n \in 1..Len(chan)
      BY <2>1, <3>1 DEF Outcome, Mark
    <3> QED BY <3>1, <3>2
  <2> QED BY <1>1, <1>2, <2>3, SteadyProtocol
<1>5. CASE CheckCompleteness
  <2> DEFINE m == FinalizeOp("notRollbackable")
  <2>1. m \in Sent /\ m.kind = "finalize"
    BY MessagesSent DEF FinalizeOp, Msg, States
  <2>2. Send(<<m>>) \/ chan' = chan
    BY <1>5 DEF CheckCompleteness
  <2> HIDE DEF m
  <2>3. Moved(0)
    BY <1>2, <2>1, <2>2, MovedOne, MovedSame
  <2> QED BY <1>1, <1>2, <2>3, SteadyProtocol
<1> QED BY <1>3, <1>4, <1>5

LEMMA WriterProtocol == ASSUME ProtocolInv, Writer PROVE ProtocolInv'
<1>1. TypeInv' /\ TypeInv
  BY WriterType DEF ProtocolInv
<1>2. CASE ApplyOpen \/ ApplyRecordItems \/ ApplyFinalize
  <2>1. /\ UNCHANGED <<call, run>>
        /\ \E kind \in {"open", "items", "finalize"} : Take(kind)
    BY <1>2 DEF ApplyOpen, ApplyRecordItems, ApplyFinalize
  <2>2. Moved(1)
    BY <1>1, <2>1, MovedTaken
  <2> QED BY <1>1, <2>1, <2>2, SteadyProtocol
<1>3. CASE ApplySetRollbackState
  <2>1. /\ Moved(1) /\ 1 \in 1..Len(chan) /\ Head(chan) = chan[1] /\ Mark(1)
        /\ \A n \in 1..Len(chan') : n + 1 \in 1..Len(chan) /\ n + 1 # 1 /\ chan'[n] = chan[n + 1]
    BY <1>1, <1>3, MovedTaken DEF ApplySetRollbackState, Mark
  <2> DEFINE d == Head(chan).who
  <2>2. /\ d \in Inverses
        /\ \/ call[d] \in {"setting", "resetting"}
           \/ call[d] = "running" /\ run.at = "resolving" /\ run.id = d
    BY <2>1 DEF ProtocolInv, RunnerInv, ExpectedInv, Expected, Mark
  <2>3. IF call[d] = "running"
        THEN call' = [call EXCEPT ![d] = "over"] /\ run' = Resting(0)
        ELSE call' = [call EXCEPT ![d] = IF @ = "setting" THEN "marked" ELSE "over"] /\ run' = run
    BY <1>3 DEF ApplySetRollbackState
  <2>4. \A n \in 1..Len(chan') : Mark(n)' => chan'[n].who # d
    BY <2>1 DEF ProtocolInv, OnceInv, Mark
  <2>5. ASSUME NEW n \in 1..Len(chan') PROVE Expected(chan'[n]) /\ chan'[n].kind = "state" => chan'[n].who # d
    BY <2>1, <2>4 DEF ProtocolInv, ExpectedInv, Mark
  <2> HIDE DEF d
  <2>6. RunnerInv'
    <3>1. CASE call[d] = "running"
      <4>1. run.id = d /\ \A e \in Inverses \ {d} : call[e] # "running"
        BY <2>2, <3>1 DEF ProtocolInv, RunnerInv
      <4>2. \A e \in Inverses : call'[e] = IF e = d THEN "over" ELSE call[e]
        BY <1>1, <2>2, <2>3, <3>1 DEF TypeInv, RestType
      <4>3. run'.at = "idle"
        BY <2>3, <3>1 DEF Resting
      <4> QED BY <4>1, <4>2, <4>3 DEF RunnerInv
    <3>2. CASE call[d] # "running"
      BY <1>1, <2>2, <2>3, <3>2 DEF ProtocolInv, RunnerInv, TypeInv, RestType
    <3> QED BY <3>1, <3>2
  <2>7. ExpectedInv'
    <3> SUFFICES ASSUME NEW n \in 1..Len(chan') PROVE Expected(chan[n])'
      BY DEF ExpectedInv
    <3>1. Expected(chan'[n]) /\ (chan'[n].kind = "state" => chan'[n].who # d)
      BY <2>1, <2>4 DEF ProtocolInv, ExpectedInv, Mark
    <3>2. chan'[n].kind = "state" => call'[chan'[n].who] = call[chan'[n].who]
      BY <1>1, <2>2, <2>3, <3>1 DEF TypeInv, RestType, Expected
    <3>3. CASE call[d] = "running"
      BY <2>2, <3>1, <3>2, <3>3 DEF ProtocolInv, RunnerInv, Expected
    <3>4. CASE call[d] # "running"
      BY <2>3, <3>1, <3>2, <3>4 DEF Expected
    <3> QED BY <3>3, <3>4
  <2> QED BY <1>1, <2>1, <2>6, <2>7, OnceMoved DEF ProtocolInv
<1>4. CASE ApplySetItemOutcomes
  <2>1. /\ Moved(1) /\ 1 \in 1..Len(chan) /\ Outcome(1)
        /\ \A n \in 1..Len(chan') : n + 1 \in 1..Len(chan) /\ n + 1 # 1 /\ chan'[n] = chan[n + 1]
    BY <1>1, <1>4, MovedTaken DEF ApplySetItemOutcomes, Outcome
  <2>2. run.at \in {"flushing", "lastFlushing"}
    BY <2>1 DEF ProtocolInv, ExpectedInv, Expected, Outcome
  <2>3. call' = call /\ run'.id = run.id /\ run'.at \in {"page", "resolve"}
    BY <1>1, <1>4 DEF ApplySetItemOutcomes, TypeInv, RunType
  <2>4. RunnerInv'
    BY <2>2, <2>3 DEF ProtocolInv, RunnerInv
  <2>5. ExpectedInv'
    <3> SUFFICES ASSUME NEW n \in 1..Len(chan') PROVE Expected(chan[n])'
      BY DEF ExpectedInv
    <3>1. Expected(chan'[n]) /\ chan'[n].kind # "outcomes"
      BY <2>1 DEF ProtocolInv, ExpectedInv, OnceInv, Outcome
    <3> QED BY <2>2, <2>3, <3>1 DEF Expected
  <2> QED BY <1>1, <2>1, <2>4, <2>5, OnceMoved DEF ProtocolInv
<1> QED BY <1>2, <1>3, <1>4 DEF Writer

\* A mark goes out for a dispatch that has none under way.
LEMMA MarkProtocol ==
    ASSUME ProtocolInv, TypeInv', NEW m \in Sent, m.kind = "state", m.who \in Inverses, Send(<<m>>),
           \A n \in 1..Len(chan) : Mark(n) => chan[n].who # m.who,
           \A e \in Inverses \ {m.who} : call'[e] = call[e],
           Expected(m)', RunnerInv',
           run.at \in {"flushing", "lastFlushing", "resolving"} => run'.at = run.at
    PROVE  ProtocolInv'
<1>1. /\ Len(chan) \in Nat /\ Len(chan') = Len(chan) + 1
      /\ \A n \in 1..Len(chan) : chan'[n] = chan[n]
      /\ chan'[Len(chan) + 1] = m
  BY SendingOne DEF ProtocolInv, TypeInv
<1>2. ExpectedInv'
  <2> SUFFICES ASSUME NEW n \in 1..Len(chan') PROVE Expected(chan[n])'
    BY DEF ExpectedInv
  <2>1. CASE n \in 1..Len(chan)
    <3>1. chan'[n] = chan[n] /\ Expected(chan[n]) /\ (chan[n].kind = "state" => chan[n].who # m.who)
      BY <1>1, <2>1 DEF ProtocolInv, ExpectedInv, Mark
    <3> QED BY <3>1 DEF Expected
  <2>2. CASE n = Len(chan) + 1
    BY <1>1, <2>2
  <2> QED BY <1>1, <2>1, <2>2
<1>3. OnceInv'
  <2> SUFFICES ASSUME NEW n \in 1..Len(chan'), NEW k \in 1..Len(chan'), n # k
               PROVE  /\ ~(Outcome(n)' /\ Outcome(k)')
                      /\ Mark(n)' /\ Mark(k)' => chan'[n].who # chan'[k].who
    BY DEF OnceInv
  <2>1. CASE n \in 1..Len(chan) /\ k \in 1..Len(chan)
    BY <1>1, <2>1 DEF ProtocolInv, OnceInv, Outcome, Mark
  <2>2. CASE n = Len(chan) + 1
    BY <1>1, <2>2 DEF Outcome, Mark
  <2>3. CASE k = Len(chan) + 1
    BY <1>1, <2>3 DEF Outcome, Mark
  <2> QED BY <1>1, <2>1, <2>2, <2>3
<1> QED BY <1>2, <1>3 DEF ProtocolInv

LEMMA DispatchProtocol ==
    ASSUME ProtocolInv, NEW d \in Inverses,
           Gate(d) \/ MarkRollingBack(d) \/ SpawnInverse(d) \/ StartInverse(d)
    PROVE  ProtocolInv'
<1>1. TypeInv' /\ TypeInv
  BY DispatchType DEF ProtocolInv
<1>2. ASSUME NEW was, NEW to, call = [call EXCEPT ![d] = was], call' = [call EXCEPT ![d] = to],
             was \notin {"setting", "resetting", "running"}, to # "running", UNCHANGED run
      PROVE  /\ RunnerInv' /\ \A e \in Inverses \ {d} : call'[e] = call[e]
             /\ \A n \in 1..Len(chan) : Mark(n) => chan[n].who # d
             /\ \A m \in Sent : Expected(m) => Expected(m)'
  <2>1. call'[d] = to /\ call[d] = was /\ \A e \in Inverses \ {d} : call'[e] = call[e]
    BY <1>1, <1>2 DEF TypeInv, RestType
  <2>2. RunnerInv'
    BY <1>2, <2>1 DEF ProtocolInv, RunnerInv
  <2>3. \A m \in Sent : Expected(m) => Expected(m)' /\ (m.kind = "state" => m.who # d)
    BY <1>2, <2>1 DEF Expected
  <2>4. \A n \in 1..Len(chan) : chan[n] \in Sent
    BY <1>1, ElementOfSeq DEF TypeInv
  <2> QED BY <2>1, <2>2, <2>3, <2>4 DEF ProtocolInv, ExpectedInv, Mark
<1>3. CASE Gate(d)
  <2>1. call = [call EXCEPT ![d] = "idle"] /\ call' = [call EXCEPT ![d] = "gated"] /\ UNCHANGED <<run, chan>>
    BY <1>1, <1>3 DEF Gate, TypeInv, RestType
  <2> QED BY <1>1, <1>2, <2>1, MovedSame, OnceMoved, ExpectedMoved DEF ProtocolInv
<1>4. CASE MarkRollingBack(d)
  <2>1. call = [call EXCEPT ![d] = "gated"] /\ call' = [call EXCEPT ![d] = "setting"] /\ UNCHANGED run
    BY <1>1, <1>4 DEF MarkRollingBack, TypeInv, RestType
  <2> DEFINE m == SetState(d, "rollingBack")
  <2>2. m \in Sent /\ m.kind = "state" /\ m.who = d /\ Send(<<m>>)
    BY <1>4, MessagesSent DEF MarkRollingBack, States, SetState, Msg
  <2> HIDE DEF m
  <2>3. Expected(m)'
    BY <1>1, <2>1, <2>2 DEF Expected, TypeInv, RestType
  <2> QED BY <1>1, <1>2, <2>1, <2>2, <2>3, MarkProtocol
<1>5. CASE SpawnInverse(d)
  <2>1. CASE vol # "away"
    <3>1. call = [call EXCEPT ![d] = "marked"] /\ call' = [call EXCEPT ![d] = "queued"] /\ UNCHANGED <<run, chan>>
      BY <1>1, <1>5, <2>1 DEF SpawnInverse, TypeInv, RestType
    <3> QED BY <1>1, <1>2, <3>1, MovedSame, OnceMoved, ExpectedMoved DEF ProtocolInv
  <2>2. CASE vol = "away"
    <3>1. call = [call EXCEPT ![d] = "marked"] /\ call' = [call EXCEPT ![d] = "resetting"] /\ UNCHANGED run
      BY <1>1, <1>5, <2>2 DEF SpawnInverse, TypeInv, RestType
    <3> DEFINE m == SetState(d, "rollbackable")
    <3>2. m \in Sent /\ m.kind = "state" /\ m.who = d /\ Send(<<m>>)
      BY <1>5, <2>2, MessagesSent DEF SpawnInverse, States, SetState, Msg
    <3> HIDE DEF m
    <3>3. Expected(m)'
      BY <1>1, <3>1, <3>2 DEF Expected, TypeInv, RestType
    <3> QED BY <1>1, <1>2, <3>1, <3>2, <3>3, MarkProtocol
  <2> QED BY <2>1, <2>2
<1>6. CASE StartInverse(d)
  <2> DEFINE m == OpenInverse(d)
  <2>1. m \in Sent /\ m.kind = "open" /\ Send(<<m>>)
    BY <1>6, MessagesSent DEF StartInverse, OpenInverse, Msg
  <2> HIDE DEF m
  <2>2. Moved(0)
    BY <1>1, <2>1, MovedOne
  <2>3. /\ run.at = "idle" /\ call[d] = "queued" /\ call' = [call EXCEPT ![d] = "running"]
        /\ run'.id = d /\ run'.at # "idle"
    BY <1>6 DEF StartInverse, Resting
  <2>4. \A e \in Inverses : call'[e] = (IF e = d THEN "running" ELSE call[e])
    BY <1>1, <2>3 DEF TypeInv, RestType
  <2>5. RunnerInv'
    BY <2>3, <2>4 DEF ProtocolInv, RunnerInv
  <2>6. \A n \in Sent : Expected(n) => Expected(n)'
    BY <2>3, <2>4 DEF Expected
  <2> QED BY <1>1, <2>2, <2>5, <2>6, OnceMoved, ExpectedMoved DEF ProtocolInv
<1> QED BY <1>3, <1>4, <1>5, <1>6

LEMMA DecideAt ==
    ASSUME run \in RunType, NEW result, Decide(result)
    PROVE  run'.id = run.id /\ run'.at \in {"lastFlush", "flush", "item"}
<1>1. Tally(Unit, result).id = run.id
  BY DEF Tally, RunType
<1>2. CASE run' = Canceled
  BY <1>2 DEF Canceled, RunType
<1>3. CASE run' = [Tally(Unit, result) EXCEPT !.page = @ \ {Unit}, !.at = AfterUnit]
  <2>1. run'.id = Tally(Unit, result).id /\ run'.at = AfterUnit
    BY <1>3 DEF Tally, RunType
  <2> QED BY <1>1, <2>1 DEF AfterUnit
<1> QED BY <1>2, <1>3 DEF Decide

LEMMA ReversalProtocol == ASSUME ProtocolInv, Reversal PROVE ProtocolInv'
<1>1. TypeInv' /\ TypeInv /\ run \in RunType
  BY ReversalType DEF ProtocolInv, TypeInv
<1>2. CASE ReadPage \/ StopAtBoundary \/ DeferDir \/ PassPauseGate \/ DirsDone
  <2>1. UNCHANGED <<call, chan>>
    BY <1>2 DEF ReadPage, StopAtBoundary, DeferDir, PassPauseGate, DirsDone, RunOnly
  <2>2. /\ run'.at # "idle" /\ run.at \in {"page", "item", "dirs"} /\ run'.id = run.id
    BY <1>1, <1>2 DEF ReadPage, StopAtBoundary, DeferDir, PassPauseGate, DirsDone, Canceled, RunType, AfterUnit
  <2> QED BY <1>1, <2>1, <2>2, MovedSame, SteadyProtocol
<1>3. CASE Verify \/ RemoveFile \/ RemoveFileFails
  <2>1. UNCHANGED <<call, chan>>
    BY <1>3 DEF Verify, RemoveFile, RemoveFileFails, RunOnly
  <2>2. run' = [run EXCEPT !.at = "act"] \/ \E result \in {"already", "skipped", "reversed"} : Decide(result)
    BY <1>3 DEF Verify, RemoveFile, RemoveFileFails
  <2>3. run'.at # "idle" /\ run'.id = run.id
    BY <1>1, <2>2, DecideAt DEF RunType
  <2>4. run.at \in {"verify", "act"}
    BY <1>3 DEF Verify, RemoveFile, RemoveFileFails
  <2> QED BY <1>1, <2>1, <2>3, <2>4, MovedSame, SteadyProtocol
<1>4. CASE RemoveDirIfEmpty
  <2>1. UNCHANGED <<call, chan>>
    BY <1>4 DEF RemoveDirIfEmpty, RunOnly
  <2>2. run'.at = "dirs" /\ run.at = "dirs" /\ run'.id = run.id
    BY <1>1, <1>4 DEF RemoveDirIfEmpty, Tally, RunType
  <2> QED BY <1>1, <2>1, <2>2, MovedSame, SteadyProtocol
<1>5. CASE Flush
  <2>1. call' = call /\ run'.id = run.id /\ run.at \in {"flush", "lastFlush"}
    BY <1>1, <1>5 DEF Flush, RunType
  <2>2. CASE run.done \cup run.left = {}
    <3>1. chan' = chan /\ run'.at # "idle"
      BY <1>1, <1>5, <2>2 DEF Flush, RunType
    <3> QED BY <1>1, <2>1, <3>1, MovedSame, SteadyProtocol
  <2>3. CASE run.done \cup run.left # {}
    <3> DEFINE r == RecordItems(run.id, run.done)
               m == SetOutcomes(run.id, run.done, run.left)
    <3>1. r \in Sent /\ r.kind = "items" /\ m \in Sent /\ m.kind = "outcomes"
      BY <1>1, MessagesSent DEF RecordItems, SetOutcomes, Msg, RunType
    <3>2. Send(Some(r, run.done) \o <<m>>)
      BY <1>5, <2>3 DEF Flush
    <3> HIDE DEF r, m
    <3>3. /\ Len(chan) \in Nat
          /\ \A n \in 1..Len(chan) : chan'[n] = chan[n]
          /\ run.done = {} => Len(chan') = Len(chan) + 1 /\ chan'[Len(chan) + 1] = m
          /\ run.done # {} => /\ Len(chan') = Len(chan) + 2
                              /\ chan'[Len(chan) + 1] = r /\ chan'[Len(chan) + 2] = m
      BY <1>1, <3>1, <3>2, SendingBehind DEF TypeInv
    <3>4. /\ Len(chan') \in Nat \ {0} /\ chan'[Len(chan')] = m
          /\ \A n \in 1..Len(chan') : n # Len(chan') =>
                ~Outcome(n)' /\ (Mark(n)' => n \in 1..Len(chan) /\ chan'[n] = chan[n])
      <4>1. \A n \in 1..Len(chan) : ~Outcome(n)
        BY <2>1 DEF ProtocolInv, ExpectedInv, Expected, Outcome
      <4> QED BY <3>1, <3>3, <4>1 DEF Outcome, Mark
    <3>5. run'.at \in {"flushing", "lastFlushing"}
      BY <1>1, <1>5, <2>3 DEF Flush, RunType
    <3>6. RunnerInv'
      BY <2>1, <3>5 DEF ProtocolInv, RunnerInv
    <3>7. ExpectedInv'
      <4> SUFFICES ASSUME NEW n \in 1..Len(chan') PROVE Expected(chan[n])'
        BY DEF ExpectedInv
      <4>1. CASE n = Len(chan')
        BY <3>1, <3>4, <3>5, <4>1 DEF Expected
      <4>2. CASE n # Len(chan')
        <5>1. ~Outcome(n)' /\ (Mark(n)' => n \in 1..Len(chan) /\ chan'[n] = chan[n])
          BY <3>4, <4>2
        <5>2. Mark(n)' => Expected(chan[n])
          BY <5>1 DEF ProtocolInv, ExpectedInv
        <5> QED BY <2>1, <5>1, <5>2 DEF Expected, Outcome, Mark
      <4> QED BY <4>1, <4>2
    <3>8. OnceInv'
      <4> SUFFICES ASSUME NEW n \in 1..Len(chan'), NEW k \in 1..Len(chan'), n # k
                   PROVE  /\ ~(Outcome(n)' /\ Outcome(k)')
                          /\ Mark(n)' /\ Mark(k)' => chan'[n].who # chan'[k].who
        BY DEF OnceInv
      <4>1. ~(Outcome(n)' /\ Outcome(k)')
        BY <3>4
      <4>2. ASSUME Mark(n)', Mark(k)' PROVE chan'[n].who # chan'[k].who
        <5>1. n # Len(chan') /\ k # Len(chan')
          BY <3>1, <3>4, <4>2 DEF Mark
        <5>2. /\ n \in 1..Len(chan) /\ chan'[n] = chan[n]
              /\ k \in 1..Len(chan) /\ chan'[k] = chan[k]
          BY <3>4, <4>2, <5>1
        <5> QED BY <4>2, <5>2 DEF ProtocolInv, OnceInv, Mark
      <4> QED BY <4>1, <4>2
    <3> QED BY <1>1, <3>6, <3>7, <3>8 DEF ProtocolInv
  <2> QED BY <2>2, <2>3
<1>6. CASE Resolve
  <2>1. run.at = "resolve" /\ call' = call /\ run'.id = run.id /\ run'.at = "resolving"
    BY <1>1, <1>6 DEF Resolve, RunType
  <2>2. run.id \in Inverses /\ call[run.id] = "running"
    BY <2>1 DEF ProtocolInv, RunnerInv
  <2>3. SetState(run.id, FinalState) \in Sent
    BY <2>2, MessagesSent DEF FinalState, States
  <2>4. PICK m \in Sent : m = SetState(run.id, FinalState)
    BY <2>3
  <2>5. m.kind = "state" /\ m.who = run.id /\ Send(<<m>>)
    BY <1>6, <2>4 DEF Resolve, SetState, Msg
  <2>6. \A n \in 1..Len(chan) : Mark(n) => chan[n].who # m.who
    BY <2>1, <2>2, <2>5 DEF ProtocolInv, ExpectedInv, Expected, Mark
  <2>7. RunnerInv'
    BY <2>1 DEF ProtocolInv, RunnerInv
  <2>8. Expected(m)'
    BY <2>1, <2>2, <2>5 DEF Expected
  <2> QED BY <1>1, <2>1, <2>2, <2>5, <2>6, <2>7, <2>8, MarkProtocol
<1> QED BY <1>2, <1>3, <1>4, <1>5, <1>6 DEF Reversal

LEMMA OutsideProtocol == ASSUME ProtocolInv, Outside PROVE ProtocolInv'
<1>1. TypeInv' /\ TypeInv /\ run \in RunType
  BY OutsideType DEF ProtocolInv, TypeInv
<1>2. CASE Touch \/ Erase \/ VolumeMoves \/ Pause \/ Resume \/ CancelRunning
  <2>1. UNCHANGED <<call, chan>> /\ run'.at = run.at /\ run'.id = run.id
    BY <1>1, <1>2 DEF Touch, Erase, VolumeMoves, Pause, Resume, CancelRunning, RunOnly, RunType
  <2> QED BY <1>1, <2>1, MovedSame, SteadyProtocol
<1>3. CASE CancelQueued
  <2>1. PICK d \in Inverses : call[d] = "queued" /\ call' = [call EXCEPT ![d] = "over"]
    BY <1>3 DEF CancelQueued
  <2>2. \A e \in Inverses : call'[e] = IF e = d THEN "over" ELSE call[e]
    BY <1>1, <2>1 DEF TypeInv, RestType
  <2>3. UNCHANGED <<run, chan>>
    BY <1>3 DEF CancelQueued
  <2>4. RunnerInv'
    BY <2>1, <2>2, <2>3 DEF ProtocolInv, RunnerInv
  <2>5. \A m \in Sent : Expected(m) => Expected(m)'
    BY <2>1, <2>2, <2>3 DEF Expected
  <2> QED BY <1>1, <2>3, <2>4, <2>5, MovedSame, OnceMoved, ExpectedMoved DEF ProtocolInv
<1>4. CASE CrashAndRelaunch
  <2>1. chan' = <<>> /\ run'.at = "idle" /\ \A d \in Inverses : call'[d] # "running"
    BY <1>4 DEF CrashAndRelaunch, Resting
  <2> QED BY <1>1, <2>1 DEF ProtocolInv, RunnerInv, ExpectedInv, OnceInv
<1> QED BY <1>2, <1>3, <1>4 DEF Outside

LEMMA NextProtocolInv == ProtocolInv /\ [Next]_vars => ProtocolInv'
<1> SUFFICES ASSUME ProtocolInv, [Next]_vars PROVE ProtocolInv'
  OBVIOUS
<1>1. CASE CopyFile \/ Finalize \/ CheckCompleteness
  BY <1>1, CopyProtocol
<1>2. CASE Writer
  BY <1>2, WriterProtocol
<1>3. CASE Dispatch \/ \E d \in Inverses : Gate(d) \/ StartInverse(d)
  BY <1>3, DispatchProtocol DEF Dispatch
<1>4. CASE Reversal
  BY <1>4, ReversalProtocol
<1>5. CASE Outside
  BY <1>5, OutsideProtocol
<1>6. CASE UNCHANGED vars
  <2>1. TypeInv' /\ TypeInv /\ UNCHANGED <<call, run, chan>>
    BY <1>6, NextTypeInv DEF vars, ProtocolInv
  <2> QED BY <2>1, MovedSame, SteadyProtocol
<1> QED BY <1>1, <1>2, <1>3, <1>4, <1>5, <1>6 DEF Next

-----------------------------------------------------------------------------
(* What counts as reversed.  While the copy writes, no reversal runs and   *)
(* nothing has been reversed; afterwards nothing the copy put there comes  *)
(* to stand there again; and the row of an inverse is ahead of the outcome *)
(* that relies on it.                                                      *)

Undoing ==
    \/ run.at # "idle" \/ run.done # {}
    \/ \E n \in 1..Len(chan) : Outcome(n)
    \/ \E i \in Rows : op.rows[i] = "rolled"
OverInv == Undoing => fwd.at \in {"settled", "dead"}

OnRecord(i) == \E d \in Inverses : i \in items[d].done \cup items[d].lost
Ahead(i, n) ==
    \E k \in 1..(n - 1) : chan[k].kind = "items" /\ chan[k].who \in Inverses /\ i \in chan[k].done

\* Not there, as far as the answers of the destination can be believed.
Undone(i) == disk[i] # "there" \/ i \in misread

DoneInv == \A i \in run.done : Undone(i)
OutcomeInv ==
    \A n \in 1..Len(chan) : Outcome(n) =>
        \A i \in chan[n].done : Undone(i) /\ (OnRecord(i) \/ Ahead(i, n))

RecordInv == ProtocolInv /\ OverInv /\ DoneInv /\ OutcomeInv /\ ReversedIsTrue

LEMMA InitRecordInv == Init => RecordInv
<1> SUFFICES ASSUME Init PROVE RecordInv
  OBVIOUS
<1>1. Len(chan) = 0 /\ run = Resting(0)
  BY DEF Init
<1>2. run.done = {} /\ run.at = "idle"
  BY <1>1 DEF Resting
<1>3. \A i \in Rows : op.rows[i] = "none"
  BY DEF Init
<1> QED BY InitProtocolInv, <1>1, <1>2, <1>3
        DEF RecordInv, OverInv, Undoing, DoneInv, OutcomeInv, ReversedIsTrue

\* No entry comes back, no record of an inverse is lost, no row is reversed.
Kept ==
    /\ \A i \in Rows : Undone(i) => Undone(i)'
    /\ \A i \in Rows : OnRecord(i) => OnRecord(i)'
    /\ \A i \in Rows : op'.rows[i] = "rolled" => op.rows[i] = "rolled"

LEMMA ReversedKept == ReversedIsTrue /\ Kept => ReversedIsTrue'
  BY DEF ReversedIsTrue, Kept, OnRecord, Undone

LEMMA ChannelDone ==
    ASSUME chan \in Seq(Sent), NEW n \in 1..Len(chan)
    PROVE  chan[n] \in Sent /\ chan[n].done \in SUBSET Rows /\ chan[n].left \in SUBSET Rows
  BY ElementOfSeq DEF Sent, Messages

LEMMA OutcomesKept ==
    ASSUME OutcomeInv, chan \in Seq(Sent), Kept, chan' = chan
    PROVE  OutcomeInv'
<1> SUFFICES ASSUME NEW n \in 1..Len(chan), Outcome(n), NEW i \in chan[n].done
             PROVE  Undone(i)' /\ (OnRecord(i)' \/ Ahead(i, n)')
  BY DEF OutcomeInv, Outcome
<1>1. i \in Rows
  BY ChannelDone
<1>2. Ahead(i, n) => Ahead(i, n)'
  BY DEF Ahead
<1> QED BY <1>1, <1>2 DEF OutcomeInv, Kept

LEMMA OutcomesSent ==
    ASSUME OutcomeInv, chan \in Seq(Sent), Kept, NEW m \in Sent, m.kind # "outcomes", Send(<<m>>)
    PROVE  OutcomeInv'
<1>0. /\ Len(chan) \in Nat /\ Len(chan') = Len(chan) + 1
      /\ \A n \in 1..Len(chan) : chan'[n] = chan[n]
      /\ chan'[Len(chan) + 1] = m
  BY SendingOne
<1> SUFFICES ASSUME NEW n \in 1..Len(chan'), Outcome(n)', NEW i \in chan'[n].done
             PROVE  Undone(i)' /\ (OnRecord(i)' \/ Ahead(i, n)')
  BY DEF OutcomeInv
<1>1. n \in 1..Len(chan) /\ chan'[n] = chan[n] /\ Outcome(n)
  BY <1>0 DEF Outcome
<1>2. i \in Rows
  BY <1>1, ChannelDone
<1>3. Ahead(i, n) => Ahead(i, n)'
  BY <1>0, <1>1 DEF Ahead
<1> QED BY <1>1, <1>2, <1>3 DEF OutcomeInv, Kept

\* What the writer takes is on record, if it is an inverse's row.
LEMMA OutcomesTaken ==
    ASSUME OutcomeInv, chan \in Seq(Sent), Kept, NEW kind, Take(kind),
           kind = "items" /\ Head(chan).who \in Inverses => \A i \in Head(chan).done : OnRecord(i)'
    PROVE  OutcomeInv'
<1>0. /\ Len(chan) \in Nat \ {0} /\ Len(chan') = Len(chan) - 1
      /\ Head(chan).kind = kind /\ Head(chan) = chan[1]
      /\ \A n \in 1..Len(chan') : chan'[n] = chan[n + 1]
  BY Taking
<1> SUFFICES ASSUME NEW n \in 1..Len(chan'), Outcome(n)', NEW i \in chan'[n].done
             PROVE  Undone(i)' /\ (OnRecord(i)' \/ Ahead(i, n)')
  BY DEF OutcomeInv
<1>1. n + 1 \in 1..Len(chan) /\ chan'[n] = chan[n + 1] /\ Outcome(n + 1)
  BY <1>0 DEF Outcome
<1>2. i \in Rows
  BY <1>1, ChannelDone
<1>3. Ahead(i, n + 1) => Ahead(i, n)' \/ OnRecord(i)'
  <2> SUFFICES ASSUME NEW k \in 1..n, chan[k].kind = "items", chan[k].who \in Inverses, i \in chan[k].done
               PROVE  Ahead(i, n)' \/ OnRecord(i)'
    BY DEF Ahead
  <2>1. CASE k = 1
    BY <1>0, <2>1
  <2>2. CASE k # 1
    <3>1. k - 1 \in 1..(n - 1) /\ chan'[k - 1] = chan[k]
      BY <1>0, <1>1, <2>2
    <3> QED BY <3>1 DEF Ahead
  <2> QED BY <2>1, <2>2
<1> QED BY <1>1, <1>2, <1>3 DEF OutcomeInv, Kept

\* The copy's own steps: nothing is being undone.
LEMMA CopyRecord ==
    ASSUME RecordInv, CopyFile \/ Finalize \/ CheckCompleteness
    PROVE  RecordInv'
<1>1. ProtocolInv'
  BY CopyProtocol DEF RecordInv
<1>2. ~Undoing /\ op' = op /\ run' = run /\ items' = items
  BY DEF RecordInv, OverInv, CopyFile, Finalize, CheckCompleteness, book, vars
<1>3. \A n \in 1..Len(chan') : ~Outcome(n)'
  <2>1. chan \in Seq(Sent) /\ \A n \in 1..Len(chan) : chan[n].kind # "outcomes"
    BY <1>2 DEF RecordInv, ProtocolInv, TypeInv, Undoing, Outcome
  <2>2. CASE CopyFile
    <3>1. PICK f \in Files \ fwd.made :
            Send(IF Cardinality(fwd.buffer \cup {f}) >= RecordBatch
                 THEN <<RecordItems(0, fwd.buffer \cup {f})>> ELSE <<>>)
      BY <2>2 DEF CopyFile
    <3>2. RecordItems(0, fwd.buffer \cup {f}) \in Sent /\ RecordItems(0, fwd.buffer \cup {f}).kind = "items"
      <4>1. fwd.buffer \cup {f} \in SUBSET Rows
        BY DEF RecordInv, ProtocolInv, TypeInv, RestType, FwdType, Rows
      <4> QED BY <4>1, MessagesSent DEF RecordItems, Msg
    <3>3. CASE chan' = chan
      BY <2>1, <3>3 DEF Outcome
    <3>4. CASE Send(<<RecordItems(0, fwd.buffer \cup {f})>>)
      <4> DEFINE m == RecordItems(0, fwd.buffer \cup {f})
      <4>1. m \in Sent /\ m.kind = "items" /\ Send(<<m>>)
        BY <3>2, <3>4
      <4> HIDE DEF m
      <4> QED BY <2>1, <4>1, SendingOne DEF Outcome
    <3> QED BY <2>1, <3>1, <3>3, <3>4, SendingNothing
  <2>3. CASE Finalize
    <3> DEFINE rows == fwd.buffer \cup Dirs
    <3>1. RecordItems(0, rows) \in Sent /\ RecordItems(0, rows).kind = "items"
      <4>1. rows \in SUBSET Rows
        BY DEF RecordInv, ProtocolInv, TypeInv, RestType, FwdType, Rows
      <4> QED BY <4>1, MessagesSent DEF RecordItems, Msg
    <3>2. FinalizeOp("rollbackable") \in Sent /\ FinalizeOp("rollbackable").kind = "finalize"
      BY MessagesSent DEF FinalizeOp, Msg, States
    <3>3. Send(Some(RecordItems(0, rows), rows) \o <<FinalizeOp("rollbackable")>>)
      BY <2>3 DEF Finalize
    <3> HIDE DEF rows
    <3> QED BY <2>1, <3>1, <3>2, <3>3, SendingBehind DEF Outcome
  <2>4. CASE CheckCompleteness
    <3>1. FinalizeOp("notRollbackable") \in Sent /\ FinalizeOp("notRollbackable").kind = "finalize"
      BY MessagesSent DEF FinalizeOp, Msg, States
    <3>2. CASE chan' = chan
      BY <2>1, <3>2 DEF Outcome
    <3>3. CASE Send(<<FinalizeOp("notRollbackable")>>)
      BY <2>1, <3>1, <3>3, SendingOne DEF Outcome
    <3> QED BY <2>4, <3>2, <3>3 DEF CheckCompleteness
  <2> QED BY <2>2, <2>3, <2>4
<1>4. ~Undoing'
  BY <1>2, <1>3 DEF Undoing
<1> QED BY <1>1, <1>2, <1>3, <1>4
        DEF RecordInv, OverInv, Undoing, DoneInv, OutcomeInv, ReversedIsTrue

\* A step of a reversal that is going on, or of someone who does not touch it.
LEMMA RunRecord ==
    ASSUME RecordInv, ProtocolInv', UNCHANGED <<fwd, op, items>>,
           \A i \in Rows : Undone(i) => Undone(i)',
           run.at = "idle" => run'.at = "idle" /\ run'.done = run.done,
           \A i \in run'.done : Undone(i)',
           \/ chan' = chan
           \/ \E m \in Sent : m.kind # "outcomes" /\ Send(<<m>>)
    PROVE  RecordInv'
<1>1. Kept /\ chan \in Seq(Sent)
  BY DEF Kept, OnRecord, RecordInv, ProtocolInv, TypeInv
<1>2. OutcomeInv'
  BY <1>1, OutcomesKept, OutcomesSent DEF RecordInv
<1>3. \A n \in 1..Len(chan') : Outcome(n)' => n \in 1..Len(chan) /\ Outcome(n)
  <2>1. CASE chan' = chan
    BY <2>1 DEF Outcome
  <2>2. ASSUME NEW m \in Sent, m.kind # "outcomes", Send(<<m>>)
        PROVE  \A n \in 1..Len(chan') : Outcome(n)' => n \in 1..Len(chan) /\ Outcome(n)
    BY <1>1, <2>2, SendingOne DEF Outcome
  <2> QED BY <2>1, <2>2
<1>4. Undoing' => Undoing
  BY <1>3 DEF Undoing
<1>5. ReversedIsTrue'
  BY <1>1, ReversedKept DEF RecordInv
<1> QED BY <1>2, <1>4, <1>5 DEF RecordInv, OverInv, DoneInv

\* Deciding on a unit that is not there (any more) counts it, or forgets it.
LEMMA DecideDone ==
    ASSUME run \in RunType, run.page # {}, NEW result, Decide(result)
    PROVE  /\ run'.id = run.id /\ run'.at # "idle"
           /\ run'.done = run.done \/ (result # "skipped" /\ run'.done = run.done \cup {Unit})
<1>1. Tally(Unit, result).id = run.id
      /\ Tally(Unit, result).done = IF result = "skipped" THEN run.done ELSE run.done \cup {Unit}
  BY DEF Tally, RunType
<1>2. CASE run' = Canceled
  BY <1>2 DEF Canceled, RunType
<1>3. CASE run' = [Tally(Unit, result) EXCEPT !.page = @ \ {Unit}, !.at = AfterUnit]
  <2>1. run'.id = Tally(Unit, result).id /\ run'.done = Tally(Unit, result).done /\ run'.at = AfterUnit
    BY <1>3 DEF Tally, RunType
  <2> QED BY <1>1, <2>1 DEF AfterUnit
<1> QED BY <1>2, <1>3 DEF Decide

LEMMA VerifyRecord == ASSUME RecordInv, Verify PROVE RecordInv'
<1>1. ProtocolInv'
  BY ReversalProtocol DEF RecordInv, Reversal
<1>2. run \in RunType /\ run.page # {} /\ run.at # "idle"
  BY DEF RecordInv, ProtocolInv, TypeInv, UnitInv, Verify
<1>3. UNCHANGED <<fwd, op, items, disk, chan>> /\ misread \subseteq misread'
  BY DEF Verify, RunOnly, book, CountAsGone
<1>4. /\ run'.at # "idle" /\ run'.id = run.id
      /\ \A i \in run'.done : i \in run.done \/ Undone(i)'
  <2>1. CASE run' = [run EXCEPT !.at = "act"]
    BY <1>2, <2>1 DEF RunType
  <2>2. CASE Decide("already") /\ CountAsGone(Unit)
    <3>1. \A u \in {Unit} : Undone(u)'
      BY <1>3, <2>2 DEF CountAsGone, Undone
    <3> QED BY <1>2, <2>2, <3>1, DecideDone
  <2>3. CASE Decide("skipped")
    BY <1>2, <2>3, DecideDone
  <2> QED BY <2>1, <2>2, <2>3 DEF Verify
<1>5. \A i : Undone(i) => Undone(i)'
  BY <1>3 DEF Undone
<1> QED BY <1>1, <1>2, <1>3, <1>4, <1>5, RunRecord DEF RecordInv, DoneInv

LEMMA RemoveRecord == ASSUME RecordInv, RemoveFile \/ RemoveFileFails PROVE RecordInv'
<1>1. ProtocolInv'
  BY ReversalProtocol DEF RecordInv, Reversal
<1>2. run \in RunType /\ run.page # {} /\ run.at # "idle" /\ Unit \in Rows
  BY UnitIsOfPage DEF RecordInv, ProtocolInv, TypeInv, UnitInv, RemoveFile, RemoveFileFails, RunType
<1>3. UNCHANGED <<fwd, op, items, chan>>
  BY DEF RemoveFile, RemoveFileFails, RunOnly, book
<1>4. \A i \in Rows : Undone(i) => Undone(i)'
  BY DEF RemoveFile, RemoveFileFails, CountAsGone, Undone, Calm, RecordInv, ProtocolInv, TypeInv, RestType
<1>5. run.done \in SUBSET Rows
  BY <1>2 DEF RunType
<1>6. /\ run'.at # "idle" /\ run'.id = run.id
      /\ \A i \in run'.done : Undone(i)'
  <2>1. CASE RemoveFile
    <3>1. /\ \A u \in {Unit} : Undone(u)'
          /\ \E result \in {"already", "reversed"} : Decide(result)
      BY <1>2, <2>1 DEF RemoveFile, Undone, RecordInv, ProtocolInv, TypeInv, RestType
    <3> QED BY <1>2, <1>4, <1>5, <3>1, DecideDone DEF RecordInv, DoneInv
  <2>2. CASE RemoveFileFails
    <3>1. CASE Decide("skipped")
      BY <1>2, <1>4, <1>5, <3>1, DecideDone DEF RecordInv, DoneInv
    <3>2. CASE Decide("already") /\ CountAsGone(Unit)
      <4>1. \A u \in {Unit} : Undone(u)'
        BY <1>2, <2>2, <3>2 DEF RemoveFileFails, CountAsGone, Undone, Calm
      <4> QED BY <1>2, <1>4, <1>5, <3>2, <4>1, DecideDone DEF RecordInv, DoneInv
    <3> QED BY <2>2, <3>1, <3>2 DEF RemoveFileFails
  <2> QED BY <2>1, <2>2
<1> QED BY <1>1, <1>2, <1>3, <1>4, <1>6, RunRecord

LEMMA RemoveDirRecord == ASSUME RecordInv, RemoveDirIfEmpty PROVE RecordInv'
<1>1. ProtocolInv'
  BY ReversalProtocol DEF RecordInv, Reversal
<1>2. run \in RunType /\ run.at = "dirs"
  BY DEF RecordInv, ProtocolInv, TypeInv, RemoveDirIfEmpty
<1>3. UNCHANGED <<fwd, op, items, chan>>
  BY DEF RemoveDirIfEmpty, RunOnly, book
<1>4. PICK d \in run.dirs, result \in {"reversed", "already", "skipped"} :
        /\ disk' = IF result = "reversed" THEN [disk EXCEPT ![d] = "gone"] ELSE disk
        /\ run' = [Tally(d, result) EXCEPT !.dirs = @ \ {d}]
        /\ IF result = "already" THEN CountAsGone(d) ELSE UNCHANGED misread
  BY DEF RemoveDirIfEmpty
<1>5. d \in Rows /\ run.done \in SUBSET Rows
  BY <1>2 DEF RunType
<1>6. \A i \in Rows : Undone(i) => Undone(i)'
  BY <1>4 DEF RecordInv, ProtocolInv, TypeInv, RestType, CountAsGone, Undone
<1>7. /\ run'.at = "dirs" /\ run'.id = run.id
      /\ run'.done = IF result = "skipped" THEN run.done ELSE run.done \cup {d}
  BY <1>2, <1>4 DEF Tally, RunType
<1>8. result # "skipped" => Undone(d)'
  BY <1>4, <1>5 DEF RecordInv, ProtocolInv, TypeInv, RestType, CountAsGone, Undone
<1>9. \A i \in run'.done : Undone(i)'
  BY <1>5, <1>6, <1>7, <1>8 DEF RecordInv, DoneInv
<1> QED BY <1>1, <1>2, <1>3, <1>6, <1>7, <1>9, RunRecord

\* The inverse's rows go out ahead of the outcomes that rely on them.
LEMMA FlushRecord == ASSUME RecordInv, Flush PROVE RecordInv'
<1>1. ProtocolInv'
  BY ReversalProtocol DEF RecordInv, Reversal
<1>2. /\ run \in RunType /\ run.at # "idle" /\ chan \in Seq(Sent)
      /\ UNCHANGED <<fwd, op, items, disk, misread>>
  BY DEF RecordInv, ProtocolInv, TypeInv, Flush, book, env
<1>3. CASE run.done \cup run.left = {}
  BY <1>1, <1>2, <1>3, RunRecord DEF Flush, RunType, RecordInv, DoneInv, Undone
<1>4. CASE run.done \cup run.left # {}
  <2> DEFINE r == RecordItems(run.id, run.done)
             m == SetOutcomes(run.id, run.done, run.left)
  <2>1. /\ r \in Sent /\ r.kind = "items" /\ r.who = run.id /\ r.done = run.done
        /\ m \in Sent /\ m.kind = "outcomes" /\ m.done = run.done
    BY <1>2, MessagesSent DEF RecordItems, SetOutcomes, Msg, RunType
  <2>2. Send(Some(r, run.done) \o <<m>>)
    BY <1>4 DEF Flush
  <2>3. run.id \in Inverses /\ fwd.at \in {"settled", "dead"}
    BY <1>2 DEF RecordInv, ProtocolInv, RunnerInv, OverInv, Undoing
  <2> HIDE DEF r, m
  <2>4. /\ Len(chan) \in Nat
        /\ \A n \in 1..Len(chan) : chan'[n] = chan[n]
        /\ run.done = {} => Len(chan') = Len(chan) + 1 /\ chan'[Len(chan) + 1] = m
        /\ run.done # {} => /\ Len(chan') = Len(chan) + 2
                            /\ chan'[Len(chan) + 1] = r /\ chan'[Len(chan) + 2] = m
    BY <1>2, <2>1, <2>2, SendingBehind
  <2>5. OutcomeInv'
    <3> SUFFICES ASSUME NEW n \in 1..Len(chan'), Outcome(n)', NEW i \in chan'[n].done
                 PROVE  Undone(i)' /\ (OnRecord(i)' \/ Ahead(i, n)')
      BY DEF OutcomeInv
    <3>1. CASE n \in 1..Len(chan)
      <4>1. chan'[n] = chan[n] /\ Outcome(n)
        BY <2>4, <3>1 DEF Outcome
      <4>2. Ahead(i, n) => Ahead(i, n)'
        BY <2>4, <3>1 DEF Ahead
      <4> QED BY <1>2, <3>1, <4>1, <4>2 DEF RecordInv, OutcomeInv, OnRecord, Undone
    <3>2. CASE n \notin 1..Len(chan)
      <4>1. run.done # {} /\ n = Len(chan) + 2 /\ i \in run.done
        BY <2>1, <2>4, <3>2 DEF Outcome
      <4>2. Ahead(i, n)'
        BY <2>1, <2>3, <2>4, <4>1 DEF Ahead
      <4> QED BY <1>2, <4>1, <4>2 DEF RecordInv, DoneInv, Undone
    <3> QED BY <3>1, <3>2
  <2>6. run'.done = {} /\ run'.id = run.id
    BY <1>2, <1>4 DEF Flush, RunType
  <2> QED BY <1>1, <1>2, <2>3, <2>5, <2>6
          DEF RecordInv, OverInv, DoneInv, Undone, ReversedIsTrue
<1> QED BY <1>3, <1>4

LEMMA ReversalRecord == ASSUME RecordInv, Reversal PROVE RecordInv'
<1>1. ProtocolInv'
  BY ReversalProtocol DEF RecordInv
<1>2. CASE ReadPage \/ StopAtBoundary \/ DeferDir \/ PassPauseGate \/ DirsDone
  <2>1. UNCHANGED <<fwd, op, items, disk, misread, chan>>
    BY <1>2 DEF ReadPage, StopAtBoundary, DeferDir, PassPauseGate, DirsDone, RunOnly, book, env
  <2>2. run.at # "idle" /\ run'.done = run.done /\ run'.id = run.id
    BY <1>2 DEF ReadPage, StopAtBoundary, DeferDir, PassPauseGate, DirsDone, Canceled,
                RecordInv, ProtocolInv, TypeInv, RunType
  <2> QED BY <1>1, <2>1, <2>2, RunRecord DEF RecordInv, DoneInv, Undone
<1>3. CASE Resolve
  <2> DEFINE m == SetState(run.id, FinalState)
  <2>1. m \in Sent /\ m.kind # "outcomes"
    BY MessagesSent DEF RecordInv, ProtocolInv, TypeInv, RunType, FinalState, States, SetState, Msg
  <2>2. Send(<<m>>)
    BY <1>3 DEF Resolve
  <2> HIDE DEF m
  <2>3. UNCHANGED <<fwd, op, items, disk, misread>>
    BY <1>3 DEF Resolve, book, env
  <2>4. run.at # "idle" /\ run'.done = run.done /\ run'.id = run.id
    BY <1>3 DEF Resolve, RecordInv, ProtocolInv, TypeInv, RunType
  <2> QED BY <1>1, <2>1, <2>2, <2>3, <2>4, RunRecord DEF RecordInv, DoneInv, Undone
<1> QED BY <1>2, <1>3, VerifyRecord, RemoveRecord, RemoveDirRecord, FlushRecord DEF Reversal

LEMMA DispatchRecord ==
    ASSUME RecordInv, NEW d \in Inverses,
           Gate(d) \/ MarkRollingBack(d) \/ SpawnInverse(d) \/ StartInverse(d)
    PROVE  RecordInv'
<1>1. ProtocolInv'
  BY DispatchProtocol DEF RecordInv
<1>2. CASE Gate(d)
  BY <1>1, <1>2, RunRecord DEF Gate, book, env, RecordInv, DoneInv, Undone
<1>3. CASE MarkRollingBack(d) \/ SpawnInverse(d)
  <2>1. UNCHANGED <<fwd, op, items, disk, misread, run>>
    BY <1>3 DEF MarkRollingBack, SpawnInverse, book, env
  <2>2. ASSUME NEW state \in States PROVE SetState(d, state) \in Sent /\ SetState(d, state).kind # "outcomes"
    BY MessagesSent DEF SetState, Msg
  <2>3. chan' = chan \/ \E state \in States : Send(<<SetState(d, state)>>)
    BY <1>3 DEF MarkRollingBack, SpawnInverse, States
  <2> QED BY <1>1, <2>1, <2>2, <2>3, RunRecord DEF RecordInv, DoneInv, Undone
<1>4. CASE StartInverse(d)
  <2> DEFINE m == OpenInverse(d)
  <2>1. m \in Sent /\ m.kind # "outcomes" /\ Send(<<m>>)
    BY <1>4, MessagesSent DEF OpenInverse, Msg, StartInverse
  <2> HIDE DEF m
  <2>2. UNCHANGED <<fwd, op, items, disk, misread>> /\ fwd.at \in {"settled", "dead"}
    BY <1>4 DEF StartInverse, book, env
  <2>3. run'.done = {} /\ run'.id = d
    BY <1>4 DEF StartInverse, Resting
  <2>4. Kept /\ chan \in Seq(Sent)
    BY <2>2 DEF Kept, OnRecord, Undone, RecordInv, ProtocolInv, TypeInv
  <2>5. OutcomeInv'
    BY <2>1, <2>4, OutcomesSent DEF RecordInv
  <2>6. ReversedIsTrue'
    BY <2>4, ReversedKept DEF RecordInv
  <2> QED BY <1>1, <2>2, <2>3, <2>5, <2>6 DEF RecordInv, OverInv, DoneInv, Undone
<1> QED BY <1>2, <1>3, <1>4

\* Taking a message, with or without what it says of the inverse's rows.
LEMMA TakenOutcomes ==
    ASSUME chan \in Seq(Sent), NEW kind, Take(kind)
    PROVE  \A n \in 1..Len(chan') : Outcome(n)' => n + 1 \in 1..Len(chan) /\ Outcome(n + 1)
  BY Taking DEF Outcome

LEMMA WriterRecord == ASSUME RecordInv, Writer PROVE RecordInv'
<1>1. ProtocolInv'
  BY WriterProtocol DEF RecordInv
<1>2. chan \in Seq(Sent) /\ UNCHANGED <<disk, misread>>
  BY DEF RecordInv, ProtocolInv, TypeInv, Writer, ApplyOpen, ApplyRecordItems, ApplyFinalize,
         ApplySetRollbackState, ApplySetItemOutcomes, env
<1>3. CASE ApplyOpen \/ ApplyFinalize \/ ApplySetRollbackState
  <2>1. /\ UNCHANGED items /\ op'.rows = op.rows
        /\ \E kind \in {"open", "finalize", "state"} : Take(kind)
    BY <1>3 DEF ApplyOpen, ApplyFinalize, ApplySetRollbackState, RecordInv, ProtocolInv, TypeInv, RestType, OpType
  <2>2. Kept
    BY <1>2, <2>1 DEF Kept, OnRecord, Undone
  <2>3. OutcomeInv'
    BY <1>2, <2>1, <2>2, OutcomesTaken DEF RecordInv
  <2>4. run' = run \/ run' = Resting(0)
    BY <1>3 DEF ApplyOpen, ApplyFinalize, ApplySetRollbackState
  <2>5. DoneInv' /\ (run'.at # "idle" \/ run'.done # {} => run' = run)
    BY <1>2, <2>4 DEF RecordInv, DoneInv, Undone, Resting
  <2>6. \A n \in 1..Len(chan') : Outcome(n)' => n + 1 \in 1..Len(chan) /\ Outcome(n + 1)
    BY <1>2, <2>1, TakenOutcomes
  <2>7. Undoing' => Undoing
    BY <2>1, <2>5, <2>6 DEF Undoing
  <2>8. fwd.at \in {"settled", "dead"} => fwd'.at \in {"settled", "dead"}
    BY <1>3 DEF ApplyOpen, ApplyFinalize, ApplySetRollbackState, RecordInv, ProtocolInv, TypeInv, RestType, FwdType
  <2>9. ReversedIsTrue'
    BY <2>2, ReversedKept DEF RecordInv
  <2> QED BY <1>1, <2>3, <2>5, <2>7, <2>8, <2>9 DEF RecordInv, OverInv
<1>4. CASE ApplyRecordItems
  <2> DEFINE m == Head(chan)
  <2>1. Take("items") /\ m \in Sent
    BY <1>2, <1>4, Taking DEF ApplyRecordItems
  <2>2. PICK lost \in SUBSET m.done :
          IF m.who = 0
          THEN /\ op' = [op EXCEPT !.rows = [i \in Rows |-> IF i \in lost THEN "lost"
                                                           ELSE IF i \in m.done THEN "done" ELSE @[i]]]
               /\ UNCHANGED items
          ELSE /\ items' = [items EXCEPT ![m.who] = [done |-> @.done \cup (m.done \ lost), lost |-> @.lost \cup lost]]
               /\ UNCHANGED op
    BY <1>4 DEF ApplyRecordItems
  <2>3. m.who \in Inverses \cup {0} /\ 0 \notin Inverses
    BY <2>1, BoundAssumption DEF Sent, Messages
  <2> HIDE DEF m
  <2>4. \A d \in Inverses : /\ items[d].done \cup items[d].lost \subseteq items'[d].done \cup items'[d].lost
                            /\ d = m.who => m.done \subseteq items'[d].done \cup items'[d].lost
    BY <2>2, <2>3 DEF RecordInv, ProtocolInv, TypeInv, RestType
  <2>5. \A i \in Rows : op'.rows[i] = "rolled" => op.rows[i] = "rolled"
    BY <2>2 DEF RecordInv, ProtocolInv, TypeInv, RestType, OpType
  <2>6. Kept
    BY <1>2, <2>4, <2>5 DEF Kept, OnRecord, Undone
  <2>7. m.who \in Inverses => \A i \in m.done : OnRecord(i)'
    BY <2>4 DEF OnRecord
  <2>8. OutcomeInv'
    BY <1>2, <2>1, <2>6, <2>7, OutcomesTaken DEF RecordInv, m
  <2>9. \A n \in 1..Len(chan') : Outcome(n)' => n + 1 \in 1..Len(chan) /\ Outcome(n + 1)
    BY <1>2, <2>1, TakenOutcomes
  <2>10. Undoing' => Undoing
    BY <1>4, <2>5, <2>9 DEF Undoing, ApplyRecordItems
  <2>11. ReversedIsTrue'
    BY <2>6, ReversedKept DEF RecordInv
  <2> QED BY <1>1, <1>2, <1>4, <2>8, <2>10, <2>11
          DEF RecordInv, OverInv, DoneInv, Undone, ApplyRecordItems
<1>5. CASE ApplySetItemOutcomes
  <2> DEFINE m == Head(chan)
  <2>1. /\ Take("outcomes") /\ 1 \in 1..Len(chan) /\ Outcome(1) /\ m = chan[1]
    BY <1>2, <1>5, Taking DEF ApplySetItemOutcomes, Outcome
  <2>2. \A i \in m.done : Undone(i) /\ OnRecord(i)
    BY <2>1 DEF RecordInv, OutcomeInv, Ahead
  <2>3. fwd.at \in {"settled", "dead"} /\ UNCHANGED <<fwd, items>>
    BY <1>5, <2>1 DEF RecordInv, OverInv, Undoing, ApplySetItemOutcomes
  <2>4. \A i \in Rows : op'.rows[i] = "rolled" => op.rows[i] = "rolled" \/ i \in m.done
    BY <1>5 DEF ApplySetItemOutcomes, RecordInv, ProtocolInv, TypeInv, RestType, OpType
  <2> HIDE DEF m
  <2>5. ReversedIsTrue'
    BY <1>2, <2>2, <2>3, <2>4 DEF RecordInv, ReversedIsTrue, OnRecord, Undone
  <2>6. OutcomeInv'
    <3>1. /\ Len(chan) \in Nat \ {0} /\ Len(chan') = Len(chan) - 1
          /\ \A n \in 1..Len(chan') : chan'[n] = chan[n + 1]
      BY <1>2, <2>1, Taking
    <3> SUFFICES ASSUME NEW n \in 1..Len(chan'), Outcome(n)', NEW i \in chan'[n].done
                 PROVE  Undone(i)' /\ (OnRecord(i)' \/ Ahead(i, n)')
      BY DEF OutcomeInv
    <3>2. n + 1 \in 1..Len(chan) /\ chan'[n] = chan[n + 1] /\ Outcome(n + 1)
      BY <3>1 DEF Outcome
    <3>3. Ahead(i, n + 1) => Ahead(i, n)'
      <4> SUFFICES ASSUME NEW k \in 1..n, chan[k].kind = "items", chan[k].who \in Inverses, i \in chan[k].done
                   PROVE  Ahead(i, n)'
        BY DEF Ahead
      <4>1. k # 1
        BY <2>1 DEF Outcome
      <4>2. k - 1 \in 1..(n - 1) /\ k - 1 \in 1..Len(chan') /\ (k - 1) + 1 = k
        BY <3>1, <3>2, <4>1
      <4>3. chan'[k - 1] = chan[k]
        BY <3>1, <4>2
      <4> QED BY <4>2, <4>3 DEF Ahead
    <3> QED BY <1>2, <2>3, <3>2, <3>3 DEF RecordInv, OutcomeInv, OnRecord, Undone
  <2>7. run'.done = run.done /\ run'.id = run.id
    BY <1>5 DEF ApplySetItemOutcomes, RecordInv, ProtocolInv, TypeInv, RunType
  <2> QED BY <1>1, <1>2, <2>3, <2>5, <2>6, <2>7 DEF RecordInv, OverInv, DoneInv, Undone
<1> QED BY <1>3, <1>4, <1>5 DEF Writer

LEMMA OutsideRecord == ASSUME RecordInv, Outside PROVE RecordInv'
<1>1. ProtocolInv'
  BY OutsideProtocol DEF RecordInv
<1>2. CASE Touch \/ Erase \/ VolumeMoves \/ CancelQueued
  <2>1. UNCHANGED <<fwd, op, items, chan, run>>
    BY <1>2 DEF Touch, Erase, VolumeMoves, CancelQueued, book
  <2>2. \A i \in Rows : Undone(i) => Undone(i)'
    BY <1>2 DEF Touch, Erase, VolumeMoves, CancelQueued, env, Undone, RecordInv, ProtocolInv, TypeInv, RestType
  <2> QED BY <1>1, <2>1, <2>2, RunRecord DEF RecordInv, DoneInv, Undone, ProtocolInv, TypeInv, RunType
<1>3. CASE Pause \/ Resume \/ CancelRunning
  <2>1. /\ UNCHANGED <<fwd, op, items, chan, disk, misread>>
        /\ run'.at = run.at /\ run'.done = run.done /\ run'.id = run.id
    BY <1>3 DEF Pause, Resume, CancelRunning, RunOnly, env, book, RecordInv, ProtocolInv, TypeInv, RunType
  <2> QED BY <1>1, <2>1, RunRecord DEF RecordInv, DoneInv, Undone
<1>4. CASE CrashAndRelaunch
  <2>1. chan' = <<>> /\ run'.done = {} /\ run'.at = "idle" /\ op'.rows = op.rows
    BY <1>4 DEF CrashAndRelaunch, Resting, RecordInv, ProtocolInv, TypeInv, RestType, OpType
  <2>2. \A n \in 1..Len(chan') : FALSE
    BY <2>1
  <2>3. Kept
    BY <1>4, <2>1 DEF Kept, OnRecord, Undone, CrashAndRelaunch, Calm, RecordInv, ProtocolInv, TypeInv, RestType
  <2>4. ReversedIsTrue'
    BY <2>3, ReversedKept DEF RecordInv
  <2>5. fwd'.at \in {"settled", "dead"}
    BY <1>4 DEF CrashAndRelaunch, RecordInv, ProtocolInv, TypeInv, RestType, FwdType
  <2> QED BY <1>1, <2>1, <2>2, <2>4, <2>5 DEF RecordInv, OverInv, DoneInv, Undone, OutcomeInv
<1> QED BY <1>2, <1>3, <1>4 DEF Outside

LEMMA NextRecordInv == RecordInv /\ [Next]_vars => RecordInv'
<1> SUFFICES ASSUME RecordInv, [Next]_vars PROVE RecordInv'
  OBVIOUS
<1>1. CASE CopyFile \/ Finalize \/ CheckCompleteness
  BY <1>1, CopyRecord
<1>2. CASE Writer
  BY <1>2, WriterRecord
<1>3. CASE Dispatch \/ \E d \in Inverses : Gate(d) \/ StartInverse(d)
  BY <1>3, DispatchRecord DEF Dispatch
<1>4. CASE Reversal
  BY <1>4, ReversalRecord
<1>5. CASE Outside
  BY <1>5, OutsideRecord
<1>6. CASE UNCHANGED vars
  BY <1>6, NextProtocolInv
     DEF vars, env, book, history, RecordInv, OverInv, Undoing, Outcome, DoneInv, OutcomeInv,
         OnRecord, Ahead, ReversedIsTrue, Undone
<1> QED BY <1>1, <1>2, <1>3, <1>4, <1>5, <1>6 DEF Next

(* A row counts as reversed only when an inverse is on record for it and   *)
(* nothing of the copy is left there, unless the destination answered `not *)
(* there' about an entry that was: whenever the process dies, with any rows*)
(* lost by the database, however people change the disk meanwhile.         *)
THEOREM ReversalOnRecord == Spec => []ReversedIsTrue
<1>1. RecordInv => ReversedIsTrue
  BY DEF RecordInv
<1> QED BY <1>1, InitRecordInv, NextRecordInv, PTL DEF Spec

-----------------------------------------------------------------------------
(* What people change is spared.  A file the copy has yet to make is not   *)
(* there, so the copy overwrites nobody's change; and what is acted on was *)
(* found unchanged, or was changed since.                                  *)

AbsentInv == fwd.at = "copying" => \A f \in Files \ fwd.made : disk[f] = "absent"
ActInv == run.at = "act" => disk[Unit] # "changed"

SpareInv == RecordInv /\ AbsentInv /\ ActInv

LEMMA InitSpareInv == Init => SpareInv
<1> SUFFICES ASSUME Init PROVE SpareInv
  OBVIOUS
<1>1. AbsentInv
  BY SeqAssumption DEF Init, AbsentInv, Rows
<1>2. ActInv
  BY DEF Init, ActInv, Resting
<1> QED BY <1>1, <1>2, InitRecordInv DEF SpareInv

\* What a step does to a changed entry, and what the next step may act on.
Spares ==
    \A i \in Rows : disk[i] = "changed" /\ disk'[i] # "changed" => trouble' > trouble /\ run' = run

LEMMA StepSpares ==
    ASSUME SpareInv, [Next]_vars
    PROVE  AbsentInv' /\ ActInv' /\ Spares
<1> USE DEF SpareInv, RecordInv, ProtocolInv, TypeInv, RestType
<1>1. fwd.at = "copying" => run.at = "idle"
  BY DEF OverInv, Undoing
<1>2. CASE CopyFile
  <2>1. PICK f \in Files \ fwd.made :
          /\ disk' = [disk EXCEPT ![f] = "there"]
          /\ fwd'.made = fwd.made \cup {f} /\ fwd'.at = fwd.at
    BY <1>2 DEF CopyFile, FwdType
  <2>2. disk[f] = "absent" /\ f \in Rows /\ run' = run /\ fwd.at = "copying"
    BY <1>2 DEF AbsentInv, CopyFile, Rows
  <2>3. AbsentInv'
    BY <2>1, <2>2 DEF AbsentInv, Rows
  <2>4. ActInv' /\ Spares
    BY <1>1, <2>1, <2>2 DEF ActInv, Spares
  <2> QED BY <2>3, <2>4
<1>3. CASE Finalize \/ CheckCompleteness \/ Writer
  <2>1. disk' = disk
    BY <1>3 DEF Finalize, CheckCompleteness, Writer, ApplyOpen, ApplyRecordItems, ApplyFinalize,
                ApplySetRollbackState, ApplySetItemOutcomes, env
  <2>2. fwd'.at = "copying" => fwd' = fwd
    <3>1. CASE ApplyFinalize
      BY <3>1 DEF ApplyFinalize, FwdType
    <3>2. CASE ~ApplyFinalize
      BY <1>3, <3>2 DEF Finalize, CheckCompleteness, Writer, ApplyOpen, ApplyRecordItems,
                        ApplySetRollbackState, ApplySetItemOutcomes, FwdType
    <3> QED BY <3>1, <3>2
  <2>3. run'.at = "act" => run' = run
    <3>1. CASE ApplySetRollbackState \/ ApplySetItemOutcomes
      BY <3>1 DEF ApplySetRollbackState, ApplySetItemOutcomes, Resting, RunType
    <3>2. CASE ~(ApplySetRollbackState \/ ApplySetItemOutcomes)
      BY <1>3, <3>2 DEF Finalize, CheckCompleteness, Writer, ApplyOpen, ApplyRecordItems, ApplyFinalize
    <3> QED BY <3>1, <3>2
  <2> QED BY <2>1, <2>2, <2>3 DEF AbsentInv, ActInv, Spares, Unit
<1>4. CASE Dispatch \/ \E d \in Inverses : Gate(d) \/ StartInverse(d)
  <2>1. disk' = disk /\ fwd' = fwd /\ (run'.at = "act" => run' = run)
    BY <1>4 DEF Dispatch, Gate, MarkRollingBack, SpawnInverse, StartInverse, env, Resting
  <2> QED BY <2>1 DEF AbsentInv, ActInv, Spares, Unit
<1>5. CASE Reversal
  <2>1. run.at # "idle" /\ fwd' = fwd
    BY <1>5 DEF Reversal, ReadPage, StopAtBoundary, DeferDir, PassPauseGate, Verify, RemoveFile, RemoveFileFails,
                RemoveDirIfEmpty, DirsDone, Flush, Resolve, RunOnly
  <2>2. AbsentInv'
    BY <1>1, <2>1 DEF AbsentInv
  <2>3. CASE Verify
    <3>1. disk' = disk
      BY <2>3 DEF Verify, RunOnly
    <3>2. CASE Matches(Unit) /\ run' = [run EXCEPT !.at = "act"]
      <4>1. run'.page = run.page
        BY <3>2 DEF RunType
      <4> QED BY <2>2, <3>1, <3>2, <4>1 DEF ActInv, Spares, Unit, Matches
    <3>3. CASE \E result \in {"already", "skipped"} : Decide(result)
      <4>1. run'.at # "act"
        BY <2>3, <3>3, DecideAt DEF Verify
      <4> QED BY <2>2, <3>1, <4>1 DEF ActInv, Spares
    <3> QED BY <2>3, <3>2, <3>3 DEF Verify
  <2>4. CASE RemoveFile \/ RemoveFileFails
    <3>1. run'.at # "act"
      BY <2>4, DecideAt DEF RemoveFile, RemoveFileFails
    <3>2. \A i \in Rows : disk[i] = "changed" => disk'[i] = "changed"
      <4>1. disk[Unit] # "changed"
        BY <2>4 DEF ActInv, RemoveFile, RemoveFileFails
      <4> QED BY <2>4, <4>1 DEF RemoveFile, RemoveFileFails, Calm
    <3> QED BY <2>2, <3>1, <3>2 DEF ActInv, Spares
  <2>5. CASE RemoveDirIfEmpty
    <3>1. run'.at = "dirs"
      BY <2>5 DEF RemoveDirIfEmpty, Tally, RunType
    <3>2. \A i \in Rows : disk[i] = "changed" => disk'[i] = "changed"
      <4>1. PICK d \in run.dirs, result \in {"reversed", "already", "skipped"} :
              /\ disk' = IF result = "reversed" THEN [disk EXCEPT ![d] = "gone"] ELSE disk
              /\ result = "reversed" => Empty(d)
        BY <2>5 DEF RemoveDirIfEmpty
      <4> QED BY <4>1 DEF Empty
    <3> QED BY <2>2, <3>1, <3>2 DEF ActInv, Spares
  <2>6. CASE ReadPage \/ StopAtBoundary \/ DeferDir \/ PassPauseGate \/ DirsDone \/ Flush \/ Resolve
    <3>1. disk' = disk
      BY <2>6 DEF ReadPage, StopAtBoundary, DeferDir, PassPauseGate, DirsDone, Flush, Resolve, env
    <3>2. run'.at # "act"
      BY <2>6 DEF ReadPage, StopAtBoundary, Canceled, DeferDir, AfterUnit, PassPauseGate, DirsDone, Flush, Resolve,
                  RunType
    <3> QED BY <2>2, <3>1, <3>2 DEF ActInv, Spares
  <2> QED BY <1>5, <2>3, <2>4, <2>5, <2>6 DEF Reversal
<1>6. CASE Outside
  <2>1. CASE Touch
    <3>1. PICK i \in Rows :
            /\ disk[i] \in {"there", "gone", "alike"}
            /\ \/ disk' = [disk EXCEPT ![i] = IF run.at = "act" /\ i = Unit THEN "raced" ELSE "changed"]
               \/ disk' = [disk EXCEPT ![i] = "alike"]
      BY <2>1 DEF Touch
    <3>2. UNCHANGED <<fwd, run>>
      BY <2>1 DEF Touch
    <3>3. \A f \in Rows : disk[f] = "absent" => disk'[f] = "absent"
      BY <3>1
    <3>4. AbsentInv'
      BY <3>2, <3>3 DEF AbsentInv, Rows
    <3>5. ActInv'
      <4>1. run.at = "act" => Unit \in Rows
        BY UnitIsOfPage DEF UnitInv, RunType
      <4>2. run.at = "act" => disk'[Unit] # "changed"
        BY <3>1, <4>1 DEF ActInv
      <4> QED BY <3>2, <4>2 DEF ActInv, Unit
    <3>6. Spares
      BY <3>1 DEF Spares
    <3> QED BY <3>4, <3>5, <3>6
  <2>2. CASE Erase
    <3>1. PICK f \in Files : /\ disk[f] \in {"there", "changed", "alike", "raced"}
                             /\ disk' = [disk EXCEPT ![f] = "gone"]
      BY <2>2 DEF Erase
    <3>2. UNCHANGED <<fwd, run>> /\ trouble' > trouble
      BY <2>2, TroubleType DEF Erase
    <3>3. AbsentInv'
      BY <3>1, <3>2 DEF AbsentInv, Rows
    <3>4. ActInv'
      BY <3>1, <3>2 DEF ActInv, Unit
    <3> QED BY <3>2, <3>3, <3>4 DEF Spares
  <2>3. CASE VolumeMoves \/ Pause \/ Resume \/ CancelRunning \/ CancelQueued
    <3>1. disk' = disk /\ fwd' = fwd /\ run'.at = run.at /\ run'.page = run.page
      BY <2>3 DEF VolumeMoves, Pause, Resume, CancelRunning, CancelQueued, RunOnly, env, RunType
    <3> QED BY <3>1 DEF AbsentInv, ActInv, Spares, Unit
  <2>4. CASE CrashAndRelaunch
    <3>1. fwd'.at # "copying" /\ run'.at = "idle"
      BY <2>4 DEF CrashAndRelaunch, FwdType, Resting
    <3>2. \A i \in Rows : disk[i] = "changed" => disk'[i] = "changed"
      BY <2>4 DEF CrashAndRelaunch, Calm
    <3> QED BY <3>1, <3>2 DEF AbsentInv, ActInv, Spares
  <2> QED BY <1>6, <2>1, <2>2, <2>3, <2>4 DEF Outside
<1>7. CASE UNCHANGED vars
  BY <1>7 DEF vars, env, AbsentInv, ActInv, Spares, Unit
<1> QED BY <1>2, <1>3, <1>4, <1>5, <1>6, <1>7 DEF Next

(* A rollback removes nothing whose snapshot shows that somebody changed   *)
(* it before the rollback looked, in any interleaving of copies,           *)
(* reversals, retries and crashes: only people take such a change away     *)
(* again.  An edit the snapshot cannot show is not protected.              *)
THEOREM ChangesAreSpared == Spec => ChangedIsSpared
<1>1. SpareInv /\ [Next]_vars => SpareInv'
  BY StepSpares, NextRecordInv DEF SpareInv
<1>2. SpareInv /\ [Next]_vars => [Spares]_vars
  BY StepSpares
<1>3. [Spares]_vars => [\A i \in Rows : disk[i] = "changed" /\ disk'[i] # "changed" => trouble' > trouble /\ run' = run]_vars
  BY DEF Spares
<1> QED BY <1>1, <1>2, <1>3, InitSpareInv, PTL DEF Spec, ChangedIsSpared

-----------------------------------------------------------------------------
(* The journal of a copy is whole before anybody may roll it back.  The    *)
(* rows come before the finalize that counts them, nothing counts again    *)
(* but the correction, and until the count nobody acts on the header.      *)

Recording(n) == chan[n].kind = "items" /\ chan[n].who = 0
Closing(n) == chan[n].kind = "finalize"
Counting == fwd.at \in {"copying", "finalizing"}
CountInv ==
    \A n \in 1..Len(chan) :
        /\ Recording(n) => Counting /\ chan[n].done \subseteq fwd.made
        /\ Closing(n) =>
              /\ \/ fwd.at = "finalizing" /\ chan[n].state = "rollbackable"
                 \/ fwd.at = "correcting" /\ chan[n].state = "notRollbackable"
              /\ \A k \in (n + 1)..Len(chan) : ~Recording(k) /\ ~Closing(k)

\* Somebody is past the gate, or a mark is on its way to the writer.
Acting ==
    \/ \E d \in Inverses : call[d] \notin {"idle", "over"}
    \/ \E n \in 1..Len(chan) : Mark(n)
EarlyInv == Counting => op.state = "notRollbackable" /\ ~Acting
ActedInv == Acting => Whole \/ hasty
MadeInv ==
    /\ fwd.buffer \subseteq fwd.made
    /\ Counting => Written \subseteq fwd.made
    /\ fwd.at = "counted" => fwd.written \subseteq fwd.made /\ fwd.written \subseteq Written

JournalInv == RecordInv /\ CountInv /\ EarlyInv /\ ActedInv /\ MadeInv /\ OfferedIsWhole

LEMMA InitJournalInv == Init => JournalInv
<1> SUFFICES ASSUME Init PROVE JournalInv
  OBVIOUS
<1>1. \A n \in 1..Len(chan) : FALSE
  BY DEF Init
<1>2. fwd.at = "copying" /\ fwd.buffer = {} /\ op.state = "notRollbackable"
  BY DEF Init
<1>3. Written = {}
  BY DEF Init, Written
<1>4. \A d \in Inverses : call[d] = "idle"
  BY DEF Init
<1> QED BY <1>1, <1>2, <1>3, <1>4, InitRecordInv
        DEF JournalInv, CountInv, EarlyInv, ActedInv, MadeInv, OfferedIsWhole, Acting

\* What waits for the count has moved f places forward; nothing came in.
Recounted(f) ==
    \A n \in 1..Len(chan') : Recording(n)' \/ Closing(n)' => n + f \in 1..Len(chan) /\ chan'[n] = chan[n + f]

LEMMA CountMoved ==
    ASSUME TypeInv, NEW f \in {0, 1}, Recounted(f), CountInv, fwd'.at = fwd.at, fwd.made \subseteq fwd'.made
    PROVE  CountInv'
<1>1. Len(chan) \in Nat
  BY LenProperties DEF TypeInv
<1> SUFFICES ASSUME NEW n \in 1..Len(chan')
             PROVE  /\ Recording(n)' => Counting' /\ chan'[n].done \subseteq fwd'.made
                    /\ Closing(n)' =>
                          /\ \/ fwd'.at = "finalizing" /\ chan'[n].state = "rollbackable"
                             \/ fwd'.at = "correcting" /\ chan'[n].state = "notRollbackable"
                          /\ \A k \in (n + 1)..Len(chan') : ~Recording(k)' /\ ~Closing(k)'
  BY DEF CountInv
<1>2. CASE Recording(n)'
  BY <1>2 DEF Recounted, CountInv, Recording, Closing, Counting
<1>3. CASE Closing(n)'
  <2>1. n + f \in 1..Len(chan) /\ chan'[n] = chan[n + f] /\ Closing(n + f)
    BY <1>3 DEF Recounted, Closing
  <2>2. ASSUME NEW k \in (n + 1)..Len(chan') PROVE ~Recording(k)' /\ ~Closing(k)'
    <3>1. k \in 1..Len(chan')
      BY <2>2
    <3> SUFFICES ASSUME Recording(k)' \/ Closing(k)' PROVE FALSE
      OBVIOUS
    <3>2. k + f \in 1..Len(chan) /\ chan'[k] = chan[k + f]
      BY <3>1 DEF Recounted
    <3>3. k + f \in (n + f + 1)..Len(chan)
      BY <1>1, <2>1, <2>2, <3>2
    <3> QED BY <2>1, <3>2, <3>3 DEF CountInv, Recording, Closing
  <2> QED BY <2>1, <2>2, <1>3 DEF CountInv, Recording, Closing
<1> QED BY <1>2, <1>3

LEMMA RecountedSame == ASSUME TypeInv, chan' = chan PROVE Recounted(0)
<1>1. Len(chan) \in Nat
  BY LenProperties DEF TypeInv
<1> QED BY <1>1 DEF Recounted

LEMMA RecountedOne ==
    ASSUME TypeInv, NEW m \in Sent, m.kind # "finalize", m.kind = "items" => m.who # 0, Send(<<m>>)
    PROVE  Recounted(0)
<1>1. /\ Len(chan) \in Nat /\ Len(chan') = Len(chan) + 1
      /\ \A n \in 1..Len(chan) : chan'[n] = chan[n]
      /\ chan'[Len(chan) + 1] = m
  BY SendingOne DEF TypeInv
<1> SUFFICES ASSUME NEW n \in 1..Len(chan'), Recording(n)' \/ Closing(n)'
             PROVE  n + 0 \in 1..Len(chan) /\ chan'[n] = chan[n + 0]
  BY DEF Recounted
<1>2. n # Len(chan) + 1
  BY <1>1 DEF Recording, Closing
<1> QED BY <1>1, <1>2

LEMMA RecountedTaken == ASSUME TypeInv, NEW kind, Take(kind) PROVE Recounted(1)
  BY MovedTaken DEF Recounted

\* Steps that neither record nor act for the first time.
LEMMA QuietJournal ==
    ASSUME JournalInv, RecordInv', UNCHANGED <<fwd, hasty, uncorrected>>, NEW f \in {0, 1}, Recounted(f),
           op'.state = op.state, Written \subseteq Written', Counting => Written' = Written,
           Acting' => Acting
    PROVE  JournalInv'
<1>1. TypeInv /\ TypeInv'
  BY DEF JournalInv, RecordInv, ProtocolInv
<1>2. CountInv'
  BY <1>1, CountMoved DEF JournalInv
<1>3. Counting' = Counting
  BY DEF Counting
<1>4. Whole => Whole'
  BY <1>1 DEF Whole, Written, TypeInv, RestType, FwdType
<1> QED BY <1>2, <1>3, <1>4 DEF JournalInv, EarlyInv, ActedInv, MadeInv, OfferedIsWhole

LEMMA WholeIsWritten == ASSUME TypeInv PROVE Whole <=> fwd.made \subseteq Written
  BY DEF Whole, Written, TypeInv, RestType, FwdType

LEMMA ActingMoved ==
    ASSUME NEW f \in {0, 1}, Moved(f), \A d \in Inverses : call'[d] \in {call[d], "over"}
    PROVE  Acting' => Acting
<1> SUFFICES ASSUME Acting' PROVE Acting
  OBVIOUS
<1>1. CASE \E d \in Inverses : call'[d] \notin {"idle", "over"}
  BY <1>1 DEF Acting
<1>2. CASE \E n \in 1..Len(chan') : Mark(n)'
  BY <1>2 DEF Moved, Mark, Acting
<1> QED BY <1>1, <1>2 DEF Acting

LEMMA ReversalJournal == ASSUME JournalInv, Reversal PROVE JournalInv'
<1>1. RecordInv' /\ TypeInv /\ RecordInv
  BY ReversalRecord DEF JournalInv, RecordInv, ProtocolInv
<1>2. UNCHANGED <<fwd, hasty, uncorrected, op, call>> /\ run.at # "idle"
  BY DEF Reversal, ReadPage, StopAtBoundary, DeferDir, PassPauseGate, Verify, RemoveFile, RemoveFileFails,
         RemoveDirIfEmpty, DirsDone, Flush, Resolve, RunOnly, book, history
<1>3. Acting
  <2>1. run.id \in Inverses /\ call[run.id] = "running"
    BY <1>1, <1>2 DEF RecordInv, ProtocolInv, RunnerInv
  <2> QED BY <2>1 DEF Acting
<1>4. run.id # 0
  BY <1>1, <1>2, BoundAssumption DEF RecordInv, ProtocolInv, RunnerInv
<1>5. Recounted(0)
  <2>1. CASE Flush
    <3> DEFINE r == RecordItems(run.id, run.done)
               m == SetOutcomes(run.id, run.done, run.left)
    <3>1. /\ r \in Sent /\ r.kind = "items" /\ r.who # 0
          /\ m \in Sent /\ m.kind = "outcomes"
      BY <1>1, <1>4, MessagesSent DEF TypeInv, RunType, RecordItems, SetOutcomes, Msg
    <3>2. chan' = chan \/ Send(Some(r, run.done) \o <<m>>)
      BY <2>1 DEF Flush
    <3> HIDE DEF r, m
    <3>3. CASE chan' = chan
      BY <1>1, <3>3, RecountedSame
    <3>4. CASE Send(Some(r, run.done) \o <<m>>)
      <4>1. /\ Len(chan) \in Nat
            /\ \A n \in 1..Len(chan) : chan'[n] = chan[n]
            /\ run.done = {} => Len(chan') = Len(chan) + 1 /\ chan'[Len(chan) + 1] = m
            /\ run.done # {} => /\ Len(chan') = Len(chan) + 2
                                /\ chan'[Len(chan) + 1] = r /\ chan'[Len(chan) + 2] = m
        BY <1>1, <3>1, <3>4, SendingBehind DEF TypeInv
      <4> SUFFICES ASSUME NEW n \in 1..Len(chan'), Recording(n)' \/ Closing(n)'
                   PROVE  n + 0 \in 1..Len(chan) /\ chan'[n] = chan[n + 0]
        BY DEF Recounted
      <4>2. n \in 1..Len(chan)
        BY <3>1, <4>1 DEF Recording, Closing
      <4> QED BY <4>1, <4>2
    <3> QED BY <3>2, <3>3, <3>4
  <2>2. CASE Resolve
    <3> DEFINE m == SetState(run.id, FinalState)
    <3>1. m \in Sent /\ m.kind = "state" /\ Send(<<m>>)
      BY <1>1, <2>2, MessagesSent DEF Resolve, FinalState, States, TypeInv, RunType, SetState, Msg
    <3> HIDE DEF m
    <3> QED BY <1>1, <3>1, RecountedOne
  <2>3. CASE ~Flush /\ ~Resolve
    <3>1. chan' = chan
      BY <2>3 DEF Reversal, ReadPage, StopAtBoundary, DeferDir, PassPauseGate, Verify, RemoveFile, RemoveFileFails,
                  RemoveDirIfEmpty, DirsDone, RunOnly
    <3> QED BY <1>1, <3>1, RecountedSame
  <2> QED BY <2>1, <2>2, <2>3
<1>6. Written' = Written
  BY <1>2 DEF Written
<1> QED BY <1>1, <1>2, <1>3, <1>5, <1>6, QuietJournal

\* The gate is where somebody starts to act: what it lets pass with a lossy
\* journal is `hasty'.
LEMMA DispatchJournal ==
    ASSUME JournalInv, NEW d \in Inverses,
           Gate(d) \/ MarkRollingBack(d) \/ SpawnInverse(d) \/ StartInverse(d)
    PROVE  JournalInv'
<1>1. RecordInv' /\ RecordInv /\ TypeInv /\ TypeInv'
  BY DispatchRecord DEF JournalInv, RecordInv, ProtocolInv
<1>2. UNCHANGED <<fwd, op>>
  BY DEF Gate, MarkRollingBack, SpawnInverse, StartInverse, book
<1>3. CASE Gate(d)
  <2>1. /\ op.state # "notRollbackable" /\ UNCHANGED chan
        /\ hasty' = (hasty \/ Written # fwd.made)
    BY <1>3 DEF Gate
  <2>2. CountInv'
    BY <1>1, <1>2, <2>1, RecountedSame, CountMoved DEF JournalInv
  <2>3. ~Counting'
    BY <1>2, <2>1 DEF JournalInv, EarlyInv, Counting
  <2>4. Whole' \/ hasty'
    <3>1. Whole' = Whole
      BY <1>2 DEF Whole
    <3> QED BY <1>1, <2>1, <3>1, WholeIsWritten
  <2> QED BY <1>1, <1>2, <2>2, <2>3, <2>4 DEF JournalInv, EarlyInv, ActedInv, MadeInv, OfferedIsWhole, Written
<1>4. CASE MarkRollingBack(d) \/ SpawnInverse(d) \/ StartInverse(d)
  <2>1. Acting /\ UNCHANGED <<hasty, uncorrected>>
    BY <1>4 DEF MarkRollingBack, SpawnInverse, StartInverse, history, Acting
  <2>2. chan' = chan \/ \E m \in Sent : m.kind \in {"state", "open"} /\ Send(<<m>>)
    <3>1. /\ OpenInverse(d) \in Sent /\ OpenInverse(d).kind = "open"
          /\ \A s \in States : SetState(d, s) \in Sent /\ SetState(d, s).kind = "state"
      BY MessagesSent DEF OpenInverse, SetState, Msg
    <3> QED BY <1>4, <3>1 DEF MarkRollingBack, SpawnInverse, StartInverse, States
  <2>3. Recounted(0)
    BY <1>1, <2>2, RecountedSame, RecountedOne
  <2>4. Written' = Written
    BY <1>2 DEF Written
  <2> QED BY <1>1, <1>2, <2>1, <2>3, <2>4, QuietJournal
<1> QED BY <1>3, <1>4

\* The copy's own steps: nobody acts, nothing is counted yet.
LEMMA CopyJournal ==
    ASSUME JournalInv, CopyFile \/ Finalize \/ CheckCompleteness
    PROVE  JournalInv'
<1>1. RecordInv' /\ RecordInv /\ TypeInv /\ TypeInv'
  BY CopyRecord DEF JournalInv, RecordInv, ProtocolInv
<1>2. UNCHANGED <<op, call, hasty, uncorrected>> /\ Written' = Written
  BY DEF CopyFile, Finalize, CheckCompleteness, book, history, Written
<1>3. /\ Len(chan) \in Nat
      /\ \A n \in 1..Len(chan) : /\ Recording(n) => Counting /\ chan[n].done \subseteq fwd.made
                                 /\ Closing(n) => fwd.at \in {"finalizing", "correcting"}
  BY <1>1, LenProperties DEF TypeInv, JournalInv, CountInv
<1>4. CASE CopyFile
  <2>1. PICK f \in Files \ fwd.made :
          LET buffer == fwd.buffer \cup {f}
              full == Cardinality(buffer) >= RecordBatch
          IN /\ fwd' = [fwd EXCEPT !.made = @ \cup {f}, !.buffer = IF full THEN {} ELSE buffer]
             /\ Send(IF full THEN <<RecordItems(0, buffer)>> ELSE <<>>)
    BY <1>4 DEF CopyFile
  <2> DEFINE m == RecordItems(0, fwd.buffer \cup {f})
  <2>2. /\ fwd.at = "copying" /\ fwd'.at = "copying" /\ fwd'.made = fwd.made \cup {f}
        /\ fwd'.buffer \subseteq fwd'.made /\ fwd.buffer \cup {f} \subseteq fwd'.made
    BY <1>1, <1>4, <2>1 DEF CopyFile, TypeInv, RestType, FwdType, JournalInv, MadeInv
  <2>3. m \in Sent /\ m.kind = "items" /\ m.done = fwd.buffer \cup {f}
    <3>1. fwd.buffer \cup {f} \in SUBSET Rows
      BY <1>1 DEF TypeInv, RestType, FwdType, Rows
    <3> QED BY <3>1, MessagesSent DEF RecordItems, Msg
  <2>4. Send(<<m>>) \/ chan' = chan
    BY <1>1, <2>1, SendingNothing DEF TypeInv
  <2> HIDE DEF m
  <2>5. /\ \A n \in 1..Len(chan') : Closing(n)' => n \in 1..Len(chan) /\ Closing(n)
        /\ \A n \in 1..Len(chan') : Recording(n)' => \/ n \in 1..Len(chan) /\ Recording(n) /\ chan'[n] = chan[n]
                                                     \/ chan'[n] = m
        /\ \A n \in 1..Len(chan') : Mark(n)' => n \in 1..Len(chan) /\ Mark(n)
    <3>1. CASE chan' = chan
      BY <3>1 DEF Closing, Recording, Mark
    <3>2. CASE Send(<<m>>)
      <4>1. /\ Len(chan') = Len(chan) + 1
            /\ \A n \in 1..Len(chan) : chan'[n] = chan[n]
            /\ chan'[Len(chan) + 1] = m
        BY <1>1, <2>3, <3>2, SendingOne DEF TypeInv
      <4> QED BY <1>3, <2>3, <4>1 DEF Closing, Recording, Mark
    <3> QED BY <2>4, <3>1, <3>2
  <2>6. CountInv'
    <3>1. \A n \in 1..Len(chan') : ~Closing(n)'
      BY <1>3, <2>2, <2>5
    <3>2. \A n \in 1..Len(chan') : Recording(n)' => chan'[n].done \subseteq fwd'.made
      BY <1>3, <2>2, <2>3, <2>5
    <3> QED BY <2>2, <3>1, <3>2 DEF CountInv, Counting
  <2>7. ~Acting'
    BY <1>2, <2>2, <2>5 DEF JournalInv, EarlyInv, Counting, Acting
  <2> QED BY <1>1, <1>2, <2>2, <2>6, <2>7
          DEF JournalInv, EarlyInv, ActedInv, MadeInv, OfferedIsWhole, Counting
<1>5. CASE Finalize
  <2> DEFINE rows == fwd.buffer \cup Dirs
             r == RecordItems(0, rows)
             m == FinalizeOp("rollbackable")
  <2>1. /\ fwd.at = "copying" /\ fwd'.at = "finalizing" /\ fwd'.made = fwd.made \cup Dirs
        /\ fwd'.buffer = {} /\ rows \subseteq fwd'.made
    BY <1>1, <1>5 DEF Finalize, TypeInv, RestType, FwdType, JournalInv, MadeInv
  <2>2. /\ r \in Sent /\ r.kind = "items" /\ r.done = rows
        /\ m \in Sent /\ m.kind = "finalize" /\ m.state = "rollbackable"
    <3>1. rows \in SUBSET Rows
      BY <1>1 DEF TypeInv, RestType, FwdType, Rows
    <3> QED BY <3>1, MessagesSent DEF RecordItems, FinalizeOp, Msg, States
  <2>3. Send(Some(r, rows) \o <<m>>)
    BY <1>5 DEF Finalize
  <2> HIDE DEF rows, r, m
  <2>4. /\ \A n \in 1..Len(chan) : chan'[n] = chan[n]
        /\ rows = {} => Len(chan') = Len(chan) + 1 /\ chan'[Len(chan) + 1] = m
        /\ rows # {} => /\ Len(chan') = Len(chan) + 2
                        /\ chan'[Len(chan) + 1] = r /\ chan'[Len(chan) + 2] = m
    BY <1>1, <2>2, <2>3, SendingBehind DEF TypeInv
  <2>5. \A n \in 1..Len(chan) : ~Closing(n) /\ (Recording(n) => chan[n].done \subseteq fwd'.made)
    BY <1>3, <2>1
  <2>6. CountInv'
    <3> SUFFICES ASSUME NEW n \in 1..Len(chan')
                 PROVE  /\ Recording(n)' => chan'[n].done \subseteq fwd'.made
                        /\ Closing(n)' => n = Len(chan') /\ chan'[n].state = "rollbackable"
      BY <2>1 DEF CountInv, Counting
    <3>1. CASE n \in 1..Len(chan)
      BY <2>4, <2>5, <3>1 DEF Closing, Recording
    <3>2. CASE rows # {} /\ n = Len(chan) + 1
      BY <2>1, <2>2, <2>4, <3>2 DEF Closing, Recording
    <3>3. CASE n = Len(chan') /\ chan'[n] = m
      BY <2>2, <3>3 DEF Closing, Recording
    <3> QED BY <1>3, <2>4, <3>1, <3>2, <3>3
  <2>7. ~Acting'
    <3>1. \A n \in 1..Len(chan') : Mark(n)' => n \in 1..Len(chan) /\ Mark(n)
      BY <1>3, <2>2, <2>4 DEF Mark
    <3> QED BY <1>2, <2>1, <3>1 DEF JournalInv, EarlyInv, Counting, Acting
  <2> QED BY <1>1, <1>2, <2>1, <2>6, <2>7
          DEF JournalInv, EarlyInv, ActedInv, MadeInv, OfferedIsWhole, Counting
<1>6. CASE CheckCompleteness
  <2>1. /\ fwd.at = "counted" /\ fwd'.at \in {"correcting", "settled"}
        /\ fwd'.made = fwd.made /\ fwd'.buffer = fwd.buffer
        /\ fwd'.at = "settled" => ~Short /\ chan' = chan
        /\ fwd'.at = "correcting" => Send(<<FinalizeOp("notRollbackable")>>)
    BY <1>1, <1>6 DEF CheckCompleteness, TypeInv, RestType, FwdType
  <2>2. \A n \in 1..Len(chan) : ~Recording(n) /\ ~Closing(n)
    BY <1>3, <2>1 DEF Counting
  <2>3. Whole' = Whole
    BY <1>2, <2>1 DEF Whole
  <2>4. CASE fwd'.at = "correcting"
    <3> DEFINE m == FinalizeOp("notRollbackable")
    <3>1. m \in Sent /\ m.kind = "finalize" /\ m.state = "notRollbackable"
      BY MessagesSent DEF FinalizeOp, Msg, States
    <3>2. Send(<<m>>)
      BY <2>1, <2>4
    <3> HIDE DEF m
    <3>3. /\ Len(chan') = Len(chan) + 1
          /\ \A n \in 1..Len(chan) : chan'[n] = chan[n]
          /\ chan'[Len(chan) + 1] = m
      BY <1>1, <3>1, <3>2, SendingOne DEF TypeInv
    <3>4. \A n \in 1..Len(chan') : ~Recording(n)' /\ (Closing(n)' => n = Len(chan') /\ chan'[n] = m)
      BY <1>3, <2>2, <3>1, <3>3 DEF Recording, Closing
    <3>5. CountInv'
      BY <2>4, <3>1, <3>4 DEF CountInv
    <3>6. Moved(0)
      BY <1>1, <3>1, <3>2, MovedOne
    <3>7. Acting' => Acting
      BY <1>2, <3>6, ActingMoved
    <3> QED BY <1>1, <1>2, <2>1, <2>3, <2>4, <3>5, <3>7
            DEF JournalInv, EarlyInv, ActedInv, MadeInv, OfferedIsWhole, Counting
  <2>5. CASE fwd'.at = "settled"
    <3>1. fwd.made \subseteq Written
      <4>1. fwd.written \subseteq fwd.made /\ fwd.written \subseteq Written
        BY <2>1 DEF JournalInv, MadeInv
      <4>2. IsFiniteSet(fwd.made)
        BY <1>1, RowsAreFinite DEF TypeInv, RestType, FwdType
      <4>3. ~(Cardinality(fwd.written) < Cardinality(fwd.made))
        BY <2>1, <2>5 DEF Short
      <4>4. fwd.written = fwd.made
        <5>1. /\ IsFiniteSet(fwd.written) /\ Cardinality(fwd.written) <= Cardinality(fwd.made)
              /\ Cardinality(fwd.written) = Cardinality(fwd.made) => fwd.written = fwd.made
          BY <4>1, <4>2, FS_Subset
        <5>2. Cardinality(fwd.written) \in Nat /\ Cardinality(fwd.made) \in Nat
          BY <4>2, <5>1, FS_CardinalityType
        <5> QED BY <4>3, <5>1, <5>2
      <4> QED BY <4>1, <4>4
    <3>2. Whole'
      BY <1>1, <2>3, <3>1, WholeIsWritten
    <3>3. CountInv'
      BY <2>1, <2>2, <2>5 DEF CountInv, Recording, Closing
    <3>4. Acting' => Acting
      BY <1>1, <1>2, <2>1, <2>5, MovedSame, ActingMoved
    <3> QED BY <1>1, <1>2, <2>1, <2>5, <3>2, <3>3, <3>4
            DEF JournalInv, EarlyInv, ActedInv, MadeInv, OfferedIsWhole, Counting
  <2> QED BY <2>1, <2>4, <2>5
<1> QED BY <1>4, <1>5, <1>6

LEMMA WriterJournal == ASSUME JournalInv, Writer PROVE JournalInv'
<1>1. RecordInv' /\ RecordInv /\ TypeInv /\ TypeInv'
  BY WriterRecord DEF JournalInv, RecordInv, ProtocolInv
<1>2. ASSUME NEW kind, Take(kind)
      PROVE  /\ Recounted(1) /\ Moved(1) /\ Len(chan) \in Nat
             /\ 1 \in 1..Len(chan) /\ Head(chan) = chan[1] /\ chan[1].kind = kind /\ chan[1] \in Sent
             /\ \A n \in 1..Len(chan') : n + 1 \in 2..Len(chan) /\ chan'[n] = chan[n + 1]
  <2>1. Len(chan) \in Nat
    BY <1>1, LenProperties DEF TypeInv
  <2>2. Recounted(1) /\ Moved(1)
    BY <1>1, <1>2, RecountedTaken, MovedTaken
  <2>3. /\ 1 \in 1..Len(chan) /\ Head(chan) = chan[1] /\ chan[1].kind = kind /\ chan[1] \in Sent
        /\ \A n \in 1..Len(chan') : n + 1 \in 1..Len(chan) /\ n + 1 # 1 /\ chan'[n] = chan[n + 1]
    BY <1>1, <1>2, MovedTaken
  <2> QED BY <2>1, <2>2, <2>3
<1>3. CASE ApplyOpen
  <2>1. Take("open") /\ UNCHANGED <<fwd, op, call, hasty, uncorrected>>
    BY <1>3 DEF ApplyOpen, history
  <2>2. Recounted(1) /\ Moved(1)
    BY <1>2, <2>1
  <2>3. Acting' => Acting
    BY <2>1, <2>2, ActingMoved
  <2>4. Written' = Written
    BY <2>1 DEF Written
  <2> QED BY <1>1, <2>1, <2>2, <2>3, <2>4, QuietJournal
<1>4. CASE ApplyRecordItems
  <2>1. Take("items") /\ UNCHANGED <<fwd, call, hasty, uncorrected>>
    BY <1>4 DEF ApplyRecordItems, history
  <2>2. Recounted(1) /\ Moved(1)
    BY <1>2, <2>1
  <2>3. Acting' => Acting
    BY <2>1, <2>2, ActingMoved
  <2>4. CASE Head(chan).who # 0
    <3>1. op' = op
      BY <1>4, <2>4 DEF ApplyRecordItems
    <3>2. Written' = Written
      BY <3>1 DEF Written
    <3> QED BY <1>1, <2>1, <2>2, <2>3, <3>1, <3>2, QuietJournal
  <2>5. CASE Head(chan).who = 0
    <3>1. Counting /\ Head(chan).done \subseteq fwd.made
      BY <1>2, <2>1, <2>5 DEF JournalInv, CountInv, Recording
    <3>2. /\ op'.state = op.state
          /\ \A i \in Rows : op'.rows[i] \notin {"none", "lost"} =>
                op.rows[i] \notin {"none", "lost"} \/ i \in Head(chan).done
      BY <1>1, <1>4, <2>5 DEF ApplyRecordItems, TypeInv, RestType, OpType
    <3>3. Written' \subseteq fwd'.made
      BY <2>1, <3>1, <3>2 DEF Written, JournalInv, MadeInv
    <3>4. Counting' /\ fwd.at # "counted"
      BY <2>1, <3>1 DEF Counting
    <3>5. CountInv'
      BY <1>1, <2>1, <2>2, CountMoved DEF JournalInv
    <3> QED BY <1>1, <2>1, <2>3, <3>1, <3>2, <3>3, <3>4, <3>5
            DEF JournalInv, EarlyInv, ActedInv, MadeInv, OfferedIsWhole
  <2> QED BY <2>4, <2>5
<1>5. CASE ApplyFinalize
  <2>1. Take("finalize") /\ UNCHANGED <<call, hasty>>
    BY <1>5 DEF ApplyFinalize, history
  <2>2. /\ Moved(1) /\ 1 \in 1..Len(chan) /\ Head(chan) = chan[1] /\ Closing(1)
        /\ \A n \in 1..Len(chan') : n + 1 \in 2..Len(chan) /\ chan'[n] = chan[n + 1]
    BY <1>2, <2>1 DEF Closing
  <2>3. /\ fwd.at = "finalizing" \/ (fwd.at = "correcting" /\ Head(chan).state = "notRollbackable")
        /\ \A k \in 2..Len(chan) : ~Recording(k) /\ ~Closing(k)
    BY <2>2 DEF JournalInv, CountInv
  <2>4. CountInv'
    BY <2>2, <2>3 DEF CountInv, Recording, Closing
  <2>5. Acting' => Acting
    BY <2>1, <2>2, ActingMoved
  <2>6. /\ fwd'.made = fwd.made /\ fwd'.buffer = fwd.buffer
        /\ fwd'.at = IF fwd.at = "finalizing" THEN "counted" ELSE "settled"
        /\ fwd'.written \subseteq Written
    BY <1>1, <1>5 DEF ApplyFinalize, TypeInv, RestType, FwdType
  <2>7. op'.rows = op.rows
    BY <1>1, <1>5 DEF ApplyFinalize, TypeInv, RestType, OpType
  <2>8. Written' = Written /\ Whole' = Whole
    BY <2>6, <2>7 DEF Written, Whole
  <2>9. CASE fwd.at = "finalizing"
    BY <1>1, <2>1, <2>4, <2>5, <2>6, <2>8, <2>9
       DEF JournalInv, EarlyInv, ActedInv, MadeInv, OfferedIsWhole, Counting
  <2>10. CASE fwd.at = "correcting" /\ Head(chan).state = "notRollbackable"
    <3>1. uncorrected' \/ op'.state = "notRollbackable"
      BY <1>1, <1>5, <2>10 DEF ApplyFinalize, TypeInv, RestType, OpType
    <3> QED BY <1>1, <2>1, <2>4, <2>5, <2>6, <2>8, <2>10, <3>1
            DEF JournalInv, EarlyInv, ActedInv, MadeInv, OfferedIsWhole, Counting
  <2> QED BY <2>3, <2>9, <2>10
<1>6. CASE ApplySetRollbackState
  <2>1. Take("state") /\ UNCHANGED <<fwd, hasty>>
    BY <1>6 DEF ApplySetRollbackState, history
  <2>2. Recounted(1) /\ 1 \in 1..Len(chan) /\ Mark(1)
    BY <1>2, <2>1 DEF Mark
  <2>3. Acting
    BY <2>2 DEF Acting
  <2>4. ~Counting' /\ (Whole \/ hasty)
    BY <2>1, <2>3 DEF JournalInv, EarlyInv, ActedInv, Counting
  <2>5. op'.rows = op.rows
    BY <1>1, <1>6 DEF ApplySetRollbackState, TypeInv, RestType, OpType
  <2>6. Written' = Written /\ Whole' = Whole
    BY <2>1, <2>5 DEF Written, Whole
  <2>7. CountInv'
    BY <1>1, <2>1, <2>2, CountMoved DEF JournalInv
  <2> QED BY <1>1, <2>1, <2>4, <2>6, <2>7
          DEF JournalInv, EarlyInv, ActedInv, MadeInv, OfferedIsWhole, Counting
<1>7. CASE ApplySetItemOutcomes
  <2>1. Take("outcomes") /\ UNCHANGED <<fwd, call, hasty, uncorrected>>
    BY <1>7 DEF ApplySetItemOutcomes, history
  <2>2. Recounted(1) /\ Moved(1) /\ 1 \in 1..Len(chan) /\ Outcome(1)
    BY <1>2, <2>1 DEF Outcome
  <2>3. ~Counting
    BY <1>1, <2>2 DEF RecordInv, OverInv, Undoing, Counting
  <2>4. Acting' => Acting
    BY <2>1, <2>2, ActingMoved
  <2>5. op'.state = op.state /\ Written \subseteq Written'
    BY <1>1, <1>7 DEF ApplySetItemOutcomes, Written, TypeInv, RestType, OpType
  <2> QED BY <1>1, <2>1, <2>2, <2>3, <2>4, <2>5, QuietJournal
<1> QED BY <1>3, <1>4, <1>5, <1>6, <1>7 DEF Writer

LEMMA OutsideJournal == ASSUME JournalInv, Outside PROVE JournalInv'
<1>1. RecordInv' /\ RecordInv /\ TypeInv /\ TypeInv'
  BY OutsideRecord DEF JournalInv, RecordInv, ProtocolInv
<1>2. CASE ~CrashAndRelaunch
  <2>1. UNCHANGED <<fwd, op, chan, hasty, uncorrected>> /\ \A d \in Inverses : call'[d] \in {call[d], "over"}
    <3>1. CASE CancelQueued
      BY <1>1, <3>1 DEF CancelQueued, book, TypeInv, RestType
    <3>2. CASE ~CancelQueued
      BY <1>2, <3>2 DEF Outside, Touch, Erase, VolumeMoves, Pause, Resume, CancelRunning, RunOnly, book, history
    <3> QED BY <3>1, <3>2
  <2>2. Recounted(0) /\ Moved(0)
    BY <1>1, <2>1, RecountedSame, MovedSame
  <2>3. Acting' => Acting
    BY <2>1, <2>2, ActingMoved
  <2>4. Written' = Written
    BY <2>1 DEF Written
  <2> QED BY <1>1, <2>1, <2>2, <2>3, <2>4, QuietJournal
<1>3. CASE CrashAndRelaunch
  <2>1. \A n \in 1..Len(chan') : FALSE
    BY <1>3 DEF CrashAndRelaunch
  <2>2. \A d \in Inverses : call'[d] \in {"idle", "over"}
    BY <1>3 DEF CrashAndRelaunch
  <2>3. /\ fwd'.at \in {"settled", "dead"} /\ fwd'.made = fwd.made /\ fwd'.buffer \subseteq fwd.buffer
    BY <1>1, <1>3 DEF CrashAndRelaunch, TypeInv, RestType, FwdType
  <2>4. op'.state # "notRollbackable" => op.state # "notRollbackable"
    BY <1>1, <1>3 DEF CrashAndRelaunch, Reconciled, TypeInv, RestType, OpType
  <2>5. op'.rows = op.rows
    BY <1>1, <1>3 DEF CrashAndRelaunch, TypeInv, RestType, OpType
  <2>6. op'.state # "notRollbackable" => Whole' \/ hasty'
    <3>1. Whole' = Whole
      BY <2>3, <2>5 DEF Whole
    <3> QED BY <1>1, <1>3, <2>4, <3>1, WholeIsWritten DEF CrashAndRelaunch
  <2>7. ~Acting'
    BY <2>1, <2>2 DEF Acting
  <2> QED BY <1>1, <2>1, <2>3, <2>6, <2>7
          DEF JournalInv, CountInv, EarlyInv, ActedInv, MadeInv, OfferedIsWhole, Counting
<1> QED BY <1>2, <1>3

LEMMA NextJournalInv == JournalInv /\ [Next]_vars => JournalInv'
<1> SUFFICES ASSUME JournalInv, [Next]_vars PROVE JournalInv'
  OBVIOUS
<1>1. CASE CopyFile \/ Finalize \/ CheckCompleteness
  BY <1>1, CopyJournal
<1>2. CASE Writer
  BY <1>2, WriterJournal
<1>3. CASE Dispatch \/ \E d \in Inverses : Gate(d) \/ StartInverse(d)
  BY <1>3, DispatchJournal DEF Dispatch
<1>4. CASE Reversal
  BY <1>4, ReversalJournal
<1>5. CASE Outside
  BY <1>5, OutsideJournal
<1>6. CASE UNCHANGED vars
  <2>1. RecordInv' /\ TypeInv
    BY NextRecordInv DEF JournalInv, RecordInv, ProtocolInv
  <2>2. UNCHANGED <<fwd, op, call, chan, hasty, uncorrected>>
    BY <1>6 DEF vars, book, history
  <2>3. Recounted(0) /\ Written' = Written /\ Acting' = Acting
    BY <2>1, <2>2, RecountedSame DEF Written, Acting, Mark
  <2> QED BY <2>1, <2>2, <2>3, QuietJournal
<1> QED BY <1>1, <1>2, <1>3, <1>4, <1>5, <1>6 DEF Next

(* An operation that may be rolled back has a row for everything it made,  *)
(* whatever rows the database loses and whenever the process dies, unless  *)
(* somebody acted on it before its rows were counted, or the database also *)
(* refused the correction that follows the count.                          *)
THEOREM JournalIsWhole == Spec => []OfferedIsWhole
<1>1. JournalInv => OfferedIsWhole
  BY DEF JournalInv
<1> QED BY <1>1, InitJournalInv, NextJournalInv, PTL DEF Spec

=============================================================================

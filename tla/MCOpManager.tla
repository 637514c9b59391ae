---------------------------- MODULE MCOpManager -----------------------------
(***************************************************************************)
(* A small instance: one operation that needs two lanes, one on each lane, *)
(* and a rename.  Every shape of conflict between two operations occurs.   *)
(***************************************************************************)
EXTENDS OpManager

CONSTANTS both, left, right, rename, L, R

MCLanesOf == [o \in Managed |-> IF o = both THEN {L, R} ELSE IF o = left THEN {L} ELSE {R}]

\* Bound: the rename and the right-hand operation are not known at the same
\* time.  Both are begun by a person, so no fair step is ever held back.
ThreeAtATime == ((~Live(rename) /\ task[rename] = "none") \/ Unused(right))'
=============================================================================

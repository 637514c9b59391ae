----------------------------- MODULE MCLandings -----------------------------
(***************************************************************************)
(* Two writes of different sizes; the second brings as many bytes as the   *)
(* person's file has.  A file saved meanwhile has the first one's size.    *)
(***************************************************************************)
EXTENDS Landings

MCJobs == 1..2
MCSizes == [c \in Contents |-> IF c \in {2, Original} THEN 2 ELSE 1]

(* Bound: two faults in a behaviour, a crash, a pull, a refusal or a       *)
(* compaction each; a behaviour with a second write has one fault, and it  *)
(* is a crash.  Each step this leaves out is a fault, the start of a write *)
(* or a step that has another outcome, so no fair step is ever held back.  *)
FewFaults ==
    /\ crashes' + pulls' + refusals' + (IF compacted' THEN 1 ELSE 0) <= 2
    /\ job'.n = 2 => pulls' = 0 /\ refusals' = 0 /\ crashes' < 2 /\ ~compacted'
=============================================================================

---------------------------- MODULE MCScanPreview ---------------------------
(***************************************************************************)
(* Two operations confirmed from one dialog.  Bound: FewHands, only the    *)
(* first is paused or cancelled while it runs; it is paused while no       *)
(* second operation named the preview and no teardown came; both of those  *)
(* meet over a local walk only, and then nobody cancels.                   *)
(***************************************************************************)
EXTENDS ScanPreview

CONSTANTS a, b

FewHands ==
    LET others == (IF op'[b] = "new" THEN 0 ELSE 1) + teardowns'
    IN  /\ told' \subseteq {a} /\ paused' \subseteq {a}
        /\ paused' # {} => others = 0
        /\ others = 2 => ~remote /\ told' = {}
=============================================================================

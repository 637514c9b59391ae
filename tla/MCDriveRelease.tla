--------------------------- MODULE MCDriveRelease ---------------------------
(***************************************************************************)
(* The gate of one drive, a call of each kind and a second release.        *)
(* Bound: FewCalls, the second release comes while the first one waits or  *)
(* is owed an answer, with either a start or a resume beside the two and   *)
(* no disable, and then no late stop is refused its thread.                *)
(***************************************************************************)
EXTENDS DriveRelease

CONSTANTS r1, r2

Made(call) == \E c \in DOMAIN call : call[c].at # "idle"

Pending == release[r1].at = "waiting" \/ \E v \in Volumes : late[r1][v] = "owed"

FewCalls ==
    release'[r2].at # "idle" =>
        /\ release[r2].at = "idle" => Pending
        /\ ~Made(disable)' /\ Made(start)' # Made(batch)'
        /\ \A v \in Volumes : ~LateStopNotSpawned(v)
=============================================================================

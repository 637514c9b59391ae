------------------------------ MODULE LaneLock ------------------------------
(***************************************************************************)
(* What the operation manager promises about lanes, without saying how: a  *)
(* client asks for all of its lanes at once, is granted all of them or     *)
(* none, and gives all of them back at once.  A lane is a device queue     *)
(* (one per volume); two clients that share a lane never hold it together. *)
(***************************************************************************)
CONSTANTS
    Client,     \* everything that can ask for lanes
    Lane,       \* the lanes
    Wants       \* Wants[c]: the lanes client c needs to run

VARIABLE phase

Phases == {"idle", "waiting", "holding"}

Init == phase = [c \in Client |-> "idle"]

Conflict(c, d) == Wants[c] \cap Wants[d] # {}

Request(c) ==
    /\ phase[c] = "idle"
    /\ phase' = [phase EXCEPT ![c] = "waiting"]

Grant(c) ==
    /\ phase[c] = "waiting"
    /\ \A d \in Client : phase[d] = "holding" => ~Conflict(c, d)
    /\ phase' = [phase EXCEPT ![c] = "holding"]

\* A waiting client may be told to forget it, a holding one to hand back.
GiveUp(c) ==
    /\ phase[c] = "waiting"
    /\ phase' = [phase EXCEPT ![c] = "idle"]

Release(c) ==
    /\ phase[c] = "holding"
    /\ phase' = [phase EXCEPT ![c] = "idle"]

Next == \E c \in Client : Request(c) \/ Grant(c) \/ GiveUp(c) \/ Release(c)

Spec == Init /\ [][Next]_phase
=============================================================================

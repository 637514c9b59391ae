------------------------------ MODULE InFlight ------------------------------
(***************************************************************************)
(* What Cmdr has on a disk that is not the person's file yet, and who      *)
(* answers for it: the in-flight ledger, its file in the data directory,   *)
(* the sweep a launch starts and the one a drive's return starts.          *)
(*                                                                         *)
(* The model follows one name on one disk.  Every content that can stand   *)
(* there is in one place: at the name, under a write's temp or aside name, *)
(* under a ` (recovered)' name, or nowhere.  Renames move contents.  The   *)
(* disk is the boot disk, a local mount that can be pulled, or a volume    *)
(* with paths of its own (MTP, a direct SMB session).  The process may die *)
(* between any two steps; the log keeps every line appended by then, and   *)
(* a torn line is a line not appended.                                     *)
(*                                                                         *)
(* An action is one file system call, or what one thread does under the    *)
(* store's lock.  Module Landings has the writes.                          *)
(***************************************************************************)
EXTENDS Naturals, FiniteSets

CONSTANTS
    Jobs,          \* the writes that take the name, one after the other
    Original,      \* what the person had at the name
    Foreign,       \* what a person may save there meanwhile
    Placeholder,   \* the empty file a Rename answer reserves the name with
    SizeOf,        \* the size of each content
    None,          \* no record
    MaxCrashes,    \* bound: how often the process dies
    MaxPulls,      \* bound: how often the drive is pulled
    MaxRefusals,   \* bound: how many calls of a sweep the disk refuses
    Compacts       \* whether other writes make the log long enough to compact

Contents == Jobs \cup {Original, Foreign, Placeholder}
Homes == {"local", "mount", "space"}

ASSUME JobsAssumption == Jobs \subseteq Nat
ASSUME ContentsAssumption ==
    /\ Original \notin Jobs /\ Foreign \notin Jobs /\ Placeholder \notin Jobs
    /\ Original # Foreign /\ Foreign # Placeholder /\ Placeholder # Original
ASSUME SizeAssumption == SizeOf \in [Contents -> Nat]
ASSUME BoundsAssumption == MaxCrashes \in Nat /\ MaxPulls \in Nat /\ MaxRefusals \in Nat /\ Compacts \in BOOLEAN

VARIABLES
    place,       \* where each content is
    whole,       \* the writes whose bytes are all there
    folders,     \* the contents that are folders
    home,        \* the disk's path space
    drive,       \* the disk answers
    registered,  \* VolumeManager knows the disk
    arriving,    \* it was registered and the listeners were not told yet
    app,         \* "down", "replayed" (inside init_and_sweep) or "up"
    log,         \* the records a replay of the log file would give
    recorded,    \* Store.recorded
    pending,     \* Store.pending
    listening,   \* the ledger listens for arrivals
    rewrite,     \* what a compaction has truncated and not appended again
    sweep,       \* the two sweep threads
    crashes, pulls, compacted, refusals,
    owned,       \* history: what has stood whole at the name
    forgotten,   \* history: records dropped by a crash no replay makes good, or by a look at a disk just gone
    unheard      \* history: records put back to wait for an arrival that had been told

diskVars == <<place, whole, folders, home>>
driveVars == <<drive, registered, arriving>>
storeVars == <<log, recorded, pending, listening, rewrite>>
faultVars == <<crashes, pulls, compacted>>
boundVars == <<faultVars, refusals>>
historyVars == <<owned, forgotten, unheard>>
ledgerVars == <<diskVars, driveVars, app, storeVars, sweep, boundVars, historyVars>>

(***************************************************************************)
(* The disk.                                                               *)
(***************************************************************************)
Name == <<"name", 0>>
Temp(n) == <<"temp", n>>
Aside(n) == <<"aside", n>>
Recovered == <<"recovered", 0>>    \* stands for every ` (recovered) (N)' name
Nowhere == <<"nowhere", 0>>
Places == {Name, Recovered, Nowhere} \cup {Temp(n) : n \in Jobs} \cup {Aside(n) : n \in Jobs}

At(p) == {c \in Contents : place[c] = p}
Free(p) == At(p) = {}

(* rename(2) and remove: what stood at the target of a rename is gone.     *)
Renamed(from, to) ==
    [c \in Contents |-> IF place[c] = from THEN to
                        ELSE IF place[c] = to /\ to # Recovered THEN Nowhere
                        ELSE place[c]]
Removed(p) == [c \in Contents |-> IF place[c] = p THEN Nowhere ELSE place[c]]

(***************************************************************************)
(* Records.  A staged partial on a volume is written as a `+' line, one on *)
(* a local path as an `A' line of kind Temp; the same rule settles both.   *)
(***************************************************************************)
AsideKinds == {"FileAside", "DisplacedFile", "DirOverwriteAside", "VolumeAside"}
Records == [kind : {"Temp"} \cup AsideKinds, job : Jobs]
ASSUME NoneAssumption == None \notin Records
TempOf(n) == [kind |-> "Temp", job |-> n]
Path(r) == IF r.kind = "Temp" THEN Temp(r.job) ELSE Aside(r.job)

(* BTreeSet order: every temp before any aside.                            *)
NextOf(todo) == {r \in todo : r.kind = "Temp" \/ \A q \in todo : q.kind # "Temp"}

(***************************************************************************)
(* The store.  A compaction holds its lock, so nothing else here runs      *)
(* while `rewrite' has records left.                                       *)
(***************************************************************************)
Unlocked == rewrite = {}

Track(r) ==
    /\ Unlocked
    /\ recorded' = recorded \cup {r} /\ log' = log \cup {r}
    /\ UNCHANGED <<pending, listening, rewrite>>

RetireRecord(r) ==
    /\ Unlocked
    /\ recorded' = recorded \ {r} /\ log' = log \ {r} /\ pending' = pending \ {r}
    /\ UNCHANGED <<listening, rewrite>>

Defer(r) ==
    /\ Unlocked
    /\ recorded' = recorded \cup {r} /\ log' = log \cup {r}
    /\ pending' = IF home = "local" THEN pending ELSE pending \cup {r}
    /\ UNCHANGED <<listening, rewrite>>

(* keep_for_arrival, then ensure_arrival_listener once it is unlocked.     *)
KeepForArrival(r) ==
    /\ Unlocked
    /\ pending' = IF home = "local" THEN pending ELSE pending \cup {r}
    /\ UNCHANGED <<log, recorded, listening, rewrite>>

EnsureArrivalListener ==
    /\ listening' = TRUE
    /\ UNCHANGED <<log, recorded, pending, rewrite>>

CompactTruncates ==
    /\ Compacts /\ app = "up" /\ Unlocked /\ ~compacted
    /\ log' = {} /\ rewrite' = recorded /\ compacted' = TRUE
    /\ UNCHANGED <<diskVars, driveVars, app, recorded, pending, listening, sweep, crashes, pulls, refusals, historyVars>>

CompactAppends ==
    /\ \E r \in rewrite : log' = log \cup {r} /\ rewrite' = rewrite \ {r}
    /\ UNCHANGED <<diskVars, driveVars, app, recorded, pending, listening, sweep, boundVars, historyVars>>

(***************************************************************************)
(* A launch.  The truncate retires every record that was replayed; those   *)
(* of a volume are recorded again at once, those of the boot disk are in   *)
(* the sweep thread's hand until it has settled them.                      *)
(***************************************************************************)
Sweepers == {"launch", "arrival"}
Idle == [at |-> "idle", todo |-> {}, now |-> None]
Hand(s) == sweep[s].todo \cup ({sweep[s].now} \ {None})
InHand == Hand("launch") \cup Hand("arrival")

InitAndSweep ==
    /\ app = "down" /\ app' = "replayed"
    /\ sweep' = [sweep EXCEPT !["launch"].todo = log]
    /\ log' = {}
    /\ UNCHANGED <<diskVars, driveVars, recorded, pending, listening, rewrite, boundVars, historyVars>>

LaunchDefers ==
    /\ app = "replayed" /\ home # "local"
    /\ \E r \in sweep["launch"].todo :
          /\ Defer(r)
          /\ sweep' = [sweep EXCEPT !["launch"].todo = @ \ {r}]
    /\ UNCHANGED <<diskVars, driveVars, app, boundVars, historyVars>>

(* Bug: nobody asks the registry to tell of arrivals.                      *)
LaunchSpawns_Bug ==
    /\ app = "replayed" /\ app' = "up"
    /\ home # "local" => sweep["launch"].todo = {}
    /\ sweep' = [sweep EXCEPT !["launch"].at =
                    IF sweep["launch"].todo = {} THEN "idle" ELSE "next"]
    /\ UNCHANGED <<diskVars, driveVars, storeVars, boundVars, historyVars>>

LaunchSpawns ==
    /\ app = "replayed" /\ app' = "up"
    /\ home # "local" => sweep["launch"].todo = {}
    /\ LET replayed == sweep["launch"].todo \cup recorded
       IN sweep' = [sweep EXCEPT !["launch"].at =
                       IF replayed = {} THEN "idle" ELSE IF home = "local" THEN "next" ELSE "claim"]
    /\ listening' = (home # "local" /\ recorded # {})
    /\ UNCHANGED <<diskVars, driveVars, log, recorded, pending, rewrite, boundVars, historyVars>>

(* persisted_orphans, after the boot disk's records: whatever is pending   *)
(* for a volume that is already registered.                                *)
(* Bug: the launch takes every record of the volume, not the waiting ones. *)
LaunchClaims_Bug ==
    /\ sweep["launch"].at = "claim" /\ Unlocked /\ registered
    /\ sweep' = [sweep EXCEPT !["launch"] = [@ EXCEPT !.at = "next", !.todo = recorded]]
    /\ pending' = {}
    /\ UNCHANGED <<diskVars, driveVars, app, log, recorded, listening, rewrite, boundVars, historyVars>>

LaunchClaims ==
    /\ sweep["launch"].at = "claim" /\ Unlocked
    /\ IF registered
       THEN /\ sweep' = [sweep EXCEPT !["launch"] = [@ EXCEPT !.at = "next", !.todo = pending]]
            /\ pending' = {}
       ELSE /\ sweep' = [sweep EXCEPT !["launch"] = Idle]
            /\ UNCHANGED pending
    /\ UNCHANGED <<diskVars, driveVars, app, log, recorded, listening, rewrite, boundVars, historyVars>>

(* on_volume_arrival.  Bound: one arrival sweep at a time.                 *)
OnVolumeArrival ==
    /\ arriving /\ Unlocked
    /\ arriving' = FALSE
    /\ IF listening /\ pending # {}
       THEN /\ sweep["arrival"] = Idle
            /\ sweep' = [sweep EXCEPT !["arrival"] = [@ EXCEPT !.at = "next", !.todo = pending]]
            /\ pending' = {}
       ELSE UNCHANGED <<sweep, pending>>
    /\ UNCHANGED <<diskVars, drive, registered, app, log, recorded, listening, rewrite, boundVars, historyVars>>

(***************************************************************************)
(* settle_and_record, one record after the other.  A call that a disk      *)
(* refuses, or a look it does not answer, defers the record.  A read of a  *)
(* disk that went away after it was located may say nothing is there.      *)
(***************************************************************************)
Goes(s, at) == sweep' = [sweep EXCEPT ![s].at = at]
Answers == drive /\ UNCHANGED refusals
Refuses == refusals < MaxRefusals /\ refusals' = refusals + 1
Defers(s) == UNCHANGED place /\ Goes(s, "defer")
LooksGone(s) == ~drive /\ UNCHANGED <<place, refusals>> /\ Goes(s, "retire")

(* locate, and the look settle_kind takes at the name an aside belongs to. *)
Located == home = "local" \/ (registered /\ drive)
ExpectedSize(c, n) == c \notin folders /\ SizeOf[c] = SizeOf[n]
(* Bug: whatever file stands at the name counts as the replacement.        *)
Ruling_Bug(r) ==
    IF ~Located THEN "defer"
    ELSE IF r.kind = "Temp" THEN "remove"
    ELSE IF Free(Name) THEN "restore"
    ELSE IF r.kind = "FileAside" THEN "lookAside" ELSE "recover"

Ruling(r) ==
    IF ~Located THEN "defer"
    ELSE IF r.kind = "Temp" THEN "remove"
    ELSE IF Free(Name) THEN "restore"
    ELSE IF r.kind = "FileAside" /\ \A c \in At(Name) : ExpectedSize(c, r.job) THEN "lookAside"
    ELSE "recover"

SweepLooks(s) ==
    /\ sweep[s].at = "next"
    /\ \E r \in NextOf(sweep[s].todo) :
        \/ /\ sweep' = [sweep EXCEPT ![s] = [at |-> Ruling(r), todo |-> @.todo \ {r}, now |-> r]]
           /\ UNCHANGED refusals
        \/ /\ Located /\ r.kind # "Temp" /\ Refuses
           /\ sweep' = [sweep EXCEPT ![s] = [at |-> "defer", todo |-> @.todo \ {r}, now |-> r]]
    /\ UNCHANGED <<diskVars, driveVars, app, storeVars, faultVars, historyVars>>

SweepLooksAside(s) ==
    /\ sweep[s].at = "lookAside"
    /\ LET there == At(Path(sweep[s].now))
       IN \/ /\ Answers
             /\ Goes(s, IF there = {} THEN "retire" ELSE IF there \subseteq folders THEN "recover" ELSE "remove")
          \/ LooksGone(s) \/ (~drive /\ Defers(s) /\ UNCHANGED refusals)
          \/ drive /\ Refuses /\ Goes(s, "defer")
    /\ forgotten' = IF LooksGone(s) THEN forgotten \cup {sweep[s].now} ELSE forgotten
    /\ UNCHANGED <<diskVars, driveVars, app, storeVars, faultVars, owned, unheard>>

SweepRemoves(s) ==
    /\ sweep[s].at = "remove"
    /\ \/ Answers /\ place' = Removed(Path(sweep[s].now)) /\ Goes(s, "retire")
       \/ LooksGone(s) \/ (~drive /\ Defers(s) /\ UNCHANGED refusals)
       \/ drive /\ Refuses /\ Defers(s)
    /\ forgotten' = IF LooksGone(s) THEN forgotten \cup {sweep[s].now} ELSE forgotten
    /\ UNCHANGED <<whole, folders, home, driveVars, app, storeVars, faultVars, owned, unheard>>

SweepRestores(s) ==
    /\ sweep[s].at = "restore"
    /\ LET p == Path(sweep[s].now)
       IN \/ /\ Answers /\ ~Free(p)
             /\ IF Free(Name) THEN place' = Renamed(p, Name) /\ Goes(s, "retire")
                              ELSE UNCHANGED place /\ Goes(s, "recover")
          \/ (Free(p) \/ ~drive) /\ UNCHANGED refusals /\ Defers(s)
          \/ drive /\ Refuses /\ Defers(s)
    /\ UNCHANGED <<whole, folders, home, driveVars, app, storeVars, faultVars, historyVars>>

SweepRecovers(s) ==
    /\ sweep[s].at = "recover"
    /\ LET p == Path(sweep[s].now)
       IN \/ Answers /\ ~Free(p) /\ place' = Renamed(p, Recovered) /\ Goes(s, "retire")
          \/ (Free(p) \/ ~drive) /\ UNCHANGED refusals /\ Defers(s)
          \/ drive /\ Refuses /\ Defers(s)
    /\ UNCHANGED <<whole, folders, home, driveVars, app, storeVars, faultVars, historyVars>>

SweepSettles(s) ==
    /\ \/ sweep[s].at = "retire" /\ RetireRecord(sweep[s].now)
       \/ sweep[s].at = "defer" /\ Defer(sweep[s].now)
    /\ sweep' = [sweep EXCEPT ![s] = [@ EXCEPT !.at = "next", !.now = None]]
    /\ unheard' = IF sweep[s].at = "defer" /\ drive /\ registered /\ ~arriving
                  THEN unheard \cup {sweep[s].now} ELSE unheard
    /\ UNCHANGED <<diskVars, driveVars, app, boundVars, owned, forgotten>>

SweepEnds(s) ==
    /\ sweep[s].at = "next" /\ sweep[s].todo = {}
    /\ sweep' = [sweep EXCEPT ![s] = Idle]
    /\ UNCHANGED <<diskVars, driveVars, app, storeVars, boundVars, historyVars>>

SweepSteps(s) ==
    SweepLooks(s) \/ SweepLooksAside(s) \/ SweepRemoves(s)
        \/ SweepRestores(s) \/ SweepRecovers(s) \/ SweepSettles(s) \/ SweepEnds(s)

(***************************************************************************)
(* The machine and the person.                                             *)
(***************************************************************************)
Pull ==
    /\ home # "local" /\ drive /\ pulls < MaxPulls
    /\ drive' = FALSE /\ pulls' = pulls + 1
    /\ UNCHANGED <<diskVars, registered, arriving, app, storeVars, sweep, crashes, compacted, refusals, historyVars>>

Unregister ==
    /\ ~drive /\ registered /\ ~arriving
    /\ registered' = FALSE
    /\ UNCHANGED <<diskVars, drive, arriving, app, storeVars, sweep, boundVars, historyVars>>

(* Bound: a drive is not back before the app has seen it go.               *)
Plug ==
    /\ ~drive /\ ~registered
    /\ drive' = TRUE
    /\ UNCHANGED <<diskVars, registered, arriving, app, storeVars, sweep, boundVars, historyVars>>

Register ==
    /\ home # "local" /\ app = "up" /\ drive /\ ~registered
    /\ registered' = TRUE /\ arriving' = TRUE
    /\ UNCHANGED <<diskVars, drive, app, storeVars, sweep, boundVars, historyVars>>

SaveForeign ==
    /\ drive /\ Foreign \notin owned /\ Free(Name)
    /\ place' = [place EXCEPT ![Foreign] = Name] /\ owned' = owned \cup {Foreign}
    /\ UNCHANGED <<whole, folders, home, driveVars, app, storeVars, sweep, boundVars, forgotten, unheard>>

(* Only what the log file and the disk hold survives.                      *)
Crash ==
    /\ app # "down" /\ crashes < MaxCrashes
    /\ app' = "down" /\ crashes' = crashes + 1 /\ compacted' = FALSE
    /\ recorded' = {} /\ pending' = {} /\ listening' = FALSE /\ rewrite' = {}
    /\ sweep' = [s \in Sweepers |-> Idle]
    /\ registered' = FALSE /\ arriving' = FALSE
    /\ forgotten' = forgotten \cup ((InHand \cup rewrite) \ log)
    /\ UNCHANGED <<diskVars, drive, log, pulls, refusals, owned, unheard>>

LaunchSteps == InitAndSweep \/ LaunchDefers \/ LaunchSpawns \/ LaunchClaims
RegistrySteps == Register \/ Unregister \/ OnVolumeArrival
=============================================================================

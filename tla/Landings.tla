------------------------------ MODULE Landings ------------------------------
(***************************************************************************)
(* The writes that take a name, one after the other: what each does on the *)
(* disk and in the in-flight ledger (module InFlight), call by call.       *)
(*                                                                         *)
(*   file       stage_and_land_file, the one landing of a local copy       *)
(*   swap       safe_overwrite_dir, a move across types or a symlink over  *)
(*              a folder; either caller lands by one call                  *)
(*   folder     a folder that takes a file's name: displace_with_directory *)
(*              on a local path, displace_destination on a volume          *)
(*   staged     StagedWrite::commit, onto a free or a reserved name        *)
(*   generated  StagedWrite::commit_with_displaced_original                *)
(*                                                                         *)
(* The disk is shared with the sweeps, with a person who may save a file   *)
(* at the name, and with whoever pulls the drive.                          *)
(***************************************************************************)
EXTENDS InFlight, Sequences

VARIABLES
    job,        \* the write: its number, kind, next call, and `over': it replaces what has the name
    displaced,  \* history: <<n, c>>, the write n moved c aside
    clobbered,  \* history: what a write destroyed at the name without moving it aside
    mislaid,    \* history: records retired although their rename was performed
    cleared     \* history: writes that cleared the name they had reserved

jobVars == <<job, displaced, clobbered, mislaid, cleared>>
vars == <<ledgerVars, jobVars>>

Rest(n, owes) == [n |-> n, kind |-> "none", at |-> "idle", over |-> FALSE, owes |-> owes]

(***************************************************************************)
(* The steps' parts.  `owes' are the ledger calls that follow the disk     *)
(* call just made, in order; the next disk call waits for them.            *)
(***************************************************************************)
JobAt(at) == job.at = at /\ job.owes = <<>>
Goto(at, owes) == job' = IF at = "idle" THEN Rest(job.n, owes) ELSE [job EXCEPT !.at = at, !.owes = owes]

OwnTemp == TempOf(job.n)
AsideOf(kind, n) ==
    [job |-> n, kind |-> CASE kind = "file" -> "FileAside"
                           [] kind = "swap" -> "DirOverwriteAside"
                           [] kind = "folder" /\ home # "space" -> "DisplacedFile"
                           [] OTHER -> "VolumeAside"]
OwnAside == AsideOf(job.kind, job.n)
Owe(what, r) == IF what = "keep" THEN <<<<"keep", r>>, <<"listen", r>>>> ELSE <<<<what, r>>>>

JobSettles ==
    /\ job.owes # <<>>
    /\ LET what == job.owes[1][1]  r == job.owes[1][2]
       IN \/ what = "track" /\ Track(r)
          \/ what = "retire" /\ RetireRecord(r)
          \/ what = "keep" /\ KeepForArrival(r)
          \/ what = "listen" /\ IF home = "local" THEN UNCHANGED storeVars ELSE EnsureArrivalListener
    /\ job' = [job EXCEPT !.owes = Tail(@)]
    /\ UNCHANGED <<diskVars, driveVars, app, sweep, boundVars, historyVars, displaced, clobbered, mislaid, cleared>>

(* One disk call.  It fails for `reason', or because the disk is out or    *)
(* refuses.  On a volume a call that reports a failure may have been done. *)
Succeeds(disk, at, owes) == drive /\ place' = disk /\ UNCHANGED refusals /\ Goto(at, owes)
Fails(reason, disk, at, owes) ==
    /\ IF reason \/ ~drive THEN UNCHANGED <<place, refusals>>
       ELSE Refuses /\ (UNCHANGED place \/ (home = "space" /\ place' = disk))
    /\ Goto(at, owes)
OnDisk == UNCHANGED <<home, driveVars, app, storeVars, sweep, faultVars, forgotten, unheard>>
SameBytes == UNCHANGED <<whole, folders>>
SameHistory == UNCHANGED <<owned, displaced, clobbered, mislaid, cleared>>

CanMove(from, to) == ~Free(from) /\ (to = Recovered \/ Free(to))
Performed == place' # place

(***************************************************************************)
(* A write begins, and fills its temp.                                     *)
(***************************************************************************)
Begins(kind, over) ==
    /\ app = "up" /\ drive /\ (home # "local" => registered)
    /\ job.at = "idle" /\ job.owes = <<>> /\ job.n + 1 \in Jobs
    /\ LET n == job.n + 1
           aside == kind \in {"swap", "folder"}
       IN job' = [n |-> n, kind |-> kind, over |-> over,
                  at |-> IF aside THEN "setAside" ELSE "fill",
                  owes |-> Owe("track", IF aside THEN AsideOf(kind, n) ELSE TempOf(n))]
    /\ OnDisk /\ UNCHANGED <<whole, refusals>> /\ SameHistory

FileAtName == ~Free(Name) /\ At(Name) \cap folders = {}

BeginFile == home # "space" /\ Begins("file", ~Free(Name)) /\ UNCHANGED <<place, folders>>

(* What a move across types brings is a folder exactly over a file.        *)
BeginSwap ==
    /\ home # "space" /\ ~Free(Name) /\ Begins("swap", TRUE)
    /\ folders' = IF FileAtName THEN folders \cup {job.n + 1} ELSE folders
    /\ UNCHANGED place

BeginFolder ==
    /\ FileAtName /\ Begins("folder", TRUE)
    /\ folders' = folders \cup {job.n + 1} /\ UNCHANGED place

(* Bug: a name is reserved without a look at what has it.                  *)
BeginStaged_Bug ==
    /\ home = "space" /\ Begins("staged", TRUE) /\ UNCHANGED folders
    /\ place' = [place EXCEPT ![Placeholder] = Name]

(* A Rename answer has reserved the name with an empty file.               *)
BeginStaged ==
    /\ home = "space" /\ Free(Name) /\ UNCHANGED folders
    /\ \E reserved \in BOOLEAN :
          /\ Begins("staged", reserved)
          /\ place' = IF reserved THEN [place EXCEPT ![Placeholder] = Name] ELSE place

BeginGenerated ==
    /\ home = "space" /\ FileAtName /\ Begins("generated", TRUE) /\ UNCHANGED <<place, folders>>

(* Bug: a write onto a free name goes straight to it.                      *)
CreateTemp_Bug ==
    /\ JobAt("fill") /\ place[job.n] = Nowhere
    /\ Succeeds([place EXCEPT ![job.n] = IF Free(Name) THEN Name ELSE Temp(job.n)], "fill", <<>>)
    /\ OnDisk /\ SameBytes /\ SameHistory

CreateTemp ==
    /\ JobAt("fill") /\ place[job.n] = Nowhere
    /\ Succeeds([place EXCEPT ![job.n] = Temp(job.n)], "fill", <<>>)
    /\ OnDisk /\ SameBytes /\ SameHistory

FillTemp ==
    /\ JobAt("fill") /\ place[job.n] = Temp(job.n)
    /\ whole' = whole \cup {job.n}
    /\ IF job.kind = "staged" THEN Succeeds(place, "place", <<>>)
       ELSE IF job.over THEN Succeeds(place, "setAside", Owe("track", OwnAside))
       ELSE Succeeds(place, "land", <<>>)
    /\ OnDisk /\ UNCHANGED folders /\ SameHistory

(* The source fails, the copy is stopped, or the drive is gone.            *)
FillFails ==
    /\ JobAt("fill")
    /\ IF job.kind = "file" THEN Goto("discard", <<>>) ELSE Goto("toss", Owe("retire", OwnTemp))
    /\ OnDisk /\ SameBytes /\ SameHistory /\ UNCHANGED <<place, refusals>>

(***************************************************************************)
(* An entry goes aside, and something takes its name.                      *)
(***************************************************************************)
SetAside ==
    /\ JobAt("setAside")
    /\ LET aside == Renamed(Name, Aside(job.n))
           next == IF job.kind = "folder" THEN "makeDir" ELSE "land"
           undone == CASE job.kind = "file" -> "discard" [] job.kind = "generated" -> "dropTemp" [] OTHER -> "idle"
       IN \/ ~Free(Name) /\ Succeeds(aside, next, <<>>) /\ UNCHANGED mislaid
          \/ /\ home = "space" /\ Free(Name) /\ drive    \* nothing there: nothing to put back
             /\ job' = [job EXCEPT !.at = next, !.over = FALSE, !.owes = Owe("retire", OwnAside)]
             /\ UNCHANGED <<place, refusals, mislaid>>
          \/ /\ ~(home = "space" /\ Free(Name) /\ drive)
             /\ Fails(Free(Name), aside, undone, Owe("retire", OwnAside))
             /\ mislaid' = IF Performed THEN mislaid \cup {OwnAside} ELSE mislaid
    /\ displaced' = IF Performed THEN displaced \cup {<<job.n, c>> : c \in At(Name)} ELSE displaced
    /\ OnDisk /\ SameBytes /\ UNCHANGED <<owned, clobbered, cleared>>

(* A replacing rename takes whatever has come to the name meanwhile.       *)
Replaces == job.kind = "swap" \/ (job.kind = "file" /\ job.over)
MayLand == Free(Name) \/ (Replaces /\ (At(Name) \cup {job.n}) \cap folders = {})

Land ==
    /\ JobAt("land")
    /\ LET landed == [Removed(Name) EXCEPT ![job.n] = Name]
           undone == CASE job.kind = "swap" -> "clear"
                       [] ~job.over -> IF job.kind = "file" THEN "discard" ELSE "dropTemp"
                       [] job.kind = "file" -> "putBack"
                       [] OTHER -> "bringBack"
       IN \/ MayLand /\ Succeeds(landed, IF job.over THEN "removeAside" ELSE "idle",
                                 IF job.kind = "swap" THEN <<>> ELSE Owe("retire", OwnTemp))
          \/ Fails(~MayLand, landed, undone, <<>>)
    /\ whole' = IF Performed THEN whole \cup {job.n} ELSE whole
    /\ owned' = IF Performed THEN owned \cup {job.n} ELSE owned
    /\ clobbered' = IF Performed THEN clobbered \cup At(Name) ELSE clobbered
    /\ OnDisk /\ UNCHANGED <<folders, displaced, mislaid, cleared>>

(* restore_after_materialize_failure removes whatever stands at the name.  *)
ClearFailed ==
    /\ JobAt("clear")
    /\ \/ Succeeds(Removed(Name), "putBack", <<>>)
       \/ Fails(FALSE, place, "idle", Owe("keep", OwnAside))
    /\ clobbered' = IF Performed THEN clobbered \cup At(Name) ELSE clobbered
    /\ OnDisk /\ SameBytes /\ UNCHANGED <<owned, displaced, mislaid, cleared>>

(* The concurrent driver drops a task at its rename: nobody holds the      *)
(* aside in this process, and its record waits for the next launch.        *)
DropAside ==
    /\ JobAt("setAside") /\ job.kind = "folder" /\ home = "space"
    /\ UNCHANGED place \/ (drive /\ ~Free(Name) /\ place' = Renamed(Name, Aside(job.n)))
    /\ displaced' = IF Performed THEN displaced \cup {<<job.n, c>> : c \in At(Name)} ELSE displaced
    /\ Goto("idle", <<>>)
    /\ OnDisk /\ SameBytes /\ UNCHANGED <<refusals, owned, clobbered, mislaid, cleared>>

(* Bug: the record goes whatever the call reported.                        *)
AsideEnds_Bug(from, disk, possible, next, otherwise) ==
    /\ JobAt(from)
    /\ \/ possible /\ Succeeds(disk, next, Owe("retire", OwnAside))
       \/ Fails(~possible, disk, next, Owe("retire", OwnAside))
    /\ OnDisk /\ SameBytes /\ SameHistory

(* Giving the entry its name back, or a recovered one, or dropping it:     *)
(* the record goes only with a call that reported success.                 *)
AsideEnds(from, disk, possible, next, otherwise) ==
    /\ JobAt(from)
    /\ \/ possible /\ Succeeds(disk, next, Owe("retire", OwnAside))
       \/ Fails(~possible, disk, otherwise, IF otherwise = "rescue" THEN <<>> ELSE Owe("keep", OwnAside))
    /\ OnDisk /\ SameBytes /\ SameHistory

AfterAside == CASE job.kind = "file" -> "discard" [] job.kind = "generated" -> "dropTemp" [] OTHER -> "idle"
OwnPlace == Aside(job.n)

PutBack == AsideEnds("putBack", Renamed(OwnPlace, Name), CanMove(OwnPlace, Name), AfterAside, AfterAside)
BringBack == AsideEnds("bringBack", Renamed(OwnPlace, Name), CanMove(OwnPlace, Name), AfterAside, "rescue")
Rescue == AsideEnds("rescue", Renamed(OwnPlace, Recovered), ~Free(OwnPlace), AfterAside, AfterAside)
KeepAsRecovered == AsideEnds("recover", Renamed(OwnPlace, Recovered), ~Free(OwnPlace), "idle", "idle")
RemoveAside == AsideEnds("removeAside", Removed(OwnPlace), ~Free(OwnPlace), "idle", "idle")

(* discard_temp.  A temp that is not found is gone only if the drive is    *)
(* still listed, and the table is asked after the call.                    *)
Discard ==
    /\ JobAt("discard")
    /\ \/ Succeeds(Removed(Temp(job.n)), "idle", Owe("retire", OwnTemp))
       \/ ~drive /\ UNCHANGED <<place, refusals>> /\ Goto("askTable", <<>>)
       \/ drive /\ Fails(FALSE, place, "idle", Owe("keep", OwnTemp))
    /\ OnDisk /\ SameBytes /\ SameHistory

AskTable ==
    /\ JobAt("askTable")
    /\ Goto("idle", Owe(IF drive THEN "retire" ELSE "keep", OwnTemp))
    /\ OnDisk /\ SameBytes /\ SameHistory /\ UNCHANGED <<place, refusals>>

(* The generated file's temp keeps its record unless its removal answered. *)
DropTemp ==
    /\ JobAt("dropTemp")
    /\ \/ ~Free(Temp(job.n)) /\ Succeeds(Removed(Temp(job.n)), "idle", Owe("retire", OwnTemp))
       \/ Fails(Free(Temp(job.n)), Removed(Temp(job.n)), "idle", <<>>)
    /\ OnDisk /\ SameBytes /\ SameHistory

(***************************************************************************)
(* A folder takes a file's name and fills; the operation says how it ends. *)
(***************************************************************************)
PutItBack == IF home # "space" THEN "putBack" ELSE IF job.over THEN "bringBack" ELSE "idle"
LetItGo == IF job.over THEN "removeAside" ELSE "idle"

MakeDirectory ==
    /\ JobAt("makeDir")
    /\ \/ Free(Name) /\ Succeeds([place EXCEPT ![job.n] = Name], "build", <<>>)
       \/ Fails(~Free(Name), [place EXCEPT ![job.n] = Name], PutItBack, <<>>)
    /\ OnDisk /\ SameBytes /\ SameHistory

FillFolder ==
    /\ JobAt("build") /\ place[job.n] = Name
    /\ Succeeds(place, "built", <<>>)
    /\ whole' = whole \cup {job.n} /\ owned' = owned \cup {job.n}
    /\ OnDisk /\ UNCHANGED <<folders, displaced, clobbered, mislaid, cleared>>

(* Completed; stopped or failed, which keeps what landed; or rolled back.  *)
OperationEnds ==
    /\ \/ JobAt("built") /\ Goto(LetItGo, <<>>)
       \/ /\ JobAt("build") \/ JobAt("built")
          /\ Goto(IF home # "space" THEN "recover" ELSE IF job.at = "built" THEN LetItGo ELSE PutItBack, <<>>)
       \/ (JobAt("build") \/ JobAt("built")) /\ Goto("unbuild", <<>>)
    /\ OnDisk /\ SameBytes /\ SameHistory /\ UNCHANGED <<place, refusals>>

RemoveFolder ==
    /\ JobAt("unbuild")
    /\ LET gone == [place EXCEPT ![job.n] = Nowhere]
       IN Succeeds(gone, PutItBack, <<>>) \/ Fails(FALSE, gone, PutItBack, <<>>)
    /\ owned' = IF Performed THEN owned \ {job.n} ELSE owned
    /\ OnDisk /\ SameBytes /\ UNCHANGED <<displaced, clobbered, mislaid, cleared>>

(***************************************************************************)
(* A staged write lands (land), is given up, or is dropped with its task.  *)
(***************************************************************************)
Lands(from, owes, otherwise, mustFail) ==
    /\ JobAt(from)
    /\ LET free == CanMove(Temp(job.n), Name)
           landed == IF free THEN Renamed(Temp(job.n), Name) ELSE place
       IN \/ free /\ Succeeds(landed, "idle", owes)
          \/ Fails(~free /\ mustFail, landed, otherwise, <<>>)
    /\ owned' = IF Performed THEN owned \cup {job.n} ELSE owned
    /\ OnDisk /\ SameBytes /\ UNCHANGED <<displaced, clobbered, mislaid, cleared>>

Occupied == drive /\ ~Free(Name)
(* A name this write reserved may be cleared; a refusal that is not that   *)
(* the name exists gives the write up, taken or free.                      *)
Place == Lands("place", Owe("retire", OwnTemp), "unplaced", ~(Occupied /\ job.over))
PlaceAgain == Lands("placeAgain", <<>>, "rescueTemp", TRUE)

(* Bug: the temp stays a partial while the name is cleared for it.         *)
ReleasesForClaimed_Bug ==
    /\ JobAt("place") /\ Occupied /\ job.over
    /\ Goto("clearName", <<>>)
    /\ OnDisk /\ SameBytes /\ SameHistory /\ UNCHANGED <<place, refusals>>

(* The name is the one this write reserved: the temp stops being a partial *)
(* before the name is cleared, so that nothing sweeps it meanwhile.        *)
ReleasesForClaimed ==
    /\ JobAt("place") /\ Occupied /\ job.over
    /\ Goto("clearName", Owe("retire", OwnTemp))
    /\ OnDisk /\ SameBytes /\ SameHistory /\ UNCHANGED <<place, refusals>>

ClearName ==
    /\ JobAt("clearName")
    /\ \/ Succeeds(Removed(Name), "placeAgain", <<>>)
       \/ Fails(FALSE, Removed(Name), "look", <<>>)
    /\ clobbered' = IF Performed THEN clobbered \cup (At(Name) \ {Placeholder}) ELSE clobbered
    /\ cleared' = IF Performed THEN cleared \cup {job.n} ELSE cleared
    /\ OnDisk /\ SameBytes /\ UNCHANGED <<owned, displaced, mislaid>>

LookAgain ==
    /\ JobAt("look")
    /\ \/ Succeeds(place, IF Free(Name) THEN "placeAgain" ELSE "toss", <<>>)
       \/ Fails(FALSE, place, "idle", <<>>)
    /\ OnDisk /\ SameBytes /\ SameHistory

RescueTemp ==
    /\ JobAt("rescueTemp")
    /\ LET rescued == Renamed(Temp(job.n), Recovered)
       IN \/ ~Free(Temp(job.n)) /\ Succeeds(rescued, "idle", <<>>)
          \/ Fails(Free(Temp(job.n)), rescued, "idle", <<>>)
    /\ OnDisk /\ SameBytes /\ SameHistory

DiscardUnplaced ==
    /\ JobAt("unplaced")
    /\ \/ Succeeds(Removed(Temp(job.n)), "idle", Owe("retire", OwnTemp))
       \/ Fails(FALSE, Removed(Temp(job.n)), "idle", <<>>)
    /\ OnDisk /\ SameBytes /\ SameHistory

Toss ==
    /\ JobAt("toss")
    /\ \/ Succeeds(Removed(Temp(job.n)), "idle", <<>>)
       \/ Fails(FALSE, Removed(Temp(job.n)), "idle", <<>>)
    /\ OnDisk /\ SameBytes /\ SameHistory

(* The driver drops a task at any await; the operation's own sweep removes *)
(* the temps its list still has and leaves their persisted records alone.  *)
(* The list has a live write's temp exactly as long as the ledger has.     *)
DropTask ==
    /\ job.kind = "staged" /\ job.at # "sweepOwn" /\ job.owes = <<>>
    /\ Goto("sweepOwn", <<>>)
    /\ OnDisk /\ SameBytes /\ SameHistory /\ UNCHANGED <<place, refusals>>

SweepOwn ==
    /\ JobAt("sweepOwn")
    /\ \/ OwnTemp \in recorded /\ Succeeds(Removed(Temp(job.n)), "idle", <<>>)
       \/ OwnTemp \in recorded /\ Fails(FALSE, Removed(Temp(job.n)), "idle", <<>>)
       \/ Goto("idle", <<>>) /\ UNCHANGED <<place, refusals>>     \* not listed, or the app is quitting
    /\ OnDisk /\ SameBytes /\ SameHistory

(***************************************************************************)
(* The specification.                                                      *)
(***************************************************************************)
(* Bound: what stands at the name may be a folder on the boot disk only.   *)
Init ==
    /\ home \in Homes
    /\ owned \in SUBSET {Original}
    /\ place = [c \in Contents |-> IF c \in owned THEN Name ELSE Nowhere]
    /\ whole = {} /\ folders \in IF home = "local" THEN SUBSET owned ELSE {{}}
    /\ drive = TRUE /\ registered = FALSE /\ arriving = FALSE
    /\ app = "down" /\ log = {} /\ recorded = {} /\ pending = {} /\ listening = FALSE /\ rewrite = {}
    /\ sweep = [s \in Sweepers |-> Idle]
    /\ crashes = 0 /\ pulls = 0 /\ compacted = FALSE /\ refusals = 0
    /\ forgotten = {} /\ unheard = {}
    /\ job = Rest(0, <<>>) /\ displaced = {} /\ clobbered = {} /\ mislaid = {} /\ cleared = {}

Dies == Crash /\ job' = Rest(job.n, <<>>) /\ UNCHANGED <<displaced, clobbered, mislaid, cleared>>
WriteBegins == BeginFile \/ BeginSwap \/ BeginFolder \/ BeginStaged \/ BeginGenerated
WriteSteps ==
    \/ CreateTemp \/ FillTemp \/ FillFails \/ SetAside \/ Land \/ ClearFailed
    \/ PutBack \/ BringBack \/ Rescue \/ KeepAsRecovered \/ RemoveAside
    \/ Discard \/ AskTable \/ DropTemp \/ DropAside \/ MakeDirectory \/ FillFolder \/ OperationEnds \/ RemoveFolder
    \/ Place \/ ReleasesForClaimed \/ ClearName \/ LookAgain \/ PlaceAgain \/ RescueTemp
    \/ DiscardUnplaced \/ Toss \/ DropTask \/ SweepOwn \/ JobSettles
LedgerSteps ==
    \/ CompactTruncates \/ CompactAppends
    \/ LaunchSteps \/ RegistrySteps \/ \E s \in Sweepers : SweepSteps(s)
    \/ Pull \/ Plug \/ SaveForeign

Next == WriteBegins \/ WriteSteps \/ (LedgerSteps /\ UNCHANGED jobVars) \/ Dies

Fairness ==
    /\ WF_vars(LaunchSteps /\ UNCHANGED jobVars)
    /\ WF_vars(CompactAppends /\ UNCHANGED jobVars)
    /\ WF_vars(RegistrySteps /\ UNCHANGED jobVars)
    /\ \A s \in Sweepers : WF_vars(SweepSteps(s) /\ UNCHANGED jobVars)
Spec == Init /\ [][Next]_vars
FairSpec == Spec /\ Fairness

(***************************************************************************)
(* Properties.                                                             *)
(***************************************************************************)
RecordCalls == {"track", "retire", "keep", "listen"}
TypeOK ==
    /\ place \in [Contents -> Places] /\ whole \subseteq Contents /\ folders \subseteq Contents
    /\ \A p \in Places \ {Nowhere, Recovered} : Cardinality(At(p)) <= 1
    /\ home \in Homes /\ drive \in BOOLEAN /\ registered \in BOOLEAN /\ arriving \in BOOLEAN
    /\ app \in {"down", "replayed", "up"} /\ listening \in BOOLEAN
    /\ log \subseteq Records /\ recorded \subseteq Records /\ pending \subseteq Records /\ rewrite \subseteq Records
    /\ \A s \in Sweepers : Hand(s) \subseteq Records
    /\ crashes \in 0..MaxCrashes /\ pulls \in 0..MaxPulls /\ refusals \in 0..MaxRefusals
    /\ job.n \in Jobs \cup {0} /\ job.over \in BOOLEAN
    /\ \A i \in DOMAIN job.owes : job.owes[i] \in RecordCalls \X Records
    /\ owned \cup clobbered \subseteq Contents /\ cleared \subseteq Jobs /\ forgotten \cup mislaid \cup unheard \subseteq Records

(* Whatever a person had whole at the name is still on the disk, unless a  *)
(* write moved it aside and something of the size that write brings has    *)
(* stood whole at the name since, or a replacing rename met it there       *)
(* without knowing.  No crash, pull, refusal or sweep loses it.            *)
HasReplacement(n, c) == \E d \in owned \ {c} : d = n \/ (d \notin folders /\ SizeOf[d] = SizeOf[n])
OriginalSurvives ==
    \A c \in owned : place[c] = Nowhere =>
        c \in clobbered \/ \E n \in Jobs : <<n, c>> \in displaced /\ HasReplacement(n, c)

(* overwrite.rs, "the invariant": the name never holds a partial file,     *)
(* whenever the process dies.                                              *)
FinalNameWhole == At(Name) \cap Jobs \subseteq whole \cup folders

(* A sweep acts alone: it holds no record of something a live write is     *)
(* still using, none another sweep holds, and none that waits for another  *)
(* arrival (claim_pending).                                                *)
UsesTemp == {"fill", "setAside", "land", "place", "unplaced", "dropTemp", "sweepOwn", "clearName", "placeAgain"}
UsesAside == {"land", "makeDir", "build", "built", "unbuild", "clear", "putBack", "bringBack", "rescue", "recover", "removeAside"}
SweepSparesLive ==
    /\ \A r \in InHand : r.job = job.n =>
          job.at \notin IF r.kind = "Temp" THEN UsesTemp ELSE UsesAside
    /\ Hand("launch") \cap Hand("arrival") = {}
    /\ app = "up" => InHand \cap pending = {}

(* An entry under an aside name is always answered for: in the log, in a   *)
(* sweep's hand or in a compaction's.  The exceptions are the records a    *)
(* crash caught between a truncate and what writes them again, and those   *)
(* of a rename that was performed and reported as failed.                  *)
AsideIsRecorded ==
    \A n \in Jobs : ~Free(Aside(n)) =>
        \E r \in log \cup InHand \cup rewrite \cup forgotten \cup mislaid : Path(r) = Aside(n)

(* Once a write has cleared the name it had reserved, its temp is the new  *)
(* data's only home there, and no sweep, of the operation, of this launch  *)
(* or of a later one, removes it.                                          *)
CommittedUnswept ==
    [][\A n \in Jobs : n \in cleared /\ place[n] = Temp(n) /\ place'[n] = Nowhere
            => job.at = "toss"]_vars

(* An aside a crash or a failed write left is given its name back, or a    *)
(* recovered one, by the next launch or when the drive's return is told,   *)
(* as long as the process lives and the drive is in; unless a disk refused *)
(* the sweep, the record was dropped (AsideIsRecorded), or it was put back *)
(* to wait for an arrival that had been told a moment before.              *)
LookedFor(r) == (app = "replayed" /\ r \in recorded \cup InHand) \/ (arriving /\ r \in pending /\ job.owes = <<>>)
AsideComesHome ==
    \A n \in Jobs :
        (~Free(Aside(n)) /\ \E r \in Records : Path(r) = Aside(n) /\ LookedFor(r))
            ~> (Free(Aside(n)) \/ app = "down" \/ ~drive \/ refusals > 0
                \/ \E r \in forgotten \cup mislaid \cup unheard : Path(r) = Aside(n))
=============================================================================

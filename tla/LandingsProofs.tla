--------------------------- MODULE LandingsProofs ---------------------------
(***************************************************************************)
(* Theorems about Landings, for any number of writes, any sizes of what    *)
(* they bring and any number of faults.                                    *)
(***************************************************************************)
EXTENDS Landings, FiniteSetTheorems, TLAPS

(***************************************************************************)
(* Where a thing can be, and where a write and a sweep can stand.          *)
(***************************************************************************)
JobAts ==
    {"idle", "fill", "setAside", "land", "place", "clearName", "look", "placeAgain", "rescueTemp",
     "unplaced", "toss", "sweepOwn", "discard", "askTable", "dropTemp", "clear", "putBack",
     "bringBack", "rescue", "recover", "removeAside", "makeDir", "build", "built", "unbuild"}
Kinds == {"none", "file", "swap", "folder", "staged", "generated"}
Acting == {"lookAside", "remove", "restore", "recover", "retire", "defer"}
SweepAts == {"idle", "next", "claim"} \cup Acting
FolderAts == {"makeDir", "build", "built", "unbuild"}
StagedAts ==
    {"fill", "place", "clearName", "look", "placeAgain", "rescueTemp", "unplaced", "toss", "sweepOwn"}
LandingAts == {"place", "clearName", "look", "placeAgain"}
Owings == {<<>>} \cup {Owe(w, r) : w \in RecordCalls, r \in Records}
Owed(w) == {r \in Records : job.owes = Owe(w, r)}

\* No two things have one name, and only the write a temp was made for is
\* under it.
OneEach == \A c, d \in Contents : place[c] = place[d] /\ place[c] \notin {Nowhere, Recovered} => c = d
TempsAreOwn == \A c \in Contents, n \in Jobs : place[c] = Temp(n) => c = n

DiskInv ==
    /\ place \in [Contents -> Places] /\ whole \subseteq Contents /\ folders \subseteq Contents
    /\ home \in Homes
    /\ OneEach /\ TempsAreOwn

RestInv ==
    /\ drive \in BOOLEAN /\ registered \in BOOLEAN /\ arriving \in BOOLEAN
    /\ app \in {"down", "replayed", "up"} /\ listening \in BOOLEAN
    /\ log \subseteq Records /\ recorded \subseteq Records /\ pending \subseteq Records /\ rewrite \subseteq Records
    /\ crashes \in 0..MaxCrashes /\ pulls \in 0..MaxPulls /\ refusals \in 0..MaxRefusals
    /\ owned \cup clobbered \subseteq Contents /\ cleared \subseteq Jobs /\ forgotten \cup mislaid \cup unheard \subseteq Records
    /\ displaced \subseteq Jobs \X Contents

JobInv ==
    /\ job \in [n : Jobs \cup {0}, kind : Kinds, at : JobAts, over : BOOLEAN, owes : Owings]
    /\ job.at # "idle" => job.n \in Jobs
    /\ \A w \in RecordCalls : \A r \in Owed(w) : r.job = job.n
    /\ job.kind = "folder" => job.n \in folders
    /\ job.at \in FolderAts => job.kind = "folder"
    /\ job.kind = "staged" => job.at \in StagedAts
    /\ job.kind = "file" => home # "space"
    /\ job.at \in {"look", "placeAgain"} => job.owes = <<>>

\* What a sweep has in its hand, by where it stands.
HandOf(s) ==
    LET h == sweep[s]
    IN /\ h.at \in Acting => h.now \in Records /\ h.now \notin h.todo
       /\ h.at \notin Acting => h.now = None
       /\ h.at \in {"idle", "claim"} => h.todo = {} \/ (app = "replayed" /\ s = "launch")
       /\ h.at \in {"lookAside", "restore", "recover"} => h.now.kind # "Temp"
SweepInv ==
    /\ sweep \in [Sweepers -> [at : SweepAts, todo : SUBSET Records, now : Records \cup {None}]]
    /\ \A s \in Sweepers : HandOf(s)

\* The store as it is before a launch, during it and after.
StoreInv ==
    /\ app = "down" => recorded = {} /\ pending = {} /\ rewrite = {} /\ sweep = [s \in Sweepers |-> Idle]
    /\ app = "replayed" => rewrite = {} /\ sweep["launch"].at = "idle" /\ sweep["arrival"] = Idle
    /\ app # "down" => log \cup rewrite = recorded
    /\ app # "up" => ~registered /\ ~arriving /\ job.at = "idle" /\ job.owes = <<>>

TypeInv == DiskInv /\ RestInv /\ JobInv /\ SweepInv /\ StoreInv

(***************************************************************************)
(* The places differ, and so do the ledger calls a write owes.             *)
(***************************************************************************)
LEMMA PlacesDiffer ==
    /\ Name # Nowhere /\ Name # Recovered /\ Nowhere # Recovered
    /\ \A n : /\ Temp(n) # Name /\ Temp(n) # Nowhere /\ Temp(n) # Recovered
              /\ Aside(n) # Name /\ Aside(n) # Nowhere /\ Aside(n) # Recovered
    /\ \A n, m : /\ Temp(n) # Aside(m)
                 /\ Temp(n) = Temp(m) => n = m
                 /\ Aside(n) = Aside(m) => n = m
BY DEF Name, Nowhere, Recovered, Temp, Aside

LEMMA PlacesAre ==
    /\ Name \in Places /\ Nowhere \in Places /\ Recovered \in Places
    /\ \A n \in Jobs : Temp(n) \in Places /\ Aside(n) \in Places
BY DEF Places

LEMMA PathIs ==
    ASSUME NEW r \in Records
    PROVE  /\ r.job \in Jobs /\ Path(r) \in Places
           /\ r.kind = "Temp" => Path(r) = Temp(r.job) /\ r = TempOf(r.job)
           /\ r.kind # "Temp" => Path(r) = Aside(r.job)
BY PlacesAre DEF Records, Path, TempOf

LEMMA OwesDiffer ==
    /\ \A w, r : Owe(w, r) # <<>>
    /\ \A w, r, v, q : Owe(w, r) = Owe(v, q) => w = v /\ r = q
<1>1. \A w, r : Owe(w, r) # <<>> /\ Owe(w, r)[1] = <<w, r>>
  BY DEF Owe
<1>2. ASSUME NEW w, NEW r, NEW v, NEW q, Owe(w, r) = Owe(v, q) PROVE w = v /\ r = q
  <2>1. <<w, r>> = <<v, q>>
    BY <1>1, <1>2
  <2> QED BY <2>1
<1> QED BY <1>1, <1>2

\* What is left to do after the first call owed.
LEMMA OwesTail ==
    ASSUME NEW w \in RecordCalls, NEW r
    PROVE  /\ Owe(w, r)[1][1] = w /\ Owe(w, r)[1][2] = r
           /\ Tail(Owe(w, r)) = IF w = "keep" THEN Owe("listen", r) ELSE <<>>
BY DEF Owe, RecordCalls

LEMMA OwnRecords ==
    ASSUME JobInv, job.n \in Jobs
    PROVE  /\ OwnTemp \in Records /\ OwnTemp.kind = "Temp" /\ OwnTemp.job = job.n
           /\ OwnAside \in Records /\ OwnAside.kind # "Temp" /\ OwnAside.job = job.n
           /\ OwnAside.kind = "FileAside" => job.kind = "file"
           /\ Path(OwnTemp) = Temp(job.n) /\ Path(OwnAside) = Aside(job.n)
BY DEF OwnTemp, TempOf, OwnAside, AsideOf, Records, AsideKinds, Path, JobInv

(***************************************************************************)
(* The write's own steps: where each leads, and what it then owes.         *)
(***************************************************************************)
LEMMA GotoIs ==
    ASSUME JobInv, NEW at \in JobAts, NEW owes \in Owings, Goto(at, owes)
    PROVE  /\ job'.n = job.n /\ job'.at = at /\ job'.owes = owes
           /\ job'.kind = IF at = "idle" THEN "none" ELSE job.kind
           /\ job' \in [n : Jobs \cup {0}, kind : Kinds, at : JobAts, over : BOOLEAN, owes : Owings]
<1>1. CASE at = "idle"
  BY <1>1 DEF Goto, Rest, JobInv, Kinds
<1>2. CASE at # "idle"
  <2>1. PICK x : x = [job EXCEPT !.at = at, !.owes = owes]
    OBVIOUS
  <2>2. /\ x.n = job.n /\ x.at = at /\ x.owes = owes /\ x.kind = job.kind /\ x.over = job.over
        /\ x \in [n : Jobs \cup {0}, kind : Kinds, at : JobAts, over : BOOLEAN, owes : Owings]
    BY <2>1 DEF JobInv
  <2> QED BY <1>2, <2>1, <2>2 DEF Goto
<1> QED BY <1>1, <1>2

LEMMA OwingsAre ==
    /\ <<>> \in Owings
    /\ \A w \in RecordCalls, r \in Records : Owe(w, r) \in Owings
    /\ {"track", "retire", "keep", "listen"} = RecordCalls
BY DEF Owings, RecordCalls

\* One move of the write.
Moves(from, to, owes) ==
    /\ job.at \in from /\ job'.at \in to /\ job'.owes = owes
    /\ job'.kind = IF job'.at = "idle" THEN "none" ELSE job.kind

AfterAsides == {"discard", "dropTemp", "idle"}
WriteMove ==
    \/ Moves({"fill"}, {"fill"}, <<>>)
    \/ job.kind = "staged" /\ job.n \in whole' /\ Moves({"fill"}, {"place"}, <<>>)
    \/ job.kind # "staged" /\ Moves({"fill"}, {"land"}, <<>>)
    \/ job.kind # "staged" /\ Moves({"fill"}, {"setAside"}, Owe("track", OwnAside))
    \/ job.kind = "file" /\ Moves({"fill"}, {"discard"}, <<>>)
    \/ Moves({"fill"}, {"toss"}, Owe("retire", OwnTemp))
    \/ job.kind # "folder" /\ Moves({"setAside"}, {"land"}, <<>>)
    \/ job.kind # "folder" /\ Moves({"setAside"}, {"land"}, Owe("retire", OwnAside))
    \/ job.kind = "folder" /\ Moves({"setAside"}, {"makeDir"}, <<>>)
    \/ job.kind = "folder" /\ Moves({"setAside"}, {"makeDir"}, Owe("retire", OwnAside))
    \/ Moves({"setAside"}, AfterAsides, Owe("retire", OwnAside))
    \/ Moves({"setAside"}, {"idle"}, <<>>)
    \/ Moves({"land"}, {"removeAside", "idle", "clear", "discard", "dropTemp", "putBack", "bringBack"}, <<>>)
    \/ Moves({"land"}, {"removeAside", "idle"}, Owe("retire", OwnTemp))
    \/ Moves({"clear"}, {"putBack"}, <<>>)
    \/ Moves({"clear"}, {"idle"}, Owe("keep", OwnAside))
    \/ Moves({"bringBack"}, {"rescue"}, <<>>)
    \/ Moves({"putBack", "bringBack", "rescue", "recover", "removeAside"}, AfterAsides, Owe("retire", OwnAside))
    \/ Moves({"putBack", "bringBack", "rescue", "recover", "removeAside"}, AfterAsides, Owe("keep", OwnAside))
    \/ Moves({"discard"}, {"askTable"}, <<>>)
    \/ Moves({"discard", "askTable", "dropTemp", "unplaced"}, {"idle"}, Owe("retire", OwnTemp))
    \/ Moves({"discard", "askTable"}, {"idle"}, Owe("keep", OwnTemp))
    \/ Moves({"dropTemp", "unplaced"}, {"idle"}, <<>>)
    \/ Moves({"makeDir"}, {"build"}, <<>>)
    \/ Moves({"makeDir", "build", "built", "unbuild"}, {"putBack", "bringBack", "idle"}, <<>>)
    \/ Moves({"build"}, {"built"}, <<>>)
    \/ Moves({"built"}, {"removeAside"}, <<>>)
    \/ Moves({"build", "built"}, {"recover", "unbuild"}, <<>>)
    \/ Moves({"place"}, {"idle", "clearName"}, Owe("retire", OwnTemp))
    \/ Moves({"place"}, {"unplaced"}, <<>>)
    \/ Moves({"clearName"}, {"placeAgain", "look"}, <<>>)
    \/ Moves({"look"}, {"placeAgain", "toss", "idle"}, <<>>)
    \/ Moves({"placeAgain"}, {"rescueTemp", "idle"}, <<>>)
    \/ Moves({"rescueTemp", "toss", "sweepOwn"}, {"idle"}, <<>>)
    \/ job.kind = "staged" /\ Moves(StagedAts \ {"sweepOwn"}, {"sweepOwn"}, <<>>)

LEMMA AfterAsideIs ==
    /\ AfterAside \in AfterAsides
    /\ job.kind = "staged" => AfterAside = "idle"
BY DEF AfterAside, AfterAsides

\* What Goto and the call owed make of a move.
LEMMA GotoMoves ==
    ASSUME TypeInv, NEW at \in JobAts, NEW owes \in Owings, Goto(at, owes),
           NEW from, job.at \in from, NEW to, at \in to
    PROVE  /\ Moves(from, to, owes) /\ job'.n = job.n
           /\ job' \in [n : Jobs \cup {0}, kind : Kinds, at : JobAts, over : BOOLEAN, owes : Owings]
BY GotoIs DEF Moves, TypeInv

LEMMA StepMoves ==
    ASSUME TypeInv, WriteSteps, job.owes = <<>>
    PROVE  /\ WriteMove /\ job.at # "idle" /\ job'.n = job.n
           /\ job' \in [n : Jobs \cup {0}, kind : Kinds, at : JobAts, over : BOOLEAN, owes : Owings]
<1> USE OwingsAre
<1> DEFINE Typed == job' \in [n : Jobs \cup {0}, kind : Kinds, at : JobAts, over : BOOLEAN, owes : Owings]
<1>0. JobInv /\ ~JobSettles
  BY DEF TypeInv, JobSettles
<1>g. ASSUME NEW at \in JobAts, NEW owes \in Owings, Goto(at, owes), NEW from, job.at \in from, NEW to, at \in to
      PROVE  Moves(from, to, owes) /\ job'.n = job.n /\ Typed
  BY <1>g, GotoMoves
<1>r. ASSUME job.n \in Jobs
      PROVE  /\ OwnTemp \in Records /\ OwnAside \in Records
             /\ \A w \in RecordCalls : Owe(w, OwnTemp) \in Owings /\ Owe(w, OwnAside) \in Owings
  BY <1>0, <1>r, OwnRecords
<1>n. job.at # "idle" => job.n \in Jobs
  BY <1>0 DEF JobInv
<1> USE DEF JobAt
<1>1. CASE CreateTemp
  <2>1. Goto("fill", <<>>) /\ job.at = "fill"
    BY <1>1 DEF CreateTemp, Succeeds
  <2>2. "fill" \in JobAts /\ <<>> \in Owings
    BY DEF JobAts
  <2>3. Moves({"fill"}, {"fill"}, <<>>) /\ job'.n = job.n /\ Typed
    BY <2>1, <2>2, <1>g
  <2> QED BY <2>1, <2>3 DEF WriteMove
<1>2. CASE FillTemp
  <2>1. job.at = "fill"
    BY <1>2 DEF FillTemp
  <2>2. CASE job.kind = "staged"
    <3>1. Goto("place", <<>>) /\ job.n \in whole'
      BY <1>2, <2>2 DEF FillTemp, Succeeds
    <3> QED BY <2>1, <2>2, <3>1, <1>g DEF JobAts, WriteMove
  <2>3. CASE job.kind # "staged" /\ job.over
    <3>1. Goto("setAside", Owe("track", OwnAside))
      BY <1>2, <2>3 DEF FillTemp, Succeeds
    <3> QED BY <2>1, <2>3, <3>1, <1>g, <1>r, <1>n DEF JobAts, WriteMove
  <2>4. CASE job.kind # "staged" /\ ~job.over
    <3>1. Goto("land", <<>>)
      BY <1>2, <2>4 DEF FillTemp, Succeeds
    <3> QED BY <2>1, <2>4, <3>1, <1>g DEF JobAts, WriteMove
  <2> QED BY <2>2, <2>3, <2>4
<1>3. CASE FillFails
  <2>1. job.at = "fill"
    BY <1>3 DEF FillFails
  <2>2. CASE job.kind = "file"
    <3>1. Goto("discard", <<>>)
      BY <1>3, <2>2 DEF FillFails
    <3> QED BY <2>1, <2>2, <3>1, <1>g DEF JobAts, WriteMove
  <2>3. CASE job.kind # "file"
    <3>1. Goto("toss", Owe("retire", OwnTemp))
      BY <1>3, <2>3 DEF FillFails
    <3> QED BY <2>1, <2>3, <3>1, <1>g, <1>r, <1>n DEF JobAts, WriteMove
  <2> QED BY <2>2, <2>3
<1>4. CASE SetAside
  <2> DEFINE next == IF job.kind = "folder" THEN "makeDir" ELSE "land"
             undone == CASE job.kind = "file" -> "discard" [] job.kind = "generated" -> "dropTemp" [] OTHER -> "idle"
  <2>1. job.at = "setAside" /\ undone \in AfterAsides /\ OwnAside \in Records
    BY <1>4, <1>r, <1>n DEF SetAside, AfterAsides
  <2>2. \/ Goto(next, <<>>)
        \/ job' = [job EXCEPT !.at = next, !.over = FALSE, !.owes = Owe("retire", OwnAside)]
        \/ Goto(undone, Owe("retire", OwnAside))
    BY <1>4 DEF SetAside, Succeeds, Fails
  <2> HIDE DEF undone
  <2>3. CASE Goto(undone, Owe("retire", OwnAside))
    <3>1. undone \in JobAts /\ Owe("retire", OwnAside) \in Owings
      BY <2>1, <1>r, <1>n DEF JobAts, AfterAsides
    <3>2. Moves({"setAside"}, AfterAsides, Owe("retire", OwnAside)) /\ job'.n = job.n /\ Typed
      BY <2>1, <2>3, <3>1, <1>g
    <3> QED BY <2>1, <3>2 DEF WriteMove
  <2>4. CASE Goto(next, <<>>)
    <3>1. CASE job.kind = "folder"
      BY <2>1, <2>4, <3>1, <1>g DEF JobAts, WriteMove
    <3>2. CASE job.kind # "folder"
      BY <2>1, <2>4, <3>2, <1>g DEF JobAts, WriteMove
    <3> QED BY <3>1, <3>2
  <2>5. CASE job' = [job EXCEPT !.at = next, !.over = FALSE, !.owes = Owe("retire", OwnAside)]
    <3>1. PICK o : o = Owe("retire", OwnAside)
      OBVIOUS
    <3>2. o \in Owings
      BY <2>1, <3>1
    <3>3. PICK x : x = [job EXCEPT !.at = next, !.over = FALSE, !.owes = o]
      OBVIOUS
    <3>4. x.n = job.n /\ x.kind = job.kind /\ x.at = next /\ x.owes = o
      BY <1>0, <3>3 DEF JobInv
    <3>5. x \in [n : Jobs \cup {0}, kind : Kinds, at : JobAts, over : BOOLEAN, owes : Owings]
      <4>1. PICK y \in JobAts : y = next
        BY DEF JobAts
      <4>2. x = [job EXCEPT !.at = y, !.over = FALSE, !.owes = o]
        BY <3>3, <4>1
      <4>3. job \in [n : Jobs \cup {0}, kind : Kinds, at : JobAts, over : BOOLEAN, owes : Owings]
        BY <1>0 DEF JobInv
      <4> QED BY <3>2, <4>2, <4>3
    <3>6. job' = x
      BY <2>5, <3>1, <3>3
    <3>7. job'.n = job.n /\ Typed /\ job'.owes = Owe("retire", OwnAside) /\ job'.at = next /\ job'.kind = job.kind
      BY <3>1, <3>4, <3>5, <3>6
    <3>8. CASE job.kind = "folder"
      <4>1. Moves({"setAside"}, {"makeDir"}, Owe("retire", OwnAside))
        BY <2>1, <3>7, <3>8 DEF Moves
      <4> QED BY <2>1, <3>7, <3>8, <4>1 DEF WriteMove
    <3>9. CASE job.kind # "folder"
      <4>1. Moves({"setAside"}, {"land"}, Owe("retire", OwnAside))
        BY <2>1, <3>7, <3>9 DEF Moves
      <4> QED BY <2>1, <3>7, <3>9, <4>1 DEF WriteMove
    <3> QED BY <3>8, <3>9
  <2> QED BY <2>2, <2>3, <2>4, <2>5
<1>5. CASE Land
  <2> DEFINE undone == CASE job.kind = "swap" -> "clear"
                         [] ~job.over -> IF job.kind = "file" THEN "discard" ELSE "dropTemp"
                         [] job.kind = "file" -> "putBack"
                         [] OTHER -> "bringBack"
             next == IF job.over THEN "removeAside" ELSE "idle"
  <2>1. job.at = "land" /\ undone \in {"clear", "discard", "dropTemp", "putBack", "bringBack"}
    BY <1>5 DEF Land
  <2>2. \/ Goto(next, IF job.kind = "swap" THEN <<>> ELSE Owe("retire", OwnTemp))
        \/ Goto(undone, <<>>)
    BY <1>5 DEF Land, Succeeds, Fails
  <2> HIDE DEF undone
  <2>3. CASE Goto(undone, <<>>)
    <3>1. undone \in JobAts /\ <<>> \in Owings
      BY <2>1 DEF JobAts
    <3>2. /\ Moves({"land"}, {"removeAside", "idle", "clear", "discard", "dropTemp", "putBack", "bringBack"}, <<>>)
          /\ job'.n = job.n /\ Typed
      BY <2>1, <2>3, <3>1, <1>g
    <3> QED BY <2>1, <3>2 DEF WriteMove
  <2>4. CASE Goto(next, IF job.kind = "swap" THEN <<>> ELSE Owe("retire", OwnTemp))
    <3>1. next \in {"removeAside", "idle"} /\ next \in JobAts
      BY DEF JobAts
    <3> HIDE DEF next
    <3>2. CASE job.kind = "swap"
      <4>1. Goto(next, <<>>)
        BY <2>4, <3>2
      <4>2. /\ Moves({"land"}, {"removeAside", "idle", "clear", "discard", "dropTemp", "putBack", "bringBack"}, <<>>)
            /\ job'.n = job.n /\ Typed
        BY <2>1, <3>1, <4>1, <1>g
      <4> QED BY <2>1, <4>2 DEF WriteMove
    <3>3. CASE job.kind # "swap"
      <4>1. Goto(next, Owe("retire", OwnTemp)) /\ Owe("retire", OwnTemp) \in Owings
        BY <2>1, <2>4, <3>3, <1>r, <1>n
      <4>2. Moves({"land"}, {"removeAside", "idle"}, Owe("retire", OwnTemp)) /\ job'.n = job.n /\ Typed
        BY <2>1, <3>1, <4>1, <1>g
      <4> QED BY <2>1, <4>2 DEF WriteMove
    <3> QED BY <3>2, <3>3
  <2> QED BY <2>2, <2>3, <2>4
<1>6. CASE ClearFailed
  <2>1. job.at = "clear" /\ (Goto("putBack", <<>>) \/ Goto("idle", Owe("keep", OwnAside)))
    BY <1>6 DEF ClearFailed, Succeeds, Fails
  <2>2. CASE Goto("putBack", <<>>)
    <3>1. Moves({"clear"}, {"putBack"}, <<>>) /\ job'.n = job.n /\ Typed
      BY <2>1, <2>2, <1>g DEF JobAts
    <3> QED BY <2>1, <3>1 DEF WriteMove
  <2>3. CASE Goto("idle", Owe("keep", OwnAside))
    <3>1. "idle" \in JobAts /\ Owe("keep", OwnAside) \in Owings
      BY <2>1, <1>r, <1>n DEF JobAts
    <3>2. Moves({"clear"}, {"idle"}, Owe("keep", OwnAside)) /\ job'.n = job.n /\ Typed
      BY <2>1, <2>3, <3>1, <1>g
    <3> QED BY <2>1, <3>2 DEF WriteMove
  <2> QED BY <2>1, <2>2, <2>3
<1>7. CASE PutBack \/ BringBack \/ Rescue \/ KeepAsRecovered \/ RemoveAside
  <2> DEFINE from == {"putBack", "bringBack", "rescue", "recover", "removeAside"}
  <2>1. job.at \in from
    BY <1>7 DEF PutBack, BringBack, Rescue, KeepAsRecovered, RemoveAside, AsideEnds
  <2>2. AfterAside \in AfterAsides /\ "idle" \in AfterAsides
    BY AfterAsideIs DEF AfterAsides
  <2>3. PICK a \in AfterAsides :
           \/ Goto(a, Owe("retire", OwnAside))
           \/ Goto(a, Owe("keep", OwnAside))
           \/ job.at = "bringBack" /\ Goto("rescue", <<>>)
    <3>1. CASE BringBack
      BY <3>1, <2>2 DEF BringBack, AsideEnds, Succeeds, Fails
    <3>2. CASE PutBack \/ Rescue
      <4>1. AfterAside # "rescue"
        BY <2>2 DEF AfterAsides
      <4> QED BY <3>2, <4>1, <2>2 DEF PutBack, Rescue, AsideEnds, Succeeds, Fails
    <3>3. CASE KeepAsRecovered \/ RemoveAside
      BY <3>3, <2>2 DEF KeepAsRecovered, RemoveAside, AsideEnds, Succeeds, Fails
    <3> QED BY <1>7, <3>1, <3>2, <3>3
  <2>4. a \in JobAts /\ "rescue" \in JobAts
    BY DEF AfterAsides, JobAts
  <2>5. CASE Goto(a, Owe("retire", OwnAside))
    <3>1. Owe("retire", OwnAside) \in Owings
      BY <2>1, <1>r, <1>n
    <3>2. Moves(from, AfterAsides, Owe("retire", OwnAside)) /\ job'.n = job.n /\ Typed
      BY <2>1, <2>4, <2>5, <3>1, <1>g
    <3> QED BY <2>1, <3>2 DEF WriteMove
  <2>6. CASE Goto(a, Owe("keep", OwnAside))
    <3>1. Owe("keep", OwnAside) \in Owings
      BY <2>1, <1>r, <1>n
    <3>2. Moves(from, AfterAsides, Owe("keep", OwnAside)) /\ job'.n = job.n /\ Typed
      BY <2>1, <2>4, <2>6, <3>1, <1>g
    <3> QED BY <2>1, <3>2 DEF WriteMove
  <2>7. CASE job.at = "bringBack" /\ Goto("rescue", <<>>)
    <3>1. Moves({"bringBack"}, {"rescue"}, <<>>) /\ job'.n = job.n /\ Typed
      BY <2>4, <2>7, <1>g
    <3> QED BY <2>1, <3>1 DEF WriteMove
  <2> QED BY <2>3, <2>5, <2>6, <2>7
<1>8. CASE Discard \/ AskTable
  <2>1. /\ job.at \in {"discard", "askTable"} /\ job.n \in Jobs
        /\ \/ Goto("idle", Owe("retire", OwnTemp))
           \/ Goto("idle", Owe("keep", OwnTemp))
           \/ job.at = "discard" /\ Goto("askTable", <<>>)
    BY <1>8, <1>n DEF Discard, AskTable, Succeeds, Fails
  <2>2. CASE Goto("idle", Owe("retire", OwnTemp))
    <3>1. Moves({"discard", "askTable", "dropTemp", "unplaced"}, {"idle"}, Owe("retire", OwnTemp)) /\ job'.n = job.n /\ Typed
      BY <2>1, <2>2, <1>g, <1>r DEF JobAts
    <3> QED BY <2>1, <3>1 DEF WriteMove
  <2>3. CASE Goto("idle", Owe("keep", OwnTemp))
    <3>1. Moves({"discard", "askTable"}, {"idle"}, Owe("keep", OwnTemp)) /\ job'.n = job.n /\ Typed
      BY <2>1, <2>3, <1>g, <1>r DEF JobAts
    <3> QED BY <2>1, <3>1 DEF WriteMove
  <2>4. CASE job.at = "discard" /\ Goto("askTable", <<>>)
    <3>1. Moves({"discard"}, {"askTable"}, <<>>) /\ job'.n = job.n /\ Typed
      BY <2>4, <1>g DEF JobAts
    <3> QED BY <2>4, <3>1 DEF WriteMove
  <2> QED BY <2>1, <2>2, <2>3, <2>4
<1>9. CASE DropTemp \/ DiscardUnplaced
  <2>1. /\ job.at \in {"dropTemp", "unplaced"} /\ job.n \in Jobs
        /\ Goto("idle", Owe("retire", OwnTemp)) \/ Goto("idle", <<>>)
    BY <1>9, <1>n DEF DropTemp, DiscardUnplaced, Succeeds, Fails
  <2>2. CASE Goto("idle", Owe("retire", OwnTemp))
    <3>1. "idle" \in JobAts /\ Owe("retire", OwnTemp) \in Owings
      BY <2>1, <1>r DEF JobAts
    <3>2. Moves({"discard", "askTable", "dropTemp", "unplaced"}, {"idle"}, Owe("retire", OwnTemp)) /\ job'.n = job.n /\ Typed
      BY <2>1, <2>2, <3>1, <1>g
    <3> QED BY <2>1, <3>2 DEF WriteMove
  <2>3. CASE Goto("idle", <<>>)
    <3>1. Moves({"dropTemp", "unplaced"}, {"idle"}, <<>>) /\ job'.n = job.n /\ Typed
      BY <2>1, <2>3, <1>g DEF JobAts
    <3> QED BY <2>1, <3>1 DEF WriteMove
  <2> QED BY <2>1, <2>2, <2>3
<1>10. CASE DropAside
  <2>1. Moves({"setAside"}, {"idle"}, <<>>) /\ job'.n = job.n /\ Typed
    BY <1>10, <1>g DEF DropAside, JobAts
  <2> QED BY <2>1, <1>10 DEF DropAside, WriteMove
<1>11. CASE MakeDirectory \/ OperationEnds \/ RemoveFolder
  <2>1. /\ PutItBack \in {"putBack", "bringBack", "idle"}
        /\ LetItGo = "removeAside" \/ LetItGo = "idle"
    BY DEF PutItBack, LetItGo
  <2>2. PICK a \in {"putBack", "bringBack", "idle"} :
           \/ job.at = "makeDir" /\ Goto("build", <<>>)
           \/ job.at \in {"makeDir", "build", "built", "unbuild"} /\ Goto(a, <<>>)
           \/ job.at = "built" /\ Goto("removeAside", <<>>)
           \/ job.at \in {"build", "built"} /\ Goto("recover", <<>>)
           \/ job.at \in {"build", "built"} /\ Goto("unbuild", <<>>)
    <3>1. CASE MakeDirectory
      BY <2>1, <3>1 DEF MakeDirectory, Succeeds, Fails
    <3>2. CASE OperationEnds
      BY <2>1, <3>2 DEF OperationEnds
    <3>3. CASE RemoveFolder
      BY <2>1, <3>3 DEF RemoveFolder, Succeeds, Fails
    <3> QED BY <1>11, <3>1, <3>2, <3>3
  <2>3. CASE job.at = "makeDir" /\ Goto("build", <<>>)
    <3>1. Moves({"makeDir"}, {"build"}, <<>>) /\ job'.n = job.n /\ Typed
      BY <2>3, <1>g DEF JobAts
    <3> QED BY <2>3, <3>1 DEF WriteMove
  <2>4. CASE job.at \in {"makeDir", "build", "built", "unbuild"} /\ Goto(a, <<>>)
    <3>1. a \in JobAts
      BY DEF JobAts
    <3>2. Moves({"makeDir", "build", "built", "unbuild"}, {"putBack", "bringBack", "idle"}, <<>>) /\ job'.n = job.n /\ Typed
      BY <2>4, <3>1, <1>g
    <3> QED BY <2>4, <3>2 DEF WriteMove
  <2>5. CASE job.at = "built" /\ Goto("removeAside", <<>>)
    <3>1. Moves({"built"}, {"removeAside"}, <<>>) /\ job'.n = job.n /\ Typed
      BY <2>5, <1>g DEF JobAts
    <3> QED BY <2>5, <3>1 DEF WriteMove
  <2>6. CASE job.at \in {"build", "built"} /\ (Goto("recover", <<>>) \/ Goto("unbuild", <<>>))
    <3>1. Moves({"build", "built"}, {"recover", "unbuild"}, <<>>) /\ job'.n = job.n /\ Typed
      BY <2>6, <1>g DEF JobAts
    <3> QED BY <2>6, <3>1 DEF WriteMove
  <2> QED BY <2>2, <2>3, <2>4, <2>5, <2>6
<1>12. CASE FillFolder
  <2>1. Moves({"build"}, {"built"}, <<>>) /\ job'.n = job.n /\ Typed
    BY <1>12, <1>g DEF FillFolder, Succeeds, JobAts
  <2> QED BY <2>1, <1>12 DEF FillFolder, WriteMove
<1>13. CASE Place \/ ReleasesForClaimed
  <2>1. /\ job.at = "place" /\ job.n \in Jobs
        /\ \/ Goto("idle", Owe("retire", OwnTemp)) \/ Goto("clearName", Owe("retire", OwnTemp))
           \/ Goto("unplaced", <<>>)
    BY <1>13, <1>n DEF Place, ReleasesForClaimed, Lands, Succeeds, Fails
  <2>2. CASE Goto("idle", Owe("retire", OwnTemp)) \/ Goto("clearName", Owe("retire", OwnTemp))
    <3>1. Moves({"place"}, {"idle", "clearName"}, Owe("retire", OwnTemp)) /\ job'.n = job.n /\ Typed
      BY <2>1, <2>2, <1>g, <1>r DEF JobAts
    <3> QED BY <2>1, <3>1 DEF WriteMove
  <2>3. CASE Goto("unplaced", <<>>)
    <3>1. Moves({"place"}, {"unplaced"}, <<>>) /\ job'.n = job.n /\ Typed
      BY <2>1, <2>3, <1>g DEF JobAts
    <3> QED BY <2>1, <3>1 DEF WriteMove
  <2> QED BY <2>1, <2>2, <2>3
<1>14. CASE ClearName
  <2>1. job.at = "clearName" /\ (Goto("placeAgain", <<>>) \/ Goto("look", <<>>))
    BY <1>14 DEF ClearName, Succeeds, Fails
  <2>2. Moves({"clearName"}, {"placeAgain", "look"}, <<>>) /\ job'.n = job.n /\ Typed
    BY <2>1, <1>g DEF JobAts
  <2> QED BY <2>1, <2>2 DEF WriteMove
<1>15. CASE LookAgain
  <2>1. job.at = "look" /\ (Goto("placeAgain", <<>>) \/ Goto("toss", <<>>) \/ Goto("idle", <<>>))
    BY <1>15 DEF LookAgain, Succeeds, Fails
  <2>2. Moves({"look"}, {"placeAgain", "toss", "idle"}, <<>>) /\ job'.n = job.n /\ Typed
    BY <2>1, <1>g DEF JobAts
  <2> QED BY <2>1, <2>2 DEF WriteMove
<1>16. CASE PlaceAgain
  <2>1. job.at = "placeAgain" /\ (Goto("idle", <<>>) \/ Goto("rescueTemp", <<>>))
    BY <1>16 DEF PlaceAgain, Lands, Succeeds, Fails
  <2>2. Moves({"placeAgain"}, {"rescueTemp", "idle"}, <<>>) /\ job'.n = job.n /\ Typed
    BY <2>1, <1>g DEF JobAts
  <2> QED BY <2>1, <2>2 DEF WriteMove
<1>17. CASE RescueTemp \/ Toss \/ SweepOwn
  <2>1. job.at \in {"rescueTemp", "toss", "sweepOwn"} /\ Goto("idle", <<>>)
    BY <1>17 DEF RescueTemp, Toss, SweepOwn, Succeeds, Fails
  <2>2. Moves({"rescueTemp", "toss", "sweepOwn"}, {"idle"}, <<>>) /\ job'.n = job.n /\ Typed
    BY <2>1, <1>g DEF JobAts
  <2> QED BY <2>1, <2>2 DEF WriteMove
<1>18. CASE DropTask
  <2>1. job.kind = "staged" /\ job.at \in StagedAts \ {"sweepOwn"} /\ Goto("sweepOwn", <<>>)
    BY <1>18, <1>0 DEF DropTask, JobInv
  <2>2. Moves(StagedAts \ {"sweepOwn"}, {"sweepOwn"}, <<>>) /\ job'.n = job.n /\ Typed
    BY <2>1, <1>g DEF JobAts
  <2> QED BY <2>1, <2>2 DEF WriteMove, StagedAts
<1> QED BY <1>0, <1>1, <1>2, <1>3, <1>4, <1>5, <1>6, <1>7, <1>8, <1>9, <1>10, <1>11, <1>12, <1>13,
           <1>14, <1>15, <1>16, <1>17, <1>18 DEF WriteSteps

(***************************************************************************)
(* What the same steps do to the disk, and what history keeps of it.       *)
(***************************************************************************)
Still == UNCHANGED <<owned, displaced, clobbered, cleared>>
TempDrops == {"discard", "dropTemp", "unplaced", "toss", "sweepOwn"}
WriteDisk ==
    \/ UNCHANGED place /\ Still
    \/ /\ job.at = "build" /\ place[job.n] = Name /\ UNCHANGED place
       /\ owned' = owned \cup {job.n} /\ UNCHANGED <<displaced, clobbered, cleared>>
    \/ job.at = "fill" /\ place[job.n] = Nowhere /\ place' = [place EXCEPT ![job.n] = Temp(job.n)] /\ Still
    \/ /\ job.at = "setAside" /\ place' = Renamed(Name, Aside(job.n))
       /\ displaced' = displaced \cup {<<job.n, c>> : c \in At(Name)} /\ UNCHANGED <<owned, clobbered, cleared>>
    \/ /\ job.at = "land" /\ place' = [Removed(Name) EXCEPT ![job.n] = Name] /\ whole' = whole \cup {job.n}
       /\ owned' = owned \cup {job.n} /\ clobbered' = clobbered \cup At(Name) /\ UNCHANGED <<displaced, cleared>>
    \/ /\ job.at = "clear" /\ place' = Removed(Name)
       /\ clobbered' = clobbered \cup At(Name) /\ UNCHANGED <<owned, displaced, cleared>>
    \/ /\ job.at = "clearName" /\ place' = Removed(Name) /\ cleared' = cleared \cup {job.n}
       /\ clobbered' = clobbered \cup (At(Name) \ {Placeholder}) /\ UNCHANGED <<owned, displaced>>
    \/ job.at \in {"putBack", "bringBack"} /\ Free(Name) /\ place' = Renamed(Aside(job.n), Name) /\ Still
    \/ job.at \in {"rescue", "recover"} /\ place' = Renamed(Aside(job.n), Recovered) /\ Still
    \/ job.at = "removeAside" /\ place' = Removed(Aside(job.n)) /\ Still
    \/ /\ job.at \in TempDrops /\ place' = Removed(Temp(job.n)) /\ Still
       /\ job.at = "sweepOwn" => OwnTemp \in recorded
    \/ job.at = "makeDir" /\ Free(Name) /\ place' = [place EXCEPT ![job.n] = Name] /\ Still
    \/ /\ job.at = "unbuild" /\ place' = [place EXCEPT ![job.n] = Nowhere]
       /\ owned' = owned \ {job.n} /\ UNCHANGED <<displaced, clobbered, cleared>>
    \/ /\ job.at \in {"place", "placeAgain"} /\ Free(Name) /\ place' = Renamed(Temp(job.n), Name) /\ place' # place
       /\ owned' = owned \cup {job.n} /\ UNCHANGED <<displaced, clobbered, cleared>>
    \/ job.at = "rescueTemp" /\ place' = Renamed(Temp(job.n), Recovered) /\ Still

LEMMA StepDisk ==
    ASSUME WriteSteps, job.owes = <<>>
    PROVE  /\ WriteDisk
           /\ whole' = whole \/ whole' = whole \cup {job.n}
           /\ refusals' = refusals \/ (refusals < MaxRefusals /\ refusals' = refusals + 1)
           /\ mislaid' = mislaid \/ mislaid' = mislaid \cup {OwnAside}
           /\ UNCHANGED <<folders, home, driveVars, app, storeVars, sweep, faultVars, forgotten, unheard>>
<1>0. ~JobSettles
  BY DEF JobSettles
<1> USE DEF OnDisk, SameBytes, SameHistory, Still, JobAt, Performed, CanMove, Refuses
<1>1. CASE CreateTemp
  BY <1>1 DEF CreateTemp, Succeeds, WriteDisk
<1>2. CASE FillTemp \/ FillFails
  BY <1>2 DEF FillTemp, FillFails, Succeeds, WriteDisk
<1>3. CASE SetAside
  BY <1>3 DEF SetAside, Succeeds, Fails, WriteDisk
<1>4. CASE Land
  BY <1>4 DEF Land, Succeeds, Fails, WriteDisk
<1>5. CASE ClearFailed
  BY <1>5 DEF ClearFailed, Succeeds, Fails, WriteDisk
<1>6. CASE PutBack \/ BringBack
  BY <1>6, PlacesDiffer DEF PutBack, BringBack, AsideEnds, OwnPlace, Succeeds, Fails, WriteDisk
<1>7. CASE Rescue \/ KeepAsRecovered
  BY <1>7 DEF Rescue, KeepAsRecovered, AsideEnds, OwnPlace, Succeeds, Fails, WriteDisk
<1>8. CASE RemoveAside
  BY <1>8 DEF RemoveAside, AsideEnds, OwnPlace, Succeeds, Fails, WriteDisk
<1>9. CASE Discard \/ AskTable \/ DropTemp \/ DiscardUnplaced \/ Toss \/ SweepOwn
  BY <1>9 DEF Discard, AskTable, DropTemp, DiscardUnplaced, Toss, SweepOwn, TempDrops, Succeeds, Fails, WriteDisk
<1>10. CASE DropAside
  BY <1>10 DEF DropAside, WriteDisk
<1>11. CASE MakeDirectory
  BY <1>11 DEF MakeDirectory, Succeeds, Fails, WriteDisk
<1>12. CASE FillFolder
  BY <1>12 DEF FillFolder, Succeeds, WriteDisk
<1>13. CASE OperationEnds
  BY <1>13 DEF OperationEnds, WriteDisk
<1>14. CASE RemoveFolder
  BY <1>14 DEF RemoveFolder, Succeeds, Fails, WriteDisk
<1>15. CASE Place \/ PlaceAgain
  BY <1>15, PlacesDiffer DEF Place, PlaceAgain, Lands, Succeeds, Fails, WriteDisk
<1>16. CASE ReleasesForClaimed \/ DropTask
  BY <1>16 DEF ReleasesForClaimed, DropTask, WriteDisk
<1>17. CASE ClearName
  BY <1>17 DEF ClearName, Succeeds, Fails, WriteDisk
<1>18. CASE LookAgain
  BY <1>18 DEF LookAgain, Succeeds, Fails, WriteDisk
<1>19. CASE RescueTemp
  BY <1>19 DEF RescueTemp, Succeeds, Fails, WriteDisk
<1> QED BY <1>0, <1>1, <1>2, <1>3, <1>4, <1>5, <1>6, <1>7, <1>8, <1>9, <1>10, <1>11, <1>12, <1>13,
           <1>14, <1>15, <1>16, <1>17, <1>18, <1>19 DEF WriteSteps

\* How a write begins.
LEMMA BeginIs ==
    ASSUME TypeInv, WriteBegins
    PROVE  /\ app = "up" /\ job.at = "idle" /\ job.owes = <<>> /\ job.n + 1 \in Jobs
           /\ job' \in [n : Jobs \cup {0}, kind : Kinds, at : JobAts, over : BOOLEAN, owes : Owings]
           /\ job'.n = job.n + 1
           /\ \/ job'.kind \in {"file", "staged", "generated"} /\ job'.at = "fill" /\ job'.owes = Owe("track", OwnTemp')
              \/ job'.kind \in {"swap", "folder"} /\ job'.at = "setAside" /\ job'.owes = Owe("track", OwnAside')
           /\ job'.kind = "file" => home # "space"
           /\ folders' = folders \/ folders' = folders \cup {job.n + 1}
           /\ job'.kind = "folder" => folders' = folders \cup {job.n + 1}
           /\ \/ UNCHANGED place
              \/ home = "space" /\ Free(Name) /\ place' = [place EXCEPT ![Placeholder] = Name]
           /\ UNCHANGED <<whole, home, driveVars, app, storeVars, sweep, boundVars, historyVars>>
           /\ UNCHANGED <<displaced, clobbered, mislaid, cleared>>
<1>1. PICK kind \in {"file", "swap", "folder", "staged", "generated"}, over \in BOOLEAN :
        /\ Begins(kind, over)
        /\ kind = "file" => home # "space"
        /\ folders' = folders \/ folders' = folders \cup {job.n + 1}
        /\ kind = "folder" => folders' = folders \cup {job.n + 1}
        /\ UNCHANGED place \/ (home = "space" /\ Free(Name) /\ place' = [place EXCEPT ![Placeholder] = Name])
  <2>1. CASE BeginFile
    BY <2>1 DEF BeginFile
  <2>2. CASE BeginSwap
    BY <2>2 DEF BeginSwap
  <2>3. CASE BeginFolder
    BY <2>3 DEF BeginFolder
  <2>4. CASE BeginStaged
    BY <2>4 DEF BeginStaged
  <2>5. CASE BeginGenerated
    BY <2>5 DEF BeginGenerated
  <2> QED BY <2>1, <2>2, <2>3, <2>4, <2>5 DEF WriteBegins
<1> DEFINE n == job.n + 1
           aside == kind \in {"swap", "folder"}
           r == IF aside THEN AsideOf(kind, n) ELSE TempOf(n)
<1>2. /\ app = "up" /\ job.at = "idle" /\ job.owes = <<>> /\ n \in Jobs
      /\ job' = [n |-> n, kind |-> kind, over |-> over, at |-> IF aside THEN "setAside" ELSE "fill", owes |-> Owe("track", r)]
      /\ UNCHANGED <<whole, home, driveVars, app, storeVars, sweep, boundVars, historyVars>>
      /\ UNCHANGED <<displaced, clobbered, mislaid, cleared>>
  BY <1>1 DEF Begins, OnDisk, SameHistory, boundVars, historyVars
<1>3. r \in Records
  BY <1>2 DEF TempOf, AsideOf, Records, AsideKinds
<1>4. Owe("track", r) \in Owings
  BY <1>3, OwingsAre
<1>5. PICK o : o = Owe("track", r)
  OBVIOUS
<1>6. job' = [n |-> n, kind |-> kind, over |-> over, at |-> IF aside THEN "setAside" ELSE "fill", owes |-> o]
  BY <1>2, <1>5
<1>7. /\ job'.n = n /\ job'.kind = kind /\ job'.over = over /\ job'.owes = o
      /\ job'.at = IF aside THEN "setAside" ELSE "fill"
  BY <1>6
<1>8. job' \in [n : Jobs \cup {0}, kind : Kinds, at : JobAts, over : BOOLEAN, owes : Owings]
  BY <1>2, <1>4, <1>5, <1>6 DEF Kinds, JobAts
<1>9. OwnTemp' = TempOf(n) /\ OwnAside' = AsideOf(kind, n)
  BY <1>2, <1>7 DEF OwnTemp, OwnAside, TempOf, AsideOf
<1>10. CASE aside
  <2>1. job'.kind \in {"swap", "folder"} /\ job'.at = "setAside" /\ job'.owes = Owe("track", OwnAside')
    BY <1>5, <1>7, <1>9, <1>10
  <2> QED BY <1>1, <1>2, <1>7, <1>8, <2>1
<1>11. CASE ~aside
  <2>1. job'.kind \in {"file", "staged", "generated"} /\ job'.at = "fill" /\ job'.owes = Owe("track", OwnTemp')
    BY <1>5, <1>7, <1>9, <1>11
  <2> QED BY <1>1, <1>2, <1>7, <1>8, <2>1
<1> QED BY <1>10, <1>11

\* How the ledger calls a write owes are made.
LEMMA SettleIs ==
    ASSUME TypeInv, JobSettles
    PROVE  \E w \in RecordCalls, r \in Records :
              /\ job.owes = Owe(w, r) /\ r \in Owed(w)
              /\ job'.n = job.n /\ job'.at = job.at /\ job'.kind = job.kind
              /\ job'.owes = IF w = "keep" THEN Owe("listen", r) ELSE <<>>
              /\ job' \in [n : Jobs \cup {0}, kind : Kinds, at : JobAts, over : BOOLEAN, owes : Owings]
              /\ \/ w = "track" /\ Track(r)
                 \/ w = "retire" /\ RetireRecord(r)
                 \/ w = "keep" /\ KeepForArrival(r)
                 \/ w = "listen" /\ UNCHANGED <<log, recorded, pending, rewrite>> /\ listening' \in {TRUE, listening}
              /\ UNCHANGED <<diskVars, driveVars, app, sweep, boundVars, historyVars>>
              /\ UNCHANGED <<displaced, clobbered, mislaid, cleared>>
<1>1. PICK w \in RecordCalls, r \in Records : job.owes = Owe(w, r)
  BY DEF JobSettles, TypeInv, JobInv, Owings
<1>2. job.owes[1][1] = w /\ job.owes[1][2] = r /\ Tail(job.owes) = IF w = "keep" THEN Owe("listen", r) ELSE <<>>
  BY <1>1, OwesTail
<1>3. PICK o : o = IF w = "keep" THEN Owe("listen", r) ELSE <<>>
  OBVIOUS
<1>4. o \in Owings
  BY <1>3, OwingsAre
<1>5. job' = [job EXCEPT !.owes = o]
  BY <1>2, <1>3 DEF JobSettles
<1>6. /\ job'.n = job.n /\ job'.at = job.at /\ job'.kind = job.kind /\ job'.owes = o
      /\ job' \in [n : Jobs \cup {0}, kind : Kinds, at : JobAts, over : BOOLEAN, owes : Owings]
  BY <1>4, <1>5 DEF TypeInv, JobInv
<1>7. r \in Owed(w)
  BY <1>1 DEF Owed
<1>8. /\ \/ w = "track" /\ Track(r)
         \/ w = "retire" /\ RetireRecord(r)
         \/ w = "keep" /\ KeepForArrival(r)
         \/ w = "listen" /\ UNCHANGED <<log, recorded, pending, rewrite>> /\ listening' \in {TRUE, listening}
      /\ UNCHANGED <<diskVars, driveVars, app, sweep, boundVars, historyVars>>
      /\ UNCHANGED <<displaced, clobbered, mislaid, cleared>>
  BY <1>2 DEF JobSettles, EnsureArrivalListener, storeVars
<1> QED BY <1>1, <1>3, <1>6, <1>7, <1>8

\* What is owed, in one word.
LEMMA OwedIs ==
    /\ job.owes = <<>> => \A w : Owed(w) = {}
    /\ \A v, q : q \in Records /\ job.owes = Owe(v, q) => \A w : Owed(w) = IF w = v THEN {q} ELSE {}
<1>1. ASSUME job.owes = <<>> PROVE \A w : Owed(w) = {}
  BY <1>1, OwesDiffer DEF Owed
<1>2. ASSUME NEW v, NEW q \in Records, job.owes = Owe(v, q), NEW w
      PROVE  Owed(w) = IF w = v THEN {q} ELSE {}
  <2>1. \A r : Owe(w, r) = Owe(v, q) <=> w = v /\ r = q
    BY OwesDiffer
  <2> QED BY <1>2, <2>1 DEF Owed
<1> QED BY <1>1, <1>2

\* A write either makes the ledger call it owes or, owing none, goes on.
LEMMA NextIs ==
    ASSUME [Next]_vars
    PROVE  \/ WriteBegins \/ JobSettles \/ (WriteSteps /\ job.owes = <<>>)
           \/ (LedgerSteps /\ UNCHANGED jobVars) \/ Dies \/ UNCHANGED vars
<1>1. WriteSteps => JobSettles \/ job.owes = <<>>
  BY DEF WriteSteps, JobAt, CreateTemp, FillTemp, FillFails, SetAside, Land, ClearFailed, PutBack, BringBack, Rescue,
     KeepAsRecovered, RemoveAside, AsideEnds, Discard, AskTable, DropTemp, DropAside, MakeDirectory, FillFolder,
     OperationEnds, RemoveFolder, Place, PlaceAgain, Lands, ReleasesForClaimed, ClearName, LookAgain, RescueTemp,
     DiscardUnplaced, Toss, DropTask, SweepOwn
<1> QED BY <1>1 DEF Next

(***************************************************************************)
(* A sweep's steps.                                                        *)
(***************************************************************************)
SweepAct(s, at) ==
    /\ sweep[s].at \in {"lookAside", "remove", "restore", "recover"} /\ Goes(s, at)
    /\ \/ /\ UNCHANGED place /\ at \in {"recover", "remove", "defer"}
          /\ at = "recover" => sweep[s].at \in {"lookAside", "restore"}
          /\ at = "remove" => sweep[s].at = "lookAside"
       \/ UNCHANGED place /\ at = "retire" /\ (Free(Path(sweep[s].now)) \/ sweep[s].now \in forgotten')
       \/ at = "retire" /\ sweep[s].at = "remove" /\ place' = Removed(Path(sweep[s].now))
       \/ at = "retire" /\ sweep[s].at = "restore" /\ Free(Name) /\ place' = Renamed(Path(sweep[s].now), Name)
       \/ at = "retire" /\ sweep[s].at = "recover" /\ place' = Renamed(Path(sweep[s].now), Recovered)
    /\ forgotten' = forgotten \/ forgotten' = forgotten \cup {sweep[s].now}
    /\ refusals' = refusals \/ (refusals < MaxRefusals /\ refusals' = refusals + 1)
    /\ UNCHANGED <<whole, folders, home, driveVars, app, storeVars, faultVars, owned, unheard>>

LEMMA ActsAre ==
    ASSUME NEW s \in Sweepers, SweepLooksAside(s) \/ SweepRemoves(s) \/ SweepRestores(s) \/ SweepRecovers(s)
    PROVE  \E at \in Acting : SweepAct(s, at)
<1> USE DEF Answers, Refuses, Defers, LooksGone, Acting, historyVars
<1>1. CASE SweepLooksAside(s)
  <2> DEFINE there == At(Path(sweep[s].now))
  <2>1. CASE Answers /\ Goes(s, IF there = {} THEN "retire" ELSE IF there \subseteq folders THEN "recover" ELSE "remove")
    <3>1. CASE there = {}
      BY <1>1, <2>1, <3>1 DEF SweepLooksAside, SweepAct, Free, diskVars
    <3>2. CASE there # {} /\ there \subseteq folders
      BY <1>1, <2>1, <3>2 DEF SweepLooksAside, SweepAct, diskVars
    <3>3. CASE there # {} /\ ~(there \subseteq folders)
      BY <1>1, <2>1, <3>3 DEF SweepLooksAside, SweepAct, diskVars
    <3> QED BY <3>1, <3>2, <3>3
  <2>2. CASE LooksGone(s)
    BY <1>1, <2>2 DEF SweepLooksAside, SweepAct, diskVars
  <2>3. CASE (~drive /\ Defers(s) /\ UNCHANGED refusals) \/ (drive /\ Refuses /\ Goes(s, "defer"))
    BY <1>1, <2>3 DEF SweepLooksAside, SweepAct, diskVars
  <2> QED BY <1>1, <2>1, <2>2, <2>3 DEF SweepLooksAside
<1>2. CASE SweepRemoves(s)
  BY <1>2 DEF SweepRemoves, SweepAct
<1>3. CASE SweepRestores(s)
  BY <1>3 DEF SweepRestores, SweepAct
<1>4. CASE SweepRecovers(s)
  BY <1>4 DEF SweepRecovers, SweepAct
<1> QED BY <1>1, <1>2, <1>3, <1>4

LEMMA GoesIs ==
    ASSUME SweepInv, NEW s \in Sweepers, NEW at \in SweepAts, Goes(s, at)
    PROVE  /\ sweep'[s].at = at /\ sweep'[s].todo = sweep[s].todo /\ sweep'[s].now = sweep[s].now
           /\ \A t \in Sweepers : t # s => sweep'[t] = sweep[t]
           /\ sweep' \in [Sweepers -> [at : SweepAts, todo : SUBSET Records, now : Records \cup {None}]]
<1>1. PICK x : x = [sweep[s] EXCEPT !.at = at]
  OBVIOUS
<1>2. sweep[s] \in [at : SweepAts, todo : SUBSET Records, now : Records \cup {None}]
  BY DEF SweepInv
<1>3. /\ x.at = at /\ x.todo = sweep[s].todo /\ x.now = sweep[s].now
      /\ x \in [at : SweepAts, todo : SUBSET Records, now : Records \cup {None}]
  BY <1>1, <1>2
<1>4. sweep' = [sweep EXCEPT ![s] = x]
  BY <1>1 DEF Goes
<1> QED BY <1>3, <1>4 DEF SweepInv

\* A sweep takes the next record, and decides what to do about it.
LEMMA LooksAre ==
    ASSUME SweepInv, NEW s \in Sweepers, SweepLooks(s)
    PROVE  \E r \in sweep[s].todo, at \in Acting \ {"retire"} :
              /\ sweep[s].at = "next"
              /\ sweep' = [sweep EXCEPT ![s] = [at |-> at, todo |-> sweep[s].todo \ {r}, now |-> r]]
              /\ at = "remove" => r.kind = "Temp"
              /\ at \in {"lookAside", "restore", "recover"} => r.kind # "Temp"
              /\ at = "lookAside" => /\ r.kind = "FileAside" /\ ~Free(Name)
                                     /\ \A c \in At(Name) : ExpectedSize(c, r.job)
              /\ refusals' = refusals \/ (refusals < MaxRefusals /\ refusals' = refusals + 1)
              /\ UNCHANGED <<diskVars, driveVars, app, storeVars, faultVars, historyVars>>
<1>1. PICK r \in NextOf(sweep[s].todo) :
        \/ sweep' = [sweep EXCEPT ![s] = [at |-> Ruling(r), todo |-> @.todo \ {r}, now |-> r]] /\ UNCHANGED refusals
        \/ Refuses /\ sweep' = [sweep EXCEPT ![s] = [at |-> "defer", todo |-> @.todo \ {r}, now |-> r]]
  BY DEF SweepLooks
<1>2. r \in sweep[s].todo
  BY DEF NextOf
<1>3. /\ Ruling(r) \in Acting \ {"retire"} /\ "defer" \in Acting \ {"retire"}
      /\ Ruling(r) = "remove" => r.kind = "Temp"
      /\ Ruling(r) \in {"lookAside", "restore", "recover"} => r.kind # "Temp"
      /\ Ruling(r) = "lookAside" => /\ r.kind = "FileAside" /\ ~Free(Name)
                                    /\ \A c \in At(Name) : ExpectedSize(c, r.job)
  BY DEF Ruling, Acting
<1>4. /\ sweep[s].at = "next"
      /\ UNCHANGED <<diskVars, driveVars, app, storeVars, faultVars, historyVars>>
  BY DEF SweepLooks
<1>5. CASE Refuses /\ sweep' = [sweep EXCEPT ![s] = [at |-> "defer", todo |-> @.todo \ {r}, now |-> r]]
  BY <1>2, <1>3, <1>4, <1>5 DEF Refuses
<1>6. CASE sweep' = [sweep EXCEPT ![s] = [at |-> Ruling(r), todo |-> @.todo \ {r}, now |-> r]] /\ UNCHANGED refusals
  BY <1>2, <1>3, <1>4, <1>6
<1> QED BY <1>1, <1>5, <1>6

(***************************************************************************)
(* Every name has at most one thing, and a temp only its own write.        *)
(***************************************************************************)
LEMMA RenamedKeeps ==
    ASSUME DiskInv, NEW from \in Places, NEW to \in Places, from # Nowhere, from # Recovered,
           to # Nowhere, \A n \in Jobs : to # Temp(n),
           place' = Renamed(from, to)
    PROVE  place' \in [Contents -> Places] /\ OneEach' /\ TempsAreOwn'
<1>1. \A c \in Contents : place[c] \in Places
  BY DEF DiskInv
<1>2. \A c \in Contents :
        place'[c] = IF place[c] = from THEN to ELSE IF place[c] = to /\ to # Recovered THEN Nowhere ELSE place[c]
  BY DEF Renamed
<1>3. place' \in [Contents -> Places]
  BY <1>1, PlacesAre DEF Renamed
<1>4. OneEach'
  BY <1>2 DEF DiskInv, OneEach
<1>5. TempsAreOwn'
  BY <1>2, PlacesDiffer DEF DiskInv, TempsAreOwn
<1> QED BY <1>3, <1>4, <1>5

LEMMA RemovedKeeps ==
    ASSUME DiskInv, NEW p, place' = Removed(p)
    PROVE  place' \in [Contents -> Places] /\ OneEach' /\ TempsAreOwn'
<1>1. \A c \in Contents : place[c] \in Places
  BY DEF DiskInv
<1>2. \A c \in Contents : place'[c] = IF place[c] = p THEN Nowhere ELSE place[c]
  BY DEF Removed
<1>3. place' \in [Contents -> Places]
  BY <1>1, PlacesAre DEF Removed
<1>4. OneEach'
  BY <1>2 DEF DiskInv, OneEach
<1>5. TempsAreOwn'
  BY <1>2, PlacesDiffer DEF DiskInv, TempsAreOwn
<1> QED BY <1>3, <1>4, <1>5

LEMMA PutKeeps ==
    ASSUME DiskInv, NEW c \in Contents, NEW p \in Places, p = Nowhere \/ Free(p),
           \A n \in Jobs : p = Temp(n) => c = n,
           place' = [place EXCEPT ![c] = p]
    PROVE  place' \in [Contents -> Places] /\ OneEach' /\ TempsAreOwn'
<1>1. place' \in [Contents -> Places] /\ \A d \in Contents : place'[d] = IF d = c THEN p ELSE place[d]
  BY DEF DiskInv
<1>2. p # Nowhere => \A d \in Contents : place[d] # p
  BY DEF Free, At
<1>3. OneEach'
  BY <1>1, <1>2 DEF DiskInv, OneEach
<1>4. TempsAreOwn'
  BY <1>1 DEF DiskInv, TempsAreOwn
<1> QED BY <1>1, <1>3, <1>4

LEMMA JobNumber ==
    ASSUME JobInv
    PROVE  job.n \in Nat
<1>1. job.n \in Jobs \/ job.n = 0
  BY DEF JobInv
<1>2. CASE job.n \in Jobs
  BY <1>2, JobsAssumption
<1>3. CASE job.n = 0
  BY <1>3
<1> QED BY <1>1, <1>2, <1>3

LEMMA JobsAreContents == Jobs \subseteq Contents /\ {Original, Foreign, Placeholder} \subseteq Contents
BY DEF Contents

LEMMA InitDiskInv == Init => DiskInv
<1> SUFFICES ASSUME Init PROVE DiskInv
  OBVIOUS
<1>1. place \in [Contents -> Places]
  BY PlacesAre DEF Init
<1>2. whole \subseteq Contents /\ folders \subseteq Contents /\ home \in Homes /\ owned \subseteq {Original}
  BY JobsAreContents DEF Init
<1>3. \A c \in Contents : place[c] = IF c = Original /\ Original \in owned THEN Name ELSE Nowhere
  BY <1>2 DEF Init
<1>4. OneEach
  BY <1>3 DEF OneEach
<1>5. TempsAreOwn
  BY <1>3, PlacesDiffer DEF TempsAreOwn
<1> QED BY <1>1, <1>2, <1>4, <1>5 DEF DiskInv

LEMMA StepDiskInv == TypeInv /\ [Next]_vars => DiskInv'
<1> SUFFICES ASSUME TypeInv, [Next]_vars PROVE DiskInv'
  OBVIOUS
<1> USE DEF ledgerVars, diskVars, driveVars, storeVars, faultVars, boundVars, historyVars, jobVars
<1>0. DiskInv /\ JobInv /\ SweepInv
  BY DEF TypeInv
<1> DEFINE Good == place' \in [Contents -> Places] /\ OneEach' /\ TempsAreOwn'
<1>1. ASSUME UNCHANGED place PROVE Good
  BY <1>0, <1>1 DEF DiskInv, OneEach, TempsAreOwn
<1>p. ASSUME NEW c \in Contents, NEW p \in Places, place' = [place EXCEPT ![c] = p],
             p = Nowhere \/ Free(p), \A n \in Jobs : p = Temp(n) => c = n
      PROVE  Good
  BY <1>0, <1>p, PutKeeps
<1>q. (\A n \in Jobs : Name # Temp(n) /\ Nowhere # Temp(n)) /\ \A n, m \in Jobs : Temp(n) = Temp(m) => n = m
  BY PlacesDiffer
<1>r. ASSUME NEW c \in Contents, \/ Free(Name) /\ place' = [place EXCEPT ![c] = Name]
                                 \/ place' = [place EXCEPT ![c] = Nowhere]
      PROVE  Good
  <2>1. /\ \A n \in Jobs : Name = Temp(n) => c = n
        /\ \A n \in Jobs : Nowhere = Temp(n) => c = n
    BY <1>q
  <2>2. CASE Free(Name) /\ place' = [place EXCEPT ![c] = Name]
    BY <2>1, <2>2, <1>p, PlacesAre
  <2>3. CASE place' = [place EXCEPT ![c] = Nowhere]
    BY <2>1, <2>3, <1>p, PlacesAre
  <2> QED BY <1>r, <2>2, <2>3
<1>2. ASSUME Good, whole' \subseteq Contents, folders' \subseteq Contents, UNCHANGED home PROVE DiskInv'
  BY <1>0, <1>2 DEF DiskInv
<1>3. whole \subseteq Contents /\ folders \subseteq Contents
  BY <1>0 DEF DiskInv
<1>4. CASE WriteBegins
  <2>1. /\ job.n + 1 \in Contents /\ UNCHANGED <<whole, home>>
        /\ folders' = folders \/ folders' = folders \cup {job.n + 1}
        /\ \/ UNCHANGED place
           \/ Free(Name) /\ place' = [place EXCEPT ![Placeholder] = Name]
    BY <1>4, BeginIs, JobsAreContents
  <2>2. CASE UNCHANGED place
    BY <2>1, <2>2, <1>1, <1>2, <1>3
  <2>3. CASE Free(Name) /\ place' = [place EXCEPT ![Placeholder] = Name]
    <3>1. Good
      <4>1. Placeholder \in Contents /\ Name \in Places
        BY PlacesAre, JobsAreContents
      <4>3. place' = [place EXCEPT ![Placeholder] = Name] /\ Free(Name)
        BY <2>3
      <4> QED BY <4>1, <4>3, <1>r
    <3> QED BY <2>1, <3>1, <1>2, <1>3
  <2> QED BY <2>1, <2>2, <2>3
<1>5. CASE JobSettles
  BY <1>5, <1>1, <1>2, <1>3 DEF JobSettles
<1>6. CASE WriteSteps /\ job.owes = <<>>
  <2>1. /\ WriteDisk /\ UNCHANGED <<folders, home>>
        /\ whole' = whole \/ whole' = whole \cup {job.n}
    BY <1>6, StepDisk
  <2>2. job.n \in Jobs /\ job.n \in Contents
    BY <1>0, <1>6, StepMoves, JobsAreContents DEF JobInv
  <2>3. /\ Name \in Places /\ Recovered \in Places /\ Nowhere \in Places
        /\ Temp(job.n) \in Places /\ Aside(job.n) \in Places
    BY <2>2, PlacesAre
  <2>4. Good
    <3>1. CASE UNCHANGED place
      BY <3>1, <1>1
    <3>2. CASE place[job.n] = Nowhere /\ place' = [place EXCEPT ![job.n] = Temp(job.n)] /\ job.at = "fill"
      <4>1. Free(Temp(job.n))
        BY <1>0, <2>2, <3>2, PlacesDiffer DEF DiskInv, TempsAreOwn, Free, At
      <4> QED BY <2>2, <2>3, <3>2, <4>1, <1>p, <1>q
    <3>3. CASE place' = Renamed(Name, Aside(job.n))
      BY <1>0, <2>3, <3>3, RenamedKeeps, PlacesDiffer
    <3>4. CASE place' = [Removed(Name) EXCEPT ![job.n] = Name]
      <4>1. \A c \in Contents :
               place'[c] = IF c = job.n THEN Name ELSE IF place[c] = Name THEN Nowhere ELSE place[c]
        BY <2>2, <3>4 DEF Removed
      <4>2. place' \in [Contents -> Places]
        BY <1>0, <2>2, <2>3, <3>4 DEF Removed, DiskInv
      <4>3. OneEach'
        BY <1>0, <4>1 DEF DiskInv, OneEach
      <4>4. TempsAreOwn'
        BY <1>0, <4>1, PlacesDiffer DEF DiskInv, TempsAreOwn
      <4> QED BY <4>2, <4>3, <4>4
    <3>5. CASE place' = Removed(Name) \/ place' = Removed(Aside(job.n)) \/ place' = Removed(Temp(job.n))
      BY <1>0, <3>5, RemovedKeeps
    <3>6. CASE place' = Renamed(Aside(job.n), Name) \/ place' = Renamed(Temp(job.n), Name)
      BY <1>0, <2>3, <3>6, RenamedKeeps, PlacesDiffer
    <3>7. CASE place' = Renamed(Aside(job.n), Recovered) \/ place' = Renamed(Temp(job.n), Recovered)
      BY <1>0, <2>3, <3>7, RenamedKeeps, PlacesDiffer
    <3>8. CASE Free(Name) /\ place' = [place EXCEPT ![job.n] = Name]
      BY <2>2, <3>8, <1>r
    <3>9. CASE place' = [place EXCEPT ![job.n] = Nowhere]
      BY <2>2, <3>9, <1>r
    <3> QED BY <2>1, <3>1, <3>2, <3>3, <3>4, <3>5, <3>6, <3>7, <3>8, <3>9 DEF WriteDisk
  <2> QED BY <2>1, <2>2, <2>4, <1>2, <1>3
<1>7. CASE Dies \/ UNCHANGED vars
  BY <1>7, <1>1, <1>2, <1>3 DEF Dies, Crash, vars
<1>8. ASSUME NEW s \in Sweepers, SweepSteps(s) PROVE DiskInv'
  <2>1. CASE SweepLooks(s) \/ SweepSettles(s) \/ SweepEnds(s)
    BY <2>1, <1>1, <1>2, <1>3 DEF SweepLooks, SweepSettles, SweepEnds
  <2>2. CASE SweepLooksAside(s) \/ SweepRemoves(s) \/ SweepRestores(s) \/ SweepRecovers(s)
    <3>1. PICK at \in Acting : SweepAct(s, at)
      BY <2>2, ActsAre
    <3>2. UNCHANGED <<whole, folders, home>> /\ sweep[s].at \in Acting /\ sweep[s].now \in Records
      BY <1>0, <3>1 DEF SweepAct, SweepInv, HandOf, Acting
    <3>3. Path(sweep[s].now) \in Places /\ Path(sweep[s].now) \notin {Name, Nowhere, Recovered}
      BY <3>2, PathIs, PlacesDiffer
    <3> DEFINE p == Path(sweep[s].now)
    <3> HIDE DEF p
    <3>4. UNCHANGED place \/ place' = Removed(p) \/ place' = Renamed(p, Name) \/ place' = Renamed(p, Recovered)
      BY <3>1 DEF SweepAct, p
    <3>5. p \in Places /\ p \notin {Name, Nowhere, Recovered}
      BY <3>3 DEF p
    <3>6. Good
      <4>1. CASE UNCHANGED place
        BY <4>1, <1>1
      <4>2. CASE place' = Removed(p)
        BY <1>0, <4>2, RemovedKeeps
      <4>3. CASE place' = Renamed(p, Name) \/ place' = Renamed(p, Recovered)
        BY <1>0, <3>5, <4>3, RenamedKeeps, PlacesDiffer, PlacesAre
      <4> QED BY <3>4, <4>1, <4>2, <4>3
    <3> QED BY <3>2, <3>6, <1>2, <1>3
  <2> QED BY <1>8, <2>1, <2>2 DEF SweepSteps
<1>9. CASE SaveForeign
  <2>1. Good
    BY <1>9, <1>r, JobsAreContents DEF SaveForeign
  <2> QED BY <2>1, <1>9, <1>2, <1>3 DEF SaveForeign
<1>10. CASE CompactTruncates \/ CompactAppends \/ LaunchSteps \/ RegistrySteps \/ Pull \/ Plug
  BY <1>10, <1>1, <1>2, <1>3 DEF CompactTruncates, CompactAppends, LaunchSteps, InitAndSweep, LaunchDefers, LaunchSpawns,
     LaunchClaims, RegistrySteps, Register, Unregister, OnVolumeArrival, Pull, Plug
<1> QED BY <1>4, <1>5, <1>6, <1>7, <1>8, <1>9, <1>10, NextIs DEF LedgerSteps

LEMMA StepRestInv == TypeInv /\ [Next]_vars => RestInv'
<1> SUFFICES ASSUME TypeInv, [Next]_vars PROVE RestInv'
  OBVIOUS
<1> USE DEF ledgerVars, diskVars, driveVars, storeVars, faultVars, boundVars, historyVars, jobVars
<1>0. RestInv /\ JobInv /\ SweepInv
  BY DEF TypeInv
<1>1. CASE WriteBegins
  <2>1. UNCHANGED <<driveVars, app, storeVars, boundVars, historyVars, displaced, clobbered, mislaid, cleared>>
    BY <1>1, BeginIs
  <2> QED BY <1>0, <2>1 DEF RestInv
<1>2. CASE JobSettles
  <2>1. PICK w \in RecordCalls, r \in Records :
           /\ \/ w = "track" /\ Track(r)
              \/ w = "retire" /\ RetireRecord(r)
              \/ w = "keep" /\ KeepForArrival(r)
              \/ w = "listen" /\ UNCHANGED <<log, recorded, pending, rewrite>> /\ listening' \in {TRUE, listening}
           /\ UNCHANGED <<driveVars, app, boundVars, historyVars, displaced, clobbered, mislaid, cleared>>
    BY <1>2, SettleIs
  <2> QED BY <1>0, <2>1 DEF RestInv, Track, RetireRecord, KeepForArrival
<1>3. CASE WriteSteps /\ job.owes = <<>>
  <2>1. /\ WriteDisk
        /\ refusals' = refusals \/ (refusals < MaxRefusals /\ refusals' = refusals + 1)
        /\ mislaid' = mislaid \/ mislaid' = mislaid \cup {OwnAside}
        /\ UNCHANGED <<driveVars, app, storeVars, faultVars, forgotten, unheard>>
    BY <1>3, StepDisk
  <2>2. job.n \in Jobs /\ job.n \in Contents
    BY <1>0, <1>3, StepMoves, JobsAreContents DEF JobInv
  <2>3. OwnAside \in Records
    BY <1>0, <2>2, OwnRecords
  <2>4. At(Name) \subseteq Contents
    BY DEF At
  <2>5. owned' \subseteq Contents /\ clobbered' \subseteq Contents /\ cleared' \subseteq Jobs
    BY <1>0, <2>1, <2>2, <2>4 DEF RestInv, WriteDisk, Still
  <2>6. displaced' \subseteq Jobs \X Contents
    <3>1. displaced' = displaced \/ displaced' = displaced \cup {<<job.n, c>> : c \in At(Name)}
      BY <2>1 DEF WriteDisk, Still
    <3>2. {<<job.n, c>> : c \in At(Name)} \subseteq Jobs \X Contents
      BY <2>2, <2>4
    <3> QED BY <1>0, <3>1, <3>2 DEF RestInv
  <2>7. refusals' \in 0..MaxRefusals
    BY <1>0, <2>1, BoundsAssumption DEF RestInv
  <2> QED BY <1>0, <2>1, <2>3, <2>5, <2>6, <2>7 DEF RestInv
<1>4. CASE Dies \/ UNCHANGED vars
  <2>1. CASE Dies
    <3>1. InHand \subseteq Records
      BY <1>0, NoneAssumption DEF InHand, Hand, SweepInv, Sweepers
    <3>2. crashes' \in 0..MaxCrashes
      BY <1>0, <2>1, BoundsAssumption DEF Dies, Crash, RestInv
    <3> QED BY <1>0, <2>1, <3>1, <3>2 DEF Dies, Crash, RestInv
  <2>2. CASE UNCHANGED vars
    BY <1>0, <2>2 DEF vars, RestInv
  <2> QED BY <1>4, <2>1, <2>2
<1>5. ASSUME LedgerSteps, UNCHANGED jobVars PROVE RestInv'
  <2>1. CASE CompactTruncates \/ CompactAppends
    BY <1>0, <1>5, <2>1 DEF CompactTruncates, CompactAppends, RestInv
  <2>2. CASE InitAndSweep \/ LaunchSpawns \/ LaunchClaims
    BY <1>0, <1>5, <2>2 DEF InitAndSweep, LaunchSpawns, LaunchClaims, RestInv
  <2>3. CASE LaunchDefers
    <3>1. PICK r \in sweep["launch"].todo : Defer(r)
      BY <2>3 DEF LaunchDefers
    <3>2. r \in Records
      BY <1>0 DEF SweepInv, Sweepers
    <3> QED BY <1>0, <1>5, <2>3, <3>1, <3>2 DEF LaunchDefers, Defer, RestInv
  <2>4. CASE RegistrySteps \/ Pull \/ Plug
    <3>1. CASE OnVolumeArrival
      BY <1>0, <1>5, <3>1 DEF OnVolumeArrival, RestInv
    <3>2. CASE Register \/ Unregister \/ Plug
      BY <1>0, <1>5, <3>2 DEF Register, Unregister, Plug, RestInv
    <3>3. CASE Pull
      <4>1. pulls' \in 0..MaxPulls
        BY <1>0, <3>3, BoundsAssumption DEF Pull, RestInv
      <4> QED BY <1>0, <1>5, <3>3, <4>1 DEF Pull, RestInv
    <3> QED BY <2>4, <3>1, <3>2, <3>3 DEF RegistrySteps
  <2>5. CASE SaveForeign
    BY <1>0, <1>5, <2>5, JobsAreContents DEF SaveForeign, RestInv
  <2>6. ASSUME NEW s \in Sweepers, SweepSteps(s) PROVE RestInv'
    <3>1. CASE SweepLooks(s)
      <4>1. /\ refusals' = refusals \/ (refusals < MaxRefusals /\ refusals' = refusals + 1)
            /\ UNCHANGED <<driveVars, app, storeVars, faultVars, historyVars>>
        BY <1>0, <3>1, LooksAre
      <4>2. refusals' \in 0..MaxRefusals
        BY <1>0, <4>1, BoundsAssumption DEF RestInv
      <4> QED BY <1>0, <1>5, <4>1, <4>2 DEF RestInv
    <3>2. CASE SweepLooksAside(s) \/ SweepRemoves(s) \/ SweepRestores(s) \/ SweepRecovers(s)
      <4>1. PICK at \in Acting : SweepAct(s, at)
        BY <3>2, ActsAre
      <4>2. sweep[s].now \in Records
        BY <1>0, <4>1 DEF SweepAct, SweepInv, HandOf, Acting
      <4>3. refusals' \in 0..MaxRefusals
        BY <1>0, <4>1, BoundsAssumption DEF RestInv, SweepAct
      <4> QED BY <1>0, <1>5, <4>1, <4>2, <4>3 DEF SweepAct, RestInv
    <3>3. CASE SweepSettles(s)
      <4>1. sweep[s].now \in Records
        BY <1>0, <3>3 DEF SweepSettles, SweepInv, HandOf, Acting
      <4> QED BY <1>0, <1>5, <3>3, <4>1 DEF SweepSettles, RetireRecord, Defer, RestInv
    <3>4. CASE SweepEnds(s)
      BY <1>0, <1>5, <3>4 DEF SweepEnds, RestInv
    <3> QED BY <2>6, <3>1, <3>2, <3>3, <3>4 DEF SweepSteps
  <2> QED BY <1>5, <2>1, <2>2, <2>3, <2>4, <2>5, <2>6 DEF LedgerSteps, LaunchSteps
<1> QED BY <1>1, <1>2, <1>3, <1>4, <1>5, NextIs

\* A move leaves at most one thing owed, about the write's own temp or aside.
LEMMA MoveOwes ==
    ASSUME WriteMove
    PROVE  \/ job'.owes = <<>>
           \/ \E w \in {"track", "retire", "keep"}, r \in {OwnTemp, OwnAside} : job'.owes = Owe(w, r)
BY DEF WriteMove, Moves

LEMMA StepJobInv == TypeInv /\ [Next]_vars => JobInv'
<1> SUFFICES ASSUME TypeInv, [Next]_vars PROVE JobInv'
  OBVIOUS
<1> USE DEF ledgerVars, diskVars, driveVars, storeVars, faultVars, boundVars, historyVars, jobVars
<1>0. JobInv /\ home \in Homes
  BY DEF TypeInv, DiskInv
<1>1. CASE WriteBegins
  <2>1. /\ job'.n = job.n + 1 /\ job.n + 1 \in Jobs
        /\ job' \in [n : Jobs \cup {0}, kind : Kinds, at : JobAts, over : BOOLEAN, owes : Owings]
        /\ \/ job'.kind \in {"file", "staged", "generated"} /\ job'.at = "fill" /\ job'.owes = Owe("track", OwnTemp')
           \/ job'.kind \in {"swap", "folder"} /\ job'.at = "setAside" /\ job'.owes = Owe("track", OwnAside')
        /\ job'.kind = "file" => home # "space"
        /\ job'.kind = "folder" => folders' = folders \cup {job.n + 1}
        /\ UNCHANGED home
    BY <1>1, BeginIs
  <2>2. OwnTemp'.job = job'.n /\ OwnAside'.job = job'.n
    BY DEF OwnTemp, TempOf, OwnAside, AsideOf
  <2>3. ASSUME NEW w \in RecordCalls, NEW r \in Owed(w)' PROVE r.job = job'.n
    <3>1. job'.owes = Owe(w, r)
      BY DEF Owed
    <3>2. r = OwnTemp' \/ r = OwnAside'
      BY <2>1, <3>1, OwesDiffer
    <3> QED BY <2>2, <3>2
  <2> QED BY <1>0, <2>1, <2>3 DEF JobInv, FolderAts, StagedAts
<1>2. CASE JobSettles
  <2>1. PICK w \in RecordCalls, r \in Records :
           /\ r \in Owed(w)
           /\ job'.n = job.n /\ job'.at = job.at /\ job'.kind = job.kind
           /\ job'.owes = IF w = "keep" THEN Owe("listen", r) ELSE <<>>
           /\ job' \in [n : Jobs \cup {0}, kind : Kinds, at : JobAts, over : BOOLEAN, owes : Owings]
           /\ job.owes = Owe(w, r)
           /\ UNCHANGED <<diskVars, driveVars, app, sweep, boundVars, historyVars>>
    BY <1>2, SettleIs
  <2>2. ASSUME NEW v \in RecordCalls, NEW q \in Owed(v)' PROVE q.job = job'.n
    <3>1. job'.owes = Owe(v, q)
      BY DEF Owed
    <3>2. q = r
      BY <2>1, <3>1, OwesDiffer
    <3> QED BY <1>0, <2>1, <3>2 DEF JobInv
  <2>3. job.owes # <<>>
    BY <2>1, OwesDiffer
  <2> QED BY <1>0, <2>1, <2>2, <2>3 DEF JobInv
<1>3. CASE WriteSteps /\ job.owes = <<>>
  <2>1. /\ WriteMove /\ job.at # "idle" /\ job'.n = job.n /\ UNCHANGED <<folders, home>>
        /\ job' \in [n : Jobs \cup {0}, kind : Kinds, at : JobAts, over : BOOLEAN, owes : Owings]
    BY <1>3, StepMoves, StepDisk
  <2>2. OwnTemp.job = job.n /\ OwnAside.job = job.n
    BY <1>0, <2>1, OwnRecords DEF JobInv
  <2>3. ASSUME NEW v \in RecordCalls, NEW q \in Owed(v)' PROVE q.job = job'.n
    <3>1. job'.owes = Owe(v, q)
      BY DEF Owed
    <3>2. PICK w \in {"track", "retire", "keep"}, r \in {OwnTemp, OwnAside} : job'.owes = Owe(w, r)
      BY <2>1, <3>1, MoveOwes, OwesDiffer
    <3>3. Owe(v, q) = Owe(w, r)
      BY <3>1, <3>2
    <3>4. q = r
      BY <3>3, OwesDiffer
    <3> QED BY <2>1, <2>2, <3>2, <3>4
  <2>4. /\ job'.kind = IF job'.at = "idle" THEN "none" ELSE job.kind
        /\ job'.at \in FolderAts => job.kind = "folder"
        /\ job.kind = "staged" => job'.at \in StagedAts \cup {"idle"}
        /\ job'.at \in {"look", "placeAgain"} => job'.owes = <<>>
    BY <1>0, <2>1 DEF WriteMove, Moves, JobInv, FolderAts, StagedAts, AfterAsides
  <2>5. "idle" \notin FolderAts
    BY DEF FolderAts
  <2> QED BY <1>0, <2>1, <2>3, <2>4, <2>5 DEF JobInv
<1>4. CASE Dies
  <2>1. job' = [n |-> job.n, kind |-> "none", at |-> "idle", over |-> FALSE, owes |-> <<>>] /\ UNCHANGED <<folders, home>>
    BY <1>4 DEF Dies, Crash, Rest
  <2>2. \A w : Owed(w)' = {}
    BY <2>1, OwesDiffer DEF Owed
  <2> QED BY <1>0, <2>1, <2>2, OwingsAre DEF JobInv, Kinds, JobAts, FolderAts, StagedAts
<1>5. ASSUME UNCHANGED job, UNCHANGED home, folders \subseteq folders' PROVE JobInv'
  BY <1>0, <1>5 DEF JobInv, Owed
<1>6. CASE UNCHANGED vars
  BY <1>5, <1>6 DEF vars
<1>7. CASE LedgerSteps /\ UNCHANGED jobVars
  <2>1. UNCHANGED <<folders, home>>
    BY <1>7 DEF LedgerSteps, CompactTruncates, CompactAppends, LaunchSteps, InitAndSweep, LaunchDefers, LaunchSpawns,
       LaunchClaims, RegistrySteps, Register, Unregister, OnVolumeArrival, Pull, Plug, SaveForeign, SweepSteps,
       SweepLooks, SweepLooksAside, SweepRemoves, SweepRestores, SweepRecovers, SweepSettles, SweepEnds
  <2> QED BY <1>5, <1>7, <2>1
<1> QED BY <1>1, <1>2, <1>3, <1>4, <1>6, <1>7, NextIs

Hands == [at : SweepAts, todo : SUBSET Records, now : Records \cup {None}]

\* One sweep moves, and its hand is as its new place says.
LEMMA OneSweepMoves ==
    ASSUME SweepInv, NEW s \in Sweepers, NEW x \in Hands, sweep' = [sweep EXCEPT ![s] = x],
           x.at \in Acting => x.now \in Records /\ x.now \notin x.todo,
           x.at \notin Acting => x.now = None,
           x.at \in {"idle", "claim"} => x.todo = {} \/ (app' = "replayed" /\ s = "launch"),
           x.at \in {"lookAside", "restore", "recover"} => x.now.kind # "Temp",
           app' = app \/ \A t \in Sweepers : t # s => sweep[t].todo = {}
    PROVE  SweepInv'
<1>1. sweep'[s] = x /\ \A t \in Sweepers : t # s => sweep'[t] = sweep[t]
  BY DEF SweepInv
<1>2. sweep' \in [Sweepers -> [at : SweepAts, todo : SUBSET Records, now : Records \cup {None}]]
  BY DEF SweepInv, Hands
<1>3. HandOf(s)'
  BY <1>1 DEF HandOf
<1>4. ASSUME NEW t \in Sweepers, t # s PROVE HandOf(t)'
  <2>1. sweep'[t] = sweep[t] /\ HandOf(t) /\ (app' = app \/ sweep[t].todo = {})
    BY <1>1, <1>4 DEF SweepInv
  <2> QED BY <2>1 DEF HandOf
<1> QED BY <1>2, <1>3, <1>4 DEF SweepInv

LEMMA IdleIs ==
    /\ Idle \in Hands /\ Idle.at = "idle" /\ Idle.todo = {} /\ Idle.now = None
    /\ "launch" \in Sweepers /\ "arrival" \in Sweepers
    /\ \A s \in Sweepers : s = "launch" \/ s = "arrival"
BY DEF Idle, Hands, SweepAts, Sweepers

LEMMA ActingIs ==
    /\ Acting \subseteq SweepAts /\ {"idle", "next", "claim"} \subseteq SweepAts
    /\ "idle" \notin Acting /\ "next" \notin Acting /\ "claim" \notin Acting
BY DEF Acting, SweepAts

LEMMA StepSweepInv == TypeInv /\ [Next]_vars => SweepInv'
<1> SUFFICES ASSUME TypeInv, [Next]_vars PROVE SweepInv'
  OBVIOUS
<1> USE DEF ledgerVars, diskVars, driveVars, storeVars, faultVars, boundVars, historyVars, jobVars
<1>0. /\ SweepInv /\ StoreInv /\ RestInv
      /\ \A s \in Sweepers : sweep[s] \in Hands /\ HandOf(s)
  BY DEF TypeInv, SweepInv, Hands
<1>1. ASSUME UNCHANGED <<sweep, app>> PROVE SweepInv'
  BY <1>0, <1>1 DEF SweepInv, HandOf
<1>2. CASE WriteBegins \/ JobSettles \/ (WriteSteps /\ job.owes = <<>>)
  <2>1. UNCHANGED <<sweep, app>>
    <3>1. CASE WriteBegins
      BY <3>1, BeginIs
    <3>2. CASE JobSettles
      BY <3>2 DEF JobSettles
    <3>3. CASE WriteSteps /\ job.owes = <<>>
      BY <3>3, StepDisk
    <3> QED BY <1>2, <3>1, <3>2, <3>3
  <2> QED BY <1>1, <2>1
<1>3. CASE Dies
  <2>1. sweep' = [s \in Sweepers |-> Idle]
    BY <1>3 DEF Dies, Crash
  <2>2. \A s \in Sweepers : sweep'[s] = Idle
    BY <2>1
  <2>3. \A s \in Sweepers : HandOf(s)'
    BY <2>2, IdleIs, ActingIs DEF HandOf
  <2> QED BY <2>1, <2>3, IdleIs DEF SweepInv, Hands
<1>4. CASE UNCHANGED vars
  BY <1>1, <1>4 DEF vars
<1>5. ASSUME LedgerSteps PROVE SweepInv'
  <2>1. CASE CompactTruncates \/ CompactAppends \/ Pull \/ Plug \/ SaveForeign \/ Register \/ Unregister
    BY <1>1, <2>1 DEF CompactTruncates, CompactAppends, Pull, Plug, SaveForeign, Register, Unregister
  <2>2. CASE InitAndSweep
    <3>1. PICK x : x = [sweep["launch"] EXCEPT !.todo = log]
      OBVIOUS
    <3>2. sweep["launch"] = Idle /\ sweep["arrival"] = Idle
      BY <1>0, <2>2, IdleIs DEF InitAndSweep, StoreInv
    <3>3. x \in Hands /\ x.at = "idle" /\ x.now = None /\ x.todo = log
      BY <1>0, <3>1, <3>2, IdleIs DEF RestInv, Hands
    <3>4. sweep' = [sweep EXCEPT !["launch"] = x] /\ app' = "replayed"
      BY <2>2, <3>1 DEF InitAndSweep
    <3>5. \A t \in Sweepers : t # "launch" => sweep[t].todo = {}
      BY <3>2, IdleIs
    <3> QED BY <1>0, <3>3, <3>4, <3>5, IdleIs, ActingIs, OneSweepMoves
  <2>3. CASE LaunchDefers
    <3>1. PICK r : sweep' = [sweep EXCEPT !["launch"].todo = @ \ {r}]
      BY <2>3 DEF LaunchDefers
    <3>2. PICK x : x = [sweep["launch"] EXCEPT !.todo = @ \ {r}]
      OBVIOUS
    <3>3. sweep["launch"] \in Hands /\ sweep["launch"].at = "idle" /\ HandOf("launch") /\ app' = app /\ app = "replayed"
      BY <1>0, <2>3, IdleIs DEF LaunchDefers, StoreInv
    <3>4. x \in Hands /\ x.at = "idle" /\ x.now = None
      BY <3>2, <3>3, ActingIs DEF Hands, HandOf
    <3>5. sweep' = [sweep EXCEPT !["launch"] = x]
      BY <3>1, <3>2
    <3> QED BY <1>0, <3>3, <3>4, <3>5, IdleIs, ActingIs, OneSweepMoves
  <2>4. CASE LaunchSpawns
    <3> DEFINE replayed == sweep["launch"].todo \cup recorded
               at == IF replayed = {} THEN "idle" ELSE IF home = "local" THEN "next" ELSE "claim"
    <3>1. /\ sweep' = [sweep EXCEPT !["launch"].at = at] /\ app = "replayed" /\ app' = "up"
          /\ home # "local" => sweep["launch"].todo = {}
      BY <2>4 DEF LaunchSpawns
    <3>2. PICK x : x = [sweep["launch"] EXCEPT !.at = at]
      OBVIOUS
    <3>3. /\ sweep["launch"] \in Hands /\ sweep["launch"].at = "idle" /\ HandOf("launch")
          /\ sweep["arrival"].todo = {}
      BY <1>0, <3>1, IdleIs DEF StoreInv
    <3>4. at \in {"idle", "next", "claim"} /\ (at \in {"idle", "claim"} => sweep["launch"].todo = {})
      BY <3>1
    <3> HIDE DEF at
    <3>5. x \in Hands /\ x.at = at /\ x.now = None /\ x.todo = sweep["launch"].todo
      BY <3>2, <3>3, <3>4, ActingIs DEF Hands, HandOf
    <3>6. sweep' = [sweep EXCEPT !["launch"] = x]
      BY <3>1, <3>2
    <3>7. x.at \notin Acting
      BY <3>4, <3>5, ActingIs
    <3>8. \A t \in Sweepers : t # "launch" => sweep[t].todo = {}
      BY <3>3, IdleIs
    <3>9. x.at \notin {"lookAside", "restore", "recover"}
      BY <3>4, <3>5
    <3> QED BY <1>0, <3>4, <3>5, <3>6, <3>7, <3>8, <3>9, IdleIs, OneSweepMoves
  <2>5. ASSUME NEW s \in Sweepers, sweep[s].at \in {"idle", "claim"}, UNCHANGED app,
               sweep' = [sweep EXCEPT ![s] = [@ EXCEPT !.at = "next", !.todo = pending]]
        PROVE  SweepInv'
    <3>1. PICK x : x = [sweep[s] EXCEPT !.at = "next", !.todo = pending]
      OBVIOUS
    <3>2. sweep[s] \in Hands /\ HandOf(s) /\ sweep[s].now = None /\ pending \subseteq Records
      BY <1>0, <2>5, ActingIs DEF HandOf, RestInv
    <3>3. x \in Hands /\ x.at = "next" /\ x.now = None
      BY <3>1, <3>2, ActingIs DEF Hands
    <3>4. sweep' = [sweep EXCEPT ![s] = x]
      BY <2>5, <3>1
    <3> QED BY <1>0, <2>5, <3>3, <3>4, ActingIs, OneSweepMoves
  <2>6. ASSUME NEW s \in Sweepers, UNCHANGED app, sweep' = [sweep EXCEPT ![s] = Idle]
        PROVE  SweepInv'
    BY <1>0, <2>6, IdleIs, ActingIs, OneSweepMoves
  <2>7. CASE LaunchClaims \/ OnVolumeArrival
    <3>1. CASE LaunchClaims
      BY <1>1, <2>5, <2>6, <3>1, IdleIs DEF LaunchClaims
    <3>2. CASE OnVolumeArrival
      <4>1. sweep["arrival"] = Idle => sweep["arrival"].at = "idle"
        BY IdleIs
      <4> QED BY <1>1, <2>5, <3>2, <4>1, IdleIs DEF OnVolumeArrival
    <3> QED BY <2>7, <3>1, <3>2
  <2>8. ASSUME NEW s \in Sweepers, SweepSteps(s) PROVE SweepInv'
    <3>1. CASE SweepLooks(s)
      <4>1. PICK r \in sweep[s].todo, at \in Acting \ {"retire"} :
              /\ sweep' = [sweep EXCEPT ![s] = [at |-> at, todo |-> sweep[s].todo \ {r}, now |-> r]]
              /\ at \in {"lookAside", "restore", "recover"} => r.kind # "Temp"
              /\ UNCHANGED app
        BY <1>0, <3>1, LooksAre
      <4>2. PICK x : x = [at |-> at, todo |-> sweep[s].todo \ {r}, now |-> r]
        OBVIOUS
      <4>3. r \in Records /\ sweep[s].todo \subseteq Records
        BY <1>0 DEF Hands
      <4>4. x \in Hands /\ x.at = at /\ x.now = r /\ x.todo = sweep[s].todo \ {r}
        BY <4>2, <4>3, ActingIs DEF Hands
      <4>5. at \notin {"idle", "claim"}
        BY ActingIs
      <4> QED BY <1>0, <4>1, <4>2, <4>3, <4>4, <4>5, OneSweepMoves
    <3>2. CASE SweepLooksAside(s) \/ SweepRemoves(s) \/ SweepRestores(s) \/ SweepRecovers(s)
      <4>1. PICK at \in Acting : SweepAct(s, at)
        BY <3>2, ActsAre
      <4>2. PICK x : x = [sweep[s] EXCEPT !.at = at]
        OBVIOUS
      <4>3. x \in Hands /\ x.at = at /\ x.now = sweep[s].now /\ x.todo = sweep[s].todo /\ HandOf(s)
        BY <1>0, <4>2, ActingIs DEF Hands
      <4>4. sweep' = [sweep EXCEPT ![s] = x] /\ UNCHANGED app
        BY <4>1, <4>2 DEF SweepAct, Goes
      <4>5. /\ sweep[s].at \in {"lookAside", "remove", "restore", "recover"}
            /\ at \in {"lookAside", "restore", "recover"} => sweep[s].at \in {"lookAside", "restore", "recover"}
        BY <4>1 DEF SweepAct
      <4>6. /\ sweep[s].now \in Records /\ sweep[s].now \notin sweep[s].todo
            /\ at \in {"lookAside", "restore", "recover"} => sweep[s].now.kind # "Temp"
        BY <4>3, <4>5 DEF HandOf, Acting
      <4>7. at \notin {"idle", "claim"}
        BY ActingIs
      <4> QED BY <1>0, <4>3, <4>4, <4>6, <4>7, OneSweepMoves
    <3>3. CASE SweepSettles(s)
      <4>1. PICK x : x = [sweep[s] EXCEPT !.at = "next", !.now = None]
        OBVIOUS
      <4>2. x \in Hands /\ x.at = "next" /\ x.now = None
        BY <1>0, <4>1, ActingIs DEF Hands
      <4>3. sweep' = [sweep EXCEPT ![s] = x] /\ UNCHANGED app
        BY <3>3, <4>1 DEF SweepSettles
      <4> QED BY <1>0, <4>2, <4>3, ActingIs, OneSweepMoves
    <3>4. CASE SweepEnds(s)
      BY <2>6, <3>4 DEF SweepEnds
    <3> QED BY <2>8, <3>1, <3>2, <3>3, <3>4 DEF SweepSteps
  <2> QED BY <1>5, <2>1, <2>2, <2>3, <2>4, <2>7, <2>8 DEF LedgerSteps, LaunchSteps, RegistrySteps
<1> QED BY <1>2, <1>3, <1>4, <1>5, NextIs

\* A sweep that moves on is one a running process has.
LEMMA SweepsAreUp ==
    ASSUME TypeInv, NEW s \in Sweepers, SweepSteps(s)
    PROVE  app = "up" /\ UNCHANGED <<app, registered, arriving, rewrite>>
<1> USE DEF ledgerVars, diskVars, driveVars, storeVars, faultVars, boundVars, historyVars
<1>1. sweep[s].at # "idle" /\ UNCHANGED <<app, registered, arriving, rewrite>>
  BY DEF SweepSteps, SweepLooks, SweepLooksAside, SweepRemoves, SweepRestores, SweepRecovers, SweepSettles, SweepEnds,
     RetireRecord, Defer
<1>2. sweep[s] = Idle => sweep[s].at = "idle"
  BY IdleIs
<1>3. app = "down" => sweep[s] = Idle
  BY DEF TypeInv, StoreInv
<1>4. app = "replayed" => sweep["launch"].at = "idle" /\ sweep["arrival"] = Idle
  BY DEF TypeInv, StoreInv
<1>5. app # "replayed"
  BY <1>1, <1>2, <1>4, IdleIs
<1> QED BY <1>1, <1>2, <1>3, <1>5 DEF TypeInv, RestInv

LEMMA StepStoreInv == TypeInv /\ [Next]_vars => StoreInv'
<1> SUFFICES ASSUME TypeInv, [Next]_vars PROVE StoreInv'
  OBVIOUS
<1> USE DEF ledgerVars, diskVars, driveVars, storeVars, faultVars, boundVars, historyVars, jobVars
<1>0. StoreInv /\ app \in {"down", "replayed", "up"}
  BY DEF TypeInv, RestInv
<1>1. ASSUME app' = "up", log' \cup rewrite' = recorded' PROVE StoreInv'
  BY <1>1 DEF StoreInv
<1>2. CASE WriteBegins
  <2>1. app = "up" /\ UNCHANGED <<app, storeVars>>
    BY <1>2, BeginIs
  <2> QED BY <1>0, <1>1, <2>1 DEF StoreInv
<1>3. CASE JobSettles
  <2>1. PICK w \in RecordCalls, r \in Records :
           /\ \/ w = "track" /\ Track(r)
              \/ w = "retire" /\ RetireRecord(r)
              \/ w = "keep" /\ KeepForArrival(r)
              \/ w = "listen" /\ UNCHANGED <<log, recorded, pending, rewrite>> /\ listening' \in {TRUE, listening}
           /\ UNCHANGED app
    BY <1>3, SettleIs
  <2>2. app = "up"
    BY <1>0, <1>3 DEF JobSettles, StoreInv
  <2>3. log \cup rewrite = recorded
    BY <1>0, <2>2 DEF StoreInv
  <2>4. log' \cup rewrite' = recorded'
    BY <2>1, <2>3 DEF Track, RetireRecord, KeepForArrival, Unlocked
  <2> QED BY <1>1, <2>1, <2>2, <2>4
<1>4. CASE WriteSteps /\ job.owes = <<>>
  <2>1. job.at # "idle" /\ UNCHANGED <<app, storeVars>>
    BY <1>4, StepMoves, StepDisk
  <2> QED BY <1>0, <1>1, <2>1 DEF StoreInv
<1>5. CASE Dies
  BY <1>5 DEF Dies, Crash, Rest, StoreInv
<1>6. CASE UNCHANGED vars
  BY <1>0, <1>6 DEF vars, StoreInv
<1>7. ASSUME LedgerSteps, UNCHANGED jobVars PROVE StoreInv'
  <2>1. CASE CompactTruncates \/ CompactAppends
    <3>1. app = "up" /\ app' = app
      BY <1>0, <2>1 DEF CompactTruncates, CompactAppends, StoreInv
    <3>2. log' \cup rewrite' = recorded'
      BY <1>0, <2>1, <3>1 DEF CompactTruncates, CompactAppends, StoreInv
    <3> QED BY <1>1, <3>1, <3>2
  <2>2. CASE InitAndSweep
    <3>1. sweep["launch"] = Idle /\ sweep["arrival"] = Idle /\ recorded = {} /\ rewrite = {}
      BY <1>0, <2>2, IdleIs DEF InitAndSweep, StoreInv
    <3>2. PICK x : x = [sweep["launch"] EXCEPT !.todo = log]
      OBVIOUS
    <3>3. x.at = "idle"
      BY <3>1, <3>2 DEF Idle
    <3>4. sweep' = [sweep EXCEPT !["launch"] = x]
      BY <2>2, <3>2 DEF InitAndSweep
    <3>5. sweep'["launch"] = x /\ sweep'["arrival"] = Idle
      BY <3>1, <3>4, IdleIs DEF TypeInv, SweepInv
    <3> QED BY <1>0, <1>7, <2>2, <3>1, <3>3, <3>5 DEF InitAndSweep, StoreInv
  <2>3. CASE LaunchDefers
    <3>1. PICK r : Defer(r) /\ sweep' = [sweep EXCEPT !["launch"].todo = @ \ {r}]
      BY <2>3 DEF LaunchDefers
    <3>2. PICK x : x = [sweep["launch"] EXCEPT !.todo = @ \ {r}]
      OBVIOUS
    <3>3. sweep["launch"] \in Hands /\ sweep["launch"].at = "idle" /\ sweep["arrival"] = Idle /\ log = recorded /\ rewrite = {}
      BY <1>0, <2>3, IdleIs DEF LaunchDefers, StoreInv, TypeInv, SweepInv, Hands
    <3>4. x.at = "idle"
      BY <3>2, <3>3 DEF Hands
    <3>5. sweep' = [sweep EXCEPT !["launch"] = x]
      BY <3>1, <3>2
    <3>6. sweep'["launch"] = x /\ sweep'["arrival"] = Idle
      BY <3>3, <3>5, IdleIs DEF TypeInv, SweepInv
    <3>7. log' \cup rewrite' = recorded' /\ rewrite' = {}
      BY <3>1, <3>3 DEF Defer
    <3> QED BY <1>0, <1>7, <2>3, <3>4, <3>6, <3>7 DEF LaunchDefers, StoreInv
  <2>4. CASE LaunchSpawns
    BY <1>0, <1>1, <2>4 DEF LaunchSpawns, StoreInv
  <2>5. CASE LaunchClaims
    <3>1. app = "up"
      <4>1. app = "down" => sweep["launch"] = Idle
        BY <1>0, IdleIs DEF StoreInv
      <4> QED BY <1>0, <2>5, <4>1, IdleIs DEF StoreInv, LaunchClaims
    <3> QED BY <1>0, <1>1, <2>5, <3>1 DEF LaunchClaims, StoreInv
  <2>6. CASE RegistrySteps
    BY <1>0, <1>1, <2>6 DEF RegistrySteps, Register, Unregister, OnVolumeArrival, StoreInv
  <2>7. CASE Pull \/ Plug \/ SaveForeign
    BY <1>0, <1>7, <2>7 DEF Pull, Plug, SaveForeign, StoreInv
  <2>8. ASSUME NEW s \in Sweepers, SweepSteps(s) PROVE StoreInv'
    <3>1. app = "up" /\ UNCHANGED app /\ log \cup rewrite = recorded
      BY <1>0, <2>8, SweepsAreUp DEF StoreInv
    <3>2. \/ UNCHANGED <<log, recorded, rewrite>>
          \/ \E r : RetireRecord(r) \/ Defer(r)
      BY <2>8 DEF SweepSteps, SweepLooks, SweepLooksAside, SweepRemoves, SweepRestores, SweepRecovers, SweepSettles, SweepEnds
    <3>3. log' \cup rewrite' = recorded'
      BY <3>1, <3>2 DEF RetireRecord, Defer, Unlocked
    <3> QED BY <1>1, <3>1, <3>3
  <2> QED BY <1>7, <2>1, <2>2, <2>3, <2>4, <2>5, <2>6, <2>7, <2>8 DEF LedgerSteps, LaunchSteps
<1> QED BY <1>2, <1>3, <1>4, <1>5, <1>6, <1>7, NextIs

LEMMA InitTypeInv == Init => TypeInv
<1> SUFFICES ASSUME Init PROVE TypeInv
  OBVIOUS
<1>1. owned \subseteq Contents /\ owned \in SUBSET {Original}
  BY JobsAreContents DEF Init
<1>2a. crashes \in 0..MaxCrashes /\ pulls \in 0..MaxPulls /\ refusals \in 0..MaxRefusals
  BY BoundsAssumption DEF Init
<1>2b. displaced \subseteq Jobs \X Contents /\ clobbered = {} /\ cleared = {} /\ mislaid = {}
  BY DEF Init
<1>2. RestInv
  BY <1>1, <1>2a, <1>2b DEF Init, RestInv
<1>3. job = [n |-> 0, kind |-> "none", at |-> "idle", over |-> FALSE, owes |-> <<>>]
  BY DEF Init, Rest
<1>4. \A w : Owed(w) = {}
  BY <1>3, OwedIs
<1>5. JobInv
  BY <1>3, <1>4, OwingsAre DEF JobInv, Kinds, JobAts, FolderAts, StagedAts
<1>6. \A s \in Sweepers : sweep[s] = Idle
  BY DEF Init
<1>7. \A s \in Sweepers : HandOf(s)
  BY <1>6, IdleIs, ActingIs DEF HandOf
<1>8. SweepInv
  BY <1>6, <1>7, IdleIs DEF Init, SweepInv, Hands
<1>9. StoreInv
  BY <1>3, IdleIs DEF Init, StoreInv
<1> QED BY <1>2, <1>5, <1>8, <1>9, InitDiskInv DEF TypeInv

LEMMA Typing == Spec => []TypeInv
<1>1. Init => TypeInv
  BY InitTypeInv
<1>2. TypeInv /\ [Next]_vars => TypeInv'
  BY StepDiskInv, StepRestInv, StepJobInv, StepSweepInv, StepStoreInv DEF TypeInv
<1> QED BY <1>1, <1>2, PTL DEF Spec

\* Every variable of the model keeps its type, no place but the ones that
\* stand for many ever has two things in it, and what the ledger is asked to
\* do is always about one of its records.
THEOREM TypeCorrect == Spec => []TypeOK
<1>1. TypeInv => TypeOK
  <2> SUFFICES ASSUME TypeInv PROVE TypeOK
    OBVIOUS
  <2>1. ASSUME NEW p \in Places \ {Nowhere, Recovered} PROVE Cardinality(At(p)) <= 1
    <3>1. CASE At(p) = {}
      <4>1. Cardinality({}) = 0
        BY FS_EmptySet
      <4> QED BY <3>1, <4>1
    <3>2. CASE At(p) # {}
      <4>1. PICK c : c \in At(p)
        BY <3>2
      <4>2. At(p) = {c}
        BY <4>1 DEF TypeInv, DiskInv, OneEach, At
      <4>3. Cardinality({c}) = 1
        BY FS_Singleton
      <4> QED BY <4>2, <4>3
    <3> QED BY <3>1, <3>2
  <2>2. \A s \in Sweepers : Hand(s) \subseteq Records
    BY DEF TypeInv, SweepInv, Hand
  <2>3. \A i \in DOMAIN job.owes : job.owes[i] \in RecordCalls \X Records
    <3>1. CASE job.owes = <<>>
      BY <3>1
    <3>2. CASE job.owes # <<>>
      <4>1. PICK w \in RecordCalls, r \in Records : job.owes = Owe(w, r)
        BY <3>2 DEF TypeInv, JobInv, Owings
      <4> QED BY <4>1 DEF Owe, RecordCalls
    <3> QED BY <3>1, <3>2
  <2> QED BY <2>1, <2>2, <2>3 DEF TypeInv, DiskInv, RestInv, JobInv, TypeOK
<1> QED BY <1>1, Typing, PTL

(***************************************************************************)
(* What the ledger's steps do to the store and to the hands that hold      *)
(* records, and what they do to the disk.                                  *)
(***************************************************************************)
SameHands == \A s \in Sweepers : Hand(s)' = Hand(s)
OnlyHand(s) == \A t \in Sweepers \ {s} : Hand(t)' = Hand(t)

\* A hand lets go of one record: retired, or waiting for the drive again.
LetsGo(s, r) ==
    /\ r \in Hand(s) /\ Hand(s)' = Hand(s) \ {r} /\ OnlyHand(s)
    /\ \/ sweep[s].at = "retire" /\ sweep[s].now = r /\ RetireRecord(r)
       \/ Defer(r)
\* An empty hand takes every record that waits.
TakesUp(s) ==
    /\ Hand(s) = {} /\ Hand(s)' = pending /\ OnlyHand(s)
    /\ pending' = {} /\ UNCHANGED <<log, recorded, rewrite>>
LedgerMove ==
    \/ SameHands /\ UNCHANGED <<recorded, pending>> /\ log' \cup rewrite' = log \cup rewrite
    \/ /\ app = "down" /\ Hand("launch")' = log /\ Hand("arrival")' = {}
       /\ log' = {} /\ UNCHANGED <<recorded, pending, rewrite>>
    \/ \E s \in Sweepers : \E r \in Records : LetsGo(s, r)
    \/ \E s \in Sweepers : TakesUp(s)

LEMMA HandIs ==
    ASSUME TypeInv, NEW s \in Sweepers
    PROVE  /\ sweep[s] \in Hands /\ HandOf(s) /\ Hand(s) \subseteq Records
           /\ sweep[s].now = None => Hand(s) = sweep[s].todo
           /\ sweep[s].now # None => Hand(s) = sweep[s].todo \cup {sweep[s].now}
BY DEF TypeInv, SweepInv, Hands, Hand

\* What a step that moves one sweep makes of the hands.
LEMMA MovedHand ==
    ASSUME TypeInv, NEW s \in Sweepers, NEW x \in Hands, sweep' = [sweep EXCEPT ![s] = x]
    PROVE  /\ Hand(s)' = x.todo \cup ({x.now} \ {None}) /\ OnlyHand(s)
           /\ Hand(s)' = Hand(s) => SameHands
<1>1. sweep'[s] = x /\ \A t \in Sweepers : t # s => sweep'[t] = sweep[t]
  BY DEF TypeInv, SweepInv
<1> QED BY <1>1 DEF Hand, OnlyHand, SameHands

LEMMA LedgerStore == TypeInv /\ LedgerSteps => LedgerMove
<1> SUFFICES ASSUME TypeInv, LedgerSteps PROVE LedgerMove
  OBVIOUS
<1> USE DEF ledgerVars, diskVars, driveVars, storeVars, faultVars, boundVars, historyVars
<1>0. StoreInv /\ app \in {"down", "replayed", "up"} /\ "launch" \in Sweepers /\ "arrival" \in Sweepers
  BY IdleIs DEF TypeInv, RestInv
<1>a. ASSUME UNCHANGED <<recorded, pending>>, log' \cup rewrite' = log \cup rewrite, SameHands PROVE LedgerMove
  BY <1>a DEF LedgerMove
<1>b. UNCHANGED sweep => SameHands
  BY DEF SameHands, Hand
<1>2. CASE CompactTruncates \/ CompactAppends
  <2>1. app = "up" /\ UNCHANGED <<sweep, recorded, pending>>
    BY <1>0, <1>2 DEF CompactTruncates, CompactAppends, StoreInv
  <2>2. log' \cup rewrite' = log \cup rewrite
    BY <1>0, <1>2, <2>1 DEF CompactTruncates, CompactAppends, StoreInv
  <2> QED BY <1>a, <1>b, <2>1, <2>2
<1>3. CASE Pull \/ Plug \/ SaveForeign \/ Register \/ Unregister
  BY <1>3, <1>a, <1>b DEF Pull, Plug, SaveForeign, Register, Unregister
<1>4. CASE InitAndSweep
  <2>1. sweep["launch"] = Idle /\ sweep["arrival"] = Idle
    BY <1>0, <1>4 DEF InitAndSweep, StoreInv
  <2>2. PICK x : x = [sweep["launch"] EXCEPT !.todo = log]
    OBVIOUS
  <2>3. x \in Hands /\ x.now = None /\ x.todo = log
    BY <2>1, <2>2, IdleIs DEF TypeInv, RestInv, Hands
  <2>4. sweep' = [sweep EXCEPT !["launch"] = x]
    BY <1>4, <2>2 DEF InitAndSweep
  <2>5. Hand("launch")' = log /\ sweep'["arrival"] = Idle
    <3>1. Hand("launch")' = x.todo \cup ({x.now} \ {None})
      BY <1>0, <2>3, <2>4, MovedHand
    <3>2. sweep'["arrival"] = sweep["arrival"]
      BY <1>0, <2>4 DEF TypeInv, SweepInv
    <3> QED BY <2>1, <2>3, <3>1, <3>2
  <2>6. Hand("arrival")' = {}
    BY <2>5, IdleIs DEF Hand
  <2> QED BY <1>4, <2>5, <2>6 DEF InitAndSweep, LedgerMove
<1>5. CASE LaunchDefers
  <2>1. PICK r \in sweep["launch"].todo : Defer(r) /\ sweep' = [sweep EXCEPT !["launch"].todo = @ \ {r}]
    BY <1>5 DEF LaunchDefers
  <2>2. PICK x : x = [sweep["launch"] EXCEPT !.todo = @ \ {r}]
    OBVIOUS
  <2>3. sweep["launch"] \in Hands /\ sweep["launch"].now = None /\ Hand("launch") = sweep["launch"].todo
    BY <1>0, <1>5, HandIs, ActingIs DEF LaunchDefers, StoreInv, HandOf
  <2>4. x \in Hands /\ x.now = None /\ x.todo = sweep["launch"].todo \ {r}
    BY <2>2, <2>3 DEF Hands
  <2>5. sweep' = [sweep EXCEPT !["launch"] = x]
    BY <2>1, <2>2
  <2>6. Hand("launch")' = Hand("launch") \ {r} /\ OnlyHand("launch") /\ r \in Hand("launch") /\ r \in Records
    BY <1>0, <2>1, <2>3, <2>4, <2>5, MovedHand, HandIs
  <2> QED BY <1>0, <2>1, <2>6 DEF LedgerMove, LetsGo
<1>6. CASE LaunchSpawns
  <2>1. PICK at : sweep' = [sweep EXCEPT !["launch"].at = at]
    BY <1>6 DEF LaunchSpawns
  <2>2. sweep'["launch"] = [sweep["launch"] EXCEPT !.at = at] /\ sweep'["arrival"] = sweep["arrival"]
    BY <1>0, <2>1 DEF TypeInv, SweepInv
  <2>3. sweep'["launch"].todo = sweep["launch"].todo /\ sweep'["launch"].now = sweep["launch"].now
    <3>1. sweep["launch"] \in Hands
      BY <1>0, HandIs
    <3> QED BY <2>2, <3>1 DEF Hands
  <2>4. SameHands
    BY <2>2, <2>3, IdleIs DEF SameHands, Hand
  <2> QED BY <1>6, <2>4, <1>a DEF LaunchSpawns
<1>7. ASSUME NEW s \in Sweepers, sweep[s].at \in {"idle", "claim"}, app # "replayed",
             sweep' = [sweep EXCEPT ![s] = [@ EXCEPT !.at = "next", !.todo = pending]], pending' = {},
             UNCHANGED <<log, recorded, rewrite>>
      PROVE  LedgerMove
  <2>1. PICK x : x = [sweep[s] EXCEPT !.at = "next", !.todo = pending]
    OBVIOUS
  <2>2. sweep[s] \in Hands /\ sweep[s].now = None /\ Hand(s) = {} /\ pending \subseteq Records
    BY <1>7, HandIs, ActingIs DEF HandOf, TypeInv, RestInv
  <2>3. x \in Hands /\ x.now = None /\ x.todo = pending
    BY <2>1, <2>2, ActingIs DEF Hands
  <2>4. sweep' = [sweep EXCEPT ![s] = x]
    BY <1>7, <2>1
  <2>5. Hand(s)' = x.todo \cup ({x.now} \ {None}) /\ OnlyHand(s)
    BY <2>3, <2>4, MovedHand
  <2>6. Hand(s)' = pending
    BY <2>3, <2>5
  <2> QED BY <1>7, <2>2, <2>5, <2>6 DEF LedgerMove, TakesUp
<1>8. ASSUME NEW s \in Sweepers, Hand(s) = {}, sweep' = [sweep EXCEPT ![s] = Idle],
             UNCHANGED <<log, recorded, pending, rewrite>>
      PROVE  LedgerMove
  <2>1. Hand(s)' = {}
    BY <1>8, IdleIs, MovedHand
  <2>2. SameHands
    BY <1>8, <2>1, IdleIs, MovedHand
  <2> QED BY <1>8, <1>a, <2>2
<1>9. CASE LaunchClaims
  <2>1. sweep["launch"].at = "claim" /\ app # "replayed"
    BY <1>0, <1>9 DEF LaunchClaims, StoreInv
  <2>2. Hand("launch") = {}
    BY <1>0, <2>1, HandIs, ActingIs DEF HandOf
  <2> QED BY <1>0, <1>7, <1>8, <1>9, <2>1, <2>2 DEF LaunchClaims
<1>10. CASE OnVolumeArrival
  <2>1. CASE UNCHANGED <<sweep, pending>>
    BY <1>10, <2>1, <1>a, <1>b DEF OnVolumeArrival
  <2>2. CASE ~UNCHANGED <<sweep, pending>>
    <3>1. /\ sweep["arrival"] = Idle /\ pending' = {} /\ UNCHANGED <<log, recorded, rewrite>>
          /\ sweep' = [sweep EXCEPT !["arrival"] = [@ EXCEPT !.at = "next", !.todo = pending]]
      BY <1>10, <2>2 DEF OnVolumeArrival
    <3>2. sweep["arrival"].at = "idle" /\ app # "replayed"
      BY <1>0, <1>10, <3>1, IdleIs DEF OnVolumeArrival, StoreInv
    <3> QED BY <1>0, <1>7, <3>1, <3>2
  <2> QED BY <2>1, <2>2
<1>11. ASSUME NEW s \in Sweepers, SweepSteps(s) PROVE LedgerMove
  <2>0. sweep[s] \in Hands /\ HandOf(s) /\ Hand(s) \subseteq Records /\ SweepInv
    BY HandIs DEF TypeInv
  <2>1. CASE SweepLooks(s)
    <3>1. PICK r \in sweep[s].todo, at \in Acting \ {"retire"} :
            /\ sweep[s].at = "next"
            /\ sweep' = [sweep EXCEPT ![s] = [at |-> at, todo |-> sweep[s].todo \ {r}, now |-> r]]
            /\ UNCHANGED storeVars
      BY <2>0, <2>1, LooksAre
    <3>2. PICK x : x = [at |-> at, todo |-> sweep[s].todo \ {r}, now |-> r]
      OBVIOUS
    <3>3. r \in Records /\ r # None /\ sweep[s].now = None /\ Hand(s) = sweep[s].todo
      BY <2>0, <3>1, NoneAssumption, HandIs, ActingIs DEF Hands, HandOf
    <3>4. x \in Hands /\ x.todo = sweep[s].todo \ {r} /\ x.now = r
      BY <2>0, <3>2, <3>3, ActingIs DEF Hands
    <3>5. sweep' = [sweep EXCEPT ![s] = x]
      BY <3>1, <3>2
    <3>6. Hand(s)' = x.todo \cup ({x.now} \ {None})
      BY <3>4, <3>5, MovedHand
    <3>7. Hand(s)' = Hand(s)
      BY <3>1, <3>3, <3>4, <3>6
    <3>8. SameHands
      BY <3>4, <3>5, <3>7, MovedHand
    <3> QED BY <1>a, <3>1, <3>8
  <2>2. CASE SweepLooksAside(s) \/ SweepRemoves(s) \/ SweepRestores(s) \/ SweepRecovers(s)
    <3>1. PICK at \in Acting : SweepAct(s, at)
      BY <2>2, ActsAre
    <3>2. /\ sweep'[s].todo = sweep[s].todo /\ sweep'[s].now = sweep[s].now
          /\ \A t \in Sweepers : t # s => sweep'[t] = sweep[t]
      BY <2>0, <3>1, GoesIs, ActingIs DEF SweepAct
    <3>3. SameHands
      BY <3>2 DEF SameHands, Hand
    <3> QED BY <1>a, <3>1, <3>3 DEF SweepAct
  <2>3. CASE SweepSettles(s)
    <3>1. PICK x : x = [sweep[s] EXCEPT !.at = "next", !.now = None]
      OBVIOUS
    <3>2. x \in Hands /\ x.todo = sweep[s].todo /\ x.now = None
      BY <2>0, <3>1, ActingIs DEF Hands
    <3>3. sweep' = [sweep EXCEPT ![s] = x]
      BY <2>3, <3>1 DEF SweepSettles
    <3>4. sweep[s].now \in Records /\ sweep[s].now \notin sweep[s].todo /\ sweep[s].now # None
      BY <2>0, <2>3, NoneAssumption DEF SweepSettles, HandOf, Acting
    <3>a. Hand(s)' = sweep[s].todo /\ OnlyHand(s)
      BY <3>2, <3>3, MovedHand
    <3>5. Hand(s)' = sweep[s].todo /\ OnlyHand(s) /\ Hand(s) = sweep[s].todo \cup {sweep[s].now}
      BY <3>4, <3>a, HandIs
    <3>6. LetsGo(s, sweep[s].now)
      BY <2>3, <3>4, <3>5 DEF LetsGo, SweepSettles
    <3> QED BY <3>4, <3>6 DEF LedgerMove
  <2>4. CASE SweepEnds(s)
    <3>1. Hand(s) = {}
      BY <2>0, <2>4, HandIs, ActingIs DEF SweepEnds, HandOf
    <3> QED BY <1>8, <2>4, <3>1 DEF SweepEnds
  <2> QED BY <1>11, <2>1, <2>2, <2>3, <2>4 DEF SweepSteps
<1> QED BY <1>2, <1>3, <1>4, <1>5, <1>6, <1>9, <1>10, <1>11 DEF LedgerSteps, LaunchSteps, RegistrySteps

\* What a ledger's step makes of the disk: a person saves a file, or a sweep
\* removes or moves what its record names.
Swept(s) ==
    /\ sweep'[s].at = "retire" /\ sweep'[s].now = sweep[s].now /\ sweep[s].now \in Records
    /\ \/ sweep[s].at = "remove" /\ place' = Removed(Path(sweep[s].now))
       \/ /\ sweep[s].at = "restore" /\ sweep[s].now.kind # "Temp"
          /\ Free(Name) /\ place' = Renamed(Path(sweep[s].now), Name)
       \/ /\ sweep[s].at = "recover" /\ sweep[s].now.kind # "Temp"
          /\ place' = Renamed(Path(sweep[s].now), Recovered)
LedgerDisk ==
    \/ UNCHANGED <<place, owned>>
    \/ /\ Foreign \notin owned /\ Free(Name) /\ place' = [place EXCEPT ![Foreign] = Name]
       /\ owned' = owned \cup {Foreign} /\ UNCHANGED sweep
    \/ UNCHANGED owned /\ \E s \in Sweepers : Swept(s)

LEMMA LedgerDisks ==
    ASSUME TypeInv, LedgerSteps
    PROVE  LedgerDisk /\ UNCHANGED <<whole, folders, home>> /\ forgotten \subseteq forgotten'
<1> USE DEF ledgerVars, diskVars, driveVars, storeVars, faultVars, boundVars, historyVars
<1>1. CASE CompactTruncates \/ CompactAppends \/ LaunchSteps \/ RegistrySteps \/ Pull \/ Plug
  BY <1>1 DEF CompactTruncates, CompactAppends, LaunchSteps, InitAndSweep, LaunchDefers, LaunchSpawns,
     LaunchClaims, RegistrySteps, Register, Unregister, OnVolumeArrival, Pull, Plug, LedgerDisk
<1>2. CASE SaveForeign
  BY <1>2 DEF SaveForeign, LedgerDisk
<1>3. ASSUME NEW s \in Sweepers, SweepSteps(s)
      PROVE  LedgerDisk /\ UNCHANGED <<whole, folders, home>> /\ forgotten \subseteq forgotten'
  <2>1. CASE SweepLooks(s) \/ SweepSettles(s) \/ SweepEnds(s)
    BY <2>1 DEF SweepLooks, SweepSettles, SweepEnds, LedgerDisk
  <2>2. CASE SweepLooksAside(s) \/ SweepRemoves(s) \/ SweepRestores(s) \/ SweepRecovers(s)
    <3>1. PICK at \in Acting : SweepAct(s, at)
      BY <2>2, ActsAre
    <3>2. sweep'[s].at = at /\ sweep'[s].now = sweep[s].now /\ HandOf(s) /\ at \in Acting
      BY <3>1, GoesIs, ActingIs, HandIs DEF SweepAct, TypeInv
    <3>3. sweep[s].at \in Acting
      BY <3>1 DEF SweepAct, Acting
    <3>4. UNCHANGED place \/ Swept(s)
      BY <3>1, <3>2, <3>3 DEF SweepAct, Swept, HandOf
    <3> QED BY <3>1, <3>4 DEF SweepAct, LedgerDisk
  <2> QED BY <1>3, <2>1, <2>2 DEF SweepSteps
<1> QED BY <1>1, <1>2, <1>3 DEF LedgerSteps

(***************************************************************************)
(* The same, thing by thing: what a write's step and a ledger's step may   *)
(* do to one content.                                                      *)
(***************************************************************************)
WriteAt(c) ==
    \/ place'[c] = place[c]
    \/ job.at = "fill" /\ c = job.n /\ place[c] = Nowhere /\ place'[c] = Temp(job.n)
    \/ job.at = "setAside" /\ place[c] = Name /\ place'[c] = Aside(job.n) /\ <<job.n, c>> \in displaced'
    \/ job.at = "setAside" /\ place[c] = Aside(job.n) /\ place'[c] = Nowhere
    \/ job.at = "land" /\ c = job.n /\ place'[c] = Name /\ c \in owned' \cap whole'
    \/ job.at \in {"land", "clear", "clearName"} /\ place[c] = Name /\ place'[c] = Nowhere
         /\ c \in clobbered' \cup (IF job.at = "clearName" THEN {Placeholder} ELSE {})
    \/ job.at \in {"putBack", "bringBack"} /\ place[c] = Aside(job.n) /\ place'[c] = Name /\ Free(Name)
    \/ job.at \in {"rescue", "recover"} /\ place[c] = Aside(job.n) /\ place'[c] = Recovered
    \/ job.at = "removeAside" /\ place[c] = Aside(job.n) /\ place'[c] = Nowhere
    \/ job.at \in TempDrops /\ place[c] = Temp(job.n) /\ place'[c] = Nowhere /\ (job.at = "sweepOwn" => OwnTemp \in recorded)
    \/ job.at = "makeDir" /\ c = job.n /\ place'[c] = Name /\ Free(Name)
    \/ job.at = "unbuild" /\ c = job.n /\ place'[c] = Nowhere
    \/ job.at \in {"place", "placeAgain"} /\ place[c] = Temp(job.n) /\ place'[c] = Name /\ c \in owned' /\ Free(Name)
    \/ job.at = "rescueTemp" /\ place[c] = Temp(job.n) /\ place'[c] = Recovered
WriteHistory ==
    /\ owned' \subseteq owned \cup {job.n} /\ owned \subseteq owned' \cup {job.n}
    /\ job.n \in owned' \ owned =>
          job.at \in {"build", "land", "place", "placeAgain"} /\ place'[job.n] = Name
    /\ job.n \in owned \ owned' => job.at = "unbuild" /\ place'[job.n] = Nowhere
    /\ displaced \subseteq displaced'
    /\ \A n, c : <<n, c>> \in displaced' \ displaced =>
          job.at = "setAside" /\ n = job.n /\ place[c] = Name /\ place'[c] = Aside(job.n)
    /\ clobbered \subseteq clobbered'
    /\ cleared' = cleared \/ (job.at = "clearName" /\ cleared' = cleared \cup {job.n})

LEMMA WriteIs ==
    ASSUME TypeInv, WriteSteps, job.owes = <<>>
    PROVE  (\A c \in Contents : WriteAt(c)) /\ WriteHistory
<1>1. /\ WriteDisk /\ job.n \in Jobs /\ job.n \in Contents
      /\ whole' = whole \/ whole' = whole \cup {job.n}
  BY StepDisk, StepMoves, JobsAreContents DEF TypeInv, JobInv
<1>2. place \in [Contents -> Places] /\ OneEach /\ TempsAreOwn
  BY DEF TypeInv, DiskInv
<1>3. \A n \in Jobs : Temp(n) # Name /\ Temp(n) # Nowhere
  BY PlacesDiffer
<1> USE <1>1, <1>2 DEF Still, WriteHistory
<1>4. CASE UNCHANGED place /\ Still
  BY <1>4 DEF WriteAt
<1>5. CASE /\ job.at = "build" /\ place[job.n] = Name /\ UNCHANGED place
           /\ owned' = owned \cup {job.n} /\ UNCHANGED <<displaced, clobbered, cleared>>
  BY <1>5 DEF WriteAt
<1>6. CASE job.at = "fill" /\ place[job.n] = Nowhere /\ place' = [place EXCEPT ![job.n] = Temp(job.n)] /\ Still
  BY <1>6 DEF WriteAt
<1>7. CASE /\ job.at = "setAside" /\ place' = Renamed(Name, Aside(job.n))
           /\ displaced' = displaced \cup {<<job.n, c>> : c \in At(Name)} /\ UNCHANGED <<owned, clobbered, cleared>>
  <2>1. \A n, c : <<n, c>> \in displaced' <=> <<n, c>> \in displaced \/ (n = job.n /\ c \in At(Name))
    BY <1>7
  <2>2. ASSUME NEW c \in Contents PROVE WriteAt(c)
    BY <1>7, <2>1 DEF WriteAt, Renamed, At
  <2>3. displaced \subseteq displaced'
    BY <1>7
  <2>4. \A c \in At(Name) : place[c] = Name /\ place'[c] = Aside(job.n)
    BY <1>7 DEF At, Renamed
  <2>5. WriteHistory
    BY <1>7, <2>1, <2>3, <2>4
  <2> QED BY <2>2, <2>5
<1>8. CASE /\ job.at = "land" /\ place' = [Removed(Name) EXCEPT ![job.n] = Name] /\ whole' = whole \cup {job.n}
           /\ owned' = owned \cup {job.n} /\ clobbered' = clobbered \cup At(Name) /\ UNCHANGED <<displaced, cleared>>
  BY <1>8 DEF WriteAt, Removed, At
<1>9. CASE /\ job.at = "clear" /\ place' = Removed(Name)
           /\ clobbered' = clobbered \cup At(Name) /\ UNCHANGED <<owned, displaced, cleared>>
  BY <1>9 DEF WriteAt, Removed, At
<1>10. CASE /\ job.at = "clearName" /\ place' = Removed(Name) /\ cleared' = cleared \cup {job.n}
            /\ clobbered' = clobbered \cup (At(Name) \ {Placeholder}) /\ UNCHANGED <<owned, displaced>>
  BY <1>10 DEF WriteAt, Removed, At
<1>11. CASE job.at \in {"putBack", "bringBack"} /\ Free(Name) /\ place' = Renamed(Aside(job.n), Name) /\ Still
  BY <1>11 DEF WriteAt, Renamed, Free, At
<1>12. CASE job.at \in {"rescue", "recover"} /\ place' = Renamed(Aside(job.n), Recovered) /\ Still
  BY <1>12 DEF WriteAt, Renamed
<1>13. CASE job.at = "removeAside" /\ place' = Removed(Aside(job.n)) /\ Still
  BY <1>13 DEF WriteAt, Removed
<1>14. CASE /\ job.at \in TempDrops /\ place' = Removed(Temp(job.n)) /\ Still
            /\ job.at = "sweepOwn" => OwnTemp \in recorded
  <2>1. \A c \in Contents : place'[c] = IF place[c] = Temp(job.n) THEN Nowhere ELSE place[c]
    BY <1>14 DEF Removed
  <2>2. \A c \in Contents : WriteAt(c)
    BY <1>14, <2>1 DEF WriteAt
  <2> QED BY <1>14, <2>2
<1>15. CASE job.at = "makeDir" /\ Free(Name) /\ place' = [place EXCEPT ![job.n] = Name] /\ Still
  BY <1>15 DEF WriteAt
<1>16. CASE /\ job.at = "unbuild" /\ place' = [place EXCEPT ![job.n] = Nowhere]
            /\ owned' = owned \ {job.n} /\ UNCHANGED <<displaced, clobbered, cleared>>
  BY <1>16 DEF WriteAt
<1>17. CASE /\ job.at \in {"place", "placeAgain"} /\ Free(Name) /\ place' = Renamed(Temp(job.n), Name) /\ place' # place
            /\ owned' = owned \cup {job.n} /\ UNCHANGED <<displaced, clobbered, cleared>>
  <2>1. \A c \in Contents : place'[c] = IF place[c] = Temp(job.n) THEN Name ELSE place[c]
    BY <1>17 DEF Renamed, Free, At
  <2>2. \A c \in Contents : place[c] = Temp(job.n) => c = job.n
    BY DEF TempsAreOwn
  <2>3. place[job.n] = Temp(job.n)
    <3>1. SUFFICES ASSUME place[job.n] # Temp(job.n) PROVE FALSE
      OBVIOUS
    <3>2. \A c \in Contents : place'[c] = place[c]
      BY <2>1, <2>2, <3>1
    <3>3. place' = [c \in Contents |-> place'[c]] /\ place = [c \in Contents |-> place[c]]
      BY <1>17 DEF Renamed
    <3>4. place' = place
      BY <3>2, <3>3
    <3> QED BY <1>17, <3>4
  <2> QED BY <1>17, <2>1, <2>2, <2>3 DEF WriteAt
<1>18. CASE job.at = "rescueTemp" /\ place' = Renamed(Temp(job.n), Recovered) /\ Still
  BY <1>18 DEF WriteAt, Renamed
<1> QED BY <1>4, <1>5, <1>6, <1>7, <1>8, <1>9, <1>10, <1>11, <1>12, <1>13, <1>14, <1>15, <1>16, <1>17, <1>18 DEF WriteDisk

LedgerAt(c) ==
    \/ place'[c] = place[c]
    \/ c = Foreign /\ Foreign \notin owned /\ Foreign \in owned' /\ Free(Name) /\ place'[c] = Name
    \/ \E s \in Sweepers :
          /\ sweep[s].now \in Records /\ place[c] = Path(sweep[s].now)
          /\ \/ sweep[s].at = "remove" /\ place'[c] = Nowhere
             \/ sweep[s].at = "restore" /\ sweep[s].now.kind # "Temp" /\ Free(Name) /\ place'[c] = Name
             \/ sweep[s].at = "recover" /\ sweep[s].now.kind # "Temp" /\ place'[c] = Recovered

LEMMA LedgerIs ==
    ASSUME TypeInv, LedgerSteps
    PROVE  /\ \A c \in Contents : LedgerAt(c)
           /\ owned' = owned \/ (Foreign \notin owned /\ owned' = owned \cup {Foreign} /\ place'[Foreign] = Name)
<1>1. LedgerDisk /\ place \in [Contents -> Places] /\ Foreign \in Contents
  BY LedgerDisks, JobsAreContents DEF TypeInv, DiskInv
<1>2. CASE UNCHANGED <<place, owned>>
  BY <1>2 DEF LedgerAt
<1>3. CASE /\ Foreign \notin owned /\ Free(Name) /\ place' = [place EXCEPT ![Foreign] = Name]
           /\ owned' = owned \cup {Foreign}
  BY <1>1, <1>3 DEF LedgerAt
<1>4. ASSUME UNCHANGED owned, NEW s \in Sweepers, Swept(s), NEW c \in Contents
      PROVE  LedgerAt(c)
  <2>1. CASE sweep[s].at = "remove" /\ place' = Removed(Path(sweep[s].now))
    BY <1>4, <2>1 DEF LedgerAt, Swept, Removed
  <2>2. CASE /\ sweep[s].at = "restore" /\ sweep[s].now.kind # "Temp"
             /\ Free(Name) /\ place' = Renamed(Path(sweep[s].now), Name)
    BY <1>4, <2>2 DEF LedgerAt, Swept, Renamed, Free, At
  <2>3. CASE /\ sweep[s].at = "recover" /\ sweep[s].now.kind # "Temp"
             /\ place' = Renamed(Path(sweep[s].now), Recovered)
    BY <1>4, <2>3 DEF LedgerAt, Swept, Renamed
  <2> QED BY <1>4, <2>1, <2>2, <2>3 DEF Swept
<1> QED BY <1>1, <1>2, <1>3, <1>4 DEF LedgerDisk

(***************************************************************************)
(* Where the records are, and what number they have.                       *)
(***************************************************************************)
Known == log \cup recorded \cup pending \cup rewrite \cup InHand

LEMMA InHandIs ==
    /\ \A s \in Sweepers : Hand(s) \subseteq InHand
    /\ \A r \in InHand : \E s \in Sweepers : r \in Hand(s)
BY IdleIs DEF InHand

LEMMA InHandThen ==
    /\ \A s \in Sweepers : Hand(s)' \subseteq InHand'
    /\ \A r \in InHand' : \E s \in Sweepers : r \in Hand(s)'
BY IdleIs DEF InHand

LEMMA KnownIs ==
    ASSUME TypeInv, [Next]_vars
    PROVE  /\ Known' \subseteq Known \cup Owed("track") \cup Owed("keep")
           /\ ~JobSettles => Known' \subseteq Known
           /\ Known \subseteq Records
<1> USE DEF ledgerVars, diskVars, driveVars, storeVars, faultVars, boundVars, historyVars, jobVars
<1>0. Known \subseteq Records /\ \A s \in Sweepers : Hand(s) \subseteq Records
  BY HandIs, InHandIs DEF Known, TypeInv, RestInv
<1>1. ASSUME UNCHANGED <<log, recorded, pending, rewrite, sweep>> PROVE Known' = Known
  BY <1>1 DEF Known, InHand, Hand
<1>2. CASE WriteBegins \/ (WriteSteps /\ job.owes = <<>>) \/ UNCHANGED vars
  <2>1. UNCHANGED <<log, recorded, pending, rewrite, sweep>>
    BY <1>2, BeginIs, StepDisk DEF vars
  <2> QED BY <1>0, <1>1, <2>1
<1>3. CASE JobSettles
  <2>1. PICK w \in RecordCalls, r \in Records :
           /\ r \in Owed(w)
           /\ \/ w = "track" /\ Track(r)
              \/ w = "retire" /\ RetireRecord(r)
              \/ w = "keep" /\ KeepForArrival(r)
              \/ w = "listen" /\ UNCHANGED <<log, recorded, pending, rewrite>> /\ listening' \in {TRUE, listening}
           /\ UNCHANGED sweep
    BY <1>3, SettleIs
  <2>2. InHand' = InHand
    BY <2>1 DEF InHand, Hand
  <2>3. Known' \subseteq Known \cup Owed("track") \cup Owed("keep")
    BY <2>1, <2>2 DEF Known, Track, RetireRecord, KeepForArrival
  <2> QED BY <1>0, <1>3, <2>3
<1>4. CASE Dies
  <2>1. \A s \in Sweepers : Hand(s)' = {}
    BY <1>4, IdleIs DEF Dies, Crash, Hand
  <2>2. InHand' = {}
    BY <2>1, InHandThen
  <2> QED BY <1>0, <1>4, <2>2 DEF Dies, Crash, Known
<1>5. CASE LedgerSteps /\ UNCHANGED jobVars
  <2>1. LedgerMove
    BY <1>5, LedgerStore
  <2>2. CASE SameHands /\ UNCHANGED <<recorded, pending>> /\ log' \cup rewrite' = log \cup rewrite
    <3>1. InHand' = InHand
      BY <2>2, IdleIs DEF SameHands, InHand
    <3> QED BY <1>0, <2>2, <3>1 DEF Known
  <2>3. CASE /\ app = "down" /\ Hand("launch")' = log /\ Hand("arrival")' = {}
             /\ log' = {} /\ UNCHANGED <<recorded, pending, rewrite>>
    <3>1. InHand' = log
      BY <2>3 DEF InHand
    <3> QED BY <1>0, <2>3, <3>1 DEF Known
  <2>4. ASSUME NEW s \in Sweepers, NEW r \in Records, LetsGo(s, r) PROVE Known' \subseteq Known
    <3>1. InHand' \subseteq InHand /\ r \in InHand
      BY <2>4, InHandIs, InHandThen, IdleIs DEF LetsGo, OnlyHand
    <3> QED BY <2>4, <3>1 DEF Known, LetsGo, RetireRecord, Defer
  <2>5. ASSUME NEW s \in Sweepers, TakesUp(s) PROVE Known' \subseteq Known
    <3>1. InHand' \subseteq InHand \cup pending
      BY <2>5, InHandIs, InHandThen, IdleIs DEF TakesUp, OnlyHand
    <3> QED BY <2>5, <3>1 DEF Known, TakesUp
  <2> QED BY <1>0, <2>1, <2>2, <2>3, <2>4, <2>5 DEF LedgerMove
<1> QED BY <1>2, <1>3, <1>4, <1>5, NextIs

\* The write n has had its chance to move something aside.
Past(n) == n < job.n \/ (n = job.n /\ job.at # "fill" /\ job.at # "setAside")

\* Nothing runs ahead of the number of the write at work: no record, no
\* content, nothing set aside; and what a write brings is under its temp or
\* nowhere until the write takes the name.
NumberInv ==
    /\ \A r \in Known : r.job <= job.n
    /\ \A n \in Jobs : n > job.n => place[n] = Nowhere /\ n \notin owned
    /\ \A n \in Jobs, c \in Contents : <<n, c>> \in displaced => Past(n)
    /\ \A n \in Jobs, c \in Contents : place[c] = Aside(n) => <<n, c>> \in displaced /\ c # n
    /\ job.at \in {"fill", "setAside", "land"} => place[job.n] \in {Nowhere, Temp(job.n)} /\ job.n \notin owned
    /\ \A n \in cleared : n <= job.n

LEMMA InitNumberInv == Init => NumberInv
<1> SUFFICES ASSUME Init PROVE NumberInv
  OBVIOUS
<1>1. \A s \in Sweepers : Hand(s) = {}
  BY IdleIs DEF Init, Hand
<1>2. Known = {}
  BY <1>1, InHandIs DEF Init, Known
<1>3. job.n = 0 /\ job.at = "idle" /\ displaced = {} /\ cleared = {}
  BY DEF Init, Rest
<1>4. \A c \in Contents : place[c] \in {Name, Nowhere} /\ (c # Original => place[c] = Nowhere /\ c \notin owned)
  BY DEF Init
<1>5. \A n \in Jobs : n \in Contents /\ n # Original
  BY ContentsAssumption, JobsAreContents
<1> QED BY <1>2, <1>3, <1>4, <1>5, PlacesDiffer DEF NumberInv

LEMMA StepNumberInv == TypeInv /\ NumberInv /\ [Next]_vars => NumberInv'
<1> SUFFICES ASSUME TypeInv, NumberInv, [Next]_vars PROVE NumberInv'
  OBVIOUS
<1> USE DEF ledgerVars, diskVars, driveVars, storeVars, faultVars, boundVars, historyVars, jobVars
<1>0. /\ Jobs \subseteq Nat /\ job.n \in Nat /\ JobInv /\ Jobs \subseteq Contents
      /\ \A n \in Jobs : n # Foreign /\ n # Placeholder
  <2>1. JobInv
    BY DEF TypeInv
  <2>2. \A n \in Jobs : n # Foreign /\ n # Placeholder
    BY ContentsAssumption
  <2> QED BY <2>1, <2>2, JobNumber, JobsAssumption, JobsAreContents
<1>1. ASSUME job'.n \in Nat, job'.n >= job.n PROVE \A r \in Known' : r.job <= job'.n
  <2> SUFFICES ASSUME NEW r \in Known' PROVE r.job <= job'.n
    OBVIOUS
  <2>1. r \in Known \/ r \in Owed("track") \/ r \in Owed("keep")
    BY KnownIs
  <2>2. r \in Records
    BY <2>1, KnownIs DEF Owed
  <2>3. r.job \in Nat
    BY <1>0, <2>2, PathIs
  <2>4. r.job <= job.n
    <3>1. "track" \in RecordCalls /\ "keep" \in RecordCalls
      BY DEF RecordCalls
    <3> QED BY <1>0, <2>1, <3>1 DEF NumberInv, JobInv
  <2> QED BY <1>0, <1>1, <2>3, <2>4
<1>2. CASE WriteBegins
  <2>1. /\ job.n + 1 \in Jobs /\ job'.n = job.n + 1 /\ UNCHANGED <<owned, displaced, cleared>>
        /\ UNCHANGED place \/ place' = [place EXCEPT ![Placeholder] = Name]
    BY <1>2, BeginIs
  <2>2. \A c \in Contents : place'[c] = place[c] \/ (c = Placeholder /\ place'[c] = Name)
    BY <2>1 DEF TypeInv, DiskInv
  <2>3. \A n \in Jobs : place'[n] = place[n]
    BY <1>0, <2>2
  <2>4. \A r \in Known' : r.job <= job'.n
    BY <1>0, <1>1, <2>1
  <2>5. \A n \in Jobs : n > job'.n => place'[n] = Nowhere /\ n \notin owned'
    BY <1>0, <2>1, <2>3 DEF NumberInv
  <2>6. \A n \in Jobs, c \in Contents : <<n, c>> \in displaced' => Past(n)'
    BY <1>0, <2>1 DEF NumberInv, Past
  <2>7. \A n \in Jobs, c \in Contents : place'[c] = Aside(n) => <<n, c>> \in displaced' /\ c # n
    BY <2>1, <2>2, PlacesDiffer DEF NumberInv
  <2>8. place'[job'.n] = Nowhere /\ job'.n \notin owned'
    BY <1>0, <2>1, <2>3 DEF NumberInv
  <2>9. \A n \in cleared' : n <= job'.n
    BY <1>0, <2>1 DEF NumberInv, TypeInv, RestInv
  <2> QED BY <2>4, <2>5, <2>6, <2>7, <2>8, <2>9 DEF NumberInv
<1>3. CASE JobSettles
  <2>1. job'.n = job.n /\ job'.at = job.at /\ UNCHANGED <<place, owned, displaced, cleared>>
    BY <1>3, SettleIs
  <2> QED BY <1>0, <1>1, <2>1 DEF NumberInv, Past
<1>4. CASE WriteSteps /\ job.owes = <<>>
  <2>1. /\ WriteMove /\ job'.n = job.n /\ job.n \in Jobs /\ job.at # "idle"
        /\ \A c \in Contents : WriteAt(c)
        /\ WriteHistory
    BY <1>0, <1>4, StepMoves, WriteIs DEF JobInv
  <2>2. job'.at \in {"fill", "setAside"} => job.at = "fill"
    BY <2>1 DEF WriteMove, Moves, AfterAsides
  <2>3. \A n \in Jobs : Past(n) => Past(n)'
    BY <2>1, <2>2 DEF Past
  <2>4. \A r \in Known' : r.job <= job'.n
    BY <1>0, <1>1, <2>1
  <2>5. \A n \in Jobs : n > job'.n => place'[n] = Nowhere /\ n \notin owned'
    <3> SUFFICES ASSUME NEW n \in Jobs, n > job'.n PROVE place'[n] = Nowhere /\ n \notin owned'
      OBVIOUS
    <3>1. n # job.n /\ n \in Contents /\ place[n] = Nowhere /\ n \notin owned
      BY <1>0, <2>1 DEF NumberInv
    <3>2. WriteAt(n)
      BY <2>1, <3>1
    <3> QED BY <2>1, <3>1, <3>2, PlacesDiffer DEF WriteAt, WriteHistory
  <2>6. \A n \in Jobs, c \in Contents : <<n, c>> \in displaced' => Past(n)'
    <3> SUFFICES ASSUME NEW n \in Jobs, NEW c \in Contents, <<n, c>> \in displaced' PROVE Past(n)'
      OBVIOUS
    <3>1. CASE <<n, c>> \in displaced
      BY <2>3, <3>1 DEF NumberInv
    <3>2. CASE <<n, c>> \notin displaced
      BY <2>1, <2>2, <3>2 DEF WriteHistory, Past
    <3> QED BY <3>1, <3>2
  <2>7. \A n \in Jobs, c \in Contents : place'[c] = Aside(n) => <<n, c>> \in displaced' /\ c # n
    <3> SUFFICES ASSUME NEW n \in Jobs, NEW c \in Contents, place'[c] = Aside(n) PROVE <<n, c>> \in displaced' /\ c # n
      OBVIOUS
    <3>1. CASE place[c] = Aside(n)
      BY <2>1, <3>1 DEF NumberInv, WriteHistory
    <3>2. CASE place[c] # Aside(n)
      <4>1. job.at = "setAside" /\ place[c] = Name /\ place'[c] = Aside(job.n) /\ <<job.n, c>> \in displaced'
        BY <2>1, <3>2, PlacesDiffer DEF WriteAt
      <4>2. n = job.n
        BY <4>1, PlacesDiffer
      <4>3. place[job.n] # Name
        BY <4>1, PlacesDiffer DEF NumberInv
      <4> QED BY <4>1, <4>2, <4>3
    <3> QED BY <3>1, <3>2
  <2>8. job'.at \in {"fill", "setAside", "land"} => place'[job'.n] \in {Nowhere, Temp(job'.n)} /\ job'.n \notin owned'
    <3> SUFFICES ASSUME job'.at \in {"fill", "setAside", "land"}
                 PROVE  place'[job'.n] \in {Nowhere, Temp(job'.n)} /\ job'.n \notin owned'
      OBVIOUS
    <3>1. job.at \in {"fill", "setAside"} /\ WriteAt(job.n)
      BY <1>0, <2>1 DEF WriteMove, Moves, AfterAsides
    <3>2. place[job.n] \in {Nowhere, Temp(job.n)} /\ job.n \notin owned
      BY <3>1 DEF NumberInv
    <3> QED BY <2>1, <3>1, <3>2, PlacesDiffer DEF WriteAt, WriteHistory, TempDrops
  <2>9. \A n \in cleared' : n <= job'.n
    BY <1>0, <2>1 DEF NumberInv, WriteHistory
  <2> QED BY <2>4, <2>5, <2>6, <2>7, <2>8, <2>9 DEF NumberInv
<1>5. CASE Dies
  <2>1. job'.n = job.n /\ job'.at = "idle" /\ UNCHANGED <<place, owned, displaced, cleared>>
    BY <1>5 DEF Dies, Crash, Rest
  <2> QED BY <1>0, <1>1, <2>1 DEF NumberInv, Past
<1>6. CASE UNCHANGED vars
  <2>1. UNCHANGED <<job, place, owned, displaced, cleared>>
    BY <1>6 DEF vars
  <2> QED BY <1>0, <1>1, <2>1 DEF NumberInv, Past
<1>7. CASE LedgerSteps /\ UNCHANGED jobVars
  <2>1. /\ \A c \in Contents : LedgerAt(c)
        /\ owned' = owned \/ owned' = owned \cup {Foreign}
        /\ UNCHANGED <<job, displaced, cleared>>
    BY <1>7, LedgerIs
  <2>2. ASSUME NEW c \in Contents, NEW n \in Jobs, place'[c] = Aside(n) PROVE place[c] = Aside(n)
    BY <2>1, <2>2, PlacesDiffer DEF LedgerAt
  <2>3. ASSUME NEW n \in Jobs, place[n] = Nowhere PROVE place'[n] = Nowhere
    <3>1. \A s \in Sweepers : sweep[s].now \in Records => Path(sweep[s].now) # Nowhere
      BY PathIs, PlacesDiffer
    <3> QED BY <1>0, <2>1, <2>3, <3>1 DEF LedgerAt
  <2>4. ASSUME NEW n \in Jobs, place[n] = Temp(n) PROVE place'[n] \in {Nowhere, Temp(n)}
    <3>1. \A r \in Records : r.kind # "Temp" => Path(r) # Temp(n)
      BY PathIs, PlacesDiffer
    <3> QED BY <1>0, <2>1, <2>4, <3>1 DEF LedgerAt
  <2>5. \A r \in Known' : r.job <= job'.n
    BY <1>0, <1>1, <2>1
  <2>6. \A n \in Jobs : n > job'.n => place'[n] = Nowhere /\ n \notin owned'
    BY <1>0, <2>1, <2>3 DEF NumberInv
  <2>7. /\ \A n \in Jobs, c \in Contents : <<n, c>> \in displaced' => Past(n)'
        /\ \A n \in Jobs, c \in Contents : place'[c] = Aside(n) => <<n, c>> \in displaced' /\ c # n
        /\ \A n \in cleared' : n <= job'.n
    BY <2>1, <2>2 DEF NumberInv, Past
  <2>8. job'.at \in {"fill", "setAside", "land"} => place'[job'.n] \in {Nowhere, Temp(job'.n)} /\ job'.n \notin owned'
    <3> SUFFICES ASSUME job.at \in {"fill", "setAside", "land"}
                 PROVE  place'[job.n] \in {Nowhere, Temp(job.n)} /\ job.n \notin owned'
      BY <2>1
    <3>1. job.n \in Jobs /\ place[job.n] \in {Nowhere, Temp(job.n)} /\ job.n \notin owned
      BY <1>0 DEF NumberInv, JobInv
    <3> QED BY <1>0, <2>1, <2>3, <2>4, <3>1
  <2> QED BY <2>5, <2>6, <2>7, <2>8 DEF NumberInv
<1> QED BY <1>2, <1>3, <1>4, <1>5, <1>6, <1>7, NextIs

(***************************************************************************)
(* A sweep spares what a live write is using.                              *)
(***************************************************************************)
RestAts(r) == IF r.kind = "Temp" THEN {"idle"} ELSE {"idle", "discard", "askTable", "dropTemp"}
Held == pending \cup InHand

\* What waits or is in a hand is no write's at work, and nobody is about to
\* record it, retire it or keep it; and nothing waits that is in a hand, or
\* is in both.
SpareInv ==
    /\ \A r \in Held : r.job = job.n => job.at \in RestAts(r)
    /\ \A w \in {"track", "retire", "keep"} : Owed(w) \cap Held = {}
    /\ \A r \in Owed("keep") : job.at \in RestAts(r)
    /\ pending \cap InHand = {}
    /\ Hand("launch") \cap Hand("arrival") = {}

\* A call owed by a write's step is about a record the write was not done
\* with, and a write that keeps one is done with it.
LEMMA MoveOwesOwn ==
    ASSUME TypeInv, WriteSteps, job.owes = <<>>, NEW w \in {"track", "retire", "keep"}, NEW r \in Owed(w)'
    PROVE  /\ r.job = job.n /\ job.at \notin RestAts(r)
           /\ w = "keep" => job'.at \in RestAts(r)
<1>1. /\ WriteMove /\ job.at # "idle" /\ OwnTemp.kind = "Temp" /\ OwnAside.kind # "Temp"
      /\ OwnTemp.job = job.n /\ OwnAside.job = job.n
  BY StepMoves, OwnRecords DEF TypeInv, JobInv
<1>2. job'.owes = Owe(w, r)
  BY DEF Owed
<1>3. PICK v \in {"track", "retire", "keep"}, q \in {OwnTemp, OwnAside} :
         /\ job'.owes = Owe(v, q)
         /\ q = OwnAside => job.at \notin {"discard", "askTable", "dropTemp"}
         /\ v = "keep" /\ q = OwnTemp => job'.at = "idle"
         /\ v = "keep" /\ q = OwnAside => job'.at \in {"idle", "discard", "dropTemp"}
  <2>1. job'.owes # <<>>
    BY <1>2, OwesDiffer
  <2>2. OwnTemp # OwnAside
    BY <1>1
  <2>3. Owe("track", OwnAside) # Owe("keep", OwnAside) /\ Owe("retire", OwnTemp) # Owe("keep", OwnTemp)
    BY OwesDiffer
  <2> QED BY <1>1, <2>1, <2>2, <2>3 DEF WriteMove, Moves, AfterAsides
<1>4. Owe(w, r) = Owe(v, q)
  BY <1>2, <1>3
<1>5. w = v /\ r = q
  BY <1>4, OwesDiffer
<1> QED BY <1>1, <1>3, <1>5 DEF RestAts

LEMMA InitSpareInv == Init => SpareInv
<1> SUFFICES ASSUME Init PROVE SpareInv
  OBVIOUS
<1>1. \A s \in Sweepers : Hand(s) = {}
  BY IdleIs DEF Init, Hand
<1>2. Held = {} /\ Hand("launch") = {}
  BY <1>1, InHandIs, IdleIs DEF Init, Held
<1>3. \A w : Owed(w) = {}
  BY OwedIs DEF Init, Rest
<1> QED BY <1>1, <1>2, <1>3 DEF SpareInv, Held

LEMMA StepSpareInv == TypeInv /\ NumberInv /\ SpareInv /\ [Next]_vars => SpareInv'
<1> SUFFICES ASSUME TypeInv, NumberInv, SpareInv, [Next]_vars PROVE SpareInv'
  OBVIOUS
<1> USE DEF ledgerVars, diskVars, driveVars, storeVars, faultVars, boundVars, historyVars, jobVars
<1>0. /\ Held \subseteq Known /\ Held \subseteq Records /\ JobInv
      /\ \A s \in Sweepers : Hand(s) \subseteq Held
  BY KnownIs, InHandIs DEF Held, Known, TypeInv
<1>1. UNCHANGED <<pending, sweep>> => UNCHANGED pending /\ Held' = Held /\ InHand' = InHand /\ SameHands
  BY DEF Held, InHand, Hand, SameHands
<1>2. CASE WriteBegins
  <2>1. /\ job'.n = job.n + 1 /\ job.n + 1 \in Jobs /\ UNCHANGED <<pending, sweep>>
        /\ job'.owes \in {Owe("track", OwnTemp'), Owe("track", OwnAside')}
    BY <1>2, BeginIs
  <2>2. \A r \in Held : r.job # job'.n
    <3>1. job.n \in Nat /\ \A r \in Held : r.job \in Nat /\ r.job <= job.n
      <4>1. job.n \in Nat
        BY <1>0, JobNumber
      <4>2. \A r \in Held : r.job \in Nat
        BY <1>0, PathIs, JobsAssumption
      <4>3. \A r \in Held : r.job <= job.n
        BY <1>0 DEF NumberInv
      <4> QED BY <4>1, <4>2, <4>3
    <3> QED BY <2>1, <3>1
  <2>3. OwnTemp'.job = job'.n /\ OwnAside'.job = job'.n
    BY DEF OwnTemp, TempOf, OwnAside, AsideOf
  <2>4. ASSUME NEW w \in {"track", "retire", "keep"}, NEW r \in Owed(w)' PROVE r.job = job'.n /\ w # "keep"
    <3>1. job'.owes = Owe(w, r)
      BY DEF Owed
    <3>2. Owe(w, r) = Owe("track", OwnTemp') \/ Owe(w, r) = Owe("track", OwnAside')
      BY <2>1, <3>1
    <3>3. w = "track" /\ (r = OwnTemp' \/ r = OwnAside')
      BY <3>2, OwesDiffer
    <3> QED BY <2>3, <3>3
  <2>5. Held' = Held /\ SameHands /\ InHand' = InHand
    BY <1>1, <2>1
  <2>6. \A r \in Held' : r.job # job'.n
    BY <2>2, <2>5
  <2>7. \A w \in {"track", "retire", "keep"} : Owed(w)' \cap Held' = {}
    BY <2>4, <2>6
  <2>8. Owed("keep")' = {}
    BY <2>4
  <2> QED BY <1>1, <2>1, <2>5, <2>6, <2>7, <2>8, IdleIs DEF SpareInv, SameHands
<1>3. CASE JobSettles
  <2>1. PICK w \in RecordCalls, r \in Records :
           /\ r \in Owed(w) /\ job'.n = job.n /\ job'.at = job.at
           /\ job'.owes = IF w = "keep" THEN Owe("listen", r) ELSE <<>>
           /\ \/ w = "track" /\ Track(r)
              \/ w = "retire" /\ RetireRecord(r)
              \/ w = "keep" /\ KeepForArrival(r)
              \/ w = "listen" /\ UNCHANGED <<log, recorded, pending, rewrite>> /\ listening' \in {TRUE, listening}
           /\ UNCHANGED sweep
    BY <1>3, SettleIs
  <2>2. ASSUME NEW v \in {"track", "retire", "keep"} PROVE Owed(v)' = {}
    <3> SUFFICES ASSUME NEW q \in Owed(v)' PROVE FALSE
      OBVIOUS
    <3>1. job'.owes = Owe(v, q)
      BY DEF Owed
    <3>2. Owe("listen", r) = Owe(v, q)
      BY <2>1, <3>1, OwesDiffer
    <3>3. v = "listen"
      BY <3>2, OwesDiffer
    <3> QED BY <3>3
  <2>3. SameHands /\ InHand' = InHand
    BY <2>1 DEF SameHands, InHand, Hand
  <2>4. pending' \subseteq pending \/ (w = "keep" /\ pending' \subseteq pending \cup {r})
    BY <2>1 DEF Track, RetireRecord, KeepForArrival
  <2>5. w = "keep" => r \notin InHand /\ job.at \in RestAts(r)
    BY <1>0, <2>1 DEF SpareInv, Held
  <2>6. \A q \in Held' : q.job = job'.n => job'.at \in RestAts(q)
    <3>1. \A q \in Held' : q \in Held \/ (w = "keep" /\ q = r)
      BY <2>3, <2>4 DEF Held
    <3> QED BY <2>1, <2>5, <3>1 DEF SpareInv
  <2>7. pending' \cap InHand' = {}
    BY <2>3, <2>4, <2>5 DEF SpareInv
  <2> QED BY <2>2, <2>3, <2>6, <2>7, IdleIs DEF SpareInv, SameHands
<1>4. CASE WriteSteps /\ job.owes = <<>>
  <2>1. /\ WriteMove /\ job'.n = job.n /\ job.at # "idle" /\ UNCHANGED <<pending, sweep>>
    BY <1>4, StepMoves, StepDisk
  <2>2. Held' = Held /\ SameHands /\ InHand' = InHand
    BY <1>1, <2>1
  <2>3. ASSUME NEW r \in Held, r.job = job.n PROVE job'.at \in RestAts(r)
    <3>1. job.at \in {"discard", "askTable", "dropTemp"} /\ r.kind # "Temp"
      BY <2>1, <2>3 DEF SpareInv, RestAts
    <3>2. job.kind = "staged" => job.at \in StagedAts
      BY <1>0 DEF JobInv
    <3>3. job'.at \in {"idle", "askTable"}
      BY <2>1, <3>1, <3>2 DEF WriteMove, Moves, StagedAts, AfterAsides
    <3> QED BY <3>1, <3>3 DEF RestAts
  <2>4. ASSUME NEW w \in {"track", "retire", "keep"}, NEW r \in Owed(w)' PROVE r \notin Held /\ (w = "keep" => job'.at \in RestAts(r))
    BY <1>4, MoveOwesOwn DEF SpareInv
  <2>5. \A w \in {"track", "retire", "keep"} : Owed(w)' \cap Held' = {}
    BY <2>2, <2>4
  <2> QED BY <2>1, <2>2, <2>3, <2>4, <2>5, IdleIs DEF SpareInv, SameHands
<1>5. CASE Dies
  <2>1. \A s \in Sweepers : Hand(s)' = {}
    BY <1>5, IdleIs DEF Dies, Crash, Hand
  <2>2. InHand' = {} /\ pending' = {} /\ job'.owes = <<>>
    BY <1>5, <2>1, InHandThen DEF Dies, Crash, Rest
  <2>3. \A w : Owed(w)' = {}
    BY <2>2, OwesDiffer DEF Owed
  <2> QED BY <2>1, <2>2, <2>3, IdleIs DEF SpareInv, Held
<1>6. CASE UNCHANGED vars
  BY <1>6 DEF vars, SpareInv, Held, InHand, Hand, Owed
<1>7. CASE LedgerSteps /\ UNCHANGED jobVars
  <2>1. LedgerMove /\ UNCHANGED job /\ \A w : Owed(w)' = Owed(w)
    BY <1>7, LedgerStore DEF Owed
  <2>2. ASSUME Held' \subseteq Held, pending' \cap InHand' = {}, Hand("launch")' \cap Hand("arrival")' = {} PROVE SpareInv'
    BY <2>1, <2>2 DEF SpareInv
  <2>3. CASE SameHands /\ UNCHANGED <<recorded, pending>>
    <3>1. InHand' = InHand /\ Held' = Held
      BY <2>3, IdleIs DEF SameHands, InHand, Held
    <3> QED BY <2>2, <2>3, <3>1, IdleIs DEF SpareInv, SameHands
  <2>4. CASE /\ app = "down" /\ Hand("launch")' = log /\ Hand("arrival")' = {}
             /\ UNCHANGED <<recorded, pending, rewrite>>
    <3>1. InHand' = log /\ pending = {} /\ job.at = "idle" /\ job.owes = <<>>
      BY <2>4 DEF InHand, TypeInv, StoreInv
    <3>2. \A w : Owed(w)' = {}
      BY <2>1, <3>1, OwedIs
    <3>3. \A r : job'.at \in RestAts(r)
      BY <2>1, <3>1 DEF RestAts
    <3> QED BY <2>4, <3>1, <3>2, <3>3 DEF SpareInv, Held
  <2>5. ASSUME NEW s \in Sweepers, NEW r \in Records, LetsGo(s, r) PROVE SpareInv'
    <3>1. /\ r \in Hand(s) /\ Hand(s)' = Hand(s) \ {r} /\ \A t \in Sweepers : t # s => Hand(t)' = Hand(t)
          /\ pending' \subseteq pending \cup {r}
      BY <2>5 DEF LetsGo, OnlyHand, RetireRecord, Defer
    <3>2. \A t \in Sweepers : r \notin Hand(t)'
      BY <3>1, IdleIs DEF SpareInv
    <3>3. InHand' \subseteq InHand /\ r \in InHand /\ r \notin InHand'
      BY <3>1, <3>2, InHandIs, InHandThen
    <3>4. Held' \subseteq Held /\ pending' \cap InHand' = {}
      BY <3>1, <3>3 DEF Held, SpareInv
    <3>5. Hand("launch")' \subseteq Hand("launch") /\ Hand("arrival")' \subseteq Hand("arrival")
      BY <3>1, IdleIs
    <3> QED BY <2>2, <3>4, <3>5 DEF SpareInv
  <2>6. ASSUME NEW s \in Sweepers, TakesUp(s) PROVE SpareInv'
    <3>1. /\ Hand(s)' = pending /\ pending' = {} /\ \A t \in Sweepers : t # s => Hand(t)' = Hand(t)
      BY <2>6 DEF TakesUp, OnlyHand
    <3>2. InHand' \subseteq InHand \cup pending
      BY <3>1, InHandIs, InHandThen
    <3>3. \A t \in Sweepers : t # s => Hand(t)' \cap pending = {}
      BY <3>1, InHandIs DEF SpareInv
    <3>4. Hand("launch")' \cap Hand("arrival")' = {}
      BY <3>1, <3>3, IdleIs
    <3> QED BY <2>2, <3>1, <3>2, <3>4 DEF Held
  <2> QED BY <2>1, <2>3, <2>4, <2>5, <2>6 DEF LedgerMove
<1> QED BY <1>2, <1>3, <1>4, <1>5, <1>6, <1>7, NextIs

LEMMA Numbering == Spec => []NumberInv
<1>1. TypeInv /\ NumberInv /\ [Next]_vars => NumberInv'
  BY StepNumberInv
<1> QED BY <1>1, InitNumberInv, Typing, PTL DEF Spec

LEMMA Sparing == Spec => []SpareInv
<1>1. TypeInv /\ NumberInv /\ SpareInv /\ [Next]_vars => SpareInv'
  BY StepSpareInv
<1> QED BY <1>1, InitSpareInv, Typing, Numbering, PTL DEF Spec

\* A sweep never has in its hand a record of a temp or an aside that a live
\* write is using, nor one the other sweep has, nor one that waits for an
\* arrival.
THEOREM LiveIsSpared == Spec => []SweepSparesLive
<1>1. SpareInv => SweepSparesLive
  <2> SUFFICES ASSUME SpareInv PROVE SweepSparesLive
    OBVIOUS
  <2>1. \A r \in InHand : r.job = job.n => job.at \in RestAts(r)
    BY DEF SpareInv, Held
  <2>2. \A r : RestAts(r) \cap (IF r.kind = "Temp" THEN UsesTemp ELSE UsesAside) = {}
    BY DEF RestAts, UsesTemp, UsesAside
  <2>3. \A r \in InHand : r.job = job.n => job.at \notin IF r.kind = "Temp" THEN UsesTemp ELSE UsesAside
    BY <2>1, <2>2
  <2> QED BY <2>3 DEF SpareInv, SweepSparesLive
<1> QED BY <1>1, Sparing, PTL

(***************************************************************************)
(* What stands under an aside name is answered for.                        *)
(***************************************************************************)
Answered == log \cup InHand \cup rewrite \cup forgotten \cup mislaid
Settled(r) == r.kind = "Temp" \/ Free(Path(r)) \/ r \in forgotten \cup mislaid

\* The ledger has a record before the rename it is about, and whoever is
\* about to retire one has nothing left under its path.
AsideInv ==
    /\ \A n \in Jobs : ~Free(Aside(n)) => \E r \in Answered : Path(r) = Aside(n)
    /\ job.at = "setAside" => OwnAside \in IF job.owes = <<>> THEN recorded ELSE Owed("track")
    /\ \A r \in Owed("retire") : Settled(r)
    /\ \A s \in Sweepers, r \in Records : sweep[s].at = "retire" /\ sweep[s].now = r => Settled(r)

LEMMA HistoryGrows ==
    ASSUME TypeInv, [Next]_vars
    PROVE  forgotten \subseteq forgotten' /\ mislaid \subseteq mislaid'
<1> USE DEF historyVars, jobVars, vars, ledgerVars
<1>1. CASE WriteBegins \/ JobSettles \/ UNCHANGED vars
  BY <1>1, BeginIs, SettleIs
<1>2. CASE WriteSteps /\ job.owes = <<>>
  BY <1>2, StepDisk
<1>3. CASE LedgerSteps /\ UNCHANGED jobVars
  BY <1>3, LedgerDisks
<1>4. CASE Dies
  BY <1>4 DEF Dies, Crash
<1> QED BY <1>1, <1>2, <1>3, <1>4, NextIs

LEMMA AsidesStayFree ==
    ASSUME TypeInv, [Next]_vars, NEW n \in Jobs, Free(Aside(n)),
           ~(WriteSteps /\ job.owes = <<>> /\ job.at = "setAside" /\ n = job.n)
    PROVE  Free(Aside(n))'
<1> USE DEF diskVars, vars, ledgerVars
<1> SUFFICES ASSUME NEW c \in Contents PROVE place'[c] # Aside(n)
  BY DEF Free, At
<1>0. place[c] # Aside(n) /\ place \in [Contents -> Places]
  BY DEF Free, At, TypeInv, DiskInv
<1>1. CASE WriteBegins
  <2>1. place'[c] = place[c] \/ place'[c] = Name
    BY <1>0, <1>1, BeginIs
  <2> QED BY <1>0, <2>1, PlacesDiffer
<1>2. CASE JobSettles \/ Dies \/ UNCHANGED vars
  <2>1. UNCHANGED place
    BY <1>2, SettleIs DEF Dies, Crash
  <2> QED BY <1>0, <2>1
<1>3. CASE WriteSteps /\ job.owes = <<>>
  <2>1. WriteAt(c)
    BY <1>3, WriteIs
  <2>2. job.at = "setAside" => Aside(job.n) # Aside(n)
    BY <1>3, PlacesDiffer
  <2> QED BY <1>0, <2>1, <2>2, PlacesDiffer DEF WriteAt
<1>4. CASE LedgerSteps /\ UNCHANGED jobVars
  <2>1. LedgerAt(c)
    BY <1>4, LedgerIs
  <2> QED BY <1>0, <2>1, PlacesDiffer DEF LedgerAt
<1> QED BY <1>1, <1>2, <1>3, <1>4, NextIs

LEMMA SettledStays ==
    ASSUME TypeInv, [Next]_vars, NEW r \in Records, Settled(r), ~(job.at = "setAside" /\ r.kind # "Temp" /\ r.job = job.n)
    PROVE  Settled(r)'
<1>1. CASE r.kind = "Temp"
  BY <1>1 DEF Settled
<1>2. CASE r \in forgotten \cup mislaid
  BY <1>2, HistoryGrows DEF Settled
<1>3. CASE r.kind # "Temp" /\ Free(Path(r))
  <2>1. Path(r) = Aside(r.job) /\ r.job \in Jobs
    BY <1>3, PathIs
  <2>2. Free(Aside(r.job))'
    BY <1>3, <2>1, AsidesStayFree
  <2>3. Free(Path(r))' <=> Free(Aside(r.job))'
    BY <2>1 DEF Free, At
  <2> QED BY <2>2, <2>3 DEF Settled
<1> QED BY <1>1, <1>2, <1>3 DEF Settled

\* A write that is to retire its aside has freed the aside's name.
LEMMA RetiresSettled ==
    ASSUME TypeInv, NumberInv, WriteSteps, job.owes = <<>>, NEW r \in Owed("retire")'
    PROVE  Settled(r)'
<1>1. /\ WriteMove /\ job.at # "idle" /\ job.n \in Jobs /\ ~JobSettles
      /\ OwnTemp.kind = "Temp" /\ OwnAside.kind # "Temp" /\ Path(OwnAside) = Aside(job.n)
  BY StepMoves, OwnRecords DEF TypeInv, JobInv, JobSettles
<1>2. job'.owes = Owe("retire", r)
  BY DEF Owed
<1>3. r = OwnTemp \/ (r = OwnAside /\ job.at \in {"setAside", "putBack", "bringBack", "rescue", "recover", "removeAside"})
  <2>1. PICK w \in {"track", "retire", "keep"}, q \in {OwnTemp, OwnAside} :
           job'.owes = Owe(w, q) /\ (w = "retire" /\ q = OwnAside =>
               job.at \in {"setAside", "putBack", "bringBack", "rescue", "recover", "removeAside"})
    <3>1. job'.owes # <<>>
      BY <1>2, OwesDiffer
    <3>2. OwnTemp # OwnAside
      BY <1>1
    <3>3. Owe("track", OwnAside) # Owe("retire", OwnAside) /\ Owe("keep", OwnAside) # Owe("retire", OwnAside)
      BY OwesDiffer
    <3> QED BY <1>1, <3>1, <3>2, <3>3 DEF WriteMove, Moves, AfterAsides
  <2>2. Owe("retire", r) = Owe(w, q)
    BY <1>2, <2>1
  <2>3. w = "retire" /\ r = q
    BY <2>2, OwesDiffer
  <2> QED BY <2>1, <2>3
<1>4. CASE r = OwnTemp
  BY <1>1, <1>4 DEF Settled
<1>5. ASSUME r = OwnAside, \A c \in Contents : place'[c] # Aside(job.n) PROVE Settled(r)'
  <2>1. \A c \in Contents : place'[c] # Path(r)
    BY <1>1, <1>5
  <2>2. Free(Path(r))'
    BY <2>1 DEF Free, At
  <2> QED BY <2>2 DEF Settled
<1>6. CASE r = OwnAside /\ job.at = "setAside"
  <2>1. SetAside \/ DropAside \/ DropTask
    BY <1>1, <1>6 DEF WriteSteps, JobAt, CreateTemp, FillTemp, FillFails, Land, ClearFailed, PutBack, BringBack, Rescue,
     KeepAsRecovered, RemoveAside, AsideEnds, Discard, AskTable, DropTemp, MakeDirectory, FillFolder,
     OperationEnds, RemoveFolder, Place, PlaceAgain, Lands, ReleasesForClaimed, ClearName, LookAgain, RescueTemp,
     DiscardUnplaced, Toss, SweepOwn
  <2>2. SetAside
    <3>1. CASE DropAside \/ DropTask
      <4>1. Goto("idle", <<>>) \/ Goto("sweepOwn", <<>>)
        BY <3>1 DEF DropAside, DropTask
      <4>2. job'.owes = <<>>
        BY <4>1, GotoIs, OwingsAre DEF JobAts, TypeInv
      <4> QED BY <1>2, <4>2, OwesDiffer
    <3> QED BY <2>1, <3>1
  <2>3. UNCHANGED place \/ OwnAside \in mislaid'
    <3>1. CASE ~Free(Name) /\ \E at : Succeeds(Renamed(Name, Aside(job.n)), at, <<>>)
      <4>1. job'.owes = <<>>
        BY <3>1 DEF Succeeds, Goto, Rest
      <4> QED BY <1>2, <4>1, OwesDiffer
    <3> QED BY <2>2, <3>1 DEF SetAside, Performed
  <2>4. \A c \in Contents : place[c] # Aside(job.n)
    <3>1. \A c \in Contents : <<job.n, c>> \notin displaced
      BY <1>1, <1>6, JobNumber DEF NumberInv, Past, TypeInv
    <3> QED BY <1>1, <3>1 DEF NumberInv
  <2>5. CASE UNCHANGED place
    BY <1>5, <1>6, <2>4, <2>5
  <2>6. CASE OwnAside \in mislaid'
    BY <1>6, <2>6 DEF Settled
  <2> QED BY <2>3, <2>5, <2>6
<1>7. CASE r = OwnAside /\ job.at \in {"putBack", "bringBack", "rescue", "recover", "removeAside"}
  <2>1. PutBack \/ BringBack \/ Rescue \/ KeepAsRecovered \/ RemoveAside \/ DropTask
    BY <1>1, <1>7 DEF WriteSteps, JobAt, CreateTemp, FillTemp, FillFails, SetAside, Land, ClearFailed,
     Discard, AskTable, DropTemp, DropAside, MakeDirectory, FillFolder,
     OperationEnds, RemoveFolder, Place, PlaceAgain, Lands, ReleasesForClaimed, ClearName, LookAgain, RescueTemp,
     DiscardUnplaced, Toss, SweepOwn
  <2>2. PICK from, disk, possible, next, otherwise :
          /\ disk \in {Renamed(OwnPlace, Name), Renamed(OwnPlace, Recovered), Removed(OwnPlace)}
          /\ AsideEnds(from, disk, possible, next, otherwise)
    <3>1. CASE DropTask
      <4>1. job'.owes = <<>>
        BY <3>1 DEF DropTask, Goto, Rest, TypeInv, JobInv
      <4> QED BY <1>2, <4>1, OwesDiffer
    <3>2. CASE PutBack \/ BringBack
      BY <3>2 DEF PutBack, BringBack
    <3>3. CASE Rescue \/ KeepAsRecovered
      BY <3>3 DEF Rescue, KeepAsRecovered
    <3>4. CASE RemoveAside
      BY <3>4 DEF RemoveAside
    <3> QED BY <2>1, <3>1, <3>2, <3>3, <3>4
  <2>3. place' = disk
    <3>1. CASE Succeeds(disk, next, Owe("retire", OwnAside))
      BY <3>1 DEF Succeeds
    <3>2. CASE Goto(otherwise, IF otherwise = "rescue" THEN <<>> ELSE Owe("keep", OwnAside))
      <4>1. job'.owes = IF otherwise = "rescue" THEN <<>> ELSE Owe("keep", OwnAside)
        <5>1. PICK o : o = IF otherwise = "rescue" THEN <<>> ELSE Owe("keep", OwnAside)
          OBVIOUS
        <5>2. Goto(otherwise, o)
          BY <3>2, <5>1
        <5>3. job'.owes = o
          BY <5>2 DEF Goto, Rest, TypeInv, JobInv
        <5> QED BY <5>1, <5>3
      <4>2. Owe("retire", r) # <<>> /\ Owe("retire", r) # Owe("keep", OwnAside)
        BY OwesDiffer
      <4> QED BY <1>2, <4>1, <4>2
    <3> QED BY <2>2, <3>1, <3>2 DEF AsideEnds, Fails
  <2>4. \A c \in Contents : place'[c] # Aside(job.n)
    BY <2>2, <2>3, PlacesDiffer DEF OwnPlace, Renamed, Removed
  <2> QED BY <1>5, <1>7, <2>4
<1> QED BY <1>3, <1>4, <1>6, <1>7

LEMMA InitAsideInv == Init => AsideInv
<1> SUFFICES ASSUME Init PROVE AsideInv
  OBVIOUS
<1>1. \A c \in Contents : place[c] \in {Name, Nowhere}
  BY DEF Init
<1>2. \A n \in Jobs : Free(Aside(n))
  BY <1>1, PlacesDiffer DEF Free, At
<1>3. job.at = "idle" /\ \A w : Owed(w) = {}
  BY OwedIs DEF Init, Rest
<1>4. \A s \in Sweepers : sweep[s].at = "idle"
  BY IdleIs DEF Init
<1> QED BY <1>2, <1>3, <1>4 DEF AsideInv

\* Who a record is answered for by, step by step: one that is let go of for
\* good has nothing under its path.
LEMMA AnsweredStays ==
    ASSUME TypeInv, SpareInv, AsideInv, [Next]_vars, NEW r \in Answered
    PROVE  r \in Answered' \/ Settled(r)
<1> USE DEF ledgerVars, diskVars, driveVars, storeVars, faultVars, boundVars, historyVars, jobVars
<1>0. forgotten \cup mislaid \subseteq Answered'
  BY HistoryGrows DEF Answered
<1>1. ASSUME UNCHANGED <<log, rewrite, sweep>> PROVE r \in Answered'
  BY <1>0, <1>1 DEF Answered, InHand, Hand
<1>2. CASE WriteBegins \/ (WriteSteps /\ job.owes = <<>>) \/ UNCHANGED vars
  <2>1. UNCHANGED <<log, rewrite, sweep>>
    BY <1>2, BeginIs, StepDisk DEF vars
  <2> QED BY <1>1, <2>1
<1>3. CASE JobSettles
  <2>1. PICK w \in RecordCalls, q \in Records :
           /\ q \in Owed(w)
           /\ \/ w = "track" /\ Track(q)
              \/ w = "retire" /\ RetireRecord(q)
              \/ w = "keep" /\ KeepForArrival(q)
              \/ w = "listen" /\ UNCHANGED <<log, recorded, pending, rewrite>> /\ listening' \in {TRUE, listening}
           /\ UNCHANGED sweep
    BY <1>3, SettleIs
  <2>2. InHand' = InHand
    BY <2>1 DEF InHand, Hand
  <2>3. CASE w = "retire" /\ r = q
    BY <2>1, <2>3 DEF AsideInv
  <2>4. CASE ~(w = "retire" /\ r = q)
    BY <1>0, <2>1, <2>2, <2>4 DEF Answered, Track, RetireRecord, KeepForArrival
  <2> QED BY <2>3, <2>4
<1>4. CASE Dies
  BY <1>0, <1>4 DEF Dies, Crash, Answered
<1>5. CASE LedgerSteps /\ UNCHANGED jobVars
  <2>1. LedgerMove
    BY <1>5, LedgerStore
  <2>2. CASE SameHands /\ log' \cup rewrite' = log \cup rewrite
    <3>1. InHand' = InHand
      BY <2>2, IdleIs DEF SameHands, InHand
    <3>2. r \in log \cup rewrite \cup InHand \cup forgotten \cup mislaid
      BY DEF Answered
    <3> QED BY <1>0, <2>2, <3>1, <3>2 DEF Answered
  <2>3. CASE app = "down" /\ Hand("launch")' = log /\ UNCHANGED rewrite
    <3>1. rewrite = {} /\ \A s \in Sweepers : Hand(s) = {}
      BY <2>3, IdleIs DEF TypeInv, StoreInv, Hand
    <3>2. InHand = {} /\ log \subseteq InHand'
      BY <2>3, <3>1, IdleIs DEF InHand
    <3> QED BY <1>0, <3>1, <3>2 DEF Answered
  <2>4. ASSUME NEW s \in Sweepers, NEW q \in Records, LetsGo(s, q) PROVE r \in Answered' \/ Settled(r)
    <3>1. InHand \subseteq InHand' \cup {q}
      BY <2>4, InHandIs, InHandThen, IdleIs DEF LetsGo, OnlyHand
    <3>2. CASE Defer(q)
      BY <1>0, <3>1, <3>2 DEF Answered, Defer, Unlocked
    <3>3. CASE sweep[s].at = "retire" /\ sweep[s].now = q /\ RetireRecord(q)
      <4>1. CASE r = q
        BY <3>3, <4>1 DEF AsideInv
      <4>2. CASE r # q
        BY <1>0, <3>1, <3>3, <4>2 DEF Answered, RetireRecord, Unlocked
      <4> QED BY <4>1, <4>2
    <3> QED BY <2>4, <3>2, <3>3 DEF LetsGo
  <2>5. ASSUME NEW s \in Sweepers, TakesUp(s) PROVE r \in Answered'
    <3>1. InHand \subseteq InHand'
      BY <2>5, InHandIs, InHandThen, IdleIs DEF TakesUp, OnlyHand
    <3> QED BY <1>0, <2>5, <3>1 DEF Answered, TakesUp
  <2> QED BY <2>1, <2>2, <2>3, <2>4, <2>5 DEF LedgerMove
<1> QED BY <1>2, <1>3, <1>4, <1>5, NextIs

\* A record leaves the store's list only when it is retired.
LEMMA RecordedStays ==
    ASSUME TypeInv, SpareInv, [Next]_vars, app' # "down", NEW r \in recorded, r.job = job.n, job.at \notin RestAts(r)
    PROVE  r \in recorded' \/ r \in Owed("retire")
<1> USE DEF ledgerVars, diskVars, driveVars, storeVars, faultVars, boundVars, historyVars, jobVars
<1>1. CASE WriteBegins \/ (WriteSteps /\ job.owes = <<>>) \/ UNCHANGED vars
  <2>1. UNCHANGED recorded
    BY <1>1, BeginIs, StepDisk DEF vars
  <2> QED BY <2>1
<1>2. CASE JobSettles
  BY <1>2, SettleIs DEF Track, RetireRecord, KeepForArrival
<1>3. CASE Dies
  BY <1>3 DEF Dies, Crash
<1>4. CASE LedgerSteps /\ UNCHANGED jobVars
  <2>1. LedgerMove
    BY <1>4, LedgerStore
  <2>2. ASSUME NEW s \in Sweepers, NEW q \in Records, LetsGo(s, q) PROVE r \in recorded'
    <3>1. q \in Held
      BY <2>2, InHandIs DEF LetsGo, Held
    <3>2. q # r
      BY <3>1 DEF SpareInv
    <3> QED BY <2>2, <3>2 DEF LetsGo, RetireRecord, Defer
  <2> QED BY <2>1, <2>2 DEF LedgerMove, TakesUp
<1> QED BY <1>1, <1>2, <1>3, <1>4, NextIs

\* Where a ledger's step leaves a sweep.
Looked(s) ==
    \E r \in sweep[s].todo, at \in Acting \ {"retire"} :
        /\ sweep'[s].at = at /\ sweep'[s].now = r /\ r \in Records
        /\ at = "remove" => r.kind = "Temp"
        /\ at = "lookAside" => r.kind = "FileAside" /\ ~Free(Name) /\ \A c \in At(Name) : ExpectedSize(c, r.job)
        /\ UNCHANGED <<diskVars, historyVars>>
Acted(s) ==
    \E at \in Acting :
        /\ SweepAct(s, at) /\ sweep'[s].at = at /\ sweep'[s].now = sweep[s].now
        /\ sweep[s].now \in Records /\ sweep[s].now \in Hand(s)

LEMMA SweepGoes ==
    ASSUME TypeInv, LedgerSteps, NEW s \in Sweepers
    PROVE  \/ sweep'[s] = sweep[s] \/ sweep'[s].at \in {"idle", "next", "claim"}
           \/ Looked(s) \/ Acted(s)
<1> USE DEF ledgerVars, diskVars, driveVars, storeVars, faultVars, boundVars, historyVars
<1>0. StoreInv /\ SweepInv /\ \A t \in Sweepers : sweep[t] \in Hands /\ HandOf(t)
  BY HandIs DEF TypeInv
<1>1. CASE CompactTruncates \/ CompactAppends \/ Pull \/ Plug \/ SaveForeign \/ Register \/ Unregister
  BY <1>1 DEF CompactTruncates, CompactAppends, Pull, Plug, SaveForeign, Register, Unregister
<1>2. ASSUME NEW t \in Sweepers, NEW x, sweep' = [sweep EXCEPT ![t] = x], x.at \in {"idle", "next", "claim"}
      PROVE  sweep'[s] = sweep[s] \/ sweep'[s].at \in {"idle", "next", "claim"}
  BY <1>0, <1>2 DEF SweepInv
<1>3. CASE InitAndSweep \/ LaunchDefers
  <2>1. PICK todo : sweep' = [sweep EXCEPT !["launch"].todo = todo]
    BY <1>3 DEF InitAndSweep, LaunchDefers
  <2>2. PICK x : x = [sweep["launch"] EXCEPT !.todo = todo]
    OBVIOUS
  <2>3. sweep["launch"].at = "idle" /\ "launch" \in Sweepers
    BY <1>0, <1>3, IdleIs DEF InitAndSweep, LaunchDefers, StoreInv
  <2>4. x.at = "idle"
    BY <1>0, <2>2, <2>3 DEF Hands
  <2> QED BY <1>2, <2>1, <2>2, <2>3, <2>4
<1>4. CASE LaunchSpawns
  <2>1. PICK at \in {"idle", "next", "claim"} : sweep' = [sweep EXCEPT !["launch"].at = at]
    BY <1>4 DEF LaunchSpawns
  <2>2. PICK x : x = [sweep["launch"] EXCEPT !.at = at]
    OBVIOUS
  <2>3. x.at = at /\ "launch" \in Sweepers
    BY <1>0, <2>2, IdleIs DEF Hands
  <2> QED BY <1>2, <2>1, <2>2, <2>3
<1>5. CASE LaunchClaims \/ OnVolumeArrival
  <2>1. \/ UNCHANGED sweep
        \/ \E t \in Sweepers : sweep' = [sweep EXCEPT ![t] = Idle]
        \/ \E t \in Sweepers : sweep' = [sweep EXCEPT ![t] = [@ EXCEPT !.at = "next", !.todo = pending]]
    BY <1>5, IdleIs DEF LaunchClaims, OnVolumeArrival
  <2>2. ASSUME NEW t \in Sweepers, sweep' = [sweep EXCEPT ![t] = [@ EXCEPT !.at = "next", !.todo = pending]]
        PROVE  sweep'[s] = sweep[s] \/ sweep'[s].at \in {"idle", "next", "claim"}
    <3>1. PICK x : x = [sweep[t] EXCEPT !.at = "next", !.todo = pending]
      OBVIOUS
    <3>2. x.at = "next"
      BY <1>0, <3>1 DEF Hands
    <3> QED BY <1>2, <2>2, <3>1, <3>2
  <2> QED BY <1>2, <2>1, <2>2, IdleIs
<1>6. ASSUME NEW t \in Sweepers, SweepSteps(t)
      PROVE  \/ sweep'[s] = sweep[s] \/ sweep'[s].at \in {"idle", "next", "claim"}
             \/ Looked(s) \/ Acted(s)
  <2>1. CASE SweepLooks(t)
    <3>1. PICK r \in sweep[t].todo, at \in Acting \ {"retire"} :
            /\ sweep' = [sweep EXCEPT ![t] = [at |-> at, todo |-> sweep[t].todo \ {r}, now |-> r]]
            /\ at = "remove" => r.kind = "Temp"
            /\ at = "lookAside" => r.kind = "FileAside" /\ ~Free(Name) /\ \A c \in At(Name) : ExpectedSize(c, r.job)
            /\ UNCHANGED <<diskVars, historyVars>>
      BY <1>0, <2>1, LooksAre
    <3>2. PICK x : x = [at |-> at, todo |-> sweep[t].todo \ {r}, now |-> r]
      OBVIOUS
    <3>3. x.at = at /\ x.now = r /\ r \in Records
      BY <1>0, <3>2 DEF Hands
    <3>4. sweep' = [sweep EXCEPT ![t] = x]
      BY <3>1, <3>2
    <3>5. sweep'[t] = x /\ (s # t => sweep'[s] = sweep[s])
      BY <1>0, <3>4 DEF SweepInv
    <3> QED BY <3>1, <3>3, <3>5 DEF Looked
  <2>2. CASE SweepLooksAside(t) \/ SweepRemoves(t) \/ SweepRestores(t) \/ SweepRecovers(t)
    <3>1. PICK at \in Acting : SweepAct(t, at)
      BY <2>2, ActsAre
    <3>2. /\ sweep'[t].at = at /\ sweep'[t].now = sweep[t].now
          /\ s # t => sweep'[s] = sweep[s]
      BY <1>0, <3>1, GoesIs, ActingIs DEF SweepAct
    <3>3. sweep[t].at \in Acting
      BY <3>1 DEF SweepAct, Acting
    <3>4. sweep[t].now \in Records /\ sweep[t].now \in Hand(t)
      BY <1>0, <3>3, NoneAssumption DEF HandOf, Hand
    <3> QED BY <3>1, <3>2, <3>4 DEF Acted
  <2>3. CASE SweepSettles(t)
    <3>1. PICK x : x = [sweep[t] EXCEPT !.at = "next", !.now = None]
      OBVIOUS
    <3>2. x.at = "next"
      BY <1>0, <3>1 DEF Hands
    <3> QED BY <1>2, <2>3, <3>1, <3>2 DEF SweepSettles
  <2>4. CASE SweepEnds(t)
    BY <1>2, <2>4, IdleIs DEF SweepEnds
  <2> QED BY <1>6, <2>1, <2>2, <2>3, <2>4 DEF SweepSteps
<1> QED BY <1>1, <1>3, <1>4, <1>5, <1>6 DEF LedgerSteps, LaunchSteps, RegistrySteps

LEMMA StepAsideInv == TypeInv /\ NumberInv /\ SpareInv /\ AsideInv /\ [Next]_vars => AsideInv'
<1> SUFFICES ASSUME TypeInv, NumberInv, SpareInv, AsideInv, [Next]_vars PROVE AsideInv'
  OBVIOUS
<1> USE DEF ledgerVars, diskVars, driveVars, storeVars, faultVars, boundVars, historyVars, jobVars
<1>0. JobInv /\ Answered \subseteq Records /\ app \in {"down", "replayed", "up"}
  BY KnownIs DEF TypeInv, RestInv, Answered, Known
<1>1. ASSUME NEW n \in Jobs, ~Free(Aside(n))' PROVE \E r \in Answered' : Path(r) = Aside(n)
  <2>1. CASE ~Free(Aside(n))
    <3>1. PICK r \in Answered : Path(r) = Aside(n)
      BY <2>1 DEF AsideInv
    <3>2. r \in Records /\ r.kind # "Temp"
      BY <1>0, <3>1, PathIs, PlacesDiffer
    <3>3. r \in Answered' \/ r \in forgotten \cup mislaid
      BY <2>1, <3>1, <3>2, AnsweredStays DEF Settled
    <3>4. r \in Answered'
      BY <3>3, HistoryGrows DEF Answered
    <3> QED BY <3>1, <3>4
  <2>2. CASE Free(Aside(n))
    <3>1. WriteSteps /\ job.owes = <<>> /\ job.at = "setAside" /\ n = job.n
      BY <1>1, <2>2, AsidesStayFree
    <3>2. OwnAside \in recorded /\ Path(OwnAside) = Aside(n) /\ UNCHANGED <<log, rewrite>>
      BY <1>0, <3>1, OwnRecords, StepDisk DEF AsideInv
    <3>3. recorded = log \cup rewrite
      BY <1>0, <3>1 DEF TypeInv, StoreInv
    <3> QED BY <3>2, <3>3 DEF Answered
  <2> QED BY <2>1, <2>2
<1>2. ASSUME NEW s \in Sweepers, NEW r \in Records, sweep'[s] = sweep[s], sweep'[s].at = "retire", sweep'[s].now = r
      PROVE  Settled(r)'
  <2>1. r \in Held /\ sweep[s].at = "retire" /\ sweep[s].now = r
    <3>1. sweep[s].at \in Acting /\ HandOf(s)
      BY <1>2, HandIs DEF Acting
    <3>2. r \in Hand(s)
      BY <1>2, <3>1, NoneAssumption DEF HandOf, Hand
    <3> QED BY <1>2, <3>2, InHandIs DEF Held
  <2>2. ~(job.at = "setAside" /\ r.kind # "Temp" /\ r.job = job.n)
    BY <2>1 DEF SpareInv, RestAts
  <2>3. Settled(r)
    BY <2>1 DEF AsideInv
  <2> QED BY <2>2, <2>3, SettledStays
<1>2a. ASSUME UNCHANGED sweep, NEW s \in Sweepers, NEW r \in Records, sweep'[s].at = "retire", sweep'[s].now = r
       PROVE  Settled(r)'
  BY <1>2, <1>2a
<1>3. CASE WriteBegins
  <2>1. /\ UNCHANGED sweep
        /\ job'.owes \in {Owe("track", OwnTemp'), Owe("track", OwnAside')}
        /\ job'.at = "setAside" => job'.owes = Owe("track", OwnAside')
        /\ job'.n \in Jobs /\ job' \in [n : Jobs \cup {0}, kind : Kinds, at : JobAts, over : BOOLEAN, owes : Owings]
    BY <1>3, BeginIs
  <2>2. Owed("retire")' = {}
    <3> SUFFICES ASSUME NEW r \in Owed("retire")' PROVE FALSE
      OBVIOUS
    <3>1. job'.owes = Owe("retire", r)
      BY DEF Owed
    <3>2. Owe("retire", r) = Owe("track", OwnTemp') \/ Owe("retire", r) = Owe("track", OwnAside')
      BY <2>1, <3>1
    <3> QED BY <3>2, OwesDiffer
  <2>3. OwnAside' \in Records
    BY <2>1 DEF OwnAside, AsideOf, Records, AsideKinds
  <2>4. job'.at = "setAside" => OwnAside' \in Owed("track")' /\ job'.owes # <<>>
    BY <2>1, <2>3, OwesDiffer DEF Owed
  <2> QED BY <1>1, <1>2a, <2>1, <2>2, <2>4 DEF AsideInv
<1>4. CASE JobSettles
  <2>1. PICK w \in RecordCalls, r \in Records :
           /\ r \in Owed(w) /\ job.owes = Owe(w, r) /\ job'.n = job.n /\ job'.at = job.at /\ job'.kind = job.kind
           /\ job'.owes = IF w = "keep" THEN Owe("listen", r) ELSE <<>>
           /\ \/ w = "track" /\ Track(r)
              \/ w # "track"
           /\ UNCHANGED <<sweep, home>>
    BY <1>4, SettleIs
  <2>2. Owed("retire")' = {}
    <3> SUFFICES ASSUME NEW q \in Owed("retire")' PROVE FALSE
      OBVIOUS
    <3>1. job'.owes = Owe("retire", q)
      BY DEF Owed
    <3>2. Owe("listen", r) = Owe("retire", q)
      BY <2>1, <3>1, OwesDiffer
    <3> QED BY <3>2, OwesDiffer
  <2>3. OwnAside' = OwnAside
    BY <2>1 DEF OwnAside, AsideOf
  <2>4. job.at = "setAside" => w = "track" /\ r = OwnAside
    <3> SUFFICES ASSUME job.at = "setAside" PROVE w = "track" /\ r = OwnAside
      OBVIOUS
    <3>1. job.owes # <<>>
      BY <1>4 DEF JobSettles
    <3>2. OwnAside \in Owed("track")
      BY <3>1 DEF AsideInv
    <3>3. Owe(w, r) = Owe("track", OwnAside)
      BY <2>1, <3>2 DEF Owed
    <3> QED BY <3>3, OwesDiffer
  <2>5. job'.at = "setAside" => OwnAside' \in recorded' /\ job'.owes = <<>>
    BY <2>1, <2>3, <2>4 DEF Track
  <2> QED BY <1>1, <1>2a, <2>1, <2>2, <2>5 DEF AsideInv
<1>5. CASE WriteSteps /\ job.owes = <<>>
  <2>1. WriteMove /\ job'.n = job.n /\ UNCHANGED <<sweep, home>>
    BY <1>5, StepMoves, StepDisk
  <2>2. job'.at = "setAside" => OwnAside' \in Owed("track")' /\ job'.owes # <<>>
    <3> SUFFICES ASSUME job'.at = "setAside" PROVE OwnAside' \in Owed("track")' /\ job'.owes # <<>>
      OBVIOUS
    <3>1. job'.owes = Owe("track", OwnAside) /\ job'.kind = job.kind
      BY <2>1 DEF WriteMove, Moves, AfterAsides
    <3>2. OwnAside' = OwnAside /\ OwnAside \in Records
      BY <1>0, <1>5, <2>1, <3>1, OwnRecords, StepMoves DEF OwnAside, AsideOf, JobInv
    <3> QED BY <3>1, <3>2, OwesDiffer DEF Owed
  <2>3. \A r \in Owed("retire")' : Settled(r)'
    BY <1>5, RetiresSettled
  <2> QED BY <1>1, <1>2a, <2>1, <2>2, <2>3 DEF AsideInv
<1>6. CASE Dies
  <2>1. job'.at = "idle" /\ job'.owes = <<>> /\ \A s \in Sweepers : sweep'[s].at = "idle"
    BY <1>6, IdleIs DEF Dies, Crash, Rest
  <2>2. Owed("retire")' = {}
    BY <2>1, OwesDiffer DEF Owed
  <2> QED BY <1>1, <2>1, <2>2 DEF AsideInv
<1>7. CASE (LedgerSteps /\ UNCHANGED jobVars) \/ UNCHANGED vars
  <2>1. UNCHANGED <<job, home>> /\ Owed("retire")' = Owed("retire") /\ Owed("track")' = Owed("track") /\ OwnAside' = OwnAside
    <3>1. UNCHANGED <<job, home>>
      BY <1>7, LedgerDisks DEF vars
    <3> QED BY <3>1 DEF Owed, OwnAside, AsideOf
  <2>2. job'.at = "setAside" => OwnAside' \in IF job'.owes = <<>> THEN recorded' ELSE Owed("track")'
    <3> SUFFICES ASSUME job.at = "setAside" PROVE OwnAside \in IF job.owes = <<>> THEN recorded' ELSE Owed("track")
      BY <2>1
    <3>1. OwnAside \in IF job.owes = <<>> THEN recorded ELSE Owed("track")
      BY DEF AsideInv
    <3>2. CASE job.owes = <<>>
      <4>1. OwnAside \in recorded /\ OwnAside.job = job.n /\ OwnAside.kind # "Temp"
        BY <1>0, <3>1, <3>2, OwnRecords DEF JobInv
      <4>2. job.at \notin RestAts(OwnAside) /\ Owed("retire") = {}
        BY <3>2, <4>1, OwedIs DEF RestAts
      <4>3. app' # "down"
        <5>1. app = "up"
          BY <1>0 DEF TypeInv, StoreInv
        <5> QED BY <1>7, <5>1 DEF vars, LedgerSteps, LaunchSteps, RegistrySteps, CompactTruncates, CompactAppends,
               InitAndSweep, LaunchDefers, LaunchSpawns, LaunchClaims, Register, Unregister, OnVolumeArrival, Pull, Plug,
               SaveForeign, SweepSteps, SweepLooks, SweepLooksAside, SweepRemoves, SweepRestores, SweepRecovers,
               SweepSettles, SweepEnds
      <4> QED BY <3>2, <4>1, <4>2, <4>3, RecordedStays
    <3>3. CASE job.owes # <<>>
      BY <3>1, <3>3
    <3> QED BY <3>2, <3>3
  <2>3. ASSUME NEW r \in Owed("retire")' PROVE Settled(r)'
    <3>1. r \in Owed("retire") /\ Settled(r) /\ r \in Records /\ job.owes = Owe("retire", r)
      BY <2>1, <2>3 DEF AsideInv, Owed
    <3>2. job.at # "setAside"
      <4> SUFFICES ASSUME job.at = "setAside" PROVE FALSE
        OBVIOUS
      <4>1. OwnAside \in Owed("track")
        BY <3>1, OwesDiffer DEF AsideInv
      <4>2. Owe("track", OwnAside) = Owe("retire", r)
        BY <3>1, <4>1 DEF Owed
      <4> QED BY <4>2, OwesDiffer
    <3> QED BY <3>1, <3>2, SettledStays
  <2>4. ASSUME NEW s \in Sweepers, NEW r \in Records, sweep'[s].at = "retire", sweep'[s].now = r PROVE Settled(r)'
    <3>1. CASE sweep'[s] = sweep[s]
      BY <1>2, <2>4, <3>1
    <3>2. CASE sweep'[s] # sweep[s]
      <4>1. LedgerSteps
        BY <1>7, <3>2 DEF vars
      <4>2. Looked(s) \/ Acted(s)
        BY <2>4, <3>2, <4>1, SweepGoes
      <4>3. Acted(s)
        BY <2>4, <4>2 DEF Looked
      <4>4. SweepAct(s, "retire") /\ sweep[s].now = r
        BY <2>4, <4>3 DEF Acted
      <4>5. PICK p : p = Path(r)
        OBVIOUS
      <4>6. p # Name /\ p # Recovered /\ p # Nowhere
        BY <4>5, PathIs, PlacesDiffer
      <4>7. (UNCHANGED place /\ Free(p)) \/ r \in forgotten' \/ (\A c \in Contents : place'[c] # p)
        BY <4>4, <4>5, <4>6 DEF SweepAct, Renamed, Removed
      <4>8. Free(p)' \/ r \in forgotten'
        BY <4>7 DEF Free, At
      <4>9. Free(Path(r))' \/ r \in forgotten'
        BY <4>5, <4>8 DEF Free, At
      <4> QED BY <4>9 DEF Settled
    <3> QED BY <3>1, <3>2
  <2> QED BY <1>1, <2>2, <2>3, <2>4 DEF AsideInv
<1> QED BY <1>3, <1>4, <1>5, <1>6, <1>7, NextIs

\* An entry under an aside name is always answered for: some record of it is
\* in the log, in a hand or in what a compaction has still to append, but for
\* the records a crash caught in between and the renames reported as failed.
THEOREM AsidesAnswered == Spec => []AsideIsRecorded
<1>1. AsideInv => AsideIsRecorded
  BY DEF AsideInv, AsideIsRecorded, Answered
<1>2. TypeInv /\ NumberInv /\ SpareInv /\ AsideInv /\ [Next]_vars => AsideInv'
  BY StepAsideInv
<1> QED BY <1>1, <1>2, InitAsideInv, Typing, Numbering, Sparing, PTL DEF Spec

(***************************************************************************)
(* What has the name, or has gone aside from it, is whole.                 *)
(***************************************************************************)
Shown(c) == place[c] = Name \/ \E n \in Jobs : place[c] = Aside(n)

\* Whatever a write brings has all its bytes before it has the name, unless
\* it is a folder, which fills there.
WholeInv ==
    /\ \A n \in Jobs : Shown(n) => n \in whole \cup folders
    /\ job.at \in LandingAts => job.n \in whole

\* How a thing comes to be shown by a write's step, and by a ledger's.
LEMMA WriteShows ==
    ASSUME TypeInv, WriteSteps, job.owes = <<>>, NEW c \in Contents, Shown(c)', ~Shown(c)
    PROVE  /\ c = job.n
           /\ \/ job.at = "land" /\ c \in owned' \cap whole'
              \/ job.at = "makeDir"
              \/ job.at \in {"place", "placeAgain"} /\ c \in owned'
<1>1. WriteAt(c) /\ job.n \in Jobs
  BY WriteIs, StepMoves DEF TypeInv, JobInv
<1>2. place'[c] = Name \/ \E n \in Jobs : place'[c] = Aside(n)
  BY DEF Shown
<1>3. place[c] # Name /\ \A n \in Jobs : place[c] # Aside(n)
  BY DEF Shown
<1>4. place[c] = Temp(job.n) => c = job.n
  BY <1>1 DEF TypeInv, DiskInv, TempsAreOwn
<1> QED BY <1>1, <1>2, <1>3, <1>4, PlacesDiffer DEF WriteAt

LEMMA LedgerShows ==
    ASSUME TypeInv, LedgerSteps, NEW c \in Contents, Shown(c)', ~Shown(c)
    PROVE  c = Foreign /\ c \in owned'
<1>1. LedgerAt(c)
  BY LedgerIs
<1>2. place'[c] = Name \/ \E n \in Jobs : place'[c] = Aside(n)
  BY DEF Shown
<1>3. place[c] # Name /\ \A n \in Jobs : place[c] # Aside(n)
  BY DEF Shown
<1>4. \A r \in Records : r.kind # "Temp" => r.job \in Jobs /\ Path(r) = Aside(r.job)
  BY PathIs
<1> QED BY <1>1, <1>2, <1>3, <1>4, PlacesDiffer DEF LedgerAt

LEMMA InitWholeInv == Init => WholeInv
<1> SUFFICES ASSUME Init PROVE WholeInv
  OBVIOUS
<1>1. job.at = "idle"
  BY DEF Init, Rest
<1>2. ASSUME NEW n \in Jobs PROVE place[n] = Nowhere
  BY ContentsAssumption, JobsAreContents DEF Init
<1> QED BY <1>1, <1>2, PlacesDiffer DEF WholeInv, Shown, LandingAts

LEMMA StepWholeInv == TypeInv /\ WholeInv /\ [Next]_vars => WholeInv'
<1> SUFFICES ASSUME TypeInv, WholeInv, [Next]_vars PROVE WholeInv'
  OBVIOUS
<1> USE DEF ledgerVars, diskVars, jobVars
<1>1. CASE WriteBegins
  <2>1. /\ whole' = whole /\ folders \subseteq folders' /\ job'.at \in {"fill", "setAside"}
        /\ UNCHANGED place \/ place' = [place EXCEPT ![Placeholder] = Name]
    BY <1>1, BeginIs
  <2>2. \A n \in Jobs : place'[n] = place[n]
    BY <2>1, ContentsAssumption, JobsAreContents DEF TypeInv, DiskInv
  <2> QED BY <2>1, <2>2 DEF WholeInv, Shown, LandingAts
<1>2. CASE JobSettles
  <2>1. job'.n = job.n /\ job'.at = job.at /\ UNCHANGED <<place, whole, folders>>
    BY <1>2, SettleIs
  <2> QED BY <2>1 DEF WholeInv, Shown
<1>3. CASE WriteSteps /\ job.owes = <<>>
  <2>1. WriteMove /\ job'.n = job.n /\ whole \subseteq whole' /\ folders' = folders
    BY <1>3, StepMoves, StepDisk
  <2>2. ASSUME NEW n \in Jobs, Shown(n)' PROVE n \in whole' \cup folders'
    <3>1. CASE Shown(n)
      BY <2>1, <3>1 DEF WholeInv
    <3>2. CASE ~Shown(n)
      <4>1. n = job.n /\ (n \in whole' \/ job.at \in {"makeDir", "place", "placeAgain"})
        BY <1>3, <2>2, <3>2, WriteShows, JobsAreContents
      <4>2. job.at = "makeDir" => job.n \in folders
        BY DEF TypeInv, JobInv, FolderAts
      <4> QED BY <2>1, <4>1, <4>2 DEF WholeInv, LandingAts
    <3> QED BY <3>1, <3>2
  <2>3. ASSUME job'.at \in LandingAts PROVE job.n \in whole'
    <3>1. job.at \in LandingAts \/ job.n \in whole'
      BY <2>1, <2>3 DEF WriteMove, Moves, LandingAts, AfterAsides
    <3> QED BY <2>1, <3>1 DEF WholeInv
  <2> QED BY <2>1, <2>2, <2>3 DEF WholeInv
<1>4. CASE Dies
  <2>1. UNCHANGED <<place, whole, folders>> /\ job'.at = "idle"
    BY <1>4 DEF Dies, Crash, Rest
  <2> QED BY <2>1 DEF WholeInv, Shown, LandingAts
<1>5. CASE UNCHANGED vars
  BY <1>5 DEF vars, WholeInv, Shown
<1>6. CASE LedgerSteps /\ UNCHANGED jobVars
  <2>1. UNCHANGED <<whole, folders, job>>
    BY <1>6, LedgerDisks
  <2>2. \A n \in Jobs : Shown(n)' => Shown(n)
    BY <1>6, LedgerShows, ContentsAssumption, JobsAreContents
  <2> QED BY <2>1, <2>2 DEF WholeInv
<1> QED BY <1>1, <1>2, <1>3, <1>4, <1>5, <1>6, NextIs

\* The name never holds a partial file: whatever a write put there, or put
\* there and moved aside, is whole, or is a folder.
THEOREM NameIsWhole == Spec => []FinalNameWhole
<1>1. TypeInv /\ WholeInv => FinalNameWhole
  BY DEF WholeInv, Shown, FinalNameWhole, At
<1>2. TypeInv /\ WholeInv /\ [Next]_vars => WholeInv'
  BY StepWholeInv
<1> QED BY <1>1, <1>2, InitWholeInv, Typing, PTL DEF Spec

(***************************************************************************)
(* What has stood whole at the name.                                       *)
(***************************************************************************)

\* What is at the name, or has gone aside from it, has stood whole there, but
\* for folders still filling and a reserved name's empty file; what is still
\* under its temp has not.  A write that drops its aside, or has built its
\* folder, has something whole at the name.
OwnedInv ==
    /\ Placeholder \notin owned /\ (Foreign \notin owned => place[Foreign] = Nowhere)
    /\ home # "space" => place[Placeholder] = Nowhere
    /\ \A c \in Contents : Shown(c) => c \in owned \cup folders \cup {Placeholder}
    /\ \A n \in Jobs : place[n] = Temp(n) => n \notin owned
    /\ job.at \in {"removeAside", "built"} => job.n \in owned
    /\ \A r \in Known : r.kind = "FileAside" => home # "space"
    /\ \A w \in RecordCalls : \A r \in Owed(w) : r.kind = "FileAside" => home # "space"

\* The two moves after which something of the write's is whole at the name.
LEMMA StandsWhole ==
    ASSUME TypeInv, NumberInv, OwnedInv, WriteSteps, job.owes = <<>>, job'.at \in {"removeAside", "built"}
    PROVE  job.n \in owned'
<1>1. /\ WriteMove /\ WriteHistory /\ WriteDisk /\ job.n \in Jobs /\ ~JobSettles
  BY StepMoves, StepDisk, WriteIs DEF TypeInv, JobInv, JobSettles
<1>2. job.at \in {"land", "built"} \/ (job.at = "build" /\ job'.at = "built")
  BY <1>1 DEF WriteMove, Moves, AfterAsides
<1>3. CASE job.at = "built"
  BY <1>1, <1>3 DEF OwnedInv, WriteHistory
<1>4. CASE job.at = "land"
  <2>1. Land \/ DropTask
    BY <1>1, <1>4 DEF WriteSteps, JobAt, CreateTemp, FillTemp, FillFails, SetAside, ClearFailed, PutBack, BringBack,
     Rescue, KeepAsRecovered, RemoveAside, AsideEnds, Discard, AskTable, DropTemp, DropAside, MakeDirectory, FillFolder,
     OperationEnds, RemoveFolder, Place, PlaceAgain, Lands, ReleasesForClaimed, ClearName, LookAgain, RescueTemp,
     DiscardUnplaced, Toss, SweepOwn
  <2>2. ~DropTask
    <3>1. "sweepOwn" \in JobAts /\ <<>> \in Owings
      BY OwingsAre DEF JobAts
    <3> QED BY <3>1, GotoIs DEF DropTask, TypeInv
  <2> DEFINE undone == CASE job.kind = "swap" -> "clear"
                         [] ~job.over -> IF job.kind = "file" THEN "discard" ELSE "dropTemp"
                         [] job.kind = "file" -> "putBack"
                         [] OTHER -> "bringBack"
             landed == [Removed(Name) EXCEPT ![job.n] = Name]
  <2>3. ~Goto(undone, <<>>)
    <3>1. undone \in {"clear", "discard", "dropTemp", "putBack", "bringBack"}
      OBVIOUS
    <3> HIDE DEF undone
    <3>2. undone \in JobAts /\ <<>> \in Owings
      BY <3>1, OwingsAre DEF JobAts
    <3> QED BY <3>1, <3>2, GotoIs DEF TypeInv
  <2> HIDE DEF undone
  <2>4. place' = landed
    BY <2>1, <2>2, <2>3 DEF Land, Fails, Succeeds, undone
  <2>5. place[job.n] # Name /\ place'[job.n] = Name
    BY <1>1, <1>4, <2>4, PlacesDiffer, JobsAreContents DEF NumberInv, Removed
  <2>6. Performed
    BY <2>5 DEF Performed
  <2> QED BY <2>1, <2>2, <2>6 DEF Land
<1>5. CASE job.at = "build" /\ job'.at = "built"
  <2>1. FillFolder \/ OperationEnds \/ DropTask
    BY <1>1, <1>5 DEF WriteSteps, JobAt, CreateTemp, FillTemp, FillFails, SetAside, Land, ClearFailed, PutBack, BringBack,
     Rescue, KeepAsRecovered, RemoveAside, AsideEnds, Discard, AskTable, DropTemp, DropAside, MakeDirectory,
     RemoveFolder, Place, PlaceAgain, Lands, ReleasesForClaimed, ClearName, LookAgain, RescueTemp,
     DiscardUnplaced, Toss, SweepOwn
  <2>2. \A at \in JobAts : Goto(at, <<>>) => job'.at = at
    BY GotoIs, OwingsAre DEF TypeInv
  <2>3. ~DropTask
    BY <1>5, <2>2 DEF DropTask, JobAts
  <2>4. ~OperationEnds
    <3>1. PutItBack \in JobAts \ {"built"} /\ LetItGo \in JobAts \ {"built"}
      BY DEF PutItBack, LetItGo, JobAts
    <3>2. SUFFICES ASSUME OperationEnds PROVE FALSE
      OBVIOUS
    <3>3. PICK at \in JobAts \ {"built"} : Goto(at, <<>>)
      <4>1. \/ Goto(LetItGo, <<>>) \/ Goto("recover", <<>>) \/ Goto(PutItBack, <<>>) \/ Goto("unbuild", <<>>)
        BY <3>2 DEF OperationEnds
      <4>2. {"recover", "unbuild"} \subseteq JobAts \ {"built"}
        BY DEF JobAts
      <4> QED BY <3>1, <4>1, <4>2
    <3> QED BY <1>5, <2>2, <3>3
  <2> QED BY <2>1, <2>3, <2>4 DEF FillFolder
<1> QED BY <1>2, <1>3, <1>4, <1>5

\* Only a local copy has an aside of the kind that may be dropped for what has
\* the name.
LEMMA FileAsides ==
    ASSUME TypeInv, OwnedInv, [Next]_vars, NEW w \in RecordCalls, NEW r \in Owed(w)', r.kind = "FileAside"
    PROVE  home # "space"
<1>1. job'.owes = Owe(w, r) /\ r \in Records
  BY DEF Owed
<1>2. job'.owes # <<>>
  BY <1>1, OwesDiffer
<1>3. CASE WriteBegins
  <2>1. OwnTemp'.kind = "Temp" /\ (job'.kind \in {"swap", "folder"} => OwnAside'.kind # "FileAside")
    BY DEF OwnTemp, TempOf, OwnAside, AsideOf
  <2>2. PICK q : job'.owes = Owe("track", q) /\ q.kind # "FileAside"
    BY <1>3, <2>1, BeginIs
  <2>3. Owe(w, r) = Owe("track", q)
    BY <1>1, <2>2
  <2>4. r = q
    BY <2>3, OwesDiffer
  <2> QED BY <2>2, <2>4
<1>4. CASE JobSettles
  <2>1. PICK v \in RecordCalls, q \in Records :
           q \in Owed(v) /\ job'.owes = IF v = "keep" THEN Owe("listen", q) ELSE <<>>
    BY <1>4, SettleIs
  <2>2. Owe(w, r) = Owe("listen", q)
    BY <1>1, <1>2, <2>1
  <2>3. r = q
    BY <2>2, OwesDiffer
  <2> QED BY <2>1, <2>3 DEF OwnedInv
<1>5. CASE WriteSteps /\ job.owes = <<>>
  <2>1. WriteMove /\ job.at # "idle"
    BY <1>5, StepMoves
  <2>2. PICK v \in {"track", "retire", "keep"}, q \in {OwnTemp, OwnAside} : job'.owes = Owe(v, q)
    BY <1>2, <2>1, MoveOwes
  <2>3. Owe(w, r) = Owe(v, q)
    BY <1>1, <2>2
  <2>4. r = q
    BY <2>3, OwesDiffer
  <2>5. OwnTemp.kind = "Temp" /\ (OwnAside.kind = "FileAside" => job.kind = "file")
    BY <2>1, OwnRecords DEF TypeInv, JobInv
  <2> QED BY <2>2, <2>4, <2>5 DEF TypeInv, JobInv
<1>6. CASE Dies
  BY <1>2, <1>6 DEF Dies, Rest
<1>7. CASE (LedgerSteps /\ UNCHANGED jobVars) \/ UNCHANGED vars
  <2>1. job' = job
    BY <1>7 DEF jobVars, vars
  <2>2. r \in Owed(w)
    BY <1>1, <2>1 DEF Owed
  <2> QED BY <2>2 DEF OwnedInv
<1> QED BY <1>3, <1>4, <1>5, <1>6, <1>7, NextIs

LEMMA InitOwnedInv == Init => OwnedInv
<1> SUFFICES ASSUME Init PROVE OwnedInv
  OBVIOUS
<1>1. \A s \in Sweepers : Hand(s) = {}
  BY IdleIs DEF Init, Hand
<1>2. Known = {}
  BY <1>1, InHandIs DEF Init, Known
<1>3. job.at = "idle" /\ \A w : Owed(w) = {}
  BY OwedIs DEF Init, Rest
<1>4. \A c \in Contents : place[c] = IF c \in owned THEN Name ELSE Nowhere
  BY DEF Init
<1>5. owned \subseteq {Original}
  BY DEF Init
<1>6. Foreign \in Contents /\ Placeholder \in Contents /\ Foreign # Original /\ Placeholder # Original
  BY ContentsAssumption, JobsAreContents
<1>7. \A n \in Jobs : n \in Contents /\ n # Original
  BY ContentsAssumption, JobsAreContents
<1> QED BY <1>2, <1>3, <1>4, <1>5, <1>6, <1>7, PlacesDiffer DEF OwnedInv, Shown

LEMMA StepOwnedInv == TypeInv /\ NumberInv /\ OwnedInv /\ [Next]_vars => OwnedInv'
<1> SUFFICES ASSUME TypeInv, NumberInv, OwnedInv, [Next]_vars PROVE OwnedInv'
  OBVIOUS
<1> USE DEF ledgerVars, diskVars, historyVars, jobVars
<1>0. /\ Foreign \in Contents /\ Placeholder \in Contents /\ Foreign # Placeholder
      /\ \A n \in Jobs : n \in Contents /\ n # Foreign /\ n # Placeholder
      /\ place \in [Contents -> Places]
  BY ContentsAssumption, JobsAreContents DEF TypeInv, DiskInv
<1>1. ASSUME home' = home
      PROVE  /\ \A r \in Known' : r.kind = "FileAside" => home' # "space"
             /\ \A w \in RecordCalls : \A r \in Owed(w)' : r.kind = "FileAside" => home' # "space"
  <2>1. \A r \in Known' : r \in Known \/ \E w \in RecordCalls : r \in Owed(w)
    BY KnownIs DEF RecordCalls
  <2> QED BY <1>1, <2>1, FileAsides DEF OwnedInv
<1>2. ASSUME UNCHANGED <<place, owned, home>>, folders \subseteq folders',
             job'.at \in {"removeAside", "built"} => job'.n \in owned
      PROVE  OwnedInv'
  <2>1. \A c : Shown(c)' <=> Shown(c)
    BY <1>2 DEF Shown
  <2> QED BY <1>1, <1>2, <2>1 DEF OwnedInv
<1>3. CASE WriteBegins
  <2>1. /\ UNCHANGED <<owned, home>> /\ folders \subseteq folders' /\ job'.at \in {"fill", "setAside"}
        /\ UNCHANGED place \/ (home = "space" /\ place' = [place EXCEPT ![Placeholder] = Name])
    BY <1>3, BeginIs
  <2>2. CASE UNCHANGED place
    BY <1>2, <2>1, <2>2
  <2>3. CASE home = "space" /\ place' = [place EXCEPT ![Placeholder] = Name]
    <3>1. \A c \in Contents : c # Placeholder => place'[c] = place[c]
      BY <2>3 DEF TypeInv, DiskInv
    <3>2. \A c \in Contents : c # Placeholder => (Shown(c)' <=> Shown(c))
      BY <3>1 DEF Shown
    <3>3. \A c \in Contents : Shown(c)' => c \in owned' \cup folders' \cup {Placeholder}
      BY <2>1, <3>2 DEF OwnedInv
    <3>4. \A n \in Jobs : place'[n] = Temp(n) => n \notin owned'
      BY <1>0, <2>1, <3>1 DEF OwnedInv
    <3>5. Placeholder \notin owned' /\ (Foreign \notin owned' => place'[Foreign] = Nowhere)
      BY <1>0, <2>1, <3>1 DEF OwnedInv
    <3> QED BY <1>1, <2>1, <2>3, <3>3, <3>4, <3>5 DEF OwnedInv
  <2> QED BY <2>1, <2>2, <2>3
<1>4. CASE JobSettles
  <2>1. job'.n = job.n /\ job'.at = job.at /\ UNCHANGED <<place, owned, folders, home>>
    BY <1>4, SettleIs
  <2> QED BY <1>2, <2>1 DEF OwnedInv
<1>5. CASE WriteSteps /\ job.owes = <<>>
  <2>1. /\ WriteMove /\ job'.n = job.n /\ job.n \in Jobs /\ UNCHANGED <<folders, home>>
        /\ \A c \in Contents : WriteAt(c)
        /\ WriteHistory
    BY <1>5, StepMoves, StepDisk, WriteIs DEF TypeInv, JobInv
  <2>2. Placeholder \notin owned' /\ (Foreign \notin owned' => place'[Foreign] = Nowhere)
    <3>1. Placeholder \notin owned'
      BY <1>0, <2>1 DEF OwnedInv, WriteHistory
    <3>2. ASSUME Foreign \notin owned' PROVE place'[Foreign] = Nowhere
      <4>1. place[Foreign] = Nowhere /\ WriteAt(Foreign) /\ Foreign # job.n
        BY <1>0, <2>1, <3>2 DEF OwnedInv, WriteHistory
      <4> QED BY <4>1, PlacesDiffer DEF WriteAt
    <3> QED BY <3>1, <3>2
  <2>3. home' # "space" => place'[Placeholder] = Nowhere
    <3> SUFFICES ASSUME home # "space" PROVE place'[Placeholder] = Nowhere
      BY <2>1
    <3>1. place[Placeholder] = Nowhere /\ WriteAt(Placeholder) /\ Placeholder # job.n
      BY <1>0, <2>1 DEF OwnedInv
    <3> QED BY <3>1, PlacesDiffer DEF WriteAt
  <2>4. ASSUME NEW c \in Contents, Shown(c)' PROVE c \in owned' \cup folders' \cup {Placeholder}
    <3>1. CASE ~Shown(c)
      <4>1. c \in owned' \/ (c = job.n /\ job.at = "makeDir")
        BY <1>5, <2>4, <3>1, WriteShows
      <4>2. job.at = "makeDir" => job.n \in folders
        BY DEF TypeInv, JobInv, FolderAts
      <4> QED BY <2>1, <4>1, <4>2
    <3>2. CASE Shown(c)
      <4>1. c \in owned \cup folders \cup {Placeholder}
        BY <3>2 DEF OwnedInv
      <4>2. c \in owned \ owned' => c = job.n /\ place'[c] = Nowhere
        BY <2>1 DEF WriteHistory
      <4>3. place'[c] # Nowhere
        BY <2>4, PlacesDiffer DEF Shown
      <4> QED BY <2>1, <4>1, <4>2, <4>3
    <3> QED BY <3>1, <3>2
  <2>5. ASSUME NEW n \in Jobs, place'[n] = Temp(n) PROVE n \notin owned'
    <3>1. n \notin owned
      <4>1. CASE place[n] = Temp(n)
        BY <4>1 DEF OwnedInv
      <4>2. CASE place[n] # Temp(n)
        <5>1. WriteAt(n)
          BY <1>0, <2>1
        <5>2. job.at = "fill" /\ n = job.n
          BY <2>5, <4>2, <5>1, PlacesDiffer DEF WriteAt
        <5> QED BY <5>2 DEF NumberInv
      <4> QED BY <4>1, <4>2
    <3>2. n \in owned' => n = job.n /\ place'[n] = Name
      BY <2>1, <3>1 DEF WriteHistory
    <3> QED BY <2>5, <3>2, PlacesDiffer
  <2>6. job'.at \in {"removeAside", "built"} => job'.n \in owned'
    BY <1>5, <2>1, StandsWhole
  <2> QED BY <1>1, <2>1, <2>2, <2>3, <2>4, <2>5, <2>6 DEF OwnedInv
<1>6. CASE Dies
  <2>1. UNCHANGED <<place, owned, folders, home>> /\ job'.at = "idle"
    BY <1>6 DEF Dies, Crash, Rest
  <2> QED BY <1>2, <2>1
<1>7. CASE UNCHANGED vars
  <2>1. UNCHANGED <<place, owned, folders, home, job>>
    BY <1>7 DEF vars
  <2> QED BY <1>2, <2>1 DEF OwnedInv
<1>8. CASE LedgerSteps /\ UNCHANGED jobVars
  <2>1. /\ UNCHANGED <<folders, home, job>>
        /\ \A c \in Contents : LedgerAt(c)
        /\ owned' = owned \/ (Foreign \notin owned /\ owned' = owned \cup {Foreign})
    BY <1>8, LedgerDisks, LedgerIs
  <2>2. ASSUME NEW c \in Contents, place[c] = Nowhere, c # Foreign \/ Foreign \notin owned'
        PROVE  place'[c] = Nowhere
    <3>1. \A s \in Sweepers : sweep[s].now \in Records => Path(sweep[s].now) # Nowhere
      BY PathIs, PlacesDiffer
    <3> QED BY <2>1, <2>2, <3>1 DEF LedgerAt
  <2>3. Placeholder \notin owned' /\ (Foreign \notin owned' => place'[Foreign] = Nowhere)
    BY <1>0, <2>1, <2>2 DEF OwnedInv
  <2>4. home' # "space" => place'[Placeholder] = Nowhere
    BY <1>0, <2>1, <2>2 DEF OwnedInv
  <2>5. \A c \in Contents : Shown(c)' => c \in owned' \cup folders' \cup {Placeholder}
    BY <1>8, <2>1, LedgerShows DEF OwnedInv
  <2>6. ASSUME NEW n \in Jobs, place'[n] = Temp(n) PROVE n \notin owned'
    <3>1. place[n] = Temp(n)
      BY <1>0, <2>1, <2>6, PlacesDiffer DEF LedgerAt
    <3> QED BY <1>0, <2>1, <3>1 DEF OwnedInv
  <2>7. job'.at \in {"removeAside", "built"} => job'.n \in owned'
    BY <2>1 DEF OwnedInv
  <2> QED BY <1>1, <2>1, <2>3, <2>4, <2>5, <2>6, <2>7 DEF OwnedInv
<1> QED BY <1>3, <1>4, <1>5, <1>6, <1>7, <1>8, NextIs

LEMMA Owning == Spec => []OwnedInv
<1>1. TypeInv /\ NumberInv /\ OwnedInv /\ [Next]_vars => OwnedInv'
  BY StepOwnedInv
<1> QED BY <1>1, InitOwnedInv, Typing, Numbering, PTL DEF Spec

(***************************************************************************)
(* Nothing a person had is lost.                                           *)
(***************************************************************************)
Replaced(r) == \E d \in owned \ folders : SizeOf[d] = SizeOf[r.job] /\ place[d] # Aside(r.job)

\* A sweep that may remove an aside has seen what replaced it at the name; and
\* while a folder fills, what it displaced is still aside.
SurvivalInv ==
    /\ OriginalSurvives
    /\ \A s \in Sweepers, r \in Records :
          sweep[s].at \in {"lookAside", "remove"} /\ r.kind # "Temp" /\ sweep[s].now = r => Replaced(r)
    /\ job.at \in FolderAts => \A c \in Contents : <<job.n, c>> \in displaced => place[c] = Aside(job.n)

LEMMA NowHeld ==
    ASSUME TypeInv, NEW s \in Sweepers, sweep[s].now \in Records
    PROVE  sweep[s].now \in Held /\ sweep[s].now \in Known
<1>1. sweep[s].now # None
  BY NoneAssumption
<1>2. sweep[s].now \in InHand
  BY <1>1, HandIs, InHandIs
<1> QED BY <1>2 DEF Held, Known

\* A replacement stays one, unless the folder that is one is taken away.
LEMMA ReplacementStays ==
    ASSUME TypeInv, NumberInv, [Next]_vars, NEW n \in Jobs, NEW c, HasReplacement(n, c),
           ~(WriteSteps /\ job.owes = <<>> /\ job.at = "unbuild" /\ n = job.n)
    PROVE  HasReplacement(n, c)'
<1> USE DEF vars, ledgerVars, diskVars, historyVars, jobVars
<1>1. PICK d \in owned \ {c} : d = n \/ (d \notin folders /\ SizeOf[d] = SizeOf[n])
  BY DEF HasReplacement
<1>2. d \in owned' /\ (d \in folders' => d \in folders)
  <2>1. CASE WriteBegins
    <3>1. owned' = owned /\ folders' \subseteq folders \cup {job.n + 1} /\ job.n + 1 \in Jobs
      BY <2>1, BeginIs
    <3>2. job.n + 1 \notin owned
      BY <3>1, JobNumber DEF NumberInv, TypeInv
    <3> QED BY <1>1, <3>1, <3>2
  <2>2. CASE JobSettles \/ Dies \/ UNCHANGED vars
    <3>1. UNCHANGED <<owned, folders>>
      BY <2>2, SettleIs DEF Dies, Crash
    <3> QED BY <1>1, <3>1
  <2>3. CASE WriteSteps /\ job.owes = <<>>
    <3>1. folders' = folders /\ WriteHistory
      BY <2>3, StepDisk, WriteIs
    <3>2. job.at = "unbuild" => job.n \in folders
      BY DEF TypeInv, JobInv, FolderAts
    <3>3. d \notin owned' => d = job.n /\ job.at = "unbuild"
      BY <1>1, <3>1 DEF WriteHistory
    <3> QED BY <1>1, <2>3, <3>1, <3>2, <3>3
  <2>4. CASE LedgerSteps /\ UNCHANGED jobVars
    <3>1. folders' = folders /\ owned \subseteq owned'
      BY <2>4, LedgerDisks, LedgerIs
    <3> QED BY <1>1, <3>1
  <2> QED BY <2>1, <2>2, <2>3, <2>4, NextIs
<1> QED BY <1>1, <1>2 DEF HasReplacement

\* What replaces a record's aside still does while a sweep has the record.
LEMMA ReplacedStays ==
    ASSUME TypeInv, NumberInv, SpareInv, OwnedInv, [Next]_vars, NEW r \in Held, r.kind # "Temp", Replaced(r)
    PROVE  Replaced(r)'
<1> USE DEF vars, ledgerVars, diskVars, historyVars, jobVars
<1>0. r \in Records /\ r.job \in Jobs /\ place \in [Contents -> Places] /\ owned \subseteq Contents
  BY KnownIs, PathIs DEF Held, Known, TypeInv, DiskInv, RestInv
<1>1. PICK d \in owned \ folders : SizeOf[d] = SizeOf[r.job] /\ place[d] # Aside(r.job)
  BY DEF Replaced
<1>2. SUFFICES d \in owned' /\ d \notin folders' /\ place'[d] # Aside(r.job)
  BY <1>1 DEF Replaced
<1>3. CASE WriteBegins
  <2>1. /\ owned' = owned /\ folders' \subseteq folders \cup {job.n + 1} /\ job.n + 1 \in Jobs
        /\ UNCHANGED place \/ place' = [place EXCEPT ![Placeholder] = Name]
    BY <1>3, BeginIs
  <2>2. job.n + 1 \notin owned
    BY <2>1, JobNumber DEF NumberInv, TypeInv
  <2>3. d # Placeholder
    BY <1>1 DEF OwnedInv
  <2> QED BY <1>0, <1>1, <2>1, <2>2, <2>3
<1>4. CASE JobSettles \/ Dies \/ UNCHANGED vars
  <2>1. UNCHANGED <<owned, folders, place>>
    BY <1>4, SettleIs DEF Dies, Crash
  <2> QED BY <1>1, <2>1
<1>5. CASE WriteSteps /\ job.owes = <<>>
  <2>1. folders' = folders /\ WriteHistory /\ WriteAt(d)
    BY <1>0, <1>1, <1>5, StepDisk, WriteIs
  <2>2. job.at = "unbuild" => job.n \in folders
    BY DEF TypeInv, JobInv, FolderAts
  <2>3. d \in owned'
    BY <1>1, <2>1, <2>2 DEF WriteHistory
  <2>4. ASSUME place'[d] = Aside(r.job) PROVE FALSE
    <3>1. job.at = "setAside" /\ Aside(job.n) = Aside(r.job)
      BY <1>1, <2>1, <2>4, PlacesDiffer DEF WriteAt
    <3>2. r.job = job.n
      BY <3>1, PlacesDiffer
    <3> QED BY <3>1, <3>2 DEF SpareInv, RestAts
  <2> QED BY <1>1, <2>1, <2>3, <2>4
<1>6. CASE LedgerSteps /\ UNCHANGED jobVars
  <2>1. folders' = folders /\ owned \subseteq owned' /\ LedgerAt(d)
    BY <1>0, <1>1, <1>6, LedgerDisks, LedgerIs
  <2>2. place'[d] # Aside(r.job)
    BY <1>1, <2>1, PlacesDiffer DEF LedgerAt
  <2> QED BY <1>1, <2>1, <2>2
<1> QED BY <1>3, <1>4, <1>5, <1>6, NextIs

\* A sweep that comes to look at an aside to drop it has found something of
\* the size expected whole at the name.
LEMMA LooksReplaced ==
    ASSUME TypeInv, OwnedInv, NEW s \in Sweepers, NEW r \in sweep[s].todo, r.kind = "FileAside",
           ~Free(Name), \A c \in At(Name) : ExpectedSize(c, r.job), UNCHANGED <<diskVars, historyVars>>
    PROVE  Replaced(r)'
<1>1. r \in Hand(s) /\ Hand(s) \subseteq InHand /\ InHand \subseteq Known /\ Known \subseteq Records
  <2>1. Hand(s) \subseteq Records /\ r \in Hand(s)
    BY DEF Hand, TypeInv, SweepInv
  <2>2. InHand \subseteq Records
    BY HandIs, InHandIs
  <2> QED BY <2>1, <2>2, InHandIs DEF Known, TypeInv, RestInv
<1>2. PICK c \in Contents : place[c] = Name
  BY DEF Free, At
<1>3. c \notin folders /\ SizeOf[c] = SizeOf[r.job]
  BY <1>2 DEF At, ExpectedSize
<1>4. home # "space"
  BY <1>1 DEF OwnedInv
<1>5. c # Placeholder
  BY <1>2, <1>4, PlacesDiffer DEF OwnedInv
<1>6. c \in owned
  BY <1>2, <1>3, <1>5 DEF OwnedInv, Shown
<1>7. Replaced(r)
  BY <1>2, <1>3, <1>6, PlacesDiffer DEF Replaced
<1> QED BY <1>7 DEF Replaced, diskVars, historyVars

\* What no step of a sweep or a person can lose.
LEMMA LedgerSurvives ==
    ASSUME TypeInv, NumberInv, OwnedInv, SurvivalInv, LedgerSteps, UNCHANGED jobVars, [Next]_vars
    PROVE  OriginalSurvives'
<1> SUFFICES ASSUME NEW c \in owned', place'[c] = Nowhere
             PROVE  c \in clobbered' \/ \E n \in Jobs : <<n, c>> \in displaced' /\ HasReplacement(n, c)'
  BY DEF OriginalSurvives
<1>1. /\ owned' = owned \/ (Foreign \notin owned /\ owned' = owned \cup {Foreign} /\ place'[Foreign] = Name)
      /\ \A d \in Contents : LedgerAt(d)
      /\ UNCHANGED <<clobbered, displaced, job>> /\ owned \subseteq Contents
  BY LedgerIs DEF jobVars, TypeInv, RestInv
<1>2. c \in owned /\ c \in Contents
  BY <1>1, PlacesDiffer
<1>3. \A n \in Jobs : HasReplacement(n, c) => HasReplacement(n, c)'
  <2>1. folders' = folders /\ owned \subseteq owned'
    BY <1>1, LedgerDisks
  <2> QED BY <2>1 DEF HasReplacement
<1>4. CASE place[c] = Nowhere
  BY <1>1, <1>2, <1>3, <1>4 DEF SurvivalInv, OriginalSurvives
<1>5. CASE place[c] # Nowhere
  <2>1. PICK s \in Sweepers : sweep[s].now \in Records /\ place[c] = Path(sweep[s].now) /\ sweep[s].at = "remove"
    BY <1>1, <1>2, <1>5, PlacesDiffer DEF LedgerAt
  <2>2. PICK r \in Records : r = sweep[s].now
    BY <2>1
  <2>3. CASE r.kind = "Temp"
    <3>1. place[c] = Temp(r.job) /\ r.job \in Jobs
      BY <2>1, <2>2, <2>3, PathIs
    <3>2. c = r.job
      BY <1>2, <3>1 DEF TypeInv, DiskInv, TempsAreOwn
    <3> QED BY <1>2, <3>1, <3>2 DEF OwnedInv
  <2>4. CASE r.kind # "Temp"
    <3>1. place[c] = Aside(r.job) /\ r.job \in Jobs
      BY <2>1, <2>2, <2>4, PathIs
    <3>2. <<r.job, c>> \in displaced
      BY <1>2, <3>1 DEF NumberInv
    <3>3. Replaced(r)
      BY <2>1, <2>2, <2>4 DEF SurvivalInv
    <3>4. HasReplacement(r.job, c)
      BY <3>1, <3>3 DEF Replaced, HasReplacement
    <3> QED BY <1>1, <1>3, <3>1, <3>2, <3>4
  <2> QED BY <2>3, <2>4
<1> QED BY <1>4, <1>5

\* What no step of a write can lose.
LEMMA WriteSurvives ==
    ASSUME TypeInv, NumberInv, OwnedInv, SurvivalInv, WriteSteps, job.owes = <<>>, [Next]_vars
    PROVE  OriginalSurvives'
<1> SUFFICES ASSUME NEW c \in owned', place'[c] = Nowhere
             PROVE  c \in clobbered' \/ \E n \in Jobs : <<n, c>> \in displaced' /\ HasReplacement(n, c)'
  BY DEF OriginalSurvives
<1>1. /\ WriteDisk /\ WriteHistory /\ job.n \in Jobs /\ owned \subseteq Contents
      /\ \A d \in Contents : WriteAt(d)
  BY StepDisk, StepMoves, WriteIs DEF TypeInv, JobInv, RestInv
<1>2. c \in owned /\ c \in Contents
  BY <1>1, PlacesDiffer, JobsAreContents DEF WriteHistory
<1>3. CASE place[c] = Nowhere
  <2>1. CASE c \in clobbered
    BY <1>1, <2>1 DEF WriteHistory
  <2>2. CASE c \notin clobbered
    <3>1. PICK n \in Jobs : <<n, c>> \in displaced /\ HasReplacement(n, c)
      BY <1>2, <1>3, <2>2 DEF SurvivalInv, OriginalSurvives
    <3>2. ~(job.at = "unbuild" /\ n = job.n)
      BY <1>2, <1>3, <3>1, PlacesDiffer DEF SurvivalInv, FolderAts
    <3>3. HasReplacement(n, c)'
      BY <3>1, <3>2, ReplacementStays
    <3> QED BY <1>1, <3>1, <3>3 DEF WriteHistory
  <2> QED BY <2>1, <2>2
<1>4. CASE place[c] # Nowhere
  <2>1. \/ job.at = "setAside" /\ place[c] = Aside(job.n)
        \/ c \in clobbered' \/ c = Placeholder
        \/ job.at = "removeAside" /\ place[c] = Aside(job.n)
        \/ place[c] = Temp(job.n)
        \/ job.at = "unbuild" /\ c = job.n
    BY <1>1, <1>2, <1>4, PlacesDiffer DEF WriteAt
  <2>2. c # Placeholder
    BY <1>2 DEF OwnedInv
  <2>3. ~(job.at = "setAside" /\ place[c] = Aside(job.n))
    <3>1. job.at = "setAside" => <<job.n, c>> \notin displaced
      BY <1>1, <1>2, JobNumber DEF NumberInv, Past, TypeInv
    <3> QED BY <1>1, <1>2, <3>1 DEF NumberInv
  <2>4. place[c] # Temp(job.n)
    BY <1>1, <1>2 DEF OwnedInv, TypeInv, DiskInv, TempsAreOwn
  <2>5. ~(job.at = "unbuild" /\ c = job.n)
    <3>1. SUFFICES ASSUME job.at = "unbuild", c = job.n PROVE FALSE
      OBVIOUS
    <3>2. place' = place \/ owned' = owned \ {job.n}
      BY <1>1, <3>1 DEF WriteDisk, TempDrops
    <3> QED BY <1>4, <3>1, <3>2
  <2>6. CASE job.at = "removeAside" /\ place[c] = Aside(job.n)
    <3>1. <<job.n, c>> \in displaced /\ c # job.n /\ job.n \in owned
      BY <1>1, <1>2, <2>6 DEF NumberInv, OwnedInv
    <3>2. job.n \in owned' /\ displaced \subseteq displaced'
      BY <1>1, <2>6, <3>1 DEF WriteHistory
    <3>3. PICK n \in Jobs : n = job.n
      BY <1>1
    <3>4. HasReplacement(n, c)'
      <4>1. n \in owned' \ {c}
        BY <3>1, <3>2, <3>3
      <4> QED BY <4>1 DEF HasReplacement
    <3> QED BY <3>1, <3>2, <3>3, <3>4
  <2> QED BY <2>1, <2>2, <2>3, <2>4, <2>5, <2>6
<1> QED BY <1>3, <1>4

LEMMA InitSurvivalInv == Init => SurvivalInv
<1> SUFFICES ASSUME Init PROVE SurvivalInv
  OBVIOUS
<1>1. job.at = "idle" /\ \A s \in Sweepers : sweep[s].at = "idle"
  BY IdleIs DEF Init, Rest
<1>2. \A c \in owned : c \in Contents /\ place[c] = Name
  BY JobsAreContents DEF Init
<1> QED BY <1>1, <1>2, PlacesDiffer DEF SurvivalInv, OriginalSurvives, FolderAts

LEMMA StepSurvivalInv == TypeInv /\ NumberInv /\ SpareInv /\ OwnedInv /\ SurvivalInv /\ [Next]_vars => SurvivalInv'
<1> SUFFICES ASSUME TypeInv, NumberInv, SpareInv, OwnedInv, SurvivalInv, [Next]_vars PROVE SurvivalInv'
  OBVIOUS
<1> USE DEF ledgerVars, diskVars, historyVars, jobVars
<1>0. place \in [Contents -> Places] /\ owned \subseteq Contents
  BY DEF TypeInv, DiskInv, RestInv
<1>1. ASSUME UNCHANGED sweep
      PROVE  \A s \in Sweepers, r \in Records :
                sweep'[s].at \in {"lookAside", "remove"} /\ r.kind # "Temp" /\ sweep'[s].now = r => Replaced(r)'
  <2> SUFFICES ASSUME NEW s \in Sweepers, NEW r \in Records,
                      sweep[s].at \in {"lookAside", "remove"}, r.kind # "Temp", sweep[s].now = r
               PROVE  Replaced(r)'
    BY <1>1
  <2>1. Replaced(r) /\ r \in Held
    BY NowHeld DEF SurvivalInv
  <2> QED BY <2>1, ReplacedStays
<1>2. CASE WriteBegins
  <2>1. /\ job'.at \in {"fill", "setAside"} /\ UNCHANGED <<owned, clobbered, displaced, sweep>>
        /\ UNCHANGED place \/ place' = [place EXCEPT ![Placeholder] = Name]
        /\ job.at = "idle"
    BY <1>2, BeginIs
  <2>2. OriginalSurvives'
    <3> SUFFICES ASSUME NEW c \in owned, place'[c] = Nowhere
                 PROVE  c \in clobbered' \/ \E n \in Jobs : <<n, c>> \in displaced' /\ HasReplacement(n, c)'
      BY <2>1 DEF OriginalSurvives
    <3>1. place[c] = Nowhere
      BY <1>0, <2>1, PlacesDiffer
    <3>2. \A n \in Jobs : HasReplacement(n, c) => HasReplacement(n, c)'
      BY <2>1, ReplacementStays
    <3> QED BY <2>1, <3>1, <3>2 DEF SurvivalInv, OriginalSurvives
  <2> QED BY <1>1, <2>1, <2>2 DEF SurvivalInv, FolderAts
<1>3. CASE JobSettles \/ UNCHANGED vars
  <2>1. /\ job'.n = job.n /\ job'.at = job.at
        /\ UNCHANGED <<place, owned, folders, clobbered, displaced, sweep>>
    BY <1>3, SettleIs DEF vars
  <2> QED BY <2>1 DEF SurvivalInv, OriginalSurvives, HasReplacement, Replaced
<1>4. CASE WriteSteps /\ job.owes = <<>>
  <2>1. /\ WriteMove /\ job'.n = job.n /\ job.n \in Jobs /\ UNCHANGED sweep /\ WriteHistory
        /\ \A c \in Contents : WriteAt(c)
    BY <1>4, StepMoves, StepDisk, WriteIs DEF TypeInv, JobInv
  <2>2. ASSUME job'.at \in FolderAts, NEW c \in Contents, <<job.n, c>> \in displaced'
        PROVE  place'[c] = Aside(job.n)
    <3>1. job.at \in FolderAts \/ job.at = "setAside"
      BY <2>1, <2>2 DEF WriteMove, Moves, FolderAts, AfterAsides
    <3>2. CASE <<job.n, c>> \notin displaced
      BY <2>1, <2>2, <3>2 DEF WriteHistory
    <3>3. CASE <<job.n, c>> \in displaced
      <4>1. job.at # "setAside"
        BY <2>1, <3>3, JobNumber DEF NumberInv, Past, TypeInv
      <4>2. job.at \in FolderAts /\ place[c] = Aside(job.n)
        BY <3>1, <3>3, <4>1 DEF SurvivalInv
      <4>3. c # job.n
        BY <2>1, <4>2 DEF NumberInv
      <4> QED BY <2>1, <4>2, <4>3, PlacesDiffer DEF WriteAt, FolderAts, TempDrops
    <3> QED BY <3>2, <3>3
  <2>3. OriginalSurvives'
    BY <1>4, WriteSurvives
  <2> QED BY <1>1, <2>1, <2>2, <2>3 DEF SurvivalInv
<1>5. CASE Dies
  <2>1. /\ job'.at = "idle" /\ UNCHANGED <<place, owned, folders, clobbered, displaced>>
        /\ \A s \in Sweepers : sweep'[s].at = "idle"
    BY <1>5, IdleIs DEF Dies, Crash, Rest
  <2> QED BY <2>1 DEF SurvivalInv, OriginalSurvives, HasReplacement, FolderAts
<1>6. CASE LedgerSteps /\ UNCHANGED jobVars
  <2>1. UNCHANGED <<job, displaced>> /\ \A c \in Contents : LedgerAt(c)
    BY <1>6, LedgerIs
  <2>2. ASSUME NEW s \in Sweepers, NEW r \in Records,
               sweep'[s].at \in {"lookAside", "remove"}, r.kind # "Temp", sweep'[s].now = r
        PROVE  Replaced(r)'
    <3>1. CASE sweep'[s] = sweep[s]
      <4>1. Replaced(r) /\ r \in Held
        BY <2>2, <3>1, NowHeld DEF SurvivalInv
      <4> QED BY <2>2, <4>1, ReplacedStays
    <3>2. CASE Looked(s)
      <4>1. r \in sweep[s].todo /\ r.kind = "FileAside" /\ ~Free(Name) /\ UNCHANGED <<diskVars, historyVars>>
            /\ \A c \in At(Name) : ExpectedSize(c, r.job)
        BY <2>2, <3>2 DEF Looked
      <4> QED BY <4>1, LooksReplaced
    <3>3. CASE Acted(s)
      <4>1. sweep[s].at = "lookAside" /\ sweep[s].now = r
        BY <2>2, <3>3 DEF Acted, SweepAct
      <4>2. Replaced(r) /\ r \in Held
        BY <2>2, <4>1, NowHeld DEF SurvivalInv
      <4> QED BY <2>2, <4>2, ReplacedStays
    <3> QED BY <1>6, <2>2, <3>1, <3>2, <3>3, SweepGoes
  <2>3. ASSUME job.at \in FolderAts, NEW c \in Contents, <<job.n, c>> \in displaced
        PROVE  place'[c] = Aside(job.n)
    <3>1. place[c] = Aside(job.n) /\ job.n \in Jobs
      BY <2>3 DEF SurvivalInv, TypeInv, JobInv, FolderAts
    <3>2. c = Foreign => Foreign \in owned
      BY <3>1, PlacesDiffer DEF OwnedInv
    <3>3. ASSUME NEW s \in Sweepers, sweep[s].now \in Records, place[c] = Path(sweep[s].now) PROVE FALSE
      <4>1. PICK r \in Records : r = sweep[s].now
        BY <3>3
      <4>2. r.kind # "Temp" /\ Aside(r.job) = Aside(job.n)
        <5>1. Path(r) = Aside(job.n)
          BY <3>1, <3>3, <4>1
        <5>2. Temp(r.job) # Aside(job.n)
          BY PlacesDiffer
        <5> QED BY <5>1, <5>2, PathIs
      <4>3. r.job = job.n /\ r \in Held
        BY <3>3, <4>1, <4>2, PlacesDiffer, NowHeld
      <4> QED BY <2>3, <4>2, <4>3 DEF SpareInv, RestAts, FolderAts
    <3> QED BY <2>1, <3>1, <3>2, <3>3 DEF LedgerAt
  <2>4. OriginalSurvives'
    BY <1>6, LedgerSurvives
  <2> QED BY <2>1, <2>2, <2>3, <2>4 DEF SurvivalInv
<1> QED BY <1>2, <1>3, <1>4, <1>5, <1>6, NextIs

\* Whatever a person had whole at the name is still on the disk, unless a
\* write moved it aside and something of the size that write brings has stood
\* whole at the name since, or a replacing rename met it there unknowing.
THEOREM OriginalIsKept == Spec => []OriginalSurvives
<1>1. SurvivalInv => OriginalSurvives
  BY DEF SurvivalInv
<1>2. TypeInv /\ NumberInv /\ SpareInv /\ OwnedInv /\ SurvivalInv /\ [Next]_vars => SurvivalInv'
  BY StepSurvivalInv
<1> QED BY <1>1, <1>2, InitSurvivalInv, Typing, Numbering, Sparing, Owning, PTL DEF Spec

(***************************************************************************)
(* A write that has cleared its name keeps its temp.                       *)
(***************************************************************************)
Committed(n) ==
    n \in cleared \/ (n = job.n /\ job.at \in {"clearName", "look", "placeAgain"} /\ job.owes = <<>>)
AfterClearing == {"placeAgain", "look", "toss", "rescueTemp", "sweepOwn", "idle"}

\* From the moment a write may clear its name, no record of its temp is left
\* for anybody to sweep by, and none will be made.
CommitInv ==
    /\ \A n \in Jobs : Committed(n) => TempOf(n) \notin Known \cup Owed("track") \cup Owed("keep")
    /\ job.n \in cleared => job.owes = <<>> /\ job.at \in AfterClearing
    /\ job.at = "clearName" /\ job.owes # <<>> => OwnTemp \in Owed("retire")

LEMMA TempOfIs ==
    ASSUME NEW n \in Jobs
    PROVE  TempOf(n) \in Records /\ TempOf(n).job = n /\ TempOf(n).kind = "Temp" /\ Path(TempOf(n)) = Temp(n)
BY DEF TempOf, Records, Path

LEMMA InitCommitInv == Init => CommitInv
BY DEF Init, Rest, CommitInv, Committed

\* A write that is committed and goes on owes the ledger nothing.
LEMMA CommittedMoves ==
    ASSUME TypeInv, CommitInv, WriteSteps, job.owes = <<>>, Committed(job.n)
    PROVE  job'.owes = <<>> /\ job'.at \in AfterClearing
<1>1. WriteMove /\ job.at # "idle"
  BY StepMoves
<1>2. job.at \in {"clearName", "placeAgain", "look", "toss", "rescueTemp", "sweepOwn"}
  BY <1>1 DEF CommitInv, Committed, AfterClearing
<1> QED BY <1>1, <1>2 DEF WriteMove, Moves, AfterClearing, AfterAsides

LEMMA StepCommitInv == TypeInv /\ NumberInv /\ SpareInv /\ CommitInv /\ [Next]_vars => CommitInv'
<1> SUFFICES ASSUME TypeInv, NumberInv, SpareInv, CommitInv, [Next]_vars PROVE CommitInv'
  OBVIOUS
<1> USE DEF ledgerVars, jobVars
<1>0. job.n \in Nat /\ cleared \subseteq Jobs /\ Jobs \subseteq Nat
  BY JobNumber, JobsAssumption DEF TypeInv, RestInv
<1>1. ASSUME NEW n \in Jobs, n \in cleared
      PROVE  TempOf(n) \notin Known /\ TempOf(n) \notin Owed("track") /\ TempOf(n) \notin Owed("keep")
  BY <1>1 DEF CommitInv, Committed
<1>2. ASSUME NEW w \in RecordCalls, NEW r, r \in Owed(w)' PROVE job'.owes = Owe(w, r) /\ r \in Records /\ job'.owes # <<>>
  BY <1>2, OwesDiffer DEF Owed
<1>3. CASE WriteBegins
  <2>1. /\ job'.n = job.n + 1 /\ job'.at \in {"fill", "setAside"} /\ cleared' = cleared
    BY <1>3, BeginIs
  <2>2. \A n \in cleared : n # job'.n
    BY <1>0, <2>1 DEF NumberInv
  <2>3. ASSUME NEW n \in Jobs, Committed(n)'
        PROVE  TempOf(n) \notin Known' /\ TempOf(n) \notin Owed("track")' /\ TempOf(n) \notin Owed("keep")'
    <3>1. n \in cleared /\ n # job'.n
      BY <2>1, <2>2, <2>3 DEF Committed
    <3>2. ~JobSettles
      BY <1>3, BeginIs DEF JobSettles
    <3>3. TempOf(n) \notin Known'
      BY <1>1, <3>1, <3>2, KnownIs
    <3>4. \A w \in RecordCalls : \A r \in Owed(w)' : r.job = job'.n
      BY StepJobInv DEF JobInv
    <3> QED BY <3>1, <3>3, <3>4, TempOfIs DEF RecordCalls
  <2> QED BY <2>1, <2>2, <2>3 DEF CommitInv
<1>4. CASE JobSettles
  <2>1. PICK w \in RecordCalls, r \in Records :
           /\ job.owes = Owe(w, r) /\ r \in Owed(w) /\ job'.n = job.n /\ job'.at = job.at
           /\ job'.owes = IF w = "keep" THEN Owe("listen", r) ELSE <<>>
           /\ w = "retire" => RetireRecord(r)
           /\ UNCHANGED <<sweep, cleared>>
    BY <1>4, SettleIs DEF RecordCalls
  <2>2. job.owes # <<>> /\ job.n \notin cleared /\ job.at \notin {"look", "placeAgain"}
    BY <2>1, OwesDiffer DEF CommitInv, TypeInv, JobInv
  <2>3. ASSUME job.at = "clearName" PROVE w = "retire" /\ r = OwnTemp
    <3>1. Owe("retire", OwnTemp) = Owe(w, r)
      BY <2>1, <2>2, <2>3 DEF CommitInv, Owed
    <3> QED BY <3>1, OwesDiffer
  <2>4. ASSUME NEW v \in {"track", "keep"}, NEW q \in Owed(v)' PROVE FALSE
    <3>1. Owe("listen", r) = Owe(v, q)
      BY <1>2, <2>1, <2>4 DEF RecordCalls
    <3> QED BY <2>4, <3>1, OwesDiffer
  <2>5. ASSUME NEW n \in Jobs, Committed(n)' PROVE TempOf(n) \notin Known'
    <3>1. CASE n \in cleared
      BY <1>1, <3>1, KnownIs
    <3>2. CASE n \notin cleared
      <4>1. n = job.n /\ job.at = "clearName"
        BY <2>1, <2>2, <2>5, <3>2 DEF Committed
      <4>2. RetireRecord(r) /\ r = TempOf(n) /\ r \notin Held
        BY <2>1, <2>3, <4>1 DEF OwnTemp, SpareInv
      <4>3. InHand' = InHand
        BY <2>1 DEF InHand, Hand
      <4> QED BY <4>2, <4>3 DEF RetireRecord, Unlocked, Known, Held
    <3> QED BY <3>1, <3>2
  <2>6. job'.at = "clearName" => job'.owes = <<>>
    BY <2>1, <2>3
  <2> QED BY <2>1, <2>2, <2>4, <2>5, <2>6 DEF CommitInv
<1>5. CASE WriteSteps /\ job.owes = <<>>
  <2>1. /\ WriteMove /\ job'.n = job.n /\ job.n \in Jobs /\ job.at # "idle"
        /\ cleared' = cleared \/ (job.at = "clearName" /\ cleared' = cleared \cup {job.n})
    BY <1>5, StepMoves, WriteIs DEF WriteHistory, TypeInv, JobInv
  <2>2. ASSUME NEW n \in Jobs, Committed(n)' PROVE Committed(n)
    <3>1. CASE n \in cleared'
      BY <1>5, <2>1, <3>1 DEF Committed
    <3>2. CASE n = job.n /\ job'.at \in {"clearName", "look", "placeAgain"} /\ job'.owes = <<>>
      <4>1. Owe("retire", OwnTemp) # <<>>
        BY OwesDiffer
      <4>2. job.at \in {"clearName", "look"}
        BY <2>1, <3>2, <4>1 DEF WriteMove, Moves, AfterAsides
      <4> QED BY <1>5, <3>2, <4>2 DEF Committed
    <3> QED BY <2>1, <2>2, <3>1, <3>2 DEF Committed
  <2>3. ASSUME NEW n \in Jobs, Committed(n)', NEW w \in {"track", "keep"}, TempOf(n) \in Owed(w)' PROVE FALSE
    <3>1. TempOf(n).job = job.n
      BY <1>5, <2>3, MoveOwesOwn
    <3>2. Committed(job.n)
      BY <2>2, <2>3, <3>1, TempOfIs
    <3>3. job'.owes = <<>>
      BY <1>5, <3>2, CommittedMoves
    <3> QED BY <1>2, <2>3, <3>3 DEF RecordCalls
  <2>4. ASSUME NEW n \in Jobs, Committed(n)' PROVE TempOf(n) \notin Known'
    <3>1. ~JobSettles
      BY <1>5 DEF JobSettles
    <3> QED BY <2>2, <2>4, <3>1, KnownIs DEF CommitInv
  <2>5. job.n \in cleared' => job'.owes = <<>> /\ job'.at \in AfterClearing
    <3>1. job.n \in cleared' => Committed(job.n)
      BY <1>5, <2>1 DEF Committed
    <3> QED BY <1>5, <3>1, CommittedMoves
  <2>6. ASSUME job'.at = "clearName", job'.owes # <<>> PROVE OwnTemp' \in Owed("retire")'
    <3>1. job'.owes = Owe("retire", OwnTemp) /\ OwnTemp' = OwnTemp /\ OwnTemp \in Records
      BY <2>1, <2>6, OwnRecords DEF WriteMove, Moves, AfterAsides, OwnTemp, TypeInv
    <3>2. PICK t \in Records : t = OwnTemp
      BY <3>1
    <3>3. t \in Owed("retire")'
      BY <3>1, <3>2 DEF Owed
    <3> QED BY <3>1, <3>2, <3>3
  <2> QED BY <2>1, <2>3, <2>4, <2>5, <2>6 DEF CommitInv
<1>6. CASE Dies
  <2>1. job'.owes = <<>> /\ job'.at = "idle" /\ cleared' = cleared /\ ~JobSettles
    <3>1. job'.at = "idle" /\ job'.owes = <<>> /\ cleared' = cleared /\ app' # app
      BY <1>6 DEF Dies, Crash, Rest
    <3>2. ~JobSettles
      BY <3>1 DEF JobSettles
    <3> QED BY <3>1, <3>2
  <2>2. \A n \in Jobs : Committed(n)' => n \in cleared /\ TempOf(n) \notin Known'
    BY <1>1, <2>1, KnownIs DEF Committed
  <2>3. \A w \in RecordCalls : Owed(w)' = {}
    BY <1>2, <2>1
  <2> QED BY <2>1, <2>2, <2>3 DEF CommitInv, AfterClearing, RecordCalls
<1>7. CASE (LedgerSteps /\ UNCHANGED jobVars) \/ UNCHANGED vars
  <2>1. UNCHANGED <<job, cleared>>
    BY <1>7 DEF vars
  <2>2. \A w : Owed(w)' = Owed(w)
    BY <2>1 DEF Owed
  <2>3. Known' \subseteq Known
    <3>1. ~JobSettles
      <4>1. JobSettles => job'.owes = Tail(job.owes) /\ job.owes # <<>> /\ job.owes # Tail(job.owes)
        <5>1. SUFFICES ASSUME JobSettles
                       PROVE  job'.owes = Tail(job.owes) /\ job.owes # <<>> /\ job.owes # Tail(job.owes)
          OBVIOUS
        <5>2. PICK w \in RecordCalls, r \in Records :
                 job.owes = Owe(w, r) /\ job'.owes = IF w = "keep" THEN Owe("listen", r) ELSE <<>>
          BY <5>1, SettleIs
        <5>3. Owe("listen", r) # Owe("keep", r) /\ Owe(w, r) # <<>>
          BY OwesDiffer
        <5>4. Tail(job.owes) = job'.owes
          BY <5>2, OwesTail
        <5> QED BY <5>2, <5>3, <5>4
      <4> QED BY <2>1, <4>1
    <3> QED BY <3>1, KnownIs
  <2> QED BY <2>1, <2>2, <2>3 DEF CommitInv, Committed, OwnTemp
<1> QED BY <1>3, <1>4, <1>5, <1>6, <1>7, NextIs

LEMMA Committing == Spec => []CommitInv
<1>1. TypeInv /\ NumberInv /\ SpareInv /\ CommitInv /\ [Next]_vars => CommitInv'
  BY StepCommitInv
<1> QED BY <1>1, InitCommitInv, Typing, Numbering, Sparing, PTL DEF Spec

\* Once a write has cleared the name it had reserved, no sweep of this launch
\* or a later one, and none of its own operation, removes its temp.
THEOREM CommittedIsSpared == Spec => CommittedUnswept
<1>1. TypeInv /\ CommitInv /\ [Next]_vars
        => [\A n \in Jobs : n \in cleared /\ place[n] = Temp(n) /\ place'[n] = Nowhere => job.at = "toss"]_vars
  <2> SUFFICES ASSUME TypeInv, CommitInv, [Next]_vars, NEW n \in Jobs,
                      n \in cleared, place[n] = Temp(n), place'[n] = Nowhere
               PROVE  job.at = "toss"
    OBVIOUS
  <2> USE DEF ledgerVars, diskVars
  <2>0. /\ place'[n] # place[n] /\ n \in Contents /\ n # Placeholder /\ n # Foreign
        /\ TempOf(n) \notin Known /\ place \in [Contents -> Places]
    BY PlacesDiffer, JobsAreContents, ContentsAssumption DEF CommitInv, Committed, TypeInv, DiskInv
  <2>1. CASE WriteBegins
    BY <2>0, <2>1, BeginIs
  <2>2. CASE JobSettles \/ Dies \/ UNCHANGED vars
    <3>1. UNCHANGED place
      BY <2>2, SettleIs DEF Dies, Crash, vars
    <3> QED BY <2>0, <3>1
  <2>3. CASE WriteSteps /\ job.owes = <<>>
    <3>1. WriteAt(n)
      BY <2>0, <2>3, WriteIs
    <3>2. \/ job.at \in TempDrops /\ Temp(n) = Temp(job.n) /\ (job.at = "sweepOwn" => OwnTemp \in recorded)
          \/ job.at = "unbuild" /\ n = job.n
      BY <2>0, <3>1, PlacesDiffer DEF WriteAt
    <3>3. n = job.n
      BY <3>2, PlacesDiffer
    <3>4. job.at \in AfterClearing
      BY <3>3 DEF CommitInv
    <3>5. job.at # "sweepOwn"
      BY <2>0, <3>2, <3>3 DEF Known, OwnTemp
    <3> QED BY <3>2, <3>4, <3>5 DEF AfterClearing, TempDrops
  <2>4. CASE LedgerSteps /\ UNCHANGED jobVars
    <3>1. LedgerAt(n)
      BY <2>0, <2>4, LedgerIs
    <3>2. PICK s \in Sweepers : sweep[s].now \in Records /\ Path(sweep[s].now) = Temp(n)
      BY <2>0, <3>1, PlacesDiffer DEF LedgerAt
    <3>3. PICK r \in Records : r = sweep[s].now
      BY <3>2
    <3>4. r = TempOf(n)
      <4>1. Path(r) = Temp(n) /\ Aside(r.job) # Temp(n)
        BY <3>2, <3>3, PlacesDiffer
      <4>2. Temp(r.job) = Temp(n) /\ r = TempOf(r.job)
        BY <4>1, PathIs
      <4> QED BY <4>2, PlacesDiffer
    <3>5. r \in Known
      BY <3>2, <3>3, NowHeld
    <3> QED BY <2>0, <3>4, <3>5
  <2> QED BY <2>1, <2>2, <2>3, <2>4, NextIs
<1> QED BY <1>1, Typing, Committing, PTL DEF Spec, CommittedUnswept

=============================================================================

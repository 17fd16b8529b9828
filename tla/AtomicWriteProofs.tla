-------------------------- MODULE AtomicWriteProofs --------------------------
(***************************************************************************)
(* Replacing database, backup and shadow, for any number of cycles, saves, *)
(* kills and power failures.  That the database is durable before the      *)
(* shadow, and the backup before the database, takes a file system that    *)
(* syncs directories: syncDir ignores its error (nedb.go:358-367).         *)
(***************************************************************************)
EXTENDS AtomicWrite, TLAPS

Writing  == {"temp", "sync", "rename"}
HoldsTmp == {"sync", "rename"}

(* A temp file exists while it is written; others are left from stops. *)
TempInv ==
  /\ step \in HoldsTmp => temps >= 1
  /\ temps <= stops + (IF step \in HoldsTmp THEN 1 ELSE 0)

(* What is renamed was synced, so whatever a power failure leaves is whole. *)
WholeInv ==
  /\ torn = {}
  /\ step = "rename" => tmp.synced
  /\ \A f \in File : \A c \in possible[f] : c.synced

(* The reply of a cycle is newer than any shadow until the cycle saves it,   *)
(* and only FreeTube has newer ones.                                        *)
VersionInv ==
  /\ \A f \in File : \A c \in possible[f] : c.v <= version
  /\ step # "idle" => new <= version /\ \A c \in possible["shadow"] : c.v <= new
  /\ step \in HoldsTmp => tmp.v <= version
  /\ step \in HoldsTmp /\ target # "bak" => tmp.v = new

(* The shadow is written when the database can only be the reply, something *)
(* newer that FreeTube saved, or gone.                                      *)
ShadowInv ==
  /\ step = "syncdir" => target # "shadow"
  /\ step = "syncdir" /\ target = "db" => entry["db"].v = 0 \/ entry["db"].v >= new
  /\ step \in Writing /\ target = "shadow" =>
       \A d \in possible["db"] : d.v = 0 \/ d.v >= new
  /\ ShadowNeverAhead

(* The database is written when its backup can only be what it holds, if    *)
(* FreeTube did not save it meanwhile.                                      *)
BackupInv ==
  entry["db"].v # 0 /\ ~ raced =>
    /\ step \in HoldsTmp /\ target = "bak" => tmp.v = entry["db"].v
    /\ step = "syncdir" /\ target = "bak" => entry["bak"] = Whole(entry["db"].v)
    /\ step \in Writing /\ target = "db" => possible["bak"] = {Whole(entry["db"].v)}

BaseInv == TypeOK /\ TempInv /\ WholeInv /\ VersionInv

DurableInv == BaseInv /\ ShadowInv /\ BackupInv

-----------------------------------------------------------------------------
(* rename(2): the file holds the new content, which a power failure may    *)
(* keep or take back.                                                      *)
LEMMA ReplaceType ==
  ASSUME TypeOK, NEW f \in File, NEW c \in Content, Replace(f, c)
  PROVE  /\ entry' \in [File -> Content] /\ possible' \in [File -> SUBSET Content]
         /\ \A g \in File : entry'[g] \in possible'[g]
         /\ torn' \subseteq File
         /\ entry'[f] = c /\ possible'[f] = possible[f] \cup {c}
         /\ \A g \in File \ {f} : entry'[g] = entry[g] /\ possible'[g] = possible[g]
<1> USE DEF TypeOK, Replace
<1> HIDE DEF Content
<1> QED OBVIOUS

(* A whole file has a version and is synced. *)
LEMMA WholeType ==
  ASSUME NEW v \in Nat
  PROVE  Whole(v) \in Content /\ Whole(v).v = v /\ Whole(v).synced
BY DEF Whole, Content

(* A power failure leaves, of each file, one of its possible versions. *)
LEMMA PowerLossLeaves ==
  ASSUME TypeOK, PowerLoss
  PROVE  /\ step' = "idle" /\ UNCHANGED <<target, tmp, new, temps, version, raced>>
         /\ stops' \in 0..MaxStops /\ stops' = stops + 1
         /\ entry' \in [File -> Content]
         /\ \A f \in File : /\ possible'[f] = {entry'[f]}
                            /\ \E c \in possible[f] : entry'[f] = Whole(c.v)
         /\ possible' \in [File -> SUBSET Content]
         /\ torn' \subseteq File
         /\ (\A f \in File : \A c \in possible[f] : c.synced) => torn' = torn
<1>1. PICK g \in Leftovers : /\ entry' = [f \in File |-> Whole(g[f].v)]
                             /\ torn' = torn \cup {f \in File : ~ g[f].synced}
  BY DEF PowerLoss
<1>2. \A f \in File : g[f] \in possible[f] /\ g[f] \in Content
  BY <1>1 DEF Leftovers, TypeOK
<1>3. \A f \in File : g[f].v \in Nat
  BY <1>2 DEF Content
<1>4. entry' \in [File -> Content]
  BY <1>1, <1>3, WholeType
<1>5. possible' = [f \in File |-> {entry'[f]}]
  BY DEF PowerLoss
<1>6. stops' \in 0..MaxStops /\ stops' = stops + 1
  BY AtomicWriteAssumption DEF PowerLoss, TypeOK
<1>7. \A f \in File : possible'[f] = {entry'[f]}
  BY <1>5
<1>8. possible' \in [File -> SUBSET Content]
  BY <1>4, <1>5
<1>9. \A f \in File : \E c \in possible[f] : entry'[f] = Whole(c.v)
  BY <1>1, <1>2
<1>10. torn' \subseteq File
  BY <1>1 DEF TypeOK
<1>11. (\A f \in File : \A c \in possible[f] : c.synced) => torn' = torn
  BY <1>1, <1>2
<1> QED BY <1>4, <1>6, <1>7, <1>8, <1>9, <1>10, <1>11 DEF PowerLoss

-----------------------------------------------------------------------------
(* nedb.go:284-322: the initial files satisfy the invariant. *)
LEMMA InitBaseInv == Init => BaseInv
<1> SUFFICES ASSUME Init PROVE BaseInv
  OBVIOUS
<1>1. entry \in [File -> Content] /\ tmp \in Content
  BY WholeType DEF Init
<1>2. \A f \in File : possible[f] = {entry[f]} /\ entry[f].synced /\ entry[f].v \in {0, 1}
  BY WholeType DEF Init
<1>3. possible \in [File -> SUBSET Content]
  BY <1>1 DEF Init
<1>4. TypeOK
  <2>1. /\ target \in File /\ step = "idle" /\ torn \subseteq File
        /\ \A f \in File : entry[f] \in possible[f]
    BY <1>2 DEF Init, File
  <2>2. new \in 0..MaxVersion /\ temps \in Nat /\ version \in 1..MaxVersion
    BY AtomicWriteAssumption DEF Init
  <2>3. stops \in 0..MaxStops
    BY AtomicWriteAssumption DEF Init
  <2>4. raced \in BOOLEAN
    BY DEF Init
  <2> QED BY <1>1, <1>3, <2>1, <2>2, <2>3, <2>4 DEF TypeOK
<1>5. TempInv /\ WholeInv /\ VersionInv
  BY <1>2 DEF Init, TempInv, HoldsTmp, WholeInv, VersionInv
<1> QED BY <1>4, <1>5 DEF BaseInv

(* nedb.go:284-367: every step keeps files and locals typed. *)
LEMMA TypeOKNext == TypeOK /\ TempInv /\ [Next]_vars => TypeOK'
<1> SUFFICES ASSUME TypeOK, TempInv, [Next]_vars PROVE TypeOK'
  OBVIOUS
<1> USE AtomicWriteAssumption
<1>1. ASSUME Begin PROVE TypeOK'
  BY <1>1 DEF Begin, TypeOK
<1>2. ASSUME Stat PROVE TypeOK'
  BY <1>2 DEF Stat, TypeOK, File
<1>3. ASSUME WriteTemp PROVE TypeOK'
  <2>1. Data(target) \in Nat
    BY DEF TypeOK, Content, File, Data
  <2> QED BY <1>3, <2>1 DEF WriteTemp, TypeOK, Content
<1>4. ASSUME SyncTemp PROVE TypeOK'
  BY <1>4 DEF SyncTemp, TypeOK, Content
<1>5. ASSUME Rename PROVE TypeOK'
  <2>1. temps' \in Nat
    BY <1>5 DEF Rename, TypeOK, TempInv, HoldsTmp
  <2> QED BY <1>5, <2>1, ReplaceType DEF Rename, TypeOK
<1>6. ASSUME syncDir PROVE TypeOK'
  <2>1. /\ \A f \in File : entry[f] \in Content
        /\ possible' = [f \in File |-> IF DirSyncWorks /\ f # "shadow" THEN {entry[f]}
                                                                    ELSE possible[f]]
    BY <1>6 DEF syncDir, TypeOK
  <2>2. /\ possible' \in [File -> SUBSET Content]
        /\ \A f \in File : entry[f] \in possible'[f]
    BY <2>1 DEF TypeOK
  <2> QED BY <1>6, <2>2 DEF syncDir, TypeOK, File
<1>7. ASSUME Fail PROVE TypeOK'
  <2>1. temps' \in Nat
    BY <1>7 DEF Fail, TypeOK, TempInv, HoldsTmp
  <2> QED BY <1>7, <2>1 DEF Fail, TypeOK
<1>8. ASSUME Crash PROVE TypeOK'
  BY <1>8 DEF Crash, TypeOK
<1>9. ASSUME PowerLoss PROVE TypeOK'
  <2>1. \A f \in File : entry'[f] \in possible'[f]
    BY <1>9, PowerLossLeaves
  <2>2. UNCHANGED <<target, tmp, new, temps, version, raced>>
    BY <1>9, PowerLossLeaves
  <2>3. target \in File /\ tmp \in Content /\ new \in 0..MaxVersion /\ temps \in Nat
        /\ version \in 1..MaxVersion /\ raced \in BOOLEAN
    BY DEF TypeOK
  <2> QED BY <1>9, <2>1, <2>2, <2>3, PowerLossLeaves DEF TypeOK
<1>10. ASSUME FreeTubeSaves PROVE TypeOK'
  <2>1. "db" \in File /\ version' \in 1..MaxVersion /\ Whole(version') \in Content
    BY <1>10, WholeType DEF FreeTubeSaves, TypeOK, File
  <2> QED BY <1>10, <2>1, ReplaceType DEF FreeTubeSaves, TypeOK, cycle
<1>11. ASSUME DeleteDB PROVE TypeOK'
  <2>1. "db" \in File /\ Whole(0) \in Content
    BY WholeType DEF File
  <2> QED BY <1>11, <2>1, ReplaceType DEF DeleteDB, TypeOK, cycle
<1>12. CASE UNCHANGED vars
  BY <1>12 DEF vars, TypeOK
<1> QED BY <1>1, <1>2, <1>3, <1>4, <1>5, <1>6, <1>7, <1>8, <1>9, <1>10, <1>11, <1>12
       DEF Next, WriteStep

(* nedb.go:301, 338: a failed step takes its temp file along. *)
LEMMA TempNext == TypeOK /\ TempInv /\ [Next]_vars => TempInv'
BY AtomicWriteAssumption
   DEF TypeOK, TempInv, HoldsTmp, Next, WriteStep, vars, cycle, Begin, Stat, WriteTemp,
       SyncTemp, Rename, syncDir, Fail, Crash, PowerLoss, FreeTubeSaves, DeleteDB

(* nedb.go:324-356: what a rename or a save puts in a file is synced. *)
LEMMA ReplaceWhole ==
  ASSUME TypeOK, WholeInv, NEW f \in File, NEW c \in Content, Replace(f, c), c.synced
  PROVE  torn' = {} /\ \A g \in File : \A d \in possible'[g] : d.synced
<1>1. torn' = {}
  BY DEF Replace, WholeInv
<1>2. ASSUME NEW g \in File, NEW d \in possible'[g]
      PROVE  d.synced
  <2>1. d = c \/ d \in possible[g]
    BY <1>2, ReplaceType
  <2> QED BY <2>1 DEF WholeInv
<1> QED BY <1>1, <1>2

(* nedb.go:324-356: no step, a power failure included, tears a file. *)
LEMMA WholeNext == TypeOK /\ WholeInv /\ [Next]_vars => WholeInv'
<1> SUFFICES ASSUME TypeOK, WholeInv, [Next]_vars PROVE WholeInv'
  OBVIOUS
<1>1. ASSUME Begin \/ Stat \/ WriteTemp \/ Fail \/ Crash \/ UNCHANGED vars PROVE WholeInv'
  BY <1>1 DEF WholeInv, Begin, Stat, WriteTemp, Fail, Crash, vars
<1>2. ASSUME SyncTemp PROVE WholeInv'
  <2>1. tmp'.synced
    BY <1>2 DEF SyncTemp, TypeOK, Content
  <2> QED BY <1>2, <2>1 DEF SyncTemp, WholeInv
<1>3. ASSUME Rename PROVE WholeInv'
  <2>1. Replace(target, tmp) /\ target \in File /\ tmp \in Content /\ tmp.synced
    BY <1>3 DEF Rename, TypeOK, WholeInv
  <2>2. step' # "rename"
    BY <1>3 DEF Rename
  <2> QED BY <2>1, <2>2, ReplaceWhole DEF WholeInv
<1>4. ASSUME syncDir PROVE WholeInv'
  <2>1. \A f \in File : possible'[f] \subseteq possible[f] \cup {entry[f]}
    BY <1>4 DEF syncDir
  <2>2. \A f \in File : possible'[f] \subseteq possible[f]
    BY <2>1 DEF TypeOK
  <2>3. torn' = torn /\ step' = "temp"
    BY <1>4 DEF syncDir
  <2> QED BY <2>2, <2>3 DEF WholeInv
<1>5. ASSUME PowerLoss PROVE WholeInv'
  <2>1. \A f \in File : entry'[f].synced
    BY <1>5, PowerLossLeaves, WholeType DEF TypeOK, Content
  <2> QED BY <1>5, <2>1, PowerLossLeaves DEF WholeInv
<1>6. ASSUME FreeTubeSaves PROVE WholeInv'
  <2>1. "db" \in File /\ version' \in Nat /\ Replace("db", Whole(version'))
        /\ step' = step /\ tmp' = tmp
    BY <1>6, AtomicWriteAssumption DEF FreeTubeSaves, TypeOK, File, cycle
  <2> QED BY <2>1, WholeType, ReplaceWhole DEF WholeInv
<1>7. ASSUME DeleteDB PROVE WholeInv'
  <2>1. "db" \in File /\ Replace("db", Whole(0)) /\ step' = step /\ tmp' = tmp
    BY <1>7 DEF DeleteDB, File, cycle
  <2> QED BY <2>1, WholeType, ReplaceWhole DEF WholeInv
<1> QED BY <1>1, <1>2, <1>3, <1>4, <1>5, <1>6, <1>7 DEF Next, WriteStep

(* nedb.go:324-356: a file gets a version no newer than the newest. *)
LEMMA ReplaceVersion ==
  ASSUME TypeOK, NEW f \in File, NEW c \in Content, Replace(f, c), NEW n \in Nat,
         c.v <= n, \A g \in File : \A d \in possible[g] : d.v <= n
  PROVE  \A g \in File : \A d \in possible'[g] : d.v <= n
<1> SUFFICES ASSUME NEW g \in File, NEW d \in possible'[g] PROVE d.v <= n
  OBVIOUS
<1>1. d = c \/ d \in possible[g]
  BY ReplaceType
<1> QED BY <1>1

(* clientsync.go:102-127: nothing is newer than the cycle's reply. *)
LEMMA VersionNext == TypeOK /\ VersionInv /\ [Next]_vars => VersionInv'
<1> SUFFICES ASSUME TypeOK, VersionInv, [Next]_vars PROVE VersionInv'
  OBVIOUS
<1>a. \A f \in File : \A c \in possible[f] : c \in Content /\ c.v \in Nat
  BY DEF TypeOK, Content
<1>b. version \in Nat
  BY DEF TypeOK
<1>1. ASSUME Begin PROVE VersionInv'
  <2>1. new' = version' /\ version' = version + 1 /\ possible' = possible /\ step' = "stat"
    BY <1>1 DEF Begin
  <2>2. \A f \in File : \A c \in possible'[f] : c.v <= version'
    BY <2>1, <1>a, <1>b DEF VersionInv
  <2> QED BY <2>1, <2>2, <1>b DEF VersionInv, HoldsTmp, File
<1>2. ASSUME Stat \/ SyncTemp \/ Fail \/ Crash \/ UNCHANGED vars PROVE VersionInv'
  <2>1. /\ possible' = possible /\ version' = version /\ new' = new
        /\ tmp'.v = tmp.v
        /\ step' # "idle" => step # "idle"
        /\ step' \in HoldsTmp => step \in HoldsTmp /\ target' = target
    BY <1>2 DEF Stat, SyncTemp, Fail, Crash, vars, HoldsTmp, TypeOK, Content
  <2> QED BY <2>1 DEF VersionInv
<1>3. ASSUME WriteTemp PROVE VersionInv'
  <2>1. /\ possible' = possible /\ version' = version /\ new' = new /\ target' = target
        /\ tmp'.v = Data(target) /\ step # "idle"
    BY <1>3 DEF WriteTemp
  <2>2. entry["db"].v <= version /\ new <= version
    BY <2>1, <1>a DEF VersionInv, TypeOK, File
  <2> QED BY <2>1, <2>2, <1>b DEF VersionInv, Data
<1>4. ASSUME Rename PROVE VersionInv'
  <2>1. /\ Replace(target, tmp) /\ target \in File /\ tmp \in Content
        /\ version' = version /\ new' = new /\ tmp.v <= version
        /\ step # "idle" /\ step' \notin HoldsTmp
        /\ target = "shadow" => step' = "idle"
    BY <1>4 DEF Rename, TypeOK, VersionInv, HoldsTmp
  <2>2. \A g \in File : \A d \in possible'[g] : d.v <= version
    BY <2>1, <1>b, ReplaceVersion DEF VersionInv
  <2>3. target # "shadow" => possible'["shadow"] = possible["shadow"]
    BY <2>1, ReplaceType DEF File
  <2> QED BY <2>1, <2>2, <2>3 DEF VersionInv
<1>5. ASSUME syncDir PROVE VersionInv'
  <2>1. \A f \in File : possible'[f] \subseteq possible[f]
    BY <1>5 DEF syncDir, TypeOK
  <2>2. step' = "temp" /\ step # "idle" /\ new' = new /\ version' = version
    BY <1>5 DEF syncDir
  <2> QED BY <2>1, <2>2 DEF VersionInv, HoldsTmp, File
<1>6. ASSUME PowerLoss PROVE VersionInv'
  <2>1. \A f \in File : \A d \in possible'[f] : \E c \in possible[f] : d.v = c.v
    BY <1>6, <1>a, PowerLossLeaves, WholeType
  <2> QED BY <1>6, <2>1, PowerLossLeaves DEF VersionInv, HoldsTmp
<1>7. ASSUME FreeTubeSaves PROVE VersionInv'
  <2>1. /\ "db" \in File /\ version' \in Nat /\ version' = version + 1
        /\ Replace("db", Whole(version')) /\ UNCHANGED <<target, step, tmp, new>>
    BY <1>7, <1>b DEF FreeTubeSaves, File, cycle
  <2>2. \A f \in File : \A c \in possible[f] : c.v <= version'
    BY <2>1, <1>a, <1>b DEF VersionInv
  <2>3. \A f \in File : \A c \in possible'[f] : c.v <= version'
    BY <2>1, <2>2, WholeType, ReplaceVersion
  <2>4. possible'["shadow"] = possible["shadow"]
    BY <2>1, WholeType, ReplaceType DEF File
  <2>5. new \in Nat /\ tmp.v \in Nat
    BY DEF TypeOK, Content
  <2> QED BY <2>1, <2>3, <2>4, <2>5, <1>b DEF VersionInv, HoldsTmp
<1>8. ASSUME DeleteDB PROVE VersionInv'
  <2>1. /\ "db" \in File /\ Replace("db", Whole(0))
        /\ UNCHANGED <<version, target, step, tmp, new>>
    BY <1>8 DEF DeleteDB, File, cycle
  <2>2. \A f \in File : \A c \in possible'[f] : c.v <= version
    BY <2>1, <1>b, WholeType, ReplaceVersion DEF VersionInv
  <2>3. possible'["shadow"] = possible["shadow"]
    BY <2>1, WholeType, ReplaceType DEF File
  <2> QED BY <2>1, <2>2, <2>3 DEF VersionInv
<1> QED BY <1>1, <1>2, <1>3, <1>4, <1>5, <1>6, <1>7, <1>8 DEF Next, WriteStep

-----------------------------------------------------------------------------
(* nedb.go:284-322: before the first cycle there is no backup or shadow. *)
LEMMA InitDurableInv == Init => DurableInv
<1> SUFFICES ASSUME Init PROVE DurableInv
  OBVIOUS
<1>1. BaseInv
  BY InitBaseInv
<1>2. possible["shadow"] = {Whole(0)} /\ possible["db"] = {Whole(1)} /\ step = "idle"
  BY DEF Init, File
<1>3. ShadowNeverAhead
  BY <1>2, WholeType DEF ShadowNeverAhead
<1> QED BY <1>1, <1>2, <1>3
        DEF DurableInv, ShadowInv, BackupInv, Writing, HoldsTmp

(* A version of the database that is gone or newest is not behind a shadow. *)
LEMMA FileVersions ==
  ASSUME TypeOK, VersionInv
  PROVE  /\ version \in Nat /\ new \in Nat /\ "db" \in File /\ "shadow" \in File /\ "bak" \in File
         /\ entry["db"] \in possible["db"]
         /\ \A f \in File : \A c \in possible[f] : c.v \in Nat /\ c.v <= version
BY AtomicWriteAssumption DEF TypeOK, VersionInv, Content, File

(* clientsync.go:127-132, nedb.go:320: the shadow waits for the database's *)
(* directory to be synced.                                                 *)
LEMMA ShadowNext == DirSyncWorks /\ BaseInv /\ ShadowInv /\ [Next]_vars => ShadowInv'
<1> SUFFICES ASSUME DirSyncWorks, BaseInv, ShadowInv, [Next]_vars PROVE ShadowInv'
  OBVIOUS
<1>a. TypeOK /\ VersionInv
  BY DEF BaseInv
<1>1. ASSUME Begin \/ Stat \/ Fail \/ Crash \/ UNCHANGED vars PROVE ShadowInv'
  BY <1>1 DEF Begin, Stat, Fail, Crash, vars, ShadowInv, ShadowNeverAhead, Writing
<1>2. ASSUME WriteTemp \/ SyncTemp PROVE ShadowInv'
  BY <1>2 DEF WriteTemp, SyncTemp, ShadowInv, ShadowNeverAhead, Writing
<1>3. ASSUME Rename PROVE ShadowInv'
  <2>1. /\ Replace(target, tmp) /\ target \in File /\ tmp \in Content
        /\ UNCHANGED <<target, tmp, new, version>>
        /\ step = "rename" /\ step' = IF target = "shadow" THEN "idle" ELSE "syncdir"
    BY <1>3, <1>a DEF Rename, TypeOK
  <2>2. /\ target # "bak" => tmp.v = new
        /\ \A s \in possible["shadow"] : s.v <= new
    BY <2>1, <1>a DEF VersionInv, HoldsTmp
  <2>3. CASE target = "shadow"
    <3>1. /\ possible'["shadow"] = possible["shadow"] \cup {tmp}
          /\ possible'["db"] = possible["db"]
      BY <1>a, <2>1, <2>3, ReplaceType DEF File
    <3>2. \A d \in possible["db"] : d.v = 0 \/ d.v >= new
      BY <2>1, <2>3 DEF ShadowInv, Writing
    <3>3. \A s \in possible'["shadow"], d \in possible'["db"] : d.v # 0 => s.v <= d.v
      BY <3>1, <3>2, <2>2, <2>3, <1>a, FileVersions
    <3> QED BY <3>3, <2>1, <2>3 DEF ShadowInv, ShadowNeverAhead, Writing
  <2>4. CASE target = "db"
    <3>1. /\ possible'["db"] = possible["db"] \cup {tmp} /\ entry'["db"] = tmp
          /\ possible'["shadow"] = possible["shadow"]
      BY <1>a, <2>1, <2>4, ReplaceType DEF File
    <3>2. \A s \in possible'["shadow"], d \in possible'["db"] : d.v # 0 => s.v <= d.v
      BY <3>1, <2>2, <2>4, <1>a, FileVersions DEF ShadowInv, ShadowNeverAhead
    <3>3. step' = "syncdir" /\ target' = "db" /\ entry'["db"].v = new /\ new' = new
      BY <3>1, <2>1, <2>2, <2>4
    <3>4. new \in Nat
      BY <1>a DEF TypeOK
    <3> QED BY <3>2, <3>3, <3>4 DEF ShadowInv, ShadowNeverAhead, Writing
  <2>5. CASE target = "bak"
    <3>1. possible'["db"] = possible["db"] /\ possible'["shadow"] = possible["shadow"]
      BY <1>a, <2>1, <2>5, ReplaceType DEF File
    <3> QED BY <3>1, <2>1, <2>5 DEF ShadowInv, ShadowNeverAhead, Writing
  <2> QED BY <2>1, <2>3, <2>4, <2>5 DEF File
<1>4. ASSUME syncDir PROVE ShadowInv'
  <2>1. /\ possible'["db"] = {entry["db"]} /\ possible'["shadow"] = possible["shadow"]
        /\ step = "syncdir" /\ step' = "temp" /\ new' = new
        /\ target' = IF target = "bak" THEN "db" ELSE "shadow"
    BY <1>4 DEF syncDir, File
  <2>2. entry["db"] \in possible["db"] /\ target \in {"bak", "db"}
    BY <1>a, <2>1, FileVersions DEF ShadowInv, TypeOK, File
  <2> QED BY <2>1, <2>2 DEF ShadowInv, ShadowNeverAhead, Writing
<1>5. ASSUME PowerLoss PROVE ShadowInv'
  <2>1. \A f \in File : \A d \in possible'[f] : \E c \in possible[f] : d.v = c.v
    BY <1>5, <1>a, PowerLossLeaves, WholeType, FileVersions
  <2>2. ShadowNeverAhead'
    BY <2>1, <1>a, FileVersions DEF ShadowInv, ShadowNeverAhead
  <2> QED BY <1>5, <1>a, <2>2, PowerLossLeaves DEF ShadowInv, Writing
<1>6. ASSUME FreeTubeSaves PROVE ShadowInv'
  <2>1. /\ Replace("db", Whole(version')) /\ version' = version + 1
        /\ UNCHANGED <<target, step, tmp, new>>
    BY <1>6 DEF FreeTubeSaves, cycle
  <2>2. version' \in Nat /\ version <= version' /\ (step # "idle" => new <= version')
    BY <2>1, <1>a, FileVersions DEF VersionInv
  <2>3. /\ possible'["db"] = possible["db"] \cup {Whole(version')}
        /\ entry'["db"] = Whole(version')
        /\ possible'["shadow"] = possible["shadow"]
    BY <1>a, <2>1, <2>2, WholeType, ReplaceType DEF File
  <2>4. \A s \in possible'["shadow"], d \in possible'["db"] : d.v # 0 => s.v <= d.v
    <3> SUFFICES ASSUME NEW s \in possible["shadow"], NEW d \in possible'["db"], d.v # 0
                 PROVE  s.v <= d.v
      BY <2>3
    <3>1. CASE d \in possible["db"]
      BY <3>1 DEF ShadowInv, ShadowNeverAhead
    <3>2. CASE d = Whole(version')
      BY <3>2, <2>1, <2>2, WholeType, <1>a, FileVersions
    <3> QED BY <3>1, <3>2, <2>3
  <2>5. Whole(version').v = version'
    BY <2>2, WholeType
  <2> QED BY <2>1, <2>2, <2>3, <2>4, <2>5, <1>a, FileVersions
          DEF ShadowInv, ShadowNeverAhead, Writing
<1>7. ASSUME DeleteDB PROVE ShadowInv'
  <2>1. Replace("db", Whole(0)) /\ UNCHANGED <<version, target, step, tmp, new>>
    BY <1>7 DEF DeleteDB, cycle
  <2>2. /\ possible'["db"] = possible["db"] \cup {Whole(0)} /\ entry'["db"] = Whole(0)
        /\ possible'["shadow"] = possible["shadow"]
    BY <1>a, <2>1, WholeType, ReplaceType DEF File
  <2> QED BY <2>1, <2>2, WholeType DEF ShadowInv, ShadowNeverAhead, Writing
<1> QED BY <1>1, <1>2, <1>3, <1>4, <1>5, <1>6, <1>7 DEF Next, WriteStep

(* nedb.go:281-283, 320: the database waits for its backup's directory to  *)
(* be synced; only FreeTube changes it then, or the user, by deleting it.  *)
LEMMA BackupNext == DirSyncWorks /\ BaseInv /\ BackupInv /\ [Next]_vars => BackupInv'
<1> SUFFICES ASSUME DirSyncWorks, BaseInv, BackupInv, [Next]_vars,
                    (entry["db"].v # 0 /\ ~ raced)'
             PROVE  BackupInv'
  BY DEF BackupInv
<1>a. TypeOK /\ WholeInv
  BY DEF BaseInv
<1>1. ASSUME Begin \/ Fail \/ Crash \/ PowerLoss PROVE BackupInv'
  BY <1>1 DEF Begin, Fail, Crash, PowerLoss, BackupInv, Writing, HoldsTmp
<1>2. ASSUME Stat PROVE BackupInv'
  BY <1>2 DEF Stat, Exists, BackupInv, Writing, HoldsTmp
<1>3. ASSUME WriteTemp PROVE BackupInv'
  BY <1>3 DEF WriteTemp, Data, BackupInv, Writing, HoldsTmp
<1>4. ASSUME SyncTemp PROVE BackupInv'
  BY <1>4, <1>a DEF SyncTemp, BackupInv, Writing, HoldsTmp, TypeOK, Content
<1>5. ASSUME Rename PROVE BackupInv'
  <2>1. /\ Replace(target, tmp) /\ target \in File /\ tmp \in Content /\ tmp.synced
        /\ UNCHANGED <<target, tmp, raced>>
        /\ step = "rename" /\ step' \in {"idle", "syncdir"}
    BY <1>5, <1>a DEF Rename, TypeOK, WholeInv
  <2>2. CASE target = "bak"
    <3>1. entry'["bak"] = tmp /\ entry'["db"] = entry["db"]
      BY <1>a, <2>1, <2>2, ReplaceType DEF File
    <3>2. tmp.v = entry["db"].v
      BY <3>1, <2>1, <2>2 DEF BackupInv, HoldsTmp
    <3>3. tmp = Whole(tmp.v)
      BY <2>1 DEF Content, Whole
    <3> QED BY <3>1, <3>2, <3>3, <2>1, <2>2 DEF BackupInv, HoldsTmp, Writing
  <2> QED BY <2>1, <2>2 DEF BackupInv, HoldsTmp, Writing
<1>6. ASSUME syncDir PROVE BackupInv'
  <2>1. /\ possible'["bak"] = {entry["bak"]} /\ UNCHANGED <<entry, raced>>
        /\ step = "syncdir" /\ step' = "temp"
        /\ target' = "db" => target = "bak"
    BY <1>6 DEF syncDir, File
  <2> QED BY <2>1 DEF BackupInv, HoldsTmp, Writing
<1>7. ASSUME FreeTubeSaves PROVE BackupInv'
  BY <1>7 DEF FreeTubeSaves, cycle, BackupInv, Writing, HoldsTmp
<1>8. ASSUME DeleteDB PROVE BackupInv'
  <2>1. entry'["db"].v = 0
    BY <1>8, <1>a, WholeType, ReplaceType DEF DeleteDB, File
  <2> QED BY <2>1
<1>9. ASSUME UNCHANGED vars PROVE BackupInv'
  BY <1>9 DEF vars, BackupInv
<1> QED BY <1>1, <1>2, <1>3, <1>4, <1>5, <1>6, <1>7, <1>8, <1>9 DEF Next, WriteStep

-----------------------------------------------------------------------------
(* nedb.go:284-367: what holds of the files on every file system. *)
THEOREM BaseInvariant == Spec => []BaseInv
<1>1. Init => BaseInv
  BY InitBaseInv
<1>2. BaseInv /\ [Next]_vars => BaseInv'
  BY TypeOKNext, TempNext, WholeNext, VersionNext DEF BaseInv
<1> QED BY <1>1, <1>2, PTL DEF Spec

(* The types of the writer's files and locals hold in every state. *)
THEOREM TypeCorrect == Spec => []TypeOK
BY BaseInvariant, PTL DEF BaseInv

(* nedb.go:324-325, shadow.go:58-59: wherever a writer fails or stops, no  *)
(* file is half of a version, even if directories cannot be synced.        *)
THEOREM NoTornFile == Spec => []FilesWhole
<1>1. BaseInv => FilesWhole
  BY DEF BaseInv, WholeInv, FilesWhole
<1> QED BY <1>1, BaseInvariant, PTL

(* nedb.go:301, 338, shadow.go:75: failed writes leave no temp file. *)
THEOREM NoLitter == Spec => []LitterOnlyFromStops
<1>1. BaseInv => LitterOnlyFromStops
  BY DEF BaseInv, TypeOK, TempInv, LitterOnlyFromStops, HoldsTmp
<1> QED BY <1>1, BaseInvariant, PTL

(* The order backup, database, shadow is the order they become durable in. *)
THEOREM DurableInvariant == ASSUME DirSyncWorks PROVE Spec => []DurableInv
<1>1. Init => DurableInv
  BY InitDurableInv
<1>2. DurableInv /\ [Next]_vars => DurableInv'
  BY TypeOKNext, TempNext, WholeNext, VersionNext, ShadowNext, BackupNext
     DEF BaseInv, DurableInv
<1> QED BY <1>1, <1>2, PTL DEF Spec

(* clientsync.go:127-132: where directories sync, no crash or power loss   *)
(* leaves a shadow newer than the database.                                *)
THEOREM ShadowBehind == ASSUME DirSyncWorks PROVE Spec => []ShadowNeverAhead
<1>1. DurableInv => ShadowNeverAhead
  BY DEF DurableInv, ShadowInv
<1> QED BY <1>1, DurableInvariant, PTL

(* nedb.go:281-283: where directories sync, the database that a cycle      *)
(* overwrites is in the backup, whatever happens next, unless FreeTube has *)
(* saved it since it was copied there.                                     *)
THEOREM BackedUp == ASSUME DirSyncWorks PROVE Spec => OverwrittenIsBackedUp
<1>1. DurableInv /\ [Next]_vars
        => [Rename /\ target = "db" /\ Exists("db")
              => raced \/ possible["bak"] = {Whole(entry["db"].v)}]_vars
  BY DEF DurableInv, BackupInv, Rename, Exists, Writing
<1> QED BY <1>1, DurableInvariant, PTL DEF Spec, OverwrittenIsBackedUp
==============================================================================

---------------------------- MODULE AtomicWrite ----------------------------
(***************************************************************************)
(* The end of a sync cycle on disk: nedb.WriteFile (backupFile, temp file, *)
(* rename, syncDir) and then shadow.Save, system call by system call,      *)
(* against errors, kills and power failures.                               *)
(*                                                                         *)
(* A file is known by the version it holds, 0 when it does not exist; every *)
(* reply written by a cycle and every save of FreeTube's is a new version. *)
(* A power failure may take back a rename whose directory was not synced,  *)
(* each on its own, and tears data that was not synced.  profiles.db and   *)
(* its backup share a directory; the shadow has another.                   *)
(***************************************************************************)
EXTENDS Integers, FiniteSets

CONSTANTS
  DirSyncWorks,  \* does the file system sync directories?  (syncDir ignores errors)
  MaxVersion,    \* bound: versions written
  MaxStops       \* bound: kills and power failures

ASSUME AtomicWriteAssumption ==
  /\ DirSyncWorks \in BOOLEAN
  /\ MaxVersion \in Nat \ {0} /\ MaxStops \in Nat

VARIABLES
  entry,     \* entry[f]: what file f holds, see Content
  possible,  \* possible[f]: what f may hold after a power failure
  torn,      \* files a power failure left without their data
  target,    \* the file being replaced
  step,      \* the next step of replacing it
  tmp,       \* what the open temp file holds
  new,       \* the reply this cycle writes
  temps,     \* temp files that exist
  version,   \* the last version used
  stops,
  raced      \* history: has FreeTube saved since the backup was last copied?

vars == <<entry, possible, torn, target, step, tmp, new, temps, version, stops, raced>>
cycle == <<target, step, tmp, new, temps>>

File     == {"db", "bak", "shadow"}
Content  == [v : Nat, synced : BOOLEAN]
Whole(v) == [v |-> v, synced |-> TRUE]

Init ==
  /\ entry = [f \in File |-> Whole(IF f = "db" THEN 1 ELSE 0)]
  /\ possible = [f \in File |-> {entry[f]}]
  /\ torn = {}
  /\ target = "db" /\ step = "idle" /\ tmp = Whole(0) /\ new = 0
  /\ temps = 0 /\ version = 1 /\ stops = 0 /\ raced = FALSE

\* File f becomes c, not yet for good.
Replace(f, c) ==
  /\ entry' = [entry EXCEPT ![f] = c]
  /\ possible' = [possible EXCEPT ![f] = @ \cup {c}]
  /\ torn' = torn \ {f}

Exists(f) == entry[f].v # 0

-----------------------------------------------------------------------------
\* A cycle has its reply (and so has read the database) and calls WriteFile.
Begin ==
  /\ step = "idle" /\ Exists("db") /\ version < MaxVersion
  /\ step' = "stat"
  /\ new' = version + 1 /\ version' = version + 1
  /\ UNCHANGED <<entry, possible, torn, target, tmp, temps, stops, raced>>

\* Mistake: a backup that exists is left alone.
MistakeBacksUpOnce ==
  /\ step = "stat"
  /\ step' = "temp"
  /\ target' = IF Exists("db") /\ ~ Exists("bak") THEN "bak" ELSE "db"
  /\ UNCHANGED <<entry, possible, torn, tmp, new, temps, version, stops, raced>>

\* Only a file that is there is backed up.
Stat ==
  /\ step = "stat"
  /\ step' = "temp"
  /\ target' = IF Exists("db") THEN "bak" ELSE "db"
  /\ UNCHANGED <<entry, possible, torn, tmp, new, temps, version, stops, raced>>

\* What is written over f: the backup is a copy of the database as it is now.
Data(f) == IF f = "bak" THEN entry["db"].v ELSE new

WriteTemp ==
  /\ step = "temp"
  /\ target = "bak" => Exists("db")
  /\ tmp' = [v |-> Data(target), synced |-> FALSE]
  /\ temps' = temps + 1
  /\ step' = "sync"
  /\ raced' = (target # "bak" /\ raced)
  /\ UNCHANGED <<entry, possible, torn, target, new, version, stops>>

\* Mistake: no fsync.
MistakeNoSync ==
  /\ step = "sync"
  /\ step' = "rename"
  /\ UNCHANGED <<entry, possible, torn, target, tmp, new, temps, version, stops, raced>>

SyncTemp ==
  /\ step = "sync"
  /\ tmp' = [tmp EXCEPT !.synced = TRUE]
  /\ step' = "rename"
  /\ UNCHANGED <<entry, possible, torn, target, new, temps, version, stops, raced>>

\* Close, chmod, rename.  shadow.Save ends here, WriteFile syncs the directory.
Rename ==
  /\ step = "rename"
  /\ Replace(target, tmp)
  /\ temps' = temps - 1
  /\ step' = IF target = "shadow" THEN "idle" ELSE "syncdir"
  /\ UNCHANGED <<target, tmp, new, version, stops, raced>>

\* Mistake: only backupFile syncs its directory.
MistakeSyncsBackupOnly ==
  /\ step = "syncdir"
  /\ possible' = [f \in File |-> IF target = "bak" /\ f # "shadow" THEN {entry[f]}
                                                                 ELSE possible[f]]
  /\ target' = IF target = "bak" THEN "db" ELSE "shadow"
  /\ step' = "temp"
  /\ UNCHANGED <<entry, torn, tmp, new, temps, version, stops, raced>>

syncDir ==
  /\ step = "syncdir"
  /\ possible' = [f \in File |-> IF DirSyncWorks /\ f # "shadow" THEN {entry[f]}
                                                               ELSE possible[f]]
  /\ target' = IF target = "bak" THEN "db" ELSE "shadow"
  /\ step' = "temp"
  /\ UNCHANGED <<entry, torn, tmp, new, temps, version, stops, raced>>

\* Mistake: os.Remove is not deferred.
MistakeLeavesTemp ==
  /\ step \in {"stat", "temp", "sync", "rename"}
  /\ step' = "idle"
  /\ UNCHANGED <<entry, possible, torn, target, tmp, new, temps, version, stops, raced>>

\* Mistake: the cleanup runs whether or not there is a temp file.
MistakeRemovesTwice ==
  /\ step \in {"stat", "temp", "sync", "rename"}
  /\ temps' = temps - 1
  /\ step' = "idle"
  /\ UNCHANGED <<entry, possible, torn, target, tmp, new, version, stops, raced>>

\* A system call fails: the temp file is removed and the cycle ends.
Fail ==
  /\ step \in {"stat", "temp", "sync", "rename"}
  /\ temps' = IF step \in {"sync", "rename"} THEN temps - 1 ELSE temps
  /\ step' = "idle"
  /\ UNCHANGED <<entry, possible, torn, target, tmp, new, version, stops, raced>>

-----------------------------------------------------------------------------
(* Not the program's: the kernel, FreeTube and the user. *)

Crash ==
  /\ step # "idle" /\ stops < MaxStops
  /\ stops' = stops + 1
  /\ step' = "idle"
  /\ UNCHANGED <<entry, possible, torn, target, tmp, new, temps, version, raced>>

Leftovers == {g \in [File -> UNION {possible[f] : f \in File}] :
                \A f \in File : g[f] \in possible[f]}

PowerLoss ==
  /\ stops < MaxStops
  /\ stops' = stops + 1
  /\ step' = "idle"
  /\ \E g \in Leftovers :
       /\ entry' = [f \in File |-> Whole(g[f].v)]
       /\ torn' = torn \cup {f \in File : ~ g[f].synced}
  /\ possible' = [f \in File |-> {entry'[f]}]
  /\ UNCHANGED <<target, tmp, new, temps, version, raced>>

\* FreeTube saves what its user changed.  The guard was asked before the exchange:
\* it may be open by now, whatever the cycle is doing.
FreeTubeSaves ==
  /\ version < MaxVersion
  /\ version' = version + 1
  /\ Replace("db", Whole(version'))
  /\ raced' = TRUE
  /\ UNCHANGED <<cycle, stops>>

\* The user resets FreeTube, whatever a cycle is doing.
DeleteDB ==
  /\ Exists("db")
  /\ Replace("db", Whole(0))
  /\ UNCHANGED <<cycle, version, stops, raced>>

WriteStep == Begin \/ Stat \/ WriteTemp \/ SyncTemp \/ Rename \/ syncDir \/ Fail

Next == WriteStep \/ Crash \/ PowerLoss \/ FreeTubeSaves \/ DeleteDB

Spec == Init /\ [][Next]_vars

-----------------------------------------------------------------------------
(* The files and the writer's locals keep their types. *)
TypeOK ==
  /\ entry \in [File -> Content] /\ possible \in [File -> SUBSET Content]
  /\ \A f \in File : entry[f] \in possible[f]
  /\ torn \subseteq File /\ target \in File
  /\ step \in {"idle", "stat", "temp", "sync", "rename", "syncdir"}
  /\ tmp \in Content /\ new \in 0..MaxVersion
  /\ temps \in Nat /\ version \in 1..MaxVersion /\ stops \in 0..MaxStops
  /\ raced \in BOOLEAN

(***************************************************************************)
(* nedb.go:281-283, 324-325, shadow.go:58-59: wherever the writer fails or *)
(* stops, database, backup and shadow are each a complete old version or a *)
(* complete new one, never half of one.                                    *)
(***************************************************************************)
FilesWhole == torn = {}

(***************************************************************************)
(* clientsync.go:127-132: the shadow is written after the database, and    *)
(* the database is durable by then.  No crash leaves a shadow newer than   *)
(* the database: the next diff would take the difference for changes of    *)
(* the user's and undo, on the server, what other devices had done.        *)
(***************************************************************************)
ShadowNeverAhead ==
  \A s \in possible["shadow"], d \in possible["db"] : d.v # 0 => s.v <= d.v

(***************************************************************************)
(* nedb.go:281-283: the database a cycle replaces is in the backup by      *)
(* then, whole, and stays there through a power failure.  Only a FreeTube  *)
(* that saves between the copy and the rename can lose a version: what it  *)
(* saved then is neither in the backup nor, soon, in the database.         *)
(***************************************************************************)
OverwrittenIsBackedUp ==
  [][Rename /\ target = "db" /\ Exists("db")
       => raced \/ possible["bak"] = {Whole(entry["db"].v)}]_vars

(***************************************************************************)
(* The deferred os.Remove (nedb.go:301, 338, shadow.go:75): temp files are *)
(* left behind by kills and power failures only, never by errors.          *)
(***************************************************************************)
LitterOnlyFromStops == step = "idle" => temps <= stops
=============================================================================

----------------------------- MODULE ClientSync -----------------------------
(***************************************************************************)
(* The client role: sync cycles (clientsync.Run) of one or more devices,   *)
(* on each device against the two files they overwrite, FreeTube's         *)
(* profiles.db and the shadow snapshot, and against FreeTube and its user, *)
(* who edit profiles.db in between.                                        *)
(*                                                                         *)
(* A database is the set of channels of its "All Channels" profile;        *)
(* Documents adds its text and the names that sync carries along.  One     *)
(* device may have databases of several installs but has one shadow.  A    *)
(* process of freetube-sync is a systemd timer run, a `run` wrapper or a   *)
(* user's command; nothing keeps two of them apart.                        *)
(*                                                                         *)
(* The server is a reply, any set of channels, or no reply: SyncSystem     *)
(* puts the real one there.  WriteFile and Save replace a file atomically. *)
(***************************************************************************)
EXTENDS LWW, FiniteSets

CONSTANTS
  Device,
  Proc,             \* freetube-sync processes a device may run at once
  Install,          \* FreeTube installs on a device
  FreeTubeMayRace,  \* may FreeTube be opened while a cycle is under way?
  MaxToggles,       \* bound: subscriptions changed by the user
  MaxFaults,        \* bound: cycles failing locally, processes killed, FreeTube dying
  Off               \* no FreeTube is running

ASSUME ClientSyncAssumption ==
  /\ FreeTubeMayRace \in BOOLEAN
  /\ MaxToggles \in Nat /\ MaxFaults \in Nat
  /\ Off \notin Install

VARIABLES
  db,       \* db[d][k]: profiles.db of install k on device d
  shadow,   \* shadow[d]: last-synced.json
  ft,       \* ft[d]: the install whose FreeTube is running, or Off
  mem,      \* mem[d]: the subscriptions in its memory
  lock,     \* lock[d]: the installs whose directories hold a SingletonLock
  sync,     \* sync[d][p]: the locals of process p, see IdleSync
  toggles, faults,
  (* History, read by no action of the program: *)
  edited,   \* edited[d][k]: channels the user changed since db[d][k] was synced
  unsaved   \* unsaved[d]: the reply written to a database and not to the shadow,
            \* in a set that is empty when there is none

files    == <<db, shadow>>
freetube == <<ft, mem, lock>>
budget   == <<toggles, faults>>
history  == <<edited, unsaved>>
vars     == <<db, shadow, ft, mem, lock, sync, toggles, faults, edited, unsaved>>

(***************************************************************************)
(* A cycle: the install it is for, the subscriptions and the snapshot it   *)
(* has read, the server's reply.                                           *)
(***************************************************************************)
IdleSync == [pc |-> "idle", k |-> Off, cur |-> {}, snap |-> {}, resp |-> {}]

SyncLocals ==
  [pc : {"idle", "read", "load", "post", "wait", "write", "save"},
   k : Install \cup {Off}, cur : SUBSET Channel, snap : SUBSET Channel,
   resp : SUBSET Channel]

(***************************************************************************)
(* At the start nothing was ever synced: a database may hold any           *)
(* subscriptions, all of them the user's own, and there is no shadow.      *)
(***************************************************************************)
Init ==
  /\ db \in [Device -> [Install -> SUBSET Channel]]
  /\ shadow = [d \in Device |-> {}]
  /\ ft = [d \in Device |-> Off] /\ mem = [d \in Device |-> {}]
  /\ lock = [d \in Device |-> {}]
  /\ sync = [d \in Device |-> [p \in Proc |-> IdleSync]]
  /\ toggles = 0 /\ faults = 0
  /\ edited = db
  /\ unsaved = [d \in Device |-> {}]

SymDiff(S, T) == (S \ T) \cup (T \ S)

-----------------------------------------------------------------------------
(***************************************************************************)
(* FreeTube and its user (not part of the repository).  FreeTube reads the *)
(* database when it starts and from then on writes what it has in memory;  *)
(* it holds a lock file while it runs and leaves it behind when it dies.   *)
(***************************************************************************)
Starts(d, k) ==
  /\ ft[d] = Off
  /\ ft' = [ft EXCEPT ![d] = k]
  /\ mem' = [mem EXCEPT ![d] = db[d][k]]
  /\ lock' = [lock EXCEPT ![d] = @ \cup {k}]
  /\ UNCHANGED <<files, budget, history>>

\* The user starts it, not through freetube-sync.
Open(d, k) ==
  /\ FreeTubeMayRace \/ \A p \in Proc : sync[d][p].pc = "idle"
  /\ Starts(d, k)
  /\ UNCHANGED sync

Toggle(d, c) ==
  /\ ft[d] # Off /\ toggles < MaxToggles
  /\ toggles' = toggles + 1
  /\ mem' = [mem EXCEPT ![d] = SymDiff(@, {c})]
  /\ db' = [db EXCEPT ![d][ft[d]] = mem'[d]]
  /\ edited' = [edited EXCEPT ![d][ft[d]] = @ \cup {c}]
  /\ UNCHANGED <<shadow, ft, lock, sync, faults, unsaved>>

Gone(d) ==
  /\ ft[d] # Off
  /\ ft' = [ft EXCEPT ![d] = Off]
  /\ mem' = [mem EXCEPT ![d] = {}]
  /\ UNCHANGED <<files, toggles, history>>

Close(d) ==
  /\ Gone(d)
  /\ lock' = [lock EXCEPT ![d] = @ \ {ft[d]}]
  /\ UNCHANGED <<sync, faults>>

Die(d) ==
  /\ Gone(d)
  /\ faults < MaxFaults
  /\ faults' = faults + 1
  /\ UNCHANGED <<lock, sync>>

-----------------------------------------------------------------------------
(* One cycle of clientsync.Run. *)

\* The lock of the install's own directory, but a process of any install.
LockfilePresent(d, k) == k \in lock[d]
ProcessRunning(d)     == ft[d] # Off
IsSafeToWrite(d, k)   == ~ LockfilePresent(d, k) /\ ~ ProcessRunning(d)

\* Mistake: the install is not passed on.
MistakeForgetsInstall(d, p, k) ==
  /\ sync[d][p].pc = "idle"
  /\ IsSafeToWrite(d, k)
  /\ sync' = [sync EXCEPT ![d][p].pc = "read"]
  /\ UNCHANGED <<files, freetube, budget, history>>

\* A cycle that is skipped changes nothing.
Guard(d, p, k) ==
  /\ sync[d][p].pc = "idle"
  /\ IsSafeToWrite(d, k)
  /\ sync' = [sync EXCEPT ![d][p].pc = "read", ![d][p].k = k]
  /\ UNCHANGED <<files, freetube, budget, history>>

ReadDB(d, p) ==
  /\ sync[d][p].pc = "read"
  /\ sync' = [sync EXCEPT ![d][p].pc = "load", ![d][p].cur = db[d][sync[d][p].k]]
  /\ UNCHANGED <<files, freetube, budget, history>>

\* shadow.Load; then diff and buildEvents, of locals only.
LoadShadow(d, p) ==
  /\ sync[d][p].pc = "load"
  /\ sync' = [sync EXCEPT ![d][p].pc = "post", ![d][p].snap = shadow[d]]
  /\ UNCHANGED <<files, freetube, budget, history>>

added(d, p)   == sync[d][p].cur \ sync[d][p].snap
removed(d, p) == sync[d][p].snap \ sync[d][p].cur

\* Mistake: removals are not sent.
MistakeSendsNoRemoves(d, p) == [channel : added(d, p), action : {Add}]

buildEvents(d, p) == [channel : added(d, p), action : {Add}]
                       \cup [channel : removed(d, p), action : {Remove}]

DryRun(d, p) ==
  /\ sync[d][p].pc = "post"
  /\ sync' = [sync EXCEPT ![d][p] = IdleSync]
  /\ UNCHANGED <<files, freetube, budget, history>>

Post(d, p) ==
  /\ sync[d][p].pc = "post"
  /\ sync' = [sync EXCEPT ![d][p].pc = "wait"]
  /\ UNCHANGED <<files, freetube, budget, history>>

\* The server cannot be reached, or answers too late or not with 200.
NetworkFailed(d, p) ==
  /\ sync[d][p].pc = "wait"
  /\ sync' = [sync EXCEPT ![d][p] = IdleSync]
  /\ UNCHANGED <<files, freetube, budget, history>>

\* Mistake: a cycle without changes of its own has nothing to write.
MistakeIgnoresReply(d, p, subscribed) ==
  /\ sync[d][p].pc = "wait"
  /\ sync' = [sync EXCEPT ![d][p] =
                IF added(d, p) \cup removed(d, p) = {} THEN IdleSync
                ELSE [@ EXCEPT !.pc = "write", !.resp = subscribed]]
  /\ UNCHANGED <<files, freetube, budget, history>>

Receive(d, p, subscribed) ==
  /\ sync[d][p].pc = "wait"
  /\ sync' = [sync EXCEPT ![d][p].pc = "write", ![d][p].resp = subscribed]
  /\ UNCHANGED <<files, freetube, budget, history>>

\* SetSubscriptions(reconcile(...)) and WriteFile.
WriteDB(d, p) ==
  LET s == sync[d][p] IN
  /\ s.pc = "write"
  /\ db' = [db EXCEPT ![d][s.k] = s.resp]
  /\ sync' = [sync EXCEPT ![d][p].pc = "save"]
  /\ edited' = [edited EXCEPT ![d][s.k] = {}]
  /\ unsaved' = [unsaved EXCEPT ![d] = {s.resp}]
  /\ UNCHANGED <<shadow, freetube, budget>>

\* Mistake: the snapshot is of what was read, not of what was written.
MistakeSavesOld(d, p) ==
  /\ sync[d][p].pc = "save"
  /\ shadow' = [shadow EXCEPT ![d] = sync[d][p].cur]
  /\ sync' = [sync EXCEPT ![d][p] = IdleSync]
  /\ unsaved' = [unsaved EXCEPT ![d] = {}]
  /\ UNCHANGED <<db, freetube, budget, edited>>

SaveShadow(d, p) ==
  /\ sync[d][p].pc = "save"
  /\ shadow' = [shadow EXCEPT ![d] = sync[d][p].resp]
  /\ sync' = [sync EXCEPT ![d][p] = IdleSync]
  /\ unsaved' = [unsaved EXCEPT ![d] = {}]
  /\ UNCHANGED <<db, freetube, budget, edited>>

\* Run returns an error from any of its steps, or the process is killed.
Abort(d, p) ==
  /\ sync[d][p].pc # "idle" /\ faults < MaxFaults
  /\ faults' = faults + 1
  /\ sync' = [sync EXCEPT ![d][p] = IdleSync]
  /\ UNCHANGED <<files, freetube, toggles, history>>

-----------------------------------------------------------------------------
FreeTubeStep(d) ==
  \/ \E k \in Install : Open(d, k)
  \/ \E c \in Channel : Toggle(d, c)
  \/ Close(d) \/ Die(d)

\* What a cycle does between its exchanges with the server.
LocalStep(d, p) ==
  \/ \E k \in Install : Guard(d, p, k)
  \/ ReadDB(d, p) \/ LoadShadow(d, p) \/ WriteDB(d, p) \/ SaveShadow(d, p)

Next ==
  \E d \in Device :
    \/ FreeTubeStep(d)
    \/ \E p \in Proc :
         \/ LocalStep(d, p) \/ DryRun(d, p) \/ Abort(d, p)
         \/ Post(d, p)
         \/ NetworkFailed(d, p)
         \/ \E subscribed \in SUBSET Channel : Receive(d, p, subscribed)

Spec == Init /\ [][Next]_vars

-----------------------------------------------------------------------------
(* The files, FreeTube and the cycles keep their types. *)
TypeOK ==
  /\ db \in [Device -> [Install -> SUBSET Channel]]
  /\ shadow \in [Device -> SUBSET Channel]
  /\ ft \in [Device -> Install \cup {Off}] /\ mem \in [Device -> SUBSET Channel]
  /\ lock \in [Device -> SUBSET Install]
  /\ sync \in [Device -> [Proc -> SyncLocals]]
  /\ \A d \in Device, p \in Proc :
       sync[d][p].pc # "idle" => sync[d][p].k \in Install
  /\ toggles \in 0..MaxToggles /\ faults \in 0..MaxFaults
  /\ edited \in [Device -> [Install -> SUBSET Channel]]
  /\ unsaved \in [Device -> SUBSET SUBSET Channel]

(***************************************************************************)
(* shadow.go:1-5: the events of a cycle are what the user changed since    *)
(* the last sync.  Interrupted cycles excepted: after a cycle that         *)
(* overwrote the database and could not save the shadow, an event may also *)
(* repeat what the server said in that cycle's reply, but never contradict *)
(* it.  Anything else would be a change nobody asked for, and would undo   *)
(* another device's.                                                       *)
(***************************************************************************)
EventsExplained ==
  \A d \in Device, p \in Proc : sync[d][p].pc = "post" =>
    \A c \in added(d, p) \cup removed(d, p) :
      \/ c \in edited[d][sync[d][p].k]
      \/ \E reply \in unsaved[d] : c \in reply <=> c \in added(d, p)

(***************************************************************************)
(* guard.go:1-2, 117, README.md:93-94: profiles.db is never written while  *)
(* FreeTube is running.                                                    *)
(***************************************************************************)
NeverWritesUnderFreeTube ==
  [][\A d \in Device, p \in Proc : WriteDB(d, p) => ft[d] = Off]_vars
=============================================================================

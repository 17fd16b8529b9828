---------------------------- MODULE SyncServer ----------------------------
(***************************************************************************)
(* The server role (internal/server): concurrent executions of the /sync   *)
(* handler (handler.go) over the one state file and its mutex (store.go).  *)
(*                                                                         *)
(* net/http runs each request in a goroutine of its own.  A goroutine      *)
(* decodes and validates the body, reads the clock, and only then takes    *)
(* the mutex for the read-modify-write of the file.  Steps of different    *)
(* goroutines interleave; the process may be killed and restarted between  *)
(* any two of them; the machine may lose power, and then the last renames  *)
(* may be missing, because store.write syncs the file and not its          *)
(* directory.  Every local operation may fail.                             *)
(***************************************************************************)
EXTENDS LWW, Sequences, FiniteSets

CONSTANTS
  Handler,        \* goroutines that serve requests
  Requests,       \* requests clients send: [auth, events]
  ClockMode,      \* what consecutive clock readings look like, see ReadClock
  MaxTime,        \* bound: clock readings
  MaxCommits,     \* bound: batches applied
  MaxCrashes,     \* bound: process crashes
  MaxPowerLosses, \* bound: power failures
  NoHandler,      \* the mutex is free
  BadEvent        \* an event with no channel or an unknown action

ASSUME SyncServerAssumption ==
  /\ IsFiniteSet(Handler) /\ NoHandler \notin Handler
  /\ BadEvent \notin Event
  /\ Requests \subseteq [auth : BOOLEAN, events : SUBSET (Event \cup {BadEvent})]
  /\ ClockMode \in {"strict", "coarse", "stepping"}
  /\ MaxTime \in Nat \ {0} /\ MaxCommits \in Nat
  /\ MaxCrashes \in Nat /\ MaxPowerLosses \in Nat

VARIABLES
  clock,          \* the machine's clock, milliseconds
  mu,             \* holder of Store.mu, or NoHandler
  h,              \* h[x]: the locals of handler x, see Idle
  file,           \* the state file as processes see it
  disk,           \* the state file a power failure would leave
  crashes, powerLosses,
  (* History, never read by the handlers: *)
  log,            \* log[n]: the n-th batch applied, [events, at, after]
  flushed,        \* the batches whose rename is on disk
  lost,           \* the batches a power failure took back
  acked           \* the batches whose 200 reply has been sent

server  == <<clock, mu, file, disk>>
faults  == <<crashes, powerLosses>>
history == <<log, flushed, lost, acked>>
vars    == <<clock, mu, h, file, disk, crashes, powerLosses, log, flushed, lost, acked>>

(***************************************************************************)
(* The locals of a handler.  after (history) is the set of batches already *)
(* acknowledged when the request arrived, own the number of its batch.     *)
(***************************************************************************)
Idle == [pc |-> "idle", auth |-> FALSE, events |-> {}, at |-> 0,
         mem |-> EmptyState, after |-> {}, own |-> 0]

Busy == {x \in Handler : h[x].pc # "idle"}
Live == DOMAIN log \ lost

Init ==
  /\ clock = 1
  /\ mu = NoHandler
  /\ h = [x \in Handler |-> Idle]
  /\ file = EmptyState /\ disk = EmptyState
  /\ crashes = 0 /\ powerLosses = 0
  /\ log = <<>> /\ flushed = {} /\ lost = {} /\ acked = {}

At(x, pc)       == h[x].pc = pc
Step(x, pc, pcN) == At(x, pc) /\ h' = [h EXCEPT ![x].pc = pcN]

-----------------------------------------------------------------------------
(* A request reaches the mux. *)
Arrive(x) ==
  /\ At(x, "idle")
  /\ Len(log) + Cardinality(Busy) < MaxCommits
  /\ clock + Cardinality(Busy) < MaxTime
  /\ \E r \in Requests :
       h' = [h EXCEPT ![x] = [Idle EXCEPT !.pc = "arrived", !.auth = r.auth,
                                          !.events = r.events, !.after = acked]]
  /\ UNCHANGED <<server, faults, history>>

\* Mistake: the events are not validated.
MistakeOnlyAuth(x) == h[x].auth

\* Every event is validated before any is applied.
Valid(x) == h[x].auth /\ h[x].events \subseteq Event

\* 401 from withAuth or 400 from handleSync.
Refuse(x) ==
  /\ At(x, "arrived") /\ ~ Valid(x)
  /\ h' = [h EXCEPT ![x] = Idle]
  /\ UNCHANGED <<server, faults, history>>

(***************************************************************************)
(* How the clock moves from one reading to the next: always on (requests   *)
(* at least a millisecond apart), not always (two in one millisecond), or  *)
(* also back (the clock is adjusted).  The code uses the wall clock as is. *)
(***************************************************************************)
ReadClock ==
  \/ clock' = clock + 1
  \/ ClockMode # "strict" /\ clock' = clock
  \/ ClockMode = "stepping" /\ clock > 1 /\ clock' = clock - 1

\* Mistake: Unix() for UnixMilli().
MistakeStampsSeconds(x) ==
  /\ At(x, "arrived") /\ Valid(x)
  /\ ReadClock
  /\ h' = [h EXCEPT ![x].pc = "stamped", ![x].at = clock \div 2]
  /\ UNCHANGED <<mu, file, disk, faults, history>>

\* at := h.now().UnixMilli(), before the mutex is asked for.
TakeStamp(x) ==
  /\ At(x, "arrived") /\ Valid(x)
  /\ ReadClock
  /\ h' = [h EXCEPT ![x].pc = "stamped", ![x].at = clock]
  /\ UNCHANGED <<mu, file, disk, faults, history>>

\* Mistake: no mutex.
MistakeNoMutex(x) ==
  /\ Step(x, "stamped", "locked")
  /\ mu' = x
  /\ UNCHANGED <<clock, file, disk, faults, history>>

Lock(x) ==
  /\ mu = NoHandler
  /\ Step(x, "stamped", "locked")
  /\ mu' = x
  /\ UNCHANGED <<clock, file, disk, faults, history>>

Load(x) ==
  /\ At(x, "locked")
  /\ h' = [h EXCEPT ![x].pc = "loaded", ![x].mem = file]
  /\ UNCHANGED <<server, faults, history>>

\* Mistake: the batch is applied to an empty state.
MistakeForgetsState(x) ==
  /\ At(x, "loaded")
  /\ h' = [h EXCEPT ![x].pc = "written",
                    ![x].mem = ApplyEvents(EmptyState, h[x].events, h[x].at)]
  /\ UNCHANGED <<server, faults, history>>

\* ApplyEvents, then the temp file: written, synced, closed, chmodded.
WriteTemp(x) ==
  /\ At(x, "loaded")
  /\ h' = [h EXCEPT ![x].pc = "written",
                    ![x].mem = ApplyEvents(h[x].mem, h[x].events, h[x].at)]
  /\ UNCHANGED <<server, faults, history>>

\* The rename that makes the temp file the state file; deferred Unlock.
Rename(x) ==
  /\ At(x, "written")
  /\ file' = h[x].mem
  /\ mu' = NoHandler
  /\ log' = Append(log, [events |-> h[x].events, at |-> h[x].at, after |-> h[x].after])
  /\ h' = [h EXCEPT ![x].pc = "applied", ![x].own = Len(log) + 1]
  /\ UNCHANGED <<clock, disk, faults, flushed, lost, acked>>

\* Mistake: the state file is written in place, and an error truncates it.
MistakeTruncates(x) ==
  /\ h[x].pc \in {"locked", "loaded", "written"}
  /\ file' = IF At(x, "written") THEN EmptyState ELSE file
  /\ mu' = NoHandler
  /\ h' = [h EXCEPT ![x] = Idle]
  /\ UNCHANGED <<clock, disk, faults, history>>

\* Mistake: Unlock is not deferred.
MistakeKeepsMutex(x) ==
  /\ h[x].pc \in {"locked", "loaded", "written"}
  /\ h' = [h EXCEPT ![x] = Idle]
  /\ UNCHANGED <<server, faults, history>>

\* An error of load or of any step of write: deferred Unlock, 500.
Fail(x) ==
  /\ h[x].pc \in {"locked", "loaded", "written"}
  /\ mu' = NoHandler
  /\ h' = [h EXCEPT ![x] = Idle]
  /\ UNCHANGED <<clock, file, disk, faults, history>>

\* 200 with SubscribedChannels of the state Apply returned.
Reply(x) ==
  /\ At(x, "applied")
  /\ acked' = acked \cup {h[x].own}
  /\ h' = [h EXCEPT ![x] = Idle]
  /\ UNCHANGED <<server, faults, log, flushed, lost>>

-----------------------------------------------------------------------------
(* The machine. *)

\* The file system writes the directory back on its own schedule.
FlushDirectory ==
  /\ flushed # Live
  /\ disk' = file
  /\ flushed' = Live
  /\ UNCHANGED <<clock, mu, h, file, faults, log, lost, acked>>

\* The process dies and is started again: goroutines and mutex are gone.
Crash ==
  /\ crashes < MaxCrashes
  /\ crashes' = crashes + 1
  /\ mu' = NoHandler
  /\ h' = [x \in Handler |-> Idle]
  /\ UNCHANGED <<clock, file, disk, powerLosses, history>>

PowerLoss ==
  /\ powerLosses < MaxPowerLosses
  /\ powerLosses' = powerLosses + 1
  /\ mu' = NoHandler
  /\ h' = [x \in Handler |-> Idle]
  /\ file' = disk
  /\ lost' = lost \cup (DOMAIN log \ flushed)
  /\ UNCHANGED <<clock, disk, crashes, log, flushed, acked>>

HandlerStep(x) ==
  \/ Refuse(x) \/ TakeStamp(x) \/ Lock(x) \/ Load(x)
  \/ WriteTemp(x) \/ Rename(x) \/ Fail(x) \/ Reply(x)

Next ==
  \/ \E x \in Handler : Arrive(x) \/ HandlerStep(x)
  \/ FlushDirectory \/ Crash \/ PowerLoss

Spec == Init /\ [][Next]_vars

(***************************************************************************)
(* Goroutines are scheduled fairly and sync.Mutex does not starve a waiter *)
(* for ever (its starvation mode hands the lock to the oldest one).        *)
(***************************************************************************)
Fairness ==
  \A x \in Handler : WF_vars(HandlerStep(x)) /\ SF_vars(Lock(x))

FairSpec == Spec /\ Fairness

-----------------------------------------------------------------------------
(* The handlers' locals, the mutex and the files keep their types. *)
Locals ==
  [pc : {"idle", "arrived", "stamped", "locked", "loaded", "written", "applied"},
   auth : BOOLEAN, events : SUBSET (Event \cup {BadEvent}), at : Nat, mem : State,
   after : SUBSET Nat, own : Nat]

TypeOK ==
  /\ clock \in Nat \ {0}
  /\ mu \in Handler \cup {NoHandler}
  /\ h \in [Handler -> Locals]
  /\ \A x \in Handler : h[x].after \subseteq DOMAIN log
  /\ \A x \in Handler : At(x, "applied") => h[x].own \in DOMAIN log
  /\ file \in State /\ disk \in State
  /\ crashes \in 0..MaxCrashes /\ powerLosses \in 0..MaxPowerLosses
  /\ log \in Seq([events : SUBSET Event, at : Nat \ {0}, after : SUBSET Nat])
  /\ flushed \subseteq Live /\ lost \subseteq DOMAIN log /\ acked \subseteq DOMAIN log

IsLatest(t, times) == IF times = {} THEN t = 0
                      ELSE t \in times /\ \A s \in times : s <= t

\* The stamps of those of the batches ns that hold event e.
StampsOf(ns, e) == {log[n].at : n \in {m \in ns : e \in log[m].events}}

\* State s holds, per channel and action, the latest stamp in the batches ns.
IsJoin(s, ns) ==
  \A c \in Channel :
    /\ IsLatest(s[c].lastAdded, StampsOf(ns, [channel |-> c, action |-> Add]))
    /\ IsLatest(s[c].lastRemoved, StampsOf(ns, [channel |-> c, action |-> Remove]))

(***************************************************************************)
(* store.go:18-21: requests that run concurrently do not race on the file. *)
(* Whatever order handlers stamped and stored in, whichever of them failed *)
(* or died on the way, the file holds for every channel exactly the latest *)
(* stamp of all the adds applied and of all the removes: no batch is half  *)
(* applied, overwritten by one computed from an older file, or applied     *)
(* without being complete.                                                 *)
(***************************************************************************)
FileIsJoin == IsJoin(file, Live)

\* State s already contains batch b.
Covers(s, b) == Merge(s, StampAll(b.events, b.at)) = s

(***************************************************************************)
(* handler.go:25-26, 109: the reply is the full current set.  The state it *)
(* is computed from contains the request's own batch and every batch whose *)
(* reply was sent before the request arrived.                              *)
(***************************************************************************)
ReplyIsCurrent ==
  \A x \in Handler : At(x, "applied") =>
    \A n \in (h[x].after \cup {h[x].own}) \ lost : Covers(h[x].mem, log[n])

(***************************************************************************)
(* README.md:127-131: "whichever event reaches the server later wins".     *)
(* The last surviving batches on a channel are those no other batch on it  *)
(* follows (n follows m when m was acknowledged before n arrived).  When   *)
(* they agree that the channel is added, or that it is removed, that is    *)
(* what the server says.                                                   *)
(***************************************************************************)
On(c)      == {n \in Live : \E e \in log[n].events : e.channel = c}
LastOn(c)  == {m \in On(c) : \A n \in On(c) : m \notin log[n].after}
Only(n, c, a) == {e.action : e \in {d \in log[n].events : d.channel = c}} = {a}

LaterWins ==
  \A c \in {d \in Channel : On(d) # {}} :
    /\ (\A n \in LastOn(c) : Only(n, c, Add))    => c \in SubscribedChannels(file)
    /\ (\A n \in LastOn(c) : Only(n, c, Remove)) => c \notin SubscribedChannels(file)

(***************************************************************************)
(* store.go:18-21 says that write mirrors the pattern of internal/nedb,    *)
(* which syncs the directory so that the rename is durable                 *)
(* (nedb.go:320, 358).  A client told 200 overwrites its database with     *)
(* the reply (clientsync.go:122-132), so what was acknowledged must        *)
(* outlive a power failure.                                                *)
(***************************************************************************)
AckedSurvivesPowerLoss == \A n \in acked : Covers(file, log[n])

(***************************************************************************)
(* Every request is answered (or its connection dropped by a crash): the   *)
(* error paths release the mutex too, so no handler waits for ever.        *)
(***************************************************************************)
RequestsAnswered ==
  \A x \in Handler : h[x].pc # "idle" ~> h[x].pc = "idle"

-----------------------------------------------------------------------------
(***************************************************************************)
(* Seen from outside, the interleaved handlers, their failures and their   *)
(* crashes are one atomic register.                                        *)
(***************************************************************************)
Store == INSTANCE LWWStore WITH
           state <- file, saved <- disk,
           AllBatches <- SUBSET Event, Instants <- 1..MaxTime

StoreSpec == Store!Spec
=============================================================================

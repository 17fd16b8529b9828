# freetube-sync in TLA+

freetube-sync keeps the FreeTube subscriptions of several devices the same. A
client turns what changed in FreeTube's `profiles.db` since the last sync into
add and remove events and posts them to a server; the server merges them into
its state, an LWW element set, and answers with the full set of subscribed
channels, which the client writes back. This directory holds TLA+ models of
that program, the TLC runs that check them and TLAPS proofs about them.

Paths below are relative to `src/`; line numbers refer to the same commit.

## The system

| part | code | state | operations |
| --- | --- | --- | --- |
| merge | `internal/merge/merge.go` | none (pure) | `Merge`, `Stamp`, `ApplyEvents`, `SubscribedChannels` |
| store | `internal/server/store.go` | `state.json`, mutex | `Apply` (load, merge, temp file, rename) |
| handler | `internal/server/handler.go` | none | `POST /sync`: authenticate, validate, stamp, `Apply`, reply |
| clientsync | `internal/clientsync/*.go` | locals of one cycle | guard, read, diff, post, overwrite, save shadow |
| shadow | `internal/shadow/shadow.go` | `last-synced.json` | `Load`, `Save` |
| nedb | `internal/nedb/nedb.go` | `profiles.db`, its `.bak` | parse, get/set subscriptions, `WriteFile` |
| guard | `internal/guard/guard.go` | none (reads SingletonLock, `/proc`) | `IsSafeToWrite` |
| runner | `internal/runner/runner.go` | locals of one wrapper | sync, launch FreeTube, wait, sync |
| config | `internal/config/*.go` | `config.json` | `Load`, `Resolve` (flags, environment, file), `Save` |
| installdetect | `internal/installdetect`, `cmd/freetube-sync/install.go` | none (looks at installs) | `Detect`, prompt, save the answer |
| commands | `cmd/freetube-sync/*.go` | none | `serve`, `sync`, `run`, `status`, `inspect` |
| desktop scripts | `scripts/*.sh` | `config.json`, desktop entries, their backups | install, uninstall |
| deployment | `init`, `deployments`, `compose.yaml` | none | timer, images |

The client talks to the server by one HTTP request per cycle, with a timeout of
ten seconds; client processes share files with each other and with FreeTube,
and nothing but the guard's look at the lock file and at `/proc` orders them.
Server goroutines share the state file under one mutex.

What is hard in it:

* **server**: requests interleave; the stamp is taken before the mutex, so that
  batches are not applied in the order of their stamps; stamps tie or go back with
  the wall clock; any file operation can fail while the
  mutex is held; the process or the machine can stop between any two steps.
* **client**: the guard is checked once and the database written up to a
  timeout later; two files are replaced one after the other; a cycle may fail
  or be killed at each step; timer, command and wrapper may overlap, and the guard
  sees only some of them; one shadow serves two installs.
* **files of a user's own**: `profiles.db` holds far more than what is synced
  and must otherwise stay as it is, byte for byte; desktop entries are replaced
  and brought back; `config.json` is rewritten by commands and scripts, in
  place by the former; installs come and go meanwhile.
* **between them**: requests and replies get lost, and a request can be served
  after its sender gave up; what was served is then sent again.

What makes the parts correct: the merge laws, and a batch being all or nothing
(merge); no lost update, durable state, released mutex (store); a reply that is
current, the later event winning (handler); events that are the user's own
changes, and unless something starts behind the guard's back nothing overwritten
unseen and nothing written under FreeTube (clientsync, guard); whole files and a shadow never newer than the database,
and nothing changed but the one field (nedb, shadow); a credential that is kept
and a choice that sticks (config, installdetect); an uninstall that leaves
things as they were (scripts); FreeTube launched whatever the server does (runner); devices
that converge (the whole).

`PROJECT.json` lists the hazards line by line with the properties that cover
them.

## The modules

```
LWW                 merge.go as operators
 |- ApplyLoop       the loop of ApplyEvents, one iteration per step
 |- LWWStore        abstract: an atomic register of merge states
 |- SyncServer      handler.go + store.go: concurrent requests, faults
 |                    refines LWWStore (state <- file, saved <- disk)
 |- ClientSync      clientsync, shadow, guard, FreeTube and its user
     |- SyncSystem  devices + network + server (stamp, then commit in one step)
     |- RunWrapper  runner.go: wrappers around cycles and FreeTube, and the
     |                guard call by call
     |- Documents   nedb.go: cycles on the text of profiles.db
AtomicWrite         nedb.WriteFile and shadow.Save, call by call
InstallChoice       config.go, installdetect.go and the commands up to a cycle
 |- Launcher        install-client.sh and uninstall-client.sh beside them
LWWTheorems, ApplyLoopProofs, SyncServerProofs, ClientSyncProofs,
DocumentsProofs, CompositionProofs, AtomicWriteProofs, LauncherProofs    the proofs
                    (CompositionProofs: those of RunWrapper and of SyncSystem)
MC*                 instances for TLC
```

**LWW.** A Go map of stamps is a total function whose missing keys are what a
Go lookup returns, two zero stamps (the program never distinguishes an absent
key from one with zero stamps). `ApplyEvents` is stated in one go, for the set
of events of a batch; `ApplyLoop` is the loop of the code, and what it computes
is proved equal.

**SyncServer.** `h[x]` are the locals of the goroutine that serves a request,
with its program counter: `Arrive`, `Refuse` (401 and 400), `TakeStamp`
(`handler.go:101`), `Lock`, `Load`, `WriteTemp`, `Rename` (which also ends
`Apply`, whose deferred `Unlock` follows), `Fail` (any error under the mutex:
500), `Reply`. `file` is the state file as processes see it, `disk` what a
power failure would leave: `store.write` syncs the temp file but not the
directory, so the file system decides when a rename is durable
(`FlushDirectory`). `log`, `flushed`, `lost`, `acked` and a handler's `after`
and `own` are history that only properties read. `ClockMode` says how the wall
clock moves between readings: always on, sometimes not, sometimes back.

**ClientSync.** A database is the set of channels of its "All Channels"
profile. `sync[d][p]` is a process of device d in a cycle: `Guard`, `ReadDB`,
`LoadShadow` (after which diff and events are functions of the locals), `Post`,
then `Receive` or `NetworkFailed`, `WriteDB`, `SaveShadow`; `DryRun` leaves
before the exchange and `Abort` is a local error or a kill at any point. The
server is any reply. FreeTube (external) opens, lets its user toggle channels,
closes, or dies and leaves its lock file. The guard's two signals are separate:
the lock file is that of one install, the process is one of any install.
`FreeTubeMayRace` says whether FreeTube may be opened during a cycle.
`edited` and `unsaved` are history.

**Documents** runs the same cycles on the text of `profiles.db`. A text is the
sequence of what stands between its newlines, a line the sequence of its fields,
and `Torn` what is not JSON; `Parse`, `rawFieldSpan`, `IsAllChannelsProfile`,
`SetSubscriptions` and `Bytes` are those of `nedb.go`, `metadata` and `reconcile`
those of `clientsync.go`. Each action is one of ClientSync's with its effect on
the text added (`WritesDB` is `WriteDB` and the splice), and with the errors only
the text can cause: `ReadFails`, `SetFails`. `layout` is history: the text as
FreeTube last wrote it, with a slot for the subscriptions.

**SyncSystem** puts the server in the place of "any reply": its state, a strict
clock, one exchange per cycle, which may be lost before or after it was served
or be served late (`stray`). The server takes two steps over a request, as
`handler.go` does: `Arrive` stamps it (:101), `Commit` applies it and makes the reply
(:102-119, `store.go:88-109`); requests of other devices are stamped and applied in
between, so that commits are not in the order of the stamps. `Commit` is one step
because `SyncServer`, where load, merge and rename are apart, is proved to implement
an atomic register for whatever stamps (`SyncServerImplementsStore`). An empty batch
does not advance the clock: its stamp is never used. A device may lose its shadow
(uninstalling removes it) and the server its state file. `wanted`, `editors` and
`overruled` are history: what the users want, on which devices each channel was ever
changed, and on which channels a batch not stamped before a waiting one, but applied
first, says the opposite.

**RunWrapper** wraps cycles: `StartWrapper`, the two syncs (which may be skipped
by the guard), `Launch`, `Exited`. The desktop entry that `install-client.sh`
writes ends in FreeTube's own command line, so every other process's guard
takes such a wrapper for a running FreeTube (`Matching`; `guard.go:58-66` excludes
only the process itself). The wrappers of the desktop entry are the set `Desktop`;
the others in `Launcher` were given no launch command (`README.md:7`,
`run.go:48-51`), have no word on their command lines that `guard.go:104-114`
matches, and are seen by nobody, like the plain syncs that are not in `Launcher`.
The guard is several steps here: `CheckLock`, `ListProcesses`, then the command lines
of those on the list, from which a process that exits disappears (`SyncSkipped`,
`SyncStarts`). `Exited` waits for the FreeTube on the device, which is the one the
wrapper launched: while one runs, a second makes way at once. `stirred` is history:
has FreeTube been started, or has another process written a database, since this one
listed the processes?

**AtomicWrite** takes `WriteDB` and `SaveShadow` apart. `entry[f]` is what file f
holds, `possible[f]` everything it may hold after a power failure: a rename adds
to it, syncing the directory leaves only the present. Temp files that are not
synced before the rename would be torn. FreeTube may save, and its user delete the
database, between any two calls (the guard was asked before the exchange); `raced`
is history: has FreeTube saved since the backup was last copied?

**InstallChoice.** `cmd[p]` is a command on its way to a cycle: `Resolve` overlays
flags and environment on the file, `Detect` follows the configured install, takes
the only one that is there, or prompts; `Answer`, `LoadAgain`, `CreateFile` and
`Store` are the answer and its saving, in place. `InstallsChange` lets
applications and their directories come and go. `entered` and `chosen` are
history: what the user last gave or chose.

**Launcher** adds the two scripts: `StartInstall`, `ReplaceConfig` (by rename),
`BackUpEntry`, `TruncateEntry` and `WriteEntry`; `StartUninstall`, `RemoveEntry` for
each file in any order, `RemoveConfig`; and `StopScript`, which ends one anywhere.

Definitions whose names begin with `Mistake` are not part of the models: each is
an action or operator with a plausible slip in it, kept to show that a property
notices when it replaces the right one (`PROJECT.json`, "mutants").

## What TLC checks

| run | instance | distinct states | shows |
| --- | --- | --- | --- |
| `merge_loop` | all batches of up to 3 events on 2 of 3 channels, good or bad, 81 start states with stamps below, at and above the batch's | 70 000 | the result depends on the set of events only; all or nothing; idempotent under one stamp |
| `server_faults` | 2 handlers, 2 channels, 3 commits, 1 crash, 1 power failure, stepping clock | 2 200 000 | `FileIsJoin`, `ReplyIsCurrent`, and the refinement of `LWWStore` |
| `server_strict` | 2 handlers, 3 commits, 1 crash, strict clock, fairness | 540 000 | the later event wins; every request is answered |
| `client_cycle` | 1 process, 1 install, 3 channels, 8 layouts, 3 toggles, 2 faults, any replies | 1 200 000 | events are the user's own changes; nothing but one field changes; names kept |
| `file_write` | 5 versions (up to 4 cycles or saves of FreeTube's, at any step), 2 stops | 160 000 | whole files, backup of what is overwritten, shadow never ahead, no litter |
| `run_wrapper` | 2 desktop wrappers and a timer's sync, guard in steps, 1 failure, FreeTube opened by hand at any time | 760 000 | desktop wrappers do not sync at once; an undisturbed sync is safe; FreeTube is launched |
| `system_converges` | 2 devices, 1 channel, 1 toggle besides arbitrary first databases, 1 local fault or lost file, 1 failed exchange | 1 220 000 | a sync takes back what its user changed only for a later word; nothing changed is forgotten on the way; the devices agree in the end; an uncontested change survives |
| `client_install` | 2 commands, 2 credentials, scripts in any order, 1 change of the installs, 1 stop, an entry to shadow | 3 200 000 | credential kept, choice between two installs asked once, originals kept, uninstalling undoes |

Four runs show where the code and its documentation part ways; each checks one
property and TLC refutes it:

* `server_power_loss`: a batch acknowledged with 200 is gone after a power
  failure, since `store.go:82` is not followed by a sync of the directory as
  in `nedb.go:320`, the pattern `store.go:18-21` says it mirrors.
* `client_install_switch`: with two installs the one shadow is compared with a
  database it was not made from; the next cycle removes channels for everybody
  (`README.md:80` calls switching safe).
* `wrapper_double_launch`: a wrapper that is skipped because another one is at
  work launches FreeTube nevertheless, and the other then writes `profiles.db`
  under it (`guard.go:1-2`).
* `launcher_stale`: the installer leaves its earlier desktop entries as they are.
  After one run with `--install=flatpak` as a separate entry and another for native
  in shadow mode the separate icon still launches Flatpak, while `config.json` names
  native and it is native's database that is synced (`install-client.sh:16-17` and
  `README.md:80` call it safe to re-run).

What else the models taught, for readers of the code:

* `LaterWins` holds under a strict clock only. Two requests in one millisecond
  tie, and a tie is "not subscribed"; after the wall clock was set back new
  events lose to old ones. `README.md:127-129` makes no such exception.
  `OwnChangesKept` rests on the same: if two devices' opposite changes of a channel
  get one stamp, the later of the two syncs may take its user's addition back.
* The stamp is taken before the mutex, so a reply need not hold the changes it
  answers: device A's addition is stamped, then B's removal of the same channel, B's
  is applied first, and A's reply takes its addition back. B's is the later word by
  the stamps, so that this is last-writer-wins at work; it is the only way a strict
  clock leaves (`OwnChangesKept` excepts `overruled` channels and nothing else).
* A resent event is stamped again on arrival. `Merge` is idempotent, a retry is
  not: it undoes what another device did since (`merge.go:53-56`,
  `README.md:123-125` say it does not matter). `Convergence` holds all the same.
* A reply that is lost can cost even a single device its user's next change: the
  change back to the state in the shadow produces no event. `SoleEditorWins` is
  therefore stated for behaviours without such interruptions, and so is
  `ChangeUnderWay`, the invariant behind it. `OwnChangesKept` holds with them.
* A server that lost its state file knows of nothing but what is changed from
  then on, and the next sync removes the rest from every device's database.
* A `freetube-sync run` without `--` (`README.md:7`) is not seen by any guard: its
  command line has no word that `processMatches` looks for. Two of them, or one and
  the desktop entry's, sync at once, as two plain `sync` processes do; only desktop
  wrappers exclude each other (`OneWrapperSyncs`).
* The race of `wrapper_double_launch` exists between any cycle and FreeTube
  opened by hand, for want of a lock. `UndisturbedSyncIsSafe` says what is left: what
  began before the guard listed the processes is found or over, and only what starts
  or writes behind its back does harm. `client_cycle` has one process and
  `FreeTubeMayRace = FALSE`, and what it shows holds under these conditions only.
* The backup is copied before the database is replaced: what FreeTube saves in
  between is in neither (`OverwrittenIsBackedUp` excepts it).
* A profile without a subscriptions field reads as one with none. That the field
  does not vanish once it was synced is assumed of FreeTube; if it did, the next
  cycle would remove everything on the server and then fail to write the reply.
* `Parse` and `Bytes` do not round-trip a file that is a single newline (it
  becomes empty). It has no profile, so nothing is ever written back.
* `Options.Persisted` is never set: `detectInstall` passes the stored choice as
  `Override`. A choice whose install is gone makes every command fail though the
  other install is there; `installdetect.go:45-47` and `140-144` describe a tie break
  only. No run checks this case; `ChoiceSticks` is about both installs being there.
* `config.Save` writes in place: cut short, it leaves a file no command can parse
  until the installer runs again, with its credential lost.
* A script that is stopped while it writes an entry leaves one without a marker,
  which the next run backs up over the user's original (`spoilt` in Launcher).

### Bounds

Two concurrent handlers are enough for each pair of steps to interleave, three
commits for one that overlaps another and one that follows both; the invariant
is proved for all bounds anyway. Three channels let a cycle's batch hold an
addition, a removal and an untouched channel; a cycle treats channels
independently of one another, and so does the server, which is why one channel
is enough for convergence. Two faults in a row (a kill in the cycle after a
kill) need `MaxFaults = 2` in `client_cycle`. Its eight layouts have the profile
first, last and between others, with another profile that bears its title,
blank lines, no newline at the end, the field missing, the profile missing or
twice, and torn bytes in a line of their own and before the field. In `client_install` one change of
the installs suffices for a choice that can no longer be followed or a second
install that appears, one stop for a torn file; the number of script runs and
commands is not bounded. The user does one thing at a time there (`Busy`):
answering a prompt while the installer asks as well is left out. Nothing in the code
(`install.go:52-57`, `install-client.sh:224-244`) would keep those two writers of
`config.json` apart, and `CredentialKept` is not claimed for them. `MaxTime`,
`MaxCommits`, `MaxToggles`, `MaxVersion`, `MaxFaults`, `MaxLost`, `MaxStops`,
`MaxChanges`, `MaxCrashes` and `MaxPowerLosses` bound what would otherwise be unbounded, and
bound nothing else. Handlers, channels, commands and credentials are symmetric where a cfg says so;
runs of liveness properties use no symmetry.

Deadlock is not checked where the bounds or the end of a call leave nothing to
do (`merge_loop`, the server's runs, `file_write`); it is in the client's.

### Fairness

* server: goroutines run, and `sync.Mutex` in its starvation mode hands itself
  to the oldest waiter, hence SF for `Lock` and WF for a handler's steps. That a
  handler gets as far as the mutex takes a client that finishes its body: nothing
  times out reading one (`serve.go:46`, `handler.go:82`).
* wrapper: a process goes on, and the HTTP client's timeout ends its wait.
* system: the timer starts cycles again and again, a cycle goes on, and a
  request or reply that is not lost arrives. Nobody need open or close
  FreeTube: convergence is stated for behaviours in which it stays closed from
  some point on, and was closed properly (a lock file left by a FreeTube that
  died stops all syncs until the next session ends well).

## What is proved

TLAPS checks these for all values of the constants: any number of devices,
processes, channels, versions, faults. The named assumptions of the modules are
types, finiteness of `Handler`, positive bounds, and that markers differ (`Off` is
no install; the contents None, Torn and Original of an entry are three and not
installs; `DocumentsAssumption` says what a `Slot` is). What else a theorem needs it
says after ASSUME:

* `ClockMode = "strict"`: no two requests read the same time, and the clock is
  never set back.
* `DirSyncWorks`: the file system syncs directories; `syncDir` ignores the error of
  one that does not.
* `~ FreeTubeMayRace`, `OneProcess`, `OneInstall`: FreeTube is not opened during a
  cycle, one freetube-sync process runs at a time on a device, and it has one
  install. Nothing in the code enforces the three; `wrapper_double_launch` and
  `client_install_switch` show what happens without the first and the third, and
  `run_wrapper` what the guard does about the first two.

The module `SyncSystem` has a strict clock, and `InstallChoice` and `Launcher` a user
who does one thing at a time (`Busy`); their theorems hold under these conditions.

| theorem | module | states | needs |
| --- | --- | --- | --- |
| `MergeCommutative`, `MergeAssociative`, `MergeIdempotent`, `EventDecides`, `BatchDecides` | LWWTheorems | the merge laws (`merge.go:50-52`), and what a newer event or batch does | |
| `ApplyEventsTypeOK`, `...OrderIndependent`, `...Idempotent`, `...AllOrNothing` | ApplyLoopProofs | `TypeOK`, `OrderIndependent`, `SameStampIdempotent`, `AllOrNothing` | |
| `SyncServerTypeOK`, `...FileIsJoin`, `...ReplyIsCurrent` | SyncServerProofs | `TypeOK`, `FileIsJoin`, `ReplyIsCurrent` | |
| `SyncServerLaterWins` | SyncServerProofs | `LaterWins` | strict clock |
| `SyncServerImplementsStore` | SyncServerProofs | the refinement of `LWWStore` | |
| `TypeCorrect`, `NoTornFile`, `NoLitter` | AtomicWriteProofs | `TypeOK`, `FilesWhole`, `LitterOnlyFromStops` | |
| `ShadowBehind`, `BackedUp` | AtomicWriteProofs | `ShadowNeverAhead`, `OverwrittenIsBackedUp` | `DirSyncWorks` |
| `TypeCorrect` | ClientSyncProofs | `TypeOK` | |
| `SendsWhatChanged`, and on texts `DocSendsWhatChanged` | ClientSyncProofs, DocumentsProofs | `EventsExplained` | `~ FreeTubeMayRace`, `OneProcess`, `OneInstall` |
| `DocTypeCorrect`, `TextKept`, `NamesSurvive` | DocumentsProofs | `DocTypeOK`, `OnlySubscriptionsChange`, `NamesKept` | `~ FreeTubeMayRace`, `OneProcess` |
| `WrapTypeCorrect`, `WrappersExclude` | CompositionProofs | `WrapTypeOK`, `OneWrapperSyncs` | |
| `UndisturbedIsSafe` | CompositionProofs | `UndisturbedSyncIsSafe`, of any processes | |
| `SystemTypeCorrect`, `KeepsOwnChanges` | CompositionProofs | `SysTypeOK`, `OwnChangesKept` | |
| `NoChangeForgotten` | CompositionProofs | `ChangeUnderWay` | `~ FreeTubeMayRace`, `OneProcess`, `OneInstall` |
| `DeskTypeCorrect`, `CredentialsSafe`, `AskedOnce` | LauncherProofs | `DeskTypeOK`, `CredentialKept`, `ChoiceSticks` | |
| `OriginalsSafe`, `UninstallRestores` | LauncherProofs | `OriginalKept`, `UninstallUndoes` | |

None of these invariants is inductive by itself. The arguments:

* **ApplyLoop.** `OrderIndependent` speaks of the end of the loop only;
  `LoopInvariant` says what the accumulator holds after every iteration. Its step
  is `ApplyOneMore`: merging the stamp of one more event is applying one more
  event.
* **SyncServer.** A rename installs what a handler computed steps earlier. `IInv`
  adds that the mutex has one holder, the handler inside `Apply` (`MutexInv`); that
  the holder's copy is still the file, and its result the file with its batch
  (`HolderInv`); that stamps are readings of the clock and events valid
  (`StampedInv`, `ClockInv`); and that `disk` is the join of what was flushed
  (`JoinInv`), which a power failure needs. `JoinOneMore` carries a join over to one
  more batch, `JoinCovers` derives `ReplyIsCurrent`. For the refinement a rename is a
  step `Apply` by `HolderInv`, and everything else `Flush`, `Revert` or a stutter.
  For `LaterWins`, `OrderInv` adds that a batch has a newer stamp than those
  acknowledged before it arrived, though handlers stamp before they take the mutex
  and commit in any order. Then a batch with the latest stamp on a channel is one
  that no other followed (`LatestIsLast`), and by `FileIsJoin` it decides
  (`DecidedByLast`); ties between concurrent batches do no harm.
* **AtomicWrite.** `DurableInv`: what is renamed was synced (`WholeInv`); when a file
  is about to be replaced, a power failure can leave of the one before it in the
  order backup, database, shadow only what it holds now (`BackupInv`, `ShadowInv`),
  which is what `syncDir` between them is for. `NoTornFile` and `NoLitter` need less
  (`BaseInv`) and hold on any file system.
* **ClientSync.** `EventsInv`: FreeTube and cycles exclude each other
  (`ExclusiveInv`); FreeTube's memory is its database (`MemInv`); what a cycle has
  read is still in the files (`LocalsInv`); and every difference between database
  and shadow, at any time and not only in a cycle, is the user's or that of a reply
  whose shadow was not saved (`DiffInv`). A kill between `WriteDB` and `SaveShadow`
  leaves `unsaved`, and `DiffInv` is what survives it.
* **Documents.** Its steps are steps of ClientSync (`DocNextIsClientStep`), so the
  invariant of the cycles carries over. About the text, `Spliced` says that parsing,
  setting and joining the lines replaces the fields and nothing else, whatever stands
  at its end; `SpliceKeeps` and `SpliceReadsBack` that the same field is then found
  and holds what was written. `DocInv` adds that every text is a layout filled in
  (`TextsInv`) and that what a cycle has parsed is still in the file (`LocalInv`).
* **RunWrapper.** The argument of a flag that is raised before the other's is read:
  a desktop wrapper is in the process list from its start and lists the others only
  afterwards, so of two the one that lists later finds the other, and goes on
  finding it until it has exited. `ExcludeInv` says that no two wrappers have both
  missed each other (`Unseen`). For `UndisturbedSyncIsSafe`, `StirInv` says of every
  process between its look at the processes and its write, whoever it is: unless
  `stirred`, FreeTube is closed or on its list, and what it has read of the database
  is what the database holds.
* **SyncSystem.** That a request is under way exactly while its process waits is
  part of `SysTypeOK` and inductive with it (`Paired`). For `OwnChangesKept`,
  `TellInv` follows a batch from its events to the write. The clock is ahead of every
  stamp, given or applied (`ClockInv`), so that a new stamp is later than all of them.
  While a batch is stamped and waits, everything the server has to the contrary is
  older than its stamp or on an `overruled` channel (`Standing`); so when it is
  applied it decides the others (`BatchDecides`), and the reply, then what the process
  holds, say what the cycle read (`Tells`). The property compares a cycle's own
  locals, so that no condition on FreeTube or on other processes is needed. For
  `ChangeUnderWay`, `KeptInv` says of a channel with one editor what each part of the
  system holds of it: before its batch is applied the server is as the editor's shadow
  says, so that the difference is what is missing; from then until the shadow is saved
  server and reply are as the user wants (`Heard`). All other devices repeat what the
  server said (`Repeats`): database and shadow agree on the channel outside of a
  cycle's last step, so that they send nothing of it. The step from one to the other is
  `KeptCommit`.
* **Launcher**, with InstallChoice: nothing locks `config.json`; that there is one
  user is what orders its writers (`UserInv`). `FileInv` ties the file to what the
  user last entered and chose, `CmdInv` does so for the copy a command holds.
  `EntriesInv` says of every entry that it is as before, or managed with what was
  before in its backup, or being written.

Only model-checked: liveness under fairness (`RequestsAnswered`,
`LaunchedUnlessLocalError`, `Convergence`, `SoleEditorWins`), which is out of the
prover's reach. Every invariant and every action property that a passing run checks
is proved.

## What is not modelled

The characters of JSON: of requests, state and shadow, and inside the fields of
a document. Thumbnails, which go with the names. The words of command lines and
how the guard compares them. The checking of URLs and tokens, the two fields of
the configuration that only `serve` reads (they are overlaid like the others),
flags and output; `inspect`, which reads a database and prints it; copying the
binary, the texts of desktop entries, units and images: none of them has state or
steps that interleave with anything. FreeTube, the user, the file system and
the network are modelled from what the code expects of them, and marked
external.

## Plan

Done: all components above are modelled and checked, and the safety properties of
every module are proved. What could follow:

1. A `SyncSystem` with the clock of `SyncServer`, to say how far apart devices may
   be, and for how long, when stamps tie or go back.
2. `ChangeUnderWay` with lost exchanges: which changes exactly a lost reply may cost.
3. `NeverWritesUnderFreeTube` for wrappers, should a guard come to be asked again
   right before the write, or one that is skipped to wait instead of launching.

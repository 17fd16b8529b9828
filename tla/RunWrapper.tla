----------------------------- MODULE RunWrapper -----------------------------
(***************************************************************************)
(* The run command (internal/runner): sync, launch FreeTube, wait for it   *)
(* to exit, sync again.  The desktop entry runs one for every click; a     *)
(* user may run one too, and plain sync cycles, as the systemd timer does. *)
(* Everything a cycle does is ClientSync's.                                *)
(*                                                                         *)
(* The desktop entry's command line ends in FreeTube's (run -- flatpak run *)
(* io.freetubeapp.FreeTube), so the guard of every OTHER process takes     *)
(* such a wrapper for a running FreeTube, from its start to its end.  One  *)
(* that finds its command by itself (README.md:7, run.go:48-51) has no     *)
(* such word on its command line, and nobody sees it.  The guard, one step *)
(* in ClientSync, is taken apart here.                                     *)
(***************************************************************************)
EXTENDS ClientSync

CONSTANTS
  Launcher,  \* the processes that are wrappers; the others are plain syncs
  Desktop    \* wrappers with FreeTube's command on their own command lines

ASSUME RunWrapperAssumption ==
  Desktop \subseteq Launcher /\ Launcher \subseteq Proc /\ Proc \cap Install = {}

VARIABLES
  run,    \* run[d][p]: how far wrapper p is, and the install it is for
  check,  \* check[d][p]: the locals of guard.IsSafeToWrite in process p
  (* History: *)
  stirred \* stirred[d][p]: since p listed the processes, FreeTube was started
          \* or another process wrote a database

wrapvars == <<vars, run, check>>

NotRunning  == [phase |-> "none", k |-> Off]
NotChecking == [pc |-> "none", k |-> Off, pids |-> {}]

Phases  == [phase : {"none", "pre", "launch", "wait", "post"}, k : Install \cup {Off}]
Checked == [pc : {"none", "list", "scan"}, k : Install \cup {Off},
            pids : SUBSET (Desktop \cup Install)]

WrapInit ==
  /\ Init
  /\ run = [d \in Device |-> [p \in Proc |-> NotRunning]]
  /\ check = [d \in Device |-> [p \in Proc |-> NotChecking]]
  /\ stirred = [d \in Device |-> [p \in Proc |-> FALSE]]

Phase(d, p, ph) == run[d][p].phase = ph
Enter(d, p, ph) == run' = [run EXCEPT ![d][p].phase = ph]

\* What clientsync.Run is called from: a wrapper's two syncs, or the sync command.
InSync(d, p) == IF p \in Launcher THEN run[d][p].phase \in {"pre", "post"} ELSE TRUE

\* The checks, of which process p has begun or ended one.
Checks(d, p, c) == check' = [check EXCEPT ![d][p] = c]

\* What exits is not found any more by a check that has it on its list.
Exits(d, x) ==
  check' = [check EXCEPT ![d] =
              [q \in Proc |-> IF q = x THEN NotChecking
                              ELSE [check[d][q] EXCEPT !.pids = @ \ {x}]]]

\* Mistake: the next run inherits the install of the last.
MistakeKeepsInstall(d, p) == Enter(d, p, "none") /\ Exits(d, p)

Ends(d, p) == run' = [run EXCEPT ![d][p] = NotRunning] /\ Exits(d, p)

\* clientsync.Run has returned no error: on to the launch, or done.
Proceed(d, p) ==
  IF Phase(d, p, "pre") THEN Enter(d, p, "launch") /\ Checks(d, p, NotChecking)
  ELSE IF Phase(d, p, "post") THEN Ends(d, p)
  ELSE UNCHANGED run /\ Checks(d, p, NotChecking)

-----------------------------------------------------------------------------
StartWrapper(d, p, k) ==
  /\ p \in Launcher /\ Phase(d, p, "none")
  /\ run' = [run EXCEPT ![d][p] = [phase |-> "pre", k |-> k]]
  /\ UNCHANGED <<vars, check>>

(***************************************************************************)
(* guard.IsSafeToWrite: the lock file first, then the directory of /proc,  *)
(* then one command line after another.  A process that is on the list is  *)
(* found, unless it exits before its turn.                                 *)
(***************************************************************************)
CheckLock(d, p, k) ==
  /\ InSync(d, p) /\ sync[d][p].pc = "idle" /\ check[d][p].pc = "none"
  /\ p \in Launcher => k = run[d][p].k
  /\ IF LockfilePresent(d, k) THEN Proceed(d, p)
     ELSE Checks(d, p, [NotChecking EXCEPT !.pc = "list", !.k = k]) /\ UNCHANGED run
  /\ UNCHANGED vars

\* Mistake: a freetube-sync process does not match.
MistakeMatchesNoWrapper(d, p) == {ft[d]} \ {Off}

\* Mistake: FreeTube itself does not match.
MistakeMatchesNoFreeTube(d, p) == {q \in Desktop \ {p} : ~ Phase(d, q, "none")}

\* processMatches holds for FreeTube and for a wrapper with its command on the
\* command line; a process leaves out itself.
Matching(d, p) ==
  {q \in Desktop \ {p} : ~ Phase(d, q, "none")} \cup ({ft[d]} \ {Off})

ListProcesses(d, p) ==
  /\ check[d][p].pc = "list"
  /\ Checks(d, p, [check[d][p] EXCEPT !.pc = "scan", !.pids = Matching(d, p)])
  /\ UNCHANGED <<vars, run>>

SyncSkipped(d, p) ==
  /\ check[d][p].pc = "scan" /\ check[d][p].pids # {}
  /\ Proceed(d, p)
  /\ UNCHANGED vars

SyncStarts(d, p) ==
  /\ check[d][p].pc = "scan" /\ check[d][p].pids = {}
  /\ sync' = [sync EXCEPT ![d][p].pc = "read", ![d][p].k = check[d][p].k]
  /\ Checks(d, p, NotChecking)
  /\ UNCHANGED <<files, freetube, budget, history, run>>

SyncGoesOn(d, p) ==
  /\ \/ ReadDB(d, p) \/ LoadShadow(d, p) \/ Post(d, p) \/ WriteDB(d, p)
     \/ \E subscribed \in SUBSET Channel : Receive(d, p, subscribed)
  /\ UNCHANGED <<run, check>>

\* Mistake: a server that cannot be reached is an error.
MistakeFailsClosed(d, p) ==
  \/ (SaveShadow(d, p) \/ DryRun(d, p)) /\ Proceed(d, p)
  \/ NetworkFailed(d, p) /\ Ends(d, p)

\* Saved, or the server failed: the wrapper goes on all the same.
SyncEnds(d, p) ==
  /\ SaveShadow(d, p) \/ NetworkFailed(d, p) \/ DryRun(d, p)
  /\ Proceed(d, p)

\* exec of the launch command.  A second FreeTube of an install makes way for
\* the first and exits at once.
Launch(d, p) ==
  /\ Phase(d, p, "launch")
  /\ IF ft[d] = Off
     THEN Starts(d, run[d][p].k) /\ Enter(d, p, "wait") /\ UNCHANGED sync
     ELSE Enter(d, p, "post") /\ UNCHANGED vars
  /\ UNCHANGED check

\* A wrapper that waits has launched the FreeTube that runs (Launch), and goes on
\* when it has ended, in whatever way.
Exited(d) ==
  run' = [run EXCEPT ![d] = [p \in Proc |->
            IF Phase(d, p, "wait") THEN [run[d][p] EXCEPT !.phase = "post"]
            ELSE run[d][p]]]

\* A local error of a sync ends the wrapper; so does a kill.
SyncFails(d, p) ==
  /\ Abort(d, p)
  /\ Ends(d, p)

\* Outside a cycle: the guard's own error, a launch command that cannot be
\* started, a kill.  A FreeTube that it launched runs on.
WrapperFails(d, p) ==
  /\ ~ Phase(d, p, "none") /\ sync[d][p].pc = "idle"
  /\ faults < MaxFaults /\ faults' = faults + 1
  /\ Ends(d, p)
  /\ UNCHANGED <<files, freetube, sync, toggles, history>>

-----------------------------------------------------------------------------
\* What process p does of its own accord, once started.
ProcessStep(d, p) ==
  \/ \E k \in Install : CheckLock(d, p, k)
  \/ ListProcesses(d, p) \/ SyncSkipped(d, p) \/ SyncStarts(d, p)
  \/ SyncGoesOn(d, p) \/ SyncEnds(d, p)
  \/ Launch(d, p)

\* FreeTube on its own; see FreeTubeMayRace.  What its user changes meanwhile is
\* left out: databases and replies are arbitrary.
FreeTubeActs(d) ==
  \/ /\ \E k \in Install : Open(d, k)
     /\ FreeTubeMayRace \/ \A p \in Proc : check[d][p].pc = "none"
     /\ UNCHANGED <<run, check>>
  \/ (Close(d) \/ Die(d)) /\ Exits(d, ft[d]) /\ Exited(d)

\* Process p has listed the processes and is yet to write.
Committed(d, p) == check[d][p].pc = "scan" \/ sync[d][p].pc \notin {"idle", "save"}

\* What a step does behind the back of process p.
Disturbs(d, p) ==
  \/ ft[d] = Off /\ ft'[d] # Off
  \/ \E q \in Proc \ {p} : sync[d][q].pc = "write" /\ sync'[d][q].pc = "save"

WrapNext ==
  /\ \E d \in Device :
       \/ FreeTubeActs(d)
       \/ \E p \in Proc :
            \/ \E k \in Install : StartWrapper(d, p, k)
            \/ ProcessStep(d, p) \/ SyncFails(d, p) \/ WrapperFails(d, p)
  /\ stirred' = [d \in Device |-> [p \in Proc |->
                   Committed(d, p)' /\ (stirred[d][p] \/ Disturbs(d, p))]]

(***************************************************************************)
(* A process that runs goes on; the HTTP client's timeout ends every wait  *)
(* for the server (wire.go:49, clientsync.go:44).                          *)
(***************************************************************************)
WrapFairness == \A d \in Device, p \in Launcher : WF_wrapvars(ProcessStep(d, p))

WrapSpec == WrapInit /\ [][WrapNext]_<<wrapvars, stirred>> /\ WrapFairness

-----------------------------------------------------------------------------
(* The wrappers' phases keep their types, and cycles run where they may. *)
WrapTypeOK ==
  /\ TypeOK
  /\ run \in [Device -> [Proc -> Phases]]
  /\ \A d \in Device, p \in Proc :
       /\ run[d][p].k = Off <=> run[d][p].phase = "none"
       /\ sync[d][p].pc # "idle" => InSync(d, p) /\ check[d][p] = NotChecking
  /\ check \in [Device -> [Proc -> Checked]]
  /\ stirred \in [Device -> [Proc -> BOOLEAN]]

(***************************************************************************)
(* guard.go:58-66, 104-114: the guard excludes its own process only.  So   *)
(* wrappers that the desktop entry runs exclude each other, however their  *)
(* scans of /proc overlap: two of them are never both between guard and    *)
(* shadow.Save, where they would mix each other's database and shadow.     *)
(* (Plain syncs and wrappers without a command line of FreeTube's are seen *)
(* by nobody.)                                                             *)
(***************************************************************************)
OneWrapperSyncs ==
  \A d \in Device : \A p, q \in Desktop :
    p # q => sync[d][p].pc = "idle" \/ sync[d][q].pc = "idle"

(***************************************************************************)
(* guard.go:48-66, clientsync.go:85-127: the guard looks once, at the lock *)
(* file and then at the processes, and the cycle reads, asks the server    *)
(* and writes long after.  Only what happens behind its back, a FreeTube   *)
(* started or another sync's write after it listed the processes, can make *)
(* it write under FreeTube or over something it has not read: whatever     *)
(* FreeTube, other wrappers and syncs did before, one after the other or   *)
(* between the guard's two looks, is found, or is over and read.           *)
(***************************************************************************)
UndisturbedSyncIsSafe ==
  [][\A d \in Device, p \in Proc : WriteDB(d, p) =>
       \/ stirred[d][p]
       \/ ft[d] = Off /\ db[d][sync[d][p].k] = sync[d][p].cur]_vars

(***************************************************************************)
(* runner.go:1-6: nothing but a genuine local error keeps FreeTube from    *)
(* being launched; in particular no guard, no other wrapper and no server. *)
(***************************************************************************)
LaunchedUnlessLocalError ==
  \A d \in Device, p \in Launcher :
    Phase(d, p, "pre") ~> (Phase(d, p, "wait") \/ Phase(d, p, "post") \/ faults > 0)
=============================================================================

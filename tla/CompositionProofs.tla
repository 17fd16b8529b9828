-------------------------- MODULE CompositionProofs -------------------------
(***************************************************************************)
(* The two modules that put the cycles of ClientSync into surroundings:    *)
(* RunWrapper, with the run command's wrappers, and SyncSystem, with the   *)
(* server and the network.                                                 *)
(*                                                                         *)
(* Wrappers that can be found exclude each other, for any number of        *)
(* wrappers, timers, devices and faults.  The argument is that of a flag   *)
(* raised before the other's is read: a wrapper can be found from its      *)
(* start, and looks for others only then.  Of two that run, the one that   *)
(* lists later finds the other, and goes on finding it until that one has  *)
(* exited.  A process that cannot be found, a timer's or a bare wrapper's, *)
(* is not covered; what holds of every sync is less: one that nobody       *)
(* disturbed, since it was alone with a closed FreeTube, writes while      *)
(* FreeTube is closed.                                                     *)
(*                                                                         *)
(* A sync keeps what its user changed: the batch a cycle waits for says    *)
(* what the cycle read, and whatever the server applies between stamping   *)
(* and applying it is older, says nothing opposite, or has overruled it.   *)
(* And nothing that was changed is forgotten: until the server has it, the *)
(* database differs from the shadow.                                       *)
(***************************************************************************)
EXTENDS RunWrapper, SyncSystem, ClientSyncProofs, LWWTheorems

(* A check is under way in a process that may sync, for an install. *)
CheckInv ==
  \A d \in Device, p \in Proc :
    check[d][p].pc # "none" => InSync(d, p) /\ check[d][p].k \in Install

(* Wrapper p has listed the processes, or is past that, without finding q. *)
Unseen(d, p, q) ==
  \/ check[d][p].pc = "scan" /\ q \notin check[d][p].pids
  \/ sync[d][p].pc # "idle"

ExcludeInv ==
  \A d \in Device : \A p, q \in Desktop :
    p # q => ~ (Unseen(d, p, q) /\ Unseen(d, q, p))

\* WrapTypeOK without the history.
RunTypes ==
  /\ TypeOK
  /\ run \in [Device -> [Proc -> Phases]]
  /\ \A d \in Device, p \in Proc :
       /\ run[d][p].k = Off <=> run[d][p].phase = "none"
       /\ sync[d][p].pc # "idle" => InSync(d, p) /\ check[d][p] = NotChecking
  /\ check \in [Device -> [Proc -> Checked]]

WrapInv == RunTypes /\ CheckInv /\ ExcludeInv

-----------------------------------------------------------------------------
(* The locals of wrappers and checks at rest are typed. *)
LEMMA RestType ==
  /\ NotRunning \in Phases /\ NotRunning.phase = "none" /\ NotRunning.k = Off
  /\ NotChecking \in Checked /\ NotChecking.pc = "none" /\ NotChecking.pids = {}
BY DEF NotRunning, NotChecking, Phases, Checked

(* Something that exits is gone from a list, and nothing else is. *)
LEMMA LessOne ==
  ASSUME NEW c \in Checked, NEW x
  PROVE  /\ [c EXCEPT !.pids = @ \ {x}] \in Checked
         /\ [c EXCEPT !.pids = @ \ {x}].pc = c.pc
         /\ [c EXCEPT !.pids = @ \ {x}].k = c.k
         /\ [c EXCEPT !.pids = @ \ {x}].pids = c.pids \ {x}
         /\ c = NotChecking => [c EXCEPT !.pids = @ \ {x}] = NotChecking
<1>1. /\ [c EXCEPT !.pids = @ \ {x}] \in Checked
      /\ [c EXCEPT !.pids = @ \ {x}].pc = c.pc
      /\ [c EXCEPT !.pids = @ \ {x}].k = c.k
      /\ [c EXCEPT !.pids = @ \ {x}].pids = c.pids \ {x}
  BY DEF Checked
<1>2. ASSUME c = NotChecking
      PROVE  [c EXCEPT !.pids = @ \ {x}] = NotChecking
  BY <1>1, <1>2 DEF NotChecking, Checked
<1> QED BY <1>1, <1>2

(* runner.go:44-47: what exits is taken off the lists of its device. *)
LEMMA ExitsSet ==
  ASSUME RunTypes, NEW d \in Device, NEW x, Exits(d, x)
  PROVE  /\ check' \in [Device -> [Proc -> Checked]]
         /\ \A e \in Device \ {d}, q \in Proc : check'[e][q] = check[e][q]
         /\ \A q \in Proc : check'[d][q] = IF q = x THEN NotChecking
                                           ELSE [check[d][q] EXCEPT !.pids = @ \ {x}]
<1>1. check \in [Device -> [Proc -> Checked]]
  BY DEF RunTypes
<1>2. ASSUME NEW q \in Proc PROVE [check[d][q] EXCEPT !.pids = @ \ {x}] \in Checked
  <2>1. check[d][q] \in Checked
    BY <1>1
  <2> QED BY <2>1, LessOne
<1> DEFINE new == [q \in Proc |-> IF q = x THEN NotChecking
                                  ELSE [check[d][q] EXCEPT !.pids = @ \ {x}]]
<1>3. new \in [Proc -> Checked]
  BY <1>2, RestType
<1>4. check' = [check EXCEPT ![d] = new]
  BY <1>1 DEF Exits
<1> HIDE DEF new
<1>5. check' \in [Device -> [Proc -> Checked]] /\ check'[d] = new
      /\ \A e \in Device \ {d} : check'[e] = check[e]
  BY <1>1, <1>3, <1>4
<1> QED BY <1>5 DEF new

(* guard.go:48-66: a process's check, set by one of its steps. *)
LEMMA ChecksSet ==
  ASSUME RunTypes, NEW d \in Device, NEW p \in Proc, NEW c \in Checked, Checks(d, p, c)
  PROVE  /\ check' \in [Device -> [Proc -> Checked]] /\ check'[d][p] = c
         /\ \A e \in Device, q \in Proc : e # d \/ q # p => check'[e][q] = check[e][q]
<1> HIDE DEF Checked
<1> QED BY DEF RunTypes, Checks

(* runner.go:38-95: a wrapper's phase, set by one of its steps. *)
LEMMA RunSet ==
  ASSUME RunTypes, NEW d \in Device, NEW p \in Proc, NEW r \in Phases,
         run' = [run EXCEPT ![d][p] = r]
  PROVE  /\ run' \in [Device -> [Proc -> Phases]] /\ run'[d][p] = r
         /\ \A e \in Device, q \in Proc : e # d \/ q # p => run'[e][q] = run[e][q]
<1> HIDE DEF Phases
<1> QED BY DEF RunTypes

(* A step of process p leaves the others as they are, if it does not end   *)
(* and is taken off their lists.                                           *)
OthersStay(d, p) ==
  \A e \in Device, q \in Proc : e # d \/ q # p =>
    /\ run'[e][q] = run[e][q]
    /\ \/ check'[e][q] = check[e][q]
       \/ /\ e = d /\ run'[d][p].phase = "none"
          /\ check'[e][q] = [check[e][q] EXCEPT !.pids = @ \ {p}]

(* runner.go:44-95: a running wrapper enters another phase. *)
LEMMA EnterSet ==
  ASSUME RunTypes, NEW d \in Device, NEW p \in Proc,
         NEW ph \in {"launch", "wait", "post"}, ~ Phase(d, p, "none"), Enter(d, p, ph)
  PROVE  /\ run' \in [Device -> [Proc -> Phases]]
         /\ run'[d][p].phase = ph /\ run'[d][p].k \in Install
         /\ \A e \in Device, q \in Proc : e # d \/ q # p => run'[e][q] = run[e][q]
<1> DEFINE r == [run[d][p] EXCEPT !.phase = ph]
<1>1. run[d][p] \in Phases /\ run[d][p].k # Off
  BY DEF RunTypes, Phase
<1>2. r \in Phases /\ r.phase = ph /\ r.k \in Install
  BY <1>1 DEF Phases
<1>3. run' = [run EXCEPT ![d][p] = r]
  BY DEF Enter, RunTypes
<1> HIDE DEF r
<1> QED BY <1>2, <1>3, RunSet

(* runner.go:44-47: a wrapper ends. *)
LEMMA EndsSet ==
  ASSUME RunTypes, NEW d \in Device, NEW p \in Proc, Ends(d, p)
  PROVE  /\ run' \in [Device -> [Proc -> Phases]] /\ run'[d][p] = NotRunning
         /\ check' \in [Device -> [Proc -> Checked]] /\ check'[d][p] = NotChecking
         /\ OthersStay(d, p)
<1>1. /\ run' \in [Device -> [Proc -> Phases]] /\ run'[d][p] = NotRunning
      /\ \A e \in Device, q \in Proc : e # d \/ q # p => run'[e][q] = run[e][q]
  BY RestType, RunSet DEF Ends
<1>2. /\ check' \in [Device -> [Proc -> Checked]]
      /\ \A e \in Device \ {d}, q \in Proc : check'[e][q] = check[e][q]
      /\ \A q \in Proc : check'[d][q] = IF q = p THEN NotChecking
                                        ELSE [check[d][q] EXCEPT !.pids = @ \ {p}]
  BY ExitsSet DEF Ends
<1> QED BY <1>1, <1>2, RestType DEF OthersStay

(* runner.go:44-95: what follows a sync without an error. *)
LEMMA ProceedSet ==
  ASSUME RunTypes, NEW d \in Device, NEW p \in Proc, Proceed(d, p)
  PROVE  /\ run' \in [Device -> [Proc -> Phases]]
         /\ run'[d][p].k = Off <=> run'[d][p].phase = "none"
         /\ check' \in [Device -> [Proc -> Checked]] /\ check'[d][p] = NotChecking
         /\ OthersStay(d, p)
<1>1. CASE Phase(d, p, "pre")
  <2>1. Enter(d, p, "launch") /\ Checks(d, p, NotChecking) /\ ~ Phase(d, p, "none")
    BY <1>1 DEF Proceed, Phase
  <2> QED BY <2>1, EnterSet, ChecksSet, RestType, ClientSyncAssumption DEF OthersStay
<1>2. CASE Phase(d, p, "post")
  <2>1. Ends(d, p)
    BY <1>2 DEF Proceed, Phase
  <2> QED BY <2>1, EndsSet, RestType
<1>3. CASE ~ Phase(d, p, "pre") /\ ~ Phase(d, p, "post")
  <2>1. run' = run /\ Checks(d, p, NotChecking)
    BY <1>3 DEF Proceed
  <2> QED BY <2>1, ChecksSet, RestType DEF OthersStay, RunTypes
<1> QED BY <1>1, <1>2, <1>3

-----------------------------------------------------------------------------
(* What a step of process p makes of its own phase, check and locals. *)
OwnState(d, p) ==
  /\ run'[d][p].k = Off <=> run'[d][p].phase = "none"
  /\ sync'[d][p].pc # "idle" => InSync(d, p)' /\ check'[d][p] = NotChecking
  /\ check'[d][p].pc # "none" => InSync(d, p)' /\ check'[d][p].k \in Install
  /\ \A q \in Desktop \ {p} :
       Unseen(d, p, q)' => Unseen(d, p, q) \/ Phase(d, q, "none")

StepTypes ==
  /\ TypeOK'
  /\ run' \in [Device -> [Proc -> Phases]] /\ check' \in [Device -> [Proc -> Checked]]

OthersSync(d, p) ==
  \A e \in Device, q \in Proc : e # d \/ q # p => sync'[e][q] = sync[e][q]

(* A wrapper that is past its list runs. *)
LEMMA UnseenRuns ==
  ASSUME RunTypes, CheckInv, NEW d \in Device, NEW p \in Desktop, NEW q, Unseen(d, p, q)
  PROVE  ~ Phase(d, p, "none")
BY RunWrapperAssumption DEF Unseen, RunTypes, CheckInv, InSync, Phase

(* guard.go:58-66: a step that leaves the others alone, and misses nobody  *)
(* who runs, keeps wrappers apart.                                         *)
LEMMA OwnStep ==
  ASSUME WrapInv, NEW d \in Device, NEW p \in Proc,
         StepTypes, OthersStay(d, p), OthersSync(d, p), OwnState(d, p)
  PROVE  WrapInv'
<1>a. RunTypes /\ CheckInv /\ ExcludeInv
  BY DEF WrapInv
<1>1. ASSUME NEW e \in Device, NEW q \in Proc, e # d \/ q # p
      PROVE  /\ run'[e][q] = run[e][q] /\ sync'[e][q] = sync[e][q]
             /\ check'[e][q].pc = check[e][q].pc /\ check'[e][q].k = check[e][q].k
             /\ check[e][q] = NotChecking => check'[e][q] = NotChecking
             /\ \/ check'[e][q] = check[e][q]
                \/ /\ e = d /\ run'[d][p].phase = "none"
                   /\ check'[e][q].pids = check[e][q].pids \ {p}
  <2>1. check[e][q] \in Checked
    BY <1>a DEF RunTypes
  <2>2. run'[e][q] = run[e][q] /\ sync'[e][q] = sync[e][q]
    BY <1>1 DEF OthersStay, OthersSync
  <2>3. CASE check'[e][q] = check[e][q]
    BY <2>2, <2>3
  <2>4. CASE /\ e = d /\ run'[d][p].phase = "none"
             /\ check'[e][q] = [check[e][q] EXCEPT !.pids = @ \ {p}]
    <3> DEFINE c == check[e][q]
    <3>1. /\ check'[e][q].pc = c.pc /\ check'[e][q].k = c.k
          /\ check'[e][q].pids = c.pids \ {p}
          /\ c = NotChecking => check'[e][q] = NotChecking
      BY <2>1, <2>4, LessOne
    <3> QED BY <2>2, <2>4, <3>1
  <2> QED BY <1>1, <2>3, <2>4 DEF OthersStay
<1>2. RunTypes'
  <2>1. ASSUME NEW e \in Device, NEW q \in Proc
        PROVE  /\ run'[e][q].k = Off <=> run'[e][q].phase = "none"
               /\ sync'[e][q].pc # "idle" => InSync(e, q)' /\ check'[e][q] = NotChecking
    <3>1. CASE e = d /\ q = p
      BY <3>1 DEF OwnState
    <3>2. CASE e # d \/ q # p
      BY <1>1, <1>a, <3>2 DEF RunTypes, InSync
    <3> QED BY <3>1, <3>2
  <2> QED BY <2>1 DEF RunTypes, StepTypes
<1>3. CheckInv'
  <2> SUFFICES ASSUME NEW e \in Device, NEW q \in Proc, check'[e][q].pc # "none"
               PROVE  InSync(e, q)' /\ check'[e][q].k \in Install
    BY DEF CheckInv
  <2>1. CASE e = d /\ q = p
    BY <2>1 DEF OwnState
  <2>2. CASE e # d \/ q # p
    BY <1>1, <1>a, <2>2 DEF CheckInv, InSync
  <2> QED BY <2>1, <2>2
<1>4. ASSUME NEW e \in Device, NEW q \in Desktop, NEW r \in Desktop, q # r,
             e # d \/ q # p, Unseen(e, q, r)'
      PROVE  Unseen(e, q, r) \/ (e = d /\ r = p /\ run'[d][p].phase = "none")
  BY <1>1, <1>4, RunWrapperAssumption DEF Unseen
<1>5. ASSUME NEW r \in Desktop, r # p, p \in Desktop, Unseen(d, p, r)', Unseen(d, r, p)'
      PROVE  FALSE
  <2>1. Unseen(d, p, r) \/ Phase(d, r, "none")
    BY <1>5 DEF OwnState
  <2>2. run'[d][p].phase # "none"
    BY <1>2, <1>3, <1>5, RunWrapperAssumption
       DEF Unseen, RunTypes, CheckInv, InSync
  <2>3. Unseen(d, r, p)
    BY <1>4, <1>5, <2>2
  <2>4. ~ Phase(d, r, "none")
    BY <1>a, <2>3, UnseenRuns
  <2> QED BY <1>5, <1>a, <2>1, <2>3, <2>4 DEF ExcludeInv
<1>6. ExcludeInv'
  <2> SUFFICES ASSUME NEW e \in Device, NEW q \in Desktop, NEW r \in Desktop, q # r,
                      Unseen(e, q, r)', Unseen(e, r, q)'
               PROVE  FALSE
    BY DEF ExcludeInv
  <2>1. CASE e = d /\ (q = p \/ r = p)
    BY <1>5, <2>1
  <2>2. CASE ~ (e = d /\ (q = p \/ r = p))
    BY <1>4, <1>a, <2>2 DEF ExcludeInv
  <2> QED BY <2>1, <2>2
<1> QED BY <1>2, <1>3, <1>6 DEF WrapInv

-----------------------------------------------------------------------------
(* runner.go:38-43: a wrapper starts, and from then on is found. *)
LEMMA StartWrapperInv ==
  ASSUME WrapInv, NEW d \in Device, NEW p \in Proc, NEW k \in Install, StartWrapper(d, p, k)
  PROVE  WrapInv'
<1>a. RunTypes /\ CheckInv
  BY DEF WrapInv
<1> DEFINE r == [phase |-> "pre", k |-> k]
<1>1. r \in Phases /\ r.k # Off /\ r.phase = "pre"
  BY ClientSyncAssumption DEF Phases
<1>2. /\ run' = [run EXCEPT ![d][p] = r] /\ UNCHANGED <<vars, check>>
      /\ p \in Launcher /\ Phase(d, p, "none")
  BY DEF StartWrapper
<1> HIDE DEF r
<1>3. /\ run' \in [Device -> [Proc -> Phases]] /\ run'[d][p] = r
      /\ \A e \in Device, q \in Proc : e # d \/ q # p => run'[e][q] = run[e][q]
  BY <1>1, <1>2, <1>a, RunSet
<1>4. TypeOK' /\ check' = check /\ sync' = sync
  BY <1>2, <1>a, TypeNext DEF RunTypes, vars
<1>5. sync[d][p].pc = "idle" /\ check[d][p].pc = "none"
  BY <1>2, <1>a DEF RunTypes, CheckInv, InSync, Phase
<1>6. OwnState(d, p)
  BY <1>1, <1>3, <1>4, <1>5 DEF OwnState, Unseen
<1>7. StepTypes /\ OthersStay(d, p) /\ OthersSync(d, p)
  BY <1>3, <1>4, <1>a DEF StepTypes, OthersStay, OthersSync, RunTypes
<1> QED BY <1>6, <1>7, OwnStep

(* runner.go:44-95: a process whose sync is over, or was skipped, goes on. *)
LEMMA ProceedInv ==
  ASSUME WrapInv, NEW d \in Device, NEW p \in Proc, Proceed(d, p),
         TypeOK', OthersSync(d, p), sync'[d][p].pc = "idle"
  PROVE  WrapInv'
<1>1. RunTypes
  BY DEF WrapInv
<1>2. OwnState(d, p)
  BY <1>1, ProceedSet, RestType DEF OwnState, Unseen
<1>3. StepTypes /\ OthersStay(d, p)
  BY <1>1, ProceedSet DEF StepTypes
<1> QED BY <1>2, <1>3, OwnStep

(* runner.go:44-47: so does one that ends. *)
LEMMA EndsInv ==
  ASSUME WrapInv, NEW d \in Device, NEW p \in Proc, Ends(d, p),
         TypeOK', OthersSync(d, p), sync'[d][p].pc = "idle"
  PROVE  WrapInv'
<1>1. RunTypes
  BY DEF WrapInv
<1>2. OwnState(d, p)
  BY <1>1, EndsSet, RestType DEF OwnState, Unseen
<1>3. StepTypes /\ OthersStay(d, p)
  BY <1>1, EndsSet DEF StepTypes
<1> QED BY <1>2, <1>3, OwnStep

(* guard.go:48-66: a step of a check that leaves run and sync alone. *)
LEMMA CheckStep ==
  ASSUME WrapInv, NEW d \in Device, NEW p \in Proc, NEW c \in Checked,
         Checks(d, p, c), UNCHANGED <<vars, run>>,
         sync[d][p].pc = "idle", InSync(d, p), c.k \in Install,
         c.pc = "scan" =>
           \A q \in Desktop \ {p} : q \notin c.pids => Phase(d, q, "none")
  PROVE  WrapInv'
<1>a. RunTypes
  BY DEF WrapInv
<1>1. /\ check' \in [Device -> [Proc -> Checked]] /\ check'[d][p] = c
      /\ \A e \in Device, q \in Proc : e # d \/ q # p => check'[e][q] = check[e][q]
  BY <1>a, ChecksSet
<1>2. TypeOK' /\ sync' = sync /\ run' = run
  BY <1>a, TypeNext DEF RunTypes, vars
<1>3. OwnState(d, p)
  BY <1>1, <1>2, <1>a DEF OwnState, Unseen, RunTypes, InSync
<1>4. StepTypes /\ OthersStay(d, p) /\ OthersSync(d, p)
  BY <1>1, <1>2, <1>a DEF StepTypes, OthersStay, OthersSync, RunTypes
<1> QED BY <1>3, <1>4, OwnStep

(* guard.go:48-57: the lock file, first. *)
LEMMA CheckLockInv ==
  ASSUME WrapInv, NEW d \in Device, NEW p \in Proc, NEW k \in Install, CheckLock(d, p, k)
  PROVE  WrapInv'
<1>1. UNCHANGED vars /\ TypeOK' /\ sync' = sync /\ InSync(d, p) /\ sync[d][p].pc = "idle"
  BY TypeNext DEF CheckLock, WrapInv, RunTypes, vars
<1>2. CASE LockfilePresent(d, k)
  BY <1>1, <1>2, ProceedInv DEF CheckLock, OthersSync
<1>3. CASE ~ LockfilePresent(d, k)
  <2> DEFINE c == [NotChecking EXCEPT !.pc = "list", !.k = k]
  <2>1. c \in Checked /\ c.pc = "list" /\ c.k = k
    BY DEF NotChecking, Checked
  <2>2. Checks(d, p, c) /\ UNCHANGED <<vars, run>>
    BY <1>1, <1>3 DEF CheckLock
  <2> QED BY <1>1, <2>1, <2>2, CheckStep
<1> QED BY <1>2, <1>3

(* guard.go:58-66: then the processes; every other wrapper that runs is    *)
(* among them.                                                             *)
LEMMA ListProcessesInv ==
  ASSUME WrapInv, NEW d \in Device, NEW p \in Proc, ListProcesses(d, p)
  PROVE  WrapInv'
<1>a. RunTypes /\ CheckInv
  BY DEF WrapInv
<1> DEFINE c == [check[d][p] EXCEPT !.pc = "scan", !.pids = Matching(d, p)]
<1>1. Checks(d, p, c) /\ UNCHANGED <<vars, run>> /\ check[d][p].pc = "list"
  BY DEF ListProcesses
<1>2. check[d][p] \in Checked /\ ft[d] \in Install \cup {Off}
  BY <1>a DEF RunTypes, TypeOK
<1>3. Matching(d, p) \in SUBSET (Desktop \cup Install)
  BY <1>2 DEF Matching
<1>4. c \in Checked /\ c.pc = "scan" /\ c.pids = Matching(d, p) /\ c.k = check[d][p].k
  BY <1>2, <1>3 DEF Checked
<1>5. InSync(d, p) /\ check[d][p].k \in Install
  BY <1>1, <1>a DEF CheckInv
<1>6. sync[d][p].pc = "idle"
  BY <1>1, <1>a, RestType DEF RunTypes
<1>7. \A q \in Desktop \ {p} : q \notin Matching(d, p) => Phase(d, q, "none")
  BY DEF Matching
<1> HIDE DEF c
<1> QED BY <1>1, <1>4, <1>5, <1>6, <1>7, CheckStep

(* guard.go:64, clientsync.go:66-72: a cycle starts when nobody was found. *)
LEMMA SyncStartsInv ==
  ASSUME WrapInv, NEW d \in Device, NEW p \in Proc, SyncStarts(d, p)
  PROVE  WrapInv'
<1>a. RunTypes /\ CheckInv /\ TypeOK
  BY DEF WrapInv, RunTypes
<1>1. /\ check[d][p].pc = "scan" /\ check[d][p].pids = {}
      /\ PassesGuard(d, p, check[d][p].k) /\ Checks(d, p, NotChecking) /\ run' = run
  BY DEF SyncStarts, PassesGuard
<1>2. InSync(d, p) /\ check[d][p].k \in Install
  BY <1>1, <1>a DEF CheckInv
<1>3. TypeOK' /\ OthersSync(d, p)
  BY <1>1, <1>2, <1>a, CycleType, CycleFrame DEF CycleTakesStep, OthersSync
<1>4. /\ check' \in [Device -> [Proc -> Checked]] /\ check'[d][p] = NotChecking
      /\ \A e \in Device, q \in Proc : e # d \/ q # p => check'[e][q] = check[e][q]
  BY <1>1, <1>a, ChecksSet, RestType
<1>5. OwnState(d, p)
  BY <1>1, <1>2, <1>4, <1>a, RestType DEF OwnState, Unseen, RunTypes, InSync
<1>6. StepTypes /\ OthersStay(d, p)
  BY <1>1, <1>3, <1>4, <1>a DEF StepTypes, OthersStay, RunTypes
<1> QED BY <1>3, <1>5, <1>6, OwnStep

(* clientsync.go:81-130: and goes on. *)
LEMMA SyncGoesOnInv ==
  ASSUME WrapInv, NEW d \in Device, NEW p \in Proc, SyncGoesOn(d, p)
  PROVE  WrapInv'
<1>a. RunTypes /\ CheckInv /\ TypeOK
  BY DEF WrapInv, RunTypes
<1>1. GoesOn(d, p) /\ run' = run /\ check' = check
  BY DEF SyncGoesOn, GoesOn
<1>2. sync[d][p].pc # "idle"
  BY <1>1, <1>a, GoesOnLocals
<1>3. TypeOK' /\ OthersSync(d, p)
  BY <1>1, <1>a, CycleType, CycleFrame DEF CycleTakesStep, OthersSync
<1>4. OwnState(d, p)
  BY <1>1, <1>2, <1>a, RestType DEF OwnState, Unseen, RunTypes, InSync
<1>5. StepTypes /\ OthersStay(d, p)
  BY <1>1, <1>3, <1>a DEF StepTypes, OthersStay, RunTypes
<1> QED BY <1>3, <1>4, <1>5, OwnStep

(* runner.go:44-47, 59-95: a cycle that ends, well or with an error. *)
LEMMA SyncEndsInv ==
  ASSUME WrapInv, NEW d \in Device, NEW p \in Proc, SyncEnds(d, p) \/ SyncFails(d, p)
  PROVE  WrapInv'
<1>a. TypeOK
  BY DEF WrapInv, RunTypes
<1>1. EndsCycle(d, p) /\ (Proceed(d, p) \/ Ends(d, p))
  BY DEF SyncEnds, SyncFails, EndsCycle, GivesUp, DryRun, NetworkFailed
<1>2. TypeOK' /\ OthersSync(d, p) /\ sync'[d][p].pc = "idle"
  BY <1>1, <1>a, CycleType, CycleFrame, EndsLocals, SyncSet, IdleSyncType
     DEF CycleTakesStep, OthersSync
<1> QED BY <1>1, <1>2, ProceedInv, EndsInv

(* runner.go:49-57: FreeTube is launched, or found running. *)
LEMMA LaunchInv ==
  ASSUME WrapInv, NEW d \in Device, NEW p \in Proc, Launch(d, p)
  PROVE  WrapInv'
<1>a. RunTypes /\ CheckInv /\ TypeOK
  BY DEF WrapInv, RunTypes
<1>1. check' = check /\ sync' = sync /\ run[d][p].phase = "launch"
  BY DEF Launch, vars, Phase
<1>2. \E ph \in {"wait", "post"} : Enter(d, p, ph)
  BY DEF Launch
<1>3. /\ run' \in [Device -> [Proc -> Phases]] /\ run'[d][p].k \in Install
      /\ run'[d][p].phase # "none"
      /\ \A e \in Device, q \in Proc : e # d \/ q # p => run'[e][q] = run[e][q]
  BY <1>1, <1>2, <1>a, EnterSet DEF Phase
<1>4. TypeOK'
  <2>1. run[d][p].k \in Install
    BY <1>1, <1>a DEF RunTypes, Phases
  <2>2. (Starts(d, run[d][p].k) /\ UNCHANGED sync) \/ UNCHANGED vars
    BY DEF Launch
  <2> QED BY <1>a, <2>1, <2>2, StartsType, TypeNext
<1>5. OwnState(d, p)
  <2>1. p \in Launcher => sync[d][p].pc = "idle" /\ check[d][p].pc = "none"
    BY <1>1, <1>a DEF RunTypes, CheckInv, InSync
  <2> QED BY <1>1, <1>3, <1>a, <2>1, ClientSyncAssumption
          DEF OwnState, Unseen, RunTypes, CheckInv, InSync
<1>6. StepTypes /\ OthersStay(d, p) /\ OthersSync(d, p)
  BY <1>1, <1>3, <1>4, <1>a DEF StepTypes, OthersStay, OthersSync, RunTypes
<1> QED BY <1>5, <1>6, OwnStep

(* runner.go:44-57: an error, or a kill, outside a cycle. *)
LEMMA WrapperFailsInv ==
  ASSUME WrapInv, NEW d \in Device, NEW p \in Proc, WrapperFails(d, p)
  PROVE  WrapInv'
<1>a. TypeOK
  BY DEF WrapInv, RunTypes
<1>1. faults' \in 0..MaxFaults
  BY <1>a, ClientSyncAssumption DEF WrapperFails, TypeOK
<1>2. TypeOK' /\ sync' = sync
  BY <1>1, <1>a DEF WrapperFails, TypeOK, files, freetube, history
<1> QED BY <1>2, EndsInv DEF WrapperFails, OthersSync

(* runner.go:72-82: wrappers that wait go on, and nothing else of them     *)
(* changes.                                                                *)
LEMMA ExitedSet ==
  ASSUME RunTypes, NEW d \in Device, Exited(d)
  PROVE  /\ run' \in [Device -> [Proc -> Phases]]
         /\ \A e \in Device, q \in Proc :
              /\ run'[e][q].k = run[e][q].k
              /\ run'[e][q].phase = run[e][q].phase
                   \/ (run[e][q].phase = "wait" /\ run'[e][q].phase = "post")
<1> DEFINE new == [p \in Proc |-> IF Phase(d, p, "wait")
                                   THEN [run[d][p] EXCEPT !.phase = "post"] ELSE run[d][p]]
<1>1. ASSUME NEW q \in Proc
      PROVE  /\ new[q] \in Phases /\ new[q].k = run[d][q].k
             /\ new[q].phase = run[d][q].phase
                  \/ (run[d][q].phase = "wait" /\ new[q].phase = "post")
  BY DEF RunTypes, Phases, Phase
<1>2. new \in [Proc -> Phases] /\ run' = [run EXCEPT ![d] = new]
  BY <1>1 DEF Exited
<1> HIDE DEF new
<1>3. /\ run' \in [Device -> [Proc -> Phases]] /\ run'[d] = new
      /\ \A e \in Device \ {d} : run'[e] = run[e]
  BY <1>2 DEF RunTypes
<1> QED BY <1>1, <1>3

(* guard.go:58-66: a FreeTube that exits is taken off the lists; wrappers   *)
(* stay on them.                                                            *)
LEMMA FreeTubeInv ==
  ASSUME WrapInv, NEW d \in Device, FreeTubeActs(d)
  PROVE  WrapInv'
<1>a. RunTypes /\ CheckInv /\ ExcludeInv /\ TypeOK
  BY DEF WrapInv, RunTypes
<1>1. CASE (\E k \in Install : Open(d, k)) /\ UNCHANGED <<run, check>>
  <2>1. TypeOK' /\ sync' = sync
    BY <1>1, <1>a, StartsType DEF Open
  <2> QED BY <1>1, <1>a, <2>1
          DEF WrapInv, RunTypes, CheckInv, ExcludeInv, Unseen, InSync
<1>2. CASE (Close(d) \/ Die(d)) /\ Exits(d, ft[d]) /\ Exited(d)
  <2>1. TypeOK' /\ sync' = sync
    BY <1>2, <1>a, ExitType DEF Close, Die
  <2>0. /\ run' \in [Device -> [Proc -> Phases]]
        /\ \A e \in Device, q \in Proc :
             /\ run'[e][q].k = run[e][q].k
             /\ run'[e][q].phase = run[e][q].phase
                  \/ (run[e][q].phase = "wait" /\ run'[e][q].phase = "post")
    BY <1>2, <1>a, ExitedSet
  <2>2. ft[d] \in Install /\ ft[d] \notin Desktop
    BY <1>2, <1>a, RunWrapperAssumption DEF Close, Die, Gone, TypeOK
  <2>3. /\ check' \in [Device -> [Proc -> Checked]]
        /\ \A e \in Device \ {d}, q \in Proc : check'[e][q] = check[e][q]
        /\ \A q \in Proc : check'[d][q] = IF q = ft[d] THEN NotChecking
                                          ELSE [check[d][q] EXCEPT !.pids = @ \ {ft[d]}]
    BY <1>2, <1>a, ExitsSet
  <2>4. ASSUME NEW e \in Device, NEW q \in Proc
        PROVE  /\ check[e][q] = NotChecking => check'[e][q] = NotChecking
               /\ \/ check'[e][q] = check[e][q]
                  \/ q = ft[d] /\ check'[e][q] = NotChecking
                  \/ /\ check'[e][q].pc = check[e][q].pc /\ check'[e][q].k = check[e][q].k
                     /\ check'[e][q].pids = check[e][q].pids \ {ft[d]}
    <3>1. CASE e # d
      BY <2>3, <3>1
    <3>2. CASE e = d /\ q = ft[d]
      BY <2>3, <3>2
    <3>3. CASE e = d /\ q # ft[d]
      <4> DEFINE c == check[e][q]
      <4>1. c \in Checked /\ check'[e][q] = [c EXCEPT !.pids = @ \ {ft[d]}]
        BY <1>a, <2>3, <3>3 DEF RunTypes
      <4>2. /\ check'[e][q].pc = c.pc /\ check'[e][q].k = c.k
            /\ check'[e][q].pids = c.pids \ {ft[d]}
            /\ c = NotChecking => check'[e][q] = NotChecking
        BY <4>1, LessOne
      <4> QED BY <4>2
    <3> QED BY <3>1, <3>2, <3>3
  <2>5. RunTypes'
    <3> SUFFICES ASSUME NEW e \in Device, NEW q \in Proc
                 PROVE  /\ run'[e][q].k = Off <=> run'[e][q].phase = "none"
                        /\ sync'[e][q].pc # "idle" =>
                             InSync(e, q)' /\ check'[e][q] = NotChecking
      BY <2>0, <2>1, <2>3 DEF RunTypes
    <3>1. run'[e][q].k = Off <=> run'[e][q].phase = "none"
      BY <1>a, <2>0 DEF RunTypes
    <3>2. ASSUME sync'[e][q].pc # "idle" PROVE InSync(e, q)' /\ check'[e][q] = NotChecking
      <4>1. InSync(e, q) /\ check[e][q] = NotChecking
        BY <1>a, <2>1, <3>2 DEF RunTypes
      <4> QED BY <2>0, <2>4, <4>1 DEF InSync
    <3> QED BY <3>1, <3>2
  <2>6. CheckInv'
    BY <1>a, <2>0, <2>1, <2>4, RestType DEF CheckInv, InSync
  <2>7. ASSUME NEW e \in Device, NEW q \in Desktop, NEW r \in Desktop, Unseen(e, q, r)'
        PROVE  Unseen(e, q, r)
    BY <2>1, <2>2, <2>4, <2>7, RunWrapperAssumption DEF Unseen
  <2>8. ExcludeInv'
    BY <1>a, <2>7 DEF ExcludeInv
  <2> QED BY <2>5, <2>6, <2>8 DEF WrapInv
<1> QED BY <1>1, <1>2 DEF FreeTubeActs

-----------------------------------------------------------------------------
(* At the start no wrapper runs. *)
LEMMA InitWrapInv == WrapInit => WrapInv
<1> SUFFICES ASSUME WrapInit PROVE WrapInv
  OBVIOUS
<1>1. TypeOK /\ \A d \in Device, p \in Proc : sync[d][p].pc = "idle"
  BY InitTypeOK, IdleSyncType DEF WrapInit, Init
<1>2. /\ run \in [Device -> [Proc -> Phases]] /\ check \in [Device -> [Proc -> Checked]]
      /\ \A d \in Device, p \in Proc : run[d][p] = NotRunning /\ check[d][p] = NotChecking
  BY RestType DEF WrapInit
<1>3. RunTypes
  BY <1>1, <1>2, RestType DEF RunTypes
<1>4. CheckInv /\ ExcludeInv
  BY <1>1, <1>2, RestType, RunWrapperAssumption DEF CheckInv, ExcludeInv, Unseen
<1> QED BY <1>3, <1>4 DEF WrapInv

(* runner.go:38-95: every step keeps wrappers typed and apart. *)
LEMMA WrapNextInv == WrapInv /\ [WrapNext]_<<wrapvars, stirred>> => WrapInv'
<1> SUFFICES ASSUME WrapInv, [WrapNext]_<<wrapvars, stirred>> PROVE WrapInv'
  OBVIOUS
<1>1. ASSUME NEW d \in Device, NEW p \in Proc, ProcessStep(d, p) PROVE WrapInv'
  <2>1. CASE SyncSkipped(d, p)
    <3>1. sync[d][p].pc = "idle"
      BY <2>1, RestType DEF SyncSkipped, WrapInv, RunTypes
    <3>2. TypeOK' /\ sync' = sync
      BY <2>1, TypeNext DEF SyncSkipped, WrapInv, RunTypes, vars
    <3> QED BY <2>1, <3>1, <3>2, ProceedInv DEF SyncSkipped, OthersSync
  <2> QED BY <1>1, <2>1, CheckLockInv, ListProcessesInv, SyncStartsInv, SyncGoesOnInv,
             SyncEndsInv, LaunchInv DEF ProcessStep
<1>2. ASSUME NEW d \in Device, NEW p \in Proc,
             \/ \E k \in Install : StartWrapper(d, p, k)
             \/ SyncFails(d, p) \/ WrapperFails(d, p)
      PROVE  WrapInv'
  BY <1>2, StartWrapperInv, SyncEndsInv, WrapperFailsInv
<1>3. CASE UNCHANGED <<wrapvars, stirred>>
  <2>1. TypeOK' /\ UNCHANGED <<run, check, sync>>
    BY <1>3, TypeNext DEF wrapvars, WrapInv, RunTypes, vars
  <2> QED BY <2>1 DEF WrapInv, RunTypes, CheckInv, ExcludeInv, Unseen, InSync
<1> QED BY <1>1, <1>2, <1>3, FreeTubeInv DEF WrapNext

(* runner.go:38-95 and guard.go:103-114: in every state checks and cycles are
   typed, and no two wrappers that can be found and are past their check have
   both missed each other in the process list. *)
THEOREM WrapInvariant == WrapSpec => []WrapInv
BY InitWrapInv, WrapNextInv, PTL DEF WrapSpec

(* A wrapper's cycle runs only while the wrapper is in one of its syncs. *)
THEOREM WrapTypeCorrect == WrapSpec => []WrapTypeOK
<1> DEFINE History == stirred \in [Device -> [Proc -> BOOLEAN]]
<1>1. WrapInit => History
  BY DEF WrapInit
<1>2. History /\ [WrapNext]_<<wrapvars, stirred>> => History'
  <2> SUFFICES ASSUME History, WrapNext PROVE History'
    OBVIOUS
  <2>1. ASSUME NEW d \in Device, NEW p \in Proc
        PROVE  (Committed(d, p)' /\ (stirred[d][p] \/ Disturbs(d, p))) \in BOOLEAN
    OBVIOUS
  <2> QED BY <2>1 DEF WrapNext
<1>3. WrapInv /\ History => WrapTypeOK
  BY DEF WrapInv, RunTypes, WrapTypeOK
<1> HIDE DEF History
<1> QED BY <1>1, <1>2, <1>3, InitWrapInv, WrapNextInv, PTL DEF WrapSpec

(* guard.go:58-66, 104-114: no two wrappers that can be found are between  *)
(* guard and shadow.Save at the same time, however many there are, however *)
(* their scans overlap and whoever else syncs.                             *)
THEOREM WrappersExclude == WrapSpec => []OneWrapperSyncs
<1>1. WrapInv => OneWrapperSyncs
  BY DEF WrapInv, ExcludeInv, Unseen, OneWrapperSyncs
<1> QED BY <1>1, WrapInvariant, PTL

-----------------------------------------------------------------------------
(* What is so for a process while nothing happens behind its back: a        *)
(* FreeTube that runs is on its list, none runs during its cycle, and the   *)
(* database is as it has read it.                                           *)
Sees(d, p) ==
  /\ check[d][p].pc = "scan" => ft[d] \in check[d][p].pids \cup {Off}
  /\ sync[d][p].pc \notin {"idle", "save"} => ft[d] = Off
  /\ sync[d][p].pc \in {"load", "post", "wait", "write"} =>
       sync[d][p].cur = db[d][sync[d][p].k]

StirInv == \A d \in Device, p \in Proc : stirred[d][p] \/ Sees(d, p)

\* What process p does, started or not.
ProcessMoves(d, p) ==
  \/ \E k \in Install : StartWrapper(d, p, k)
  \/ ProcessStep(d, p) \/ SyncFails(d, p) \/ WrapperFails(d, p)

(* runner.go:38-95: a process's steps leave the others alone; databases     *)
(* change when it writes, and FreeTube when it launches one.                *)
LEMMA MovesFrame ==
  ASSUME WrapInv, NEW d \in Device, NEW p \in Proc, ProcessMoves(d, p)
  PROVE  /\ OthersStay(d, p) /\ OthersSync(d, p)
         /\ \A e \in Device : \/ ft'[e] = ft[e]
                              \/ e = d /\ ft[d] = Off /\ ft'[d] # Off
         /\ \A e \in Device : \/ db'[e] = db[e]
                              \/ /\ e = d /\ sync[d][p].pc = "write"
                                 /\ sync'[d][p].pc = "save"
<1>a. RunTypes /\ TypeOK /\ CheckInv
  BY DEF WrapInv, RunTypes
<1>1. ASSUME NEW c \in Checked, Checks(d, p, c), run' = run PROVE OthersStay(d, p)
  BY <1>1, <1>a, ChecksSet DEF OthersStay
<1>2. Proceed(d, p) \/ Ends(d, p) => OthersStay(d, p)
  BY <1>a, ProceedSet, EndsSet
<1>3. CASE (\E k \in Install : CheckLock(d, p, k)) \/ ListProcesses(d, p) \/ SyncSkipped(d, p)
  <2>1. UNCHANGED <<ft, db, sync>>
    BY <1>3 DEF CheckLock, ListProcesses, SyncSkipped, vars
  <2>2. CASE ListProcesses(d, p)
    <3>1. check[d][p] \in Checked /\ Matching(d, p) \in SUBSET (Desktop \cup Install)
      BY <1>a DEF RunTypes, TypeOK, Matching
    <3>2. [check[d][p] EXCEPT !.pc = "scan", !.pids = Matching(d, p)] \in Checked
      BY <3>1 DEF Checked
    <3> QED BY <1>1, <2>1, <2>2, <3>2 DEF ListProcesses, OthersSync
  <2>3. ASSUME NEW k \in Install, CheckLock(d, p, k) PROVE OthersStay(d, p)
    <3>1. [NotChecking EXCEPT !.pc = "list", !.k = k] \in Checked
      BY DEF NotChecking, Checked
    <3> QED BY <1>1, <1>2, <2>3, <3>1 DEF CheckLock
  <2> QED BY <1>2, <1>3, <2>1, <2>2, <2>3 DEF SyncSkipped, OthersSync
<1>4. CASE SyncStarts(d, p) \/ SyncGoesOn(d, p) \/ SyncEnds(d, p) \/ SyncFails(d, p)
  <2>1. CycleTakesStep(d, p)
    BY <1>4, <1>a DEF SyncStarts, SyncGoesOn, SyncEnds, SyncFails, CheckInv, CycleTakesStep,
                      PassesGuard, GoesOn, EndsCycle, GivesUp, DryRun, NetworkFailed
  <2>2. OthersSync(d, p) /\ ft' = ft /\ \A e \in Device \ {d} : db'[e] = db[e]
    BY <1>a, <2>1, CycleFrame DEF OthersSync
  <2>3. db'[d] = db[d] \/ (sync[d][p].pc = "write" /\ sync'[d][p].pc = "save")
    <3>1. CASE WriteDB(d, p)
      <4>1. SetsLocals(d, p, [sync[d][p] EXCEPT !.pc = "save"])
        BY <1>a, <3>1, WriteLocals
      <4>2. sync[d][p] \in SyncLocals /\ sync'[d][p] = [sync[d][p] EXCEPT !.pc = "save"]
        BY <1>a, <4>1, SyncSet DEF TypeOK
      <4> QED BY <3>1, <4>2 DEF WriteDB, SyncLocals
    <3>2. CASE ~ WriteDB(d, p)
      BY <2>1, <3>2 DEF CycleTakesStep, PassesGuard, GoesOn, EndsCycle, GivesUp, Abort,
                        ReadDB, LoadShadow, Post, Receive, SaveShadow, files
    <3> QED BY <3>1, <3>2
  <2>4. OthersStay(d, p)
    <3>1. CASE SyncStarts(d, p)
      BY <1>1, <3>1, RestType DEF SyncStarts
    <3>2. CASE SyncGoesOn(d, p)
      BY <3>2 DEF SyncGoesOn, OthersStay
    <3> QED BY <1>2, <1>4, <3>1, <3>2 DEF SyncEnds, SyncFails
  <2> QED BY <2>2, <2>3, <2>4
<1>5. CASE Launch(d, p)
  <2>1. check' = check /\ sync' = sync /\ db' = db
    BY <1>5 DEF Launch, Starts, vars, files
  <2>2. (\E ph \in {"wait", "post"} : Enter(d, p, ph)) /\ ~ Phase(d, p, "none")
    BY <1>5 DEF Launch, Phase
  <2>3. OthersStay(d, p)
    BY <1>a, <2>1, <2>2, EnterSet DEF OthersStay
  <2>4. \A e \in Device : ft'[e] = ft[e] \/ (e = d /\ ft[d] = Off /\ ft'[d] # Off)
    <3>1. run[d][p].k \in Install
      BY <1>a, <2>2 DEF RunTypes, Phases, Phase
    <3> QED BY <1>5, <1>a, <3>1, ClientSyncAssumption DEF Launch, Starts, vars, TypeOK
  <2> QED BY <2>1, <2>3, <2>4 DEF OthersSync
<1>6. CASE (\E k \in Install : StartWrapper(d, p, k)) \/ WrapperFails(d, p)
  <2>1. UNCHANGED <<ft, db, sync>>
    BY <1>6 DEF StartWrapper, WrapperFails, vars, files, freetube
  <2>2. OthersStay(d, p)
    BY <1>2, <1>6, <1>a DEF StartWrapper, WrapperFails, OthersStay, RunTypes
  <2> QED BY <2>1, <2>2 DEF OthersSync
<1> QED BY <1>3, <1>4, <1>5, <1>6 DEF ProcessMoves, ProcessStep

(* guard.go:58-66: a process that does nothing sees what it saw, unless     *)
(* FreeTube starts or the database is written.                              *)
LEMMA SeesStays ==
  ASSUME NEW d \in Device, NEW p \in Proc, Sees(d, p), sync'[d][p] = sync[d][p],
         db'[d] = db[d], ft'[d] \in {ft[d], Off},
         \/ check'[d][p].pc # "scan" \/ check'[d][p] = check[d][p]
         \/ /\ check'[d][p].pc = check[d][p].pc
            /\ \E x : /\ x # ft'[d] \/ ft'[d] = Off
                      /\ check'[d][p].pids = check[d][p].pids \ {x}
  PROVE  Sees(d, p)'
BY DEF Sees

(* guard.go:48-66, clientsync.go:81-127: a process lists a FreeTube that    *)
(* runs, begins when none does, and reads what it diffs.                    *)
LEMMA SeesOwn ==
  ASSUME WrapInv, NEW d \in Device, NEW p \in Proc, ProcessMoves(d, p), Sees(d, p),
         Committed(d, p)', ~ (ft[d] = Off /\ ft'[d] # Off)
  PROVE  Sees(d, p)'
<1>a. RunTypes /\ TypeOK /\ CheckInv
  BY DEF WrapInv, RunTypes
<1>0. check[d][p] \in Checked /\ ft[d] \in Install \cup {Off} /\ sync[d][p] \in SyncLocals
  BY <1>a DEF RunTypes, TypeOK
<1>1. Proceed(d, p) \/ Ends(d, p) => check'[d][p].pc # "scan"
  BY <1>a, ProceedSet, EndsSet, RestType
<1>2. ASSUME sync'[d][p].pc = "idle" PROVE ~ (Proceed(d, p) \/ Ends(d, p))
  BY <1>1, <1>2 DEF Committed
<1>3. ASSUME NEW k \in Install, CheckLock(d, p, k) PROVE FALSE
  <2>1. sync'[d][p].pc = "idle"
    BY <1>3 DEF CheckLock, vars
  <2>2. [NotChecking EXCEPT !.pc = "list", !.k = k] \in Checked
        /\ [NotChecking EXCEPT !.pc = "list", !.k = k].pc = "list"
    BY DEF NotChecking, Checked
  <2>3. check'[d][p].pc = "list"
    BY <1>2, <1>3, <1>a, <2>1, <2>2, ChecksSet DEF CheckLock
  <2> QED BY <2>1, <2>3 DEF Committed
<1>4. CASE ListProcesses(d, p)
  <2>1. Matching(d, p) \in SUBSET (Desktop \cup Install) /\ ft[d] \in Matching(d, p) \cup {Off}
    BY <1>0 DEF Matching
  <2> DEFINE c == [check[d][p] EXCEPT !.pc = "scan", !.pids = Matching(d, p)]
  <2>2. c \in Checked /\ c.pids = Matching(d, p)
    BY <1>0, <2>1 DEF Checked
  <2>3. Checks(d, p, c) /\ UNCHANGED <<ft, sync, db>> /\ sync[d][p].pc = "idle"
    BY <1>4, <1>a, RestType DEF ListProcesses, vars, RunTypes
  <2> HIDE DEF c
  <2>4. check'[d][p] = c
    BY <1>a, <2>2, <2>3, ChecksSet
  <2> QED BY <2>1, <2>2, <2>3, <2>4 DEF Sees
<1>5. CASE SyncStarts(d, p)
  <2>1. ft[d] = Off /\ UNCHANGED <<ft, db>>
    BY <1>5 DEF SyncStarts, Sees, freetube, files
  <2>2. check'[d][p] = NotChecking
    BY <1>5, <1>a, ChecksSet, RestType DEF SyncStarts
  <2>3. sync'[d][p].pc = "read"
    <3>1. PassesGuard(d, p, check[d][p].k) /\ check[d][p].k \in Install
      BY <1>5, <1>a DEF SyncStarts, PassesGuard, CheckInv
    <3>2. sync'[d][p] = [sync[d][p] EXCEPT !.pc = "read", !.k = check[d][p].k]
      BY <1>a, <3>1, GuardLocals, SyncSet DEF PassesGuard
    <3> QED BY <1>0, <3>2 DEF SyncLocals
  <2> QED BY <2>1, <2>2, <2>3, RestType DEF Sees
<1>6. CASE SyncGoesOn(d, p)
  <2>1. GoesOn(d, p) /\ check' = check /\ ft' = ft
    BY <1>6 DEF SyncGoesOn, GoesOn, ReadDB, LoadShadow, Post, Receive, WriteDB, freetube
  <2>2. sync[d][p].pc \notin {"idle", "save"} /\ check[d][p].pc # "scan"
    BY <1>a, <2>1, RestType DEF GoesOn, ReadDB, LoadShadow, Post, Receive, WriteDB, RunTypes
  <2>3. ~ WriteDB(d, p)
    <3>1. ASSUME WriteDB(d, p) PROVE FALSE
      <4>1. SetsLocals(d, p, [sync[d][p] EXCEPT !.pc = "save"])
        BY <1>a, <3>1, WriteLocals
      <4>2. sync'[d][p].pc = "save"
        BY <1>0, <1>a, <4>1, SyncSet DEF SyncLocals
      <4> QED BY <2>1, <2>2, <4>2 DEF Committed
    <3> QED BY <3>1
  <2>4. db' = db
    BY <2>1, <2>3 DEF GoesOn, ReadDB, LoadShadow, Post, Receive, files
  <2>5. sync'[d][p].pc = "read" \/ sync'[d][p].cur = db[d][sync'[d][p].k]
    <3> DEFINE s == sync[d][p]
    <3>1. ASSUME ReadDB(d, p) PROVE sync'[d][p].cur = db[d][sync'[d][p].k]
      <4>1. sync'[d][p] = [s EXCEPT !.pc = "load", !.cur = db[d][s.k]]
        <5>1. SetsLocals(d, p, [s EXCEPT !.pc = "load", !.cur = db[d][s.k]])
          BY <1>a, <3>1, ReadLocals
        <5> QED BY <1>a, <5>1, SyncSet
      <4> QED BY <1>0, <4>1 DEF SyncLocals
    <3>2. ASSUME ~ ReadDB(d, p)
          PROVE  sync'[d][p].cur = s.cur /\ sync'[d][p].k = s.k /\ s.cur = db[d][s.k]
      <4>1. CASE LoadShadow(d, p)
        <5>1. SetsLocals(d, p, [s EXCEPT !.pc = "post", !.snap = shadow[d]])
          BY <1>a, <4>1, ReadLocals
        <5>2. sync'[d][p] = [s EXCEPT !.pc = "post", !.snap = shadow[d]]
          BY <1>a, <5>1, SyncSet
        <5>3. s.pc = "load" /\ s.cur = db[d][s.k]
          BY <4>1 DEF LoadShadow, Sees
        <5> QED BY <1>0, <5>2, <5>3 DEF SyncLocals
      <4>2. CASE Post(d, p)
        <5>1. SetsLocals(d, p, [s EXCEPT !.pc = "wait"])
          BY <1>a, <4>2, WriteLocals
        <5>2. sync'[d][p] = [s EXCEPT !.pc = "wait"]
          BY <1>a, <5>1, SyncSet
        <5>3. s.pc = "post" /\ s.cur = db[d][s.k]
          BY <4>2 DEF Post, Sees
        <5> QED BY <1>0, <5>2, <5>3 DEF SyncLocals
      <4>3. ASSUME NEW R \in SUBSET Channel, Receive(d, p, R)
            PROVE  sync'[d][p].cur = s.cur /\ sync'[d][p].k = s.k /\ s.cur = db[d][s.k]
        <5>1. SetsLocals(d, p, [s EXCEPT !.pc = "write", !.resp = R])
          BY <1>a, <4>3, WriteLocals
        <5>2. sync'[d][p] = [s EXCEPT !.pc = "write", !.resp = R]
          BY <1>a, <5>1, SyncSet
        <5>3. s.pc = "wait" /\ s.cur = db[d][s.k]
          BY <4>3 DEF Receive, Sees
        <5> QED BY <1>0, <5>2, <5>3 DEF SyncLocals
      <4> QED BY <2>1, <2>3, <3>2, <4>1, <4>2, <4>3 DEF GoesOn
    <3> QED BY <3>1, <3>2
  <2>6. ft[d] = Off
    BY <2>2 DEF Sees
  <2> QED BY <2>1, <2>2, <2>4, <2>5, <2>6 DEF Sees
<1>7. CASE SyncEnds(d, p) \/ SyncFails(d, p)
  <2>1. EndsCycle(d, p) /\ (Proceed(d, p) \/ Ends(d, p))
    BY <1>7 DEF SyncEnds, SyncFails, EndsCycle, GivesUp, DryRun, NetworkFailed
  <2>2. sync'[d][p].pc = "idle"
    BY <1>a, <2>1, EndsLocals, SyncSet, IdleSyncType
  <2> QED BY <1>2, <2>1, <2>2
<1>8. CASE SyncSkipped(d, p)
  <2>1. sync'[d][p].pc = "idle"
    BY <1>8, <1>a, RestType DEF SyncSkipped, RunTypes, vars
  <2> QED BY <1>2, <1>8, <2>1 DEF SyncSkipped
<1>9. CASE WrapperFails(d, p)
  BY <1>2, <1>9 DEF WrapperFails
<1>10. CASE (\E k \in Install : StartWrapper(d, p, k)) \/ Launch(d, p)
  <2>1. UNCHANGED <<check, sync, db>>
    BY <1>10 DEF StartWrapper, Launch, Starts, vars, files
  <2>2. ft'[d] = ft[d]
    BY <1>10, MovesFrame
  <2> QED BY <2>1, <2>2, SeesStays
<1> QED BY <1>3, <1>4, <1>5, <1>6, <1>7, <1>8, <1>9, <1>10 DEF ProcessMoves, ProcessStep

(* guard.go:48-66: what process p does, another process does not notice,    *)
(* unless p launches FreeTube or writes a database.                         *)
LEMMA SeesOthers ==
  ASSUME WrapInv, NEW d \in Device, NEW p \in Proc, ProcessMoves(d, p),
         NEW e \in Device, NEW q \in Proc, e # d \/ q # p,
         Sees(e, q), ~ Disturbs(e, q)
  PROVE  Sees(e, q)'
<1>a. RunTypes
  BY DEF WrapInv
<1>1. sync'[e][q] = sync[e][q]
  BY MovesFrame DEF OthersSync
<1>2. ft'[e] = ft[e]
  BY MovesFrame DEF Disturbs
<1>3. db'[e] = db[e]
  BY MovesFrame DEF Disturbs
<1>4. CASE check'[e][q] = check[e][q]
  BY <1>1, <1>2, <1>3, <1>4, SeesStays
<1>5. CASE e = d /\ check'[e][q] = [check[e][q] EXCEPT !.pids = @ \ {p}]
  <2>1. check[e][q] \in Checked
    BY <1>a DEF RunTypes
  <2>2. check'[e][q].pc = check[e][q].pc /\ check'[e][q].pids = check[e][q].pids \ {p}
    BY <1>5, <2>1, LessOne
  <2>3. p # ft'[e] \/ ft'[e] = Off
    BY <1>2, <1>a, RunWrapperAssumption DEF RunTypes, TypeOK
  <2> QED BY <1>1, <1>2, <1>3, <2>2, <2>3, SeesStays
<1>6. \/ check'[e][q] = check[e][q]
      \/ e = d /\ check'[e][q] = [check[e][q] EXCEPT !.pids = @ \ {p}]
  BY MovesFrame DEF OthersStay
<1> QED BY <1>4, <1>5, <1>6

(* A FreeTube that exits is not found any more, and does not run.           *)
LEMMA SeesFreeTube ==
  ASSUME WrapInv, NEW d \in Device, FreeTubeActs(d),
         NEW e \in Device, NEW q \in Proc, Sees(e, q), ~ Disturbs(e, q)
  PROVE  Sees(e, q)'
<1>a. RunTypes /\ TypeOK
  BY DEF WrapInv, RunTypes
<1>1. FreeTubeStep(d) /\ ~ \E c \in Channel : Toggle(d, c)
  <2>1. \A c \in Channel : Toggle(d, c) => ft'[d] = ft[d] /\ ft[d] # Off
    BY DEF Toggle
  <2>2. FreeTubeActs(d) => ft'[d] = Off \/ ft[d] = Off
    BY <1>a DEF FreeTubeActs, Open, Starts, Close, Die, Gone, TypeOK
  <2> QED BY <2>1, <2>2 DEF FreeTubeActs, FreeTubeStep
<1>2. /\ sync' = sync /\ db' = db
      /\ \A g \in Device \ {d} : ft'[g] = ft[g]
  BY <1>1, <1>a, FreeTubeFrame
<1>3. CASE (\E k \in Install : Open(d, k)) /\ UNCHANGED <<run, check>>
  <2>1. ft'[e] = ft[e]
    BY <1>2, <1>3, <1>a, ClientSyncAssumption DEF Open, Starts, Disturbs, TypeOK
  <2> QED BY <1>2, <1>3, <2>1, SeesStays
<1>4. CASE (Close(d) \/ Die(d)) /\ Exits(d, ft[d]) /\ Exited(d)
  <2>1. ft'[d] = Off /\ ft[d] # Off
    BY <1>4, <1>a DEF Close, Die, Gone, TypeOK
  <2>2. /\ \A g \in Device \ {d}, r \in Proc : check'[g][r] = check[g][r]
        /\ \A r \in Proc : check'[d][r] = IF r = ft[d] THEN NotChecking
                                          ELSE [check[d][r] EXCEPT !.pids = @ \ {ft[d]}]
    BY <1>4, <1>a, ExitsSet
  <2>3. CASE e # d
    BY <1>2, <2>2, <2>3, SeesStays
  <2>4. CASE e = d /\ q = ft[d]
    BY <1>2, <2>1, <2>2, <2>4, RestType, SeesStays
  <2>5. CASE e = d /\ q # ft[d]
    <3>1. check[d][q] \in Checked
      BY <1>a DEF RunTypes
    <3> DEFINE c == check[d][q]
    <3>3. check'[d][q] = [c EXCEPT !.pids = @ \ {ft[d]}]
      BY <2>2, <2>5
    <3>2. check'[d][q].pc = c.pc /\ check'[d][q].pids = c.pids \ {ft[d]}
      BY <3>1, <3>3, LessOne
    <3> QED BY <1>2, <2>1, <2>5, <3>2, SeesStays
  <2> QED BY <2>3, <2>4, <2>5
<1> QED BY <1>3, <1>4 DEF FreeTubeActs

(* guard.go:48-66, clientsync.go:85-127: every step keeps it so, and what   *)
(* happens behind a process's back is on record.                            *)
LEMMA StirNext == WrapInv /\ StirInv /\ [WrapNext]_<<wrapvars, stirred>> => StirInv'
<1> SUFFICES ASSUME WrapInv, StirInv, [WrapNext]_<<wrapvars, stirred>>,
                    NEW e \in Device, NEW q \in Proc
             PROVE  stirred'[e][q] \/ Sees(e, q)'
  BY DEF StirInv
<1>1. CASE UNCHANGED <<wrapvars, stirred>>
  <2>1. UNCHANGED <<ft, db, sync, check, stirred>>
    BY <1>1 DEF wrapvars, vars
  <2> QED BY <2>1 DEF StirInv, Sees
<1>2. CASE WrapNext
  <2> SUFFICES ASSUME ~ stirred'[e][q], ~ Sees(e, q)' PROVE FALSE
    OBVIOUS
  <2>1. Committed(e, q)'
    BY DEF Committed, Sees
  <2>2. stirred'[e][q] = (Committed(e, q)' /\ (stirred[e][q] \/ Disturbs(e, q)))
    BY <1>2 DEF WrapNext
  <2>3. ~ stirred[e][q] /\ ~ Disturbs(e, q)
    BY <2>1, <2>2
  <2>4. Sees(e, q)
    BY <2>3 DEF StirInv
  <2>5. PICK d \in Device : FreeTubeActs(d) \/ \E p \in Proc : ProcessMoves(d, p)
    BY <1>2 DEF WrapNext, ProcessMoves
  <2>6. CASE FreeTubeActs(d)
    BY <2>3, <2>4, <2>6, SeesFreeTube
  <2>7. ASSUME NEW p \in Proc, ProcessMoves(d, p) PROVE FALSE
    <3>1. CASE e = d /\ q = p
      BY <2>1, <2>3, <2>4, <2>7, <3>1, SeesOwn DEF Disturbs
    <3>2. CASE e # d \/ q # p
      BY <2>3, <2>4, <2>7, <3>2, SeesOthers
    <3> QED BY <3>1, <3>2
  <2> QED BY <2>5, <2>6, <2>7
<1> QED BY <1>1, <1>2

(* At the start nothing has happened. *)
LEMMA InitStirInv == WrapInit => StirInv
<1> SUFFICES ASSUME WrapInit, NEW d \in Device, NEW p \in Proc PROVE Sees(d, p)
  BY DEF StirInv
<1>1. sync[d][p].pc = "idle" /\ check[d][p].pc = "none"
  BY IdleSyncType, RestType DEF WrapInit, Init
<1> QED BY <1>1 DEF Sees

(* guard.go:48-66, clientsync.go:85-127: a cycle writes under FreeTube, or  *)
(* over something it has not read, only if FreeTube was started or another  *)
(* process wrote since it listed the processes, whoever else runs and       *)
(* whatever happened before.                                                *)
THEOREM UndisturbedIsSafe == WrapSpec => UndisturbedSyncIsSafe
<1>1. StirInv => [\A d \in Device, p \in Proc : WriteDB(d, p) =>
                    \/ stirred[d][p]
                    \/ ft[d] = Off /\ db[d][sync[d][p].k] = sync[d][p].cur]_vars
  BY DEF StirInv, Sees, WriteDB
<1> QED BY <1>1, InitWrapInv, InitStirInv, WrapNextInv, StirNext, PTL
        DEF WrapSpec, UndisturbedSyncIsSafe

-----------------------------------------------------------------------------
(* The requests, and what pairs them with the processes that wait. *)
Requests == [st : {"none", "sent", "stamped", "answered"},
             events : SUBSET Event, at : Nat, reply : SUBSET Channel]

Strays == [device : Device, events : SUBSET Event, at : Nat]

Paired(d, p) == req[d][p].st = "none" <=> sync[d][p].pc # "wait"

(* Server, messages and history, apart from the pairing. *)
NetTypeOK ==
  /\ server \in State /\ clock \in Nat \ {0}
  /\ req \in [Device -> [Proc -> Requests]]
  /\ stray \subseteq Strays
  /\ lost \in 0..MaxLost
  /\ overruled \in [Device -> [Proc -> SUBSET Channel]]
  /\ wanted \subseteq Channel /\ editors \in [Channel -> SUBSET Device]

(* Process p of device d has moved, and no other. *)
OnlyMoves(d, p) ==
  \A e \in Device, q \in Proc : e # d \/ q # p =>
    sync'[e][q] = sync[e][q] /\ req'[e][q] = req[e][q]

(* The types of the system are those three parts, before a step and after. *)
LEMMA SysTypeParts ==
  /\ SysTypeOK <=> TypeOK /\ NetTypeOK /\ \A d \in Device, p \in Proc : Paired(d, p)
  /\ TypeOK' /\ NetTypeOK' /\ (\A d \in Device, p \in Proc : Paired(d, p))' => SysTypeOK'
BY DEF SysTypeOK, NetTypeOK, Paired, Requests, Strays

(* wire.go:28-49: a request that does not exist is typed. *)
LEMMA NoRequestType ==
  /\ NoRequest \in Requests /\ NoRequest.st = "none"
  /\ NoRequest.events = {} /\ NoRequest.at = 0
BY DEF NoRequest, Requests

(* A request of process p becomes r. *)
LEMMA ReqSet ==
  ASSUME NetTypeOK, NEW d \in Device, NEW p \in Proc, NEW r \in Requests,
         req' = [req EXCEPT ![d][p] = r]
  PROVE  /\ req' \in [Device -> [Proc -> Requests]]
         /\ req'[d][p] = r
         /\ \A e \in Device, q \in Proc : e # d \/ q # p => req'[e][q] = req[e][q]
<1> HIDE DEF Requests
<1> QED BY DEF NetTypeOK

-----------------------------------------------------------------------------
(* The actions of the exchange, process by process. *)

(* clientsync.go:84-134: a local step never begins or ends an exchange. *)
LEMMA LocalFacts ==
  ASSUME TypeOK, NEW d \in Device, NEW p \in Proc, LocalStep(d, p)
  PROVE  /\ CycleTakesStep(d, p)
         /\ \/ /\ sync[d][p].pc \in {"idle", "read", "load"}
               /\ sync'[d][p].pc \in {"read", "load", "post"}
               /\ UNCHANGED <<db, shadow, faults>>
            \/ /\ WriteDB(d, p) /\ sync[d][p].pc = "write" /\ sync'[d][p].pc = "save"
               /\ sync'[d][p].resp = sync[d][p].resp
            \/ SaveShadow(d, p) /\ sync[d][p].pc = "save" /\ sync'[d][p] = IdleSync
<1> DEFINE s == sync[d][p]
<1>1. s \in SyncLocals
  BY DEF TypeOK
<1>2. ASSUME NEW k \in Install, Guard(d, p, k)
      PROVE  /\ CycleTakesStep(d, p) /\ s.pc = "idle" /\ sync'[d][p].pc = "read"
             /\ UNCHANGED <<db, shadow, faults>>
  <2>1. PassesGuard(d, p, k) /\ s.pc = "idle"
    BY <1>2, GuardPasses DEF Guard
  <2>2. sync'[d][p] = [s EXCEPT !.pc = "read", !.k = k]
    BY <2>1, GuardLocals, SyncSet DEF PassesGuard
  <2>3. sync'[d][p].pc = "read"
    BY <1>1, <2>2 DEF SyncLocals
  <2> QED BY <2>1, <2>3 DEF CycleTakesStep, PassesGuard, files, budget
<1>3. ASSUME ReadDB(d, p)
      PROVE  /\ s.pc = "read" /\ sync'[d][p].pc = "load"
             /\ UNCHANGED <<db, shadow, faults>>
  <2>1. SetsLocals(d, p, [s EXCEPT !.pc = "load", !.cur = db[d][s.k]])
    BY <1>3, ReadLocals
  <2>2. sync'[d][p] = [s EXCEPT !.pc = "load", !.cur = db[d][s.k]]
    BY <2>1, SyncSet
  <2> QED BY <1>1, <1>3, <2>2 DEF SyncLocals, ReadDB, files, budget
<1>4. ASSUME LoadShadow(d, p)
      PROVE  /\ s.pc = "load" /\ sync'[d][p].pc = "post"
             /\ UNCHANGED <<db, shadow, faults>>
  <2>1. SetsLocals(d, p, [s EXCEPT !.pc = "post", !.snap = shadow[d]])
    BY <1>4, ReadLocals
  <2>2. sync'[d][p] = [s EXCEPT !.pc = "post", !.snap = shadow[d]]
    BY <2>1, SyncSet
  <2> QED BY <1>1, <1>4, <2>2 DEF SyncLocals, LoadShadow, files, budget
<1>5. ASSUME WriteDB(d, p)
      PROVE  /\ s.pc = "write" /\ sync'[d][p].pc = "save"
             /\ sync'[d][p].resp = s.resp
  <2>1. SetsLocals(d, p, [s EXCEPT !.pc = "save"])
    BY <1>5, WriteLocals
  <2>2. sync'[d][p] = [s EXCEPT !.pc = "save"]
    BY <2>1, SyncSet
  <2> QED BY <1>1, <1>5, <2>2 DEF SyncLocals, WriteDB
<1>6. ASSUME SaveShadow(d, p)
      PROVE  EndsCycle(d, p) /\ s.pc = "save" /\ sync'[d][p] = IdleSync
  BY <1>6, EndsLocals, SyncSet DEF EndsCycle, SaveShadow
<1>7. ReadDB(d, p) \/ LoadShadow(d, p) \/ WriteDB(d, p) => CycleTakesStep(d, p)
  BY DEF CycleTakesStep, GoesOn
<1>8. EndsCycle(d, p) => CycleTakesStep(d, p)
  BY DEF CycleTakesStep
<1> QED BY <1>2, <1>3, <1>4, <1>5, <1>6, <1>7, <1>8 DEF LocalStep

(* clientsync.go:170-179: events are of known channels. *)
LEMMA EventsType ==
  ASSUME TypeOK, NEW d \in Device, NEW p \in Proc
  PROVE  /\ buildEvents(d, p) \in SUBSET Event
         /\ \A c \in Channel :
              /\ [channel |-> c, action |-> Add] \in buildEvents(d, p) <=> c \in added(d, p)
              /\ [channel |-> c, action |-> Remove] \in buildEvents(d, p)
                   <=> c \in removed(d, p)
<1>1. sync[d][p].cur \subseteq Channel /\ sync[d][p].snap \subseteq Channel
  BY DEF TypeOK, SyncLocals
<1>2. added(d, p) \subseteq Channel /\ removed(d, p) \subseteq Channel
  BY <1>1 DEF added, removed
<1> QED BY <1>2 DEF buildEvents, Event, Action, Add, Remove

(* wire.go:28-49: a request is sent. *)
LEMMA SendFacts ==
  ASSUME TypeOK, NetTypeOK, NEW d \in Device, NEW p \in Proc, Send(d, p)
  PROVE  /\ CycleTakesStep(d, p) /\ OnlyMoves(d, p)
         /\ sync[d][p].pc = "post" /\ sync'[d][p].pc = "wait"
         /\ sync'[d][p].cur = sync[d][p].cur /\ sync'[d][p].snap = sync[d][p].snap
         /\ req'[d][p].st = "sent" /\ req'[d][p].events = buildEvents(d, p)
         /\ req'[d][p].at = req[d][p].at
         /\ req' \in [Device -> [Proc -> Requests]]
         /\ UNCHANGED <<db, shadow, faults, server, clock, stray, lost, overruled>>
         /\ UNCHANGED wishes
<1> DEFINE s == sync[d][p]
           r == req[d][p]
           n == [r EXCEPT !.st = "sent", !.events = buildEvents(d, p)]
<1>1. s \in SyncLocals /\ r \in Requests /\ Post(d, p)
  BY DEF TypeOK, NetTypeOK, Send
<1>2. CycleTakesStep(d, p) /\ s.pc = "post" /\ SetsLocals(d, p, [s EXCEPT !.pc = "wait"])
  BY <1>1, WriteLocals DEF CycleTakesStep, GoesOn, Post
<1>3. /\ sync'[d][p] = [s EXCEPT !.pc = "wait"]
      /\ \A e \in Device, q \in Proc : e # d \/ q # p => sync'[e][q] = sync[e][q]
  BY <1>2, SyncSet
<1>4. n \in Requests /\ n.st = "sent" /\ n.events = buildEvents(d, p) /\ n.at = r.at
  BY <1>1, EventsType DEF Requests
<1>5. req' = [req EXCEPT ![d][p] = n]
  BY DEF Send, NetTypeOK
<1>6. /\ req' \in [Device -> [Proc -> Requests]] /\ req'[d][p] = n
      /\ \A e \in Device, q \in Proc : e # d \/ q # p => req'[e][q] = req[e][q]
  <2> HIDE DEF n
  <2> QED BY <1>4, <1>5, ReqSet
<1>7. /\ UNCHANGED <<db, shadow, faults, server, clock, stray, lost, overruled>>
      /\ UNCHANGED wishes
  BY DEF Send, Post, files, budget
<1>8. /\ sync'[d][p].pc = "wait"
      /\ sync'[d][p].cur = sync[d][p].cur /\ sync'[d][p].snap = sync[d][p].snap
  BY <1>1, <1>3 DEF SyncLocals
<1> QED BY <1>2, <1>3, <1>4, <1>6, <1>7, <1>8 DEF OnlyMoves

(* store.go:94-108: what applying a batch keeps typed; the processes that   *)
(* do not wait for the state are not concerned.                             *)
LEMMA ApplyFacts ==
  ASSUME NetTypeOK, NEW events \in SUBSET Event, NEW at \in Nat, Apply(events, at)
  PROVE  /\ server' \in State /\ server' = ApplyEvents(server, events, at)
         /\ overruled' \in [Device -> [Proc -> SUBSET Channel]]
         /\ \A d \in Device, p \in Proc :
              overruled'[d][p] =
                IF req[d][p].st = "stamped" /\ at >= req[d][p].at
                THEN overruled[d][p] \cup Contrary(req[d][p].events, events)
                ELSE overruled[d][p]
<1>1. server' \in State /\ server' = ApplyEvents(server, events, at)
  BY ApplyEventsType DEF Apply, NetTypeOK
<1>2. \A d \in Device, p \in Proc :
        overruled'[d][p] =
          IF req[d][p].st = "stamped" /\ at >= req[d][p].at
          THEN overruled[d][p] \cup Contrary(req[d][p].events, events)
          ELSE overruled[d][p]
  BY DEF Apply
<1>3. overruled' \in [Device -> [Proc -> SUBSET Channel]]
  <2>1. \A d \in Device, p \in Proc :
          (IF req[d][p].st = "stamped" /\ at >= req[d][p].at
           THEN overruled[d][p] \cup Contrary(req[d][p].events, events)
           ELSE overruled[d][p]) \in SUBSET Channel
    BY DEF NetTypeOK, Contrary
  <2> QED BY <2>1 DEF Apply
<1> QED BY <1>1, <1>2, <1>3

(* handler.go:78-101: a request is read and stamped. *)
LEMMA ArriveFacts ==
  ASSUME TypeOK, NetTypeOK, NEW d \in Device, NEW p \in Proc, Arrive(d, p)
  PROVE  /\ UNCHANGED vars /\ OnlyMoves(d, p)
         /\ Stamps(req[d][p].events) /\ clock' \in Nat \ {0} /\ clock <= clock'
         /\ req[d][p].st = "sent" /\ req'[d][p].st = "stamped"
         /\ req'[d][p].events = req[d][p].events /\ req'[d][p].at = clock
         /\ req' \in [Device -> [Proc -> Requests]]
         /\ overruled' \in [Device -> [Proc -> SUBSET Channel]]
         /\ overruled'[d][p] = {}
         /\ \A e \in Device, q \in Proc : e # d \/ q # p =>
              overruled'[e][q] = overruled[e][q]
         /\ UNCHANGED <<server, stray, lost>> /\ UNCHANGED wishes
<1> DEFINE r == req[d][p]
           n == [r EXCEPT !.st = "stamped", !.at = clock]
<1>1. r \in Requests /\ clock \in Nat \ {0}
  BY DEF NetTypeOK
<1>2. n \in Requests /\ n.st = "stamped" /\ n.events = r.events /\ n.at = clock
  BY <1>1 DEF Requests
<1>3. req' = [req EXCEPT ![d][p] = n]
  BY DEF Arrive, NetTypeOK
<1>4. /\ req' \in [Device -> [Proc -> Requests]] /\ req'[d][p] = n
      /\ \A e \in Device, q \in Proc : e # d \/ q # p => req'[e][q] = req[e][q]
  <2> HIDE DEF n
  <2> QED BY <1>2, <1>3, ReqSet
<1>5. /\ overruled' \in [Device -> [Proc -> SUBSET Channel]]
      /\ overruled'[d][p] = {}
      /\ \A e \in Device, q \in Proc : e # d \/ q # p =>
           overruled'[e][q] = overruled[e][q]
  BY DEF Arrive, NetTypeOK
<1>6. clock' \in Nat \ {0} /\ clock <= clock'
  BY <1>1 DEF Arrive, Stamps
<1> QED BY <1>2, <1>4, <1>5, <1>6 DEF Arrive, OnlyMoves, vars

(* store.go:94-108, handler.go:102-119: a request is applied and answered. *)
LEMMA CommitFacts ==
  ASSUME TypeOK, NetTypeOK, NEW d \in Device, NEW p \in Proc, Commit(d, p)
  PROVE  /\ UNCHANGED vars /\ OnlyMoves(d, p)
         /\ Apply(req[d][p].events, req[d][p].at)
         /\ req[d][p].events \in SUBSET Event /\ req[d][p].at \in Nat
         /\ req[d][p].st = "stamped" /\ req'[d][p].st = "answered"
         /\ req'[d][p].events = req[d][p].events /\ req'[d][p].at = 0
         /\ req'[d][p].reply = SubscribedChannels(server')
         /\ req' \in [Device -> [Proc -> Requests]]
         /\ UNCHANGED <<clock, stray, lost>> /\ UNCHANGED wishes
<1> DEFINE r == req[d][p]
           n == [r EXCEPT !.st = "answered", !.at = 0, !.reply = SubscribedChannels(server')]
<1>1. r \in Requests /\ SubscribedChannels(server') \in SUBSET Channel
  BY DEF NetTypeOK, SubscribedChannels
<1>2. /\ n \in Requests /\ n.st = "answered" /\ n.events = r.events /\ n.at = 0
      /\ n.reply = SubscribedChannels(server')
  BY <1>1 DEF Requests
<1>3. req' = [req EXCEPT ![d][p] = n]
  BY DEF Commit, NetTypeOK
<1>4. /\ req' \in [Device -> [Proc -> Requests]] /\ req'[d][p] = n
      /\ \A e \in Device, q \in Proc : e # d \/ q # p => req'[e][q] = req[e][q]
  <2> HIDE DEF n
  <2> QED BY <1>2, <1>3, ReqSet
<1>5. r.events \in SUBSET Event /\ r.at \in Nat
  BY <1>1 DEF Requests
<1> QED BY <1>2, <1>4, <1>5 DEF Commit, OnlyMoves, vars

(* What a request whose sender gave up does: it is stamped, or applied. *)
LEMMA LateFacts ==
  ASSUME TypeOK, NetTypeOK, NEW r \in stray, LateArrive(r) \/ LateCommit(r)
  PROVE  /\ UNCHANGED vars /\ UNCHANGED <<req, lost>> /\ UNCHANGED wishes
         /\ r.events \in SUBSET Event /\ r.at \in Nat
         /\ NetTypeOK' /\ clock <= clock'
<1>1. r \in Strays /\ clock \in Nat \ {0}
  BY DEF NetTypeOK
<1>2. r.events \in SUBSET Event /\ r.at \in Nat /\ [r EXCEPT !.at = clock] \in Strays
  BY <1>1 DEF Strays
<1>3. CASE LateArrive(r)
  <2>1. clock' \in Nat \ {0} /\ clock <= clock'
    BY <1>1, <1>3 DEF LateArrive, Stamps
  <2>2. stray' \subseteq Strays
    BY <1>2, <1>3 DEF LateArrive, NetTypeOK
  <2>3. NetTypeOK'
    BY <1>3, <2>1, <2>2 DEF LateArrive, NetTypeOK, wishes
  <2> QED BY <1>2, <1>3, <2>1, <2>3 DEF LateArrive
<1>4. CASE LateCommit(r)
  <2>1. /\ server' \in State
        /\ overruled' \in [Device -> [Proc -> SUBSET Channel]]
    BY <1>2, <1>4, ApplyFacts DEF LateCommit
  <2>2. NetTypeOK'
    BY <1>4, <2>1 DEF LateCommit, NetTypeOK, wishes
  <2> QED BY <1>1, <1>2, <1>4, <2>2 DEF LateCommit
<1> QED BY <1>3, <1>4

(* wire.go:55-64: the answer is received. *)
LEMMA AnswerFacts ==
  ASSUME TypeOK, NetTypeOK, NEW d \in Device, NEW p \in Proc, Answer(d, p)
  PROVE  /\ CycleTakesStep(d, p) /\ OnlyMoves(d, p)
         /\ sync[d][p].pc = "wait" /\ sync'[d][p].pc = "write"
         /\ sync'[d][p].cur = sync[d][p].cur /\ sync'[d][p].snap = sync[d][p].snap
         /\ sync'[d][p].resp = req[d][p].reply
         /\ req[d][p].st = "answered" /\ req'[d][p] = NoRequest
         /\ req' \in [Device -> [Proc -> Requests]]
         /\ UNCHANGED <<db, shadow, faults, server, clock, stray, lost, overruled>>
         /\ UNCHANGED wishes
<1> DEFINE s == sync[d][p]
           R == req[d][p].reply
<1>1. s \in SyncLocals /\ R \in SUBSET Channel
  BY DEF TypeOK, NetTypeOK, Requests
<1>2. Receive(d, p, R) /\ s.pc = "wait" /\ req[d][p].st = "answered"
  BY DEF Answer, Receive
<1>3. CycleTakesStep(d, p) /\ SetsLocals(d, p, [s EXCEPT !.pc = "write", !.resp = R])
  BY <1>1, <1>2, WriteLocals DEF CycleTakesStep, GoesOn
<1>4. /\ sync'[d][p] = [s EXCEPT !.pc = "write", !.resp = R]
      /\ \A e \in Device, q \in Proc : e # d \/ q # p => sync'[e][q] = sync[e][q]
  BY <1>3, SyncSet
<1>5. /\ sync'[d][p].pc = "write" /\ sync'[d][p].resp = R
      /\ sync'[d][p].cur = s.cur /\ sync'[d][p].snap = s.snap
  BY <1>1, <1>4 DEF SyncLocals
<1>6. /\ req' \in [Device -> [Proc -> Requests]] /\ req'[d][p] = NoRequest
      /\ \A e \in Device, q \in Proc : e # d \/ q # p => req'[e][q] = req[e][q]
  <2>1. NoRequest \in Requests
    BY NoRequestType
  <2> QED BY <2>1, ReqSet DEF Answer
<1>7. /\ UNCHANGED <<db, shadow, faults, server, clock, stray, lost, overruled>>
      /\ UNCHANGED wishes
  BY DEF Answer, Receive, files, budget
<1> QED BY <1>2, <1>3, <1>4, <1>5, <1>6, <1>7 DEF OnlyMoves

(* wire.go:49-58, and a kill: a cycle ends before it has written, or after. *)
LEMMA EndFacts ==
  ASSUME TypeOK, NetTypeOK, NEW d \in Device, NEW p \in Proc,
         GiveUp(d, p) \/ Killed(d, p)
  PROVE  /\ CycleTakesStep(d, p) /\ OnlyMoves(d, p)
         /\ sync'[d][p].pc = "idle" /\ (Paired(d, p) => req'[d][p].st = "none")
         /\ req' \in [Device -> [Proc -> Requests]]
         /\ req'[d][p] = NoRequest \/ req' = req
         /\ stray' \subseteq Strays /\ lost' \in 0..MaxLost
         /\ \A r \in stray' \ stray : r.events = req[d][p].events /\ r.at = req[d][p].at
         /\ lost' # 0 \/ faults' # 0
         /\ UNCHANGED <<server, clock, overruled>> /\ UNCHANGED wishes
<1>0. lost \in Nat /\ faults \in Nat /\ req[d][p] \in Requests
  BY DEF TypeOK, NetTypeOK
<1>1. EndsCycle(d, p)
  BY DEF GiveUp, NetworkFailed, Killed, EndsCycle, GivesUp
<1>2. SetsLocals(d, p, IdleSync)
  BY <1>1, EndsLocals
<1>3. /\ sync'[d][p].pc = "idle"
      /\ \A e \in Device, q \in Proc : e # d \/ q # p => sync'[e][q] = sync[e][q]
  BY <1>2, SyncSet, IdleSyncType
<1>4. CASE GiveUp(d, p)
  <2>1. /\ req' \in [Device -> [Proc -> Requests]] /\ req'[d][p] = NoRequest
        /\ \A e \in Device, q \in Proc : e # d \/ q # p => req'[e][q] = req[e][q]
    <3>1. req' = [req EXCEPT ![d][p] = NoRequest]
      BY <1>4 DEF GiveUp
    <3>2. NoRequest \in Requests
      BY NoRequestType
    <3> QED BY <3>1, <3>2, ReqSet
  <2>2. [device |-> d, events |-> req[d][p].events, at |-> req[d][p].at] \in Strays
    BY <1>0 DEF Requests, Strays
  <2>3. /\ stray' \subseteq Strays
        /\ \A r \in stray' \ stray : r.events = req[d][p].events /\ r.at = req[d][p].at
    <3> DEFINE n == [device |-> d, events |-> req[d][p].events, at |-> req[d][p].at]
    <3>1. stray' \subseteq stray \cup {n}
      BY <1>4 DEF GiveUp
    <3>2. n.events = req[d][p].events /\ n.at = req[d][p].at
      OBVIOUS
    <3> HIDE DEF n
    <3> QED BY <2>2, <3>1, <3>2 DEF NetTypeOK, n
  <2>4. lost' \in 0..MaxLost /\ lost' # 0
    BY <1>0, <1>4, SyncSystemAssumption DEF GiveUp
  <2> QED BY <1>1, <1>3, <1>4, <2>1, <2>3, <2>4, NoRequestType
          DEF GiveUp, OnlyMoves, CycleTakesStep
<1>5. CASE Killed(d, p)
  <2>1. UNCHANGED <<server, clock, req, stray, lost, overruled>> /\ UNCHANGED wishes
    BY <1>5 DEF Killed, netvars
  <2>2. faults' # 0
    BY <1>0, <1>5 DEF Killed, Abort
  <2>3. Paired(d, p) => req'[d][p].st = "none"
    BY <1>5, <2>1 DEF Killed, Paired
  <2> QED BY <1>1, <1>3, <2>1, <2>2, <2>3 DEF OnlyMoves, CycleTakesStep, NetTypeOK
<1> QED BY <1>4, <1>5

(* README.md:117-125: a process that moves alone keeps requests and waiting *)
(* processes paired.                                                        *)
LEMMA StaysPaired ==
  ASSUME NEW d \in Device, NEW p \in Proc, OnlyMoves(d, p),
         \A e \in Device, q \in Proc : Paired(e, q), Paired(d, p)'
  PROVE  (\A e \in Device, q \in Proc : Paired(e, q))'
BY DEF OnlyMoves, Paired

(* What FreeTube and lost files do to the types: nothing. *)
LEMMA OutsideType ==
  ASSUME TypeOK, NetTypeOK,
         \/ \E d \in Device : UserStep(d) \/ LoseShadow(d)
         \/ LoseState
  PROVE  TypeOK' /\ NetTypeOK' /\ UNCHANGED <<sync, req>>
<1>1. ASSUME NEW d \in Device, NEW c \in Channel, UserToggles(d, c)
      PROVE  TypeOK' /\ NetTypeOK' /\ UNCHANGED <<sync, req>>
  <2>1. TypeOK' /\ UNCHANGED sync
    BY <1>1, ToggleType DEF UserToggles, Toggle
  <2>2. wanted' \subseteq Channel /\ editors' \in [Channel -> SUBSET Device]
    BY <1>1 DEF UserToggles, NetTypeOK
  <2> QED BY <1>1, <2>1, <2>2 DEF UserToggles, netvars, NetTypeOK
<1>2. ASSUME NEW d \in Device, Close(d) \/ Die(d) \/ \E k \in Install : Open(d, k),
             UNCHANGED <<netvars, wishes>>
      PROVE  TypeOK' /\ NetTypeOK' /\ UNCHANGED <<sync, req>>
  <2>1. TypeOK'
    BY <1>2, ExitType, StartsType DEF Open
  <2>2. UNCHANGED sync
    BY <1>2 DEF Open, Close, Die
  <2> QED BY <1>2, <2>1, <2>2 DEF netvars, wishes, NetTypeOK
<1>3. ASSUME NEW d \in Device, LoseShadow(d)
      PROVE  TypeOK' /\ NetTypeOK' /\ UNCHANGED <<sync, req>>
  <2>1. faults' \in 0..MaxFaults
    BY <1>3, ClientSyncAssumption DEF LoseShadow, TypeOK
  <2> QED BY <1>3, <2>1 DEF LoseShadow, TypeOK, NetTypeOK, freetube, history, netvars, wishes
<1>4. ASSUME LoseState
      PROVE  TypeOK' /\ NetTypeOK' /\ UNCHANGED <<sync, req>>
  <2>1. faults' \in 0..MaxFaults
    BY <1>4, ClientSyncAssumption DEF LoseState, TypeOK
  <2> QED BY <1>4, <2>1, EmptyStateType
          DEF LoseState, TypeOK, NetTypeOK, files, freetube, history, wishes
<1> QED BY <1>1, <1>2, <1>3, <1>4 DEF UserStep

(* A step of a process or of a request under way keeps the types. *)
LEMMA SysTypeNext == SysTypeOK /\ [SysNext]_sysvars => SysTypeOK'
<1> SUFFICES ASSUME SysTypeOK, [SysNext]_sysvars PROVE SysTypeOK'
  OBVIOUS
<1>a. TypeOK /\ NetTypeOK /\ \A e \in Device, q \in Proc : Paired(e, q)
  BY SysTypeParts
<1>1. CASE \/ \E d \in Device : UserStep(d) \/ LoseShadow(d)
           \/ LoseState
  <2>1. (\A e \in Device, q \in Proc : Paired(e, q))'
    BY <1>a, <1>1, OutsideType DEF Paired
  <2> QED BY <1>a, <1>1, <2>1, OutsideType, SysTypeParts
<1>2. ASSUME NEW d \in Device, NEW p \in Proc,
             LocalStep(d, p), UNCHANGED <<netvars, wishes>>
      PROVE  SysTypeOK'
  <2>1. CycleTakesStep(d, p) /\ sync[d][p].pc # "wait" /\ sync'[d][p].pc # "wait"
    BY <1>a, <1>2, LocalFacts, IdleSyncType
  <2>2. OnlyMoves(d, p) /\ Paired(d, p)'
    BY <1>a, <1>2, <2>1, CycleFrame DEF OnlyMoves, netvars, Paired
  <2>3. TypeOK' /\ NetTypeOK'
    BY <1>a, <1>2, <2>1, CycleType DEF netvars, wishes, NetTypeOK
  <2> QED BY <1>a, <2>2, <2>3, StaysPaired, SysTypeParts
<1>3. ASSUME NEW d \in Device, NEW p \in Proc, Send(d, p) PROVE SysTypeOK'
  <2>1. TypeOK' /\ NetTypeOK'
    BY <1>a, <1>3, SendFacts, CycleType DEF NetTypeOK, wishes
  <2>2. OnlyMoves(d, p) /\ Paired(d, p)'
    BY <1>a, <1>3, SendFacts DEF Paired
  <2> QED BY <1>a, <2>1, <2>2, StaysPaired, SysTypeParts
<1>4. ASSUME NEW d \in Device, NEW p \in Proc, Arrive(d, p) PROVE SysTypeOK'
  <2>1. TypeOK' /\ NetTypeOK'
    BY <1>a, <1>4, ArriveFacts, TypeNext DEF NetTypeOK, wishes
  <2>2. OnlyMoves(d, p) /\ Paired(d, p)'
    BY <1>a, <1>4, ArriveFacts DEF Paired, vars
  <2> QED BY <1>a, <2>1, <2>2, StaysPaired, SysTypeParts
<1>5. ASSUME NEW d \in Device, NEW p \in Proc, Commit(d, p) PROVE SysTypeOK'
  <2>1. TypeOK' /\ NetTypeOK'
    <3>1. /\ UNCHANGED vars /\ UNCHANGED <<clock, stray, lost, wanted, editors>>
          /\ req' \in [Device -> [Proc -> Requests]]
      BY <1>a, <1>5, CommitFacts DEF wishes
    <3>2. server' \in State /\ overruled' \in [Device -> [Proc -> SUBSET Channel]]
      BY <1>a, <1>5, CommitFacts, ApplyFacts
    <3>3. TypeOK'
      BY <1>a, <3>1, TypeNext
    <3> QED BY <1>a, <3>1, <3>2, <3>3 DEF NetTypeOK
  <2>2. OnlyMoves(d, p) /\ Paired(d, p)'
    BY <1>a, <1>5, CommitFacts DEF Paired, vars
  <2> QED BY <1>a, <2>1, <2>2, StaysPaired, SysTypeParts
<1>6. ASSUME NEW d \in Device, NEW p \in Proc, Answer(d, p) PROVE SysTypeOK'
  <2>1. TypeOK' /\ NetTypeOK'
    BY <1>a, <1>6, AnswerFacts, CycleType DEF NetTypeOK, wishes
  <2>2. OnlyMoves(d, p) /\ Paired(d, p)'
    BY <1>a, <1>6, AnswerFacts, NoRequestType DEF Paired
  <2> QED BY <1>a, <2>1, <2>2, StaysPaired, SysTypeParts
<1>7. ASSUME NEW d \in Device, NEW p \in Proc, GiveUp(d, p) \/ Killed(d, p)
      PROVE  SysTypeOK'
  <2>1. TypeOK' /\ NetTypeOK'
    BY <1>a, <1>7, EndFacts, CycleType DEF NetTypeOK, wishes
  <2>2. OnlyMoves(d, p) /\ Paired(d, p)'
    BY <1>a, <1>7, EndFacts DEF Paired
  <2> QED BY <1>a, <2>1, <2>2, StaysPaired, SysTypeParts
<1>8. CASE LateStep
  <2>1. NetTypeOK' /\ UNCHANGED vars /\ req' = req
    BY <1>a, <1>8, LateFacts DEF LateStep
  <2>2. TypeOK' /\ (\A e \in Device, q \in Proc : Paired(e, q))'
    BY <1>a, <2>1, TypeNext DEF Paired, vars
  <2> QED BY <2>1, <2>2, SysTypeParts
<1>9. CASE UNCHANGED sysvars
  <2>1. UNCHANGED vars /\ UNCHANGED <<server, clock, req, stray, lost, overruled, wanted, editors>>
    BY <1>9 DEF sysvars, netvars, wishes
  <2>2. TypeOK' /\ (\A e \in Device, q \in Proc : Paired(e, q))'
    BY <1>a, <2>1, TypeNext DEF Paired, vars
  <2>3. NetTypeOK'
    BY <1>a, <2>1 DEF NetTypeOK
  <2> QED BY <2>2, <2>3, SysTypeParts
<1> QED BY <1>1, <1>2, <1>3, <1>4, <1>5, <1>6, <1>7, <1>8, <1>9 DEF SysNext, CycleStep

(* At the start nothing is under way. *)
LEMMA InitSysTypeOK == SysInit => SysTypeOK
<1> SUFFICES ASSUME SysInit PROVE SysTypeOK
  OBVIOUS
<1>1. TypeOK
  BY InitTypeOK DEF SysInit
<1>2. \A d \in Device, p \in Proc : req[d][p] = NoRequest /\ sync[d][p].pc = "idle"
  BY IdleSyncType DEF SysInit, Init
<1>3. /\ wanted \subseteq Channel /\ editors \in [Channel -> SUBSET Device]
  BY <1>1 DEF SysInit, TypeOK
<1>4. NetTypeOK
  BY <1>3, NoRequestType, EmptyStateType, SyncSystemAssumption DEF SysInit, NetTypeOK
<1> QED BY <1>1, <1>2, <1>4, NoRequestType, SysTypeParts DEF Paired

-----------------------------------------------------------------------------
(* Every stamp that was given, and is in the state or on its way there, is  *)
(* older than the clock.                                                    *)
ClockInv ==
  /\ \A c \in Channel : server[c].lastAdded < clock /\ server[c].lastRemoved < clock
  /\ \A d \in Device, p \in Proc : req[d][p].events # {} => req[d][p].at < clock
  /\ \A r \in stray : r.events # {} => r.at < clock

(* A request is stamped while it waits for the state. *)
Timely(d, p) == req[d][p].st # "stamped" => req[d][p].at = 0

(* The channels on which process p is still to have the last word. *)
Ours(d, p) == (added(d, p) \cup removed(d, p)) \ overruled[d][p]

(* R has those channels as the events of the cycle have them. *)
Honours(d, p, R) == \A c \in Ours(d, p) : c \in R <=> c \in added(d, p)

(* On them the state has nothing opposite that is stamped later. *)
Standing(d, p) ==
  \A c \in Channel \ overruled[d][p] :
    /\ [channel |-> c, action |-> Add] \in req[d][p].events =>
         server[c].lastRemoved < req[d][p].at
    /\ [channel |-> c, action |-> Remove] \in req[d][p].events =>
         server[c].lastAdded < req[d][p].at

(* What process p says to the server, and what it is told. *)
Tells(d, p) ==
  /\ Timely(d, p)
  /\ sync[d][p].pc = "wait"     => req[d][p].events = buildEvents(d, p)
  /\ req[d][p].st = "stamped"   => Standing(d, p)
  /\ req[d][p].st = "answered"  => Honours(d, p, req[d][p].reply)
  /\ sync[d][p].pc = "write"    => Honours(d, p, sync[d][p].resp)

TellInv == ClockInv /\ \A d \in Device, p \in Proc : Tells(d, p)

(* handler.go:101: a batch is stamped later than all that were before, and  *)
(* if it has events, the clock goes on.                                     *)
LEMMA StampsNew ==
  ASSUME NetTypeOK, NEW events, Stamps(events)
  PROVE  events # {} => clock < clock'
BY DEF Stamps, NetTypeOK

(* store.go:94-108: what is applied leaves all stamps older than the clock. *)
LEMMA ApplyClock ==
  ASSUME NetTypeOK, ClockInv, NEW events \in SUBSET Event, NEW at \in Nat,
         events # {} => at < clock, Apply(events, at), clock' = clock
  PROVE  \A c \in Channel : server'[c].lastAdded < clock' /\ server'[c].lastRemoved < clock'
<1> TAKE c \in Channel
<1>1. /\ server \in State /\ server[c].lastAdded \in Nat /\ server[c].lastRemoved \in Nat
      /\ clock \in Nat /\ server[c].lastAdded < clock /\ server[c].lastRemoved < clock
  BY StateFields DEF NetTypeOK, ClockInv
<1>2. server' = ApplyEvents(server, events, at)
  BY ApplyFacts
<1>3. /\ server'[c].lastAdded = IF [channel |-> c, action |-> Add] \in events
                                THEN max64(server[c].lastAdded, at)
                                ELSE server[c].lastAdded
      /\ server'[c].lastRemoved = IF [channel |-> c, action |-> Remove] \in events
                                  THEN max64(server[c].lastRemoved, at)
                                  ELSE server[c].lastRemoved
  BY <1>1, <1>2, BatchStamps
<1>4. CASE events = {}
  BY <1>1, <1>3, <1>4
<1>5. CASE events # {}
  <2>1. at < clock
    BY <1>5
  <2> QED BY <1>1, <1>3, <2>1 DEF max64
<1> QED BY <1>4, <1>5

(* store.go:94-108, 101: a batch that is applied before one that waits, and *)
(* says the opposite of it, is older or overrules it.                       *)
LEMMA ApplyStanding ==
  ASSUME NetTypeOK, NEW events \in SUBSET Event, NEW at \in Nat, Apply(events, at),
         NEW d \in Device, NEW p \in Proc, req[d][p].st = "stamped", Standing(d, p),
         req'[d][p] = req[d][p]
  PROVE  Standing(d, p)'
<1> DEFINE r == req[d][p]
           Adds(c) == [channel |-> c, action |-> Add]
           Removes(c) == [channel |-> c, action |-> Remove]
<1>1. r.at \in Nat /\ server \in State
  BY DEF NetTypeOK, Requests
<1>2. /\ server' = ApplyEvents(server, events, at)
      /\ overruled'[d][p] = IF at >= r.at THEN overruled[d][p] \cup Contrary(r.events, events)
                            ELSE overruled[d][p]
  BY ApplyFacts
<1>3. ASSUME NEW c \in Channel, c \notin overruled'[d][p]
      PROVE  /\ Adds(c) \in r.events => server'[c].lastRemoved < r.at
             /\ Removes(c) \in r.events => server'[c].lastAdded < r.at
  <2>1. c \notin overruled[d][p]
    BY <1>2, <1>3
  <2>2. /\ Adds(c) \in r.events => server[c].lastRemoved < r.at
        /\ Removes(c) \in r.events => server[c].lastAdded < r.at
    BY <2>1 DEF Standing
  <2>3. /\ Adds(c) \in r.events /\ Removes(c) \in events => at < r.at
        /\ Removes(c) \in r.events /\ Adds(c) \in events => at < r.at
    BY <1>1, <1>2, <1>3 DEF Contrary
  <2>4. server[c].lastAdded \in Nat /\ server[c].lastRemoved \in Nat
    BY <1>1, StateFields
  <2>5. /\ server'[c].lastAdded = IF Adds(c) \in events THEN max64(server[c].lastAdded, at)
                                  ELSE server[c].lastAdded
        /\ server'[c].lastRemoved = IF Removes(c) \in events
                                    THEN max64(server[c].lastRemoved, at)
                                    ELSE server[c].lastRemoved
    BY <1>1, <1>2, BatchStamps
  <2> HIDE DEF r, Adds, Removes
  <2> QED BY <1>1, <2>2, <2>3, <2>4, <2>5 DEF max64
<1> QED BY <1>3 DEF Standing

(* clientsync.go:142-179: after a cycle's own events the server has their   *)
(* channels as they have them, but for those on which they were overruled,  *)
(* and the others as before.                                                *)
LEMMA OwnBatchDecides ==
  ASSUME TypeOK, NetTypeOK, NEW d \in Device, NEW p \in Proc, Commit(d, p),
         Standing(d, p), req[d][p].events = buildEvents(d, p), UNCHANGED sync
  PROVE  /\ Honours(d, p, SubscribedChannels(server))'
         /\ \A c \in Channel \ overruled[d][p] :
              /\ c \in added(d, p) => c \in SubscribedChannels(server')
              /\ c \in removed(d, p) => c \notin SubscribedChannels(server')
         /\ \A c \in Channel \ (added(d, p) \cup removed(d, p)) :
              c \in SubscribedChannels(server') <=> c \in SubscribedChannels(server)
<1> DEFINE r == req[d][p]
<1>1. added(d, p) \subseteq Channel /\ removed(d, p) \subseteq Channel
      /\ added(d, p) \cap removed(d, p) = {}
  BY DEF added, removed, TypeOK, SyncLocals
<1>2. /\ r.events \in SUBSET Event /\ r.at \in Nat /\ r.st = "stamped"
      /\ Apply(r.events, r.at) /\ server \in State
  BY CommitFacts DEF NetTypeOK
<1>3. /\ server' = ApplyEvents(server, r.events, r.at)
      /\ overruled[d][p] \subseteq overruled'[d][p]
  <2> HIDE DEF r
  <2>1. /\ server' = ApplyEvents(server, r.events, r.at)
        /\ overruled'[d][p] = IF req[d][p].st = "stamped" /\ r.at >= req[d][p].at
                             THEN overruled[d][p] \cup Contrary(req[d][p].events, r.events)
                             ELSE overruled[d][p]
    BY <1>2, ApplyFacts
  <2> QED BY <2>1
<1>4. ASSUME NEW c \in Channel
      PROVE  /\ [channel |-> c, action |-> Add] \in r.events <=> c \in added(d, p)
             /\ [channel |-> c, action |-> Remove] \in r.events <=> c \in removed(d, p)
             /\ server[c].lastAdded \in Nat /\ server[c].lastRemoved \in Nat
  BY <1>2, EventsType, StateFields
<1>5. ASSUME NEW c \in Channel \ overruled[d][p]
      PROVE  /\ c \in added(d, p) => c \in SubscribedChannels(server')
             /\ c \in removed(d, p) => c \notin SubscribedChannels(server')
  <2>1. /\ c \in added(d, p) => server[c].lastRemoved < r.at
        /\ c \in removed(d, p) => server[c].lastAdded < r.at
    BY <1>4, <1>5 DEF Standing
  <2>2. c \in removed(d, p) => server[c].lastAdded <= r.at
    <3>1. server[c].lastAdded \in Nat
      BY <1>4
    <3> HIDE DEF r
    <3> QED BY <1>2, <2>1, <3>1
  <2>3. /\ c \in added(d, p) => c \notin removed(d, p)
        /\ [channel |-> c, action |-> Add] \in r.events <=> c \in added(d, p)
        /\ [channel |-> c, action |-> Remove] \in r.events <=> c \in removed(d, p)
    BY <1>1, <1>4
  <2> HIDE DEF r
  <2> QED BY <1>2, <1>3, <2>1, <2>2, <2>3, BatchDecides
<1>6. ASSUME NEW c \in Channel \ (added(d, p) \cup removed(d, p))
      PROVE  c \in SubscribedChannels(server') <=> c \in SubscribedChannels(server)
  <2>1. /\ [channel |-> c, action |-> Add] \notin r.events
        /\ [channel |-> c, action |-> Remove] \notin r.events
    BY <1>4, <1>6
  <2> HIDE DEF r
  <2> QED BY <1>2, <1>3, <2>1, BatchDecides
<1>7. Honours(d, p, SubscribedChannels(server))'
  BY <1>1, <1>3, <1>5 DEF Honours, Ours, added, removed
<1> QED BY <1>5, <1>6, <1>7

(* What a step leaves alone of process p, it still says and is told. *)
LEMMA TellsSame ==
  ASSUME NEW d \in Device, NEW p \in Proc, Tells(d, p),
         sync'[d][p] = sync[d][p], req'[d][p] = req[d][p],
         overruled'[d][p] = overruled[d][p], UNCHANGED server
  PROVE  Tells(d, p)'
BY DEF Tells, Timely, Standing, Honours, Ours, buildEvents, added, removed

(* A batch that is applied leaves alone what the others are told. *)
LEMMA TellsApply ==
  ASSUME NetTypeOK, NEW events \in SUBSET Event, NEW at \in Nat, Apply(events, at),
         NEW d \in Device, NEW p \in Proc, Tells(d, p), Paired(d, p),
         sync'[d][p] = sync[d][p], req'[d][p] = req[d][p]
  PROVE  Tells(d, p)'
<1>1. CASE req[d][p].st = "stamped"
  <2>1. Standing(d, p)'
    BY <1>1, ApplyStanding DEF Tells
  <2> QED BY <1>1, <2>1 DEF Tells, Timely, Paired, buildEvents, added, removed
<1>2. CASE req[d][p].st # "stamped"
  <2>1. overruled'[d][p] = overruled[d][p]
    BY <1>2, ApplyFacts
  <2> QED BY <1>2, <2>1 DEF Tells, Timely, Honours, Ours, buildEvents, added, removed
<1> QED BY <1>1, <1>2

(* A process that moves alone, and leaves the state alone. *)
LEMMA TellsStays ==
  ASSUME NEW d \in Device, NEW p \in Proc, OnlyMoves(d, p), UNCHANGED server,
         \A e \in Device, q \in Proc :
           Tells(e, q) /\ (e # d \/ q # p => overruled'[e][q] = overruled[e][q]),
         Tells(d, p)'
  PROVE  (\A e \in Device, q \in Proc : Tells(e, q))'
<1>1. ASSUME NEW e \in Device, NEW q \in Proc PROVE Tells(e, q)'
  <2>1. CASE e = d /\ q = p
    BY <2>1
  <2>2. CASE e # d \/ q # p
    BY <2>2, TellsSame DEF OnlyMoves
  <2> QED BY <2>1, <2>2
<1> QED BY <1>1

(* Requests that stay, or are gone, are no newer than the clock. *)
LEMMA ClockStays ==
  ASSUME NetTypeOK, ClockInv, clock' \in Nat, clock <= clock', UNCHANGED <<server, stray>>,
         \A e \in Device, q \in Proc :
           \/ req'[e][q] = req[e][q] \/ req'[e][q].events = {} \/ req'[e][q].at < clock'
  PROVE  ClockInv'
<1>1. clock \in Nat /\ server \in State
  BY DEF NetTypeOK
<1>2. \A c \in Channel : server'[c].lastAdded < clock' /\ server'[c].lastRemoved < clock'
  BY <1>1, StateFields DEF ClockInv
<1>3. ASSUME NEW e \in Device, NEW q \in Proc, req'[e][q].events # {}
      PROVE  req'[e][q].at < clock'
  <2>1. req[e][q].at \in Nat
    BY DEF NetTypeOK, Requests
  <2> QED BY <1>1, <1>3, <2>1 DEF ClockInv
<1>4. ASSUME NEW r \in stray, r.events # {} PROVE r.at < clock'
  <2>1. r.at \in Nat /\ r.at < clock
    BY <1>4 DEF NetTypeOK, Strays, ClockInv
  <2> QED BY <1>1, <2>1
<1> QED BY <1>2, <1>3, <1>4 DEF ClockInv

(* README.md:117-125: requests are what they were, and their answers honour *)
(* them.                                                                    *)
LEMMA TellNext == SysTypeOK /\ TellInv /\ [SysNext]_sysvars => TellInv'
<1> SUFFICES ASSUME SysTypeOK, TellInv, [SysNext]_sysvars PROVE TellInv'
  OBVIOUS
<1>a. /\ TypeOK /\ NetTypeOK /\ ClockInv /\ clock \in Nat \ {0} /\ clock <= clock
      /\ \A e \in Device, q \in Proc : Paired(e, q) /\ Tells(e, q)
  BY SysTypeParts DEF TellInv, NetTypeOK
<1>b. ASSUME UNCHANGED <<sync, req, server, clock, stray, overruled>> PROVE TellInv'
  <2>1. ClockInv'
    BY <1>a, <1>b, ClockStays
  <2>2. (\A e \in Device, q \in Proc : Tells(e, q))'
    BY <1>a, <1>b, TellsSame
  <2> QED BY <2>1, <2>2 DEF TellInv
<1>1. ASSUME NEW d \in Device, UserStep(d) \/ LoseShadow(d) PROVE TellInv'
  <2>1. UNCHANGED <<sync, req>>
    BY <1>a, <1>1, OutsideType
  <2> QED BY <1>b, <1>1, <2>1 DEF UserStep, UserToggles, LoseShadow, netvars
<1>2. CASE LoseState
  <2>1. /\ UNCHANGED <<sync, req, clock, stray, overruled>> /\ server' = EmptyState
    BY <1>a, <1>2, OutsideType DEF LoseState
  <2>2. \A c \in Channel : server'[c].lastAdded = 0 /\ server'[c].lastRemoved = 0
    BY <2>1 DEF EmptyState
  <2>3. ClockInv'
    BY <1>a, <2>1, <2>2 DEF ClockInv
  <2>4. ASSUME NEW e \in Device, NEW q \in Proc PROVE Tells(e, q)'
    <3>1. req[e][q].at \in Nat /\ server \in State
      BY <1>a DEF NetTypeOK, Requests
    <3>2. req[e][q].st = "stamped" => Standing(e, q)'
      <4>1. \A c \in Channel : /\ server[c].lastAdded \in Nat
                               /\ server[c].lastRemoved \in Nat
        BY <3>1, StateFields
      <4> QED BY <1>a, <2>1, <2>2, <3>1, <4>1 DEF Tells, Standing
    <3> QED BY <1>a, <2>1, <3>2 DEF Tells, Timely, Honours, Ours, buildEvents, added, removed
  <2> QED BY <2>3, <2>4 DEF TellInv
<1>3. ASSUME NEW d \in Device, NEW p \in Proc,
             LocalStep(d, p), UNCHANGED <<netvars, wishes>>
      PROVE  TellInv'
  <2>1. /\ sync[d][p].pc # "wait" /\ sync'[d][p].pc \notin {"wait", "write"}
        /\ CycleTakesStep(d, p)
    BY <1>a, <1>3, LocalFacts, IdleSyncType
  <2>2. OnlyMoves(d, p) /\ UNCHANGED <<req, server, clock, stray, overruled>>
    BY <1>a, <1>3, <2>1, CycleFrame DEF OnlyMoves, netvars
  <2>3. Tells(d, p)'
    BY <1>a, <2>1, <2>2 DEF Tells, Timely, Paired
  <2> QED BY <1>a, <2>2, <2>3, TellsStays, ClockStays DEF TellInv
<1>4. ASSUME NEW d \in Device, NEW p \in Proc, Send(d, p) PROVE TellInv'
  <2>1. /\ OnlyMoves(d, p) /\ UNCHANGED <<server, clock, stray, overruled>>
        /\ req[d][p].st = "none" /\ req'[d][p].at = 0
    BY <1>a, <1>4, SendFacts DEF Tells, Timely, Paired
  <2>2. Tells(d, p)'
    BY <1>a, <1>4, <2>1, SendFacts DEF Tells, Timely, buildEvents, added, removed
  <2>3. ClockInv'
    BY <1>a, <2>1, ClockStays DEF OnlyMoves
  <2> QED BY <1>a, <2>1, <2>2, <2>3, TellsStays DEF TellInv
<1>5. ASSUME NEW d \in Device, NEW p \in Proc, Arrive(d, p) PROVE TellInv'
  <2>1. /\ sync[d][p].pc = "wait" /\ sync' = sync /\ OnlyMoves(d, p)
        /\ req'[d][p].st = "stamped" /\ req'[d][p].events = req[d][p].events
        /\ req'[d][p].at = clock /\ UNCHANGED <<server, stray>>
        /\ clock' \in Nat /\ clock <= clock'
        /\ \A e \in Device, q \in Proc : e # d \/ q # p =>
             overruled'[e][q] = overruled[e][q]
    BY <1>a, <1>5, ArriveFacts DEF Paired, vars
  <2>2. req[d][p].events # {} => clock < clock'
    BY <1>a, <1>5, ArriveFacts, StampsNew
  <2>3. ClockInv'
    BY <1>a, <2>1, <2>2, ClockStays DEF OnlyMoves
  <2>4. Standing(d, p)'
    BY <1>a, <2>1 DEF Standing, ClockInv
  <2>5. Tells(d, p)'
    BY <1>a, <2>1, <2>4 DEF Tells, Timely, buildEvents, added, removed
  <2> QED BY <1>a, <2>1, <2>3, <2>5, TellsStays DEF TellInv
<1>6. ASSUME NEW d \in Device, NEW p \in Proc, Commit(d, p) PROVE TellInv'
  <2> DEFINE r == req[d][p]
  <2>1. /\ sync[d][p].pc = "wait" /\ sync' = sync /\ OnlyMoves(d, p)
        /\ Apply(r.events, r.at) /\ r.events \in SUBSET Event /\ r.at \in Nat
        /\ r.st = "stamped" /\ req'[d][p].st = "answered" /\ req'[d][p].events = r.events
        /\ req'[d][p].at = 0 /\ req'[d][p].reply = SubscribedChannels(server')
        /\ UNCHANGED <<clock, stray>>
    BY <1>a, <1>6, CommitFacts DEF Paired, vars
  <2>2. ClockInv'
    <3>1. \A c \in Channel : /\ server'[c].lastAdded < clock'
                             /\ server'[c].lastRemoved < clock'
      BY <1>a, <2>1, ApplyClock DEF ClockInv
    <3>2. ASSUME NEW e \in Device, NEW q \in Proc, req'[e][q].events # {}
          PROVE  req'[e][q].at < clock'
      BY <1>a, <2>1, <3>2 DEF ClockInv, OnlyMoves
    <3> QED BY <1>a, <2>1, <3>1, <3>2 DEF ClockInv
  <2>3. Standing(d, p) /\ r.events = buildEvents(d, p)
    BY <1>a, <2>1 DEF Tells
  <2>4. Honours(d, p, SubscribedChannels(server))'
    BY <1>a, <1>6, <2>1, <2>3, OwnBatchDecides
  <2>5. Tells(d, p)'
    BY <2>1, <2>3, <2>4 DEF Tells, Timely, Honours, Ours, buildEvents, added, removed
  <2>6. ASSUME NEW e \in Device, NEW q \in Proc, e # d \/ q # p PROVE Tells(e, q)'
    BY <1>a, <2>1, <2>6, TellsApply DEF OnlyMoves
  <2>7. ASSUME NEW e \in Device, NEW q \in Proc PROVE Tells(e, q)'
    BY <2>5, <2>6
  <2> QED BY <2>2, <2>7 DEF TellInv
<1>7. ASSUME NEW d \in Device, NEW p \in Proc, Answer(d, p) PROVE TellInv'
  <2>1. /\ OnlyMoves(d, p) /\ req'[d][p] = NoRequest
        /\ UNCHANGED <<server, clock, stray, overruled>>
    BY <1>a, <1>7, AnswerFacts
  <2>2. Tells(d, p)'
    BY <1>a, <1>7, AnswerFacts, NoRequestType
       DEF Tells, Timely, Honours, Ours, added, removed
  <2>3. ClockInv'
    BY <1>a, <2>1, NoRequestType, ClockStays DEF OnlyMoves
  <2> QED BY <1>a, <2>1, <2>2, <2>3, TellsStays DEF TellInv
<1>8. ASSUME NEW d \in Device, NEW p \in Proc, GiveUp(d, p) \/ Killed(d, p)
      PROVE  TellInv'
  <2>1. /\ OnlyMoves(d, p) /\ (req'[d][p] = NoRequest \/ req' = req)
        /\ UNCHANGED <<server, clock, overruled>>
        /\ sync'[d][p].pc = "idle" /\ req'[d][p].st = "none"
        /\ \A r \in stray' \ stray : r.events = req[d][p].events /\ r.at = req[d][p].at
    BY <1>a, <1>8, EndFacts
  <2>2. Tells(d, p)'
    BY <1>a, <2>1, NoRequestType DEF Tells, Timely
  <2>3. ClockInv'
    <3>1. ASSUME NEW e \in Device, NEW q \in Proc, req'[e][q].events # {}
          PROVE  req'[e][q].at < clock'
      BY <1>a, <2>1, <3>1, NoRequestType DEF ClockInv, OnlyMoves
    <3>2. ASSUME NEW r \in stray', r.events # {} PROVE r.at < clock'
      BY <1>a, <2>1, <3>2 DEF ClockInv
    <3> QED BY <1>a, <2>1, <3>1, <3>2 DEF ClockInv
  <2> QED BY <1>a, <2>1, <2>2, <2>3, TellsStays DEF TellInv
<1>9. ASSUME NEW r \in stray, LateArrive(r) PROVE TellInv'
  <2>1. /\ UNCHANGED <<sync, req, server, overruled>> /\ Stamps(r.events)
        /\ stray' = (stray \ {r}) \cup {[r EXCEPT !.at = clock]}
    BY <1>9 DEF LateArrive, vars
  <2>2. /\ r \in Strays /\ clock' \in Nat /\ clock <= clock'
        /\ r.events # {} => clock < clock'
    BY <1>a, <1>9, LateFacts, StampsNew DEF NetTypeOK, LateArrive
  <2>3. /\ [r EXCEPT !.at = clock].events = r.events
        /\ [r EXCEPT !.at = clock].at = clock
    BY <2>2 DEF Strays
  <2>4. ASSUME NEW x \in stray, x.events # {} PROVE x.at < clock'
    <3>1. x.at \in Nat /\ x.at < clock
      BY <1>a, <2>4 DEF NetTypeOK, Strays, ClockInv
    <3> QED BY <1>a, <2>2, <3>1
  <2>5. ClockInv'
    <3>1. \A c \in Channel : /\ server[c].lastAdded < clock'
                             /\ server[c].lastRemoved < clock'
      BY <1>a, <2>2, StateFields DEF ClockInv, NetTypeOK
    <3>2. ASSUME NEW e \in Device, NEW q \in Proc, req[e][q].events # {}
          PROVE  req[e][q].at < clock'
      <4>1. req[e][q].at \in Nat /\ req[e][q].at < clock
        BY <1>a, <3>2 DEF NetTypeOK, Requests, ClockInv
      <4> QED BY <1>a, <2>2, <4>1
    <3>3. ASSUME NEW x \in stray', x.events # {} PROVE x.at < clock'
      BY <2>1, <2>2, <2>3, <2>4, <3>3
    <3> QED BY <2>1, <3>1, <3>2, <3>3 DEF ClockInv
  <2>6. (\A e \in Device, q \in Proc : Tells(e, q))'
    BY <1>a, <2>1, TellsSame
  <2> QED BY <2>5, <2>6 DEF TellInv
<1>10. ASSUME NEW r \in stray, LateCommit(r) PROVE TellInv'
  <2>1. /\ UNCHANGED <<sync, req, clock>> /\ Apply(r.events, r.at)
        /\ stray' = stray \ {r} /\ r.events \in SUBSET Event /\ r.at \in Nat
    BY <1>a, <1>10, LateFacts DEF LateCommit, vars
  <2>2. ClockInv'
    <3>1. \A c \in Channel : /\ server'[c].lastAdded < clock'
                             /\ server'[c].lastRemoved < clock'
      BY <1>a, <2>1, ApplyClock DEF ClockInv
    <3> QED BY <1>a, <2>1, <3>1 DEF ClockInv
  <2>3. (\A e \in Device, q \in Proc : Tells(e, q))'
    BY <1>a, <2>1, TellsApply
  <2> QED BY <2>2, <2>3 DEF TellInv
<1>11. CASE UNCHANGED sysvars
  BY <1>b, <1>11 DEF sysvars, vars, netvars
<1> QED BY <1>1, <1>2, <1>3, <1>4, <1>5, <1>6, <1>7, <1>8, <1>9, <1>10, <1>11
        DEF SysNext, CycleStep, LateStep

(* At the start nothing is stamped and nothing is said. *)
LEMMA InitTell == SysInit => TellInv
<1> SUFFICES ASSUME SysInit PROVE TellInv
  OBVIOUS
<1>1. server = EmptyState /\ clock = 1 /\ stray = {}
  BY DEF SysInit
<1>2. \A d \in Device, p \in Proc :
        /\ req[d][p].st = "none" /\ req[d][p].events = {} /\ req[d][p].at = 0
        /\ sync[d][p].pc = "idle"
  BY NoRequestType, IdleSyncType DEF SysInit, Init
<1>3. ClockInv
  <2>1. \A c \in Channel : server[c].lastAdded = 0 /\ server[c].lastRemoved = 0
    BY <1>1 DEF EmptyState
  <2>2. clock \in Nat /\ 0 < clock
    BY <1>1
  <2> QED BY <1>1, <1>2, <2>1, <2>2 DEF ClockInv
<1> QED BY <1>2, <1>3 DEF TellInv, Tells, Timely

-----------------------------------------------------------------------------
(* clientsync.go:66-135: what cycles work on is what the files hold, with a *)
(* server and a network beside them too.                                    *)
LEMMA SysCycleNext ==
  ASSUME ~ FreeTubeMayRace, OneProcess
  PROVE  CycleInv /\ SysTypeOK /\ [SysNext]_sysvars => CycleInv'
<1> SUFFICES ASSUME CycleInv, SysTypeOK, [SysNext]_sysvars PROVE CycleInv'
  OBVIOUS
<1>a. TypeOK /\ NetTypeOK
  BY SysTypeParts
<1>b. TypeOK'
  BY SysTypeNext, SysTypeParts DEF SysTypeOK
<1>1. CASE ClientStep \/ UNCHANGED vars
  BY <1>1, CycleNext
<1>2. ASSUME NEW d \in Device, LoseShadow(d) PROVE CycleInv'
  <2>1. /\ UNCHANGED <<db, ft, mem, sync>> /\ \A p \in Proc : sync[d][p].pc = "idle"
        /\ \A e \in Device : e # d => shadow'[e] = shadow[e]
    BY <1>a, <1>2 DEF LoseShadow, freetube, TypeOK
  <2> QED BY <1>b, <2>1 DEF CycleInv, ExclusiveInv, MemInv, LocalsInv, Current
<1>3. CASE LoseState
  BY <1>b, <1>3 DEF LoseState, files, freetube, CycleInv, ExclusiveInv, MemInv, LocalsInv,
                    Current
<1>4. ASSUME NEW d \in Device, UserStep(d) PROVE ClientStep
  BY <1>4 DEF UserStep, UserToggles, ClientStep, FreeTubeStep
<1>5. ASSUME NEW d \in Device, NEW p \in Proc,
             CycleStep(d, p) \/ GiveUp(d, p) \/ Killed(d, p)
      PROVE  ClientStep \/ UNCHANGED vars
  <2>1. CASE LocalStep(d, p)
    BY <2>1 DEF LocalStep, ClientStep, GoesOn, EndsCycle
  <2>2. CASE Send(d, p)
    BY <2>2 DEF Send, ClientStep, GoesOn
  <2>3. CASE Arrive(d, p) \/ Commit(d, p)
    BY <2>3 DEF Arrive, Commit
  <2>4. CASE Answer(d, p)
    <3>1. req[d][p].reply \in SUBSET Channel
      BY <1>a DEF NetTypeOK, Requests
    <3> QED BY <2>4, <3>1 DEF Answer, ClientStep, GoesOn
  <2>5. CASE GiveUp(d, p) \/ Killed(d, p)
    BY <2>5 DEF GiveUp, Killed, NetworkFailed, ClientStep, EndsCycle, GivesUp
  <2> QED BY <1>5, <2>1, <2>2, <2>3, <2>4, <2>5 DEF CycleStep
<1>6. LateStep \/ UNCHANGED sysvars => UNCHANGED vars
  BY DEF LateStep, LateArrive, LateCommit, sysvars
<1> QED BY <1>1, <1>2, <1>3, <1>4, <1>5, <1>6 DEF SysNext

-----------------------------------------------------------------------------
(* Process p of device d knows what the server said, and has not yet saved  *)
(* it.                                                                      *)
Told(d, p) == req[d][p].st = "answered" \/ sync[d][p].pc \in {"write", "save"}

Reply(d, p) == IF req[d][p].st = "answered" THEN req[d][p].reply ELSE sync[d][p].resp

OnServer(c) == c \in SubscribedChannels(server)

(***************************************************************************)
(* The device that changed channel c has it as its user wants it; the      *)
(* server has it as the device's shadow says or, once a cycle was told,    *)
(* as the user wants it too.                                               *)
(***************************************************************************)
Heard(d, c) ==
  /\ \A k \in Install : c \in db[d][k] <=> c \in wanted
  /\ \A p \in Proc : Told(d, p) =>
       (c \in Reply(d, p) <=> c \in wanted) /\ (OnServer(c) <=> c \in wanted)
  /\ (\A p \in Proc : ~ Told(d, p)) => (OnServer(c) <=> c \in shadow[d])

(* A device that did not change channel c has no event about it. *)
Repeats(d, c) ==
  (\A p \in Proc : sync[d][p].pc # "save") =>
    \A k \in Install : c \in db[d][k] <=> c \in shadow[d]

(* Nobody has said the opposite of what the device is about to say. *)
Unopposed(d, c) ==
  \A p \in Proc : req[d][p].st = "stamped" => c \notin overruled[d][p]

Kept(d, c) ==
  /\ Heard(d, c) /\ Unopposed(d, c)
  /\ \A e \in Device \ {d} : Repeats(e, c)

KeptInv ==
  lost = 0 /\ faults = 0 =>
    /\ stray = {}
    /\ \A d \in Device, c \in Channel : editors[c] \subseteq {d} => Kept(d, c)

EditorsInv == Install = {} => \A c \in Channel : editors[c] = {}

SysInv == CycleInv /\ SysTypeOK /\ TellInv /\ EditorsInv /\ KeptInv

(* A step that changes nothing about channel c, whatever else it does. *)
LEMMA KeptStays ==
  ASSUME NEW d \in Device, NEW c \in Channel, Kept(d, c),
         \A e \in Device : /\ \A k \in Install : c \in db'[e][k] <=> c \in db[e][k]
                           /\ c \in shadow'[e] <=> c \in shadow[e],
         c \in wanted' <=> c \in wanted, OnServer(c)' <=> OnServer(c),
         Unopposed(d, c)',
         \A e \in Device, q \in Proc :
           /\ sync'[e][q].pc = "save" <=> sync[e][q].pc = "save"
           /\ Told(e, q)' <=> Told(e, q)
           /\ Told(e, q) => (c \in Reply(e, q)' <=> c \in Reply(e, q))
  PROVE  Kept(d, c)'
<1>1. Heard(d, c)'
  BY DEF Kept, Heard
<1>2. ASSUME NEW e \in Device \ {d} PROVE Repeats(e, c)'
  BY <1>2 DEF Kept, Repeats
<1> QED BY <1>1, <1>2 DEF Kept

(* Files, requests and cycles are as they were. *)
LEMMA KeptSame ==
  ASSUME NEW d \in Device, NEW c \in Channel, Kept(d, c),
         UNCHANGED <<db, shadow, sync, req, server, overruled, wanted>>
  PROVE  Kept(d, c)'
BY DEF Kept, Heard, Unopposed, Repeats, Told, Reply, OnServer

(* FreeTube's user changes channel x. *)
LEMMA KeptToggle ==
  ASSUME OneInstall, CycleInv, SysTypeOK, NEW a \in Device, NEW x \in Channel,
         UserToggles(a, x),
         NEW d \in Device, NEW c \in Channel, editors'[c] \subseteq {d}, Kept(d, c)
  PROVE  Kept(d, c)'
<1>a. TypeOK /\ NetTypeOK /\ \A e \in Device, q \in Proc : Paired(e, q)
  BY SysTypeParts
<1>b. Toggle(a, x) /\ ft[a] \in Install /\ mem[a] = db[a][ft[a]]
  BY <1>a DEF UserToggles, Toggle, CycleInv, MemInv, TypeOK
<1>c. \A k \in Install : k = ft[a]
  BY <1>b DEF OneInstall
<1>1. UNCHANGED <<shadow, sync, req, server>> /\ Unopposed(d, c)'
  BY <1>b DEF UserToggles, netvars, Toggle, Kept, Unopposed
<1>2. /\ mem'[a] = SymDiff(mem[a], {x})
      /\ \A k \in Install : db'[a][k] = mem'[a]
      /\ \A e \in Device : e # a => db'[e] = db[e]
  BY <1>a, <1>b, <1>c DEF Toggle, TypeOK
<1>3. CASE x # c
  <2>1. \A e \in Device, k \in Install : c \in db'[e][k] <=> c \in db[e][k]
    BY <1>b, <1>c, <1>2, <1>3 DEF SymDiff
  <2>2. c \in wanted' <=> c \in wanted
    BY <1>3 DEF UserToggles
  <2> QED BY <1>1, <2>1, <2>2, KeptStays DEF Told, Reply, OnServer
<1>4. CASE x = c
  <2>1. a = d
    BY <1>a, <1>4 DEF UserToggles, NetTypeOK
  <2>2. c \in wanted' <=> c \in mem'[d]
    BY <1>4, <2>1 DEF UserToggles
  <2>3. \A q \in Proc : sync[d][q].pc = "idle" /\ ~ Told(d, q) /\ ~ Told(d, q)'
    BY <1>a, <1>b, <1>1, <2>1 DEF CycleInv, ExclusiveInv, Toggle, Told, Paired
  <2>4. Heard(d, c)'
    BY <1>1, <1>2, <2>1, <2>2, <2>3 DEF Heard, Kept, OnServer
  <2>5. \A e \in Device \ {d} : Repeats(e, c)'
    BY <1>1, <1>2, <2>1 DEF Kept, Repeats
  <2> QED BY <1>1, <2>4, <2>5 DEF Kept
<1> QED BY <1>3, <1>4

(* clientsync.go:84-134: what a cycle does on its device. *)
LEMMA KeptLocal ==
  ASSUME OneProcess, OneInstall, CycleInv, SysTypeOK, NEW a \in Device, NEW p \in Proc,
         LocalStep(a, p), UNCHANGED <<netvars, wishes>>,
         NEW d \in Device, NEW c \in Channel, Kept(d, c)
  PROVE  Kept(d, c)'
<1> DEFINE s == sync[a][p]
<1>a. /\ TypeOK /\ NetTypeOK /\ Paired(a, p) /\ UNCHANGED <<req, server, wanted>>
      /\ Unopposed(d, c)'
  BY SysTypeParts DEF netvars, wishes, Kept, Unopposed
<1>b. CycleTakesStep(a, p) /\ \A q \in Proc : q = p
  BY <1>a, LocalFacts DEF OneProcess
<1>c. /\ \A e \in Device, q \in Proc : e # a => sync'[e][q] = sync[e][q]
      /\ \A e \in Device : e # a => db'[e] = db[e] /\ shadow'[e] = shadow[e]
  BY <1>a, <1>b, CycleFrame
<1>1. CASE /\ s.pc \in {"idle", "read", "load"}
           /\ sync'[a][p].pc \in {"read", "load", "post"}
           /\ UNCHANGED <<db, shadow, faults>>
  <2>1. \A q \in Proc : ~ Told(a, q) /\ ~ Told(a, q)'
    BY <1>a, <1>b, <1>1 DEF Told, Paired
  <2>2. \A e \in Device, q \in Proc :
          /\ sync'[e][q].pc = "save" <=> sync[e][q].pc = "save"
          /\ Told(e, q)' <=> Told(e, q)
          /\ Told(e, q) => (c \in Reply(e, q)' <=> c \in Reply(e, q))
    BY <1>a, <1>b, <1>c, <1>1, <2>1 DEF Told, Reply
  <2> QED BY <1>a, <1>1, <2>2, KeptStays DEF OnServer
<1>2. CASE /\ WriteDB(a, p) /\ s.pc = "write" /\ sync'[a][p].pc = "save"
           /\ sync'[a][p].resp = s.resp
  <2>1. s.k \in Install /\ \A k \in Install : k = s.k
    BY <1>a, <1>2 DEF TypeOK, OneInstall
  <2>2. \A k \in Install : db'[a][k] = s.resp
    BY <1>a, <1>2, <2>1 DEF WriteDB, TypeOK
  <2>3. shadow' = shadow /\ req[a][p].st = "none"
    BY <1>a, <1>2 DEF WriteDB, Paired
  <2>4. CASE a = d
    <3>1. Told(d, p) /\ Told(d, p)' /\ Reply(d, p) = s.resp /\ Reply(d, p)' = s.resp
      BY <1>a, <1>2, <2>3, <2>4 DEF Told, Reply
    <3>2. Heard(d, c)'
      BY <1>a, <1>b, <2>2, <2>4, <3>1 DEF Kept, Heard, OnServer
    <3>3. \A e \in Device \ {d} : Repeats(e, c)'
      BY <1>c, <2>4 DEF Kept, Repeats
    <3> QED BY <1>a, <3>2, <3>3 DEF Kept
  <2>5. CASE a # d
    <3>1. Heard(d, c)'
      BY <1>a, <1>c, <2>5 DEF Kept, Heard, Told, Reply, OnServer
    <3>2. ASSUME NEW e \in Device \ {d} PROVE Repeats(e, c)'
      <4>1. CASE e = a
        BY <1>2, <4>1 DEF Repeats
      <4>2. CASE e # a
        BY <1>c, <3>2, <4>2 DEF Kept, Repeats
      <4> QED BY <4>1, <4>2
    <3> QED BY <1>a, <3>1, <3>2 DEF Kept
  <2> QED BY <2>4, <2>5
<1>3. CASE SaveShadow(a, p) /\ s.pc = "save" /\ sync'[a][p] = IdleSync
  <2>1. s.k \in Install /\ \A k \in Install : k = s.k
    BY <1>a, <1>3 DEF TypeOK, OneInstall
  <2>2. /\ shadow'[a] = s.resp /\ db' = db /\ req[a][p].st = "none"
        /\ \A k \in Install : db[a][k] = s.resp
    BY <1>a, <1>3, <2>1 DEF SaveShadow, TypeOK, CycleInv, LocalsInv, Current, Paired
  <2>3. CASE a = d
    <3>1. Told(d, p) /\ Reply(d, p) = s.resp /\ \A q \in Proc : ~ Told(d, q)'
      BY <1>a, <1>b, <1>3, <2>2, <2>3, IdleSyncType DEF Told, Reply
    <3>2. Heard(d, c)'
      BY <1>a, <2>2, <2>3, <3>1 DEF Kept, Heard, OnServer
    <3>3. \A e \in Device \ {d} : Repeats(e, c)'
      BY <1>c, <2>3 DEF Kept, Repeats
    <3> QED BY <1>a, <3>2, <3>3 DEF Kept
  <2>4. CASE a # d
    <3>1. Heard(d, c)'
      BY <1>a, <1>c, <2>4 DEF Kept, Heard, Told, Reply, OnServer
    <3>2. ASSUME NEW e \in Device \ {d} PROVE Repeats(e, c)'
      <4>1. CASE e = a
        BY <2>2, <4>1 DEF Repeats
      <4>2. CASE e # a
        BY <1>c, <3>2, <4>2 DEF Kept, Repeats
      <4> QED BY <4>1, <4>2
    <3> QED BY <1>a, <3>1, <3>2 DEF Kept
  <2> QED BY <2>3, <2>4
<1> QED BY <1>a, <1>1, <1>2, <1>3, LocalFacts

(* wire.go:28-64, handler.go:101: what is sent, stamped or received changes *)
(* only where the exchange is.                                              *)
LEMMA KeptExchange ==
  ASSUME SysTypeOK, NEW a \in Device, NEW p \in Proc,
         Send(a, p) \/ Arrive(a, p) \/ Answer(a, p),
         NEW d \in Device, NEW c \in Channel, Kept(d, c)
  PROVE  Kept(d, c)'
<1>a. TypeOK /\ NetTypeOK /\ Paired(a, p)
  BY SysTypeParts
<1>1. /\ OnlyMoves(a, p) /\ UNCHANGED <<db, shadow, server, wanted>>
      /\ sync[a][p].pc # "save" /\ sync'[a][p].pc # "save"
      /\ \A e \in Device, q \in Proc : e # a \/ q # p =>
           overruled'[e][q] = overruled[e][q]
  BY <1>a, SendFacts, ArriveFacts, AnswerFacts DEF vars, wishes, Paired
<1>2. /\ Told(a, p)' <=> Told(a, p)
      /\ Told(a, p) => Reply(a, p)' = Reply(a, p)
      /\ req'[a][p].st = "stamped" => c \notin overruled'[a][p]
  <2>1. CASE Send(a, p)
    BY <1>a, <2>1, SendFacts DEF Told, Paired
  <2>2. CASE Arrive(a, p)
    BY <1>a, <2>2, ArriveFacts DEF Told, Paired, vars
  <2>3. CASE Answer(a, p)
    BY <1>a, <2>3, AnswerFacts, NoRequestType DEF Told, Reply
  <2> QED BY <2>1, <2>2, <2>3
<1>3. \A e \in Device, q \in Proc :
        /\ sync'[e][q].pc = "save" <=> sync[e][q].pc = "save"
        /\ Told(e, q)' <=> Told(e, q)
        /\ Told(e, q) => (c \in Reply(e, q)' <=> c \in Reply(e, q))
  <2>1. ASSUME NEW e \in Device, NEW q \in Proc, e # a \/ q # p
        PROVE  sync'[e][q] = sync[e][q] /\ req'[e][q] = req[e][q]
    BY <1>1, <2>1 DEF OnlyMoves
  <2> QED BY <1>1, <1>2, <2>1 DEF Told, Reply
<1>4. Unopposed(d, c)'
  <2>1. ASSUME NEW q \in Proc, req'[d][q].st = "stamped" PROVE c \notin overruled'[d][q]
    <3>1. CASE d = a /\ q = p
      BY <1>2, <2>1, <3>1
    <3>2. CASE d # a \/ q # p
      BY <1>1, <2>1, <3>2 DEF OnlyMoves, Kept, Unopposed
    <3> QED BY <3>1, <3>2
  <2> QED BY <2>1 DEF Unopposed
<1> QED BY <1>1, <1>3, <1>4, KeptStays DEF OnServer

(* store.go:94-108: a batch of device a is applied. *)
LEMMA KeptCommit ==
  ASSUME OneProcess, CycleInv, SysTypeOK, TellInv,
         NEW a \in Device, NEW p \in Proc, Commit(a, p),
         NEW d \in Device, NEW c \in Channel, Kept(d, c)
  PROVE  Kept(d, c)'
<1> DEFINE s == sync[a][p]
           r == req[a][p]
<1>a. TypeOK /\ NetTypeOK /\ Paired(a, p) /\ Tells(a, p)
  BY SysTypeParts DEF TellInv
<1>b. /\ UNCHANGED <<db, shadow, sync, wanted>> /\ OnlyMoves(a, p)
      /\ r.st = "stamped" /\ req'[a][p].st = "answered"
      /\ req'[a][p].reply = SubscribedChannels(server')
      /\ s.pc = "wait" /\ \A q \in Proc : q = p
  BY <1>a, CommitFacts DEF Paired, OneProcess, vars, wishes
<1>c. /\ r.events = buildEvents(a, p) /\ Standing(a, p)
      /\ Apply(r.events, r.at) /\ r.events \in SUBSET Event /\ r.at \in Nat
  BY <1>a, <1>b, CommitFacts DEF Tells
<1>d. s.k \in Install /\ s.cur = db[a][s.k] /\ s.snap = shadow[a]
  BY <1>a, <1>b DEF CycleInv, LocalsInv, Current, TypeOK
<1>1. /\ c \notin overruled[a][p] /\ c \in added(a, p) => OnServer(c)'
      /\ c \notin overruled[a][p] /\ c \in removed(a, p) => ~ OnServer(c)'
      /\ c \notin added(a, p) \cup removed(a, p) => (OnServer(c)' <=> OnServer(c))
  BY <1>a, <1>b, <1>c, OwnBatchDecides DEF OnServer
<1>2. CASE a = d
  <2>1. (\A q \in Proc : ~ Told(d, q)) /\ c \notin overruled[a][p]
    BY <1>b, <1>2 DEF Told, Kept, Unopposed
  <2>2. (OnServer(c) <=> c \in shadow[d]) /\ (c \in db[d][s.k] <=> c \in wanted)
    BY <1>d, <2>1 DEF Kept, Heard
  <2>3. OnServer(c)' <=> c \in wanted
    BY <1>d, <1>1, <1>2, <2>1, <2>2 DEF added, removed
  <2>4. Told(d, p)' /\ (c \in Reply(d, p)' <=> OnServer(c)')
    BY <1>b, <1>2 DEF Told, Reply, OnServer
  <2>5. Heard(d, c)'
    BY <1>b, <2>3, <2>4 DEF Kept, Heard
  <2>6. \A e \in Device \ {d} : Repeats(e, c)'
    BY <1>b DEF Kept, Repeats
  <2>7. Unopposed(d, c)'
    BY <1>b, <1>2 DEF Unopposed
  <2> QED BY <2>5, <2>6, <2>7 DEF Kept
<1>3. CASE a # d
  <2>1. c \in db[a][s.k] <=> c \in shadow[a]
    BY <1>b, <1>d, <1>3 DEF Kept, Repeats
  <2>2. c \notin added(a, p) \cup removed(a, p)
    BY <1>d, <2>1 DEF added, removed
  <2>3. OnServer(c)' <=> OnServer(c)
    BY <1>1, <2>2
  <2>4. Heard(d, c)'
    BY <1>b, <1>3, <2>3 DEF Kept, Heard, Told, Reply, OnlyMoves
  <2>5. \A e \in Device \ {d} : Repeats(e, c)'
    BY <1>b DEF Kept, Repeats
  <2>6. ASSUME NEW q \in Proc, req'[d][q].st = "stamped" PROVE c \notin overruled'[d][q]
    <3>1. req[d][q].st = "stamped" /\ c \notin overruled[d][q]
      BY <1>b, <1>3, <2>6 DEF OnlyMoves, Kept, Unopposed
    <3>2. /\ [channel |-> c, action |-> Add] \notin r.events
          /\ [channel |-> c, action |-> Remove] \notin r.events
      BY <1>a, <1>c, <2>2, EventsType
    <3>3. c \notin Contrary(req[d][q].events, r.events)
      BY <3>2 DEF Contrary
    <3> QED BY <1>a, <1>c, <3>1, <3>3, ApplyFacts
  <2>7. Unopposed(d, c)'
    BY <2>6 DEF Unopposed
  <2> QED BY <2>4, <2>5, <2>7 DEF Kept
<1> QED BY <1>2, <1>3

(* While nothing is lost and nothing fails, every step keeps what the users *)
(* of channels with one editor want within reach.                           *)
LEMMA KeptNext ==
  ASSUME OneProcess, OneInstall
  PROVE  SysInv /\ [SysNext]_sysvars => KeptInv'
<1> SUFFICES ASSUME SysInv, [SysNext]_sysvars, lost' = 0, faults' = 0
             PROVE  /\ stray' = {}
                    /\ \A d \in Device, c \in Channel :
                         editors'[c] \subseteq {d} => Kept(d, c)'
  BY DEF KeptInv
<1>a. TypeOK /\ NetTypeOK /\ lost \in Nat /\ faults \in Nat
  <2>1. TypeOK /\ NetTypeOK
    BY SysTypeParts DEF SysInv
  <2> QED BY <2>1 DEF TypeOK, NetTypeOK
<1>b. ASSUME lost = 0, faults = 0
      PROVE  /\ stray = {}
             /\ \A d \in Device, c \in Channel : editors[c] \subseteq {d} => Kept(d, c)
  BY <1>b DEF SysInv, KeptInv
<1>1. ASSUME NEW a \in Device, NEW x \in Channel, UserToggles(a, x)
      PROVE  /\ stray' = {}
             /\ \A d \in Device, c \in Channel : editors'[c] \subseteq {d} => Kept(d, c)'
  <2>1. lost = 0 /\ faults = 0 /\ stray' = stray
    BY <1>1 DEF UserToggles, Toggle, netvars
  <2>2. \A c \in Channel : editors[c] \subseteq editors'[c]
    BY <1>a, <1>1 DEF UserToggles, NetTypeOK
  <2> QED BY <1>1, <1>b, <2>1, <2>2, KeptToggle DEF SysInv
<1>2. ASSUME NEW a \in Device, Close(a) \/ Die(a) \/ \E k \in Install : Open(a, k),
             UNCHANGED <<netvars, wishes>>
      PROVE  /\ stray' = {}
             /\ \A d \in Device, c \in Channel : editors'[c] \subseteq {d} => Kept(d, c)'
  <2>1. /\ UNCHANGED <<db, shadow, sync, req, server, overruled, wanted>>
        /\ UNCHANGED <<editors, lost, stray>>
    BY <1>2 DEF Open, Starts, Close, Die, Gone, files, netvars, wishes
  <2>2. faults = 0
    BY <1>a, <1>2 DEF Open, Starts, Close, Die, budget
  <2> QED BY <1>b, <2>1, <2>2, KeptSame
<1>3. ASSUME (\E a \in Device : LoseShadow(a)) \/ LoseState PROVE FALSE
  BY <1>a, <1>3 DEF LoseShadow, LoseState
<1>4. ASSUME NEW a \in Device, NEW p \in Proc, GiveUp(a, p) \/ Killed(a, p) PROVE FALSE
  BY <1>a, <1>4, EndFacts
<1>5. ASSUME NEW a \in Device, NEW p \in Proc,
             LocalStep(a, p), UNCHANGED <<netvars, wishes>>
      PROVE  /\ stray' = {}
             /\ \A d \in Device, c \in Channel : editors'[c] \subseteq {d} => Kept(d, c)'
  <2>1. UNCHANGED <<lost, stray, editors>>
    BY <1>5 DEF netvars, wishes
  <2>2. faults = 0
    BY <1>5 DEF LocalStep, Guard, ReadDB, LoadShadow, WriteDB, SaveShadow, budget
  <2> QED BY <1>5, <1>b, <2>1, <2>2, KeptLocal DEF SysInv
<1>6. ASSUME NEW a \in Device, NEW p \in Proc, Send(a, p) \/ Arrive(a, p) \/ Answer(a, p)
      PROVE  /\ stray' = {}
             /\ \A d \in Device, c \in Channel : editors'[c] \subseteq {d} => Kept(d, c)'
  <2>1. UNCHANGED <<lost, stray, editors, faults>>
    BY <1>a, <1>6, SendFacts, ArriveFacts, AnswerFacts DEF vars, wishes
  <2> QED BY <1>6, <1>b, <2>1, KeptExchange DEF SysInv
<1>7. ASSUME NEW a \in Device, NEW p \in Proc, Commit(a, p)
      PROVE  /\ stray' = {}
             /\ \A d \in Device, c \in Channel : editors'[c] \subseteq {d} => Kept(d, c)'
  <2>1. UNCHANGED <<lost, stray, editors, faults>>
    BY <1>a, <1>7, CommitFacts DEF vars, wishes
  <2> QED BY <1>7, <1>b, <2>1, KeptCommit DEF SysInv
<1>8. CASE LateStep
  <2>1. PICK r \in stray : LateArrive(r) \/ LateCommit(r)
    BY <1>8 DEF LateStep
  <2>2. lost = 0 /\ faults = 0
    BY <2>1 DEF LateArrive, LateCommit, vars
  <2> QED BY <1>b, <2>1, <2>2
<1>9. CASE UNCHANGED sysvars
  <2>1. /\ UNCHANGED <<db, shadow, sync, req, server, overruled, wanted>>
        /\ UNCHANGED <<editors, lost, stray, faults>>
    BY <1>9 DEF sysvars, vars, netvars, wishes
  <2> QED BY <1>b, <2>1, KeptSame
<1> QED BY <1>1, <1>2, <1>3, <1>4, <1>5, <1>6, <1>7, <1>8, <1>9
        DEF SysNext, CycleStep, UserStep

(* Only a FreeTube that is installed has a user. *)
LEMMA EditorsNext == SysTypeOK /\ EditorsInv /\ [SysNext]_sysvars => EditorsInv'
<1> SUFFICES ASSUME SysTypeOK, EditorsInv, [SysNext]_sysvars, Install = {}
             PROVE  \A c \in Channel : editors'[c] = {}
  BY DEF EditorsInv
<1>a. TypeOK /\ NetTypeOK
  BY SysTypeParts
<1>1. ASSUME NEW a \in Device, NEW x \in Channel, UserToggles(a, x) PROVE FALSE
  BY <1>1, <1>a DEF UserToggles, Toggle, TypeOK
<1>2. ASSUME NEW a \in Device, UserStep(a) \/ LoseShadow(a) PROVE editors' = editors
  BY <1>1, <1>2 DEF UserStep, LoseShadow, wishes
<1>3. ASSUME NEW a \in Device, NEW p \in Proc,
             CycleStep(a, p) \/ GiveUp(a, p) \/ Killed(a, p)
      PROVE  editors' = editors
  BY <1>3 DEF CycleStep, Send, Arrive, Commit, Answer, GiveUp, Killed, wishes
<1>4. LateStep \/ LoseState \/ UNCHANGED sysvars => editors' = editors
  BY DEF LateStep, LateArrive, LateCommit, LoseState, wishes, sysvars
<1> QED BY <1>2, <1>3, <1>4 DEF SysNext, EditorsInv

(* At the start a channel that one device has is its user's own. *)
LEMMA InitSysInv == ASSUME OneInstall PROVE SysInit => SysInv
<1> SUFFICES ASSUME SysInit PROVE SysInv
  OBVIOUS
<1>a. TypeOK /\ NetTypeOK
  BY InitSysTypeOK, SysTypeParts
<1>1. CycleInv /\ SysTypeOK
  BY InitEventsInv, InitSysTypeOK DEF EventsInv, SysInit
<1>2. \A d \in Device, p \in Proc :
        /\ req[d][p].st = "none" /\ sync[d][p].pc = "idle" /\ ~ Told(d, p)
  BY NoRequestType, IdleSyncType DEF SysInit, Init, Told
<1>3. TellInv
  BY InitTell
<1>4. \A c \in Channel : editors[c] = {d \in Device : \E k \in Install : c \in db[d][k]}
  BY DEF SysInit
<1>5. wanted = UNION {db[d][k] : d \in Device, k \in Install}
  BY DEF SysInit
<1>6. ASSUME NEW d \in Device, NEW c \in Channel, editors[c] \subseteq {d}
      PROVE  Kept(d, c)
  <2>1. \A e \in Device \ {d}, k \in Install : c \notin db[e][k]
    BY <1>4, <1>6
  <2>2. \A k \in Install : c \in db[d][k] <=> c \in wanted
    BY <1>5, <2>1 DEF OneInstall
  <2>3. ~ OnServer(c) /\ \A e \in Device : c \notin shadow[e]
    BY DEF SysInit, Init, OnServer, SubscribedChannels, Subscribed, EmptyState
  <2>4. Heard(d, c)
    BY <1>2, <2>2, <2>3 DEF Heard
  <2>5. \A e \in Device \ {d} : Repeats(e, c)
    BY <2>1, <2>3 DEF Repeats
  <2>6. Unopposed(d, c)
    BY <1>2 DEF Unopposed
  <2> QED BY <2>4, <2>5, <2>6 DEF Kept
<1>7. EditorsInv /\ KeptInv
  BY <1>4, <1>6 DEF EditorsInv, KeptInv, SysInit
<1> QED BY <1>1, <1>3, <1>7 DEF SysInv

(* What is within reach is on the server, or a difference to be sent. *)
LEMMA KeptUnderWay == SysInv => ChangeUnderWay
<1> SUFFICES ASSUME SysInv, lost = 0, faults = 0, NEW d \in Device, NEW c \in Channel,
                    editors[c] = {d}
             PROVE  \/ c \in SubscribedChannels(server) <=> c \in wanted
                    \/ \E k \in Install : c \in SymDiff(db[d][k], shadow[d])
  BY DEF ChangeUnderWay
<1>1. Heard(d, c)
  BY DEF SysInv, KeptInv, Kept
<1>2. PICK k \in Install : TRUE
  BY DEF SysInv, EditorsInv
<1>3. CASE \E p \in Proc : Told(d, p)
  BY <1>1, <1>3 DEF Heard, OnServer
<1>4. CASE \A p \in Proc : ~ Told(d, p)
  BY <1>1, <1>2, <1>4 DEF Heard, OnServer, SymDiff
<1> QED BY <1>3, <1>4

-----------------------------------------------------------------------------
(* Server, messages and history are typed in every state, and a request is  *)
(* under way exactly while its process waits, whatever is lost or fails.    *)
THEOREM SystemTypeCorrect == SysSpec => []SysTypeOK
BY InitSysTypeOK, SysTypeNext, PTL DEF SysSpec

(* handler.go:101, README.md:117-125: what a cycle writes keeps what it has *)
(* told the server, whatever other devices, second processes and late       *)
(* requests do meanwhile, and in whatever order the server applies what it  *)
(* has stamped, but for the channels on which a batch that is stamped later *)
(* and applied first says the opposite.                                     *)
THEOREM KeepsOwnChanges == SysSpec => OwnChangesKept
<1> DEFINE Inv == SysTypeOK /\ TellInv
<1>1. SysInit => Inv
  BY InitSysTypeOK, InitTell
<1>2. Inv /\ [SysNext]_sysvars => Inv'
  BY SysTypeNext, TellNext
<1>3. Inv => [\A d \in Device, p \in Proc :
                WriteDB(d, p) =>
                  \A c \in (added(d, p) \cup removed(d, p)) \ overruled[d][p] :
                    c \in db'[d][sync[d][p].k] <=> c \in sync[d][p].cur]_vars
  <2> SUFFICES ASSUME Inv, NEW d \in Device, NEW p \in Proc, WriteDB(d, p),
                      NEW c \in (added(d, p) \cup removed(d, p)) \ overruled[d][p]
               PROVE  c \in db'[d][sync[d][p].k] <=> c \in sync[d][p].cur
    OBVIOUS
  <2>1. TypeOK /\ sync[d][p].pc = "write" /\ sync[d][p].k \in Install
    BY SysTypeParts DEF WriteDB, TypeOK
  <2>2. db'[d][sync[d][p].k] = sync[d][p].resp
    BY <2>1 DEF WriteDB, TypeOK
  <2>3. c \in sync[d][p].resp <=> c \in added(d, p)
    BY <2>1 DEF TellInv, Tells, Honours, Ours
  <2> QED BY <2>2, <2>3 DEF added, removed
<1> QED BY <1>1, <1>2, <1>3, PTL DEF SysSpec, OwnChangesKept

(* shadow.go:1-5: with one install, besides, no change of a user's gets     *)
(* forgotten on the way, while nothing is lost and nothing fails.           *)
THEOREM NoChangeForgotten ==
  ASSUME ~ FreeTubeMayRace, OneProcess, OneInstall PROVE SysSpec => []ChangeUnderWay
<1>1. SysInv /\ [SysNext]_sysvars => SysInv'
  BY SysCycleNext, SysTypeNext, TellNext, EditorsNext, KeptNext DEF SysInv
<1> QED BY <1>1, InitSysInv, KeptUnderWay, PTL DEF SysSpec
=============================================================================

-------------------------- MODULE ClientSyncProofs --------------------------
(***************************************************************************)
(* Sync cycles, for any number of devices, channels and faults.  Nothing   *)
(* keeps FreeTube or a second cycle out once a cycle has passed its guard, *)
(* and one shadow serves one install only: what a cycle's events mean is   *)
(* known only where FreeTube is not opened and no second process runs      *)
(* meanwhile, for one install.  The theorem about them assumes all three.  *)
(***************************************************************************)
EXTENDS ClientSync, TLAPS

OneProcess == \A p, q \in Proc : p = q
OneInstall == \A k, l \in Install : k = l

(* FreeTube and a cycle exclude each other. *)
ExclusiveInv ==
  \A d \in Device, p \in Proc : sync[d][p].pc # "idle" => ft[d] = Off

(* A FreeTube that runs has its database in memory. *)
MemInv == \A d \in Device : ft[d] # Off => mem[d] = db[d][ft[d]]

(* What a cycle has read or written is still what the files hold. *)
Current(d, p) ==
  LET s == sync[d][p] IN
  /\ s.pc \in {"load", "post", "wait", "write"} => s.cur = db[d][s.k]
  /\ s.pc \in {"post", "wait", "write"}         => s.snap = shadow[d]
  /\ s.pc = "save"                              => s.resp = db[d][s.k]

LocalsInv == \A d \in Device, p \in Proc : Current(d, p)

(* A difference of database and shadow is the user's, or the last reply's. *)
Explained(d, k) ==
  \A c \in SymDiff(db[d][k], shadow[d]) :
    c \in edited[d][k] \/ \E reply \in unsaved[d] : c \in reply <=> c \in db[d][k]

DiffInv == \A d \in Device, k \in Install : Explained(d, k)

CycleInv == TypeOK /\ ExclusiveInv /\ MemInv /\ LocalsInv

EventsInv == CycleInv /\ DiffInv

-----------------------------------------------------------------------------
(* A step of process p that makes its locals r. *)
SetsLocals(d, p, r) ==
  /\ sync' = [sync EXCEPT ![d][p] = r]
  /\ r \in SyncLocals /\ (r.pc # "idle" => r.k \in Install)

(* clientsync.go:60-61: only the process that takes a step sets its locals. *)
LEMMA SyncSet ==
  ASSUME TypeOK, NEW d \in Device, NEW p \in Proc, NEW r, SetsLocals(d, p, r)
  PROVE  /\ sync' \in [Device -> [Proc -> SyncLocals]]
         /\ sync'[d][p] = r
         /\ \A e \in Device, q \in Proc :
              /\ e # d \/ q # p => sync'[e][q] = sync[e][q]
              /\ sync'[e][q].pc # "idle" => sync'[e][q].k \in Install
<1> HIDE DEF SyncLocals
<1> QED BY DEF TypeOK, SetsLocals

(* The locals between cycles are typed. *)
LEMMA IdleSyncType == IdleSync \in SyncLocals /\ IdleSync.pc = "idle"
BY DEF IdleSync, SyncLocals

(* clientsync.go:66-79: a cycle past its guard, of install k. *)
LEMMA GuardLocals ==
  ASSUME TypeOK, NEW d \in Device, NEW p \in Proc, NEW k \in Install,
         sync' = [sync EXCEPT ![d][p].pc = "read", ![d][p].k = k]
  PROVE  SetsLocals(d, p, [sync[d][p] EXCEPT !.pc = "read", !.k = k])
<1> DEFINE s == sync[d][p]
<1>1. s \in SyncLocals
  BY DEF TypeOK
<1>2. sync' = [sync EXCEPT ![d][p] = [s EXCEPT !.pc = "read", !.k = k]]
  BY DEF TypeOK
<1> QED BY <1>1, <1>2 DEF SyncLocals, SetsLocals

(* clientsync.go:81-97: what a cycle reads. *)
LEMMA ReadLocals ==
  ASSUME TypeOK, NEW d \in Device, NEW p \in Proc
  PROVE  LET s == sync[d][p] IN
         /\ ReadDB(d, p) =>
              SetsLocals(d, p, [s EXCEPT !.pc = "load", !.cur = db[d][s.k]])
         /\ LoadShadow(d, p) =>
              SetsLocals(d, p, [s EXCEPT !.pc = "post", !.snap = shadow[d]])
<1> DEFINE s == sync[d][p]
<1>1. s \in SyncLocals /\ (s.pc # "idle" => s.k \in Install)
  BY DEF TypeOK
<1>2. shadow[d] \in SUBSET Channel /\ \A k \in Install : db[d][k] \in SUBSET Channel
  BY DEF TypeOK
<1>3. ASSUME ReadDB(d, p)
      PROVE  SetsLocals(d, p, [s EXCEPT !.pc = "load", !.cur = db[d][s.k]])
  <2>1. db[d][s.k] \in SUBSET Channel
    BY <1>1, <1>2, <1>3 DEF ReadDB
  <2>2. sync' = [sync EXCEPT ![d][p] = [s EXCEPT !.pc = "load", !.cur = db[d][s.k]]]
    BY <1>3 DEF ReadDB, TypeOK
  <2> QED BY <1>1, <1>3, <2>1, <2>2 DEF ReadDB, SyncLocals, SetsLocals
<1>4. ASSUME LoadShadow(d, p)
      PROVE  SetsLocals(d, p, [s EXCEPT !.pc = "post", !.snap = shadow[d]])
  BY <1>1, <1>2, <1>4 DEF LoadShadow, SyncLocals, SetsLocals, TypeOK
<1> QED BY <1>3, <1>4

(* clientsync.go:102-135: the exchange, and what a cycle writes. *)
LEMMA WriteLocals ==
  ASSUME TypeOK, NEW d \in Device, NEW p \in Proc
  PROVE  LET s == sync[d][p] IN
         /\ Post(d, p) => SetsLocals(d, p, [s EXCEPT !.pc = "wait"])
         /\ \A R \in SUBSET Channel :
              Receive(d, p, R) => SetsLocals(d, p, [s EXCEPT !.pc = "write", !.resp = R])
         /\ WriteDB(d, p) => SetsLocals(d, p, [s EXCEPT !.pc = "save"])
<1> DEFINE s == sync[d][p]
<1>1. s \in SyncLocals /\ (s.pc # "idle" => s.k \in Install)
  BY DEF TypeOK
<1>2. ASSUME Post(d, p) PROVE SetsLocals(d, p, [s EXCEPT !.pc = "wait"])
  BY <1>1, <1>2 DEF Post, SyncLocals, SetsLocals, TypeOK
<1>3. ASSUME NEW R \in SUBSET Channel, Receive(d, p, R)
      PROVE  SetsLocals(d, p, [s EXCEPT !.pc = "write", !.resp = R])
  BY <1>1, <1>3 DEF Receive, SyncLocals, SetsLocals, TypeOK
<1>4. ASSUME WriteDB(d, p) PROVE SetsLocals(d, p, [s EXCEPT !.pc = "save"])
  BY <1>1, <1>4 DEF WriteDB, SyncLocals, SetsLocals, TypeOK
<1> QED BY <1>2, <1>3, <1>4

(* What the steps of a cycle are, from its guard to its end. *)
PassesGuard(d, p, k) ==
  /\ sync' = [sync EXCEPT ![d][p].pc = "read", ![d][p].k = k]
  /\ UNCHANGED <<files, freetube, budget, history>>

GoesOn(d, p) ==
  \/ ReadDB(d, p) \/ LoadShadow(d, p) \/ Post(d, p) \/ WriteDB(d, p)
  \/ \E R \in SUBSET Channel : Receive(d, p, R)

\* The cycle ends, and nothing but its locals changes.
GivesUp(d, p) ==
  /\ sync[d][p].pc # "idle"
  /\ sync' = [sync EXCEPT ![d][p] = IdleSync]
  /\ UNCHANGED <<files, freetube, budget, history>>

EndsCycle(d, p) == SaveShadow(d, p) \/ GivesUp(d, p) \/ Abort(d, p)

CycleTakesStep(d, p) ==
  (\E k \in Install : PassesGuard(d, p, k)) \/ GoesOn(d, p) \/ EndsCycle(d, p)

(* clientsync.go:60-135: a cycle that goes on is of the install it was of. *)
LEMMA GoesOnLocals ==
  ASSUME TypeOK, NEW d \in Device, NEW p \in Proc, GoesOn(d, p)
  PROVE  /\ sync[d][p].pc # "idle"
         /\ \E r : SetsLocals(d, p, r) /\ r.k = sync[d][p].k
<1> DEFINE s == sync[d][p]
<1>1. s \in SyncLocals
  BY DEF TypeOK
<1>2. s.pc # "idle"
  BY DEF GoesOn, ReadDB, LoadShadow, Post, Receive, WriteDB
<1>3. CASE ReadDB(d, p)
  <2>1. [s EXCEPT !.pc = "load", !.cur = db[d][s.k]].k = s.k
    BY <1>1 DEF SyncLocals
  <2> QED BY <1>2, <1>3, <2>1, ReadLocals
<1>4. CASE LoadShadow(d, p)
  <2>1. [s EXCEPT !.pc = "post", !.snap = shadow[d]].k = s.k
    BY <1>1 DEF SyncLocals
  <2> QED BY <1>2, <1>4, <2>1, ReadLocals
<1>5. CASE Post(d, p)
  <2>1. [s EXCEPT !.pc = "wait"].k = s.k
    BY <1>1 DEF SyncLocals
  <2> QED BY <1>2, <1>5, <2>1, WriteLocals
<1>6. ASSUME NEW R \in SUBSET Channel, Receive(d, p, R)
      PROVE  \E r : SetsLocals(d, p, r) /\ r.k = sync[d][p].k
  <2>1. [s EXCEPT !.pc = "write", !.resp = R].k = s.k
    BY <1>1 DEF SyncLocals
  <2> QED BY <1>6, <2>1, WriteLocals
<1>7. CASE WriteDB(d, p)
  <2>1. [s EXCEPT !.pc = "save"].k = s.k
    BY <1>1 DEF SyncLocals
  <2> QED BY <1>2, <1>7, <2>1, WriteLocals
<1> QED BY <1>2, <1>3, <1>4, <1>5, <1>6, <1>7 DEF GoesOn

(* clientsync.go:104-107, 127-135: the end of a cycle leaves it idle. *)
LEMMA EndsLocals ==
  ASSUME TypeOK, NEW d \in Device, NEW p \in Proc, EndsCycle(d, p)
  PROVE  sync[d][p].pc # "idle" /\ SetsLocals(d, p, IdleSync)
BY IdleSyncType DEF EndsCycle, SaveShadow, GivesUp, Abort, SetsLocals

(* clientsync.go:60-135: a step of a cycle keeps everything typed. *)
LEMMA CycleType ==
  ASSUME TypeOK, NEW d \in Device, NEW p \in Proc, CycleTakesStep(d, p)
  PROVE  TypeOK'
<1>1. \E r : SetsLocals(d, p, r)
  BY GuardLocals, GoesOnLocals, EndsLocals DEF CycleTakesStep, PassesGuard
<1>2. /\ sync' \in [Device -> [Proc -> SyncLocals]]
      /\ \A e \in Device, q \in Proc :
           sync'[e][q].pc # "idle" => sync'[e][q].k \in Install
  BY <1>1, SyncSet
<1>3. CASE WriteDB(d, p)
  <2>1. sync[d][p].resp \in SUBSET Channel /\ sync[d][p].k \in Install
    BY <1>3 DEF WriteDB, TypeOK, SyncLocals
  <2>2. /\ db' \in [Device -> [Install -> SUBSET Channel]]
        /\ edited' \in [Device -> [Install -> SUBSET Channel]]
        /\ unsaved' \in [Device -> SUBSET SUBSET Channel]
    BY <1>3, <2>1 DEF WriteDB, TypeOK
  <2> QED BY <1>2, <1>3, <2>2 DEF WriteDB, TypeOK, freetube, budget
<1>4. CASE SaveShadow(d, p)
  <2>1. sync[d][p].resp \in SUBSET Channel
    BY DEF TypeOK, SyncLocals
  <2>2. /\ shadow' \in [Device -> SUBSET Channel]
        /\ unsaved' \in [Device -> SUBSET SUBSET Channel]
    BY <1>4, <2>1 DEF SaveShadow, TypeOK
  <2> QED BY <1>2, <1>4, <2>2 DEF SaveShadow, TypeOK, freetube, budget
<1>5. CASE Abort(d, p)
  <2>1. faults' \in 0..MaxFaults
    BY <1>5, ClientSyncAssumption DEF Abort, TypeOK
  <2> QED BY <1>2, <1>5, <2>1 DEF Abort, TypeOK, files, freetube, history
<1>6. CASE UNCHANGED <<files, freetube, budget, history>>
  BY <1>2, <1>6 DEF TypeOK, files, freetube, budget, history
<1>7. UNCHANGED <<files, freetube, budget, history>>
        \/ WriteDB(d, p) \/ SaveShadow(d, p) \/ Abort(d, p)
  BY DEF CycleTakesStep, PassesGuard, GoesOn, EndsCycle, GivesUp, ReadDB, LoadShadow,
         Post, Receive
<1> QED BY <1>3, <1>4, <1>5, <1>6, <1>7

-----------------------------------------------------------------------------
(* FreeTube's own steps keep everything typed. *)
LEMMA StartsType ==
  ASSUME TypeOK, NEW d \in Device, NEW k \in Install, Starts(d, k), UNCHANGED sync
  PROVE  TypeOK'
<1>1. /\ ft' \in [Device -> Install \cup {Off}] /\ mem' \in [Device -> SUBSET Channel]
      /\ lock' \in [Device -> SUBSET Install]
  BY DEF Starts, TypeOK
<1> QED BY <1>1 DEF Starts, TypeOK, files, budget, history

(* A subscription that is toggled and saved keeps everything typed. *)
LEMMA ToggleType ==
  ASSUME TypeOK, NEW d \in Device, NEW c \in Channel, Toggle(d, c)
  PROVE  TypeOK'
<1>1. ft[d] \in Install /\ SymDiff(mem[d], {c}) \in SUBSET Channel
  BY DEF Toggle, TypeOK, SymDiff
<1>2. mem' \in [Device -> SUBSET Channel] /\ mem'[d] \in SUBSET Channel
  BY <1>1 DEF Toggle, TypeOK
<1>3. /\ db' \in [Device -> [Install -> SUBSET Channel]]
      /\ edited' \in [Device -> [Install -> SUBSET Channel]]
  <2>1. /\ db' = [db EXCEPT ![d][ft[d]] = mem'[d]]
        /\ edited' = [edited EXCEPT ![d][ft[d]] = @ \cup {c}]
    BY DEF Toggle
  <2>2. edited[d][ft[d]] \cup {c} \in SUBSET Channel
    BY <1>1 DEF TypeOK
  <2> QED BY <1>1, <1>2, <2>1, <2>2 DEF TypeOK
<1>4. toggles' \in 0..MaxToggles
  BY ClientSyncAssumption DEF Toggle, TypeOK
<1> QED BY <1>2, <1>3, <1>4 DEF Toggle, TypeOK

(* So does FreeTube's end, with its lock or without. *)
LEMMA ExitType ==
  ASSUME TypeOK, NEW d \in Device, Close(d) \/ Die(d)
  PROVE  TypeOK'
<1>1. /\ ft' \in [Device -> Install \cup {Off}] /\ mem' \in [Device -> SUBSET Channel]
      /\ UNCHANGED <<sync, db, shadow, toggles, edited, unsaved>>
  BY DEF Close, Die, Gone, TypeOK, files, history
<1>2. lock' \in [Device -> SUBSET Install]
  BY DEF Close, Die, TypeOK
<1>3. faults' \in 0..MaxFaults
  BY ClientSyncAssumption DEF Close, Die, TypeOK
<1> QED BY <1>1, <1>2, <1>3 DEF TypeOK

(* At the start everything is typed, whatever the databases hold. *)
LEMMA InitTypeOK == Init => TypeOK
BY IdleSyncType, ClientSyncAssumption DEF Init, TypeOK

(* All of Next, its cycles taken apart into guard, exchange and end. *)
ClientStep ==
  \E d \in Device :
    \/ FreeTubeStep(d)
    \/ \E p \in Proc : \/ \E k \in Install : Guard(d, p, k)
                       \/ GoesOn(d, p) \/ EndsCycle(d, p)

(* clientsync.go:60-135: a dry run and a server that fails end a cycle. *)
LEMMA NextIsClientStep == Next => ClientStep
<1>1. \A d \in Device, p \in Proc : DryRun(d, p) \/ NetworkFailed(d, p) => GivesUp(d, p)
  BY DEF DryRun, NetworkFailed, GivesUp
<1>2. ASSUME NEW d \in Device, NEW p \in Proc,
             \/ LocalStep(d, p) \/ DryRun(d, p) \/ Abort(d, p) \/ Post(d, p)
             \/ NetworkFailed(d, p) \/ \E R \in SUBSET Channel : Receive(d, p, R)
      PROVE  (\E k \in Install : Guard(d, p, k)) \/ GoesOn(d, p) \/ EndsCycle(d, p)
  BY <1>1, <1>2 DEF LocalStep, GoesOn, EndsCycle
<1> QED BY <1>2 DEF Next, ClientStep

(* clientsync.go:60-135: every step keeps everything typed. *)
LEMMA TypeNext == TypeOK /\ (ClientStep \/ UNCHANGED vars) => TypeOK'
<1> SUFFICES ASSUME TypeOK, ClientStep \/ UNCHANGED vars PROVE TypeOK'
  OBVIOUS
<1>1. ASSUME NEW d \in Device, FreeTubeStep(d) PROVE TypeOK'
  BY <1>1, StartsType, ToggleType, ExitType DEF FreeTubeStep, Open
<1>2. ASSUME NEW d \in Device, NEW p \in Proc,
             \/ \E k \in Install : Guard(d, p, k)
             \/ GoesOn(d, p) \/ EndsCycle(d, p)
      PROVE  TypeOK'
  BY <1>2, CycleType DEF Guard, PassesGuard, CycleTakesStep
<1>3. CASE UNCHANGED vars
  BY <1>3 DEF vars, TypeOK
<1> QED BY <1>1, <1>2, <1>3 DEF ClientStep

-----------------------------------------------------------------------------
(* A step of FreeTube's leaves alone every cycle and every other device. *)
LEMMA FreeTubeFrame ==
  ASSUME TypeOK, NEW d \in Device, FreeTubeStep(d)
  PROVE  /\ UNCHANGED <<sync, shadow, unsaved>>
         /\ \A e \in Device \ {d} : /\ ft'[e] = ft[e] /\ mem'[e] = mem[e]
                                    /\ db'[e] = db[e] /\ edited'[e] = edited[e]
         /\ ~ (\E c \in Channel : Toggle(d, c)) => UNCHANGED <<db, edited>>
<1>1. CASE \E k \in Install : Open(d, k)
  BY <1>1 DEF Open, Starts, TypeOK, files, history
<1>2. CASE Close(d) \/ Die(d)
  BY <1>2 DEF Close, Die, Gone, TypeOK, files, history
<1>3. CASE \E c \in Channel : Toggle(d, c)
  BY <1>3 DEF Toggle, TypeOK
<1> QED BY <1>1, <1>2, <1>3 DEF FreeTubeStep

(* A step of a cycle leaves alone FreeTube and every other device. *)
LEMMA CycleFrame ==
  ASSUME TypeOK, NEW d \in Device, NEW p \in Proc, CycleTakesStep(d, p)
  PROVE  /\ UNCHANGED <<ft, mem, lock>>
         /\ \A e \in Device, q \in Proc : e # d \/ q # p => sync'[e][q] = sync[e][q]
         /\ \A e \in Device \ {d} : /\ db'[e] = db[e] /\ shadow'[e] = shadow[e]
                                    /\ edited'[e] = edited[e] /\ unsaved'[e] = unsaved[e]
<1>1. \E r : SetsLocals(d, p, r)
  BY GuardLocals, GoesOnLocals, EndsLocals DEF CycleTakesStep, PassesGuard
<1>2. \A e \in Device, q \in Proc : e # d \/ q # p => sync'[e][q] = sync[e][q]
  BY <1>1, SyncSet
<1>3. CASE WriteDB(d, p)
  BY <1>2, <1>3 DEF WriteDB, TypeOK, freetube
<1>4. CASE SaveShadow(d, p)
  BY <1>2, <1>4 DEF SaveShadow, TypeOK, freetube
<1>5. CASE UNCHANGED <<files, freetube, history>>
  BY <1>2, <1>5 DEF files, freetube, history
<1>6. UNCHANGED <<files, freetube, history>> \/ WriteDB(d, p) \/ SaveShadow(d, p)
  BY DEF CycleTakesStep, PassesGuard, GoesOn, EndsCycle, GivesUp, Abort, ReadDB,
         LoadShadow, Post, Receive
<1> QED BY <1>3, <1>4, <1>5, <1>6

(* guard.go:48-66: a cycle starts when FreeTube is closed. *)
LEMMA GuardPasses ==
  ASSUME NEW d \in Device, NEW p \in Proc, NEW k \in Install, Guard(d, p, k)
  PROVE  ft[d] = Off /\ PassesGuard(d, p, k)
BY DEF Guard, IsSafeToWrite, ProcessRunning, PassesGuard

(* guard.go:117: FreeTube and cycles exclude each other, unless it may be  *)
(* opened while one is under way.                                          *)
LEMMA ExclusiveNext ==
  ASSUME ~ FreeTubeMayRace, TypeOK, ExclusiveInv, ClientStep \/ UNCHANGED vars
  PROVE  ExclusiveInv'
<1>1. ASSUME NEW d \in Device, FreeTubeStep(d) PROVE ExclusiveInv'
  <2>1. CASE \E k \in Install : Open(d, k)
    BY <1>1, <2>1, FreeTubeFrame DEF Open, ExclusiveInv
  <2>2. CASE Close(d) \/ Die(d)
    <3>1. ft'[d] = Off
      BY <2>2 DEF Close, Die, Gone, TypeOK
    <3> QED BY <1>1, <3>1, FreeTubeFrame DEF ExclusiveInv
  <2>3. CASE \E c \in Channel : Toggle(d, c)
    BY <2>3 DEF Toggle, ExclusiveInv
  <2> QED BY <1>1, <2>1, <2>2, <2>3 DEF FreeTubeStep
<1>2. ASSUME NEW d \in Device, NEW p \in Proc,
             \/ \E k \in Install : Guard(d, p, k)
             \/ GoesOn(d, p) \/ EndsCycle(d, p)
      PROVE  ExclusiveInv'
  <2>1. CycleTakesStep(d, p)
    BY <1>2, GuardPasses DEF CycleTakesStep
  <2>2. sync'[d][p].pc # "idle" => ft[d] = Off
    BY <1>2, GuardPasses, GoesOnLocals, EndsLocals, SyncSet, IdleSyncType DEF ExclusiveInv
  <2> QED BY <2>1, <2>2, CycleFrame DEF ExclusiveInv
<1>3. CASE UNCHANGED vars
  BY <1>3 DEF vars, ExclusiveInv
<1> QED BY <1>1, <1>2, <1>3 DEF ClientStep

(* What FreeTube has in memory is what it last read or wrote. *)
LEMMA MemNext ==
  ASSUME TypeOK, ExclusiveInv, MemInv, ClientStep \/ UNCHANGED vars
  PROVE  MemInv'
<1>1. ASSUME NEW d \in Device, FreeTubeStep(d) PROVE MemInv'
  <2>1. CASE \E k \in Install : Open(d, k)
    <3>1. ft'[d] # Off => mem'[d] = db'[d][ft'[d]]
      BY <2>1 DEF Open, Starts, TypeOK, files
    <3> QED BY <1>1, <3>1, FreeTubeFrame DEF MemInv
  <2>2. CASE Close(d) \/ Die(d)
    <3>1. ft'[d] = Off
      BY <2>2 DEF Close, Die, Gone, TypeOK
    <3> QED BY <1>1, <3>1, FreeTubeFrame DEF MemInv
  <2>3. CASE \E c \in Channel : Toggle(d, c)
    <3>1. ft[d] \in Install /\ ft' = ft /\ db'[d][ft[d]] = mem'[d]
      BY <2>3 DEF Toggle, TypeOK
    <3> QED BY <1>1, <3>1, FreeTubeFrame DEF MemInv
  <2> QED BY <1>1, <2>1, <2>2, <2>3 DEF FreeTubeStep
<1>2. ASSUME NEW d \in Device, NEW p \in Proc,
             \/ \E k \in Install : Guard(d, p, k)
             \/ GoesOn(d, p) \/ EndsCycle(d, p)
      PROVE  MemInv'
  <2>1. CycleTakesStep(d, p)
    BY <1>2, GuardPasses DEF CycleTakesStep
  <2>2. CASE ~ WriteDB(d, p)
    <3>1. db' = db
      BY <2>1, <2>2 DEF CycleTakesStep, PassesGuard, GoesOn, EndsCycle, GivesUp, Abort,
                        ReadDB, LoadShadow, Post, Receive, SaveShadow, files
    <3> QED BY <2>1, <3>1, CycleFrame DEF MemInv
  <2>3. CASE WriteDB(d, p)
    <3>1. ft[d] = Off
      BY <2>3 DEF WriteDB, ExclusiveInv
    <3> QED BY <2>1, <3>1, CycleFrame DEF MemInv
  <2> QED BY <2>2, <2>3
<1>3. CASE UNCHANGED vars
  BY <1>3 DEF vars, MemInv
<1> QED BY <1>1, <1>2, <1>3 DEF ClientStep

(* clientsync.go:81-132: what a cycle works on is what its own step made   *)
(* of it: it reads what the files hold and writes what it says.            *)
LEMMA OwnStepCurrent ==
  ASSUME TypeOK, NEW d \in Device, NEW p \in Proc, Current(d, p),
         (\E k \in Install : Guard(d, p, k)) \/ GoesOn(d, p) \/ EndsCycle(d, p)
  PROVE  Current(d, p)'
<1> DEFINE s == sync[d][p]
<1>1. s \in SyncLocals /\ (s.pc # "idle" => s.k \in Install)
  BY DEF TypeOK
<1>2. CASE \E k \in Install : Guard(d, p, k)
  <2>1. PICK k \in Install : PassesGuard(d, p, k)
    BY <1>2, GuardPasses
  <2>2. sync'[d][p] = [s EXCEPT !.pc = "read", !.k = k]
    BY <2>1, GuardLocals, SyncSet DEF PassesGuard
  <2>3. sync'[d][p].pc = "read"
    BY <1>1, <2>2 DEF SyncLocals
  <2> QED BY <2>3 DEF Current
<1>3. CASE EndsCycle(d, p)
  <2>1. sync'[d][p].pc = "idle"
    BY <1>3, EndsLocals, SyncSet, IdleSyncType
  <2> QED BY <2>1 DEF Current
<1>4. CASE ReadDB(d, p)
  <2>1. sync'[d][p] = [s EXCEPT !.pc = "load", !.cur = db[d][s.k]]
    <3>1. SetsLocals(d, p, [s EXCEPT !.pc = "load", !.cur = db[d][s.k]])
      BY <1>4, ReadLocals
    <3> QED BY <3>1, SyncSet
  <2>2. sync'[d][p].pc = "load" /\ sync'[d][p].cur = db[d][s.k] /\ sync'[d][p].k = s.k
    BY <1>1, <2>1 DEF SyncLocals
  <2>3. UNCHANGED <<db, shadow>>
    BY <1>4 DEF ReadDB, files
  <2> QED BY <2>2, <2>3 DEF Current
<1>5. CASE LoadShadow(d, p)
  <2>1. sync'[d][p] = [s EXCEPT !.pc = "post", !.snap = shadow[d]] /\ s.pc = "load"
    BY <1>5, ReadLocals, SyncSet DEF LoadShadow
  <2>2. /\ sync'[d][p].pc = "post" /\ sync'[d][p].snap = shadow[d]
        /\ sync'[d][p].k = s.k /\ sync'[d][p].cur = s.cur
    BY <1>1, <2>1 DEF SyncLocals
  <2>3. UNCHANGED <<db, shadow>>
    BY <1>5 DEF LoadShadow, files
  <2> QED BY <2>1, <2>2, <2>3 DEF Current
<1>6. CASE Post(d, p)
  <2>1. sync'[d][p] = [s EXCEPT !.pc = "wait"] /\ s.pc = "post"
    BY <1>6, WriteLocals, SyncSet DEF Post
  <2>2. /\ sync'[d][p].pc = "wait" /\ sync'[d][p].snap = s.snap
        /\ sync'[d][p].k = s.k /\ sync'[d][p].cur = s.cur
    BY <1>1, <2>1 DEF SyncLocals
  <2>3. UNCHANGED <<db, shadow>>
    BY <1>6 DEF Post, files
  <2> QED BY <2>1, <2>2, <2>3 DEF Current
<1>7. CASE \E R \in SUBSET Channel : Receive(d, p, R)
  <2>1. PICK R \in SUBSET Channel : Receive(d, p, R)
    BY <1>7
  <2>2. sync'[d][p] = [s EXCEPT !.pc = "write", !.resp = R] /\ s.pc = "wait"
    <3>1. SetsLocals(d, p, [s EXCEPT !.pc = "write", !.resp = R])
      BY <2>1, WriteLocals
    <3> QED BY <2>1, <3>1, SyncSet DEF Receive
  <2>3. /\ sync'[d][p].pc = "write" /\ sync'[d][p].snap = s.snap
        /\ sync'[d][p].k = s.k /\ sync'[d][p].cur = s.cur
    BY <1>1, <2>2 DEF SyncLocals
  <2>4. UNCHANGED <<db, shadow>>
    BY <2>1 DEF Receive, files
  <2> QED BY <2>2, <2>3, <2>4 DEF Current
<1>8. CASE WriteDB(d, p)
  <2>1. sync'[d][p] = [s EXCEPT !.pc = "save"] /\ s.pc = "write"
    BY <1>8, WriteLocals, SyncSet DEF WriteDB
  <2>2. /\ sync'[d][p].pc = "save" /\ sync'[d][p].k = s.k /\ sync'[d][p].resp = s.resp
    BY <1>1, <2>1 DEF SyncLocals
  <2>3. db'[d][s.k] = s.resp
    BY <1>1, <1>8 DEF WriteDB, TypeOK
  <2> QED BY <2>2, <2>3 DEF Current
<1> QED BY <1>2, <1>3, <1>4, <1>5, <1>6, <1>7, <1>8 DEF GoesOn

(* clientsync.go:81-132: where one process runs, and FreeTube is closed    *)
(* meanwhile, nothing changes the files a cycle works on but the cycle.    *)
LEMMA LocalsNext ==
  ASSUME OneProcess, TypeOK, ExclusiveInv, LocalsInv, ClientStep \/ UNCHANGED vars
  PROVE  LocalsInv'
<1>1. ASSUME NEW d \in Device, FreeTubeStep(d) PROVE LocalsInv'
  <2>1. CASE \E c \in Channel : Toggle(d, c)
    <3>1. \A p \in Proc : sync[d][p].pc = "idle"
      BY <2>1 DEF Toggle, ExclusiveInv
    <3> QED BY <1>1, <3>1, FreeTubeFrame DEF LocalsInv, Current
  <2>2. CASE ~ \E c \in Channel : Toggle(d, c)
    BY <1>1, <2>2, FreeTubeFrame DEF LocalsInv, Current
  <2> QED BY <2>1, <2>2
<1>2. ASSUME NEW d \in Device, NEW p \in Proc,
             \/ \E k \in Install : Guard(d, p, k)
             \/ GoesOn(d, p) \/ EndsCycle(d, p)
      PROVE  LocalsInv'
  <2>1. CycleTakesStep(d, p)
    BY <1>2, GuardPasses DEF CycleTakesStep
  <2>2. Current(d, p)'
    BY <1>2, OwnStepCurrent DEF LocalsInv
  <2>3. \A q \in Proc : q = p
    BY DEF OneProcess
  <2>4. ASSUME NEW e \in Device \ {d}, NEW q \in Proc PROVE Current(e, q)'
    BY <2>1, CycleFrame DEF LocalsInv, Current
  <2> QED BY <2>2, <2>3, <2>4 DEF LocalsInv
<1>3. CASE UNCHANGED vars
  BY <1>3 DEF vars, LocalsInv, Current
<1> QED BY <1>1, <1>2, <1>3 DEF ClientStep

(* A channel toggled is the user's change, the others are as they were. *)
LEMMA ToggleExplained ==
  ASSUME TypeOK, MemInv, NEW d \in Device, NEW c \in Channel, Toggle(d, c),
         NEW k \in Install, Explained(d, k)
  PROVE  Explained(d, k)'
<1>1. CASE k # ft[d]
  <2>1. db'[d][k] = db[d][k] /\ edited'[d][k] = edited[d][k] /\ UNCHANGED <<shadow, unsaved>>
    BY <1>1 DEF Toggle, TypeOK
  <2> QED BY <2>1 DEF Explained
<1>2. CASE k = ft[d]
  <2>1. mem[d] = db[d][k]
    BY <1>2 DEF Toggle, MemInv
  <2>2. mem'[d] = SymDiff(mem[d], {c})
    BY DEF Toggle, TypeOK
  <2>3. db'[d][k] = mem'[d]
    BY <1>2 DEF Toggle, TypeOK
  <2>4. edited'[d][k] = edited[d][k] \cup {c} /\ UNCHANGED <<shadow, unsaved>>
    BY <1>2 DEF Toggle, TypeOK
  <2> QED BY <2>1, <2>2, <2>3, <2>4 DEF Explained, SymDiff
<1> QED BY <1>1, <1>2

(* clientsync.go:109-135: a reply accounts for what it puts in a database, *)
(* until the shadow has it too.                                            *)
LEMMA DiffNext ==
  ASSUME OneInstall, TypeOK, MemInv, LocalsInv, DiffInv, ClientStep \/ UNCHANGED vars
  PROVE  DiffInv'
<1>1. ASSUME NEW d \in Device, FreeTubeStep(d) PROVE DiffInv'
  <2>1. \A e \in Device \ {d}, k \in Install : Explained(e, k)'
    BY <1>1, FreeTubeFrame DEF DiffInv, Explained
  <2>2. ASSUME NEW k \in Install PROVE Explained(d, k)'
    <3>1. CASE \E c \in Channel : Toggle(d, c)
      BY <3>1, ToggleExplained DEF DiffInv
    <3>2. CASE ~ \E c \in Channel : Toggle(d, c)
      BY <1>1, <3>2, FreeTubeFrame DEF DiffInv, Explained
    <3> QED BY <3>1, <3>2
  <2> QED BY <2>1, <2>2 DEF DiffInv
<1>2. ASSUME NEW d \in Device, NEW p \in Proc,
             \/ \E k \in Install : Guard(d, p, k)
             \/ GoesOn(d, p) \/ EndsCycle(d, p)
      PROVE  DiffInv'
  <2>1. CycleTakesStep(d, p)
    BY <1>2, GuardPasses DEF CycleTakesStep
  <2>2. \A e \in Device \ {d}, k \in Install : Explained(e, k)'
    BY <2>1, CycleFrame DEF DiffInv, Explained
  <2>3. ASSUME NEW k \in Install PROVE Explained(d, k)'
    <3>1. sync[d][p].pc # "idle" => sync[d][p].k = k
      BY DEF OneInstall, TypeOK
    <3>2. CASE WriteDB(d, p)
      <4>1. /\ db'[d][k] = sync[d][p].resp /\ unsaved'[d] = {sync[d][p].resp}
        BY <3>1, <3>2 DEF WriteDB, TypeOK
      <4> QED BY <4>1 DEF Explained
    <3>3. CASE SaveShadow(d, p)
      <4>1. shadow'[d] = sync[d][p].resp /\ db'[d][k] = db[d][k]
        BY <3>3 DEF SaveShadow, TypeOK
      <4>2. sync[d][p].resp = db[d][k]
        BY <3>1, <3>3 DEF SaveShadow, LocalsInv, Current
      <4> QED BY <4>1, <4>2 DEF Explained, SymDiff
    <3>4. CASE ~ WriteDB(d, p) /\ ~ SaveShadow(d, p)
      <4>1. UNCHANGED <<db, shadow, edited, unsaved>>
        BY <2>1, <3>4 DEF CycleTakesStep, PassesGuard, GoesOn, EndsCycle, GivesUp, Abort,
                          ReadDB, LoadShadow, Post, Receive, files, history
      <4> QED BY <4>1 DEF DiffInv, Explained
    <3> QED BY <3>2, <3>3, <3>4
  <2> QED BY <2>2, <2>3 DEF DiffInv
<1>3. CASE UNCHANGED vars
  BY <1>3 DEF vars, DiffInv, Explained
<1> QED BY <1>1, <1>2, <1>3 DEF ClientStep

-----------------------------------------------------------------------------
(* At the start FreeTube is closed, and every subscription is the user's. *)
LEMMA InitEventsInv == Init => EventsInv
<1> SUFFICES ASSUME Init PROVE EventsInv
  OBVIOUS
<1>1. \A d \in Device, p \in Proc : sync[d][p].pc = "idle"
  BY IdleSyncType DEF Init
<1>2. ExclusiveInv /\ MemInv /\ LocalsInv
  BY <1>1 DEF Init, ExclusiveInv, MemInv, LocalsInv, Current
<1>3. DiffInv
  BY DEF Init, DiffInv, Explained, SymDiff
<1> QED BY <1>2, <1>3, InitTypeOK DEF EventsInv, CycleInv

(* clientsync.go:66-135: what a cycle works on, through one more step. *)
LEMMA CycleNext ==
  ASSUME ~ FreeTubeMayRace, OneProcess, CycleInv, ClientStep \/ UNCHANGED vars
  PROVE  CycleInv'
BY TypeNext, ExclusiveNext, MemNext, LocalsNext DEF CycleInv

(* The events of a cycle are the differences that are explained. *)
LEMMA EventsFromDiff == EventsInv => EventsExplained
<1> SUFFICES ASSUME EventsInv, NEW d \in Device, NEW p \in Proc, sync[d][p].pc = "post",
                    NEW c \in added(d, p) \cup removed(d, p)
             PROVE  \/ c \in edited[d][sync[d][p].k]
                    \/ \E reply \in unsaved[d] : c \in reply <=> c \in added(d, p)
  BY DEF EventsExplained
<1>1. sync[d][p].k \in Install
  BY DEF EventsInv, CycleInv, TypeOK
<1>2. sync[d][p].cur = db[d][sync[d][p].k] /\ sync[d][p].snap = shadow[d]
  BY DEF EventsInv, CycleInv, LocalsInv, Current
<1>3. /\ c \in SymDiff(db[d][sync[d][p].k], shadow[d])
      /\ c \in added(d, p) <=> c \in db[d][sync[d][p].k]
  BY <1>2 DEF added, removed, SymDiff
<1>4. Explained(d, sync[d][p].k)
  BY <1>1 DEF EventsInv, DiffInv
<1> QED BY <1>3, <1>4 DEF Explained

-----------------------------------------------------------------------------
(* The types of files, FreeTube and cycles hold in every state. *)
THEOREM TypeCorrect == Spec => []TypeOK
<1>1. TypeOK /\ [Next]_vars => TypeOK'
  BY TypeNext, NextIsClientStep
<1> QED BY <1>1, InitTypeOK, PTL DEF Spec

(* shadow.go:1-5: with one process at a time, one install and FreeTube not *)
(* opened during a cycle, a cycle sends what the user changed, or repeats  *)
(* the reply it could not save: nothing else.                              *)
THEOREM SendsWhatChanged ==
  ASSUME ~ FreeTubeMayRace, OneProcess, OneInstall PROVE Spec => []EventsExplained
<1>1. EventsInv /\ [Next]_vars => EventsInv'
  BY CycleNext, DiffNext, NextIsClientStep DEF EventsInv, CycleInv
<1> QED BY <1>1, InitEventsInv, EventsFromDiff, PTL DEF Spec
=============================================================================

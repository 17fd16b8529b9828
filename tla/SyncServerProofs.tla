-------------------------- MODULE SyncServerProofs --------------------------
(***************************************************************************)
(* The mutex protects the read-modify-write of the state file: for any     *)
(* number of handlers and channels, any requests and any clock, through    *)
(* failures, crashes and power losses.                                     *)
(***************************************************************************)
EXTENDS SyncServer, LWWTheorems, FiniteSetTheorems

Critical == {"locked", "loaded", "written"}
Stamped  == {"stamped", "locked", "loaded", "written", "applied"}

Logged == [events : SUBSET Event, at : Nat \ {0}, after : SUBSET Nat]

(* The mutex has one holder, the handler inside Store.Apply. *)
MutexInv == \A x \in Handler : h[x].pc \in Critical <=> mu = x

(* A stamped request was valid, and its stamp is a reading of the clock. *)
StampedInv == \A x \in Handler : h[x].pc \in Stamped =>
                h[x].events \subseteq Event /\ h[x].at \in 1..MaxTime

(* What the holder has read and computed is still based on the file. *)
HolderInv ==
  \A x \in Handler :
    /\ h[x].pc = "loaded"  => h[x].mem = file
    /\ h[x].pc = "written" => h[x].mem = ApplyEvents(file, h[x].events, h[x].at)

(* The directory's on-disk copy is the join of what was flushed. *)
JoinInv == IsJoin(file, Live) /\ IsJoin(disk, flushed)

Arrived == {x \in Handler : At(x, "arrived")}

(* The bound on clock readings is enough for the requests under way. *)
ClockInv == clock + Cardinality(Arrived) <= MaxTime

IInv == TypeOK /\ ClockInv /\ MutexInv /\ StampedInv /\ HolderInv /\ JoinInv

-----------------------------------------------------------------------------
(* The locals of an idle handler are typed. *)
LEMMA IdleType == Idle \in Locals /\ Idle.pc = "idle" /\ Idle.after = {}
BY EmptyStateType DEF Idle, Locals

(* handler.go:102: the locals stay typed when Apply returns. *)
LEMMA AppliedType ==
  ASSUME NEW l \in Locals, NEW n \in Nat
  PROVE  [l EXCEPT !.pc = "applied", !.own = n] \in Locals
BY DEF Locals

(* store.go:27-31: the server starts from typed files. *)
LEMMA InitTypeOK == Init => TypeOK
BY IdleType, EmptyStateType, SyncServerAssumption DEF Init, TypeOK, Live, At

(* store.go:27-31: the server starts with the inductive invariant. *)
LEMMA InitIInv == Init => IInv
<1> SUFFICES ASSUME Init PROVE IInv
  OBVIOUS
<1>1. TypeOK
  BY InitTypeOK
<1>2. MutexInv /\ StampedInv /\ HolderInv
  BY IdleType, SyncServerAssumption
     DEF Init, MutexInv, StampedInv, HolderInv, Critical, Stamped
<1>3. JoinInv
  BY DEF Init, JoinInv, IsJoin, IsLatest, StampsOf, EmptyState, Live
<1>4. ClockInv
  <2>1. Arrived = {} /\ clock = 1
    BY IdleType DEF Init, Arrived, At
  <2> QED BY <2>1, FS_EmptySet, SyncServerAssumption DEF ClockInv
<1> QED BY <1>1, <1>2, <1>3, <1>4 DEF IInv

-----------------------------------------------------------------------------
(* The stamps of a join grow with the batches joined. *)
LEMMA LatestOfOneMore ==
  ASSUME NEW times \in SUBSET Nat, NEW t \in Nat, NEW at \in Nat, IsLatest(t, times)
  PROVE  IsLatest(max64(t, at), times \cup {at}) /\ max64(t, 0) = t
BY DEF IsLatest, max64

(* The log only grows: the batches it had keep their events and stamps. *)
LEMMA LogGrows ==
  ASSUME log \in Seq(Logged), NEW b \in Logged, log' = Append(log, b)
  PROVE  /\ log' \in Seq(Logged) /\ Len(log) \in Nat
         /\ DOMAIN log = 1..Len(log)
         /\ DOMAIN log' = DOMAIN log \cup {Len(log) + 1}
         /\ Len(log) + 1 \notin DOMAIN log
         /\ log'[Len(log) + 1] = b
         /\ \A n \in DOMAIN log : log'[n] = log[n] /\ log[n] \in Logged
<1> HIDE DEF Logged
<1> QED OBVIOUS

(* A batch added to the log adds its stamp for the events it holds. *)
LEMMA StampsOfOneMore ==
  ASSUME log \in Seq(Logged), NEW ns \in SUBSET DOMAIN log, NEW b \in Logged,
         log' = Append(log, b), NEW k, k = Len(log) + 1, NEW e
  PROVE  /\ StampsOf(ns, e) \in SUBSET Nat
         /\ StampsOf(ns \cup {k}, e)'
              = IF e \in b.events THEN StampsOf(ns, e) \cup {b.at} ELSE StampsOf(ns, e)
         /\ StampsOf(ns, e)' = StampsOf(ns, e)
<1>1. /\ log'[k] = b
      /\ \A n \in ns : log'[n] = log[n] /\ log[n] \in Logged
  BY LogGrows
<1>2. \A n \in ns : log[n].at \in Nat
  BY <1>1 DEF Logged
<1>3. StampsOf(ns, e) \in SUBSET Nat
  BY <1>2 DEF StampsOf
<1>4. StampsOf(ns, e)' = StampsOf(ns, e)
  BY <1>1 DEF StampsOf
<1>5. StampsOf(ns \cup {k}, e)'
        = IF e \in b.events THEN StampsOf(ns, e) \cup {b.at} ELSE StampsOf(ns, e)
  BY <1>1 DEF StampsOf
<1> QED BY <1>3, <1>4, <1>5

(* Merging a batch that is added to the log keeps the stamps the latest. *)
LEMMA LatestOneMore ==
  ASSUME log \in Seq(Logged), NEW ns \in SUBSET DOMAIN log, NEW b \in Logged,
         log' = Append(log, b), NEW k, k = Len(log) + 1, NEW e,
         NEW t \in Nat, IsLatest(t, StampsOf(ns, e))
  PROVE  IsLatest(max64(t, IF e \in b.events THEN b.at ELSE 0), StampsOf(ns \cup {k}, e)')
<1>1. b.at \in Nat
  BY DEF Logged
<1>2. /\ StampsOf(ns, e) \in SUBSET Nat
      /\ StampsOf(ns \cup {k}, e)'
           = IF e \in b.events THEN StampsOf(ns, e) \cup {b.at} ELSE StampsOf(ns, e)
  BY StampsOfOneMore
<1>3. IsLatest(max64(t, b.at), StampsOf(ns, e) \cup {b.at}) /\ max64(t, 0) = t
  BY <1>1, <1>2, LatestOfOneMore
<1>4. CASE e \in b.events
  BY <1>2, <1>3, <1>4
<1>5. CASE e \notin b.events
  BY <1>2, <1>3, <1>5
<1> QED BY <1>4, <1>5

(* Applying a batch to the join of some batches gives the join of one more. *)
LEMMA JoinOneMore ==
  ASSUME log \in Seq(Logged), NEW s \in State, NEW ns \in SUBSET DOMAIN log,
         IsJoin(s, ns), NEW b \in Logged, log' = Append(log, b), NEW k, k = Len(log) + 1
  PROVE  IsJoin(ApplyEvents(s, b.events, b.at), ns \cup {k})'
<1>1. b.at \in Nat
  BY DEF Logged
<1>2. StampAll(b.events, b.at) \in State
  BY <1>1, StampAllType
<1>3. ASSUME NEW c \in Channel
      PROVE  /\ ApplyEvents(s, b.events, b.at)[c].lastAdded
                   = max64(s[c].lastAdded,
                           IF [channel |-> c, action |-> Add] \in b.events
                           THEN b.at ELSE 0)
             /\ ApplyEvents(s, b.events, b.at)[c].lastRemoved
                   = max64(s[c].lastRemoved,
                           IF [channel |-> c, action |-> Remove] \in b.events
                           THEN b.at ELSE 0)
  <2>1. /\ StampAll(b.events, b.at)[c].lastAdded
             = IF [channel |-> c, action |-> Add] \in b.events THEN b.at ELSE 0
        /\ StampAll(b.events, b.at)[c].lastRemoved
             = IF [channel |-> c, action |-> Remove] \in b.events THEN b.at ELSE 0
    BY <1>1, StampAllFields
  <2> QED BY <1>2, <2>1, MergeFields DEF ApplyEvents
<1>4. ASSUME NEW c \in Channel
      PROVE  /\ IsLatest(ApplyEvents(s, b.events, b.at)[c].lastAdded,
                         StampsOf(ns \cup {k}, [channel |-> c, action |-> Add])')
             /\ IsLatest(ApplyEvents(s, b.events, b.at)[c].lastRemoved,
                         StampsOf(ns \cup {k}, [channel |-> c, action |-> Remove])')
  <2>1. s[c].lastAdded \in Nat /\ s[c].lastRemoved \in Nat
    BY StateFields
  <2>2. /\ IsLatest(s[c].lastAdded, StampsOf(ns, [channel |-> c, action |-> Add]))
        /\ IsLatest(s[c].lastRemoved, StampsOf(ns, [channel |-> c, action |-> Remove]))
    BY DEF IsJoin
  <2> QED BY <1>3, <2>1, <2>2, LatestOneMore
<1> QED BY <1>4 DEF IsJoin

(* A join is unaffected by batches it does not include. *)
LEMMA JoinKept ==
  ASSUME log \in Seq(Logged), NEW s \in State, NEW ns \in SUBSET DOMAIN log,
         IsJoin(s, ns), NEW b \in Logged, log' = Append(log, b)
  PROVE  IsJoin(s, ns)'
BY StampsOfOneMore DEF IsJoin

(* StampsOf, of any log. *)
StampsIn(lg, ns, e) == {lg[n].at : n \in {m \in ns : e \in lg[m].events}}

(* A state that joins some batches contains each of them (merge.go:57-70). *)
LEMMA JoinCovers ==
  ASSUME NEW lg \in Seq(Logged), NEW s \in State, NEW ns \in SUBSET DOMAIN lg,
         \A c \in Channel :
           /\ IsLatest(s[c].lastAdded, StampsIn(lg, ns, [channel |-> c, action |-> Add]))
           /\ IsLatest(s[c].lastRemoved, StampsIn(lg, ns, [channel |-> c, action |-> Remove])),
         NEW n \in ns
  PROVE  Covers(s, lg[n])
<1> DEFINE b == lg[n]
           batch == StampAll(b.events, b.at)
<1>1. b \in Logged
  <2> HIDE DEF Logged
  <2> QED OBVIOUS
<1>2. b.at \in Nat
  BY <1>1 DEF Logged
<1>3. batch \in State /\ Merge(s, batch) \in State
  BY <1>2, StampAllType, MergeType
<1>4. ASSUME NEW c \in Channel
      PROVE  /\ Merge(s, batch)[c].lastAdded = s[c].lastAdded
             /\ Merge(s, batch)[c].lastRemoved = s[c].lastRemoved
  <2> DEFINE add == [channel |-> c, action |-> Add]
             rem == [channel |-> c, action |-> Remove]
  <2>1. /\ batch[c].lastAdded = IF add \in b.events THEN b.at ELSE 0
        /\ batch[c].lastRemoved = IF rem \in b.events THEN b.at ELSE 0
    BY DEF StampAll
  <2>2. /\ IsLatest(s[c].lastAdded, StampsIn(lg, ns, add))
        /\ IsLatest(s[c].lastRemoved, StampsIn(lg, ns, rem))
    OBVIOUS
  <2>3. /\ add \in b.events => b.at \in StampsIn(lg, ns, add)
        /\ rem \in b.events => b.at \in StampsIn(lg, ns, rem)
    BY DEF StampsIn
  <2>4. /\ add \in b.events => b.at <= s[c].lastAdded
        /\ rem \in b.events => b.at <= s[c].lastRemoved
    BY <2>2, <2>3 DEF IsLatest
  <2> HIDE DEF add, rem, b, batch
  <2> QED BY <1>2, <1>3, <2>1, <2>4, StateFields, MergeFields, Max64Laws
<1> QED BY <1>3, <1>4, StateExtensional DEF Covers

-----------------------------------------------------------------------------
(* A handler's own step changes its locals only. *)
LEMMA TypeOKNext == TypeOK /\ StampedInv /\ [Next]_vars => TypeOK'
<1> SUFFICES ASSUME TypeOK, StampedInv, [Next]_vars PROVE TypeOK'
  OBVIOUS
<1> USE DEF TypeOK
<1>0. DOMAIN log = 1..Len(log) /\ Len(log) \in Nat
  <2> DEFINE T == [events : SUBSET Event, at : Nat \ {0}, after : SUBSET Nat]
  <2>1. log \in Seq(T)
    OBVIOUS
  <2> HIDE DEF T
  <2> QED BY <2>1
<1>1. ASSUME NEW x \in Handler, Arrive(x) PROVE TypeOK'
  <2>1. PICK r \in Requests :
          h' = [h EXCEPT ![x] = [Idle EXCEPT !.pc = "arrived", !.auth = r.auth,
                                             !.events = r.events, !.after = acked]]
    BY <1>1 DEF Arrive
  <2>2. r.auth \in BOOLEAN /\ r.events \in SUBSET (Event \cup {BadEvent})
    BY SyncServerAssumption
  <2>3. acked \subseteq Nat
    BY <1>0
  <2>4. [Idle EXCEPT !.pc = "arrived", !.auth = r.auth, !.events = r.events,
                     !.after = acked] \in Locals
    BY <2>2, <2>3, EmptyStateType DEF Idle, Locals
  <2>5. h' \in [Handler -> Locals]
    BY <2>1, <2>4
  <2>6. h'[x].after = acked /\ h'[x].pc = "arrived"
    BY <2>1 DEF Idle
  <2> QED BY <1>1, <2>1, <2>5, <2>6 DEF Arrive, server, faults, history, At, Live
<1>2. ASSUME NEW x \in Handler, Refuse(x) PROVE TypeOK'
  BY <1>2, IdleType DEF Refuse, server, faults, history, At, Live
<1>3. ASSUME NEW x \in Handler, TakeStamp(x) PROVE TypeOK'
  <2>1. h' \in [Handler -> Locals]
    BY <1>3 DEF TakeStamp, Locals
  <2>2. clock' \in Nat \ {0}
    BY <1>3 DEF TakeStamp, ReadClock
  <2> QED BY <1>3, <2>1, <2>2 DEF TakeStamp, faults, history, At, Live
<1>4. ASSUME NEW x \in Handler, Lock(x) PROVE TypeOK'
  <2>1. h' \in [Handler -> Locals]
    BY <1>4 DEF Lock, Step, Locals
  <2> QED BY <1>4, <2>1 DEF Lock, Step, faults, history, At, Live
<1>5. ASSUME NEW x \in Handler, Load(x) PROVE TypeOK'
  <2>1. h' \in [Handler -> Locals]
    BY <1>5 DEF Load, Locals
  <2> QED BY <1>5, <2>1 DEF Load, server, faults, history, At, Live
<1>6. ASSUME NEW x \in Handler, WriteTemp(x) PROVE TypeOK'
  <2>1. h[x].mem \in State /\ h[x].at \in Nat
    BY DEF Locals
  <2>2. ApplyEvents(h[x].mem, h[x].events, h[x].at) \in State
    BY <2>1, ApplyEventsType
  <2>3. h' \in [Handler -> Locals]
    BY <1>6, <2>2 DEF WriteTemp, Locals
  <2> QED BY <1>6, <2>3 DEF WriteTemp, server, faults, history, At, Live
<1>7. ASSUME NEW x \in Handler, Rename(x) PROVE TypeOK'
  <2> DEFINE b == [events |-> h[x].events, at |-> h[x].at, after |-> h[x].after]
  <2>1. h[x] \in Locals
    OBVIOUS
  <2>2. h[x].events \subseteq Event /\ h[x].at \in Nat \ {0}
    BY <1>7 DEF Rename, At, StampedInv, Stamped
  <2>3. b \in Logged
    BY <2>1, <2>2 DEF Logged, Locals
  <2>4. log \in Seq(Logged) /\ log' = Append(log, b)
    BY <1>7 DEF Rename, Logged
  <2>5. /\ log' \in Seq(Logged)
        /\ DOMAIN log' = DOMAIN log \cup {Len(log) + 1}
        /\ Len(log) + 1 \notin DOMAIN log
    BY <2>3, <2>4, LogGrows
  <2>6. h' \in [Handler -> Locals]
    <3>1. [h[x] EXCEPT !.pc = "applied", !.own = Len(log) + 1] \in Locals
      <4>1. Len(log) + 1 \in Nat
        BY <1>0
      <4> HIDE DEF TypeOK
      <4> QED BY <2>1, <4>1, AppliedType
    <3> QED BY <1>7, <3>1 DEF Rename
  <2>7. file' \in State
    BY <1>7, <2>1 DEF Rename, Locals
  <2>8. \A y \in Handler : h'[y].after \subseteq DOMAIN log'
    BY <1>7, <2>5 DEF Rename
  <2>9. \A y \in Handler : At(y, "applied")' => h'[y].own \in DOMAIN log'
    BY <1>7, <2>5 DEF Rename, At
  <2>10. /\ flushed' \subseteq Live' /\ lost' \subseteq DOMAIN log'
         /\ acked' \subseteq DOMAIN log'
    BY <1>7, <2>5 DEF Rename, Live
  <2> QED BY <1>7, <2>5, <2>6, <2>7, <2>8, <2>9, <2>10 DEF Rename, faults, Logged
<1>8. ASSUME NEW x \in Handler, Fail(x) PROVE TypeOK'
  BY <1>8, IdleType DEF Fail, faults, history, At, Live
<1>9. ASSUME NEW x \in Handler, Reply(x) PROVE TypeOK'
  <2>1. acked' \subseteq DOMAIN log
    BY <1>9 DEF Reply, At
  <2> QED BY <1>9, <2>1, IdleType DEF Reply, server, faults, At, Live
<1>10. CASE FlushDirectory
  BY <1>10 DEF FlushDirectory, faults, Live, At
<1>11. CASE Crash
  <2>1. h' \in [Handler -> Locals] /\ \A y \in Handler : h'[y] = Idle
    BY <1>11, IdleType DEF Crash
  <2>2. \A y \in Handler : h'[y].after = {} /\ h'[y].pc = "idle"
    BY <2>1, IdleType
  <2> QED BY <1>11, <2>1, <2>2, SyncServerAssumption DEF Crash, history, Live, At
<1>12. CASE PowerLoss
  <2>1. h' \in [Handler -> Locals] /\ \A y \in Handler : h'[y] = Idle
    BY <1>12, IdleType DEF PowerLoss
  <2>2. \A y \in Handler : h'[y].after = {} /\ h'[y].pc = "idle"
    BY <2>1, IdleType
  <2> QED BY <1>12, <2>1, <2>2, SyncServerAssumption DEF PowerLoss, Live, At
<1>13. CASE UNCHANGED vars
  BY <1>13 DEF vars, Live, At
<1> QED BY <1>1, <1>2, <1>3, <1>4, <1>5, <1>6, <1>7, <1>8, <1>9, <1>10, <1>11, <1>12,
           <1>13 DEF Next, HandlerStep

-----------------------------------------------------------------------------
(* The clock readings left are enough for the requests under way. *)
LEMMA ClockNext == TypeOK /\ ClockInv /\ [Next]_vars => ClockInv'
<1> SUFFICES ASSUME TypeOK, ClockInv, [Next]_vars PROVE ClockInv'
  OBVIOUS
<1>0. /\ IsFiniteSet(Arrived) /\ IsFiniteSet(Busy) /\ Cardinality(Arrived) \in Nat
      /\ Cardinality(Arrived) <= Cardinality(Busy) /\ Cardinality(Busy) \in Nat
      /\ clock \in Nat /\ MaxTime \in Nat
  <2>1. Arrived \subseteq Busy /\ Busy \subseteq Handler
    BY DEF Arrived, Busy, At
  <2>2. IsFiniteSet(Arrived) /\ IsFiniteSet(Busy)
    BY <2>1, SyncServerAssumption, FS_Subset
  <2> QED BY <2>1, <2>2, SyncServerAssumption, FS_Subset, FS_CardinalityType DEF TypeOK
<1>1. ASSUME Arrived' \subseteq Arrived, clock' = clock PROVE ClockInv'
  <2>1. Cardinality(Arrived') <= Cardinality(Arrived) /\ Cardinality(Arrived') \in Nat
    BY <1>0, <1>1, FS_Subset, FS_CardinalityType
  <2> QED BY <1>0, <1>1, <2>1 DEF ClockInv
<1>2. ASSUME NEW x \in Handler, Arrive(x) PROVE ClockInv'
  <2>1. h'[x].pc = "arrived" /\ \A y \in Handler \ {x} : h'[y] = h[y]
    <3>1. PICK r \in Requests :
            h' = [h EXCEPT ![x] = [Idle EXCEPT !.pc = "arrived", !.auth = r.auth,
                                               !.events = r.events, !.after = acked]]
      BY <1>2 DEF Arrive
    <3> QED BY <3>1 DEF TypeOK, Idle
  <2>2. Arrived' = Arrived \cup {x} /\ x \notin Arrived
    BY <1>2, <2>1 DEF Arrived, At, Arrive
  <2>3. Cardinality(Arrived') = Cardinality(Arrived) + 1
    BY <1>0, <2>2, FS_AddElement
  <2> QED BY <1>0, <1>2, <2>3 DEF ClockInv, Arrive, server
<1>3. ASSUME NEW x \in Handler, TakeStamp(x) PROVE ClockInv'
  <2>1. Arrived' = Arrived \ {x} /\ x \in Arrived
    BY <1>3 DEF Arrived, At, TakeStamp, TypeOK, Locals
  <2>2. Cardinality(Arrived') = Cardinality(Arrived) - 1
    BY <1>0, <2>1, FS_RemoveElement
  <2>3. clock' <= clock + 1 /\ clock' \in Int
    BY <1>0, <1>3 DEF TakeStamp, ReadClock
  <2> QED BY <1>0, <2>2, <2>3 DEF ClockInv
<1>4. ASSUME NEW x \in Handler,
             \/ Refuse(x) \/ Lock(x) \/ Load(x) \/ WriteTemp(x)
             \/ Rename(x) \/ Fail(x) \/ Reply(x)
      PROVE  ClockInv'
  <2>1. /\ \A y \in Handler \ {x} : h'[y] = h[y]
        /\ h'[x].pc # "arrived" /\ clock' = clock
    BY <1>4, IdleType DEF Refuse, Lock, Step, Load, WriteTemp, Rename, Fail, Reply, server,
                           TypeOK, Locals
  <2> QED BY <1>1, <2>1 DEF Arrived, At
<1>5. CASE FlushDirectory
  BY <1>1, <1>5 DEF FlushDirectory, Arrived, At
<1>6. CASE Crash \/ PowerLoss
  BY <1>1, <1>6, IdleType DEF Crash, PowerLoss, Arrived, At
<1>7. CASE UNCHANGED vars
  BY <1>1, <1>7 DEF vars, Arrived, At
<1> QED BY <1>2, <1>3, <1>4, <1>5, <1>6, <1>7 DEF Next, HandlerStep

(* Only a valid request is stamped, and it keeps its events and its stamp. *)
LEMMA StampedNext == TypeOK /\ ClockInv /\ StampedInv /\ [Next]_vars => StampedInv'
<1> SUFFICES ASSUME TypeOK, ClockInv, StampedInv, [Next]_vars PROVE StampedInv'
  OBVIOUS
<1>0. Idle.pc \notin Stamped /\ "arrived" \notin Stamped
  BY IdleType DEF Stamped
<1>1. ASSUME NEW x \in Handler, Arrive(x) PROVE StampedInv'
  <2>1. h'[x].pc = "arrived" /\ \A y \in Handler \ {x} : h'[y] = h[y]
    BY <1>1 DEF Arrive, TypeOK, Idle
  <2> QED BY <1>0, <2>1 DEF StampedInv
<1>2. ASSUME NEW x \in Handler, TakeStamp(x) PROVE StampedInv'
  <2>1. Cardinality(Arrived) \in Nat \ {0}
    <3>1. Arrived \subseteq Handler /\ x \in Arrived
      BY <1>2 DEF Arrived, TakeStamp
    <3>2. IsFiniteSet(Arrived)
      BY <3>1, SyncServerAssumption, FS_Subset
    <3> QED BY <3>1, <3>2, FS_CardinalityType, FS_EmptySet
  <2>2. clock \in 1..MaxTime
    BY <2>1, SyncServerAssumption DEF ClockInv, TypeOK
  <2>3. /\ h'[x].events = h[x].events /\ h'[x].at = clock
        /\ \A y \in Handler \ {x} : h'[y] = h[y]
    BY <1>2 DEF TakeStamp, TypeOK, Locals
  <2> QED BY <1>2, <2>2, <2>3 DEF StampedInv, TakeStamp, Valid
<1>3. ASSUME NEW x \in Handler,
             Lock(x) \/ Load(x) \/ WriteTemp(x) \/ Rename(x)
      PROVE  StampedInv'
  <2>1. /\ h[x].pc \in Stamped
        /\ h'[x].events = h[x].events /\ h'[x].at = h[x].at
        /\ \A y \in Handler \ {x} : h'[y] = h[y]
    BY <1>3 DEF Lock, Step, Load, WriteTemp, Rename, TypeOK, Locals, At, Stamped
  <2> QED BY <2>1 DEF StampedInv
<1>4. ASSUME NEW x \in Handler, Refuse(x) \/ Fail(x) \/ Reply(x) PROVE StampedInv'
  BY <1>0, <1>4 DEF Refuse, Fail, Reply, StampedInv, TypeOK
<1>5. CASE Crash \/ PowerLoss
  BY <1>0, <1>5 DEF Crash, PowerLoss, StampedInv
<1>6. CASE FlushDirectory \/ UNCHANGED vars
  BY <1>6 DEF FlushDirectory, vars, StampedInv
<1> QED BY <1>1, <1>2, <1>3, <1>4, <1>5, <1>6 DEF Next, HandlerStep

-----------------------------------------------------------------------------
(* Mutual exclusion: every error path and every crash releases the mutex. *)
LEMMA MutexNext == TypeOK /\ MutexInv /\ [Next]_vars => MutexInv'
<1> SUFFICES ASSUME TypeOK, MutexInv, [Next]_vars PROVE MutexInv'
  OBVIOUS
<1>0. /\ Idle.pc \notin Critical /\ "arrived" \notin Critical /\ "stamped" \notin Critical
      /\ "applied" \notin Critical
  BY IdleType DEF Critical
<1>1. ASSUME NEW x \in Handler, Arrive(x) PROVE MutexInv'
  <2>1. h'[x].pc = "arrived" /\ \A y \in Handler \ {x} : h'[y] = h[y]
    BY <1>1 DEF Arrive, TypeOK, Idle
  <2> QED BY <1>0, <1>1, <2>1, IdleType DEF MutexInv, Arrive, At, server, Critical
<1>2. ASSUME NEW x \in Handler, Refuse(x) \/ Reply(x) PROVE MutexInv'
  <2>1. h[x].pc \notin Critical /\ h'[x] = Idle /\ mu' = mu
        /\ \A y \in Handler \ {x} : h'[y] = h[y]
    BY <1>0, <1>2 DEF Refuse, Reply, At, TypeOK, server
  <2> QED BY <1>0, <2>1 DEF MutexInv
<1>3. ASSUME NEW x \in Handler, TakeStamp(x) PROVE MutexInv'
  <2>1. h[x].pc \notin Critical /\ h'[x].pc = "stamped" /\ mu' = mu
        /\ \A y \in Handler \ {x} : h'[y] = h[y]
    BY <1>0, <1>3 DEF TakeStamp, At, TypeOK, Locals
  <2> QED BY <1>0, <2>1 DEF MutexInv
<1>4. ASSUME NEW x \in Handler, Lock(x) PROVE MutexInv'
  <2>1. mu = NoHandler /\ mu' = x /\ h'[x].pc = "locked"
        /\ \A y \in Handler \ {x} : h'[y] = h[y]
    BY <1>4 DEF Lock, Step, TypeOK, Locals
  <2> QED BY <2>1, SyncServerAssumption DEF MutexInv, Critical
<1>5. ASSUME NEW x \in Handler, Load(x) \/ WriteTemp(x) PROVE MutexInv'
  <2>1. h[x].pc \in Critical /\ h'[x].pc \in Critical /\ mu' = mu
        /\ \A y \in Handler \ {x} : h'[y] = h[y]
    BY <1>5 DEF Load, WriteTemp, TypeOK, Locals, Critical, At, server
  <2> QED BY <2>1 DEF MutexInv
<1>6. ASSUME NEW x \in Handler, Rename(x) \/ Fail(x) PROVE MutexInv'
  <2>1. h[x].pc \in Critical /\ h'[x].pc \notin Critical /\ mu' = NoHandler
        /\ \A y \in Handler \ {x} : h'[y] = h[y]
    BY <1>0, <1>6 DEF Rename, Fail, TypeOK, Locals, Critical, At
  <2> QED BY <2>1, SyncServerAssumption DEF MutexInv
<1>7. CASE Crash \/ PowerLoss
  BY <1>0, <1>7, SyncServerAssumption DEF Crash, PowerLoss, MutexInv
<1>8. CASE FlushDirectory \/ UNCHANGED vars
  BY <1>8 DEF FlushDirectory, vars, MutexInv
<1> QED BY <1>1, <1>2, <1>3, <1>4, <1>5, <1>6, <1>7, <1>8 DEF Next, HandlerStep

(* The file changes under nobody who has read it. *)
LEMMA HolderNext == TypeOK /\ MutexInv /\ HolderInv /\ [Next]_vars => HolderInv'
<1> SUFFICES ASSUME TypeOK, MutexInv, HolderInv, [Next]_vars PROVE HolderInv'
  OBVIOUS
<1>1. ASSUME NEW x \in Handler, Arrive(x) PROVE HolderInv'
  <2>1. h'[x].pc = "arrived" /\ file' = file /\ \A y \in Handler \ {x} : h'[y] = h[y]
    BY <1>1 DEF Arrive, TypeOK, Idle, server
  <2> QED BY <2>1 DEF HolderInv
<1>2. ASSUME NEW x \in Handler, Refuse(x) \/ Reply(x) \/ Fail(x) PROVE HolderInv'
  <2>1. h'[x] = Idle /\ file' = file /\ \A y \in Handler \ {x} : h'[y] = h[y]
    BY <1>2 DEF Refuse, Reply, Fail, TypeOK, server
  <2> QED BY <2>1, IdleType DEF HolderInv
<1>3. ASSUME NEW x \in Handler, TakeStamp(x) \/ Lock(x) PROVE HolderInv'
  <2>1. h'[x].pc \in {"stamped", "locked"} /\ file' = file
        /\ \A y \in Handler \ {x} : h'[y] = h[y]
    BY <1>3 DEF TakeStamp, Lock, Step, TypeOK, Locals
  <2> QED BY <2>1 DEF HolderInv
<1>4. ASSUME NEW x \in Handler, Load(x) PROVE HolderInv'
  <2>1. h'[x].pc = "loaded" /\ h'[x].mem = file /\ file' = file
        /\ \A y \in Handler \ {x} : h'[y] = h[y]
    BY <1>4 DEF Load, TypeOK, Locals, server
  <2> QED BY <2>1 DEF HolderInv
<1>5. ASSUME NEW x \in Handler, WriteTemp(x) PROVE HolderInv'
  <2>1. /\ h[x].mem = file /\ file' = file
        /\ h'[x].pc = "written" /\ h'[x].events = h[x].events /\ h'[x].at = h[x].at
        /\ h'[x].mem = ApplyEvents(h[x].mem, h[x].events, h[x].at)
        /\ \A y \in Handler \ {x} : h'[y] = h[y]
    BY <1>5 DEF WriteTemp, TypeOK, Locals, server, HolderInv, At
  <2> QED BY <2>1 DEF HolderInv
<1>6. ASSUME NEW x \in Handler, Rename(x) PROVE HolderInv'
  <2>1. h'[x].pc = "applied" /\ h[x].pc \in Critical
        /\ \A y \in Handler \ {x} : h'[y] = h[y]
    BY <1>6 DEF Rename, TypeOK, Locals, At, Critical
  <2>2. \A y \in Handler \ {x} : h[y].pc \notin Critical
    BY <2>1 DEF MutexInv
  <2> QED BY <2>1, <2>2 DEF HolderInv, Critical
<1>7. CASE Crash \/ PowerLoss
  BY <1>7, IdleType DEF Crash, PowerLoss, HolderInv
<1>8. CASE FlushDirectory \/ UNCHANGED vars
  BY <1>8 DEF FlushDirectory, vars, HolderInv
<1> QED BY <1>1, <1>2, <1>3, <1>4, <1>5, <1>6, <1>7, <1>8 DEF Next, HandlerStep

(* Only a rename and a power failure change what the file is the join of. *)
LEMMA JoinNext ==
  TypeOK /\ StampedInv /\ HolderInv /\ JoinInv /\ [Next]_vars => JoinInv'
<1> SUFFICES ASSUME TypeOK, StampedInv, HolderInv, JoinInv, [Next]_vars PROVE JoinInv'
  OBVIOUS
<1>0. /\ log \in Seq(Logged) /\ flushed \subseteq Live /\ Live \subseteq DOMAIN log
      /\ file \in State /\ disk \in State
  BY DEF TypeOK, Logged, Live
<1>1. ASSUME UNCHANGED <<file, disk, log, flushed, lost>> PROVE JoinInv'
  <2>1. Live' = Live
    BY <1>1 DEF Live
  <2>2. ASSUME NEW e
        PROVE  /\ StampsOf(Live, e)' = StampsOf(Live, e)
               /\ StampsOf(flushed, e)' = StampsOf(flushed, e)
    BY <1>1, <2>1 DEF StampsOf
  <2> QED BY <1>1, <2>2 DEF JoinInv, IsJoin
<1>2. ASSUME NEW x \in Handler, Rename(x) PROVE JoinInv'
  <2> DEFINE b == [events |-> h[x].events, at |-> h[x].at, after |-> h[x].after]
  <2>1. b \in Logged
    <3>1. h[x].after \in SUBSET Nat
      BY DEF TypeOK, Locals
    <3>2. h[x].events \subseteq Event /\ h[x].at \in Nat \ {0}
      BY <1>2 DEF Rename, At, StampedInv, Stamped
    <3> QED BY <3>1, <3>2 DEF Logged
  <2>2. log' = Append(log, b) /\ file' = ApplyEvents(file, b.events, b.at)
        /\ UNCHANGED <<disk, flushed, lost>>
    BY <1>2 DEF Rename, HolderInv, At
  <2> HIDE DEF b
  <2>3. PICK k, f, ns, d, nd, c :
          /\ k = Len(log) + 1 /\ f = file /\ ns = Live /\ d = disk /\ nd = flushed
          /\ c = b
    OBVIOUS
  <2>4. DOMAIN log' = DOMAIN log \cup {k} /\ k \notin DOMAIN log
    BY <1>0, <2>1, <2>2, <2>3, LogGrows
  <2>5. Live' = ns \cup {k}
    BY <1>0, <2>2, <2>3, <2>4 DEF Live, TypeOK
  <2>6. IsJoin(ApplyEvents(f, c.events, c.at), ns \cup {k})'
    <3>1. IsJoin(f, ns)
      BY <2>3 DEF JoinInv
    <3> QED BY <1>0, <2>1, <2>2, <2>3, <3>1, JoinOneMore
  <2>7. IsJoin(d, nd)'
    <3>1. IsJoin(d, nd)
      BY <2>3 DEF JoinInv
    <3> QED BY <1>0, <2>1, <2>2, <2>3, <3>1, JoinKept
  <2>8. file' = ApplyEvents(f, c.events, c.at) /\ disk' = d /\ flushed' = nd
    BY <2>2, <2>3
  <2> QED BY <2>5, <2>6, <2>7, <2>8 DEF JoinInv, IsJoin, StampsOf
<1>3. CASE FlushDirectory
  <2>1. Live' = Live /\ flushed' = Live /\ disk' = file /\ UNCHANGED <<file, log>>
    BY <1>3 DEF FlushDirectory, Live
  <2>2. ASSUME NEW e
        PROVE  /\ StampsOf(Live, e)' = StampsOf(Live, e)
               /\ StampsOf(flushed, e)' = StampsOf(Live, e)
    BY <2>1 DEF StampsOf
  <2> QED BY <2>1, <2>2 DEF JoinInv, IsJoin
<1>4. CASE PowerLoss
  <2>1. Live' = flushed /\ file' = disk /\ UNCHANGED <<disk, flushed, log>>
    BY <1>0, <1>4 DEF PowerLoss, Live
  <2>2. ASSUME NEW e
        PROVE  /\ StampsOf(Live, e)' = StampsOf(flushed, e)
               /\ StampsOf(flushed, e)' = StampsOf(flushed, e)
    BY <2>1 DEF StampsOf
  <2> QED BY <2>1, <2>2 DEF JoinInv, IsJoin
<1>5. ASSUME NEW x \in Handler,
             \/ Arrive(x) \/ Refuse(x) \/ TakeStamp(x) \/ Lock(x) \/ Load(x)
             \/ WriteTemp(x) \/ Fail(x) \/ Reply(x)
      PROVE  JoinInv'
  BY <1>1, <1>5 DEF Arrive, Refuse, TakeStamp, Lock, Load, WriteTemp, Fail, Reply,
                     server, history
<1>6. CASE Crash \/ UNCHANGED vars
  BY <1>1, <1>6 DEF Crash, vars, history
<1> QED BY <1>2, <1>3, <1>4, <1>5, <1>6 DEF Next, HandlerStep

-----------------------------------------------------------------------------
(* handler.go:78-120, store.go:93-109: every step keeps the inductive invariant. *)
LEMMA NextIInv == IInv /\ [Next]_vars => IInv'
BY TypeOKNext, ClockNext, StampedNext, MutexNext, HolderNext, JoinNext DEF IInv

(* The inductive invariant holds in every reachable state. *)
LEMMA AlwaysIInv == Spec => []IInv
BY InitIInv, NextIInv, PTL DEF Spec

(***************************************************************************)
(* Handlers, mutex, files and history are well typed: in particular only   *)
(* valid events are ever applied (handler.go:87-99).                       *)
(***************************************************************************)
THEOREM SyncServerTypeOK == Spec => []TypeOK
<1>1. IInv => TypeOK
  BY DEF IInv
<1> QED BY <1>1, AlwaysIInv, PTL

(***************************************************************************)
(* store.go:18-21, 88-92: no batch is lost, half applied or overwritten by *)
(* a concurrent one; the state file is the join of the batches applied.    *)
(***************************************************************************)
THEOREM SyncServerFileIsJoin == Spec => []FileIsJoin
<1>1. IInv => FileIsJoin
  BY DEF IInv, JoinInv, FileIsJoin
<1> QED BY <1>1, AlwaysIInv, PTL

-----------------------------------------------------------------------------
(* A reply computed by Rename is current; later commits do not matter. *)
LEMMA ReplyNext == IInv /\ ReplyIsCurrent /\ [Next]_vars => ReplyIsCurrent'
<1> SUFFICES ASSUME IInv, ReplyIsCurrent, [Next]_vars PROVE ReplyIsCurrent'
  OBVIOUS
<1>0. TypeOK /\ TypeOK' /\ JoinInv' /\ log \in Seq(Logged)
  BY NextIInv DEF IInv, TypeOK, Logged
<1>1. ASSUME UNCHANGED <<log, lost>>,
             \A y \in Handler : At(y, "applied")' => h'[y] = h[y]
      PROVE  ReplyIsCurrent'
  BY <1>1 DEF ReplyIsCurrent, At
<1>2. ASSUME NEW x \in Handler, Rename(x) PROVE ReplyIsCurrent'
  <2> DEFINE b == [events |-> h[x].events, at |-> h[x].at, after |-> h[x].after]
  <2>1. log' = Append(log, b) /\ lost' = lost /\ file' = h[x].mem
        /\ h'[x].mem = h[x].mem /\ h'[x].own \in DOMAIN log'
        /\ h'[x].after \subseteq DOMAIN log'
    BY <1>0, <1>2 DEF Rename, TypeOK, Locals, At
  <2>2. log' \in Seq(Logged) /\ file' \in State /\ Live' \subseteq DOMAIN log'
    BY <1>0 DEF TypeOK, Live, Logged
  <2>3. ASSUME NEW n \in (h'[x].after \cup {h'[x].own}) \ lost'
        PROVE  Covers(h'[x].mem, log'[n])
    <3>1. n \in Live'
      BY <2>1 DEF Live
    <3>2. \A c \in Channel :
            /\ IsLatest(file'[c].lastAdded,
                        StampsIn(log', Live', [channel |-> c, action |-> Add]))
            /\ IsLatest(file'[c].lastRemoved,
                        StampsIn(log', Live', [channel |-> c, action |-> Remove]))
      BY <1>0 DEF JoinInv, IsJoin, StampsOf, StampsIn
    <3>3. Covers(file', log'[n])
      BY <2>2, <3>1, <3>2, JoinCovers
    <3> QED BY <2>1, <3>3
  <2>4. ASSUME NEW y \in Handler \ {x}, At(y, "applied"),
               NEW n \in (h[y].after \cup {h[y].own}) \ lost
        PROVE  Covers(h[y].mem, log'[n])
    <3>1. n \in DOMAIN log
      BY <1>0, <2>4 DEF TypeOK
    <3>2. log'[n] = log[n]
      BY <1>0, <2>1, <3>1
    <3> QED BY <2>4, <3>2 DEF ReplyIsCurrent
  <2>5. \A y \in Handler \ {x} : h'[y] = h[y]
    BY <1>0, <1>2 DEF Rename, TypeOK
  <2> QED BY <2>1, <2>3, <2>4, <2>5 DEF ReplyIsCurrent, At
<1>3. ASSUME NEW x \in Handler,
             \/ Arrive(x) \/ Refuse(x) \/ TakeStamp(x) \/ Lock(x) \/ Load(x)
             \/ WriteTemp(x) \/ Fail(x) \/ Reply(x)
      PROVE  ReplyIsCurrent'
  <2>1. UNCHANGED <<log, lost>>
    BY <1>3 DEF Arrive, Refuse, TakeStamp, Lock, Load, WriteTemp, Fail, Reply, history
  <2>2. h'[x].pc # "applied" /\ \A y \in Handler \ {x} : h'[y] = h[y]
    <3>1. CASE Arrive(x)
      BY <1>0, <3>1 DEF Arrive, TypeOK, Idle
    <3>2. CASE Refuse(x) \/ Fail(x) \/ Reply(x)
      BY <1>0, <3>2, IdleType DEF Refuse, Fail, Reply, TypeOK
    <3>3. CASE TakeStamp(x) \/ Lock(x) \/ Load(x) \/ WriteTemp(x)
      BY <1>0, <3>3 DEF TakeStamp, Lock, Step, Load, WriteTemp, TypeOK, Locals
    <3> QED BY <1>3, <3>1, <3>2, <3>3
  <2> QED BY <1>1, <2>1, <2>2 DEF At
<1>4. CASE Crash \/ PowerLoss
  BY <1>4, IdleType DEF Crash, PowerLoss, ReplyIsCurrent, At
<1>5. CASE FlushDirectory \/ UNCHANGED vars
  BY <1>1, <1>5 DEF FlushDirectory, vars
<1> QED BY <1>2, <1>3, <1>4, <1>5 DEF Next, HandlerStep

(***************************************************************************)
(* handler.go:101-117: the state a reply is computed from contains the     *)
(* request's batch and every surviving batch acknowledged before it came.  *)
(***************************************************************************)
THEOREM SyncServerReplyIsCurrent == Spec => []ReplyIsCurrent
<1>1. Init => ReplyIsCurrent
  BY IdleType DEF Init, ReplyIsCurrent, At
<1> QED BY <1>1, ReplyNext, AlwaysIInv, PTL DEF Spec

-----------------------------------------------------------------------------
(***************************************************************************)
(* Where no two requests read the same time, stamps follow the order that  *)
(* clients can observe: a batch acknowledged before another one arrived    *)
(* has the older stamp.  The clock is ahead of every stamp.                *)
(***************************************************************************)
OrderInv ==
  /\ \A n \in DOMAIN log :
       /\ log[n].at < clock
       /\ \A m \in log[n].after : m \in DOMAIN log /\ log[m].at < log[n].at
  /\ \A x \in Handler : h[x].pc \in Stamped \ {"applied"} =>
       /\ h[x].at < clock
       /\ \A m \in h[x].after : log[m].at < h[x].at

(* What the log holds: stamps and valid events of finished batches. *)
LEMMA LoggedTypes ==
  ASSUME TypeOK
  PROVE  \A n \in DOMAIN log : log[n].at \in Nat \ {0} /\ log[n].events \subseteq Event
<1>1. log \in Seq(Logged)
  BY DEF TypeOK, Logged
<1>2. \A n \in DOMAIN log : log[n] \in Logged
  BY <1>1
<1> QED BY <1>2 DEF Logged

(* handler.go:101: the stamp is taken after the request arrived. *)
LEMMA StampOrder ==
  ASSUME ClockMode = "strict", TypeOK, OrderInv, NEW x \in Handler, TakeStamp(x)
  PROVE  OrderInv'
<1>1. /\ h'[x].at = clock /\ h'[x].after = h[x].after
      /\ clock' = clock + 1 /\ log' = log
      /\ \A y \in Handler \ {x} : h'[y] = h[y]
  BY DEF TakeStamp, ReadClock, TypeOK, Locals, history
<1>2. clock \in Nat /\ h[x].after \subseteq DOMAIN log
  BY DEF TypeOK
<1>3. \A n \in DOMAIN log : log[n].at \in Nat
  BY LoggedTypes
<1>4. \A y \in Handler : h[y].at \in Nat
  BY DEF TypeOK, Locals
<1>5. \A n \in DOMAIN log : log[n].at < clock'
  BY <1>1, <1>2, <1>3 DEF OrderInv
<1>6. \A y \in Handler : h'[y].pc \in Stamped \ {"applied"} =>
        h'[y].at < clock' /\ \A m \in h'[y].after : log[m].at < h'[y].at
  BY <1>1, <1>2, <1>3, <1>4 DEF OrderInv
<1> QED BY <1>1, <1>5, <1>6 DEF OrderInv

(* store.go:93-113: a commit logs the stamp that was taken before. *)
LEMMA CommitOrder ==
  ASSUME IInv, OrderInv, NEW x \in Handler, Rename(x)
  PROVE  OrderInv'
<1> DEFINE b == [events |-> h[x].events, at |-> h[x].at, after |-> h[x].after]
<1>1. /\ log' = Append(log, b) /\ clock' = clock /\ h[x].pc = "written"
      /\ h'[x].pc = "applied" /\ \A y \in Handler \ {x} : h'[y] = h[y]
  BY DEF Rename, IInv, TypeOK, Locals, At
<1>2. b \in Logged /\ log \in Seq(Logged)
  <2>1. h[x].events \in SUBSET Event /\ h[x].at \in Nat \ {0} /\ h[x].after \in SUBSET Nat
    BY <1>1 DEF IInv, TypeOK, Locals, StampedInv, Stamped
  <2> QED BY <2>1 DEF Logged, IInv, TypeOK
<1>3. /\ DOMAIN log' = DOMAIN log \cup {Len(log) + 1}
      /\ log'[Len(log) + 1] = b /\ \A n \in DOMAIN log : log'[n] = log[n]
  BY <1>1, <1>2, LogGrows
<1>4. /\ b.at < clock
      /\ \A m \in b.after : m \in DOMAIN log /\ log[m].at < b.at
  BY <1>1 DEF OrderInv, Stamped, IInv, TypeOK
<1>5. \A y \in Handler : h[y].after \subseteq DOMAIN log
  BY DEF IInv, TypeOK
<1> HIDE DEF b
<1>6. \A n \in DOMAIN log' :
        /\ log'[n].at < clock'
        /\ \A m \in log'[n].after : m \in DOMAIN log' /\ log'[m].at < log'[n].at
  BY <1>1, <1>3, <1>4 DEF OrderInv
<1>7. \A y \in Handler : h'[y].pc \in Stamped \ {"applied"} =>
        h'[y].at < clock' /\ \A m \in h'[y].after : log'[m].at < h'[y].at
  BY <1>1, <1>3, <1>5 DEF OrderInv
<1> QED BY <1>6, <1>7 DEF OrderInv

(* handler.go:70-116: every step keeps stamps in the order of requests. *)
LEMMA OrderNext ==
  ASSUME ClockMode = "strict"
  PROVE  IInv /\ OrderInv /\ [Next]_vars => OrderInv'
<1> SUFFICES ASSUME IInv, OrderInv, [Next]_vars PROVE OrderInv'
  OBVIOUS
<1>0. Idle.pc \notin Stamped
  BY IdleType DEF Stamped
<1>1. ASSUME UNCHANGED <<clock, log>>,
             \A y \in Handler : h'[y].pc \in Stamped \ {"applied"} =>
               /\ h[y].pc \in Stamped \ {"applied"}
               /\ h'[y].at = h[y].at /\ h'[y].after = h[y].after
      PROVE  OrderInv'
  BY <1>1 DEF OrderInv
<1>2. ASSUME NEW x \in Handler, Arrive(x) PROVE OrderInv'
  <2>1. /\ h'[x].pc = "arrived" /\ UNCHANGED <<clock, log>>
        /\ \A y \in Handler \ {x} : h'[y] = h[y]
    BY <1>2 DEF Arrive, IInv, TypeOK, Idle, server, history
  <2> QED BY <1>1, <2>1 DEF Stamped
<1>3. ASSUME NEW x \in Handler, Refuse(x) \/ Fail(x) \/ Reply(x) PROVE OrderInv'
  <2>1. /\ h'[x] = Idle /\ UNCHANGED <<clock, log>>
        /\ \A y \in Handler \ {x} : h'[y] = h[y]
    BY <1>3 DEF Refuse, Fail, Reply, IInv, TypeOK, server, history
  <2> QED BY <1>0, <1>1, <2>1
<1>4. ASSUME NEW x \in Handler, Lock(x) \/ Load(x) \/ WriteTemp(x) PROVE OrderInv'
  <2>1. /\ h[x].pc \in Stamped \ {"applied"} /\ UNCHANGED <<clock, log>>
        /\ h'[x].at = h[x].at /\ h'[x].after = h[x].after
        /\ \A y \in Handler \ {x} : h'[y] = h[y]
    BY <1>4 DEF Lock, Load, WriteTemp, Step, At, IInv, TypeOK, Locals, Stamped,
                server, history
  <2> QED BY <1>1, <2>1
<1>5. ASSUME Crash \/ PowerLoss PROVE OrderInv'
  BY <1>0, <1>1, <1>5 DEF Crash, PowerLoss, history
<1>6. ASSUME FlushDirectory \/ UNCHANGED vars PROVE OrderInv'
  BY <1>1, <1>6 DEF FlushDirectory, vars
<1>7. ASSUME NEW x \in Handler, TakeStamp(x) \/ Rename(x) PROVE OrderInv'
  BY <1>7, StampOrder, CommitOrder DEF IInv
<1> QED BY <1>2, <1>3, <1>4, <1>5, <1>6, <1>7 DEF Next, HandlerStep

(* Of the batches on a channel, one with the latest stamp was followed by  *)
(* no other.                                                               *)
LEMMA LatestIsLast ==
  ASSUME IInv, OrderInv, NEW c, NEW n \in On(c),
         \A m \in On(c) : log[m].at <= log[n].at
  PROVE  n \in LastOn(c)
<1>1. On(c) \subseteq DOMAIN log /\ \A m \in DOMAIN log : log[m].at \in Nat
  BY LoggedTypes DEF On, Live, IInv
<1>2. ASSUME NEW m \in On(c), n \in log[m].after PROVE FALSE
  <2>1. log[n].at < log[m].at /\ log[m].at <= log[n].at
    BY <1>1, <1>2 DEF OrderInv
  <2> QED BY <1>1, <2>1
<1> QED BY <1>2 DEF LastOn

(* merge.go:24-26: what the file says of a channel is decided by a batch   *)
(* that no other on that channel followed.                                 *)
LEMMA DecidedByLast ==
  ASSUME IInv, OrderInv, NEW c \in Channel, On(c) # {}
  PROVE  /\ c \in SubscribedChannels(file) =>
              \E n \in LastOn(c) : [channel |-> c, action |-> Add] \in log[n].events
         /\ c \notin SubscribedChannels(file) =>
              \E n \in LastOn(c) : [channel |-> c, action |-> Remove] \in log[n].events
<1> DEFINE A == [channel |-> c, action |-> Add]
           R == [channel |-> c, action |-> Remove]
           T(e) == StampsOf(Live, e)
<1>1. /\ Live \subseteq DOMAIN log
      /\ \A n \in DOMAIN log : log[n].at \in Nat \ {0} /\ log[n].events \subseteq Event
  BY LoggedTypes DEF IInv, Live
<1>2. file[c].lastAdded \in Nat /\ file[c].lastRemoved \in Nat
  BY DEF IInv, TypeOK, State, ChannelState
<1>3. IsLatest(file[c].lastAdded, T(A)) /\ IsLatest(file[c].lastRemoved, T(R))
  BY DEF IInv, JoinInv, IsJoin
<1>4. \A n \in On(c) : n \in Live /\ (A \in log[n].events \/ R \in log[n].events)
  <2> SUFFICES ASSUME NEW n \in On(c) PROVE A \in log[n].events \/ R \in log[n].events
    BY DEF On
  <2>1. PICK e \in log[n].events : e.channel = c
    BY DEF On
  <2>2. e \in Event
    BY <1>1, <2>1 DEF On
  <2>3. e.action \in {Add, Remove} /\ e = [channel |-> e.channel, action |-> e.action]
    BY <2>2 DEF Event, Action
  <2>4. e = A \/ e = R
    BY <2>1, <2>3
  <2> QED BY <2>1, <2>4
<1>5. \A n \in Live, e \in {A, R} : e \in log[n].events => n \in On(c) /\ log[n].at \in T(e)
  BY DEF On, StampsOf
<1>6. ASSUME NEW e \in {A, R}, NEW t \in Nat, IsLatest(t, T(e)), t # 0,
             \A f \in {A, R} : \A s \in T(f) : s <= t
      PROVE  \E n \in LastOn(c) : e \in log[n].events
  <2>1. t \in T(e)
    BY <1>6 DEF IsLatest
  <2>2. PICK n \in Live : e \in log[n].events /\ log[n].at = t
    BY <2>1 DEF StampsOf
  <2>3. \A m \in On(c) : log[m].at <= log[n].at
    BY <1>4, <1>5, <1>6, <2>2
  <2>4. n \in LastOn(c)
    BY <1>5, <2>2, <2>3, LatestIsLast
  <2> QED BY <2>2, <2>4
<1>7. /\ \A s \in T(A) : s \in Nat /\ s <= file[c].lastAdded
      /\ \A s \in T(R) : s \in Nat /\ s <= file[c].lastRemoved
  BY <1>1, <1>3 DEF IsLatest, StampsOf
<1>8. c \in SubscribedChannels(file) <=> file[c].lastAdded > file[c].lastRemoved
  BY DEF SubscribedChannels, Subscribed
<1> HIDE DEF A, R, T
<1>9. CASE file[c].lastAdded > file[c].lastRemoved
  BY <1>2, <1>3, <1>6, <1>7, <1>8, <1>9 DEF A
<1>10. CASE ~ file[c].lastAdded > file[c].lastRemoved
  <2>1. file[c].lastRemoved # 0
    <3> SUFFICES ASSUME file[c].lastRemoved = 0 PROVE FALSE
      OBVIOUS
    <3>1. file[c].lastAdded = 0
      BY <1>2, <1>10
    <3>2. T(A) = {} /\ T(R) = {}
      BY <1>1, <1>7, <3>1 DEF T, StampsOf
    <3> QED BY <1>4, <1>5, <3>2
  <2> QED BY <1>2, <1>3, <1>6, <1>7, <1>8, <1>10, <2>1 DEF R
<1> QED BY <1>9, <1>10

(***************************************************************************)
(* README.md:127-131: whichever event reaches the server later wins, for   *)
(* any number of requests, failures and crashes, where the clock gives no  *)
(* two requests the same time and is never set back.                       *)
(***************************************************************************)
THEOREM SyncServerLaterWins == ASSUME ClockMode = "strict" PROVE Spec => []LaterWins
<1>1. Init => OrderInv
  BY IdleType DEF Init, OrderInv, Stamped
<1>2. IInv /\ OrderInv => LaterWins
  <2> SUFFICES ASSUME IInv, OrderInv, NEW c \in Channel, On(c) # {}
               PROVE  /\ (\A n \in LastOn(c) : Only(n, c, Add))
                            => c \in SubscribedChannels(file)
                      /\ (\A n \in LastOn(c) : Only(n, c, Remove))
                            => c \notin SubscribedChannels(file)
    BY DEF LaterWins
  <2>1. \A n \in LastOn(c), a \in {Add, Remove} :
          [channel |-> c, action |-> a] \in log[n].events =>
            \A b : Only(n, c, b) => b = a
    BY DEF Only
  <2>2. Add # Remove
    BY DEF Add, Remove
  <2> QED BY <2>1, <2>2, DecidedByLast
<1>3. IInv /\ OrderInv /\ [Next]_vars => OrderInv'
  BY OrderNext
<1> QED BY <1>1, <1>2, <1>3, AlwaysIInv, PTL DEF Spec

-----------------------------------------------------------------------------
(* The instance's operators are those of LWW. *)
LEMMA StoreOperators ==
  ASSUME NEW s, NEW events, NEW at
  PROVE  /\ Store!ApplyEvents(s, events, at) = ApplyEvents(s, events, at)
         /\ Store!EmptyState = EmptyState
BY DEF Store!ApplyEvents, Store!Merge, Store!mergeChannelState, Store!max64,
       Store!StampAll, Store!Add, Store!Remove, Store!EmptyState,
       ApplyEvents, Merge, mergeChannelState, max64, StampAll, Add, Remove, EmptyState

(* store.go:93-109: each step is a step of the atomic register or none. *)
LEMMA StoreStep == IInv /\ [Next]_vars => [Store!Next]_<<file, disk>>
<1> SUFFICES ASSUME IInv, [Next]_vars PROVE [Store!Next]_<<file, disk>>
  OBVIOUS
<1>1. ASSUME NEW x \in Handler, Rename(x) PROVE Store!Apply
  <2>1. /\ file' = ApplyEvents(file, h[x].events, h[x].at) /\ disk' = disk
        /\ h[x].events \in SUBSET Event /\ h[x].at \in 1..MaxTime
    BY <1>1 DEF Rename, IInv, HolderInv, StampedInv, Stamped, At
  <2> QED BY <2>1, StoreOperators DEF Store!Apply
<1>2. ASSUME NEW x \in Handler,
             \/ Arrive(x) \/ Refuse(x) \/ TakeStamp(x) \/ Lock(x) \/ Load(x)
             \/ WriteTemp(x) \/ Fail(x) \/ Reply(x)
      PROVE  UNCHANGED <<file, disk>>
  BY <1>2 DEF Arrive, Refuse, TakeStamp, Lock, Load, WriteTemp, Fail, Reply, server
<1>3. CASE FlushDirectory
  BY <1>3 DEF FlushDirectory, Store!Next, Store!Flush
<1>4. CASE PowerLoss
  BY <1>4 DEF PowerLoss, Store!Next, Store!Revert
<1>5. CASE Crash \/ UNCHANGED vars
  BY <1>5 DEF Crash, vars
<1> QED BY <1>1, <1>2, <1>3, <1>4, <1>5 DEF Next, HandlerStep, Store!Next

(***************************************************************************)
(* store.go:88-92: the whole read-modify-write cycle is one atomic step.   *)
(* The server, with its concurrent handlers, failures, crashes and power   *)
(* losses, implements the atomic register of LWWStore.                     *)
(***************************************************************************)
THEOREM SyncServerImplementsStore == Spec => StoreSpec
<1>1. Init => Store!Init
  BY StoreOperators DEF Init, Store!Init
<1> QED BY <1>1, StoreStep, AlwaysIInv, PTL DEF Spec, StoreSpec, Store!Spec
=============================================================================

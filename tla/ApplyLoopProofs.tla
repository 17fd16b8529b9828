-------------------------- MODULE ApplyLoopProofs --------------------------
(***************************************************************************)
(* The loop of merge.ApplyEvents computes the declarative ApplyEvents of   *)
(* LWW, for every state, batch and stamp.  SyncServer may therefore apply  *)
(* a batch as a set, in one step.                                          *)
(***************************************************************************)
EXTENDS ApplyLoop, LWWTheorems

(* Nothing processed yet, nothing merged yet. *)
LEMMA ApplyNothing ==
  ASSUME NEW s \in State, NEW at0 \in Nat
  PROVE  ApplyEvents(s, {}, at0) = s
<1>1. ApplyEvents(s, {}, at0) \in State /\ StampAll({}, at0) \in State
  BY ApplyEventsType, StampAllType
<1>2. ASSUME NEW c \in Channel
      PROVE  /\ ApplyEvents(s, {}, at0)[c].lastAdded = s[c].lastAdded
             /\ ApplyEvents(s, {}, at0)[c].lastRemoved = s[c].lastRemoved
  <2>1. /\ ApplyEvents(s, {}, at0)[c].lastAdded = max64(s[c].lastAdded, 0)
        /\ ApplyEvents(s, {}, at0)[c].lastRemoved = max64(s[c].lastRemoved, 0)
    <3>1. /\ StampAll({}, at0)[c].lastAdded = 0
          /\ StampAll({}, at0)[c].lastRemoved = 0
      BY StampNothing DEF EmptyState
    <3> QED BY <1>1, <3>1, MergeFields DEF ApplyEvents
  <2> QED BY <2>1, StateFields DEF max64
<1> QED BY <1>1, <1>2, StateExtensional

(* One more event of a batch: the step of the loop. *)
LEMMA ApplyOneMore ==
  ASSUME NEW s \in State, NEW evs \in SUBSET Event, NEW e \in Event, NEW at0 \in Nat
  PROVE  Merge(ApplyEvents(s, evs, at0), Stamp(e, at0)) = ApplyEvents(s, evs \cup {e}, at0)
<1> DEFINE batch == StampAll(evs, at0)
           more  == StampAll(evs \cup {e}, at0)
           one   == Stamp(e, at0)
<1>1. batch \in State /\ more \in State /\ one \in State /\ Merge(batch, one) \in State
  BY StampAllType, StampType, MergeType
<1>2. Merge(batch, one) = more
  <2>1. ASSUME NEW c \in Channel
        PROVE  /\ Merge(batch, one)[c].lastAdded = more[c].lastAdded
               /\ Merge(batch, one)[c].lastRemoved = more[c].lastRemoved
    <3>1. /\ Merge(batch, one)[c].lastAdded = max64(batch[c].lastAdded, one[c].lastAdded)
          /\ Merge(batch, one)[c].lastRemoved
               = max64(batch[c].lastRemoved, one[c].lastRemoved)
      BY <1>1, MergeFields
    <3>2. ASSUME NEW a \in Action
          PROVE  [channel |-> c, action |-> a] = e <=> c = e.channel /\ a = e.action
      BY DEF Event
    <3>3. Add \in Action /\ Remove \in Action
      BY DEF Action
    <3>4. /\ more[c].lastAdded = IF \/ [channel |-> c, action |-> Add] \in evs
                                    \/ c = e.channel /\ e.action = Add
                                 THEN at0 ELSE 0
          /\ more[c].lastRemoved = IF \/ [channel |-> c, action |-> Remove] \in evs
                                      \/ c = e.channel /\ e.action = Remove
                                   THEN at0 ELSE 0
      BY <3>2, <3>3, StampAllFields
    <3> QED BY <3>1, <3>4, StampFields, StampAllFields DEF max64
  <2> QED BY <1>1, <2>1, StateExtensional
<1>3. Merge(Merge(s, batch), one) = Merge(s, Merge(batch, one))
  BY <1>1, MergeAssociative
<1> QED BY <1>2, <1>3 DEF ApplyEvents

-----------------------------------------------------------------------------
Inv == TypeOK /\ LoopInvariant

(* merge.go:115: the arguments of the call are a state, a stamp and events. *)
LEMMA ArgumentTypes ==
  ASSUME TypeOK
  PROVE  /\ state \in State /\ at \in Nat
         /\ events \in Seq([channel : Channel, action : Action \cup {BadAction}])
         /\ Len(events) \in Nat /\ DOMAIN events = 1..Len(events)
<1> DEFINE T == [channel : Channel, action : Action \cup {BadAction}]
<1>1. state \in State /\ at \in Nat /\ events \in Seq(T)
  BY ApplyLoopAssumption DEF TypeOK
<1> HIDE DEF T
<1>2. Len(events) \in Nat /\ DOMAIN events = 1..Len(events)
  BY <1>1
<1> QED BY <1>1, <1>2 DEF T

(* merge.go:116: the loop starts from the given state. *)
LEMMA InvInit == Init => Inv
<1> SUFFICES ASSUME Init PROVE Inv
  OBVIOUS
<1>1. Len(events) \in Nat
  BY ApplyLoopAssumption DEF Init
<1>2. state \in State /\ at \in Nat
  BY ApplyLoopAssumption DEF Init
<1>3. TypeOK
  BY <1>1, <1>2 DEF Init, TypeOK
<1>4. Processed = {}
  BY DEF Init, Processed
<1>5. LoopInvariant
  BY <1>2, <1>4, ApplyNothing DEF Init, LoopInvariant
<1> QED BY <1>3, <1>5 DEF Inv

(* merge.go:117-123: an iteration keeps the loop invariant. *)
LEMMA InvNext == Inv /\ [Next]_vars => Inv'
<1> SUFFICES ASSUME Inv, [Next]_vars PROVE Inv'
  OBVIOUS
<1> USE DEF Inv
<1>0. /\ state \in State /\ at \in Nat /\ Len(events) \in Nat
      /\ DOMAIN events = 1..Len(events)
      /\ events \in Seq([channel : Channel, action : Action \cup {BadAction}])
  BY ArgumentTypes
<1>1. CASE MergeNext
  <2>1. events[i] \in Event
    <3> DEFINE T == [channel : Channel, action : Action \cup {BadAction}]
    <3>1. events[i] \in T
      <4>1. events \in Seq(T) /\ i \in DOMAIN events
        BY <1>0, <1>1 DEF MergeNext, TypeOK
      <4> HIDE DEF T
      <4> QED BY <4>1
    <3> QED BY <1>1, <3>1 DEF MergeNext, Event
  <2>2. Processed' = Processed \cup {events[i]}
    BY <1>1 DEF MergeNext, Processed, TypeOK
  <2>3. out' = ApplyEvents(state, Processed', at)
    BY <1>0, <1>1, <2>1, <2>2, ApplyOneMore DEF MergeNext, LoopInvariant
  <2>4. LoopInvariant'
    BY <1>1, <2>1, <2>2, <2>3 DEF MergeNext, LoopInvariant
  <2>5. out' \in State
    BY <1>0, <2>3, ApplyEventsType
  <2>6. TypeOK'
    BY <1>0, <1>1, <2>5 DEF MergeNext, TypeOK
  <2> QED BY <2>4, <2>6
<1>2. CASE StampFails
  BY <1>2 DEF StampFails, TypeOK, LoopInvariant, Processed
<1>3. CASE Return
  BY <1>0, <1>3 DEF Return, TypeOK, LoopInvariant, Processed
<1>4. CASE UNCHANGED vars
  BY <1>4 DEF vars, TypeOK, LoopInvariant, Processed
<1> QED BY <1>1, <1>2, <1>3, <1>4 DEF Next

(* merge.go:115-125: the loop invariant holds throughout. *)
LEMMA InvAlways == Spec => []Inv
BY InvInit, InvNext, PTL DEF Spec

(* When the loop is over, what it has processed is the whole batch. *)
LEMMA InvOrderIndependent == Inv => OrderIndependent
<1> SUFFICES ASSUME Inv, status = "ok"
             PROVE  out = ApplyEvents(state, Batch, at)
  BY DEF OrderIndependent
<1>1. DOMAIN events = 1..Len(events) /\ Len(events) \in Nat
  BY ArgumentTypes DEF Inv
<1>2. i - 1 = Len(events)
  BY <1>1 DEF Inv, LoopInvariant
<1>3. Processed = Batch
  BY <1>1, <1>2 DEF Processed, Batch
<1> QED BY <1>3 DEF Inv, LoopInvariant

(* merge.go:115-125: the loop keeps its types, and the state it accumulates *)
(* is one, whatever batch and start it is given.                            *)
THEOREM ApplyEventsTypeOK == Spec => []TypeOK
<1>1. Inv => TypeOK
  BY DEF Inv
<1> QED BY <1>1, InvAlways, PTL

(***************************************************************************)
(* merge.go:107-114: what ApplyEvents returns depends on the set of events *)
(* only, not on their order or number.                                     *)
(***************************************************************************)
THEOREM ApplyEventsOrderIndependent == Spec => []OrderIndependent
BY InvOrderIndependent, InvAlways, PTL

(***************************************************************************)
(* merge.go:52-56: merging the events of a batch in again, under the stamp *)
(* they already have, changes nothing.                                     *)
(***************************************************************************)
THEOREM ApplyEventsIdempotent == Spec => []SameStampIdempotent
<1>1. Inv => SameStampIdempotent
  <2> SUFFICES ASSUME Inv, status = "ok"
               PROVE  ApplyEvents(out, Batch, at) = out
    BY DEF SameStampIdempotent
  <2>1. state \in State /\ at \in Nat
    BY ArgumentTypes DEF Inv
  <2>2. out = Merge(state, StampAll(Batch, at))
    BY InvOrderIndependent DEF OrderIndependent, ApplyEvents
  <2> QED BY <2>1, <2>2, StampAllType, MergeIdempotent DEF ApplyEvents
<1> QED BY <1>1, InvAlways, PTL

(***************************************************************************)
(* merge.go:115-125 with store.go:101-104: one bad action anywhere in the  *)
(* batch, and no state is returned; none, and there is no error.           *)
(***************************************************************************)
THEOREM ApplyEventsAllOrNothing == Spec => []AllOrNothing
<1> DEFINE J == status = "error" => i \in DOMAIN events /\ events[i].action \notin Action
<1>1. Init => J
  BY DEF Init
<1>2. Inv /\ J /\ [Next]_vars => J'
  <2> SUFFICES ASSUME Inv, J, [Next]_vars PROVE J'
    OBVIOUS
  <2>1. DOMAIN events = 1..Len(events) /\ Len(events) \in Nat
    BY ArgumentTypes DEF Inv
  <2>2. i \in Nat \ {0}
    BY <2>1 DEF Inv, TypeOK
  <2> QED BY <2>1, <2>2 DEF Next, MergeNext, StampFails, Return, vars
<1>3. Inv /\ J => AllOrNothing
  <2> SUFFICES ASSUME Inv, J PROVE AllOrNothing
    OBVIOUS
  <2>1. DOMAIN events = 1..Len(events) /\ Len(events) \in Nat
    BY ArgumentTypes DEF Inv
  <2>2. CASE status = "ok"
    <3>1. i - 1 = Len(events)
      BY <2>1, <2>2 DEF Inv, LoopInvariant
    <3>2. Processed = Batch
      BY <2>1, <3>1 DEF Processed, Batch
    <3> QED BY <2>2, <3>2 DEF Inv, LoopInvariant, AllOrNothing
  <2>3. CASE status = "error"
    <3>1. events[i] \in Batch /\ events[i].action \notin Action
      BY <2>3 DEF Batch
    <3>2. events[i] \notin Event
      BY <3>1 DEF Event
    <3> QED BY <2>3, <3>1, <3>2 DEF AllOrNothing
  <2> QED BY <2>2, <2>3 DEF AllOrNothing
<1> QED BY <1>1, <1>2, <1>3, InvAlways, PTL DEF Spec
=============================================================================

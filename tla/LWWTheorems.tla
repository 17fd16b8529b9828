---------------------------- MODULE LWWTheorems ----------------------------
(***************************************************************************)
(* The laws of package merge, for every set of channels and all stamps.    *)
(***************************************************************************)
EXTENDS LWW, TLAPS

(* merge.go:36-41: max64 is the maximum, on which the laws of Merge rest. *)
LEMMA Max64Laws ==
  ASSUME NEW a \in Nat, NEW b \in Nat, NEW c \in Nat
  PROVE  /\ max64(a, b) \in Nat
         /\ max64(a, b) = max64(b, a)
         /\ max64(a, max64(b, c)) = max64(max64(a, b), c)
         /\ max64(a, a) = a
         /\ max64(a, b) = a <=> a >= b
BY DEF max64

(* merge.go:57-70, 115-125: merging and stamping stay within State. *)
LEMMA MergeType ==
  ASSUME NEW a \in State, NEW b \in State
  PROVE  Merge(a, b) \in State
BY DEF Merge, mergeChannelState, max64, State, ChannelState

(* store.go:35-51: what a missing state file stands for is a state. *)
LEMMA EmptyStateType == EmptyState \in State
BY DEF EmptyState, State, ChannelState

(* merge.go:94-105: the singleton state of a valid event is a state. *)
LEMMA StampType ==
  ASSUME NEW e \in Event, NEW at \in Nat
  PROVE  Stamp(e, at) \in State
BY DEF Stamp, EmptyState, State, ChannelState, Event

(* merge.go:115-125: a batch under one stamp is a state. *)
LEMMA StampAllType ==
  ASSUME NEW events, NEW at \in Nat
  PROVE  StampAll(events, at) \in State
BY DEF StampAll, State, ChannelState

(* merge.go:115-125: applying a batch to a state yields a state. *)
LEMMA ApplyEventsType ==
  ASSUME NEW s \in State, NEW events, NEW at \in Nat
  PROVE  ApplyEvents(s, events, at) \in State
BY MergeType, StampAllType DEF ApplyEvents

(***************************************************************************)
(* Two states are equal when their stamps are.                             *)
(***************************************************************************)
LEMMA StateExtensional ==
  ASSUME NEW a \in State, NEW b \in State,
         \A c \in Channel : /\ a[c].lastAdded = b[c].lastAdded
                            /\ a[c].lastRemoved = b[c].lastRemoved
  PROVE  a = b
<1>1. ASSUME NEW c \in Channel PROVE a[c] = b[c]
  <2>1. a[c] \in ChannelState /\ b[c] \in ChannelState
    BY DEF State
  <2> QED BY <2>1 DEF ChannelState
<1> QED BY <1>1 DEF State

(* The stamps of a merge are the maxima of the stamps. *)
LEMMA MergeFields ==
  ASSUME NEW a \in State, NEW b \in State, NEW c \in Channel
  PROVE  /\ Merge(a, b)[c].lastAdded = max64(a[c].lastAdded, b[c].lastAdded)
         /\ Merge(a, b)[c].lastRemoved = max64(a[c].lastRemoved, b[c].lastRemoved)
BY DEF Merge, mergeChannelState

(* merge.go:15-18: both stamps of a channel are numbers. *)
LEMMA StateFields ==
  ASSUME NEW a \in State, NEW c \in Channel
  PROVE  a[c].lastAdded \in Nat /\ a[c].lastRemoved \in Nat
BY DEF State, ChannelState

(* The stamps of one event and of a batch. *)
LEMMA StampFields ==
  ASSUME NEW e \in Event, NEW at0 \in Nat, NEW c \in Channel
  PROVE  /\ Stamp(e, at0)[c].lastAdded
              = IF c = e.channel /\ e.action = Add THEN at0 ELSE 0
         /\ Stamp(e, at0)[c].lastRemoved
              = IF c = e.channel /\ e.action = Remove THEN at0 ELSE 0
BY DEF Stamp, EmptyState, Event

(* merge.go:115-125: the stamps of a whole batch, channel by channel. *)
LEMMA StampAllFields ==
  ASSUME NEW evs, NEW at0 \in Nat, NEW c \in Channel
  PROVE  /\ StampAll(evs, at0)[c].lastAdded
              = IF [channel |-> c, action |-> Add] \in evs THEN at0 ELSE 0
         /\ StampAll(evs, at0)[c].lastRemoved
              = IF [channel |-> c, action |-> Remove] \in evs THEN at0 ELSE 0
BY DEF StampAll

(* merge.go:115-125: a batch without events stamps nothing. *)
LEMMA StampNothing ==
  ASSUME NEW at0 \in Nat
  PROVE  StampAll({}, at0) = EmptyState
BY DEF StampAll, EmptyState

-----------------------------------------------------------------------------
(***************************************************************************)
(* merge.go:50: Merge(a, b) == Merge(b, a).                                *)
(***************************************************************************)
THEOREM MergeCommutative ==
  ASSUME NEW a \in State, NEW b \in State
  PROVE  Merge(a, b) = Merge(b, a)
<1>1. Merge(a, b) \in State /\ Merge(b, a) \in State
  BY MergeType
<1>2. ASSUME NEW c \in Channel
      PROVE  /\ Merge(a, b)[c].lastAdded = Merge(b, a)[c].lastAdded
             /\ Merge(a, b)[c].lastRemoved = Merge(b, a)[c].lastRemoved
  BY MergeFields, StateFields, Max64Laws
<1> QED BY <1>1, <1>2, StateExtensional

(***************************************************************************)
(* merge.go:51: Merge(Merge(a, b), c) == Merge(a, Merge(b, c)).            *)
(***************************************************************************)
THEOREM MergeAssociative ==
  ASSUME NEW a \in State, NEW b \in State, NEW d \in State
  PROVE  Merge(Merge(a, b), d) = Merge(a, Merge(b, d))
<1>1. /\ Merge(a, b) \in State /\ Merge(b, d) \in State
      /\ Merge(Merge(a, b), d) \in State /\ Merge(a, Merge(b, d)) \in State
  BY MergeType
<1>2. ASSUME NEW c \in Channel
      PROVE  /\ Merge(Merge(a, b), d)[c].lastAdded = Merge(a, Merge(b, d))[c].lastAdded
             /\ Merge(Merge(a, b), d)[c].lastRemoved
                  = Merge(a, Merge(b, d))[c].lastRemoved
  <2>1. /\ Merge(Merge(a, b), d)[c].lastAdded
              = max64(max64(a[c].lastAdded, b[c].lastAdded), d[c].lastAdded)
        /\ Merge(a, Merge(b, d))[c].lastAdded
              = max64(a[c].lastAdded, max64(b[c].lastAdded, d[c].lastAdded))
    BY <1>1, MergeFields
  <2>2. /\ Merge(Merge(a, b), d)[c].lastRemoved
              = max64(max64(a[c].lastRemoved, b[c].lastRemoved), d[c].lastRemoved)
        /\ Merge(a, Merge(b, d))[c].lastRemoved
              = max64(a[c].lastRemoved, max64(b[c].lastRemoved, d[c].lastRemoved))
    BY <1>1, MergeFields
  <2> QED BY <2>1, <2>2, StateFields, Max64Laws
<1> QED BY <1>1, <1>2, StateExtensional

(***************************************************************************)
(* merge.go:52: Merge(a, a) == a, and merging the same thing in again is a *)
(* no-op.                                                                  *)
(***************************************************************************)
THEOREM MergeIdempotent ==
  ASSUME NEW a \in State, NEW b \in State
  PROVE  Merge(a, a) = a /\ Merge(Merge(a, b), b) = Merge(a, b)
<1>1. Merge(a, b) \in State /\ Merge(a, a) \in State /\ Merge(b, b) \in State
  BY MergeType
<1>2. ASSUME NEW s \in State PROVE Merge(s, s) = s
  <2>1. ASSUME NEW c \in Channel
        PROVE  /\ Merge(s, s)[c].lastAdded = s[c].lastAdded
               /\ Merge(s, s)[c].lastRemoved = s[c].lastRemoved
    BY MergeFields, StateFields, Max64Laws
  <2> QED BY <2>1, MergeType, StateExtensional
<1>3. Merge(Merge(a, b), b) = Merge(a, Merge(b, b))
  BY MergeAssociative
<1> QED BY <1>2, <1>3

(***************************************************************************)
(* merge.go:20-27: an event decides its channel exactly when its stamp is  *)
(* not older than what is there: an add must be newer than the last        *)
(* removal, a removal wins ties.                                           *)
(***************************************************************************)
THEOREM EventDecides ==
  ASSUME NEW s \in State, NEW c \in Channel, NEW at \in Nat,
         at >= s[c].lastAdded, at >= s[c].lastRemoved
  PROVE  /\ c \in SubscribedChannels(
                   ApplyEvents(s, {[channel |-> c, action |-> Add]}, at))
              <=> at > s[c].lastRemoved
         /\ c \notin SubscribedChannels(
                      ApplyEvents(s, {[channel |-> c, action |-> Remove]}, at))
<1> DEFINE add == StampAll({[channel |-> c, action |-> Add]}, at)
           rem == StampAll({[channel |-> c, action |-> Remove]}, at)
<1>1. add \in State /\ rem \in State
  BY StampAllType
<1>2. /\ add[c].lastAdded = at /\ add[c].lastRemoved = 0
      /\ rem[c].lastAdded = 0 /\ rem[c].lastRemoved = at
  BY DEF StampAll, Add, Remove
<1>3. s[c].lastAdded \in Nat /\ s[c].lastRemoved \in Nat
  BY StateFields
<1>4. /\ Merge(s, add)[c].lastAdded = max64(s[c].lastAdded, add[c].lastAdded)
      /\ Merge(s, add)[c].lastRemoved = max64(s[c].lastRemoved, add[c].lastRemoved)
      /\ Merge(s, rem)[c].lastAdded = max64(s[c].lastAdded, rem[c].lastAdded)
      /\ Merge(s, rem)[c].lastRemoved = max64(s[c].lastRemoved, rem[c].lastRemoved)
  BY <1>1, MergeFields
<1> HIDE DEF add, rem
<1>5. /\ Merge(s, add)[c].lastAdded = at
      /\ Merge(s, add)[c].lastRemoved = s[c].lastRemoved
      /\ Merge(s, rem)[c].lastAdded = s[c].lastAdded
      /\ Merge(s, rem)[c].lastRemoved = at
  BY <1>2, <1>3, <1>4 DEF max64
<1> QED BY <1>3, <1>5 DEF SubscribedChannels, Subscribed, ApplyEvents, add, rem

(* merge.go:57-70, 115-125: a batch can only make stamps newer, and only of *)
(* what it has events for.                                                  *)
LEMMA BatchStamps ==
  ASSUME NEW s \in State, NEW events, NEW at \in Nat, NEW c \in Channel
  PROVE  LET new == ApplyEvents(s, events, at)
         IN  /\ new[c].lastAdded = IF [channel |-> c, action |-> Add] \in events
                                   THEN max64(s[c].lastAdded, at) ELSE s[c].lastAdded
             /\ new[c].lastRemoved = IF [channel |-> c, action |-> Remove] \in events
                                     THEN max64(s[c].lastRemoved, at)
                                     ELSE s[c].lastRemoved
<1> DEFINE add    == [channel |-> c, action |-> Add] \in events
           remove == [channel |-> c, action |-> Remove] \in events
           new    == ApplyEvents(s, events, at)
<1>1. s[c].lastAdded \in Nat /\ s[c].lastRemoved \in Nat
  BY StateFields
<1>2. /\ new[c].lastAdded = max64(s[c].lastAdded, IF add THEN at ELSE 0)
      /\ new[c].lastRemoved = max64(s[c].lastRemoved, IF remove THEN at ELSE 0)
  BY StampAllType, StampAllFields, MergeFields DEF ApplyEvents
<1> HIDE DEF new, add, remove
<1>3. /\ new[c].lastAdded = IF add THEN max64(s[c].lastAdded, at) ELSE s[c].lastAdded
      /\ new[c].lastRemoved = IF remove THEN max64(s[c].lastRemoved, at)
                              ELSE s[c].lastRemoved
  BY <1>1, <1>2 DEF max64
<1> QED BY <1>3 DEF new, add, remove

(***************************************************************************)
(* merge.go:20-27, 50-70, 115-125: a batch decides a channel it has one    *)
(* event for where nothing opposite is stamped later than it (and, for an  *)
(* addition, at the same time); it leaves the other channels as they were. *)
(***************************************************************************)
THEOREM BatchDecides ==
  ASSUME NEW s \in State, NEW events, NEW at \in Nat, NEW c \in Channel
  PROVE  LET add    == [channel |-> c, action |-> Add] \in events
             remove == [channel |-> c, action |-> Remove] \in events
             new    == ApplyEvents(s, events, at)
         IN  /\ add /\ ~ remove /\ s[c].lastRemoved < at =>
                  c \in SubscribedChannels(new)
             /\ remove /\ ~ add /\ s[c].lastAdded <= at =>
                  c \notin SubscribedChannels(new)
             /\ ~ add /\ ~ remove =>
                  (c \in SubscribedChannels(new) <=> c \in SubscribedChannels(s))
<1> DEFINE add    == [channel |-> c, action |-> Add] \in events
           remove == [channel |-> c, action |-> Remove] \in events
           new    == ApplyEvents(s, events, at)
<1>1. s[c].lastAdded \in Nat /\ s[c].lastRemoved \in Nat
  BY StateFields
<1>2. /\ new[c].lastAdded = IF add THEN max64(s[c].lastAdded, at) ELSE s[c].lastAdded
      /\ new[c].lastRemoved = IF remove THEN max64(s[c].lastRemoved, at)
                              ELSE s[c].lastRemoved
  BY BatchStamps
<1>3. /\ c \in SubscribedChannels(new) <=> new[c].lastAdded > new[c].lastRemoved
      /\ c \in SubscribedChannels(s) <=> s[c].lastAdded > s[c].lastRemoved
  BY DEF SubscribedChannels, Subscribed
<1> HIDE DEF new, add, remove
<1>4. /\ add /\ ~ remove /\ s[c].lastRemoved < at => c \in SubscribedChannels(new)
      /\ remove /\ ~ add /\ s[c].lastAdded <= at => c \notin SubscribedChannels(new)
      /\ ~ add /\ ~ remove =>
           (c \in SubscribedChannels(new) <=> c \in SubscribedChannels(s))
  BY <1>1, <1>2, <1>3 DEF max64
<1> QED BY <1>4 DEF new, add, remove
=============================================================================

-------------------------------- MODULE LWW --------------------------------
(***************************************************************************)
(* Package merge (internal/merge/merge.go): the last-writer-wins element   *)
(* set behind the sync protocol.  Pure operators, no state.                *)
(*                                                                         *)
(* A Go map from channel ids to stamps is a total function here: a key the *)
(* map lacks has the value a Go lookup returns for it, two zero stamps.    *)
(* Stamps are Unix milliseconds; they stay far below 2^63.                 *)
(***************************************************************************)
EXTENDS Integers

CONSTANT Channel   \* channel identifiers

Add    == "add"
Remove == "remove"
Action == {Add, Remove}

Event == [channel : Channel, action : Action]

ChannelState == [lastAdded : Nat, lastRemoved : Nat]
State        == [Channel -> ChannelState]

EmptyState == [c \in Channel |-> [lastAdded |-> 0, lastRemoved |-> 0]]

\* Mistake: a tie is broken in favour of the newcomer, by moving on.
MistakeMaxBumpsTies(a, b) == IF a > b THEN a ELSE IF a = b THEN a + 1 ELSE b

max64(a, b) == IF a > b THEN a ELSE b

\* A tie is "not subscribed".
Subscribed(s) == s.lastAdded > s.lastRemoved

mergeChannelState(a, b) ==
  [lastAdded   |-> max64(a.lastAdded, b.lastAdded),
   lastRemoved |-> max64(a.lastRemoved, b.lastRemoved)]

Merge(a, b) == [c \in Channel |-> mergeChannelState(a[c], b[c])]

\* The singleton state of one event; only for e.action \in Action.
Stamp(e, at) ==
  [EmptyState EXCEPT ![e.channel] =
     [lastAdded   |-> IF e.action = Add THEN at ELSE 0,
      lastRemoved |-> IF e.action = Remove THEN at ELSE 0]]

(***************************************************************************)
(* What ApplyEvents returns, without its loop: every event of the batch    *)
(* gets the same stamp, so the batch is itself a state, merged once.       *)
(* ApplyLoop shows that the loop of the code computes exactly this, in     *)
(* whatever order and however often the batch lists its events.            *)
(***************************************************************************)
StampAll(events, at) ==
  [c \in Channel |->
     [lastAdded   |-> IF [channel |-> c, action |-> Add] \in events THEN at ELSE 0,
      lastRemoved |-> IF [channel |-> c, action |-> Remove] \in events THEN at ELSE 0]]

ApplyEvents(state, events, at) == Merge(state, StampAll(events, at))

SubscribedChannels(state) == {c \in Channel : Subscribed(state[c])}
=============================================================================

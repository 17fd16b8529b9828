----------------------------- MODULE ApplyLoop -----------------------------
(***************************************************************************)
(* The loop of merge.ApplyEvents (internal/merge/merge.go:115-125), one    *)
(* iteration per step: stamp the next event, merge it into the accumulator *)
(* or give up on an action that is neither "add" nor "remove".             *)
(***************************************************************************)
EXTENDS LWW, Sequences

CONSTANTS
  Starts,     \* states the function may be called with
  Batches,    \* sequences of events it may be called with, invalid ones too
  Stamps,     \* arrival stamps
  BadAction   \* an action name that is neither Add nor Remove

ASSUME ApplyLoopAssumption ==
  /\ Starts \subseteq State
  /\ Stamps \subseteq Nat
  /\ BadAction \notin Action
  /\ Batches \subseteq Seq([channel : Channel, action : Action \cup {BadAction}])

VARIABLES
  state, events, at,   \* the arguments
  i,                   \* index of the next event
  out,                 \* the accumulator
  status               \* "running", "ok" (out is returned) or "error"

vars == <<state, events, at, i, out, status>>

Processed == {events[j] : j \in 1..(i - 1)}
Batch     == {events[j] : j \in DOMAIN events}

Init ==
  /\ state \in Starts
  /\ events \in Batches
  /\ at \in Stamps
  /\ i = 1
  /\ out = state
  /\ status = "running"

\* Mistake: the event's stamps replace the channel's, they are not merged.
MistakeOverwrite ==
  /\ status = "running" /\ i <= Len(events)
  /\ events[i].action \in Action
  /\ out' = [out EXCEPT ![events[i].channel] = Stamp(events[i], at)[events[i].channel]]
  /\ i' = i + 1
  /\ UNCHANGED <<state, events, at, status>>

\* Mistake: the index moves twice.
MistakeSkipsEveryOther ==
  /\ status = "running" /\ i <= Len(events)
  /\ events[i].action \in Action
  /\ out' = Merge(out, Stamp(events[i], at))
  /\ i' = i + 2
  /\ UNCHANGED <<state, events, at, status>>

MergeNext ==
  /\ status = "running" /\ i <= Len(events)
  /\ events[i].action \in Action
  /\ out' = Merge(out, Stamp(events[i], at))
  /\ i' = i + 1
  /\ UNCHANGED <<state, events, at, status>>

\* Mistake: an unknown action is skipped.
MistakeSkipsBadEvent ==
  /\ status = "running" /\ i <= Len(events)
  /\ events[i].action \notin Action
  /\ i' = i + 1
  /\ UNCHANGED <<state, events, at, out, status>>

StampFails ==
  /\ status = "running" /\ i <= Len(events)
  /\ events[i].action \notin Action
  /\ status' = "error"
  /\ UNCHANGED <<state, events, at, i, out>>

Return ==
  /\ status = "running" /\ i > Len(events)
  /\ status' = "ok"
  /\ UNCHANGED <<state, events, at, i, out>>

Next == MergeNext \/ StampFails \/ Return

Spec == Init /\ [][Next]_vars

-----------------------------------------------------------------------------
(* The function's arguments and locals keep their Go types. *)
TypeOK ==
  /\ state \in Starts /\ events \in Batches /\ at \in Stamps
  /\ i \in 1..(Len(events) + 1)
  /\ out \in State
  /\ status \in {"running", "ok", "error"}

(***************************************************************************)
(* merge.go:107-114: the result is well defined and independent of the     *)
(* order of the events and of repetitions, because it depends only on the  *)
(* SET of events in the batch (an add and a remove of one channel in one   *)
(* batch leave it unsubscribed).                                           *)
(***************************************************************************)
OrderIndependent == status = "ok" => out = ApplyEvents(state, Batch, at)

(***************************************************************************)
(* What the loop holds after any number of iterations: the batch of the    *)
(* events seen so far, merged in one go.  The invariant behind             *)
(* OrderIndependent.                                                       *)
(***************************************************************************)
LoopInvariant ==
  /\ Processed \subseteq Event
  /\ out = ApplyEvents(state, Processed, at)
  /\ status = "ok" => i = Len(events) + 1

(***************************************************************************)
(* merge.go:115-125 with store.go:101-104: a batch with one bad action     *)
(* yields an error and no state, wherever in the batch it stands; a batch  *)
(* without one never fails.                                                *)
(***************************************************************************)
AllOrNothing ==
  /\ status = "ok" => Batch \subseteq Event
  /\ status = "error" => ~ (Batch \subseteq Event)

(***************************************************************************)
(* merge.go:47-56: applying the batch again with the SAME stamp changes    *)
(* nothing.  (A resent batch gets a new stamp; see SyncSystem.)            *)
(***************************************************************************)
SameStampIdempotent ==
  status = "ok" => ApplyEvents(out, Batch, at) = out
=============================================================================

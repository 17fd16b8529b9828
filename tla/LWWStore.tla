----------------------------- MODULE LWWStore -----------------------------
(***************************************************************************)
(* What the server's state file promises (store.go:18-21, 88-92): a        *)
(* single-tenant register of subscription state in which a batch of events *)
(* takes effect all at once, under one stamp of the server's clock, on top *)
(* of everything applied before it.  A failure of the power may take it    *)
(* back to an earlier value of its own, never to anything else.            *)
(***************************************************************************)
EXTENDS LWW

CONSTANTS
  AllBatches,  \* batches of events a request may carry
  Instants     \* readings of the server's clock

VARIABLES
  state,       \* the canonical state
  saved        \* the value a power failure would leave

Init ==
  /\ state = EmptyState
  /\ saved = EmptyState

Apply ==
  /\ \E events \in AllBatches, at \in Instants :
       state' = ApplyEvents(state, events, at)
  /\ UNCHANGED saved

Flush ==
  /\ saved' = state
  /\ UNCHANGED state

Revert ==
  /\ state' = saved
  /\ UNCHANGED saved

Next == Apply \/ Flush \/ Revert

Spec == Init /\ [][Next]_<<state, saved>>
=============================================================================

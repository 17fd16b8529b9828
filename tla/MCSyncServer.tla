---------------------------- MODULE MCSyncServer ----------------------------
(***************************************************************************)
(* Two handlers and two channels: enough for a request that overlaps       *)
(* another, one that follows it, and a batch that holds events of both     *)
(* kinds.  A request from a stranger and one with an invalid event stand   *)
(* for all that is refused.                                                *)
(***************************************************************************)
EXTENDS SyncServer, TLC

CONSTANTS h1, h2, c1, c2

MCHandler == {h1, h2}
MCChannel == {c1, c2}

On1(a) == [channel |-> c1, action |-> a]
On2(a) == [channel |-> c2, action |-> a]

GoodBatches == { {On1(Add)}, {On1(Remove)}, {On1(Add), On2(Remove)}, {} }

MCRequests ==
  {[auth |-> TRUE, events |-> b] : b \in GoodBatches \cup {{On1(Add), BadEvent}}}
    \cup {[auth |-> FALSE, events |-> {On1(Remove)}]}

\* Handlers are interchangeable; channels are not, see GoodBatches.
Symmetry == Permutations(MCHandler)
=============================================================================

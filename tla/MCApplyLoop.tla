---------------------------- MODULE MCApplyLoop ----------------------------
(***************************************************************************)
(* Three channels; every sequence of at most three events, valid or not;   *)
(* start states with stamps below, at and above the arrival stamp.         *)
(***************************************************************************)
EXTENDS ApplyLoop

CONSTANTS c1, c2, c3

MCChannel == {c1, c2, c3}
MCStamps  == {2}
MCStates  == [lastAdded : {0, 1, 3}, lastRemoved : {0, 2, 3}]
MCStarts  == {[EmptyState EXCEPT ![c1] = s, ![c2] = t] : s \in MCStates, t \in MCStates}
MCBatches == UNION {[1..n -> [channel : {c1, c3}, action : Action \cup {BadAction}]]
                    : n \in 0..3}
=============================================================================

---------------------------- MODULE MCSyncSystem ----------------------------
(***************************************************************************)
(* Two devices with one install and one process each.                      *)
(***************************************************************************)
EXTENDS SyncSystem, TLC

CONSTANTS d1, d2, c1, c2, p1, native

OneChannel  == {c1}
TwoChannels == {c1, c2}

Symmetry == Permutations(Device) \cup Permutations(Channel)
=============================================================================

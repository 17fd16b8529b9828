---------------------------- MODULE MCClientSync ----------------------------
(***************************************************************************)
(* One device with two installs, or one, and two channels.                 *)
(***************************************************************************)
EXTENDS ClientSync, TLC

CONSTANTS d1, c1, c2, p1, flatpak, native

TwoChannels == {c1, c2}

Symmetry == Permutations(Channel)
=============================================================================

----------------------------- MODULE MCLauncher -----------------------------
(***************************************************************************)
(* One user's account on one device, and its commands.                     *)
(***************************************************************************)
EXTENDS Launcher, TLC

CONSTANTS v1, v2, p1, p2

Symmetry == Permutations(Cred) \cup Permutations(Cmd)
=============================================================================

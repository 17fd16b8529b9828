---------------------------- MODULE MCRunWrapper ----------------------------
(***************************************************************************)
(* One device and one install: a click on the launcher while an earlier    *)
(* one is still at work, beside a process that no guard sees or not.  That *)
(* is the timer's sync, again and again; a wrapper that finds its command  *)
(* by itself is no more to the others than two such syncs, and between     *)
(* them a FreeTube that somebody opens.                                    *)
(***************************************************************************)
EXTENDS RunWrapper

CONSTANTS d1, c1, w1, w2, timer, native
=============================================================================

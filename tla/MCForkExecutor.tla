--------------------------- MODULE MCForkExecutor ---------------------------
(***************************************************************************)
(* One draw, asked for by two processes, of which none, one or both take   *)
(* the lock.  Draws have ids of their own, so one stands for all; two ids  *)
(* per attempt, so that they can run out.                                  *)
(***************************************************************************)
EXTENDS ForkExecutor
=============================================================================

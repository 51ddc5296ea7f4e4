----------------------------- MODULE MCEvalLock -----------------------------
(***************************************************************************)
(* Three processes that start evaluations of either split, whenever they   *)
(* like.                                                                   *)
(***************************************************************************)
EXTENDS EvalLock
=============================================================================

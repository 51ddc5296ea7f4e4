----------------------------- MODULE MCEvalRun -----------------------------
(***************************************************************************)
(* Three items on two workers, two passes, two failed attempts accepted.   *)
(***************************************************************************)
EXTENDS EvalRun
=============================================================================

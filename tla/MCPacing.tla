------------------------------ MODULE MCPacing ------------------------------
(***************************************************************************)
(* Three tasks on two threads, a bracket of two rates, two clean windows   *)
(* before the rate goes up and two failures before the gate halves.        *)
(***************************************************************************)
EXTENDS Pacing
=============================================================================

---------------------------- MODULE MCTapeReplay ----------------------------
(***************************************************************************)
(* A tape of two short runs: one recorded, the other recorded or forked    *)
(* from it, each replayed in every mode.                                   *)
(***************************************************************************)
EXTENDS TapeReplay

AllKinds == {"noop", "resample", "edit", "replace", "truth", "force"}
=============================================================================

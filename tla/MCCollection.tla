---------------------------- MODULE MCCollection ----------------------------
(***************************************************************************)
(* Two tasks on two threads; two sites in two buckets, of which one task   *)
(* has a repeated call at the first and the other at none.                 *)
(***************************************************************************)
EXTENDS Collection

CONSTANTS a, b

MCRepeats == [t \in {a, b} |-> IF t = a THEN {1} ELSE {}]
MCBucket == [s \in {1, 2} |-> s]
=============================================================================

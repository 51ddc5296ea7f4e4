------------------------------ MODULE MCSeams ------------------------------
(***************************************************************************)
(* Three worker threads of one process, through sessions of either kind.   *)
(***************************************************************************)
EXTENDS Seams, TLC

CONSTANTS t1, t2, t3

MCThreads == {t1, t2, t3}
Symmetry == Permutations(MCThreads)
=============================================================================

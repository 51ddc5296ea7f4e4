---------------------------- MODULE MCDashboard -----------------------------
(***************************************************************************)
(* Two runs: a was blamed at the fourth of its five steps, where a treated *)
(* rerun passed and another failed; b has two steps and was tested in vain *)
(* at the second. Two sockets and two timers, so that a second of either   *)
(* could be seen. Four searches: the bare one has more pages than the list *)
(* fetches by itself, and one matches nothing.                             *)
(***************************************************************************)
EXTENDS Dashboard, TLC
CONSTANTS a, b
MCStepsOf == (a :> 5) @@ (b :> 2)
MCBlamedIn == (a :> 4) @@ (b :> 0)
MCTreatedOf ==
  (a :> [k \in 1..5 |-> IF k = 4 THEN BOOLEAN ELSE {}])
    @@ (b :> [k \in 1..2 |-> IF k = 2 THEN {FALSE} ELSE {}])
MCPagesOf == [s \in Search |-> IF s = Unfiltered THEN 3 ELSE 1]
MCMatching == {s \in Search : s.q = Blank \/ s.choice = NoChoice}
=============================================================================

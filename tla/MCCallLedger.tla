---------------------------- MODULE MCCallLedger ----------------------------
(***************************************************************************)
(* Two threads of one collection under a total cap, beside a thread of     *)
(* another process whose cap counts only its own phase, and a ramp that    *)
(* writes past everybody's cap.                                            *)
(***************************************************************************)
EXTENDS CallLedgerBudget

CONSTANTS a1, a2, b, collect, record

MCCallers == {a1, a2, b}
MCProcs == {collect, record}
MCProcOf == [c \in MCCallers |-> IF c = b THEN record ELSE collect]
MCPhases == {"p1", "p5"}
MCPhaseOf == [c \in MCCallers |-> IF c = b THEN "p1" ELSE "p5"]
MCMaxCalls == [c \in MCCallers |-> IF c = b THEN 2 ELSE 3]
MCScope == [c \in MCCallers |-> IF c = b THEN "phase" ELSE "total"]
MCHooked == {a1, b}
MCGroup == {a1, a2}
=============================================================================

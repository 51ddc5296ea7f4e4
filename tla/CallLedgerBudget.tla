-------------------------- MODULE CallLedgerBudget --------------------------
(***************************************************************************)
(* The ledger seen by a group of callers that opened it the same way: the  *)
(* threads of one process, which share one BudgetLedger.  It implements    *)
(* BudgetPromise for the group, whatever everybody else does to the file.  *)
(***************************************************************************)
EXTENDS CallLedger

CONSTANTS
  Group,    (* callers with one cap, counting the same rows                *)
  GroupCap, (* that cap, or NoCap                                          *)
  RowIds    (* ids a row can have                                          *)

ASSUME GroupAssumption ==
  /\ Group \subseteq Callers
  /\ \A c \in Group : MaxCalls[c] = GroupCap
  /\ \A c, d \in Group :
       \/ CapScope[c] = "total" /\ CapScope[d] = "total"
       \/ CapScope[c] = CapScope[d] /\ PhaseOf[c] = PhaseOf[d]

GroupRows == {i \in DOMAIN rows : rows[i].owner \in Group}
GroupSent == {i \in GroupRows : rows[i].sends > 0}

Promise == INSTANCE BudgetPromise WITH
  Ids <- RowIds, Cap <- GroupCap, claims <- GroupRows, onWire <- GroupSent

(* Threads that share a budget keep the promise of a budget: a call is     *)
(* claimed before it is on the wire, and no more than the cap is claimed.  *)
KeepsPromise == Promise!Spec
=============================================================================

----------------------------- MODULE Dashboard ------------------------------
(***************************************************************************)
(* The dashboard as one single-page application: the shell's router shows  *)
(* one page at a time, and what a page cached outlives it. A navigation    *)
(* takes the old page down and puts the new one up in the same commit.     *)
(*                                                                         *)
(* A journey is the set of pages a reader goes between; Journeys bounds    *)
(* which of them are looked at together. Any of them leads to pages that   *)
(* are neither Live, nor the run list, nor a run (OpenOther).              *)
(***************************************************************************)
EXTENDS LiveStream, RunDetail, RunList

CONSTANTS
  Journeys,
  Still, \* the journeys whose reader may prefer reduced motion
  Shaky  \* the journeys in which what was fetched is fetched again

ASSUME JourneyAssumption ==
  /\ Journeys \subseteq SUBSET {"live", "run", "list"}
  /\ Still \subseteq Journeys /\ Shaky \subseteq Journeys

VARIABLE journey

dashVars == <<liveVars, detailVars, listVars, journey>>

LeaveLive == IF mounted THEN Unmount ELSE UNCHANGED liveVars
LeaveDetail == IF shownRun # NoRun THEN LeaveRun ELSE UNCHANGED detailVars
LeaveRuns == IF listed THEN LeaveList ELSE UNCHANGED listVars

OpenLive == "live" \in journey /\ Mount /\ LeaveDetail /\ LeaveRuns

OpenRuns == "list" \in journey /\ EnterList /\ LeaveLive /\ LeaveDetail

(* A row of the run list, a link, or a hit of the command palette, which   *)
(* is open over any page.                                                  *)
OpenRun(r) == "run" \in journey /\ EnterRun(r) /\ LeaveLive /\ LeaveRuns

OpenOther ==
  (mounted \/ shownRun # NoRun \/ listed) /\ LeaveLive /\ LeaveDetail /\ LeaveRuns

(* A row of the list warms the page of its run. *)
HoverRow(r) == Draws = "table" /\ Prefetched(r) /\ UNCHANGED <<liveVars, listVars>>

(* Only the Live page looks at the world. *)
DashInit ==
  /\ LiveInit /\ DetailInit /\ ListInit
  /\ journey \in Journeys
  /\ reduced => journey \in Still
  /\ "live" \in journey \/ (tab = "visible" /\ up /\ tracking)

DashNext ==
  /\ UNCHANGED journey
  /\ \/ OpenLive \/ OpenRuns \/ OpenOther \/ \E r \in Runs : OpenRun(r) \/ HoverRow(r)
     \/ "live" \in journey /\ (LiveWorld \/ TabChanges) /\ UNCHANGED <<detailVars, listVars>>
     \/ LiveInside /\ UNCHANGED <<detailVars, listVars>>
     \/ DetailInside /\ UNCHANGED <<liveVars, listVars>>
     \/ journey \in Shaky /\ DetailRefetches /\ UNCHANGED <<liveVars, listVars>>
     \/ ListInside /\ UNCHANGED <<liveVars, detailVars>>

DashSpec ==
  DashInit /\ [][DashNext]_dashVars /\ LiveFairness /\ DetailFairness /\ ListFairness
=============================================================================

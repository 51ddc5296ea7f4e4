---------------------------- MODULE BudgetPromise ----------------------------
(***************************************************************************)
(* What the call ledger promises to one group of callers that share a      *)
(* budget: a call is claimed before it goes on the wire, a claim is spent  *)
(* on at most one call, and no more than Cap claims are ever granted.      *)
(* How rows, retries, crashes and other people's rows bring this about is  *)
(* CallLedger's business; they are stuttering steps here.                  *)
(***************************************************************************)
EXTENDS Naturals, FiniteSets

CONSTANTS
  Ids,  (* row ids                                                         *)
  Cap,  (* the group's hard cap, or NoCap                                  *)
  NoCap (* the value of a ledger opened without max_calls                  *)

VARIABLES
  claims, (* the row ids granted to the group                              *)
  onWire  (* those of them whose call has left for the provider            *)

Init ==
  /\ claims = {}
  /\ onWire = {}

Claim ==
  /\ Cap # NoCap => Cardinality(claims) < Cap
  /\ \E id \in Ids \ claims : claims' = claims \union {id}
  /\ UNCHANGED onWire

Send ==
  /\ \E id \in claims \ onWire : onWire' = onWire \union {id}
  /\ UNCHANGED claims

Next == Claim \/ Send

Spec == Init /\ [][Next]_<<claims, onWire>>
==============================================================================

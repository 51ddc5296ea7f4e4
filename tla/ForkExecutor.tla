---------------------------- MODULE ForkExecutor ----------------------------
(***************************************************************************)
(* Buying the draws of an evaluation (adapters/tau2_fork.py): a draw is    *)
(* one fork, found on the tape by its id if an earlier pass bought it and  *)
(* run for real otherwise.  The tape is append-only, so an attempt that    *)
(* died leaves its manifest behind and the next one takes another id of    *)
(* the same family: draw, -a<attempt>, -r<n>.                              *)
(*                                                                         *)
(* Of the processes that take the lock one evaluates at a time; EvalLock   *)
(* says how far that is true.  The threads of a process run different      *)
(* draws concurrently.  The fork itself is TapeReplay's session: here it   *)
(* records an outcome or does not.                                         *)
(***************************************************************************)
EXTENDS Naturals, FiniteSets

CONSTANTS
  Draws,        (* draws of the evaluation, by rerun_id                    *)
  Procs,        (* processes that may buy these draws                      *)
  InfraRetries, (* INFRA_RETRIES: attempts per request                     *)
  MaxIds,       (* MAX_ID_ATTEMPTS: ids tried per attempt                  *)
  Faults        (* bound: attempts that die, and crashes                   *)

ASSUME ExecutorAssumption ==
  /\ IsFiniteSet(Procs)
  /\ InfraRetries \in Nat \ {0}
  /\ MaxIds \in Nat \ {0}
  /\ Faults \in Nat

VARIABLES
  lockers, (* processes that take the evaluation lock: bisect eval does,   *)
           (* bisect blame does not                                        *)
  active,  (* processes evaluating now                                     *)
  started, (* ids with a manifest row                                      *)
  outcome, (* outcome rows: "none", "pass" or "fail" of each id            *)
  pc,      (* where each thread is in run()                                *)
  attempt, (* its attempt counter                                          *)
  id,      (* the id it picked                                             *)
  given,   (* answers ever returned for a draw                             *)
  bought,  (* forks run to an outcome for a draw                           *)
  faults   (* for the bound                                                *)

vars == <<lockers, active, started, outcome, pc, attempt, id, given, bought, faults>>

Threads == Procs \X Draws   (* the thread of a pool that runs a draw *)
Ids == [draw : Draws, a : 0..(InfraRetries - 1), r : 0..MaxIds]
Resting == {"idle", "answered", "raised"}

TypeOK ==
  /\ lockers \subseteq Procs
  /\ active \subseteq Procs
  /\ started \subseteq Ids
  /\ outcome \in [Ids -> {"none", "pass", "fail"}]
  /\ pc \in [Threads -> Resting \union {"lookup", "pick", "start", "running", "recorded"}]
  /\ attempt \in [Threads -> 0..InfraRetries]
  /\ id \in [Threads -> Ids]
  /\ given \in [Draws -> SUBSET {"pass", "fail"}]
  /\ bought \in [Draws -> Nat]
  /\ faults \in Nat

Goto(t, label) == pc' = [pc EXCEPT ![t] = label]
Draw(t) == t[2]
Proc(t) == t[1]

-----------------------------------------------------------------------------
(* Ids.                                                                    *)

(* _candidate_ids(): every id an attempt can have taken. *)
Family(d) == {i \in Ids : i.draw = d}

(* ... in its order: the plain id, the retries and theirs, its own -r's. *)
Rank(i) == (IF i.a = 0 /\ i.r > 0 THEN InfraRetries ELSE i.a) * (MaxIds + 1) + i.r

Recorded(d) == {i \in Family(d) : outcome[i] # "none"}
FirstRecorded(d) == CHOOSE i \in Recorded(d) : \A j \in Recorded(d) : Rank(i) <= Rank(j)

(* _free_run_id(): the plain id, or the first -r<n> with no manifest. *)
Free(d, a) == {i \in Ids : i.draw = d /\ i.a = a /\ i.r < MaxIds /\ i \notin started}
FirstFree(d, a) == CHOOSE i \in Free(d, a) : \A j \in Free(d, a) : i.r <= j.r

-----------------------------------------------------------------------------
Init ==
  /\ lockers \in SUBSET Procs
  /\ active = {}
  /\ started = {}
  /\ outcome = [i \in Ids |-> "none"]
  /\ pc = [t \in Threads |-> "idle"]
  /\ attempt = [t \in Threads |-> 0]
  /\ id = [t \in Threads |-> [draw |-> Draw(t), a |-> 0, r |-> 0]]
  /\ given = [d \in Draws |-> {}]
  /\ bought = [d \in Draws |-> 0]
  /\ faults = 0

EnterBugUnlocked(p) ==  (* bug: an evaluation that does not take the lock *)
  /\ p \notin active
  /\ active' = active \union {p}
  /\ UNCHANGED <<lockers, started, outcome, pc, attempt, id, given, bought, faults>>

(* A process begins an evaluation, or begins it again to resume it. *)
Enter(p) ==
  /\ p \notin active
  /\ p \in lockers => active \intersect lockers = {}
  /\ active' = active \union {p}
  /\ UNCHANGED <<lockers, started, outcome, pc, attempt, id, given, bought, faults>>

(* It ends with every draw answered or failed. *)
Leave(p) ==
  /\ p \in active
  /\ \A t \in Threads : Proc(t) = p => pc[t] \in {"answered", "raised"}
  /\ active' = active \ {p}
  /\ pc' = [t \in Threads |-> IF Proc(t) = p THEN "idle" ELSE pc[t]]
  /\ UNCHANGED <<lockers, started, outcome, attempt, id, given, bought, faults>>

Request(t) ==
  /\ Proc(t) \in active
  /\ pc[t] = "idle"
  /\ Goto(t, "lookup")
  /\ attempt' = [attempt EXCEPT ![t] = 0]
  /\ UNCHANGED <<lockers, active, started, outcome, id, given, bought, faults>>

(* _recorded(): the draw was bought before. *)
Reuse(t) ==
  /\ pc[t] = "lookup"
  /\ Recorded(Draw(t)) # {}
  /\ given' = [given EXCEPT ![Draw(t)] = @ \union {outcome[FirstRecorded(Draw(t))]}]
  /\ Goto(t, "answered")
  /\ UNCHANGED <<lockers, active, started, outcome, attempt, id, bought, faults>>

Miss(t) ==
  /\ pc[t] = "lookup"
  /\ Recorded(Draw(t)) = {}
  /\ Goto(t, "pick")
  /\ UNCHANGED <<lockers, active, started, outcome, attempt, id, given, bought, faults>>

Pick(t) ==
  /\ pc[t] = "pick"
  /\ Free(Draw(t), attempt[t]) # {}
  /\ id' = [id EXCEPT ![t] = FirstFree(Draw(t), attempt[t])]
  /\ Goto(t, "start")
  /\ UNCHANGED <<lockers, active, started, outcome, attempt, given, bought, faults>>

(* RuntimeError: every id of this attempt is taken. *)
NoFreeId(t) ==
  /\ pc[t] = "pick"
  /\ Free(Draw(t), attempt[t]) = {}
  /\ Goto(t, "raised")
  /\ UNCHANGED <<lockers, active, started, outcome, attempt, id, given, bought, faults>>

StartRun(t) ==
  /\ pc[t] = "start"
  /\ id[t] \notin started
  /\ started' = started \union {id[t]}
  /\ Goto(t, "running")
  /\ UNCHANGED <<lockers, active, outcome, attempt, id, given, bought, faults>>

(* The fork runs to its end and record_outcome writes the row. *)
RunEnds(t) ==
  /\ pc[t] = "running"
  /\ \E passed \in {"pass", "fail"} : outcome' = [outcome EXCEPT ![id[t]] = passed]
  /\ bought' = [bought EXCEPT ![Draw(t)] = @ + 1]
  /\ Goto(t, "recorded")
  /\ UNCHANGED <<lockers, active, started, attempt, id, given, faults>>

Answer(t) ==
  /\ pc[t] = "recorded"
  /\ given' = [given EXCEPT ![Draw(t)] = @ \union {outcome[id[t]]}]
  /\ Goto(t, "answered")
  /\ UNCHANGED <<lockers, active, started, outcome, attempt, id, bought, faults>>

(* InfraAbortError, TransportError: try again under another id, a bounded  *)
(* number of times.  DuplicateRunError counts as one of them.              *)
RetryBugScored(t) ==  (* bug: a fork that died is scored as failed *)
  /\ attempt' = [attempt EXCEPT ![t] = @ + 1]
  /\ IF attempt[t] + 1 >= InfraRetries
     THEN Goto(t, "answered") /\ given' = [given EXCEPT ![Draw(t)] = @ \union {"fail"}]
     ELSE Goto(t, "pick") /\ UNCHANGED given
Retry(t) ==
  /\ attempt' = [attempt EXCEPT ![t] = @ + 1]
  /\ Goto(t, IF attempt[t] + 1 >= InfraRetries THEN "raised" ELSE "pick")
  /\ UNCHANGED given

InfraFails(t) ==
  /\ pc[t] = "running"
  /\ faults < Faults
  /\ faults' = faults + 1
  /\ Retry(t)
  /\ UNCHANGED <<lockers, active, started, outcome, id, bought>>

LostRace(t) ==
  /\ pc[t] = "start"
  /\ id[t] \in started
  /\ Retry(t)
  /\ UNCHANGED <<lockers, active, started, outcome, id, bought, faults>>

(* DivergenceError, RecordingError, BudgetExceededError: never retried. *)
Fails(t) ==
  /\ pc[t] = "running"
  /\ faults < Faults
  /\ faults' = faults + 1
  /\ Goto(t, "raised")
  /\ UNCHANGED <<lockers, active, started, outcome, attempt, id, given, bought>>

CrashBugHeld(p) ==  (* bug: the lock of a dead process is held for ever *)
  /\ p \in active
  /\ faults < Faults
  /\ faults' = faults + 1
  /\ pc' = [t \in Threads |-> IF Proc(t) = p THEN "dead" ELSE pc[t]]
  /\ UNCHANGED <<lockers, active, started, outcome, attempt, id, given, bought>>
Crash(p) ==
  /\ p \in active
  /\ faults < Faults
  /\ faults' = faults + 1
  /\ active' = active \ {p}
  /\ pc' = [t \in Threads |-> IF Proc(t) = p THEN "idle" ELSE pc[t]]
  /\ UNCHANGED <<lockers, started, outcome, attempt, id, given, bought>>

-----------------------------------------------------------------------------
Run(t) == \/ Request(t) \/ Reuse(t) \/ Miss(t) \/ Pick(t) \/ NoFreeId(t)
          \/ StartRun(t) \/ LostRace(t) \/ RunEnds(t) \/ Answer(t)

Next ==
  \/ \E p \in Procs : Enter(p) \/ Leave(p) \/ Crash(p)
  \/ \E t \in Threads : Run(t) \/ InfraFails(t) \/ Fails(t)

Spec == Init /\ [][Next]_vars

(* Pools run their threads, forks end, evaluations that ended short are    *)
(* resumed: by an operator, or by scripts/p5_supervisor.py.                *)
FairSpec ==
  /\ Spec
  /\ \A t \in Threads : WF_vars(Run(t))
  /\ \A p \in Procs : WF_vars(Leave(p))
  /\ WF_vars(\E p \in Procs : Enter(p))

-----------------------------------------------------------------------------
(* Properties.                                                             *)

(* A resume pays for nothing twice: however often attempts die, threads    *)
(* race and processes crash, a draw is run to an outcome once; or, where   *)
(* processes share a tape without the lock, at most once by each.          *)
AtOnce == Cardinality(Procs \ lockers) + (IF lockers = {} THEN 0 ELSE 1)

PaysOnce == \A d \in Draws : bought[d] <= AtOnce

(* What a draw is said to have been is what its recorded fork was, now and *)
(* on every resume: a fork that died is never an answer.  Under the lock   *)
(* that is one thing, however often it is asked.                           *)
OneAnswer ==
  \A d \in Draws :
    /\ \A passed \in given[d] : \E i \in Ids : i.draw = d /\ outcome[i] = passed
    /\ lockers = Procs => Cardinality(given[d]) <= 1

(* Only the thread that started an id records its outcome, and no two      *)
(* threads share one: a fork's tape has one writer.                        *)
OneWriter ==
  \A t, u \in Threads :
    /\ pc[t] = "running" => id[t] \in started /\ outcome[id[t]] = "none"
    /\ t # u /\ {pc[t], pc[u]} \subseteq {"running", "recorded"} => id[t] # id[u]

(* Resuming converges: as long as a draw has an id left to try, it is      *)
(* answered in the end.                                                    *)
Exhausted(d) == \E a \in 0..(InfraRetries - 1) : Free(d, a) = {}
Converges == \A d \in Draws : <>(given[d] # {} \/ Exhausted(d))

(* No work is done twice: a draw is bought once and an id written by one.  *)
NothingTwice == PaysOnce /\ OneWriter
=============================================================================

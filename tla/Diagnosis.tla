------------------------------ MODULE Diagnosis ------------------------------
(***************************************************************************)
(* The diagnosis of one failed run (attribution/search.py, estimate.py and *)
(* bench/baselines.py): for each method of an evaluation, every testable   *)
(* suspect of the judge's shortlist is confirmed by re-running, in batches *)
(* of draws that a thread pool takes in any order, until its effect is     *)
(* decisive or the draws are used up, and the earliest blameworthy step is *)
(* blamed.  A draw the tape has is reused, another is bought.  A draw that *)
(* fails, or a crash, loses everything but the tape, and the diagnosis is  *)
(* made again from its start.                                              *)
(***************************************************************************)
EXTENDS Integers, Sequences, FiniteSets, FiniteSetsExt

CONSTANTS
  Evaluations,   \* a judge's ranking of the suspects, best first, and the
                 \* methods to run over it: [ranking, plan]
  Testable,      \* the steps of the run that have an intervention
  TopM,          \* how many suspects a shortlist has
  Batch,         \* the draws of an arm between two looks
  MaxN,          \* the draws an arm may have
  Concurrency,   \* the threads of the pool that takes a batch
  MaxFaults,     \* a bound on failed draws and crashes
  Blames(_, _, _),  \* look, treated, control: decisively above delta
  Clears(_, _, _)   \* look, treated, control: decisively at or below delta

Methods ==
  [mode : {"shared", "per_step", "none"}, variant : {"snapshot", "rerun_live-unsafe"}]

ASSUME PlanAssumption ==
  /\ Batch \in Nat \ {0} /\ MaxN \in Nat /\ Batch <= MaxN
  /\ TopM \in Nat \ {0} /\ Concurrency \in Nat \ {0} /\ MaxFaults \in Nat
  /\ Testable \subseteq Nat /\ IsFiniteSet(Testable)
  /\ Evaluations \subseteq [ranking : Seq(Nat), plan : Seq(Methods)]

VARIABLES
  ranking,   \* what the judge said of this run
  plan,      \* the methods of this evaluation, in order
  results,   \* the finished methods' answers
  phase,     \* what the method now running does
  todo,      \* the suspects it has still to estimate, the current one included
  treated, control, looks,   \* the current step's arms and looks
  batch,     \* the draws of the sample now being taken, in draw order
  records,   \* every draw this method has used
  effects,   \* the verdict on each estimated step
  tape,      \* the draws that have an outcome, and what was really run
  faults     \* the faults so far

local == <<results, phase, todo, treated, control, looks, batch, records, effects>>
vars == <<ranking, plan, local, tape, faults>>

NoStep == -1
NoArm == [n |-> 0, s |-> 0]
NoEffects == << >>

\* A function with one entry more.
Enter(f, k, v) == [x \in DOMAIN f \cup {k} |-> IF x = k THEN v ELSE f[x]]

Method == plan[Len(results) + 1]
Done == Len(results) = Len(plan)

Shortlist == {ranking[i] : i \in {j \in DOMAIN ranking : j <= TopM}}
Tested == Shortlist \cap Testable

DrawBugNoVariant(step, arm, offset, nth) ==  (* bug: the identity leaves the prefix mode out *)
  [variant |-> "", arm |-> arm, step |-> step, offset |-> offset, nth |-> nth]

\* The identity of a draw: what rerun_id hashes.
Draw(step, arm, offset, nth) ==
  [variant |-> Method.variant, arm |-> arm, step |-> step, offset |-> offset, nth |-> nth]

Sample(step, arm, n, offset) ==
  [i \in 1..n |-> [draw |-> Draw(step, arm, offset, i), arm |-> arm, step |-> step,
                   got |-> "owed"]]

Take(arm) == IF MaxN - arm.n < Batch THEN MaxN - arm.n ELSE Batch

Extended(arm) ==
  [n |-> arm.n + Len(batch),
   s |-> arm.s + Cardinality({i \in DOMAIN batch : batch[i].got = "pass"})]

VerdictBugFixedN(look, t, c) ==  (* bug: sampling stops only at MaxN *)
  IF t.n < MaxN THEN "undecided"
  ELSE IF Blames(look, t, c) THEN "blameworthy"
  ELSE IF Clears(look, t, c) THEN "cleared"
  ELSE "max_n"

Verdict(look, t, c) ==
  IF Blames(look, t, c) THEN "blameworthy"
  ELSE IF Clears(look, t, c) THEN "cleared"
  ELSE IF t.n >= MaxN THEN "max_n"
  ELSE "undecided"

BlameBugLatest(verdicts) ==  (* bug: the latest blameworthy step is blamed *)
  LET worthy == {k \in DOMAIN verdicts : verdicts[k].reason = "blameworthy"}
  IN  IF worthy = {} THEN NoStep ELSE Max(worthy)

Blame(verdicts) ==
  LET worthy == {k \in DOMAIN verdicts : verdicts[k].reason = "blameworthy"}
  IN  IF worthy = {} THEN NoStep ELSE Min(worthy)

----------------------------------------------------------------------------
Init ==
  /\ \E e \in Evaluations : ranking = e.ranking /\ plan = e.plan
  /\ results = << >> /\ phase = "idle" /\ todo = {}
  /\ treated = NoArm /\ control = NoArm /\ looks = 0
  /\ batch = << >> /\ records = << >> /\ effects = NoEffects
  /\ tape = << >> /\ faults = 0

AskTreated(step, arm) ==
  /\ phase' = "treated"
  /\ batch' = Sample(step, "treated", Take(arm), arm.n)

\* A judge that named nothing testable: no re-run, nothing blamed.
NothingToTest ==
  /\ phase = "idle" /\ ~Done /\ Tested = {}
  /\ results' = Append(results, [blame |-> NoStep, records |-> << >>, effects |-> NoEffects])
  /\ UNCHANGED <<ranking, plan, phase, todo, treated, control, looks, batch, records,
                 effects, tape, faults>>

\* The shared control is one sample of MaxN draws at the earliest suspect.
Begin ==
  /\ phase = "idle" /\ ~Done /\ Tested # {}
  /\ todo' = Tested
  /\ IF Method.mode = "shared"
     THEN /\ phase' = "shared"
          /\ batch' = Sample(Min(Tested), "control", MaxN, 0)
     ELSE AskTreated(Min(Tested), NoArm)
  /\ UNCHANGED <<ranking, plan, results, treated, control, looks, records, effects, tape,
                 faults>>

----------------------------------------------------------------------------
\* The pool starts draws in draw order, Concurrency at a time; without a pool
\* the first failure ends the sample.
MayStart(i) ==
  /\ batch[i].got = "owed"
  /\ Cardinality({j \in 1..(i - 1) : batch[j].got = "owed"}) < Concurrency
  /\ Concurrency = 1 => \A j \in DOMAIN batch : batch[j].got # "failed"

Outcome(passed) == IF passed THEN "pass" ELSE "fail"

Reuse(i) ==
  /\ MayStart(i) /\ batch[i].draw \in DOMAIN tape
  /\ batch' = [batch EXCEPT ![i].got = Outcome(tape[batch[i].draw].passed)]
  /\ UNCHANGED <<ranking, plan, results, phase, todo, treated, control, looks, records,
                 effects, tape, faults>>

Buy(i) ==
  /\ MayStart(i) /\ batch[i].draw \notin DOMAIN tape
  /\ \E passed \in BOOLEAN :
       /\ batch' = [batch EXCEPT ![i].got = Outcome(passed)]
       /\ tape' = Enter(tape, batch[i].draw,
            [passed |-> passed, variant |-> Method.variant,
             arm |-> batch[i].arm, step |-> batch[i].step])
  /\ UNCHANGED <<ranking, plan, results, phase, todo, treated, control, looks, records,
                 effects, faults>>

DrawFails(i) ==
  /\ MayStart(i) /\ batch[i].draw \notin DOMAIN tape
  /\ faults < MaxFaults
  /\ faults' = faults + 1
  /\ batch' = [batch EXCEPT ![i].got = "failed"]
  /\ UNCHANGED <<ranking, plan, results, phase, todo, treated, control, looks, records,
                 effects, tape>>

\* Nothing outlives a lost diagnosis but the tape.
Lose ==
  /\ results' = << >> /\ phase' = "idle" /\ todo' = {}
  /\ treated' = NoArm /\ control' = NoArm /\ looks' = 0
  /\ batch' = << >> /\ records' = << >> /\ effects' = NoEffects
  /\ UNCHANGED <<ranking, plan, tape>>

\* The first failure in draw order surfaces once the draws before it are in.
Raise ==
  /\ \E i \in DOMAIN batch :
       /\ batch[i].got = "failed"
       /\ \A j \in 1..(i - 1) : batch[j].got \in {"pass", "fail"}
  /\ Lose /\ UNCHANGED faults

Crash ==
  /\ ~Done /\ faults < MaxFaults
  /\ faults' = faults + 1
  /\ Lose

----------------------------------------------------------------------------
AllIn == \A i \in DOMAIN batch : batch[i].got \in {"pass", "fail"}

\* The sampler keeps its records in draw order, whatever order they came in.
Recorded == AllIn /\ records' = records \o batch

FoldShared ==
  /\ phase = "shared" /\ Recorded
  /\ control' = Extended(NoArm)
  /\ AskTreated(Min(todo), NoArm)
  /\ UNCHANGED <<ranking, plan, results, todo, treated, looks, effects, tape, faults>>

FoldTreated ==
  /\ phase = "treated" /\ Recorded
  /\ treated' = Extended(treated)
  /\ IF Method.mode = "per_step"
     THEN /\ phase' = "beside"
          /\ batch' = Sample(Min(todo), "control", Take(treated), control.n)
     ELSE phase' = "look" /\ batch' = << >>
  /\ UNCHANGED <<ranking, plan, results, todo, control, looks, effects, tape, faults>>

FoldBeside ==
  /\ phase = "beside" /\ Recorded
  /\ control' = Extended(control)
  /\ phase' = "look" /\ batch' = << >>
  /\ UNCHANGED <<ranking, plan, results, todo, treated, looks, effects, tape, faults>>

KeepSampling ==
  /\ phase = "look" /\ Verdict(looks + 1, treated, control) = "undecided"
  /\ looks' = looks + 1
  /\ AskTreated(Min(todo), treated)
  /\ UNCHANGED <<ranking, plan, results, todo, treated, control, records, effects, tape,
                 faults>>

\* Every suspect is estimated, also after one that is blameworthy.
StopStep ==
  /\ phase = "look" /\ Verdict(looks + 1, treated, control) # "undecided"
  /\ effects' = Enter(effects, Min(todo),
       [treated |-> treated, control |-> control,
        reason |-> Verdict(looks + 1, treated, control)])
  /\ todo' = todo \ {Min(todo)}
  /\ treated' = NoArm /\ looks' = 0
  /\ control' = IF Method.mode = "shared" THEN control ELSE NoArm
  /\ IF todo' = {} THEN phase' = "blame" /\ batch' = << >>
                   ELSE AskTreated(Min(todo'), NoArm)
  /\ UNCHANGED <<ranking, plan, results, records, tape, faults>>

Conclude ==
  /\ phase = "blame"
  /\ results' = Append(results,
       [blame |-> Blame(effects), records |-> records, effects |-> effects])
  /\ phase' = "idle" /\ control' = NoArm
  /\ records' = << >> /\ effects' = NoEffects
  /\ UNCHANGED <<ranking, plan, todo, treated, looks, batch, tape, faults>>

----------------------------------------------------------------------------
Step ==
  \/ NothingToTest \/ Begin
  \/ \E i \in DOMAIN batch : Reuse(i) \/ Buy(i)
  \/ Raise
  \/ FoldShared \/ FoldTreated \/ FoldBeside
  \/ KeepSampling \/ StopStep \/ Conclude

Next ==
  \/ Step
  \/ \E i \in DOMAIN batch : DrawFails(i)
  \/ Crash
  \/ Done /\ UNCHANGED vars

Spec == Init /\ [][Next]_vars

----------------------------------------------------------------------------
(* The answer as it is defined: over the outcomes of the draws, whoever    *)
(* bought them and in whatever order and process they came in.             *)

DrawOf(m, arm, k, offset, nth) ==
  [variant |-> m.variant, arm |-> arm, step |-> k, offset |-> offset, nth |-> nth]

AtLook(j) == IF j * Batch > MaxN THEN MaxN ELSE j * Batch
Looks == 1..((MaxN + Batch - 1) \div Batch)

\* The draws that step k's arm has at a look.
DueDraws(m, arm, k, look) ==
  {DrawOf(m, arm, k, (p[1] - 1) * Batch, p[2]) :
     p \in {q \in (1..look) \X (1..Batch) : (q[1] - 1) * Batch + q[2] <= MaxN}}

SharedDraws(m) == {DrawOf(m, "control", Min(Tested), 0, i) : i \in 1..MaxN}

ControlDraws(m, k, look) ==
  CASE m.mode = "shared" -> SharedDraws(m)
    [] m.mode = "per_step" -> DueDraws(m, "control", k, look)
    [] m.mode = "none" -> {}

ArmOf(draws) ==
  [n |-> Cardinality(draws), s |-> Cardinality({d \in draws \cap DOMAIN tape : tape[d].passed})]

TreatedAt(m, k, look) == ArmOf(DueDraws(m, "treated", k, look))
ControlAt(m, k, look) == ArmOf(ControlDraws(m, k, look))

UndecidedBefore(m, k, look) ==
  \A j \in 1..(look - 1) :
    /\ ~Blames(j, TreatedAt(m, k, j), ControlAt(m, k, j))
    /\ ~Clears(j, TreatedAt(m, k, j), ControlAt(m, k, j))

Worthy(m, k) ==
  \E j \in Looks : /\ Blames(j, TreatedAt(m, k, j), ControlAt(m, k, j))
                   /\ UndecidedBefore(m, k, j)

\* One draw is needed if the step was still open at the look before its batch.
Needed(m, d) ==
  \/ m.mode = "shared" /\ d \in SharedDraws(m)
  \/ \E k \in Tested, j \in Looks :
       /\ d \in DueDraws(m, "treated", k, j)
                \cup (IF m.mode = "per_step" THEN DueDraws(m, "control", k, j) ELSE {})
       /\ UndecidedBefore(m, k, j)
       /\ \A b \in DueDraws(m, "treated", k, j - 1) \cup ControlDraws(m, k, j - 1) :
            b \in DOMAIN tape

Tally(draws, arm, k) ==
  LET mine == {i \in DOMAIN draws : draws[i].arm = arm /\ draws[i].step = k}
  IN  [n |-> Cardinality(mine), s |-> Cardinality({i \in mine : draws[i].got = "pass"})]

Honest(m, draws) ==
  /\ \A i, j \in DOMAIN draws : draws[i].draw = draws[j].draw => i = j
  /\ \A i \in DOMAIN draws :
       /\ draws[i].draw \in DOMAIN tape
       /\ LET run == tape[draws[i].draw] IN
            /\ draws[i].got = Outcome(run.passed)
            /\ run.variant = m.variant /\ run.arm = draws[i].arm /\ run.step = draws[i].step

ControlTally(m, draws, k) ==
  CASE m.mode = "shared" -> Tally(draws, "control", Min(Tested))
    [] m.mode = "per_step" -> Tally(draws, "control", k)
    [] m.mode = "none" -> NoArm

\* TypeOK: the shape of a diagnosis, and the bounds of its arms and looks:
\* no arm outgrows MaxN and no look follows the last one planned.
TypeOK ==
  /\ [ranking |-> ranking, plan |-> plan] \in Evaluations
  /\ Len(results) <= Len(plan)
  /\ phase \in {"idle", "shared", "treated", "beside", "look", "blame"}
  /\ todo \subseteq Tested
  /\ {treated, control} \subseteq [n : 0..MaxN, s : 0..MaxN]
  /\ treated.s <= treated.n /\ control.s <= control.n
  /\ looks \in 0..(Cardinality(Looks) - 1)
  /\ \A i \in DOMAIN batch : batch[i].got \in {"owed", "pass", "fail", "failed"}
  /\ DOMAIN effects \subseteq Tested
  /\ faults \in 0..MaxFaults

\* EvidenceIsReal: no draw is counted twice, every draw a method counts is a
\* re-run on the tape with that outcome, made by this method's mechanism, on
\* that arm at that step (rerun_id names all of it, search.py), and the arms
\* that are compared are exactly the totals of those draws (estimate_step).
EvidenceIsReal ==
  /\ \A r \in DOMAIN results : LET m == plan[r] IN
       /\ Honest(m, results[r].records)
       /\ \A k \in DOMAIN results[r].effects :
            /\ results[r].effects[k].treated = Tally(results[r].records, "treated", k)
            /\ results[r].effects[k].control = ControlTally(m, results[r].records, k)
  /\ ~Done => Honest(Method, records)
  /\ phase = "look" =>
       /\ treated = Tally(records, "treated", Min(todo))
       /\ control = ControlTally(Method, records, Min(todo))

\* BlameIsTheTapes: a method blames the earliest suspect whose draws, looked
\* at batch by batch, first become decisive by crossing delta, as the draws
\* on the tape have it: the order they came in, failures, crashes and other
\* methods' draws change nothing ("a resume asks for exactly the same forks",
\* search.py; "blame goes to the earliest step", estimate.py).
BlameIsTheTapes ==
  \A r \in DOMAIN results :
    results[r].blame = LET worthy == {k \in Tested : Worthy(plan[r], k)}
                       IN  IF worthy = {} THEN NoStep ELSE Min(worthy)

\* BuysWhatItNeeds: every draw ever bought is one that some method of the
\* evaluation needs: a shared control, or a batch of a step whose earlier
\* batches are all in and left it undecided.  A diagnosis made again after a
\* failure or a crash buys nothing it would not have bought at first.
BuysWhatItNeeds ==
  \A d \in DOMAIN tape : \E i \in DOMAIN plan : Needed(plan[i], d)

=============================================================================

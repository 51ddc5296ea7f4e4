------------------------------ MODULE EvalRun ------------------------------
(***************************************************************************)
(* An unattended evaluation of a split: the supervisor that restarts the   *)
(* command (scripts/p5_supervisor.py), the command (cli_eval.py, eval_)    *)
(* with its passes over the items (bench/eval_run.py), the status file     *)
(* both of them write and the results the command publishes.               *)
(*                                                                         *)
(* How an item is judged and forked is ForkExecutor's and TapeReplay's     *)
(* business: here it is answered, or it is not.  The lock and the guard    *)
(* of the test split are EvalLock's: here the command may be refused.      *)
(***************************************************************************)
EXTENDS Naturals, FiniteSets, Sequences

CONSTANTS
  Items,       (* items of the split                                       *)
  Workers,     (* item_concurrency                                         *)
  MaxPasses,   (* max_passes: passes over the items that were lost         *)
  MaxCrashes,  (* --max-crashes: the non-zero exit that stops it           *)
  Polars       (* can polars be imported?                                  *)

ASSUME EvalAssumption ==
  /\ IsFiniteSet(Items)
  /\ {Workers, MaxPasses, MaxCrashes} \subseteq Nat \ {0}
  /\ Polars \in BOOLEAN

VARIABLES
  flag,     (* was --per-step-sensitivity given?                           *)
  sup,      (* where the supervisor is, or why it stopped                  *)
  crashes,  (* its count of non-zero exits                                 *)
  key,      (* does the provider accept the credential?                    *)
  tail,     (* does the output of the last attempt name a rejected one?    *)
  cmd,      (* where the command is, or how it exited                      *)
  stage,    (* the primary evaluation, or the sensitivity after it         *)
  pass, queue, working, escaped,
  rows,     (* run.outcomes: how often each item is in it                  *)
  failures, (* run.failures: how often each item is in it                  *)
  done, attempted, finished,   (* the counters of the pass                 *)
  primary,  (* run, kept while the sensitivity is evaluated                *)
  status,   (* runs/p5/status.json                                         *)
  told,     (* history: did the last report of a pass reach it?            *)
  files     (* the published files: how old each is, and what it says      *)

sups == <<flag, sup, crashes, tail>>
report == <<status, told>>
run  == <<rows, failures>>
pool == <<pass, queue, working, escaped, done, attempted, finished>>
vars == <<flag, sup, crashes, key, tail, cmd, stage, pass, queue, working, escaped, rows,
          failures, done, attempted, finished, primary, status, told, files>>

Outputs == <<"outcomes", "parquet", "report", "summary", "items">>
Stopped == {"success", "incomplete", "auth", "crashes", "halted"}
Exits   == {"ok", "not_complete", "error"}
None    == [i \in Items |-> 0]
All     == [i \in Items |-> 1]

Answered(r) == {i \in Items : r[i] > 0}
Count(r) == Cardinality(Answered(r))

Statuses == [state : {"none", "running", "done", "failed"},
             done : Nat, attempted : Nat, failed : Nat]
Report(state, d, a, f) == [state |-> state, done |-> d, attempted |-> a, failed |-> f]
Files == [age : {"none", "torn", "old", "new"}, rows : [Items -> Nat], sensitivity : [Items -> Nat]]
Empty == [age |-> "none", rows |-> None, sensitivity |-> None]

TypeOK ==
  /\ flag \in BOOLEAN
  /\ sup \in Stopped \union {"ready", "watching"}
  /\ crashes \in 0..MaxCrashes
  /\ key \in BOOLEAN
  /\ tail \in BOOLEAN
  /\ cmd \in Exits \union {"starting", "pass", "evaluated", "decided", "publishing", "filling"}
  /\ stage \in {"primary", "sensitivity"}
  /\ pass \in 1..MaxPasses
  /\ queue \subseteq Items /\ working \subseteq Items
  /\ escaped \in BOOLEAN
  /\ {rows, failures} \subseteq [Items -> Nat]
  /\ primary \in [rows : [Items -> Nat], failures : [Items -> Nat]]
  /\ {done, attempted, finished} \subseteq Nat
  /\ status \in Statuses
  /\ told \in BOOLEAN
  /\ files \in [1..Len(Outputs) -> Files]

-----------------------------------------------------------------------------
Init ==
  /\ flag \in BOOLEAN
  /\ sup = "ready" /\ crashes = 0 /\ tail = FALSE
  /\ key = TRUE
  /\ cmd = "error"      (* no command runs *)
  /\ stage = "primary" /\ pass = 1
  /\ queue = {} /\ working = {} /\ escaped = FALSE
  /\ rows = None /\ failures = None
  /\ done = 0 /\ attempted = 0 /\ finished = 0
  /\ primary = [rows |-> None, failures |-> None]
  /\ status = Report("none", 0, 0, 0)
  /\ told = FALSE
  /\ files = [o \in 1..Len(Outputs) |-> Empty]

(* The provider revokes the credential. *)
Revoke ==
  /\ key
  /\ key' = FALSE
  /\ UNCHANGED <<sups, cmd, stage, pool, run, primary, report, files>>

-----------------------------------------------------------------------------
(* The supervisor.                                                         *)

Stop(reason) ==
  /\ sup' = reason
  /\ status' = IF reason = "success" THEN Report("done", 0, 0, 0) ELSE Report("failed", 0, 0, 0)

(* A STOP file, or the ledger at --max-calls. *)
Halt ==
  /\ sup = "ready"
  /\ Stop("halted")
  /\ UNCHANGED <<flag, crashes, key, tail, cmd, stage, pool, run, primary, told, files>>

Attempt ==
  /\ sup = "ready"
  /\ sup' = "watching"
  /\ tail' = FALSE
  /\ status' = Report("running", 0, 0, 0)
  /\ cmd' = "starting"
  /\ files' = [o \in DOMAIN files |-> [files[o] EXCEPT !.age = IF @ = "new" THEN "old" ELSE @]]
  /\ UNCHANGED <<flag, crashes, key, stage, pool, run, primary, told>>

OnSuccess ==
  /\ sup = "watching" /\ cmd = "ok"
  /\ Stop("success")
  /\ UNCHANGED <<flag, crashes, key, tail, cmd, stage, pool, run, primary, told, files>>

(* Count a non-zero exit and go on, or give up for this reason. *)
CountCrash(reason) ==
  /\ crashes' = crashes + 1
  /\ IF crashes + 1 >= MaxCrashes THEN Stop(reason) ELSE sup' = "ready" /\ UNCHANGED status
  /\ UNCHANGED <<flag, key, tail, cmd, stage, pool, run, primary, told, files>>

OnIncompleteBugFree ==  (* bug: an incomplete attempt is not a failed one *)
  /\ sup = "watching" /\ cmd = "not_complete"
  /\ sup' = "ready"
  /\ UNCHANGED <<crashes, status>>
  /\ UNCHANGED <<flag, key, tail, cmd, stage, pool, run, primary, told, files>>
OnIncomplete ==
  /\ sup = "watching" /\ cmd = "not_complete"
  /\ CountCrash("incomplete")

(* classify(): restarting would not help. *)
OnRefusal ==
  /\ sup = "watching" /\ cmd = "error" /\ tail
  /\ Stop("auth")
  /\ UNCHANGED <<flag, crashes, key, tail, cmd, stage, pool, run, primary, told, files>>

OnCrash ==
  /\ sup = "watching" /\ cmd = "error" /\ ~tail
  /\ CountCrash("crashes")

Supervise == Halt \/ Attempt \/ OnSuccess \/ OnIncomplete \/ OnRefusal \/ OnCrash

-----------------------------------------------------------------------------
(* One pass over the items: _evaluate_pass.                                *)

Alive == cmd \notin Exits

(* The command goes on to where, or ends, and its memory with it.          *)
Proceed(where) ==
  /\ cmd' = where
  /\ IF where \in Exits
     THEN /\ stage' = "primary" /\ pass' = 1
          /\ queue' = {} /\ working' = {} /\ escaped' = FALSE
          /\ rows' = None /\ failures' = None
          /\ done' = 0 /\ attempted' = 0 /\ finished' = 0
          /\ primary' = [rows |-> None, failures |-> None]
     ELSE UNCHANGED <<stage, pool, run, primary>>

(* _report_progress: best effort, whatever goes wrong in writing it.       *)
ReportPass(before, d, a, f) ==
  \E ok \in BOOLEAN :
    /\ told' = ok
    /\ status' = IF ok THEN Report("running", before + d, before + a, Count(f)) ELSE status

StartPass(outstanding, r) ==
  /\ cmd' = "pass"
  /\ queue' = outstanding /\ working' = {} /\ escaped' = FALSE
  /\ rows' = r /\ failures' = None
  /\ done' = Cardinality(Items) - Cardinality(outstanding)
  /\ attempted' = 0 /\ finished' = 0
  /\ ReportPass(done', 0, 0, None)

Take(i) ==
  /\ cmd = "pass" /\ i \in queue /\ Cardinality(working) < Workers
  /\ queue' = queue \ {i} /\ working' = working \union {i}
  /\ attempted' = attempted + 1
  /\ ReportPass(done, finished, attempted', failures)
  /\ UNCHANGED <<sups, key, cmd, stage, pass, escaped, run, done, finished, primary, files>>

(* Judged, forked, blame saved, counted. *)
Finish(i) ==
  /\ cmd = "pass" /\ i \in working
  /\ working' = working \ {i}
  /\ rows' = [rows EXCEPT ![i] = @ + 1]
  /\ finished' = finished + 1
  /\ ReportPass(done, finished', attempted, failures)
  /\ UNCHANGED <<sups, key, cmd, stage, pass, queue, escaped, failures, done, attempted,
                 primary, files>>

(* Whatever stopped the item is printed and kept for the next pass.        *)
Fail(i) ==
  /\ cmd = "pass" /\ i \in working
  /\ working' = working \ {i}
  /\ failures' = [failures EXCEPT ![i] = @ + 1]
  /\ tail' = (tail \/ ~key)
  /\ ReportPass(done, finished, attempted, failures')
  /\ UNCHANGED <<flag, sup, crashes, key, cmd, stage, pass, queue, escaped, rows, done, attempted,
                 finished, primary, files>>

(* save_blame() raises, outside the try: the pool ends and the run is lost.*)
Escape(i) ==
  /\ cmd = "pass" /\ i \in working
  /\ working' = working \ {i}
  /\ escaped' = TRUE
  /\ UNCHANGED <<sups, key, cmd, stage, pass, queue, run, done, attempted, finished,
                 primary, report, files>>

Unwind ==
  /\ cmd = "pass" /\ escaped /\ working = {}
  /\ Proceed("error")
  /\ UNCHANGED <<sups, key, report, files>>

-----------------------------------------------------------------------------
(* The command: evaluate_dataset, once or twice, and publication.          *)

Drained == cmd = "pass" /\ ~escaped /\ queue = {} /\ working = {}
Complete(f) == f = None

(* The manifest, the guard of the split, the key or the lock. *)
Refused ==
  /\ cmd = "starting"
  /\ Proceed("error")
  /\ tail' \in BOOLEAN   (* is it the key that is missing? *)
  /\ UNCHANGED <<flag, sup, crashes, key, report, files>>

BeginPrimary ==
  /\ cmd = "starting"
  /\ stage' = "primary" /\ pass' = 1
  /\ StartPass(Items, None)
  /\ primary' = [rows |-> None, failures |-> None]
  /\ UNCHANGED <<sups, key, files>>

(* The lost items come back; what was answered stays. *)
NextPassBugAll ==  (* bug: every item comes back, beside its earlier answer *)
  /\ Drained /\ ~Complete(failures) /\ pass < MaxPasses
  /\ pass' = pass + 1
  /\ StartPass(Items, rows)
  /\ UNCHANGED <<sups, key, stage, primary, files>>
NextPass ==
  /\ Drained /\ ~Complete(failures) /\ pass < MaxPasses
  /\ pass' = pass + 1
  /\ StartPass(Answered(failures),
               [i \in Items |-> IF i \in Answered(failures) THEN 0 ELSE rows[i]])
  /\ UNCHANGED <<sups, key, stage, primary, files>>

LastPass ==
  /\ Drained /\ (Complete(failures) \/ pass = MaxPasses)
  /\ Proceed("evaluated")
  /\ UNCHANGED <<sups, key, report, files>>

(* _per_step_sensitivity evaluates everything again, also after a primary  *)
(* evaluation that is incomplete.                                          *)
BeginSensitivity ==
  /\ cmd = "evaluated" /\ stage = "primary" /\ flag
  /\ stage' = "sensitivity" /\ pass' = 1
  /\ StartPass(Items, None)
  /\ primary' = [rows |-> rows, failures |-> failures]
  /\ UNCHANGED <<sups, key, files>>

(* score_outcomes() raises if some items are answered and others are not.  *)
Score ==
  /\ cmd = "evaluated" /\ stage = "sensitivity"
  /\ Proceed(IF Answered(rows) \in {{}, Items} THEN "decided" ELSE "error")
  /\ UNCHANGED <<sups, key, report, files>>

SkipSensitivity ==
  /\ cmd = "evaluated" /\ stage = "primary" /\ ~flag
  /\ cmd' = "decided"
  /\ primary' = [rows |-> rows, failures |-> failures]
  /\ UNCHANGED <<sups, key, stage, pool, run, report, files>>

(* run.complete of the primary evaluation decides. *)
DecideBugPartial ==  (* bug: what has been answered is published *)
  /\ cmd = "decided"
  /\ Proceed(IF primary.rows # None THEN "publishing" ELSE "not_complete")
  /\ UNCHANGED <<sups, key, report, files>>
Decide ==
  /\ cmd = "decided"
  /\ Proceed(IF Complete(primary.failures) THEN "publishing" ELSE "not_complete")
  /\ UNCHANGED <<sups, key, report, files>>

(* write_results(): one file after the other.  The JSON files are replaced *)
(* atomically.  The table is written by polars, into the file itself, if   *)
(* there is polars and a row to write.                                     *)
Parquet == 2
HasTable == Polars /\ Items # {}
Due == {o \in DOMAIN files : files[o].age # "new" /\ (o = Parquet => HasTable)}
IsNext(o) == o \in Due /\ \A u \in Due : o <= u

Publish(o) ==
  /\ files' = [files EXCEPT ![o] =
                 [age |-> "new", rows |-> primary.rows,
                  sensitivity |-> IF stage = "sensitivity" THEN rows ELSE None]]
  /\ Proceed(IF Due = {o} THEN "ok" ELSE "publishing")
  /\ UNCHANGED <<sups, key, report>>

ReplaceJson ==
  /\ cmd = "publishing"
  /\ \E o \in DOMAIN files \ {Parquet} : IsNext(o) /\ Publish(o)

OpenParquet ==
  /\ cmd = "publishing"
  /\ IsNext(Parquet)
  /\ files' = [files EXCEPT ![Parquet].age = "torn"]
  /\ Proceed("filling")
  /\ UNCHANGED <<sups, key, report>>

FillParquet ==
  /\ cmd = "filling"
  /\ Publish(Parquet)

(* Killed, or an exception nobody catches. *)
Die ==
  /\ Alive
  /\ Proceed("error")
  /\ UNCHANGED <<sups, key, report, files>>

Command ==
  \/ Refused \/ BeginPrimary \/ NextPass \/ LastPass \/ BeginSensitivity \/ Score
  \/ SkipSensitivity \/ Decide
  \/ ReplaceJson \/ OpenParquet \/ FillParquet \/ Unwind
  \/ \E i \in Items : Take(i) \/ Finish(i) \/ Fail(i) \/ Escape(i)

-----------------------------------------------------------------------------
Next == Supervise \/ Command \/ Die \/ Revoke

Spec == Init /\ [][Next]_vars

(* The supervisor's loop and the command's threads run, and a judged or    *)
(* forked item ends one way or the other: every model call does (CallsEnd  *)
(* of CallLedger).                                                         *)
FairSpec == Spec /\ WF_vars(Supervise) /\ WF_vars(Command)

-----------------------------------------------------------------------------
(* Properties.                                                             *)

(* An item that was taken ends with one verdict or one failure and never   *)
(* both; one that is waiting or being worked on has neither, and nobody    *)
(* works on it twice (eval_run.py, evaluate_dataset and _evaluate_pass).   *)
(* An item whose blame could not be saved is the exception: it has none,   *)
(* and the run is lost with it.  The status file, if the last report       *)
(* reached it, says the same of them: done counts verdicts, failed what    *)
(* this pass lost, attempted the rest as well (_report_progress).          *)
StatusIsHonest ==
  /\ status.state = "running"
  /\ status.done = Count(rows)
  /\ status.failed = Count(failures)
  /\ status.done + status.failed + Cardinality(working) <= status.attempted
  /\ status.attempted + Cardinality(queue) = Cardinality(Items)

Accounted ==
  cmd \in {"pass", "evaluated"} =>
    /\ \A i \in Items :
         /\ rows[i] + failures[i] <= 1
         /\ i \in queue \union working => rows[i] + failures[i] = 0
         /\ i \in queue => i \notin working
         /\ ~escaped /\ i \notin queue \union working => rows[i] + failures[i] = 1
    /\ told => StatusIsHonest

(* Nothing is published from an incomplete evaluation, and no item counts  *)
(* twice in what is (cli_eval.py, "Nothing is published ..."); a           *)
(* sensitivity beside it is of every item, or of none.  Only the table can *)
(* be half a file, while it is written or after an attempt died writing    *)
(* it, and then the JSON copy, which is authoritative (results.py,         *)
(* _write_parquet), is whole beside it.  A supervisor that reports success *)
(* leaves files of one attempt, whatever earlier attempts died in the      *)
(* middle of writing theirs, and never half a table.                       *)
PublishedIsWhole ==
  /\ \A o \in DOMAIN files :
       /\ files[o].age \in {"old", "new"} =>
            files[o].rows = All /\ files[o].sensitivity \in {None, All}
       /\ files[o].age = "torn" => o = Parquet /\ files[1].age \in {"old", "new"}
  /\ sup = "success" =>
       \A o \in DOMAIN files :
         files[o].age = IF o = Parquet /\ ~HasTable THEN "none" ELSE "new"

(* "Every file is written atomically" (results.py): of the table it does   *)
(* not hold.                                                               *)
WrittenAtomically == \A o \in DOMAIN files : files[o].age # "torn"

(* The supervisor comes to an end whatever the provider and the command do *)
(* (p5_supervisor.py: "so it cannot loop for ever").                       *)
SupervisorEnds == <>[](sup \in Stopped)

(* "Nothing is published from an incomplete pass" (cli_eval.py), of the    *)
(* sensitivity that is published beside the primary evaluation as well.    *)
SensitivityIsWhole ==
  flag => \A o \in DOMAIN files : files[o].age = "new" => files[o].sensitivity = All
=============================================================================

----------------------------- MODULE Collection -----------------------------
(***************************************************************************)
(* Planting faults (bench/inject.py, _Collector): tasks go through a       *)
(* funnel, base recording, stability, candidates, in a pool of threads.    *)
(* Every decision is a file of the journal (bench/journal.py), written     *)
(* when it is made and read back by the next pass or the next process      *)
(* instead of being made again.                                            *)
(*                                                                         *)
(* A recording or a measurement is one step here: what happens inside is   *)
(* TapeReplay's and CallLedger's business, and how many tasks the gate     *)
(* lets in at once only shrinks the pool.                                  *)
(***************************************************************************)
EXTENDS Naturals, FiniteSets, FiniteSetsExt

CONSTANTS
  Tasks,     (* tasks of the collection                                    *)
  Workers,   (* threads of the pool                                        *)
  Sites,     (* tool steps of a base run, in the order they are tried: 1.. *)
  Repeats,   (* of a task's run: sites whose exact call occurred before    *)
  Bucket,    (* the position bucket of a site                              *)
  MaxKept,   (* max_kept_per_run                                           *)
  Trials,    (* base_trials                                                *)
  Target,    (* target_items                                               *)
  Floor,     (* floor_items                                                *)
  MaxPasses, (* MAX_TASK_PASSES                                            *)
  Starts     (* bound: processes started, one after the other              *)

ASSUME CollectionAssumption ==
  /\ IsFiniteSet(Tasks) /\ IsFiniteSet(Workers) /\ IsFiniteSet(Sites)
  /\ Sites = 1..Cardinality(Sites)
  /\ Repeats \in [Tasks -> SUBSET Sites]
  /\ DOMAIN Bucket = Sites
  /\ {MaxKept, Trials, Target, MaxPasses} \subseteq Nat \ {0}
  /\ Floor \in Nat /\ Starts \in Nat

VARIABLES
  journal,   (* the records of every key                                   *)
  proc,      (* the process: down, running, or how it ended                *)
  pass, queue,
  failed,    (* _failed_tasks: lost to infrastructure in this pass         *)
  parked,    (* _parked                                                    *)
  stopped,   (* the stop reason a thread has seen in this pass             *)
  raised,    (* exceptions on their way out of the pool                    *)
  kept,      (* _kept_total                                                *)
  items,     (* _items: how often each candidate is in it                  *)
  repeated,  (* _repeated, one set for all threads                         *)
  pc, task, trial, at, buckets, pending,   (* of each thread               *)
  settled,   (* tasks that went through the funnel in this process         *)
  starts     (* for the bound                                              *)

procVars == <<proc, pass, parked, starts>>
poolVars == <<queue, failed, stopped, raised>>
workVars == <<task, trial, at, buckets, pending>>
vars == <<journal, procVars, poolVars, kept, items, repeated, pc, workVars, settled>>

Units == {"base", "stability", "candidate"}
Labels == Units \union {"idle", "next", "measure", "truncate", "fill", "finish"}
Keys  == {"base", "stability"} \X Tasks \X (1..Trials) \X {0}
           \union {"candidate"} \X Tasks \X (1..Trials) \X Sites
Candidates == {key \in Keys : key[1] = "candidate"}

(* A record says yes (passed, stable, kept) or no; a write empties the     *)
(* file first.                                                             *)
Records  == {"absent", "torn", "yes", "no"}
Readable == {"yes", "no"}
Ends     == {"exhausted", "parked", "target", "time", "stop", "unreadable", "crashed"}
Nothing  == [key \in Candidates |-> 0]

(* The task of a thread that has not taken one: any value will do.         *)
Anyone == CHOOSE t \in Tasks : TRUE

TypeOK ==
  /\ journal \in [Keys -> Records]
  /\ proc \in Ends \union {"down", "running"}
  /\ pass \in 1..MaxPasses
  /\ {queue, failed, parked, settled} \subseteq SUBSET Tasks
  /\ stopped \in {"no", "target", "time"}
  /\ raised \subseteq {"stop", "unreadable"}
  /\ kept \in Nat
  /\ items \in [Candidates -> Nat]
  /\ repeated \subseteq Sites
  /\ pc \in [Workers -> Labels]
  /\ task \in [Workers -> Tasks \union {Anyone}]
  /\ trial \in [Workers -> 1..Trials]
  /\ at \in [Workers -> 0..Cardinality(Sites) + 1]
  /\ buckets \in [Workers -> SUBSET {Bucket[s] : s \in Sites}]
  /\ pending \in [Workers -> [unit : Units, says : Readable]]
  /\ starts \in 0..Starts

Running == proc = "running"
Goto(w, label) == pc' = [pc EXCEPT ![w] = label]

Key(w, unit) == <<unit, task[w], trial[w], IF unit = "candidate" THEN at[w] ELSE 0>>
KeptOnDisk == Cardinality({key \in Candidates : journal[key] = "yes"})
Legible == \A key \in Candidates : journal[key] # "torn"
Listed == MapThenSumSet(LAMBDA key : items[key], Candidates)

-----------------------------------------------------------------------------
Blank == [task    |-> [w \in Workers |-> Anyone],
          trial   |-> [w \in Workers |-> 1],
          at      |-> [w \in Workers |-> 0],
          buckets |-> [w \in Workers |-> {}],
          pending |-> [w \in Workers |-> [unit |-> "base", says |-> "no"]]]

Fresh ==
  /\ pass' = 1 /\ queue' = Tasks /\ failed' = {} /\ parked' = {}
  /\ stopped' = "no" /\ raised' = {}
  /\ items' = Nothing /\ repeated' = {} /\ settled' = {}
  /\ pc' = [w \in Workers |-> "idle"]
  /\ task' = Blank.task /\ trial' = Blank.trial /\ at' = Blank.at
  /\ buckets' = Blank.buckets /\ pending' = Blank.pending

Init ==
  /\ journal = [key \in Keys |-> "absent"]
  /\ proc = "down" /\ pass = 1 /\ queue = {} /\ failed = {} /\ parked = {}
  /\ stopped = "no" /\ raised = {} /\ kept = 0
  /\ items = Nothing /\ repeated = {} /\ settled = {}
  /\ pc = [w \in Workers |-> "idle"]
  /\ task = Blank.task /\ trial = Blank.trial /\ at = Blank.at
  /\ buckets = Blank.buckets /\ pending = Blank.pending
  /\ starts = 0

(* The first process, or one that resumes; __init__ counts the kept items. *)
StartProcess ==
  /\ ~Running /\ starts < Starts
  /\ starts' = starts + 1
  /\ Fresh
  /\ IF Legible THEN proc' = "running" /\ kept' = KeptOnDisk
     ELSE proc' = "unreadable" /\ UNCHANGED kept
  /\ UNCHANGED journal

-----------------------------------------------------------------------------
(* The pool.                                                               *)

(* _should_stop(): a deadline may have passed at any time. *)
StopReasons == {r \in {"target", "time"} :
                  IF r = "target" THEN kept >= Target ELSE kept < Target /\ kept >= Floor}
MayGoOn == kept < Target

(* A thread takes a task, and skips it once the collection is stopping.    *)
Take(w, t) ==
  /\ Running /\ pc[w] = "idle" /\ t \in queue
  /\ queue' = queue \ {t}
  /\ \/ stopped = "no" /\ MayGoOn
        /\ task' = [task EXCEPT ![w] = t]
        /\ trial' = [trial EXCEPT ![w] = 1]
        /\ Goto(w, "base")
        /\ UNCHANGED stopped
     \/ stopped = "no" /\ stopped' \in StopReasons /\ UNCHANGED <<task, trial, pc>>
     \/ stopped # "no" /\ UNCHANGED <<stopped, task, trial, pc>>
  /\ UNCHANGED <<journal, procVars, failed, raised, kept, items, repeated, at, buckets,
                 pending, settled>>

(* An exception on its way out: the thread is free, the others go on.      *)
Raise(w, what) ==
  /\ raised' = raised \union {what}
  /\ Goto(w, "idle")
  /\ UNCHANGED <<journal, procVars, queue, failed, stopped, kept, items, repeated,
                 workVars, settled>>

-----------------------------------------------------------------------------
(* A unit of work: read back, or done and written.                         *)

OwedBugAlways(w, unit) ==  (* bug: nothing is read back *)
  Running /\ pc[w] = unit
Owed(w, unit) == Running /\ pc[w] = unit /\ journal[Key(w, unit)] = "absent"
Known(w, unit, says) == Running /\ pc[w] = unit /\ journal[Key(w, unit)] = says

Decide(w, unit, says) ==
  /\ pending' = [pending EXCEPT ![w] = [unit |-> unit, says |-> says]]
  /\ Goto(w, "truncate")
  /\ UNCHANGED <<journal, procVars, poolVars, kept, items, repeated, task, trial, at,
                 buckets, settled>>

(* read(): a corrupt record raises. *)
Unreadable(w) ==
  /\ Running /\ pc[w] \in Units
  /\ journal[Key(w, pc[w])] = "torn"
  /\ Raise(w, "unreadable")

(* A base run, or the re-runs of one. *)
Record(w, unit) ==
  /\ unit \in {"base", "stability"}
  /\ Owed(w, unit)
  /\ \E says \in Readable : Decide(w, unit, says)

(* Infrastructure failed: the task is lost for this pass. *)
Lose(w, unit) ==
  /\ unit \in {"base", "stability"}
  /\ Owed(w, unit)
  /\ failed' = failed \union {task[w]}
  /\ Goto(w, "finish")
  /\ UNCHANGED <<journal, procVars, queue, stopped, raised, kept, items, repeated,
                 workVars, settled>>

(* The key is rejected or the budget is gone. *)
Halt(w) ==
  /\ Running
  /\ \/ \E unit \in {"base", "stability"} : Owed(w, unit)
     \/ pc[w] = "measure"
  /\ Raise(w, "stop")

(* write(): write_text() opens and truncates, then writes.                 *)
Truncate(w) ==
  /\ Running /\ pc[w] = "truncate"
  /\ journal' = [journal EXCEPT ![Key(w, pending[w].unit)] = "torn"]
  /\ Goto(w, "fill")
  /\ UNCHANGED <<procVars, poolVars, kept, items, repeated, workVars, settled>>

Fill(w) ==
  /\ Running /\ pc[w] = "fill"
  /\ journal' = [journal EXCEPT ![Key(w, pending[w].unit)] = pending[w].says]
  /\ Goto(w, pending[w].unit)
  /\ UNCHANGED <<procVars, poolVars, kept, items, repeated, workVars, settled>>

-----------------------------------------------------------------------------
(* One task: _one_task and _candidates_for.                                *)

BasePassed(w) ==
  /\ Known(w, "base", "yes")
  /\ Goto(w, "stability")
  /\ UNCHANGED <<journal, procVars, poolVars, kept, items, repeated, workVars, settled>>

(* The next trial, or the end of the task. *)
NotUsable(w) ==
  /\ Known(w, "base", "no") \/ Known(w, "stability", "no")
  /\ IF trial[w] < Trials
     THEN /\ trial' = [trial EXCEPT ![w] = @ + 1]
          /\ Goto(w, "base")
          /\ UNCHANGED settled
     ELSE /\ Goto(w, "finish")
          /\ settled' = settled \union {task[w]}
          /\ UNCHANGED trial
  /\ UNCHANGED <<journal, procVars, poolVars, kept, items, repeated, task, at, buckets,
                 pending>>

FindSitesBugAny(w) ==  (* bug: an unstable base run is good enough *)
  /\ Known(w, "stability", "yes") \/ Known(w, "stability", "no")
  /\ repeated' = Repeats[task[w]]
  /\ at' = [at EXCEPT ![w] = 1]
  /\ buckets' = [buckets EXCEPT ![w] = {}]
  /\ Goto(w, "next")
  /\ UNCHANGED <<journal, procVars, poolVars, kept, items, task, trial, pending, settled>>
FindSites(w) ==
  /\ Known(w, "stability", "yes")
  /\ repeated' = Repeats[task[w]]
  /\ at' = [at EXCEPT ![w] = 1]
  /\ buckets' = [buckets EXCEPT ![w] = {}]
  /\ Goto(w, "next")
  /\ UNCHANGED <<journal, procVars, poolVars, kept, items, task, trial, pending, settled>>

Enough(w) == at[w] \notin Sites \/ Cardinality(buckets[w]) >= MaxKept
Skipped(w) == Bucket[at[w]] \in buckets[w] \/ Listed >= Target

NextSite(w) ==
  /\ Running /\ pc[w] = "next"
  /\ \/ /\ Enough(w)
        /\ Goto(w, "finish")
        /\ settled' = settled \union {task[w]}
        /\ UNCHANGED at
     \/ /\ ~Enough(w) /\ Skipped(w)
        /\ at' = [at EXCEPT ![w] = @ + 1]
        /\ UNCHANGED <<pc, settled>>
     \/ /\ ~Enough(w) /\ ~Skipped(w)
        /\ Goto(w, "candidate")
        /\ UNCHANGED <<at, settled>>
  /\ UNCHANGED <<journal, procVars, poolVars, kept, items, repeated, task, trial, buckets,
                 pending>>

(* The call occurred before: a standing fault would rewrite the prefix.    *)
RejectRepeat(w) ==
  /\ Owed(w, "candidate")
  /\ at[w] \in repeated
  /\ Decide(w, "candidate", "no")

Plant(w) ==
  /\ Owed(w, "candidate")
  /\ at[w] \notin repeated
  /\ Goto(w, "measure")
  /\ UNCHANGED <<journal, procVars, poolVars, kept, items, repeated, workVars, settled>>

(* Kept or not flipped; unplantable, or abandoned after its retries.       *)
Measure(w) ==
  /\ Running /\ pc[w] = "measure"
  /\ \E says \in Readable : Decide(w, "candidate", says)

Keep(w) ==
  /\ Known(w, "candidate", "yes")
  /\ items' = [items EXCEPT ![Key(w, "candidate")] = @ + 1]
  /\ buckets' = [buckets EXCEPT ![w] = @ \union {Bucket[at[w]]}]
  /\ at' = [at EXCEPT ![w] = @ + 1]
  /\ Goto(w, "next")
  /\ UNCHANGED <<journal, procVars, poolVars, kept, repeated, task, trial, pending, settled>>

Reject(w) ==
  /\ Known(w, "candidate", "no")
  /\ at' = [at EXCEPT ![w] = @ + 1]
  /\ Goto(w, "next")
  /\ UNCHANGED <<journal, procVars, poolVars, kept, items, repeated, task, trial, buckets,
                 pending, settled>>

(* _finish_task(): count the kept items of the whole journal.              *)
FinishTaskBugNoCount(w) ==  (* bug: what others keep is not counted *)
  /\ Running /\ pc[w] = "finish"
  /\ Goto(w, "idle")
  /\ UNCHANGED <<journal, procVars, poolVars, kept, items, repeated, workVars, settled>>
FinishTask(w) ==
  /\ Running /\ pc[w] = "finish" /\ Legible
  /\ kept' = KeptOnDisk
  /\ Goto(w, "idle")
  /\ UNCHANGED <<journal, procVars, poolVars, items, repeated, workVars, settled>>

CountUnreadable(w) ==
  /\ Running /\ pc[w] = "finish" /\ ~Legible
  /\ Raise(w, "unreadable")

-----------------------------------------------------------------------------
(* The passes: _run_passes and run.                                        *)

Idle == Running /\ \A w \in Workers : pc[w] = "idle"

End(how) ==
  /\ proc' = how
  /\ UNCHANGED <<journal, starts, kept, items, repeated, pc, workVars, settled>>

(* The exception reaches pool.map(): what has not begun is cancelled.      *)
Unwind ==
  /\ Idle /\ raised # {}
  /\ \E what \in raised : End(what)
  /\ UNCHANGED <<pass, parked, poolVars>>

Drained == Idle /\ raised = {} /\ queue = {}

EndStopped ==
  /\ Drained
  /\ \E why \in (IF stopped # "no" THEN {stopped} ELSE StopReasons) : End(why)
  /\ UNCHANGED <<pass, parked, poolVars>>

Quiet == Drained /\ stopped = "no" /\ MayGoOn

EndExhausted ==
  /\ Quiet /\ failed = {}
  /\ End("exhausted")
  /\ UNCHANGED <<pass, parked, poolVars>>

NextPassBugEndless ==  (* bug: a lost task is queued as often as it is lost *)
  /\ Quiet /\ failed # {}
  /\ queue' = failed /\ failed' = {}
  /\ UNCHANGED <<journal, procVars, stopped, raised, kept, items, repeated, pc, workVars,
                 settled>>
NextPass ==
  /\ Quiet /\ failed # {} /\ pass < MaxPasses
  /\ pass' = pass + 1
  /\ queue' = failed /\ failed' = {}
  /\ UNCHANGED <<journal, proc, parked, starts, stopped, raised, kept, items, repeated,
                 pc, workVars, settled>>

(* _final_reason(): tasks are waiting, and the target was not reached. *)
Park ==
  /\ Quiet /\ failed # {} /\ pass = MaxPasses
  /\ parked' = failed
  /\ End("parked")
  /\ UNCHANGED <<pass, poolVars>>

Crash ==
  /\ Running
  /\ proc' = "crashed"
  /\ Fresh   (* of the process nothing is left but its journal *)
  /\ kept' = 0
  /\ UNCHANGED <<journal, starts>>

-----------------------------------------------------------------------------
Work(w) ==
  \/ \E t \in Tasks : Take(w, t)
  \/ \E unit \in Units : Record(w, unit) \/ Lose(w, unit)
  \/ Unreadable(w) \/ Halt(w) \/ Truncate(w) \/ Fill(w)
  \/ BasePassed(w) \/ NotUsable(w) \/ FindSites(w) \/ NextSite(w)
  \/ RejectRepeat(w) \/ Plant(w) \/ Measure(w) \/ Keep(w) \/ Reject(w)
  \/ FinishTask(w) \/ CountUnreadable(w)

Run == Unwind \/ EndStopped \/ EndExhausted \/ NextPass \/ Park \/ \E w \in Workers : Work(w)

Next == StartProcess \/ Run \/ Crash

Spec == Init /\ [][Next]_vars

(* Threads run, and every recording ends (CallsEnd of CallLedger).         *)
FairSpec == Spec /\ WF_vars(Run)

-----------------------------------------------------------------------------
(* Properties.                                                             *)

(* A resume, another pass or another thread never makes a decision again:  *)
(* a record that can be read stays as it is (journal.py: "a crash loses    *)
(* nothing, a resume pays for nothing twice").                             *)
DecisionsAreFinal ==
  [][\A key \in Keys : journal[key] \in Readable => journal'[key] = journal[key]]_vars

(* A unit that has been decided is written down before anything is built   *)
(* on it, so that the crash that follows cannot lose it: no candidate      *)
(* without a stable base, no task through the funnel without its record,   *)
(* no item handed over that is not on disk.  And a task that is queued     *)
(* again never hands over an item a second time (inject.py, _one_candidate)*)
FunnelIsOnDisk ==
  /\ \A key \in Candidates : journal[key] # "absent" =>
       /\ journal[<<"base", key[2], key[3], 0>>] = "yes"
       /\ journal[<<"stability", key[2], key[3], 0>>] = "yes"
  /\ \A t \in settled : \E k \in 1..Trials :
       journal[<<"base", t, k, 0>>] \in Readable
  /\ Running => \A key \in Candidates :
       items[key] <= 1 /\ (items[key] = 1 => journal[key] = "yes")

(* The stop rule holds although the count it reads is only refreshed when  *)
(* a task ends: beyond the target a task begins only while another one is  *)
(* in flight, whose items nobody has counted yet (inject.py, _run_parallel:*)
(* "finishes what is in flight and starts nothing new").                   *)
NothingNewBeyondTarget ==
  [][\A w \in Workers :
       raised = {} /\ pc[w] = "idle" /\ pc'[w] = "base" /\ KeptOnDisk >= Target =>
         \E v \in Workers \ {w} : pc[v] # "idle"]_vars

(* Infrastructure removes no task by happening (_run_passes): a collection *)
(* that says it has exhausted its tasks has taken every one through the    *)
(* funnel, and one that parked some says so.                               *)
NothingIsDropped ==
  /\ proc = "exhausted" => settled = Tasks \/ kept >= Target
  /\ proc = "parked" => parked # {} /\ settled \union parked = Tasks

(* A collection ends, whatever infrastructure does. *)
CollectionEnds == []<>~Running

(* A fault is never planted at a call that occurred before, where it would *)
(* rewrite the prefix too (inject.py, _measure_candidate).                 *)
FaultsAreFresh == \A w \in Workers : pc[w] = "measure" => at[w] \notin Repeats[task[w]]

(* A collection does not trip over the record it is writing itself         *)
(* (journal.py: "Records are one file per key, so they need no guarding"). *)
ReadsItself == Running /\ starts = 1 => "unreadable" \notin raised

(* Nothing is lost between passes, threads and processes: neither a        *)
(* decision another one was built on, nor a task.                          *)
NothingIsLost == FunnelIsOnDisk /\ NothingIsDropped
=============================================================================

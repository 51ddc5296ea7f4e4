------------------------------ MODULE EvalLock ------------------------------
(***************************************************************************)
(* One evaluation at a time, and one look at the test split: the start and *)
(* the end of `bisect eval` (cli_eval.py, eval_) with the two files that   *)
(* guard it, the pid lock (bench/run_lock.py) and the marker of the test   *)
(* split (bench/split_lock.py).  Both are looked at first and written      *)
(* later, with nothing to keep others out in between, and a write empties  *)
(* the file before it fills it.                                            *)
(***************************************************************************)
EXTENDS Naturals, FiniteSets

CONSTANTS
  Procs,   (* processes, by pid                                            *)
  Starts   (* bound: evaluations started                                   *)

ASSUME LockAssumption ==
  /\ Starts \in Nat
  /\ Procs \intersect {"absent", "torn"} = {}

VARIABLES
  lock,   (* eval.lock: absent, torn or a pid                              *)
  marker, (* test_split_opened.json: absent, torn or opened                *)
  frozen, (* does docs/decisions/0014-p5-freeze.md exist?                  *)
  pc,     (* where each process is                                         *)
  ask,    (* what it was asked for: dev, test, or test with --resume       *)
  opened, (* openings of the test split that were not resumptions          *)
  met,    (* history: where two have looked before either wrote            *)
  starts  (* for the bound                                                 *)

lockVars == <<lock, marker, frozen, pc, ask, opened, met, starts>>

Splitting == {"look", "read", "opening", "marking"}
Starting == Splitting \union {"guard", "key", "check", "claim", "truncate", "write"}
Holding  == {"evaluating", "release", "unlink"}
Gone     == {"fresh", "crashed"}   (* no such process *)
Over     == {"done", "refused", "split_refused", "bad_marker"}

LockTypeOK ==
  /\ lock \in Procs \union {"absent", "torn"}
  /\ marker \in {"absent", "torn", "opened"}
  /\ pc \in [Procs -> Starting \union Holding \union Gone \union Over]
  /\ ask \in [Procs -> {"dev", "test", "resume"}]
  /\ frozen \in BOOLEAN
  /\ opened \in Nat
  /\ met \subseteq {"lock", "split"}
  /\ starts \in Nat

Goto(p, label) == pc' = [pc EXCEPT ![p] = label]

(* _alive(): os.kill(pid, 0).  A process that is over exits at once.       *)
Living(p) == pc[p] \in Starting \union Holding

(* check_unlocked(): a lock nobody can read, or of a dead pid, is no lock. *)
HeldBugTorn ==  (* bug: only an absent lock is free *)
  lock # "absent" /\ (lock \in Procs => Living(lock))
HeldBugDead ==  (* bug: the liveness test the wrong way round *)
  lock \in Procs /\ ~Living(lock)
Held == lock \in Procs /\ Living(lock)

(* p has looked and found nothing, and enters where it will write.         *)
Enter(p, where, window) ==
  met' = IF \E q \in Procs \ {p} : pc[q] \in window THEN met \union {where} ELSE met

-----------------------------------------------------------------------------
LockInit ==
  /\ lock = "absent"
  /\ marker = "absent"
  /\ pc = [p \in Procs |-> "fresh"]
  /\ ask = [p \in Procs |-> "dev"]
  /\ frozen \in BOOLEAN
  /\ opened = 0
  /\ met = {}
  /\ starts = 0

(* Somebody writes the decision that ends tuning. *)
Freeze ==
  /\ ~frozen
  /\ frozen' = TRUE
  /\ UNCHANGED <<lock, marker, pc, ask, opened, met, starts>>

Start(p) ==
  /\ pc[p] = "fresh"
  /\ starts < Starts
  /\ starts' = starts + 1
  /\ \E what \in {"dev", "test", "resume"} : ask' = [ask EXCEPT ![p] = what]
  /\ Goto(p, "guard")
  /\ UNCHANGED <<lock, marker, frozen, opened, met>>

(* split_lock.guard: any split but test passes. *)
GuardPasses(p) ==
  /\ pc[p] = "guard" /\ ask[p] = "dev"
  /\ Goto(p, "key")
  /\ UNCHANGED <<lock, marker, frozen, ask, opened, met, starts>>

CheckFreeze(p) ==
  /\ pc[p] = "guard" /\ ask[p] # "dev"
  /\ Goto(p, IF frozen THEN "look" ELSE "split_refused")
  /\ UNCHANGED <<lock, marker, frozen, ask, opened, met, starts>>

(* marker.exists() *)
FindMarker(p) ==
  /\ pc[p] = "look" /\ marker # "absent"
  /\ Goto(p, "read")
  /\ UNCHANGED <<lock, marker, frozen, ask, opened, met, starts>>

FindNoneBugAgain(p) ==  (* bug: the marker is only for show *)
  /\ pc[p] = "look"
  /\ Goto(p, "opening")
  /\ Enter(p, "split", {"opening"})
  /\ UNCHANGED <<lock, marker, frozen, ask, opened, starts>>
FindNone(p) ==
  /\ pc[p] = "look" /\ marker = "absent"
  /\ Goto(p, "opening")
  /\ Enter(p, "split", {"opening"})
  /\ UNCHANGED <<lock, marker, frozen, ask, opened, starts>>

(* An opened split is for a resumption; half a marker does not parse.      *)
ReadMarker(p) ==
  /\ pc[p] = "read"
  /\ Goto(p, CASE marker = "torn" -> "bad_marker"
               [] marker # "torn" /\ ask[p] = "resume" -> "key"
               [] OTHER -> "split_refused")
  /\ UNCHANGED <<lock, marker, frozen, ask, opened, met, starts>>

(* write_text(): open for writing, then write.  Nobody looks again.        *)
TruncateMarker(p) ==
  /\ pc[p] = "opening"
  /\ marker' = "torn"
  /\ Goto(p, "marking")
  /\ UNCHANGED <<lock, frozen, ask, opened, met, starts>>

WriteMarker(p) ==
  /\ pc[p] = "marking"
  /\ marker' = "opened"
  /\ opened' = opened + 1
  /\ Goto(p, "key")
  /\ UNCHANGED <<lock, frozen, ask, met, starts>>

(* No API key: the command exits, and the split stays opened. *)
HasKey(p) ==
  /\ pc[p] = "key"
  /\ \E next \in {"check", "done"} : Goto(p, next)
  /\ UNCHANGED <<lock, marker, frozen, ask, opened, met, starts>>

(* check_unlocked() is asked by the command and by the lock itself. *)
Check(p) ==
  /\ pc[p] = "check"
  /\ ~Held
  /\ Goto(p, "claim")
  /\ UNCHANGED <<lock, marker, frozen, ask, opened, met, starts>>

Claim(p) ==
  /\ pc[p] = "claim"
  /\ ~Held
  /\ Goto(p, "truncate")
  /\ Enter(p, "lock", {"truncate", "write"})
  /\ UNCHANGED <<lock, marker, frozen, ask, opened, starts>>

Refuse(p) ==
  /\ pc[p] \in {"check", "claim"}
  /\ Held
  /\ Goto(p, "refused")
  /\ UNCHANGED <<lock, marker, frozen, ask, opened, met, starts>>

Truncate(p) ==
  /\ pc[p] = "truncate"
  /\ lock' = "torn"
  /\ Goto(p, "write")
  /\ UNCHANGED <<marker, frozen, ask, opened, met, starts>>

Write(p) ==
  /\ pc[p] = "write"
  /\ lock' = p
  /\ Goto(p, "evaluating")
  /\ UNCHANGED <<marker, frozen, ask, opened, met, starts>>

(* The evaluation ends, or fails with an exception: the finally runs.      *)
EndEvaluation(p) ==
  /\ pc[p] = "evaluating"
  /\ Goto(p, "release")
  /\ UNCHANGED <<lock, marker, frozen, ask, opened, met, starts>>

Release(p) ==
  /\ pc[p] = "release"
  /\ Goto(p, IF lock = p THEN "unlink" ELSE "done")
  /\ UNCHANGED <<lock, marker, frozen, ask, opened, met, starts>>

Unlink(p) ==
  /\ pc[p] = "unlink"
  /\ lock' = "absent"
  /\ Goto(p, "done")
  /\ UNCHANGED <<marker, frozen, ask, opened, met, starts>>

Crash(p) ==
  /\ Living(p)
  /\ Goto(p, "crashed")
  /\ UNCHANGED <<lock, marker, frozen, ask, opened, met, starts>>

-----------------------------------------------------------------------------
Step(p) ==
  \/ GuardPasses(p) \/ CheckFreeze(p) \/ FindMarker(p) \/ FindNone(p) \/ ReadMarker(p)
  \/ TruncateMarker(p) \/ WriteMarker(p) \/ HasKey(p) \/ Check(p) \/ Claim(p) \/ Refuse(p)
  \/ Truncate(p) \/ Write(p)
  \/ EndEvaluation(p) \/ Release(p) \/ Unlink(p)

LockNext == Freeze \/ \E p \in Procs : Start(p) \/ Step(p) \/ Crash(p)

LockSpec == LockInit /\ [][LockNext]_lockVars

-----------------------------------------------------------------------------
(* Properties.                                                             *)

(* Two evaluations never share a runs directory (run_lock.py, evaluation_- *)
(* lock): the lock says who is evaluating, so that the next one is refused,*)
(* and outlives its holder only in a crash.  Between its last look and its *)
(* own write a process keeps nobody out.  That is the one way to have two, *)
(* and then two have been there together: otherwise no order of starts,    *)
(* crashes, stale or half-written locks and releases gives two.            *)
LockNamesHolder ==
  \A p \in Procs : pc[p] = "evaluating" => lock = p

OneEvaluation ==
  /\ lock \in Procs => pc[lock] \in Holding \union {"crashed"}
  /\ "lock" \notin met =>
       /\ Cardinality({p \in Procs : pc[p] = "evaluating"}) <= 1
       /\ LockNamesHolder

(* A process is refused only because of another one that is evaluating or  *)
(* about to say that it has finished: a crash, at any point, never has to  *)
(* be cleaned up after (run_lock.py, check_unlocked).                      *)
RefusedOnlyByLiving ==
  [][\A p \in Procs : pc[p] # "refused" /\ pc'[p] = "refused" =>
       \E q \in Procs \ {p} : pc[q] \in Holding]_lockVars

(* The test split is opened once, after tuning was declared finished, and  *)
(* every other look at it is a resumption (split_lock.py, open_test_split),*)
(* unless two have found no marker before either had written one: crashes, *)
(* torn markers and resumptions never open it twice.                       *)
SplitOpenedOnce ==
  /\ opened > 0 => frozen
  /\ "split" \notin met => opened <= 1

(* "The test split is touched once, and the code is what enforces it"      *)
(* (split_lock.py): of any starts, it does not hold.                       *)
SplitTouchedOnce == opened <= 1
=============================================================================

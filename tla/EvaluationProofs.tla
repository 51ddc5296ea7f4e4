--------------------------- MODULE EvaluationProofs ---------------------------
(***************************************************************************)
(* Proofs about an unattended evaluation: the lock and the test-split      *)
(* gate, for any processes and any number of starts; the passes, the       *)
(* status file and the results of one evaluation, for any items, workers,  *)
(* passes and crashes.                                                     *)
(***************************************************************************)
EXTENDS EvalLock, EvalRun, FiniteSetTheorems, TLAPS

(***************************************************************************)
(* The lock and the gate, however evaluations are started.  Each has a     *)
(* window between the last look and the write, and what each promises      *)
(* while no two processes have been in one together is in the invariant.   *)
(***************************************************************************)
USE LockAssumption

(* Between the last look at the lock and the own pid in it.                *)
Claiming == {"truncate", "write"}

(* A pid in the lock is of a process that evaluates, or that crashed.      *)
LockIsOf == lock \in Procs => pc[lock] \in Holding \union {"crashed"}

(* Whoever holds the lock is in the file or about to be, and is alone.     *)
Alone ==
  "lock" \notin met =>
    /\ \A p \in Procs : pc[p] \in Holding => lock = p
    /\ \A p, q \in Procs : pc[p] \in Claiming /\ pc[q] \in Claiming => p = q
    /\ (\E p \in Procs : pc[p] \in Claiming) => \A q \in Procs : pc[q] \notin Holding

(* Nobody is past the first look at the split before it is frozen.         *)
Declared ==
  /\ \A p \in Procs : pc[p] \in Splitting => frozen
  /\ opened > 0 => frozen

(* Who marks the split found no marker, and nobody can find none again.    *)
Marked ==
  "split" \notin met =>
    /\ opened <= 1
    /\ marker = "absent" => opened = 0 /\ \A p \in Procs : pc[p] # "marking"
    /\ \A p \in Procs : pc[p] = "opening" => marker = "absent"
    /\ \A p \in Procs : pc[p] = "marking" => opened = 0
    /\ \A p, q \in Procs : pc[p] = "opening" /\ pc[q] = "opening" => p = q
    /\ \A p, q \in Procs : pc[p] = "marking" /\ pc[q] = "marking" => p = q

LockInv == LockTypeOK /\ LockIsOf /\ Alone /\ Declared /\ Marked

-----------------------------------------------------------------------------
(* Nobody has started: there is no pid file, no marker and no holder.      *)
LEMMA LockStart == LockInit => LockInv
  BY DEF LockInit, LockInv, LockTypeOK, LockIsOf, Alone, Declared, Marked, Splitting, Starting,
         Holding, Claiming, Gone, Over

(* Every statement of a start, and a crash, keeps the types.               *)
LEMMA LockTypesStep ==
  ASSUME LockTypeOK, [LockNext]_lockVars
  PROVE  LockTypeOK'
  <1> USE DEF LockTypeOK, Splitting, Starting, Holding, Gone, Over, Goto, Enter
  <1>1. ASSUME NEW p \in Procs, Start(p)
        PROVE  LockTypeOK'
    BY <1>1 DEF Start
  <1>2. ASSUME NEW p \in Procs,
               \/ GuardPasses(p) \/ CheckFreeze(p) \/ FindMarker(p) \/ FindNone(p)
               \/ ReadMarker(p) \/ TruncateMarker(p) \/ WriteMarker(p)
        PROVE  LockTypeOK'
    BY <1>2 DEF GuardPasses, CheckFreeze, FindMarker, FindNone, ReadMarker, TruncateMarker,
                WriteMarker
  <1>3. ASSUME NEW p \in Procs,
               \/ HasKey(p) \/ Check(p) \/ Claim(p) \/ Refuse(p) \/ Truncate(p) \/ Write(p)
               \/ EndEvaluation(p) \/ Release(p) \/ Unlink(p) \/ Crash(p)
        PROVE  LockTypeOK'
    BY <1>3 DEF HasKey, Check, Claim, Refuse, Truncate, Write, EndEvaluation, Release, Unlink,
                Crash
  <1>4. CASE Freeze
    BY <1>4 DEF Freeze
  <1>5. CASE UNCHANGED lockVars
    BY <1>5 DEF lockVars
  <1> QED BY <1>1, <1>2, <1>3, <1>4, <1>5 DEF LockNext, Step

(* A step that is none of the lock's: nobody comes into the window or the  *)
(* evaluation, and nobody leaves the evaluation but by a crash.            *)
Aside(p) ==
  \/ Start(p) \/ GuardPasses(p) \/ CheckFreeze(p) \/ FindMarker(p) \/ FindNone(p)
  \/ ReadMarker(p) \/ TruncateMarker(p) \/ WriteMarker(p) \/ HasKey(p) \/ Check(p) \/ Refuse(p)

LEMMA AsideOfTheLock ==
  ASSUME LockTypeOK, NEW p \in Procs, Aside(p)
  PROVE  /\ lock' = lock
         /\ "lock" \in met <=> "lock" \in met'
         /\ pc[p] \notin Holding \union {"crashed"} \union Claiming
         /\ pc'[p] \notin Holding \union {"crashed"} \union Claiming
         /\ pc' = [pc EXCEPT ![p] = pc'[p]]
  <1> USE DEF LockTypeOK, Aside, Holding, Claiming, Goto, Enter
  <1>1. CASE Start(p) \/ GuardPasses(p) \/ CheckFreeze(p) \/ FindMarker(p) \/ FindNone(p)
    BY <1>1 DEF Start, GuardPasses, CheckFreeze, FindMarker, FindNone
  <1>2. CASE ReadMarker(p) \/ TruncateMarker(p) \/ WriteMarker(p)
    BY <1>2 DEF ReadMarker, TruncateMarker, WriteMarker
  <1>3. CASE HasKey(p) \/ Check(p) \/ Refuse(p)
    BY <1>3 DEF HasKey, Check, Refuse
  <1> QED BY <1>1, <1>2, <1>3

(* The lock is written by who goes on to evaluate, and taken away by who   *)
(* is done: no step leaves the pid of a process that ended.                *)
LEMMA LockIsOfStep ==
  ASSUME LockInv, [LockNext]_lockVars
  PROVE  LockIsOf'
  <1> USE DEF LockInv, LockTypeOK, LockIsOf, Holding, Goto
  <1>1. ASSUME NEW p \in Procs, Aside(p)
        PROVE  LockIsOf'
    BY <1>1, AsideOfTheLock
  <1>2. ASSUME NEW p \in Procs, Claim(p)
        PROVE  LockIsOf'
    BY <1>2 DEF Claim
  <1>3. ASSUME NEW p \in Procs, Truncate(p) \/ Write(p) \/ Unlink(p)
        PROVE  LockIsOf'
    BY <1>3 DEF Truncate, Write, Unlink
  <1>4. ASSUME NEW p \in Procs, EndEvaluation(p) \/ Release(p)
        PROVE  LockIsOf'
    BY <1>4 DEF EndEvaluation, Release
  <1>5. ASSUME NEW p \in Procs, Crash(p)
        PROVE  LockIsOf'
    BY <1>5 DEF Crash
  <1>6. CASE Freeze \/ UNCHANGED lockVars
    BY <1>6 DEF Freeze, lockVars
  <1> QED BY <1>1, <1>2, <1>3, <1>4, <1>5, <1>6 DEF LockNext, Step, Aside

(* Who finds the lock free while nobody has met in the window has nobody   *)
(* evaluating beside it, and enters the window alone or is noticed.        *)
LEMMA AloneStep ==
  ASSUME LockInv, [LockNext]_lockVars
  PROVE  Alone'
  <1> USE DEF LockInv, LockTypeOK, LockIsOf, Alone, Holding, Claiming, Goto
  <1>1. ASSUME NEW p \in Procs, Aside(p)
        PROVE  Alone'
    BY <1>1, AsideOfTheLock
  <1>2. ASSUME NEW p \in Procs, Claim(p)
        PROVE  Alone'
    <2> SUFFICES ASSUME "lock" \notin met' PROVE Alone'
      OBVIOUS
    <2>1. "lock" \notin met /\ \A q \in Procs \ {p} : pc[q] \notin Claiming
      BY <1>2 DEF Claim, Enter
    <2>2. \A q \in Procs : pc[q] \notin Holding
      BY <1>2, <2>1 DEF Claim, Held, Living
    <2> QED BY <1>2, <2>1, <2>2 DEF Claim
  <1>3. ASSUME NEW p \in Procs, Truncate(p) \/ Write(p)
        PROVE  Alone'
    BY <1>3 DEF Truncate, Write
  <1>4. ASSUME NEW p \in Procs, EndEvaluation(p) \/ Release(p) \/ Unlink(p)
        PROVE  Alone'
    BY <1>4 DEF EndEvaluation, Release, Unlink
  <1>5. ASSUME NEW p \in Procs, Crash(p)
        PROVE  Alone'
    BY <1>5 DEF Crash
  <1>6. CASE Freeze \/ UNCHANGED lockVars
    BY <1>6 DEF Freeze, lockVars
  <1> QED BY <1>1, <1>2, <1>3, <1>4, <1>5, <1>6 DEF LockNext, Step, Aside

(* A step that is none of the split's: the marker stays, and nobody comes  *)
(* to look at it who was not looking.                                      *)
Elsewise(p) ==
  \/ Start(p) \/ GuardPasses(p) \/ FindMarker(p) \/ ReadMarker(p) \/ HasKey(p) \/ Check(p)
  \/ Claim(p) \/ Refuse(p) \/ Truncate(p) \/ Write(p) \/ EndEvaluation(p) \/ Release(p)
  \/ Unlink(p) \/ Crash(p)

LEMMA AsideOfTheSplit ==
  ASSUME LockTypeOK, NEW p \in Procs, Elsewise(p)
  PROVE  /\ UNCHANGED <<marker, frozen, opened>>
         /\ "split" \in met <=> "split" \in met'
         /\ pc'[p] \notin Splitting \ {"read"}
         /\ pc'[p] \in Splitting => pc[p] \in Splitting
         /\ pc' = [pc EXCEPT ![p] = pc'[p]]
  <1> USE DEF LockTypeOK, Elsewise, Splitting, Goto, Enter
  <1>1. CASE Start(p) \/ GuardPasses(p) \/ FindMarker(p) \/ ReadMarker(p) \/ HasKey(p)
    BY <1>1 DEF Start, GuardPasses, FindMarker, ReadMarker, HasKey
  <1>2. CASE Check(p) \/ Claim(p) \/ Refuse(p) \/ Truncate(p) \/ Write(p)
    BY <1>2 DEF Check, Claim, Refuse, Truncate, Write
  <1>3. CASE EndEvaluation(p) \/ Release(p) \/ Unlink(p) \/ Crash(p)
    BY <1>3 DEF EndEvaluation, Release, Unlink, Crash
  <1> QED BY <1>1, <1>2, <1>3

(* Every step keeps Declared and Marked: only who found no marker marks    *)
(* the split, and the marker stays.                                        *)
LEMMA MarkedStep ==
  ASSUME LockInv, [LockNext]_lockVars
  PROVE  Declared' /\ Marked'
  <1> USE DEF LockInv, LockTypeOK, Declared, Marked, Splitting, Goto
  <1>1. ASSUME NEW p \in Procs, CheckFreeze(p)
        PROVE  Declared' /\ Marked'
    BY <1>1 DEF CheckFreeze
  <1>2. ASSUME NEW p \in Procs, FindNone(p)
        PROVE  Declared' /\ Marked'
    BY <1>2 DEF FindNone, Enter
  <1>3. ASSUME NEW p \in Procs, TruncateMarker(p)
        PROVE  Declared' /\ Marked'
    BY <1>3 DEF TruncateMarker
  <1>4. ASSUME NEW p \in Procs, WriteMarker(p)
        PROVE  Declared' /\ Marked'
    BY <1>4 DEF WriteMarker
  <1>5. ASSUME NEW p \in Procs, Elsewise(p)
        PROVE  Declared' /\ Marked'
    <2>1. /\ UNCHANGED <<marker, frozen, opened>>
          /\ "split" \in met <=> "split" \in met'
      BY <1>5, AsideOfTheSplit
    <2>2. /\ pc'[p] \notin Splitting \ {"read"}
          /\ pc'[p] \in Splitting => pc[p] \in Splitting
          /\ pc' = [pc EXCEPT ![p] = pc'[p]]
      BY <1>5, AsideOfTheSplit
    <2>3. Declared'
      BY <2>1, <2>2
    <2>4. \A q \in Procs : pc'[q] \in {"opening", "marking"} => pc'[q] = pc[q]
      BY <2>2
    <2> QED BY <2>1, <2>3, <2>4
  <1>6. CASE Freeze \/ UNCHANGED lockVars
    BY <1>6 DEF Freeze, lockVars
  <1> QED BY <1>1, <1>2, <1>3, <1>4, <1>5, <1>6 DEF LockNext, Step, Elsewise

(* Two evaluations that hold the lock would both be named by one pid       *)
(* file.                                                                   *)
LEMMA AloneLemma ==
  ASSUME LockInv
  PROVE  OneEvaluation
  <1> DEFINE evaluating == {p \in Procs : pc[p] = "evaluating"}
  <1>1. lock \in Procs => pc[lock] \in Holding \union {"crashed"}
    BY DEF LockInv, LockIsOf
  <1>2. "lock" \notin met => LockNamesHolder
    BY DEF LockInv, Alone, LockNamesHolder, Holding
  <1>3. "lock" \notin met => evaluating = {} \/ \E p : evaluating = {p}
    BY DEF LockInv, Alone, Holding
  <1>4. "lock" \notin met => Cardinality(evaluating) <= 1
    <2>1. CASE evaluating = {}
      BY <2>1, FS_EmptySet
    <2>2. ASSUME NEW p, evaluating = {p}
          PROVE  Cardinality(evaluating) <= 1
      <3>1. Cardinality({p}) = 1
        BY FS_Singleton
      <3> QED BY <2>2, <3>1
    <2> HIDE DEF evaluating
    <2> QED BY <1>3, <2>1, <2>2
  <1> QED BY <1>1, <1>2, <1>4 DEF OneEvaluation

-----------------------------------------------------------------------------
(* A pid in the lock is of a process that evaluates or that crashed, who   *)
(* met nobody in a window is alone past it, and the types hold, however    *)
(* many processes start, end and crash.                                    *)
THEOREM LockInvariant == LockSpec => []LockInv
  <1>1. LockInit => LockInv
    BY LockStart
  <1>2. LockInv /\ [LockNext]_lockVars => LockInv'
    BY LockTypesStep, LockIsOfStep, AloneStep, MarkedStep DEF LockInv
  <1> QED BY <1>1, <1>2, PTL DEF LockSpec

(* The two files and the processes keep their types.                       *)
THEOREM LockTypes == LockSpec => []LockTypeOK
  <1>1. LockInv => LockTypeOK
    BY DEF LockInv
  <1> QED BY <1>1, LockInvariant, PTL

(* run_lock.py: two evaluations overlap only if two processes have been    *)
(* between their last look at the lock and their write of it together; no  *)
(* crash, stale pid, torn lock or release does it.                         *)
THEOREM LockIsExclusive == LockSpec => []OneEvaluation
  BY LockInvariant, AloneLemma, PTL

(* run_lock.py, check_unlocked: whoever is refused is refused for a process*)
(* that is evaluating, however they were started.                          *)
THEOREM LockRefusesForLiving == LockSpec => RefusedOnlyByLiving
  <1>1. LockInv /\ [LockNext]_lockVars =>
          [\A p \in Procs : pc[p] # "refused" /\ pc'[p] = "refused" =>
             \E q \in Procs \ {p} : pc[q] \in Holding]_lockVars
    <2> SUFFICES ASSUME LockInv, LockNext, NEW p \in Procs, pc[p] # "refused", pc'[p] = "refused"
                 PROVE  \E q \in Procs \ {p} : pc[q] \in Holding
      OBVIOUS
    <2> USE DEF LockInv, LockTypeOK, Goto
    <2>1. PICK r \in Procs : Start(r) \/ Step(r) \/ Crash(r)
      BY DEF LockNext, Freeze
    <2>2. ~(Start(r) \/ GuardPasses(r) \/ CheckFreeze(r) \/ FindMarker(r) \/ FindNone(r)
            \/ ReadMarker(r) \/ TruncateMarker(r) \/ WriteMarker(r))
      BY DEF Start, GuardPasses, CheckFreeze, FindMarker, FindNone, ReadMarker, TruncateMarker,
             WriteMarker
    <2>3. ~(HasKey(r) \/ Check(r) \/ Claim(r) \/ Truncate(r) \/ Write(r) \/ EndEvaluation(r)
            \/ Release(r) \/ Unlink(r) \/ Crash(r))
      BY DEF HasKey, Check, Claim, Truncate, Write, EndEvaluation, Release, Unlink, Crash
    <2>4. Refuse(r) /\ r = p
      BY <2>1, <2>2, <2>3 DEF Step, Refuse
    <2>5. lock \in Procs /\ pc[lock] \in Holding /\ pc[p] \in {"check", "claim"}
      BY <2>4 DEF Refuse, Held, Living, LockIsOf, Splitting, Starting, Holding
    <2> QED BY <2>5 DEF Holding
  <1> QED BY <1>1, LockInvariant, PTL DEF LockSpec, RefusedOnlyByLiving

(* split_lock.py, open_test_split: the test split is opened only after the *)
(* freeze decision, and a second time only if two processes found no       *)
(* marker before either wrote one, whoever asks, crashes or resumes.       *)
THEOREM SplitIsOpenedOnce == LockSpec => []SplitOpenedOnce
  <1>1. LockInv => SplitOpenedOnce
    BY DEF LockInv, Declared, Marked, SplitOpenedOnce
  <1> QED BY <1>1, LockInvariant, PTL

HIDE LockAssumption

(***************************************************************************)
(* The passes, the status and the results of an evaluation.                *)
(***************************************************************************)
USE EvalAssumption

(* The command is past its start and not yet ended.                        *)
Underway == cmd \in {"pass", "evaluated"}

(* The command runs only under a supervisor that watches it.               *)
Watched == Alive => sup = "watching"

(* Until it gives up the supervisor has crashes left to count.             *)
StillCounting == sup \in {"ready", "watching"} => crashes < MaxCrashes

(* The verdicts and the failures of a pass, item by item.                  *)
Ledger ==
  Underway =>
    /\ queue \intersect working = {}
    /\ \A i \in Items :
         /\ rows[i] + failures[i] <= 1
         /\ i \in queue \union working => rows[i] + failures[i] = 0
         /\ ~escaped /\ i \notin queue \union working => rows[i] + failures[i] = 1

(* The counters of a pass agree with its verdicts and failures, and so     *)
(* does what was last written of them.                                     *)
Tallies ==
  Underway =>
    /\ told => status = Report("running", done + finished, done + attempted, Count(failures))
    /\ done + finished = Count(rows)
    /\ done + attempted + Cardinality(queue) = Cardinality(Items)

(* An evaluation has ended only when nothing waits and nothing escaped.    *)
PassIsOver == cmd = "evaluated" => ~escaped /\ queue = {} /\ working = {}

(* A sensitivity that was scored is of every item, or of none.             *)
ScoredIsWhole ==
  cmd \in {"decided", "publishing", "filling"} /\ stage = "sensitivity" => rows \in {None, All}

(* A primary evaluation that lost nothing answered everything.             *)
PrimaryIsWhole ==
  /\ cmd = "decided" \/ (stage = "sensitivity" /\ Underway) =>
        (primary.failures = None => primary.rows = All)
  /\ cmd \in {"publishing", "filling"} => primary.rows = All

(* Files are new only of a command that publishes, the table is opened     *)
(* when it is next, and a command is done with publishing when none is due.*)
FilesInOrder ==
  /\ files[Parquet].age # "none" => HasTable
  /\ Alive /\ cmd \notin {"publishing", "filling"} => \A o \in DOMAIN files : files[o].age # "new"
  /\ cmd \in {"publishing", "filling"} => Due # {}
  /\ cmd = "filling" => IsNext(Parquet)
  /\ cmd = "ok" /\ sup = "watching" => Due = {}

(* The invariant of an evaluation.                                         *)
EvalInv ==
  /\ TypeOK /\ Watched /\ StillCounting /\ Ledger /\ Tallies /\ PassIsOver
  /\ PrimaryIsWhole /\ ScoredIsWhole /\ FilesInOrder
  /\ PublishedIsWhole

-----------------------------------------------------------------------------
(* What a count of verdicts is, and what one more verdict makes of it.     *)
LEMMA CountType ==
  ASSUME NEW r \in [Items -> Nat]
  PROVE  /\ Answered(r) \subseteq Items
         /\ IsFiniteSet(Answered(r))
         /\ Count(r) \in Nat
  <1>1. Answered(r) \subseteq Items
    BY DEF Answered
  <1> QED BY <1>1, FS_Subset, FS_CardinalityType DEF Count

LEMMA CountNone == None \in [Items -> Nat] /\ Answered(None) = {} /\ Count(None) = 0
  <1>1. Answered(None) = {}
    BY DEF Answered, None
  <1> QED BY <1>1, FS_EmptySet DEF Count, None

LEMMA CountOneMore ==
  ASSUME NEW r \in [Items -> Nat], NEW i \in Items, r[i] = 0
  PROVE  /\ [r EXCEPT ![i] = @ + 1] \in [Items -> Nat]
         /\ Count([r EXCEPT ![i] = @ + 1]) = Count(r) + 1
  <1> DEFINE s == [r EXCEPT ![i] = @ + 1]
  <1>1. s \in [Items -> Nat]
    OBVIOUS
  <1>2. \A j \in Items : s[j] > 0 <=> r[j] > 0 \/ j = i
    OBVIOUS
  <1>3. Answered(s) = Answered(r) \union {i} /\ i \notin Answered(r)
    BY <1>2 DEF Answered
  <1> QED BY <1>1, <1>3, CountType, FS_AddElement, ZenonT(60) DEF Count

(* Sets of items that have none in common are together no more than all.   *)
LEMMA DisjointFit ==
  ASSUME NEW A \in SUBSET Items, NEW B \in SUBSET Items, A \intersect B = {}
  PROVE  Cardinality(A) + Cardinality(B) = Cardinality(A \union B)
  <1>1. IsFiniteSet(A) /\ IsFiniteSet(B)
    BY FS_Subset
  <1>2. Cardinality(A \union B) = Cardinality(A) + Cardinality(B) - Cardinality({})
    BY <1>1, FS_Union
  <1> QED BY <1>1, <1>2, FS_EmptySet, FS_CardinalityType

LEMMA FourFit ==
  ASSUME NEW A \in SUBSET Items, NEW B \in SUBSET Items, NEW C \in SUBSET Items,
         NEW D \in SUBSET Items,
         A \intersect B = {}, (A \union B) \intersect C = {},
         (A \union B \union C) \intersect D = {}
  PROVE  Cardinality(A) + Cardinality(B) + Cardinality(C) + Cardinality(D) <= Cardinality(Items)
  <1>1. Cardinality(A) + Cardinality(B) = Cardinality(A \union B)
    BY DisjointFit
  <1>2. Cardinality(A \union B) + Cardinality(C) = Cardinality(A \union B \union C)
    BY DisjointFit
  <1>3. Cardinality(A \union B \union C) + Cardinality(D)
          = Cardinality(A \union B \union C \union D)
    BY DisjointFit
  <1>4. A \union B \union C \union D \in SUBSET Items
    OBVIOUS
  <1>5. Cardinality(A \union B \union C \union D) <= Cardinality(Items)
    BY <1>4, FS_Subset
  <1>6. \A S \in SUBSET Items : Cardinality(S) \in Nat
    BY FS_Subset, FS_CardinalityType
  <1>7. A \union B \in SUBSET Items /\ A \union B \union C \in SUBSET Items
        /\ Items \in SUBSET Items
    OBVIOUS
  <1> QED BY <1>1, <1>2, <1>3, <1>4, <1>5, <1>6, <1>7

-----------------------------------------------------------------------------
(* The types of what a pass counts.                                        *)
LEMMA PassTypes ==
  ASSUME TypeOK
  PROVE  /\ rows \in [Items -> Nat] /\ failures \in [Items -> Nat]
         /\ done \in Nat /\ attempted \in Nat /\ finished \in Nat
  BY DEF TypeOK

(* A status of counters.                                                   *)
LEMMA ReportType ==
  ASSUME NEW state \in {"none", "running", "done", "failed"},
         NEW d \in Nat, NEW a \in Nat, NEW f \in Nat
  PROVE  Report(state, d, a, f) \in Statuses
  BY DEF Report, Statuses

(* Nothing has been started: there is no status, no verdict and no file.   *)
LEMMA EvalStart == Init => EvalInv
  <1> SUFFICES ASSUME Init PROVE EvalInv
    OBVIOUS
  <1>1. TypeOK
    <2>1. status \in Statuses
      BY ReportType DEF Init
    <2>2. files \in [1..Len(Outputs) -> Files]
      BY CountNone DEF Init, Empty, Files
    <2>3. primary \in [rows : [Items -> Nat], failures : [Items -> Nat]]
      BY CountNone DEF Init
    <2>4. pass \in 1..MaxPasses /\ crashes \in 0..MaxCrashes
      BY DEF Init
    <2>5. rows \in [Items -> Nat] /\ failures \in [Items -> Nat]
      BY CountNone DEF Init
    <2>6. {rows, failures} \subseteq [Items -> Nat] /\ {done, attempted, finished} \subseteq Nat
      BY <2>5 DEF Init
    <2>7. /\ sup \in Stopped \union {"ready", "watching"} /\ stage \in {"primary", "sensitivity"}
          /\ cmd \in Exits \union {"starting", "pass", "evaluated", "decided", "publishing",
                                 "filling"}
      BY DEF Init, Exits, Stopped
    <2>8. /\ flag \in BOOLEAN /\ key \in BOOLEAN /\ tail \in BOOLEAN /\ escaped \in BOOLEAN
          /\ told \in BOOLEAN
      BY DEF Init
    <2>9. queue \subseteq Items /\ working \subseteq Items
      BY DEF Init
    <2> QED BY <2>1, <2>2, <2>3, <2>4, <2>6, <2>7, <2>8, <2>9 DEF TypeOK
  <1>2. DOMAIN files = 1..5 /\ \A o \in DOMAIN files : files[o].age = "none"
    BY DEF Init, Empty, Outputs
  <1>3. PublishedIsWhole
    BY <1>2 DEF Init, PublishedIsWhole
  <1> QED BY <1>1, <1>2, <1>3 DEF Init, EvalInv, Watched, StillCounting, Ledger, Tallies,
             PassIsOver, PrimaryIsWhole, ScoredIsWhole, FilesInOrder, Parquet, Underway, Alive,
             Exits

(* A report, written or not, leaves a status.                              *)
LEMMA ReportPassTypes ==
  ASSUME status \in Statuses, NEW before \in Nat, NEW d \in Nat, NEW a \in Nat,
         NEW f \in [Items -> Nat], ReportPass(before, d, a, f)
  PROVE  told' \in BOOLEAN /\ status' \in Statuses
  <1>1. before + d \in Nat /\ before + a \in Nat /\ Count(f) \in Nat
    BY CountType
  <1>2. Report("running", before + d, before + a, Count(f)) \in Statuses
    BY <1>1, ReportType
  <1> QED BY <1>2 DEF ReportPass

(* A command that goes on or ends keeps the types of its memory.           *)
LEMMA ProceedTypes ==
  ASSUME TypeOK, NEW where, Proceed(where)
  PROVE  /\ cmd' = where
         /\ stage' \in {"primary", "sensitivity"} /\ pass' \in 1..MaxPasses
         /\ queue' \subseteq Items /\ working' \subseteq Items /\ escaped' \in BOOLEAN
         /\ {rows', failures'} \subseteq [Items -> Nat]
         /\ {done', attempted', finished'} \subseteq Nat
         /\ primary' \in [rows : [Items -> Nat], failures : [Items -> Nat]]
  <1>1. CASE where \in Exits
    <2>1. /\ rows' = None /\ failures' = None
          /\ primary' = [rows |-> None, failures |-> None]
          /\ cmd' = where /\ stage' = "primary" /\ pass' = 1
          /\ queue' = {} /\ working' = {} /\ escaped' = FALSE
          /\ done' = 0 /\ attempted' = 0 /\ finished' = 0
      BY <1>1 DEF Proceed
    <2>2. /\ {rows', failures'} \subseteq [Items -> Nat]
          /\ primary' \in [rows : [Items -> Nat], failures : [Items -> Nat]]
      BY <2>1, CountNone
    <2>3. 1 \in 1..MaxPasses /\ {done', attempted', finished'} \subseteq Nat
      BY <2>1
    <2>4. stage' \in {"primary", "sensitivity"} /\ escaped' \in BOOLEAN
      BY <2>1
    <2>5. queue' \subseteq Items /\ working' \subseteq Items
      BY <2>1
    <2> QED BY <2>1, <2>2, <2>3, <2>4, <2>5
  <1>2. CASE where \notin Exits
    BY <1>2 DEF Proceed, TypeOK, pool, run
  <1> QED BY <1>1, <1>2

(* A pass begins with the types of its parts.                              *)
LEMMA StartPassTypes ==
  ASSUME status \in Statuses, NEW outstanding \in SUBSET Items, NEW r \in [Items -> Nat],
         StartPass(outstanding, r)
  PROVE  /\ queue' \subseteq Items /\ working' \subseteq Items /\ escaped' \in BOOLEAN
         /\ {rows', failures'} \subseteq [Items -> Nat]
         /\ {done', attempted', finished'} \subseteq Nat
         /\ status' \in Statuses /\ told' \in BOOLEAN
         /\ cmd' = "pass"
  <1>1. Cardinality(Items) - Cardinality(outstanding) \in Nat
    BY FS_Subset, FS_CardinalityType
  <1>2. done' \in Nat /\ ReportPass(done', 0, 0, None)
    BY <1>1 DEF StartPass
  <1>3. status' \in Statuses /\ told' \in BOOLEAN
    BY <1>2, ReportPassTypes, CountNone
  <1>4. rows' \in [Items -> Nat] /\ failures' \in [Items -> Nat]
    BY CountNone DEF StartPass
  <1>5. queue' = outstanding /\ working' = {} /\ cmd' = "pass"
    BY DEF StartPass
  <1>6. escaped' \in BOOLEAN
    BY DEF StartPass
  <1>7. {done', attempted', finished'} \subseteq Nat
    BY <1>2 DEF StartPass
  <1> QED BY <1>3, <1>4, <1>5, <1>6, <1>7

(* Every step of the supervisor, the command and the provider keeps the    *)
(* types.                                                                  *)
LEMMA EvalTypesStep ==
  ASSUME TypeOK, StillCounting, [Next]_vars
  PROVE  TypeOK' /\ StillCounting'
  <1>1. CASE Supervise
    <2>1. \A s \in {"done", "failed"} :
            Report(s, 0, 0, 0) \in Statuses
      BY ReportType
    <2>2. CASE Halt \/ OnSuccess \/ OnRefusal
      BY <2>1, <2>2 DEF TypeOK, StillCounting, Halt, OnSuccess, OnRefusal, Stop, Stopped, pool, run
    <2>3. CASE OnIncomplete \/ OnCrash
      <3>1. PICK reason \in {"incomplete", "crashes"} : CountCrash(reason) /\ sup = "watching"
        BY <2>3 DEF OnIncomplete, OnCrash
      <3>2. crashes' \in 0..MaxCrashes /\ crashes' = crashes + 1
        BY <3>1 DEF TypeOK, StillCounting, CountCrash
      <3>3. CASE crashes' >= MaxCrashes
        BY <2>1, <3>1, <3>2, <3>3 DEF TypeOK, StillCounting, CountCrash, Stop, Stopped, pool, run
      <3>4. CASE ~(crashes' >= MaxCrashes)
        BY <3>1, <3>2, <3>4 DEF TypeOK, StillCounting, CountCrash, pool, run
      <3> QED BY <3>3, <3>4
    <2>4. CASE Attempt
      <3>1. status' \in Statuses
        BY <2>4, ReportType DEF Attempt
      <3>2. files' \in [1..Len(Outputs) -> Files]
        BY <2>4, ZenonT(60) DEF TypeOK, Attempt, Files
      <3> QED BY <2>4, <3>1, <3>2, ZenonT(60)
               DEF TypeOK, StillCounting, Attempt, pool, run
    <2> QED BY <1>1, <2>2, <2>3, <2>4 DEF Supervise
  <1>2. CASE Refused \/ LastPass \/ Score \/ Decide \/ Unwind \/ Die
    <2>1. PICK where \in Exits \union {"evaluated", "decided", "publishing"} : Proceed(where)
      BY <1>2 DEF Refused, LastPass, Score, Decide, Unwind, Die, Exits
    <2>2. /\ UNCHANGED <<flag, sup, crashes, key, report, files>>
          /\ tail' \in BOOLEAN
      <3>1. CASE Refused
        BY <3>1 DEF Refused
      <3>2. CASE LastPass \/ Score \/ Decide \/ Unwind \/ Die
        BY <3>2 DEF LastPass, Score, Decide, Unwind, Die, TypeOK, sups
      <3> QED BY <1>2, <3>1, <3>2
    <2> QED BY <2>1, <2>2, ProceedTypes, SMTT(60) DEF TypeOK, StillCounting, report
  <1>10. CASE Revoke
    BY <1>10 DEF TypeOK, StillCounting, Revoke, sups, pool, run, report
  <1>3. CASE SkipSensitivity
    BY <1>3 DEF TypeOK, StillCounting, SkipSensitivity, sups, pool, run, report
  <1>4. CASE BeginPrimary
    BY <1>4, StartPassTypes, CountNone, SMTT(60) DEF TypeOK, StillCounting, BeginPrimary, sups
  <1>5. CASE NextPass
    <2> DEFINE r == [i \in Items |-> IF i \in Answered(failures) THEN 0 ELSE rows[i]]
    <2>1. r \in [Items -> Nat] /\ Answered(failures) \in SUBSET Items
      BY DEF TypeOK, Answered
    <2>2. StartPass(Answered(failures), r) /\ pass' \in 1..MaxPasses
      BY <1>5 DEF NextPass, TypeOK
    <2> QED BY <1>5, <2>1, <2>2, StartPassTypes DEF TypeOK, StillCounting, NextPass, sups
  <1>6. CASE BeginSensitivity
    <2>1. primary' \in [rows : [Items -> Nat], failures : [Items -> Nat]]
      BY <1>6, PassTypes DEF BeginSensitivity
    <2>2. /\ queue' \subseteq Items /\ working' \subseteq Items /\ escaped' \in BOOLEAN
          /\ {rows', failures'} \subseteq [Items -> Nat]
          /\ {done', attempted', finished'} \subseteq Nat
          /\ status' \in Statuses /\ told' \in BOOLEAN
          /\ cmd' = "pass"
      <3>1. StartPass(Items, None) /\ status \in Statuses
        BY <1>6 DEF BeginSensitivity, TypeOK
      <3> QED BY <3>1, StartPassTypes, CountNone
    <2> QED BY <1>6, <2>1, <2>2, SMTT(30) DEF TypeOK, StillCounting, BeginSensitivity, sups
  <1>7. CASE ReplaceJson \/ OpenParquet \/ FillParquet
    <2>1. PICK where \in {"ok", "publishing", "filling"} : Proceed(where)
      BY <1>7 DEF ReplaceJson, OpenParquet, FillParquet, Publish
    <2>2. UNCHANGED <<sups, key, report>>
      BY <1>7 DEF ReplaceJson, OpenParquet, FillParquet, Publish
    <2>3. files' \in [1..Len(Outputs) -> Files]
      <3>1. CASE OpenParquet
        BY <3>1, ZenonT(60) DEF TypeOK, OpenParquet, Files
      <3>2. ASSUME NEW o \in DOMAIN files, Publish(o)
            PROVE  files' \in [1..Len(Outputs) -> Files]
        <4>1. [age |-> "new", rows |-> primary.rows,
               sensitivity |-> IF stage = "sensitivity" THEN rows ELSE None] \in Files
          BY PassTypes, CountNone DEF TypeOK, Files
        <4> QED BY <3>2, <4>1 DEF TypeOK, Publish
      <3>3. FillParquet => Parquet \in DOMAIN files
        BY DEF TypeOK, Outputs, Parquet
      <3> QED BY <1>7, <3>1, <3>2, <3>3 DEF ReplaceJson, FillParquet
    <2> QED BY <2>1, <2>2, <2>3, ProceedTypes, SMTT(60)
            DEF TypeOK, StillCounting, sups, report, Exits
  <1>8. ASSUME NEW i \in Items, Take(i) \/ Finish(i) \/ Fail(i) \/ Escape(i)
        PROVE  TypeOK' /\ StillCounting'
    <2>1. CASE Take(i)
      <3>1. attempted' \in Nat
        BY <2>1, PassTypes DEF Take
      <3>3. ReportPass(done, finished, attempted', failures) /\ status \in Statuses
        BY <2>1 DEF Take, TypeOK
      <3>4. status' \in Statuses /\ told' \in BOOLEAN
        BY <3>1, <3>3, PassTypes, ReportPassTypes
      <3> QED BY <2>1, <3>1, <3>4, PassTypes DEF TypeOK, StillCounting, Take, sups, run
    <2>2. CASE Finish(i)
      <3>1. rows' \in [Items -> Nat] /\ finished' \in Nat
        BY <2>2, PassTypes DEF Finish
      <3>3. ReportPass(done, finished', attempted, failures) /\ status \in Statuses
        BY <2>2 DEF Finish, TypeOK
      <3>4. status' \in Statuses /\ told' \in BOOLEAN
        BY <3>1, <3>3, PassTypes, ReportPassTypes
      <3> QED BY <2>2, <3>1, <3>4, PassTypes DEF TypeOK, StillCounting, Finish, sups
    <2>3. CASE Fail(i)
      <3>1. failures' \in [Items -> Nat]
        BY <2>3, PassTypes DEF Fail
      <3>3. ReportPass(done, finished, attempted, failures') /\ status \in Statuses
        BY <2>3 DEF Fail, TypeOK
      <3>4. status' \in Statuses /\ told' \in BOOLEAN
        BY <3>1, <3>3, PassTypes, ReportPassTypes
      <3> QED BY <2>3, <3>1, <3>4, PassTypes DEF TypeOK, StillCounting, Fail
    <2>4. CASE Escape(i)
      BY <2>4 DEF TypeOK, StillCounting, Escape, sups, run, report
    <2> QED BY <1>8, <2>1, <2>2, <2>3, <2>4
  <1>9. CASE UNCHANGED vars
    BY <1>9 DEF TypeOK, StillCounting, vars
  <1> QED BY <1>1, <1>2, <1>3, <1>4, <1>5, <1>6, <1>7, <1>8, <1>9, <1>10 DEF Next, Command

-----------------------------------------------------------------------------
(* Who does not work on the items of a pass leaves them as they are, or    *)
(* ends the pass.                                                          *)
LEMMA Elsewhere ==
  ASSUME TypeOK, Watched,
         \/ Supervise \/ Revoke \/ Refused \/ Unwind \/ Score \/ SkipSensitivity \/ Decide
         \/ ReplaceJson \/ OpenParquet \/ FillParquet \/ Die \/ UNCHANGED vars
  PROVE  Underway' => Underway /\ UNCHANGED <<cmd, stage, pool, run, primary, report>>
  BY DEF Underway, Watched, Alive, Exits, Supervise, Halt, Attempt, OnSuccess, OnIncomplete,
         OnRefusal, OnCrash, CountCrash, Revoke, Refused, Unwind, Score, SkipSensitivity, Decide,
         Proceed, ReplaceJson, OpenParquet, FillParquet, Publish, Die, vars, pool, run, report

(* A command is alive only while it is watched.                            *)
LEMMA WatchedStep ==
  ASSUME TypeOK, Watched, [Next]_vars
  PROVE  Watched'
  <1> USE DEF Watched, Alive, Exits
  <1>1. CASE Supervise
    BY <1>1 DEF Supervise, Halt, Attempt, OnSuccess, OnIncomplete, OnRefusal, OnCrash, CountCrash,
                Stop
  <1>2. CASE Command \/ Die \/ Revoke \/ UNCHANGED vars
    <2>1. Alive' => Alive /\ UNCHANGED sup
      BY <1>2 DEF Command, Refused, BeginPrimary, NextPass, LastPass, BeginSensitivity, Score,
                  SkipSensitivity, Decide, ReplaceJson, OpenParquet, FillParquet, Publish, Proceed,
                  Unwind, Take, Finish, Fail, Escape, Die, Revoke, vars, sups, Drained
    <2> QED BY <2>1
  <1> QED BY <1>1, <1>2 DEF Next

(* A pass that begins: the outstanding items have no verdict, the others   *)
(* have one.                                                               *)
LEMMA StartPassLedger ==
  ASSUME NEW outstanding \in SUBSET Items, NEW r \in [Items -> Nat],
         \A i \in Items : r[i] = IF i \in outstanding THEN 0 ELSE 1,
         StartPass(outstanding, r)
  PROVE  Ledger' /\ Tallies'
  <1>1. Ledger'
    BY DEF StartPass, Ledger, None
  <1>2. Answered(r) = Items \ outstanding
    BY DEF Answered
  <1>3. Count(r) = Cardinality(Items) - Cardinality(outstanding)
    <2>1. outstanding \intersect (Items \ outstanding) = {}
          /\ outstanding \union (Items \ outstanding) = Items
      OBVIOUS
    <2>2. Cardinality(outstanding) + Cardinality(Items \ outstanding) = Cardinality(Items)
      BY <2>1, DisjointFit
    <2>3. Cardinality(outstanding) \in Nat /\ Cardinality(Items \ outstanding) \in Nat
      BY FS_Subset, FS_CardinalityType
    <2> QED BY <1>2, <2>2, <2>3 DEF Count
  <1>4. Tallies'
    <2>1. /\ done' = Count(r) /\ done' \in Nat /\ attempted' = 0 /\ finished' = 0
          /\ told' => status' = Report("running", done' + 0, done' + 0, Count(None))
          /\ rows' = r /\ failures' = None /\ queue' = outstanding
      BY <1>3, CountType DEF StartPass, ReportPass
    <2>2. Cardinality(outstanding) \in Nat /\ Cardinality(Items) \in Nat
      BY FS_Subset, FS_CardinalityType
    <2> QED BY <1>3, <2>1, <2>2, CountNone DEF Tallies
  <1> QED BY <1>1, <1>4

(* Whoever answers or loses an item was working on it, and a new pass      *)
(* begins with what the last one lost.                                     *)
LEMMA LedgerStep ==
  ASSUME EvalInv, [Next]_vars
  PROVE  Ledger' /\ Tallies'
  <1> USE DEF EvalInv
  <1>1. CASE \/ Supervise \/ Revoke \/ Refused \/ Unwind \/ Score \/ SkipSensitivity \/ Decide
             \/ ReplaceJson \/ OpenParquet \/ FillParquet \/ Die \/ UNCHANGED vars
    BY <1>1, Elsewhere DEF Ledger, Tallies, Underway, pool, run, report
  <1>2. CASE LastPass
    BY <1>2 DEF LastPass, Proceed, Exits, Drained, Ledger, Tallies, Underway, pool, run, report
  <1>3. CASE BeginPrimary \/ BeginSensitivity
    BY <1>3, StartPassLedger, CountNone DEF BeginPrimary, BeginSensitivity, None
  <1>4. CASE NextPass
    <2> DEFINE r == [i \in Items |-> IF i \in Answered(failures) THEN 0 ELSE rows[i]]
    <2>1. r \in [Items -> Nat] /\ Answered(failures) \in SUBSET Items
      BY PassTypes DEF Answered
    <2>2. StartPass(Answered(failures), r)
      BY <1>4 DEF NextPass
    <2>3. \A i \in Items : r[i] = IF i \in Answered(failures) THEN 0 ELSE 1
      BY <1>4, PassTypes DEF NextPass, Drained, Ledger, Underway, Answered
    <2> QED BY <2>1, <2>2, <2>3, StartPassLedger
  <1>5. ASSUME NEW i \in Items, Take(i)
        PROVE  Ledger' /\ Tallies'
    <2>1. Ledger'
      BY <1>5, PassTypes DEF Ledger, Underway, Take, run
    <2>2. Cardinality(queue') = Cardinality(queue) - 1 /\ Cardinality(queue) \in Nat
      BY <1>5, FS_Subset, FS_RemoveElement, FS_CardinalityType DEF Take, TypeOK
    <2>3. Tallies'
      <3>1. /\ told' => status' = Report("running", done + finished, done + attempted',
                                         Count(failures))
            /\ attempted' = attempted + 1 /\ UNCHANGED <<done, finished, rows, failures, cmd>>
        BY <1>5 DEF Take, ReportPass, run
      <3> QED BY <1>5, <2>2, <3>1, PassTypes DEF Tallies, Underway, Take
    <2> QED BY <2>1, <2>3
  <1>6. ASSUME NEW i \in Items, Finish(i)
        PROVE  Ledger' /\ Tallies'
    <2>1. rows[i] = 0
      BY <1>6, PassTypes DEF Finish, Ledger, Underway
    <2>2. Ledger'
      BY <1>6, <2>1, PassTypes DEF Ledger, Underway, Finish
    <2>3. Count(rows') = Count(rows) + 1 /\ Count(rows) \in Nat
      BY <1>6, <2>1, CountOneMore, CountType, PassTypes DEF Finish
    <2>4. /\ told' => status' = Report("running", done + finished', done + attempted,
                                       Count(failures))
          /\ finished' = finished + 1 /\ UNCHANGED <<done, attempted, failures, queue, cmd>>
      BY <1>6 DEF Finish, ReportPass
    <2> QED BY <1>6, <2>2, <2>3, <2>4, PassTypes DEF Tallies, Underway, Finish
  <1>7. ASSUME NEW i \in Items, Fail(i)
        PROVE  Ledger' /\ Tallies'
    <2>1. Ledger'
      <3>1. rows[i] + failures[i] = 0 /\ rows \in [Items -> Nat] /\ failures \in [Items -> Nat]
        BY <1>7, PassTypes DEF Ledger, Underway, Fail
      <3>2. failures[i] = 0 /\ rows[i] = 0
        BY <3>1
      <3> QED BY <1>7, <3>1, <3>2 DEF Ledger, Underway, Fail
    <2>2. /\ told' => status' = Report("running", done + finished, done + attempted,
                                       Count(failures'))
          /\ UNCHANGED <<done, attempted, finished, rows, queue, cmd>>
      BY <1>7 DEF Fail, ReportPass
    <2> QED BY <1>7, <2>1, <2>2 DEF Tallies, Underway, Fail
  <1>8. ASSUME NEW i \in Items, Escape(i)
        PROVE  Ledger' /\ Tallies'
    BY <1>8, PassTypes DEF Ledger, Tallies, Underway, Escape, run, report
  <1> QED BY <1>1, <1>2, <1>3, <1>4, <1>5, <1>6, <1>7, <1>8 DEF Next, Command

(* An evaluation ends when its last pass has drained.                      *)
LEMMA PassIsOverStep ==
  ASSUME EvalInv, [Next]_vars
  PROVE  PassIsOver'
  <1>1. CASE \/ Supervise \/ Revoke \/ Refused \/ Unwind \/ Score \/ SkipSensitivity \/ Decide
             \/ ReplaceJson \/ OpenParquet \/ FillParquet \/ Die \/ UNCHANGED vars
    BY <1>1, Elsewhere DEF EvalInv, PassIsOver, Underway, pool
  <1>2. CASE LastPass
    BY <1>2 DEF LastPass, Proceed, Exits, Drained, PassIsOver, pool
  <1>3. CASE \/ BeginPrimary \/ BeginSensitivity \/ NextPass
             \/ \E i \in Items : Take(i) \/ Finish(i) \/ Fail(i) \/ Escape(i)
    BY <1>3 DEF PassIsOver, BeginPrimary, BeginSensitivity, NextPass, StartPass, Take, Finish, Fail,
                Escape
  <1> QED BY <1>1, <1>2, <1>3 DEF Next, Command

(* What the end of an evaluation says of its items.                        *)
LEMMA LostNothing ==
  ASSUME EvalInv, cmd = "evaluated", failures = None
  PROVE  rows = All
  <1>1. \A i \in Items : rows[i] + failures[i] = 1 /\ failures[i] = 0
    BY DEF EvalInv, Ledger, Underway, PassIsOver, None
  <1> QED BY <1>1, PassTypes DEF EvalInv, All

(* The primary evaluation is kept as it ended, and decided by its losses.  *)
LEMMA PrimaryIsWholeStep ==
  ASSUME EvalInv, [Next]_vars
  PROVE  PrimaryIsWhole'
  <1> USE DEF EvalInv
  <1>1. CASE Supervise
    BY <1>1 DEF PrimaryIsWhole, Underway, Supervise, Halt, Attempt, OnSuccess, OnIncomplete,
                OnRefusal, OnCrash, CountCrash, Watched, Alive, Exits
  <1>2. CASE \/ Revoke \/ Refused \/ LastPass \/ NextPass \/ Unwind \/ Die \/ UNCHANGED vars
             \/ \E i \in Items : Take(i) \/ Finish(i) \/ Fail(i) \/ Escape(i)
    BY <1>2 DEF PrimaryIsWhole, Underway, Revoke, Refused, LastPass, NextPass, StartPass, Drained,
                Unwind, Die, Proceed, Exits, Take, Finish, Fail, Escape, vars
  <1>3. CASE BeginPrimary
    BY <1>3 DEF PrimaryIsWhole, Underway, BeginPrimary, StartPass
  <1>4. CASE BeginSensitivity
    BY <1>4, LostNothing DEF PrimaryIsWhole, Underway, BeginSensitivity, StartPass
  <1>5. CASE SkipSensitivity
    BY <1>5, LostNothing DEF PrimaryIsWhole, Underway, SkipSensitivity
  <1>6. CASE Score
    BY <1>6 DEF PrimaryIsWhole, Underway, Score, Proceed, Exits
  <1>7. CASE Decide
    BY <1>7 DEF PrimaryIsWhole, Underway, Decide, Complete, Proceed, Exits
  <1>8. CASE ReplaceJson \/ OpenParquet \/ FillParquet
    BY <1>8 DEF PrimaryIsWhole, Underway, ReplaceJson, OpenParquet, FillParquet, Publish, Proceed,
                Exits
  <1> QED BY <1>1, <1>2, <1>3, <1>4, <1>5, <1>6, <1>7, <1>8 DEF Next, Command

(* Scoring the sensitivity raises unless every item was answered, or none. *)
LEMMA ScoredIsWholeStep ==
  ASSUME EvalInv, [Next]_vars
  PROVE  ScoredIsWhole'
  <1> USE DEF EvalInv
  <1>1. CASE Score
    <2>1. CASE Answered(rows) \in {{}, Items}
      <3>1. \A i \in Items : rows[i] \in {0, 1}
        <4>1. \A i \in Items : rows[i] + failures[i] <= 1
          BY <1>1 DEF Score, Ledger, Underway
        <4> QED BY <4>1, PassTypes
      <3>2. rows = None \/ rows = All
        <4>1. CASE Answered(rows) = {}
          BY <3>1, <4>1, PassTypes DEF Answered, None
        <4>2. CASE Answered(rows) = Items
          BY <3>1, <4>2, PassTypes DEF Answered, All
        <4> QED BY <2>1, <4>1, <4>2
      <3>3. UNCHANGED rows
        BY <1>1, <2>1 DEF Score, Proceed, Exits, run
      <3> QED BY <3>2, <3>3 DEF ScoredIsWhole, None, All
    <2>2. CASE Answered(rows) \notin {{}, Items}
      BY <1>1, <2>2 DEF Score, Proceed, ScoredIsWhole
    <2> QED BY <2>1, <2>2
  <1>2. CASE Supervise
    BY <1>2 DEF ScoredIsWhole, Supervise, Halt, Attempt, OnSuccess, OnIncomplete,
                OnRefusal, OnCrash, CountCrash, Watched, Alive, Exits, run, None, All
  <1>3. CASE SkipSensitivity \/ Decide
    BY <1>3 DEF ScoredIsWhole, SkipSensitivity, Decide, Proceed, Exits, run, None, All
  <1>4. CASE ReplaceJson \/ OpenParquet \/ FillParquet
    BY <1>4 DEF ScoredIsWhole, ReplaceJson, OpenParquet, FillParquet, Publish, Proceed, Exits,
                run, None, All
  <1>5. CASE \/ Refused \/ BeginPrimary \/ NextPass \/ LastPass \/ BeginSensitivity \/ Unwind
             \/ Die \/ \E i \in Items : Take(i) \/ Finish(i) \/ Fail(i) \/ Escape(i)
    <2>1. cmd' \in {"error", "pass", "evaluated"}
      BY <1>5 DEF Refused, BeginPrimary, NextPass, StartPass, LastPass, BeginSensitivity, Unwind,
                  Die, Proceed, Take, Finish, Fail, Escape
    <2> QED BY <2>1 DEF ScoredIsWhole
  <1>6. CASE Revoke \/ UNCHANGED vars
    BY <1>6 DEF Revoke, ScoredIsWhole, vars, run, None, All
  <1> QED BY <1>1, <1>2, <1>3, <1>4, <1>5, <1>6 DEF Next, Command

(* A file that is published says what was decided, and is no longer due.   *)
LEMMA PublishStep ==
  ASSUME EvalInv, NEW o \in DOMAIN files, IsNext(o), cmd \in {"publishing", "filling"}, Publish(o)
  PROVE  FilesInOrder' /\ PublishedIsWhole'
  <1> USE DEF EvalInv
  <1>1. /\ DOMAIN files = 1..5 /\ DOMAIN files' = 1..5
        /\ files'[o].age = "new" /\ files'[o].rows = All
        /\ files'[o].sensitivity \in {None, All}
        /\ \A u \in DOMAIN files \ {o} : files'[u] = files[u]
    BY DEF Publish, TypeOK, Outputs, PrimaryIsWhole, ScoredIsWhole
  <1>2. /\ cmd' = IF Due = {o} THEN "ok" ELSE "publishing"
        /\ UNCHANGED sup /\ sup = "watching"
    BY DEF Publish, Proceed, sups, Watched, Alive, Exits
  <1>3. Due' = Due \ {o} /\ o \in Due
    BY <1>1 DEF Due, IsNext, HasTable
  <1>4. o = Parquet => HasTable
    BY DEF IsNext, Due
  <1>5. FilesInOrder'
    BY <1>1, <1>2, <1>3, <1>4 DEF FilesInOrder, Alive, Exits, HasTable, Parquet
  <1>6. PublishedIsWhole'
    <2> SUFFICES ASSUME NEW u \in DOMAIN files
                 PROVE  /\ files'[u].age \in {"old", "new"} =>
                             files'[u].rows = All /\ files'[u].sensitivity \in {None, All}
                        /\ files'[u].age = "torn" =>
                             u = Parquet /\ files'[1].age \in {"old", "new"}
      BY <1>1, <1>2 DEF PublishedIsWhole
    <2>1. CASE u = o
      BY <1>1, <2>1
    <2>2. CASE u # o
      BY <1>1, <2>2 DEF PublishedIsWhole
    <2> QED BY <2>1, <2>2
  <1> QED BY <1>5, <1>6

(* The table is opened when the JSON copy beside it has been written.      *)
LEMMA OpenStep ==
  ASSUME EvalInv, OpenParquet
  PROVE  FilesInOrder' /\ PublishedIsWhole'
  <1> USE DEF EvalInv
  <1>1. /\ DOMAIN files = 1..5 /\ DOMAIN files' = 1..5
        /\ files'[Parquet].age = "torn"
        /\ \A u \in DOMAIN files \ {Parquet} : files'[u] = files[u]
    BY DEF OpenParquet, TypeOK, Outputs, Files, Parquet
  <1>2. cmd' = "filling" /\ UNCHANGED sup /\ sup = "watching"
    BY DEF OpenParquet, Proceed, sups, Watched, Alive, Exits
  <1>3. Due' = Due /\ HasTable /\ IsNext(Parquet)
    BY <1>1 DEF OpenParquet, IsNext, Due, HasTable
  <1>4. IsNext(Parquet)'
    BY <1>3 DEF IsNext, Parquet
  <1>5. files[1].age = "new" /\ 1 # Parquet
    BY <1>1, <1>3 DEF IsNext, Due, Parquet
  <1>6. FilesInOrder'
    BY <1>1, <1>2, <1>3, <1>4 DEF FilesInOrder, IsNext, Alive, Exits, HasTable, Parquet
  <1>7. PublishedIsWhole'
    BY <1>1, <1>2, <1>5 DEF PublishedIsWhole
  <1> QED BY <1>6, <1>7

(* Only a command that publishes writes a file, and an attempt that begins *)
(* makes the files of the earlier ones old.                                *)
LEMMA FilesStep ==
  ASSUME EvalInv, [Next]_vars
  PROVE  FilesInOrder' /\ PublishedIsWhole'
  <1> USE DEF EvalInv
  <1>0. DOMAIN files = 1..5 /\ 1 \in DOMAIN files /\ Parquet \in DOMAIN files /\ Parquet # 1
    BY DEF TypeOK, Outputs, Parquet
  <1>1. CASE Attempt
    <2>1. /\ DOMAIN files' = DOMAIN files /\ sup' = "watching" /\ cmd' = "starting"
          /\ \A o \in DOMAIN files :
               /\ files'[o].age = IF files[o].age = "new" THEN "old" ELSE files[o].age
               /\ files'[o].rows = files[o].rows
               /\ files'[o].sensitivity = files[o].sensitivity
      BY <1>1 DEF Attempt, TypeOK, Files
    <2>2. PublishedIsWhole'
      BY <1>0, <2>1 DEF PublishedIsWhole
    <2> QED BY <1>0, <2>1, <2>2 DEF FilesInOrder, HasTable, Parquet, Alive, Exits
  <1>2. CASE Halt \/ OnSuccess \/ OnIncomplete \/ OnRefusal \/ OnCrash
    <2>1. UNCHANGED <<files, cmd>> /\ Due' = Due /\ (IsNext(Parquet) <=> IsNext(Parquet)')
      BY <1>2 DEF Halt, OnSuccess, OnIncomplete, OnRefusal, OnCrash, CountCrash, Due, IsNext,
                  HasTable, Parquet
    <2>2. sup' # "watching" /\ (sup' = "success" => OnSuccess)
      BY <1>2 DEF Halt, OnSuccess, OnIncomplete, OnRefusal, OnCrash, CountCrash, Stop
    <2>3. FilesInOrder'
      BY <2>1, <2>2 DEF FilesInOrder, Alive, HasTable, Parquet
    <2>4. OnSuccess => \A o \in DOMAIN files :
                         files[o].age = IF o = Parquet /\ ~HasTable THEN "none" ELSE "new"
      BY DEF OnSuccess, FilesInOrder, Due
    <2> QED BY <2>1, <2>2, <2>3, <2>4 DEF PublishedIsWhole, HasTable, Parquet
  <1>3. CASE Decide
    <2>1. UNCHANGED <<files, sup>> /\ Due' = Due
      BY <1>3 DEF Decide, sups, Due, HasTable
    <2>2. cmd = "decided" /\ \A o \in DOMAIN files : files[o].age # "new"
      BY <1>3 DEF Decide, FilesInOrder, Alive, Exits
    <2>3. 1 \in Due
      BY <1>0, <2>2 DEF Due
    <2>4. cmd' \in {"publishing", "not_complete"}
      BY <1>3 DEF Decide, Proceed
    <2> QED BY <2>1, <2>2, <2>3, <2>4
            DEF FilesInOrder, PublishedIsWhole, Alive, Exits, HasTable, Parquet
  <1>4. CASE ReplaceJson \/ FillParquet
    BY <1>0, <1>4, PublishStep DEF ReplaceJson, FillParquet, FilesInOrder
  <1>5. CASE OpenParquet
    BY <1>5, OpenStep
  <1>6. CASE \/ Revoke \/ Refused \/ BeginPrimary \/ NextPass \/ LastPass \/ BeginSensitivity
             \/ Score \/ SkipSensitivity \/ Unwind \/ Die \/ UNCHANGED vars
             \/ \E i \in Items : Take(i) \/ Finish(i) \/ Fail(i) \/ Escape(i)
    <2>1. UNCHANGED <<files, sup>> /\ Due' = Due /\ (IsNext(Parquet) <=> IsNext(Parquet)')
      BY <1>6 DEF Revoke, Refused, BeginPrimary, NextPass, LastPass, BeginSensitivity, Score,
                  SkipSensitivity, Unwind, Die, Take, Finish, Fail, Escape, vars, sups, Due, IsNext,
                  HasTable, Parquet
    <2>2. \/ UNCHANGED cmd
          \/ cmd' = "error"
          \/ /\ Alive /\ cmd \notin {"publishing", "filling"}
             /\ cmd' \in {"pass", "evaluated", "decided"}
      BY <1>6 DEF Revoke, Refused, BeginPrimary, NextPass, LastPass, BeginSensitivity, Score,
                  SkipSensitivity, Unwind, Die, Take, Finish, Fail, Escape, vars, sups, StartPass,
                  Proceed, Drained, Alive, Exits
    <2> QED BY <2>1, <2>2 DEF FilesInOrder, PublishedIsWhole, Alive, Exits, HasTable, Parquet
  <1> QED BY <1>1, <1>2, <1>3, <1>4, <1>5, <1>6 DEF Next, Supervise, Command

(* What the invariant says of every item, and of the status.               *)
LEMMA AccountedLemma ==
  ASSUME EvalInv
  PROVE  Accounted
  <1> SUFFICES ASSUME Underway PROVE
         /\ \A i \in Items :
              /\ rows[i] + failures[i] <= 1
              /\ i \in queue \union working => rows[i] + failures[i] = 0
              /\ i \in queue => i \notin working
              /\ ~escaped /\ i \notin queue \union working => rows[i] + failures[i] = 1
         /\ told => StatusIsHonest
    BY DEF Accounted, Underway
  <1> USE DEF EvalInv
  <1>1. /\ queue \in SUBSET Items /\ working \in SUBSET Items
        /\ Answered(rows) \in SUBSET Items /\ Answered(failures) \in SUBSET Items
    BY PassTypes, CountType DEF TypeOK
  <1>2. /\ queue \intersect working = {}
        /\ (queue \union working) \intersect Answered(rows) = {}
        /\ (queue \union working \union Answered(rows)) \intersect Answered(failures) = {}
    BY <1>1, PassTypes DEF Ledger, Answered
  <1>3. Cardinality(queue) + Cardinality(working) + Count(rows) + Count(failures)
          <= Cardinality(Items)
    BY <1>1, <1>2, FourFit DEF Count
  <1>4. /\ Cardinality(queue) \in Nat /\ Cardinality(working) \in Nat /\ Cardinality(Items) \in Nat
        /\ Count(rows) \in Nat /\ Count(failures) \in Nat
    BY <1>1, FS_Subset, FS_CardinalityType DEF Count
  <1>5. /\ told => /\ status.state = "running" /\ status.done = Count(rows)
                   /\ status.failed = Count(failures) /\ status.attempted = done + attempted
        /\ done + attempted + Cardinality(queue) = Cardinality(Items)
    BY DEF Tallies, Report
  <1>6. told => StatusIsHonest
    BY <1>3, <1>4, <1>5, PassTypes DEF StatusIsHonest
  <1> QED BY <1>1, <1>6 DEF Ledger

-----------------------------------------------------------------------------
(* Items, passes, files and supervisor: the invariant of an evaluation,    *)
(* however often the command dies and wherever.                            *)
THEOREM EvalInvariant == Spec => []EvalInv
  <1>1. Init => EvalInv
    BY EvalStart
  <1>2. EvalInv /\ [Next]_vars => EvalInv'
    <2> SUFFICES ASSUME EvalInv, [Next]_vars PROVE EvalInv'
      OBVIOUS
    <2>1. TypeOK' /\ StillCounting' /\ Watched'
      BY EvalTypesStep, WatchedStep DEF EvalInv
    <2> QED BY <2>1, LedgerStep, PassIsOverStep, PrimaryIsWholeStep, ScoredIsWholeStep,
           FilesStep DEF EvalInv
  <1> QED BY <1>1, <1>2, PTL DEF Spec

(* The state of an evaluation keeps its types.                             *)
THEOREM EvalTypes == Spec => []TypeOK
  <1>1. EvalInv => TypeOK
    BY DEF EvalInv
  <1> QED BY <1>1, EvalInvariant, PTL

(* eval_run.py: every item that was taken has one verdict or one failure,  *)
(* and a status file that was written says how many, for any items,        *)
(* workers and passes.                                                     *)
THEOREM EveryItemIsAccounted == Spec => []Accounted
  BY EvalInvariant, AccountedLemma, PTL

(* cli_eval.py: nothing is published from an incomplete evaluation, and no *)
(* part of a sensitivity.                                                  *)
(* results.py: what a crash can leave half written is the table, beside a  *)
(* whole JSON copy; and a supervisor that reports success leaves whole     *)
(* files of one attempt, with polars or without.                           *)
THEOREM OnlyWholeIsPublished == Spec => []PublishedIsWhole
  <1>1. EvalInv => PublishedIsWhole
    BY DEF EvalInv
  <1> QED BY <1>1, EvalInvariant, PTL
=============================================================================
